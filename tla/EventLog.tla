------------------------------ MODULE EventLog ------------------------------
(***************************************************************************)
(* The NDJSON run-event stream (src/event_stream.rs): the sinks of several *)
(* processes (a watcher, local runs, a watcher started again) that append  *)
(* to one file.  A record is written by one system call, or by two when    *)
(* the first writes only part of it; either may fail.  A record is told by *)
(* its process and its number; its second half ends with the newline.      *)
(***************************************************************************)
EXTENDS Naturals, Sequences, FiniteSets, SequencesExt

CONSTANTS Sinks,        \* processes that open the stream
          MaxEmitted    \* bound: events each process emits

ASSUME EventLogAssumption == MaxEmitted \in Nat

VARIABLES sink,      \* sink[p]: "unopened", "open", "writing", "disabled", "gone"
          emitted,   \* emitted[p]: events its executor has emitted
          log,       \* the file: halves of records
          shorts     \* ghost: system calls that wrote part of a record

eventLogVars == <<sink, emitted, log, shorts>>

EventLogInit ==
    /\ sink = [p \in Sinks |-> "unopened"]
    /\ emitted = [p \in Sinks |-> 0]
    /\ log = <<>> /\ shorts = 0

Half(p, n, part) == [by |-> p, n |-> n, half |-> part]
FirstHalf(p, n) == Half(p, n, 1)
SecondHalf(p, n) == Half(p, n, 2)

\* open: append mode, an existing file is continued as it is.
OpenStream(p) ==
    /\ sink[p] = "unopened"
    /\ sink' = [sink EXCEPT ![p] = "open"]
    /\ UNCHANGED <<emitted, log, shorts>>

\* A bug: the record stays in the BufWriter.
EmitUnflushed(p) ==
    /\ sink[p] = "open" /\ emitted[p] < MaxEmitted
    /\ emitted' = [emitted EXCEPT ![p] = @ + 1]
    /\ UNCHANGED <<sink, log, shorts>>

\* emit: the record and the flush under the writer's lock.
EmitWhole(p) ==
    /\ sink[p] = "open" /\ emitted[p] < MaxEmitted
    /\ emitted' = [emitted EXCEPT ![p] = @ + 1]
    /\ log' = log \o <<FirstHalf(p, emitted'[p]), SecondHalf(p, emitted'[p])>>
    /\ UNCHANGED <<sink, shorts>>

\* The lock is held while the rest is written; other processes go on.
EmitPart(p) ==
    /\ sink[p] = "open" /\ emitted[p] < MaxEmitted
    /\ emitted' = [emitted EXCEPT ![p] = @ + 1]
    /\ log' = Append(log, FirstHalf(p, emitted'[p]))
    /\ sink' = [sink EXCEPT ![p] = "writing"]
    /\ shorts' = shorts + 1

EmitRest(p) ==
    /\ sink[p] = "writing"
    /\ log' = Append(log, SecondHalf(p, emitted[p]))
    /\ sink' = [sink EXCEPT ![p] = "open"]
    /\ UNCHANGED <<emitted, shorts>>

\* A write fails: the sink warns and is dropped for good.  The BufWriter that
\* is dropped tries once more to write what it holds.
EmitFails(p) ==
    /\ \/ sink[p] = "writing" /\ UNCHANGED emitted
       \/ /\ sink[p] = "open" /\ emitted[p] < MaxEmitted
          /\ emitted' = [emitted EXCEPT ![p] = @ + 1]
    /\ \/ UNCHANGED log
       \/ /\ log' = log \o (IF sink[p] = "open" THEN <<FirstHalf(p, emitted'[p])>> ELSE <<>>)
                        \o <<SecondHalf(p, emitted'[p])>>
    /\ sink' = [sink EXCEPT ![p] = "disabled"]
    /\ UNCHANGED shorts

\* Events go on once the sink is disabled.
EmitNothing(p) ==
    /\ sink[p] = "disabled" /\ emitted[p] < MaxEmitted
    /\ emitted' = [emitted EXCEPT ![p] = @ + 1]
    /\ UNCHANGED <<sink, log, shorts>>

\* The process is killed: what its BufWriter holds is lost.
Killed(p) ==
    /\ sink[p] \notin {"unopened", "gone"}
    /\ sink' = [sink EXCEPT ![p] = "gone"]
    /\ UNCHANGED <<emitted, log, shorts>>

EventLogNext == \E p \in Sinks :
    \/ OpenStream(p) \/ EmitWhole(p) \/ EmitPart(p) \/ EmitRest(p)
    \/ EmitFails(p) \/ EmitNothing(p) \/ Killed(p)

EventLogSpec == EventLogInit /\ [][EventLogNext]_eventLogVars
-----------------------------------------------------------------------------
Ends == {i \in DOMAIN log : log[i].half = 2}

\* A line that a reader can parse: the two halves of one record and no more.
Readable(i) ==
    /\ i \in Ends /\ i > 1
    /\ log[i - 1] = [log[i] EXCEPT !.half = 1]
    /\ i = 2 \/ i - 2 \in Ends

ReadableOf(p) == SelectSeq([i \in DOMAIN log |-> IF Readable(i) THEN log[i] ELSE Half(p, 0, 0)],
                           LAMBDA r : r.by = p /\ r.n > 0)

\* Every event is a line of its own when emit returns, in the order of the
\* run and whatever the other processes append, up to the first failure; the
\* lines lost to a reader are no more than the records cut by a system call
\* and the ones that follow them directly (EventStream::emit).
EventsAreOnFile ==
    /\ \A p \in Sinks : LET lines == ReadableOf(p) IN
          /\ \A i, j \in DOMAIN lines : i < j => lines[i].n < lines[j].n
          /\ shorts = 0 /\ sink[p] = "open" => Len(lines) = emitted[p]
    /\ Cardinality({i \in Ends : ~Readable(i)}) <= 2 * shorts

-----------------------------------------------------------------------------
\* event_stream.rs:22 "every record is one atomic line (no interleaving)".
LinesAreWhole == \A i \in Ends : Readable(i)
=============================================================================
