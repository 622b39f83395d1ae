-------------------------------- MODULE Child --------------------------------
(***************************************************************************)
(* One task process and the handle that owns it (src/cmd.rs): the shell    *)
(* leads a process group, its descendants may outlive it, ignore the       *)
(* cancel signal and keep its output pipe open; a forwarding thread reads  *)
(* the pipe into the bounded capture; the owner polls, shuts the group     *)
(* down within a grace period and drops the handle                         *)
(* (src/process_owner.rs keeps the registry of groups).  A line of output  *)
(* is a number and has size 1; stdout and stderr are treated alike, so one *)
(* of them is modelled.                                                    *)
(***************************************************************************)
EXTENDS Naturals, Sequences

CONSTANTS Descendants,     \* processes the shell may start
          CaptureBound,    \* CAPTURE_STREAM_BYTES
          MaxLines         \* bound: lines the group writes

VARIABLES owner,      \* what the owner does next
          outcome,    \* what it was told about the group
          piped,      \* output goes through the forwarding thread
          leader,     \* "none", "run", "zombie" (exited, not reaped), "reaped"
          alive,      \* descendants that run
          inPipe,     \* processes that have the pipe open for writing
          ignoring,   \* processes that ignore the cancel signal
          signalled,  \* processes with a cancel signal pending
          pipe,       \* lines written and not yet read
          forwarder,  \* "none", "reads", "ended"
          capture,    \* CaptureBuffer
          registered, \* the group is in OWNED_GROUPS
          written     \* ghost: lines written so far

childVars == <<owner, outcome, piped, leader, alive, inPipe, ignoring, signalled,
               pipe, forwarder, capture, registered, written>>

groupVars == <<leader, alive, inPipe, ignoring, signalled, pipe, written>>

EmptyCapture == [bytes |-> <<>>, observed |-> 0, truncated |-> FALSE]

ChildInit ==
    /\ owner = "spawn" /\ outcome = "none" /\ piped = FALSE
    /\ leader = "none" /\ alive = {} /\ inPipe = {} /\ ignoring = {} /\ signalled = {}
    /\ pipe = <<>> /\ forwarder = "none" /\ capture = EmptyCapture
    /\ registered = FALSE /\ written = 0

(* spawn_configured: pipes only for logging, capture, labels or quiet      *)
(* output; the group is registered, then the forwarding threads start.     *)
Spawn ==
    /\ owner = "spawn"
    /\ \E p \in BOOLEAN, deaf \in {{}, {"leader"}} :
         /\ piped' = p /\ ignoring' = deaf
         /\ inPipe' = IF p THEN {"leader"} ELSE {}
         /\ forwarder' = IF p THEN "reads" ELSE "none"
    /\ leader' = "run" /\ registered' = TRUE /\ owner' = "own"
    /\ UNCHANGED <<outcome, alive, signalled, pipe, capture, written>>

(* run_to_completion (hooks, blocking mode): the caller waits, nothing      *)
(* registers or signals the process.                                       *)
Execute ==
    /\ owner = "spawn"
    /\ \E p \in BOOLEAN :
         /\ piped' = p
         /\ inPipe' = IF p THEN {"leader"} ELSE {}
         /\ forwarder' = IF p THEN "reads" ELSE "none"
    /\ leader' = "run" /\ owner' = "wait"
    /\ UNCHANGED <<outcome, alive, ignoring, signalled, pipe, capture, registered, written>>

-----------------------------------------------------------------------------
(* The processes of the group.                                             *)
Running == alive \union (IF leader = "run" THEN {"leader"} ELSE {})

Fork(d, deaf, keeps) ==
    /\ leader = "run" /\ d \notin alive \union ignoring \union inPipe
    /\ alive' = alive \union {d}
    /\ ignoring' = IF deaf THEN ignoring \union {d} ELSE ignoring
    /\ inPipe' = IF keeps /\ piped THEN inPipe \union {d} ELSE inPipe
    /\ UNCHANGED <<owner, outcome, piped, leader, signalled, pipe, forwarder, capture,
                   registered, written>>

WriteLine(p) ==
    /\ p \in Running \intersect inPipe /\ written < MaxLines
    /\ written' = written + 1 /\ pipe' = Append(pipe, written')
    /\ UNCHANGED <<owner, outcome, piped, leader, alive, inPipe, ignoring, signalled,
                   forwarder, capture, registered>>

(* A process ends of itself, or of the signal.                             *)
Exit(p) ==
    /\ p \in Running
    /\ leader' = IF p = "leader" THEN "zombie" ELSE leader
    /\ alive' = alive \ {p} /\ inPipe' = inPipe \ {p} /\ signalled' = signalled \ {p}
    /\ UNCHANGED <<owner, outcome, piped, ignoring, pipe, forwarder, capture, registered,
                   written>>

-----------------------------------------------------------------------------
(* CaptureBuffer::append keeps the newest bytes.                           *)
Captured(c, line) ==
    LET all == Append(c.bytes, line)
        over == IF Len(all) > CaptureBound THEN Len(all) - CaptureBound ELSE 0
    IN [bytes |-> SubSeq(all, over + 1, Len(all)), observed |-> c.observed + 1,
        truncated |-> c.truncated \/ over > 0]

(* spawn_forwarding_thread: a line at a time until every writer has closed *)
(* the pipe.                                                               *)
Forward ==
    /\ forwarder = "reads"
    /\ \/ /\ pipe # <<>>
          /\ capture' = Captured(capture, Head(pipe)) /\ pipe' = Tail(pipe)
          /\ UNCHANGED forwarder
       \/ /\ pipe = <<>> /\ inPipe = {}
          /\ forwarder' = "ended"
          /\ UNCHANGED <<capture, pipe>>
    /\ UNCHANGED <<owner, outcome, piped, leader, alive, inPipe, ignoring, signalled,
                   registered, written>>

-----------------------------------------------------------------------------
(* A bug: the exit is reported without waiting for the output.             *)
ReapOnly(told) ==
    /\ leader = "zombie"
    /\ leader' = "reaped" /\ outcome' = told /\ owner' = "done"
    /\ UNCHANGED <<alive, inPipe, ignoring, signalled, pipe, written, piped, forwarder,
                   capture, registered>>

(* The owner.  Reap: waitpid took the leader's status, and the forwarding  *)
(* threads are joined next.                                                *)
Reap(told) ==
    /\ leader = "zombie"
    /\ leader' = "reaped" /\ outcome' = told /\ owner' = "join"
    /\ UNCHANGED <<alive, inPipe, ignoring, signalled, pipe, written, piped, forwarder,
                   capture, registered>>

(* try_wait and wait.                                                      *)
TryWait == owner \in {"own", "wait"} /\ Reap("exited")

Join ==
    /\ owner = "join" /\ forwarder \in {"none", "ended"}
    /\ owner' = "done"
    /\ UNCHANGED <<outcome, piped, forwarder, capture, registered>> /\ UNCHANGED groupVars

(* shutdown, also called when a live handle is dropped: an exited leader   *)
(* is only reaped, otherwise the whole group is signalled.                 *)
ShutdownGroup ==
    /\ owner = "own"
    /\ \/ Reap("already exited")
       \/ /\ leader = "run" /\ owner' = "grace"
          /\ signalled' = signalled \union (Running \ ignoring)
          /\ UNCHANGED <<outcome, piped, forwarder, capture, registered, leader, alive,
                         inPipe, ignoring, pipe, written>>

Grace == owner = "grace" /\ Reap("terminated")

(* The grace elapsed: SIGKILL to the group, wait for the leader.           *)
Escalate ==
    /\ owner = "grace"
    /\ leader' = "reaped" /\ alive' = {} /\ inPipe' = {} /\ signalled' = {}
    /\ outcome' = "escalated" /\ owner' = "join"
    /\ UNCHANGED <<piped, ignoring, pipe, forwarder, capture, registered, written>>

(* Drop ends with the group leaving the registry.                          *)
Drop ==
    /\ owner = "done"
    /\ registered' = FALSE /\ owner' = "dropped"
    /\ UNCHANGED <<outcome, piped, forwarder, capture>> /\ UNCHANGED groupVars

ChildNext ==
    \/ Spawn \/ Execute
    \/ \E d \in Descendants, deaf, keeps \in BOOLEAN : Fork(d, deaf, keeps)
    \/ \E p \in Running : WriteLine(p) \/ Exit(p)
    \/ Forward \/ TryWait \/ Join \/ ShutdownGroup \/ Grace \/ Escalate \/ Drop

ChildSpec == ChildInit /\ [][ChildNext]_childVars

(* The scheduler runs the owner and the forwarding thread, and a process   *)
(* with a pending signal ends.                                             *)
ChildFairSpec ==
    /\ ChildSpec
    /\ WF_childVars(Forward \/ Join \/ Escalate \/ Drop \/ Grace)
    /\ WF_childVars(\E p \in signalled : Exit(p))
-----------------------------------------------------------------------------
(* When the owner is told that the task has ended, the capture holds the   *)
(* newest lines that the group wrote, all of them counted and the loss of  *)
(* older ones marked, and nothing is written afterwards ("joined once the  *)
(* child finishes so no output is lost", LoggedChild), however reading,    *)
(* exits and the shutdown interleave; a shutdown that escalated left no    *)
(* process of the group.                                                   *)
EndedMeansComplete ==
    owner \in {"done", "dropped"} =>
      /\ leader = "reaped"
      /\ piped => /\ capture.observed = written
                  /\ capture.bytes = [i \in 1..Len(capture.bytes) |->
                                        written - Len(capture.bytes) + i]
                  /\ capture.truncated = (written > CaptureBound)
                  /\ Len(capture.bytes) = IF capture.truncated THEN CaptureBound ELSE written
      /\ outcome = "escalated" => alive = {}

(* ShutdownOutcome::Terminated: "The group terminated after the initial    *)
(* signal, within the grace period."                                       *)
TerminatedGroupIsGone == owner \in {"done", "dropped"} /\ outcome = "terminated" => alive = {}

(* process_owner: "tracks those groups so that every shutdown path ...     *)
(* reaches the whole task tree (shell + descendants)".                     *)
LiveGroupIsOwned == Running # {} => registered

(* LoggedChild::shutdown: "waits up to `grace` for exit, then escalates".  *)
ShutdownReturns == (owner = "grace") ~> (owner = "dropped")
=============================================================================
