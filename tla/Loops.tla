------------------------------- MODULE Loops -------------------------------
(***************************************************************************)
(* The feedback-loop diagnostics (src/diagnostics.rs) and the trigger      *)
(* observations that feed them (src/watch_loop.rs).  The detector is shared*)
(* behind one lock; time is the monotonic clock, which moves between any   *)
(* two observations.  The rule of a key is the first change pattern of its *)
(* job, so a key is told by job and path.                                  *)
(***************************************************************************)
EXTENDS Naturals, Sequences, FiniteSets

CONSTANTS Matched,        \* Matched[path]: the jobs that explain(path) matches
          Window,         \* LoopPolicy.window
          MinRepeats,     \* LoopPolicy.min_repeats
          MaxKeys,        \* MAX_KEYS
          MaxTriggers     \* bound: triggers observed

ASSUME LoopsAssumption ==
    {Window, MinRepeats, MaxKeys, MaxTriggers} \subseteq Nat \ {0}

VARIABLES verbose,   \* is STATE initialized?
          now,       \* the clock
          entries,   \* LoopDetector.entries
          recent,    \* LoopDetector.task_recent
          todo,      \* matched jobs of the trigger still to be observed
          triggers,  \* triggers so far; the generation of the last one
          after,     \* observed_after_run of the last observation
          chain      \* ghost: the chain of each key, by its definition

loopsVars == <<verbose, now, entries, recent, todo, triggers, after, chain>>

Keys == UNION {{[job |-> Matched[p][i], path |-> p] : i \in DOMAIN Matched[p]} :
                  p \in DOMAIN Matched}
JobNames == {k.job : k \in Keys}

Absent == [count |-> 0, seen |-> 0, warned |-> FALSE]
Present(map) == {k \in DOMAIN map : map[k].seen > 0}
NoChain == [length |-> 0, first |-> 0, last |-> 0, others |-> {}, reports |-> 0]

\* init: without --verbose there is no sink and nothing is observed.
LoopsInit ==
    /\ verbose \in BOOLEAN
    /\ now = 1
    /\ entries = [k \in Keys |-> Absent]
    /\ recent = [j \in JobNames |-> [seen |-> 0, run |-> 0]]
    /\ todo = <<>> /\ triggers = 0 /\ after = 0
    /\ chain = [k \in Keys |-> NoChain]

\* observe_triggers: one observation for each matched job, in order, with the
\* generation the strategy scheduled, or 0 where it reports none.
Trigger(path, generation) ==
    /\ todo = <<>> /\ triggers < MaxTriggers
    /\ triggers' = triggers + 1
    /\ todo' = IF verbose
               THEN [i \in DOMAIN Matched[path] |->
                        [key |-> [job |-> Matched[path][i], path |-> path],
                         run |-> generation]]
               ELSE <<>>
    /\ UNCHANGED <<verbose, now, entries, recent, after, chain>>

-----------------------------------------------------------------------------
Within(seen, t) == t - seen <= Window

\* prune: what the window has passed.
Pruned(map, gone, t) ==
    [k \in DOMAIN map |-> IF map[k].seen > 0 /\ Within(map[k].seen, t) THEN map[k] ELSE gone]

\* A bug: the map is bounded, but the entry that leaves is arbitrary.
CappedAnyhow(map, gone) ==
    IF Cardinality(Present(map)) <= MaxKeys THEN map
    ELSE [map EXCEPT ![CHOOSE k \in Present(map) : TRUE] = gone]

\* cap: the one seen longest ago leaves.  An observation adds at most one.
Capped(map, gone) ==
    LET oldest == CHOOSE k \in Present(map) :
                      \A other \in Present(map) : map[k].seen <= map[other].seen
    IN  IF Cardinality(Present(map)) <= MaxKeys THEN map ELSE [map EXCEPT ![oldest] = gone]

Warns(entry) == entry.count >= MinRepeats /\ ~entry.warned

\* The entry after one more trigger, before the warning is decided.
OnceMore(entry, t) == [entry EXCEPT !.count = @ + 1, !.seen = t]

\* The chain of the key by definition: it goes on as long as the next trigger
\* comes within the window and fewer than MAX_KEYS other keys came between.
Extended(c, k, t, warns) ==
    LET goes == c.length > 0 /\ Within(c.last, t) /\ Cardinality(c.others) < MaxKeys
        base == IF goes THEN c ELSE [NoChain EXCEPT !.first = t]
    IN  [base EXCEPT !.length = @ + 1, !.last = t, !.others = {},
                     !.reports = IF warns THEN @ + 1 ELSE @]

\* LoopDetector::observe.
ObserveTrigger(gap) ==
    /\ todo # <<>>
    /\ now' = now + gap
    /\ LET k == Head(todo).key
           run == Head(todo).run
           kept == Pruned(entries, Absent, now')
           runs == Pruned(recent, [seen |-> 0, run |-> 0], now')
           entry == OnceMore(kept[k], now')
           warns == Warns(entry)
       IN  /\ after' = runs[k.job].run
           /\ entries' = Capped([kept EXCEPT ![k] = [entry EXCEPT !.warned = @ \/ warns]], Absent)
           /\ recent' = IF run = 0 THEN runs
                        ELSE Capped([runs EXCEPT ![k.job] = [seen |-> now', run |-> run]],
                                    [seen |-> 0, run |-> 0])
           /\ chain' = [x \in Keys |->
                 IF x = k THEN Extended(chain[k], k, now', warns)
                 ELSE [chain[x] EXCEPT !.others = @ \cup {k}]]
    /\ todo' = Tail(todo)
    /\ UNCHANGED <<verbose, triggers>>

LoopsNext ==
    \/ \E path \in DOMAIN Matched, generation \in {0, triggers + 1} : Trigger(path, generation)
    \/ \E gap \in {1, Window, Window + 1} : ObserveTrigger(gap)

LoopsSpec == LoopsInit /\ [][LoopsNext]_loopsVars
-----------------------------------------------------------------------------
\* A chain of min_repeats triggers of one job by one path is reported, once,
\* and a shorter one never is, however the triggers of other keys interleave:
\* the bound on the state costs a chain only when as many other keys as the
\* detector holds came between two of its triggers (LoopDetector::observe,
\* prune and cap).  The run a trigger is correlated with is an earlier one,
\* "never the current one".
LoopIsReportedOnce ==
    /\ \A k \in Keys : chain[k].reports = IF chain[k].length >= MinRepeats THEN 1 ELSE 0
    /\ after # 0 => after < triggers

-----------------------------------------------------------------------------
\* Statements of the comments that do not hold; see the README.

\* diagnostics.rs:149 "Time window inside which repeats accumulate for one
\* trigger chain": the repeats of a report all happened within the window.
RepeatsAreWithinTheWindow ==
    \A k \in Keys : chain[k].reports > 0 => chain[k].last - chain[k].first <= Window
=============================================================================
