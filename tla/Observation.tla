----------------------------- MODULE Observation ----------------------------
(***************************************************************************)
(* How one event changes what the watcher tells its clients: the latest    *)
(* generation's view (watcher_state.rs), the await coordinator's book of   *)
(* terminal outcomes (awaiting.rs), and the freshness they are classified  *)
(* by.  Passed and Failed are one outcome, Finished; a generation is its   *)
(* id, with 0 for none.                                                    *)
(***************************************************************************)
EXTENDS Integers, Sequences

(* WatcherState.                                                           *)
IdleView == [gen |-> 0, state |-> "Idle", by |-> 0]

(* WatcherState::apply.  Only Started names the generation: a terminal     *)
(* event changes the state of whatever generation the view shows.          *)
Apply(view, event) ==
    IF event.type = "Started"
    THEN [gen |-> event.gen, state |-> "Running", by |-> 0]
    ELSE [view EXCEPT !.state = event.type, !.by = event.rel]

(* AwaitInner.                                                             *)
EmptyBook == [latest |-> 0, terminal |-> << >>, debounce |-> FALSE]

Larger(m, n) == IF m > n THEN m ELSE n

Reason(event) ==
    IF event.type = "Cancelled" /\ event.rel # 0 THEN "Superseded" ELSE event.type

(* AwaitCoordinator::record keeps the newest `bound` outcomes by arrival.  *)
Record(terminal, entry, bound) ==
    LET all == Append(terminal, entry) IN
    IF Len(all) > bound THEN SubSeq(all, Len(all) - bound + 1, Len(all)) ELSE all

(* Mutant: only the generations that finish are recorded.                  *)
ObserveFinishedOnly(book, event, bound) ==
    IF event.type = "Finished"
    THEN [book EXCEPT !.latest = Larger(@, event.gen),
                      !.terminal = Record(@, [gen |-> event.gen, reason |-> "Finished"], bound)]
    ELSE [book EXCEPT !.latest = Larger(@, event.gen)]

(* AwaitCoordinator::observe.                                              *)
Observe(book, event, bound) ==
    IF event.type = "Started"
    THEN [book EXCEPT !.latest = Larger(@, event.gen)]
    ELSE [book EXCEPT
            !.latest = Larger(Larger(@, event.gen), event.rel),
            !.terminal = Record(@, [gen |-> event.gen, reason |-> Reason(event)], bound)]

(* AwaitCoordinator::evaluate: the last entry that answers the mode.       *)
Answers(entry, mode) ==
    \/ mode.kind = "Exact" /\ entry.gen = mode.gen
    \/ mode.kind = "After" /\ entry.gen > mode.gen

EvaluatesTo(terminal, mode, i) ==
    /\ i \in 1 .. Len(terminal)
    /\ Answers(terminal[i], mode)
    /\ \A j \in (i + 1) .. Len(terminal) : ~Answers(terminal[j], mode)

(* classify: the freshness rule.                                           *)
Classify(view, latest, debounce) ==
    IF /\ view.gen = latest
       /\ view.state \in {"Finished", "Cancelled"}
       /\ ~debounce
    THEN "Current"
    ELSE IF latest > view.gen \/ debounce THEN "Stale" ELSE "Unknown"
=============================================================================
