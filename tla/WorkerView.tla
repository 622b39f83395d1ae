----------------------------- MODULE WorkerView -----------------------------
(***************************************************************************)
(* What a client of `status` reads once the worker's events, in the order  *)
(* they were emitted, have gone through the view and the coordinator.      *)
(***************************************************************************)
EXTENDS Worker, SequencesExt

CONSTANT HistoryBound  \* TERMINAL_HISTORY_BOUND

(* Every client runs and cancels generations.                              *)
ViewCalls == [c \in Clients |-> {"Run", "CancelExact"}]

O == INSTANCE Observation

View == FoldLeft(O!Apply, O!IdleView, log)

Book == FoldLeft(LAMBDA book, event : O!Observe(book, event, HistoryBound),
                 O!EmptyBook, log)

(* "Correlation fields belong to the same generation and are updated under *)
(* one lock, so one read never mixes generations" (watcher_state.rs): the  *)
(* state shown beside a generation is the state that generation is in.     *)
ViewIsOfItsGeneration ==
    View.gen # NoGen /\ View.state \in {"Finished", "Cancelled"} => HasEnded(View.gen)

(* "current only when the snapshot is the latest scheduled generation,     *)
(* terminal" (awaiting.rs): what is classified Current has ended.          *)
CurrentHasEnded ==
    O!Classify(View, Book.latest, FALSE) = "Current" => HasEnded(View.gen)
=============================================================================
