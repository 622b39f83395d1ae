---------------------------- MODULE MCObservers -----------------------------
(***************************************************************************)
(* Two instances of Observers in one state space: two generations and a    *)
(* connection that awaits them, or one generation, a subscriber, file      *)
(* changes and a configuration reload.                                     *)
(***************************************************************************)
EXTENDS Observers

VARIABLE scenario

MCInit == Init /\ scenario \in {"await", "subscribe"}

MCNext ==
    /\ Next
    /\ UNCHANGED scenario
    /\ IF scenario = "await"
       THEN UNCHANGED <<sub, config, batch>>
       ELSE UNCHANGED waiter /\ \A gen \in 2 .. MaxGen : status'[gen] = "unknown"

MCSpec == MCInit /\ [][MCNext]_<<vars, scenario>> /\ Fairness
=============================================================================
