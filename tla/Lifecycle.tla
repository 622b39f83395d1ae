----------------------------- MODULE Lifecycle ------------------------------
(***************************************************************************)
(* What the worker promises about generations, whatever its threads do: a  *)
(* generation is scheduled, starts at most once, and ends at most once; a  *)
(* generation that ended or vanished never comes back; and the generation  *)
(* that runs has ended before the next one starts.                         *)
(***************************************************************************)
EXTENDS Integers

CONSTANT Gens

VARIABLE status

Statuses == {"unknown", "scheduled", "running", "finished", "cancelled", "vanished"}

Init == status = [gen \in Gens |-> "unknown"]

Move(gen, from, to) ==
    /\ status[gen] = from
    /\ status' = [status EXCEPT ![gen] = to]

Schedule(gen) == Move(gen, "unknown", "scheduled")

Start(gen) ==
    /\ \A other \in Gens : status[other] # "running"
    /\ Move(gen, "scheduled", "running")

Finish(gen) == Move(gen, "running", "finished")
Cancel(gen) == Move(gen, "running", "cancelled")
Discard(gen) == Move(gen, "scheduled", "cancelled")
Vanish(gen) == Move(gen, "scheduled", "vanished")

Next ==
    \E gen \in Gens :
        \/ Schedule(gen)
        \/ Start(gen)
        \/ Finish(gen)
        \/ Cancel(gen)
        \/ Discard(gen)
        \/ Vanish(gen)

Spec == Init /\ [][Next]_status
=============================================================================
