----------------------------- MODULE MCExecutor -----------------------------
(* Executor with two plans, under every mode.                              *)
EXTENDS Executor, TLC

MCJobs == 1 .. 4

Serial(j) == [parallel |-> FALSE, jobs |-> << j >>]
Group(js) == [parallel |-> TRUE, jobs |-> js]

(* A group of three with two recoverable jobs, then a job of two commands. *)
Recoverable ==
    [stages |-> << Group(<< 1, 2, 3 >>), Serial(4) >>, extra |-> << >>,
     commands |-> [j \in MCJobs |-> IF j = 4 THEN 2 ELSE 1],
     recovery |-> [j \in MCJobs |-> IF j \in {1, 2} THEN 1 ELSE 0], services |-> {}]

(* A service of two commands, then a group with a recoverable job; a       *)
(* service is appended.                                                    *)
Serviced ==
    [stages |-> << Serial(1), Group(<< 2, 3 >>) >>, extra |-> << Serial(4) >>,
     commands |-> [j \in MCJobs |-> IF j = 1 THEN 2 ELSE 1],
     recovery |-> [j \in MCJobs |-> IF j = 2 THEN 1 ELSE 0], services |-> {1, 4}]

Moded(plan) ==
    {plan @@ [failFast |-> f, prompt |-> p, sequential |-> s] :
        f \in BOOLEAN, p \in BOOLEAN, s \in BOOLEAN}

MCPlans == Moded(Recoverable) \cup Moded(Serviced)
=============================================================================
