------------------------------ MODULE MCControl ------------------------------
(* Two instances of Control in one run: one command of every kind against  *)
(* a watcher that may be restarted; and one command beside a subscriber    *)
(* that takes the server's only slot, the watcher being the last that can  *)
(* be started and having one generation behind it.  `run`, `await` and     *)
(* `cancel` are left out: what they call begins or ends the other ones.    *)
EXTENDS Control

CONSTANTS c1, c2

MCCommands ==
    [c \in Clients |->
        IF c = c1 THEN {"status", "run wait", "run in sequence", "emit wait",
                        "cancel wait", "output"}
        ELSE {"subscribe"}]

MCInit ==
    \/ /\ srv = 1 /\ alive = TRUE /\ listening = TRUE
       /\ proc = [s \in Servers |-> 1]
       /\ gens = [p \in Servers |-> <<>>]
       /\ cl = [c \in Clients |-> IF c = c1 THEN Idle ELSE [Idle EXCEPT !.pc = "done"]]
       /\ slots = [s \in Servers |-> 0] /\ conn = [k \in Conns |-> Free] /\ noted = {}
    \/ /\ srv = MaxServers /\ alive = TRUE /\ listening = TRUE
       /\ proc = [s \in Servers |-> s]
       /\ gens = [p \in Servers |-> IF p = MaxServers
                    THEN [g \in 1..(MaxGen - 1) |-> [st |-> "passed", by |-> NoConn]] ELSE <<>>]
       /\ cl = [c \in Clients |-> Idle]
       /\ slots = [s \in Servers |-> 0] /\ conn = [k \in Conns |-> Free] /\ noted = {}

MCSpec == MCInit /\ [][Next]_vars /\ \A c \in Clients : WF_vars(ClientStep(c))
=============================================================================
