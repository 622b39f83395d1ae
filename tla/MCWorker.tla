------------------------------ MODULE MCWorker ------------------------------
(* Worker with a watch-loop thread and a control thread.                   *)
EXTENDS Worker, TLC

CONSTANTS c1, c2

(* Two threads that make every call but those about services.              *)
AnyCalls == [c \in Clients |-> {"Run", "CancelExact", "CancelAny", "Drop"}]

(* The watch loop owns the worker and reloads; a control thread runs and   *)
(* cancels generations.                                                    *)
OwnCalls == [c \in Clients |-> IF c = c1 THEN {"Run", "CancelAny", "Services", "Drop"}
                                         ELSE {"Run", "CancelExact"}]

ClientSymmetry == Permutations(Clients)
=============================================================================
