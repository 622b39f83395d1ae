------------------------------ MODULE MCReload ------------------------------
(* Reload with a configuration, one that adds a root, one that replaces    *)
(* the root and the socket, one that does that and adds a root, one        *)
(* without a socket, and one with the same hash, started with the first    *)
(* (liveness rules out SYMMETRY).                                          *)
EXTENDS Reload

CONSTANTS r1, r2, s1, s2

MCRoots == {r1, r2}
MCSockets == {s1, s2}

Config(roots, socket, rest) == [roots |-> roots, socket |-> socket, rest |-> rest]
Started == Config({r1}, s1, 1)
MCConfigs == {Started, Config({r1, r2}, s1, 1), Config({r2}, s2, 1), Config({r1, r2}, s2, 1),
              Config({r1}, NoSocket, 1), Config({r1}, s1, 2)}

MCInit == Init /\ file = Started

MCSpec == MCInit /\ [][Next]_vars /\ Fairness
=============================================================================
