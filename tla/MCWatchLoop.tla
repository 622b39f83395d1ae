---------------------------- MODULE MCWatchLoop ----------------------------
\* Instance of WatchLoop for TLC: one file system operation fewer when the
\* directory d is there from the start, and events without a write only then.
EXTENDS WatchLoop

MCInit == WatchInit /\ <<clock, chatter>> = IF Exists("d") THEN <<2, 0>> ELSE <<1, MaxChatter>>
MCSpec == MCInit /\ [][WatchNext]_vars
=============================================================================
