--------------------------- MODULE ShutdownProofs ---------------------------
(***************************************************************************)
(* For every set of hooks and every bound: one thread reaps, what main or  *)
(* the reload thread asked for is reaped before the close hook runs, and   *)
(* the hook and the reason of a shutdown are decided once.                 *)
(***************************************************************************)
EXTENDS Shutdown, TLAPS

MainSteps == {"starting", "gate", "routing", "running", "held", "watching", "failed",
              "reap", "collect", "wait", "join", "close", "hooking", "record", "exited"}
Steps == MainSteps \cup {"idle", "committed"}

(* The positions of main from the claim of `finish` on.                    *)
Closing == {"reap", "collect", "wait", "close", "hooking", "record", "exited"}

(* Who reaps: a winner of `request`, named by the reason it gave, or main  *)
(* in `finish`; and the swap lets one of them through.                     *)
ReapersAreKnown ==
    /\ Reaping("signal") => reason = "Signal"
    /\ Reaping("reload") => reason = "FatalConfig"
    /\ Reaping("main") => phase = "Finishing" \/ reason = "Operational"
    /\ \A t \in Threads : at[t] \in {"collect", "wait"} => reaped
    /\ OneReaper

(* What the phase says of main and of the reload thread, which is joined   *)
(* before the phase of `finish`.                                           *)
PhasesAreOfMain ==
    /\ requested <=> phase # "Running"
    /\ at["main"] \in {"starting", "gate", "routing", "running", "held", "watching", "failed",
                       "join"} =>
          phase \in {"Running", "Requested"}
    /\ at["main"] \in Closing \cup {"join"} => phase # "Running"
    /\ at["main"] \in {"close", "hooking", "record"} => phase = "Finishing"
    /\ at["main"] = "exited" => phase = "Finished"
    /\ phase = "Finished" => at["main"] = "exited"
    /\ phase = "Finishing" => at["reload"] = "exited"

(* What a claim has frozen.  Readiness comes before it or not at all.      *)
ClaimIsFrozen ==
    /\ phase = "Running" => reason = "none"
    /\ phase # "Running" => hook = FrozenHook
    /\ at["main"] \in {"starting", "gate", "failed"} => ~ready
    /\ at["main"] = "hooking" => ready

IInv ==
    /\ TypeOK
    /\ at \in [Threads -> Steps]
    /\ ReapersAreKnown
    /\ PhasesAreOfMain
    /\ ClaimIsFrozen
-----------------------------------------------------------------------------
(* The starting state satisfies the invariant.                             *)
LEMMA InitIInv == Init => IInv
<1> SUFFICES ASSUME Init PROVE IInv
  BY Zenon
<1>1. TypeOK
  <2>1. {} \subseteq 0 .. spawned /\ spawned \in 0 .. MaxSpawns
    BY BoundsAssumption DEF Init
  <2> QED
    BY <2>1, Zenon DEF Init, TypeOK, Threads, Reasons, HookResults
<1>2. at \in [Threads -> Steps]
  BY Zenon DEF Init, Threads, Steps, MainSteps
<1>3. ReapersAreKnown /\ PhasesAreOfMain /\ ClaimIsFrozen
  BY Zenon DEF Init, ReapersAreKnown, PhasesAreOfMain, ClaimIsFrozen, OneReaper, Reaping, Threads, Closing
<1> QED
  BY <1>1, <1>2, <1>3, Zenon DEF IInv

(* The two outcomes of `request`: the claim, and a repetition that may ask *)
(* the hook to hurry.                                                      *)
Claims(t, why, won) ==
    /\ phase = "Running"
    /\ phase' = "Requested" /\ reason' = why /\ hook' = FrozenHook /\ requested' = TRUE
    /\ Goto(t, won)
    /\ UNCHANGED <<ready, committed, accelerate, ownerVars, outcome>>

Repeats(t, lost) ==
    /\ phase # "Running" /\ accelerate' \in BOOLEAN
    /\ Goto(t, lost)
    /\ UNCHANGED <<phase, reason, hook, ready, committed, requested, ownerVars, outcome>>

LEMMA RequestCases ==
    ASSUME NEW t, NEW why, NEW won, NEW lost, Request(t, why, won, lost)
    PROVE  Claims(t, why, won) \/ Repeats(t, lost)
BY Zenon DEF Request, Claims, Repeats

(* Every step of every thread keeps it.                                    *)
LEMMA NextIInv == IInv /\ [Next]_vars => IInv'
<1> SUFFICES ASSUME IInv, [Next]_vars PROVE IInv'
  BY Zenon
<1> USE DEF IInv, TypeOK, Threads, Steps, MainSteps, Reasons, HookResults, ReapersAreKnown,
            PhasesAreOfMain, ClaimIsFrozen, OneReaper, Reaping, Closing, FrozenHook, Goto,
            coordinatorVars, ownerVars, countVars
<1>1. CASE StartupFails
  BY <1>1 DEF StartupFails
<1>2. CASE CrossGate
  BY <1>2 DEF CrossGate
<1>3. CASE MarkReady
  BY <1>3 DEF MarkReady
<1>4. CASE WatchReturns
  BY <1>4 DEF WatchReturns
<1>22. CASE Routed
  BY <1>22 DEF Routed
<1>23. CASE RunInline
  BY <1>23 DEF RunInline
<1>24. CASE Hold
  BY <1>24 DEF Hold
<1>25. CASE Release
  BY <1>25 DEF Release
<1>26. CASE RunEnds
  BY <1>26 DEF RunEnds
<1>27. CASE BatchComes
  BY <1>27 DEF BatchComes
<1>5. CASE RequestOperational
  <2>1. Claims("main", "Operational", "reap") \/ Repeats("main", "join")
    BY <1>5, RequestCases, Zenon DEF RequestOperational
  <2>2. UNCHANGED <<mode, live>> /\ at["main"] = "failed"
    BY <1>5, Zenon DEF RequestOperational
  <2>3. CASE Claims("main", "Operational", "reap")
    BY <2>2, <2>3 DEF Claims
  <2>4. CASE Repeats("main", "join")
    BY <2>2, <2>4 DEF Repeats
  <2> QED
    BY <2>1, <2>3, <2>4, Zenon
<1>6. CASE Finish
  BY <1>6 DEF Finish
<1>7. CASE SkipHook
  BY <1>7, HooksAssumption DEF SkipHook
<1>8. CASE SpawnHook
  BY <1>8, BoundsAssumption DEF SpawnHook, HookGroup
<1>9. CASE Record
  BY <1>9 DEF Record
<1>10. CASE \E result \in HookResults : HookEnds(result)
  BY <1>10 DEF HookEnds, HookGroup
<1>11. CASE \E t \in Threads : ReapSwap(t)
  BY <1>11 DEF ReapSwap, AfterReap
<1>12. CASE \E t \in Threads : ReapCollect(t)
  BY <1>12 DEF ReapCollect
<1>13. CASE \E t \in Threads : ReapEnd(t)
  BY <1>13 DEF ReapEnd, AfterReap
<1>14. CASE Signal
  <2>1. Claims("signal", "Signal", "reap") \/ Repeats("signal", "idle")
    BY <1>14, RequestCases, Zenon DEF Signal
  <2>2. UNCHANGED <<mode, live>> /\ at["signal"] = "idle"
    BY <1>14, Zenon DEF Signal
  <2>3. CASE Claims("signal", "Signal", "reap")
    BY <2>2, <2>3 DEF Claims
  <2>4. CASE Repeats("signal", "idle")
    BY <2>2, <2>4 DEF Repeats
  <2> QED
    BY <2>1, <2>3, <2>4, Zenon
<1>15. CASE \E candidate \in Hooks \cup {NoHook} : CommitReload(candidate)
  BY <1>15 DEF CommitReload, Alive
<1>16. CASE UpdateHooks
  BY <1>16 DEF UpdateHooks
<1>17. CASE FatalReload
  <2>1. Claims("reload", "FatalConfig", "reap") \/ Repeats("reload", "idle")
    BY <1>17, RequestCases, Zenon DEF FatalReload
  <2>2. UNCHANGED <<mode, live>> /\ at["reload"] = "idle"
    BY <1>17, Zenon DEF FatalReload
  <2>3. CASE Claims("reload", "FatalConfig", "reap")
    BY <2>2, <2>3 DEF Claims
  <2>4. CASE Repeats("reload", "idle")
    BY <2>2, <2>4 DEF Repeats
  <2> QED
    BY <2>1, <2>3, <2>4, Zenon
<1>18. CASE ReloadReturns
  BY <1>18 DEF ReloadReturns
<1>19. CASE Spawn
  BY <1>19, BoundsAssumption DEF Spawn
<1>20. CASE TaskEnds
  BY <1>20 DEF TaskEnds
<1>21. CASE UNCHANGED vars
  BY <1>21 DEF vars
<1> QED
  BY <1>1, <1>2, <1>3, <1>4, <1>5, <1>6, <1>7, <1>8, <1>9, <1>10, <1>11, <1>12, <1>13, <1>14, <1>15, <1>16, <1>17, <1>18, <1>19, <1>20, <1>21, <1>22, <1>23, <1>24, <1>25, <1>26, <1>27, Zenon DEF Next, MainStep, ReloadStep, ReapStep

(* The groups are reaped by one thread, and before a close hook that main  *)
(* or the reload thread asked for runs: reap_once, and the join of the     *)
(* reload thread before `finish`, suffice for any number of signals,       *)
(* reloads and tasks.                                                      *)
THEOREM ReapedOnceAndFirstHolds == Spec => []ReapedOnceAndFirst
<1>1. IInv => ReapedOnceAndFirst
  BY Zenon DEF IInv, ReapersAreKnown, PhasesAreOfMain, ReapedOnceAndFirst, ReapPrecedesHook, Reaping, Threads
<1> QED
  BY InitIInv, NextIInv, <1>1, PTL DEF Spec

(* The hook that runs is the committed one of a ready watcher, and neither *)
(* it nor the reason changes after the claim (request, mark_ready,         *)
(* update_hooks).                                                          *)
THEOREM HookIsDecidedOnceHolds == Spec => HookIsDecidedOnce
<1> DEFINE Decided == phase # "Running" => reason' = reason /\ hook' = hook
<1>1. IInv => HookIsCommitted
  BY Zenon DEF IInv, PhasesAreOfMain, ClaimIsFrozen, HookIsCommitted, FrozenHook
<1>2. IInv /\ [Next]_vars => [Decided]_vars
  BY Zenon DEF Next, MainStep, ReloadStep, ReapStep, Request, StartupFails, CrossGate, MarkReady,
         Routed, RunInline, Hold, Release, RunEnds, BatchComes, WatchReturns, RequestOperational, Finish, SkipHook, SpawnHook, Record, HookEnds,
         ReapSwap, ReapCollect, ReapEnd, Signal, CommitReload, UpdateHooks, FatalReload,
         ReloadReturns, Spawn, TaskEnds, coordinatorVars
<1>3. HookIsCommitted' /\ [Decided]_vars => [HookIsCommitted' /\ Decided]_vars
  BY Zenon
<1> QED
  BY InitIInv, NextIInv, <1>1, <1>2, <1>3, PTL DEF Spec, HookIsDecidedOnce
=============================================================================
