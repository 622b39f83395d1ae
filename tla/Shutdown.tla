------------------------------ MODULE Shutdown ------------------------------
(***************************************************************************)
(* How a watcher session closes (shutdown.rs, process_owner.rs and the     *)
(* composition root of app.rs).  The main thread runs the watch loop and   *)
(* then `finish`; the signal thread and the reload thread request shutdown *)
(* through the same coordinator.  With --restart a worker thread runs the  *)
(* plans; otherwise main does, inline, and looks at the shutdown flag only *)
(* between two runs.  Every step below is a section under one lock or one  *)
(* atomic operation: between the claim of a shutdown, the swap that        *)
(* decides who reaps, the copy of the owned groups and the end of the      *)
(* reaping, the other threads run.                                         *)
(***************************************************************************)
EXTENDS Integers, FiniteSets

CONSTANTS
    Hooks,       \* close hook commands a configuration may hold
    NoHook,      \* a configuration without hooks.close
    MaxSpawns,   \* bound on the child groups the runs start
    MaxReloads,  \* bound on the committed reloads
    MaxSignals   \* bound on the signals delivered

ASSUME HooksAssumption == NoHook \notin Hooks
ASSUME BoundsAssumption == MaxSpawns \in Nat /\ MaxReloads \in Nat /\ MaxSignals \in Nat

VARIABLES
    phase,      \* Phase of the coordinator
    reason,     \* Requested.reason
    hook,       \* Requested.hook: the close hook frozen by the claim
    ready,      \* State.ready
    opened,     \* on_ready has run: there may be work
    committed,  \* State.committed_hooks.close
    requested,  \* the flag the watch loops poll
    reaped,     \* the flag whose swap decides who reaps
    accelerate, \* a repeated signal asks the hook to stop
    at,         \* where each thread is
    doomed,     \* the groups the reaper has copied and signalled
    groups,     \* OWNED_GROUPS: child groups alive, numbered; 0 is the hook
    spawned,    \* child groups the runs have started
    mode,       \* who runs the plans: the worker ("restart") or main ("wait")
    live,       \* hooks.close of the configuration that is live
    reloads, signals,
    outcome     \* CloseHookOutcome

coordinatorVars == <<phase, reason, hook, ready, committed, requested, accelerate>>
ownerVars == <<reaped, doomed, groups, spawned, opened>>
countVars == <<mode, live, reloads, signals>>
vars == <<coordinatorVars, ownerVars, at, countVars, outcome>>

Threads == {"main", "signal", "reload"}
HookGroup == 0
Reasons == {"none", "Signal", "FatalConfig", "Operational"}

Goto(t, step) == at' = [at EXCEPT ![t] = step]

Init ==
    /\ phase = "Running" /\ reason = "none" /\ hook = NoHook
    /\ ready = FALSE /\ opened = FALSE /\ requested = FALSE /\ reaped = FALSE /\ accelerate = FALSE
    /\ committed \in Hooks \cup {NoHook} /\ live = committed
    /\ at = [t \in Threads |-> IF t = "main" THEN "starting" ELSE "idle"]
    /\ doomed = {} /\ groups = {} /\ spawned = 0
    /\ mode \in {"restart", "wait"}
    /\ reloads = 0 /\ signals = 0
    /\ outcome = "none"

-----------------------------------------------------------------------------
(* ShutdownCoordinator::request.  The claim freezes the reason and the     *)
(* hook of a ready watcher; a later signal only accelerates.               *)

FrozenHook == IF ready THEN committed ELSE NoHook


Request(t, why, won, lost) ==
    \/ /\ phase = "Running"
       /\ phase' = "Requested" /\ reason' = why /\ hook' = FrozenHook
       /\ requested' = TRUE
       /\ Goto(t, won)
       /\ UNCHANGED <<ready, committed, accelerate, ownerVars, outcome>>
    \/ /\ phase # "Running"
       /\ accelerate' = (accelerate \/ why = "Signal")
       /\ Goto(t, lost)
       /\ UNCHANGED <<phase, reason, hook, ready, committed, requested, ownerVars, outcome>>

(* reap_once: one swap decides; the winner copies the owned groups and     *)
(* signals them, waits out the grace period and kills what is left.        *)
Reaping(t) == at[t] \in {"reap", "collect", "wait"}

(* Where a thread goes once it has reaped, or found that another does.     *)
AfterReap(t) ==
    IF t # "main" THEN "idle" ELSE IF phase = "Finishing" THEN "close" ELSE "join"

ReapSwap(t) ==
    /\ at[t] = "reap"
    /\ reaped' = TRUE
    /\ Goto(t, IF reaped THEN AfterReap(t) ELSE "collect")
    /\ UNCHANGED <<coordinatorVars, doomed, groups, spawned, opened, countVars, outcome>>

ReapCollect(t) ==
    /\ at[t] = "collect"
    /\ doomed' = groups
    /\ Goto(t, "wait")
    /\ UNCHANGED <<coordinatorVars, reaped, groups, spawned, opened, countVars, outcome>>

ReapEnd(t) ==
    /\ at[t] = "wait"
    /\ groups' = groups \ doomed
    /\ Goto(t, AfterReap(t))
    /\ UNCHANGED <<coordinatorVars, reaped, doomed, spawned, opened, countVars, outcome>>

-----------------------------------------------------------------------------
(* The main thread: the watch loop, then the close sequence.               *)

(* Registering the watches failed: the one way the loop returns an error.  *)
StartupFails ==
    /\ at["main"] = "starting"
    /\ Goto("main", "failed")
    /\ UNCHANGED <<coordinatorVars, ownerVars, countVars, outcome>>

CrossGate ==
    /\ at["main"] = "starting" /\ ~requested
    /\ Goto("main", "gate")
    /\ UNCHANGED <<coordinatorVars, ownerVars, countVars, outcome>>

MarkReady ==
    /\ at["main"] = "gate"
    /\ ready' = (phase = "Running")
    /\ opened' = TRUE
    /\ Goto("main", "routing")
    /\ UNCHANGED <<phase, reason, hook, committed, requested, accelerate, reaped, doomed,
                   groups, spawned, countVars, outcome>>

(* A plan of run-on-init or of a batch: none, handed to the worker, or run *)
(* to completion by main itself.                                           *)
Routed ==
    /\ at["main"] = "routing"
    /\ Goto("main", "watching")
    /\ UNCHANGED <<coordinatorVars, ownerVars, countVars, outcome>>

RunInline ==
    /\ at["main"] = "routing" /\ mode = "wait"
    /\ Goto("main", "running")
    /\ UNCHANGED <<coordinatorVars, ownerVars, countVars, outcome>>

(* An inline run waits without a deadline, for the approval of a recovery  *)
(* or for the output of a command that a descendant keeps open; it goes on *)
(* or is over.                                                             *)
Hold ==
    /\ at["main"] = "running"
    /\ Goto("main", "held")
    /\ UNCHANGED <<coordinatorVars, ownerVars, countVars, outcome>>

Release ==
    /\ at["main"] = "held"
    /\ Goto("main", "running")
    /\ UNCHANGED <<coordinatorVars, ownerVars, countVars, outcome>>

RunEnds ==
    /\ at["main"] = "running" /\ groups = {}
    /\ Goto("main", "watching")
    /\ UNCHANGED <<coordinatorVars, ownerVars, countVars, outcome>>

(* The top of the loop: a batch has come, or the flag is up.               *)
BatchComes ==
    /\ at["main"] = "watching" /\ ~requested
    /\ Goto("main", "routing")
    /\ UNCHANGED <<coordinatorVars, ownerVars, countVars, outcome>>

WatchReturns ==
    /\ at["main"] \in {"starting", "watching"} /\ requested
    /\ Goto("main", "join")
    /\ UNCHANGED <<coordinatorVars, ownerVars, countVars, outcome>>

RequestOperational ==
    /\ at["main"] = "failed"
    /\ Request("main", "Operational", "reap", "join")
    /\ UNCHANGED countVars

(* Mutant: main does not wait for the reload thread.                       *)
FinishUnjoined ==
    /\ at["main"] = "join"
    /\ phase' = "Finishing"
    /\ Goto("main", "reap")
    /\ UNCHANGED <<reason, hook, ready, committed, requested, accelerate, ownerVars,
                   countVars, outcome>>

(* ReloadSession::join, then the claim of `finish`.  A request has been    *)
(* made by then, and main is the only thread that finishes.                *)
Finish ==
    /\ at["main"] = "join" /\ at["reload"] = "exited"
    /\ phase' = "Finishing"
    /\ Goto("main", "reap")
    /\ UNCHANGED <<reason, hook, ready, committed, requested, accelerate, ownerVars,
                   countVars, outcome>>

(* No hook to run: not ready, or none configured.                          *)
SkipHook ==
    /\ at["main"] = "close"
    /\ hook = NoHook \/ (~ready /\ committed # NoHook)
    /\ outcome' = IF ~ready /\ committed # NoHook THEN "SkippedBeforeReady"
                                                  ELSE "NotConfigured"
    /\ Goto("main", "record")
    /\ UNCHANGED <<coordinatorVars, ownerVars, countVars>>

SpawnHook ==
    /\ at["main"] = "close" /\ hook # NoHook /\ ready
    /\ groups' = groups \cup {HookGroup}
    /\ Goto("main", "hooking")
    /\ UNCHANGED <<coordinatorVars, reaped, doomed, spawned, opened, countVars, outcome>>

(* The hook could not be spawned, ended, or is stopped at its deadline or  *)
(* by a repeated signal.                                                   *)
HookEnds(result) ==
    /\ at["main"] = "hooking"
    /\ result = "Cancelled" => accelerate
    /\ outcome' = result
    /\ groups' = groups \ {HookGroup}
    /\ Goto("main", "record")
    /\ UNCHANGED <<coordinatorVars, reaped, doomed, spawned, opened, countVars>>

Record ==
    /\ at["main"] = "record"
    /\ phase' = "Finished"
    /\ Goto("main", "exited")
    /\ UNCHANGED <<reason, hook, ready, committed, requested, accelerate, ownerVars,
                   countVars, outcome>>

-----------------------------------------------------------------------------
Alive == at["main"] # "exited"

(* The signal thread reads the self-pipe and requests.                     *)
Signal ==
    /\ Alive /\ at["signal"] = "idle" /\ signals < MaxSignals
    /\ signals' = signals + 1
    /\ Request("signal", "Signal", "reap", "idle")
    /\ UNCHANGED <<mode, live, reloads>>

(* The reload thread: a commit makes the candidate live, and replaces the  *)
(* coordinator's hook in a step of its own.                                *)
CommitReload(candidate) ==
    /\ Alive /\ at["reload"] = "idle" /\ reloads < MaxReloads
    /\ live' = candidate /\ reloads' = reloads + 1
    /\ Goto("reload", "committed")
    /\ UNCHANGED <<coordinatorVars, ownerVars, mode, signals, outcome>>

(* Mutant: the hook is replaced whatever the phase.                        *)
UpdateHooksLate ==
    /\ at["reload"] = "committed"
    /\ committed' = live
    /\ Goto("reload", "idle")
    /\ UNCHANGED <<phase, reason, hook, ready, requested, accelerate, ownerVars, countVars,
                   outcome>>

UpdateHooks ==
    /\ at["reload"] = "committed"
    /\ committed' = IF phase = "Running" THEN live ELSE committed
    /\ Goto("reload", "idle")
    /\ UNCHANGED <<phase, reason, hook, ready, requested, accelerate, ownerVars, countVars,
                   outcome>>

FatalReload ==
    /\ Alive /\ at["reload"] = "idle"
    /\ Request("reload", "FatalConfig", "reap", "idle")
    /\ UNCHANGED countVars

(* The reload thread's own watch loop returns once the flag is up.         *)
ReloadReturns ==
    /\ at["reload"] = "idle" /\ requested
    /\ Goto("reload", "exited")
    /\ UNCHANGED <<coordinatorVars, ownerVars, countVars, outcome>>

(* The worker, or main in a run, starts the next command of a plan,        *)
(* shutdown or not; a command ends by itself.                              *)
Spawn ==
    /\ Alive /\ opened /\ spawned < MaxSpawns
    /\ mode = "wait" => at["main"] = "running"
    /\ spawned' = spawned + 1
    /\ groups' = groups \cup {spawned + 1}
    /\ UNCHANGED <<coordinatorVars, reaped, doomed, opened, at, countVars, outcome>>

TaskEnds ==
    /\ Alive
    /\ \E group \in groups \ {HookGroup} : groups' = groups \ {group}
    /\ UNCHANGED <<coordinatorVars, reaped, doomed, spawned, opened, at, countVars, outcome>>

-----------------------------------------------------------------------------
HookResults == {"Passed", "Failed", "TimedOut", "Cancelled"}

ReapStep(t) == ReapSwap(t) \/ ReapCollect(t) \/ ReapEnd(t)

MainStep ==
    \/ StartupFails \/ CrossGate \/ MarkReady \/ Routed \/ RunInline \/ WatchReturns
    \/ RequestOperational
    \/ Finish \/ SkipHook \/ SpawnHook \/ Record
    \/ \E result \in HookResults : HookEnds(result)

ReloadStep ==
    \/ \E candidate \in Hooks \cup {NoHook} : CommitReload(candidate)
    \/ UpdateHooks \/ FatalReload \/ ReloadReturns

Next ==
    \/ MainStep
    \/ BatchComes \/ Hold \/ Release \/ RunEnds
    \/ Alive /\ \E t \in Threads : ReapStep(t)
    \/ Signal
    \/ ReloadStep
    \/ Spawn \/ TaskEnds

Spec == Init /\ [][Next]_vars

(* Fairness: the threads run, the grace period and the hook's deadline     *)
(* pass, a watch loop polls the flag at least every 200 ms, and an inline  *)
(* run that has no command left is over: it asks at most once a stage.     *)
(* Signals, batches, reloads, commands and answers owe nothing.            *)
Fairness ==
    /\ WF_vars(MainStep)
    /\ SF_vars(RunEnds)
    /\ \A t \in Threads : WF_vars(Alive /\ ReapStep(t))
    /\ WF_vars(UpdateHooks) /\ WF_vars(ReloadReturns)

FairSpec == Spec /\ Fairness

-----------------------------------------------------------------------------
(* The coordinator's, the owner's and the threads' state has its type.     *)
TypeOK ==
    /\ phase \in {"Running", "Requested", "Finishing", "Finished"}
    /\ reason \in Reasons /\ hook \in Hooks \cup {NoHook}
    /\ committed \in Hooks \cup {NoHook} /\ live \in Hooks \cup {NoHook}
    /\ ready \in BOOLEAN /\ opened \in BOOLEAN /\ requested \in BOOLEAN
    /\ reaped \in BOOLEAN /\ accelerate \in BOOLEAN
    /\ mode \in {"restart", "wait"}
    /\ at["main"] \in {"starting", "gate", "routing", "running", "held", "watching", "failed",
                       "reap", "collect", "wait", "join", "close", "hooking", "record", "exited"}
    /\ at["signal"] \in {"idle", "reap", "collect", "wait"}
    /\ at["reload"] \in {"idle", "committed", "reap", "collect", "wait", "exited"}
    /\ spawned \in 0 .. MaxSpawns /\ groups \subseteq 0 .. spawned
    /\ doomed \subseteq 0 .. spawned
    /\ outcome \in HookResults \cup {"none", "SkippedBeforeReady", "NotConfigured"}

(* The hook that runs is the committed one of a watcher that was ready,    *)
(* although commits and readiness race with the claim (mark_ready,         *)
(* update_hooks and request).                                              *)
HookIsCommitted ==
    at["main"] = "hooking" => ready /\ hook = committed

(* What the shutdown was asked for is decided once: the hook that runs is  *)
(* the committed one of a ready watcher, and no later request, signal or   *)
(* reload changes it or the reason (request, update_hooks, finish).        *)
HookIsDecidedOnce ==
    [][HookIsCommitted' /\ (phase # "Running" => reason' = reason /\ hook' = hook)]_vars

(* The groups are reaped by one thread (reap_once).                        *)
OneReaper ==
    \A t, u \in Threads : at[t] \in {"collect", "wait"} /\ at[u] \in {"collect", "wait"} => t = u

(* When main itself or the reload thread asked for the shutdown, the       *)
(* reaping is over before the resources are retired and the hook runs: the *)
(* reload thread is joined first.                                          *)
ReapPrecedesHook ==
    reason \in {"FatalConfig", "Operational"} /\ at["main"] \in {"close", "hooking"} =>
        \A t \in Threads : ~Reaping(t)

(* The reaping is the work of one thread, and over before a hook runs that *)
(* main or the reload thread asked for.                                    *)
ReapedOnceAndFirst == TypeOK /\ OneReaper /\ ReapPrecedesHook

(* Main is in an inline run, which no shutdown interrupts: it waits        *)
(* without a deadline, or for a command that was started after the one     *)
(* reaping had copied the groups (executor.rs, run_to_completion;          *)
(* shutdown.rs, reap_once).                                                *)
HeldUp ==
    \/ at["main"] = "held"
    \/ at["main"] = "running" /\ reaped /\ groups \ doomed # {}


-----------------------------------------------------------------------------
(* Statements of the code and of docs/RUN-HOOKS-CONTRACT.md that the code  *)
(* does not keep.                                                          *)

(* "Blocking run-on-init work cannot return to composition-root cleanup    *)
(* until its owned process group is stopped.  The shared coordinator       *)
(* therefore performs this idempotent quiesce step on first request"       *)
(* (shutdown.rs:197): the step is enough for main to return.               *)
QuiesceFreesMain == phase # "Running" ~> at["main"] = "exited"

(* "Close hook never overlaps owned workflow work" (section 4, step 3).    *)
HookRunsAlone == at["main"] = "hooking" => groups \subseteq {HookGroup}

(* "Active jobs, services, and in-flight generation hooks receive the      *)
(* existing coordinated process-owner shutdown policy and are fully        *)
(* reaped" (section 4, step 3): what was reaped is gone at the exit.       *)
ReapedBeforeExit == at["main"] = "exited" => groups \cap doomed = {}

(* "At close-gate claim, snapshot the latest successfully committed value" *)
(* (section 6): the claim of a ready watcher freezes the live hook.         *)
LatestCommittedHook ==
    [][phase = "Running" /\ phase' = "Requested" /\ ready => hook' = live]_vars
=============================================================================
