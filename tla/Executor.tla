------------------------------ MODULE Executor ------------------------------
(***************************************************************************)
(* One generation inside the executor (executor.rs).  The worker's thread  *)
(* calls advance until it is Finished, then finish; between two calls it   *)
(* may cancel the run, retire services or append stages.  Other threads    *)
(* set the cancellation token and swap the concurrency limit at any time.  *)
(*                                                                         *)
(* A step is one iteration of a loop of the executor.  Children are seen   *)
(* as try_wait shows them: alive, exited with success or with failure.     *)
(* Output, durations and the recovery phase events are left out.  A        *)
(* service is moved out of the active list by the poll that spawns it, so  *)
(* the service branch of advance_task, which needs an active service with  *)
(* a child, is never reached and has no step here.                         *)
(***************************************************************************)
EXTENDS Integers, Sequences, FiniteSets, FiniteSetsExt, Functions

CONSTANTS
    Jobs,          \* the jobs of a plan, in the order of their declaration
    Plans,         \* the plans, modes included, that a run may have
    Limits,        \* concurrency limits a reload may set
    MaxRestarts    \* SERVICE_MAX_RESTARTS

Outcomes == {"Passed", "Failed", "Cancelled", "Skipped"}
Stage == [parallel : BOOLEAN, jobs : Seq(Jobs)]

ASSUME PlansAssumption ==
    /\ Jobs \subseteq Nat /\ Limits \subseteq Nat \ {0} /\ MaxRestarts \in Nat
    /\ \A plan \in Plans :
        /\ plan.stages \in Seq(Stage) /\ plan.extra \in Seq(Stage)
        /\ plan.commands \in [Jobs -> Nat \ {0}] /\ plan.recovery \in [Jobs -> Nat]
        /\ plan.services \subseteq {j \in Jobs : plan.recovery[j] = 0}
        /\ plan.failFast \in BOOLEAN /\ plan.prompt \in BOOLEAN
        /\ plan.sequential \in BOOLEAN

(* A job is declared once: it has one place in the stages of its plan and  *)
(* of the plan that a reload appends.                                      *)
ASSUME JobsAreApart ==
    \A plan \in Plans :
        LET all == plan.stages \o plan.extra IN
        \A i, k \in DOMAIN all : \A m \in DOMAIN all[i].jobs, n \in DOMAIN all[k].jobs :
            all[i].jobs[m] = all[k].jobs[n] => i = k /\ m = n

VARIABLES
    run,         \* the plan and the modes this generation was frozen under
    token,       \* CancellationToken: has a cancel been requested
    limit,       \* the executor's concurrency_limit
    appended,    \* have the stages of a reload been appended
    at,          \* where the worker's thread is in the executor
    cursor,      \* index of the poll loops
    freed,       \* task_finished: has a task finished in this pass
    back,        \* where resolve_recoveries returns to
    phase,       \* of the job in recovery: its recovery or its verification
    stages, queued, active, services, pending, stageLimit,   \* fields of Run
    job,         \* per job: its ActiveTask
    errors,      \* does run.results hold an error
    terminal,    \* per job: the TaskTerminal records
    outcome,     \* per job: its entries in run.outcomes
    hook         \* the terminal hook that was chosen

modeVars == <<run, token, limit, appended>>
controlVars == <<at, cursor, freed, back, phase>>
placeVars == <<stages, queued, active, services, pending, stageLimit>>
reportVars == <<errors, terminal, outcome, hook>>
vars == <<modeVars, controlVars, placeVars, job, reportVars>>

(* Vec::remove.                                                            *)
Without(list, p) == [i \in 1 .. (Len(list) - 1) |-> IF i < p THEN list[i] ELSE list[i + 1]]

JobsOf(list) == UNION {Range(list[i].jobs) : i \in DOMAIN list}

(* From<TaskPlan> for ActiveTask.                                          *)
NewTask(plan, j) ==
    [left |-> plan.commands[j], child |-> FALSE, failed |-> FALSE, checked |-> FALSE,
     recovery |-> plan.recovery[j] > 0, defer |-> plan.recovery[j] > 0,
     restarts |-> MaxRestarts]

Init ==
    /\ run \in Plans /\ token = FALSE /\ limit \in Limits /\ appended = FALSE
    /\ at = "idle" /\ cursor = 1 /\ freed = FALSE /\ back = "loop" /\ phase = "recovery"
    /\ stages = run.stages /\ queued = << >> /\ active = << >> /\ services = << >>
    /\ pending = {} /\ stageLimit = 0
    /\ job = [j \in Jobs |-> NewTask(run, j)]
    /\ errors = FALSE /\ hook = "none"
    /\ terminal = [j \in Jobs |-> << >>] /\ outcome = [j \in Jobs |-> << >>]

-----------------------------------------------------------------------------
(* Reports.  A result maps jobs to outcomes.                               *)

WireState(result) == IF result = "Skipped" THEN "Cancelled" ELSE result

Snapshots(result) ==
    terminal' = [j \in Jobs |-> IF j \in DOMAIN result
                                THEN Append(terminal[j], WireState(result[j]))
                                ELSE terminal[j]]

Outcome(result) ==
    outcome' = [j \in Jobs |-> IF j \in DOMAIN result
                               THEN Append(outcome[j], result[j]) ELSE outcome[j]]

Record(result) == Snapshots(result) /\ Outcome(result)

Verdict(task) == IF task.failed THEN "Failed" ELSE "Passed"

(* shutdown_task: the child is signalled, waited for and killed.           *)
ShutDown(set) ==
    [j \in Jobs |-> IF j \in set THEN [job[j] EXCEPT !.child = FALSE, !.left = 0]
                    ELSE job[j]]

-----------------------------------------------------------------------------
(* advance_task: what one iteration of its loop may do to a task.  A spawn *)
(* may fail, and so may the check of the working directory, made once.     *)
Failing(task, failFast) ==
    [task |-> [task EXCEPT !.failed = TRUE, !.child = FALSE],
     step |-> IF failFast THEN "FailedFast" ELSE "again", error |-> ~task.defer]

Going(task, step) == [task |-> task, step |-> step, error |-> FALSE]

Attempts(old, failFast) ==
    LET task == [old EXCEPT !.checked = TRUE]
        next == [task EXCEPT !.left = @ - 1]
    IN (IF old.checked THEN {} ELSE {Failing([task EXCEPT !.left = 0], failFast)})
       \cup
       (IF task.child
        THEN {Going(task, "Running"), Going([task EXCEPT !.child = FALSE], "again"),
              Failing(task, failFast)}
        ELSE IF task.left = 0 THEN {Going(task, "Finished")}
        ELSE {Going([next EXCEPT !.child = TRUE], "Running"), Failing(next, failFast)})

-----------------------------------------------------------------------------
(* advance.  The top of its loop: the next stage is opened when nothing of *)
(* the last is left, and free slots are filled.                            *)

AtTop == at = "loop" \/ (at = "idle" /\ ~token)
StageIsOver == active = << >> /\ queued = << >>


StageSlots(stage) ==
    IF stage.parallel
    THEN Min({IF run.sequential THEN 1 ELSE limit, Len(stage.jobs)})
    ELSE 1

(* Fills the slots of a list of waiting jobs and starts the pass.          *)
FillSlots(waiting, slots) ==
    LET free == Min({slots - Len(active), Len(waiting)}) IN
    /\ active' = active \o SubSeq(waiting, 1, free)
    /\ queued' = SubSeq(waiting, free + 1, Len(waiting))
    /\ at' = "poll" /\ cursor' = 1 /\ freed' = FALSE

NextStage ==
    /\ AtTop /\ StageIsOver /\ stages # << >>
    /\ stages' = Tail(stages)
    /\ stageLimit' = StageSlots(Head(stages))
    /\ FillSlots(Head(stages).jobs, StageSlots(Head(stages)))
    /\ UNCHANGED <<modeVars, back, phase, services, pending, job, reportVars>>

Refill ==
    /\ AtTop /\ ~StageIsOver
    /\ FillSlots(queued, stageLimit)
    /\ UNCHANGED <<modeVars, back, phase, stages, services, pending, stageLimit, job, reportVars>>

(* Services keep the generation alive.                                     *)
NoStageLeft ==
    /\ AtTop /\ StageIsOver /\ stages = << >>
    /\ at' = IF services = << >> THEN "finish" ELSE "keep"
    /\ cursor' = 1
    /\ UNCHANGED <<modeVars, freed, back, phase, placeVars, job, reportVars>>

-----------------------------------------------------------------------------
(* One task of the pass is polled.                                         *)

Polled == active[cursor]

PollWith(step, attempt) ==
    /\ attempt.step = step
    /\ job' = [job EXCEPT ![Polled] = attempt.task]
    /\ errors' = (errors \/ attempt.error)

(* A command ended or would not start; the loop goes on with the next.     *)
PollAgain(attempt) ==
    /\ PollWith("again", attempt)
    /\ UNCHANGED <<modeVars, controlVars, placeVars, terminal, outcome, hook>>

(* Its child lives.  A service leaves the pass for the background.         *)
PollRunning(attempt) ==
    /\ PollWith("Running", attempt)
    /\ IF Polled \in run.services
       THEN /\ active' = Without(active, cursor)
            /\ services' = Append(services, Polled)
            /\ UNCHANGED cursor
       ELSE /\ cursor' = cursor + 1
            /\ UNCHANGED <<active, services>>
    /\ UNCHANGED <<modeVars, at, freed, back, phase, stages, queued, pending, stageLimit,
                   terminal, outcome, hook>>

(* defer_or_record: a failure with a recovery waits for the stage to end.  *)
Deferred(task) == task.failed /\ task.recovery

PollFinished(attempt) ==
    /\ PollWith("Finished", attempt)
    /\ active' = Without(active, cursor)
    /\ freed' = TRUE
    /\ IF Deferred(attempt.task)
       THEN pending' = pending \cup {Polled} /\ UNCHANGED <<terminal, outcome>>
       ELSE Record([j \in {Polled} |-> Verdict(attempt.task)]) /\ UNCHANGED pending
    /\ UNCHANGED <<modeVars, at, cursor, back, phase, stages, queued, services, stageLimit, hook>>

(* Fail fast: stop_after_failure cancels the siblings and skips what has   *)
(* not started.  Services are left alone.                                  *)
PollFailedFast(attempt) ==
    LET siblings == Range(active) \ {Polled}
        unstarted == Range(queued) \cup JobsOf(stages)
        failed == IF Deferred(attempt.task) THEN {} ELSE {Polled}
    IN
    /\ attempt.step = "FailedFast"
    /\ job' = [ShutDown(siblings) EXCEPT ![Polled] = attempt.task]
    /\ errors' = (errors \/ attempt.error)
    /\ active' = << >> /\ queued' = << >> /\ stages' = << >>
    /\ pending' = pending \cup ({Polled} \ failed)
    /\ Record([j \in failed \cup siblings \cup unstarted |->
            IF j \in failed THEN "Failed"
            ELSE IF j \in siblings THEN "Cancelled" ELSE "Skipped"])
    /\ at' = IF pending' = {} THEN "finish" ELSE "resolve"
    /\ back' = "finish" /\ cursor' = 1 /\ freed' = FALSE
    /\ UNCHANGED <<modeVars, phase, services, stageLimit, hook>>

-----------------------------------------------------------------------------
(* advance_services, in a pass or once no stage is left.                   *)

Watched == services[cursor]
PollingServices == at \in {"services", "keep"} /\ cursor <= Len(services)

PassEnds ==
    /\ at = "poll" /\ cursor > Len(active) /\ services # << >>
    /\ at' = "services" /\ cursor' = 1
    /\ UNCHANGED <<modeVars, freed, back, phase, placeVars, job, reportVars>>

ServiceStays ==
    /\ PollingServices /\ job[Watched].child
    /\ cursor' = cursor + 1
    /\ UNCHANGED <<modeVars, at, freed, back, phase, placeVars, job, reportVars>>

(* It exited with a failure: its command is put back for the next poll.    *)
ServiceRestarts ==
    /\ PollingServices /\ job[Watched].child /\ job[Watched].restarts > 0
    /\ job' = [job EXCEPT ![Watched].child = FALSE, ![Watched].left = @ + 1,
                          ![Watched].restarts = @ - 1]
    /\ cursor' = cursor + 1
    /\ UNCHANGED <<modeVars, at, freed, back, phase, placeVars, reportVars>>

ServiceRespawns ==
    /\ PollingServices /\ ~job[Watched].child
    /\ job' = [job EXCEPT ![Watched].child = TRUE, ![Watched].left = @ - 1]
    /\ cursor' = cursor + 1
    /\ UNCHANGED <<modeVars, at, freed, back, phase, placeVars, reportVars>>

ServiceEnds(verdict) ==
    /\ services' = Without(services, cursor)
    /\ Record([j \in {Watched} |-> verdict])
    /\ UNCHANGED <<modeVars, controlVars, stages, queued, active, pending, stageLimit, hook>>

(* It exited with success, whatever commands it has left.                  *)
ServiceStops ==
    /\ PollingServices /\ job[Watched].child
    /\ job' = [job EXCEPT ![Watched].child = FALSE]
    /\ ServiceEnds("Passed")
    /\ UNCHANGED errors

(* No restart is left, or the respawn failed.                              *)
ServiceFails ==
    /\ PollingServices
    /\ job[Watched].child => job[Watched].restarts = 0
    /\ job' = [job EXCEPT ![Watched].child = FALSE, ![Watched].failed = TRUE,
                          ![Watched].left = IF job[Watched].child THEN @ ELSE @ - 1]
    /\ errors' = TRUE
    /\ ServiceEnds("Failed")

KeptAlive ==
    /\ at = "keep" /\ cursor > Len(services)
    /\ at' = "idle" /\ cursor' = 1
    /\ UNCHANGED <<modeVars, freed, back, phase, placeVars, job, reportVars>>

(* Mutant: recoveries wait for the last stage.                             *)
BarrierPostponesRecovery ==
    /\ \/ at = "poll" /\ cursor > Len(active) /\ services = << >>
       \/ at = "services" /\ cursor > Len(services)
    /\ at' = IF StageIsOver
             THEN IF pending # {} /\ stages = << >> THEN "resolve"
                  ELSE IF services = << >> THEN "loop" ELSE "idle"
             ELSE "idle"
    /\ back' = "loop" /\ cursor' = 1 /\ freed' = FALSE
    /\ UNCHANGED <<modeVars, phase, placeVars, job, reportVars>>

(* Mutant: recoveries do not wait for queued jobs.                         *)
BarrierIgnoresQueue ==
    /\ \/ at = "poll" /\ cursor > Len(active) /\ services = << >>
       \/ at = "services" /\ cursor > Len(services)
    /\ at' = IF active = << >> /\ pending # {} THEN "resolve"
             ELSE IF StageIsOver /\ services = << >> THEN "loop" ELSE "idle"
    /\ back' = "loop" /\ cursor' = 1 /\ freed' = FALSE
    /\ UNCHANGED <<modeVars, phase, placeVars, job, reportVars>>

(* The end of a pass: recoveries once the stage is over, the next stage,   *)
(* another pass while slots are free, or back to the worker.               *)
Barrier ==
    /\ \/ at = "poll" /\ cursor > Len(active) /\ services = << >>
       \/ at = "services" /\ cursor > Len(services)
    /\ at' = IF StageIsOver
             THEN IF pending # {} THEN "resolve"
                  ELSE IF services = << >> THEN "loop" ELSE "idle"
             ELSE IF freed /\ Len(active) < stageLimit /\ queued # << >>
                  THEN "loop" ELSE "idle"
    /\ back' = "loop" /\ cursor' = 1 /\ freed' = FALSE
    /\ UNCHANGED <<modeVars, phase, placeVars, job, reportVars>>

-----------------------------------------------------------------------------
(* resolve_recoveries.  Pending jobs are taken in the order of their       *)
(* declaration.  While the approval thread waits for an answer the token   *)
(* is looked at, and again once the answer is there.                       *)

AskApproval ==
    /\ at = "resolve" /\ ~token /\ run.prompt
    /\ at' = "approval"
    /\ UNCHANGED <<modeVars, cursor, freed, back, phase, placeVars, job, reportVars>>

Approve ==
    /\ at = "approval" /\ ~token
    /\ at' = "approved"
    /\ UNCHANGED <<modeVars, cursor, freed, back, phase, placeVars, job, reportVars>>

ApprovalIsCancelled ==
    /\ at \in {"resolve", "approval"} /\ token
    /\ at' = "idle"
    /\ UNCHANGED <<modeVars, cursor, freed, back, phase, placeVars, job, reportVars>>

(* All that is pending keeps its original failure.                         *)
GiveUp ==
    /\ Record([j \in pending |-> "Failed"])
    /\ errors' = TRUE
    /\ pending' = {}
    /\ at' = back /\ phase' = "recovery"
    /\ UNCHANGED <<modeVars, cursor, freed, back, stages, queued, active, services,
                   stageLimit, hook>>

(* Declined, no terminal, end of file, an invalid answer, or the policy.   *)
Decline ==
    /\ at = (IF run.prompt THEN "approval" ELSE "resolve") /\ ~token
    /\ GiveUp
    /\ UNCHANGED job

(* The next job of the approved pass.  The token is not looked at here.    *)
StartRecovery ==
    LET j == Min(pending) IN
    /\ at = "approved"
    /\ job' = [job EXCEPT ![j] = [@ EXCEPT !.left = run.recovery[j], !.child = FALSE,
            !.failed = FALSE, !.recovery = FALSE, !.defer = FALSE]]
    /\ at' = "recover"
    /\ UNCHANGED <<modeVars, cursor, freed, back, phase, placeVars, reportVars>>

Over(attempt) == attempt.step \in {"Finished", "FailedFast"}

RecoveryGoesOn(attempt) ==
    /\ ~Over(attempt)
    /\ job' = [job EXCEPT ![Min(pending)] = attempt.task]
    /\ at' = IF attempt.step = "Running" THEN "pause" ELSE "recover"
    /\ UNCHANGED <<modeVars, cursor, freed, back, phase, placeVars, reportVars>>

(* After each poll of a live child the token is looked at.                 *)
PauseRecovery ==
    /\ at = "pause"
    /\ IF token
       THEN at' = "idle" /\ job' = ShutDown({Min(pending)}) /\ phase' = "recovery"
       ELSE at' = "recover" /\ UNCHANGED <<job, phase>>
    /\ UNCHANGED <<modeVars, cursor, freed, back, placeVars, reportVars>>

(* A failed recovery ends the pass for the jobs after it.                  *)
RecoveryFails(attempt) ==
    /\ phase = "recovery" /\ Over(attempt)
    /\ attempt.task.failed
    /\ job' = [job EXCEPT ![Min(pending)] = attempt.task]
    /\ GiveUp

(* The original commands run once more.                                    *)
StartVerification(attempt) ==
    /\ phase = "recovery" /\ Over(attempt)
    /\ ~attempt.task.failed
    /\ phase' = "verification"
    /\ job' = [job EXCEPT ![Min(pending)] =
            [attempt.task EXCEPT !.left = run.commands[Min(pending)], !.child = FALSE]]
    /\ UNCHANGED <<modeVars, at, cursor, freed, back, placeVars, reportVars>>

VerificationEnds(attempt) ==
    LET j == Min(pending) IN
    /\ phase = "verification" /\ Over(attempt)
    /\ job' = [job EXCEPT ![j] = attempt.task]
    /\ errors' = (errors \/ attempt.task.failed)
    /\ Record([i \in {j} |-> Verdict(attempt.task)])
    /\ pending' = pending \ {j}
    /\ phase' = "recovery"
    /\ at' = IF pending' = {} THEN back ELSE "approved"
    /\ UNCHANGED <<modeVars, cursor, freed, back, stages, queued, active, services,
                   stageLimit, hook>>

-----------------------------------------------------------------------------
(* finish: the hook is chosen by the outcomes, and run to its end.         *)
IsSuccess == \A j \in Jobs : \A i \in DOMAIN outcome[j] : outcome[j][i] = "Passed"

Finish ==
    /\ at = "finish"
    /\ hook' = IF IsSuccess THEN "success" ELSE "failure"
    /\ at' = "hook"
    /\ UNCHANGED <<modeVars, cursor, freed, back, phase, placeVars, job, errors, terminal,
                   outcome>>

(* Mutant: children that a dropped run still owns are let go.              *)
HookEndsWithoutDrop ==
    /\ at = "hook"
    /\ at' = "finished"
    /\ services' = << >>
    /\ UNCHANGED <<modeVars, cursor, freed, back, phase, stages, queued, active, pending,
                   stageLimit, job, reportVars>>

(* Finished is emitted and the run is dropped: Drop for LoggedChild stops  *)
(* the services that a fail-fast end has left.                             *)
HookEnds ==
    /\ at = "hook"
    /\ at' = "finished"
    /\ services' = << >> /\ job' = ShutDown(Range(services))
    /\ UNCHANGED <<modeVars, cursor, freed, back, phase, stages, queued, active, pending,
                   stageLimit, reportVars>>

-----------------------------------------------------------------------------
(* The worker, between two calls of advance.                               *)

(* Mutant: jobs that wait for a recovery are not reported.                 *)
CancelForgetsPending ==
    LET owned == Range(active) \cup Range(services)
        unstarted == Range(queued) \cup JobsOf(stages)
    IN
    /\ at = "idle"
    /\ at' = "cancelled"
    /\ job' = ShutDown(owned)
    /\ Snapshots([j \in owned \cup unstarted |-> "Cancelled"])
    /\ active' = << >> /\ services' = << >> /\ pending' = {} /\ queued' = << >>
    /\ stages' = << >>
    /\ UNCHANGED <<modeVars, cursor, freed, back, phase, stageLimit, errors, outcome, hook>>

Cancel ==
    LET owned == Range(active) \cup Range(services) \cup pending
        unstarted == Range(queued) \cup JobsOf(stages)
    IN
    /\ at = "idle"
    /\ at' = "cancelled"
    /\ job' = ShutDown(owned)
    /\ Snapshots([j \in owned \cup unstarted |-> "Cancelled"])
    /\ active' = << >> /\ services' = << >> /\ pending' = {} /\ queued' = << >>
    /\ stages' = << >>
    /\ UNCHANGED <<modeVars, cursor, freed, back, phase, stageLimit, errors, outcome, hook>>

(* One service that the reload names is stopped; the others stay.          *)
ReconcileServices(p) ==
    /\ at = "idle"
    /\ services' = Without(services, p)
    /\ job' = ShutDown({services[p]})
    /\ Outcome([j \in {services[p]} |-> "Cancelled"])
    /\ UNCHANGED <<modeVars, controlVars, stages, queued, active, pending, stageLimit,
                   errors, terminal, hook>>

AppendPlan ==
    /\ at = "idle" /\ ~appended /\ run.extra # << >>
    /\ appended' = TRUE
    /\ stages' = stages \o run.extra
    /\ UNCHANGED <<run, token, limit, controlVars, queued, active, services, pending,
                   stageLimit, job, reportVars>>

(* Other threads.                                                          *)
RequestCancel ==
    /\ ~token /\ at \notin {"hook", "finished", "cancelled"}
    /\ token' = TRUE
    /\ UNCHANGED <<run, limit, appended, controlVars, placeVars, job, reportVars>>

SetConcurrencyLimit(n) ==
    /\ at \notin {"finish", "hook", "finished", "cancelled"} /\ n # limit
    /\ limit' = n
    /\ UNCHANGED <<run, token, appended, controlVars, placeVars, job, reportVars>>

-----------------------------------------------------------------------------
PollTask ==
    /\ at = "poll" /\ cursor <= Len(active)
    /\ \E attempt \in Attempts(job[Polled], run.failFast) :
        PollAgain(attempt) \/ PollRunning(attempt) \/ PollFinished(attempt)
            \/ PollFailedFast(attempt)

RecoverTask ==
    /\ at = "recover"
    /\ \E attempt \in Attempts(job[Min(pending)], TRUE) :
        RecoveryGoesOn(attempt) \/ RecoveryFails(attempt) \/ StartVerification(attempt)
            \/ VerificationEnds(attempt)

Resolve ==
    AskApproval \/ ApprovalIsCancelled \/ StartRecovery \/ RecoverTask \/ PauseRecovery

(* The worker's thread, in calls of advance and finish.  An approval and   *)
(* the end of a hook are up to others.                                     *)
ExecutorStep ==
    \/ NextStage \/ Refill \/ NoStageLeft \/ PollTask \/ PassEnds
    \/ ServiceStays \/ ServiceRestarts \/ ServiceRespawns \/ ServiceStops \/ ServiceFails
    \/ KeptAlive \/ Barrier \/ Resolve \/ Finish
    \/ (Decline /\ ~run.prompt)

Answer == Approve \/ (Decline /\ run.prompt)

WorkerStep ==
    Cancel \/ AppendPlan \/ \E p \in DOMAIN services : ReconcileServices(p)

Next ==
    \/ ExecutorStep \/ Answer \/ HookEnds \/ WorkerStep
    \/ RequestCancel \/ \E n \in Limits : SetConcurrencyLimit(n)

Spec == Init /\ [][Next]_vars

(* Fairness: the worker's thread runs.  Children, users and hooks owe      *)
(* nothing.                                                                *)
FairSpec == Spec /\ WF_vars(ExecutorStep)

-----------------------------------------------------------------------------
Planned == JobsOf(run.stages) \cup (IF appended THEN JobsOf(run.extra) ELSE {})
Finite == Jobs \ run.services
Ended == {"finished", "cancelled"}

Task == [left : Nat, child : BOOLEAN, failed : BOOLEAN, checked : BOOLEAN,
         recovery : BOOLEAN, defer : BOOLEAN, restarts : 0 .. MaxRestarts]

(* The run's fields have their types.                                      *)
TypeOK ==
    /\ run \in Plans /\ token \in BOOLEAN /\ limit \in Limits /\ appended \in BOOLEAN
    /\ at \in {"idle", "loop", "poll", "services", "keep", "resolve", "approval", "approved",
               "recover", "pause", "finish", "hook"} \cup Ended
    /\ cursor \in Nat /\ freed \in BOOLEAN /\ back \in {"loop", "finish"}
    /\ phase \in {"recovery", "verification"}
    /\ stages \in Seq(Stage) /\ queued \in Seq(Jobs) /\ active \in Seq(Jobs)
    /\ services \in Seq(Jobs) /\ pending \subseteq Jobs /\ stageLimit \in Nat
    /\ job \in [Jobs -> Task] /\ errors \in BOOLEAN
    /\ terminal \in [Jobs -> Seq(Outcomes)] /\ outcome \in [Jobs -> Seq(Outcomes)]
    /\ hook \in {"none", "success", "failure"}

(* The processes of a stage never outnumber its slots, one slot for a      *)
(* sequential generation, whatever limit a reload sets meanwhile           *)
(* (fill_available_slots, stage_limit).                                    *)
WithinLimit ==
    LET alive == {j \in Finite : job[j].child} IN
    /\ Cardinality(alive) <= stageLimit
    /\ run.sequential => Cardinality(alive) <= 1

StageIn(plan, j) ==
    LET all == plan.stages \o plan.extra IN
    CHOOSE i \in DOMAIN all : j \in Range(all[i].jobs)

StageOf(j) == StageIn(run, j)

(* Stages are barriers: while a job has a process, every job of an earlier *)
(* stage has been reported, its recovery included, or is a service in the  *)
(* background (advance).                                                   *)
StagesAreBarriers ==
    \A i, j \in Planned :
        job[j].child /\ StageOf(i) < StageOf(j) =>
            outcome[i] # << >> \/ i \in Range(services)

(* However slots free up, limits change and jobs fail, no process runs too *)
(* early or too many beside one another.                                   *)
ProcessesRunInTurn == TypeOK /\ WithinLimit /\ StagesAreBarriers

(* A job is reported once, as what the run's outcome counts it.  A run     *)
(* that finished has reported every finite job, one that was cancelled     *)
(* every job but the services a reload retired (record_task_outcome,       *)
(* stop_after_failure, cancel).                                            *)
ReportedOnce ==
    /\ \A j \in Jobs :
        /\ Len(terminal[j]) <= 1 /\ Len(outcome[j]) <= 1
        /\ terminal[j] # << >> /\ outcome[j] # << >> =>
                terminal[j][1] = WireState(outcome[j][1])
    /\ at = "finished" =>
        \A j \in Planned \cap Finite : terminal[j] # << >> /\ outcome[j] # << >>
    /\ at = "cancelled" =>
        \A j \in Planned : terminal[j] # << >> \/ outcome[j] = << "Cancelled" >>

(* The summary says Failure exactly when a job failed, or a command of a   *)
(* service did before the one that ran: deferred errors of recovered jobs  *)
(* are not in the results, all others are (defer_failure against           *)
(* present_results).                                                       *)
ErrorsMatchOutcome ==
    at \in {"hook", "finished"} =>
        (errors <=> \E j \in Jobs : \/ outcome[j] = << "Failed" >>
                                    \/ j \in run.services /\ job[j].failed)

(* The success hook runs only when every finite job of the plan was        *)
(* reported as passed and every service was, or still ran when a recovered *)
(* fail-fast run finished (finish, RunOutcome::is_success).                *)
SuccessMeansAllPassed ==
    hook = "success" =>
        \A j \in Planned :
            \/ terminal[j] = << "Passed" >>
            \/ run.failFast /\ j \in run.services /\ outcome[j] = << >>

(* The three accounts of a run agree: the terminal events, the summary and *)
(* the hook that runs.                                                     *)
AccountsAgree == ReportedOnce /\ ErrorsMatchOutcome /\ SuccessMeansAllPassed

(* No job of the original attempt has a process, or waits for one, while   *)
(* recoveries are asked for and run (advance, stop_after_failure).         *)
RecoveryIsQuiescent ==
    at \in {"resolve", "approval", "approved", "recover", "pause"} =>
        /\ StageIsOver
        /\ \A j \in Finite : job[j].child => j = Min(pending) /\ at \in {"recover", "pause"}

(* No process outlives its generation (cancel, Drop for LoggedChild).      *)
NothingOutlivesTheRun == at \in Ended => \A j \in Jobs : ~job[j].child

(* A cancel gets through: once the token is set the thread is back in the  *)
(* worker or past the tasks, even out of an approval or a recovery that    *)
(* would block for ever (CancellationToken).                               *)
CancelGetsThrough == token ~> at \in {"idle", "hook"} \cup Ended

(* If no process, service, question or hook lasts for ever and nothing     *)
(* cancels the run, it ends: no stage, slot or recovery is forgotten       *)
(* (advance).                                                              *)
RunEnds ==
    /\ \A j \in Jobs : []<>~job[j].child
    /\ []<>(services = << >>) /\ []<>(at \notin {"approval", "hook"}) /\ []~token
    => <>(at \in Ended)


-----------------------------------------------------------------------------
(* Statements of the docs and comments that the code does not keep.        *)

(* "A cancelled generation never runs a pending recovery"                  *)
(* (JOB-RECOVERY-CONTRACT.md): once the token is set, no first recovery    *)
(* command is spawned.                                                     *)
NoRecoveryOnceCancelled ==
    [][\A j \in Jobs :
        token /\ phase = "recovery" /\ at = "recover" /\ job[j].left = run.recovery[j] =>
            job[j].child \/ ~job'[j].child]_vars

(* "A recovery cannot overlap a sibling's process, a service process"      *)
(* (JOB-RECOVERY-CONTRACT.md).                                             *)
RecoveryRunsAlone ==
    at \in {"recover", "pause"} => \A j \in Jobs \ {Min(pending)} : ~job[j].child

(* "background services keep the generation alive ... until reaped"        *)
(* (executor.rs).                                                          *)
ServicesKeepTheRunAlive == at = "finish" => services = << >>
=============================================================================
