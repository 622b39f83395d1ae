--------------------------- MODULE ExecutorProofs ---------------------------
(***************************************************************************)
(* Giving up a recovery, the worker's steps and the end of a run keep the  *)
(* inductive invariant, and the theorems about Executor: for every plan,   *)
(* limit and number of restarts.                                           *)
(***************************************************************************)
EXTENDS ExecutorSteps, FiniteSetTheorems

(* All that is pending is given up.                                        *)
LEMMA GiveUpKeeps ==
    ASSUME IInv, at \in Recovering, GiveUp, TasksTyped', ~job'[Min(pending)].child,
           \A j \in Jobs : j # Min(pending) => job'[j] = job[j],
           job'[Min(pending)].recovery => job[Min(pending)].recovery,
           job'[Min(pending)].defer = job'[Min(pending)].recovery
    PROVE  IInv'
<1>1. /\ TypeInv /\ PlacesApart /\ StagesInTurn /\ ControlHolds /\ SlotsHold /\ ChildrenAreOwned
      /\ TasksHold
    BY Zenon DEF IInv
<1>2. ModesTyped /\ ControlTyped /\ PlacesTyped /\ ReportsTyped
    BY <1>1, TypeInvIs, Zenon
<1>3. PICK p \in Jobs : p = Min(pending)
    BY PendingIs, Zenon
<1>4. /\ p \in pending /\ p \notin run.services /\ p \notin Range(services)
      /\ p \notin JobsOf(Ahead) /\ p \notin Range(active) /\ p \notin Range(queued)
      /\ at \notin Ended /\ hook = "none" /\ active = << >> /\ queued = << >>
      /\ Range(active) = {} /\ Range(queued) = {}
    BY <1>3, PendingIs, Zenon
<1>5. /\ Record([j \in pending |-> "Failed"]) /\ errors' = TRUE /\ pending' = {}
      /\ at' = back /\ phase' = "recovery"
      /\ UNCHANGED <<modeVars, cursor, freed, back, stages, queued, active, services,
                     stageLimit, hook>>
    BY Zenon DEF GiveUp
<1>6. /\ run' = run /\ appended' = appended /\ stages' = stages /\ active' = active
      /\ queued' = queued /\ services' = services /\ hook' = hook /\ Ahead' = Ahead
      /\ stageLimit' = stageLimit /\ back' = back /\ cursor' = cursor /\ freed' = freed
    BY <1>5, Zenon DEF modeVars, Ahead
<1>7. at' \in {"loop", "finish"} /\ at' \notin Ended
    BY <1>2, <1>5, Zenon DEF ControlTyped, Ended
<1>8. Current = pending /\ Current' = {} /\ Held = pending \cup Range(services) /\ Held' = Range(services)
    BY <1>4, <1>5, <1>6, Zenon DEF Current, Held
<1>9. pending \cap Range(services) = {} /\ pending \cap JobsOf(Ahead) = {}
        /\ JobsOf(stages) \subseteq JobsOf(Ahead)
    BY <1>1, <1>8, HeldIsNotAhead, OpenAreJobs, Zenon DEF PlacesApart
<1>10. [j \in pending |-> "Failed"] \in [pending -> Outcomes]
    BY Zenon DEF Outcomes
<1>11. /\ OpenIsUnreported' /\ NoneIsForgotten' /\ ReportsAgree'
       /\ terminal' \in [Jobs -> Seq(Outcomes)] /\ outcome' \in [Jobs -> Seq(Outcomes)]
       /\ \A j \in pending : outcome'[j] = << "Failed" >>
    <2>1. PICK D : D = pending
        BY Zenon
    <2>2. PICK result : result = [j \in D |-> "Failed"]
        BY Zenon
    <2>3. result \in [D -> Outcomes] /\ Record(result) /\ \A j \in D : result[j] = "Failed"
        BY <1>5, <1>10, <2>1, <2>2, Zenon
    <2>4. /\ D \subseteq Held \cup JobsOf(stages)
          /\ Held' \cup JobsOf(stages') = (Held \cup JobsOf(stages)) \ D
          /\ JobsOf(Ahead') \subseteq JobsOf(Ahead) \ D
        BY <1>6, <1>8, <1>9, <2>1, Zenon
    <2>5. /\ OpenIsUnreported' /\ NoneIsForgotten' /\ ReportsAgree'
          /\ terminal' \in [Jobs -> Seq(Outcomes)] /\ outcome' \in [Jobs -> Seq(Outcomes)]
          /\ \A j \in D : j \in Jobs /\ outcome[j] = << >> /\ outcome'[j] = << result[j] >>
        <3>1. at \notin Ended /\ at' \notin Ended /\ run' = run /\ appended' = appended
            BY <1>4, <1>6, <1>7, Zenon
        <3>2. QED
            BY <2>3, <2>4, <3>1, RecordKeeps, Zenon
    <2>6. QED
        BY <2>1, <2>3, <2>5, Zenon
<1>12. TypeInv'
    <2>1. ModesTyped'
        BY <1>2, <1>5, FrameTypes, Zenon
    <2>2. ControlTyped'
        BY <1>2, <1>5, <1>6, Zenon DEF ControlTyped
    <2>3. PlacesTyped'
        BY <1>2, <1>5, <1>6, Zenon DEF PlacesTyped
    <2>4. errors' \in BOOLEAN
        BY <1>5, Zenon
    <2>5. ReportsTyped'
        BY <1>2, <1>6, <1>11, <2>4, Zenon DEF ReportsTyped
    <2>6. QED
        BY <2>1, <2>2, <2>3, <2>5, TypeInvNext, Zenon
<1>13. PlacesApart'
    BY <1>1, <1>4, <1>5, <1>6, <1>8, Zenon DEF PlacesApart
<1>14. StagesInTurn'
    <2>1. InTurn(run, Ahead')
        BY <1>1, <1>6, Zenon DEF StagesInTurn
    <2>2. QED
        BY <1>1, <1>6, <1>8, <2>1, ShrinkInTurn, Zenon
<1>15. ControlHolds'
    BY <1>1, <1>4, <1>5, <1>6, <1>7, Zenon
        DEF ControlHolds, Recovering, Closing, Ended, AtTop, StageIsOver
<1>16. SlotsHold'
    BY <1>1, <1>5, <1>6, Zenon DEF SlotsHold
<1>17. ChildrenAreOwned'
    <2> SUFFICES ASSUME NEW j \in Jobs, job'[j].child PROVE j \in Range(services')
        BY Zenon DEF ChildrenAreOwned
    <2>1. j # p /\ job[j].child
        BY <1>3, Zenon
    <2>2. QED
        BY <1>1, <1>3, <1>4, <1>6, <2>1, SMTT(30) DEF ChildrenAreOwned
<1>18. TasksHold'
    <2>1. /\ Range(services) \subseteq Jobs /\ JobsOf(Ahead) \subseteq Jobs
        BY <1>1, OpenAreJobs, Zenon
    <2>2. \A j \in Range(services) \cup JobsOf(Ahead) : job'[j] = job[j]
        BY <1>3, <1>4, <2>1, Zenon
    <2>3. \A j \in Jobs : /\ job'[j].recovery => job[j].recovery
                          /\ job'[j].defer = job'[j].recovery
        <3>1. \A j \in Jobs : job[j].defer = job[j].recovery
            BY <1>1, Zenon DEF TasksHold
        <3>2. QED
            BY <1>3, <3>1, Zenon
    <2>4. QED
        BY <1>1, <1>4, <1>5, <1>6, <2>2, <2>3, Zenon DEF TasksHold
<1>19. ErrorsHold'
    BY <1>4, <1>5, <1>11, Zenon DEF ErrorsHold
<1>20. SuccessMeansAllPassed'
    BY <1>4, <1>6, Zenon DEF SuccessMeansAllPassed
<1>21. QED
    BY <1>11, <1>12, <1>13, <1>14, <1>15, <1>16, <1>17, <1>18, <1>19, <1>20, ZenonT(40) DEF IInv

(* Recoveries that are declined are reported as failures.                  *)
LEMMA DeclineKeeps ==
    ASSUME IInv, Decline
    PROVE  IInv'
<1>1. at \in {"resolve", "approval"} /\ GiveUp /\ job' = job
    BY Zenon DEF Decline
<1>2. at \in Recovering /\ TasksTyped
    BY <1>1, TypeInvIs, Zenon DEF Recovering, IInv
<1>3. /\ Min(pending) \in Jobs /\ Min(pending) \notin Range(services) /\ Range(active) = {}
    BY <1>2, PendingIs, Zenon
<1>4. /\ ~job[Min(pending)].child /\ job[Min(pending)].defer = job[Min(pending)].recovery
    BY <1>1, <1>3, Zenon DEF IInv, ChildrenAreOwned, TasksHold
<1>5. TasksTyped'
    BY <1>1, <1>2, Zenon DEF TasksTyped
<1>6. QED
    BY <1>1, <1>2, <1>4, <1>5, GiveUpKeeps, SMTT(30)

(* A failed recovery gives up every job that waits.                        *)
LEMMA RecoveryFailsKeeps ==
    ASSUME IInv, at = "recover", NEW attempt \in Attempts(job[Min(pending)], TRUE),
           RecoveryFails(attempt)
    PROVE  IInv'
<1>1. GiveUp /\ job' = [job EXCEPT ![Min(pending)] = attempt.task]
    BY Zenon DEF RecoveryFails
<1>2. attempt.step # "Running"
    BY Zenon DEF RecoveryFails, Over
<1>3. /\ attempt.task \in Task /\ attempt.task.recovery = job[Min(pending)].recovery
      /\ attempt.task.defer = attempt.task.recovery /\ at \in Recovering
      /\ ~attempt.task.child
    BY <1>2, RecoveryAttemptIs, Zenon
<1>4. Min(pending) \in Jobs /\ TasksTyped
    BY <1>3, PendingIs, TypeInvIs, Zenon DEF IInv
<1>5. /\ TasksTyped' /\ job'[Min(pending)] = attempt.task
      /\ \A j \in Jobs : j # Min(pending) => job'[j] = job[j]
    BY <1>1, <1>3, <1>4, UpdateIs, Zenon
<1>6. QED
    BY <1>1, <1>3, <1>5, GiveUpKeeps, Zenon

(* What is shut down has no child, and is otherwise as it was.             *)
LEMMA ShutDownIs ==
    ASSUME TasksTyped, NEW set, set \subseteq Jobs, job' = ShutDown(set)
    PROVE  /\ TasksTyped' /\ \A j \in set : ~job'[j].child
           /\ \A j \in Jobs : /\ job'[j].failed = job[j].failed
                              /\ job'[j].recovery = job[j].recovery
                              /\ job'[j].defer = job[j].defer
           /\ \A j \in Jobs \ set : job'[j] = job[j]
BY ZenonT(40) DEF ShutDown, TasksTyped, Task

(* The terminal hook ends and the run is dropped.                          *)
LEMMA HookEndsKeeps ==
    ASSUME IInv, HookEnds
    PROVE  IInv'
<1>1. /\ TypeInv /\ PlacesApart /\ StagesInTurn /\ OpenIsUnreported /\ NoneIsForgotten
      /\ ReportsAgree /\ ControlHolds /\ SlotsHold /\ ChildrenAreOwned /\ TasksHold /\ ErrorsHold
      /\ SuccessMeansAllPassed
    BY Zenon DEF IInv
<1>2. ModesTyped /\ ControlTyped /\ PlacesTyped /\ TasksTyped /\ ReportsTyped
    BY <1>1, TypeInvIs, Zenon
<1>3. /\ at = "hook" /\ at' = "finished" /\ services' = << >> /\ job' = ShutDown(Range(services))
      /\ UNCHANGED <<modeVars, cursor, freed, back, phase, stages, queued, active, pending,
                     stageLimit, reportVars>>
    BY Zenon DEF HookEnds
<1>4. /\ run' = run /\ appended' = appended /\ stages' = stages /\ active' = active
      /\ queued' = queued /\ pending' = pending /\ Ahead' = Ahead
      /\ stageLimit' = stageLimit /\ errors' = errors /\ terminal' = terminal
      /\ outcome' = outcome /\ hook' = hook
    BY <1>3, Zenon DEF modeVars, reportVars, Ahead
<1>5. active = << >> /\ queued = << >> /\ pending = {} /\ stages = << >>
    BY <1>1, <1>3, Zenon DEF ControlHolds, Closing, StageIsOver
<1>6. /\ Range(active) = {} /\ Range(queued) = {} /\ JobsOf(stages) = {} /\ Range(services') = {}
      /\ IsInjective(services')
    <2>1. active \in Seq(Jobs) /\ queued \in Seq(Jobs) /\ stages \in Seq(Stage)
        BY <1>2, Zenon DEF PlacesTyped
    <2>2. Range(active) = {} /\ Range(queued) = {} /\ JobsOf(stages) = {}
        BY <1>5, <2>1, RangeIs, JobsOfIs, Zenon
    <2>3. Range(services') = {} /\ IsInjective(services')
        BY <1>3 DEF Range, IsInjective
    <2>4. QED
        BY <2>2, <2>3, Zenon
<1>7. Held = Range(services) /\ Held' = {} /\ Current' = {}
    BY <1>4, <1>5, <1>6, Zenon DEF Held, Current
<1>8. /\ TasksTyped' /\ \A j \in Range(services) : ~job'[j].child
      /\ \A j \in Jobs : /\ job'[j].failed = job[j].failed /\ job'[j].recovery = job[j].recovery
                         /\ job'[j].defer = job[j].defer
      /\ \A j \in Jobs \ Range(services) : job'[j] = job[j]
    BY <1>1, <1>2, <1>3, OpenAreJobs, ShutDownIs, Zenon
<1>9. TypeInv'
    <2>1. ModesTyped' /\ ReportsTyped'
        BY <1>2, <1>3, FrameTypes, Zenon
    <2>2. ControlTyped' /\ PlacesTyped'
        BY <1>2, <1>3 DEF ControlTyped, PlacesTyped, Ended
    <2>3. QED
        BY <1>8, <2>1, <2>2, TypeInvNext, Zenon
<1>10. PlacesApart'
    BY <1>1, <1>4, <1>6, <1>7, Zenon DEF PlacesApart
<1>11. StagesInTurn'
    BY <1>1, <1>4, <1>6, <1>7, Zenon DEF StagesInTurn
<1>12. OpenIsUnreported'
    BY <1>1, <1>4, <1>7, Zenon DEF OpenIsUnreported
<1>13. NoneIsForgotten'
    BY <1>1, <1>3, <1>4, <1>6, <1>7, Zenon DEF NoneIsForgotten, Planned, Ended, Finite, TasksHold
<1>14. ReportsAgree'
    BY <1>1, <1>3, <1>4, FrameReports, Zenon
<1>15. ControlHolds'
    BY <1>1, <1>3, <1>4, <1>5, Zenon DEF ControlHolds, Recovering, Closing, Ended, AtTop, StageIsOver
<1>16. SlotsHold'
    BY <1>1, <1>4, Zenon DEF SlotsHold
<1>17. ChildrenAreOwned'
    BY <1>1, <1>3, <1>6, <1>8, Zenon DEF ChildrenAreOwned
<1>18. TasksHold'
    <2>1. JobsOf(Ahead) \subseteq Jobs
        BY <1>1, OpenAreJobs, Zenon
    <2>2. \A j \in Jobs : /\ job'[j].recovery => run.recovery[j] > 0
                          /\ job'[j].defer = job'[j].recovery
        <3>1. \A j \in Jobs : /\ job[j].recovery => run.recovery[j] > 0
                              /\ job[j].defer = job[j].recovery
            BY <1>1, Zenon DEF TasksHold
        <3>2. QED
            BY <1>8, <3>1, Zenon
    <2>3. \A j \in Range(queued) \cup JobsOf(Ahead) : ~job'[j].failed
        BY <1>1, <1>6, <1>8, <2>1, Zenon DEF TasksHold
    <2>4. QED
        BY <1>1, <1>4, <1>6, <2>2, <2>3, Zenon DEF TasksHold
<1>19. ErrorsHold'
    <2>1. \A j \in Jobs : Unforgiven(j)' <=> Unforgiven(j)
        BY <1>4, <1>8, Zenon DEF Unforgiven
    <2>2. QED
        BY <1>1, <1>3, <1>4, <2>1, Zenon DEF ErrorsHold
<1>20. SuccessMeansAllPassed'
    BY <1>1, <1>4, FrameSuccess, Zenon
<1>21. QED
    BY <1>9, <1>10, <1>11, <1>12, <1>13, <1>14, <1>15, <1>16, <1>17, <1>18, <1>19, <1>20, Zenon DEF IInv

(* The worker cancels the run between two calls of advance.                *)
LEMMA CancelKeeps ==
    ASSUME IInv, Cancel
    PROVE  IInv'
<1>1. /\ TypeInv /\ PlacesApart /\ StagesInTurn /\ OpenIsUnreported /\ NoneIsForgotten
      /\ ReportsAgree /\ ControlHolds /\ SlotsHold /\ ChildrenAreOwned /\ TasksHold /\ ErrorsHold
    BY Zenon DEF IInv
<1>2. ModesTyped /\ ControlTyped /\ PlacesTyped /\ TasksTyped /\ ReportsTyped
    BY <1>1, TypeInvIs, Zenon
<1>3. PICK owned : owned = Range(active) \cup Range(services) \cup pending
    BY Zenon
<1>4. PICK D : D = Held \cup JobsOf(stages)
    BY Zenon
<1>5. PICK result : result = [j \in D |-> "Cancelled"]
    BY Zenon
<1>6. owned \cup (Range(queued) \cup JobsOf(stages)) = D
    BY <1>3, <1>4, Zenon DEF Held, Current
<1>7. /\ at = "idle" /\ at' = "cancelled" /\ job' = ShutDown(owned)
      /\ active' = << >> /\ services' = << >> /\ pending' = {} /\ queued' = << >> /\ stages' = << >>
      /\ UNCHANGED <<modeVars, cursor, freed, back, phase, stageLimit, errors, outcome, hook>>
    BY <1>3, Zenon DEF Cancel
<1>8. Snapshots(result)
    BY <1>3, <1>5, <1>6, Zenon DEF Cancel
<1>9. /\ run' = run /\ appended' = appended /\ stageLimit' = stageLimit /\ errors' = errors
      /\ outcome' = outcome /\ hook' = hook
    BY <1>7, Zenon DEF modeVars
<1>10. /\ Range(active') = {} /\ Range(queued') = {} /\ Range(services') = {}
       /\ IsInjective(active') /\ IsInjective(queued') /\ IsInjective(services')
       /\ Held' = {} /\ Current' = {}
    <2>1. /\ Range(active') = {} /\ Range(queued') = {} /\ Range(services') = {}
          /\ IsInjective(active') /\ IsInjective(queued') /\ IsInjective(services')
        BY <1>7 DEF Range, IsInjective
    <2>2. QED
        BY <1>7, <2>1, Zenon DEF Held, Current
<1>11. /\ Held \subseteq Jobs /\ JobsOf(stages) \subseteq Jobs /\ JobsOf(stages) \subseteq JobsOf(Ahead)
       /\ owned \subseteq Jobs /\ JobsOf(Ahead) \subseteq Jobs /\ Planned \subseteq Jobs
       /\ D \subseteq Jobs
    BY <1>1, <1>3, <1>4, OpenAreJobs, Zenon
<1>12. \A j \in D : terminal[j] = << >> /\ outcome[j] = << >>
    BY <1>1, <1>4, <1>11, Zenon DEF OpenIsUnreported
<1>13. /\ terminal' \in [Jobs -> Seq(Outcomes)]
       /\ \A j \in D : terminal'[j] = << "Cancelled" >>
       /\ \A j \in Jobs \ D : terminal'[j] = terminal[j]
    <2>1. result \in [D -> Outcomes] /\ \A j \in D : WireState(result[j]) = "Cancelled"
        BY <1>5, Zenon DEF Outcomes, WireState
    <2>2. /\ terminal' \in [Jobs -> Seq(Outcomes)]
          /\ \A j \in D : terminal'[j] = << WireState(result[j]) >>
          /\ \A j \in Jobs \ D : terminal'[j] = terminal[j]
        BY <1>2, <1>8, <1>11, <1>12, <2>1, RecordIs, ZenonT(40)
    <2>3. QED
        BY <2>1, <2>2, Zenon
<1>14. /\ TasksTyped' /\ \A j \in owned : ~job'[j].child
       /\ \A j \in Jobs : /\ job'[j].failed = job[j].failed /\ job'[j].recovery = job[j].recovery
                          /\ job'[j].defer = job[j].defer
       /\ \A j \in Jobs \ owned : job'[j] = job[j]
    BY <1>2, <1>7, <1>11, ShutDownIs, Zenon
<1>15. /\ Ahead' = RestOf(run, appended) /\ InTurn(run, Ahead')
       /\ JobsOf(Ahead) = JobsOf(stages) \cup JobsOf(Ahead') /\ JobsOf(stages) \cap JobsOf(Ahead') = {}
    <2>1. run \in Plans /\ stages \in Seq(Stage) /\ appended \in BOOLEAN
        BY <1>2, Zenon DEF ModesTyped, PlacesTyped
    <2>2. RestOf(run, appended) \in Seq(Stage) /\ AheadOf(run, << >>, appended) = RestOf(run, appended)
        BY <2>1, AheadIs, Zenon
    <2>3. Ahead' = AheadOf(run, << >>, appended)
        BY <1>7, <1>9, Zenon DEF Ahead
    <2>4. InTurn(run, stages \o RestOf(run, appended))
        BY <1>1, Zenon DEF StagesInTurn, Ahead, AheadOf
    <2>5. /\ InTurn(run, RestOf(run, appended))
          /\ JobsOf(stages) \cap JobsOf(RestOf(run, appended)) = {}
        BY <2>1, <2>2, <2>4, SuffixInTurn, Zenon
    <2>6. JobsOf(Ahead) = JobsOf(stages) \cup JobsOf(RestOf(run, appended))
        BY <2>1, AheadIs, ZenonT(40) DEF Ahead
    <2>7. QED
        BY <2>2, <2>3, <2>5, <2>6, SMTT(30)
<1>16. JobsOf(Ahead') \cap D = {} /\ JobsOf(Ahead') \subseteq JobsOf(Ahead)
    BY <1>1, <1>4, <1>15, HeldIsNotAhead, Zenon
<1>17. TypeInv'
    <2>1. ModesTyped'
        BY <1>2, <1>7, FrameTypes
    <2>2. ControlTyped'
        BY <1>2, <1>7, Zenon DEF ControlTyped, Ended
    <2>3. PlacesTyped'
        BY <1>2, <1>7 DEF PlacesTyped
    <2>4. ReportsTyped'
        BY <1>2, <1>9, <1>13, Zenon DEF ReportsTyped
    <2>5. QED
        BY <1>14, <2>1, <2>2, <2>3, <2>4, TypeInvNext, SMTT(30)
<1>18. PlacesApart'
    BY <1>7, <1>10, Zenon DEF PlacesApart
<1>19. StagesInTurn'
    BY <1>9, <1>10, <1>15, Zenon DEF StagesInTurn
<1>20. OpenIsUnreported'
    BY <1>1, <1>9, <1>10, <1>11, <1>13, <1>16, SMTT(30) DEF OpenIsUnreported
<1>21. NoneIsForgotten'
    <2>1. Planned' = Planned
        BY <1>9, Zenon DEF Planned
    <2>2. ASSUME NEW j \in Planned PROVE terminal'[j] # << >> \/ outcome[j] = << "Cancelled" >>
        <3>1. CASE j \in D
            <4>1. terminal'[j] = << "Cancelled" >>
                BY <1>13, <3>1, Zenon
            <4>2. QED
                BY <4>1
        <3>2. CASE j \notin D
            <4>1. outcome[j] # << >> /\ j \in Jobs /\ terminal'[j] = terminal[j]
                BY <1>1, <1>4, <1>7, <1>11, <1>13, <2>2, <3>2, ZenonT(40) DEF NoneIsForgotten, Ended
            <4>2. terminal[j] # << >> \/ outcome[j] = << "Cancelled" >>
                <5>1. ReportOf(j)
                    BY <1>1, <4>1, Zenon DEF ReportsAgree
                <5>2. \A r : << WireState(r) >> # << >>
                    BY Zenon
                <5>3. QED
                    BY <1>7, <4>1, <5>1, <5>2, Zenon DEF ReportOf
            <4>3. QED
                BY <4>1, <4>2, Zenon
        <3>3. QED
            BY <3>1, <3>2, Zenon
    <2>3. QED
        BY <1>7, <1>9, <2>1, <2>2, SMTT(30) DEF NoneIsForgotten, Ended
<1>22. ReportsAgree'
    <2> SUFFICES ASSUME NEW j \in Jobs PROVE ReportOf(j)'
        BY Zenon DEF ReportsAgree
    <2>1. CASE j \in D
        BY <1>7, <1>9, <1>12, <1>13, <2>1, ZenonT(40) DEF ReportOf
    <2>2. CASE j \notin D
        BY <1>1, <1>7, <1>9, <1>13, <2>2, SMTT(30) DEF ReportsAgree, ReportOf
    <2>3. QED
        BY <2>1, <2>2, Zenon
<1>23. hook' = "none" /\ SuccessMeansAllPassed'
    BY <1>1, <1>7, <1>9, NoHookYet, SMTT(30)
<1>24. ControlHolds'
    BY <1>7, <1>23, Zenon DEF ControlHolds, Recovering, Closing, Ended, AtTop, StageIsOver
<1>25. SlotsHold'
    <2>1. Len(active') = 0 /\ stageLimit \in Nat
        BY <1>2, <1>7, Zenon DEF PlacesTyped
    <2>2. QED
        BY <1>1, <1>7, <1>9, <2>1, SMTT(30) DEF SlotsHold
<1>26. ChildrenAreOwned'
    BY <1>1, <1>3, <1>7, <1>14, Zenon DEF ChildrenAreOwned
<1>27. TasksHold'
    BY <1>1, <1>7, <1>9, <1>10, <1>11, <1>14, <1>16, ZenonT(40) DEF TasksHold
<1>28. ErrorsHold'
    <2>1. \A j \in Jobs : Unforgiven(j)' => Unforgiven(j)
        BY <1>9, <1>10, <1>14, Zenon DEF Unforgiven
    <2>2. at' = "cancelled"
        BY <1>7, Zenon
    <2>3. \A j \in Jobs : outcome[j] = << "Failed" >> \/ Unforgiven(j) => errors
        BY <1>1, Zenon DEF ErrorsHold
    <2>4. QED
        BY <1>9, <2>1, <2>2, <2>3, Zenon DEF ErrorsHold
<1>29. QED
    BY <1>17, <1>18, <1>19, <1>20, <1>21, <1>22, <1>23, <1>24, <1>25, <1>26, <1>27, <1>28, SMTT(30) DEF IInv

(* A reload retires one service of the run.                                *)
LEMMA ReconcileKeeps ==
    ASSUME IInv, NEW c \in DOMAIN services, ReconcileServices(c)
    PROVE  IInv'
<1>1. /\ TypeInv /\ PlacesApart /\ StagesInTurn /\ OpenIsUnreported /\ NoneIsForgotten
      /\ ReportsAgree /\ ControlHolds /\ SlotsHold /\ ChildrenAreOwned /\ TasksHold /\ ErrorsHold
    BY Zenon DEF IInv
<1>2. ModesTyped /\ ControlTyped /\ PlacesTyped /\ TasksTyped /\ ReportsTyped
    BY <1>1, TypeInvIs, Zenon
<1>3. services \in Seq(Jobs) /\ c \in 1 .. Len(services)
    BY <1>2 DEF PlacesTyped
<1>4. PICK p \in Jobs : p = services[c]
    BY <1>3
<1>5. /\ at = "idle" /\ services' = Without(services, c) /\ job' = ShutDown({p})
      /\ Outcome([j \in {p} |-> "Cancelled"])
      /\ UNCHANGED <<modeVars, controlVars, stages, queued, active, pending, stageLimit,
                     errors, terminal, hook>>
    BY <1>4, Zenon DEF ReconcileServices
<1>6. /\ run' = run /\ appended' = appended /\ stages' = stages /\ active' = active
      /\ queued' = queued /\ pending' = pending /\ hook' = hook /\ Ahead' = Ahead
      /\ stageLimit' = stageLimit /\ at' = at /\ token' = token /\ back' = back
      /\ errors' = errors /\ terminal' = terminal
    BY <1>5, Zenon DEF modeVars, controlVars, Ahead
<1>7. /\ services' \in Seq(Jobs) /\ Range(services') = Range(services) \ {p}
      /\ IsInjective(services') /\ p \in Range(services)
    <2>1. IsInjective(services) /\ p \in Range(services)
        BY <1>1, <1>3, <1>4, RangeIs, Zenon DEF PlacesApart
    <2>2. QED
        BY <1>3, <1>4, <1>5, <2>1, WithoutIs, SMTT(30)
<1>8. /\ Current' = Current /\ Held = Current \cup Range(services) /\ p \notin Current
      /\ Held' = Held \ {p} /\ p \in Held
    BY <1>1, <1>6, <1>7, Zenon DEF Current, Held, PlacesApart
<1>9. /\ p \notin JobsOf(Ahead) /\ p \notin JobsOf(stages) /\ JobsOf(Ahead) \subseteq Jobs
      /\ Held \subseteq Jobs /\ Planned \subseteq Jobs
    BY <1>1, <1>8, HeldIsNotAhead, OpenAreJobs, Zenon
<1>10. terminal[p] = << >> /\ outcome[p] = << >> /\ p \in run.services
    BY <1>1, <1>7, <1>8, Zenon DEF OpenIsUnreported, TasksHold
<1>11. /\ outcome' \in [Jobs -> Seq(Outcomes)] /\ outcome'[p] = << "Cancelled" >>
       /\ \A j \in Jobs : j # p => outcome'[j] = outcome[j]
    <2>1. PICK D : D = {p}
        BY Zenon
    <2>2. PICK result : result = [j \in D |-> "Cancelled"]
        BY Zenon
    <2>3. result \in [D -> Outcomes] /\ result[p] = "Cancelled" /\ Outcome(result) /\ D \subseteq Jobs
        BY <1>5, <2>1, <2>2, Zenon DEF Outcomes
    <2>4. \A j \in D : terminal[j] = << >> /\ outcome[j] = << >>
        BY <1>10, <2>1, Zenon
    <2>5. /\ outcome' \in [Jobs -> Seq(Outcomes)]
          /\ \A j \in D : outcome'[j] = << result[j] >>
          /\ \A j \in Jobs \ D : outcome'[j] = outcome[j]
        BY <1>2, <2>3, <2>4, RecordIs, Zenon
    <2>6. QED
        BY <2>1, <2>3, <2>5, Zenon
<1>12. /\ TasksTyped' /\ ~job'[p].child
       /\ \A j \in Jobs : /\ job'[j].failed = job[j].failed /\ job'[j].recovery = job[j].recovery
                          /\ job'[j].defer = job[j].defer
       /\ \A j \in Jobs : j # p => job'[j] = job[j]
    <2>1. {p} \subseteq Jobs
        BY Zenon
    <2>2. /\ TasksTyped' /\ \A j \in {p} : ~job'[j].child
          /\ \A j \in Jobs : /\ job'[j].failed = job[j].failed /\ job'[j].recovery = job[j].recovery
                             /\ job'[j].defer = job[j].defer
          /\ \A j \in Jobs \ {p} : job'[j] = job[j]
        BY <1>2, <1>5, <2>1, ShutDownIs, Zenon
    <2>3. QED
        BY <2>2, Zenon
<1>13. TypeInv'
    <2>1. ModesTyped' /\ ControlTyped'
        BY <1>2, <1>5, FrameTypes, Zenon
    <2>2. PlacesTyped'
        BY <1>2, <1>6, <1>7, Zenon DEF PlacesTyped
    <2>3. ReportsTyped'
        BY <1>2, <1>6, <1>11, Zenon DEF ReportsTyped
    <2>4. QED
        BY <1>12, <2>1, <2>2, <2>3, TypeInvNext, Zenon
<1>14. PlacesApart'
    BY <1>1, <1>6, <1>7, <1>8, Zenon DEF PlacesApart
<1>15. StagesInTurn'
    <2>1. InTurn(run, Ahead') /\ Range(services') \subseteq Held
        BY <1>1, <1>6, <1>7, <1>8, SMTT(30) DEF StagesInTurn
    <2>2. QED
        BY <1>1, <1>6, <1>8, <2>1, ShrinkInTurn, SMTT(30)
<1>16. OpenIsUnreported'
    BY <1>1, <1>6, <1>8, <1>9, <1>11, Zenon DEF OpenIsUnreported
<1>17. NoneIsForgotten'
    <2>1. outcome'[p] # << >>
        BY <1>11
    <2>2. Planned' = Planned
        BY <1>6, Zenon DEF Planned
    <2>3. \A j \in Planned : j \in Held \cup JobsOf(stages) \/ outcome[j] # << >>
        BY <1>1, <1>5, Zenon DEF NoneIsForgotten, Ended
    <2>4. \A j \in Planned : j \in Held' \cup JobsOf(stages) \/ outcome'[j] # << >>
        BY <1>8, <1>9, <1>11, <2>1, <2>3, ZenonT(40)
    <2>5. QED
        BY <1>5, <1>6, <2>2, <2>4, Zenon DEF NoneIsForgotten
<1>18. ReportsAgree'
    BY <1>1, <1>5, <1>6, <1>10, <1>11, ZenonT(40) DEF ReportsAgree, ReportOf
<1>19. ControlHolds'
    BY <1>1, <1>5, <1>6 DEF ControlHolds, Recovering, Closing, Ended, AtTop, StageIsOver
<1>20. SlotsHold'
    BY <1>1, <1>6, Zenon DEF SlotsHold
<1>21. ChildrenAreOwned'
    <2> SUFFICES ASSUME NEW j \in Jobs, job'[j].child
                 PROVE  j \in Range(active') \cup Range(services')
        BY Zenon DEF ChildrenAreOwned
    <2>1. j # p /\ job[j].child
        BY <1>12, Zenon
    <2>2. QED
        BY <1>1, <1>5, <1>6, <1>7, <2>1, Zenon DEF ChildrenAreOwned
<1>22. TasksHold'
    <2>1. \A j \in Range(services') \cup Range(queued) \cup Range(active) \cup JobsOf(Ahead) :
                job'[j] = job[j]
        BY <1>7, <1>8, <1>9, <1>12, Zenon DEF Held, Current
    <2>2. \A j \in Jobs : /\ job'[j].recovery = job[j].recovery
                          /\ job'[j].defer = job[j].defer
        BY <1>12, Zenon
    <2>3. Range(services') \subseteq run.services
        BY <1>1, <1>7, Zenon DEF TasksHold
    <2>4. \A j \in Jobs : /\ job'[j].recovery => run.recovery[j] > 0
                          /\ job'[j].defer = job'[j].recovery
        <3>1. \A j \in Jobs : /\ job[j].recovery => run.recovery[j] > 0
                              /\ job[j].defer = job[j].recovery
            BY <1>1, Zenon DEF TasksHold
        <3>2. QED
            BY <2>2, <3>1, Zenon
    <2>5. \A j \in Range(services') : job'[j].child \/ job'[j].left > 0
        BY <1>1, <1>7, <2>1, Zenon DEF TasksHold
    <2>6. /\ \A j \in Range(queued) \cup JobsOf(Ahead) : ~job'[j].failed
          /\ run.failFast => \A j \in Range(active) : ~job'[j].failed
        BY <1>1, <2>1, Zenon DEF TasksHold
    <2>7. QED
        BY <1>1, <1>6, <2>3, <2>4, <2>5, <2>6, Zenon DEF TasksHold
<1>23. ErrorsHold'
    <2>1. \A j \in Jobs : Unforgiven(j)' <=> Unforgiven(j)
        BY <1>6, <1>12, Zenon DEF Unforgiven
    <2>2. outcome[p] # << "Failed" >> /\ outcome'[p] # << "Failed" >>
        BY <1>10, <1>11
    <2>3. \A j \in Jobs : outcome'[j] = << "Failed" >> <=> outcome[j] = << "Failed" >>
        BY <1>11, <2>2, Zenon
    <2>4. QED
        BY <1>1, <1>6, <2>1, <2>3, Zenon DEF ErrorsHold
<1>24. SuccessMeansAllPassed'
    BY <1>1, <1>5, <1>6, NoHookYet, SMTT(30)
<1>25. QED
    BY <1>13, <1>14, <1>15, <1>16, <1>17, <1>18, <1>19, <1>20, <1>21, <1>22, <1>23, <1>24, SMTT(30) DEF IInv

(* A reload appends its stages to the run.                                 *)
LEMMA AppendPlanKeeps ==
    ASSUME IInv, AppendPlan
    PROVE  IInv'
<1>1. /\ TypeInv /\ PlacesApart /\ StagesInTurn /\ OpenIsUnreported /\ NoneIsForgotten
      /\ ReportsAgree /\ ControlHolds /\ SlotsHold /\ ChildrenAreOwned /\ TasksHold /\ ErrorsHold
    BY Zenon DEF IInv
<1>2. ModesTyped /\ ControlTyped /\ PlacesTyped /\ TasksTyped /\ ReportsTyped
    BY <1>1, TypeInvIs, Zenon
<1>3. /\ at = "idle" /\ appended = FALSE /\ appended' = TRUE /\ stages' = stages \o run.extra
      /\ UNCHANGED <<run, token, limit, controlVars, queued, active, services, pending,
                     stageLimit, job, reportVars>>
    BY <1>2, Zenon DEF AppendPlan, ModesTyped
<1>4. /\ run' = run /\ active' = active /\ queued' = queued /\ services' = services
      /\ pending' = pending /\ hook' = hook /\ stageLimit' = stageLimit /\ at' = at
      /\ token' = token /\ back' = back /\ errors' = errors /\ terminal' = terminal
      /\ outcome' = outcome /\ job' = job /\ Current' = Current /\ Held' = Held
    BY <1>3, Zenon DEF controlVars, reportVars, Current, Held
<1>5. run \in Plans /\ stages \in Seq(Stage) /\ run.extra \in Seq(Stage)
    BY <1>2, PlanIs, Zenon DEF ModesTyped, PlacesTyped
<1>6. /\ Ahead' = Ahead /\ stages' \in Seq(Stage)
      /\ JobsOf(stages') = JobsOf(stages) \cup JobsOf(run.extra)
    <2>1. AheadOf(run, stages \o run.extra, TRUE) = AheadOf(run, stages, FALSE)
        BY <1>5, AheadIs, Zenon
    <2>2. Ahead' = AheadOf(run, stages \o run.extra, TRUE) /\ Ahead = AheadOf(run, stages, FALSE)
        BY <1>3, <1>4, Zenon DEF Ahead
    <2>3. stages' \in Seq(Stage)
        BY <1>3, <1>5
    <2>4. JobsOf(stages \o run.extra) = JobsOf(stages) \cup JobsOf(run.extra)
        BY <1>5, JobsOfIs, Zenon
    <2>5. QED
        BY <1>3, <2>1, <2>2, <2>3, <2>4, Zenon
<1>7. TypeInv'
    <2>1. ControlTyped' /\ TasksTyped' /\ ReportsTyped'
        BY <1>2, <1>3, FrameTypes, Zenon
    <2>2. appended' \in BOOLEAN
        BY <1>3, Zenon
    <2>3. ModesTyped' /\ PlacesTyped'
        BY <1>2, <1>3, <1>6, <2>2, Zenon DEF ModesTyped, PlacesTyped
    <2>4. QED
        BY <2>1, <2>3, TypeInvNext, Zenon
<1>8. PlacesApart' /\ StagesInTurn'
    BY <1>1, <1>4, <1>6, Zenon DEF PlacesApart, StagesInTurn
<1>9. OpenIsUnreported'
    BY <1>1, <1>4, <1>6, Zenon DEF OpenIsUnreported
<1>10. NoneIsForgotten'
    <2>1. Planned' \subseteq Planned \cup JobsOf(run.extra)
        BY <1>3, <1>4, Zenon DEF Planned
    <2>2. QED
        BY <1>1, <1>3, <1>4, <1>6, <2>1, ZenonT(40) DEF NoneIsForgotten, Ended
<1>11. ReportsAgree'
    BY <1>1, <1>3, <1>4, FrameReports, ZenonT(40)
<1>12. ControlHolds'
    BY <1>1, <1>3, <1>4, SMTT(30) DEF ControlHolds, Recovering, Closing, Ended, AtTop, StageIsOver
<1>13. SlotsHold'
    BY <1>1, <1>4, Zenon DEF SlotsHold
<1>14. ChildrenAreOwned' /\ TasksHold'
    BY <1>1, <1>4, <1>6, Zenon DEF ChildrenAreOwned, TasksHold
<1>15. ErrorsHold'
    BY <1>1, <1>4, Zenon DEF ErrorsHold, Unforgiven
<1>16. SuccessMeansAllPassed'
    BY <1>1, <1>3, <1>4, NoHookYet, Zenon
<1>17. QED
    BY <1>7, <1>8, <1>9, <1>10, <1>11, <1>12, <1>13, <1>14, <1>15, <1>16, SMTT(30) DEF IInv


(* A run starts in the invariant.                                          *)
LEMMA InitHolds ==
    ASSUME Init
    PROVE  IInv
<1>1. /\ run \in Plans /\ token = FALSE /\ limit \in Limits /\ appended = FALSE
      /\ at = "idle" /\ cursor = 1 /\ freed = FALSE /\ back = "loop" /\ phase = "recovery"
      /\ stages = run.stages /\ queued = << >> /\ active = << >> /\ services = << >>
      /\ pending = {} /\ stageLimit = 0 /\ job = [j \in Jobs |-> NewTask(run, j)]
      /\ errors = FALSE /\ hook = "none"
      /\ terminal = [j \in Jobs |-> << >>] /\ outcome = [j \in Jobs |-> << >>]
    BY Zenon DEF Init
<1>2. /\ run.stages \in Seq(Stage) /\ run.extra \in Seq(Stage)
      /\ run.commands \in [Jobs -> Nat \ {0}] /\ run.recovery \in [Jobs -> Nat]
    BY <1>1, PlanIs, Zenon
<1>3. /\ Range(active) = {} /\ Range(queued) = {} /\ Range(services) = {}
      /\ IsInjective(active) /\ IsInjective(queued) /\ IsInjective(services)
    BY <1>1 DEF Range, IsInjective
<1>4. Held = {} /\ Current = {}
    BY <1>1, <1>3, Zenon DEF Held, Current
<1>5. Ahead = run.stages \o run.extra
    BY <1>1, Zenon DEF Ahead, AheadOf, RestOf
<1>6. InTurn(run, Ahead)
    BY <1>1, <1>5, PlanInTurn, Zenon
<1>7. JobsOf(Ahead) \subseteq Jobs /\ JobsOf(stages) \subseteq Jobs
    <2>1. Ahead \in Seq(Stage)
        BY <1>2, <1>5
    <2>2. QED
        BY <1>1, <1>2, <2>1, JobsOfIs, Zenon
<1>8. \A j \in Jobs : /\ job[j] \in Task /\ ~job[j].child /\ ~job[j].failed
                      /\ job[j].recovery <=> run.recovery[j] > 0
                      /\ job[j].defer = job[j].recovery
    <2> SUFFICES ASSUME NEW j \in Jobs
                 PROVE  /\ job[j] \in Task /\ ~job[j].child /\ ~job[j].failed
                        /\ job[j].recovery <=> run.recovery[j] > 0
                        /\ job[j].defer = job[j].recovery
        BY Zenon
    <2>1. run.commands[j] \in Nat /\ run.recovery[j] \in Nat /\ MaxRestarts \in 0 .. MaxRestarts
        BY <1>2, PlansAssumption
    <2>2. PICK b \in BOOLEAN : b = (run.recovery[j] > 0)
        <3>1. (run.recovery[j] > 0) \in BOOLEAN
            BY <2>1
        <3>2. QED
            BY <3>1, Zenon
    <2>3. job[j] = [left |-> run.commands[j], child |-> FALSE, failed |-> FALSE, checked |-> FALSE,
                    recovery |-> b, defer |-> b, restarts |-> MaxRestarts]
        BY <1>1, <2>2, Zenon DEF NewTask
    <2>4. job[j] \in Task /\ ~job[j].child /\ ~job[j].failed /\ job[j].recovery = b /\ job[j].defer = b
        BY <2>1, <2>3 DEF Task
    <2>5. QED
        BY <2>2, <2>4, Zenon
<1>9. TypeInv
    <2>1. token \in BOOLEAN /\ appended \in BOOLEAN /\ freed \in BOOLEAN /\ errors \in BOOLEAN
        BY <1>1, Zenon
    <2>2. ModesTyped
        BY <1>1, <2>1, Zenon DEF ModesTyped
    <2>3. ControlTyped
        <3>1. cursor \in Nat \ {0}
            BY <1>1
        <3>2. QED
            BY <1>1, <2>1, <3>1, Zenon DEF ControlTyped
    <2>4. PlacesTyped
        BY <1>1, <1>2 DEF PlacesTyped
    <2>5. TasksTyped
        BY <1>1, <1>8, Zenon DEF TasksTyped
    <2>6. ReportsTyped
        BY <1>1, <2>1 DEF ReportsTyped
    <2>7. QED
        BY <2>2, <2>3, <2>4, <2>5, <2>6, TypeInvIs, ZenonT(40)
<1>10. PlacesApart
    BY <1>1, <1>3, <1>4, Zenon DEF PlacesApart
<1>11. StagesInTurn
    BY <1>3, <1>4, <1>6, Zenon DEF StagesInTurn
<1>12. \A j \in Jobs : terminal[j] = << >> /\ outcome[j] = << >>
    BY <1>1, Zenon
<1>13. OpenIsUnreported /\ ReportsAgree
    BY <1>4, <1>7, <1>12, Zenon DEF OpenIsUnreported, ReportsAgree, ReportOf
<1>14. NoneIsForgotten
    BY <1>1, Zenon DEF NoneIsForgotten, Planned, Ended
<1>15. ControlHolds
    BY <1>1, Zenon DEF ControlHolds, Recovering, Closing, Ended, AtTop, StageIsOver
<1>16. SlotsHold
    BY <1>1 DEF SlotsHold
<1>17. ChildrenAreOwned
    BY <1>8, Zenon DEF ChildrenAreOwned
<1>18. TasksHold
    BY <1>1, <1>3, <1>7, <1>8, SMTT(30) DEF TasksHold
<1>19. ErrorsHold
    <2>1. \A j \in Jobs : outcome[j] # << "Failed" >>
        BY <1>12
    <2>2. QED
        BY <1>1, <1>8, <2>1, SMTT(30) DEF ErrorsHold, Unforgiven
<1>20. SuccessMeansAllPassed
    BY <1>1, Zenon DEF SuccessMeansAllPassed
<1>21. QED
    BY <1>9, <1>10, <1>11, <1>13, <1>14, <1>15, <1>16, <1>17, <1>18, <1>19, <1>20, SMTT(30) DEF IInv

(* Every step keeps the invariant.                                         *)
LEMMA NextKeeps ==
    ASSUME IInv, Next
    PROVE  IInv'
<1>1. CASE NextStage
    BY <1>1, NextStageKeeps, Zenon
<1>2. CASE Refill
    BY <1>2, RefillKeeps, SMTT(30)
<1>3. CASE NoStageLeft
    BY <1>3, NoStageLeftKeeps, Zenon
<1>4. CASE PollTask
    <2>1. at = "poll" /\ cursor <= Len(active)
        BY <1>4, Zenon DEF PollTask
    <2>2. PICK attempt \in Attempts(job[Polled], run.failFast) :
                PollAgain(attempt) \/ PollRunning(attempt) \/ PollFinished(attempt)
                    \/ PollFailedFast(attempt)
        BY <1>4, Zenon DEF PollTask
    <2>3. QED
        BY <2>1, <2>2, PollAgainKeeps, PollRunningKeeps, PollFinishedKeeps, PollFailedFastKeeps, SMTT(30)
<1>5. CASE PassEnds
    BY <1>5, PassEndsKeeps, Zenon
<1>6. CASE ServiceStays \/ ServiceRestarts \/ ServiceRespawns \/ ServiceStops \/ ServiceFails
    BY <1>6, ServiceStaysKeeps, ServiceRestartsKeeps, ServiceRespawnsKeeps, ServiceStopsKeeps,
       ServiceFailsKeeps, SMTT(30)
<1>7. CASE KeptAlive
    BY <1>7, KeptAliveKeeps, Zenon
<1>8. CASE Barrier
    BY <1>8, BarrierKeeps, Zenon
<1>9. CASE AskApproval \/ Approve \/ ApprovalIsCancelled
    BY <1>9, ApprovalKeeps, Zenon
<1>10. CASE StartRecovery \/ PauseRecovery
    BY <1>10, StartRecoveryKeeps, PauseRecoveryKeeps, Zenon
<1>11. CASE RecoverTask
    <2>1. at = "recover"
        BY <1>11 DEF RecoverTask
    <2>2. PICK attempt \in Attempts(job[Min(pending)], TRUE) :
                RecoveryGoesOn(attempt) \/ RecoveryFails(attempt) \/ StartVerification(attempt)
                    \/ VerificationEnds(attempt)
        BY <1>11, ZenonT(40) DEF RecoverTask
    <2>3. QED
        BY <2>1, <2>2, RecoveryGoesOnKeeps, RecoveryFailsKeeps, StartVerificationKeeps,
           VerificationEndsKeeps, ZenonT(40)
<1>12. CASE Decline
    BY <1>12, DeclineKeeps, Zenon
<1>13. CASE Finish \/ HookEnds
    BY <1>13, FinishKeeps, HookEndsKeeps, Zenon
<1>14. CASE Cancel \/ AppendPlan
    BY <1>14, CancelKeeps, AppendPlanKeeps, Zenon
<1>15. CASE \E c \in DOMAIN services : ReconcileServices(c)
    BY <1>15, ReconcileKeeps, Zenon
<1>16. CASE RequestCancel \/ \E n \in Limits : SetConcurrencyLimit(n)
    BY <1>16, OthersKeep, Zenon
<1>17. QED
    BY <1>1, <1>2, <1>3, <1>4, <1>5, <1>6, <1>7, <1>8, <1>9, <1>10, <1>11, <1>12, <1>13, <1>14,
       <1>15, <1>16, ZenonT(40)
       DEF Next, ExecutorStep, Resolve, Answer, WorkerStep

(* A stuttering step keeps it.                                             *)
LEMMA StutterKeeps ==
    ASSUME IInv, UNCHANGED vars
    PROVE  IInv'
<1>1. UNCHANGED <<modeVars, controlVars, placeVars, job, reportVars>>
    BY Zenon DEF vars
<1>2. /\ TypeInv /\ PlacesApart /\ StagesInTurn /\ OpenIsUnreported /\ NoneIsForgotten
      /\ ReportsAgree /\ ControlHolds /\ SlotsHold /\ ChildrenAreOwned /\ TasksHold
      /\ ErrorsHold /\ SuccessMeansAllPassed
    BY Zenon DEF IInv
<1>3. TypeInv'
    BY <1>1, <1>2, TypeInvIs, TypeInvNext, FrameTypes, SMTT(30)
<1>4. PlacesApart' /\ StagesInTurn' /\ SuccessMeansAllPassed'
    BY <1>1, <1>2, FramePlaces, FrameSuccess, Zenon DEF modeVars, placeVars, reportVars
<1>5. /\ Held' = Held /\ Current' = Current /\ Ahead' = Ahead /\ stages' = stages /\ run' = run
      /\ appended' = appended /\ terminal' = terminal /\ outcome' = outcome /\ at' = at
      /\ active' = active /\ queued' = queued /\ pending' = pending /\ services' = services
      /\ back' = back /\ hook' = hook /\ token' = token /\ stageLimit' = stageLimit /\ job' = job
      /\ errors' = errors
    BY <1>1, Zenon DEF modeVars, controlVars, placeVars, reportVars, Held, Current, Ahead
<1>6. OpenIsUnreported' /\ NoneIsForgotten' /\ ReportsAgree'
    BY <1>2, <1>5, Zenon DEF OpenIsUnreported, NoneIsForgotten, Planned, Finite, ReportsAgree, ReportOf
<1>7. ControlHolds' /\ SlotsHold' /\ ChildrenAreOwned' /\ TasksHold' /\ ErrorsHold'
    <2>1. ControlHolds' /\ SlotsHold'
        BY <1>2, <1>5, Zenon DEF ControlHolds, StageIsOver, AtTop, SlotsHold
    <2>2. ChildrenAreOwned'
        BY <1>2, <1>5, Zenon DEF ChildrenAreOwned
    <2>3. TasksHold'
        BY <1>2, <1>5, Zenon DEF TasksHold
    <2>4. ErrorsHold'
        BY <1>2, <1>5, Zenon DEF ErrorsHold, Unforgiven
    <2>5. QED
        BY <2>1, <2>2, <2>3, <2>4, Zenon
<1>8. QED
    BY <1>3, <1>4, <1>6, <1>7, SMTT(30) DEF IInv

(* The inductive invariant holds in every state of every run of the        *)
(* executor, for every set of plans, jobs and limits.                      *)
THEOREM InvariantHolds == Spec => []IInv
<1>1. Init => IInv
    BY InitHolds, Zenon
<1>2. IInv /\ [Next]_vars => IInv'
    BY NextKeeps, StutterKeeps, Zenon
<1>3. QED
    BY <1>1, <1>2, PTL DEF Spec

(* A list has at most as many elements as it is long.                      *)
LEMMA RangeIsBounded ==
    ASSUME NEW S, NEW s \in Seq(S)
    PROVE  IsFiniteSet(Range(s)) /\ Cardinality(Range(s)) <= Len(s)
<1>1. s \in Surjection(1 .. Len(s), Range(s))
    <2>1. DOMAIN s = 1 .. Len(s)
        OBVIOUS
    <2>2. \A t \in Range(s) : \E i \in 1 .. Len(s) : s[i] = t
        BY <2>1, Zenon DEF Range
    <2>3. s \in [1 .. Len(s) -> Range(s)]
        BY <2>1 DEF Range
    <2>4. QED
        BY <2>2, <2>3, Zenon DEF Surjection
<1>2. IsFiniteSet(1 .. Len(s)) /\ Cardinality(1 .. Len(s)) = Len(s)
    <2>1. Len(s) \in Nat /\ Len(s) \in Int /\ 1 \in Int
        OBVIOUS
    <2>2. /\ IsFiniteSet(1 .. Len(s))
          /\ Cardinality(1 .. Len(s)) = IF 1 > Len(s) THEN 0 ELSE Len(s) - 1 + 1
        BY <2>1, FS_Interval, Zenon
    <2>3. QED
        BY <2>1, <2>2
<1>3. QED
    BY <1>1, <1>2, FS_Surjection

-----------------------------------------------------------------------------
(* What follows from it.                                                   *)

(* The processes of finite jobs are those of the pass or the one of the    *)
(* job in recovery.                                                        *)
LEMMA AliveIs ==
    ASSUME IInv
    PROVE  LET alive == {j \in Finite : job[j].child} IN
           IF at \in {"recover", "pause"} THEN alive \subseteq {Min(pending)}
           ELSE alive \subseteq Range(active)
<1>1. TypeInv /\ ChildrenAreOwned /\ TasksHold
    BY Zenon DEF IInv
<1>2. \A j \in Finite : j \in Jobs /\ j \notin Range(services)
    BY <1>1, Zenon DEF Finite, TasksHold
<1>3. at \in {"recover", "pause"} => Range(active) = {}
    BY PendingIs, Zenon DEF Recovering
<1>4. QED
    BY <1>1, <1>2, <1>3, Zenon DEF ChildrenAreOwned

(* Processes of a stage are tasks in its slots, and no more than these.    *)
LEMMA WithinLimitHolds ==
    ASSUME IInv
    PROVE  WithinLimit
<1> DEFINE alive == {j \in Finite : job[j].child}
<1>1. TypeInv /\ SlotsHold /\ ControlHolds
    BY Zenon DEF IInv
<1>2. active \in Seq(Jobs) /\ stageLimit \in Nat /\ run.sequential \in BOOLEAN
    BY <1>1, TypeInvIs, PlanIs, Zenon DEF PlacesTyped, ModesTyped
<1>3. Cardinality(alive) \in Nat /\ Cardinality(alive) <= stageLimit
    <2>1. CASE at \in {"recover", "pause"}
        <3>1. alive \subseteq {Min(pending)} /\ pending # {}
            BY <1>1, <2>1, AliveIs, Zenon DEF ControlHolds, Recovering
        <3>2. IsFiniteSet({Min(pending)}) /\ Cardinality({Min(pending)}) = 1
            BY FS_Singleton, Zenon
        <3>3. /\ IsFiniteSet(alive) /\ Cardinality(alive) <= 1
            BY <3>1, <3>2, FS_Subset
        <3>4. Cardinality(alive) \in Nat
            BY <3>3, FS_CardinalityType, Zenon
        <3>5. stageLimit >= 1
            BY <1>1, <3>1, Zenon DEF SlotsHold
        <3>6. QED
            BY <1>2, <3>3, <3>4, <3>5, SMTT(30)
    <2>2. CASE at \notin {"recover", "pause"}
        <3>1. alive \subseteq Range(active)
            BY <2>2, AliveIs, Zenon
        <3>2. IsFiniteSet(Range(active)) /\ Cardinality(Range(active)) <= Len(active)
            BY <1>2, RangeIsBounded, Zenon
        <3>3. IsFiniteSet(alive) /\ Cardinality(alive) <= Cardinality(Range(active))
            BY <3>1, <3>2, FS_Subset, Zenon
        <3>4. Cardinality(alive) \in Nat /\ Cardinality(Range(active)) \in Nat
            BY <3>2, <3>3, FS_CardinalityType, Zenon
        <3>5. Len(active) <= stageLimit /\ Len(active) \in Nat
            BY <1>1, <1>2 DEF SlotsHold
        <3>6. QED
            BY <1>2, <3>2, <3>3, <3>4, <3>5, SMTT(30)
    <2>3. QED
        BY <2>1, <2>2, Zenon
<1>4. run.sequential => stageLimit <= 1
    BY <1>1, Zenon DEF SlotsHold
<1> HIDE DEF alive
<1>5. Cardinality(alive) <= stageLimit /\ (run.sequential => Cardinality(alive) <= 1)
    BY <1>2, <1>3, <1>4, SMTT(30)
<1>6. QED
    BY <1>5, Zenon DEF WithinLimit, alive

(* A job of a later stage has no process before its turn.                  *)
LEMMA StagesAreBarriersHolds ==
    ASSUME IInv
    PROVE  StagesAreBarriers
<1>1. /\ TypeInv /\ StagesInTurn /\ NoneIsForgotten /\ ControlHolds /\ ChildrenAreOwned
    BY Zenon DEF IInv
<1> SUFFICES ASSUME NEW i \in Planned, NEW j \in Planned, job[j].child,
                    StageIn(run, i) < StageIn(run, j), i \notin Range(services)
             PROVE  outcome[i] # << >>
    BY Zenon DEF StagesAreBarriers, StageOf
<1>2. j \in Jobs /\ JobsOf(stages) \subseteq JobsOf(Ahead)
    BY <1>1, OpenAreJobs, Zenon
<1>3. j \in Held
    <2>1. at \in {"recover", "pause"} => Min(pending) \in pending
        BY PendingIs, Zenon DEF Recovering
    <2>2. QED
        BY <1>1, <1>2, <2>1, Zenon DEF ChildrenAreOwned, Held, Current
<1>4. at \notin Ended
    <2>1. ASSUME at \in Ended PROVE Held = {}
        <3>1. active = << >> /\ queued = << >> /\ pending = {} /\ services = << >>
            BY <1>1, <2>1, Zenon DEF ControlHolds, Closing, StageIsOver
        <3>2. Range(<< >>) = {}
            BY DEF Range
        <3>3. QED
            BY <3>1, <3>2, Zenon DEF Held, Current
    <2>2. QED
        BY <1>3, <2>1, Zenon
<1>5. StageIn(run, j) \in Nat
    BY <1>1, <1>3, Zenon DEF StagesInTurn
<1>6. i \notin JobsOf(Ahead)
    <2> SUFFICES ASSUME i \in JobsOf(Ahead) PROVE FALSE
        BY Zenon
    <2>1. StageIn(run, j) < StageIn(run, i)
        BY <1>1, <1>3, Zenon DEF StagesInTurn
    <2>2. StageIn(run, i) \in Nat
        BY <1>1, StagesAreNumbers, Zenon DEF StagesInTurn
    <2>3. QED
        BY <1>5, <2>1, <2>2, SMTT(30)
<1>7. i \notin Current
    <2> SUFFICES ASSUME i \in Current PROVE FALSE
        BY Zenon
    <2>1. StageIn(run, i) \in Nat
        BY <1>1, Zenon DEF StagesInTurn, Held
    <2>2. CASE j \in Current
        <3>1. StageIn(run, i) = StageIn(run, j)
            BY <1>1, <2>2, Zenon DEF StagesInTurn
        <3>2. QED
            BY <1>5, <2>1, <3>1, SMTT(30)
    <2>3. CASE j \in Range(services)
        <3>1. StageIn(run, j) <= StageIn(run, i)
            BY <1>1, <2>3, Zenon DEF StagesInTurn
        <3>2. QED
            BY <1>5, <2>1, <3>1, SMTT(30)
    <2>4. QED
        BY <1>3, <2>2, <2>3, Zenon DEF Held
<1>8. QED
    BY <1>1, <1>2, <1>4, <1>6, <1>7, SMTT(30) DEF NoneIsForgotten, Held

(* However slots free up, limits change and jobs fail: the processes of a  *)
(* stage never outnumber its slots, and no process of a stage runs before  *)
(* every job of the stages before it is reported or in the background      *)
(* (advance, fill_available_slots).                                        *)
THEOREM ProcessesRunInTurnHolds == Spec => []ProcessesRunInTurn
<1>1. IInv => ProcessesRunInTurn
    BY WithinLimitHolds, StagesAreBarriersHolds, SMTT(30) DEF ProcessesRunInTurn, IInv, TypeInv
<1>2. QED
    BY <1>1, InvariantHolds, PTL

(* The terminal events, the outcome and summary of a run and the hook it   *)
(* chooses agree, in every run that finishes or is cancelled               *)
(* (record_task_outcome, stop_after_failure, cancel, finish).              *)
THEOREM AccountsAgreeHolds == Spec => []AccountsAgree
<1>1. ASSUME IInv PROVE ReportedOnce
    <2>1. ReportsAgree /\ NoneIsForgotten /\ TypeInv
        BY <1>1, Zenon DEF IInv
    <2>2. ASSUME NEW j \in Jobs
          PROVE  /\ Len(terminal[j]) <= 1 /\ Len(outcome[j]) <= 1
                 /\ terminal[j] # << >> /\ outcome[j] # << >> =>
                        terminal[j][1] = WireState(outcome[j][1])
        <3>1. \A x : Len(<< x >>) = 1 /\ << x >>[1] = x
            BY Zenon
        <3>2. Len(<< >>) = 0
            BY Zenon
        <3>3. ReportOf(j)
            BY <2>1, Zenon DEF ReportsAgree
        <3>4. CASE \E r \in Outcomes : terminal[j] = << WireState(r) >> /\ outcome[j] = << r >>
            <4>1. PICK r \in Outcomes : terminal[j] = << WireState(r) >> /\ outcome[j] = << r >>
                BY <3>4, Zenon
            <4>2. QED
                BY <3>1, <4>1
        <3>5. CASE terminal[j] = << >> \/ outcome[j] = << >>
            <4>1. Len(terminal[j]) \in {0, 1} /\ Len(outcome[j]) \in {0, 1}
                BY <3>1, <3>2, <3>3, <3>5, Zenon DEF ReportOf
            <4>2. \A n \in {0, 1} : n <= 1
                OBVIOUS
            <4>3. QED
                BY <3>5, <4>1, <4>2, Zenon
        <3>6. QED
            BY <3>3, <3>4, <3>5, Zenon DEF ReportOf
    <2>3. ASSUME at = "finished", NEW j \in Planned \cap Finite
          PROVE  terminal[j] # << >> /\ outcome[j] # << >>
        <3>1. outcome[j] # << >> /\ j \in Jobs /\ j \notin run.services
            BY <2>1, <2>3, Zenon DEF NoneIsForgotten, Finite
        <3>2. ReportOf(j)
            BY <2>1, <3>1, Zenon DEF ReportsAgree
        <3>3. \A r : << WireState(r) >> # << >>
            BY Zenon
        <3>4. QED
            BY <2>3, <3>1, <3>2, <3>3, SMTT(30) DEF ReportOf
    <2>4. at = "cancelled" =>
            \A j \in Planned : terminal[j] # << >> \/ outcome[j] = << "Cancelled" >>
        BY <2>1, Zenon DEF NoneIsForgotten
    <2>5. QED
        BY <2>2, <2>3, <2>4, Zenon DEF ReportedOnce
<1>2. ASSUME IInv PROVE ErrorsMatchOutcome
    <2> SUFFICES ASSUME at \in {"hook", "finished"}
                 PROVE  errors <=> \E j \in Jobs : \/ outcome[j] = << "Failed" >>
                                                   \/ j \in run.services /\ job[j].failed
        BY Zenon DEF ErrorsMatchOutcome
    <2>1. active = << >>
        BY <1>2, Zenon DEF IInv, ControlHolds, Closing, Ended, StageIsOver
    <2>2. Range(active) = {}
        BY <2>1 DEF Range
    <2>3. \A j : Unforgiven(j) <=> j \in run.services /\ job[j].failed
        BY <2>2, Zenon DEF Unforgiven
    <2>4. QED
        BY <1>2, <2>3, Zenon DEF IInv, ErrorsHold
<1>3. IInv => AccountsAgree
    BY <1>1, <1>2, SMTT(30) DEF AccountsAgree, IInv
<1>4. QED
    BY <1>3, InvariantHolds, PTL

(* No job of the original attempt has a process, or waits for one, while   *)
(* recoveries are asked for and run (advance, stop_after_failure).         *)
THEOREM RecoveryIsQuiescentHolds == Spec => []RecoveryIsQuiescent
<1>1. IInv => RecoveryIsQuiescent
    <2> SUFFICES ASSUME IInv, at \in Recovering
                 PROVE  /\ StageIsOver
                        /\ \A j \in Finite : job[j].child =>
                                j = Min(pending) /\ at \in {"recover", "pause"}
        BY Zenon DEF RecoveryIsQuiescent, Recovering
    <2>1. StageIsOver /\ Range(active) = {}
        BY PendingIs, Zenon DEF StageIsOver
    <2>2. QED
        BY <2>1, AliveIs, Zenon
<1>2. QED
    BY <1>1, InvariantHolds, PTL

(* No process outlives its generation (cancel, Drop for LoggedChild).      *)
THEOREM NothingOutlivesTheRunHolds == Spec => []NothingOutlivesTheRun
<1>1. ASSUME IInv, at \in Ended, NEW j \in Jobs PROVE ~job[j].child
    <2>1. active = << >> /\ services = << >> /\ ChildrenAreOwned /\ at \notin {"recover", "pause"}
        BY <1>1, Zenon DEF IInv, ControlHolds, Closing, Ended, StageIsOver
    <2>2. Range(active) = {} /\ Range(services) = {}
        BY <2>1 DEF Range
    <2>3. QED
        BY <2>1, <2>2, Zenon DEF ChildrenAreOwned
<1>2. IInv => NothingOutlivesTheRun
    BY <1>1, Zenon DEF NothingOutlivesTheRun
<1>3. QED
    BY <1>2, InvariantHolds, PTL
=============================================================================
