--------------------------- MODULE ExecutorSteps ----------------------------
(***************************************************************************)
(* The steps of Executor that give jobs their verdict, up to the choice of *)
(* the hook, keep the inductive invariant.                                 *)
(***************************************************************************)
EXTENDS ExecutorLemmas

(* The verification ends, passed or failed.                                *)
LEMMA VerificationEndsKeeps ==
    ASSUME IInv, at = "recover", NEW attempt \in Attempts(job[Min(pending)], TRUE),
           VerificationEnds(attempt)
    PROVE  IInv'
<1>1. /\ TypeInv /\ PlacesApart /\ StagesInTurn /\ ControlHolds /\ SlotsHold /\ ChildrenAreOwned
      /\ TasksHold /\ ErrorsHold
    BY Zenon DEF IInv
<1>2. ModesTyped /\ ControlTyped /\ PlacesTyped /\ TasksTyped /\ ReportsTyped
    BY <1>1, TypeInvIs, Zenon
<1>3. attempt.step # "Running"
    BY Zenon DEF VerificationEnds, Over
<1>4. /\ attempt.task \in Task /\ attempt.task.recovery = job[Min(pending)].recovery
      /\ attempt.task.defer = attempt.task.recovery /\ at \in Recovering
      /\ ~attempt.task.child
    BY <1>3, RecoveryAttemptIs, Zenon
<1>5. PICK p \in Jobs : p = Min(pending)
    BY <1>4, PendingIs, Zenon
<1>6. /\ p \in pending /\ p \notin run.services /\ p \notin Range(services)
      /\ p \notin JobsOf(Ahead) /\ p \notin Range(active) /\ p \notin Range(queued)
      /\ at \notin Ended /\ hook = "none" /\ active = << >> /\ queued = << >>
      /\ Range(active) = {} /\ Range(queued) = {}
    BY <1>4, <1>5, PendingIs, Zenon
<1>7. /\ job' = [job EXCEPT ![p] = attempt.task] /\ errors' = (errors \/ attempt.task.failed)
      /\ Record([i \in {p} |-> Verdict(attempt.task)])
      /\ pending' = pending \ {p} /\ phase' = "recovery"
      /\ at' = IF pending' = {} THEN back ELSE "approved"
      /\ UNCHANGED <<modeVars, cursor, freed, back, stages, queued, active, services,
                     stageLimit, hook>>
    BY <1>5, Zenon DEF VerificationEnds
<1>8. /\ run' = run /\ appended' = appended /\ stages' = stages /\ active' = active
      /\ queued' = queued /\ services' = services /\ hook' = hook /\ Ahead' = Ahead
      /\ stageLimit' = stageLimit /\ back' = back /\ cursor' = cursor /\ freed' = freed
    BY <1>7, Zenon DEF modeVars, Ahead
<1>9. at' \in {"loop", "finish", "approved"} /\ at' \notin Ended
    BY <1>2, <1>7, Zenon DEF ControlTyped, Ended
<1>10. /\ Current = pending /\ Current' = pending \ {p} /\ Held = pending \cup Range(services)
       /\ Held' = (pending \ {p}) \cup Range(services)
    BY <1>6, <1>7, <1>8, Zenon DEF Current, Held
<1>11. p \notin JobsOf(stages)
    BY <1>1, <1>6, OpenAreJobs, Zenon
<1>12. TasksTyped' /\ job'[p] = attempt.task /\ \A j \in Jobs : j # p => job'[j] = job[j]
    BY <1>2, <1>4, <1>7, UpdateIs, Zenon
<1>13. /\ OpenIsUnreported' /\ NoneIsForgotten' /\ ReportsAgree'
       /\ terminal' \in [Jobs -> Seq(Outcomes)] /\ outcome' \in [Jobs -> Seq(Outcomes)]
       /\ outcome[p] = << >> /\ outcome'[p] = << Verdict(attempt.task) >>
       /\ \A j \in Jobs : j # p => outcome'[j] = outcome[j]
    <2>1. PICK D : D = {p}
        BY Zenon
    <2>2. PICK result : result = [i \in D |-> Verdict(attempt.task)]
        BY Zenon
    <2>3. Verdict(attempt.task) \in Outcomes
        BY Zenon DEF Verdict, Outcomes
    <2>4. result \in [D -> Outcomes] /\ Record(result) /\ result[p] = Verdict(attempt.task)
        BY <1>7, <2>1, <2>2, <2>3, Zenon
    <2>5. /\ D \subseteq Held \cup JobsOf(stages)
          /\ Held' \cup JobsOf(stages') = (Held \cup JobsOf(stages)) \ D
          /\ JobsOf(Ahead') \subseteq JobsOf(Ahead) \ D
        BY <1>6, <1>8, <1>10, <1>11, <2>1
    <2>6. at \notin Ended /\ at' \notin Ended /\ run' = run /\ appended' = appended
        BY <1>6, <1>8, <1>9, Zenon
    <2>7. /\ OpenIsUnreported' /\ NoneIsForgotten' /\ ReportsAgree'
          /\ terminal' \in [Jobs -> Seq(Outcomes)] /\ outcome' \in [Jobs -> Seq(Outcomes)]
          /\ \A j \in D : j \in Jobs /\ outcome[j] = << >> /\ outcome'[j] = << result[j] >>
          /\ \A j \in Jobs \ D : outcome'[j] = outcome[j]
        BY <2>4, <2>5, <2>6, RecordKeeps, Zenon
    <2>8. QED
        BY <2>1, <2>4, <2>7, Zenon
<1>14. TypeInv'
    <2>1. ModesTyped'
        BY <1>2, <1>7, FrameTypes, Zenon
    <2>2. ControlTyped'
        BY <1>2, <1>7, <1>8, Zenon DEF ControlTyped
    <2>3. PlacesTyped'
        BY <1>2, <1>7, <1>8, Zenon DEF PlacesTyped
    <2>4. attempt.task.failed \in BOOLEAN
        BY <1>4, Zenon DEF Task
    <2>5. errors' \in BOOLEAN
        BY <1>2, <1>7, <2>4, Zenon DEF ReportsTyped
    <2>6. ReportsTyped'
        BY <1>2, <1>8, <1>13, <2>5, Zenon DEF ReportsTyped
    <2>7. QED
        BY <1>12, <2>1, <2>2, <2>3, <2>6, TypeInvNext, Zenon
<1>15. PlacesApart'
    BY <1>1, <1>6, <1>7, <1>8, <1>10, Zenon DEF PlacesApart
<1>16. StagesInTurn'
    <2>1. InTurn(run, Ahead')
        BY <1>1, <1>8, Zenon DEF StagesInTurn
    <2>2. QED
        BY <1>1, <1>8, <1>10, <2>1, ShrinkInTurn, Zenon
<1>17. ControlHolds'
    <2>1. /\ hook' = "none" /\ active' = << >> /\ queued' = << >>
          /\ back = "finish" => stages' = << >> /\ run'.failFast
        BY <1>1, <1>4, <1>6, <1>8, Zenon DEF ControlHolds
    <2>2. CASE pending' = {}
        <3>1. at' = back /\ back \in {"loop", "finish"}
            BY <1>2, <1>7, <2>2, Zenon DEF ControlTyped
        <3>2. QED
            BY <2>1, <2>2, <3>1, Zenon DEF ControlHolds, Recovering, Closing, Ended, AtTop, StageIsOver
    <2>3. CASE pending' # {}
        <3>1. at' = "approved" /\ back' = back
            BY <1>7, <1>8, <2>3, Zenon
        <3>2. QED
            BY <2>1, <2>3, <3>1, Zenon DEF ControlHolds, Recovering, Closing, Ended, AtTop, StageIsOver
    <2>4. QED
        BY <2>2, <2>3, Zenon
<1>18. SlotsHold'
    BY <1>1, <1>6, <1>7, <1>8, Zenon DEF SlotsHold
<1>19. ChildrenAreOwned'
    <2> SUFFICES ASSUME NEW j \in Jobs, job'[j].child PROVE j \in Range(services')
        BY Zenon DEF ChildrenAreOwned
    <2>1. j # p /\ job[j].child
        BY <1>4, <1>12, Zenon
    <2>2. QED
        BY <1>1, <1>5, <1>6, <1>8, <2>1, Zenon DEF ChildrenAreOwned
<1>20. TasksHold'
    <2>1. /\ Range(services) \subseteq Jobs /\ JobsOf(Ahead) \subseteq Jobs
        BY <1>1, OpenAreJobs, Zenon
    <2>2. \A j \in Range(services) \cup JobsOf(Ahead) : job'[j] = job[j]
        BY <1>6, <1>12, <2>1, Zenon
    <2>3. \A j \in Jobs : /\ job'[j].recovery => job[j].recovery
                          /\ job'[j].defer = job'[j].recovery
        BY <1>1, <1>4, <1>5, <1>12 DEF TasksHold
    <2>4. QED
        BY <1>1, <1>6, <1>7, <1>8, <2>2, <2>3, Zenon DEF TasksHold
<1>21. ErrorsHold'
    <2>1. \A j \in Jobs : Unforgiven(j)' <=> Unforgiven(j)
        BY <1>6, <1>8, <1>12, Zenon DEF Unforgiven
    <2>2. outcome'[p] = << "Failed" >> <=> attempt.task.failed
        BY <1>13 DEF Verdict
    <2>3. outcome[p] # << "Failed" >>
        BY <1>13
    <2>4. \A j \in Jobs : outcome'[j] = << "Failed" >> <=>
                            outcome[j] = << "Failed" >> \/ (j = p /\ attempt.task.failed)
        BY <1>13, <2>2, <2>3, Zenon
    <2>5. errors => \E j \in Jobs : outcome[j] = << "Failed" >> \/ Unforgiven(j)
        BY <1>1, <1>6, Zenon DEF ErrorsHold, Ended
    <2>6. errors' => \E j \in Jobs : outcome'[j] = << "Failed" >> \/ Unforgiven(j)'
        BY <1>7, <2>1, <2>4, <2>5, Zenon
    <2>7. \A j \in Jobs : outcome'[j] = << "Failed" >> \/ Unforgiven(j)' => errors'
        BY <1>1, <1>7, <2>1, <2>4, Zenon DEF ErrorsHold
    <2>8. QED
        BY <2>6, <2>7, Zenon DEF ErrorsHold
<1>22. SuccessMeansAllPassed'
    BY <1>6, <1>8, Zenon DEF SuccessMeansAllPassed
<1>23. QED
    BY <1>13, <1>14, <1>15, <1>16, <1>17, <1>18, <1>19, <1>20, <1>21, <1>22, SMTT(30) DEF IInv

-----------------------------------------------------------------------------
(* Services that end.                                                      *)

(* A service leaves; its task has no child, and failed only with an error. *)
LEMMA ServiceLeavesKeeps ==
    ASSUME IInv, PollingServices, NEW verdict \in {"Passed", "Failed"}, ServiceEnds(verdict),
           NEW t \in Task, job' = [job EXCEPT ![Watched] = t], ~t.child,
           t.recovery = job[Watched].recovery, t.defer = job[Watched].defer,
           t.failed <=> job[Watched].failed \/ verdict = "Failed",
           errors' = (errors \/ verdict = "Failed")
    PROVE  IInv'
<1>1. /\ TypeInv /\ PlacesApart /\ StagesInTurn /\ ControlHolds /\ SlotsHold /\ ChildrenAreOwned
      /\ TasksHold /\ ErrorsHold
    BY Zenon DEF IInv
<1>2. ModesTyped /\ ControlTyped /\ PlacesTyped /\ TasksTyped /\ ReportsTyped
    BY <1>1, TypeInvIs, Zenon
<1>3. PICK p \in Jobs : p = Watched
    BY WatchedIs, Zenon
<1>4. /\ cursor \in 1 .. Len(services) /\ p \in Range(services) /\ p \in run.services
      /\ p \notin Current /\ p \notin JobsOf(Ahead)
    BY <1>3, WatchedIs, Zenon
<1>5. /\ services' = Without(services, cursor) /\ Record([j \in {p} |-> verdict])
      /\ UNCHANGED <<modeVars, controlVars, stages, queued, active, pending, stageLimit, hook>>
    BY <1>3, Zenon DEF ServiceEnds
<1>6. /\ run' = run /\ appended' = appended /\ stages' = stages /\ active' = active
      /\ queued' = queued /\ pending' = pending /\ hook' = hook /\ Ahead' = Ahead
      /\ stageLimit' = stageLimit /\ back' = back /\ cursor' = cursor /\ freed' = freed
      /\ at' = at /\ token' = token
    BY <1>5, Zenon DEF modeVars, controlVars, Ahead
<1>7. at \in {"services", "keep"} /\ at \notin Ended /\ hook = "none"
    BY <1>1, Zenon DEF PollingServices, Ended, ControlHolds
<1>8. /\ services' \in Seq(Jobs) /\ Range(services') = Range(services) \ {p}
      /\ IsInjective(services')
    <2>1. services \in Seq(Jobs) /\ IsInjective(services) /\ services[cursor] = p
        BY <1>1, <1>2, <1>3, Zenon DEF PlacesTyped, PlacesApart, Watched
    <2>2. QED
        BY <1>4, <1>5, <2>1, WithoutIs, Zenon
<1>9. /\ Current' = Current /\ Held = Current \cup Range(services)
      /\ Held' = Current \cup (Range(services) \ {p})
    BY <1>6, <1>8, Zenon DEF Current, Held
<1>10. p \notin JobsOf(stages) /\ JobsOf(Ahead) \subseteq Jobs /\ Range(services) \subseteq Jobs
        /\ Range(queued) \subseteq Jobs /\ Range(active) \subseteq Jobs
    BY <1>1, <1>4, OpenAreJobs, Zenon
<1>11. TasksTyped' /\ job'[p] = t /\ \A j \in Jobs : j # p => job'[j] = job[j]
    BY <1>2, <1>3, UpdateIs, Zenon
<1>12. /\ OpenIsUnreported' /\ NoneIsForgotten' /\ ReportsAgree'
       /\ terminal' \in [Jobs -> Seq(Outcomes)] /\ outcome' \in [Jobs -> Seq(Outcomes)]
       /\ outcome[p] = << >> /\ outcome'[p] = << verdict >>
       /\ \A j \in Jobs : j # p => outcome'[j] = outcome[j]
    <2>1. PICK D : D = {p}
        BY Zenon
    <2>2. PICK result : result = [j \in D |-> verdict]
        BY Zenon
    <2>3. verdict \in Outcomes
        BY Zenon DEF Outcomes
    <2>4. result \in [D -> Outcomes] /\ Record(result) /\ result[p] = verdict
        BY <1>5, <2>1, <2>2, <2>3, Zenon
    <2>5. /\ D \subseteq Held \cup JobsOf(stages)
          /\ Held' \cup JobsOf(stages') = (Held \cup JobsOf(stages)) \ D
          /\ JobsOf(Ahead') \subseteq JobsOf(Ahead) \ D
        BY <1>4, <1>6, <1>9, <1>10, <2>1, Zenon
    <2>6. at \notin Ended /\ at' \notin Ended /\ run' = run /\ appended' = appended
        BY <1>6, <1>7, Zenon
    <2>7. /\ OpenIsUnreported' /\ NoneIsForgotten' /\ ReportsAgree'
          /\ terminal' \in [Jobs -> Seq(Outcomes)] /\ outcome' \in [Jobs -> Seq(Outcomes)]
          /\ \A j \in D : j \in Jobs /\ outcome[j] = << >> /\ outcome'[j] = << result[j] >>
          /\ \A j \in Jobs \ D : outcome'[j] = outcome[j]
        BY <2>4, <2>5, <2>6, RecordKeeps, Zenon
    <2>8. QED
        BY <2>1, <2>4, <2>7, Zenon
<1>13. TypeInv'
    <2>1. ModesTyped' /\ ControlTyped'
        BY <1>2, <1>5, FrameTypes, Zenon
    <2>2. PlacesTyped'
        BY <1>2, <1>6, <1>8, Zenon DEF PlacesTyped
    <2>3. errors' \in BOOLEAN
        BY <1>2, Zenon DEF ReportsTyped
    <2>4. ReportsTyped'
        BY <1>2, <1>6, <1>12, <2>3, Zenon DEF ReportsTyped
    <2>5. QED
        BY <1>11, <2>1, <2>2, <2>4, TypeInvNext, Zenon
<1>14. PlacesApart'
    BY <1>1, <1>6, <1>8, <1>9, Zenon DEF PlacesApart
<1>15. StagesInTurn'
    <2>1. InTurn(run, Ahead')
        BY <1>1, <1>6, Zenon DEF StagesInTurn
    <2>2. QED
        BY <1>1, <1>6, <1>8, <1>9, <2>1, ShrinkInTurn, Zenon
<1>16. ControlHolds'
    BY <1>1, <1>6, <1>7, Zenon DEF ControlHolds, Recovering, Closing, Ended, AtTop, StageIsOver
<1>17. SlotsHold'
    BY <1>1, <1>6, Zenon DEF SlotsHold
<1>18. ChildrenAreOwned'
    <2> SUFFICES ASSUME NEW j \in Jobs, job'[j].child
                 PROVE  j \in Range(active') \cup Range(services')
        BY Zenon DEF ChildrenAreOwned
    <2>1. j # p /\ job[j].child
        BY <1>11, Zenon
    <2>2. QED
        BY <1>1, <1>6, <1>7, <1>8, <2>1, Zenon DEF ChildrenAreOwned
<1>19. TasksHold'
    <2>1. \A j \in Range(services') \cup Range(queued) \cup Range(active) \cup JobsOf(Ahead) :
                job'[j] = job[j]
        BY <1>4, <1>8, <1>10, <1>11, Zenon DEF Current
    <2>2. \A j \in Jobs : /\ job'[j].recovery = job[j].recovery
                          /\ job'[j].defer = job[j].defer
        BY <1>3, <1>11, Zenon
    <2>3. QED
        BY <1>1, <1>6, <1>8, <2>1, <2>2, ZenonT(40) DEF TasksHold
<1>20. ErrorsHold'
    <2>1. \A j \in Jobs : j # p => (Unforgiven(j)' <=> Unforgiven(j))
        BY <1>6, <1>11, Zenon DEF Unforgiven
    <2>2. Unforgiven(p)' <=> Unforgiven(p) \/ verdict = "Failed"
        BY <1>3, <1>4, <1>6, <1>11, Zenon DEF Unforgiven
    <2>3. (outcome'[p] = << "Failed" >> <=> verdict = "Failed") /\ outcome[p] # << "Failed" >>
        BY <1>12
    <2>4. \A j \in Jobs : outcome'[j] = << "Failed" >> <=>
                            outcome[j] = << "Failed" >> \/ (j = p /\ verdict = "Failed")
        BY <1>12, <2>3, Zenon
    <2>5. errors => \E j \in Jobs : outcome[j] = << "Failed" >> \/ Unforgiven(j)
        BY <1>1, <1>7, Zenon DEF ErrorsHold, Ended
    <2>6. errors' => \E j \in Jobs : outcome'[j] = << "Failed" >> \/ Unforgiven(j)'
        BY <2>1, <2>2, <2>4, <2>5, Zenon
    <2>7. \A j \in Jobs : outcome'[j] = << "Failed" >> \/ Unforgiven(j)' => errors'
        BY <1>1, <2>1, <2>2, <2>4, Zenon DEF ErrorsHold
    <2>8. QED
        BY <2>6, <2>7, Zenon DEF ErrorsHold
<1>21. SuccessMeansAllPassed'
    BY <1>6, <1>7, Zenon DEF SuccessMeansAllPassed
<1>22. QED
    BY <1>12, <1>13, <1>14, <1>15, <1>16, <1>17, <1>18, <1>19, <1>20, <1>21, SMTT(30) DEF IInv

(* A service that ended leaves the pass and is reported.                   *)
LEMMA ServiceStopsKeeps ==
    ASSUME IInv, ServiceStops
    PROVE  IInv'
<1> DEFINE old == job[Watched]
           t == [old EXCEPT !.child = FALSE]
<1>1. PollingServices /\ ServiceEnds("Passed") /\ errors' = errors
    BY Zenon DEF ServiceStops
<1>2. Watched \in Jobs /\ old \in Task /\ errors \in BOOLEAN
    BY <1>1, WatchedIs, TypeInvIs, Zenon DEF IInv, ReportsTyped
<1>3. t \in Task /\ ~t.child /\ t.recovery = old.recovery /\ t.defer = old.defer /\ t.failed = old.failed
    BY <1>2, Zenon DEF Task
<1>4. job' = [job EXCEPT ![Watched] = t]
    <2>1. job' = [job EXCEPT ![Watched].child = FALSE] /\ job \in [Jobs -> Task]
        BY TypeInvIs, Zenon DEF ServiceStops, IInv, TasksTyped
    <2>2. QED
        BY <1>2, <2>1, Zenon DEF Task
<1> HIDE DEF t
<1>5. \E v \in {"Passed", "Failed"} : v = "Passed"
    BY Zenon
<1>6. PICK v \in {"Passed", "Failed"} : v = "Passed"
    BY <1>5, Zenon
<1>7. ServiceEnds(v) /\ (t.failed <=> old.failed \/ v = "Failed")
    BY <1>1, <1>3, <1>6, Zenon
<1>8. errors' = (errors \/ v = "Failed")
    BY <1>1, <1>2, <1>6, Zenon
<1>9. QED
    BY <1>1, <1>3, <1>4, <1>7, <1>8, ServiceLeavesKeeps, Zenon

(* A service out of restarts fails, and may stop the run.                  *)
LEMMA ServiceFailsKeeps ==
    ASSUME IInv, ServiceFails
    PROVE  IInv'
<1> DEFINE old == job[Watched]
           left == IF old.child THEN old.left ELSE old.left - 1
           t == [old EXCEPT !.child = FALSE, !.failed = TRUE, !.left = left]
<1>1. PollingServices /\ ServiceEnds("Failed") /\ errors' = TRUE
    BY Zenon DEF ServiceFails
<1>2. Watched \in Jobs /\ old \in Task /\ errors \in BOOLEAN /\ Watched \in Range(services)
    BY <1>1, WatchedIs, TypeInvIs, Zenon DEF IInv, ReportsTyped
<1>3. left \in Nat
    <2>1. old.left \in Nat /\ (old.child \/ old.left > 0)
        BY <1>2, Zenon DEF Task, IInv, TasksHold
    <2>2. QED
        BY <2>1
<1>4. t \in Task /\ ~t.child /\ t.recovery = old.recovery /\ t.defer = old.defer /\ t.failed
    BY <1>2, <1>3, Zenon DEF Task
<1>5. job' = [job EXCEPT ![Watched] = t]
    <2>1. job' = [job EXCEPT ![Watched].child = FALSE, ![Watched].failed = TRUE,
                             ![Watched].left = IF job[Watched].child THEN @ ELSE @ - 1]
        BY Zenon DEF ServiceFails
    <2>2. job \in [Jobs -> Task]
        BY TypeInvIs, Zenon DEF IInv, TasksTyped
    <2>3. QED
        BY <1>2, <2>1, <2>2, Zenon DEF Task
<1> HIDE DEF t
<1>6. PICK v \in {"Passed", "Failed"} : v = "Failed"
    BY Zenon
<1>7. ServiceEnds(v) /\ (t.failed <=> old.failed \/ v = "Failed")
    BY <1>1, <1>4, <1>6, Zenon
<1>8. errors' = (errors \/ v = "Failed")
    BY <1>1, <1>2, <1>6, Zenon
<1>9. QED
    BY <1>1, <1>4, <1>5, <1>7, <1>8, ServiceLeavesKeeps, Zenon

-----------------------------------------------------------------------------
(* Tasks that leave the pass.                                              *)

(* Where the job at the cursor is, and what is left of the pass without it. *)
LEMMA LeavingIs ==
    ASSUME IInv, at = "poll", NEW c \in 1 .. Len(active), NEW p \in Jobs, p = active[c]
    PROVE  /\ p \in Range(active) /\ p \notin Range(queued) /\ p \notin pending
           /\ p \notin Range(services) /\ p \notin JobsOf(Ahead) /\ p \notin JobsOf(stages)
           /\ Without(active, c) \in Seq(Jobs) /\ Range(Without(active, c)) = Range(active) \ {p}
           /\ IsInjective(Without(active, c)) /\ Len(Without(active, c)) <= Len(active)
           /\ Len(active) \in Nat /\ Len(active) > 0
<1>1. TypeInv /\ PlacesApart /\ StagesInTurn
    BY Zenon DEF IInv
<1>2. active \in Seq(Jobs) /\ IsInjective(active)
    BY <1>1, TypeInvIs, Zenon DEF PlacesTyped, PlacesApart
<1>3. p \in Range(active)
    BY <1>2, RangeIs, Zenon
<1>4. /\ Without(active, c) \in Seq(Jobs) /\ Range(Without(active, c)) = Range(active) \ {p}
      /\ IsInjective(Without(active, c)) /\ Len(Without(active, c)) = Len(active) - 1
    BY <1>2, WithoutIs, Zenon
<1>5. p \in Held /\ p \notin Range(queued) /\ p \notin pending /\ p \notin Range(services)
    BY <1>1, <1>3, Zenon DEF PlacesApart, Held, Current
<1>6. p \notin JobsOf(Ahead) /\ p \notin JobsOf(stages)
    BY <1>1, <1>5, HeldIsNotAhead, OpenAreJobs, Zenon
<1>7. Len(active) \in Nat /\ Len(active) > 0 /\ Len(active) - 1 <= Len(active)
    BY <1>2
<1>8. QED
    BY <1>3, <1>4, <1>5, <1>6, <1>7, Zenon

(* A task runs on; a service moves to the background.                      *)
LEMMA PollRunningKeeps ==
    ASSUME IInv, at = "poll", cursor <= Len(active),
           NEW attempt \in Attempts(job[Polled], run.failFast), PollRunning(attempt)
    PROVE  IInv'
<1>1. /\ TypeInv /\ PlacesApart /\ StagesInTurn /\ OpenIsUnreported /\ NoneIsForgotten
      /\ ReportsAgree /\ ControlHolds /\ SlotsHold /\ ChildrenAreOwned /\ TasksHold /\ ErrorsHold
    BY Zenon DEF IInv
<1>2. ModesTyped /\ ControlTyped /\ PlacesTyped /\ TasksTyped /\ ReportsTyped
    BY <1>1, TypeInvIs, Zenon
<1>3. PICK p \in Jobs : p = Polled
    BY PollIs, Zenon
<1>4. /\ cursor \in 1 .. Len(active) /\ attempt.step = "Running"
      /\ attempt.task \in Task /\ attempt.error \in BOOLEAN /\ attempt.task.child
      /\ attempt.task.recovery = job[p].recovery /\ attempt.task.defer = attempt.task.recovery
      /\ attempt.task.recovery => p \notin run.services
      /\ attempt.task.failed /\ ~attempt.task.defer => errors \/ attempt.error
      /\ attempt.error => attempt.task.failed /\ ~attempt.task.defer
      /\ job[p].failed => attempt.task.failed
      /\ run.failFast => ~attempt.task.failed
    <2>1. attempt.step = "Running"
        BY Zenon DEF PollRunning, PollWith
    <2>2. QED
        BY <1>3, <2>1, PollIs, Zenon
<1>5. /\ p \in Range(active) /\ p \notin Range(queued) /\ p \notin pending
      /\ p \notin Range(services) /\ p \notin JobsOf(Ahead) /\ p \notin JobsOf(stages)
      /\ Without(active, cursor) \in Seq(Jobs)
      /\ Range(Without(active, cursor)) = Range(active) \ {p}
      /\ IsInjective(Without(active, cursor)) /\ Len(Without(active, cursor)) <= Len(active)
    <2>1. p = active[cursor]
        BY <1>3, Zenon DEF Polled
    <2>2. QED
        BY <1>4, <2>1, LeavingIs, Zenon
<1>6. /\ job' = [job EXCEPT ![p] = attempt.task] /\ errors' = (errors \/ attempt.error)
      /\ UNCHANGED <<modeVars, at, freed, back, phase, stages, queued, pending, stageLimit,
                     terminal, outcome, hook>>
    BY <1>3, Zenon DEF PollRunning, PollWith
<1>7. /\ p \in run.services => /\ active' = Without(active, cursor)
                               /\ services' = Append(services, p) /\ cursor' = cursor
      /\ p \notin run.services => /\ cursor' = cursor + 1
                                  /\ active' = active /\ services' = services
    BY <1>3, Zenon DEF PollRunning
<1>8. /\ run' = run /\ appended' = appended /\ stages' = stages /\ queued' = queued
      /\ pending' = pending /\ hook' = hook /\ Ahead' = Ahead /\ stageLimit' = stageLimit
      /\ back' = back /\ freed' = freed /\ at' = at /\ terminal' = terminal /\ outcome' = outcome
    BY <1>6, Zenon DEF modeVars, Ahead
<1>9. /\ active' \in Seq(Jobs) /\ services' \in Seq(Jobs) /\ IsInjective(active')
      /\ IsInjective(services') /\ Len(active') <= stageLimit
      /\ Range(active') \subseteq Range(active)
      /\ Range(services') \subseteq Range(services) \cup {p}
      /\ Range(services) \subseteq Range(services')
      /\ Range(active') \cup Range(services') = Range(active) \cup Range(services)
      /\ Range(active') \cap Range(services') = {}
      /\ p \in Range(services') <=> p \in run.services
    <2>1. /\ services \in Seq(Jobs) /\ IsInjective(services) /\ active \in Seq(Jobs)
          /\ IsInjective(active) /\ Range(active) \cap Range(services) = {}
          /\ Len(active) <= stageLimit /\ stageLimit \in Nat
        BY <1>1, <1>2, Zenon DEF PlacesTyped, PlacesApart, Current, SlotsHold
    <2>2. /\ Append(services, p) \in Seq(Jobs) /\ Range(Append(services, p)) = Range(services) \cup {p}
          /\ IsInjective(Append(services, p))
        BY <1>5, <2>1, AppendIs
    <2>3. Len(active) \in Nat /\ Len(Without(active, cursor)) \in Nat
        BY <1>5, <2>1
    <2>4. CASE p \in run.services
        <3>1. active' = Without(active, cursor) /\ services' = Append(services, p)
            BY <1>7, <2>4, Zenon
        <3>2. Len(active') <= stageLimit
            BY <1>5, <2>1, <2>3, <3>1
        <3>3. QED
            BY <1>5, <2>1, <2>2, <2>4, <3>1, <3>2, Zenon
    <2>5. CASE p \notin run.services
        BY <1>5, <1>7, <2>1, <2>5, Zenon
    <2>6. QED
        BY <2>4, <2>5, Zenon
<1>10. TasksTyped' /\ job'[p] = attempt.task /\ \A j \in Jobs : j # p => job'[j] = job[j]
    BY <1>2, <1>4, <1>6, UpdateIs, Zenon
<1>11. Held' = Held /\ Current' \subseteq Current /\ Range(services') \subseteq Held
    BY <1>8, <1>9, Zenon DEF Held, Current
<1>12. TypeInv'
    <2>1. ModesTyped'
        BY <1>2, <1>6, FrameTypes, Zenon
    <2>2. cursor' \in Nat \ {0}
        BY <1>2, <1>7 DEF ControlTyped
    <2>3. ControlTyped'
        BY <1>2, <1>6, <2>2, Zenon DEF ControlTyped
    <2>4. PlacesTyped'
        BY <1>2, <1>8, <1>9, Zenon DEF PlacesTyped
    <2>5. errors' \in BOOLEAN
        BY <1>2, <1>4, <1>6, Zenon DEF ReportsTyped
    <2>6. ReportsTyped'
        BY <1>2, <1>8, <2>5, Zenon DEF ReportsTyped
    <2>7. QED
        BY <1>10, <2>1, <2>3, <2>4, <2>6, TypeInvNext, Zenon
<1>13. PlacesApart'
    BY <1>1, <1>5, <1>8, <1>9, Zenon DEF PlacesApart, Current
<1>14. StagesInTurn'
    <2>1. InTurn(run, Ahead')
        BY <1>1, <1>8, Zenon DEF StagesInTurn
    <2>2. QED
        BY <1>1, <1>8, <1>11, <2>1, ShrinkInTurn, Zenon
<1>15. OpenIsUnreported'
    BY <1>1, <1>8, <1>11, Zenon DEF OpenIsUnreported
<1>16. NoneIsForgotten'
    BY <1>1, <1>8, <1>11, Zenon DEF NoneIsForgotten, Planned, Ended
<1>17. ReportsAgree'
    BY <1>1, <1>8, FrameReports, Zenon
<1>18. ControlHolds'
    BY <1>1, <1>8, Zenon DEF ControlHolds, Recovering, Closing, Ended, AtTop
<1>19. SlotsHold'
    BY <1>1, <1>8, <1>9, Zenon DEF SlotsHold
<1>20. ChildrenAreOwned'
    <2> SUFFICES ASSUME NEW j \in Jobs, job'[j].child
                 PROVE  j \in Range(active') \cup Range(services')
        BY Zenon DEF ChildrenAreOwned
    <2>1. j = p \/ job[j].child
        BY <1>10, Zenon
    <2>2. QED
        BY <1>1, <1>5, <1>9, <2>1, Zenon DEF ChildrenAreOwned
<1>21. TasksHold'
    <2>1. /\ Range(services) \subseteq Jobs /\ Range(queued) \subseteq Jobs
          /\ Range(active) \subseteq Jobs /\ JobsOf(Ahead) \subseteq Jobs
        BY <1>1, OpenAreJobs, Zenon
    <2>2. \A j \in Range(services') : j \in run.services /\ (job'[j].child \/ job'[j].left > 0)
        BY <1>1, <1>4, <1>9, <1>10, <2>1, Zenon DEF TasksHold
    <2>3. \A j \in Range(queued) \cup JobsOf(Ahead) : job'[j] = job[j]
        BY <1>5, <1>10, <2>1, Zenon
    <2>4. run.failFast => \A j \in Range(active') : ~job'[j].failed
        BY <1>1, <1>4, <1>9, <1>10, <2>1, Zenon DEF TasksHold
    <2>5. \A j \in Jobs : job'[j].recovery = job[j].recovery /\ job'[j].defer = job'[j].recovery
        <3>1. \A j \in Jobs : job[j].defer = job[j].recovery
            BY <1>1, Zenon DEF TasksHold
        <3>2. QED
            BY <1>4, <1>10, <3>1, Zenon
    <2>6. QED
        BY <1>1, <1>8, <2>2, <2>3, <2>4, <2>5, Zenon DEF TasksHold
<1>22. ErrorsHold'
    <2>1. \A j \in Jobs : j # p => (Unforgiven(j)' <=> Unforgiven(j))
        <3>1. \A j \in Jobs : j # p => (j \in Range(active') <=> j \in Range(active))
            BY <1>1, <1>9, Zenon DEF PlacesApart, Current
        <3>2. QED
            BY <1>8, <1>10, <3>1, Zenon DEF Unforgiven
    <2>2. p \in Range(active') \/ p \in run.services
        BY <1>5, <1>9, Zenon
    <2>3. Unforgiven(p)' <=> attempt.task.failed /\ ~attempt.task.defer
        BY <1>4, <1>8, <1>10, <2>2, Zenon DEF Unforgiven
    <2>4. Unforgiven(p) => Unforgiven(p)'
        BY <1>1, <1>4, <2>3, Zenon DEF Unforgiven, TasksHold
    <2>5. errors => \E j \in Jobs : outcome[j] = << "Failed" >> \/ Unforgiven(j)
        BY <1>1, Zenon DEF ErrorsHold
    <2>6. errors' => \E j \in Jobs : outcome'[j] = << "Failed" >> \/ Unforgiven(j)'
        BY <1>4, <1>6, <1>8, <2>1, <2>3, <2>4, <2>5, Zenon
    <2>7. \A j \in Jobs : outcome'[j] = << "Failed" >> \/ Unforgiven(j)' => errors'
        BY <1>1, <1>4, <1>6, <1>8, <2>1, <2>3, Zenon DEF ErrorsHold
    <2>8. QED
        BY <2>6, <2>7, Zenon DEF ErrorsHold
<1>23. SuccessMeansAllPassed'
    BY <1>1, <1>8, NoHookYet, Zenon
<1>24. QED
    BY <1>12, <1>13, <1>14, <1>15, <1>16, <1>17, <1>18, <1>19, <1>20, <1>21, <1>22, <1>23, SMTT(30) DEF IInv

(* A task ends and is reported, or waits for its recovery.                 *)
LEMMA PollFinishedKeeps ==
    ASSUME IInv, at = "poll", cursor <= Len(active),
           NEW attempt \in Attempts(job[Polled], run.failFast), PollFinished(attempt)
    PROVE  IInv'
<1>1. /\ TypeInv /\ PlacesApart /\ StagesInTurn /\ OpenIsUnreported /\ NoneIsForgotten
      /\ ReportsAgree /\ ControlHolds /\ SlotsHold /\ ChildrenAreOwned /\ TasksHold /\ ErrorsHold
    BY Zenon DEF IInv
<1>2. ModesTyped /\ ControlTyped /\ PlacesTyped /\ TasksTyped /\ ReportsTyped
    BY <1>1, TypeInvIs, Zenon
<1>3. PICK p \in Jobs : p = Polled
    BY PollIs, Zenon
<1>4. /\ cursor \in 1 .. Len(active) /\ attempt.step = "Finished"
      /\ attempt.task \in Task /\ attempt.error \in BOOLEAN /\ ~attempt.task.child
      /\ attempt.task.recovery = job[p].recovery /\ attempt.task.defer = attempt.task.recovery
      /\ attempt.task.recovery => p \notin run.services
      /\ attempt.task.failed /\ ~attempt.task.defer => errors \/ attempt.error
      /\ attempt.error => attempt.task.failed /\ ~attempt.task.defer
      /\ job[p].failed => attempt.task.failed
    <2>1. attempt.step = "Finished"
        BY Zenon DEF PollFinished, PollWith
    <2>2. QED
        BY <1>3, <2>1, PollIs, Zenon
<1>5. /\ p \in Range(active) /\ p \notin Range(queued) /\ p \notin pending
      /\ p \notin Range(services) /\ p \notin JobsOf(Ahead) /\ p \notin JobsOf(stages)
      /\ Without(active, cursor) \in Seq(Jobs)
      /\ Range(Without(active, cursor)) = Range(active) \ {p}
      /\ IsInjective(Without(active, cursor)) /\ Len(Without(active, cursor)) <= Len(active)
      /\ Len(active) \in Nat /\ Len(active) > 0
    <2>1. p = active[cursor]
        BY <1>3, Zenon DEF Polled
    <2>2. QED
        BY <1>4, <2>1, LeavingIs, Zenon
<1>6. /\ job' = [job EXCEPT ![p] = attempt.task] /\ errors' = (errors \/ attempt.error)
      /\ active' = Without(active, cursor) /\ freed' = TRUE
      /\ UNCHANGED <<modeVars, at, cursor, back, phase, stages, queued, services, stageLimit, hook>>
    BY <1>3, Zenon DEF PollFinished, PollWith
<1>7. /\ run' = run /\ appended' = appended /\ stages' = stages /\ queued' = queued
      /\ services' = services /\ hook' = hook /\ Ahead' = Ahead /\ stageLimit' = stageLimit
      /\ back' = back /\ at' = at /\ cursor' = cursor /\ phase' = phase
    BY <1>6, Zenon DEF modeVars, Ahead
<1>8. /\ Deferred(attempt.task) =>
            pending' = pending \cup {p} /\ terminal' = terminal /\ outcome' = outcome
      /\ ~Deferred(attempt.task) =>
            pending' = pending /\ Record([j \in {p} |-> Verdict(attempt.task)])
    BY <1>3, Zenon DEF PollFinished
<1>9. pending' = IF Deferred(attempt.task) THEN pending \cup {p} ELSE pending
    BY <1>8, Zenon
<1>10. TasksTyped' /\ job'[p] = attempt.task /\ \A j \in Jobs : j # p => job'[j] = job[j]
    BY <1>2, <1>4, <1>6, UpdateIs, Zenon
<1>11. Range(active') = Range(active) \ {p} /\ Current' \subseteq Current /\ Range(services') \subseteq Held
    BY <1>5, <1>6, <1>7, <1>9, Zenon DEF Held, Current
<1>12. /\ OpenIsUnreported' /\ NoneIsForgotten' /\ ReportsAgree'
       /\ terminal' \in [Jobs -> Seq(Outcomes)] /\ outcome' \in [Jobs -> Seq(Outcomes)]
       /\ \A j \in Jobs : j # p => outcome'[j] = outcome[j]
       /\ outcome[p] = << >>
       /\ outcome'[p] = IF Deferred(attempt.task) THEN << >> ELSE << Verdict(attempt.task) >>
    <2>1. outcome[p] = << >>
        BY <1>1, <1>5, Zenon DEF OpenIsUnreported, Held, Current
    <2>2. CASE Deferred(attempt.task)
        <3>1. pending' = pending \cup {p} /\ terminal' = terminal /\ outcome' = outcome
            BY <1>8, <2>2, Zenon
        <3>2. Held' = Held
            BY <1>5, <1>7, <1>11, <3>1, Zenon DEF Held, Current
        <3>3. OpenIsUnreported'
            BY <1>1, <1>7, <3>1, <3>2, Zenon DEF OpenIsUnreported
        <3>4. NoneIsForgotten'
            BY <1>1, <1>7, <3>1, <3>2, Zenon DEF NoneIsForgotten, Planned, Ended
        <3>5. ReportsAgree'
            BY <1>1, <1>7, <3>1, FrameReports, Zenon
        <3>6. QED
            BY <1>2, <2>1, <2>2, <3>1, <3>3, <3>4, <3>5, Zenon DEF ReportsTyped
    <2>3. CASE ~Deferred(attempt.task)
        <3>1. PICK D : D = {p}
            BY Zenon
        <3>2. PICK result : result = [j \in D |-> Verdict(attempt.task)]
            BY Zenon
        <3>3. Verdict(attempt.task) \in Outcomes
            BY Zenon DEF Verdict, Outcomes
        <3>4. result \in [D -> Outcomes] /\ Record(result) /\ result[p] = Verdict(attempt.task)
            BY <1>8, <2>3, <3>1, <3>2, <3>3, Zenon
        <3>5. pending' = pending
            BY <1>8, <2>3, Zenon
        <3>6. Held' = Held \ {p} /\ p \in Held
            BY <1>5, <1>7, <1>11, <3>5, Zenon DEF Held, Current
        <3>7. /\ D \subseteq Held \cup JobsOf(stages)
              /\ Held' \cup JobsOf(stages') = (Held \cup JobsOf(stages)) \ D
              /\ JobsOf(Ahead') \subseteq JobsOf(Ahead) \ D
            BY <1>5, <1>7, <3>1, <3>6, Zenon
        <3>8. at \notin Ended /\ at' \notin Ended /\ run' = run /\ appended' = appended
            BY <1>7, Zenon DEF Ended
        <3>9. /\ OpenIsUnreported' /\ NoneIsForgotten' /\ ReportsAgree'
              /\ terminal' \in [Jobs -> Seq(Outcomes)] /\ outcome' \in [Jobs -> Seq(Outcomes)]
              /\ \A j \in D : j \in Jobs /\ outcome[j] = << >> /\ outcome'[j] = << result[j] >>
              /\ \A j \in Jobs \ D : outcome'[j] = outcome[j]
            BY <3>4, <3>7, <3>8, RecordKeeps, ZenonT(40)
        <3>10. QED
            BY <2>1, <2>3, <3>1, <3>4, <3>9, Zenon
    <2>4. QED
        BY <2>2, <2>3, Zenon
<1>13. TypeInv'
    <2>1. ModesTyped'
        BY <1>2, <1>6, FrameTypes, Zenon
    <2>2. freed' \in BOOLEAN /\ errors' \in BOOLEAN
        BY <1>2, <1>4, <1>6, Zenon DEF ReportsTyped
    <2>3. ControlTyped'
        BY <1>2, <1>7, <2>2, Zenon DEF ControlTyped
    <2>4. PlacesTyped'
        BY <1>2, <1>5, <1>6, <1>7, <1>9, Zenon DEF PlacesTyped
    <2>5. ReportsTyped'
        BY <1>2, <1>7, <1>12, <2>2, ZenonT(40) DEF ReportsTyped
    <2>6. QED
        BY <1>10, <2>1, <2>3, <2>4, <2>5, TypeInvNext, Zenon
<1>14. PlacesApart'
    BY <1>1, <1>5, <1>6, <1>7, <1>9, <1>11, SMTT(30) DEF PlacesApart, Current
<1>15. StagesInTurn'
    <2>1. InTurn(run, Ahead')
        BY <1>1, <1>7, Zenon DEF StagesInTurn
    <2>2. QED
        BY <1>1, <1>7, <1>11, <2>1, ShrinkInTurn, Zenon
<1>16. ControlHolds'
    BY <1>1, <1>7, Zenon DEF ControlHolds, Recovering, Closing, Ended, AtTop
<1>17. SlotsHold'
    <2>1. stageLimit \in Nat /\ Len(active) <= stageLimit /\ Len(active') \in Nat
        BY <1>1, <1>2, <1>5, <1>6, SMTT(30) DEF SlotsHold, PlacesTyped
    <2>2. Len(active') <= stageLimit' /\ stageLimit' >= 1
        BY <1>5, <1>6, <1>7, <2>1
    <2>3. QED
        BY <1>1, <1>7, <2>2, Zenon DEF SlotsHold
<1>18. ChildrenAreOwned'
    <2> SUFFICES ASSUME NEW j \in Jobs, job'[j].child
                 PROVE  j \in Range(active') \cup Range(services')
        BY Zenon DEF ChildrenAreOwned
    <2>1. j # p /\ job[j].child
        BY <1>4, <1>10, Zenon
    <2>2. QED
        BY <1>1, <1>7, <1>11, <2>1, Zenon DEF ChildrenAreOwned
<1>19. TasksHold'
    <2>1. /\ Range(services) \subseteq Jobs /\ Range(queued) \subseteq Jobs
          /\ Range(active) \subseteq Jobs /\ JobsOf(Ahead) \subseteq Jobs
        BY <1>1, OpenAreJobs, Zenon
    <2>2. \A j \in Range(services) \cup Range(queued) \cup JobsOf(Ahead) \cup Range(active') :
                job'[j] = job[j]
        BY <1>5, <1>10, <1>11, <2>1, Zenon
    <2>3. \A j \in Jobs : job'[j].recovery = job[j].recovery /\ job'[j].defer = job'[j].recovery
        <3>1. \A j \in Jobs : job[j].defer = job[j].recovery
            BY <1>1, Zenon DEF TasksHold
        <3>2. QED
            BY <1>4, <1>10, <3>1, Zenon
    <2>4. pending' \cap run.services = {}
        BY <1>1, <1>4, <1>9, ZenonT(40) DEF TasksHold, Deferred
    <2>5. QED
        BY <1>1, <1>7, <1>11, <2>2, <2>3, <2>4, ZenonT(40) DEF TasksHold
<1>20. ErrorsHold'
    <2>1. \A j \in Jobs : j # p => (Unforgiven(j)' <=> Unforgiven(j))
        BY <1>7, <1>10, <1>11, Zenon DEF Unforgiven
    <2>2. Unforgiven(p)' => attempt.task.failed /\ ~attempt.task.defer
        BY <1>4, <1>7, <1>10, <1>11, Zenon DEF Unforgiven
    <2>3. Unforgiven(p) => attempt.task.failed /\ ~Deferred(attempt.task)
        BY <1>1, <1>4, Zenon DEF Unforgiven, TasksHold, Deferred
    <2>4. outcome'[p] = << "Failed" >> <=> attempt.task.failed /\ ~Deferred(attempt.task)
        BY <1>12 DEF Verdict
    <2>5. outcome[p] # << "Failed" >>
        BY <1>12
    <2>6. attempt.task.failed /\ ~Deferred(attempt.task) => attempt.task.failed /\ ~attempt.task.defer
        BY <1>4, Zenon DEF Deferred
    <2>7. attempt.error => attempt.task.failed /\ ~Deferred(attempt.task)
        BY <1>4, Zenon DEF Deferred
    <2>8. errors => \E j \in Jobs : outcome[j] = << "Failed" >> \/ Unforgiven(j)
        BY <1>1, Zenon DEF ErrorsHold
    <2>9. errors' => \E j \in Jobs : outcome'[j] = << "Failed" >> \/ Unforgiven(j)'
        <3>1. CASE errors
            <4>1. PICK j \in Jobs : outcome[j] = << "Failed" >> \/ Unforgiven(j)
                BY <2>8, <3>1, Zenon
            <4>2. QED
                BY <1>12, <2>1, <2>3, <2>4, <2>5, <4>1, Zenon
        <3>2. CASE attempt.error
            BY <2>4, <2>7, <3>2, Zenon
        <3>3. QED
            BY <1>6, <3>1, <3>2, Zenon
    <2>10. \A j \in Jobs : outcome'[j] = << "Failed" >> \/ Unforgiven(j)' => errors'
        BY <1>1, <1>4, <1>6, <1>12, <2>1, <2>2, <2>4, <2>6, ZenonT(40) DEF ErrorsHold
    <2>11. QED
        BY <2>9, <2>10, Zenon DEF ErrorsHold
<1>21. SuccessMeansAllPassed'
    BY <1>1, <1>7, NoHookYet, Zenon
<1>22. QED
    BY <1>12, <1>13, <1>14, <1>15, <1>16, <1>17, <1>18, <1>19, <1>20, <1>21, SMTT(30) DEF IInv

(* A failure stops the siblings and the stages that follow.                *)
LEMMA PollFailedFastKeeps ==
    ASSUME IInv, at = "poll", cursor <= Len(active),
           NEW attempt \in Attempts(job[Polled], run.failFast), PollFailedFast(attempt)
    PROVE  IInv'
<1>1. /\ TypeInv /\ PlacesApart /\ StagesInTurn /\ OpenIsUnreported /\ ControlHolds /\ SlotsHold
      /\ ChildrenAreOwned /\ TasksHold /\ ErrorsHold
    BY Zenon DEF IInv
<1>2. ModesTyped /\ ControlTyped /\ PlacesTyped /\ TasksTyped /\ ReportsTyped
    BY <1>1, TypeInvIs, Zenon
<1>3. PICK p \in Jobs : p = Polled
    BY PollIs, Zenon
<1>4. /\ cursor \in 1 .. Len(active) /\ attempt.step = "FailedFast" /\ run.failFast
      /\ attempt.task \in Task /\ attempt.error \in BOOLEAN /\ ~attempt.task.child
      /\ attempt.task.recovery = job[p].recovery /\ attempt.task.defer = attempt.task.recovery
      /\ attempt.task.recovery => p \notin run.services
      /\ attempt.task.failed /\ attempt.error = ~attempt.task.defer
    <2>1. attempt.step = "FailedFast"
        BY Zenon DEF PollFailedFast
    <2>2. QED
        BY <1>3, <2>1, PollIs, Zenon
<1>5. /\ p \in Range(active) /\ p \notin Range(queued) /\ p \notin pending
      /\ p \notin Range(services) /\ p \notin JobsOf(Ahead) /\ p \notin JobsOf(stages)
      /\ Len(active) \in Nat /\ Len(active) > 0
    <2>1. p = active[cursor]
        BY <1>3, Zenon DEF Polled
    <2>2. QED
        BY <1>4, <2>1, LeavingIs, Zenon
<1>6. PICK siblings : siblings = Range(active) \ {p}
    BY Zenon
<1>7. PICK unstarted : unstarted = Range(queued) \cup JobsOf(stages)
    BY Zenon
<1>8. PICK failed : failed = IF attempt.task.recovery THEN {} ELSE {p}
    BY Zenon
<1>9. PICK D : D = failed \cup siblings \cup unstarted
    BY Zenon
<1>10. PICK result : result = [j \in D |-> IF j \in failed THEN "Failed"
                                           ELSE IF j \in siblings THEN "Cancelled" ELSE "Skipped"]
    BY Zenon
<1>11. /\ job' = [ShutDown(siblings) EXCEPT ![p] = attempt.task]
       /\ errors' = (errors \/ attempt.error)
       /\ active' = << >> /\ queued' = << >> /\ stages' = << >>
       /\ pending' = pending \cup ({p} \ failed) /\ Record(result)
       /\ at' = IF pending' = {} THEN "finish" ELSE "resolve"
       /\ back' = "finish" /\ cursor' = 1 /\ freed' = FALSE
       /\ UNCHANGED <<modeVars, phase, services, stageLimit, hook>>
    BY <1>3, <1>4, <1>6, <1>7, <1>8, <1>9, <1>10, ZenonT(40) DEF PollFailedFast, Deferred
<1>12. /\ run' = run /\ appended' = appended /\ services' = services /\ hook' = hook
       /\ stageLimit' = stageLimit /\ phase' = phase
    BY <1>11, Zenon DEF modeVars
<1>13. /\ TasksTyped' /\ job'[p] = attempt.task
       /\ \A j \in siblings : ~job'[j].child /\ job'[j].failed = job[j].failed
            /\ job'[j].recovery = job[j].recovery /\ job'[j].defer = job[j].defer
       /\ \A j \in Jobs : j # p /\ j \notin siblings => job'[j] = job[j]
    <2>1. siblings \subseteq Jobs /\ job \in [Jobs -> Task] /\ p \notin siblings
        BY <1>1, <1>2, <1>6, OpenAreJobs, Zenon DEF TasksTyped
    <2>2. PICK g : g = ShutDown(siblings)
        BY Zenon
    <2>3. g \in [Jobs -> Task] /\ (\A j \in Jobs \ siblings : g[j] = job[j])
        BY <2>1, <2>2, ZenonT(40) DEF ShutDown, Task
    <2>4. \A j \in siblings : /\ ~g[j].child /\ g[j].failed = job[j].failed
                              /\ g[j].recovery = job[j].recovery /\ g[j].defer = job[j].defer
        BY <2>1, <2>2, Zenon DEF ShutDown, Task
    <2>5. job' = [g EXCEPT ![p] = attempt.task]
        BY <1>11, <2>2, Zenon
    <2>6. job' \in [Jobs -> Task] /\ job'[p] = attempt.task /\ \A j \in Jobs : j # p => job'[j] = g[j]
        BY <1>4, <2>3, <2>5, Zenon
    <2>7. QED
        BY <2>1, <2>3, <2>4, <2>6, Zenon DEF TasksTyped
<1>14. /\ Range(active') = {} /\ Range(queued') = {} /\ IsInjective(active') /\ IsInjective(queued')
    BY <1>11 DEF Range, IsInjective
<1>15. Current' = pending' /\ Held' = pending' \cup Range(services) /\ pending' \subseteq pending \cup {p}
    BY <1>11, <1>12, <1>14, Zenon DEF Current, Held
<1>16. /\ Ahead' = RestOf(run, appended) /\ Ahead' \in Seq(Stage) /\ InTurn(run, Ahead')
       /\ JobsOf(Ahead) = JobsOf(stages) \cup JobsOf(Ahead') /\ JobsOf(stages) \cap JobsOf(Ahead') = {}
       /\ JobsOf(stages') = {}
    <2>1. run \in Plans /\ stages \in Seq(Stage) /\ appended \in BOOLEAN
        BY <1>2, Zenon DEF ModesTyped, PlacesTyped
    <2>2. RestOf(run, appended) \in Seq(Stage) /\ AheadOf(run, << >>, appended) = RestOf(run, appended)
        BY <2>1, AheadIs, Zenon
    <2>3. Ahead' = AheadOf(run, << >>, appended)
        BY <1>11, <1>12, Zenon DEF Ahead
    <2>4. InTurn(run, stages \o RestOf(run, appended))
        BY <1>1, Zenon DEF StagesInTurn, Ahead, AheadOf
    <2>5. /\ InTurn(run, RestOf(run, appended))
          /\ JobsOf(stages) \cap JobsOf(RestOf(run, appended)) = {}
        BY <2>1, <2>2, <2>4, SuffixInTurn, Zenon
    <2>6. JobsOf(Ahead) = JobsOf(stages) \cup JobsOf(RestOf(run, appended))
        BY <2>1, AheadIs, ZenonT(40) DEF Ahead
    <2>7. JobsOf(stages') = {}
        BY <1>11, <2>1, JobsOfIs, Zenon
    <2>8. QED
        BY <2>2, <2>3, <2>5, <2>6, <2>7, Zenon
<1>17. /\ Held = {p} \cup siblings \cup Range(queued) \cup pending \cup Range(services)
       /\ Held \cap JobsOf(Ahead) = {}
       /\ siblings \cap pending = {} /\ siblings \cap Range(services) = {}
       /\ Range(queued) \cap pending = {} /\ Range(queued) \cap Range(services) = {}
       /\ pending \cap Range(services) = {}
    <2>1. Held \cap JobsOf(Ahead) = {}
        BY <1>1, HeldIsNotAhead, Zenon
    <2>2. QED
        BY <1>1, <1>5, <1>6, <2>1, Zenon DEF Held, Current, PlacesApart
<1>18. failed \subseteq {p} /\ (p \in failed <=> ~attempt.task.recovery)
    BY <1>8, Zenon
<1>19. at' \in {"finish", "resolve"} /\ at' \notin Ended
    BY <1>11, Zenon DEF Ended
<1>20. /\ OpenIsUnreported' /\ NoneIsForgotten' /\ ReportsAgree'
       /\ terminal' \in [Jobs -> Seq(Outcomes)] /\ outcome' \in [Jobs -> Seq(Outcomes)]
       /\ \A j \in D : j \in Jobs /\ outcome[j] = << >> /\ outcome'[j] = << result[j] >>
       /\ \A j \in Jobs \ D : outcome'[j] = outcome[j]
    <2>1. result \in [D -> Outcomes]
        BY <1>10, Zenon DEF Outcomes
    <2>2. D \subseteq Held \cup JobsOf(stages)
        BY <1>7, <1>9, <1>17, <1>18, Zenon
    <2>3. JobsOf(Ahead') \subseteq JobsOf(Ahead) \ D
        BY <1>7, <1>9, <1>16, <1>17, <1>18, SMTT(30)
    <2>4. Held' \cup JobsOf(stages') = (Held \cup JobsOf(stages)) \ D
        <3>1. pending' = pending \cup ({p} \ failed) /\ Held' = pending' \cup Range(services)
            BY <1>11, <1>15, Zenon
        <3>2. D \cap pending = {} /\ D \cap Range(services) = {}
            BY <1>5, <1>7, <1>9, <1>16, <1>17, <1>18, SMTT(30)
        <3>3. p \notin siblings \cup unstarted
            BY <1>5, <1>6, <1>7, Zenon
        <3>4. QED
            BY <1>7, <1>9, <1>16, <1>17, <1>18, <3>1, <3>2, <3>3, SMTT(30)
    <2>5. at \notin Ended /\ at' \notin Ended /\ run' = run /\ appended' = appended /\ Record(result)
        BY <1>11, <1>12, <1>19, Zenon DEF Ended
    <2>6. QED
        BY <2>1, <2>2, <2>3, <2>4, <2>5, RecordKeeps, Zenon
<1>21. TypeInv'
    <2>1. ModesTyped'
        BY <1>2, <1>11, FrameTypes, Zenon
    <2>2. freed' \in BOOLEAN /\ errors' \in BOOLEAN
        BY <1>2, <1>4, <1>11, Zenon DEF ReportsTyped
    <2>3. cursor' \in Nat \ {0} /\ back' \in {"loop", "finish"}
        BY <1>11
    <2>4. ControlTyped'
        BY <1>2, <1>12, <1>19, <2>2, <2>3, ZenonT(40) DEF ControlTyped
    <2>5. PlacesTyped'
        BY <1>2, <1>11, <1>12 DEF PlacesTyped
    <2>6. ReportsTyped'
        BY <1>2, <1>12, <1>20, <2>2, Zenon DEF ReportsTyped
    <2>7. QED
        BY <1>13, <2>1, <2>4, <2>5, <2>6, TypeInvNext, Zenon
<1>22. PlacesApart'
    BY <1>1, <1>5, <1>12, <1>14, <1>15, <1>17, Zenon DEF PlacesApart
<1>23. StagesInTurn'
    <2>1. Current' \subseteq Current /\ Range(services') \subseteq Held
        BY <1>5, <1>12, <1>15, Zenon DEF Current, Held
    <2>2. QED
        BY <1>1, <1>12, <1>16, <2>1, ShrinkInTurn, Zenon
<1>24. ControlHolds'
    <2>1. hook' = "none"
        BY <1>1, <1>12, NoHookYet, Zenon
    <2>2. QED
        BY <1>4, <1>11, <1>12, <2>1, Zenon DEF ControlHolds, Recovering, Closing, Ended, AtTop, StageIsOver
<1>25. SlotsHold'
    <2>1. stageLimit \in Nat /\ Len(active) <= stageLimit /\ Len(active') = 0
        BY <1>1, <1>2, <1>11, Zenon DEF SlotsHold, PlacesTyped
    <2>2. Len(active') <= stageLimit' /\ stageLimit' >= 1
        BY <1>5, <1>12, <2>1
    <2>3. QED
        BY <1>1, <1>12, <2>2, Zenon DEF SlotsHold
<1>26. ChildrenAreOwned'
    <2> SUFFICES ASSUME NEW j \in Jobs, job'[j].child PROVE j \in Range(services')
        BY Zenon DEF ChildrenAreOwned
    <2>1. j # p /\ j \notin siblings /\ job[j].child
        BY <1>4, <1>13, Zenon
    <2>2. QED
        BY <1>1, <1>6, <1>12, <2>1, Zenon DEF ChildrenAreOwned
<1>27. TasksHold'
    <2>1. Range(services) \subseteq Jobs /\ JobsOf(Ahead) \subseteq Jobs /\ siblings \subseteq Held
        BY <1>1, <1>17, OpenAreJobs, Zenon
    <2>2. \A j \in Range(services) \cup JobsOf(Ahead') : job'[j] = job[j]
        BY <1>5, <1>13, <1>16, <1>17, <2>1, Zenon
    <2>3. \A j \in Jobs : job'[j].recovery = job[j].recovery /\ job'[j].defer = job'[j].recovery
        <3>1. \A j \in Jobs : job[j].defer = job[j].recovery
            BY <1>1, Zenon DEF TasksHold
        <3>2. QED
            BY <1>4, <1>13, <3>1, Zenon
    <2>4. pending' \cap run.services = {}
        BY <1>1, <1>4, <1>11, <1>18, ZenonT(40) DEF TasksHold
    <2>5. QED
        BY <1>1, <1>12, <1>14, <1>16, <2>2, <2>3, <2>4, ZenonT(40) DEF TasksHold
<1>28. ErrorsHold'
    <2>1. \A j \in Range(active) : ~job[j].failed
        BY <1>1, <1>4, Zenon DEF TasksHold
    <2>2. \A j \in Jobs : j # p => job'[j].failed = job[j].failed
        BY <1>13, Zenon
    <2>3. \A j \in Jobs : j # p => (Unforgiven(j)' <=> Unforgiven(j))
        BY <1>12, <1>14, <2>1, <2>2, Zenon DEF Unforgiven
    <2>4. ~Unforgiven(p)
        BY <1>5, <2>1, Zenon DEF Unforgiven
    <2>5. Unforgiven(p)' => attempt.error
        BY <1>4, <1>12, <1>14, Zenon DEF Unforgiven
    <2>6. \A j \in D : outcome'[j] = << "Failed" >> <=> j = p /\ attempt.error
        <3>1. \A j \in D : result[j] = "Failed" <=> j \in failed
            BY <1>10, Zenon
        <3>2. p \in failed <=> attempt.error
            BY <1>4, <1>18, Zenon
        <3>3. \A j \in D : outcome'[j] = << "Failed" >> <=> result[j] = "Failed"
            BY <1>20
        <3>4. QED
            BY <1>18, <3>1, <3>2, <3>3, Zenon
    <2>7. attempt.error => p \in D
        BY <1>4, <1>9, <1>18, Zenon
    <2>8. \A j \in D : outcome[j] # << "Failed" >>
        <3>1. << >> # << "Failed" >>
            BY Zenon
        <3>2. QED
            BY <1>20, <3>1, Zenon
    <2>9. errors' => \E j \in Jobs : outcome'[j] = << "Failed" >> \/ Unforgiven(j)'
        <3>1. CASE errors
            <4>1. PICK j \in Jobs : outcome[j] = << "Failed" >> \/ Unforgiven(j)
                BY <1>1, <3>1, Zenon DEF ErrorsHold
            <4>2. QED
                BY <1>20, <2>3, <2>4, <2>8, <4>1, Zenon
        <3>2. CASE attempt.error
            BY <2>6, <2>7, <3>2, Zenon
        <3>3. QED
            BY <1>11, <3>1, <3>2, Zenon
    <2>10. \A j \in Jobs : outcome'[j] = << "Failed" >> \/ Unforgiven(j)' => errors'
        BY <1>1, <1>11, <1>20, <2>3, <2>5, <2>6, Zenon DEF ErrorsHold
    <2>11. QED
        BY <2>9, <2>10, Zenon DEF ErrorsHold
<1>29. SuccessMeansAllPassed'
    BY <1>1, <1>12, NoHookYet, Zenon
<1>30. QED
    BY <1>20, <1>21, <1>22, <1>23, <1>24, <1>25, <1>26, <1>27, <1>28, <1>29, ZenonT(40) DEF IInv

-----------------------------------------------------------------------------
(* The end of a run, and the worker's steps.                               *)

(* The run is over and its hook is chosen (finish).                        *)
LEMMA FinishKeeps ==
    ASSUME IInv, Finish
    PROVE  IInv'
<1>1. /\ TypeInv /\ PlacesApart /\ StagesInTurn /\ OpenIsUnreported /\ NoneIsForgotten
      /\ ReportsAgree /\ ControlHolds /\ SlotsHold /\ ChildrenAreOwned /\ TasksHold /\ ErrorsHold
    BY Zenon DEF IInv
<1>2. ModesTyped /\ ControlTyped /\ PlacesTyped /\ TasksTyped /\ ReportsTyped
    BY <1>1, TypeInvIs, Zenon
<1>3. /\ at = "finish" /\ at' = "hook" /\ hook' \in {"success", "failure"}
      /\ hook' = "success" => IsSuccess
      /\ UNCHANGED <<modeVars, cursor, freed, back, phase, placeVars, job, errors, terminal, outcome>>
    BY Zenon DEF Finish
<1>4. /\ run' = run /\ appended' = appended /\ stages' = stages /\ active' = active
      /\ queued' = queued /\ services' = services /\ pending' = pending /\ Ahead' = Ahead
      /\ stageLimit' = stageLimit /\ job' = job /\ errors' = errors /\ terminal' = terminal
      /\ outcome' = outcome /\ Current' = Current /\ Held' = Held
    BY <1>3, Zenon DEF modeVars, placeVars, Ahead, Current, Held
<1>5. /\ active = << >> /\ queued = << >> /\ pending = {} /\ stages = << >>
      /\ services # << >> => run.failFast
    BY <1>1, <1>3, Zenon DEF ControlHolds, Closing, StageIsOver
<1>6. TypeInv'
    <2>1. ModesTyped' /\ PlacesTyped' /\ TasksTyped'
        BY <1>2, <1>3, FrameTypes, Zenon
    <2>2. ControlTyped' /\ ReportsTyped'
        BY <1>2, <1>3, Zenon DEF ControlTyped, ReportsTyped
    <2>3. QED
        BY <2>1, <2>2, TypeInvNext, Zenon
<1>7. PlacesApart' /\ StagesInTurn'
    BY <1>1, <1>4, FramePlaces, Zenon
<1>8. OpenIsUnreported'
    BY <1>1, <1>4, Zenon DEF OpenIsUnreported
<1>9. NoneIsForgotten'
    BY <1>1, <1>3, <1>4, Zenon DEF NoneIsForgotten, Planned, Ended
<1>10. ReportsAgree'
    BY <1>1, <1>3, <1>4, FrameReports, Zenon
<1>11. ControlHolds'
    BY <1>3, <1>4, <1>5, Zenon DEF ControlHolds, Recovering, Closing, Ended, AtTop, StageIsOver
<1>12. SlotsHold'
    BY <1>1, <1>4, Zenon DEF SlotsHold
<1>13. ChildrenAreOwned' /\ TasksHold'
    <2>1. ChildrenAreOwned'
        BY <1>1, <1>3, <1>4, Zenon DEF ChildrenAreOwned
    <2>2. TasksHold'
        BY <1>1, <1>4, Zenon DEF TasksHold
    <2>3. QED
        BY <2>1, <2>2, Zenon
<1>14. ErrorsHold'
    <2>1. at # "cancelled"
        BY <1>3, Zenon
    <2>2. \A j \in Jobs : Unforgiven(j)' <=> Unforgiven(j)
        BY <1>4, Zenon DEF Unforgiven
    <2>3. QED
        BY <1>1, <1>4, <2>1, <2>2, Zenon DEF ErrorsHold
<1>15. SuccessMeansAllPassed'
    <2> SUFFICES ASSUME hook' = "success", NEW j \in Planned
                 PROVE  \/ terminal[j] = << "Passed" >>
                        \/ run.failFast /\ j \in run.services /\ outcome[j] = << >>
        BY <1>4, Zenon DEF SuccessMeansAllPassed, Planned
    <2>1. IsSuccess /\ j \in Jobs
        BY <1>1, <1>3, OpenAreJobs, Zenon
    <2>2. Held = Range(services) /\ JobsOf(stages) = {}
        <3>1. active \in Seq(Jobs) /\ queued \in Seq(Jobs) /\ stages \in Seq(Stage)
            BY <1>2, Zenon DEF PlacesTyped
        <3>2. Range(active) = {} /\ Range(queued) = {}
            BY <1>5, <3>1, RangeIs, Zenon
        <3>3. JobsOf(stages) = {}
            BY <1>5, <3>1, JobsOfIs, Zenon
        <3>4. QED
            BY <1>5, <3>2, <3>3, Zenon DEF Held, Current
    <2>3. CASE j \in Range(services)
        <3>1. services # << >>
            BY <1>2, <2>3, RangeIs, Zenon DEF PlacesTyped
        <3>2. QED
            BY <1>1, <1>5, <2>2, <2>3, <3>1, Zenon DEF TasksHold, OpenIsUnreported
    <2>4. CASE j \notin Range(services)
        <3>1. outcome[j] # << >>
            BY <1>1, <1>3, <2>2, <2>4, Zenon DEF NoneIsForgotten, Ended
        <3>2. \A r \in Outcomes : outcome[j] = << r >> => r = "Passed"
            <4> SUFFICES ASSUME NEW r \in Outcomes, outcome[j] = << r >> PROVE r = "Passed"
                BY Zenon
            <4>1. 1 \in DOMAIN << r >> /\ << r >>[1] = r
                OBVIOUS
            <4>2. QED
                BY <2>1, <4>1, Zenon DEF IsSuccess
        <3>3. "Cancelled" \in Outcomes
            BY Zenon DEF Outcomes
        <3>4. PICK r \in Outcomes : terminal[j] = << WireState(r) >> /\ outcome[j] = << r >>
            BY <1>1, <1>3, <2>1, <3>1, <3>2, <3>3, Zenon DEF ReportsAgree, ReportOf
        <3>5. QED
            BY <3>2, <3>4, Zenon DEF WireState
    <2>5. QED
        BY <2>3, <2>4, Zenon
<1>16. QED
    BY <1>6, <1>7, <1>8, <1>9, <1>10, <1>11, <1>12, <1>13, <1>14, <1>15, SMTT(30) DEF IInv

=============================================================================
