--------------------------- MODULE LifecycleProofs --------------------------
(***************************************************************************)
(* For every number of callers, generations and queued commands: no        *)
(* generation is lost or in two places, its events tell an orderly story,  *)
(* a drop leaves nothing behind, the worker implements Lifecycle, and both *)
(* answers to an exact cancel are true.                                    *)
(***************************************************************************)
EXTENDS WorkerProofs

-----------------------------------------------------------------------------
(* The consumer.                                                           *)

LEMMA Popped ==
    ASSUME IInv, NEW kind, Pops(kind)
    PROVE  /\ Head(queue) \in Commands /\ Head(queue).kind = kind
           /\ Queued' = Queued \ Own(Head(queue)) /\ Own(Head(queue)) \subseteq Queued /\ Distinct(queue)'
           /\ kind \in {"Run", "StartServices"} =>
                Head(queue).gen \in Queued /\ Own(Head(queue)) = {Head(queue).gen} /\ Carries(Head(queue))
           /\ kind \notin {"Run", "StartServices"} => Own(Head(queue)) = {}
<1>1. queue # << >> /\ queue' = Tail(queue) /\ Head(queue).kind = kind
  BY Zenon DEF Pops
<1>2. queue \in Seq(Commands) /\ Distinct(queue) /\ Queued = GensOf(queue) /\ Queued' = GensOf(queue')
  BY Typed, Zenon DEF Queued
<1>3. /\ GensOf(queue') = GensOf(queue) \ Own(Head(queue)) /\ Distinct(queue')
      /\ Head(queue) \in Commands /\ Own(Head(queue)) \subseteq GensOf(queue)
  BY <1>1, <1>2, GensTail, Zenon
<1>4. Carries(Head(queue)) <=> kind \in {"Run", "StartServices"}
  BY <1>1, Zenon DEF Carries
<1>5. /\ Carries(Head(queue)) => Own(Head(queue)) = {Head(queue).gen}
      /\ ~Carries(Head(queue)) => Own(Head(queue)) = {}
  BY <1>3, OwnFacts, Zenon
<1> QED
  BY <1>1, <1>2, <1>3, <1>4, <1>5, Zenon

(* A command that brings no generation is taken from the queue.            *)
LEMMA Passing ==
    ASSUME IInv, TypeInv', NEW kind \in {"CancelExact", "CancelAny", "Reconcile"}, Pops(kind),
           cpc # "done", cpc' # "done", SlotsInTurn',
           UNCHANGED <<nextId, closed, dropping, pc, hand, active, pending, predecessor, held, log, vanished>>
    PROVE  IInv'
<1>1. Queued' = Queued /\ Distinct(queue)'
  BY Popped, Zenon
<1>2. InOnePlace'
  BY <1>1, Frame, Zenon DEF IInv, InOnePlace
<1>3. Closing'
  BY Zenon DEF IInv, Closing
<1> QED
  BY <1>1, <1>2, <1>3, Frame, Zenon DEF IInv

(* A generation of the queue or of the pending slot becomes the active one.*)
LEMMA Starting ==
    ASSUME IInv, TypeInv', NEW gen \in Gens, NEW pred \in Gens \cup {NoGen}, StartRun(gen, pred),
           active = NoGen, cpc = "loop", pending \in {NoGen, gen}, pending' = NoGen, predecessor' = NoGen,
           UNCHANGED <<nextId, closed, dropping, pc, hand, held, vanished>>,
           gen \in Queued \cup {pending}, Queued' = Queued \ {gen}, Distinct(queue)',
           pred # NoGen => \E i \in 1 .. Len(log) : log[i] = Cancelled(pred, gen)
    PROVE  IInv'
<1>1. active' = gen /\ cpc' = "register" /\ log' = Append(log, Started(gen, pred))
  BY Zenon DEF StartRun, Emit
<1>2. PICK e \in Events : e = Started(gen, pred) /\ e.gen = gen /\ e.type = "Started" /\ e.rel = pred
  BY EventTypes, Zenon DEF Started, Event
<1>3. log \in Seq(Events) /\ log' = Append(log, e)
  BY <1>1, <1>2, Typed, Zenon
<1>4. Begun' = Begun \cup {gen} /\ Ended' = Ended
  BY <1>2, <1>3, LogGrows, Zenon
<1>5. held = NoCommand /\ Own(held) = {} /\ NoGen \notin Gens /\ Begun \subseteq Gens
  BY Typed, OwnFacts, Zenon DEF IInv, SlotsInTurn
<1>6. Taken = {pending} \ {NoGen} /\ Taken' = {gen}
  BY <1>1, <1>5, Zenon DEF Taken
<1>7. gen \notin Ended /\ Begun \subseteq Ended
  BY <1>5, <1>6, ZenonT(40) DEF IInv, InOnePlace
<1>8. EventOrder' /\ OneAtATime' /\ PredecessorWasSuperseded'
  BY <1>2, <1>3, <1>7, StoryGoesOn, Zenon DEF IInv, Story
<1>9. Story'
  BY <1>8, Zenon DEF Story, PredecessorIsTold
<1>10. Handed' = Handed /\ HandsApart' /\ Issued' = Issued
  BY Frame, Zenon
<1>11. InOnePlace'
  <2>1. CASE pending = gen
    <3>1. Taken = {gen} /\ Queued' = Queued
      BY <1>5, <1>6, <2>1, Zenon DEF IInv, InOnePlace
    <3> QED
      BY <1>1, <1>4, <1>6, <1>7, <1>10, <3>1, Zenon DEF IInv, InOnePlace
  <2>2. CASE pending = NoGen
    <3>1. Taken = {} /\ gen \in Queued
      BY <1>5, <1>6, <2>2, Zenon
    <3> QED
      BY <1>1, <1>4, <1>6, <1>7, <1>10, <3>1 DEF IInv, InOnePlace
  <2> QED
    BY <2>1, <2>2, Zenon
<1>12. SlotsInTurn'
  BY <1>1, <1>5, Zenon DEF SlotsInTurn, IsRun, NoCommand, Command
<1>13. Closing'
  BY <1>1, Zenon DEF IInv, Closing
<1> QED
  BY <1>9, <1>10, <1>11, <1>12, <1>13, Zenon DEF IInv

(* The active generation ends; a Run that ended it becomes pending.        *)
LEMMA Ending ==
    ASSUME IInv, TypeInv', active \in Gens, cpc \in {"finish", "cancelling"}, NEW e \in Events,
           e.gen = active, e.type # "Started", log' = Append(log, e), active' = NoGen, held' = NoCommand,
           \/ Own(held) = {} /\ cpc' = "loop" /\ UNCHANGED <<pending, predecessor>>
           \/ /\ IsRun(held) /\ cpc' = "drain" /\ e = Cancelled(active, held.gen)
              /\ pending' = held.gen /\ predecessor' = active,
           UNCHANGED <<nextId, queue, closed, dropping, pc, hand, vanished>>
    PROVE  IInv'
<1>1. log \in Seq(Events) /\ held \in Commands /\ NoGen \notin Gens /\ Own(NoCommand) = {} /\ Begun \subseteq Gens
  BY Typed, OwnFacts, Zenon
<1>2. Begun' = Begun /\ Ended' = Ended \cup {active}
  BY <1>1, LogGrows, Zenon
<1>3. pending = NoGen /\ active \in Taken
  BY <1>1, Zenon DEF IInv, SlotsInTurn, Taken
<1>4. active \notin Ended /\ active \in Begun
  BY <1>1, <1>3, Zenon DEF IInv, InOnePlace
<1>5. EventOrder' /\ OneAtATime' /\ PredecessorWasSuperseded'
  BY <1>1, <1>4, StoryGoesOn, Zenon DEF IInv, Story
<1>6. IsRun(held) => held.gen \in Gens /\ Own(held) = {held.gen} /\ held.gen # active
  BY <1>1, OwnFacts, Zenon DEF IInv, SlotsInTurn, IsRun, Carries
<1>7. Taken = {active} \cup Own(held) /\ Taken' = Own(held)
  BY <1>1, <1>3, <1>6, Zenon DEF Taken, Own
<1>8. active \notin Own(held)
  BY <1>6, Zenon DEF Own
<1>9. PredecessorIsTold'
  <2>1. CASE Own(held) = {} /\ UNCHANGED <<pending, predecessor>>
    BY <1>3, <2>1, Zenon DEF IInv, Story, PredecessorIsTold
  <2>2. CASE IsRun(held) /\ e = Cancelled(active, held.gen) /\ pending' = held.gen /\ predecessor' = active
    <3>1. \E i \in 1 .. Len(log') : log'[i] = e
      <4>1. Len(log') \in 1 .. Len(log') /\ log'[Len(log')] = e
        BY <1>1
      <4> QED
        BY <4>1, Zenon
    <3>2. PredecessorIsTold' <=> (predecessor' # NoGen =>
            pending' # NoGen /\ \E i \in 1 .. Len(log') : log'[i] = Cancelled(predecessor', pending'))
      BY Zenon DEF PredecessorIsTold, Cancelled, Event
    <3> QED
      BY <1>1, <1>6, <2>2, <3>1, <3>2, Zenon
  <2> QED
    BY <2>1, <2>2, Zenon
<1>10. Handed' = Handed /\ HandsApart' /\ Issued' = Issued /\ Queued' = Queued /\ Distinct(queue)'
  BY Frame, Zenon
<1>11. InOnePlace'
  <2>1. vanished' = vanished /\ active' = NoGen
    BY Zenon
  <2>2. /\ Issued' = Handed' \cup Queued' \cup Taken' \cup Ended' \cup vanished'
        /\ Handed' \cap (Queued' \cup Taken' \cup Ended' \cup vanished') = {}
    BY <1>2, <1>7, <1>10, <2>1, Zenon DEF IInv, InOnePlace
  <2>3. /\ Queued' \cap (Taken' \cup Ended' \cup vanished') = {}
        /\ Taken' \cap (Ended' \cup vanished') = {} /\ Ended' \cap vanished' = {}
    BY <1>2, <1>7, <1>8, <1>10, <2>1 DEF IInv, InOnePlace
  <2>4. Begun' \subseteq Ended' \cup {active'}
    BY <1>2, <2>1, Zenon DEF IInv, InOnePlace
  <2> QED
    BY <2>1, <2>2, <2>3, <2>4, Zenon DEF InOnePlace
<1>12. SlotsInTurn'
  BY <1>3, Zenon DEF SlotsInTurn, IsRun, NoCommand, Command
<1>13. Closing'
  BY Zenon DEF IInv, Closing
<1> QED
  BY <1>5, <1>9, <1>10, <1>11, <1>12, <1>13, Zenon DEF IInv, Story

(* A generation of the queue is dropped without an event.                  *)
LEMMA Dropping ==
    ASSUME IInv, TypeInv', Pops("StartServices"), vanished' = vanished \cup {Head(queue).gen},
           cpc # "done", cpc' # "done", SlotsInTurn',
           UNCHANGED <<nextId, closed, dropping, pc, hand, active, pending, predecessor, held, log>>
    PROVE  IInv'
<1>1. PICK gen : gen = Head(queue).gen /\ gen \in Queued /\ Own(Head(queue)) = {gen}
  BY Popped, Zenon
<1>2. Queued' = Queued \ {gen} /\ Distinct(queue)'
  BY <1>1, Popped, Zenon
<1>3. Handed' = Handed /\ HandsApart' /\ Issued' = Issued /\ Begun' = Begun /\ Ended' = Ended /\ Taken' = Taken /\ Story'
  BY Frame, Zenon
<1>4. InOnePlace'
  BY <1>1, <1>2, <1>3, ZenonT(40) DEF IInv, InOnePlace
<1>5. Closing'
  BY Zenon DEF IInv, Closing
<1> QED
  BY <1>2, <1>3, <1>4, <1>5, Zenon DEF IInv

LEMMA ConsumerKeeps ==
    ASSUME IInv, ConsumerStep \/ ExecutorStep
    PROVE  IInv'
<1>1. TypeInv'
  BY TypeConsumer, Zenon DEF IInv
<1>2. NoGen \notin Gens /\ active \in Gens \cup {NoGen} /\ pending \in Gens \cup {NoGen}
      /\ predecessor \in Gens \cup {NoGen} /\ Queued \subseteq Gens /\ Own(NoCommand) = {}
  BY Typed, OwnFacts, CommandTypes, Zenon
<1>3. CASE Promote
  <2>1. /\ cpc = "loop" /\ active = NoGen /\ pending # NoGen /\ StartRun(pending, predecessor)
        /\ pending' = NoGen /\ predecessor' = NoGen
        /\ UNCHANGED <<nextId, queue, closed, dropping, pc, hand, held, vanished>>
    BY <1>3, Zenon DEF Promote, schedulerVars, callerVars
  <2>2. pending \in Gens /\ pending \in Taken
    BY <1>2, <2>1, Zenon DEF Taken
  <2>3. Queued' = Queued \ {pending} /\ Distinct(queue)'
    BY <2>1, <2>2, Frame DEF IInv, InOnePlace
  <2>4. predecessor # NoGen => \E i \in 1 .. Len(log) : log[i] = Cancelled(predecessor, pending)
    BY Zenon DEF IInv, Story, PredecessorIsTold
  <2> QED
    BY <1>1, <1>2, <2>1, <2>2, <2>3, <2>4, Starting, Zenon
<1>4. CASE RegisterActive
  <2>1. /\ UNCHANGED <<nextId, queue, closed, dropping, pc, hand, active, pending, predecessor, held, log, vanished>>
        /\ cpc = "register" /\ cpc' = "loop"
    BY <1>4, Zenon DEF RegisterActive, callerVars
  <2>2. SlotsInTurn' /\ Closing'
    BY <2>1, Zenon DEF IInv, SlotsInTurn, Closing
  <2> QED
    BY <1>1, <2>1, <2>2, Frame, Zenon DEF IInv, placeVars
<1>5. CASE ReceiveStart
  <2>1. PICK kind \in {"Run", "StartServices"} : Pops(kind)
    BY <1>5, Zenon DEF ReceiveStart
  <2>2. PICK gen \in Gens : gen = Head(queue).gen /\ gen \in Queued /\ Own(Head(queue)) = {gen}
    BY <1>2, <2>1, Popped, Zenon
  <2>3. Queued' = Queued \ {gen} /\ Distinct(queue)'
    BY <2>1, <2>2, Popped, Zenon
  <2>4. /\ cpc = "loop" /\ active = NoGen /\ pending = NoGen /\ StartRun(gen, NoGen)
        /\ UNCHANGED <<nextId, closed, dropping, pc, hand, held, pending, predecessor, vanished>>
    BY <1>5, <2>2, Zenon DEF ReceiveStart, Idle, callerVars
  <2>5. predecessor = NoGen
    BY <2>4, Zenon DEF IInv, Story, PredecessorIsTold
  <2> QED
    BY <1>1, <1>2, <2>2, <2>3, <2>4, <2>5, Starting, Zenon
<1>6. CASE ReceiveOther
  <2>1. PICK kind \in {"CancelExact", "CancelAny", "Reconcile"} : Pops(kind)
    BY <1>6, Zenon DEF ReceiveOther
  <2>2. /\ cpc = "loop"
        /\ UNCHANGED <<nextId, closed, dropping, pc, hand, cpc, active, pending, predecessor, held, log, vanished>>
    BY <1>6, Zenon DEF ReceiveOther, Idle, consumerVars
  <2>3. SlotsInTurn'
    BY <2>2, Frame, Zenon
  <2> QED
    BY <1>1, <2>1, <2>2, <2>3, Passing, Zenon
<1>7. CASE Exit
  <2>1. /\ UNCHANGED <<nextId, queue, closed, dropping, pc, hand, active, pending, predecessor, held, log, vanished>>
        /\ cpc = "loop" /\ active = NoGen /\ pending = NoGen /\ queue = << >> /\ closed /\ cpc' = "done"
    BY <1>7, Zenon DEF Exit, Idle, callerVars, schedulerVars
  <2>2. SlotsInTurn' /\ Closing'
    BY <2>1, Zenon DEF IInv, SlotsInTurn, Closing
  <2> QED
    BY <1>1, <2>1, <2>2, Frame, Zenon DEF IInv, placeVars
<1>8. CASE Finish
  <2>1. /\ UNCHANGED <<nextId, queue, closed, dropping, pc, hand, pending, predecessor, held, vanished>>
        /\ cpc = "finish" /\ cpc' = "loop" /\ active' = NoGen /\ log' = Append(log, Finished(active))
    BY <1>8, Zenon DEF Finish, schedulerVars, callerVars, Emit
  <2>2. active \in Gens /\ held = NoCommand
    BY <2>1, Zenon DEF IInv, TypeInv, ActiveInUse, SlotsInTurn
  <2>3. PICK e \in Events : e = Finished(active) /\ e.gen = active /\ e.type # "Started"
    <3>1. NoGen \in Gens \cup {NoGen}
      BY Zenon
    <3>2. Finished(active) \in Events
      BY <2>2, <3>1, EventTypes, Zenon
    <3> QED
      BY <3>2, Zenon DEF Finished, Event
  <2> QED
    BY <1>1, <1>2, <2>1, <2>2, <2>3, Ending, Zenon
<1>9. CASE PollEnding
  <2>1. PICK kind \in {"Run", "CancelAny", "CancelExact"} : Pops(kind)
    BY <1>9, Zenon DEF PollEnding
  <2>2. /\ UNCHANGED <<nextId, closed, dropping, pc, hand, active, pending, predecessor, log, vanished>>
        /\ cpc = "loop" /\ active # NoGen /\ cpc' = "cancelling" /\ held' = Head(queue)
    BY <1>9, Zenon DEF PollEnding, Busy, callerVars
  <2>3. /\ Queued' = Queued \ Own(held') /\ Own(held') \subseteq Queued /\ Distinct(queue)'
        /\ held' \in Commands /\ held'.kind = kind
    BY <2>1, <2>2, Popped
  <2>4. pending = NoGen /\ held = NoCommand
    BY <2>2, Zenon DEF IInv, SlotsInTurn
  <2>5. Taken = {active} /\ Taken' = {active} \cup Own(held')
    BY <1>2, <2>2, <2>3, <2>4, Zenon DEF Taken
  <2>6. Handed' = Handed /\ HandsApart' /\ Issued' = Issued /\ Begun' = Begun /\ Ended' = Ended /\ Story'
    BY <2>2, Frame, Zenon
  <2>7. InOnePlace'
    BY <2>2, <2>3, <2>5, <2>6, Zenon DEF IInv, InOnePlace
  <2>8. IsRun(held') => held'.gen # active
    <3>1. IsRun(held') => held'.gen \in Own(held')
      BY <2>3, OwnFacts, Zenon DEF IsRun, Carries
    <3> QED
      BY <2>3, <2>5, <3>1, Zenon DEF IInv, InOnePlace
  <2>9. SlotsInTurn'
    BY <2>1, <2>2, <2>3, <2>4, <2>8, Zenon DEF SlotsInTurn, IsRun
  <2>10. Closing'
    BY <2>2, Zenon DEF IInv, Closing
  <2> QED
    BY <1>1, <2>3, <2>6, <2>7, <2>9, <2>10, Zenon DEF IInv
<1>10. CASE CancelDone
  <2>1. /\ UNCHANGED <<nextId, queue, closed, dropping, pc, hand, vanished>>
        /\ cpc = "cancelling" /\ active' = NoGen /\ held' = NoCommand
        /\ log' = Append(log, Cancelled(active, IF IsRun(held) THEN held.gen ELSE NoGen))
        /\ \/ IsRun(held) /\ pending' = held.gen /\ predecessor' = active /\ cpc' = "drain"
           \/ ~IsRun(held) /\ UNCHANGED <<pending, predecessor>> /\ cpc' = "loop"
    BY <1>10, Zenon DEF CancelDone, schedulerVars, Emit
  <2>2. active \in Gens /\ held \in Commands /\ held.kind # "StartServices"
    BY <2>1, Typed, Zenon DEF IInv, TypeInv, ActiveInUse, SlotsInTurn
  <2>3. CASE IsRun(held)
    <3>1. held.gen \in Gens
      BY <2>2, <2>3, CarriesGen, Zenon DEF IsRun
    <3>2. PICK e \in Events : e = Cancelled(active, held.gen) /\ e.gen = active /\ e.type # "Started"
      <4>1. held.gen \in Gens \cup {NoGen}
        BY <3>1, Zenon
      <4>2. Cancelled(active, held.gen) \in Events
        BY <2>2, <4>1, EventTypes, Zenon
      <4> QED
        BY <4>2, Zenon DEF Cancelled, Event
    <3> QED
      BY <1>1, <2>1, <2>2, <2>3, <3>2, Ending, Zenon
  <2>4. CASE ~IsRun(held)
    <3>1. Own(held) = {}
      BY <2>2, <2>4, OwnFacts, Zenon DEF IsRun, Carries
    <3>2. PICK e \in Events : e = Cancelled(active, NoGen) /\ e.gen = active /\ e.type # "Started"
      <4>1. NoGen \in Gens \cup {NoGen}
        BY Zenon
      <4>2. Cancelled(active, NoGen) \in Events
        BY <2>2, <4>1, EventTypes, Zenon
      <4> QED
        BY <4>2, Zenon DEF Cancelled, Event
    <3> QED
      BY <1>1, <2>1, <2>2, <2>4, <3>1, <3>2, Ending, Zenon
  <2> QED
    BY <2>3, <2>4, Zenon
<1>11. CASE PollStaleCancel \/ \E stopsAll \in BOOLEAN : PollReconcile(stopsAll)
  <2>1. PICK kind \in {"CancelExact", "CancelAny", "Reconcile"} : Pops(kind)
    BY <1>11, Zenon DEF PollStaleCancel, PollReconcile
  <2>2. /\ cpc = "loop"
        /\ UNCHANGED <<nextId, closed, dropping, pc, hand, cpc, active, pending, predecessor, held, log, vanished>>
    BY <1>11, Zenon DEF PollStaleCancel, PollReconcile, Busy, consumerVars
  <2>3. SlotsInTurn'
    BY <2>2, Frame, Zenon
  <2> QED
    BY <1>1, <2>1, <2>2, <2>3, Passing, Zenon
<1>12. CASE PollStartServices
  <2>1. /\ UNCHANGED <<nextId, closed, dropping, pc, hand, cpc, active, pending, predecessor, held, log>>
        /\ cpc = "loop" /\ Pops("StartServices") /\ vanished' = vanished \cup {Head(queue).gen}
    BY <1>12, Zenon DEF PollStartServices, Busy, callerVars, consumerVars
  <2>2. SlotsInTurn'
    BY <2>1, Frame, Zenon
  <2> QED
    BY <1>1, <2>1, <2>2, Dropping, Zenon
<1>13. CASE DrainRun
  <2>1. /\ UNCHANGED <<nextId, closed, dropping, pc, hand, cpc, active, held, log>>
        /\ cpc = "drain" /\ Pops("Run") /\ pending' = Head(queue).gen /\ predecessor' = NoGen
        /\ vanished' = IF pending = NoGen THEN vanished ELSE vanished \cup {pending}
    BY <1>13, Zenon DEF DrainRun, callerVars
  <2>2. active = NoGen /\ held = NoCommand /\ Own(held) = {}
    BY <1>2, <2>1, Zenon DEF IInv, SlotsInTurn
  <2>3. PICK gen \in Gens : gen = Head(queue).gen /\ gen \in Queued /\ Own(Head(queue)) = {gen}
    BY <1>2, <2>1, Popped, Zenon
  <2>4. Queued' = Queued \ {gen} /\ Distinct(queue)'
    BY <2>1, <2>3, Popped, Zenon
  <2>5. Taken = {pending} \ {NoGen} /\ Taken' = {gen} /\ vanished' = vanished \cup Taken
    BY <1>2, <2>1, <2>2, <2>3, Zenon DEF Taken
  <2>6. Handed' = Handed /\ HandsApart' /\ Issued' = Issued /\ Begun' = Begun /\ Ended' = Ended
    BY <2>1, Frame, Zenon
  <2>7. InOnePlace'
    <3>1. active' = NoGen
      BY <2>1, <2>2, Zenon
    <3>2. /\ Issued' = Handed' \cup Queued' \cup Taken' \cup Ended' \cup vanished'
          /\ Handed' \cap (Queued' \cup Taken' \cup Ended' \cup vanished') = {}
      BY <2>3, <2>4, <2>5, <2>6 DEF IInv, InOnePlace
    <3>3. /\ Queued' \cap (Taken' \cup Ended' \cup vanished') = {}
          /\ Taken' \cap (Ended' \cup vanished') = {} /\ Ended' \cap vanished' = {}
      BY <2>3, <2>4, <2>5, <2>6 DEF IInv, InOnePlace
    <3>4. Begun' \subseteq Ended' \cup {active'}
      BY <2>1, <2>6, Zenon DEF IInv, InOnePlace
    <3> QED
      BY <3>1, <3>2, <3>3, <3>4, Zenon DEF InOnePlace
  <2>8. SlotsInTurn'
    BY <2>1, <2>2, Zenon DEF IInv, SlotsInTurn
  <2>9. Story'
    BY <2>1, Zenon DEF IInv, Story, EventOrder, OneAtATime, PredecessorWasSuperseded, PredecessorIsTold
  <2>10. Closing'
    BY <2>1, Zenon DEF IInv, Closing
  <2> QED
    BY <1>1, <2>4, <2>6, <2>7, <2>8, <2>9, <2>10, Zenon DEF IInv
<1>14. CASE DrainCancelExact
  <2>1. /\ UNCHANGED <<nextId, closed, dropping, pc, hand, cpc, active, held, log>>
        /\ cpc = "drain" /\ Pops("CancelExact")
        /\ \/ /\ Head(queue).gen = pending /\ pending' = NoGen /\ predecessor' = NoGen
              /\ vanished' = vanished \cup {pending}
           \/ UNCHANGED <<pending, predecessor, vanished>>
    BY <1>14, Zenon DEF DrainCancelExact
  <2>2. CASE UNCHANGED <<pending, predecessor, vanished>>
    <3>1. SlotsInTurn'
      BY <2>1, <2>2, Frame, Zenon
    <3> QED
      BY <1>1, <2>1, <2>2, <3>1, Passing, Zenon
  <2>3. CASE Head(queue).gen = pending /\ pending' = NoGen /\ predecessor' = NoGen /\ vanished' = vanished \cup {pending}
    <3>1. active = NoGen /\ held = NoCommand /\ Own(held) = {}
      BY <1>2, <2>1, Zenon DEF IInv, SlotsInTurn
    <3>2. Queued' = Queued /\ Distinct(queue)' /\ Head(queue) \in Commands /\ Head(queue).kind = "CancelExact"
      BY <2>1, Popped
    <3>3. pending \in Gens
      BY <2>3, <3>2, CarriesGen, Zenon
    <3>4. Taken = {pending} /\ Taken' = {}
      BY <1>2, <2>1, <2>3, <3>1, <3>3, Zenon DEF Taken
    <3>5. Handed' = Handed /\ HandsApart' /\ Issued' = Issued /\ Begun' = Begun /\ Ended' = Ended
      BY <2>1, Frame, Zenon
    <3>6. InOnePlace'
      BY <2>1, <2>3, <3>2, <3>4, <3>5, Zenon DEF IInv, InOnePlace
    <3>7. SlotsInTurn'
      BY <2>1, <2>3, <3>1, Zenon DEF IInv, SlotsInTurn
    <3>8. Story'
      BY <2>1, <2>3, Zenon DEF IInv, Story, EventOrder, OneAtATime, PredecessorWasSuperseded, PredecessorIsTold
    <3>9. Closing'
      BY <2>1, <2>3, Zenon DEF IInv, Closing
    <3> QED
      BY <1>1, <3>2, <3>5, <3>6, <3>7, <3>8, <3>9, Zenon DEF IInv
  <2> QED
    BY <2>1, <2>2, <2>3, Zenon
<1>15. CASE DrainBreak
  <2>1. /\ UNCHANGED <<nextId, closed, dropping, pc, hand, active, pending, predecessor, held, log>>
        /\ cpc = "drain" /\ cpc' = "loop"
    BY <1>15, Zenon DEF DrainBreak
  <2>2. SlotsInTurn'
    BY <2>1, Zenon DEF IInv, SlotsInTurn
  <2>3. CASE UNCHANGED <<queue, vanished>>
    <3>1. Closing'
      BY <2>1, <2>3, Zenon DEF IInv, Closing
    <3> QED
      BY <1>1, <2>1, <2>2, <2>3, <3>1, Frame, Zenon DEF IInv, placeVars
  <2>4. ASSUME NEW kind \in {"CancelAny", "Reconcile"}, Pops(kind), UNCHANGED vanished
        PROVE  IInv'
    BY <1>1, <2>1, <2>2, <2>4, Passing, Zenon
  <2>5. CASE Pops("StartServices") /\ vanished' = vanished \cup {Head(queue).gen}
    BY <1>1, <2>1, <2>2, <2>5, Dropping, Zenon
  <2>6. \A kind : Pops(kind) => Head(queue).kind = kind
    BY Zenon DEF Pops
  <2> QED
    BY <1>15, <2>3, <2>4, <2>5, <2>6, Zenon DEF DrainBreak
<1>16. CASE AdvanceMoves
  <2>1. /\ UNCHANGED <<nextId, queue, closed, dropping, pc, hand, active, pending, predecessor, held, log, vanished>>
        /\ cpc \in {"loop", "recovering", "joining"} /\ cpc' \in {"loop", "recovering", "joining", "finish"}
    BY <1>16, AdvanceKeeps, Zenon
  <2>2. SlotsInTurn' /\ Closing'
    BY <2>1, Zenon DEF IInv, SlotsInTurn, Closing
  <2> QED
    BY <1>1, <2>1, <2>2, Frame, Zenon DEF IInv, placeVars
<1> QED
  BY <1>3, <1>4, <1>5, <1>6, <1>7, <1>8, <1>9, <1>10, <1>11, <1>12, <1>13, <1>14, <1>15, <1>16, Zenon
  DEF ConsumerStep, ExecutorStep, AdvanceMoves

LEMMA NextIInv == IInv /\ [Next]_vars => IInv'
<1> SUFFICES ASSUME IInv, [Next]_vars PROVE IInv'
  BY Zenon
<1>1. TypeInv'
  BY TypeStep, Zenon DEF IInv
<1>2. ASSUME NEW c \in Clients, Call(c) \/ CallerStep(c) \/ GiveUp(c) PROVE IInv'
  BY <1>2, CallKeeps, CallerKeeps, GiveUpKeeps, Zenon
<1>3. CASE Close
  <2>1. /\ UNCHANGED <<nextId, queue, dropping, pc, hand, cpc, active, pending, predecessor, held, log, vanished>>
        /\ dropping /\ \A c \in Clients : pc[c] = "idle"
    BY <1>3, Zenon DEF Close, callerVars, consumerVars
  <2>2. Closing'
    BY <1>3, <2>1, Zenon DEF IInv, Closing, Close
  <2> QED
    BY <1>1, <2>1, <2>2, Frame, Zenon DEF IInv, placeVars
<1>4. CASE ConsumerStep \/ ExecutorStep
  BY <1>4, ConsumerKeeps, Zenon
<1>5. CASE UNCHANGED vars
  <2>1. UNCHANGED <<nextId, queue, closed, dropping, pc, hand, cpc, active, pending, predecessor, held, log, vanished>>
    BY <1>5, Zenon DEF vars, callerVars, schedulerVars, consumerVars
  <2> QED
    BY <1>1, <2>1, Frame, Zenon DEF IInv, placeVars
<1> QED
  BY <1>2, <1>3, <1>4, <1>5, Zenon DEF Next, Joined
-----------------------------------------------------------------------------
(* The events tell an orderly story in every interleaving, for any number  *)
(* of callers and generations (executor.start, finish and cancel against   *)
(* the Cancelled events of Scheduler::send).                               *)
THEOREM RunsAreOrderlyHolds == Spec => []RunsAreOrderly
<1>1. IInv => RunsAreOrderly
  BY Zenon DEF IInv, TypeInv, Story, RunsAreOrderly
<1> QED
  BY <1>1, InitIInv, NextIInv, PTL DEF Spec

(* No generation is forgotten or in two places: the id a caller was given  *)
(* is with it, in the queue, in the consumer, over, or dropped by the      *)
(* burst drain or append_plan.                                             *)
THEOREM AccountedHolds == Spec => []Accounted
<1>1. ASSUME IInv PROVE Accounted
  <2> SUFFICES ASSUME NEW gen \in Issued,
                      NEW places, places = << InHand(gen), InQueue(gen), InConsumer(gen), HasEnded(gen), gen \in vanished >>
               PROVE  \E i \in 1 .. 5 : places[i] /\ \A j \in 1 .. 5 : places[j] => i = j
    BY Zenon DEF Accounted
  <2>1. gen \in Gens /\ gen # NoGen
    BY <1>1, Typed, GensFacts, BoundsAssumption DEF Issued, Gens, NoGen
  <2>2. /\ InHand(gen) <=> gen \in Handed
        /\ InQueue(gen) <=> gen \in Queued
        /\ HasEnded(gen) <=> gen \in Ended
    BY <2>1, Zenon DEF InHand, Handed, Own, Carries, InQueue, Queued, GensOf, Ended
  <2>3. InConsumer(gen) <=> gen \in Taken
    BY <1>1, <2>1, Zenon DEF InConsumer, Taken, Own, Carries, IInv, SlotsInTurn
  <2>4. /\ places[1] <=> gen \in Handed
        /\ places[2] <=> gen \in Queued
        /\ places[3] <=> gen \in Taken
        /\ places[4] <=> gen \in Ended
        /\ places[5] <=> gen \in vanished
    BY <2>2, <2>3, Zenon
  <2>5. \A j \in 1 .. 5 : j \in {1, 2, 3, 4, 5}
    OBVIOUS
  <2> HIDE DEF Accounted
  <2>6. CASE gen \in Handed
    <3>1. gen \notin Queued \cup Taken \cup Ended \cup vanished
      BY <1>1, <2>6, Zenon DEF IInv, InOnePlace
    <3> QED
      BY <2>4, <2>5, <2>6, <3>1
  <2>7. CASE gen \in Queued
    <3>1. gen \notin Handed \cup Taken \cup Ended \cup vanished
      BY <1>1, <2>7, Zenon DEF IInv, InOnePlace
    <3> QED
      BY <2>4, <2>5, <2>7, <3>1
  <2>8. CASE gen \in Taken
    <3>1. gen \notin Handed \cup Queued \cup Ended \cup vanished
      BY <1>1, <2>8, Zenon DEF IInv, InOnePlace
    <3> QED
      BY <2>4, <2>5, <2>8, <3>1
  <2>9. CASE gen \in Ended
    <3>1. gen \notin Handed \cup Queued \cup Taken \cup vanished
      BY <1>1, <2>9, Zenon DEF IInv, InOnePlace
    <3> QED
      BY <2>4, <2>5, <2>9, <3>1
  <2>10. CASE gen \in vanished
    <3>1. gen \notin Handed \cup Queued \cup Taken \cup Ended
      BY <1>1, <2>10, Zenon DEF IInv, InOnePlace
    <3> QED
      BY <2>4, <2>5, <2>10, <3>1
  <2> QED
    BY <1>1, <2>6, <2>7, <2>8, <2>9, <2>10, Zenon DEF IInv, InOnePlace
<1> QED
  BY <1>1, InitIInv, NextIInv, PTL DEF Spec

(* A drop that has joined the consumer leaves no generation behind (Drop   *)
(* for Worker against Scheduler::receive).                                 *)
THEOREM DropLeavesNothingHolds == Spec => []DropLeavesNothing
<1>1. ASSUME IInv, cpc = "done"
      PROVE  queue = << >> /\ active = NoGen /\ pending = NoGen /\ \A gen \in Issued : HasEnded(gen) \/ gen \in vanished
  <2>1. queue = << >> /\ active = NoGen /\ pending = NoGen /\ \A c \in Clients : hand[c] = NoCommand
    BY <1>1, Zenon DEF IInv, Closing
  <2>2. held = NoCommand /\ Own(NoCommand) = {}
    BY <1>1, CommandTypes, OwnFacts, Zenon DEF IInv, SlotsInTurn
  <2>3. Handed = {} /\ Taken = {}
    BY <2>1, <2>2, Zenon DEF Handed, Taken
  <2>4. Queued = {}
    <3>1. Len(<< >>) = 0 /\ 1 .. 0 = {}
      OBVIOUS
    <3> QED
      BY <2>1, <3>1, Zenon DEF Queued, GensOf
  <2>5. Issued \subseteq Ended \cup vanished
    BY <1>1, <2>3, <2>4, Zenon DEF IInv, InOnePlace
  <2> QED
    BY <2>1, <2>5, Zenon DEF Ended
<1>2. IInv => DropLeavesNothing
  BY <1>1, Zenon DEF DropLeavesNothing
<1> QED
  BY <1>2, InitIInv, NextIInv, PTL DEF Spec
-----------------------------------------------------------------------------
(* The worker implements Lifecycle.                                        *)
Status == [gen \in Gens |-> StatusOf(gen)]
Completed == {gen \in Gens : \E i \in 1 .. Len(log) : log[i] = Finished(gen)}

LEMMA StatusIs ==
    /\ Status = [gen \in Gens |->
         IF gen \in vanished THEN "vanished" ELSE IF gen \in Completed THEN "finished"
         ELSE IF gen \in Ended THEN "cancelled" ELSE IF gen \in Begun THEN "running"
         ELSE IF gen \in Issued THEN "scheduled" ELSE "unknown"]
    /\ Status' = [gen \in Gens |->
         IF gen \in vanished' THEN "vanished" ELSE IF gen \in Completed' THEN "finished"
         ELSE IF gen \in Ended' THEN "cancelled" ELSE IF gen \in Begun' THEN "running"
         ELSE IF gen \in Issued' THEN "scheduled" ELSE "unknown"]
<1>1. \A gen \in Gens : /\ gen \in Completed <=> \E i \in 1 .. Len(log) : log[i] = Finished(gen)
                        /\ gen \in Ended <=> HasEnded(gen)
                        /\ gen \in Begun <=> HasStarted(gen)
  BY Zenon DEF Completed, Ended, Begun
<1>2. \A gen \in Gens : /\ gen \in Completed' <=> \E i \in 1 .. Len(log') : log'[i] = Finished(gen)
                        /\ gen \in Ended' <=> HasEnded(gen)'
                        /\ gen \in Begun' <=> HasStarted(gen)'
  BY Zenon DEF Completed, Ended, Begun, HasEnded, HasStarted, Finished, Event, IsTerminal
<1>3. Status = [gen \in Gens |->
         IF gen \in vanished THEN "vanished" ELSE IF gen \in Completed THEN "finished"
         ELSE IF gen \in Ended THEN "cancelled" ELSE IF gen \in Begun THEN "running"
         ELSE IF gen \in Issued THEN "scheduled" ELSE "unknown"]
  BY <1>1, Zenon DEF Status, StatusOf
<1>4. Status' = [gen \in Gens |->
         IF gen \in vanished' THEN "vanished" ELSE IF gen \in Completed' THEN "finished"
         ELSE IF gen \in Ended' THEN "cancelled" ELSE IF gen \in Begun' THEN "running"
         ELSE IF gen \in Issued' THEN "scheduled" ELSE "unknown"]
  BY <1>2 DEF Status, StatusOf, HasEnded, HasStarted, IsTerminal, Issued, Finished, Event
<1> QED
  BY <1>3, <1>4, Zenon

LEMMA CompletedGrows ==
    ASSUME log \in Seq(Events)
    PROVE  /\ Completed \subseteq Ended
           /\ UNCHANGED log => Completed' = Completed
           /\ \A gen \in Gens : log' = Append(log, Finished(gen)) => Completed' = Completed \cup {gen}
           /\ \A gen, rel : log' = Append(log, Started(gen, rel)) \/ log' = Append(log, Cancelled(gen, rel)) =>
                Completed' = Completed
<1>1. Completed \subseteq Ended
  BY DEF Completed, Ended, HasEnded, IsTerminal, Finished, Event
<1>2. UNCHANGED log => Completed' = Completed
  BY Zenon DEF Completed
<1>3. ASSUME NEW e, log' = Append(log, e)
      PROVE  Completed' = Completed \cup {gen \in Gens : e = Finished(gen)}
  <2>1. /\ Len(log) \in Nat /\ Len(log') = Len(log) + 1 /\ log'[Len(log')] = e
        /\ \A i \in 1 .. Len(log) : log'[i] = log[i]
    BY <1>3
  <2>2. /\ \A i \in 1 .. Len(log') : i \in 1 .. Len(log) \/ i = Len(log')
        /\ Len(log') \in 1 .. Len(log') /\ \A i \in 1 .. Len(log) : i \in 1 .. Len(log')
    BY <2>1
  <2>3. Completed' = {gen \in Gens : \E i \in 1 .. Len(log') : log'[i] = Finished(gen)}
    BY Zenon DEF Completed, Finished, Event
  <2> QED
    BY <2>1, <2>2, <2>3, Zenon DEF Completed
<1>4. \A gen, other : Finished(gen) = Finished(other) => gen = other
  BY Zenon DEF Finished, Event
<1>5. \A gen, rel, other : Started(gen, rel) # Finished(other) /\ Cancelled(gen, rel) # Finished(other)
  BY Zenon DEF Finished, Started, Cancelled, Event
<1>6. ASSUME NEW gen \in Gens, log' = Append(log, Finished(gen)) PROVE Completed' = Completed \cup {gen}
  BY <1>3, <1>4, <1>6
<1>7. ASSUME NEW gen, NEW rel, log' = Append(log, Started(gen, rel)) \/ log' = Append(log, Cancelled(gen, rel))
      PROVE  Completed' = Completed
  BY <1>3, <1>5, <1>7, Zenon
<1> QED
  BY <1>1, <1>2, <1>6, <1>7, Zenon

(* What a step does to the state that Status is computed from.             *)
Issues ==
    /\ nextId' = nextId + 1 /\ nextId < MaxRuns
    /\ UNCHANGED <<log, vanished>>
Waiting == Queued \cup ({pending} \ {NoGen})
Begins ==
    /\ active = NoGen
    /\ \E gen \in Waiting, rel \in Gens \cup {NoGen} : log' = Append(log, Started(gen, rel))
    /\ UNCHANGED <<nextId, vanished>>
Ends ==
    /\ active \in Gens
    /\ \/ log' = Append(log, Finished(active))
       \/ \E rel \in Gens \cup {NoGen} : log' = Append(log, Cancelled(active, rel))
    /\ UNCHANGED <<nextId, vanished>>
Discards ==
    /\ \E gen \in Queued, rel \in Gens \cup {NoGen} : log' = Append(log, Cancelled(gen, rel))
    /\ UNCHANGED <<nextId, vanished>>
Loses ==
    /\ active = NoGen \/ pending = NoGen
    /\ \E gen \in Waiting : vanished' = vanished \cup {gen}
    /\ UNCHANGED <<nextId, log>>
Stays == UNCHANGED <<nextId, log, vanished>>

LEMMA EffectOfCaller ==
    ASSUME IInv, NEW c \in Clients, Call(c) \/ CallerStep(c) \/ GiveUp(c)
    PROVE  Issues \/ Discards \/ Stays
<1>1. CASE Call(c)
  BY <1>1, Zenon DEF Call, PrepareRun, CancelRunningTasks, CancelGeneration, ReconcileServices, StartServices, DropWorker,
              Issues, Stays
<1>2. CASE SignalRun(c) \/ EnqueueCancelAny(c) \/ EnqueueDirect(c) \/ Receive(c) \/ GiveUp(c)
  BY <1>2, Zenon DEF SignalRun, EnqueueCancelAny, EnqueueDirect, Receive, GiveUp, Stays
<1>3. queue \in Seq(Commands) /\ hand[c] \in Commands /\ Queued = GensOf(queue) /\ NoGen \in Gens \cup {NoGen}
  BY Typed, Zenon
<1>4. ASSUME NEW p \in 1 .. Len(queue), IsRun(queue[p])
      PROVE  queue[p].gen \in Queued
  <2>1. queue[p] \in Commands /\ Carries(queue[p])
    BY <1>3, <1>4 DEF IsRun, Carries
  <2>2. queue[p].gen \in Gens
    BY <2>1, CarriesGen, Zenon DEF Carries
  <2> QED
    BY <1>3, <2>1, <2>2, Zenon DEF GensOf
<1>5. CASE EnqueueRun(c)
  <2>1. PICK k \in 0 .. Len(queue) :
          LET kept == SubSeq(queue, 1, k) IN
            \/ \E p \in 1 .. k : LastRunAt(kept, p) /\ Emit(Cancelled(kept[p].gen, hand[c].gen))
            \/ UNCHANGED log
    BY <1>5, Zenon DEF EnqueueRun
  <2>2. PICK kept : kept = SubSeq(queue, 1, k)
    BY Zenon
  <2>3. \A p \in 1 .. k : kept[p] = queue[p] /\ p \in 1 .. Len(queue)
    BY <1>3, <2>1, <2>2
  <2>4. hand[c].gen \in Gens
    BY <1>3, <1>5, CarriesGen, Zenon DEF EnqueueRun, Sends
  <2>5. UNCHANGED <<nextId, vanished>>
    BY <1>5, Zenon DEF EnqueueRun
  <2>6. CASE UNCHANGED log
    BY <2>5, <2>6, Zenon DEF Stays
  <2>7. ASSUME NEW p \in 1 .. k, LastRunAt(kept, p), Emit(Cancelled(kept[p].gen, hand[c].gen))
        PROVE  Discards
    <3>1. queue[p].gen \in Queued
      BY <1>4, <2>3, <2>7, Zenon DEF LastRunAt
    <3> QED
      BY <2>3, <2>4, <2>5, <2>7, <3>1, Zenon DEF Discards, Emit
  <2> QED
    BY <2>1, <2>2, <2>6, <2>7, Zenon
<1>6. CASE EnqueueCancelExact(c)
  <2>1. UNCHANGED <<nextId, vanished>>
    BY <1>6, Zenon DEF EnqueueCancelExact
  <2>2. ASSUME NEW p \in 1 .. Len(queue), QueuedAt(hand[c].gen, p), Emit(Cancelled(hand[c].gen, NoGen))
        PROVE  Discards
    <3>1. hand[c].gen \in Queued
      BY <1>4, <2>2, Zenon DEF QueuedAt
    <3> QED
      BY <1>3, <2>1, <2>2, <3>1, Zenon DEF Discards, Emit
  <2> QED
    BY <1>6, <2>1, <2>2, Zenon DEF EnqueueCancelExact, Stays
<1>7. CASE PurgeQueuedRun(c)
  <2>1. PICK p \in 1 .. Len(queue) : FirstRunAt(queue, p) /\ Emit(Cancelled(queue[p].gen, NoGen))
    BY <1>7, Zenon DEF PurgeQueuedRun
  <2>2. queue[p].gen \in Queued /\ UNCHANGED <<nextId, vanished>>
    BY <1>4, <1>7, <2>1, Zenon DEF FirstRunAt, PurgeQueuedRun
  <2> QED
    BY <1>3, <2>1, <2>2, Zenon DEF Discards, Emit
<1> QED
  BY <1>1, <1>2, <1>5, <1>6, <1>7, Zenon DEF CallerStep

LEMMA EffectOfConsumer ==
    ASSUME IInv, ConsumerStep \/ ExecutorStep
    PROVE  Begins \/ Ends \/ Loses \/ Stays
<1>1. /\ active \in Gens \cup {NoGen} /\ pending \in Gens \cup {NoGen} /\ predecessor \in Gens \cup {NoGen}
      /\ NoGen \in Gens \cup {NoGen} /\ held \in Commands
  BY Typed, Zenon
<1>2. CASE Promote
  BY <1>1, <1>2, Zenon DEF Promote, StartRun, Emit, Begins, Waiting
<1>3. CASE ReceiveStart
  <2>1. PICK kind \in {"Run", "StartServices"} : Pops(kind)
    BY <1>3, Zenon DEF ReceiveStart
  <2>2. Head(queue).gen \in Queued
    BY <2>1, Popped, Zenon
  <2> QED
    BY <1>1, <1>3, <2>2, Zenon DEF ReceiveStart, Idle, StartRun, Emit, Begins, Waiting
<1>4. CASE RegisterActive \/ ReceiveOther \/ Exit \/ PollEnding \/ PollStaleCancel \/ \E all \in BOOLEAN : PollReconcile(all)
  BY <1>4, Zenon DEF RegisterActive, ReceiveOther, Exit, PollEnding, PollStaleCancel, PollReconcile, Stays
<1>5. CASE Finish
  <2>1. active \in Gens
    BY <1>5, Zenon DEF Finish, IInv, TypeInv, ActiveInUse
  <2> QED
    BY <1>5, <2>1, Zenon DEF Finish, Emit, Ends
<1>6. CASE CancelDone
  <2>1. active \in Gens
    BY <1>6, Zenon DEF CancelDone, IInv, TypeInv, ActiveInUse
  <2>2. IsRun(held) => held.gen \in Gens
    BY <1>1, CarriesGen, Zenon DEF IsRun
  <2>3. PICK rel \in Gens \cup {NoGen} : rel = IF IsRun(held) THEN held.gen ELSE NoGen
    BY <2>2, Zenon
  <2> QED
    BY <1>6, <2>1, <2>3, Zenon DEF CancelDone, Emit, Ends
<1>7. CASE PollStartServices
  <2>1. Pops("StartServices") /\ vanished' = vanished \cup {Head(queue).gen} /\ active # NoGen
        /\ UNCHANGED <<nextId, log>>
    BY <1>7, Zenon DEF PollStartServices, Busy
  <2>2. Head(queue).gen \in Waiting
    BY <2>1, Popped, Zenon DEF Waiting
  <2>3. pending = NoGen
    BY <2>1, Zenon DEF IInv, SlotsInTurn
  <2> QED
    BY <2>1, <2>2, <2>3, Zenon DEF Loses
<1>8. CASE DrainRun \/ DrainCancelExact
  <2>1. /\ \/ vanished' = vanished
           \/ pending # NoGen /\ vanished' = vanished \cup {pending}
           \/ pending = NoGen /\ Pops("CancelExact") /\ Head(queue).gen = pending
        /\ cpc = "drain" /\ UNCHANGED <<nextId, log>>
    BY <1>8, Zenon DEF DrainRun, DrainCancelExact
  <2>2. active = NoGen
    BY <2>1, Zenon DEF IInv, SlotsInTurn
  <2>3. ~(pending = NoGen /\ Pops("CancelExact") /\ Head(queue).gen = pending)
    BY Popped, CarriesGen, GensFacts, Zenon
  <2> QED
    BY <1>1, <2>1, <2>2, <2>3, Zenon DEF Loses, Stays, Waiting
<1>9. CASE DrainBreak
  <2>1. cpc = "drain" /\ UNCHANGED <<nextId, log>>
    BY <1>9, Zenon DEF DrainBreak
  <2>2. active = NoGen
    BY <2>1, Zenon DEF IInv, SlotsInTurn
  <2>3. CASE Pops("StartServices") /\ vanished' = vanished \cup {Head(queue).gen}
    <3>1. Head(queue).gen \in Waiting
      BY <2>3, Popped, Zenon DEF Waiting
    <3> QED
      BY <2>1, <2>2, <2>3, <3>1, Zenon DEF Loses
  <2>4. CASE UNCHANGED vanished
    BY <2>1, <2>4, Zenon DEF Stays
  <2> QED
    BY <1>9, <2>3, <2>4, Zenon DEF DrainBreak, Pops
<1>10. CASE AdvanceMoves
  BY <1>10, AdvanceKeeps, Zenon DEF Stays
<1> QED
  BY <1>2, <1>3, <1>4, <1>5, <1>6, <1>7, <1>8, <1>9, <1>10, Zenon DEF ConsumerStep, ExecutorStep, AdvanceMoves

(* Status changes at one generation.                                       *)
LEMMA Moved ==
    ASSUME NEW gen \in Gens, NEW from, NEW to, Status[gen] = from, Status'[gen] = to,
           \A other \in Gens \ {gen} : Status'[other] = Status[other]
    PROVE  L!Move(gen, from, to)
<1>1. Status' = [Status EXCEPT ![gen] = to]
  BY Zenon DEF Status
<1> QED
  BY <1>1, Zenon DEF L!Move, Status

LEMMA StepImplements ==
    ASSUME IInv, Issues \/ Begins \/ Ends \/ Discards \/ Loses \/ Stays
    PROVE  L!Next \/ UNCHANGED Status
<1>1. /\ Issued = Handed \cup Queued \cup Taken \cup Ended \cup vanished
      /\ Queued \cap (Taken \cup Ended \cup vanished) = {}
      /\ Taken \cap (Ended \cup vanished) = {}
      /\ Begun \subseteq Ended \cup {active} /\ (active # NoGen => active \in Begun /\ active \in Taken)
      /\ (pending # NoGen => pending \in Taken)
      /\ Completed \subseteq Ended /\ vanished \cap Ended = {}
  BY Typed, CompletedGrows, Zenon DEF IInv, InOnePlace, Taken
<1>2. Issued \subseteq Gens /\ Queued \subseteq Gens /\ Taken \subseteq Gens /\ log \in Seq(Events) /\ NoGen \notin Gens
      /\ nextId \in Nat /\ active \in Gens \cup {NoGen} /\ pending \in Gens \cup {NoGen}
  <2>1. nextId \in 0 .. MaxRuns /\ MaxRuns \in Nat
    BY Typed, BoundsAssumption, Zenon
  <2> QED
    BY <2>1, Typed DEF Issued, Gens
<1>3. CASE Stays
  <2>1. vanished' = vanished /\ Completed' = Completed /\ Ended' = Ended /\ Begun' = Begun /\ Issued' = Issued
    BY <1>2, <1>3, CompletedGrows, Frame, Zenon DEF Stays
  <2> QED
    BY <2>1, StatusIs, Zenon
<1>4. CASE Issues
  <2>1. vanished' = vanished /\ Completed' = Completed /\ Ended' = Ended /\ Begun' = Begun
    BY <1>2, <1>4, CompletedGrows, Frame, Zenon DEF Issues
  <2>2. PICK gen \in Gens : gen = nextId + 1
    BY <1>2, <1>4, BoundsAssumption DEF Issues, Gens
  <2>3. gen \notin Issued /\ Issued' = Issued \cup {gen}
    BY <1>2, <1>4, <2>2 DEF Issues, Issued
  <2>4. gen \notin vanished /\ gen \notin Ended /\ gen \notin Completed /\ gen \notin Begun
    <3>1. gen \notin Taken /\ gen # NoGen /\ gen \notin Ended /\ gen \notin vanished
      BY <1>1, <1>2, <2>3, Zenon
    <3>2. gen # active
      BY <1>1, <3>1, Zenon
    <3> QED
      BY <1>1, <3>1, <3>2, Zenon
  <2>5. Status[gen] = "unknown" /\ Status'[gen] = "scheduled"
    BY <2>1, <2>3, <2>4, StatusIs, Zenon
  <2>6. \A other \in Gens \ {gen} : Status'[other] = Status[other]
    BY <2>1, <2>3, StatusIs, Zenon
  <2>7. L!Schedule(gen)
    BY <2>5, <2>6, Moved, Zenon DEF L!Schedule
  <2> QED
    BY <2>7, Zenon DEF L!Next
<1>5. ASSUME NEW gen \in Queued \cup {pending}, gen # NoGen, active = NoGen \/ gen \in Queued \/ pending = NoGen
      PROVE  /\ gen \in Gens /\ gen \in Issued /\ gen \notin vanished /\ gen \notin Ended /\ gen \notin Completed
             /\ gen \notin Begun /\ Status[gen] = "scheduled"
  <2>1. gen \in Gens /\ gen \in Queued \cup Taken
    BY <1>1, <1>2, <1>5, Zenon
  <2>2. gen \in Issued /\ gen \notin vanished /\ gen \notin Ended /\ gen \notin Completed
    BY <1>1, <2>1, Zenon
  <2>3. gen # active
    BY <1>1, <1>5, Zenon
  <2>4. gen \notin Begun
    BY <1>1, <2>2, <2>3, Zenon
  <2> QED
    BY <2>1, <2>2, <2>4, StatusIs, Zenon
<1>6. CASE Begins
  <2>1. PICK gen \in Waiting, rel \in Gens \cup {NoGen} : log' = Append(log, Started(gen, rel))
    BY <1>6, Zenon DEF Begins
  <2>2. gen \in Queued \cup {pending} /\ gen # NoGen /\ active = NoGen
    BY <1>2, <1>6, <2>1, Zenon DEF Waiting, Begins
  <2>3. /\ gen \in Gens /\ gen \in Issued /\ gen \notin vanished /\ gen \notin Ended /\ gen \notin Completed
        /\ Status[gen] = "scheduled"
    BY <1>5, <2>2, Zenon
  <2>4. PICK e \in Events : e = Started(gen, rel) /\ e.gen = gen /\ e.type = "Started"
    <3>1. Started(gen, rel) \in Events
      BY <2>3, EventTypes, Zenon
    <3> QED
      BY <3>1, Zenon DEF Started, Event
  <2>5. Begun' = Begun \cup {gen} /\ Ended' = Ended
    BY <1>2, <2>1, <2>4, LogGrows, Zenon
  <2>6. Completed' = Completed /\ vanished' = vanished /\ Issued' = Issued
    BY <1>2, <1>6, <2>1, CompletedGrows, Frame, Zenon DEF Begins
  <2>7. Status'[gen] = "running"
    BY <2>3, <2>5, <2>6, StatusIs, Zenon
  <2>8. \A other \in Gens \ {gen} : Status'[other] = Status[other]
    BY <2>5, <2>6, StatusIs, Zenon
  <2>9. \A other \in Gens : Status[other] # "running"
    <3>1. Begun \subseteq Ended
      BY <1>1, <1>2, <2>2, Typed, Zenon
    <3> QED
      BY <3>1, StatusIs, Zenon
  <2>10. L!Move(gen, "scheduled", "running")
    BY <2>3, <2>7, <2>8, Moved, Zenon
  <2>11. L!Start(gen)
    BY <2>9, <2>10, Zenon DEF L!Start, Status
  <2> QED
    BY <2>3, <2>11, Zenon DEF L!Next
<1>7. CASE Ends
  <2>1. active \in Gens /\ active # NoGen
    BY <1>2, <1>7, Zenon DEF Ends
  <2>2. active \in Begun /\ active \notin Ended /\ active \notin vanished /\ active \notin Completed
    BY <1>1, <2>1, Zenon
  <2>3. Status[active] = "running"
    BY <2>1, <2>2, StatusIs, Zenon
  <2>4. vanished' = vanished /\ Issued' = Issued
    BY <1>7, Frame, Zenon DEF Ends
  <2>5. CASE log' = Append(log, Finished(active))
    <3>1. PICK e \in Events : e = Finished(active) /\ e.gen = active /\ e.type # "Started"
      <4>1. Finished(active) \in Events
        BY <2>1, EventTypes, Zenon
      <4> QED
        BY <4>1, Zenon DEF Finished, Event
    <3>2. Begun' = Begun /\ Ended' = Ended \cup {active} /\ Completed' = Completed \cup {active}
      BY <1>2, <2>1, <2>5, <3>1, LogGrows, CompletedGrows, Zenon
    <3>3. Status'[active] = "finished"
      BY <2>1, <2>2, <2>4, <3>2, StatusIs, Zenon
    <3>4. \A other \in Gens \ {active} : Status'[other] = Status[other]
      BY <2>4, <3>2, StatusIs, Zenon
    <3>5. L!Finish(active)
      BY <2>1, <2>3, <3>3, <3>4, Moved, Zenon DEF L!Finish
    <3> QED
      BY <2>1, <3>5, Zenon DEF L!Next
  <2>6. ASSUME NEW rel \in Gens \cup {NoGen}, log' = Append(log, Cancelled(active, rel)) PROVE L!Next
    <3>1. PICK e \in Events : e = Cancelled(active, rel) /\ e.gen = active /\ e.type # "Started"
      <4>1. Cancelled(active, rel) \in Events
        BY <2>1, EventTypes, Zenon
      <4> QED
        BY <4>1, Zenon DEF Cancelled, Event
    <3>2. Begun' = Begun /\ Ended' = Ended \cup {active} /\ Completed' = Completed
      BY <1>2, <2>1, <2>6, <3>1, LogGrows, CompletedGrows, Zenon
    <3>3. Status'[active] = "cancelled"
      BY <2>1, <2>2, <2>4, <3>2, StatusIs, Zenon
    <3>4. \A other \in Gens \ {active} : Status'[other] = Status[other]
      BY <2>4, <3>2, StatusIs, Zenon
    <3>5. L!Cancel(active)
      BY <2>1, <2>3, <3>3, <3>4, Moved DEF L!Cancel
    <3> QED
      BY <2>1, <3>5, Zenon DEF L!Next
  <2> QED
    BY <1>7, <2>5, <2>6, Zenon DEF Ends
<1>8. CASE Discards
  <2>1. PICK gen \in Queued, rel \in Gens \cup {NoGen} : log' = Append(log, Cancelled(gen, rel))
    BY <1>8, Zenon DEF Discards
  <2>2. gen # NoGen
    BY <1>2, Zenon
  <2>3. /\ gen \in Gens /\ gen \notin vanished /\ gen \notin Completed
        /\ Status[gen] = "scheduled"
    BY <1>5, <2>2, Zenon
  <2>4. PICK e \in Events : e = Cancelled(gen, rel) /\ e.gen = gen /\ e.type # "Started"
    <3>1. Cancelled(gen, rel) \in Events
      BY <2>3, EventTypes, Zenon
    <3> QED
      BY <3>1, Zenon DEF Cancelled, Event
  <2>5. Begun' = Begun /\ Ended' = Ended \cup {gen}
    BY <1>2, <2>1, <2>4, LogGrows, Zenon
  <2>6. Completed' = Completed /\ vanished' = vanished /\ Issued' = Issued
    BY <1>2, <1>8, <2>1, CompletedGrows, Frame, Zenon DEF Discards
  <2>7. Status'[gen] = "cancelled"
    BY <2>3, <2>5, <2>6, StatusIs, Zenon
  <2>8. \A other \in Gens \ {gen} : Status'[other] = Status[other]
    BY <2>5, <2>6, StatusIs, Zenon
  <2>9. L!Discard(gen)
    BY <2>3, <2>7, <2>8, Moved, Zenon DEF L!Discard
  <2> QED
    BY <2>3, <2>9, Zenon DEF L!Next
<1>9. CASE Loses
  <2>1. PICK gen \in Waiting : vanished' = vanished \cup {gen}
    BY <1>9, Zenon DEF Loses
  <2>2. gen \in Queued \cup {pending} /\ gen # NoGen /\ (active = NoGen \/ gen \in Queued \/ pending = NoGen)
    BY <1>2, <1>9, <2>1, Zenon DEF Waiting, Loses
  <2>3. gen \in Gens /\ Status[gen] = "scheduled"
    BY <1>5, <2>2, Zenon
  <2>4. Completed' = Completed /\ Begun' = Begun /\ Ended' = Ended /\ Issued' = Issued
    BY <1>2, <1>9, CompletedGrows, Frame, Zenon DEF Loses
  <2>5. Status'[gen] = "vanished"
    BY <2>1, <2>3, StatusIs, Zenon
  <2>6. \A other \in Gens \ {gen} : Status'[other] = Status[other]
    BY <2>1, <2>4, StatusIs, Zenon
  <2>7. L!Vanish(gen)
    BY <2>3, <2>5, <2>6, Moved, Zenon DEF L!Vanish
  <2> QED
    BY <2>3, <2>7, Zenon DEF L!Next
<1> QED
  BY <1>3, <1>4, <1>6, <1>7, <1>8, <1>9

(* The worker implements Lifecycle: whatever its callers interleave, each  *)
(* of its steps starts, ends or drops at most one generation, and only in  *)
(* the order that Lifecycle allows (workers.rs).                           *)
THEOREM ImplementsLifecycleHolds == Spec => ImplementsLifecycle
<1>1. Init => L!Init
  <2>1. Len(<< >>) = 0 /\ 1 .. 0 = {}
    OBVIOUS
  <2> QED
    BY <2>1, Zenon DEF Init, L!Init, StatusOf, HasEnded, HasStarted, Issued
<1>2. ASSUME IInv, [Next]_vars PROVE [L!Next]_([gen \in Gens |-> StatusOf(gen)])
  <2>1. ASSUME NEW c \in Clients, Call(c) \/ CallerStep(c) \/ GiveUp(c) PROVE Issues \/ Discards \/ Stays
    BY <1>2, <2>1, EffectOfCaller, Zenon
  <2>2. CASE ConsumerStep \/ ExecutorStep
    BY <1>2, <2>2, EffectOfConsumer, StepImplements, Zenon DEF Status
  <2>3. CASE Close \/ UNCHANGED vars
    <3>1. Stays
      BY <2>3, Zenon DEF Close, vars, Stays
    <3> QED
      BY <1>2, <3>1, StepImplements, Zenon DEF Status
  <2>4. ASSUME NEW c \in Clients, Call(c) \/ CallerStep(c) \/ GiveUp(c)
        PROVE  L!Next \/ UNCHANGED Status
    BY <1>2, <2>1, <2>4, StepImplements, Zenon
  <2> QED
    BY <1>2, <2>2, <2>3, <2>4, Zenon DEF Next, Joined, Status
<1> QED
  BY <1>1, <1>2, InitIInv, NextIInv, PTL DEF Spec, ImplementsLifecycle, L!Spec

-----------------------------------------------------------------------------
(***************************************************************************)
(* What the caller of an exact cancel is told.  A revoked generation is    *)
(* over and did not finish: it was reported cancelled, or has vanished.    *)
(***************************************************************************)
Revoked ==
    vanished \cup {gen \in Gens : \E i \in 1 .. Len(log) : log[i].gen = gen /\ log[i].type = "Cancelled"}

TruthTold ==
    \A c \in Clients : answer[c] = "cancelled" => hand[c].kind = "CancelExact" /\ hand[c].gen \in Revoked

(* The consumer holds an exact cancel only of the generation it is ending. *)
HeldInTurn == held.kind # "Reconcile" /\ (held.kind = "CancelExact" => held.gen = active)

Told == TruthTold /\ HeldInTurn

(* A generation that is revoked stays so, for the log and the vanished only *)
(* grow, and a Cancelled event revokes.                                    *)
LEMMA RevokedGrows ==
    ASSUME log \in Seq(Events), vanished \subseteq vanished'
    PROVE  /\ UNCHANGED log => Revoked \subseteq Revoked'
           /\ \A e \in Events : log' = Append(log, e) =>
                Revoked \subseteq Revoked' /\ (e.type = "Cancelled" => e.gen \in Revoked')
           /\ vanished' \subseteq Revoked'
<1>1. Revoked' = vanished' \cup {gen \in Gens : \E i \in 1 .. Len(log') : log'[i].gen = gen /\ log'[i].type = "Cancelled"}
  BY Zenon DEF Revoked
<1>2. UNCHANGED log => Revoked \subseteq Revoked'
  BY <1>1, Zenon DEF Revoked
<1>3. ASSUME NEW e \in Events, log' = Append(log, e)
      PROVE  Revoked \subseteq Revoked' /\ (e.type = "Cancelled" => e.gen \in Revoked')
  <2>1. /\ Len(log) \in Nat /\ Len(log') = Len(log) + 1 /\ log'[Len(log')] = e
        /\ \A i \in 1 .. Len(log) : log'[i] = log[i]
    BY <1>3
  <2>2. Len(log') \in 1 .. Len(log') /\ \A i \in 1 .. Len(log) : i \in 1 .. Len(log')
    BY <2>1
  <2>3. e.gen \in Gens
    BY Zenon DEF Events
  <2> QED
    BY <1>1, <2>1, <2>2, <2>3, Zenon DEF Revoked
<1> QED
  BY <1>1, <1>2, <1>3, Zenon

LEMMA RevokedStays == IInv /\ [Next]_vars => Revoked \subseteq Revoked'
<1> SUFFICES ASSUME IInv, [Next]_vars PROVE Revoked \subseteq Revoked'
  BY Zenon
<1>1. log \in Seq(Events) /\ Queued \subseteq Gens /\ active \in Gens \cup {NoGen} /\ pending \in Gens \cup {NoGen}
  BY Typed, Zenon
<1>2. Issues \/ Begins \/ Ends \/ Discards \/ Loses \/ Stays
  <2>1. CASE Close \/ Joined \/ UNCHANGED vars
    BY <2>1, Zenon DEF Close, Joined, vars, Stays
  <2> QED
    BY <2>1, EffectOfCaller, EffectOfConsumer, Zenon DEF Next
<1>3. vanished \subseteq vanished'
  BY <1>2, Zenon DEF Issues, Begins, Ends, Discards, Loses, Stays
<1>4. UNCHANGED log \/ \E e \in Events : log' = Append(log, e)
  <2>1. Waiting \subseteq Gens
    BY <1>1, Zenon DEF Waiting
  <2> QED
    BY <1>1, <1>2, <2>1, EventTypes, Zenon DEF Issues, Begins, Ends, Discards, Loses, Stays
<1> QED
  BY <1>1, <1>3, <1>4, RevokedGrows, Zenon

(* "cancelled" is an answer about a generation that is over.               *)
LEMMA RevokedIsOver == IInv /\ Told => CancelledIsOver
<1> SUFFICES ASSUME IInv, Told, NEW c \in Clients, answer[c] = "cancelled",
                    NEW gen, gen = hand[c].gen
             PROVE  /\ ~InQueue(gen) /\ ~InConsumer(gen)
                    /\ \A i \in 1 .. Len(log) : ~(log[i].gen = gen /\ log[i].type = "Finished")
  BY Zenon DEF CancelledIsOver
<1>1. gen \in Revoked /\ gen \in Gens /\ gen # NoGen
  BY Typed, CarriesGen, Zenon DEF Told, TruthTold
<1>2. gen \in Ended \cup vanished
  BY <1>1, Zenon DEF Revoked, Ended, HasEnded, IsTerminal
<1>3. gen \notin Queued /\ gen \notin Taken /\ ~(gen \in Ended /\ gen \in vanished)
  BY <1>2, Zenon DEF IInv, InOnePlace
<1>4. ~InQueue(gen)
  BY <1>1, <1>3, Zenon DEF InQueue, Queued, GensOf, Carries
<1>5. ~InConsumer(gen)
  BY <1>1, <1>3, Zenon DEF InConsumer, Taken, Own, Carries
<1>6. ASSUME NEW i \in 1 .. Len(log), log[i].gen = gen, log[i].type = "Finished" PROVE FALSE
  <2>1. gen \in Ended
    BY <1>1, <1>6, Zenon DEF Ended, HasEnded, IsTerminal
  <2>2. PICK j \in 1 .. Len(log) : log[j].gen = gen /\ log[j].type = "Cancelled"
    BY <1>1, <1>3, <2>1, Zenon DEF Revoked
  <2>3. i # j /\ i \in Int /\ j \in Int
    BY <1>6, <2>2
  <2>4. i < j \/ j < i
    BY <2>3
  <2> QED
    BY <1>6, <2>2, <2>4, Zenon DEF IInv, Story, EventOrder
<1> QED
  BY <1>4, <1>5, <1>6, Zenon

(* A reply of the consumer goes to the caller that waits with the command. *)
LEMMA ReplyTells ==
    ASSUME TypeInv, Channels, TruthTold, Revoked \subseteq Revoked', UNCHANGED hand,
           NEW x, Expects(x), NEW value, Reply(x, value),
           value = "cancelled" /\ x.from # NoClient => x.kind = "CancelExact" /\ x.gen \in Revoked'
    PROVE  /\ TruthTold'
           /\ \A c \in Clients : answer[c] = "none" /\ answer'[c] # "none" => hand[c] = x /\ x.from = c
<1>1. DOMAIN answer = Clients
  BY Zenon DEF TypeInv, TypeOK
<1>2. CASE x.from = NoClient
  BY <1>2, Zenon DEF Reply, TruthTold
<1>3. CASE x.from # NoClient
  <2>1. /\ x.from \in Clients /\ hand[x.from] = x
        /\ answer'[x.from] = value /\ \A c \in Clients \ {x.from} : answer'[c] = answer[c]
    BY <1>1, <1>3, Zenon DEF Reply, Expects
  <2> QED
    BY <1>3, <2>1, Zenon DEF TruthTold
<1> QED
  BY <1>2, <1>3, Zenon

(* A caller that takes another command, or none, is one that was told      *)
(* nothing or has just received it.                                        *)
LEMMA CallerTells ==
    ASSUME IInv, Channels, Told, NEW c \in Clients, Call(c) \/ CallerStep(c) \/ GiveUp(c), Revoked \subseteq Revoked'
    PROVE  /\ Told'
           /\ \A d \in Clients : answer'[d] = "noop" => answer[d] = "noop"
<1>1. /\ DOMAIN answer = Clients /\ DOMAIN hand = Clients /\ DOMAIN pc = Clients /\ held \in Commands
      /\ pc[c] # "waiting" => answer[c] = "none"
  BY Zenon DEF IInv, TypeInv, TypeOK, Channels, Listening
<1>2. HeldInTurn'
  <2>1. active' = active /\ (held' = held \/ held' = Deaf(held, c))
    BY Zenon DEF Call, CallerStep, PrepareRun, CancelRunningTasks, CancelGeneration, ReconcileServices, StartServices,
              DropWorker, SignalRun, EnqueueRun, EnqueueCancelExact, PurgeQueuedRun, EnqueueCancelAny, EnqueueDirect,
              Receive, GiveUp, consumerVars
  <2>2. held'.kind = held.kind /\ held'.gen = held.gen
    BY <1>1, <2>1, DeafType, Zenon
  <2> QED
    BY <2>1, <2>2, Zenon DEF Told, HeldInTurn
<1>3. ASSUME UNCHANGED answer, answer[c] = "none", \A d \in Clients \ {c} : hand'[d] = hand[d]
      PROVE  TruthTold' /\ \A d \in Clients : answer'[d] = "noop" => answer[d] = "noop"
  BY <1>3, Zenon DEF Told, TruthTold
<1>4. CASE Call(c)
  <2>1. pc[c] = "idle" /\ UNCHANGED answer /\ \E x, step : Take(c, x, step)
    BY <1>4, Zenon DEF Call, CanCall, PrepareRun, CancelRunningTasks, CancelGeneration, ReconcileServices, StartServices,
              DropWorker
  <2>2. \A d \in Clients \ {c} : hand'[d] = hand[d]
    BY <1>1, <2>1, Zenon DEF Take
  <2> QED
    BY <1>1, <1>2, <1>3, <2>1, <2>2, Zenon DEF Told
<1>5. CASE SignalRun(c) \/ EnqueueRun(c) \/ PurgeQueuedRun(c) \/ EnqueueCancelAny(c) \/ EnqueueDirect(c)
  <2>1. pc[c] # "waiting" /\ UNCHANGED answer /\ (UNCHANGED hand \/ Return(c))
    BY <1>5, Zenon DEF SignalRun, EnqueueRun, PurgeQueuedRun, EnqueueCancelAny, EnqueueDirect, Sends
  <2>2. \A d \in Clients \ {c} : hand'[d] = hand[d]
    BY <1>1, <2>1, Zenon DEF Return, Take
  <2> QED
    BY <1>1, <1>2, <1>3, <2>1, <2>2 DEF Told
<1>6. CASE GiveUp(c)
  <2>1. answer[c] = "none" /\ UNCHANGED answer /\ Take(c, NoCommand, "idle")
    BY <1>6, Zenon DEF GiveUp
  <2>2. \A d \in Clients \ {c} : hand'[d] = hand[d]
    BY <1>1, <2>1, Zenon DEF Take
  <2> QED
    BY <1>2, <1>3, <2>1, <2>2 DEF Told
<1>7. CASE Receive(c)
  <2>1. /\ answer'[c] = "none"
        /\ \A d \in Clients \ {c} : hand'[d] = hand[d] /\ answer'[d] = answer[d]
    BY <1>1, <1>7, Zenon DEF Receive, Take
  <2> QED
    BY <1>2, <2>1, Zenon DEF Told, TruthTold
<1>8. CASE EnqueueCancelExact(c)
  <2>1. /\ pc[c] = "send" /\ hand[c].kind = "CancelExact" /\ hand[c].from = c /\ UNCHANGED hand
        /\ hand[c].gen \in Gens /\ NoGen \in Gens \cup {NoGen}
    <3>1. pc[c] = "send" /\ hand[c].kind = "CancelExact" /\ hand[c].from = c
      BY <1>8, Zenon DEF EnqueueCancelExact, Sends, Channels, Listening, Asks
    <3> QED
      BY <1>8, <3>1, Typed, CarriesGen, Zenon DEF EnqueueCancelExact, Return
  <2>2. CASE UNCHANGED answer
    BY <1>1, <1>2, <1>3, <2>1, <2>2, Zenon DEF Told
  <2>3. CASE answer' = [answer EXCEPT ![c] = "cancelled"] /\ Emit(Cancelled(hand[c].gen, NoGen))
    <3>1. Cancelled(hand[c].gen, NoGen) \in Events /\ Cancelled(hand[c].gen, NoGen).type = "Cancelled"
          /\ Cancelled(hand[c].gen, NoGen).gen = hand[c].gen
      BY <2>1, EventTypes, Zenon DEF Cancelled, Event
    <3>2. hand[c].gen \in Revoked'
      <4>1. log \in Seq(Events) /\ vanished' = vanished
        BY <1>8, Typed, Zenon DEF EnqueueCancelExact
      <4> QED
        BY <2>3, <3>1, <4>1, RevokedGrows, Zenon DEF Emit
    <3>3. answer'[c] = "cancelled" /\ \A d \in Clients \ {c} : answer'[d] = answer[d]
      BY <1>1, <2>3, Zenon
    <3> QED
      BY <1>2, <2>1, <3>2, <3>3, Zenon DEF Told, TruthTold
  <2> QED
    BY <1>8, <2>2, <2>3, Zenon DEF EnqueueCancelExact
<1> QED
  BY <1>4, <1>5, <1>6, <1>7, <1>8, Zenon DEF CallerStep

(* The consumer's answers: "cancelled" of the generation it has just ended *)
(* or dropped from its slot, Noop of one it does not have.                 *)
LEMMA ConsumerTells ==
    ASSUME IInv, Channels, Told, ConsumerStep \/ ExecutorStep, Revoked \subseteq Revoked'
    PROVE  /\ Told'
           /\ \A c \in Clients : answer[c] = "none" /\ answer'[c] = "noop" /\ hand[c].kind = "CancelExact"
                => hand[c].gen \notin {active', pending'}
<1>1. /\ TypeInv /\ TruthTold /\ HeldInTurn /\ Expects(held) /\ held \in Commands /\ log \in Seq(Events)
      /\ active \in Gens \cup {NoGen} /\ NoGen \notin Gens /\ ~Asks(NoCommand) /\ hand \in [Clients -> Commands]
      /\ \A c \in Clients : hand[c].kind = "CancelExact" => hand[c].gen # NoGen
  <2>1. hand \in [Clients -> Commands] /\ NoGen \notin Gens
    BY Typed, Zenon
  <2>2. \A c \in Clients : hand[c].kind = "CancelExact" => hand[c].gen # NoGen
    BY <2>1, CarriesGen, Zenon
  <2> QED
    BY <2>1, <2>2, Typed, Zenon DEF IInv, Told, Channels, Asks, NoCommand, Command
<1>2. UNCHANGED hand
  BY AdvanceKeeps, Zenon DEF ConsumerStep, ExecutorStep, AdvanceMoves, Promote, RegisterActive, ReceiveStart,
         ReceiveOther, Exit, Finish, PollEnding, CancelDone, PollStaleCancel, PollReconcile, PollStartServices, DrainRun, DrainCancelExact, DrainBreak, callerVars
<1>3. ASSUME UNCHANGED answer
      PROVE  TruthTold' /\ \A c \in Clients : ~(answer[c] = "none" /\ answer'[c] = "noop")
  BY <1>1, <1>2, <1>3, Zenon DEF TruthTold
<1>4. ASSUME NEW kind, Pops(kind) PROVE Expects(Head(queue)) /\ Head(queue) \in Commands /\ Head(queue).kind = kind
  <2>1. queue \in Seq(Commands) /\ queue # << >>
    BY <1>1, <1>4, Zenon DEF Pops, TypeInv, TypeOK
  <2>2. 1 \in 1 .. Len(queue) /\ Head(queue) = queue[1]
    BY <2>1
  <2> QED
    BY <1>1, <1>4, <2>1, <2>2, PopTypes, Zenon DEF Channels
<1>5. ASSUME NEW value, value # "cancelled", Reply(Head(queue), value), Expects(Head(queue))
      PROVE  /\ TruthTold'
             /\ \A c \in Clients : answer[c] = "none" /\ answer'[c] # "none" => hand[c] = Head(queue)
  <2>1. PICK x : x = Head(queue)
    BY Zenon
  <2> QED
    BY <1>1, <1>2, <1>5, <2>1, ReplyTells, Zenon
<1>6. CASE Promote \/ RegisterActive \/ ReceiveStart \/ Exit \/ Finish \/ AdvanceMoves
  <2>1. UNCHANGED <<answer, held>> /\ held = NoCommand
    <3>1. UNCHANGED <<answer, held>> /\ cpc # "cancelling"
      BY <1>6, AdvanceKeeps, Zenon DEF Promote, RegisterActive, ReceiveStart, Exit, Finish, Idle, callerVars
    <3> QED
      BY <3>1, Zenon DEF IInv, SlotsInTurn
  <2> QED
    BY <1>1, <1>3, <2>1, Zenon DEF Told, HeldInTurn, Asks
<1>7. CASE PollEnding
  <2>1. UNCHANGED <<answer, active>> /\ held' = Head(queue) /\ EndsActive(Head(queue))
    BY <1>7, Zenon DEF PollEnding, callerVars
  <2>2. HeldInTurn'
    BY <2>1, Zenon DEF HeldInTurn, EndsActive
  <2> QED
    BY <1>3, <2>1, <2>2, Zenon DEF Told
<1>8. CASE PollStartServices \/ DrainRun
  <2>1. UNCHANGED <<answer, held, active>>
    BY <1>8, Zenon DEF PollStartServices, DrainRun, callerVars, consumerVars
  <2> QED
    BY <1>1, <1>3, <2>1, Zenon DEF Told, HeldInTurn
<1>9. CASE ReceiveOther \/ PollStaleCancel
  <2>1. /\ Reply(Head(queue), "noop") /\ UNCHANGED <<held, active, pending>>
        /\ \E kind \in {"CancelExact", "CancelAny", "Reconcile"} : Pops(kind)
    BY <1>9, Zenon DEF ReceiveOther, PollStaleCancel, consumerVars
  <2>2. pending = NoGen /\ (active = NoGen \/ Head(queue).gen # active)
    <3>1. CASE ReceiveOther
      BY <3>1, Zenon DEF ReceiveOther, Idle
    <3>2. CASE PollStaleCancel
      <4>1. active # NoGen /\ Pops("CancelExact") /\ ~EndsActive(Head(queue))
        BY <3>2, Zenon DEF PollStaleCancel, Busy
      <4>2. Head(queue).gen # active
        BY <4>1, Zenon DEF EndsActive, Pops
      <4> QED
        BY <4>1, <4>2, Zenon DEF IInv, SlotsInTurn
    <3> QED
      BY <1>9, <3>1, <3>2, Zenon
  <2>3. TruthTold' /\ \A c \in Clients : answer[c] = "none" /\ answer'[c] # "none" => hand[c] = Head(queue)
    BY <1>4, <1>5, <2>1, Zenon
  <2>4. ASSUME NEW c \in Clients, answer[c] = "none", answer'[c] = "noop", hand[c].kind = "CancelExact"
        PROVE  hand[c].gen \notin {active', pending'}
    BY <1>1, <2>1, <2>2, <2>3, <2>4, Zenon
  <2>5. HeldInTurn'
    BY <1>1, <2>1, Zenon DEF HeldInTurn
  <2> QED
    BY <2>3, <2>4, <2>5, Zenon DEF Told
<1>10. CASE \E stopsAll \in BOOLEAN : PollReconcile(stopsAll)
  <2>1. Reply(Head(queue), "done") /\ UNCHANGED <<held, active, pending>> /\ Pops("Reconcile")
    BY <1>10, Zenon DEF PollReconcile, consumerVars
  <2>2. Head(queue).kind = "Reconcile" /\ TruthTold'
        /\ \A c \in Clients : answer[c] = "none" /\ answer'[c] # "none" => hand[c] = Head(queue)
    BY <1>4, <1>5, <2>1, Zenon
  <2> QED
    BY <1>1, <2>1, <2>2, Zenon DEF Told, HeldInTurn
<1>11. CASE DrainBreak
  <2>1. UNCHANGED <<held, active>>
    BY <1>11, Zenon DEF DrainBreak
  <2>2. HeldInTurn'
    BY <1>1, <2>1, Zenon DEF HeldInTurn
  <2>3. CASE UNCHANGED answer
    BY <1>3, <2>2, <2>3 DEF Told
  <2>4. ASSUME NEW kind \in {"CancelAny", "Reconcile", "StartServices"}, Pops(kind), Reply(Head(queue), "lost")
        PROVE  TruthTold' /\ \A c \in Clients : ~(answer[c] = "none" /\ answer'[c] = "noop" /\ hand[c].kind = "CancelExact")
    BY <1>4, <1>5, <2>4, Zenon
  <2> QED
    BY <1>11, <2>2, <2>3, <2>4, Zenon DEF DrainBreak, Told
<1>12. CASE CancelDone
  <2>1. held' = NoCommand /\ HeldInTurn'
    BY <1>1, <1>12, Zenon DEF CancelDone, HeldInTurn, Asks
  <2>2. CASE UNCHANGED answer
    BY <1>3, <2>1, <2>2, Zenon DEF Told
  <2>3. CASE Reply(held, "cancelled")
    <3>1. active \in Gens
      BY <1>1, <1>12, Zenon DEF CancelDone, TypeInv, ActiveInUse
    <3>2. active \in Revoked'
      <4>1. PICK rel \in Gens \cup {NoGen} : log' = Append(log, Cancelled(active, rel))
        BY <1>1, <1>12, CarriesGen DEF CancelDone, Emit, IsRun
      <4>2. Cancelled(active, rel) \in Events /\ Cancelled(active, rel).type = "Cancelled" /\ Cancelled(active, rel).gen = active
        BY <3>1, EventTypes, Zenon DEF Cancelled, Event
      <4>3. vanished' = vanished
        BY <1>12, Zenon DEF CancelDone
      <4> QED
        BY <1>1, <4>1, <4>2, <4>3, RevokedGrows, Zenon
    <3>3. PICK x : x = held
      BY Zenon
    <3>4. x.from # NoClient => x.kind = "CancelExact" /\ x.gen \in Revoked'
      BY <1>1, <3>2, <3>3 DEF Expects, Channels, Listening, Asks, HeldInTurn
    <3>5. TruthTold'
      BY <1>1, <1>2, <2>3, <3>3, <3>4, ReplyTells, Zenon
    <3>6. \A c \in Clients : answer[c] = "none" => answer'[c] # "noop"
      BY <1>1, <2>3, Zenon DEF Reply, TypeInv, TypeOK
    <3> QED
      BY <2>1, <3>5, <3>6, Zenon DEF Told
  <2> QED
    BY <1>12, <2>2, <2>3, Zenon DEF CancelDone
<1>13. CASE DrainCancelExact
  <2>1. Pops("CancelExact") /\ UNCHANGED <<held, active>> /\ active = NoGen
    BY <1>13, Zenon DEF DrainCancelExact, IInv, SlotsInTurn
  <2>2. HeldInTurn' /\ Expects(Head(queue)) /\ Head(queue).kind = "CancelExact"
    BY <1>1, <1>4, <2>1, Zenon DEF HeldInTurn
  <2>3. CASE Head(queue).gen # pending /\ Reply(Head(queue), "noop") /\ UNCHANGED pending
    BY <1>1, <1>5, <2>1, <2>2, <2>3, Zenon DEF Told
  <2>4. CASE Head(queue).gen = pending /\ Reply(Head(queue), "cancelled") /\ vanished' = vanished \cup {pending}
    <3>1. PICK x : x = Head(queue)
      BY Zenon
    <3>2. x.kind = "CancelExact" /\ x.gen \in Revoked'
      BY <2>2, <2>4, <3>1, Zenon DEF Revoked
    <3>3. TruthTold'
      BY <1>1, <1>2, <2>2, <2>4, <3>1, <3>2, ReplyTells, SMTT(30)
    <3>4. \A c \in Clients : answer[c] = "none" => answer'[c] # "noop"
      BY <1>1, <2>4, Zenon DEF Reply, TypeInv, TypeOK
    <3> QED
      BY <2>2, <3>3, <3>4, Zenon DEF Told
  <2> QED
    BY <1>13, <2>3, <2>4, Zenon DEF DrainCancelExact
<1> QED
  BY <1>6, <1>7, <1>8, <1>9, <1>10, <1>11, <1>12, <1>13, Zenon DEF ConsumerStep, ExecutorStep, AdvanceMoves

LEMMA ToldInit == Init => Told
BY DEF Init, Told, TruthTold, HeldInTurn, NoCommand, Command

(* Every step leaves the answers true, and gives Noop only where it is.    *)
LEMMA ToldStep ==
    ASSUME IInv, Channels, Told, [Next]_vars
    PROVE  /\ Told'
           /\ \A c \in Clients : answer[c] = "none" /\ answer'[c] = "noop" /\ hand[c].kind = "CancelExact"
                => hand[c].gen \notin {active', pending'}
<1>1. Revoked \subseteq Revoked'
  BY RevokedStays, Zenon
<1>2. ASSUME NEW c \in Clients, Call(c) \/ CallerStep(c) \/ GiveUp(c)
      PROVE  Told' /\ \A d \in Clients : ~(answer[d] = "none" /\ answer'[d] = "noop")
  BY <1>1, <1>2, CallerTells, Zenon
<1>3. CASE ConsumerStep \/ ExecutorStep
  BY <1>1, <1>3, ConsumerTells, Zenon
<1>4. CASE Close \/ Joined \/ UNCHANGED vars
  <2>1. UNCHANGED <<answer, hand, held, active>>
    BY <1>4, Zenon DEF Close, Joined, vars, schedulerVars, callerVars, consumerVars
  <2> QED
    BY <1>1, <2>1, Zenon DEF Told, TruthTold, HeldInTurn
<1> QED
  BY <1>2, <1>3, <1>4, Zenon DEF Next

(* Both answers to an exact cancel are true in every interleaving: when    *)
(* cancel_generation is told "cancelled" the generation is over and did    *)
(* not finish, and the consumer answers Noop only for a generation that is *)
(* neither running nor pending (the Cancel arms of Scheduler::send and of  *)
(* the consumer).                                                          *)
THEOREM CancelTellsTheTruthHolds == Spec => CancelTellsTheTruth
<1> DEFINE Noops == \A c \in Clients : answer[c] = "none" /\ answer'[c] = "noop" /\ hand[c].kind = "CancelExact"
                        => hand[c].gen \notin {active', pending'}
<1>1. Init => IInv /\ Channels /\ Told
  BY InitIInv, ChannelsInit, ToldInit, Zenon
<1>2. IInv /\ Channels /\ Told /\ [Next]_vars => IInv' /\ Channels' /\ Told'
  <2>1. IInv /\ [Next]_vars => TypeInv /\ TypeInv'
    BY TypeStep, Zenon DEF IInv
  <2> QED
    BY <2>1, NextIInv, ChannelsStep, ToldStep, Zenon
<1>3. IInv /\ Channels /\ Told /\ [Next]_vars => Noops
  BY ToldStep, Zenon
<1>4. (IInv /\ Told)' => CancelledIsOver'
  BY RevokedIsOver, PTL
<1>5. IInv /\ Channels /\ Told /\ [Next]_vars => [CancelledIsOver' /\ Noops]_vars
  BY <1>2, <1>3, <1>4, Zenon
<1> QED
  BY <1>1, <1>2, <1>5, PTL DEF Spec, CancelTellsTheTruth
=============================================================================
