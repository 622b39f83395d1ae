---------------------------- MODULE WorkerProofs ----------------------------
(***************************************************************************)
(* Proofs about the run scheduler, for every number of callers, of         *)
(* generations and of queued commands.                                     *)
(***************************************************************************)
EXTENDS Worker, TLAPS

(* The steps between the executor's calls keep the active slot filled.     *)
ActiveInUse == cpc \in {"register", "finish", "cancelling"} => active \in Gens

TypeInv == TypeOK /\ ActiveInUse

-----------------------------------------------------------------------------
(* Facts about sequences and commands.                                     *)

(* What Without leaves of a sequence.                                      *)
LEMMA WithoutElements ==
    ASSUME NEW S, NEW s \in Seq(S), NEW p \in 1 .. Len(s)
    PROVE  /\ Without(s, p) \in Seq(S)
           /\ Len(Without(s, p)) = Len(s) - 1
           /\ \A i \in 1 .. (Len(s) - 1) :
                Without(s, p)[i] = IF i < p THEN s[i] ELSE s[i + 1]
BY DEF Without

(* A generation id and NoGen are never the same.                           *)
LEMMA GensFacts == Gens \subseteq Nat \ {0} /\ NoGen \notin Gens
BY BoundsAssumption DEF Gens, NoGen

(* The commands callers build are commands.                                *)
LEMMA CommandTypes ==
    ASSUME NEW from \in Clients \cup {NoClient}
    PROVE  /\ NoCommand \in Commands
           /\ \A gen \in Gens : /\ Command("Run", gen, from) \in Commands
                                /\ Command("StartServices", gen, from) \in Commands
                                /\ Command("CancelExact", gen, from) \in Commands
           /\ Command("CancelAny", NoGen, from) \in Commands
           /\ Command("Reconcile", NoGen, from) \in Commands
BY Zenon DEF Commands, Command, NoCommand

(* Losing its receiver leaves a command one of the same kind and id.       *)
LEMMA DeafType ==
    ASSUME NEW command \in Commands, NEW c
    PROVE  /\ Deaf(command, c) \in Commands
           /\ Deaf(command, c).kind = command.kind
           /\ Deaf(command, c).gen = command.gen
BY Zenon DEF Deaf, Commands

(* A command that carries a generation carries an issued id's type.        *)
LEMMA CarriesGen ==
    ASSUME NEW command \in Commands,
           command.kind \in {"Run", "StartServices", "CancelExact"}
    PROVE  command.gen \in Gens
BY Zenon DEF Commands

(* The events the consumer emits are events.                               *)
LEMMA EventTypes ==
    ASSUME NEW gen \in Gens, NEW rel \in Gens \cup {NoGen}
    PROVE  /\ Started(gen, rel) \in Events
           /\ Finished(gen) \in Events
           /\ Cancelled(gen, rel) \in Events
BY Zenon DEF Started, Finished, Cancelled, Event, Events

(* A queue without the receiver of one caller is a queue of the same kinds.*)
LEMMA DeafQueue ==
    ASSUME NEW q \in Seq(Commands), NEW c
    PROVE  LET deaf == [i \in 1 .. Len(q) |-> Deaf(q[i], c)] IN
           /\ deaf \in Seq(Commands) /\ Len(deaf) = Len(q)
           /\ \A i \in 1 .. Len(q) : deaf[i].kind = q[i].kind /\ deaf[i].gen = q[i].gen
<1> DEFINE deaf == [i \in 1 .. Len(q) |-> Deaf(q[i], c)]
<1>1. \A i \in 1 .. Len(q) : /\ Deaf(q[i], c) \in Commands
                             /\ Deaf(q[i], c).kind = q[i].kind
                             /\ Deaf(q[i], c).gen = q[i].gen
    BY DeafType
<1>2. deaf \in Seq(Commands) /\ Len(deaf) = Len(q)
    BY <1>1
<1>3. QED
    BY <1>1, <1>2, Zenon

-----------------------------------------------------------------------------
(* Type correctness.                                                       *)

(* The first state is typed.                                               *)
LEMMA TypeInit == Init => TypeInv
<1> SUFFICES ASSUME Init PROVE TypeInv
    BY Zenon
<1>1. NoCommand \in Commands
    BY CommandTypes, Zenon
<1>2. << >> \in Seq(Commands) /\ << >> \in Seq(Events)
    OBVIOUS
<1>3. nextId \in 0 .. MaxRuns
    BY BoundsAssumption DEF Init
<1>4. hand \in [Clients -> Commands] /\ held \in Commands
    BY <1>1, Zenon DEF Init
<1>5. queue \in Seq(Commands) /\ log \in Seq(Events)
    BY <1>2, Zenon DEF Init
<1>6. QED
    BY <1>3, <1>4, <1>5, Zenon DEF Init, TypeInv, TypeOK, ActiveInUse

(* A call of Worker leaves the types right.                                *)
LEMMA TypeCall ==
    ASSUME TypeInv, NEW c \in Clients, Call(c)
    PROVE  TypeInv'
<1> USE GensFacts DEF TypeInv, ActiveInUse
<1>1. \A gen \in Gens : /\ Command("Run", gen, NoClient) \in Commands
                        /\ Command("StartServices", gen, NoClient) \in Commands
                        /\ Command("CancelExact", gen, c) \in Commands
    BY CommandTypes, Zenon
<1>2. /\ Command("CancelAny", NoGen, NoClient) \in Commands
      /\ Command("Reconcile", NoGen, c) \in Commands
    BY CommandTypes, Zenon
<1>3. nextId < MaxRuns => nextId + 1 \in Gens /\ nextId + 1 \in 0 .. MaxRuns
    BY BoundsAssumption DEF TypeOK, Gens
<1>4. ASSUME NEW withServices \in BOOLEAN, PrepareRun(c, withServices) PROVE TypeInv'
    BY <1>1, <1>3, <1>4, Zenon DEF PrepareRun, Take, TypeOK, schedulerVars, consumerVars
<1>5. CASE CancelRunningTasks(c)
    BY <1>2, <1>5, Zenon DEF CancelRunningTasks, Take, CancelActive, TypeOK, consumerVars
<1>6. ASSUME NEW gen \in Gens, CancelGeneration(c, gen) PROVE TypeInv'
    BY <1>1, <1>6, Zenon DEF CancelGeneration, Take, CancelActive, TypeOK, consumerVars
<1>7. CASE ReconcileServices(c)
    BY <1>2, <1>7, Zenon DEF ReconcileServices, Take, TypeOK, schedulerVars, consumerVars
<1>8. CASE StartServices(c)
    BY <1>1, <1>3, <1>8, Zenon DEF StartServices, Take, TypeOK, schedulerVars, consumerVars
<1>9. CASE DropWorker(c)
    BY <1>2, <1>9, Zenon DEF DropWorker, Take, CancelActive, TypeOK, consumerVars
<1>10. QED
    BY <1>4, <1>5, <1>6, <1>7, <1>8, <1>9, Zenon DEF Call

(* What a send into the queue needs of the rest of the state.              *)
LEMMA TypeEnqueue ==
    ASSUME TypeInv, NEW c \in Clients,
           queue' \in Seq(Commands), log' \in Seq(Events),
           pc' \in [Clients -> {"idle", "prepared", "send", "purge", "waiting"}],
           hand' \in [Clients -> Commands],
           answer' \in [Clients -> {"none", "cancelled", "noop", "done", "lost"}],
           UNCHANGED <<nextId, closed, registered, tripped, dropping,
                       consumerVars, serving, vanished>>
    PROVE  TypeInv'
BY Zenon DEF TypeInv, TypeOK, ActiveInUse, consumerVars

(* Scheduler::send leaves the types right.                                 *)
LEMMA TypeCallerStep ==
    ASSUME TypeInv, NEW c \in Clients, CallerStep(c)
    PROVE  TypeInv'
<1> USE DEF TypeInv
<1>1. /\ queue \in Seq(Commands) /\ log \in Seq(Events)
      /\ Len(queue) \in Nat
      /\ \A i \in 1 .. Len(queue) : queue[i] \in Commands
      /\ hand[c] \in Commands /\ NoCommand \in Commands
    BY CommandTypes DEF TypeOK
<1>2. CASE SignalRun(c)
    BY <1>2, Zenon DEF SignalRun, CancelActive, TypeOK, ActiveInUse, consumerVars
<1>3. Return(c) => /\ pc' \in [Clients -> {"idle", "prepared", "send", "purge", "waiting"}]
                   /\ hand' \in [Clients -> Commands]
    BY <1>1, Zenon DEF Return, Take, TypeOK
<1>4. CASE EnqueueRun(c)
    <2>1. hand[c].kind = "Run" /\ hand[c].gen \in Gens
        BY <1>1, <1>4, CarriesGen, Zenon DEF EnqueueRun, Sends
    <2>2. PICK k \in 0 .. Len(queue) :
            LET kept == SubSeq(queue, 1, k) IN
            \/ \E p \in 1 .. k : /\ LastRunAt(kept, p)
                                 /\ queue' = [kept EXCEPT ![p] = hand[c]]
                                 /\ Emit(Cancelled(kept[p].gen, hand[c].gen))
            \/ queue' = Append(kept, hand[c]) /\ UNCHANGED log
        BY <1>4, Zenon DEF EnqueueRun
    <2> DEFINE kept == SubSeq(queue, 1, k)
    <2>3. kept \in Seq(Commands) /\ Len(kept) = k
        BY <1>1
    <2> HIDE DEF kept
    <2>4. queue' \in Seq(Commands) /\ log' \in Seq(Events)
        <3>1. CASE queue' = Append(kept, hand[c]) /\ UNCHANGED log
            BY <1>1, <2>3, <3>1
        <3>2. ASSUME NEW p \in 1 .. k, LastRunAt(kept, p),
                     queue' = [kept EXCEPT ![p] = hand[c]],
                     Emit(Cancelled(kept[p].gen, hand[c].gen))
              PROVE  queue' \in Seq(Commands) /\ log' \in Seq(Events)
            <4>1. kept[p] \in Commands /\ kept[p].kind = "Run"
                BY <2>3, <3>2 DEF LastRunAt, IsRun
            <4>2. Cancelled(kept[p].gen, hand[c].gen) \in Events
                BY <2>1, <4>1, CarriesGen, EventTypes, Zenon
            <4>3. queue' \in Seq(Commands)
                BY <1>1, <2>3, <3>2
            <4>4. QED
                BY <1>1, <3>2, <4>2, <4>3 DEF Emit
        <3>3. QED
            BY <2>2, <3>1, <3>2, Zenon DEF kept
    <2>5. QED
        BY <1>3, <1>4, <2>4, TypeEnqueue, Zenon DEF EnqueueRun, TypeOK
<1>5. CASE EnqueueCancelExact(c)
    <2>1. hand[c].kind = "CancelExact" /\ hand[c].gen \in Gens
        BY <1>1, <1>5, CarriesGen, Zenon DEF EnqueueCancelExact, Sends
    <2>2. Cancelled(hand[c].gen, NoGen) \in Events
        BY <2>1, EventTypes, Zenon
    <2>3. queue' \in Seq(Commands) /\ log' \in Seq(Events)
        <3>1. ASSUME NEW p \in 1 .. Len(queue), queue' = Without(queue, p),
                     Emit(Cancelled(hand[c].gen, NoGen))
              PROVE  queue' \in Seq(Commands) /\ log' \in Seq(Events)
            BY <1>1, <2>2, <3>1, WithoutElements DEF Emit
        <3>2. CASE queue' = Append(queue, hand[c]) /\ UNCHANGED log
            BY <1>1, <3>2
        <3>3. QED
            BY <1>5, <3>1, <3>2, Zenon DEF EnqueueCancelExact
    <2>4. answer' \in [Clients -> {"none", "cancelled", "noop", "done", "lost"}]
        BY <1>5, Zenon DEF EnqueueCancelExact, TypeOK
    <2>5. QED
        BY <1>3, <1>5, <2>3, <2>4, TypeEnqueue, Zenon DEF EnqueueCancelExact
<1>6. CASE PurgeQueuedRun(c)
    <2>1. PICK p \in 1 .. Len(queue) : /\ FirstRunAt(queue, p)
                                       /\ queue' = Without(queue, p)
                                       /\ Emit(Cancelled(queue[p].gen, NoGen))
        BY <1>6, Zenon DEF PurgeQueuedRun
    <2>2. Cancelled(queue[p].gen, NoGen) \in Events
        BY <1>1, <2>1, CarriesGen, EventTypes, Zenon DEF FirstRunAt, IsRun
    <2>3. queue' \in Seq(Commands) /\ log' \in Seq(Events)
        BY <1>1, <2>1, <2>2, WithoutElements DEF Emit
    <2>4. pc' \in [Clients -> {"idle", "prepared", "send", "purge", "waiting"}]
        BY <1>6, Zenon DEF PurgeQueuedRun, TypeOK
    <2>5. QED
        BY <1>6, <2>3, <2>4, TypeEnqueue, Zenon DEF PurgeQueuedRun, TypeOK
<1>7. CASE EnqueueCancelAny(c)
    BY <1>1, <1>3, <1>7, TypeEnqueue DEF EnqueueCancelAny, TypeOK
<1>8. CASE EnqueueDirect(c)
    BY <1>1, <1>3, <1>8, TypeEnqueue, SMTT(30) DEF EnqueueDirect, TypeOK
<1>9. CASE Receive(c)
    BY <1>1, <1>9, Zenon DEF Receive, Take, TypeOK, ActiveInUse, schedulerVars, consumerVars
<1>10. QED
    BY <1>2, <1>4, <1>5, <1>6, <1>7, <1>8, <1>9, Zenon DEF CallerStep

(* Pops gives the consumer a command and leaves a queue of commands.       *)
LEMMA PopTypes ==
    ASSUME TypeInv, NEW kind, Pops(kind)
    PROVE  /\ Head(queue) \in Commands /\ Head(queue).kind = kind
           /\ Head(queue).from \in Clients \cup {NoClient}
           /\ queue' \in Seq(Commands) /\ queue' = Tail(queue)
BY DEF TypeInv, TypeOK, Pops, Commands

(* A reply leaves the reply channels of their type.                        *)
LEMMA ReplyTypes ==
    ASSUME TypeInv, NEW command \in Commands,
           NEW value \in {"none", "cancelled", "noop", "done", "lost"},
           Reply(command, value)
    PROVE  answer' \in [Clients -> {"none", "cancelled", "noop", "done", "lost"}]
<1>1. command.from \in Clients \cup {NoClient}
    BY Zenon DEF Commands
<1>2. QED
    BY <1>1, Zenon DEF TypeInv, TypeOK, Reply

(* executor.start with a generation of its type.                           *)
LEMMA StartTypes ==
    ASSUME TypeInv, NEW gen \in Gens, NEW pred \in Gens \cup {NoGen},
           StartRun(gen, pred)
    PROVE  active' \in Gens /\ cpc' = "register" /\ log' \in Seq(Events)
BY EventTypes DEF TypeInv, TypeOK, StartRun, Emit

(* The steps into, inside and out of executor.advance, which leave alone   *)
(* everything but the consumer's place and the registration of a token.    *)
AdvanceMoves ==
    \/ \E kind \in {"recovering", "joining"} : AdvanceWaits(kind)
    \/ AdvanceReturns \/ RecoveryYields \/ AdvanceFinished

LEMMA AdvanceKeeps ==
    ASSUME AdvanceMoves
    PROVE  /\ UNCHANGED <<nextId, queue, closed, tripped, pc, hand, answer, dropping, held, active,
                         pending, predecessor, serving, log, vanished>>
           /\ registered' \subseteq registered
           /\ cpc \in {"loop", "recovering", "joining"}
           /\ cpc' \in {"loop", "recovering", "joining", "finish"}
           /\ cpc' = "finish" => active # NoGen
BY Zenon DEF AdvanceMoves, AdvanceWaits, AdvanceReturns, RecoveryYields, AdvanceFinished, Busy, schedulerVars, callerVars

(* The consumer's steps leave the types right.                             *)
LEMMA TypeConsumer ==
    ASSUME TypeInv, ConsumerStep \/ ExecutorStep
    PROVE  TypeInv'
<1> USE GensFacts
<1>1. TypeOK /\ ActiveInUse
    BY Zenon DEF TypeInv
<1>2. CASE Promote
    <2>1. pending \in Gens /\ predecessor \in Gens \cup {NoGen}
        BY <1>1, <1>2, Zenon DEF Promote, TypeOK
    <2>2. active' \in Gens /\ cpc' = "register" /\ log' \in Seq(Events)
        BY <1>2, <2>1, StartTypes, Zenon DEF Promote
    <2>3. QED
        BY <1>1, <1>2, <2>2, Zenon DEF Promote, TypeInv, TypeOK, ActiveInUse, schedulerVars, callerVars
<1>3. CASE RegisterActive
    BY <1>1, <1>3, Zenon DEF RegisterActive, TypeInv, TypeOK, ActiveInUse, callerVars
<1>4. CASE ReceiveStart
    <2>1. Head(queue).gen \in Gens /\ queue' \in Seq(Commands)
        BY <1>4, PopTypes, CarriesGen, Zenon DEF ReceiveStart
    <2>2. active' \in Gens /\ cpc' = "register" /\ log' \in Seq(Events)
        BY <1>4, <2>1, StartTypes, Zenon DEF ReceiveStart
    <2>3. QED
        BY <1>1, <1>4, <2>1, <2>2, Zenon DEF ReceiveStart, TypeInv, TypeOK, ActiveInUse, callerVars
<1>5. CASE ReceiveOther
    <2>1. queue' \in Seq(Commands) /\ Head(queue) \in Commands
        BY <1>5, PopTypes, Zenon DEF ReceiveOther
    <2>2. answer' \in [Clients -> {"none", "cancelled", "noop", "done", "lost"}]
        BY <1>5, <2>1, ReplyTypes, Zenon DEF ReceiveOther
    <2>3. QED
        BY <1>1, <1>5, <2>1, <2>2, Zenon
        DEF ReceiveOther, TypeInv, TypeOK, ActiveInUse, consumerVars
<1>6. CASE Exit
    BY <1>1, <1>6, Zenon DEF Exit, TypeInv, TypeOK, ActiveInUse, schedulerVars, callerVars
<1>7. CASE Finish
    <2>1. active \in Gens
        BY <1>1, <1>7, Zenon DEF Finish, ActiveInUse
    <2>2. log' \in Seq(Events)
        BY <1>1, <1>7, <2>1, EventTypes DEF Finish, Emit, TypeOK
    <2>3. QED
        BY <1>1, <1>7, <2>2, Zenon DEF Finish, TypeInv, TypeOK, ActiveInUse, schedulerVars, callerVars
<1>8. CASE PollEnding
    <2>1. queue' \in Seq(Commands) /\ Head(queue) \in Commands
        BY <1>8, PopTypes, Zenon DEF PollEnding
    <2>2. active \in Gens
        BY <1>1, <1>8, Zenon DEF PollEnding, Busy, TypeOK
    <2>3. QED
        BY <1>1, <1>8, <2>1, <2>2, Zenon DEF PollEnding, TypeInv, TypeOK, ActiveInUse, callerVars
<1>9. CASE CancelDone
    <2>1. active \in Gens /\ held \in Commands
        BY <1>1, <1>9, Zenon DEF CancelDone, ActiveInUse, TypeOK
    <2>2. IsRun(held) => held.gen \in Gens
        BY <2>1, CarriesGen, Zenon DEF IsRun
    <2>3. log' \in Seq(Events)
        <3>1. PICK rel \in Gens \cup {NoGen} : rel = IF IsRun(held) THEN held.gen ELSE NoGen
            BY <2>2, Zenon
        <3>2. Cancelled(active, rel) \in Events
            BY <2>1, EventTypes, Zenon
        <3>3. log \in Seq(Events) /\ log' = Append(log, Cancelled(active, rel))
            BY <1>1, <1>9, <3>1, Zenon DEF CancelDone, Emit, TypeOK
        <3> QED
            BY <3>2, <3>3
    <2>4. answer' \in [Clients -> {"none", "cancelled", "noop", "done", "lost"}]
        BY <1>1, <1>9, <2>1, ReplyTypes, Zenon DEF CancelDone, TypeOK
    <2>5. NoCommand \in Commands
        BY CommandTypes, Zenon
    <2>6. QED
        BY <1>1, <1>9, <2>1, <2>2, <2>3, <2>4, <2>5, Zenon
        DEF CancelDone, TypeInv, TypeOK, ActiveInUse, schedulerVars
<1>10. CASE PollStaleCancel
    <2>1. queue' \in Seq(Commands) /\ Head(queue) \in Commands
        BY <1>10, PopTypes, Zenon DEF PollStaleCancel
    <2>2. answer' \in [Clients -> {"none", "cancelled", "noop", "done", "lost"}]
        BY <1>10, <2>1, ReplyTypes, Zenon DEF PollStaleCancel
    <2>3. QED
        BY <1>1, <1>10, <2>1, <2>2, Zenon
        DEF PollStaleCancel, TypeInv, TypeOK, ActiveInUse, consumerVars
<1>11. ASSUME NEW stopsAll \in BOOLEAN, PollReconcile(stopsAll) PROVE TypeInv'
    <2>1. queue' \in Seq(Commands) /\ Head(queue) \in Commands
        BY <1>11, PopTypes, Zenon DEF PollReconcile
    <2>2. answer' \in [Clients -> {"none", "cancelled", "noop", "done", "lost"}]
        BY <1>11, <2>1, ReplyTypes, Zenon DEF PollReconcile
    <2>3. QED
        BY <1>1, <1>11, <2>1, <2>2, Zenon
        DEF PollReconcile, TypeInv, TypeOK, ActiveInUse, consumerVars
<1>12. CASE PollStartServices
    <2>1. Head(queue).gen \in Gens /\ queue' \in Seq(Commands)
        BY <1>12, PopTypes, CarriesGen, Zenon DEF PollStartServices
    <2>2. active \in Gens
        BY <1>1, <1>12, Zenon DEF PollStartServices, Busy, TypeOK
    <2>3. QED
        BY <1>1, <1>12, <2>1, <2>2, Zenon
        DEF PollStartServices, TypeInv, TypeOK, ActiveInUse, callerVars, consumerVars
<1>13. CASE DrainRun
    <2>1. Head(queue).gen \in Gens /\ queue' \in Seq(Commands)
        BY <1>13, PopTypes, CarriesGen, Zenon DEF DrainRun
    <2>2. QED
        BY <1>1, <1>13, <2>1, Zenon DEF DrainRun, TypeInv, TypeOK, ActiveInUse, callerVars
<1>14. CASE DrainCancelExact
    <2>1. /\ queue' \in Seq(Commands) /\ Head(queue) \in Commands
          /\ Head(queue).gen \in Gens
        BY <1>14, PopTypes, CarriesGen, Zenon DEF DrainCancelExact
    <2>2. answer' \in [Clients -> {"none", "cancelled", "noop", "done", "lost"}]
        BY <1>14, <2>1, ReplyTypes, Zenon DEF DrainCancelExact
    <2>3. QED
        BY <1>1, <1>14, <2>1, <2>2, Zenon DEF DrainCancelExact, TypeInv, TypeOK, ActiveInUse
<1>15. CASE DrainBreak
    <2>1. /\ queue' \in Seq(Commands) /\ vanished' \subseteq Gens
          /\ answer' \in [Clients -> {"none", "cancelled", "noop", "done", "lost"}]
        <3>1. CASE UNCHANGED <<queue, answer, vanished>>
            BY <1>1, <3>1, Zenon DEF TypeOK
        <3>2. CASE /\ Pops("CancelAny") \/ Pops("Reconcile") \/ Pops("StartServices")
                   /\ Reply(Head(queue), "lost")
                   /\ vanished' = IF Head(queue).kind = "StartServices"
                                  THEN vanished \cup {Head(queue).gen} ELSE vanished
            <4>1. queue' \in Seq(Commands) /\ Head(queue) \in Commands
                BY <3>2, PopTypes, Zenon
            <4>2. answer' \in [Clients -> {"none", "cancelled", "noop", "done", "lost"}]
                BY <3>2, <4>1, ReplyTypes, Zenon
            <4>3. vanished' \subseteq Gens
                BY <1>1, <3>2, <4>1, CarriesGen, Zenon DEF TypeOK
            <4>4. QED
                BY <4>1, <4>2, <4>3, Zenon
        <3>3. QED
            BY <1>15, <3>1, <3>2, Zenon DEF DrainBreak
    <2>2. QED
        BY <1>1, <1>15, <2>1, Zenon DEF DrainBreak, TypeInv, TypeOK, ActiveInUse
<1>16. CASE AdvanceMoves
    BY <1>1, <1>16, AdvanceKeeps, Zenon DEF TypeInv, TypeOK, ActiveInUse
<1>17. QED
    BY <1>2, <1>3, <1>4, <1>5, <1>6, <1>7, <1>8, <1>9, <1>10, <1>11, <1>12, <1>13,
       <1>14, <1>15, <1>16, Zenon DEF ConsumerStep, ExecutorStep, AdvanceMoves

(* Every step leaves the types right.                                      *)
LEMMA TypeStep == TypeInv /\ [Next]_vars => TypeInv'
<1> SUFFICES ASSUME TypeInv, [Next]_vars PROVE TypeInv'
    BY Zenon
<1>1. ASSUME NEW c \in Clients, GiveUp(c) PROVE TypeInv'
    <2>1. queue' \in Seq(Commands) /\ held' \in Commands /\ NoCommand \in Commands
        BY <1>1, DeafQueue, DeafType, CommandTypes, Zenon DEF GiveUp, TypeInv, TypeOK
    <2>2. QED
        BY <1>1, <2>1, Zenon DEF GiveUp, Take, TypeInv, TypeOK, ActiveInUse
<1>2. CASE Close
    BY <1>2, Zenon DEF Close, TypeInv, TypeOK, ActiveInUse, callerVars, consumerVars
<1>3. CASE UNCHANGED vars
    BY <1>3, Zenon DEF vars, TypeInv, TypeOK, ActiveInUse, schedulerVars, callerVars, consumerVars
<1>4. QED
    BY <1>1, <1>2, <1>3, TypeCall, TypeCallerStep, TypeConsumer, Zenon DEF Next, Joined

(* The state of the scheduler and of the consumer keeps its type, and the  *)
(* events the worker hands to the sink always name a generation it issued: *)
(* no step between two executor calls finds the active slot empty.         *)
THEOREM TypeCorrect == Spec => []TypeOK
<1>1. Init => TypeInv
    BY TypeInit, Zenon
<1>2. TypeInv /\ [Next]_vars => TypeInv'
    BY TypeStep, Zenon
<1>3. TypeInv => TypeOK
    BY Zenon DEF TypeInv
<1>4. QED
    BY <1>1, <1>2, <1>3, PTL DEF Spec

-----------------------------------------------------------------------------
(* The queue holds at most one Run.                                        *)

AtMostOneRun(q) ==
    \A i, j \in 1 .. Len(q) : IsRun(q[i]) /\ IsRun(q[j]) => i = j

(* Appending keeps a queue with at most one Run, when it adds no Run or    *)
(* the queue holds none.                                                   *)
LEMMA AppendOneRun ==
    ASSUME NEW q \in Seq(Commands), NEW command \in Commands,
           AtMostOneRun(q), IsRun(command) => HoldsNoRun(q)
    PROVE  AtMostOneRun(Append(q, command))
BY DEF AtMostOneRun, HoldsNoRun

(* Removing a command keeps it.                                            *)
LEMMA RemoveOneRun ==
    ASSUME NEW q \in Seq(Commands), NEW p \in 1 .. Len(q), AtMostOneRun(q)
    PROVE  AtMostOneRun(Without(q, p))
<1> DEFINE r == Without(q, p)
<1>1. /\ Len(q) \in Nat /\ Len(r) = Len(q) - 1
      /\ \A i \in 1 .. (Len(q) - 1) : r[i] = IF i < p THEN q[i] ELSE q[i + 1]
    BY WithoutElements
<1> HIDE DEF r
<1>2. ASSUME NEW i \in 1 .. Len(r), NEW j \in 1 .. Len(r), IsRun(r[i]), IsRun(r[j])
      PROVE  i = j
    <2> DEFINE from(n) == IF n < p THEN n ELSE n + 1
    <2>1. from(i) \in 1 .. Len(q) /\ from(j) \in 1 .. Len(q)
        BY <1>1
    <2>2. IsRun(q[from(i)]) /\ IsRun(q[from(j)])
        BY <1>1, <1>2, Zenon
    <2>3. from(i) = from(j)
        BY <2>1, <2>2, Zenon DEF AtMostOneRun
    <2>4. QED
        BY <1>1, <2>3
<1>3. QED
    BY <1>2, Zenon DEF AtMostOneRun, r

(* Popping the head keeps it.                                              *)
LEMMA TailOneRun ==
    ASSUME NEW q \in Seq(Commands), q # << >>, AtMostOneRun(q)
    PROVE  AtMostOneRun(Tail(q))
<1>1. /\ Len(q) \in Nat /\ Len(Tail(q)) = Len(q) - 1
      /\ \A i \in 1 .. Len(Tail(q)) : Tail(q)[i] = q[i + 1]
    OBVIOUS
<1>2. ASSUME NEW i \in 1 .. Len(Tail(q)), NEW j \in 1 .. Len(Tail(q)),
             IsRun(Tail(q)[i]), IsRun(Tail(q)[j])
      PROVE  i = j
    <2>1. i + 1 \in 1 .. Len(q) /\ j + 1 \in 1 .. Len(q)
        BY <1>1
    <2>2. IsRun(q[i + 1]) /\ IsRun(q[j + 1])
        BY <1>1, <1>2, Zenon
    <2>3. i + 1 = j + 1
        BY <2>1, <2>2, Zenon DEF AtMostOneRun
    <2>4. QED
        BY <2>3
<1>3. QED
    BY <1>2, Zenon DEF AtMostOneRun

(* A Run sent into the queue replaces the one already there.               *)
LEMMA EnqueueOneRun ==
    ASSUME TypeInv, OneQueuedRun, NEW c \in Clients, EnqueueRun(c)
    PROVE  OneQueuedRun'
<1>1. /\ queue \in Seq(Commands) /\ Len(queue) \in Nat /\ hand[c] \in Commands
      /\ \A i \in 1 .. Len(queue) : queue[i] \in Commands
    BY DEF TypeInv, TypeOK
<1>2. hand[c].kind = "Run"
    BY Zenon DEF EnqueueRun, Sends
<1>3. PICK k \in 0 .. Len(queue) :
        LET kept == SubSeq(queue, 1, k) IN
        \/ \E p \in 1 .. k : /\ LastRunAt(kept, p)
                             /\ queue' = [kept EXCEPT ![p] = hand[c]]
        \/ HoldsNoRun(kept) /\ queue' = Append(kept, hand[c])
    BY Zenon DEF EnqueueRun
<1> DEFINE kept == SubSeq(queue, 1, k)
<1>4. /\ kept \in Seq(Commands) /\ Len(kept) = k
      /\ \A i \in 1 .. k : kept[i] = queue[i]
    BY <1>1
<1> HIDE DEF kept
<1>5. AtMostOneRun(kept)
    BY <1>1, <1>4 DEF AtMostOneRun, OneQueuedRun
<1>6. CASE HoldsNoRun(kept) /\ queue' = Append(kept, hand[c])
    BY <1>1, <1>4, <1>5, <1>6, AppendOneRun, ZenonT(40) DEF AtMostOneRun, OneQueuedRun
<1>7. ASSUME NEW p \in 1 .. k, LastRunAt(kept, p), queue' = [kept EXCEPT ![p] = hand[c]]
      PROVE  OneQueuedRun'
    <2>1. /\ Len(queue') = k
          /\ \A i \in 1 .. k : queue'[i] = IF i = p THEN hand[c] ELSE kept[i]
        BY <1>1, <1>4, <1>7
    <2>2. \A i \in 1 .. k : IsRun(queue'[i]) => IsRun(kept[i])
        BY <1>4, <1>7, <2>1, Zenon DEF LastRunAt
    <2>3. QED
        BY <1>4, <1>5, <2>1, <2>2, Zenon DEF AtMostOneRun, OneQueuedRun
<1>8. QED
    BY <1>3, <1>6, <1>7, Zenon DEF kept

(* Whatever callers and the consumer interleave, the queue never holds two *)
(* Runs: "at most one queued Run" (SchedulerState, workers.rs).            *)
THEOREM OneQueuedRunHolds == Spec => []OneQueuedRun
<1>1. Init => OneQueuedRun
    BY DEF Init, OneQueuedRun
<1>2. ASSUME TypeInv, OneQueuedRun, [Next]_vars PROVE OneQueuedRun'
    <2> USE <1>2
    <2>1. queue \in Seq(Commands) /\ Len(queue) \in Nat /\ AtMostOneRun(queue)
        BY DEF TypeInv, TypeOK, OneQueuedRun, AtMostOneRun
    <2>2. CASE queue' = queue
        BY <2>1, <2>2, Zenon DEF OneQueuedRun, AtMostOneRun
    <2>3. CASE queue # << >> /\ queue' = Tail(queue)
        BY <2>1, <2>3, TailOneRun, Zenon DEF OneQueuedRun, AtMostOneRun
    <2>4. ASSUME NEW c \in Clients, CallerStep(c) PROVE OneQueuedRun'
        <3>1. hand[c] \in Commands
            BY Zenon DEF TypeInv, TypeOK
        <3>2. CASE EnqueueCancelExact(c)
            <4>1. ASSUME NEW p \in 1 .. Len(queue), queue' = Without(queue, p)
                  PROVE  OneQueuedRun'
                BY <2>1, <4>1, RemoveOneRun, Zenon DEF OneQueuedRun, AtMostOneRun
            <4>2. CASE queue' = Append(queue, hand[c])
                <5>1. ~IsRun(hand[c])
                    BY <3>2, Zenon DEF EnqueueCancelExact, Sends, IsRun
                <5>2. QED
                    BY <2>1, <3>1, <4>2, <5>1, AppendOneRun DEF OneQueuedRun, AtMostOneRun
            <4>3. QED
                BY <3>2, <4>1, <4>2, Zenon DEF EnqueueCancelExact
        <3>3. CASE PurgeQueuedRun(c)
            <4>1. PICK p \in 1 .. Len(queue) : queue' = Without(queue, p)
                BY <3>3, Zenon DEF PurgeQueuedRun
            <4>2. QED
                BY <2>1, <4>1, RemoveOneRun, Zenon DEF OneQueuedRun, AtMostOneRun
        <3>4. CASE EnqueueCancelAny(c)
            BY <2>1, <3>1, <3>4, AppendOneRun, Zenon DEF EnqueueCancelAny, OneQueuedRun, AtMostOneRun
        <3>5. CASE EnqueueDirect(c)
            <4>1. ~IsRun(hand[c])
                BY <3>5, Zenon DEF EnqueueDirect, Sends, IsRun
            <4>2. QED
                BY <2>1, <3>1, <3>5, <4>1, AppendOneRun
                DEF EnqueueDirect, OneQueuedRun, AtMostOneRun
        <3>6. CASE SignalRun(c) \/ Receive(c)
            BY <2>2, <3>6, Zenon DEF SignalRun, Receive, schedulerVars
        <3>7. QED
            BY <2>4, <3>2, <3>3, <3>4, <3>5, <3>6, EnqueueOneRun, Zenon DEF CallerStep
    <2>5. ASSUME NEW c \in Clients, GiveUp(c) PROVE OneQueuedRun'
        <3>1. /\ Len(queue') = Len(queue)
              /\ \A i \in 1 .. Len(queue) : queue'[i].kind = queue[i].kind
            BY <2>1, <2>5, DeafQueue, Zenon DEF GiveUp
        <3>2. QED
            BY <3>1, Zenon DEF OneQueuedRun, IsRun
    <2>6. ASSUME NEW c \in Clients, Call(c) PROVE OneQueuedRun'
        BY <2>2, <2>6, Zenon DEF Call, PrepareRun, CancelRunningTasks, CancelGeneration,
           ReconcileServices, StartServices, DropWorker, schedulerVars
    <2>7. CASE Close \/ UNCHANGED vars
        BY <2>2, <2>7, Zenon DEF Close, vars, schedulerVars
    <2>8. CASE ConsumerStep \/ ExecutorStep
        <3>1. queue' = queue \/ (queue # << >> /\ queue' = Tail(queue))
            BY <2>8, AdvanceKeeps, Zenon DEF ConsumerStep, ExecutorStep, AdvanceMoves, Promote,
               RegisterActive, ReceiveStart, ReceiveOther, Exit, Finish, PollEnding, CancelDone,
               PollStaleCancel, PollReconcile, PollStartServices, DrainRun, DrainCancelExact,
               DrainBreak, Pops, schedulerVars
        <3>2. QED
            BY <2>2, <2>3, <3>1, Zenon
    <2>9. QED
        BY <2>4, <2>5, <2>6, <2>7, <2>8, Zenon DEF Next, Joined
<1>3. Init => TypeInv
    BY TypeInit, Zenon
<1>4. TypeInv /\ [Next]_vars => TypeInv'
    BY TypeStep, Zenon
<1>5. QED
    BY <1>1, <1>2, <1>3, <1>4, PTL DEF Spec

-----------------------------------------------------------------------------
(* Cancellation tokens.                                                    *)

(* Only registered tokens are tripped, and while executor.finish or cancel *)
(* runs the generation has none any more.                                  *)
TokenInv ==
    /\ TokensOfActive
    /\ tripped \subseteq registered
    /\ cpc \in {"finish", "cancelling"} => registered = {}

(* A token is registered or tripped only for the active generation, so a   *)
(* generation begins with a clear token and no trip meant for another      *)
(* reaches it (Scheduler::cancel_active, register_active and               *)
(* unregister_active).                                                     *)
THEOREM TokensOfActiveHolds == Spec => []TokensOfActive
<1>1. Init => TokenInv
    BY Zenon DEF Init, TokenInv, TokensOfActive
<1>2. ASSUME TypeInv, TokenInv, [Next]_vars PROVE TokenInv'
    <2> USE <1>2, GensFacts DEF TokenInv, TokensOfActive
    <2>1. ASSUME NEW c \in Clients, Call(c) \/ CallerStep(c) \/ GiveUp(c) PROVE TokenInv'
        <3>1. /\ UNCHANGED <<registered, active, cpc>>
              /\ tripped' \subseteq tripped \cup registered
            BY <2>1, Zenon DEF Call, PrepareRun, CancelRunningTasks, CancelGeneration,
               ReconcileServices, StartServices, DropWorker, CallerStep, SignalRun,
               EnqueueRun, EnqueueCancelExact, PurgeQueuedRun, EnqueueCancelAny,
               EnqueueDirect, Receive, GiveUp, CancelActive, schedulerVars, consumerVars
        <3>2. QED
            BY <3>1, Zenon
    <2>2. CASE Promote \/ ReceiveStart
        BY <2>2, Zenon DEF Promote, ReceiveStart, Idle, StartRun, schedulerVars
    <2>3. CASE RegisterActive
        BY <2>3, Zenon DEF RegisterActive, TypeInv, ActiveInUse
    <2>4. CASE Finish
        BY <2>4, Zenon DEF Finish, schedulerVars
    <2>5. CASE PollEnding
        BY <2>5, Zenon DEF PollEnding, Pops
    <2>6. CASE CancelDone
        BY <2>6, Zenon DEF CancelDone, schedulerVars
    <2>7. CASE UNCHANGED <<registered, tripped, active>> /\ cpc' \notin {"finish", "cancelling"}
        BY <2>7, Zenon
    <2>8. CASE UNCHANGED <<registered, tripped, active, cpc>>
        BY <2>8, Zenon
    <2>9. CASE \/ ReceiveOther \/ PollStaleCancel \/ PollStartServices
               \/ (\E stopsAll \in BOOLEAN : PollReconcile(stopsAll))
               \/ DrainRun \/ DrainCancelExact \/ Close \/ UNCHANGED vars
        BY <2>8, <2>9, Zenon DEF ReceiveOther, PollStaleCancel, PollStartServices, PollReconcile,
           DrainRun, DrainCancelExact, Close, vars, schedulerVars, consumerVars
    <2>10. CASE \/ Exit \/ DrainBreak \/ RecoveryYields \/ AdvanceReturns
                \/ \E kind \in {"recovering", "joining"} : AdvanceWaits(kind)
        BY <2>7, <2>10, Zenon DEF Exit, DrainBreak, RecoveryYields, AdvanceReturns, AdvanceWaits, schedulerVars
    <2>11. CASE AdvanceFinished
        BY <2>11, Zenon DEF AdvanceFinished
    <2>12. QED
        BY <2>1, <2>2, <2>3, <2>4, <2>5, <2>6, <2>9, <2>10, <2>11, Zenon
        DEF Next, ConsumerStep, ExecutorStep, Joined
<1>3. Init => TypeInv
    BY TypeInit, Zenon
<1>4. TypeInv /\ [Next]_vars => TypeInv'
    BY TypeStep, Zenon
<1>5. TokenInv => TokensOfActive
    BY Zenon DEF TokenInv
<1>6. QED
    BY <1>1, <1>2, <1>3, <1>4, <1>5, PTL DEF Spec

-----------------------------------------------------------------------------
(***************************************************************************)
(* Reply channels.  A command on its way to the consumer whose sender      *)
(* listens is the one that sender waits with, and no sender listens to two.*)
(***************************************************************************)
Asks(command) == command.kind \in {"CancelExact", "Reconcile"}

Expects(command) ==
    command.from # NoClient =>
        /\ command.from \in Clients /\ hand[command.from] = command
        /\ pc[command.from] = "waiting" /\ answer[command.from] = "none"

ReplyTo(q, h) ==
    /\ \A i, j \in 1 .. Len(q) : q[i].from = q[j].from /\ q[i].from # NoClient => i = j
    /\ \A i \in 1 .. Len(q) : q[i].from = h.from => h.from = NoClient

Listening ==
    \A c \in Clients : /\ hand[c].from = IF Asks(hand[c]) THEN c ELSE NoClient
                       /\ pc[c] # "waiting" => answer[c] = "none"

Channels ==
    /\ Listening /\ ReplyTo(queue, held) /\ Expects(held)
    /\ \A i \in 1 .. Len(queue) : Expects(queue[i])

(* Every command of r that is answered to is one of q, and each only once. *)
Within(r, q) ==
    \E f \in [1 .. Len(r) -> Nat] :
        /\ \A i \in 1 .. Len(r) : r[i].from = NoClient \/ (f[i] \in 1 .. Len(q) /\ r[i] = q[f[i]])
        /\ \A i, j \in 1 .. Len(r) : f[i] = f[j] => i = j

LEMMA WithinKeeps ==
    ASSUME NEW q \in Seq(Commands), NEW r \in Seq(Commands), NEW h, Within(r, q), ReplyTo(q, h)
    PROVE  /\ ReplyTo(r, h)
           /\ \A i \in 1 .. Len(r) : r[i].from # NoClient => \E j \in 1 .. Len(q) : r[i] = q[j]
<1>1. PICK f \in [1 .. Len(r) -> Nat] :
        /\ \A i \in 1 .. Len(r) : r[i].from = NoClient \/ (f[i] \in 1 .. Len(q) /\ r[i] = q[f[i]])
        /\ \A i, j \in 1 .. Len(r) : f[i] = f[j] => i = j
  BY Zenon DEF Within
<1>2. \A i \in 1 .. Len(r) : r[i].from # NoClient => f[i] \in 1 .. Len(q) /\ r[i] = q[f[i]]
  BY <1>1, Zenon
<1>3. ASSUME NEW i \in 1 .. Len(r), NEW j \in 1 .. Len(r), r[i].from = r[j].from, r[i].from # NoClient PROVE i = j
  <2>1. f[i] \in 1 .. Len(q) /\ f[j] \in 1 .. Len(q) /\ r[i] = q[f[i]] /\ r[j] = q[f[j]]
    BY <1>2, <1>3, Zenon
  <2>2. f[i] = f[j]
    BY <1>3, <2>1, Zenon DEF ReplyTo
  <2> QED
    BY <1>1, <2>2, Zenon
<1>4. \A i \in 1 .. Len(r) : r[i].from = h.from => h.from = NoClient
  BY <1>2, Zenon DEF ReplyTo
<1> QED
  BY <1>2, <1>3, <1>4, Zenon DEF ReplyTo

(* A sequence whose commands stay where they are, or are answered to nobody.*)
LEMMA WithinSame ==
    ASSUME NEW q \in Seq(Commands), NEW r \in Seq(Commands),
           \A i \in 1 .. Len(r) : r[i].from = NoClient \/ (i \in 1 .. Len(q) /\ r[i] = q[i])
    PROVE  Within(r, q)
<1>1. PICK f : f = [i \in 1 .. Len(r) |-> i]
  BY Zenon
<1>2. f \in [1 .. Len(r) -> Nat] /\ \A i \in 1 .. Len(r) : f[i] = i
  BY <1>1
<1>3. \A i \in 1 .. Len(r) : r[i].from = NoClient \/ (f[i] \in 1 .. Len(q) /\ r[i] = q[f[i]])
  BY <1>2, Zenon
<1>4. \A i, j \in 1 .. Len(r) : f[i] = f[j] => i = j
  BY <1>2, Zenon
<1> QED
  BY <1>2, <1>3, <1>4, Zenon DEF Within

LEMMA WithinTail ==
    ASSUME NEW q \in Seq(Commands), q # << >>
    PROVE  Within(Tail(q), q) /\ Tail(q) \in Seq(Commands) /\ Head(q) \in Commands
<1>1. PICK f : f = [i \in 1 .. Len(Tail(q)) |-> i + 1]
  BY Zenon
<1>2. /\ Tail(q) \in Seq(Commands) /\ Head(q) \in Commands /\ Len(q) \in Nat /\ Len(Tail(q)) = Len(q) - 1
      /\ \A i \in 1 .. Len(Tail(q)) : Tail(q)[i] = q[i + 1] /\ i + 1 \in 1 .. Len(q)
  OBVIOUS
<1>3. f \in [1 .. Len(Tail(q)) -> Nat] /\ \A i \in 1 .. Len(Tail(q)) : f[i] = i + 1
  BY <1>1, <1>2
<1>4. \A i, j \in 1 .. Len(Tail(q)) : f[i] = f[j] => i = j
  BY <1>3, <1>2
<1>5. \A i \in 1 .. Len(Tail(q)) : f[i] \in 1 .. Len(q) /\ Tail(q)[i] = q[f[i]]
  BY <1>2, <1>3, Zenon
<1> QED
  BY <1>2, <1>3, <1>4, <1>5, Zenon DEF Within

LEMMA WithinWithout ==
    ASSUME NEW q \in Seq(Commands), NEW p \in 1 .. Len(q)
    PROVE  Within(Without(q, p), q) /\ Without(q, p) \in Seq(Commands)
<1>r. PICK r : r = Without(q, p)
  BY Zenon
<1>1. r \in Seq(Commands) /\ Len(r) = Len(q) - 1 /\ Len(q) \in Nat
      /\ \A i \in 1 .. (Len(q) - 1) : r[i] = IF i < p THEN q[i] ELSE q[i + 1]
  <2>1. /\ Without(q, p) \in Seq(Commands) /\ Len(Without(q, p)) = Len(q) - 1
        /\ \A i \in 1 .. (Len(q) - 1) : Without(q, p)[i] = IF i < p THEN q[i] ELSE q[i + 1]
    BY WithoutElements, Zenon
  <2> QED
    BY <1>r, <2>1
<1>2. PICK f : f = [i \in 1 .. Len(r) |-> IF i < p THEN i ELSE i + 1]
  BY Zenon
<1>3. f \in [1 .. Len(r) -> Nat] /\ \A i \in 1 .. Len(r) : f[i] = IF i < p THEN i ELSE i + 1
  BY <1>1, <1>2
<1>4. \A i, j \in 1 .. Len(r) : f[i] = f[j] => i = j
  BY <1>1, <1>3
<1>5. \A i \in 1 .. Len(r) : f[i] \in 1 .. Len(q) /\ r[i] = q[f[i]]
  BY <1>1, <1>3
<1>6. Within(r, q)
  BY <1>3, <1>4, <1>5, Zenon DEF Within
<1> QED
  BY <1>r, <1>1, <1>6, Zenon

(* A caller of which no command is on its way moves; commands on their way *)
(* may leave the queue.                                                    *)
LEMMA CallerMoves ==
    ASSUME TypeInv, TypeInv', Channels, NEW c \in Clients, pc[c] # "waiting" \/ answer[c] # "none",
           Within(queue', queue), held' = held,
           \A d \in Clients \ {c} : pc'[d] = pc[d] /\ hand'[d] = hand[d] /\ answer'[d] = answer[d],
           hand'[c].from = IF Asks(hand'[c]) THEN c ELSE NoClient,
           pc'[c] # "waiting" => answer'[c] = "none"
    PROVE  Channels'
<1>1. queue \in Seq(Commands) /\ queue' \in Seq(Commands) /\ held \in Commands
  BY Zenon DEF TypeInv, TypeOK
<1>2. /\ ReplyTo(queue', held)
      /\ \A i \in 1 .. Len(queue') : queue'[i].from # NoClient => \E j \in 1 .. Len(queue) : queue'[i] = queue[j]
  BY <1>1, WithinKeeps, Zenon DEF Channels
<1>3. ASSUME NEW x, Expects(x)
      PROVE  /\ x.from # NoClient => x.from \in Clients \ {c}
             /\ x.from # NoClient => /\ x.from \in Clients /\ hand'[x.from] = x
                                     /\ pc'[x.from] = "waiting" /\ answer'[x.from] = "none"
  BY <1>3, Zenon DEF Expects
<1>4. Expects(held)'
  BY <1>3, Zenon DEF Channels, Expects
<1>5. ASSUME NEW i \in 1 .. Len(queue') PROVE Expects(queue[i])'
  <2>1. PICK x : x = queue'[i] /\ (x.from # NoClient => Expects(x))
    BY <1>2, Zenon DEF Channels
  <2> QED
    BY <1>3, <2>1, Zenon DEF Expects
<1>6. Listening'
  BY DEF Channels, Listening, Asks
<1>7. ReplyTo(queue, held)'
  BY <1>2, Zenon DEF ReplyTo
<1> QED
  BY <1>4, <1>5, <1>6, <1>7, Zenon DEF Channels

(* A caller hands over the command it holds and begins to wait if it asks. *)
LEMMA CallerSends ==
    ASSUME TypeInv, TypeInv', Channels, NEW c \in Clients, pc[c] # "waiting", Return(c),
           queue' = Append(queue, hand[c]), UNCHANGED <<held, answer>>
    PROVE  Channels'
<1>1. /\ queue \in Seq(Commands) /\ held \in Commands /\ hand \in [Clients -> Commands] /\ hand[c] \in Commands
      /\ pc \in [Clients -> {"idle", "prepared", "send", "purge", "waiting"}] /\ queue' \in Seq(Commands)
  BY Zenon DEF TypeInv, TypeOK
<1>2. /\ Len(queue) \in Nat /\ Len(queue') = Len(queue) + 1 /\ queue'[Len(queue')] = hand[c]
      /\ \A i \in 1 .. Len(queue) : queue'[i] = queue[i]
      /\ \A i \in 1 .. Len(queue') : i \in 1 .. Len(queue) \/ i = Len(queue')
  BY <1>1
<1>3. answer[c] = "none" /\ hand[c].from \in {c, NoClient} /\ c # NoClient
  BY ClientsAssumption, Zenon DEF Channels, Listening
<1>4. CASE hand[c].from = c
  <2>1. hand' = hand /\ answer' = answer /\ held' = held /\ pc' = [pc EXCEPT ![c] = "waiting"]
    BY <1>4, Zenon DEF Return
  <2>2. pc'[c] = "waiting" /\ \A d \in Clients \ {c} : pc'[d] = pc[d]
    BY <1>1, <2>1, Zenon
  <2>3. ASSUME NEW x, Expects(x)
        PROVE  /\ x.from # c
               /\ x.from # NoClient => /\ x.from \in Clients /\ hand'[x.from] = x
                                       /\ pc'[x.from] = "waiting" /\ answer'[x.from] = "none"
    BY <1>3, <2>1, <2>2, <2>3 DEF Expects
  <2>4. Expects(held)' /\ held.from # c
    BY <2>1, <2>3 DEF Channels, Expects
  <2>5. ASSUME NEW i \in 1 .. Len(queue) PROVE Expects(queue[i])' /\ queue[i].from # c
    BY <1>2, <2>3 DEF Channels, Expects
  <2>6. ASSUME NEW i \in 1 .. Len(queue') PROVE Expects(queue[i])'
    <3>1. CASE i = Len(queue')
      BY <1>2, <1>3, <1>4, <2>1, <2>2, <3>1, Zenon DEF Expects
    <3> QED
      BY <1>2, <2>5, <3>1, Zenon
  <2>7. ReplyTo(queue, held)'
    BY <1>2, <1>4, <2>1, <2>4, <2>5 DEF Channels, ReplyTo
  <2>8. Listening'
    BY <1>3, <2>1, <2>2, Zenon DEF Channels, Listening, Asks
  <2> QED
    BY <2>4, <2>6, <2>7, <2>8, Zenon DEF Channels
<1>5. CASE hand[c].from = NoClient
  <2>1. hand' = [hand EXCEPT ![c] = NoCommand] /\ pc' = [pc EXCEPT ![c] = "idle"]
    BY <1>3, <1>5, Zenon DEF Return, Take
  <2>2. /\ hand'[c] = NoCommand /\ pc'[c] = "idle" /\ NoCommand.from = NoClient /\ ~Asks(NoCommand)
        /\ \A d \in Clients \ {c} : pc'[d] = pc[d] /\ hand'[d] = hand[d]
    BY <1>1, <2>1, Zenon DEF NoCommand, Command, Asks
  <2>3. Within(queue', queue)
    BY <1>1, <1>2, <1>5, WithinSame, Zenon
  <2> QED
    BY <1>3, <2>2, <2>3, CallerMoves, Zenon
<1> QED
  BY <1>3, <1>4, <1>5, Zenon

(* The consumer answers one command x, or none, and keeps what it may of   *)
(* the queue; x is on its way no longer.                                   *)
LEMMA ConsumerAnswers ==
    ASSUME TypeInv, TypeInv', Channels, UNCHANGED <<pc, hand>>, NEW x, Expects(x), NEW value,
           answer' = answer \/ Reply(x, value),
           Within(queue', queue), held' = held \/ Expects(held'), ReplyTo(queue', held'),
           x.from # NoClient => /\ held'.from # x.from
                                /\ \A i \in 1 .. Len(queue') : queue'[i].from # x.from
    PROVE  Channels'
<1>1. /\ queue \in Seq(Commands) /\ queue' \in Seq(Commands)
      /\ answer \in [Clients -> {"none", "cancelled", "noop", "done", "lost"}]
  BY Zenon DEF TypeInv, TypeOK
<1>2. \A i \in 1 .. Len(queue') : queue'[i].from # NoClient => \E j \in 1 .. Len(queue) : queue'[i] = queue[j]
  BY <1>1, WithinKeeps, Zenon DEF Channels
<1>3. \A d \in Clients : answer'[d] # answer[d] => d = x.from /\ x.from # NoClient /\ pc[d] = "waiting"
  <2>1. CASE answer' = answer
    BY <2>1, Zenon
  <2>2. CASE Reply(x, value)
    <3>1. CASE x.from = NoClient
      BY <2>2, <3>1, Zenon DEF Reply
    <3>2. CASE x.from # NoClient
      <4>1. answer' = [answer EXCEPT ![x.from] = value] /\ x.from \in Clients /\ pc[x.from] = "waiting"
        BY <2>2, <3>2, Zenon DEF Reply, Expects
      <4> QED
        BY <1>1, <3>2, <4>1, Zenon
    <3> QED
      BY <3>1, <3>2, Zenon
  <2> QED
    BY <2>1, <2>2, Zenon
<1>4. ASSUME NEW y, Expects(y), y.from # NoClient => y.from # x.from
      PROVE  y.from # NoClient => /\ y.from \in Clients /\ hand'[y.from] = y
                                  /\ pc'[y.from] = "waiting" /\ answer'[y.from] = "none"
  BY <1>3, <1>4, Zenon DEF Expects
<1>5. Expects(held)'
  <2>1. Expects(held')
    BY Zenon DEF Channels
  <2>2. held'.from # NoClient => held'.from # x.from
    BY Zenon
  <2> QED
    BY <1>4, <2>1, <2>2, Zenon DEF Expects
<1>6. ASSUME NEW i \in 1 .. Len(queue') PROVE Expects(queue[i])'
  <2>1. Expects(queue'[i])
    <3>1. CASE queue'[i].from = NoClient
      BY <3>1, Zenon DEF Expects
    <3>2. CASE queue'[i].from # NoClient
      BY <1>2, <3>2, Zenon DEF Channels
    <3> QED
      BY <3>1, <3>2, Zenon
  <2>2. queue'[i].from # NoClient => queue'[i].from # x.from
    BY Zenon
  <2> QED
    BY <1>4, <2>1, <2>2, Zenon DEF Expects
<1>7. Listening'
  BY <1>3, Zenon DEF Channels, Listening, Asks
<1>8. ReplyTo(queue, held)'
  BY Zenon DEF ReplyTo
<1> QED
  BY <1>5, <1>6, <1>7, <1>8, Zenon DEF Channels

(* What is popped is answered to by nobody else.                           *)
LEMMA PoppedAlone ==
    ASSUME TypeInv, Channels, NEW kind, Pops(kind)
    PROVE  /\ Head(queue) \in Commands /\ Head(queue).kind = kind /\ Expects(Head(queue))
           /\ Within(queue', queue) /\ ReplyTo(queue', held) /\ ReplyTo(queue', Head(queue))
           /\ Head(queue).from # NoClient =>
                /\ held.from # Head(queue).from
                /\ \A i \in 1 .. Len(queue') : queue'[i].from # Head(queue).from
<1>1. queue \in Seq(Commands) /\ queue # << >> /\ queue' = Tail(queue) /\ Head(queue).kind = kind
  BY Zenon DEF Pops, TypeInv, TypeOK
<1>2. /\ Head(queue) \in Commands /\ Head(queue) = queue[1] /\ 1 \in 1 .. Len(queue) /\ Len(queue') = Len(queue) - 1
      /\ Len(queue) \in Nat /\ \A i \in 1 .. Len(queue') : queue'[i] = queue[i + 1] /\ i + 1 \in 1 .. Len(queue) /\ i + 1 # 1
  BY <1>1
<1>3. Within(queue', queue) /\ queue' \in Seq(Commands)
  BY <1>1, WithinTail, Zenon
<1>4. ReplyTo(queue', held) /\ ReplyTo(queue, held)
  BY <1>1, <1>3, WithinKeeps, Zenon DEF Channels
<1>5. Expects(Head(queue))
  BY <1>2, Zenon DEF Channels
<1>6. Head(queue).from # NoClient => \A i \in 1 .. Len(queue') : queue'[i].from # Head(queue).from
  BY <1>2, <1>4, Zenon DEF ReplyTo
<1>7. Head(queue).from # NoClient => held.from # Head(queue).from
  BY <1>2, <1>4, Zenon DEF ReplyTo
<1>8. ReplyTo(queue', Head(queue))
  BY <1>4, <1>6, Zenon DEF ReplyTo
<1> QED
  BY <1>1, <1>2, <1>3, <1>4, <1>5, <1>6, <1>7, <1>8, Zenon

LEMMA GiveUpChannels ==
    ASSUME TypeInv, TypeInv', Channels, NEW c \in Clients, GiveUp(c)
    PROVE  Channels'
<1>1. /\ queue \in Seq(Commands) /\ queue' \in Seq(Commands) /\ held \in Commands
      /\ pc \in [Clients -> {"idle", "prepared", "send", "purge", "waiting"}] /\ hand \in [Clients -> Commands]
  BY Zenon DEF TypeInv, TypeOK
<1>2. /\ hand' = [hand EXCEPT ![c] = NoCommand] /\ pc' = [pc EXCEPT ![c] = "idle"] /\ answer' = answer
      /\ answer[c] = "none" /\ held' = Deaf(held, c) /\ queue' = [i \in 1 .. Len(queue) |-> Deaf(queue[i], c)]
  BY Zenon DEF GiveUp, Take
<1>3. /\ hand'[c] = NoCommand /\ pc'[c] = "idle" /\ NoCommand.from = NoClient /\ ~Asks(NoCommand)
      /\ \A d \in Clients \ {c} : pc'[d] = pc[d] /\ hand'[d] = hand[d]
  BY <1>1, <1>2, Zenon DEF NoCommand, Command, Asks
<1>4. ASSUME NEW x \in Commands, Expects(x)
      PROVE  /\ Deaf(x, c).from = NoClient \/ (Deaf(x, c) = x /\ x.from # c)
             /\ Deaf(x, c).from # NoClient =>
                  /\ x.from \in Clients /\ hand'[x.from] = x /\ pc'[x.from] = "waiting" /\ answer'[x.from] = "none"
  <2>1. Deaf(x, c).from = NoClient \/ (Deaf(x, c) = x /\ x.from # c)
    BY Zenon DEF Deaf, Commands
  <2> QED
    BY <1>2, <1>3, <1>4, <2>1, Zenon DEF Expects
<1>5. /\ Len(queue') = Len(queue)
      /\ \A i \in 1 .. Len(queue) : queue'[i] = Deaf(queue[i], c) /\ queue[i] \in Commands /\ Expects(queue[i])
  <2>1. Len(queue') = Len(queue) /\ \A i \in 1 .. Len(queue) : queue'[i] = Deaf(queue[i], c)
    BY <1>1, <1>2, DeafQueue, Zenon
  <2> QED
    BY <1>1, <2>1 DEF Channels
<1>6. Within(queue', queue)
  BY <1>1, <1>4, <1>5, WithinSame
<1>7. ReplyTo(queue', held)
  BY <1>1, <1>6, WithinKeeps, Zenon DEF Channels
<1>8. held'.from = NoClient \/ held' = held
  BY <1>1, <1>2, <1>4, Zenon DEF Channels
<1>9. ReplyTo(queue, held)'
  BY <1>7, <1>8, Zenon DEF ReplyTo
<1>10. Expects(held)'
  BY <1>1, <1>2, <1>4 DEF Channels, Expects
<1>11. ASSUME NEW i \in 1 .. Len(queue') PROVE Expects(queue[i])'
  <2>1. PICK x \in Commands : queue'[i] = Deaf(x, c) /\ Expects(x)
    BY <1>5, Zenon
  <2>2. Deaf(x, c).from # NoClient => Deaf(x, c) = x
    BY <1>4, <2>1, Zenon
  <2> QED
    BY <1>4, <2>1, <2>2, ZenonT(40) DEF Expects
<1>12. Listening'
  BY <1>2, <1>3 DEF Channels, Listening, Asks
<1> QED
  BY <1>9, <1>10, <1>11, <1>12, Zenon DEF Channels

LEMMA CallerChannels ==
    ASSUME TypeInv, TypeInv', Channels, NEW c \in Clients, Call(c) \/ CallerStep(c)
    PROVE  Channels'
<1>1. /\ queue \in Seq(Commands) /\ queue' \in Seq(Commands) /\ hand \in [Clients -> Commands] /\ hand[c] \in Commands
      /\ pc \in [Clients -> {"idle", "prepared", "send", "purge", "waiting"}]
      /\ answer \in [Clients -> {"none", "cancelled", "noop", "done", "lost"}]
  BY Zenon DEF TypeInv, TypeOK
<1>2. hand[c].from = (IF Asks(hand[c]) THEN c ELSE NoClient) /\ (pc[c] # "waiting" => answer[c] = "none")
  BY Zenon DEF Channels, Listening
<1>3. queue' = queue => Within(queue', queue)
  BY <1>1, WithinSame, Zenon
<1>4. NoCommand.from = NoClient /\ ~Asks(NoCommand) /\ c # NoClient
  BY ClientsAssumption, Zenon DEF NoCommand, Command, Asks
<1>5. CASE Call(c)
  <2>1. PICK x, step :
          /\ x.from = (IF Asks(x) THEN c ELSE NoClient) /\ step # "waiting"
          /\ Take(c, x, step)
    BY <1>5, Zenon DEF Call, PrepareRun, CancelRunningTasks, CancelGeneration, ReconcileServices, StartServices, DropWorker,
                Command, Asks
  <2>2. pc[c] = "idle" /\ UNCHANGED <<queue, answer, held>>
    BY <1>5, Zenon DEF Call, PrepareRun, CancelRunningTasks, CancelGeneration, ReconcileServices, StartServices, DropWorker,
                CanCall, schedulerVars, consumerVars
  <2>3. /\ hand'[c] = x /\ pc'[c] = step
        /\ \A d \in Clients \ {c} : pc'[d] = pc[d] /\ hand'[d] = hand[d] /\ answer'[d] = answer[d]
    BY <1>1, <2>1, <2>2, Zenon DEF Take
  <2> QED
    BY <1>2, <1>3, <2>1, <2>2, <2>3, CallerMoves, Zenon
<1>6. CASE SignalRun(c)
  <2>1. pc[c] = "prepared" /\ pc' = [pc EXCEPT ![c] = "send"] /\ UNCHANGED <<queue, answer, held, hand>>
    BY <1>6, Zenon DEF SignalRun, consumerVars
  <2>2. pc'[c] = "send" /\ \A d \in Clients \ {c} : pc'[d] = pc[d]
    BY <1>1, <2>1, Zenon
  <2> QED
    BY <1>2, <1>3, <2>1, <2>2, CallerMoves, Zenon
<1>7. CASE EnqueueRun(c)
  <2>1. pc[c] = "send" /\ hand[c].from = NoClient /\ Return(c) /\ UNCHANGED <<answer, held>>
    BY <1>2, <1>7, Zenon DEF EnqueueRun, Sends, consumerVars, Asks
  <2>2. /\ hand'[c] = NoCommand /\ pc'[c] = "idle"
        /\ \A d \in Clients \ {c} : pc'[d] = pc[d] /\ hand'[d] = hand[d]
    BY <1>1, <1>4, <2>1, Zenon DEF Return, Take
  <2>3. \A i \in 1 .. Len(queue') : queue'[i].from = NoClient \/ (i \in 1 .. Len(queue) /\ queue'[i] = queue[i])
    <3>1. PICK k \in 0 .. Len(queue) :
            LET kept == SubSeq(queue, 1, k) IN
              \/ \E p \in 1 .. k : queue' = [kept EXCEPT ![p] = hand[c]]
              \/ queue' = Append(kept, hand[c])
      BY <1>7, Zenon DEF EnqueueRun
    <3>2. PICK kept : kept = SubSeq(queue, 1, k)
      BY Zenon
    <3>3. kept \in Seq(Commands) /\ Len(kept) = k /\ \A i \in 1 .. k : kept[i] = queue[i] /\ i \in 1 .. Len(queue)
      BY <1>1, <3>2
    <3>4. CASE queue' = Append(kept, hand[c])
      <4>1. /\ Len(queue') = k + 1 /\ queue'[k + 1] = hand[c]
            /\ \A i \in 1 .. k : queue'[i] = kept[i]
        BY <1>1, <3>3, <3>4
      <4> QED
        BY <2>1, <3>3, <4>1
    <3>5. ASSUME NEW p \in 1 .. k, queue' = [kept EXCEPT ![p] = hand[c]]
          PROVE  \A i \in 1 .. Len(queue') : queue'[i].from = NoClient \/ (i \in 1 .. Len(queue) /\ queue'[i] = queue[i])
      <4>1. Len(queue') = k /\ \A i \in 1 .. k : queue'[i] = IF i = p THEN hand[c] ELSE kept[i]
        BY <1>1, <3>3, <3>5
      <4> QED
        BY <2>1, <3>3, <4>1, Zenon
    <3> QED
      BY <3>1, <3>2, <3>4, <3>5, Zenon
  <2>4. Within(queue', queue)
    BY <1>1, <2>3, WithinSame, Zenon
  <2> QED
    BY <1>2, <1>4, <2>1, <2>2, <2>4, CallerMoves, Zenon
<1>8. CASE EnqueueCancelExact(c)
  <2>1. pc[c] = "send" /\ hand[c].from = c /\ Return(c) /\ UNCHANGED held
    BY <1>2, <1>8, Zenon DEF EnqueueCancelExact, Sends, consumerVars, Asks
  <2>2. CASE queue' = Append(queue, hand[c]) /\ UNCHANGED answer
    BY <2>1, <2>2, CallerSends, Zenon
  <2>3. ASSUME NEW p \in 1 .. Len(queue), queue' = Without(queue, p), answer' = [answer EXCEPT ![c] = "cancelled"]
        PROVE  Channels'
    <3>1. Within(queue', queue)
      BY <1>1, <2>3, WithinWithout, Zenon
    <3>2. hand' = hand /\ pc'[c] = "waiting" /\ \A d \in Clients \ {c} : pc'[d] = pc[d] /\ answer'[d] = answer[d]
      BY <1>1, <2>1, <2>3, Zenon DEF Return
    <3> QED
      BY <1>2, <2>1, <3>1, <3>2, CallerMoves, Zenon
  <2> QED
    BY <1>8, <2>2, <2>3, Zenon DEF EnqueueCancelExact
<1>9. CASE PurgeQueuedRun(c)
  <2>1. PICK p \in 1 .. Len(queue) : queue' = Without(queue, p)
    BY <1>9, Zenon DEF PurgeQueuedRun
  <2>2. pc[c] # "waiting" /\ pc' = [pc EXCEPT ![c] = "purge"] /\ UNCHANGED <<answer, held, hand>>
    BY <1>9, Zenon DEF PurgeQueuedRun, Sends, consumerVars
  <2>3. pc'[c] = "purge" /\ \A d \in Clients \ {c} : pc'[d] = pc[d]
    BY <1>1, <2>2, Zenon
  <2>4. Within(queue', queue)
    BY <1>1, <2>1, WithinWithout, Zenon
  <2> QED
    BY <1>2, <2>2, <2>3, <2>4, CallerMoves, Zenon
<1>10. CASE EnqueueCancelAny(c) \/ EnqueueDirect(c)
  <2>1. pc[c] # "waiting" /\ Return(c) /\ queue' = Append(queue, hand[c]) /\ UNCHANGED <<held, answer>>
    BY <1>10, Zenon DEF EnqueueCancelAny, EnqueueDirect, Sends, consumerVars
  <2> QED
    BY <2>1, CallerSends, Zenon
<1>11. CASE Receive(c)
  <2>1. /\ answer[c] # "none" /\ Take(c, NoCommand, "idle") /\ answer' = [answer EXCEPT ![c] = "none"]
        /\ UNCHANGED <<queue, held>>
    BY <1>11, Zenon DEF Receive, schedulerVars, consumerVars
  <2>2. /\ hand'[c] = NoCommand /\ pc'[c] = "idle" /\ answer'[c] = "none"
        /\ \A d \in Clients \ {c} : pc'[d] = pc[d] /\ hand'[d] = hand[d] /\ answer'[d] = answer[d]
    BY <1>1, <2>1, Zenon DEF Take
  <2> QED
    BY <1>3, <1>4, <2>1, <2>2, CallerMoves, Zenon
<1> QED
  BY <1>5, <1>6, <1>7, <1>8, <1>9, <1>10, <1>11, Zenon DEF CallerStep


LEMMA ConsumerChannels ==
    ASSUME TypeInv, TypeInv', Channels, ConsumerStep \/ ExecutorStep
    PROVE  Channels'
<1>1. queue \in Seq(Commands) /\ queue' \in Seq(Commands) /\ held \in Commands
  BY Zenon DEF TypeInv, TypeOK
<1>2. /\ UNCHANGED <<pc, hand>> /\ Expects(held) /\ ReplyTo(queue, held)
      /\ NoCommand.from = NoClient /\ Expects(NoCommand)
  <2>1. UNCHANGED <<pc, hand>>
    BY AdvanceKeeps, Zenon DEF ConsumerStep, ExecutorStep, AdvanceMoves, Promote, RegisterActive, ReceiveStart,
           ReceiveOther, Exit, Finish, PollEnding, CancelDone, PollStaleCancel, PollReconcile, PollStartServices, DrainRun, DrainCancelExact, DrainBreak, callerVars
  <2> QED
    BY <2>1, Zenon DEF Channels, NoCommand, Command, Expects
<1>3. queue' = queue => Within(queue', queue)
  BY <1>1, WithinSame, Zenon
<1>4. CASE UNCHANGED <<queue, held, answer>>
  <2>1. ReplyTo(queue', held')
    BY <1>2, <1>4, Zenon
  <2> QED
    BY <1>2, <1>3, <1>4, <2>1, ConsumerAnswers, Zenon
<1>5. ASSUME NEW kind, Pops(kind), held' = held \/ held' = Head(queue), answer' = answer
      PROVE  Channels'
  <2>1. Within(queue', queue) /\ ReplyTo(queue', held') /\ Expects(held')
    BY <1>2, <1>5, PoppedAlone, Zenon
  <2> QED
    BY <1>2, <1>5, <2>1, ConsumerAnswers, Zenon
<1>6. ASSUME NEW kind, NEW value, Pops(kind), held' = held, Reply(Head(queue), value)
      PROVE  Channels'
  <2>1. PICK x : x = Head(queue)
    BY Zenon
  <2>2. /\ Within(queue', queue) /\ ReplyTo(queue', held') /\ Expects(x)
        /\ x.from # NoClient => held'.from # x.from /\ \A i \in 1 .. Len(queue') : queue'[i].from # x.from
    BY <1>6, <2>1, PoppedAlone, Zenon
  <2>3. Reply(x, value)
    BY <1>6, <2>1, Zenon
  <2> QED
    BY <1>2, <1>6, <2>2, <2>3, ConsumerAnswers, Zenon
<1>7. CASE CancelDone
  <2>1. held' = NoCommand /\ queue' = queue /\ (answer' = answer \/ Reply(held, "cancelled"))
    BY <1>7, Zenon DEF CancelDone, schedulerVars
  <2>2. PICK x : x = held
    BY Zenon
  <2>3. /\ ReplyTo(queue', held') /\ Expects(x) /\ Expects(held')
        /\ x.from # NoClient => held'.from # x.from /\ \A i \in 1 .. Len(queue') : queue'[i].from # x.from
    BY <1>2, <2>1, <2>2, Zenon DEF ReplyTo
  <2> QED
    BY <1>2, <1>3, <2>1, <2>2, <2>3, ConsumerAnswers, Zenon
<1>8. CASE Promote \/ RegisterActive \/ Exit \/ Finish
  BY <1>4, <1>8, Zenon DEF Promote, RegisterActive, Exit, Finish, schedulerVars, callerVars
<1>9. CASE ReceiveStart \/ PollEnding \/ PollStartServices \/ DrainRun
  BY <1>5, <1>9, Zenon DEF ReceiveStart, PollEnding, PollStartServices, DrainRun, callerVars, consumerVars
<1>10. CASE ReceiveOther \/ PollStaleCancel \/ \E stopsAll \in BOOLEAN : PollReconcile(stopsAll)
  BY <1>6, <1>10, Zenon DEF ReceiveOther, PollStaleCancel, PollReconcile, consumerVars
<1>11. CASE DrainCancelExact \/ DrainBreak
  BY <1>4, <1>6, <1>11, Zenon DEF DrainCancelExact, DrainBreak
<1>12. CASE AdvanceMoves
  BY <1>4, <1>12, AdvanceKeeps, Zenon
<1> QED
  BY <1>7, <1>8, <1>9, <1>10, <1>11, <1>12, Zenon DEF ConsumerStep, ExecutorStep, AdvanceMoves

(* Every step keeps the channels apart.                                    *)
LEMMA ChannelsStep == TypeInv /\ TypeInv' /\ Channels /\ [Next]_vars => Channels'
<1> SUFFICES ASSUME TypeInv, TypeInv', Channels, [Next]_vars PROVE Channels'
  BY Zenon
<1>1. CASE \E c \in Clients : Call(c) \/ CallerStep(c)
  BY <1>1, CallerChannels, Zenon
<1>2. CASE \E c \in Clients : GiveUp(c)
  BY <1>2, GiveUpChannels, Zenon
<1>3. CASE ConsumerStep \/ ExecutorStep
  BY <1>3, ConsumerChannels, Zenon
<1>4. CASE Close \/ Joined \/ UNCHANGED vars
  <2>1. UNCHANGED <<queue, held, answer, pc, hand>>
    BY <1>4, Zenon DEF Close, Joined, vars, schedulerVars, callerVars, consumerVars
  <2> QED
    BY <2>1, Zenon DEF Channels, Listening, ReplyTo, Expects
<1> QED
  BY <1>1, <1>2, <1>3, <1>4, Zenon DEF Next

LEMMA ChannelsInit == Init => Channels
<1> SUFFICES ASSUME Init PROVE Channels
  BY Zenon
<1>1. 1 .. Len(queue) = {} /\ held = NoCommand
  BY DEF Init
<1>2. NoCommand.from = NoClient /\ ~Asks(NoCommand)
  BY Zenon DEF NoCommand, Command, Asks
<1>3. Listening
  BY <1>2, Zenon DEF Init, Listening
<1> QED
  BY <1>1, <1>2, <1>3, Zenon DEF Channels, ReplyTo, Expects

-----------------------------------------------------------------------------
(***************************************************************************)
(* Where the generations are: the invariant that LifecycleProofs shows to  *)
(* be inductive, and what its proof keeps needing about commands, queues,  *)
(* hands and the log.                                                      *)
(***************************************************************************)
(* A command that brings a generation, and the generations of a queue.     *)
Carries(command) == command.kind \in {"Run", "StartServices"}
Own(command) == {gen \in Gens : Carries(command) /\ command.gen = gen}
GensOf(q) == {gen \in Gens : \E i \in 1 .. Len(q) : Carries(q[i]) /\ q[i].gen = gen}
Distinct(q) ==
    \A i, j \in 1 .. Len(q) : Carries(q[i]) /\ Carries(q[j]) /\ q[i].gen = q[j].gen => i = j

(* Where a generation may be: with its caller, in the queue, in the        *)
(* consumer, or over; `vanished` is the last place.                        *)
Handed == {gen \in Gens : \E c \in Clients : gen \in Own(hand[c])}
Queued == GensOf(queue)
Taken == ({active, pending} \cup Own(held)) \ {NoGen}
Begun == {gen \in Gens : HasStarted(gen)}
Ended == {gen \in Gens : HasEnded(gen)}

(* Every issued generation is in one place, and the active one is the only *)
(* one that has begun and not ended.                                       *)
InOnePlace ==
    /\ Issued = Handed \cup Queued \cup Taken \cup Ended \cup vanished
    /\ Handed \cap (Queued \cup Taken \cup Ended \cup vanished) = {}
    /\ Queued \cap (Taken \cup Ended \cup vanished) = {}
    /\ Taken \cap (Ended \cup vanished) = {}
    /\ Ended \cap vanished = {}
    /\ Begun \subseteq Ended \cup {active}
    /\ active # NoGen => active \in Begun

(* ... and there only once.                                                *)
HandsApart ==
    /\ \A c, d \in Clients : Own(hand[c]) \cap Own(hand[d]) # {} => c = d
    /\ \A c \in Clients : Carries(hand[c]) => hand[c].from = NoClient

(* The consumer's slots: it holds a command only while it cancels, and the *)
(* pending slot is empty while a generation is active.                     *)
SlotsInTurn ==
    /\ active # NoGen => pending = NoGen
    /\ cpc = "drain" => active = NoGen
    /\ cpc # "cancelling" => held = NoCommand
    /\ IsRun(held) => held.gen # active
    /\ held.kind # "StartServices"

(* A pending request names the generation it superseded.                   *)
PredecessorIsTold ==
    predecessor # NoGen =>
        /\ pending # NoGen
        /\ \E i \in 1 .. Len(log) : log[i] = Cancelled(predecessor, pending)

Story == EventOrder /\ OneAtATime /\ PredecessorWasSuperseded /\ PredecessorIsTold

(* A caller at rest holds no command, one that waits has sent it with a    *)
(* reply channel, and a worker that is closed has no callers left.         *)
Closing ==
    /\ closed => dropping /\ \A c \in Clients : pc[c] = "idle"
    /\ \A c \in Clients : /\ pc[c] = "idle" => hand[c] = NoCommand
                          /\ pc[c] = "waiting" => hand[c].from = c
    /\ cpc = "done" => closed /\ queue = << >> /\ active = NoGen /\ pending = NoGen

IInv == TypeInv /\ InOnePlace /\ HandsApart /\ Distinct(queue) /\ SlotsInTurn /\ Story /\ Closing
-----------------------------------------------------------------------------
(* Facts about commands, queues, hands and the log.                        *)

LEMMA OwnFacts ==
    ASSUME NEW command \in Commands
    PROVE  /\ Carries(command) => command.gen \in Gens /\ Own(command) = {command.gen}
           /\ ~Carries(command) => Own(command) = {}
           /\ Own(NoCommand) = {} /\ ~Carries(NoCommand) /\ NoCommand.from = NoClient
BY CarriesGen, Zenon DEF Own, Carries, NoCommand, Command

LEMMA GensAppend ==
    ASSUME NEW q \in Seq(Commands), NEW x \in Commands, NEW r, r = Append(q, x),
           Distinct(q), Own(x) \cap GensOf(q) = {}
    PROVE  GensOf(r) = GensOf(q) \cup Own(x) /\ Distinct(r)
<1>1. /\ Len(q) \in Nat /\ Len(r) = Len(q) + 1 /\ r[Len(r)] = x
      /\ \A i \in 1 .. Len(q) : r[i] = q[i] /\ q[i] \in Commands
  OBVIOUS
<1>2. \A i \in 1 .. Len(r) : i \in 1 .. Len(q) \/ i = Len(r)
  BY <1>1
<1>3. Len(r) \in 1 .. Len(r) /\ \A i \in 1 .. Len(q) : i \in 1 .. Len(r) /\ i # Len(r)
  BY <1>1
<1>4. GensOf(r) = GensOf(q) \cup Own(x)
  BY <1>1, <1>2, <1>3 DEF GensOf, Own
<1>5. \A i \in 1 .. Len(q) : Carries(q[i]) => q[i].gen \in GensOf(q)
  BY <1>1, CarriesGen, Zenon DEF GensOf, Carries
<1>6. Carries(x) => x.gen \in Own(x)
  BY OwnFacts, Zenon
<1>7. Distinct(r)
  <2> SUFFICES ASSUME NEW i \in 1 .. Len(r), NEW j \in 1 .. Len(r), Carries(r[i]), Carries(r[j]), r[i].gen = r[j].gen
               PROVE  i = j
    BY Zenon DEF Distinct
  <2>1. CASE i \in 1 .. Len(q) /\ j \in 1 .. Len(q)
    BY <1>1, <2>1, Zenon DEF Distinct
  <2>2. CASE i \in 1 .. Len(q) /\ j = Len(r)
    BY <1>1, <1>5, <1>6, <2>2, Zenon
  <2>3. CASE i = Len(r) /\ j \in 1 .. Len(q)
    BY <1>1, <1>5, <1>6, <2>3, Zenon
  <2> QED
    BY <1>2, <2>1, <2>2, <2>3, Zenon
<1> QED
  BY <1>4, <1>7, Zenon

LEMMA GensTail ==
    ASSUME NEW q \in Seq(Commands), q # << >>, NEW r, r = Tail(q), Distinct(q)
    PROVE  /\ GensOf(r) = GensOf(q) \ Own(Head(q)) /\ Distinct(r)
           /\ Head(q) \in Commands /\ Own(Head(q)) \subseteq GensOf(q)
<1>1. /\ Len(q) \in Nat /\ Len(q) >= 1 /\ Len(r) = Len(q) - 1 /\ Head(q) = q[1] /\ Head(q) \in Commands
      /\ \A i \in 1 .. Len(r) : r[i] = q[i + 1]
  OBVIOUS
<1>2. /\ 1 \in 1 .. Len(q) /\ \A i \in 1 .. Len(r) : i + 1 \in 1 .. Len(q) /\ i + 1 # 1
      /\ \A i \in 1 .. Len(q) : i # 1 => i - 1 \in 1 .. Len(r) /\ (i - 1) + 1 = i
      /\ \A i, j \in 1 .. Len(r) : i + 1 = j + 1 => i = j
  BY <1>1
<1>3. Own(Head(q)) \subseteq GensOf(q)
  BY <1>1, <1>2, ZenonT(40) DEF GensOf, Own
<1>4. \A i \in 1 .. Len(q) : i # 1 => q[i] = r[i - 1]
  BY <1>1, <1>2
<1>5. GensOf(r) \subseteq GensOf(q) \ Own(Head(q))
  BY <1>1, <1>2 DEF GensOf, Own, Distinct
<1>6. GensOf(q) \ Own(Head(q)) \subseteq GensOf(r)
  <2> SUFFICES ASSUME NEW gen \in Gens, gen \notin Own(Head(q)),
                      NEW i \in 1 .. Len(q), Carries(q[i]), q[i].gen = gen
               PROVE  gen \in GensOf(r)
    BY Zenon DEF GensOf
  <2>1. i # 1
    BY <1>1, Zenon DEF Own
  <2>2. PICK j \in 1 .. Len(r) : r[j] = q[i]
    BY <1>2, <1>4, <2>1, Zenon
  <2> QED
    BY <2>2, Zenon DEF GensOf
<1>7. Distinct(r)
  BY <1>1, <1>2 DEF Distinct
<1> QED
  BY <1>1, <1>3, <1>5, <1>6, <1>7, Zenon

LEMMA GensRemove ==
    ASSUME NEW q \in Seq(Commands), NEW p \in 1 .. Len(q), NEW r, r = Without(q, p), Distinct(q)
    PROVE  /\ GensOf(r) = GensOf(q) \ Own(q[p]) /\ Distinct(r)
           /\ q[p] \in Commands /\ Own(q[p]) \subseteq GensOf(q)
<1>1. /\ Len(q) \in Nat /\ Len(r) = Len(q) - 1 /\ q[p] \in Commands
      /\ \A i \in 1 .. (Len(q) - 1) : r[i] = IF i < p THEN q[i] ELSE q[i + 1]
  <2>1. Len(q) \in Nat /\ q[p] \in Commands
    OBVIOUS
  <2> QED
    BY <2>1, WithoutElements, Zenon
<1> DEFINE back(i) == IF i < p THEN i ELSE i + 1
           forth(i) == IF i < p THEN i ELSE i - 1
<1>2. /\ \A i \in 1 .. Len(r) : back(i) \in 1 .. Len(q) /\ back(i) # p /\ r[i] = q[back(i)]
      /\ \A i \in 1 .. Len(q) : i # p => forth(i) \in 1 .. Len(r) /\ back(forth(i)) = i
      /\ \A i, j \in 1 .. Len(r) : back(i) = back(j) => i = j
  BY <1>1
<1> HIDE DEF back, forth
<1>3. Own(q[p]) \subseteq GensOf(q)
  BY Zenon DEF GensOf, Own
<1>4. \A i \in 1 .. Len(q) : i # p => q[i] = r[forth(i)]
  BY <1>2, Zenon
<1>5. GensOf(r) \subseteq GensOf(q) \ Own(q[p])
  BY <1>2, SMTT(30) DEF GensOf, Own, Distinct
<1>6. GensOf(q) \ Own(q[p]) \subseteq GensOf(r)
  BY <1>2, <1>4 DEF GensOf, Own
<1>7. Distinct(r)
  <2> SUFFICES ASSUME NEW i \in 1 .. Len(r), NEW j \in 1 .. Len(r), Carries(r[i]), Carries(r[j]), r[i].gen = r[j].gen
               PROVE  i = j
    BY Zenon DEF Distinct
  <2>1. PICK m \in 1 .. Len(q) : m = back(i) /\ r[i] = q[m]
    BY <1>2, Zenon
  <2>2. PICK n \in 1 .. Len(q) : n = back(j) /\ r[j] = q[n]
    BY <1>2, Zenon
  <2>3. m = n
    BY <2>1, <2>2, Zenon DEF Distinct
  <2> QED
    BY <1>2, <2>1, <2>2, <2>3, Zenon
<1> QED
  BY <1>1, <1>3, <1>5, <1>6, <1>7, Zenon

LEMMA GensReplace ==
    ASSUME NEW q \in Seq(Commands), NEW p \in 1 .. Len(q), NEW x \in Commands,
           NEW r, r = [q EXCEPT ![p] = x], Distinct(q), Own(x) \cap GensOf(q) = {}
    PROVE  /\ GensOf(r) = (GensOf(q) \ Own(q[p])) \cup Own(x) /\ Distinct(r)
           /\ Own(q[p]) \subseteq GensOf(q)
<1>1. Len(r) = Len(q) /\ r[p] = x /\ \A i \in 1 .. Len(q) : i # p => r[i] = q[i]
  OBVIOUS
<1>2. Own(q[p]) \subseteq GensOf(q)
  BY Zenon DEF GensOf, Own
<1>3. GensOf(r) \subseteq (GensOf(q) \ Own(q[p])) \cup Own(x)
  BY <1>1 DEF GensOf, Own, Distinct
<1>4. (GensOf(q) \ Own(q[p])) \cup Own(x) \subseteq GensOf(r)
  BY <1>1, Zenon DEF GensOf, Own
<1>5. \A i \in 1 .. Len(q) : Carries(q[i]) => q[i].gen \in GensOf(q)
  BY CarriesGen DEF GensOf, Carries
<1>6. Carries(x) => x.gen \in Own(x)
  BY OwnFacts, Zenon
<1>7. Distinct(r)
  BY <1>1, <1>5, <1>6 DEF Distinct
<1> QED
  BY <1>2, <1>3, <1>4, <1>7, Zenon

LEMMA GensTrim ==
    ASSUME NEW q \in Seq(Commands), NEW k \in 0 .. Len(q), NEW r, r = SubSeq(q, 1, k),
           \A i \in (k + 1) .. Len(q) : IsCancelAny(q[i]), Distinct(q)
    PROVE  r \in Seq(Commands) /\ GensOf(r) = GensOf(q) /\ Distinct(r) /\ Len(r) = k
<1>1. r \in Seq(Commands) /\ Len(r) = k /\ Len(q) \in Nat /\ \A i \in 1 .. k : r[i] = q[i]
  OBVIOUS
<1>2. \A i \in 1 .. k : i \in 1 .. Len(q)
  BY <1>1
<1>3. \A i \in 1 .. Len(q) : Carries(q[i]) => i \in 1 .. k
  BY <1>1 DEF Carries, IsCancelAny
<1> QED
  BY <1>1, <1>2, <1>3 DEF GensOf, Distinct

LEMMA GensSame ==
    ASSUME NEW q, NEW r, Len(r) = Len(q), Distinct(q),
           \A i \in 1 .. Len(q) : r[i].kind = q[i].kind /\ r[i].gen = q[i].gen
    PROVE  GensOf(r) = GensOf(q) /\ Distinct(r)
BY DEF GensOf, Distinct, Carries

(* A caller's hand takes another command.                                  *)
LEMMA HandTakes ==
    ASSUME HandsApart, hand \in [Clients -> Commands], NEW c \in Clients, NEW x \in Commands,
           hand' = [hand EXCEPT ![c] = x], Own(x) \cap Handed = {}, Carries(x) => x.from = NoClient
    PROVE  Handed' = (Handed \ Own(hand[c])) \cup Own(x) /\ HandsApart' /\ Own(hand[c]) \subseteq Handed
<1>1. hand'[c] = x /\ \A d \in Clients : d # c => hand'[d] = hand[d]
  BY Zenon
<1>2. Own(hand[c]) \subseteq Handed /\ Own(x) \subseteq Gens /\ \A d \in Clients : Own(hand[d]) \subseteq Handed
  BY Zenon DEF Handed, Own
<1>3. Handed' \subseteq (Handed \ Own(hand[c])) \cup Own(x)
  BY <1>1, Zenon DEF Handed, HandsApart
<1>4. (Handed \ Own(hand[c])) \cup Own(x) \subseteq Handed'
  BY <1>1, <1>2, Zenon DEF Handed
<1>5. HandsApart'
  BY <1>1, <1>2, Zenon DEF HandsApart
<1> QED
  BY <1>2, <1>3, <1>4, <1>5, Zenon

(* What an event adds to the generations that have begun and ended.        *)
LEMMA LogGrows ==
    ASSUME log \in Seq(Events), NEW e \in Events, log' = Append(log, e)
    PROVE  /\ e.type = "Started" => Begun' = Begun \cup {e.gen} /\ Ended' = Ended
           /\ e.type # "Started" => Begun' = Begun /\ Ended' = Ended \cup {e.gen}
<1>1. /\ Len(log) \in Nat /\ Len(log') = Len(log) + 1 /\ log'[Len(log')] = e
      /\ \A i \in 1 .. Len(log) : log'[i] = log[i]
  OBVIOUS
<1>2. /\ \A i \in 1 .. Len(log') : i \in 1 .. Len(log) \/ i = Len(log')
      /\ Len(log') \in 1 .. Len(log') /\ \A i \in 1 .. Len(log) : i \in 1 .. Len(log')
  BY <1>1
<1>3. e.gen \in Gens /\ e.type \in {"Started", "Finished", "Cancelled"}
  BY Zenon DEF Events
<1>4. CASE e.type = "Started"
  <2>1. Begun' = Begun \cup {e.gen}
    BY <1>1, <1>2, <1>3, <1>4, Zenon DEF Begun, HasStarted
  <2>2. Ended' = Ended
    BY <1>1, <1>2, <1>4, Zenon DEF Ended, HasEnded, IsTerminal
  <2> QED
    BY <1>4, <2>1, <2>2, Zenon
<1>5. CASE e.type # "Started"
  <2>1. Begun' = Begun
    BY <1>1, <1>2, <1>5, Zenon DEF Begun, HasStarted
  <2>2. Ended' = Ended \cup {e.gen}
    BY <1>1, <1>2, <1>3, <1>5 DEF Ended, HasEnded, IsTerminal
  <2> QED
    BY <1>5, <2>1, <2>2, Zenon
<1> QED
  BY <1>4, <1>5, Zenon

(* A generation that starts with none running, and one that ends once,     *)
(* leave the story in order.                                               *)
LEMMA StoryGoesOn ==
    ASSUME log \in Seq(Events), NEW e \in Events, log' = Append(log, e),
           EventOrder, OneAtATime, PredecessorWasSuperseded,
           e.gen \notin Ended,
           e.type = "Started" => e.gen \notin Begun /\ Begun \subseteq Ended,
           e.type = "Started" /\ e.rel # NoGen =>
               \E i \in 1 .. Len(log) : log[i] = Cancelled(e.rel, e.gen)
    PROVE  EventOrder' /\ OneAtATime' /\ PredecessorWasSuperseded'
<1>1. /\ Len(log) \in Nat /\ Len(log') = Len(log) + 1 /\ log'[Len(log')] = e
      /\ \A i \in 1 .. Len(log) : log'[i] = log[i] /\ log[i] \in Events
  OBVIOUS
<1>2. \A i \in 1 .. Len(log') : i \in 1 .. Len(log) \/ i = Len(log')
  BY <1>1
<1>3. /\ e.gen \in Gens /\ e.type \in {"Started", "Finished", "Cancelled"}
      /\ \A i \in 1 .. Len(log) : /\ log[i].gen \in Gens
                                  /\ log[i].type \in {"Started", "Finished", "Cancelled"}
  BY <1>1, Zenon DEF Events
<1>4. \A i \in 1 .. Len(log) : /\ log[i].type = "Started" => log[i].gen \in Begun
                               /\ log[i].type # "Started" => log[i].gen \in Ended
  BY <1>3, Zenon DEF Begun, HasStarted, Ended, HasEnded, IsTerminal
<1>5. EventOrder'
  <2> SUFFICES ASSUME NEW i \in 1 .. Len(log'), NEW j \in 1 .. Len(log'), i < j, log'[i].gen = log'[j].gen
               PROVE  log'[i].type = "Started" /\ IsTerminal(log'[j])
    BY Zenon DEF EventOrder, IsTerminal
  <2>1. CASE j \in 1 .. Len(log)
    <3>1. i \in 1 .. Len(log)
      BY <1>1, <2>1
    <3> QED
      BY <1>1, <2>1, <3>1, Zenon DEF EventOrder
  <2>2. CASE j = Len(log')
    <3>1. i \in 1 .. Len(log)
      BY <1>1, <2>2
    <3>2. log[i].gen = e.gen
      BY <1>1, <2>2, <3>1, Zenon
    <3>3. log[i].type = "Started" /\ e.type # "Started"
      BY <1>4, <3>1, <3>2, Zenon
    <3> QED
      BY <1>1, <1>3, <2>2, <3>1, <3>3, Zenon DEF IsTerminal
  <2> QED
    BY <1>2, <2>1, <2>2, Zenon
<1>6. OneAtATime'
  <2> SUFFICES ASSUME NEW i \in 1 .. Len(log'), NEW j \in 1 .. Len(log'), i < j,
                      log'[i].type = "Started", log'[j].type = "Started"
               PROVE  \E k \in (i + 1) .. (j - 1) : log'[k].gen = log'[i].gen /\ IsTerminal(log'[k])
    BY Zenon DEF OneAtATime, IsTerminal
  <2>1. i \in 1 .. Len(log)
    BY <1>1
  <2>2. CASE j \in 1 .. Len(log)
    <3>1. PICK k \in (i + 1) .. (j - 1) : log[k].gen = log[i].gen /\ IsTerminal(log[k])
      BY <1>1, <2>1, <2>2 DEF OneAtATime
    <3>2. k \in 1 .. Len(log)
      BY <1>1, <2>1, <2>2
    <3> QED
      BY <1>1, <2>1, <3>1, <3>2, Zenon
  <2>3. CASE j = Len(log')
    <3>1. log[i].gen \in Ended /\ log[i].type = "Started"
      BY <1>1, <1>4, <2>1, <2>3, Zenon
    <3>2. PICK k \in 1 .. Len(log) : log[k].gen = log[i].gen /\ IsTerminal(log[k])
      BY <3>1, Zenon DEF Ended, HasEnded
    <3>3. k # i /\ ~(k < i)
      BY <2>1, <3>1, <3>2, Zenon DEF EventOrder, IsTerminal
    <3>4. k \in (i + 1) .. (j - 1)
      BY <1>1, <2>1, <2>3, <3>3
    <3> QED
      BY <1>1, <2>1, <3>2, <3>4, Zenon
  <2> QED
    BY <1>2, <2>2, <2>3, Zenon
<1>7. PredecessorWasSuperseded'
  <2> SUFFICES ASSUME NEW j \in 1 .. Len(log'), log'[j].type = "Started", log'[j].rel # NoGen
               PROVE  \E i \in 1 .. (j - 1) : log'[i] = Cancelled(log'[j].rel, log'[j].gen)
    BY Zenon DEF PredecessorWasSuperseded, Cancelled, Event
  <2>1. CASE j \in 1 .. Len(log)
    <3>1. PICK i \in 1 .. (j - 1) : log[i] = Cancelled(log[j].rel, log[j].gen)
      BY <1>1, <2>1, Zenon DEF PredecessorWasSuperseded
    <3>2. i \in 1 .. Len(log)
      BY <1>1, <2>1
    <3> QED
      BY <1>1, <2>1, <3>1, <3>2, Zenon
  <2>2. CASE j = Len(log')
    <3>1. PICK i \in 1 .. Len(log) : log[i] = Cancelled(e.rel, e.gen)
      BY <1>1, <2>2, Zenon
    <3>2. i \in 1 .. (j - 1)
      BY <1>1, <2>2
    <3> QED
      BY <1>1, <2>2, <3>1, <3>2, Zenon
  <2> QED
    BY <1>2, <2>1, <2>2, Zenon
<1> QED
  BY <1>5, <1>6, <1>7, Zenon

LEMMA ToldStays ==
    ASSUME log \in Seq(Events), NEW e \in Events, log' = Append(log, e)
    PROVE  \A x : (\E i \in 1 .. Len(log) : log[i] = x) => \E i \in 1 .. Len(log') : log'[i] = x
<1>1. /\ Len(log) \in Nat /\ Len(log') = Len(log) + 1
      /\ \A i \in 1 .. Len(log) : log'[i] = log[i]
  OBVIOUS
<1>2. \A i \in 1 .. Len(log) : i \in 1 .. Len(log')
  BY <1>1
<1> QED
  BY <1>1, <1>2, Zenon
-----------------------------------------------------------------------------
(* Each conjunct of the invariant depends on some of the state.            *)
placeVars == <<nextId, hand, queue, active, pending, held, log, vanished>>

LEMMA Frame ==
    ASSUME IInv
    PROVE  /\ UNCHANGED placeVars => InOnePlace'
           /\ UNCHANGED hand => HandsApart' /\ Handed' = Handed
           /\ UNCHANGED queue => Distinct(queue)' /\ Queued' = Queued
           /\ UNCHANGED <<active, pending, held>> => Taken' = Taken
           /\ UNCHANGED log => Begun' = Begun /\ Ended' = Ended
           /\ UNCHANGED <<active, pending, cpc, held>> => SlotsInTurn'
           /\ UNCHANGED <<log, pending, predecessor>> => Story'
           /\ UNCHANGED <<closed, dropping, pc, hand, cpc, queue, active, pending>> => Closing'
           /\ UNCHANGED nextId => Issued' = Issued
<1>1. UNCHANGED placeVars => InOnePlace'
  BY ZenonT(40) DEF IInv, placeVars, InOnePlace, Issued, Handed, Queued, Taken, Begun, Ended, HasStarted, HasEnded
<1>2. UNCHANGED hand => HandsApart' /\ Handed' = Handed
  BY Zenon DEF IInv, HandsApart, Handed
<1>3. UNCHANGED queue => Distinct(queue)' /\ Queued' = Queued
  BY Zenon DEF IInv, Queued
<1>4. UNCHANGED <<active, pending, held>> => Taken' = Taken
  BY Zenon DEF Taken
<1>5. UNCHANGED log => Begun' = Begun /\ Ended' = Ended
  BY Zenon DEF Begun, Ended, HasStarted, HasEnded
<1>6. UNCHANGED <<active, pending, cpc, held>> => SlotsInTurn'
  BY Zenon DEF IInv, SlotsInTurn
<1>7. UNCHANGED <<log, pending, predecessor>> => Story'
  BY DEF IInv, Story, EventOrder, OneAtATime, PredecessorWasSuperseded, PredecessorIsTold
<1>8. UNCHANGED <<closed, dropping, pc, hand, cpc, queue, active, pending>> => Closing'
  BY DEF IInv, Closing
<1>9. UNCHANGED nextId => Issued' = Issued
  BY Zenon DEF Issued
<1> QED
  BY <1>1, <1>2, <1>3, <1>4, <1>5, <1>6, <1>7, <1>8, <1>9, Zenon

(* The types that the steps below use.                                     *)
LEMMA Typed ==
    ASSUME IInv
    PROVE  /\ queue \in Seq(Commands) /\ hand \in [Clients -> Commands] /\ held \in Commands
           /\ log \in Seq(Events) /\ nextId \in 0 .. MaxRuns /\ vanished \subseteq Gens
           /\ active \in Gens \cup {NoGen} /\ pending \in Gens \cup {NoGen} /\ predecessor \in Gens \cup {NoGen}
           /\ Distinct(queue) /\ Queued = GensOf(queue) /\ HandsApart
           /\ NoGen \notin Gens /\ Handed \subseteq Gens /\ Queued \subseteq Gens /\ Taken \subseteq Gens
           /\ Begun \subseteq Gens /\ Ended \subseteq Gens
<1>1. /\ queue \in Seq(Commands) /\ hand \in [Clients -> Commands] /\ held \in Commands
      /\ log \in Seq(Events) /\ nextId \in 0 .. MaxRuns /\ vanished \subseteq Gens
      /\ active \in Gens \cup {NoGen} /\ pending \in Gens \cup {NoGen} /\ predecessor \in Gens \cup {NoGen}
  BY Zenon DEF IInv, TypeInv, TypeOK
<1>2. Distinct(queue) /\ Queued = GensOf(queue) /\ HandsApart /\ NoGen \notin Gens
  BY GensFacts, Zenon DEF IInv, Queued
<1>3. Handed \subseteq Gens /\ Queued \subseteq Gens /\ Begun \subseteq Gens /\ Ended \subseteq Gens
  BY Zenon DEF Handed, Queued, GensOf, Begun, Ended
<1>4. Taken \subseteq Gens
  BY <1>1, Zenon DEF Taken, Own
<1> QED
  BY <1>1, <1>2, <1>3, <1>4, Zenon

-----------------------------------------------------------------------------
(* The invariant holds initially, and every step of a caller keeps it.     *)

LEMMA InitIInv == Init => IInv
<1> SUFFICES ASSUME Init PROVE IInv
  BY Zenon
<1>1. TypeInv
  BY TypeInit, Zenon
<1>2. NoCommand \in Commands /\ Own(NoCommand) = {} /\ ~Carries(NoCommand) /\ ~IsRun(NoCommand)
      /\ NoCommand.kind # "StartServices"
  BY CommandTypes, OwnFacts, Zenon DEF NoCommand, Command, IsRun
<1>3. Handed = {} /\ Queued = {} /\ Taken = {} /\ Begun = {} /\ Ended = {} /\ Issued = {}
  <2>1. Len(<< >>) = 0 /\ 1 .. 0 = {}
    OBVIOUS
  <2>2. Handed = {} /\ Taken = {}
    BY <1>2, Zenon DEF Init, Handed, Taken
  <2>3. Queued = {} /\ Begun = {} /\ Ended = {} /\ Issued = {}
    BY <2>1, Zenon DEF Init, Queued, GensOf, Begun, HasStarted, Ended, HasEnded, Issued
  <2> QED
    BY <2>2, <2>3, Zenon
<1>4. InOnePlace
  BY <1>3, Zenon DEF Init, InOnePlace
<1>5. HandsApart
  BY <1>2, Zenon DEF Init, HandsApart
<1>6. Distinct(queue)
  BY DEF Init, Distinct
<1>7. SlotsInTurn
  BY <1>2, Zenon DEF Init, SlotsInTurn
<1>8. Story
  BY DEF Init, Story, EventOrder, OneAtATime, PredecessorWasSuperseded, PredecessorIsTold
<1>9. Closing
  BY Zenon DEF Init, Closing
<1> QED
  BY <1>1, <1>4, <1>5, <1>6, <1>7, <1>8, <1>9, Zenon DEF IInv

(* The calls: an id is handed out, and a command taken in hand.            *)
LEMMA CallKeeps ==
    ASSUME IInv, NEW c \in Clients, Call(c)
    PROVE  IInv'
<1>1. TypeInv'
  BY TypeCall, Zenon DEF IInv
<1>2. UNCHANGED <<queue, closed, active, pending, predecessor, held, cpc, log, vanished>>
  BY Zenon DEF Call, PrepareRun, CancelRunningTasks, CancelGeneration, ReconcileServices, StartServices, DropWorker,
         schedulerVars, consumerVars
<1>3. PICK x \in Commands, step \in {"prepared", "send"} :
        /\ Take(c, x, step)
        /\ \/ ~Carries(x) /\ nextId' = nextId
           \/ Carries(x) /\ x.gen = nextId + 1 /\ nextId' = nextId + 1 /\ nextId < MaxRuns
        /\ Carries(x) => x.from = NoClient
  <2>1. /\ \A gen \in Gens : /\ Command("Run", gen, NoClient) \in Commands
                             /\ Command("StartServices", gen, NoClient) \in Commands
                             /\ Command("CancelExact", gen, c) \in Commands
        /\ Command("CancelAny", NoGen, NoClient) \in Commands /\ Command("Reconcile", NoGen, c) \in Commands
    BY CommandTypes, Zenon
  <2>2. nextId < MaxRuns => nextId + 1 \in Gens
    BY Typed, BoundsAssumption DEF Gens
  <2>3. CASE \E withServices \in BOOLEAN : PrepareRun(c, withServices)
    <3>1. Carries(Command("Run", nextId + 1, NoClient)) /\ Command("Run", nextId + 1, NoClient).gen = nextId + 1
          /\ Command("Run", nextId + 1, NoClient).from = NoClient
      BY Zenon DEF Carries, Command
    <3> QED
      BY <2>1, <2>2, <2>3, <3>1, Zenon DEF PrepareRun
  <2>4. CASE CancelRunningTasks(c)
    <3>1. ~Carries(Command("CancelAny", NoGen, NoClient))
      BY Zenon DEF Carries, Command
    <3> QED
      BY <2>1, <2>4, <3>1, Zenon DEF CancelRunningTasks
  <2>5. CASE \E gen \in Gens : CancelGeneration(c, gen)
    <3>1. \A gen : ~Carries(Command("CancelExact", gen, c))
      BY Zenon DEF Carries, Command
    <3> QED
      BY <2>1, <2>5, <3>1, Zenon DEF CancelGeneration
  <2>6. CASE ReconcileServices(c)
    <3>1. ~Carries(Command("Reconcile", NoGen, c))
      BY Zenon DEF Carries, Command
    <3> QED
      BY <2>1, <2>6, <3>1, Zenon DEF ReconcileServices
  <2>7. CASE StartServices(c)
    <3>1. Carries(Command("StartServices", nextId + 1, NoClient)) /\ Command("StartServices", nextId + 1, NoClient).gen = nextId + 1
          /\ Command("StartServices", nextId + 1, NoClient).from = NoClient
      BY Zenon DEF Carries, Command
    <3> QED
      BY <2>1, <2>2, <2>7, <3>1, Zenon DEF StartServices
  <2>8. CASE DropWorker(c)
    <3>1. ~Carries(Command("CancelAny", NoGen, NoClient))
      BY Zenon DEF Carries, Command
    <3> QED
      BY <2>1, <2>8, <3>1, Zenon DEF DropWorker
  <2> QED
    BY <2>3, <2>4, <2>5, <2>6, <2>7, <2>8, Zenon DEF Call
<1>4. pc[c] = "idle" /\ hand[c] = NoCommand /\ Own(hand[c]) = {}
  <2>1. pc[c] = "idle"
    BY Zenon DEF Call, PrepareRun, CancelRunningTasks, CancelGeneration, ReconcileServices, StartServices, DropWorker, CanCall
  <2> QED
    BY <2>1, CommandTypes, OwnFacts, Zenon DEF IInv, Closing
<1>5. /\ Own(x) \cap Issued = {} /\ Issued' = Issued \cup Own(x)
  <2>1. Own(x) = IF Carries(x) THEN {x.gen} ELSE {}
    BY OwnFacts, Zenon
  <2>2. nextId \in Nat
    BY Typed, BoundsAssumption
  <2> QED
    BY <1>3, <2>1, <2>2 DEF Issued
<1>6. Handed' = Handed \cup Own(x) /\ HandsApart'
  <2>1. Handed \subseteq Issued
    BY Zenon DEF IInv, InOnePlace
  <2>2. Own(x) \cap Handed = {} /\ hand' = [hand EXCEPT ![c] = x] /\ (Carries(x) => x.from = NoClient)
    BY <1>3, <1>5, <2>1, Zenon DEF Take
  <2>3. HandsApart /\ hand \in [Clients -> Commands]
    BY Typed, Zenon
  <2>4. Handed' = (Handed \ Own(hand[c])) \cup Own(x) /\ HandsApart'
    BY <2>2, <2>3, HandTakes, Zenon
  <2> QED
    BY <1>4, <2>4, Zenon
<1>7. InOnePlace'
  <2>1. Queued' = Queued /\ Taken' = Taken /\ Begun' = Begun /\ Ended' = Ended
    BY <1>2, Frame, Zenon
  <2> QED
    BY <1>2, <1>5, <1>6, <2>1, Zenon DEF IInv, InOnePlace
<1>8. ~closed
  <2>1. ~dropping
    BY Zenon DEF Call, PrepareRun, CancelRunningTasks, CancelGeneration, ReconcileServices, StartServices, DropWorker, CanCall
  <2> QED
    BY <2>1, Zenon DEF IInv, Closing
<1>9. Closing'
  BY <1>2, <1>3, <1>8, Typed, Zenon DEF IInv, TypeInv, TypeOK, Closing, Take
<1> QED
  BY <1>1, <1>2, <1>6, <1>7, <1>9, Frame, Zenon DEF IInv

(* A caller lets go of its command, or keeps one that brings no generation.*)
LEMMA Returning ==
    ASSUME IInv, NEW c \in Clients, Return(c) \/ (Take(c, NoCommand, "idle") /\ pc[c] = "waiting"),
           pc[c] # "idle", UNCHANGED <<closed, dropping, cpc, active, pending>>
    PROVE  /\ Handed' = Handed \ Own(hand[c]) /\ Own(hand[c]) \subseteq Handed /\ HandsApart' /\ Closing'
           /\ pc[c] = "waiting" => Own(hand[c]) = {}
<1>1. HandsApart /\ hand \in [Clients -> Commands] /\ NoCommand \in Commands /\ hand[c] \in Commands
      /\ pc \in [Clients -> {"idle", "prepared", "send", "purge", "waiting"}]
  BY Typed, CommandTypes, Zenon DEF IInv, TypeInv, TypeOK
<1>2. hand[c].from = c => ~Carries(hand[c])
  BY <1>1, ClientsAssumption, Zenon DEF HandsApart
<1>3. ~closed /\ cpc # "done"
  BY Zenon DEF IInv, Closing
<1>4. pc[c] = "waiting" => Own(hand[c]) = {}
  <2>1. pc[c] = "waiting" => hand[c].from = c
    BY Zenon DEF IInv, Closing
  <2> QED
    BY <1>1, <1>2, <2>1, OwnFacts, Zenon
<1>5. Own(hand[c]) \subseteq Handed
  BY Zenon DEF Handed, Own
<1>6. CASE hand' = hand /\ hand[c].from = c /\ pc' = [pc EXCEPT ![c] = "waiting"]
  <2>1. Own(hand[c]) = {}
    BY <1>1, <1>2, <1>6, OwnFacts, Zenon
  <2>2. Handed' = Handed /\ HandsApart'
    BY <1>6, Frame, Zenon
  <2>3. Closing'
    BY <1>1, <1>3, <1>6, Zenon DEF IInv, Closing
  <2> QED
    BY <1>4, <2>1, <2>2, <2>3, Zenon
<1>7. CASE hand' = [hand EXCEPT ![c] = NoCommand] /\ pc' = [pc EXCEPT ![c] = "idle"]
  <2>1. Own(NoCommand) = {} /\ ~Carries(NoCommand)
    BY <1>1, OwnFacts, Zenon
  <2>2. Handed' = (Handed \ Own(hand[c])) \cup Own(NoCommand) /\ HandsApart'
    BY <1>1, <1>7, <2>1, HandTakes, Zenon
  <2>3. Closing'
    BY <1>1, <1>3, <1>7, Zenon DEF IInv, Closing
  <2> QED
    BY <1>4, <1>5, <2>1, <2>2, <2>3, Zenon
<1> QED
  BY <1>6, <1>7, Zenon DEF Return, Take

(* A caller sends a generation it has in hand, or a command without one.   *)
LEMMA Sending ==
    ASSUME IInv, TypeInv', NEW c \in Clients, Return(c), pc[c] # "idle",
           UNCHANGED <<nextId, closed, dropping, consumerVars, vanished>>,
           NEW lost \in SUBSET Queued,
           Queued' = (Queued \ lost) \cup Own(hand[c]), Distinct(queue)',
           \/ lost = {} /\ log' = log
           \/ \E gen \in lost, rel \in Gens \cup {NoGen} :
                lost = {gen} /\ log' = Append(log, Cancelled(gen, rel))
    PROVE  IInv'
<1>1. /\ Handed' = Handed \ Own(hand[c]) /\ Own(hand[c]) \subseteq Handed /\ HandsApart' /\ Closing'
  BY Returning, Zenon DEF consumerVars
<1>2. Taken' = Taken /\ SlotsInTurn' /\ Issued' = Issued /\ active' = active /\ vanished' = vanished
  BY Frame, Zenon DEF consumerVars
<1>3. CASE lost = {} /\ log' = log
  <2>1. Begun' = Begun /\ Ended' = Ended /\ Story'
    BY <1>3, Frame, Zenon DEF consumerVars
  <2>2. InOnePlace'
    BY <1>1, <1>2, <1>3, <2>1, Zenon DEF IInv, InOnePlace
  <2> QED
    BY <1>1, <1>2, <2>1, <2>2, Zenon DEF IInv
<1>4. ASSUME NEW gen \in lost, NEW rel \in Gens \cup {NoGen}, lost = {gen}, log' = Append(log, Cancelled(gen, rel))
      PROVE  IInv'
  <2>1. gen \in Queued /\ gen \in Gens
    BY Typed, Zenon
  <2>2. PICK e \in Events : e = Cancelled(gen, rel) /\ e.gen = gen /\ e.type = "Cancelled"
    BY <2>1, EventTypes, Zenon DEF Cancelled, Event
  <2>3. log \in Seq(Events) /\ log' = Append(log, e)
    BY <1>4, <2>2, Typed, Zenon
  <2>4. Begun' = Begun /\ Ended' = Ended \cup {gen}
    BY <2>2, <2>3, LogGrows, Zenon
  <2>5. gen \notin Ended
    BY <2>1, Zenon DEF IInv, InOnePlace
  <2>6. EventOrder' /\ OneAtATime' /\ PredecessorWasSuperseded'
    BY <2>2, <2>3, <2>5, StoryGoesOn, Zenon DEF IInv, Story
  <2>7. PredecessorIsTold'
    BY <2>3, ToldStays, Zenon DEF IInv, Story, PredecessorIsTold, consumerVars, Cancelled, Event
  <2>8. InOnePlace'
    BY <1>1, <1>2, <1>4, <2>1, <2>4, Zenon DEF IInv, InOnePlace
  <2> QED
    BY <1>1, <1>2, <2>6, <2>7, <2>8, Zenon DEF IInv, Story
<1> QED
  BY <1>3, <1>4, Zenon

LEMMA EnqueueKeeps ==
    ASSUME IInv, NEW c \in Clients,
           EnqueueRun(c) \/ EnqueueCancelExact(c) \/ EnqueueCancelAny(c) \/ EnqueueDirect(c)
    PROVE  IInv'
<1>1. TypeInv'
  BY TypeCallerStep, Zenon DEF IInv, CallerStep
<1>2. /\ queue \in Seq(Commands) /\ Distinct(queue) /\ hand[c] \in Commands /\ Queued = GensOf(queue)
      /\ Queued' = GensOf(queue')
  BY Typed, Zenon DEF Queued
<1>3. Own(hand[c]) \cap Queued = {}
  BY Zenon DEF IInv, InOnePlace, Handed, Own
<1>4. UNCHANGED <<nextId, closed, dropping, consumerVars, vanished>> /\ Return(c) /\ pc[c] # "idle"
  BY Zenon DEF EnqueueRun, EnqueueCancelExact, EnqueueCancelAny, EnqueueDirect, Sends
<1>5. CASE log' = log /\ queue' = Append(queue, hand[c])
  <2>1. Queued' = Queued \cup Own(hand[c]) /\ Distinct(queue)'
    BY <1>2, <1>3, <1>5, GensAppend, Zenon
  <2> QED
    BY <1>1, <1>4, <1>5, <2>1, Sending, Zenon
<1>6. CASE EnqueueRun(c)
  <2>1. PICK k \in 0 .. Len(queue) :
          /\ TrimmedTo(k)
          /\ LET kept == SubSeq(queue, 1, k) IN
              \/ \E p \in 1 .. k :
                  /\ LastRunAt(kept, p)
                  /\ queue' = [kept EXCEPT ![p] = hand[c]]
                  /\ Emit(Cancelled(kept[p].gen, hand[c].gen))
              \/ /\ HoldsNoRun(kept)
                 /\ queue' = Append(kept, hand[c])
                 /\ UNCHANGED log
    BY <1>6, Zenon DEF EnqueueRun
  <2>2. PICK kept : kept = SubSeq(queue, 1, k)
    BY Zenon
  <2>3. kept \in Seq(Commands) /\ GensOf(kept) = Queued /\ Distinct(kept) /\ Len(kept) = k
    BY <1>2, <2>1, <2>2, GensTrim, Zenon DEF TrimmedTo
  <2>4. CASE queue' = Append(kept, hand[c]) /\ UNCHANGED log
    <3>1. Queued' = Queued \cup Own(hand[c]) /\ Distinct(queue)'
      BY <1>2, <1>3, <2>3, <2>4, GensAppend, ZenonT(40)
    <3> QED
      BY <1>1, <1>4, <2>4, <3>1, Sending, Zenon
  <2>5. ASSUME NEW p \in 1 .. k, LastRunAt(kept, p), queue' = [kept EXCEPT ![p] = hand[c]],
               Emit(Cancelled(kept[p].gen, hand[c].gen))
        PROVE  IInv'
    <3>1. kept[p] \in Commands /\ p \in 1 .. Len(kept)
      BY <2>3
    <3>2. Carries(kept[p]) /\ Own(kept[p]) = {kept[p].gen}
      BY <2>5, <3>1, OwnFacts, Zenon DEF LastRunAt, IsRun, Carries
    <3>3. /\ Queued' = (Queued \ Own(kept[p])) \cup Own(hand[c]) /\ Distinct(queue)'
          /\ Own(kept[p]) \subseteq Queued
      <4>1. Own(hand[c]) \cap GensOf(kept) = {}
        BY <1>3, <2>3, Zenon
      <4>2. PICK x \in Commands : x = hand[c]
        BY <1>2, Zenon
      <4>3. PICK r : r = queue'
        BY Zenon
      <4>4. r = [kept EXCEPT ![p] = x] /\ Own(x) \cap GensOf(kept) = {}
        BY <2>5, <4>1, <4>2, <4>3, Zenon
      <4>5. /\ GensOf(r) = (GensOf(kept) \ Own(kept[p])) \cup Own(x) /\ Distinct(r)
            /\ Own(kept[p]) \subseteq GensOf(kept)
        BY <2>3, <3>1, <4>4, GensReplace, Zenon
      <4> QED
        BY <1>2, <2>3, <4>2, <4>3, <4>5, Zenon
    <3>4. hand[c].gen \in Gens
      BY <1>2, <1>6, CarriesGen, Zenon DEF EnqueueRun, Sends
    <3> QED
      BY <1>1, <1>4, <2>5, <3>2, <3>3, <3>4, Sending, Zenon DEF Emit
  <2> QED
    BY <2>1, <2>2, <2>4, <2>5, Zenon
<1>7. CASE EnqueueCancelExact(c)
  <2>1. hand[c].kind = "CancelExact" /\ Own(hand[c]) = {} /\ hand[c].gen \in Gens
    BY <1>2, <1>7, OwnFacts, CarriesGen, Zenon DEF EnqueueCancelExact, Sends, Carries
  <2>2. ASSUME NEW p \in 1 .. Len(queue), QueuedAt(hand[c].gen, p), queue' = Without(queue, p),
               Emit(Cancelled(hand[c].gen, NoGen))
        PROVE  IInv'
    <3>1. queue[p] \in Commands
      BY <1>2
    <3>2. Own(queue[p]) = {hand[c].gen}
      BY <2>2, <3>1, OwnFacts, Zenon DEF QueuedAt, IsRun, Carries
    <3>3. Queued' = Queued \ {hand[c].gen} /\ Distinct(queue)' /\ hand[c].gen \in Queued
      BY <1>2, <2>2, <3>2, GensRemove, Zenon
    <3> QED
      BY <1>1, <1>4, <2>1, <2>2, <3>3, Sending, Zenon DEF Emit
  <2> QED
    BY <1>5, <1>7, <2>2, Zenon DEF EnqueueCancelExact
<1>8. CASE EnqueueCancelAny(c) \/ EnqueueDirect(c)
  BY <1>5, <1>8, Zenon DEF EnqueueCancelAny, EnqueueDirect
<1> QED
  BY <1>6, <1>7, <1>8, Zenon

(* The loop that discards queued runs keeps the caller's hand.             *)
LEMMA PurgeKeeps ==
    ASSUME IInv, NEW c \in Clients, PurgeQueuedRun(c)
    PROVE  IInv'
<1>1. TypeInv'
  BY TypeCallerStep, Zenon DEF IInv, CallerStep
<1>2. PICK p \in 1 .. Len(queue) :
        FirstRunAt(queue, p) /\ queue' = Without(queue, p) /\ Emit(Cancelled(queue[p].gen, NoGen))
  BY Zenon DEF PurgeQueuedRun
<1>3. queue \in Seq(Commands) /\ Distinct(queue) /\ Queued = GensOf(queue) /\ Queued' = GensOf(queue')
      /\ queue[p] \in Commands
  BY Typed DEF Queued
<1>4. PICK gen \in Gens : gen = queue[p].gen /\ Own(queue[p]) = {gen}
  BY <1>2, <1>3, OwnFacts, Zenon DEF FirstRunAt, IsRun, Carries
<1>5. Queued' = Queued \ {gen} /\ Distinct(queue)' /\ gen \in Queued
  BY <1>2, <1>3, <1>4, GensRemove, Zenon
<1>6. /\ UNCHANGED <<nextId, closed, dropping, hand, cpc, active, pending, predecessor, held, vanished>>
      /\ pc[c] # "idle" /\ pc' = [pc EXCEPT ![c] = "purge"]
  BY Zenon DEF PurgeQueuedRun, consumerVars, Sends
<1>7. PICK e \in Events : e = Cancelled(gen, NoGen) /\ e.gen = gen /\ e.type = "Cancelled"
  <2>1. NoGen \in Gens \cup {NoGen}
    BY Zenon
  <2>2. Cancelled(gen, NoGen) \in Events
    BY <2>1, EventTypes, Zenon
  <2> QED
    BY <2>2, Zenon DEF Cancelled, Event
<1>8. log \in Seq(Events) /\ log' = Append(log, e)
  BY <1>2, <1>4, <1>7, Typed, Zenon DEF Emit
<1>9. Begun' = Begun /\ Ended' = Ended \cup {gen}
  BY <1>7, <1>8, LogGrows, Zenon
<1>10. gen \notin Ended
  BY <1>5, Zenon DEF IInv, InOnePlace
<1>11. EventOrder' /\ OneAtATime' /\ PredecessorWasSuperseded'
  BY <1>7, <1>8, <1>10, StoryGoesOn, Zenon DEF IInv, Story
<1>12. PredecessorIsTold'
  BY <1>6, <1>8, ToldStays, Zenon DEF IInv, Story, PredecessorIsTold, Cancelled, Event
<1>13. Handed' = Handed /\ HandsApart' /\ Taken' = Taken /\ SlotsInTurn' /\ Issued' = Issued
  BY <1>6, Frame, Zenon
<1>14. InOnePlace'
  BY <1>5, <1>6, <1>9, <1>13 DEF IInv, InOnePlace
<1>15. Closing'
  BY <1>6, Zenon DEF IInv, TypeInv, TypeOK, Closing
<1> QED
  BY <1>1, <1>5, <1>11, <1>12, <1>13, <1>14, <1>15, Zenon DEF IInv, Story

(* The other steps of the callers move no generation.                      *)
LEMMA CallerKeeps ==
    ASSUME IInv, NEW c \in Clients, CallerStep(c)
    PROVE  IInv'
<1>1. TypeInv'
  BY TypeCallerStep, Zenon DEF IInv
<1>2. CASE SignalRun(c)
  <2>1. /\ UNCHANGED <<nextId, queue, closed, dropping, hand, cpc, active, pending, predecessor, held, log, vanished>>
        /\ pc[c] = "prepared" /\ pc' = [pc EXCEPT ![c] = "send"]
    BY <1>2, Zenon DEF SignalRun, consumerVars
  <2>2. Closing'
    BY <2>1, Zenon DEF IInv, TypeInv, TypeOK, Closing
  <2> QED
    BY <1>1, <2>1, <2>2, Frame, Zenon DEF IInv, placeVars
<1>3. CASE EnqueueRun(c) \/ EnqueueCancelExact(c) \/ EnqueueCancelAny(c) \/ EnqueueDirect(c)
  BY <1>3, EnqueueKeeps, Zenon
<1>4. CASE PurgeQueuedRun(c)
  BY <1>4, PurgeKeeps, Zenon
<1>5. CASE Receive(c)
  <2>1. /\ UNCHANGED <<nextId, queue, closed, dropping, cpc, active, pending, predecessor, held, log, vanished>>
        /\ pc[c] = "waiting" /\ Take(c, NoCommand, "idle")
    BY <1>5, Zenon DEF Receive, consumerVars, schedulerVars
  <2>2. Handed' = Handed /\ HandsApart' /\ Closing'
    BY <2>1, Returning, Zenon
  <2>3. InOnePlace'
    BY <2>1, <2>2, Frame, Zenon DEF IInv, InOnePlace
  <2> QED
    BY <1>1, <2>1, <2>2, <2>3, Frame, Zenon DEF IInv
<1> QED
  BY <1>2, <1>3, <1>4, <1>5, Zenon DEF CallerStep

LEMMA GiveUpKeeps ==
    ASSUME IInv, NEW c \in Clients, GiveUp(c)
    PROVE  IInv'
<1>1. TypeInv'
  BY TypeStep, Zenon DEF IInv, Next
<1>2. /\ UNCHANGED <<nextId, closed, dropping, cpc, active, pending, predecessor, log, vanished>>
      /\ pc[c] = "waiting" /\ Take(c, NoCommand, "idle") /\ held' = Deaf(held, c)
      /\ queue' = [i \in 1 .. Len(queue) |-> Deaf(queue[i], c)]
  BY Zenon DEF GiveUp
<1>3. Handed' = Handed /\ HandsApart' /\ Closing'
  BY <1>2, Returning, Zenon
<1>4. queue \in Seq(Commands) /\ held \in Commands /\ Distinct(queue) /\ Queued = GensOf(queue) /\ Queued' = GensOf(queue')
  BY Typed, Zenon DEF Queued
<1>5. /\ Len(queue') = Len(queue)
      /\ \A i \in 1 .. Len(queue) : queue'[i].kind = queue[i].kind /\ queue'[i].gen = queue[i].gen
  BY <1>2, <1>4, DeafQueue, Zenon
<1>6. Queued' = Queued /\ Distinct(queue)'
  BY <1>4, <1>5, GensSame, Zenon
<1>7. held'.kind = held.kind /\ held'.gen = held.gen
  BY <1>2, <1>4, DeafType, Zenon
<1>8. Taken' = Taken
  BY <1>2, <1>7, Zenon DEF Taken, Own, Carries
<1>9. held = NoCommand => held' = NoCommand
  BY <1>2, ClientsAssumption DEF Deaf, NoCommand, Command
<1>10. SlotsInTurn'
  BY <1>2, <1>7, <1>9, Zenon DEF IInv, SlotsInTurn, IsRun
<1>11. InOnePlace'
  BY <1>2, <1>3, <1>6, <1>8, Frame, Zenon DEF IInv, InOnePlace
<1> QED
  BY <1>1, <1>2, <1>3, <1>6, <1>10, <1>11, Frame, Zenon DEF IInv
=============================================================================
