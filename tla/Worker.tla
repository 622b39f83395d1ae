------------------------------- MODULE Worker -------------------------------
(***************************************************************************)
(* The run scheduler of the non-blocking watcher (workers.rs): the command *)
(* queue shared by every caller of `Worker`, the cancellation tokens, and  *)
(* the one consumer thread that starts, supersedes, cancels and finishes   *)
(* generations through the executor.                                       *)
(*                                                                         *)
(* A caller's `send` takes two locks one after the other, so it is two     *)
(* steps: it trips the tokens of the registered generations, and later it  *)
(* enters the queue.  The consumer's executor calls are single steps here  *)
(* (Executor refines what happens inside one); a generation is its id, and *)
(* its plan is reduced to whether it holds managed services.               *)
(***************************************************************************)
EXTENDS Integers, Sequences, FiniteSets

CONSTANTS
    Clients,     \* threads that call Worker: the watch loop, control, reload
    NoClient,    \* a reply channel nobody listens to
    MaxRuns,     \* bound on the generation ids handed out
    MaxQueue,    \* bound on the commands queued or about to be queued
    Calls        \* Calls[c]: the calls that c makes

ASSUME ClientsAssumption == NoClient \notin Clients
ASSUME BoundsAssumption == MaxRuns \in Nat \ {0} /\ MaxQueue \in Nat \ {0}
ASSUME CallsAssumption ==
    Calls \in [Clients -> SUBSET {"Run", "CancelExact", "CancelAny", "Services", "Drop"}]

VARIABLES
    nextId,      \* next_run_id
    queue,       \* SchedulerState.queue
    closed,      \* SchedulerState.closed
    registered,  \* the keys of active_cancellations
    tripped,     \* generations whose CancellationToken is set
    pc, hand,    \* per caller: where it is in its call, the command it sends
    answer,      \* per caller: what its reply channel holds
    dropping,    \* Drop for Worker has begun
    cpc, held,   \* the consumer: where it is, the command it has popped
    active,      \* the consumer's `active` run, NoGen when None
    pending,     \* the consumer's `pending` request, NoGen when None
    predecessor, \* the predecessor recorded in the pending request
    serving,     \* generations whose plan or run holds services
    log,         \* the events handed to the event sink, in order
    vanished     \* generations that left the worker without an event

callerVars == <<pc, hand, answer, dropping>>
schedulerVars == <<queue, closed, registered, tripped>>
consumerVars == <<cpc, held, active, pending, predecessor>>
vars == <<nextId, schedulerVars, callerVars, consumerVars, serving, log, vanished>>

NoGen == 0
Gens == 1 .. MaxRuns
Issued == 1 .. nextId

(***************************************************************************)
(* WorkerCommand and the events of the sink.  `gen` is the run id of a Run *)
(* or StartServices and the generation of an exact Cancel; `from` is the   *)
(* caller that holds the receiving end of the reply channel.  An event's   *)
(* `rel` is the predecessor of a Started and the superseded_by of a        *)
(* Cancelled.                                                              *)
(***************************************************************************)
Command(kind, gen, from) == [kind |-> kind, gen |-> gen, from |-> from]
NoCommand == Command("none", NoGen, NoClient)

Commands ==
    LET replyTo == Clients \cup {NoClient} IN
    [kind : {"Run", "StartServices", "CancelExact"}, gen : Gens, from : replyTo]
        \cup [kind : {"none", "CancelAny", "Reconcile"}, gen : {NoGen}, from : replyTo]

IsRun(command) == command.kind = "Run"
IsCancelAny(command) == command.kind = "CancelAny"

Event(type, gen, rel) == [type |-> type, gen |-> gen, rel |-> rel]
Started(gen, pred) == Event("Started", gen, pred)
Finished(gen) == Event("Finished", gen, NoGen)
Cancelled(gen, by) == Event("Cancelled", gen, by)

Events == [type : {"Started", "Finished", "Cancelled"},
           gen : Gens, rel : Gens \cup {NoGen}]

Emit(event) == log' = Append(log, event)

IsTerminal(event) == event.type \in {"Finished", "Cancelled"}
HasStarted(gen) == \E i \in 1 .. Len(log) : log[i].gen = gen /\ log[i].type = "Started"
HasEnded(gen) == \E i \in 1 .. Len(log) : log[i].gen = gen /\ IsTerminal(log[i])

Init ==
    /\ nextId = 0
    /\ queue = << >> /\ closed = FALSE
    /\ registered = {} /\ tripped = {}
    /\ pc = [c \in Clients |-> "idle"]
    /\ hand = [c \in Clients |-> NoCommand]
    /\ answer = [c \in Clients |-> "none"]
    /\ dropping = FALSE
    /\ cpc = "loop" /\ held = NoCommand
    /\ active = NoGen /\ pending = NoGen /\ predecessor = NoGen
    /\ serving = {} /\ log = << >> /\ vanished = {}

-----------------------------------------------------------------------------
(* Callers.  A call is possible while no Drop has begun, and while the     *)
(* bound on commands leaves room for one more.                             *)

InFlight == {c \in Clients : pc[c] \notin {"idle", "waiting"}}

CanCall(c, call) ==
    /\ call \in Calls[c]
    /\ pc[c] = "idle" /\ ~dropping
    /\ Len(queue) + Cardinality(InFlight) < MaxQueue

Take(c, command, step) ==
    /\ hand' = [hand EXCEPT ![c] = command]
    /\ pc' = [pc EXCEPT ![c] = step]

(* prepare_request: the id is handed out well before `send` is entered, so *)
(* two callers may send their runs in the other order.                     *)
PrepareRun(c, withServices) ==
    /\ CanCall(c, "Run") /\ nextId < MaxRuns
    /\ nextId' = nextId + 1
    /\ Take(c, Command("Run", nextId + 1, NoClient), "prepared")
    /\ withServices => "Services" \in Calls[c]
    /\ serving' = IF withServices THEN serving \cup {nextId + 1} ELSE serving
    /\ UNCHANGED <<schedulerVars, answer, dropping, consumerVars, log, vanished>>

(* cancel_active: trips the tokens that are registered right now.          *)
CancelActive(gens) == tripped' = tripped \cup (registered \cap gens)

(* dispatch, first half of `send` for a Run.                               *)
SignalRun(c) ==
    /\ pc[c] = "prepared"
    /\ CancelActive(Gens)
    /\ pc' = [pc EXCEPT ![c] = "send"]
    /\ UNCHANGED <<nextId, queue, closed, registered, hand, answer, dropping,
                   consumerVars, serving, log, vanished>>

(* cancel_running_tasks, first half of its `send`.                         *)
CancelRunningTasks(c) ==
    /\ CanCall(c, "CancelAny")
    /\ CancelActive(Gens)
    /\ Take(c, Command("CancelAny", NoGen, NoClient), "send")
    /\ UNCHANGED <<nextId, queue, closed, registered, answer, dropping,
                   consumerVars, serving, log, vanished>>

(* cancel_generation, first half of its `send`; the generation asked for   *)
(* may be one the worker has not issued.                                   *)
CancelGeneration(c, gen) ==
    /\ CanCall(c, "CancelExact")
    /\ CancelActive({gen})
    /\ Take(c, Command("CancelExact", gen, c), "send")
    /\ UNCHANGED <<nextId, queue, closed, registered, answer, dropping,
                   consumerVars, serving, log, vanished>>

ReconcileServices(c) ==
    /\ CanCall(c, "Services")
    /\ Take(c, Command("Reconcile", NoGen, c), "send")
    /\ UNCHANGED <<nextId, schedulerVars, answer, dropping, consumerVars,
                   serving, log, vanished>>

StartServices(c) ==
    /\ CanCall(c, "Services") /\ nextId < MaxRuns
    /\ nextId' = nextId + 1
    /\ Take(c, Command("StartServices", nextId + 1, NoClient), "send")
    /\ serving' = serving \cup {nextId + 1}
    /\ UNCHANGED <<schedulerVars, answer, dropping, consumerVars, log, vanished>>

(* Drop for Worker: it owns the worker, so no other call is under way.     *)
DropWorker(c) ==
    /\ "Drop" \in Calls[c]
    /\ ~dropping /\ \A d \in Clients : pc[d] = "idle"
    /\ dropping' = TRUE
    /\ CancelActive(Gens)
    /\ Take(c, Command("CancelAny", NoGen, NoClient), "send")
    /\ UNCHANGED <<nextId, queue, closed, registered, answer,
                   consumerVars, serving, log, vanished>>

Close ==
    /\ dropping /\ ~closed /\ \A c \in Clients : pc[c] = "idle"
    /\ closed' = TRUE
    /\ UNCHANGED <<nextId, queue, registered, tripped, callerVars,
                   consumerVars, serving, log, vanished>>

-----------------------------------------------------------------------------
(* The second half of `send`, under the queue's mutex.  The one loop that  *)
(* emits events runs an iteration per step; its caller stays in "purge",   *)
(* which stands for the mutex it keeps.                                    *)

QueueFree == \A c \in Clients : pc[c] # "purge"

Sends(c, kind) == pc[c] = "send" /\ QueueFree /\ hand[c].kind = kind

Return(c) ==
    IF hand[c].from = c
    THEN pc' = [pc EXCEPT ![c] = "waiting"] /\ UNCHANGED hand
    ELSE Take(c, NoCommand, "idle")

(* The first Run of the queue, the last one, and the part of the queue     *)
(* before the trailing bare cancels that a Run subsumes.                   *)
FirstRunAt(q, p) ==
    /\ p \in 1 .. Len(q) /\ IsRun(q[p])
    /\ \A i \in 1 .. (p - 1) : ~IsRun(q[i])

LastRunAt(q, p) ==
    /\ p \in 1 .. Len(q) /\ IsRun(q[p])
    /\ \A i \in (p + 1) .. Len(q) : ~IsRun(q[i])

HoldsNoRun(q) == \A i \in 1 .. Len(q) : ~IsRun(q[i])

TrimmedTo(k) ==
    /\ k \in 0 .. Len(queue)
    /\ k # 0 => ~IsCancelAny(queue[k])
    /\ \A i \in (k + 1) .. Len(queue) : IsCancelAny(queue[i])

(* Mutant: the queued Run is reported and not replaced. *)
EnqueueRunAppends(c) ==
    /\ Sends(c, "Run")
    /\ \E k \in 0 .. Len(queue) :
        /\ TrimmedTo(k)
        /\ LET kept == SubSeq(queue, 1, k) IN
            \/ \E p \in 1 .. k :
                /\ LastRunAt(kept, p)
                /\ queue' = Append(kept, hand[c])
                /\ Emit(Cancelled(kept[p].gen, hand[c].gen))
            \/ /\ HoldsNoRun(kept)
               /\ queue' = Append(kept, hand[c])
               /\ UNCHANGED log
    /\ Return(c)
    /\ UNCHANGED <<nextId, closed, registered, tripped, answer, dropping,
                   consumerVars, serving, vanished>>

(* Mutant: a replaced Run is not reported. *)
EnqueueRunSilently(c) ==
    /\ Sends(c, "Run")
    /\ \E k \in 0 .. Len(queue) :
        /\ TrimmedTo(k)
        /\ LET kept == SubSeq(queue, 1, k) IN
            \/ \E p \in 1 .. k :
                /\ LastRunAt(kept, p)
                /\ queue' = [kept EXCEPT ![p] = hand[c]]
                /\ UNCHANGED log
            \/ /\ HoldsNoRun(kept)
               /\ queue' = Append(kept, hand[c])
               /\ UNCHANGED log
    /\ Return(c)
    /\ UNCHANGED <<nextId, closed, registered, tripped, answer, dropping,
                   consumerVars, serving, vanished>>

EnqueueRun(c) ==
    /\ Sends(c, "Run")
    /\ \E k \in 0 .. Len(queue) :
        /\ TrimmedTo(k)
        /\ LET kept == SubSeq(queue, 1, k) IN
            \/ \E p \in 1 .. k :
                /\ LastRunAt(kept, p)
                /\ queue' = [kept EXCEPT ![p] = hand[c]]
                /\ Emit(Cancelled(kept[p].gen, hand[c].gen))
            \/ /\ HoldsNoRun(kept)
               /\ queue' = Append(kept, hand[c])
               /\ UNCHANGED log
    /\ Return(c)
    /\ UNCHANGED <<nextId, closed, registered, tripped, answer, dropping,
                   consumerVars, serving, vanished>>

(* VecDeque::remove.                                                       *)
Without(q, p) == [i \in 1 .. (Len(q) - 1) |-> IF i < p THEN q[i] ELSE q[i + 1]]

QueuedAt(gen, p) ==
    /\ p \in 1 .. Len(queue) /\ IsRun(queue[p]) /\ queue[p].gen = gen
    /\ \A i \in 1 .. (p - 1) : ~(IsRun(queue[i]) /\ queue[i].gen = gen)

EnqueueCancelExact(c) ==
    /\ Sends(c, "CancelExact")
    /\ \/ \E p \in 1 .. Len(queue) :
            /\ QueuedAt(hand[c].gen, p)
            /\ queue' = Without(queue, p)
            /\ answer' = [answer EXCEPT ![c] = "cancelled"]
            /\ Emit(Cancelled(hand[c].gen, NoGen))
       \/ /\ \A p \in 1 .. Len(queue) : ~QueuedAt(hand[c].gen, p)
          /\ queue' = Append(queue, hand[c])
          /\ UNCHANGED <<answer, log>>
    /\ Return(c)
    /\ UNCHANGED <<nextId, closed, registered, tripped, dropping,
                   consumerVars, serving, vanished>>

(* One iteration of the loop that discards every queued Run.               *)
PurgeQueuedRun(c) ==
    /\ Sends(c, "CancelAny") \/ pc[c] = "purge"
    /\ \E p \in 1 .. Len(queue) :
        /\ FirstRunAt(queue, p)
        /\ queue' = Without(queue, p)
        /\ Emit(Cancelled(queue[p].gen, NoGen))
    /\ pc' = [pc EXCEPT ![c] = "purge"]
    /\ UNCHANGED <<nextId, closed, registered, tripped, hand, answer, dropping,
                   consumerVars, serving, vanished>>

EnqueueCancelAny(c) ==
    /\ Sends(c, "CancelAny") \/ pc[c] = "purge"
    /\ HoldsNoRun(queue)
    /\ queue' = Append(queue, hand[c])
    /\ Return(c)
    /\ UNCHANGED <<nextId, closed, registered, tripped, answer, dropping,
                   consumerVars, serving, log, vanished>>

EnqueueDirect(c) ==
    /\ Sends(c, "Reconcile") \/ Sends(c, "StartServices")
    /\ queue' = Append(queue, hand[c])
    /\ Return(c)
    /\ UNCHANGED <<nextId, closed, registered, tripped, answer, dropping,
                   consumerVars, serving, log, vanished>>

(* The receipt of an exact cancel or a reconciliation.                     *)
Receive(c) ==
    /\ pc[c] = "waiting" /\ answer[c] # "none"
    /\ Take(c, NoCommand, "idle")
    /\ answer' = [answer EXCEPT ![c] = "none"]
    /\ UNCHANGED <<nextId, schedulerVars, dropping, consumerVars,
                   serving, log, vanished>>

(* recv_timeout expires: the receiver is gone, a later reply goes nowhere. *)
Deaf(command, c) ==
    IF command.from = c THEN [command EXCEPT !.from = NoClient] ELSE command

GiveUp(c) ==
    /\ pc[c] = "waiting" /\ answer[c] = "none"
    /\ Take(c, NoCommand, "idle")
    /\ queue' = [i \in 1 .. Len(queue) |-> Deaf(queue[i], c)]
    /\ held' = Deaf(held, c)
    /\ UNCHANGED <<nextId, closed, registered, tripped, answer, dropping,
                   cpc, active, pending, predecessor, serving, log, vanished>>

-----------------------------------------------------------------------------
(* The consumer thread.                                                    *)

Reply(command, value) ==
    answer' = IF command.from = NoClient
              THEN answer
              ELSE [answer EXCEPT ![command.from] = value]

Pops(kind) ==
    /\ QueueFree /\ queue # << >> /\ Head(queue).kind = kind
    /\ queue' = Tail(queue)

(* executor.start announces the generation; its token is registered in a   *)
(* later step.                                                             *)
StartRun(gen, pred) ==
    /\ active' = gen
    /\ cpc' = "register"
    /\ Emit(Started(gen, pred))

Promote ==
    /\ cpc = "loop" /\ active = NoGen /\ pending # NoGen
    /\ StartRun(pending, predecessor)
    /\ pending' = NoGen /\ predecessor' = NoGen
    /\ UNCHANGED <<nextId, schedulerVars, callerVars, held, serving, vanished>>

RegisterActive ==
    /\ cpc = "register"
    /\ registered' = registered \cup {active}
    /\ cpc' = "loop"
    /\ UNCHANGED <<nextId, queue, closed, tripped, callerVars, held, active,
                   pending, predecessor, serving, log, vanished>>

Idle == cpc = "loop" /\ active = NoGen /\ pending = NoGen

ReceiveStart ==
    /\ Idle
    /\ Pops("Run") \/ Pops("StartServices")
    /\ StartRun(Head(queue).gen, NoGen)
    /\ UNCHANGED <<nextId, closed, registered, tripped, callerVars, held,
                   pending, predecessor, serving, vanished>>

ReceiveOther ==
    /\ Idle
    /\ Pops("CancelExact") \/ Pops("CancelAny") \/ Pops("Reconcile")
    /\ Reply(Head(queue), "noop")
    /\ UNCHANGED <<nextId, closed, registered, tripped, pc, hand, dropping,
                   consumerVars, serving, log, vanished>>

(* Mutant: receive looks at `closed` before the queue. *)
ExitUnread ==
    /\ Idle /\ QueueFree /\ closed
    /\ cpc' = "done"
    /\ UNCHANGED <<nextId, schedulerVars, callerVars, held, active, pending,
                   predecessor, serving, log, vanished>>

Exit ==
    /\ Idle /\ QueueFree /\ queue = << >> /\ closed
    /\ cpc' = "done"
    /\ UNCHANGED <<nextId, schedulerVars, callerVars, held, active, pending,
                   predecessor, serving, log, vanished>>

(* executor.advance: a tripped token makes it return Running at once, so   *)
(* only a generation whose token was clear can report its end, or wait     *)
(* inside the call and keep the consumer from its queue.  It waits for an  *)
(* approval, a recovery or its verification with an eye on the token       *)
(* ("recovering"), and for the output of a command that has exited, which  *)
(* a descendant may hold open, with none ("joining").                      *)
Busy == cpc = "loop" /\ active # NoGen

AdvanceWaits(kind) ==
    /\ Busy /\ active \notin tripped
    /\ cpc' = kind
    /\ UNCHANGED <<nextId, schedulerVars, callerVars, held, active, pending,
                   predecessor, serving, log, vanished>>

AdvanceReturns ==
    /\ cpc \in {"recovering", "joining"}
    /\ cpc' = "loop"
    /\ UNCHANGED <<nextId, schedulerVars, callerVars, held, active, pending,
                   predecessor, serving, log, vanished>>

RecoveryYields ==
    /\ cpc = "recovering" /\ active \in tripped
    /\ cpc' = "loop"
    /\ UNCHANGED <<nextId, schedulerVars, callerVars, held, active, pending,
                   predecessor, serving, log, vanished>>

(* Mutant: unregister_active is forgotten. *)
AdvanceFinishedKeepsToken ==
    /\ Busy /\ active \notin tripped
    /\ cpc' = "finish"
    /\ UNCHANGED <<nextId, schedulerVars, callerVars, held, active, pending,
                   predecessor, serving, log, vanished>>

(* Step::Finished: the token is unregistered, and executor.finish begins.  *)
AdvanceFinished ==
    /\ Busy /\ active \notin tripped
    /\ registered' = registered \ {active}
    /\ cpc' = "finish"
    /\ UNCHANGED <<nextId, queue, closed, tripped, callerVars, held, active,
                   pending, predecessor, serving, log, vanished>>

(* executor.finish returns, when its terminal hook has exited.             *)
Finish ==
    /\ cpc = "finish"
    /\ Emit(Finished(active))
    /\ serving' = serving \ {active}
    /\ active' = NoGen
    /\ cpc' = "loop"
    /\ UNCHANGED <<nextId, schedulerVars, callerVars, held, pending,
                   predecessor, vanished>>

(* Mutant: exact cancels never match. *)
EndsActiveByNewWork(command) ==
    command.kind \in {"Run", "CancelAny"}

(* Mutant: a Run waits for the active generation to end. *)
EndsActiveByCancel(command) ==
    \/ command.kind \in {"CancelAny"}
    \/ command.kind = "CancelExact" /\ command.gen = active

(* A command popped while a generation runs.  A Run, a bare cancel and an  *)
(* exact cancel of the active generation end it: the token is unregistered *)
(* and executor.cancel, which may take the whole grace period, begins.     *)
EndsActive(command) ==
    \/ command.kind \in {"Run", "CancelAny"}
    \/ command.kind = "CancelExact" /\ command.gen = active

PollEnding ==
    /\ Busy
    /\ Pops("Run") \/ Pops("CancelAny") \/ Pops("CancelExact")
    /\ EndsActive(Head(queue))
    /\ held' = Head(queue)
    /\ registered' = registered \ {active}
    /\ tripped' = tripped \ {active}
    /\ cpc' = "cancelling"
    /\ UNCHANGED <<nextId, closed, callerVars, active, pending,
                   predecessor, serving, log, vanished>>

(* executor.cancel returns: a Run goes to the pending slot with its        *)
(* predecessor, a cancel is answered.                                      *)
CancelDone ==
    /\ cpc = "cancelling"
    /\ Emit(Cancelled(active, IF IsRun(held) THEN held.gen ELSE NoGen))
    /\ active' = NoGen
    /\ serving' = serving \ {active}
    /\ held' = NoCommand
    /\ \/ /\ IsRun(held)
          /\ pending' = held.gen /\ predecessor' = active
          /\ cpc' = "drain"
          /\ UNCHANGED answer
       \/ /\ ~IsRun(held)
          /\ Reply(held, "cancelled")
          /\ cpc' = "loop"
          /\ UNCHANGED <<pending, predecessor>>
    /\ UNCHANGED <<nextId, schedulerVars, pc, hand, dropping, vanished>>

PollStaleCancel ==
    /\ Busy
    /\ Pops("CancelExact") /\ ~EndsActive(Head(queue))
    /\ Reply(Head(queue), "noop")
    /\ UNCHANGED <<nextId, closed, registered, tripped, pc, hand, dropping,
                   consumerVars, serving, log, vanished>>

(* executor.reconcile_services stops the named services of the active      *)
(* generation: all of those it holds, or only some.                        *)
PollReconcile(stopsAll) ==
    /\ Busy
    /\ Pops("Reconcile")
    /\ Reply(Head(queue), "done")
    /\ serving' = IF stopsAll THEN serving \ {active} ELSE serving
    /\ UNCHANGED <<nextId, closed, registered, tripped, pc, hand, dropping,
                   consumerVars, log, vanished>>

(* Mutant: the active generation takes the id of the appended plan. *)
PollStartServicesRenames ==
    /\ Busy
    /\ Pops("StartServices")
    /\ serving' = serving \cup {active}
    /\ active' = Head(queue).gen
    /\ vanished' = vanished \cup {active}
    /\ UNCHANGED <<nextId, closed, registered, tripped, callerVars,
                   cpc, held, pending, predecessor, log>>

(* executor.append_plan: the services join the active generation, and the  *)
(* id that start_services returned never appears in an event.              *)
PollStartServices ==
    /\ Busy
    /\ Pops("StartServices")
    /\ serving' = serving \cup {active}
    /\ vanished' = vanished \cup {Head(queue).gen}
    /\ UNCHANGED <<nextId, closed, registered, tripped, callerVars,
                   consumerVars, log>>

(* Mutant: the later request inherits the predecessor. *)
DrainRunKeepsPredecessor ==
    /\ cpc = "drain"
    /\ Pops("Run")
    /\ pending' = Head(queue).gen
    /\ UNCHANGED predecessor
    /\ vanished' = IF pending = NoGen THEN vanished ELSE vanished \cup {pending}
    /\ UNCHANGED <<nextId, closed, registered, tripped, callerVars, cpc, held,
                   active, serving, log>>

(* The burst drain that follows a replacement.  A newer Run takes the      *)
(* pending slot; the one it displaces is not reported, and the newer       *)
(* request has no predecessor.                                             *)
DrainRun ==
    /\ cpc = "drain"
    /\ Pops("Run")
    /\ pending' = Head(queue).gen
    /\ predecessor' = NoGen
    /\ vanished' = IF pending = NoGen THEN vanished ELSE vanished \cup {pending}
    /\ UNCHANGED <<nextId, closed, registered, tripped, callerVars, cpc, held,
                   active, serving, log>>

DrainCancelExact ==
    /\ cpc = "drain"
    /\ Pops("CancelExact")
    /\ \/ /\ Head(queue).gen = pending
          /\ pending' = NoGen /\ predecessor' = NoGen
          /\ Reply(Head(queue), "cancelled")
          /\ vanished' = vanished \cup {pending}
       \/ /\ Head(queue).gen # pending
          /\ Reply(Head(queue), "noop")
          /\ UNCHANGED <<pending, predecessor, vanished>>
    /\ UNCHANGED <<nextId, closed, registered, tripped, pc, hand, dropping,
                   cpc, held, active, serving, log>>

(* `_ => break`: whatever ends the drain has been popped and is dropped,   *)
(* its reply channel with it.                                              *)
DrainBreak ==
    /\ cpc = "drain"
    /\ \/ /\ Pops("CancelAny") \/ Pops("Reconcile") \/ Pops("StartServices")
          /\ Reply(Head(queue), "lost")
          /\ vanished' = IF Head(queue).kind = "StartServices"
                         THEN vanished \cup {Head(queue).gen} ELSE vanished
       \/ /\ QueueFree /\ queue = << >>
          /\ UNCHANGED <<queue, answer, vanished>>
    /\ cpc' = "loop"
    /\ UNCHANGED <<nextId, closed, registered, tripped, pc, hand, dropping,
                   held, active, pending, predecessor, serving, log>>

(* The consumer has left its loop and Drop has joined it.                  *)
Joined == cpc = "done" /\ UNCHANGED vars

-----------------------------------------------------------------------------
Call(c) ==
    \/ \E withServices \in BOOLEAN : PrepareRun(c, withServices)
    \/ CancelRunningTasks(c)
    \/ \E gen \in Gens : CancelGeneration(c, gen)
    \/ ReconcileServices(c)
    \/ StartServices(c)
    \/ DropWorker(c)

CallerStep(c) ==
    \/ SignalRun(c)
    \/ EnqueueRun(c)
    \/ EnqueueCancelExact(c)
    \/ PurgeQueuedRun(c)
    \/ EnqueueCancelAny(c)
    \/ EnqueueDirect(c)
    \/ Receive(c)

ConsumerStep ==
    \/ Promote
    \/ RegisterActive
    \/ ReceiveStart
    \/ ReceiveOther
    \/ Exit
    \/ RecoveryYields
    \/ PollEnding
    \/ PollStaleCancel
    \/ \E stopsAll \in BOOLEAN : PollReconcile(stopsAll)
    \/ PollStartServices
    \/ DrainRun
    \/ DrainCancelExact
    \/ DrainBreak

(* What depends on processes, or on a person.                              *)
ExecutorStep ==
    \/ \E kind \in {"recovering", "joining"} : AdvanceWaits(kind)
    \/ AdvanceReturns
    \/ AdvanceFinished
    \/ Finish
    \/ CancelDone

Next ==
    \/ \E c \in Clients : Call(c) \/ CallerStep(c) \/ GiveUp(c)
    \/ Close
    \/ ConsumerStep
    \/ ExecutorStep
    \/ Joined

Spec == Init /\ [][Next]_vars

-----------------------------------------------------------------------------
(* Fairness: every thread that can run eventually does, the mutex is not   *)
(* kept from a caller for ever, the queue is looked at after every advance *)
(* (hence strong fairness, for advance may wait in between), and the       *)
(* commands of a generation without services end.  Nothing makes a caller  *)
(* call, a service end, a person answer, or the processes that advance,    *)
(* finish and cancel wait for without a deadline exit.                     *)
FiniteWorkEnds == AdvanceFinished /\ active \notin serving

Fairness ==
    /\ \A c \in Clients : WF_vars(CallerStep(c))
    /\ WF_vars(Close)
    /\ SF_vars(ConsumerStep)
    /\ SF_vars(FiniteWorkEnds)

FairSpec == Spec /\ Fairness

-----------------------------------------------------------------------------
(* The scheduler's and the consumer's state has its type (workers.rs).     *)
TypeOK ==
    /\ nextId \in 0 .. MaxRuns
    /\ queue \in Seq(Commands)
    /\ closed \in BOOLEAN /\ dropping \in BOOLEAN
    /\ registered \subseteq Gens /\ tripped \subseteq Gens
    /\ pc \in [Clients -> {"idle", "prepared", "send", "purge", "waiting"}]
    /\ hand \in [Clients -> Commands]
    /\ answer \in [Clients -> {"none", "cancelled", "noop", "done", "lost"}]
    /\ cpc \in {"loop", "register", "recovering", "joining", "finish", "cancelling",
               "drain", "done"}
    /\ held \in Commands
    /\ {active, pending, predecessor} \subseteq Gens \cup {NoGen}
    /\ serving \subseteq Gens /\ vanished \subseteq Gens
    /\ log \in Seq(Events)

(* "At most one queued Run (newest wins)": whatever callers interleave in  *)
(* Scheduler::send, the queue never holds two Runs (workers.rs:97).        *)
OneQueuedRun ==
    \A i, j \in 1 .. Len(queue) : IsRun(queue[i]) /\ IsRun(queue[j]) => i = j

(* Two events of one generation are its Started and then its terminal      *)
(* event: no generation starts twice, ends twice, or starts after the      *)
(* queue reported it cancelled (executor.start, finish and cancel against  *)
(* the Cancelled events of Scheduler::send).                               *)
EventOrder ==
    \A i, j \in 1 .. Len(log) :
        i < j /\ log[i].gen = log[j].gen
        => log[i].type = "Started" /\ IsTerminal(log[j])

(* Generations run one at a time: when one starts, every generation that   *)
(* started before has already reported its end (the consumer's single      *)
(* `active` slot).                                                         *)
OneAtATime ==
    \A i, j \in 1 .. Len(log) :
        i < j /\ log[i].type = "Started" /\ log[j].type = "Started" =>
            \E k \in (i + 1) .. (j - 1) : log[k].gen = log[i].gen /\ IsTerminal(log[k])

(* Where an issued generation can be.                                      *)
InHand(gen) ==
    \E c \in Clients : hand[c].gen = gen /\ hand[c].kind \in {"Run", "StartServices"}

InQueue(gen) ==
    \E i \in 1 .. Len(queue) :
        queue[i].gen = gen /\ queue[i].kind \in {"Run", "StartServices"}

InConsumer(gen) ==
    gen = active \/ gen = pending \/ (held.kind = "Run" /\ held.gen = gen)

(* No generation is forgotten or in two places: each id handed out is with *)
(* its caller, in the queue, in the consumer, ended, or one of those the   *)
(* burst drain and append_plan drop.                                       *)
Accounted ==
    \A gen \in Issued :
        LET places == << InHand(gen), InQueue(gen), InConsumer(gen),
                         HasEnded(gen), gen \in vanished >> IN
        \E i \in 1 .. 5 : /\ places[i]
                          /\ \A j \in 1 .. 5 : places[j] => i = j

(* A generation begins with a clear token: a Run never trips itself, and a *)
(* trip meant for a predecessor never reaches its successor                *)
(* (Scheduler::cancel_active against register_active).                     *)
TokensOfActive == registered \cup tripped \subseteq {active} \ {NoGen}

(* cancel_generation is told "cancelled" only of a generation that is over *)
(* and did not finish: it will not start, and is not in the queue.         *)
CancelledIsOver ==
    \A c \in Clients :
        answer[c] = "cancelled" =>
            LET gen == hand[c].gen IN
            /\ ~InQueue(gen) /\ ~InConsumer(gen)
            /\ \A i \in 1 .. Len(log) : ~(log[i].gen = gen /\ log[i].type = "Finished")

(* A started generation names as predecessor only a generation that was    *)
(* reported superseded by it, and not before (the relation of TASK-0043).  *)
PredecessorWasSuperseded ==
    \A j \in 1 .. Len(log) :
        log[j].type = "Started" /\ log[j].rel # NoGen =>
            \E i \in 1 .. (j - 1) :
                log[i] = Cancelled(log[j].rel, log[j].gen)

(* The events tell an orderly story in every interleaving of callers,      *)
(* consumer and executor: one life per generation, one generation at a     *)
(* time, and each names as predecessor only what it was told to supersede. *)
RunsAreOrderly == TypeOK /\ EventOrder /\ OneAtATime /\ PredecessorWasSuperseded

(* When Drop has joined the consumer, nothing is left in the worker: every *)
(* generation it issued has ended or is one of the vanished.               *)
DropLeavesNothing ==
    cpc = "done" => /\ queue = << >> /\ active = NoGen /\ pending = NoGen
                    /\ \A gen \in Issued : HasEnded(gen) \/ gen \in vanished

(* Both answers to an exact cancel are true: "cancelled" of a generation   *)
(* that is over, and Noop, when the consumer gives it, only of one that is *)
(* neither running nor pending (the Cancel arms of the consumer).          *)
CancelTellsTheTruth ==
    [][/\ CancelledIsOver'
       /\ \A c \in Clients :
             answer[c] = "none" /\ answer'[c] = "noop" /\ hand[c].kind = "CancelExact"
             => hand[c].gen \notin {active', pending'}]_vars

(* The worker implements the abstract life of a generation.                *)
StatusOf(gen) ==
    IF gen \in vanished THEN "vanished"
    ELSE IF \E i \in 1 .. Len(log) : log[i] = Finished(gen) THEN "finished"
    ELSE IF HasEnded(gen) THEN "cancelled"
    ELSE IF HasStarted(gen) THEN "running"
    ELSE IF gen \in Issued THEN "scheduled"
    ELSE "unknown"

L == INSTANCE Lifecycle WITH status <- [gen \in Gens |-> StatusOf(gen)]

ImplementsLifecycle == L!Spec

-----------------------------------------------------------------------------
(* "The consumer always replies" (workers.rs:768): the caller of an exact  *)
(* cancel gets an answer, unless its own timeout fires first.              *)
CancelIsAnswered ==
    \A c \in Clients :
        pc[c] = "waiting" /\ hand[c].kind = "CancelExact"
            ~> pc[c] # "waiting" \/ answer[c] \in {"cancelled", "noop"}

(* A request that was handed an id is not stuck behind a running           *)
(* generation, even one that never ends: it starts, ends or vanishes.  The *)
(* burst drain has no bound of its own, so this is under the condition     *)
(* that callers do not feed one drain with exact cancels for ever.         *)
EveryRequestIsTaken ==
    []<>(cpc # "drain") =>
        \A gen \in Gens :
            gen <= nextId ~> HasStarted(gen) \/ HasEnded(gen) \/ gen \in vanished

(* Drop joins the consumer, unless a generation with services was promoted *)
(* after its bare cancel.                                                  *)
DropJoins == dropping ~> cpc = "done" \/ active \in serving

(* An exact cancel that has tripped the running generation's token ends    *)
(* it, even when nobody answers the approval it waits for                  *)
(* (resolve_recoveries polls the token).                                   *)
CancelEndsRecovery ==
    \A c \in Clients, gen \in Gens :
        hand[c] = Command("CancelExact", gen, c) /\ pc[c] = "waiting"
            /\ answer[c] = "none" /\ gen = active /\ gen \in tripped
            ~> HasEnded(gen)

(* The two waits that may have no end: for a process, which no token       *)
(* interrupts (the output of an exited command, cmd.rs:241; the terminal   *)
(* hook, executor.rs:1568), and for a person or a recovery, which only a   *)
(* token interrupts (executor.rs:1100).                                    *)
AwaitsProcess == cpc \in {"joining", "finish", "cancelling"}
AwaitsPerson == cpc = "recovering" /\ active \notin tripped

(* Nobody waits for the consumer for ever unless the consumer itself waits *)
(* for ever: while processes exit, a cancel that reached the token ends    *)
(* the generation; and while approvals are answered too, a caller that     *)
(* cancels gets its answer, a request gets past a generation that never    *)
(* ends, and the thread that drops the worker joins it.                    *)
NobodyWaitsForEver ==
    []<>~AwaitsProcess =>
        /\ CancelEndsRecovery
        /\ []<>~AwaitsPerson => CancelIsAnswered /\ EveryRequestIsTaken /\ DropJoins

-----------------------------------------------------------------------------
(* Statements of the documentation that the code does not keep.            *)

(* "Every generation superseded before spawn gets a terminal Cancelled     *)
(* event with its successor identity" (workers.rs:106): no generation      *)
(* leaves the worker without an event.                                     *)
SupersededIsReported == vanished = {}

(* "A newer run always supersedes queued work" (workers.rs:64): the        *)
(* successor named by a Cancelled event is the newer generation.           *)
NewerSupersedes ==
    \A i \in 1 .. Len(log) :
        log[i].type = "Cancelled" /\ log[i].rel # NoGen => log[i].rel > log[i].gen

(* "Cancels seen here are answered inline (never dropped)" (workers.rs:543):*)
(* a bare cancel the consumer has taken leaves no pending request.         *)
BareCancelIsHonoured ==
    [][queue # << >> /\ IsCancelAny(Head(queue)) /\ queue' = Tail(queue)
       => pending' = NoGen]_vars

(* "Poll status until generation equals runId and state is terminal"       *)
(* (docs/FLAG_CONTROL_SOCKET.md:70): a started generation whose commands   *)
(* end becomes terminal, or a greater generation takes its place.          *)
StatusPollEnds ==
    \A gen \in Gens :
        HasStarted(gen) ~> \/ HasEnded(gen)
                          \/ \E later \in Gens : later > gen /\ HasStarted(later)

=============================================================================
