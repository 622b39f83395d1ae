----------------------------- MODULE Observers ------------------------------
(***************************************************************************)
(* The event sink of the non-blocking watcher and its readers.  Worker     *)
(* events reach the coordinator, the view and the snapshot broker one      *)
(* after the other, under locks taken one at a time, on whichever thread   *)
(* emits: the consumer, or a caller that discards a queued run.  The       *)
(* reload thread publishes too.  Clients await generations and subscribe   *)
(* to snapshots meanwhile.  The source of events is Lifecycle, which       *)
(* Worker is shown to implement.                                           *)
(***************************************************************************)
EXTENDS Observation, FiniteSets

CONSTANTS
    MaxGen,        \* bound on the generation ids handed out
    Waiters,       \* connections that await
    Subscribers,   \* connections that subscribe
    HistoryBound,  \* TERMINAL_HISTORY_BOUND
    Buffer,        \* SUBSCRIBER_BUFFER
    MaxConfig,     \* bound on the config transitions
    Batches        \* whether files change in this instance

ASSUME BoundsAssumption ==
    /\ MaxGen \in Nat \ {0}
    /\ HistoryBound \in Nat \ {0} /\ Buffer \in Nat \ {0} /\ MaxConfig \in Nat
    /\ Batches \in BOOLEAN

VARIABLES
    status,    \* the source: where each generation is (Lifecycle)
    at,        \* per emitting thread: where it is in the sink
    event,     \* per emitting thread: the event it carries
    facts,     \* per emitting thread: snapshot_facts it has read
    built,     \* per emitting thread: the snapshot it has built
    book,      \* AwaitCoordinator.inner
    view,      \* the shared WatcherState
    config,    \* ordinal of ConfigLifecycle.current
    last,      \* BrokerInner.last
    sub,       \* per subscriber: [state, channel, seen]
    batch,     \* the watch loop: is a batch being routed
    waiter     \* per waiter: [state, mode, reason, view, freshness]

Gens == 1 .. MaxGen

L == INSTANCE Lifecycle

sinkVars == <<at, event, facts, built>>
sharedVars == <<book, view, config, last, sub>>
vars == <<status, sinkVars, sharedVars, batch, waiter>>

Threads == {"consumer", "sender", "reload"}
NoEvent == [type |-> "none", gen |-> 0, rel |-> 0]
NoFacts == [latest |-> 0, debounce |-> FALSE]
Modes == [kind : {"Exact", "After"}, gen : Gens]
Snapshot(v, freshness, conf) == [view |-> v, freshness |-> freshness, config |-> conf]
Seed == Snapshot(IdleView, "Unknown", 0)
IdleWaiter == [state |-> "idle", mode |-> [kind |-> "Exact", gen |-> 1], entry |-> 0,
               reason |-> "none", view |-> IdleView, freshness |-> "Unknown"]

Init ==
    /\ L!Init
    /\ at = [t \in Threads |-> "idle"]
    /\ event = [t \in Threads |-> NoEvent]
    /\ facts = [t \in Threads |-> NoFacts]
    /\ built = [t \in Threads |-> Seed]
    /\ book = EmptyBook /\ view = IdleView /\ config = 0
    /\ last = Seed
    /\ sub = [s \in Subscribers |-> [state |-> "off", channel |-> << >>, seen |-> Seed]]
    /\ batch = "idle"
    /\ waiter = [w \in Waiters |-> IdleWaiter]

-----------------------------------------------------------------------------
(* The source.  Ids are handed out in order; the consumer starts and ends  *)
(* generations, a caller discards queued ones, the burst drain loses some. *)

Schedule ==
    /\ \E gen \in Gens : /\ \A earlier \in 1 .. (gen - 1) : status[earlier] # "unknown"
                         /\ L!Schedule(gen)
    /\ UNCHANGED <<sinkVars, sharedVars, batch, waiter>>

Emits(t, type, gen, rel) ==
    /\ at[t] = "idle"
    /\ at' = [at EXCEPT ![t] = "observe"]
    /\ event' = [event EXCEPT ![t] = [type |-> type, gen |-> gen, rel |-> rel]]
    /\ UNCHANGED <<facts, built, sharedVars, batch, waiter>>

Successors(gen) == {0} \cup {other \in Gens \ {gen} : status[other] = "scheduled"}

EmitStarted ==
    \E gen \in Gens : L!Start(gen) /\ Emits("consumer", "Started", gen, 0)

EmitFinished ==
    \E gen \in Gens : L!Finish(gen) /\ Emits("consumer", "Finished", gen, 0)

EmitCancelled ==
    \E gen \in Gens : \E by \in Successors(gen) :
        L!Cancel(gen) /\ Emits("consumer", "Cancelled", gen, by)

EmitDiscarded ==
    \E gen \in Gens : \E by \in Successors(gen) :
        L!Discard(gen) /\ Emits("sender", "Cancelled", gen, by)

(* Ticks, task outcomes and recovery phases change neither the book nor    *)
(* the part of the view kept here; the sink still publishes.               *)
EmitTaskEvent ==
    /\ at["consumer"] = "idle" /\ \E gen \in Gens : status[gen] = "running"
    /\ at' = [at EXCEPT !["consumer"] = "facts"]
    /\ UNCHANGED <<status, event, facts, built, sharedVars, batch, waiter>>

Vanish ==
    /\ \E gen \in Gens : L!Vanish(gen)
    /\ UNCHANGED <<sinkVars, sharedVars, batch, waiter>>

-----------------------------------------------------------------------------
(* The sink closure: coordinator.observe, WatcherState.apply, and          *)
(* broker.publish, which reads the coordinator, then the view, and takes   *)
(* the broker's lock last.                                                 *)

SinkObserve(t) ==
    /\ at[t] = "observe"
    /\ book' = Observe(book, event[t], HistoryBound)
    /\ at' = [at EXCEPT ![t] = "apply"]
    /\ UNCHANGED <<status, event, facts, built, view, config, last, sub, batch, waiter>>

SinkApply(t) ==
    /\ at[t] = "apply"
    /\ view' = Apply(view, event[t])
    /\ event' = [event EXCEPT ![t] = NoEvent]
    /\ at' = [at EXCEPT ![t] = "facts"]
    /\ UNCHANGED <<status, facts, built, book, config, last, sub, batch, waiter>>

ReadFacts(t) ==
    /\ at[t] = "facts"
    /\ facts' = [facts EXCEPT ![t] = [latest |-> book.latest, debounce |-> book.debounce]]
    /\ at' = [at EXCEPT ![t] = "state"]
    /\ UNCHANGED <<status, event, built, sharedVars, batch, waiter>>

ReadState(t) ==
    /\ at[t] = "state"
    /\ built' = [built EXCEPT ![t] =
            Snapshot(view, Classify(view, facts[t].latest, facts[t].debounce), 0)]
    /\ facts' = [facts EXCEPT ![t] = NoFacts]
    /\ at' = [at EXCEPT ![t] = "config"]
    /\ UNCHANGED <<status, event, sharedVars, batch, waiter>>

ReadConfig(t) ==
    /\ at[t] = "config"
    /\ built' = [built EXCEPT ![t].config = config]
    /\ at' = [at EXCEPT ![t] = "publish"]
    /\ UNCHANGED <<status, event, facts, sharedVars, batch, waiter>>

(* Mutant: a full channel only misses the snapshot.                        *)
SentOrSkipped(s, snapshot) ==
    IF s.state = "on" /\ Len(s.channel) < Buffer
    THEN [s EXCEPT !.channel = Append(@, snapshot)] ELSE s

(* try_send to every subscriber; a full channel loses its subscriber.      *)
Sent(s, snapshot) ==
    IF s.state # "on" THEN s
    ELSE IF Len(s.channel) < Buffer
         THEN [s EXCEPT !.channel = Append(@, snapshot)]
         ELSE [s EXCEPT !.state = "lost"]

Publish(t) ==
    /\ at[t] = "publish"
    /\ at' = [at EXCEPT ![t] = "idle"]
    /\ built' = [built EXCEPT ![t] = Seed]
    /\ IF built[t] = last
       THEN UNCHANGED <<last, sub>>
       ELSE /\ last' = built[t]
            /\ sub' = [s \in Subscribers |-> Sent(sub[s], built[t])]
    /\ UNCHANGED <<status, event, facts, book, view, config, batch, waiter>>

(* ConfigLifecycle::transition by the reload thread: it is recorded under  *)
(* the lock, and its watchers publish after.                               *)
ConfigTransition ==
    /\ at["reload"] = "idle" /\ config < MaxConfig
    /\ config' = config + 1
    /\ at' = [at EXCEPT !["reload"] = "facts"]
    /\ UNCHANGED <<status, event, facts, built, book, view, last, sub, batch, waiter>>

-----------------------------------------------------------------------------
(* The watch loop's batches.  A batch whose paths all fail the content     *)
(* gate returns before on_batch_complete.                                  *)

OnBatch ==
    /\ Batches /\ batch = "idle"
    /\ batch' = "routing"
    /\ book' = [book EXCEPT !.debounce = TRUE]
    /\ UNCHANGED <<status, sinkVars, view, config, last, sub, waiter>>

BatchUnchanged ==
    /\ batch = "routing"
    /\ batch' = "idle"
    /\ UNCHANGED <<status, sinkVars, sharedVars, waiter>>

OnBatchComplete ==
    /\ batch = "routing"
    /\ batch' = "idle"
    /\ book' = [book EXCEPT !.debounce = FALSE]
    /\ UNCHANGED <<status, sinkVars, view, config, last, sub, waiter>>

-----------------------------------------------------------------------------
(* Clients.  An await evaluates under the coordinator's lock each time it  *)
(* wakes and builds its result before it releases it.                      *)

BeginAwait(w, mode) ==
    /\ waiter[w].state = "idle"
    /\ waiter' = [waiter EXCEPT ![w].state = "waiting", ![w].mode = mode]
    /\ UNCHANGED <<status, sinkVars, sharedVars, batch>>

Returns(w, reason, entry) ==
    waiter' = [waiter EXCEPT ![w] =
        [@ EXCEPT !.state = "returned", !.reason = reason, !.entry = entry, !.view = view,
                  !.freshness = Classify(view, book.latest, book.debounce)]]

(* Mutant: any outcome of the generation or a later one is taken.          *)
AwaitAnswerLoose(w) ==
    /\ waiter[w].state = "waiting"
    /\ \E i \in 1 .. Len(book.terminal) :
        /\ book.terminal[i].gen >= waiter[w].mode.gen
        /\ Returns(w, book.terminal[i].reason, book.terminal[i].gen)
    /\ UNCHANGED <<status, sinkVars, sharedVars, batch>>

AwaitAnswer(w) ==
    /\ waiter[w].state = "waiting"
    /\ \E i \in 1 .. Len(book.terminal) :
        /\ EvaluatesTo(book.terminal, waiter[w].mode, i)
        /\ Returns(w, book.terminal[i].reason, book.terminal[i].gen)
    /\ UNCHANGED <<status, sinkVars, sharedVars, batch>>

(* The deadline passed, or the probe found the client gone.                *)
AwaitGivesUp(w, reason) ==
    /\ waiter[w].state = "waiting"
    /\ reason = "Timeout" =>
        \A i \in 1 .. Len(book.terminal) : ~Answers(book.terminal[i], waiter[w].mode)
    /\ Returns(w, reason, 0)
    /\ UNCHANGED <<status, sinkVars, sharedVars, batch>>

(* The response is written; the connection may await again.                *)
AwaitDone(w) ==
    /\ waiter[w].state = "returned"
    /\ waiter' = [waiter EXCEPT ![w] = IdleWaiter]
    /\ UNCHANGED <<status, sinkVars, sharedVars, batch>>

(* Registration and the immediate snapshot share the broker's lock.        *)
Subscribe(s) ==
    /\ sub[s].state = "off"
    /\ sub' = [sub EXCEPT ![s] = [state |-> "on", channel |-> << >>, seen |-> last]]
    /\ UNCHANGED <<status, sinkVars, book, view, config, last, batch, waiter>>

(* handle_subscribe writes what it receives; it returns once the broker    *)
(* has dropped its sender and the channel is drained.                      *)
Notify(s) ==
    /\ sub[s].channel # << >>
    /\ sub' = [sub EXCEPT ![s].seen = Head(sub[s].channel), ![s].channel = Tail(@)]
    /\ UNCHANGED <<status, sinkVars, book, view, config, last, batch, waiter>>

WriteFails(s) ==
    /\ sub[s].channel # << >>
    /\ sub' = [sub EXCEPT ![s].state = "off", ![s].channel = << >>]
    /\ UNCHANGED <<status, sinkVars, book, view, config, last, batch, waiter>>

Disconnect(s) ==
    /\ sub[s].state = "lost" /\ sub[s].channel = << >>
    /\ sub' = [sub EXCEPT ![s].state = "off"]
    /\ UNCHANGED <<status, sinkVars, book, view, config, last, batch, waiter>>

-----------------------------------------------------------------------------
Source ==
    Schedule \/ EmitStarted \/ EmitFinished \/ EmitCancelled \/ EmitDiscarded
        \/ EmitTaskEvent \/ Vanish

SinkStep(t) ==
    SinkObserve(t) \/ SinkApply(t) \/ ReadFacts(t) \/ ReadState(t)
        \/ ReadConfig(t) \/ Publish(t)

WatchLoop == OnBatch \/ BatchUnchanged \/ OnBatchComplete

WaiterStep(w) ==
    \/ \E mode \in Modes : BeginAwait(w, mode)
    \/ AwaitAnswer(w)
    \/ \E reason \in {"Timeout", "Disconnected"} : AwaitGivesUp(w, reason)
    \/ AwaitDone(w)

SubscriberStep(s) == Subscribe(s) \/ Notify(s) \/ WriteFails(s) \/ Disconnect(s)

Next ==
    \/ Source
    \/ \E t \in Threads : SinkStep(t)
    \/ ConfigTransition
    \/ WatchLoop
    \/ \E w \in Waiters : WaiterStep(w)
    \/ \E s \in Subscribers : SubscriberStep(s)

Spec == Init /\ [][Next]_vars

(* Fairness: an emitting thread runs to the end of its sink, a waiter      *)
(* wakes at least every half second, a subscriber's thread drains its      *)
(* channel.  No fairness for events, timeouts or new requests.             *)
Fairness ==
    /\ \A t \in Threads : WF_vars(SinkStep(t))
    /\ \A w \in Waiters : WF_vars(AwaitAnswer(w))
    /\ \A s \in Subscribers : WF_vars(Notify(s) \/ Disconnect(s))

FairSpec == Spec /\ Fairness

-----------------------------------------------------------------------------
Views == [gen : Gens \cup {0}, state : {"Idle", "Running", "Finished", "Cancelled"},
          by : Gens \cup {0}]
Freshnesses == {"Current", "Stale", "Unknown"}
Snapshots == [view : Views, freshness : Freshnesses, config : 0 .. MaxConfig]

(* The sink's, the coordinator's and the broker's state has its type; the  *)
(* history and the channels stay within their bounds.                      *)
TypeOK ==
    /\ status \in [Gens -> L!Statuses]
    /\ at \in [Threads -> {"idle", "observe", "apply", "facts", "state", "config",
                          "publish"}]
    /\ book.latest \in Gens \cup {0} /\ book.debounce \in BOOLEAN
    /\ Len(book.terminal) <= HistoryBound
    /\ view \in Views /\ config \in 0 .. MaxConfig /\ last \in Snapshots
    /\ built \in [Threads -> Snapshots]
    /\ \A s \in Subscribers : Len(sub[s].channel) <= Buffer /\ sub[s].seen \in Snapshots
    /\ batch \in {"idle", "routing"}
    /\ \A w \in Waiters : waiter[w].state \in {"idle", "waiting", "returned"}

Over(gen) == status[gen] \in {"finished", "cancelled"}

(* An await that names an outcome names one that really happened: the      *)
(* generation asked for (in After mode, one later than it) is over, and    *)
(* finished exactly when the answer says so, whatever threads deliver and  *)
(* whatever the bounded history has dropped (AwaitCoordinator::evaluate).  *)
AwaitTellsTheTruth ==
    \A w \in Waiters :
        waiter[w].state = "returned" /\ waiter[w].entry # 0 =>
            LET gen == waiter[w].entry IN
            /\ Over(gen)
            /\ waiter[w].mode.kind = "Exact" => gen = waiter[w].mode.gen
            /\ waiter[w].mode.kind = "After" => gen > waiter[w].mode.gen
            /\ waiter[w].reason = "Finished" <=> status[gen] = "finished"

(* No reader is ahead of the coordinator: a generation shown by the view,  *)
(* by the broker or to a subscriber has been observed, so that freshness   *)
(* never calls an older generation current (the order of the sink).        *)
ObservedBeforeShown ==
    /\ view.gen <= book.latest
    /\ last.view.gen <= book.latest
    /\ \A t \in Threads : built[t].view.gen <= book.latest
    /\ \A s \in Subscribers : sub[s].seen.view.gen <= book.latest

(* A connected subscriber misses nothing: what it has seen, followed by    *)
(* its channel, ends with the last published snapshot                      *)
(* (SnapshotBroker::subscribe against publish).                            *)
SubscriberIsUpToDate ==
    \A s \in Subscribers :
        sub[s].state = "on" =>
            IF sub[s].channel = << >>
            THEN sub[s].seen = last
            ELSE sub[s].channel[Len(sub[s].channel)] = last

(* A subscriber is neither behind nor ahead: it has or will read the last  *)
(* snapshot, and none of them shows what awaits do not know of.            *)
SubscriberSeesTheTruth == TypeOK /\ ObservedBeforeShown /\ SubscriberIsUpToDate

(* An exact await of a generation whose end has been emitted returns,      *)
(* unless newer outcomes fill the bounded history                          *)
(* (AwaitCoordinator::observe against await_generation).                   *)
Evicted(gen) ==
    /\ Len(book.terminal) = HistoryBound
    /\ \A i \in 1 .. HistoryBound : book.terminal[i].gen # gen

AwaitIsAnswered ==
    \A w \in Waiters :
        (/\ waiter[w].state = "waiting" /\ waiter[w].mode.kind = "Exact"
         /\ Over(waiter[w].mode.gen))
            ~> (waiter[w].state = "waiting" => Evicted(waiter[w].mode.gen))

-----------------------------------------------------------------------------
(* Statements of the comments that the code does not keep.                 *)

(* "The awaited decision and the returned snapshot cannot mix generations" *)
(* (awaiting.rs:302): an answered await returns the view of the generation *)
(* it answers, in a terminal state.                                        *)
AwaitedViewMatches ==
    \A w \in Waiters :
        waiter[w].state = "returned" /\ waiter[w].entry # 0
            /\ waiter[w].view.gen = waiter[w].entry =>
                waiter[w].view.state \in {"Finished", "Cancelled"}

(* "The broker publishes on every lifecycle change, so active subscriptions*)
(* receive configReloading, configReloaded, configInvalid"                 *)
(* (cli/watch_non_block.rs): with no thread in the sink, the last          *)
(* published snapshot carries the current transition.                      *)
LastIsCurrent ==
    (\A t \in Threads : at[t] = "idle") => last.config = config

(* "Called after the batch finished routing (scheduled or explicit no-op)" *)
(* (watch_loop.rs:87): a watch loop with no batch in hand leaves no        *)
(* debounce pending.                                                       *)
NoDebounceWhenIdle == batch = "idle" => ~book.debounce
=============================================================================
