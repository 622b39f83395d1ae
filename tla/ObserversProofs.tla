-------------------------- MODULE ObserversProofs ---------------------------
(***************************************************************************)
(* For every number of generations, waiters and subscribers, every bound   *)
(* on the history and every size of a channel: an await that names an      *)
(* outcome names one that really happened, and a subscriber is neither     *)
(* behind what was published nor ahead of what awaits know of.             *)
(***************************************************************************)
EXTENDS Observers, TLAPS

Places == {"idle", "observe", "apply", "facts", "state", "config", "publish"}
Ids == Gens \cup {0}
Types == {"none", "Started", "Finished", "Cancelled"}
Events == [type : Types, gen : Ids, rel : Ids]
Entries == [gen : Gens, reason : {"Finished", "Cancelled", "Superseded"}]
Books == [latest : Ids, terminal : Seq(Entries), debounce : BOOLEAN]
Reasons == {"none", "Finished", "Cancelled", "Superseded", "Timeout", "Disconnected"}
Waits == [state : {"idle", "waiting", "returned"}, mode : Modes, entry : Ids,
          reason : Reasons, view : Views, freshness : Freshnesses]
Subs == [state : {"off", "on", "lost"}, channel : Seq(Snapshots), seen : Snapshots]

SourceTyped == status \in [Gens -> L!Statuses]
SinkTyped == at \in [Threads -> Places] /\ event \in [Threads -> Events]
BookTyped == book \in Books /\ Len(book.terminal) <= HistoryBound
ViewTyped == view \in Views /\ batch \in {"idle", "routing"}
WaitersTyped == waiter \in [Waiters -> Waits]
BrokerTyped == built \in [Threads -> Snapshots] /\ last \in Snapshots /\ config \in 0 .. MaxConfig
SubsTyped == sub \in [Subscribers -> Subs] /\ \A s \in Subscribers : Len(sub[s].channel) <= Buffer

(* An entry says how its generation ended.                                 *)
Holds(entry) == Over(entry.gen) /\ (entry.reason = "Finished" <=> status[entry.gen] = "finished")

(* An event on its way to the book tells what its generation's status is   *)
(* already (the source moves before the sink runs, and an end is final),   *)
(* and on its way to the view it has passed the book.                      *)
EventHolds(e) ==
    /\ e.gen \in Gens /\ e.type # "none"
    /\ e.type = "Finished" => status[e.gen] = "finished"
    /\ e.type = "Cancelled" => status[e.gen] = "cancelled"

EventsHold ==
    \A t \in Threads :
        /\ at[t] = "observe" => EventHolds(event[t])
        /\ at[t] = "apply" => event[t].type # "none" /\ event[t].gen <= book.latest

BookHolds == \A i \in 1 .. Len(book.terminal) : Holds(book.terminal[i])

WaitersHold ==
    \A w \in Waiters : waiter[w].state = "returned" /\ waiter[w].entry # 0 =>
        /\ Holds([gen |-> waiter[w].entry, reason |-> waiter[w].reason])
        /\ waiter[w].mode.kind = "Exact" => waiter[w].entry = waiter[w].mode.gen
        /\ waiter[w].mode.kind = "After" => waiter[w].entry > waiter[w].mode.gen

(* What is shown, or is on its way to be, has been observed.               *)
BuiltIsObserved ==
    /\ view.gen <= book.latest /\ last.view.gen <= book.latest
    /\ \A t \in Threads : built[t].view.gen <= book.latest

SentIsObserved ==
    \A s \in Subscribers :
        /\ sub[s].seen.view.gen <= book.latest
        /\ \A i \in 1 .. Len(sub[s].channel) : sub[s].channel[i].view.gen <= book.latest

IInv ==
    /\ SourceTyped /\ SinkTyped /\ BookTyped /\ ViewTyped /\ WaitersTyped /\ BrokerTyped /\ SubsTyped
    /\ EventsHold /\ BookHolds /\ WaitersHold /\ BuiltIsObserved /\ SentIsObserved
    /\ SubscriberIsUpToDate
-----------------------------------------------------------------------------
(* What the bounded history keeps was in it or has just been recorded.     *)
LEMMA RecordKeeps ==
    ASSUME NEW terminal \in Seq(Entries), NEW entry \in Entries, NEW bound \in Nat \ {0},
           Len(terminal) <= bound
    PROVE  /\ Record(terminal, entry, bound) \in Seq(Entries)
           /\ Len(Record(terminal, entry, bound)) <= bound
           /\ \A i \in 1 .. Len(Record(terminal, entry, bound)) :
                 \/ Record(terminal, entry, bound)[i] = entry
                 \/ \E j \in 1 .. Len(terminal) : Record(terminal, entry, bound)[i] = terminal[j]
<1> DEFINE all == Append(terminal, entry)
<1>1. /\ all \in Seq(Entries) /\ Len(all) = Len(terminal) + 1 /\ Len(terminal) \in Nat
      /\ \A i \in 1 .. Len(all) : all[i] = entry \/ (i \in 1 .. Len(terminal) /\ all[i] = terminal[i])
  OBVIOUS
<1> HIDE DEF all
<1>2. CASE Len(all) > bound
  <2> DEFINE from == Len(all) - bound + 1
  <2>1. from \in 1 .. Len(all)
    BY <1>1, <1>2
  <2>2. /\ SubSeq(all, from, Len(all)) \in Seq(Entries)
        /\ Len(SubSeq(all, from, Len(all))) = bound
        /\ \A i \in 1 .. bound : /\ SubSeq(all, from, Len(all))[i] = all[from + i - 1]
                                 /\ from + i - 1 \in 1 .. Len(all)
    BY <1>1, <1>2, <2>1
  <2>3. Record(terminal, entry, bound) = SubSeq(all, from, Len(all))
    BY <1>2, Zenon DEF Record, all
  <2>4. \A i \in 1 .. bound : \/ SubSeq(all, from, Len(all))[i] = entry
                             \/ \E j \in 1 .. Len(terminal) : SubSeq(all, from, Len(all))[i] = terminal[j]
    BY <1>1, <2>2, Zenon
  <2> HIDE DEF from
  <2> QED
    BY <2>2, <2>3, <2>4, SMTT(30)
<1>3. CASE ~(Len(all) > bound)
  <2>1. Record(terminal, entry, bound) = all
    BY <1>3, Zenon DEF Record, all
  <2> QED
    BY <1>1, <1>3, <2>1
<1> QED
  BY <1>2, <1>3, Zenon

(* Ids are numbers, and the views of a snapshot have one.                  *)
LEMMA IdsAreNumbers == Ids \subseteq Nat /\ Gens \subseteq Ids /\ 0 \in Ids /\ 0 \notin Gens
BY BoundsAssumption DEF Ids, Gens

(* A subscriber's channel with a snapshot at its end, or without its head. *)
LEMMA Queued ==
    ASSUME NEW q \in Seq(Snapshots), NEW x \in Snapshots, NEW r, r = Append(q, x)
    PROVE  /\ r \in Seq(Snapshots) /\ r # << >> /\ Len(q) \in Nat /\ Len(r) = Len(q) + 1
           /\ r[Len(r)] = x
           /\ \A i \in 1 .. Len(r) : (i \in 1 .. Len(q) /\ r[i] = q[i]) \/ r[i] = x
OBVIOUS

LEMMA Drained ==
    ASSUME NEW q \in Seq(Snapshots), q # << >>, NEW r, r = Tail(q)
    PROVE  /\ r \in Seq(Snapshots) /\ Head(q) \in Snapshots /\ Head(q) = q[1]
           /\ Len(q) \in Nat /\ Len(q) >= 1 /\ Len(r) = Len(q) - 1
           /\ r # << >> => r[Len(r)] = q[Len(q)]
           /\ r = << >> => Len(q) = 1
           /\ \A i \in 1 .. Len(r) : i + 1 \in 1 .. Len(q) /\ r[i] = q[i + 1]
<1>1. r \in Seq(Snapshots) /\ Head(q) \in Snapshots /\ Head(q) = q[1]
  OBVIOUS
<1>2. Len(q) \in Nat /\ Len(q) >= 1 /\ Len(r) = Len(q) - 1
  OBVIOUS
<1>3. \A i \in 1 .. Len(r) : r[i] = q[i + 1]
  OBVIOUS
<1>4. r # << >> => Len(r) >= 1
  BY <1>1
<1>5. r = << >> => Len(q) = 1
  BY <1>2, SMTT(30)
<1> QED
  BY <1>1, <1>2, <1>3, <1>4, <1>5

(* An end is final, and what has been observed stays observed.             *)
Final == \A gen \in Gens : Over(gen) => status'[gen] = status[gen]
Grows == book.latest <= book'.latest

LEMMA FinalKeeps ==
    ASSUME Final
    PROVE  /\ \A entry : entry.gen \in Gens /\ Holds(entry) => Holds(entry)'
           /\ \A e : EventHolds(e) => EventHolds(e)'
BY Zenon DEF Final, Holds, Over, EventHolds

LEMMA FinalMoves ==
    ASSUME SourceTyped, NEW gen \in Gens, NEW from, NEW to \in L!Statuses,
           from \notin {"finished", "cancelled"}, L!Move(gen, from, to)
    PROVE  SourceTyped' /\ Final /\ status'[gen] = to
BY Zenon DEF SourceTyped, Final, Over, L!Move

(* What each conjunct of the invariant depends on.                         *)
LEMMA FrameOfTypes ==
    /\ SinkTyped /\ UNCHANGED <<at, event>> => SinkTyped'
    /\ BookTyped /\ UNCHANGED book => BookTyped'
    /\ ViewTyped /\ UNCHANGED <<view, batch>> => ViewTyped'
    /\ WaitersTyped /\ UNCHANGED waiter => WaitersTyped'
    /\ BrokerTyped /\ UNCHANGED <<built, last, config>> => BrokerTyped'
    /\ SubsTyped /\ UNCHANGED sub => SubsTyped'
BY Zenon DEF SinkTyped, BookTyped, ViewTyped, WaitersTyped, BrokerTyped, SubsTyped

LEMMA FrameOfEvents ==
    ASSUME EventsHold, Final, Grows, SinkTyped, BookTyped, BookTyped', UNCHANGED <<at, event>>
    PROVE  EventsHold'
<1> SUFFICES ASSUME NEW t \in Threads
             PROVE  /\ at'[t] = "observe" => EventHolds(event[t])'
                    /\ at'[t] = "apply" => event'[t].type # "none" /\ event'[t].gen <= book'.latest
  BY Zenon DEF EventsHold
<1>1. event'[t] = event[t] /\ at'[t] = at[t] /\ event[t].gen \in Ids
  BY Zenon DEF SinkTyped, Events
<1>2. book.latest \in Ids /\ book'.latest \in Ids
  BY Zenon DEF BookTyped, Books
<1>3. event[t].gen \in Nat /\ book.latest \in Nat /\ book'.latest \in Nat
  BY <1>1, <1>2, IdsAreNumbers, Zenon
<1>4. at'[t] = "observe" => EventHolds(event[t])'
  BY <1>1, FinalKeeps, Zenon DEF EventsHold, EventHolds
<1>5. at'[t] = "apply" => event'[t].type # "none" /\ event'[t].gen <= book'.latest
  BY <1>1, <1>3 DEF EventsHold, Grows
<1> QED
  BY <1>4, <1>5, Zenon

LEMMA FrameOfBook ==
    ASSUME BookHolds, Final, BookTyped, UNCHANGED book
    PROVE  BookHolds'
<1> SUFFICES ASSUME NEW i \in 1 .. Len(book.terminal) PROVE Holds(book.terminal[i])'
  BY Zenon DEF BookHolds
<1>1. book.terminal \in Seq(Entries)
  BY Zenon DEF BookTyped, Books
<1>2. \A q \in Seq(Entries) : \A j \in 1 .. Len(q) : q[j] \in Entries
  OBVIOUS
<1>3. \A entry \in Entries : entry.gen \in Gens
  BY Zenon DEF Entries
<1>4. book.terminal[i].gen \in Gens
  BY <1>1, <1>2, <1>3, Zenon
<1> QED
  BY <1>4, FinalKeeps, Zenon DEF BookHolds, Holds, Over

LEMMA FrameOfWaiters ==
    ASSUME WaitersHold, Final, WaitersTyped, UNCHANGED waiter
    PROVE  WaitersHold'
<1> SUFFICES ASSUME NEW w \in Waiters, waiter[w].state = "returned", waiter[w].entry # 0
             PROVE  /\ Holds([gen |-> waiter[w].entry, reason |-> waiter[w].reason])'
                    /\ waiter[w].mode.kind = "Exact" => waiter[w].entry = waiter[w].mode.gen
                    /\ waiter[w].mode.kind = "After" => waiter[w].entry > waiter[w].mode.gen
  BY Zenon DEF WaitersHold
<1>1. waiter[w].entry \in Gens
  BY Zenon DEF WaitersTyped, Waits, Ids
<1> QED
  BY <1>1, FinalKeeps, Zenon DEF WaitersHold, Holds, Over, Final

LEMMA FrameOfBuilt ==
    ASSUME BuiltIsObserved, Grows, BookTyped, BookTyped', ViewTyped, BrokerTyped, UNCHANGED <<view, last, built>>
    PROVE  BuiltIsObserved'
<1>1. book.latest \in Nat /\ book'.latest \in Nat
  BY IdsAreNumbers, Zenon DEF BookTyped, Books
<1>2. view.gen \in Nat /\ last.view.gen \in Nat /\ \A t \in Threads : built[t].view.gen \in Nat
  BY IdsAreNumbers, Zenon DEF ViewTyped, BrokerTyped, Snapshots, Views, Ids
<1> QED
  BY <1>1, <1>2 DEF BuiltIsObserved, Grows

LEMMA FrameOfSent ==
    ASSUME SentIsObserved, Grows, BookTyped, BookTyped', SubsTyped, UNCHANGED sub
    PROVE  SentIsObserved'
<1>1. book.latest \in Nat /\ book'.latest \in Nat
  BY IdsAreNumbers, Zenon DEF BookTyped, Books
<1>2. \A s \in Subscribers : sub[s].seen \in Snapshots /\ sub[s].channel \in Seq(Snapshots)
  BY Zenon DEF SubsTyped, Subs
<1>3. \A x \in Snapshots : x.view.gen \in Nat
  BY IdsAreNumbers, Zenon DEF Snapshots, Views, Ids
<1>4. \A s \in Subscribers :
        /\ sub[s].seen.view.gen \in Nat
        /\ \A i \in 1 .. Len(sub[s].channel) : sub[s].channel[i].view.gen \in Nat
  BY <1>2, <1>3
<1> QED
  BY <1>1, <1>4, SMTT(30) DEF SentIsObserved, Grows

LEMMA FrameOfUpToDate == SubscriberIsUpToDate /\ UNCHANGED <<sub, last>> => SubscriberIsUpToDate'
BY Zenon DEF SubscriberIsUpToDate

LEMMA Frame ==
    ASSUME IInv, Final, Grows, BookTyped'
    PROVE  /\ UNCHANGED <<at, event>> => SinkTyped' /\ EventsHold'
           /\ UNCHANGED book => BookHolds'
           /\ UNCHANGED <<view, batch>> => ViewTyped'
           /\ UNCHANGED waiter => WaitersTyped' /\ WaitersHold'
           /\ UNCHANGED <<built, last, config>> => BrokerTyped'
           /\ UNCHANGED <<view, last, built>> => BuiltIsObserved'
           /\ UNCHANGED sub => SubsTyped' /\ SentIsObserved'
           /\ UNCHANGED <<sub, last>> => SubscriberIsUpToDate'
<1>1. UNCHANGED <<at, event>> => SinkTyped' /\ EventsHold'
  BY FrameOfTypes, FrameOfEvents, Zenon DEF IInv
<1>2. UNCHANGED book => BookHolds'
  BY FrameOfBook, Zenon DEF IInv
<1>3. UNCHANGED waiter => WaitersTyped' /\ WaitersHold'
  BY FrameOfTypes, FrameOfWaiters, Zenon DEF IInv
<1>4. UNCHANGED <<view, last, built>> => BuiltIsObserved'
  BY FrameOfBuilt, Zenon DEF IInv
<1>5. UNCHANGED sub => SubsTyped' /\ SentIsObserved'
  BY FrameOfTypes, FrameOfSent, Zenon DEF IInv
<1> QED
  BY <1>1, <1>2, <1>3, <1>4, <1>5, FrameOfTypes, FrameOfUpToDate, Zenon DEF IInv

(* A step that leaves the source and the book alone.                       *)
LEMMA Still ==
    ASSUME IInv, UNCHANGED <<status, book>>
    PROVE  SourceTyped' /\ Final /\ Grows /\ BookTyped'
<1>1. SourceTyped' /\ Final
  BY Zenon DEF IInv, SourceTyped, Final
<1>2. BookTyped'
  BY FrameOfTypes, Zenon DEF IInv
<1>3. book.latest \in Nat
  BY IdsAreNumbers, Zenon DEF IInv, BookTyped, Books
<1>4. Grows
  BY <1>3 DEF Grows
<1> QED
  BY <1>1, <1>2, <1>4, Zenon

(* A step of the source alone.                                             *)
LEMMA Standing ==
    ASSUME IInv, SourceTyped', Final,
           UNCHANGED <<at, event, book, view, config, last, sub, built, batch, waiter>>
    PROVE  IInv'
<1>1. book.latest \in Nat
  BY IdsAreNumbers, Zenon DEF IInv, BookTyped, Books
<1>2. Grows /\ BookTyped'
  BY <1>1, FrameOfTypes DEF IInv, Grows
<1> QED
  BY <1>2, Frame, Zenon DEF IInv

(* A thread enters the sink with an event its generation's status bears    *)
(* out, or goes on in it.                                                  *)
LEMMA Emitting ==
    ASSUME IInv, NEW t \in Threads, NEW type \in Types \ {"none"}, NEW gen \in Gens, NEW rel \in Ids,
           Emits(t, type, gen, rel), SourceTyped', Final,
           type = "Finished" => status'[gen] = "finished",
           type = "Cancelled" => status'[gen] = "cancelled"
    PROVE  IInv'
<1>1. UNCHANGED <<book, view, config, last, sub, built, batch, waiter>>
  BY Zenon DEF Emits, sharedVars
<1>2. book.latest \in Nat
  BY IdsAreNumbers, Zenon DEF IInv, BookTyped, Books
<1>3. Grows /\ BookTyped'
  BY <1>1, <1>2, FrameOfTypes DEF IInv, Grows
<1>4. [type |-> type, gen |-> gen, rel |-> rel] \in Events
  BY IdsAreNumbers, Zenon DEF Events
<1>5. SinkTyped'
  BY <1>4, Zenon DEF IInv, SinkTyped, Emits, Places
<1>6. EventsHold'
  <2> SUFFICES ASSUME NEW u \in Threads
               PROVE  /\ at'[u] = "observe" => EventHolds(event[u])'
                      /\ at'[u] = "apply" => event'[u].type # "none" /\ event'[u].gen <= book'.latest
    BY Zenon DEF EventsHold
  <2>1. CASE u = t
    <3>1. at'[t] = "observe" /\ event'[t] = [type |-> type, gen |-> gen, rel |-> rel]
      BY Zenon DEF IInv, SinkTyped, Emits
    <3> QED
      BY <2>1, <3>1 DEF EventHolds
  <2>2. CASE u # t
    <3>1. at'[u] = at[u] /\ event'[u] = event[u]
      BY <2>2, Zenon DEF IInv, SinkTyped, Emits
    <3>2. at[u] = "observe" => EventHolds(event[u])'
      BY <3>1, FinalKeeps, Zenon DEF IInv, EventsHold, EventHolds
    <3> QED
      BY <1>1, <3>1, <3>2, Zenon DEF IInv, EventsHold
  <2> QED
    BY <2>1, <2>2, Zenon
<1> QED
  BY <1>1, <1>3, <1>5, <1>6, Frame, Zenon DEF IInv

LEMMA Going ==
    ASSUME IInv, NEW t \in Threads, NEW place \in Places \ {"observe", "apply"},
           at' = [at EXCEPT ![t] = place], UNCHANGED <<status, book>>,
           event' = event \/ event' = [event EXCEPT ![t] = NoEvent]
    PROVE  SinkTyped' /\ EventsHold'
<1>1. NoEvent \in Events
  BY IdsAreNumbers, Zenon DEF NoEvent, Events, Types
<1>2. SinkTyped'
  BY <1>1, Zenon DEF IInv, SinkTyped
<1>3. at'[t] = place /\ \A u \in Threads \ {t} : at'[u] = at[u] /\ event'[u] = event[u]
  BY Zenon DEF IInv, SinkTyped
<1>4. \A e : EventHolds(e) => EventHolds(e)'
  BY Zenon DEF EventHolds
<1> QED
  BY <1>2, <1>3, <1>4 DEF IInv, EventsHold, EventHolds
-----------------------------------------------------------------------------
LEMMA InitIInv == Init => IInv
<1> SUFFICES ASSUME Init PROVE IInv
  BY Zenon
<1> USE IdsAreNumbers
<1>1. IdleView \in Views /\ Seed \in Snapshots /\ EmptyBook \in Books /\ NoEvent \in Events
  BY BoundsAssumption DEF IdleView, Views, Seed, Snapshot, Snapshots, Freshnesses, EmptyBook, Books, NoEvent, Events, Types, Ids
<1>2. IdleWaiter \in Waits
  BY <1>1, BoundsAssumption DEF IdleWaiter, Waits, Modes, Reasons, Freshnesses, Gens
<1>3. SourceTyped /\ SinkTyped /\ ViewTyped /\ WaitersTyped /\ BrokerTyped
  BY <1>1, <1>2, BoundsAssumption DEF Init, L!Init, L!Statuses, SourceTyped, SinkTyped, Places, ViewTyped, WaitersTyped, BrokerTyped
<1>4. BookTyped /\ BookHolds
  BY <1>1, BoundsAssumption DEF Init, BookTyped, BookHolds, EmptyBook
<1>5. SubsTyped
  BY <1>1, BoundsAssumption DEF Init, SubsTyped, Subs
<1>6. EventsHold /\ WaitersHold
  BY Zenon DEF Init, EventsHold, WaitersHold, IdleWaiter
<1>7. BuiltIsObserved /\ SentIsObserved /\ SubscriberIsUpToDate
  BY DEF Init, BuiltIsObserved, SentIsObserved, SubscriberIsUpToDate, Seed, Snapshot, IdleView, EmptyBook
<1> QED
  BY <1>3, <1>4, <1>5, <1>6, <1>7, Zenon DEF IInv

-----------------------------------------------------------------------------
(* The source's steps.                                                     *)
LEMMA SourceKeeps ==
    ASSUME IInv, Source
    PROVE  IInv'
<1> USE DEF L!Statuses
<1>1. SourceTyped
  BY Zenon DEF IInv
<1>2. CASE Schedule
  <2>1. SourceTyped' /\ Final
    BY <1>1, <1>2, FinalMoves, Zenon DEF Schedule, L!Schedule
  <2>2. UNCHANGED <<at, event, book, view, config, last, sub, built, batch, waiter>>
    BY <1>2, Zenon DEF Schedule, sinkVars, sharedVars
  <2> QED
    BY <2>1, <2>2, Standing, Zenon
<1>3. CASE EmitStarted
  <2>1. PICK gen \in Gens : L!Start(gen) /\ Emits("consumer", "Started", gen, 0)
    BY <1>3, Zenon DEF EmitStarted
  <2>2. SourceTyped' /\ Final
    BY <1>1, <2>1, FinalMoves, Zenon DEF L!Start
  <2> QED
    BY <2>1, <2>2, Emitting, IdsAreNumbers, Zenon DEF Threads, Types
<1>4. CASE EmitFinished
  <2>1. PICK gen \in Gens : L!Finish(gen) /\ Emits("consumer", "Finished", gen, 0)
    BY <1>4, Zenon DEF EmitFinished
  <2>2. SourceTyped' /\ Final /\ status'[gen] = "finished"
    BY <1>1, <2>1, FinalMoves, Zenon DEF L!Finish
  <2> QED
    BY <2>1, <2>2, Emitting, IdsAreNumbers, Zenon DEF Threads, Types
<1>5. CASE EmitCancelled
  <2>1. PICK gen \in Gens : \E by \in Successors(gen) : L!Cancel(gen) /\ Emits("consumer", "Cancelled", gen, by)
    BY <1>5, Zenon DEF EmitCancelled
  <2>2. PICK by \in Ids : L!Cancel(gen) /\ Emits("consumer", "Cancelled", gen, by)
    BY <2>1, Zenon DEF Successors, Ids
  <2>3. SourceTyped' /\ Final /\ status'[gen] = "cancelled"
    BY <1>1, <2>2, FinalMoves, Zenon DEF L!Cancel
  <2> QED
    BY <2>2, <2>3, Emitting, Zenon DEF Threads, Types
<1>6. CASE EmitDiscarded
  <2>1. PICK gen \in Gens : \E by \in Successors(gen) : L!Discard(gen) /\ Emits("sender", "Cancelled", gen, by)
    BY <1>6, Zenon DEF EmitDiscarded
  <2>2. PICK by \in Ids : L!Discard(gen) /\ Emits("sender", "Cancelled", gen, by)
    BY <2>1, Zenon DEF Successors, Ids
  <2>3. SourceTyped' /\ Final /\ status'[gen] = "cancelled"
    BY <1>1, <2>2, FinalMoves, Zenon DEF L!Discard
  <2> QED
    BY <2>2, <2>3, Emitting, Zenon DEF Threads, Types
<1>7. CASE EmitTaskEvent
  <2>1. UNCHANGED <<status, event, book, view, config, last, sub, built, batch, waiter>>
    BY <1>7, Zenon DEF EmitTaskEvent, sharedVars
  <2>2. SinkTyped' /\ EventsHold'
    BY <1>7, <2>1, Going, Zenon DEF EmitTaskEvent, Threads, Places
  <2> QED
    BY <2>1, <2>2, Still, Frame, Zenon DEF IInv
<1>8. CASE Vanish
  <2>1. SourceTyped' /\ Final
    BY <1>1, <1>8, FinalMoves, Zenon DEF Vanish, L!Vanish
  <2>2. UNCHANGED <<at, event, book, view, config, last, sub, built, batch, waiter>>
    BY <1>8, Zenon DEF Vanish, sinkVars, sharedVars
  <2> QED
    BY <2>1, <2>2, Standing, Zenon
<1> QED
  BY <1>2, <1>3, <1>4, <1>5, <1>6, <1>7, <1>8, Zenon DEF Source

(* The coordinator takes an event: the entry it records holds, and the     *)
(* event's generation is not beyond the latest one any more.               *)
LEMMA ObserveKeeps ==
    ASSUME IInv, NEW t \in Threads, SinkObserve(t)
    PROVE  IInv'
<1>1. UNCHANGED <<status, event, view, config, last, sub, built, batch, waiter>>
  BY Zenon DEF SinkObserve
<1>2. SourceTyped' /\ Final
  BY <1>1, Zenon DEF IInv, SourceTyped, Final
<1> PICK e : e = event[t]
  BY Zenon
<1>3. e \in Events /\ EventHolds(e) /\ e.gen \in Gens /\ e.rel \in Ids /\ e.type \in {"Started", "Finished", "Cancelled"}
  BY Zenon DEF IInv, SinkTyped, EventsHold, EventHolds, SinkObserve, Events, Types
<1>4. book \in Books /\ book.latest \in Ids /\ book.terminal \in Seq(Entries) /\ book.debounce \in BOOLEAN
      /\ Len(book.terminal) <= HistoryBound
  BY Zenon DEF IInv, BookTyped, Books
<1> PICK entry : entry = [gen |-> e.gen, reason |-> Reason(e)]
  BY Zenon
<1>5. \A m, n \in Ids : Larger(m, n) \in Ids /\ m <= Larger(m, n) /\ n <= Larger(m, n)
  BY IdsAreNumbers DEF Larger
<1>6. e.gen \in Ids /\ \A m, n, k \in Ids : m <= n /\ n <= k => m <= k
  <2>1. \A m, n, k \in Nat : m <= n /\ n <= k => m <= k
    OBVIOUS
  <2> QED
    BY <1>3, <2>1, IdsAreNumbers, Zenon
<1>7. /\ book'.latest \in Ids /\ book.latest <= book'.latest /\ e.gen <= book'.latest
      /\ book' = [book EXCEPT !.latest = book'.latest, !.terminal = book'.terminal]
      /\ \/ book'.terminal = book.terminal
         \/ e.type # "Started" /\ book'.terminal = Record(book.terminal, entry, HistoryBound)
  <2>1. CASE e.type = "Started"
    <3>1. book' = [book EXCEPT !.latest = Larger(book.latest, e.gen)]
      BY <2>1, Zenon DEF SinkObserve, Observe
    <3> QED
      BY <1>4, <1>5, <1>6, <3>1, Zenon DEF Books
  <2>2. CASE e.type # "Started"
    <3>1. book' = [book EXCEPT !.latest = Larger(Larger(book.latest, e.gen), e.rel),
                               !.terminal = Record(book.terminal, entry, HistoryBound)]
      BY <2>2, Zenon DEF SinkObserve, Observe
    <3>2. PICK m \in Ids : m = Larger(book.latest, e.gen) /\ book.latest <= m /\ e.gen <= m
      BY <1>4, <1>5, <1>6
    <3>3. PICK k \in Ids : k = Larger(m, e.rel) /\ m <= k
      BY <1>3, <1>5, Zenon
    <3>4. book.latest <= k /\ e.gen <= k
      BY <1>4, <1>6, <3>2, <3>3, Zenon
    <3>5. book'.latest = k /\ book'.terminal = Record(book.terminal, entry, HistoryBound)
          /\ book' = [book EXCEPT !.latest = book'.latest, !.terminal = book'.terminal]
      BY <1>4, <3>1, <3>2, <3>3, Zenon DEF Books
    <3> QED
      BY <2>2, <3>4, <3>5, Zenon
  <2> QED
    BY <2>1, <2>2, Zenon
<1>8. e.type # "Started" => entry \in Entries /\ Holds(entry)
  BY <1>3, Zenon DEF Entries, Holds, Reason, EventHolds, Over
<1>9. /\ book'.terminal \in Seq(Entries) /\ Len(book'.terminal) <= HistoryBound
      /\ \A i \in 1 .. Len(book'.terminal) : Holds(book'.terminal[i])
  <2>1. CASE book'.terminal = book.terminal
    BY <1>4, <2>1, Zenon DEF IInv, BookHolds
  <2>2. CASE e.type # "Started" /\ book'.terminal = Record(book.terminal, entry, HistoryBound)
    <3>1. /\ book'.terminal \in Seq(Entries) /\ Len(book'.terminal) <= HistoryBound
          /\ \A i \in 1 .. Len(book'.terminal) :
                book'.terminal[i] = entry \/ \E j \in 1 .. Len(book.terminal) : book'.terminal[i] = book.terminal[j]
      BY <1>4, <1>8, <2>2, RecordKeeps, BoundsAssumption
    <3> QED
      BY <1>8, <2>2, <3>1, Zenon DEF IInv, BookHolds
  <2> QED
    BY <1>7, <2>1, <2>2, Zenon
<1>10. BookTyped' /\ Grows
  <2>1. book' \in Books
    BY <1>4, <1>7, <1>9, Zenon DEF Books
  <2> QED
    BY <1>7, <1>9, <2>1, Zenon DEF BookTyped, Grows
<1>11. BookHolds'
  BY <1>1, <1>9, Zenon DEF BookHolds, Holds, Over
<1>12. SinkTyped'
  BY <1>1, Zenon DEF IInv, SinkTyped, SinkObserve, Places
<1>13. EventsHold'
  <2>1. /\ at'[t] = "apply" /\ \A u \in Threads \ {t} : at'[u] = at[u]
        /\ \A u \in Threads : event'[u] = event[u] /\ event[u].gen \in Ids
    BY <1>1, Zenon DEF IInv, SinkTyped, SinkObserve, Events
  <2>2. \A x : EventHolds(x) => EventHolds(x)'
    BY <1>1, Zenon DEF EventHolds
  <2>3. \A u \in Threads : event[u].gen <= book.latest => event[u].gen <= book'.latest
    BY <1>4, <1>6, <1>7, <2>1, Zenon
  <2> QED
    BY <1>3, <1>7, <2>1, <2>2, <2>3 DEF IInv, EventsHold, EventHolds
<1> QED
  BY <1>1, <1>2, <1>10, <1>11, <1>12, <1>13, Frame, Zenon DEF IInv

(* A snapshot is published: a subscriber has it as the last of its         *)
(* channel, or is lost.                                                    *)
LEMMA PublishKeeps ==
    ASSUME IInv, NEW t \in Threads, Publish(t)
    PROVE  IInv'
<1>1. UNCHANGED <<status, event, book, view, config, batch, waiter>>
  BY Zenon DEF Publish
<1>2. SinkTyped' /\ EventsHold'
  BY <1>1, Going, Zenon DEF Publish, Places
<1>3. /\ built \in [Threads -> Snapshots] /\ last \in Snapshots /\ config \in 0 .. MaxConfig
      /\ BuiltIsObserved /\ SentIsObserved /\ SubscriberIsUpToDate /\ sub \in [Subscribers -> Subs]
      /\ \A s \in Subscribers : Len(sub[s].channel) <= Buffer
  BY Zenon DEF IInv, BrokerTyped, SubsTyped
<1>4. Seed \in Snapshots /\ Seed.view.gen = 0
  BY BoundsAssumption, IdsAreNumbers DEF Seed, Snapshot, Snapshots, Freshnesses, IdleView, Views, Ids
<1>5. book.latest \in Nat
  BY IdsAreNumbers, Zenon DEF IInv, BookTyped, Books
<1> PICK x : x = built[t]
  BY Zenon
<1>6. x \in Snapshots /\ x.view.gen <= book.latest
  BY <1>3, Zenon DEF BuiltIsObserved
<1>7. BrokerTyped' /\ BuiltIsObserved'
  <2>1. last' \in {last, x} /\ built' = [built EXCEPT ![t] = Seed]
    BY Zenon DEF Publish
  <2> QED
    BY <1>1, <1>3, <1>4, <1>5, <1>6, <2>1 DEF BrokerTyped, BuiltIsObserved
<1>8. CASE x = last
  <2>1. UNCHANGED <<last, sub>>
    BY <1>8, Zenon DEF Publish
  <2> QED
    BY <1>1, <1>2, <1>7, <2>1, Still, Frame, Zenon DEF IInv
<1>9. CASE x # last
  <2>1. last' = x /\ sub' = [s \in Subscribers |-> Sent(sub[s], x)]
    BY <1>9, Zenon DEF Publish
  <2>2. ASSUME NEW s \in Subscribers
        PROVE  /\ sub'[s] \in Subs /\ Len(sub'[s].channel) <= Buffer
               /\ sub'[s].seen.view.gen <= book.latest
               /\ \A i \in 1 .. Len(sub'[s].channel) : sub'[s].channel[i].view.gen <= book.latest
               /\ sub'[s].state = "on" => /\ sub'[s].channel # << >>
                                         /\ sub'[s].channel[Len(sub'[s].channel)] = x
    <3>1. /\ sub[s] \in Subs /\ sub[s].channel \in Seq(Snapshots) /\ Len(sub[s].channel) <= Buffer
          /\ sub[s].seen.view.gen <= book.latest
          /\ \A i \in 1 .. Len(sub[s].channel) : sub[s].channel[i].view.gen <= book.latest
      BY <1>3, Zenon DEF SentIsObserved, Subs
    <3>2. CASE sub[s].state # "on"
      BY <2>1, <3>1, <3>2, Zenon DEF Sent
    <3>3. CASE sub[s].state = "on" /\ Len(sub[s].channel) < Buffer
      <4>1. PICK r : r = Append(sub[s].channel, x)
        BY Zenon
      <4>2. /\ r \in Seq(Snapshots) /\ r # << >> /\ Len(sub[s].channel) \in Nat /\ Len(r) = Len(sub[s].channel) + 1
            /\ r[Len(r)] = x
            /\ \A i \in 1 .. Len(r) : (i \in 1 .. Len(sub[s].channel) /\ r[i] = sub[s].channel[i]) \/ r[i] = x
        BY <1>6, <3>1, <4>1, Queued
      <4>3. sub'[s] = [sub[s] EXCEPT !.channel = r]
        BY <2>1, <3>3, <4>1, Zenon DEF Sent
      <4>4. sub'[s] \in Subs /\ sub'[s].channel = r /\ sub'[s].seen = sub[s].seen
        BY <3>1, <4>2, <4>3, Zenon DEF Subs
      <4>5. Len(r) <= Buffer
        BY <3>3, <4>2, BoundsAssumption
      <4>6. \A i \in 1 .. Len(r) : r[i].view.gen <= book.latest
        BY <1>6, <3>1, <4>2, Zenon
      <4> QED
        BY <3>1, <4>2, <4>4, <4>5, <4>6, Zenon
    <3>4. CASE sub[s].state = "on" /\ ~(Len(sub[s].channel) < Buffer)
      <4>1. sub'[s] = [sub[s] EXCEPT !.state = "lost"]
        BY <2>1, <3>4, Zenon DEF Sent
      <4>2. sub'[s] \in Subs /\ sub'[s].state = "lost" /\ sub'[s].channel = sub[s].channel /\ sub'[s].seen = sub[s].seen
        BY <3>1, <4>1, Zenon DEF Subs
      <4> QED
        BY <3>1, <4>2, Zenon
    <3> QED
      BY <3>2, <3>3, <3>4, Zenon
  <2>3. SubsTyped'
    BY <2>1, <2>2, Zenon DEF SubsTyped
  <2>4. SentIsObserved'
    BY <1>1, <2>2, Zenon DEF SentIsObserved
  <2>5. SubscriberIsUpToDate'
    BY <2>1, <2>2, Zenon DEF SubscriberIsUpToDate
  <2> QED
    BY <1>1, <1>2, <1>7, <2>3, <2>4, <2>5, Still, Frame, Zenon DEF IInv
<1> QED
  BY <1>8, <1>9, Zenon

(* The view, and the snapshots built from it, show an observed generation. *)
LEMMA SinkKeeps ==
    ASSUME IInv, NEW t \in Threads, SinkStep(t)
    PROVE  IInv'
<1>1. /\ view \in Views /\ built \in [Threads -> Snapshots] /\ last \in Snapshots /\ config \in 0 .. MaxConfig
      /\ BuiltIsObserved /\ EventsHold /\ event[t] \in Events
  BY Zenon DEF IInv, ViewTyped, BrokerTyped, SinkTyped
<1>2. CASE SinkObserve(t)
  BY <1>2, ObserveKeeps, Zenon
<1>3. CASE SinkApply(t)
  <2>1. UNCHANGED <<status, book, config, last, sub, built, batch, waiter>>
    BY <1>3, Zenon DEF SinkApply
  <2>2. SinkTyped' /\ EventsHold'
    BY <1>3, <2>1, Going, Zenon DEF SinkApply, Places
  <2>3. view' = Apply(view, event[t]) /\ event[t].type # "none" /\ event[t].gen <= book.latest
    BY <1>1, <1>3, Zenon DEF SinkApply, EventsHold
  <2>4. view' \in Views /\ view'.gen \in {view.gen, event[t].gen}
    BY <1>1, <2>3, Zenon DEF Apply, Views, Events, Types, Ids
  <2>5. ViewTyped' /\ BuiltIsObserved'
    BY <1>1, <2>1, <2>3, <2>4, Zenon DEF IInv, ViewTyped, BuiltIsObserved
  <2> QED
    BY <2>1, <2>2, <2>5, Still, Frame, Zenon DEF IInv
<1>4. CASE ReadFacts(t)
  <2>1. UNCHANGED <<status, event, book, view, config, last, sub, built, batch, waiter>>
    BY <1>4, Zenon DEF ReadFacts, sharedVars
  <2>2. SinkTyped' /\ EventsHold'
    BY <1>4, <2>1, Going, Zenon DEF ReadFacts, Places
  <2> QED
    BY <2>1, <2>2, Still, Frame, Zenon DEF IInv
<1>5. CASE ReadState(t)
  <2>1. UNCHANGED <<status, event, book, view, config, last, sub, batch, waiter>>
    BY <1>5, Zenon DEF ReadState, sharedVars
  <2>2. SinkTyped' /\ EventsHold'
    BY <1>5, <2>1, Going, Zenon DEF ReadState, Places
  <2>3. PICK fresh \in Freshnesses : built' = [built EXCEPT ![t] = Snapshot(view, fresh, 0)]
    BY <1>5, Zenon DEF ReadState, Classify, Freshnesses
  <2>4. Snapshot(view, fresh, 0) \in Snapshots /\ Snapshot(view, fresh, 0).view = view
    BY <1>1, BoundsAssumption DEF Snapshot, Snapshots
  <2>5. BrokerTyped' /\ BuiltIsObserved'
    BY <1>1, <2>1, <2>3, <2>4, Zenon DEF BrokerTyped, BuiltIsObserved
  <2> QED
    BY <2>1, <2>2, <2>5, Still, Frame, Zenon DEF IInv
<1>6. CASE ReadConfig(t)
  <2>1. UNCHANGED <<status, event, book, view, config, last, sub, batch, waiter>>
    BY <1>6, Zenon DEF ReadConfig, sharedVars
  <2>2. SinkTyped' /\ EventsHold'
    BY <1>6, <2>1, Going, Zenon DEF ReadConfig, Places
  <2>3. PICK x : x = [built[t] EXCEPT !.config = config] /\ built' = [built EXCEPT ![t] = x]
    BY <1>6, Zenon DEF ReadConfig
  <2>4. x \in Snapshots /\ x.view = built[t].view
    BY <1>1, <2>3, Zenon DEF Snapshots
  <2>5. BrokerTyped' /\ BuiltIsObserved'
    BY <1>1, <2>1, <2>3, <2>4, Zenon DEF BrokerTyped, BuiltIsObserved
  <2> QED
    BY <2>1, <2>2, <2>5, Still, Frame, Zenon DEF IInv
<1>7. CASE Publish(t)
  BY <1>7, PublishKeeps, Zenon
<1> QED
  BY <1>2, <1>3, <1>4, <1>5, <1>6, <1>7, Zenon DEF SinkStep

(* The steps of the reload thread and of the watch loop.                   *)
LEMMA LoopKeeps ==
    ASSUME IInv, ConfigTransition \/ WatchLoop
    PROVE  IInv'
<1>1. CASE ConfigTransition
  <2>1. UNCHANGED <<status, event, book, view, last, sub, built, batch, waiter>>
    BY <1>1, Zenon DEF ConfigTransition
  <2>2. SinkTyped' /\ EventsHold'
    BY <1>1, <2>1, Going, Zenon DEF ConfigTransition, Threads, Places
  <2>3. BrokerTyped'
    BY <1>1, <2>1, BoundsAssumption DEF IInv, BrokerTyped, ConfigTransition
  <2> QED
    BY <2>1, <2>2, <2>3, Still, Frame, Zenon DEF IInv
<1>2. CASE WatchLoop
  <2>1. UNCHANGED <<status, at, event, view, config, last, sub, built, waiter>> /\ batch' \in {"idle", "routing"}
    BY <1>2, Zenon DEF WatchLoop, OnBatch, BatchUnchanged, OnBatchComplete, sinkVars, sharedVars
  <2>2. book' = book \/ \E b \in BOOLEAN : book' = [book EXCEPT !.debounce = b]
    BY <1>2, Zenon DEF WatchLoop, OnBatch, BatchUnchanged, OnBatchComplete, sharedVars
  <2>3. book \in Books
    BY Zenon DEF IInv, BookTyped
  <2>4. book' \in Books /\ book'.latest = book.latest /\ book'.terminal = book.terminal
    BY <2>2, <2>3, Zenon DEF Books
  <2>5. BookTyped'
    BY <2>4, Zenon DEF IInv, BookTyped
  <2>6. book.latest \in Nat
    BY <2>3, IdsAreNumbers, Zenon DEF Books
  <2>7. Grows
    BY <2>4, <2>6 DEF Grows
  <2>8. SourceTyped' /\ Final /\ BookHolds'
    BY <2>1, <2>4, Zenon DEF IInv, SourceTyped, Final, BookHolds, Holds, Over
  <2>9. ViewTyped'
    BY <2>1, Zenon DEF IInv, ViewTyped
  <2> QED
    BY <2>1, <2>5, <2>7, <2>8, <2>9, Frame, Zenon DEF IInv
<1> QED
  BY <1>1, <1>2, Zenon

(* A waiter returns an entry of the book, or none.                         *)
ChangesWell(w) ==
    \E x \in Waits :
        /\ waiter' = [waiter EXCEPT ![w] = x]
        /\ x.state = "returned" /\ x.entry # 0 =>
            /\ Holds([gen |-> x.entry, reason |-> x.reason])
            /\ x.mode.kind = "Exact" => x.entry = x.mode.gen
            /\ x.mode.kind = "After" => x.entry > x.mode.gen

LEMMA WaitersKeep ==
    ASSUME IInv, NEW w \in Waiters, WaiterStep(w)
    PROVE  IInv'
<1>1. UNCHANGED <<status, at, event, book, view, config, last, sub, built, batch>>
  BY Zenon DEF WaiterStep, BeginAwait, AwaitAnswer, AwaitGivesUp, AwaitDone, sinkVars, sharedVars
<1>2. waiter \in [Waiters -> Waits] /\ WaitersHold /\ view \in Views /\ waiter[w] \in Waits
  BY Zenon DEF IInv, WaitersTyped, ViewTyped
<1>3. ChangesWell(w)
  <2>1. ASSUME NEW mode \in Modes, BeginAwait(w, mode)
        PROVE  ChangesWell(w)
    <3>1. PICK x : x = [waiter[w] EXCEPT !.state = "waiting", !.mode = mode] /\ waiter' = [waiter EXCEPT ![w] = x]
      BY <1>2, <2>1, Zenon DEF BeginAwait
    <3>2. x \in Waits /\ x.state = "waiting"
      BY <1>2, <3>1, Zenon DEF Waits
    <3> QED
      BY <3>1, <3>2, Zenon DEF ChangesWell
  <2>2. ASSUME NEW reason \in Reasons, NEW entry \in Ids, Returns(w, reason, entry),
               entry # 0 => /\ Holds([gen |-> entry, reason |-> reason])
                            /\ waiter[w].mode.kind = "Exact" => entry = waiter[w].mode.gen
                            /\ waiter[w].mode.kind = "After" => entry > waiter[w].mode.gen
        PROVE  ChangesWell(w)
    <3>1. PICK fresh \in Freshnesses : fresh = Classify(view, book.latest, book.debounce)
      BY Zenon DEF Classify, Freshnesses
    <3>2. PICK x : /\ x = [waiter[w] EXCEPT !.state = "returned", !.reason = reason, !.entry = entry,
                                           !.view = view, !.freshness = fresh]
                   /\ waiter' = [waiter EXCEPT ![w] = x]
      BY <2>2, <3>1, Zenon DEF Returns
    <3>3. x \in Waits /\ x.entry = entry /\ x.reason = reason /\ x.mode = waiter[w].mode
      BY <1>2, <3>2, Zenon DEF Waits
    <3> QED
      BY <2>2, <3>2, <3>3, Zenon DEF ChangesWell
  <2>3. CASE AwaitAnswer(w)
    <3>1. PICK i \in 1 .. Len(book.terminal) :
            EvaluatesTo(book.terminal, waiter[w].mode, i) /\ Returns(w, book.terminal[i].reason, book.terminal[i].gen)
      BY <2>3, Zenon DEF AwaitAnswer
    <3>2. book.terminal \in Seq(Entries) /\ Holds(book.terminal[i])
      BY Zenon DEF IInv, BookTyped, Books, BookHolds
    <3>3. PICK entry \in Entries : entry = book.terminal[i]
      BY <3>2
    <3>4. entry.gen \in Ids /\ entry.reason \in Reasons
      BY Zenon DEF Entries, Ids, Reasons
    <3>5. Holds([gen |-> entry.gen, reason |-> entry.reason])
      BY <3>2, <3>3, Zenon DEF Holds
    <3>6. /\ waiter[w].mode.kind = "Exact" => entry.gen = waiter[w].mode.gen
          /\ waiter[w].mode.kind = "After" => entry.gen > waiter[w].mode.gen
      BY <3>1, <3>3, Zenon DEF EvaluatesTo, Answers
    <3> QED
      BY <2>2, <3>1, <3>3, <3>4, <3>5, <3>6, Zenon
  <2>4. ASSUME NEW reason \in {"Timeout", "Disconnected"}, AwaitGivesUp(w, reason)
        PROVE  ChangesWell(w)
    BY <2>2, <2>4, IdsAreNumbers, Zenon DEF AwaitGivesUp, Reasons
  <2>5. CASE AwaitDone(w)
    <3>1. IdleWaiter \in Waits /\ IdleWaiter.state = "idle"
      BY BoundsAssumption, IdsAreNumbers DEF IdleWaiter, Waits, Modes, Reasons, Freshnesses, Gens, Ids, IdleView, Views
    <3> QED
      BY <2>5, <3>1, Zenon DEF AwaitDone, ChangesWell
  <2> QED
    BY <2>1, <2>3, <2>4, <2>5, Zenon DEF WaiterStep
<1>4. PICK x \in Waits :
        /\ waiter' = [waiter EXCEPT ![w] = x]
        /\ x.state = "returned" /\ x.entry # 0 =>
            /\ Holds([gen |-> x.entry, reason |-> x.reason])
            /\ x.mode.kind = "Exact" => x.entry = x.mode.gen
            /\ x.mode.kind = "After" => x.entry > x.mode.gen
  BY <1>3, Zenon DEF ChangesWell
<1>5. WaitersTyped'
  BY <1>2, <1>4, Zenon DEF WaitersTyped
<1>6. waiter'[w] = x /\ \A v \in Waiters \ {w} : waiter'[v] = waiter[v]
  BY <1>2, <1>4, Zenon
<1>7. WaitersHold'
  BY <1>1, <1>2, <1>4, <1>6 DEF WaitersHold, Holds, Over
<1> QED
  BY <1>1, <1>5, <1>7, Still, Frame, Zenon DEF IInv

(* A subscriber's own steps.                                               *)
LEMMA SubscribersKeep ==
    ASSUME IInv, NEW s \in Subscribers, SubscriberStep(s)
    PROVE  IInv'
<1>1. UNCHANGED <<status, at, event, book, view, config, last, built, batch, waiter>>
  BY Zenon DEF SubscriberStep, Subscribe, Notify, WriteFails, Disconnect, sinkVars
<1>2. /\ last \in Snapshots /\ last.view.gen <= book.latest
      /\ sub \in [Subscribers -> Subs] /\ sub[s] \in Subs
      /\ sub[s].channel \in Seq(Snapshots) /\ sub[s].seen \in Snapshots
      /\ Len(sub[s].channel) <= Buffer /\ sub[s].seen.view.gen <= book.latest
      /\ \A i \in 1 .. Len(sub[s].channel) : sub[s].channel[i].view.gen <= book.latest
      /\ sub[s].state = "on" => IF sub[s].channel = << >> THEN sub[s].seen = last
                                ELSE sub[s].channel[Len(sub[s].channel)] = last
  BY Zenon DEF IInv, BrokerTyped, BuiltIsObserved, SubsTyped, Subs, SentIsObserved, SubscriberIsUpToDate
<1>3. << >> \in Seq(Snapshots) /\ Len(<< >>) <= Buffer /\ 1 .. Len(<< >>) = {}
  BY BoundsAssumption
<1>4. PICK x : /\ sub' = [sub EXCEPT ![s] = x] /\ x \in Subs
               /\ Len(x.channel) <= Buffer /\ x.seen.view.gen <= book.latest
               /\ \A i \in 1 .. Len(x.channel) : x.channel[i].view.gen <= book.latest
               /\ x.state = "on" => IF x.channel = << >> THEN x.seen = last
                                    ELSE x.channel[Len(x.channel)] = last
  <2>1. CASE Subscribe(s)
    <3>1. PICK x : x = [state |-> "on", channel |-> << >>, seen |-> last] /\ sub' = [sub EXCEPT ![s] = x]
      BY <2>1, Zenon DEF Subscribe
    <3>2. x \in Subs /\ x.channel = << >> /\ x.seen = last
      BY <1>2, <1>3, <3>1, Zenon DEF Subs
    <3> QED
      BY <1>2, <1>3, <3>1, <3>2, Zenon
  <2>2. CASE Notify(s)
    <3>1. sub[s].channel # << >>
      BY <2>2, Zenon DEF Notify
    <3>2. PICK r : r = Tail(sub[s].channel)
      BY Zenon
    <3>3. PICK h : h = Head(sub[s].channel)
      BY Zenon
    <3>4. /\ r \in Seq(Snapshots) /\ h \in Snapshots /\ h = sub[s].channel[1]
          /\ Len(sub[s].channel) \in Nat /\ Len(sub[s].channel) >= 1 /\ Len(r) = Len(sub[s].channel) - 1
          /\ r # << >> => r[Len(r)] = sub[s].channel[Len(sub[s].channel)]
          /\ r = << >> => Len(sub[s].channel) = 1
          /\ \A i \in 1 .. Len(r) : i + 1 \in 1 .. Len(sub[s].channel) /\ r[i] = sub[s].channel[i + 1]
      BY <1>2, <3>1, <3>2, <3>3, Drained, Zenon
    <3>5. PICK x : x = [sub[s] EXCEPT !.seen = h, !.channel = r] /\ sub' = [sub EXCEPT ![s] = x]
      BY <1>2, <2>2, <3>2, <3>3, Zenon DEF Notify
    <3>6. x \in Subs /\ x.channel = r /\ x.seen = h /\ x.state = sub[s].state
      BY <1>2, <3>4, <3>5, Zenon DEF Subs
    <3>7. Len(r) <= Buffer /\ 1 \in 1 .. Len(sub[s].channel)
      BY <1>2, <3>4, BoundsAssumption
    <3>8. h.view.gen <= book.latest /\ \A i \in 1 .. Len(r) : r[i].view.gen <= book.latest
      BY <1>2, <3>4, <3>7, Zenon
    <3>9. x.state = "on" => IF r = << >> THEN h = last ELSE r[Len(r)] = last
      BY <1>2, <3>1, <3>4, <3>6, Zenon
    <3> QED
      BY <3>5, <3>6, <3>7, <3>8, <3>9, Zenon
  <2>3. CASE WriteFails(s)
    <3>1. PICK x : x = [sub[s] EXCEPT !.state = "off", !.channel = << >>] /\ sub' = [sub EXCEPT ![s] = x]
      BY <1>2, <2>3, Zenon DEF WriteFails
    <3>2. x \in Subs /\ x.channel = << >> /\ x.seen = sub[s].seen /\ x.state = "off"
      BY <1>2, <1>3, <3>1, Zenon DEF Subs
    <3> QED
      BY <1>2, <1>3, <3>1, <3>2, Zenon
  <2>4. CASE Disconnect(s)
    <3>1. PICK x : x = [sub[s] EXCEPT !.state = "off"] /\ sub' = [sub EXCEPT ![s] = x]
      BY <1>2, <2>4, Zenon DEF Disconnect
    <3>2. x \in Subs /\ x.channel = sub[s].channel /\ x.seen = sub[s].seen /\ x.state = "off"
      BY <1>2, <3>1, Zenon DEF Subs
    <3> QED
      BY <1>2, <3>1, <3>2, Zenon
  <2> QED
    BY <2>1, <2>2, <2>3, <2>4, Zenon DEF SubscriberStep
<1>5. sub'[s] = x /\ \A other \in Subscribers \ {s} : sub'[other] = sub[other]
  BY <1>2, <1>4, Zenon
<1>6. SubsTyped'
  BY <1>2, <1>4, <1>5, Zenon DEF IInv, SubsTyped
<1>7. SentIsObserved'
  BY <1>1, <1>4, <1>5 DEF IInv, SentIsObserved
<1>8. SubscriberIsUpToDate'
  BY <1>1, <1>4, <1>5 DEF IInv, SubscriberIsUpToDate
<1> QED
  BY <1>1, <1>6, <1>7, <1>8, Still, Frame, Zenon DEF IInv

LEMMA NextIInv == IInv /\ [Next]_vars => IInv'
<1> SUFFICES ASSUME IInv, [Next]_vars PROVE IInv'
  BY Zenon
<1>1. CASE Source
  BY <1>1, SourceKeeps, Zenon
<1>2. CASE \E t \in Threads : SinkStep(t)
  BY <1>2, SinkKeeps, Zenon
<1>3. CASE ConfigTransition \/ WatchLoop
  BY <1>3, LoopKeeps, Zenon
<1>4. CASE \E w \in Waiters : WaiterStep(w)
  BY <1>4, WaitersKeep, Zenon
<1>5. CASE \E s \in Subscribers : SubscriberStep(s)
  BY <1>5, SubscribersKeep, Zenon
<1>6. CASE UNCHANGED vars
  <2>1. UNCHANGED <<status, at, event, book, view, config, last, sub, built, batch, waiter>>
    BY <1>6, Zenon DEF vars, sinkVars, sharedVars
  <2> QED
    BY <2>1, Still, Standing, Zenon
<1> QED
  BY <1>1, <1>2, <1>3, <1>4, <1>5, <1>6, Zenon DEF Next

(* However many clients await whatever generations while three threads run *)
(* the sink, and whatever the bounded history has dropped, the outcome an  *)
(* await returns is the one its generation came to                         *)
(* (AwaitCoordinator::evaluate and await_generation).                      *)
THEOREM AwaitTellsTheTruthHolds == Spec => []AwaitTellsTheTruth
<1>1. IInv => AwaitTellsTheTruth
  BY Zenon DEF IInv, WaitersHold, Holds, AwaitTellsTheTruth
<1> QED
  BY <1>1, InitIInv, NextIInv, PTL DEF Spec

(* For any number of subscribers and any channel size: each of them has or *)
(* will read the last published snapshot or has been dropped, and shows no *)
(* generation the coordinator has not observed                             *)
(* (SnapshotBroker::publish and subscribe).                                *)
THEOREM SubscriberSeesTheTruthHolds == Spec => []SubscriberSeesTheTruth
<1>1. IInv => TypeOK
  BY Zenon DEF IInv, SourceTyped, SinkTyped, Places, BookTyped, Books, Ids, ViewTyped, BrokerTyped, SubsTyped, Subs, WaitersTyped, Waits, TypeOK
<1>2. IInv => ObservedBeforeShown
  BY Zenon DEF IInv, BuiltIsObserved, SentIsObserved, ObservedBeforeShown
<1>3. IInv => SubscriberSeesTheTruth
  BY <1>1, <1>2, Zenon DEF IInv, SubscriberSeesTheTruth
<1> QED
  BY <1>3, InitIInv, NextIInv, PTL DEF Spec
=============================================================================
