---------------------------- MODULE ReloadProofs ----------------------------
(***************************************************************************)
(* For every set of roots and sockets, and any number of edits: a reload   *)
(* unplugs no root and no socket file that the live configuration needs,   *)
(* and the values a run is made of are at most one commit apart.           *)
(***************************************************************************)
EXTENDS Reload, TLAPS

(* Where the reload thread is, by the root swaps it has sent for the edit  *)
(* in hand.                                                                *)
BeforeSwaps == {"read", "socket", "begin"}
Setting == {"set revision", "set concurrency", "set hooks", "set recovery"}
BetweenSwaps == Setting \cup {"begin ack", "commit", "retire"}
AfterSwaps == {"retire ack", "retire socket", "fatal", "idle", "exited"}

Runs == [step : {"none", "concurrency", "hooks", "recovery", "dispatch"}, revision : Nat,
         concurrency : Nat, hooks : Nat, recovery : Nat]

(* The types, with each counter within what the other counters allow.      *)
FileTyped ==
    /\ file \in Configs \cup {Invalid}
    /\ mtime \in 0 .. MaxEdits /\ baseline \in 0 .. mtime

ReloadTyped ==
    /\ at \in BeforeSwaps \cup BetweenSwaps \cup AfterSwaps
    /\ candidate \in Configs /\ shared.config \in Configs
    /\ tracker.number \in Nat /\ shared.revision \in 1 .. tracker.number
    /\ policy \in [{"revision", "concurrency", "hooks", "recovery"} -> Nat]
    /\ lifecycle \in {"Idle", "Reloading", "Reloaded", "Invalid"}

RootsTyped == watched \subseteq Roots /\ swap \in Seq(SUBSET Roots) /\ acked \in BOOLEAN

SocketsTyped ==
    /\ server \in Sockets \cup {NoSocket} /\ old \in Sockets \cup {NoSocket}
    /\ files \subseteq Sockets

RunsTyped ==
    /\ run \in [Routers -> Runs]
    /\ \A t \in Routers : run[t].revision <= tracker.number

(* Each edit that is noticed sends at most two root swaps.                 *)
SwapsAreOfEdits ==
    /\ at \in BeforeSwaps => Len(swap) <= 2 * baseline - 2
    /\ at \in BetweenSwaps => Len(swap) <= 2 * baseline - 1
    /\ at \in AfterSwaps => Len(swap) <= 2 * baseline

(* Roots that are registered and that no swap on its way will drop.        *)
Covered(roots) ==
    /\ roots \subseteq watched \cup Broken
    /\ \A i \in 1 .. Len(swap) : roots \subseteq swap[i]

(* The roots of the live configuration are covered at all times, and those *)
(* of the candidate when it is about to become the live one: the swap that *)
(* adds them is the last one sent, and its acknowledgement says that it    *)
(* has been applied.                                                       *)
RootsAreCovered ==
    /\ Covered(shared.config.roots)
    /\ at = "commit" => Covered(candidate.roots)
    /\ at = "begin ack" =>
          IF acked THEN swap = << >> /\ candidate.roots \subseteq watched \cup Broken
                   ELSE swap # << >> /\ candidate.roots \subseteq swap[Len(swap)]

(* The server is never the one that is about to be retired.                *)
SocketsAreApart ==
    /\ at = "socket" => candidate.socket # NoSocket
    /\ server # NoSocket => server # old
    /\ main # "exited" /\ server # NoSocket => server \in files

IInv ==
    /\ FileTyped /\ ReloadTyped /\ RootsTyped /\ SocketsTyped /\ RunsTyped
    /\ SwapsAreOfEdits /\ RootsAreCovered /\ SocketsAreApart
-----------------------------------------------------------------------------
(* The fields of a configuration.                                          *)
LEMMA ConfigFields ==
    ASSUME NEW c \in Configs
    PROVE  c.roots \subseteq Roots /\ c.socket \in Sockets \cup {NoSocket}
BY ConfigsAssumption, Zenon

(* The positions of `commit` between the shared configuration and the last *)
(* of the worker's values.                                                 *)
LEMMA SettingSteps ==
    /\ Len(Values) = 4
    /\ \A i \in 1 .. 4 : SetStep(i) \in Setting
    /\ \A i \in 1 .. 4 : Values[i] \in {"revision", "concurrency", "hooks", "recovery"}
BY DEF Values, SetStep, Setting

LEMMA SettingOrder ==
    /\ SetStep(1) = "set revision" /\ SetStep(2) = "set concurrency"
    /\ SetStep(3) = "set hooks" /\ SetStep(4) = "set recovery"
    /\ Values[1] = "revision" /\ Values[2] = "concurrency"
    /\ Values[3] = "hooks" /\ Values[4] = "recovery"
BY DEF Values, SetStep

(* A root swap at the end of the channel, and one off its front.           *)
LEMMA Sent ==
    ASSUME NEW s \in Seq(SUBSET Roots), NEW roots \in SUBSET Roots, NEW t, t = Append(s, roots)
    PROVE  /\ t \in Seq(SUBSET Roots) /\ t # << >>
           /\ Len(s) \in Nat /\ Len(t) = Len(s) + 1 /\ t[Len(t)] = roots
           /\ \A i \in 1 .. Len(t) : (i \in 1 .. Len(s) /\ t[i] = s[i]) \/ t[i] = roots
OBVIOUS

LEMMA Taken ==
    ASSUME NEW s \in Seq(SUBSET Roots), s # << >>
    PROVE  /\ Head(s) \in SUBSET Roots /\ Head(s) = s[1]
           /\ Len(s) \in Nat /\ Len(s) >= 1
           /\ Tail(s) \in Seq(SUBSET Roots) /\ Len(Tail(s)) = Len(s) - 1
           /\ \A i \in 1 .. Len(s) - 1 : Tail(s)[i] = s[i + 1]
OBVIOUS

(* What each conjunct of the invariant depends on.                         *)
LEMMA Frame ==
    /\ FileTyped /\ UNCHANGED <<file, mtime, baseline>> => FileTyped'
    /\ ReloadTyped /\ UNCHANGED <<at, candidate, shared, tracker, policy, lifecycle>> => ReloadTyped'
    /\ RootsTyped /\ UNCHANGED <<watched, swap, acked>> => RootsTyped'
    /\ SocketsTyped /\ UNCHANGED <<server, old, files>> => SocketsTyped'
    /\ RunsTyped /\ UNCHANGED <<run, tracker>> => RunsTyped'
    /\ SwapsAreOfEdits /\ UNCHANGED <<at, swap, baseline>> => SwapsAreOfEdits'
    /\ RootsAreCovered /\ UNCHANGED <<at, candidate, shared, watched, swap, acked>> => RootsAreCovered'
    /\ SocketsAreApart /\ UNCHANGED <<at, candidate, server, old, files, main>> => SocketsAreApart'
<1>1. FileTyped /\ UNCHANGED <<file, mtime, baseline>> => FileTyped'
  BY Zenon DEF FileTyped
<1>2. ReloadTyped /\ UNCHANGED <<at, candidate, shared, tracker, policy, lifecycle>> => ReloadTyped'
  BY Zenon DEF ReloadTyped
<1>3. RootsTyped /\ UNCHANGED <<watched, swap, acked>> => RootsTyped'
  BY Zenon DEF RootsTyped
<1>4. SocketsTyped /\ UNCHANGED <<server, old, files>> => SocketsTyped'
  BY Zenon DEF SocketsTyped
<1>5. RunsTyped /\ UNCHANGED <<run, tracker>> => RunsTyped'
  BY Zenon DEF RunsTyped
<1>6. SwapsAreOfEdits /\ UNCHANGED <<at, swap, baseline>> => SwapsAreOfEdits'
  BY Zenon DEF SwapsAreOfEdits
<1>7. RootsAreCovered /\ UNCHANGED <<at, candidate, shared, watched, swap, acked>> => RootsAreCovered'
  <2> SUFFICES ASSUME RootsAreCovered, UNCHANGED <<at, candidate, shared, watched, swap, acked>>
               PROVE  RootsAreCovered'
    BY Zenon
  <2>1. Covered(shared.config.roots)' /\ (at' = "commit" => Covered(candidate.roots)')
    BY Zenon DEF RootsAreCovered, Covered
  <2>2. at' = "begin ack" /\ acked' => swap' = << >> /\ candidate'.roots \subseteq watched' \cup Broken
    BY Zenon DEF RootsAreCovered
  <2>3. at' = "begin ack" /\ ~acked' => swap' # << >> /\ candidate'.roots \subseteq swap'[Len(swap')]
    BY Zenon DEF RootsAreCovered
  <2> QED
    BY <2>1, <2>2, <2>3, Zenon DEF RootsAreCovered
<1>8. SocketsAreApart /\ UNCHANGED <<at, candidate, server, old, files, main>> => SocketsAreApart'
  BY Zenon DEF SocketsAreApart
<1> QED
  BY <1>1, <1>2, <1>3, <1>4, <1>5, <1>6, <1>7, <1>8, Zenon

(* The reload thread moves on without sending a swap: the bound on the     *)
(* swaps only grows along its way.                                         *)
LEMMA Moves ==
    ASSUME FileTyped, RootsTyped, SwapsAreOfEdits, UNCHANGED <<swap, baseline>>,
           \/ at \in BeforeSwaps
           \/ at \in BetweenSwaps /\ at' \in BetweenSwaps \cup AfterSwaps
           \/ at \in AfterSwaps /\ at' \in AfterSwaps,
           at' \in BeforeSwaps \cup BetweenSwaps \cup AfterSwaps
    PROVE  SwapsAreOfEdits'
<1>1. Len(swap) \in Nat /\ baseline \in Nat
  BY DEF RootsTyped, FileTyped
<1>2. \A s \in BetweenSwaps \cup AfterSwaps : s \notin BeforeSwaps
  BY Zenon DEF BeforeSwaps, BetweenSwaps, AfterSwaps, Setting
<1>3. \A s \in AfterSwaps : s \notin BetweenSwaps
  BY Zenon DEF BetweenSwaps, AfterSwaps, Setting
<1> QED
  BY <1>1, <1>2, <1>3 DEF SwapsAreOfEdits

(* The run before it is routed.                                            *)
LEMMA NoRunFields ==
    /\ NoRun \in Runs /\ NoRun.step = "none" /\ NoRun.revision = 0
    /\ NoRun.concurrency = 0 /\ NoRun.hooks = 0 /\ NoRun.recovery = 0
<1>1. 0 \in Nat
  OBVIOUS
<1> QED
  BY <1>1, Zenon DEF NoRun, Runs

(* A run that is routed has read its plan and its revision, and no value   *)
(* of the worker yet.                                                      *)
LEMMA RoutedRun ==
    ASSUME NEW t \in Routers, RoutePlan(t), shared.revision \in Nat
    PROVE  \E planned \in Runs :
               /\ run' = [run EXCEPT ![t] = planned]
               /\ planned.revision = shared.revision
               /\ planned.concurrency = 0 /\ planned.hooks = 0 /\ planned.recovery = 0
<1>1. /\ NoRun \in Runs
      /\ NoRun.concurrency = 0 /\ NoRun.hooks = 0 /\ NoRun.recovery = 0
  BY NoRunFields, Zenon
<1>2. PICK first \in {"hooks", "concurrency"} :
          run' = [run EXCEPT ![t] = [NoRun EXCEPT !.step = first, !.revision = shared.revision]]
  BY Zenon DEF RoutePlan
<1> DEFINE planned == [NoRun EXCEPT !.step = first, !.revision = shared.revision]
<1>3. planned \in Runs /\ planned.revision = shared.revision
  BY <1>1, Zenon DEF Runs
<1>4. planned.concurrency = 0 /\ planned.hooks = 0 /\ planned.recovery = 0
  BY <1>1, Zenon DEF Runs
<1> QED
  BY <1>2, <1>3, <1>4, Zenon

(* A step of a run reads one value of the worker, or ends the run.         *)
LEMMA ReadRun ==
    ASSUME NEW t \in Routers, RouterStep(t), run \in [Routers -> Runs],
           policy \in [{"revision", "concurrency", "hooks", "recovery"} -> Nat]
    PROVE  \E prepared \in Runs :
               /\ run' = [run EXCEPT ![t] = prepared]
               /\ \/ prepared = NoRun
                  \/ /\ run[t].step # "none" /\ prepared.revision = run[t].revision
                     /\ prepared.concurrency \in {run[t].concurrency, policy["concurrency"]}
                     /\ prepared.hooks \in {run[t].hooks, policy["hooks"]}
                     /\ prepared.recovery \in {run[t].recovery, policy["recovery"]}
<1>1. run[t] \in Runs /\ policy["concurrency"] \in Nat /\ policy["hooks"] \in Nat /\ policy["recovery"] \in Nat
  BY Zenon
<1>2. NoRun \in Runs
  <2>1. 0 \in Nat
    OBVIOUS
  <2> QED
    BY <2>1, Zenon DEF NoRun, Runs
<1>3. CASE ReadConcurrency(t)
  <2>1. run' = [run EXCEPT ![t] = [run[t] EXCEPT !.step = "recovery", !.concurrency = policy["concurrency"]]]
    BY <1>3, Zenon DEF ReadConcurrency, Prepare
  <2> QED
    BY <1>1, <1>3, <2>1, Zenon DEF Runs, ReadConcurrency, Prepare
<1>4. CASE ReadHooks(t)
  <2>1. PICK next \in {"recovery", "dispatch"} :
            run' = [run EXCEPT ![t] = [run[t] EXCEPT !.step = next, !.hooks = policy["hooks"]]]
    BY <1>4, Zenon DEF ReadHooks, Prepare
  <2> QED
    BY <1>1, <1>4, <2>1, Zenon DEF Runs, ReadHooks, Prepare
<1>5. CASE ReadRecovery(t)
  <2>1. PICK next \in {"hooks", "dispatch"} :
            run' = [run EXCEPT ![t] = [run[t] EXCEPT !.step = next, !.recovery = policy["recovery"]]]
    BY <1>5, Zenon DEF ReadRecovery, Prepare
  <2> QED
    BY <1>1, <1>5, <2>1, Zenon DEF Runs, ReadRecovery, Prepare
<1>6. CASE Dispatch(t)
  BY <1>2, <1>6, Zenon DEF Dispatch
<1> QED
  BY <1>3, <1>4, <1>5, <1>6, Zenon DEF RouterStep

(* The starting state satisfies the invariant.                             *)
LEMMA InitIInv == Init => IInv
<1> SUFFICES ASSUME NEW config \in Configs, Init!(config) PROVE IInv
  BY Zenon DEF Init
<1>1. config.roots \subseteq Roots /\ config.socket \in Sockets \cup {NoSocket}
  BY ConfigFields, Zenon
<1>2. FileTyped
  BY EditsAssumption DEF FileTyped
<1>3. RootsTyped
  <2>1. swap \in Seq(SUBSET Roots)
    OBVIOUS
  <2> QED
    BY <1>1, <2>1, Zenon DEF RootsTyped
<1>4. SocketsTyped
  BY <1>1, Zenon DEF SocketsTyped
<1>5. ReloadTyped
  <2>1. policy \in [{"revision", "concurrency", "hooks", "recovery"} -> Nat]
    BY DEF Values
  <2>2. tracker.number = 1 /\ shared.revision = 1 /\ shared.config = config
    BY Zenon
  <2>3. tracker.number \in Nat /\ shared.revision \in 1 .. tracker.number
    BY <2>2
  <2>4. at = "idle" /\ candidate = config /\ lifecycle = "Idle"
    BY Zenon
  <2> QED
    BY <2>1, <2>2, <2>3, <2>4, Zenon DEF ReloadTyped, AfterSwaps
<1>6. RunsTyped
  <2>1. NoRun \in Runs /\ NoRun.revision = 0
    BY Zenon DEF NoRun, Runs
  <2>2. run = [t \in Routers |-> NoRun] /\ tracker.number = 1
    BY Zenon
  <2> QED
    BY <2>1, <2>2 DEF RunsTyped
<1>7. SwapsAreOfEdits /\ RootsAreCovered /\ SocketsAreApart
  BY <1>1 DEF SwapsAreOfEdits, RootsAreCovered, Covered, SocketsAreApart, BeforeSwaps, BetweenSwaps, Setting
<1> QED
  BY <1>2, <1>3, <1>4, <1>5, <1>6, <1>7, Zenon DEF IInv

(* Every step of every thread keeps it.                                    *)
LEMMA NextIInv == IInv /\ [Next]_vars => IInv'
<1> SUFFICES ASSUME IInv, [Next]_vars PROVE IInv'
  BY Zenon
<1>a. FileTyped /\ ReloadTyped /\ RootsTyped /\ SocketsTyped /\ RunsTyped
  BY Zenon DEF IInv
<1>b. SwapsAreOfEdits /\ RootsAreCovered /\ SocketsAreApart
  BY Zenon DEF IInv
<1> USE DEF Goto, fileVars, handVars, liveVars, rootVars, socketVars, endVars
<1>1. CASE \E content \in Configs \cup {Invalid} : Edit(content)
  <2>1. FileTyped'
    BY <1>a, <1>1, EditsAssumption DEF Edit, FileTyped
  <2>2. (ReloadTyped /\ RootsTyped /\ SocketsTyped /\ RunsTyped /\ SwapsAreOfEdits /\ RootsAreCovered /\ SocketsAreApart)'
    BY <1>a, <1>b, <1>1, Frame, Zenon DEF Edit
  <2> QED
    BY <2>1, <2>2, Zenon DEF IInv
<1>2. CASE NoticeChange
  <2>1. ReloadTyped'
    BY <1>a, <1>2, Zenon DEF NoticeChange, ReloadTyped, BeforeSwaps, BetweenSwaps, AfterSwaps, Setting
  <2>2. SwapsAreOfEdits'
    <3>1. at = "idle" /\ at' = "read" /\ swap' = swap /\ baseline' = mtime /\ mtime # baseline
      BY <1>2, Zenon DEF NoticeChange
    <3>2. Len(swap) \in Nat /\ Len(swap) <= 2 * baseline /\ baseline' >= baseline + 1 /\ baseline \in Nat
      BY <1>a, <1>b, <3>1 DEF SwapsAreOfEdits, AfterSwaps, RootsTyped, FileTyped
    <3>3. at' \in BeforeSwaps /\ at' \notin BetweenSwaps /\ at' \notin AfterSwaps
      BY <3>1, Zenon DEF BeforeSwaps, BetweenSwaps, AfterSwaps, Setting
    <3>4. Len(swap') <= 2 * baseline' - 2
      BY <1>a, <3>1, <3>2 DEF FileTyped
    <3> QED
      BY <3>3, <3>4, Zenon DEF SwapsAreOfEdits
  <2>3. FileTyped'
    BY <1>a, <1>2 DEF NoticeChange, FileTyped
  <2>4. RootsAreCovered'
    BY <1>a, <1>b, <1>2, Zenon DEF NoticeChange, RootsAreCovered, Covered
  <2>5. SocketsAreApart'
    BY <1>a, <1>b, <1>2, Zenon DEF NoticeChange, SocketsAreApart
  <2>6. (RootsTyped /\ SocketsTyped /\ RunsTyped)'
    BY <1>a, <1>b, <1>2, Frame, Zenon DEF NoticeChange
  <2> QED
    BY <2>1, <2>2, <2>3, <2>4, <2>5, <2>6, Zenon DEF IInv
<1>3. CASE DecideNoOp
  <2>1. ReloadTyped'
    BY <1>a, <1>3, Zenon DEF DecideNoOp, ReloadTyped, BeforeSwaps, BetweenSwaps, AfterSwaps, Setting
  <2>2. SwapsAreOfEdits'
    BY <1>a, <1>b, <1>3, Moves, Zenon DEF DecideNoOp, BeforeSwaps, BetweenSwaps, AfterSwaps, Setting
  <2>3. RootsAreCovered'
    BY <1>a, <1>b, <1>3, Zenon DEF DecideNoOp, RootsAreCovered, Covered
  <2>4. SocketsAreApart'
    BY <1>a, <1>b, <1>3, Zenon DEF DecideNoOp, SocketsAreApart
  <2>5. (FileTyped /\ RootsTyped /\ SocketsTyped /\ RunsTyped)'
    BY <1>a, <1>b, <1>3, Frame, Zenon DEF DecideNoOp
  <2> QED
    BY <2>1, <2>2, <2>3, <2>4, <2>5, Zenon DEF IInv
<1>4. CASE DecideFatal
  <2>1. ReloadTyped'
    BY <1>a, <1>4, Zenon DEF DecideFatal, ReloadTyped, BeforeSwaps, BetweenSwaps, AfterSwaps, Setting
  <2>2. SwapsAreOfEdits'
    BY <1>a, <1>b, <1>4, Moves, Zenon DEF DecideFatal, BeforeSwaps, BetweenSwaps, AfterSwaps, Setting
  <2>3. RootsAreCovered'
    BY <1>a, <1>b, <1>4, Zenon DEF DecideFatal, RootsAreCovered, Covered
  <2>4. SocketsAreApart'
    BY <1>a, <1>b, <1>4, Zenon DEF DecideFatal, SocketsAreApart
  <2>5. (FileTyped /\ RootsTyped /\ SocketsTyped /\ RunsTyped)'
    BY <1>a, <1>b, <1>4, Frame, Zenon DEF DecideFatal
  <2> QED
    BY <2>1, <2>2, <2>3, <2>4, <2>5, Zenon DEF IInv
<1>5. CASE DecideCommit
  <2>1. ReloadTyped'
    BY <1>a, <1>5 DEF DecideCommit, SocketChanged, ReloadTyped, BeforeSwaps, BetweenSwaps, AfterSwaps, Setting
  <2>2. SwapsAreOfEdits'
    BY <1>a, <1>b, <1>5, Moves, Zenon DEF DecideCommit, SocketChanged, BeforeSwaps, BetweenSwaps, AfterSwaps, Setting
  <2>3. RunsTyped'
    BY <1>a, <1>5 DEF DecideCommit, SocketChanged, RunsTyped, Runs, ReloadTyped
  <2>4. RootsAreCovered'
    BY <1>a, <1>b, <1>5, Zenon DEF DecideCommit, SocketChanged, RootsAreCovered, Covered
  <2>5. SocketsAreApart'
    BY <1>a, <1>b, <1>5, Zenon DEF DecideCommit, SocketChanged, SocketsAreApart
  <2>6. (FileTyped /\ RootsTyped /\ SocketsTyped)'
    BY <1>a, <1>b, <1>5, Frame, Zenon DEF DecideCommit, SocketChanged
  <2> QED
    BY <2>1, <2>2, <2>3, <2>4, <2>5, <2>6, Zenon DEF IInv
<1>6. CASE PrepareSocket
  <2>1. ReloadTyped'
    BY <1>a, <1>6, Zenon DEF PrepareSocket, ReloadTyped, BeforeSwaps, BetweenSwaps, AfterSwaps, Setting
  <2>2. SwapsAreOfEdits'
    BY <1>a, <1>b, <1>6, Moves, Zenon DEF PrepareSocket, BeforeSwaps, BetweenSwaps, AfterSwaps, Setting
  <2>3. SocketsTyped'
    BY <1>a, <1>b, <1>6, ConfigFields, Zenon DEF PrepareSocket, SocketsTyped, ReloadTyped, SocketsAreApart
  <2>4. RootsAreCovered'
    BY <1>a, <1>b, <1>6, Zenon DEF PrepareSocket, RootsAreCovered, Covered
  <2>5. SocketsAreApart'
    BY <1>a, <1>b, <1>6, SocketsAssumption, Zenon DEF PrepareSocket, SocketsAreApart
  <2>6. (FileTyped /\ RootsTyped /\ RunsTyped)'
    BY <1>a, <1>b, <1>6, Frame, Zenon DEF PrepareSocket
  <2> QED
    BY <2>1, <2>2, <2>3, <2>4, <2>5, <2>6, Zenon DEF IInv
<1>7. CASE PrepareSocketFails
  <2>1. ReloadTyped'
    BY <1>a, <1>7, Zenon DEF PrepareSocketFails, ReloadTyped, BeforeSwaps, BetweenSwaps, AfterSwaps, Setting
  <2>2. SwapsAreOfEdits'
    BY <1>a, <1>b, <1>7, Moves, Zenon DEF PrepareSocketFails, BeforeSwaps, BetweenSwaps, AfterSwaps, Setting
  <2>3. RootsAreCovered'
    BY <1>a, <1>b, <1>7, Zenon DEF PrepareSocketFails, RootsAreCovered, Covered
  <2>4. SocketsAreApart'
    BY <1>a, <1>b, <1>7, Zenon DEF PrepareSocketFails, SocketsAreApart
  <2>5. (FileTyped /\ RootsTyped /\ SocketsTyped /\ RunsTyped)'
    BY <1>a, <1>b, <1>7, Frame, Zenon DEF PrepareSocketFails
  <2> QED
    BY <2>1, <2>2, <2>3, <2>4, <2>5, Zenon DEF IInv
<1>8. CASE BeginKeepsRoots
  <2>1. ReloadTyped'
    BY <1>a, <1>8, Zenon DEF BeginKeepsRoots, Added, ReloadTyped, BeforeSwaps, BetweenSwaps, AfterSwaps, Setting
  <2>2. SwapsAreOfEdits'
    BY <1>a, <1>b, <1>8, Moves, Zenon DEF BeginKeepsRoots, Added, BeforeSwaps, BetweenSwaps, AfterSwaps, Setting
  <2>3. RootsAreCovered'
    BY <1>a, <1>b, <1>8, Zenon DEF BeginKeepsRoots, Added, RootsAreCovered, Covered
  <2>4. SocketsAreApart'
    BY <1>a, <1>b, <1>8, Zenon DEF BeginKeepsRoots, Added, SocketsAreApart
  <2>5. (FileTyped /\ RootsTyped /\ SocketsTyped /\ RunsTyped)'
    BY <1>a, <1>b, <1>8, Frame, Zenon DEF BeginKeepsRoots, Added
  <2> QED
    BY <2>1, <2>2, <2>3, <2>4, <2>5, Zenon DEF IInv
<1>9. CASE BeginAddsRoots
  <2>a. shared.config.roots \cup Added \in SUBSET Roots /\ candidate.roots \subseteq shared.config.roots \cup Added
    BY <1>a, ConfigFields, Zenon DEF ReloadTyped, Added
  <2>b. PICK sent \in SUBSET Roots : sent = shared.config.roots \cup Added
    BY <2>a, Zenon
  <2>c. candidate.roots \subseteq sent /\ shared.config.roots \subseteq sent
    BY <2>b, <2>a, Zenon
  <2>d. /\ at = "begin" /\ at' = "begin ack" /\ swap' = Append(swap, sent) /\ acked' = FALSE
        /\ UNCHANGED <<watched, baseline, shared, candidate>>
    BY <1>9, <2>b, Zenon DEF BeginAddsRoots
  <2>e. swap \in Seq(SUBSET Roots)
    BY <1>a, Zenon DEF RootsTyped
  <2>f. /\ swap' \in Seq(SUBSET Roots) /\ swap' # << >>
        /\ Len(swap) \in Nat /\ Len(swap') = Len(swap) + 1 /\ swap'[Len(swap')] = sent
        /\ \A i \in 1 .. Len(swap') : (i \in 1 .. Len(swap) /\ swap'[i] = swap[i]) \/ swap'[i] = sent
    <3>1. swap' = Append(swap, sent)
      BY <2>d, Zenon
    <3> HIDE DEF Goto
    <3> QED
      BY <2>e, <3>1, Sent
  <2>g. at = "begin" /\ at' = "begin ack" /\ baseline' = baseline
    BY <2>d, Zenon
  <2>1. ReloadTyped'
    BY <1>a, <1>9, Zenon DEF BeginAddsRoots, ReloadTyped, BeforeSwaps, BetweenSwaps, AfterSwaps, Setting
  <2>2. SwapsAreOfEdits'
    <3>0. at \in BeforeSwaps
      BY <2>g, Zenon DEF BeforeSwaps
    <3>1. Len(swap) <= 2 * baseline - 2 /\ baseline \in Nat
      BY <1>a, <1>b, <3>0 DEF SwapsAreOfEdits, FileTyped
    <3>2. at' \in BetweenSwaps /\ at' \notin BeforeSwaps /\ at' \notin AfterSwaps
      BY <2>d, Zenon DEF BeforeSwaps, BetweenSwaps, AfterSwaps, Setting
    <3>3. Len(swap') = Len(swap) + 1 /\ Len(swap) \in Nat /\ baseline' = baseline
      BY <2>f, <2>g, Zenon
    <3>4. Len(swap') <= 2 * baseline' - 1
      BY <3>1, <3>3
    <3> QED
      BY <3>2, <3>4, Zenon DEF SwapsAreOfEdits
  <2>3. RootsTyped'
    <3>1. acked' \in BOOLEAN
      BY <2>d, Zenon
    <3> QED
      BY <1>a, <2>d, <2>f, <3>1, Zenon DEF RootsTyped
  <2>4. RootsAreCovered'
    <3>1. Covered(shared.config.roots)'
      <4>1. \A i \in 1 .. Len(swap') : shared.config.roots \subseteq swap'[i]
        BY <1>b, <2>c, <2>f, Zenon DEF RootsAreCovered, Covered
      <4> QED
        BY <1>b, <2>d, <4>1, Zenon DEF RootsAreCovered, Covered
    <3>2. swap' # << >> /\ candidate'.roots \subseteq swap'[Len(swap')]
      BY <2>c, <2>d, <2>f, Zenon
    <3> QED
      BY <2>d, <3>1, <3>2, Zenon DEF RootsAreCovered
  <2>5. SocketsAreApart'
    BY <1>a, <1>b, <1>9, Zenon DEF BeginAddsRoots, SocketsAreApart
  <2>6. (FileTyped /\ SocketsTyped /\ RunsTyped)'
    BY <1>a, <1>b, <1>9, Frame, Zenon DEF BeginAddsRoots
  <2> QED
    BY <2>1, <2>2, <2>3, <2>4, <2>5, <2>6, Zenon DEF IInv
<1>10. CASE BeginDone
  <2>1. ReloadTyped'
    BY <1>a, <1>10, Zenon DEF BeginDone, ReloadTyped, BeforeSwaps, BetweenSwaps, AfterSwaps, Setting
  <2>2. SwapsAreOfEdits'
    BY <1>a, <1>b, <1>10, Moves, Zenon DEF BeginDone, BeforeSwaps, BetweenSwaps, AfterSwaps, Setting
  <2>3. RootsAreCovered'
    <3>1. /\ at = "begin ack" /\ at' = "commit" /\ acked
          /\ UNCHANGED <<watched, swap, acked, shared, candidate>>
      BY <1>10, Zenon DEF BeginDone
    <3>2. swap = << >> /\ candidate.roots \subseteq watched \cup Broken /\ Covered(shared.config.roots)
      BY <1>b, <3>1, Zenon DEF RootsAreCovered
    <3>3. Covered(candidate.roots)
      BY <3>2 DEF Covered
    <3>4. Covered(shared.config.roots)' /\ Covered(candidate.roots)'
      BY <3>1, <3>2, <3>3, Zenon DEF Covered
    <3> QED
      BY <3>1, <3>4, Zenon DEF RootsAreCovered
  <2>4. SocketsAreApart'
    BY <1>a, <1>b, <1>10, Zenon DEF BeginDone, SocketsAreApart
  <2>5. (FileTyped /\ RootsTyped /\ SocketsTyped /\ RunsTyped)'
    BY <1>a, <1>b, <1>10, Frame, Zenon DEF BeginDone
  <2> QED
    BY <2>1, <2>2, <2>3, <2>4, <2>5, Zenon DEF IInv
<1>11. CASE BeginTimesOut
  <2>1. ReloadTyped'
    BY <1>a, <1>11, Zenon DEF BeginTimesOut, ReloadTyped, BeforeSwaps, BetweenSwaps, AfterSwaps, Setting
  <2>2. SwapsAreOfEdits'
    BY <1>a, <1>b, <1>11, Moves, Zenon DEF BeginTimesOut, BeforeSwaps, BetweenSwaps, AfterSwaps, Setting
  <2>3. RootsAreCovered'
    BY <1>a, <1>b, <1>11, Zenon DEF BeginTimesOut, RootsAreCovered, Covered
  <2>4. SocketsAreApart'
    BY <1>a, <1>b, <1>11, Zenon DEF BeginTimesOut, SocketsAreApart
  <2>5. (FileTyped /\ RootsTyped /\ SocketsTyped /\ RunsTyped)'
    BY <1>a, <1>b, <1>11, Frame, Zenon DEF BeginTimesOut
  <2> QED
    BY <2>1, <2>2, <2>3, <2>4, <2>5, Zenon DEF IInv
<1>12. CASE CommitShared
  <2>0. at' = "set revision"
    BY <1>12, Zenon DEF CommitShared, SetStep
  <2>1. ReloadTyped'
    <3>1. /\ shared'.config = candidate /\ shared'.revision = tracker.number
          /\ UNCHANGED <<candidate, tracker, policy, lifecycle>>
      BY <1>12, Zenon DEF CommitShared
    <3>2. 1 <= tracker.number
      BY <1>a DEF ReloadTyped
    <3>3. tracker'.number \in Nat /\ shared'.revision \in 1 .. tracker'.number
      BY <1>a, <3>1, <3>2 DEF ReloadTyped
    <3>4. at' \in BetweenSwaps
      BY <2>0, Zenon DEF BetweenSwaps, Setting
    <3>5. candidate' \in Configs /\ shared'.config \in Configs
      BY <1>a, <3>1, Zenon DEF ReloadTyped
    <3>6. /\ policy' \in [{"revision", "concurrency", "hooks", "recovery"} -> Nat]
          /\ lifecycle' \in {"Idle", "Reloading", "Reloaded", "Invalid"}
      BY <1>a, <3>1, Zenon DEF ReloadTyped
    <3> QED
      BY <3>3, <3>4, <3>5, <3>6, Zenon DEF ReloadTyped
  <2>2. SwapsAreOfEdits'
    BY <1>a, <1>b, <1>12, <2>0, Moves, Zenon DEF CommitShared, BeforeSwaps, BetweenSwaps, AfterSwaps, Setting
  <2>3. RootsAreCovered'
    BY <1>a, <1>b, <1>12, <2>0, Zenon DEF CommitShared, RootsAreCovered, Covered
  <2>4. SocketsAreApart'
    BY <1>a, <1>b, <1>12, <2>0, Zenon DEF CommitShared, SocketsAreApart
  <2>5. (FileTyped /\ RootsTyped /\ SocketsTyped /\ RunsTyped)'
    BY <1>a, <1>b, <1>12, Frame, Zenon DEF CommitShared
  <2> QED
    BY <2>1, <2>2, <2>3, <2>4, <2>5, Zenon DEF IInv
<1>13. CASE \E i \in 1 .. Len(Values) : CommitValue(i)
  <2> PICK i \in 1 .. 4 : CommitValue(i)
    BY <1>13, Zenon DEF Values
  <2>0. at \in Setting /\ at' \in Setting \cup {"retire"}
    <3>1. at = SetStep(i) /\ at' = IF i < 4 THEN SetStep(i + 1) ELSE "retire"
      BY Zenon DEF CommitValue, Values
    <3> QED
      BY <3>1, SettingSteps
  <2>1. ReloadTyped'
    BY <1>a, <1>13, <2>0, SettingSteps, Zenon DEF CommitValue, ReloadTyped, BeforeSwaps, BetweenSwaps, AfterSwaps, Setting
  <2>2. SwapsAreOfEdits'
    BY <1>a, <1>b, <2>0, Moves, Zenon DEF CommitValue, BeforeSwaps, BetweenSwaps, AfterSwaps, Setting
  <2>3. RootsAreCovered'
    BY <1>a, <1>b, <1>13, <2>0, Zenon DEF CommitValue, RootsAreCovered, Covered, Setting
  <2>4. SocketsAreApart'
    BY <1>a, <1>b, <1>13, <2>0, Zenon DEF CommitValue, SocketsAreApart, Setting
  <2>5. (FileTyped /\ RootsTyped /\ SocketsTyped /\ RunsTyped)'
    BY <1>a, <1>b, <1>13, Frame, Zenon DEF CommitValue
  <2> QED
    BY <2>1, <2>2, <2>3, <2>4, <2>5, Zenon DEF IInv
<1>14. CASE RetireRoots
  <2>0. shared.config.roots \in SUBSET Roots /\ swap \in Seq(SUBSET Roots)
    BY <1>a, ConfigFields, Zenon DEF ReloadTyped, RootsTyped
  <2>a. at = "retire" /\ UNCHANGED <<watched, baseline, shared, candidate>>
    BY <1>14, Zenon DEF RetireRoots
  <2>b. \/ at' = "retire socket" /\ swap' = swap /\ acked' = acked
        \/ at' = "retire ack" /\ swap' = Append(swap, shared.config.roots) /\ acked' = FALSE
    BY <1>14, Zenon DEF RetireRoots
  <2>c. /\ swap' \in Seq(SUBSET Roots) /\ Len(swap) \in Nat /\ Len(swap') \in Nat
        /\ Len(swap') <= Len(swap) + 1
        /\ \A i \in 1 .. Len(swap') : (i \in 1 .. Len(swap) /\ swap'[i] = swap[i]) \/ swap'[i] = shared.config.roots
    <3>1. CASE swap' = swap
      BY <2>0, <3>1
    <3>2. CASE swap' = Append(swap, shared.config.roots)
      BY <2>0, <3>2, Sent
    <3> QED
      BY <2>b, <3>1, <3>2, Zenon
  <2>1. ReloadTyped'
    BY <1>a, <1>14, Zenon DEF RetireRoots, ReloadTyped, BeforeSwaps, BetweenSwaps, AfterSwaps, Setting
  <2>2. SwapsAreOfEdits'
    <3>1. Len(swap) <= 2 * baseline - 1 /\ baseline \in Nat
      BY <1>a, <1>b, <2>a DEF SwapsAreOfEdits, BetweenSwaps, FileTyped
    <3>2. at' \in AfterSwaps /\ at' \notin BeforeSwaps /\ at' \notin BetweenSwaps
      BY <2>b, Zenon DEF BeforeSwaps, BetweenSwaps, AfterSwaps, Setting
    <3>3. Len(swap') <= 2 * baseline'
      BY <2>a, <2>c, <3>1
    <3> QED
      BY <3>2, <3>3, Zenon DEF SwapsAreOfEdits
  <2>3. RootsTyped'
    <3>1. acked' \in BOOLEAN
      BY <1>a, <2>b, Zenon DEF RootsTyped
    <3> QED
      BY <1>a, <2>a, <2>c, <3>1, Zenon DEF RootsTyped
  <2>4. RootsAreCovered'
    <3>1. \A i \in 1 .. Len(swap') : shared.config.roots \subseteq swap'[i]
      BY <1>b, <2>c, Zenon DEF RootsAreCovered, Covered
    <3>2. Covered(shared.config.roots)'
      BY <1>b, <2>a, <3>1, Zenon DEF RootsAreCovered, Covered
    <3> QED
      BY <2>b, <3>2, Zenon DEF RootsAreCovered
  <2>5. SocketsAreApart'
    BY <1>a, <1>b, <1>14, Zenon DEF RetireRoots, SocketsAreApart
  <2>6. (FileTyped /\ SocketsTyped /\ RunsTyped)'
    BY <1>a, <1>b, <1>14, Frame, Zenon DEF RetireRoots
  <2> QED
    BY <2>1, <2>2, <2>3, <2>4, <2>5, <2>6, Zenon DEF IInv
<1>15. CASE RetireDone
  <2>1. ReloadTyped'
    BY <1>a, <1>15, Zenon DEF RetireDone, ReloadTyped, BeforeSwaps, BetweenSwaps, AfterSwaps, Setting
  <2>2. SwapsAreOfEdits'
    BY <1>a, <1>b, <1>15, Moves, Zenon DEF RetireDone, BeforeSwaps, BetweenSwaps, AfterSwaps, Setting
  <2>3. RootsAreCovered'
    BY <1>a, <1>b, <1>15, Zenon DEF RetireDone, RootsAreCovered, Covered
  <2>4. SocketsAreApart'
    BY <1>a, <1>b, <1>15, Zenon DEF RetireDone, SocketsAreApart
  <2>5. (FileTyped /\ RootsTyped /\ SocketsTyped /\ RunsTyped)'
    BY <1>a, <1>b, <1>15, Frame, Zenon DEF RetireDone
  <2> QED
    BY <2>1, <2>2, <2>3, <2>4, <2>5, Zenon DEF IInv
<1>16. CASE RetireSocket
  <2>1. ReloadTyped'
    BY <1>a, <1>16, Zenon DEF RetireSocket, ReloadTyped, BeforeSwaps, BetweenSwaps, AfterSwaps, Setting
  <2>2. SwapsAreOfEdits'
    BY <1>a, <1>b, <1>16, Moves, Zenon DEF RetireSocket, BeforeSwaps, BetweenSwaps, AfterSwaps, Setting
  <2>3. SocketsTyped'
    BY <1>a, <1>16, Zenon DEF RetireSocket, SocketsTyped
  <2>4. RootsAreCovered'
    BY <1>a, <1>b, <1>16, Zenon DEF RetireSocket, RootsAreCovered, Covered
  <2>5. SocketsAreApart'
    BY <1>a, <1>b, <1>16, Zenon DEF RetireSocket, SocketsAreApart
  <2>6. (FileTyped /\ RootsTyped /\ RunsTyped)'
    BY <1>a, <1>b, <1>16, Frame, Zenon DEF RetireSocket
  <2> QED
    BY <2>1, <2>2, <2>3, <2>4, <2>5, <2>6, Zenon DEF IInv
<1>17. CASE FatalReload
  <2>1. ReloadTyped'
    BY <1>a, <1>17, Zenon DEF FatalReload, ReloadTyped, BeforeSwaps, BetweenSwaps, AfterSwaps, Setting
  <2>2. SwapsAreOfEdits'
    BY <1>a, <1>b, <1>17, Moves, Zenon DEF FatalReload, BeforeSwaps, BetweenSwaps, AfterSwaps, Setting
  <2>3. RootsAreCovered'
    BY <1>a, <1>b, <1>17, Zenon DEF FatalReload, RootsAreCovered, Covered
  <2>4. SocketsAreApart'
    BY <1>a, <1>b, <1>17, Zenon DEF FatalReload, SocketsAreApart
  <2>5. (FileTyped /\ RootsTyped /\ SocketsTyped /\ RunsTyped)'
    BY <1>a, <1>b, <1>17, Frame, Zenon DEF FatalReload
  <2> QED
    BY <2>1, <2>2, <2>3, <2>4, <2>5, Zenon DEF IInv
<1>18. CASE ReloadReturns
  <2>1. ReloadTyped'
    BY <1>a, <1>18, Zenon DEF ReloadReturns, ReloadTyped, BeforeSwaps, BetweenSwaps, AfterSwaps, Setting
  <2>2. SwapsAreOfEdits'
    BY <1>a, <1>b, <1>18, Moves, Zenon DEF ReloadReturns, BeforeSwaps, BetweenSwaps, AfterSwaps, Setting
  <2>3. RootsAreCovered'
    BY <1>a, <1>b, <1>18, Zenon DEF ReloadReturns, RootsAreCovered, Covered
  <2>4. SocketsAreApart'
    BY <1>a, <1>b, <1>18, Zenon DEF ReloadReturns, SocketsAreApart
  <2>5. (FileTyped /\ RootsTyped /\ SocketsTyped /\ RunsTyped)'
    BY <1>a, <1>b, <1>18, Frame, Zenon DEF ReloadReturns
  <2> QED
    BY <2>1, <2>2, <2>3, <2>4, <2>5, Zenon DEF IInv
<1>19. CASE ApplySwap
  <2>0. /\ swap \in Seq(SUBSET Roots) /\ swap # << >> /\ swap' = Tail(swap)
        /\ watched' = (watched \cap Head(swap)) \cup (Head(swap) \ Broken)
        /\ UNCHANGED <<at, baseline, shared, candidate>>
    BY <1>a, <1>19, Zenon DEF RootsTyped, ApplySwap
  <2>a. /\ Head(swap) \in SUBSET Roots /\ Head(swap) = swap[1] /\ Len(swap) \in Nat /\ Len(swap) >= 1
        /\ swap' \in Seq(SUBSET Roots) /\ Len(swap') = Len(swap) - 1
        /\ \A i \in 1 .. Len(swap') : swap'[i] = swap[i + 1]
    BY <2>0, Taken, Zenon
  <2>b. acked' \in BOOLEAN /\ (acked' <=> acked \/ Len(swap) = 1)
    BY <1>19, Zenon DEF ApplySwap
  <2>1. RootsTyped'
    <3>1. watched' \subseteq Roots
      BY <1>a, <2>0, <2>a, Zenon DEF RootsTyped
    <3> QED
      BY <2>a, <2>b, <3>1, Zenon DEF RootsTyped
  <2>2. SwapsAreOfEdits'
    <3>1. baseline \in Nat /\ Len(swap') <= Len(swap) /\ Len(swap') \in Nat
      BY <1>a, <2>a DEF FileTyped
    <3> QED
      BY <1>b, <2>0, <2>a, <3>1 DEF SwapsAreOfEdits
  <2>3. RootsAreCovered'
    <3>1. ASSUME NEW roots, Covered(roots) PROVE Covered(roots)'
      <4>1. \A i \in 1 .. Len(swap') : roots \subseteq swap'[i]
        BY <2>a, <3>1 DEF Covered
      <4>2. roots \subseteq swap[1]
        BY <2>a, <3>1 DEF Covered
      <4>3. roots \subseteq watched' \cup Broken
        BY <2>0, <2>a, <3>1, <4>2, Zenon DEF Covered
      <4> QED
        BY <4>1, <4>3, Zenon DEF Covered
    <3>2. Covered(shared.config.roots)' /\ (at' = "commit" => Covered(candidate.roots)')
      BY <1>b, <2>0, <3>1, Zenon DEF RootsAreCovered
    <3>3. CASE at = "begin ack" /\ acked
      BY <1>b, <2>0, <3>3, Zenon DEF RootsAreCovered
    <3>4. CASE at = "begin ack" /\ ~acked
      <4>1. candidate.roots \subseteq swap[Len(swap)]
        BY <1>b, <3>4, Zenon DEF RootsAreCovered
      <4>2. CASE Len(swap) = 1
        <5>1. acked' /\ swap' = << >>
          BY <2>a, <2>b, <4>2
        <5>2. candidate'.roots \subseteq watched' \cup Broken
          BY <2>0, <2>a, <4>1, <4>2, Zenon
        <5> QED
          BY <3>2, <5>1, <5>2, Zenon DEF RootsAreCovered
      <4>3. CASE Len(swap) # 1
        <5>1. ~acked'
          BY <2>b, <3>4, <4>3, Zenon
        <5>2. Len(swap') \in 1 .. Len(swap') /\ Len(swap') + 1 = Len(swap) /\ swap' # << >>
          BY <2>a, <4>3
        <5>3. candidate'.roots \subseteq swap'[Len(swap')]
          BY <2>0, <2>a, <4>1, <5>2, Zenon
        <5> QED
          BY <3>2, <5>1, <5>2, <5>3, Zenon DEF RootsAreCovered
      <4> QED
        BY <4>2, <4>3, Zenon
    <3>5. CASE at # "begin ack"
      BY <2>0, <3>2, <3>5, Zenon DEF RootsAreCovered
    <3> QED
      BY <3>3, <3>4, <3>5, Zenon
  <2>4. (FileTyped /\ ReloadTyped /\ SocketsTyped /\ RunsTyped /\ SocketsAreApart)'
    BY <1>a, <1>b, <1>19, Frame, Zenon DEF ApplySwap
  <2> QED
    BY <2>1, <2>2, <2>3, <2>4, Zenon DEF IInv
<1>20. CASE Interrupt
  <2>1. (FileTyped /\ ReloadTyped /\ RootsTyped /\ SocketsTyped /\ RunsTyped /\ SwapsAreOfEdits /\ RootsAreCovered /\ SocketsAreApart)'
    BY <1>a, <1>b, <1>20, Frame, Zenon DEF Interrupt
  <2> QED
    BY <2>1, Zenon DEF IInv
<1>21. CASE LoopReturns
  <2>1. SocketsAreApart'
    BY <1>a, <1>b, <1>21, Zenon DEF LoopReturns, SocketsAreApart
  <2>2. (FileTyped /\ ReloadTyped /\ RootsTyped /\ SocketsTyped /\ RunsTyped /\ SwapsAreOfEdits /\ RootsAreCovered)'
    BY <1>a, <1>b, <1>21, Frame, Zenon DEF LoopReturns
  <2> QED
    BY <2>1, <2>2, Zenon DEF IInv
<1>22. CASE Exit
  <2>1. SocketsTyped'
    BY <1>a, <1>22, Zenon DEF Exit, SocketsTyped
  <2>2. SocketsAreApart'
    BY <1>a, <1>b, <1>22, Zenon DEF Exit, SocketsAreApart
  <2>3. (FileTyped /\ ReloadTyped /\ RootsTyped /\ RunsTyped /\ SwapsAreOfEdits /\ RootsAreCovered)'
    BY <1>a, <1>b, <1>22, Frame, Zenon DEF Exit
  <2> QED
    BY <2>1, <2>2, <2>3, Zenon DEF IInv
<1>23. CASE \E t \in Routers : RoutePlan(t)
  <2> PICK t \in Routers : RoutePlan(t)
    BY <1>23, Zenon
  <2>1. RunsTyped'
    <3>1. tracker' = tracker
      BY Zenon DEF RoutePlan
    <3>2. shared.revision \in Nat /\ shared.revision <= tracker.number
      BY <1>a DEF ReloadTyped
    <3>3. PICK planned \in Runs : planned.revision = shared.revision /\ run' = [run EXCEPT ![t] = planned]
      BY <3>2, RoutedRun, Zenon
    <3> QED
      BY <1>a, <3>1, <3>2, <3>3, Zenon DEF RunsTyped
  <2>2. (FileTyped /\ ReloadTyped /\ RootsTyped /\ SocketsTyped /\ SwapsAreOfEdits /\ RootsAreCovered /\ SocketsAreApart)'
    BY <1>a, <1>b, <1>23, Frame, Zenon DEF RoutePlan
  <2> QED
    BY <2>1, <2>2, Zenon DEF IInv
<1>24. CASE \E t \in Routers : RouterStep(t)
  <2> PICK t \in Routers : RouterStep(t)
    BY <1>24, Zenon
  <2>1. RunsTyped'
    <3>1. /\ run \in [Routers -> Runs] /\ policy \in [{"revision", "concurrency", "hooks", "recovery"} -> Nat]
          /\ run[t].revision <= tracker.number /\ tracker.number \in Nat
      BY <1>a, Zenon DEF RunsTyped, ReloadTyped
    <3>2. tracker' = tracker
      BY Zenon DEF RouterStep, ReadConcurrency, ReadHooks, ReadRecovery, Prepare, Dispatch
    <3>3. PICK prepared \in Runs : /\ prepared = NoRun \/ prepared.revision = run[t].revision
                                   /\ run' = [run EXCEPT ![t] = prepared]
      BY <3>1, ReadRun, Zenon
    <3>4. NoRun.revision <= tracker.number
      BY <3>1, SMTT(30) DEF NoRun
    <3>5. prepared.revision <= tracker.number
      BY <3>1, <3>3, <3>4, Zenon
    <3> QED
      BY <1>a, <3>2, <3>3, <3>5, Zenon DEF RunsTyped
  <2>2. (FileTyped /\ ReloadTyped /\ RootsTyped /\ SocketsTyped /\ SwapsAreOfEdits /\ RootsAreCovered /\ SocketsAreApart)'
    BY <1>a, <1>b, <1>24, Frame DEF RouterStep, ReadConcurrency, ReadHooks, ReadRecovery, Prepare, Dispatch
  <2> QED
    BY <2>1, <2>2, Zenon DEF IInv
<1>25. CASE UNCHANGED vars
  <2>1. (FileTyped /\ ReloadTyped /\ RootsTyped /\ SocketsTyped /\ RunsTyped /\ SwapsAreOfEdits /\ RootsAreCovered /\ SocketsAreApart)'
    BY <1>a, <1>b, <1>25, Frame, Zenon DEF vars
  <2> QED
    BY <2>1, Zenon DEF IInv
<1> QED
  BY <1>1, <1>2, <1>3, <1>4, <1>5, <1>6, <1>7, <1>8, <1>9, <1>10, <1>11, <1>12, <1>13, <1>14, <1>15, <1>16, <1>17, <1>18, <1>19, <1>20, <1>21, <1>22, <1>23, <1>24, <1>25, Zenon DEF Next, ReloadStep

(* A reload unplugs nothing: the swap that adds roots is applied before    *)
(* the commit, the one that removes them is sent after it, and a swap that *)
(* was not acknowledged in time names no less than the live roots (begin,  *)
(* commit, retire and apply_root_swap).                                    *)
THEOREM ReloadIsSeamlessHolds == Spec => []ReloadIsSeamless
<1>1. IInv => NoRootGap /\ ServerHasItsFile
  BY Zenon DEF IInv, RootsAreCovered, Covered, SocketsAreApart, NoRootGap, ServerHasItsFile
<1>2. IInv => TypeOK
  <2> SUFFICES ASSUME IInv PROVE TypeOK
    BY Zenon
  <2>1. Len(swap) <= 2 * MaxEdits
    BY EditsAssumption DEF IInv, FileTyped, ReloadTyped, RootsTyped, SwapsAreOfEdits
  <2> QED
    BY <2>1 DEF IInv, TypeOK, FileTyped, ReloadTyped, RootsTyped, SocketsTyped, RunsTyped
<1> QED
  BY InitIInv, NextIInv, <1>1, <1>2, PTL DEF Spec, ReloadIsSeamless


-----------------------------------------------------------------------------
(* The worker's values during a commit: the ones already set are of the    *)
(* live revision, the others of the one before.                            *)
Current(v) == policy[v] = shared.revision
Behind(v) == policy[v] + 1 = shared.revision

ValuesFollow ==
    /\ at = "set revision" =>
          Behind("revision") /\ Behind("concurrency") /\ Behind("hooks") /\ Behind("recovery")
    /\ at = "set concurrency" =>
          Current("revision") /\ Behind("concurrency") /\ Behind("hooks") /\ Behind("recovery")
    /\ at = "set hooks" =>
          Current("revision") /\ Current("concurrency") /\ Behind("hooks") /\ Behind("recovery")
    /\ at = "set recovery" =>
          Current("revision") /\ Current("concurrency") /\ Current("hooks") /\ Behind("recovery")
    /\ at \notin Setting =>
          Current("revision") /\ Current("concurrency") /\ Current("hooks") /\ Current("recovery")

(* The tracker is one ahead of the live revision from the decision to the  *)
(* commit, and level with it at the next decision: an attempt that failed  *)
(* is the last.                                                            *)
TrackerFollows ==
    /\ at \in {"socket", "begin", "begin ack", "commit"} => tracker.number = shared.revision + 1
    /\ at \in Setting \cup {"read", "retire", "retire ack", "retire socket"} =>
          tracker.number = shared.revision
    /\ at = "idle" /\ ~stopping => tracker.number = shared.revision

(* What a run has read.  A batch being prepared holds the shared lock, so  *)
(* its revision is the live one.                                           *)
RunsFollow ==
    /\ \A t \in Routers : /\ run[t].revision <= shared.revision
                          /\ NearRevision(t, run[t].concurrency)
                          /\ NearRevision(t, run[t].hooks)
                          /\ NearRevision(t, run[t].recovery)
    /\ run["batch"].step # "none" => run["batch"].revision = shared.revision

CommitInv == ValuesFollow /\ TrackerFollows /\ RunsFollow

(* Whatever the commit has reached, a value is of the live revision or of  *)
(* the one before.                                                         *)
LEMMA ValuesAreNear ==
    ASSUME ReloadTyped, ValuesFollow, NEW v \in {"revision", "concurrency", "hooks", "recovery"}
    PROVE  policy[v] \in Nat /\ shared.revision \in Nat
           /\ policy[v] <= shared.revision /\ policy[v] + 1 >= shared.revision
<1>1. policy[v] \in Nat /\ shared.revision \in Nat
  BY DEF ReloadTyped
<1>2. Current(v) \/ Behind(v)
  BY Zenon DEF ValuesFollow, Setting, Current, Behind
<1> QED
  BY <1>1, <1>2 DEF Current, Behind

(* What each conjunct depends on.                                          *)
LEMMA CommitFrame ==
    /\ ValuesFollow /\ UNCHANGED <<at, policy, shared>> => ValuesFollow'
    /\ TrackerFollows /\ UNCHANGED <<at, tracker, shared, stopping>> => TrackerFollows'
    /\ RunsFollow /\ UNCHANGED <<run, shared>> => RunsFollow'
<1>1. ValuesFollow /\ UNCHANGED <<at, policy, shared>> => ValuesFollow'
  BY Zenon DEF ValuesFollow, Current, Behind
<1>2. TrackerFollows /\ UNCHANGED <<at, tracker, shared, stopping>> => TrackerFollows'
  <2> SUFFICES ASSUME TrackerFollows, UNCHANGED <<at, tracker, shared, stopping>> PROVE TrackerFollows'
    BY Zenon
  <2>1. at' = at /\ tracker'.number = tracker.number /\ shared'.revision = shared.revision
    BY Zenon
  <2>2. stopping' <=> stopping
    BY Zenon
  <2> QED
    BY <2>1, <2>2, Zenon DEF TrackerFollows, Setting
<1>3. RunsFollow /\ UNCHANGED <<run, shared>> => RunsFollow'
  BY Zenon DEF RunsFollow, NearRevision
<1> QED
  BY <1>1, <1>2, <1>3, Zenon

(* The reload thread moves on outside the commit.                          *)
LEMMA ValuesStay ==
    ASSUME ValuesFollow, UNCHANGED <<policy, shared>>, at \notin Setting, at' \notin Setting
    PROVE  ValuesFollow'
BY Zenon DEF ValuesFollow, Current, Behind, Setting

(* The starting state satisfies the invariant.                             *)
LEMMA InitCommit == Init => CommitInv
<1> SUFFICES ASSUME NEW config \in Configs, Init!(config) PROVE CommitInv
  BY Zenon DEF Init
<1>1. /\ at = "idle" /\ tracker.number = 1 /\ shared.revision = 1 /\ run = [t \in Routers |-> NoRun]
  BY Zenon
<1>2. /\ policy["revision"] = 1 /\ policy["concurrency"] = 1 /\ policy["hooks"] = 1
      /\ policy["recovery"] = 1
  BY DEF Values
<1>3. /\ NoRun.revision = 0 /\ NoRun.concurrency = 0 /\ NoRun.hooks = 0 /\ NoRun.recovery = 0
      /\ NoRun.step = "none"
  BY Zenon DEF NoRun
<1>4. ValuesFollow
  BY <1>1, <1>2, Zenon DEF ValuesFollow, Current, Setting
<1>5. TrackerFollows
  BY <1>1, Zenon DEF TrackerFollows, Setting
<1>6. RunsFollow
  <2>1. "batch" \in Routers /\ \A t \in Routers : run[t] = NoRun
    BY <1>1, Zenon DEF Routers
  <2>2. 0 <= shared.revision
    BY <1>1
  <2> QED
    BY <1>3, <2>1, <2>2, Zenon DEF RunsFollow, NearRevision
<1> QED
  BY <1>4, <1>5, <1>6, Zenon DEF CommitInv

(* A step of the reload thread keeps it.                                   *)
LEMMA ReloadKeepsCommit == IInv /\ CommitInv /\ ReloadStep => CommitInv'
<1> SUFFICES ASSUME IInv, CommitInv, ReloadStep PROVE CommitInv'
  BY Zenon
<1>a. ReloadTyped /\ RunsTyped /\ ValuesFollow /\ TrackerFollows /\ RunsFollow
  BY Zenon DEF IInv, CommitInv
<1>b. tracker.number \in Nat /\ shared.revision \in Nat
  BY <1>a DEF ReloadTyped
<1> USE DEF Goto, fileVars, handVars, liveVars, rootVars, socketVars, endVars
<1>1. CASE NoticeChange
  <2>1. at = "idle" /\ ~stopping /\ at' = "read" /\ UNCHANGED <<tracker, shared, policy, run, stopping>>
    BY <1>1, Zenon DEF NoticeChange
  <2> QED
    BY <1>a, <2>1, ValuesStay, CommitFrame, Zenon DEF CommitInv, TrackerFollows, Setting
<1>2. CASE DecideNoOp
  <2>1. at = "read" /\ at' = "idle" /\ UNCHANGED <<tracker, shared, policy, run, stopping>>
    BY <1>2, Zenon DEF DecideNoOp
  <2> QED
    BY <1>a, <2>1, ValuesStay, CommitFrame, Zenon DEF CommitInv, TrackerFollows, Setting
<1>3. CASE DecideCommit
  <2>1. /\ at = "read" /\ at' \in {"socket", "begin"} /\ tracker'.number = tracker.number + 1
        /\ UNCHANGED <<shared, policy, run, stopping>>
    BY <1>3, Zenon DEF DecideCommit
  <2> QED
    BY <1>a, <2>1, ValuesStay, CommitFrame, Zenon DEF CommitInv, TrackerFollows, Setting
<1>4. CASE PrepareSocket \/ BeginKeepsRoots \/ BeginAddsRoots \/ BeginDone
  <2>1. /\ at \in {"socket", "begin", "begin ack"} /\ at' \in {"begin", "begin ack", "commit"}
        /\ UNCHANGED <<tracker, shared, policy, run, stopping>>
    BY <1>4, Zenon DEF PrepareSocket, BeginKeepsRoots, BeginAddsRoots, BeginDone
  <2> QED
    BY <1>a, <2>1, ValuesStay, CommitFrame, Zenon DEF CommitInv, TrackerFollows, Setting
<1>5. CASE DecideFatal \/ PrepareSocketFails \/ BeginTimesOut
  <2>1. /\ at \in {"read", "socket", "begin ack"} /\ at' = "fatal"
        /\ UNCHANGED <<tracker, shared, policy, run, stopping>>
    BY <1>5, Zenon DEF DecideFatal, PrepareSocketFails, BeginTimesOut
  <2> QED
    BY <1>a, <2>1, ValuesStay, CommitFrame, Zenon DEF CommitInv, TrackerFollows, Setting
<1>6. CASE CommitShared
  <2>1. /\ at = "commit" /\ at' = "set revision" /\ shared'.revision = tracker.number
        /\ run["batch"].step = "none" /\ UNCHANGED <<tracker, policy, run, stopping>>
    BY <1>6, Zenon DEF CommitShared, SetStep
  <2>2. shared'.revision = shared.revision + 1 /\ tracker'.number = shared'.revision
    BY <1>a, <2>1, Zenon DEF TrackerFollows
  <2>3. ValuesFollow'
    BY <1>a, <2>1, <2>2, Zenon DEF ValuesFollow, Current, Behind, Setting
  <2>4. TrackerFollows'
    BY <2>1, <2>2, Zenon DEF TrackerFollows, Setting
  <2>5. RunsFollow'
    <3>1. \A t \in Routers : run[t].revision \in Nat /\ run[t].revision <= shared.revision
      BY <1>a, Zenon DEF RunsTyped, Runs, RunsFollow
    <3>2. \A t \in Routers : run[t].revision <= shared'.revision
      BY <1>b, <2>2, <3>1
    <3> QED
      BY <1>a, <2>1, <3>2, Zenon DEF RunsFollow, NearRevision
  <2> QED
    BY <2>3, <2>4, <2>5, Zenon DEF CommitInv
<1>7. CASE \E i \in 1 .. Len(Values) : CommitValue(i)
  <2>1. UNCHANGED <<tracker, shared, run, stopping>>
    BY <1>7, Zenon DEF CommitValue
  <2>2. \/ at = "set revision" /\ at' = "set concurrency"
           /\ policy' = [policy EXCEPT !["revision"] = tracker.number]
        \/ at = "set concurrency" /\ at' = "set hooks"
           /\ policy' = [policy EXCEPT !["concurrency"] = tracker.number]
        \/ at = "set hooks" /\ at' = "set recovery"
           /\ policy' = [policy EXCEPT !["hooks"] = tracker.number]
        \/ at = "set recovery" /\ at' = "retire"
           /\ policy' = [policy EXCEPT !["recovery"] = tracker.number]
    <3> PICK i \in 1 .. 4 : CommitValue(i)
      BY <1>7, SettingSteps, Zenon
    <3>1. /\ at = SetStep(i) /\ policy' = [policy EXCEPT ![Values[i]] = tracker.number]
          /\ (i < 4 => at' = SetStep(i + 1)) /\ (~(i < 4) => at' = "retire")
      BY SettingSteps, Zenon DEF CommitValue
    <3>2. \/ i = 1 /\ at' = SetStep(2)
          \/ i = 2 /\ at' = SetStep(3)
          \/ i = 3 /\ at' = SetStep(4)
          \/ i = 4 /\ at' = "retire"
      BY <3>1
    <3> QED
      BY <3>1, <3>2, SettingOrder, Zenon
  <2>3. tracker.number = shared.revision
    BY <1>a, <2>2, Zenon DEF TrackerFollows, Setting
  <2>4. policy \in [{"revision", "concurrency", "hooks", "recovery"} -> Nat]
    BY <1>a, Zenon DEF ReloadTyped
  <2>5. ValuesFollow'
    BY <1>a, <2>1, <2>2, <2>3, <2>4, Zenon DEF ValuesFollow, Current, Behind, Setting
  <2>6. TrackerFollows'
    BY <2>1, <2>2, <2>3, Zenon DEF TrackerFollows, Setting
  <2> QED
    BY <1>a, <2>1, <2>5, <2>6, CommitFrame, Zenon DEF CommitInv
<1>8. CASE RetireRoots \/ RetireDone \/ RetireSocket
  <2>1. /\ at \in {"retire", "retire ack", "retire socket"} /\ at' \in {"retire ack", "retire socket", "idle"}
        /\ UNCHANGED <<tracker, shared, policy, run, stopping>>
    BY <1>8, Zenon DEF RetireRoots, RetireDone, RetireSocket
  <2> QED
    BY <1>a, <2>1, ValuesStay, CommitFrame, Zenon DEF CommitInv, TrackerFollows, Setting
<1>9. CASE FatalReload \/ ReloadReturns
  <2>1. /\ at \in {"fatal", "idle"} /\ at' \in {"idle", "exited"} /\ (at' = "idle" => stopping')
        /\ UNCHANGED <<tracker, shared, policy, run>>
    BY <1>9, Zenon DEF FatalReload, ReloadReturns
  <2> QED
    BY <1>a, <2>1, ValuesStay, CommitFrame, Zenon DEF CommitInv, TrackerFollows, Setting
<1> QED
  BY <1>1, <1>2, <1>3, <1>4, <1>5, <1>6, <1>7, <1>8, <1>9, Zenon DEF ReloadStep

(* A step of a run keeps it.                                               *)
LEMMA RunKeepsCommit ==
    ASSUME IInv, CommitInv, NEW t \in Routers, RoutePlan(t) \/ RouterStep(t)
    PROVE  CommitInv'
<1>a. ReloadTyped /\ RunsTyped /\ ValuesFollow /\ TrackerFollows /\ RunsFollow
  BY Zenon DEF IInv, CommitInv
<1>b. shared.revision \in Nat
  BY <1>a DEF ReloadTyped
<1>c. /\ run \in [Routers -> Runs]
      /\ policy \in [{"revision", "concurrency", "hooks", "recovery"} -> Nat]
  BY <1>a, Zenon DEF ReloadTyped, RunsTyped
<1>1. UNCHANGED <<at, policy, shared, tracker, stopping>>
  BY Zenon DEF RoutePlan, RouterStep, ReadConcurrency, ReadHooks, ReadRecovery, Prepare, Dispatch,
               fileVars, liveVars, endVars
<1>2. ValuesFollow' /\ TrackerFollows'
  BY <1>a, <1>1, CommitFrame, Zenon
<1> DEFINE Near(v, n) == v # 0 => v + 1 >= n /\ (t = "batch" => v <= n)
<1> DEFINE Good(r) == /\ r.revision <= shared.revision
                      /\ r.step # "none" /\ t = "batch" => r.revision = shared.revision
                      /\ Near(r.concurrency, r.revision)
                      /\ Near(r.hooks, r.revision)
                      /\ Near(r.recovery, r.revision)
<1>3. PICK next \in Runs : run' = [run EXCEPT ![t] = next] /\ Good(next)
  <2>1. CASE RoutePlan(t)
    <3>1. PICK planned \in Runs : /\ run' = [run EXCEPT ![t] = planned]
                                  /\ planned.revision = shared.revision
                                  /\ planned.concurrency = 0 /\ planned.hooks = 0 /\ planned.recovery = 0
      BY <1>b, <2>1, RoutedRun, Zenon
    <3>2. shared.revision <= shared.revision
      BY <1>b
    <3>3. Good(planned)
      BY <3>1, <3>2, Zenon
    <3> QED
      BY <3>1, <3>3, Zenon
  <2>2. CASE RouterStep(t)
    <3>1. PICK prepared \in Runs :
              /\ run' = [run EXCEPT ![t] = prepared]
              /\ \/ prepared = NoRun
                 \/ /\ run[t].step # "none" /\ prepared.revision = run[t].revision
                    /\ prepared.concurrency \in {run[t].concurrency, policy["concurrency"]}
                    /\ prepared.hooks \in {run[t].hooks, policy["hooks"]}
                    /\ prepared.recovery \in {run[t].recovery, policy["recovery"]}
      BY <1>c, <2>2, ReadRun, Zenon
    <3>2. CASE prepared = NoRun
      <4>1. /\ prepared.revision = 0 /\ prepared.concurrency = 0 /\ prepared.hooks = 0
            /\ prepared.recovery = 0 /\ prepared.step = "none"
        BY <3>2, Zenon DEF NoRun
      <4>2. 0 <= shared.revision
        BY <1>b
      <4>3. Good(prepared)
        BY <4>1, <4>2, Zenon
      <4> QED
        BY <3>1, <4>3, Zenon
    <3>3. CASE prepared # NoRun
      <4>1. /\ run[t].step # "none" /\ prepared.revision = run[t].revision
            /\ prepared.concurrency \in {run[t].concurrency, policy["concurrency"]}
            /\ prepared.hooks \in {run[t].hooks, policy["hooks"]}
            /\ prepared.recovery \in {run[t].recovery, policy["recovery"]}
        BY <3>1, <3>3, Zenon
      <4>2. /\ run[t].revision \in Nat /\ run[t].revision <= shared.revision
            /\ (t = "batch" => run[t].revision = shared.revision)
        BY <1>a, <1>c, <4>1, Zenon DEF RunsFollow, Runs
      <4>3. /\ Near(run[t].concurrency, run[t].revision)
            /\ Near(run[t].hooks, run[t].revision)
            /\ Near(run[t].recovery, run[t].revision)
        BY <1>a, Zenon DEF RunsFollow, NearRevision
      <4>4. ASSUME NEW v \in {"concurrency", "hooks", "recovery"}
            PROVE  Near(policy[v], run[t].revision)
        <5>1. /\ policy[v] \in Nat /\ policy[v] <= shared.revision
              /\ policy[v] + 1 >= shared.revision
          BY <1>a, ValuesAreNear, Zenon
        <5> QED
          BY <1>b, <4>2, <5>1
      <4>5. /\ Near(policy["concurrency"], run[t].revision)
            /\ Near(policy["hooks"], run[t].revision)
            /\ Near(policy["recovery"], run[t].revision)
        BY <4>4, Zenon
      <4>6. Good(prepared)
        BY <4>1, <4>2, <4>3, <4>5, Zenon
      <4> QED
        BY <3>1, <4>6, Zenon
    <3> QED
      BY <3>2, <3>3, Zenon
  <2> QED
    BY <2>1, <2>2, Zenon
<1>4. run'[t] = next /\ \A u \in Routers : u # t => run'[u] = run[u]
  BY <1>c, <1>3, Zenon
<1>5. "batch" \in Routers
  BY Zenon DEF Routers
<1>6. RunsFollow'
  <2>1. \A u \in Routers : /\ run'[u].revision <= shared.revision
                           /\ NearRevision(u, run[u].concurrency)'
                           /\ NearRevision(u, run[u].hooks)'
                           /\ NearRevision(u, run[u].recovery)'
    <3> TAKE u \in Routers
    <3>1. CASE u = t
      BY <1>3, <1>4, <3>1, Zenon DEF NearRevision
    <3>2. CASE u # t
      BY <1>a, <1>4, <3>2, Zenon DEF RunsFollow, NearRevision
    <3> QED
      BY <3>1, <3>2, Zenon
  <2>2. run'["batch"].step # "none" => run'["batch"].revision = shared.revision
    <3>1. CASE t = "batch"
      BY <1>3, <1>4, <3>1, Zenon
    <3>2. CASE t # "batch"
      BY <1>a, <1>4, <1>5, <3>2, Zenon DEF RunsFollow
    <3> QED
      BY <3>1, <3>2, Zenon
  <2> QED
    BY <1>1, <2>1, <2>2, Zenon DEF RunsFollow
<1> QED
  BY <1>2, <1>6, Zenon DEF CommitInv

(* Every step of every thread keeps it.                                    *)
LEMMA NextCommit == IInv /\ CommitInv /\ [Next]_vars => CommitInv'
<1> SUFFICES ASSUME IInv, CommitInv, [Next]_vars PROVE CommitInv'
  BY Zenon
<1>1. CASE ReloadStep
  BY <1>1, ReloadKeepsCommit, Zenon
<1>2. CASE \E t \in Routers : RoutePlan(t) \/ RouterStep(t)
  BY <1>2, RunKeepsCommit, Zenon
<1>3. CASE \/ \E content \in Configs \cup {Invalid} : Edit(content)
           \/ ApplySwap \/ LoopReturns \/ Exit \/ UNCHANGED vars
  <2>1. UNCHANGED <<at, policy, shared, tracker, stopping, run>>
    BY <1>3, Zenon DEF Edit, ApplySwap, LoopReturns, Exit, vars, fileVars, liveVars, endVars
  <2> QED
    BY <2>1, CommitFrame, Zenon DEF CommitInv
<1>4. CASE Interrupt
  <2>1. UNCHANGED <<at, policy, shared, tracker, run>> /\ stopping'
    BY <1>4, Zenon DEF Interrupt, fileVars, liveVars
  <2>2. TrackerFollows'
    BY <2>1, Zenon DEF CommitInv, TrackerFollows
  <2> QED
    BY <2>1, <2>2, CommitFrame, Zenon DEF CommitInv
<1> QED
  BY <1>1, <1>2, <1>3, <1>4, Zenon DEF Next

(* The hooks, the recovery policy and the concurrency that a run reads are *)
(* at most one commit behind its plan, and for a batch never ahead of it,  *)
(* for any number of reloads and however the steps of a commit fall        *)
(* between those of a run (prepare_request and schedule_target against     *)
(* commit).                                                                *)
THEOREM RunsSpanOneCommitHolds == Spec => []RunsSpanOneCommit
<1>1. IInv /\ CommitInv => RunsSpanOneCommit
  <2> SUFFICES ASSUME IInv, CommitInv PROVE RunsSpanOneCommit
    BY Zenon
  <2>1. ASSUME \A i \in 1 .. Len(Values) : at # SetStep(i)
        PROVE  \A i \in 1 .. Len(Values) : policy[Values[i]] = shared.revision
    <3>1. /\ at # SetStep(1) /\ at # SetStep(2) /\ at # SetStep(3) /\ at # SetStep(4)
      BY <2>1, SettingSteps
    <3>2. at \notin Setting
      BY <3>1, SettingOrder, Zenon DEF Setting
    <3>3. /\ policy["revision"] = shared.revision /\ policy["concurrency"] = shared.revision
          /\ policy["hooks"] = shared.revision /\ policy["recovery"] = shared.revision
      BY <3>2, Zenon DEF CommitInv, ValuesFollow, Current
    <3>4. \A i \in 1 .. 4 : i = 1 \/ i = 2 \/ i = 3 \/ i = 4
      OBVIOUS
    <3> QED
      BY <3>3, <3>4, SettingSteps, SettingOrder, Zenon
  <2> QED
    BY <2>1, Zenon DEF CommitInv, RunsFollow, RunsSpanOneCommit
<1> QED
  BY InitIInv, NextIInv, InitCommit, NextCommit, <1>1, PTL DEF Spec
=============================================================================
