------------------------------- MODULE Reload -------------------------------
(***************************************************************************)
(* The live reload of the configuration (reload_session.rs,                *)
(* reload_coordinator.rs, reload.rs): the reload thread validates a        *)
(* candidate and takes it through prepare, commit and retire, while the    *)
(* watch loop routes batches and applies root swaps, and control clients   *)
(* start runs.  A configuration is its watch roots, its control socket and *)
(* what its semantic hash leaves out (the values of environment variables, *)
(* the order of commands); the worker's policy values are the number of    *)
(* the revision they come from.                                            *)
(***************************************************************************)
EXTENDS Integers, Sequences, FiniteSets

CONSTANTS
    Roots,       \* watch roots a configuration may name
    Broken,      \* roots the backend cannot register
    Sockets,     \* control socket paths a configuration may name
    NoSocket,    \* a configuration without a control socket
    Configs,     \* valid contents of the file: [roots, socket, rest]
    Invalid,     \* content that fails a validation gate, or no file at all
    MaxEdits     \* bound on the writes to the configuration file

ASSUME RootsAssumption == Roots # {} /\ Broken \subseteq Roots
ASSUME SocketsAssumption == NoSocket \notin Sockets
ASSUME ConfigsAssumption ==
    \A config \in Configs : /\ config.roots \subseteq Roots /\ config.roots # {}
                            /\ config.socket \in Sockets \cup {NoSocket}
ASSUME EditsAssumption == MaxEdits \in Nat

(* The semantic hash: configurations with the same one are the same        *)
(* revision.                                                               *)
Hash(config) == <<config.roots, config.socket>>

VARIABLES
    file, mtime,    \* the configuration file: its content, its modifications
    baseline,       \* the modification the reload thread has handled
    tracker,        \* RevisionTracker: [number, config]
    at,             \* where the reload thread is
    candidate,      \* the candidate in hand
    obsolete,       \* ReloadTransaction.removed_roots
    shared,         \* the shared Watches: [config, revision]
    policy,         \* the worker's values: the revision each comes from
    watched,        \* the roots registered on the live backend
    swap,           \* the root-swap channel, oldest first
    acked,          \* the acknowledgement of the swap in hand
    lifecycle,      \* ConfigLifecycle.current.phase
    server, old,    \* control_server and pending_old_server, by path
    files,          \* socket files on disk
    startSocket,    \* reload_current_socket
    active, pendingPath,  \* active_socket and pending_socket_path
    stopping,       \* the shutdown flag
    main,           \* the main thread: in its loop, past it, or exited
    run             \* per scheduler of runs: the request being prepared

handVars == <<candidate, obsolete>>
fileVars == <<file, mtime, baseline, tracker>>
socketVars == <<server, old, files, startSocket, active, pendingPath>>
rootVars == <<watched, swap, acked>>
liveVars == <<shared, policy>>
endVars == <<stopping, main>>
vars == <<fileVars, at, handVars, liveVars, rootVars, lifecycle, socketVars, endVars, run>>

Values == <<"revision", "concurrency", "hooks", "recovery">>
Routers == {"batch", "control"}
NoRun == [step |-> "none", revision |-> 0, concurrency |-> 0, hooks |-> 0, recovery |-> 0]
SetStep(i) == <<"set revision", "set concurrency", "set hooks", "set recovery">>[i]

Init ==
    \E config \in Configs :
        /\ config.roots \cap Broken = {}
        /\ file = config /\ mtime = 0 /\ baseline = 0
        /\ tracker = [number |-> 1, config |-> config]
        /\ at = "idle" /\ candidate = config /\ obsolete = {}
        /\ shared = [config |-> config, revision |-> 1]
        /\ policy = [v \in {Values[i] : i \in 1 .. Len(Values)} |-> 1]
        /\ watched = config.roots /\ swap = << >> /\ acked = FALSE
        /\ lifecycle = "Idle"
        /\ server = config.socket /\ old = NoSocket
        /\ files = {config.socket} \ {NoSocket}
        /\ startSocket = config.socket /\ active = config.socket
        /\ pendingPath = NoSocket
        /\ stopping = FALSE /\ main = "looping"
        /\ run = [t \in Routers |-> NoRun]

-----------------------------------------------------------------------------
(* Writes to the file.  The event of a write is not lost: it is pending as *)
(* long as the modification time differs from the baseline.                *)
Edit(content) ==
    /\ main # "exited" /\ mtime < MaxEdits
    /\ file' = content /\ mtime' = mtime + 1
    /\ UNCHANGED <<baseline, tracker, at, handVars, liveVars, rootVars, lifecycle,
                   socketVars, endVars, run>>

Goto(step) == at' = step

(* The baseline is recorded before the content is read.                    *)
NoticeChange ==
    /\ at = "idle" /\ ~stopping /\ mtime # baseline
    /\ baseline' = mtime
    /\ Goto("read")
    /\ UNCHANGED <<file, mtime, tracker, handVars, liveVars, rootVars, lifecycle,
                   socketVars, endVars, run>>

(* reload::decide and the lifecycle transition of a commit decision.       *)
DecideNoOp ==
    /\ at = "read" /\ file \in Configs /\ Hash(file) = Hash(tracker.config)
    /\ Goto("idle")
    /\ UNCHANGED <<fileVars, handVars, liveVars, rootVars, lifecycle, socketVars, endVars,
                   run>>

DecideFatal ==
    /\ at = "read" /\ file = Invalid
    /\ Goto("fatal")
    /\ UNCHANGED <<fileVars, handVars, liveVars, rootVars, lifecycle, socketVars, endVars,
                   run>>

SocketChanged(config) == config.socket # startSocket

DecideCommit ==
    /\ at = "read" /\ file \in Configs /\ Hash(file) # Hash(tracker.config)
    /\ tracker' = [number |-> tracker.number + 1, config |-> file]
    /\ candidate' = file
    /\ lifecycle' = "Reloading"
    /\ Goto(IF SocketChanged(file) /\ file.socket # NoSocket THEN "socket" ELSE "begin")
    /\ UNCHANGED <<file, mtime, baseline, obsolete, liveVars, rootVars, socketVars, endVars, run>>

(* prepare_socket: binding fails on a path something listens on; else the  *)
(* new server takes the slot and the old one waits for its retirement.     *)
PrepareSocket ==
    /\ at = "socket" /\ candidate.socket \notin {server, old}
    /\ old' = server /\ server' = candidate.socket
    /\ files' = files \cup {candidate.socket}
    /\ pendingPath' = candidate.socket
    /\ Goto("begin")
    /\ UNCHANGED <<fileVars, handVars, liveVars, rootVars, lifecycle, startSocket, active,
                   endVars, run>>

PrepareSocketFails ==
    /\ at = "socket" /\ candidate.socket \in {server, old}
    /\ Goto("fatal")
    /\ UNCHANGED <<fileVars, handVars, liveVars, rootVars, lifecycle, socketVars, endVars,
                   run>>

(* begin: added roots are published with the old ones before the commit.   *)
Added == candidate.roots \ shared.config.roots
Removed == shared.config.roots \ candidate.roots

BeginKeepsRoots ==
    /\ at = "begin" /\ Added = {}
    /\ obsolete' = Removed
    /\ Goto("commit")
    /\ UNCHANGED <<fileVars, candidate, liveVars, rootVars, lifecycle, socketVars, endVars,
                   run>>

(* Mutant: only the candidate's roots are published.                       *)
BeginAddsRootsOnly ==
    /\ at = "begin" /\ Added # {}
    /\ swap' = Append(swap, candidate.roots) /\ acked' = FALSE
    /\ obsolete' = Removed
    /\ Goto("begin ack")
    /\ UNCHANGED <<fileVars, candidate, liveVars, watched, lifecycle, socketVars, endVars, run>>

BeginAddsRoots ==
    /\ at = "begin" /\ Added # {}
    /\ swap' = Append(swap, shared.config.roots \cup Added) /\ acked' = FALSE
    /\ obsolete' = Removed
    /\ Goto("begin ack")
    /\ UNCHANGED <<fileVars, candidate, liveVars, watched, lifecycle, socketVars, endVars, run>>

BeginDone ==
    /\ at = "begin ack" /\ acked
    /\ Goto("commit")
    /\ UNCHANGED <<fileVars, handVars, liveVars, rootVars, lifecycle, socketVars, endVars,
                   run>>

(* The loop did not acknowledge within five seconds, or is gone.           *)
BeginTimesOut ==
    /\ at = "begin ack" /\ ~acked
    /\ Goto("fatal")
    /\ UNCHANGED <<fileVars, handVars, liveVars, rootVars, lifecycle, socketVars, endVars,
                   run>>

(* Mutant: the shared lock does not keep a batch and the commit apart.     *)
CommitSharedUnlocked ==
    /\ at = "commit"
    /\ shared' = [config |-> candidate, revision |-> tracker.number]
    /\ Goto(SetStep(1))
    /\ UNCHANGED <<fileVars, handVars, policy, rootVars, lifecycle, socketVars, endVars, run>>

(* commit: the shared configuration under its lock, which a batch being    *)
(* routed holds; then the worker's values one lock at a time.              *)
CommitShared ==
    /\ at = "commit" /\ run["batch"].step = "none"
    /\ shared' = [config |-> candidate, revision |-> tracker.number]
    /\ Goto(SetStep(1))
    /\ UNCHANGED <<fileVars, handVars, policy, rootVars, lifecycle, socketVars, endVars, run>>

CommitValue(i) ==
    /\ at = SetStep(i)
    /\ policy' = [policy EXCEPT ![Values[i]] = tracker.number]
    /\ Goto(IF i < Len(Values) THEN SetStep(i + 1) ELSE "retire")
    /\ UNCHANGED <<fileVars, handVars, shared, rootVars, lifecycle, socketVars, endVars, run>>

(* retire: the obsolete roots leave the backend after the commit.          *)
RetireRoots ==
    /\ at = "retire"
    /\ IF obsolete = {}
       THEN Goto("retire socket") /\ UNCHANGED <<swap, acked>>
       ELSE Goto("retire ack") /\ swap' = Append(swap, shared.config.roots) /\ acked' = FALSE
    /\ UNCHANGED <<fileVars, handVars, liveVars, watched, lifecycle, socketVars, endVars, run>>

(* Acknowledged, or timed out: a failure to retire is only a warning.      *)
RetireDone ==
    /\ at = "retire ack"
    /\ Goto("retire socket")
    /\ UNCHANGED <<fileVars, handVars, liveVars, rootVars, lifecycle, socketVars, endVars,
                   run>>

(* Mutant: the baseline is taken again when the reload is over.            *)
RetireSocketRebaselined ==
    /\ at = "retire socket"
    /\ IF pendingPath = NoSocket
       THEN UNCHANGED <<old, files, pendingPath>>
       ELSE old' = NoSocket /\ files' = files \ {old} /\ pendingPath' = NoSocket
    /\ lifecycle' = "Reloaded"
    /\ Goto("idle")
    /\ baseline' = mtime
    /\ UNCHANGED <<file, mtime, tracker, handVars, liveVars, rootVars, server, startSocket,
                   active, endVars, run>>

(* retire_socket drops the old server, which removes its file.             *)
RetireSocket ==
    /\ at = "retire socket"
    /\ IF pendingPath = NoSocket
       THEN UNCHANGED <<old, files, pendingPath>>
       ELSE old' = NoSocket /\ files' = files \ {old} /\ pendingPath' = NoSocket
    /\ lifecycle' = "Reloaded"
    /\ Goto("idle")
    /\ UNCHANGED <<fileVars, handVars, liveVars, rootVars, server, startSocket, active,
                   endVars, run>>

(* fatal_reload: the terminal transition, then the shutdown request.       *)
FatalReload ==
    /\ at = "fatal"
    /\ lifecycle' = "Invalid"
    /\ stopping' = TRUE
    /\ Goto("idle")
    /\ UNCHANGED <<fileVars, handVars, liveVars, rootVars, socketVars, main, run>>

ReloadReturns ==
    /\ at = "idle" /\ stopping
    /\ Goto("exited")
    /\ UNCHANGED <<fileVars, handVars, liveVars, rootVars, lifecycle, socketVars, endVars,
                   run>>

-----------------------------------------------------------------------------
(* The main thread: apply_root_swap ignores what the backend refuses to    *)
(* register, and acknowledges all the same.                                *)
ApplySwap ==
    /\ main = "looping" /\ swap # << >> /\ run["batch"].step = "none"
    /\ watched' = (watched \cap Head(swap)) \cup (Head(swap) \ Broken)
    /\ swap' = Tail(swap) /\ acked' = (acked \/ Len(swap) = 1)
    /\ UNCHANGED <<fileVars, at, handVars, liveVars, lifecycle, socketVars, endVars, run>>

(* A signal, or the close of the process: main joins the reload thread and *)
(* removes the socket files the coordinator names.                         *)
Interrupt ==
    /\ ~stopping
    /\ stopping' = TRUE
    /\ UNCHANGED <<fileVars, at, handVars, liveVars, rootVars, lifecycle, socketVars, main,
                   run>>

LoopReturns ==
    /\ main = "looping" /\ stopping /\ run["batch"].step = "none"
    /\ main' = "joining"
    /\ UNCHANGED <<fileVars, at, handVars, liveVars, rootVars, lifecycle, socketVars,
                   stopping, run>>

Exit ==
    /\ at = "exited" /\ main = "joining"
    /\ main' = "exited"
    /\ files' = files \ {active, pendingPath}
    /\ UNCHANGED <<fileVars, at, handVars, liveVars, rootVars, lifecycle, server, old,
                   startSocket, active, pendingPath, stopping, run>>

(* Runs.  The plan and its revision are read under the shared lock; the    *)
(* worker's values each under their own.  A batch keeps the shared lock to *)
(* the end, a control run does not; of the hooks it reads twice, the       *)
(* second ones count.                                                      *)
RoutePlan(t) ==
    /\ IF t = "batch" THEN main = "looping" ELSE main # "exited" /\ server # NoSocket
    /\ run[t].step = "none"
    /\ run' = [run EXCEPT ![t] = [NoRun EXCEPT
                   !.step = IF t = "batch" THEN "hooks" ELSE "concurrency",
                   !.revision = shared.revision]]
    /\ UNCHANGED <<fileVars, at, handVars, liveVars, rootVars, lifecycle, socketVars, endVars>>

Prepare(t, from, to, field, value) ==
    /\ run[t].step = from
    /\ run' = [run EXCEPT ![t].step = to, ![t][field] = value]
    /\ UNCHANGED <<fileVars, at, handVars, liveVars, rootVars, lifecycle, socketVars, endVars>>

ReadConcurrency(t) == Prepare(t, "concurrency", "recovery", "concurrency", policy["concurrency"])
ReadHooks(t) ==
    Prepare(t, "hooks", IF t = "batch" THEN "recovery" ELSE "dispatch", "hooks", policy["hooks"])
ReadRecovery(t) ==
    Prepare(t, "recovery", IF t = "batch" THEN "dispatch" ELSE "hooks", "recovery", policy["recovery"])

Dispatch(t) ==
    /\ run[t].step = "dispatch"
    /\ run' = [run EXCEPT ![t] = NoRun]
    /\ UNCHANGED <<fileVars, at, handVars, liveVars, rootVars, lifecycle, socketVars, endVars>>

-----------------------------------------------------------------------------
ReloadStep ==
    \/ NoticeChange \/ DecideNoOp \/ DecideFatal \/ DecideCommit
    \/ PrepareSocket \/ PrepareSocketFails
    \/ BeginKeepsRoots \/ BeginAddsRoots \/ BeginDone \/ BeginTimesOut
    \/ CommitShared \/ \E i \in 1 .. Len(Values) : CommitValue(i)
    \/ RetireRoots \/ RetireDone \/ RetireSocket \/ FatalReload \/ ReloadReturns

RouterStep(t) ==
    ReadConcurrency(t) \/ ReadHooks(t) \/ ReadRecovery(t) \/ Dispatch(t)

Next ==
    \/ \E content \in Configs \cup {Invalid} : Edit(content)
    \/ ReloadStep
    \/ ApplySwap \/ Interrupt \/ LoopReturns \/ Exit
    \/ \E t \in Routers : RoutePlan(t) \/ RouterStep(t)

Spec == Init /\ [][Next]_vars

(* Fairness: the reload thread runs, and so its bounded wait for an        *)
(* acknowledgement ends; the shared lock, which a batch holds for a moment *)
(* only, is granted to a waiting commit; a batch being routed is           *)
(* dispatched.                                                             *)
Fairness ==
    WF_vars(ReloadStep) /\ SF_vars(CommitShared) /\ WF_vars(RouterStep("batch"))

FairSpec == Spec /\ Fairness

-----------------------------------------------------------------------------
(* The reload transaction's state has its type.                            *)
TypeOK ==
    /\ file \in Configs \cup {Invalid} /\ baseline <= mtime
    /\ candidate \in Configs /\ shared.config \in Configs
    /\ shared.revision \in 1 .. tracker.number
    /\ watched \subseteq Roots /\ Len(swap) <= 2 * MaxEdits
    /\ server \in Sockets \cup {NoSocket} /\ old \in Sockets \cup {NoSocket}
    /\ files \subseteq Sockets
    /\ lifecycle \in {"Idle", "Reloading", "Reloaded", "Invalid"}
    /\ \A t \in Routers : run[t].revision <= tracker.number

(* No event is lost around a commit: every root of the configuration that  *)
(* batches are routed by is registered, but for those the backend refuses  *)
(* (begin before commit before retire, against the loop that applies the   *)
(* swaps).                                                                 *)
NoRootGap == shared.config.roots \subseteq watched \cup Broken

(* A value of the worker that a run has read (0: not yet) is at most one   *)
(* commit older than the run's plan, and for a batch never newer.          *)
NearRevision(t, value) ==
    value # 0 => /\ value + 1 >= run[t].revision
                 /\ t = "batch" => value <= run[t].revision

(* No run mixes more than two neighbouring revisions backwards, and a      *)
(* batch none forwards, although plan, hooks, recovery policy and          *)
(* concurrency are read under four locks and committed under four          *)
(* (prepare_request and schedule_target against commit): the next commit   *)
(* begins after the last value of this one is set, and a batch keeps the   *)
(* shared lock.  Between commits every value is the live revision's.       *)
RunsSpanOneCommit ==
    /\ \A t \in Routers : /\ NearRevision(t, run[t].concurrency)
                          /\ NearRevision(t, run[t].hooks)
                          /\ NearRevision(t, run[t].recovery)
    /\ (\A i \in 1 .. Len(Values) : at # SetStep(i)) =>
           \A i \in 1 .. Len(Values) : policy[Values[i]] = shared.revision

(* The server that answers has its socket file, whatever is retired.       *)
ServerHasItsFile == main # "exited" /\ server # NoSocket => server \in files

(* A reload unplugs nothing: no root and no socket file that the live      *)
(* configuration needs is missing at any step of begin, commit and retire. *)
ReloadIsSeamless == TypeOK /\ NoRootGap /\ ServerHasItsFile

(* A saved configuration is acted upon: again and again, and so once the   *)
(* edits cease for good, the live configuration is the file's as far as    *)
(* the hash tells them apart, or the watcher is stopping (the reload       *)
(* thread's baseline against the file).                                    *)
EditIsActedUpon ==
    []<>(stopping \/ (file \in Configs /\ Hash(shared.config) = Hash(file)))

-----------------------------------------------------------------------------
(* Statements of the comments that the code does not keep.                 *)

(* "if the candidate changes the control socket path, bind the NEW socket" *)
(* (reload_session.rs): a candidate that keeps the live path is not bound. *)
KeptSocketIsNotRebound == at = "socket" => candidate.socket # server

(* "never a silent stale socket" (reload_session.rs): once a candidate     *)
(* with a socket has been reloaded, the server listens there.              *)
ServerIsWhereConfigured ==
    lifecycle = "Reloaded" /\ shared.config.socket # NoSocket =>
        server = shared.config.socket

(* "The socket file(s) a fatal shutdown must remove: the active socket     *)
(* plus any prepared-but-not-retired replacement" (reload_coordinator.rs). *)
NoSocketFileIsLeft == main = "exited" /\ lifecycle = "Invalid" => files = {}

(* "post-commit generations run the committed hooks" (reload_coordinator.rs): a run *)
(* planned by a committed revision has no older hooks.                     *)
HooksMatchRevision ==
    \A t \in Routers : run[t].step = "dispatch" => run[t].hooks >= run[t].revision

(* "Two revisions with the same hash are semantically identical            *)
(* (formatting-only rewrites do not produce a new revision)"               *)
(* (config_revision.rs): no other edit is left without effect.             *)
EveryEditIsActedUpon == []<>(stopping \/ shared.config = file)

(* "A failure here (added root cannot register) returns `Err` with nothing *)
(* mutated" (reload_coordinator.rs).                                       *)
CommittedRootsAreWatched == shared.config.roots \subseteq watched
=============================================================================
