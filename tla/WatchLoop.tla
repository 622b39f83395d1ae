----------------------------- MODULE WatchLoop -----------------------------
(***************************************************************************)
(* From a write in the file system to a scheduled run: the native and the  *)
(* polling backend of watcher.rs, live root swaps, and the handler of      *)
(* watch_loop.rs with its modification gate.                               *)
(*                                                                         *)
(* The tree is the smallest one with every case: root r holds the file a   *)
(* and, from the start or later, the directory d with the file x; root s,  *)
(* subscribed only by a swap, holds the directory e with the file y.  An   *)
(* mtime is a tick of the file system's clock, 0 when the path does not    *)
(* exist.  The kernel queue, notify and its debouncer are external.        *)
(***************************************************************************)
EXTENDS Naturals, Sequences, FiniteSets

CONSTANTS MaxClock,      \* bound: ticks of the file system's clock
          MaxWindows,    \* bound: debounced windows not yet received
          MaxChatter,    \* bound: events without a write
          CoarseClock,   \* may two writes carry the same mtime?
          Swaps          \* the root sets a reload may install

Files == {"a", "x", "y"}
Dirs == {"r", "d", "s", "e"}
Paths == Files \cup Dirs
StartRoots == {"r"}

Parent == [a |-> "r", d |-> "r", x |-> "d", e |-> "s", y |-> "e"]

\* The directory with everything below it.
Tree(dir) == CASE dir = "r" -> {"r", "a", "d", "x"}
               [] dir = "d" -> {"d", "x"}
               [] dir = "s" -> {"s", "e", "y"}
               [] dir = "e" -> {"e", "y"}

Scope(rs) == UNION {Tree(root) : root \in rs}

VARIABLES
  clock, mtime,        \* the file system
  chatter,             \* events without a write so far
  backend,             \* "native" or "poll"
  pc,                  \* "starting", "idle", "gate", "stopped"
  roots,               \* current_roots, or the scanner's watched roots
  inotify,             \* directories with a kernel watch
  kernel,              \* events the backend has not read
  window,              \* paths the debouncer is holding
  rx,                  \* windows sent to the loop: [any, continuous]
  previous, seeded,    \* PollScanner
  swap,                \* the pending RootSwap, {} when there is none
  held,                \* the batch inside the handler
  lastSeen,            \* ModificationGate: Unknown, 0 (absent) or an mtime
  pending,             \* is a noted batch not yet completed?
  owed,                \* history: written under a live root, not yet routed
  dirty,               \* history: written since the gate last looked
  spurious, absorbed   \* history: see the properties

fs == <<clock, mtime, chatter>>
native == <<inotify, kernel, window, rx>>
poll == <<previous, seeded>>
loop == <<pc, roots, swap, held>>
gate == <<lastSeen, pending>>
ghosts == <<owed, dirty, spurious, absorbed>>
vars == <<fs, backend, native, poll, loop, gate, ghosts>>

Unknown == MaxClock + 1
Exists(p) == mtime[p] > 0

(***************************************************************************)
(* Start: the gate is seeded from the baseline paths, then the roots are   *)
(* registered, then on_ready runs.                                         *)
(***************************************************************************)
\* Mutant: the gate starts empty.
NoSeed(paths) == [p \in Paths |-> Unknown]

\* ModificationGate::seed: what exists below the given paths.  A directory
\* given is read, not recorded itself.
Seed(paths) ==
  [p \in Paths |-> IF p \in Scope(paths) \ paths /\ Exists(p)
                   THEN mtime[p] ELSE Unknown]

WatchInit ==
  /\ clock \in 1..MaxClock /\ chatter \in 0..MaxChatter
  /\ \E new \in {{}, {"d", "x"}} :
       mtime = [p \in Paths |-> IF p \in new THEN 0 ELSE 1]
  /\ backend \in {"native", "poll"}
  /\ pc = "starting" /\ roots = StartRoots /\ swap = {} /\ held = {}
  /\ inotify = {} /\ kernel = {} /\ window = {} /\ rx = <<>>
  /\ previous = [p \in Paths |-> 0] /\ seeded = FALSE
  /\ lastSeen = Seed(StartRoots) /\ pending = FALSE
  /\ owed = {} /\ dirty = {} /\ spurious = {} /\ absorbed = FALSE

\* run_native registers every root recursively before on_ready; run_poll
\* only builds its scanner, the first scan comes after on_ready.
Ready ==
  /\ pc = "starting" /\ pc' = "idle"
  /\ inotify' = IF backend = "native"
                THEN {p \in Dirs \cap Scope(roots) : Exists(p)} ELSE {}
  /\ UNCHANGED <<fs, backend, kernel, window, rx, poll, roots, swap, held,
                 gate, ghosts>>

\* The shutdown flag is read before on_ready and at the head of the loop.
Stop ==
  /\ pc \in {"starting", "idle"} /\ pc' = "stopped"
  /\ UNCHANGED <<fs, backend, native, poll, roots, swap, held, gate, ghosts>>

(***************************************************************************)
(* The world: editors, and the kernel reporting what happens in a watched  *)
(* directory.                                                              *)
(***************************************************************************)
Tick == IF CoarseClock THEN {clock, clock + 1} ELSE {clock + 1}

\* Creating or deleting an entry also moves its directory's mtime.
Touch(p, value, entry) ==
  \E t \in Tick :
    /\ t <= MaxClock /\ clock' = t /\ UNCHANGED chatter
    /\ mtime' = [q \in Paths |-> IF q = p THEN (IF value THEN t ELSE 0)
                                 ELSE IF entry /\ q = Parent[p] THEN t
                                 ELSE mtime[q]]

Reported(p) == IF Parent[p] \in inotify THEN {p} ELSE {}

Live(f) == /\ pc \notin {"starting", "stopped"}
           /\ f \in Scope(roots)
           /\ backend = "native" => \E root \in roots \cap inotify : f \in Tree(root)

Write(f) ==
  /\ Exists(Parent[f])
  /\ Touch(f, TRUE, ~Exists(f))
  /\ kernel' = kernel \cup Reported(f)
  /\ owed' = IF Live(f) THEN owed \cup {f} ELSE owed
  /\ dirty' = dirty \cup {f}
  /\ UNCHANGED <<backend, inotify, window, rx, poll, loop, gate, spurious, absorbed>>

MakeDir(dir) ==
  /\ dir = "d" /\ ~Exists(dir)
  /\ Touch(dir, TRUE, TRUE)
  /\ kernel' = kernel \cup Reported(dir)
  /\ UNCHANGED <<backend, inotify, window, rx, poll, loop, gate, ghosts>>

Delete(f) ==
  /\ Exists(f)
  /\ Touch(f, FALSE, TRUE)
  /\ kernel' = kernel \cup Reported(f)
  /\ owed' = owed \ {f}
  /\ UNCHANGED <<backend, inotify, window, rx, poll, loop, gate, dirty, spurious, absorbed>>

\* Events without a write: a path the gate has met, or a directory.
Chatter(p) ==
  /\ backend = "native" /\ Exists(p) /\ p \notin window
  /\ \E root \in roots \cap inotify : p \in Tree(root)
  /\ p \in Dirs \/ lastSeen[p] # Unknown
  /\ chatter < MaxChatter /\ chatter' = chatter + 1
  /\ window' = window \cup {p}
  /\ UNCHANGED <<clock, mtime, backend, inotify, kernel, rx, poll, loop, gate, ghosts>>

\* notify reads an event; a new directory is watched only now.
NotifyReads(p) ==
  /\ p \in kernel /\ kernel' = kernel \ {p}
  /\ window' = window \cup {p}
  /\ inotify' = IF p \in Dirs /\ Exists(p) THEN inotify \cup {p} ELSE inotify
  /\ UNCHANGED <<fs, backend, rx, poll, loop, gate, ghosts>>

\* The debouncer ships what it holds; a path that keeps changing is shipped
\* as continuous and stays for a later window.
Deliver(paths, busy) ==
  /\ paths # {} /\ Len(rx) < MaxWindows
  /\ rx' = Append(rx, [any |-> paths \ busy, continuous |-> busy])
  /\ window' = (window \ paths) \cup busy
  /\ UNCHANGED <<fs, backend, inotify, kernel, poll, loop, gate, ghosts>>

(***************************************************************************)
(* Root swaps, published by the reload transaction.                        *)
(***************************************************************************)
RequestSwap ==
  /\ pc \in {"idle", "gate"} /\ swap = {}
  /\ \E rs \in Swaps : rs # roots /\ swap' = rs
  /\ UNCHANGED <<fs, backend, native, poll, pc, roots, held, gate, ghosts>>

\* apply_root_swap: the results of watch are ignored, so a root that cannot
\* be watched is still installed and acknowledged.  Paths below a removed
\* root are owed nothing more.
ApplySwapNative ==
  /\ backend = "native" /\ pc = "idle" /\ swap # {}
  /\ roots' = swap /\ swap' = {}
  /\ \E watched \in SUBSET (swap \ roots) :
       inotify' = (inotify \ Scope(roots \ swap))
                  \cup {p \in Dirs \cap Scope(watched) : Exists(p)}
  /\ owed' = owed \cap Scope(swap)
  /\ UNCHANGED <<fs, backend, kernel, window, rx, poll, pc, held, gate, dirty,
                 spurious, absorbed>>

\* run_poll: a fresh scanner, acknowledged before its first scan.
ApplySwapPoll ==
  /\ backend = "poll" /\ pc = "idle" /\ swap # {}
  /\ roots' = swap /\ swap' = {}
  /\ previous' = [p \in Paths |-> 0] /\ seeded' = FALSE
  /\ owed' = owed \cap Scope(swap)
  /\ UNCHANGED <<fs, backend, native, pc, held, gate, dirty, spurious, absorbed>>

(***************************************************************************)
(* Receiving a window, or scanning.                                        *)
(***************************************************************************)
\* Mutant: directory events are dropped without a walk.
DropDirectories(events) == (events.any \cup events.continuous) \ {p \in Dirs : Exists(p)}

\* reconcile_new_directories: existing directories are dropped, and the ones
\* that are neither continuous nor a root are walked for their files.
Reconcile(events) ==
  LET listed == events.any \cup events.continuous
      walked == {p \in (events.any \cap Dirs) \ roots : Exists(p)}
  IN  (listed \ {p \in Dirs : Exists(p)})
      \cup {f \in Files \cap Scope(walked) : Exists(f)}

Hold(events) ==
  /\ held' = events
  /\ pc' = IF events = {} THEN "idle" ELSE "gate"

Receive ==
  /\ backend = "native" /\ pc = "idle" /\ swap = {} /\ rx # <<>>
  /\ Hold(Reconcile(Head(rx)))
  /\ rx' = Tail(rx)
  /\ UNCHANGED <<fs, backend, inotify, kernel, window, poll, roots, swap, gate, ghosts>>

\* PollScanner::scan: files and directories alike.  The first scan of a
\* scanner reports nothing, so what was written before it is absorbed.
Scan ==
  LET now == [p \in Paths |-> IF p \in Scope(roots) THEN mtime[p] ELSE 0]
  IN  /\ backend = "poll" /\ pc = "idle" /\ swap = {}
      /\ Hold(IF seeded THEN {p \in Paths : previous[p] # now[p]} ELSE {})
      /\ previous' = now /\ seeded' = TRUE
      /\ absorbed' = (absorbed \/ (~seeded /\ owed # {}))
      /\ owed' = IF seeded THEN owed ELSE {}
      /\ UNCHANGED <<fs, backend, native, roots, swap, gate, dirty, spurious>>

(***************************************************************************)
(* The handler.                                                            *)
(***************************************************************************)
\* ModificationGate::changed: what exists with an mtime other than the one
\* recorded.
Changed(paths) == {p \in paths : Exists(p) /\ lastSeen[p] # mtime[p]}

\* What the changed paths of the batch schedule a run for.  Every path below
\* a root matches a change pattern such as src/**, directories included.
Scheduled == Changed(held) \ {"r", "s"}

\* on_batch, the gate, routing, on_batch_complete.  A batch the gate empties
\* returns before on_batch_complete.
Handle ==
  /\ pc = "gate" /\ pc' = "idle" /\ held' = {}
  /\ lastSeen' = [p \in Paths |-> IF p \in held THEN mtime[p] ELSE lastSeen[p]]
  /\ LET changed == Changed(held)
     IN  /\ pending' = (changed = {})
         /\ owed' = owed \ changed
         /\ spurious' = spurious \cup ((changed \cap Files) \ dirty)
  /\ dirty' = dirty \ held
  /\ UNCHANGED <<fs, backend, native, poll, roots, swap, absorbed>>

\* What happens after the loop has stopped is not followed.
WatchNext ==
  /\ pc # "stopped"
  /\ \/ Ready \/ Stop
     \/ \E f \in Files : Write(f) \/ Delete(f)
     \/ \E dir \in Dirs : MakeDir(dir)
     \/ \E p \in Paths : Chatter(p) \/ NotifyReads(p)
     \/ \E paths \in SUBSET window : \E busy \in SUBSET paths : Deliver(paths, busy)
     \/ RequestSwap \/ ApplySwapNative \/ ApplySwapPoll
     \/ Receive \/ Scan \/ Handle

WatchSpec == WatchInit /\ [][WatchNext]_vars

(***************************************************************************)
(* Properties                                                              *)
(***************************************************************************)
\* Nothing on its way from the file system to the handler.
Quiet ==
  /\ pc = "idle" /\ swap = {}
  /\ backend = "native" => kernel = {} /\ window = {} /\ rx = <<>>
  /\ backend = "poll" => seeded /\ \A p \in Scope(roots) : previous[p] = mtime[p]

\* Once events, windows and scans have drained, every file written under a
\* live root has been through the gate after its last write, whatever the
\* order of directory creation, kernel watch, debounce window, walk and gate:
\* reconcile_new_directories closes the registration race and the gate
\* records no mtime it did not let through.
WritesAreRouted == Quiet => owed = {}

\* The gate lets a file below the starting roots through only if it was
\* written since the gate last looked: neither redelivered paths, nor
\* directory walks that list old files, nor the polling baseline schedule
\* work nobody caused ("Chatter without a real write can never schedule work").
NoRunWithoutAWrite == spurious \cap Scope(StartRoots) = {}

(***************************************************************************)
(* Statements of the sources that do not hold; see the README.             *)
(***************************************************************************)
\* watcher.rs:223 "lose the first event", and watcher.rs:26 "no event-loss
\* gap": a write after on_ready, or around a root swap, is not absorbed by
\* the first scan of a polling scanner.
NothingIsAbsorbed == ~absorbed

\* watcher.rs:450 "The poll backend already emits file paths only": a batch
\* never schedules a run for directories alone.
RunsAreForFiles == pc = "gate" /\ Scheduled # {} => Scheduled \cap Files # {}

\* watch_loop.rs:87 "Called after the batch finished routing (scheduled or
\* explicit no-op)": between batches no batch is pending.
BatchesComplete == pc = "idle" => ~pending

\* watch_loop.rs:105 "a deletion routes once".
DeletionRoutes ==
  \A f \in held \cap Files :
    pc = "gate" /\ ~Exists(f) /\ lastSeen[f] \in 1..MaxClock => f \in Scheduled

\* watcher.rs:393 "returns only after the backend applies the new roots": an
\* installed root is watched.
InstalledRootsAreWatched ==
  backend = "native" /\ pc \in {"idle", "gate"} => roots \subseteq inotify

\* watch_loop.rs:118 "a pre-existing file may never route as a first
\* sighting": also below a root added by a reload.
OldFilesStayQuiet == spurious = {}
=============================================================================
