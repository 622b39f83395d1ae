------------------------------ MODULE Durations ------------------------------
(***************************************************************************)
(* The history of run durations (src/duration_recorder.rs,                 *)
(* src/duration_history.rs, src/duration_store.rs): the recorder turns the *)
(* events of target runs into samples and saves them after each; the store *)
(* writes a temporary file and renames it over the state file.  A watcher  *)
(* may crash at any point of a save and be started again, and two watchers *)
(* of one workspace share both files.                                      *)
(*                                                                         *)
(* A file holds the history written to it, or Torn while it is only partly *)
(* written, and knows the watcher that has it open, so that a rename or a  *)
(* removal under a writer leaves it writing to a file with another name or *)
(* with none.  The duration of a run is told by its number.                *)
(***************************************************************************)
EXTENDS Naturals, Sequences, FiniteSets, SequencesExt

CONSTANTS Writers,         \* the watchers that save
          Signatures,      \* execution signatures of targets
          Retention,       \* SUCCESS_RETENTION
          MaxProfiles,     \* MAX_PROFILES
          MaxAssociations, \* MAX_ASSOCIATIONS
          MaxRuns,         \* bound: runs of a watcher's first start, one fewer of each later
          MaxStarts        \* bound: starts of each watcher

ASSUME DurationsAssumption ==
    {Retention, MaxProfiles, MaxAssociations, MaxRuns, MaxStarts} \subseteq Nat \ {0}

VARIABLES life,     \* life[w]: starts and crashes of w; odd while it is up
          hist,     \* hist[w]: its DurationHistory
          assoc,    \* assoc[w]: runs in flight and their signatures
          nextRun,  \* nextRun[w]: runs started since it was
          save,     \* save[w]: the system call its save makes next, or "idle"
          file,     \* the state file
          temp,     \* the temporary file
          ghost     \* ghost[w]: what it was started with, which runs passed

durationsVars == <<life, hist, assoc, nextRun, save, file, temp, ghost>>

EmptyProfile == [ok |-> <<>>, bad |-> <<>>, excluded |-> 0]
EmptyHistory == [s \in Signatures |-> EmptyProfile]
Torn == <<"torn">>
Complete(h) == <<"whole", h>>
NoFile == [content |-> <<>>, by |-> "nobody"]
Fresh(h) == [base |-> h, passes |-> <<>>, ended |-> {}, evicted |-> {}, streak |-> 0]

Up(w) == life[w] % 2 = 1

DurationsInit ==
    /\ life = [w \in Writers |-> 0]
    /\ hist = [w \in Writers |-> EmptyHistory]
    /\ assoc = [w \in Writers |-> <<>>]
    /\ nextRun = [w \in Writers |-> 1]
    /\ save = [w \in Writers |-> "idle"]
    /\ file = NoFile /\ temp = NoFile
    /\ ghost = [w \in Writers |-> Fresh(EmptyHistory)]

-----------------------------------------------------------------------------
(* DurationHistory: samples are bounded and the oldest leave first;        *)
(* failures and excluded outcomes never reach the success samples.         *)
Pushed(s, ms) == LET t == Append(s, ms)
                 IN IF Len(t) > Retention THEN Tail(t) ELSE t

RecordSuccess(h, s, ms) == [h EXCEPT ![s].ok = Pushed(@, ms)]
RecordFailure(h, s, ms) == [h EXCEPT ![s].bad = Pushed(@, ms)]
RecordExcluded(h, s) == [h EXCEPT ![s].excluded = @ + 1]

Profiles(h) == {s \in Signatures : h[s] # EmptyProfile}

(* DurationStore::load and from_snapshot: what cannot be used is moved     *)
(* aside and the history starts empty.                                     *)
Usable(c) == /\ Len(c) = 2
             /\ Cardinality(Profiles(c[2])) <= MaxProfiles
             /\ \A s \in Signatures : {Len(c[2][s].ok), Len(c[2][s].bad)} \subseteq 0..Retention

Load == IF Usable(file.content) THEN file.content[2] ELSE EmptyHistory

Quarantined == IF Usable(file.content) THEN file ELSE NoFile

StartWatcher(w) ==
    /\ ~Up(w) /\ life[w] < 2 * MaxStarts - 1
    /\ life' = [life EXCEPT ![w] = @ + 1]
    /\ hist' = [hist EXCEPT ![w] = Load]
    /\ file' = Quarantined
    /\ assoc' = [assoc EXCEPT ![w] = <<>>]
    /\ nextRun' = [nextRun EXCEPT ![w] = 1]
    /\ ghost' = [ghost EXCEPT ![w] = Fresh(Load)]
    /\ UNCHANGED <<save, temp>>

Closed(f, w) == IF f.by = w THEN [f EXCEPT !.by = "nobody"] ELSE f

CrashWatcher(w) ==
    /\ Up(w)
    /\ life' = [life EXCEPT ![w] = @ + 1]
    /\ save' = [save EXCEPT ![w] = "idle"]
    /\ file' = Closed(file, w) /\ temp' = Closed(temp, w)
    /\ UNCHANGED <<hist, assoc, nextRun, ghost>>

-----------------------------------------------------------------------------
(* DurationRecorder::observe.  Started remembers the run's signature, the  *)
(* oldest association making room for it.                                  *)
RunStarted(w, s) ==
    /\ Up(w) /\ save[w] = "idle" /\ nextRun[w] + life[w] \div 2 <= MaxRuns
    /\ LET full == Len(assoc[w]) >= MaxAssociations IN
       /\ assoc' = [assoc EXCEPT ![w] =
             Append(IF full THEN Tail(@) ELSE @, [run |-> nextRun[w], sig |-> s])]
       /\ ghost' = IF full
                   THEN [ghost EXCEPT ![w].evicted = @ \union {Head(assoc[w]).run}]
                   ELSE ghost
    /\ nextRun' = [nextRun EXCEPT ![w] = @ + 1]
    /\ UNCHANGED <<life, hist, save, file, temp>>

InFlight(w, r) == \E i \in DOMAIN assoc[w] : assoc[w][i].run = r

SignatureOf(w, r) ==
    assoc[w][CHOOSE i \in DOMAIN assoc[w] : assoc[w][i].run = r].sig

(* A bug: the association outlives the run's terminal event.               *)
KeptAssociation(w, r) == assoc[w]

Removed(w, r) == SelectSeq(assoc[w], LAMBDA a : a.run # r)

(* What an outcome records: superseded runs are neither passed nor failed. *)
Counted(h, s, how, ms) ==
    CASE how = "passed" -> RecordSuccess(h, s, ms)
      [] how = "failed" -> RecordFailure(h, s, ms)
      [] how = "excluded" -> RecordExcluded(h, s)

(* Finished and Cancelled: the run's association is taken, so a second     *)
(* terminal event of the run does nothing; recording ends with a save.     *)
RunEnded(w, r, how) ==
    /\ Up(w) /\ save[w] = "idle" /\ InFlight(w, r)
    /\ hist' = [hist EXCEPT ![w] = Counted(@, SignatureOf(w, r), how, r)]
    /\ assoc' = [assoc EXCEPT ![w] = Removed(w, r)]
    /\ save' = [save EXCEPT ![w] =
          IF Cardinality(Profiles(hist'[w])) > MaxProfiles THEN "idle" ELSE "open"]
    /\ ghost' = [ghost EXCEPT
          ![w].passes = IF how = "passed" /\ r \notin ghost[w].ended
                        THEN Append(@, [sig |-> SignatureOf(w, r), run |-> r])
                        ELSE @,
          ![w].ended = @ \union {r},
          ![w].streak = @ + 1]
    /\ UNCHANGED <<life, nextRun, file, temp>>

-----------------------------------------------------------------------------
(* DurationStore::save, a system call a step.  The temporary file is       *)
(* created exclusively; a failure on the way removes whatever has its name.*)
Fails(w) == temp' = NoFile /\ save' = [save EXCEPT ![w] = "idle"] /\ UNCHANGED file

OpenTemp(w) ==
    /\ Up(w) /\ save[w] = "open"
    /\ IF temp # NoFile THEN Fails(w)
       ELSE /\ temp' = [content |-> Torn, by |-> w]
            /\ save' = [save EXCEPT ![w] = "write"]
            /\ UNCHANGED file
    /\ UNCHANGED <<life, hist, assoc, nextRun, ghost>>

Written(f, w) == IF f.by = w THEN [content |-> Complete(hist[w]), by |-> "nobody"] ELSE f

WriteTemp(w) ==
    /\ Up(w) /\ save[w] = "write"
    /\ \/ /\ temp' = Written(temp, w) /\ file' = Written(file, w)
          /\ save' = [save EXCEPT ![w] = "rename"]
          /\ UNCHANGED ghost
       \/ Fails(w) /\ ghost' = [ghost EXCEPT ![w].streak = 0]
    /\ UNCHANGED <<life, hist, assoc, nextRun>>

RenameTemp(w) ==
    /\ Up(w) /\ save[w] = "rename"
    /\ IF temp = NoFile THEN Fails(w)
       ELSE /\ file' = temp /\ temp' = NoFile
            /\ save' = [save EXCEPT ![w] = "idle"]
    /\ UNCHANGED <<life, hist, assoc, nextRun, ghost>>

DurationsNext ==
    \E w \in Writers :
      \/ StartWatcher(w)
      \/ CrashWatcher(w)
      \/ \E s \in Signatures : RunStarted(w, s)
      \/ \E r \in 1..MaxRuns, how \in {"passed", "failed", "excluded"} :
            RunEnded(w, r, how)
      \/ OpenTemp(w)
      \/ WriteTemp(w)
      \/ RenameTemp(w)

DurationsSpec == DurationsInit /\ [][DurationsNext]_durationsVars
-----------------------------------------------------------------------------
LastOf(s, n) == SubSeq(s, IF Len(s) > n THEN Len(s) - n + 1 ELSE 1, Len(s))

(* The success samples of a signature are the last ones of those the       *)
(* watcher was started with and of the runs that passed since, each once   *)
(* and in order, however runs overlap and however often a terminal event   *)
(* is repeated (DurationRecorder::observe).                                *)
SamplesAreFaithful ==
    \A w \in Writers, s \in Signatures : Up(w) =>
      LET counted == SelectSeq(ghost[w].passes, LAMBDA p :
                                  p.sig = s /\ p.run \notin ghost[w].evicted)
          samples == [i \in DOMAIN counted |-> counted[i].run]
      IN hist[w][s].ok = LastOf(ghost[w].base[s].ok \o samples, Retention)

(* With one watcher, the state file is whole at every moment, whenever it  *)
(* crashed, and after a crash at most one save is lost: at the second      *)
(* recording the file holds the watcher's history again (a temporary file  *)
(* the crash left behind fails one save, which removes it).                *)
FileIsWhole ==
    /\ file.content # Torn
    /\ \A w \in Writers :
         Up(w) /\ save[w] = "idle" /\ ghost[w].streak >= 2
               /\ Cardinality(Profiles(hist[w])) <= MaxProfiles
         => file.content = Complete(hist[w])

(* The history in memory and the one on disk are those of the runs.        *)
HistoryIsFaithful == SamplesAreFaithful /\ FileIsWhole

(* DurationStore::save: "concurrent writers are not supported and would    *)
(* resolve to last-rename-wins without silent JSON corruption".            *)
NoSilentCorruption == file.content # Torn
=============================================================================
