------------------------------- MODULE Outputs -------------------------------
(***************************************************************************)
(* The retained output of finished tasks (src/output.rs, and the           *)
(* output_retrieval handler of src/control.rs that serves it): recording   *)
(* with its byte accounting and eviction, the resolution of a task         *)
(* identifier, retrieval in pages that continue from a cursor, and the     *)
(* failure evidence of a generation.  A reader pages through a generation  *)
(* while tasks go on being recorded.                                       *)
(*                                                                         *)
(* A capture is a sequence of symbols: "c" a character, "n" a newline,     *)
(* "x" a byte that is no UTF-8 character.  A task identifier is a sequence *)
(* too, for prefixes and outer blanks matter.                              *)
(***************************************************************************)
EXTENDS Naturals, Sequences, FiniteSets, FiniteSetsExt, SequencesExt

CONSTANTS Ids,             \* the task identifiers, in string order
          Asked,           \* what a client may give for a task, "" excepted
          Generations,     \* generation numbers
          Captures,        \* what a task may have captured: [stdout, stderr]
          RetentionBytes,  \* OUTPUT_RETENTION_BYTES
          MaxRetained,     \* OUTPUT_MAX_GENERATIONS
          Budgets,         \* page sizes a client may ask for
          MaxRecords,      \* bound: tasks recorded
          MaxPages         \* bound: pages read

ASSUME OutputsAssumption ==
    /\ RetentionBytes \in Nat /\ MaxRetained \in Nat /\ MaxRecords \in Nat /\ MaxPages \in Nat
    /\ Budgets \subseteq Nat

VARIABLES reg,     \* OutputInner.generations, oldest first
          total,   \* OutputInner.total_bytes
          count,   \* tasks recorded so far
          reader   \* a client that pages through one generation

outputsVars == <<reg, total, count, reader>>

TaskIds == {Ids[i] : i \in DOMAIN Ids}
Streams == <<"stdout", "stderr">>

Bytes(out) == Len(out["stdout"]) + Len(out["stderr"])

NoCursor == [gen |-> 0, p |-> 1, stream |-> "stdout", off |-> 0]

Nobody == [gen |-> 0, want |-> <<>>, only |-> "both", budget |-> 0, at |-> NoCursor,
           got |-> <<>>, pages |-> 0, size |-> 0, state |-> "idle", settled |-> TRUE]

OutputsInit == reg = <<>> /\ total = 0 /\ count = 0 /\ reader = Nobody

-----------------------------------------------------------------------------
(* OutputRegistry::record.                                                 *)
Position(g) == {i \in DOMAIN reg : reg[i].gen = g}

Without(tasks, id) == SelectSeq(tasks, LAMBDA t : t.id # id)

OldBytes(entry, id) == LET old == SelectSeq(entry.tasks, LAMBDA t : t.id = id)
                       IN IF old = <<>> THEN 0 ELSE Bytes(old[1].out)

Added(entry, id, out) ==
    [entry EXCEPT !.tasks = Append(Without(@, id), [id |-> id, out |-> out]),
                  !.bytes = @ + Bytes(out) - OldBytes(entry, id)]

(* Eviction pops the oldest while over a bound: the longest suffix within  *)
(* both bounds is what stays.                                              *)
SumBytes(s) == MapThenSumSet(LAMBDA i : s[i].bytes, DOMAIN s)

FitsFrom(s, t, i) ==
    /\ t - SumBytes(SubSeq(s, 1, i)) <= RetentionBytes
    /\ Len(s) - i <= MaxRetained

Evicted(s, t) == Min({i \in 0..Len(s) : FitsFrom(s, t, i)})

Recorded(g, id, out) ==
    IF Position(g) = {}
    THEN [reg |-> Append(reg, [gen |-> g, tasks |-> <<[id |-> id, out |-> out]>>,
                               bytes |-> Bytes(out)]),
          total |-> total + Bytes(out)]
    ELSE LET i == CHOOSE p \in Position(g) : TRUE
         IN [reg |-> [reg EXCEPT ![i] = Added(@, id, out)],
             total |-> total + Bytes(out) - OldBytes(reg[i], id)]

Record(g, id, out) ==
    /\ count < MaxRecords
    /\ LET r == Recorded(g, id, out)
           k == Evicted(r.reg, r.total)
       IN /\ reg' = SubSeq(r.reg, k + 1, Len(r.reg))
          /\ total' = r.total - SumBytes(SubSeq(r.reg, 1, k))
    /\ count' = count + 1
    /\ reader' = [reader EXCEPT !.settled = @ /\ g # reader.gen]

-----------------------------------------------------------------------------
(* The tasks a request names, once its outer blanks are gone: the exact    *)
(* one, else the only one it is a prefix of, else none; all of them when   *)
(* it names none.                                                          *)
Blank == 0

Trim(name) ==
    LET ink == {i \in DOMAIN name : name[i] # Blank}
    IN IF ink = {} THEN <<>> ELSE SubSeq(name, Min(ink), Max(ink))

IdsOf(entry) == {entry.tasks[i].id : i \in DOMAIN entry.tasks}

PrefixOnly(entry, wanted) ==
    LET canonical == {id \in IdsOf(entry) : IsPrefix(wanted, id)}
    IN IF Cardinality(canonical) = 1 THEN canonical ELSE {}

Resolved(entry, wanted) ==
    IF wanted \in IdsOf(entry) THEN {wanted} ELSE PrefixOnly(entry, wanted)

Selected(entry, wanted) ==
    IF Trim(wanted) = <<>> THEN IdsOf(entry) ELSE Resolved(entry, Trim(wanted))

OutputOf(entry, id) ==
    (CHOOSE t \in {entry.tasks[i] : i \in DOMAIN entry.tasks} : t.id = id).out

(* The page plan: tasks in the order of their identifiers, stdout first.   *)
Plan(entry, wanted, only) ==
    LET chosen == SelectSeq(Ids, LAMBDA id : id \in Selected(entry, wanted))
        both == [p \in 1..(2 * Len(chosen)) |->
                   [id |-> chosen[(p + 1) \div 2], stream |-> Streams[2 - (p % 2)]]]
    IN SelectSeq(both, LAMBDA q : only = "both" \/ q.stream = only)

(* Sizes.  A byte that is no character is shown as one of three bytes, and *)
(* a newline is escaped as two.                                            *)
LossyLen(c) == IF c = "x" THEN 3 ELSE 1
JsonLen(c) == IF c = "x" THEN 3 ELSE IF c = "n" THEN 2 ELSE 1

TextLen(s) == MapThenSumSet(LAMBDA i : LossyLen(s[i]), DOMAIN s)
ContentSize(s) == MapThenSumSet(LAMBDA i : JsonLen(s[i]), DOMAIN s)

TaskSize == 1      \* what a task adds to the document besides its content
GuessedCursor == 1 \* the placeholder measured in place of the cursor
CursorSize == 2    \* what a cursor really takes

(* Pieces of a page: plan position and content.                            *)
SizeOf(pieces) ==
    LET tasks == {pieces[i].id : i \in DOMAIN pieces}
    IN TaskSize * Cardinality(tasks) + MapThenSumSet(LAMBDA i : ContentSize(pieces[i].text),
                                                     DOMAIN pieces)

(* Mutant: the cursor that is sent is measured, not the placeholder.       *)
MeasuredWithCursor(pieces) == SizeOf(pieces) + CursorSize

Measured(pieces) == SizeOf(pieces) + GuessedCursor

(* Mutant: the offset of the cursor is taken in every position.            *)
RestFromOffset(entry, plan, c, p) ==
    LET raw == OutputOf(entry, plan[p].id)[plan[p].stream]
    IN SubSeq(raw, c.off + 1, Len(raw))

(* What is left of plan position p when the page starts at cursor c.       *)
Rest(entry, plan, c, p) ==
    LET raw == OutputOf(entry, plan[p].id)[plan[p].stream]
    IN SubSeq(raw, (IF p = c.p THEN c.off ELSE 0) + 1, Len(raw))

Piece(q, text) == [id |-> q.id, stream |-> q.stream, text |-> text]

(* Every position from the cursor's to p, whole.                           *)
Whole(entry, plan, c, p) ==
    SelectSeq([i \in 1..(p + 1 - c.p) |->
                  Piece(plan[c.p + i - 1], Rest(entry, plan, c, c.p + i - 1))],
              LAMBDA piece : piece.text # <<>>)

NextOffset(begin, kept) == begin + TextLen(kept)

(* retrieve_page's walk: whole positions while the document fits, then as  *)
(* many characters of the next one as fit, then a cursor to the rest.      *)
Page(entry, plan, c, budget) ==
    LET last == Max({c.p - 1} \cup
                    {p \in c.p..Len(plan) : Measured(Whole(entry, plan, c, p)) <= budget})
        whole == Whole(entry, plan, c, last)
        cut == last + 1
        text == Rest(entry, plan, c, cut)
        With(k) == Append(whole, Piece(plan[cut], SubSeq(text, 1, k)))
        keep == Max({0} \cup {k \in 1..Len(text) : Measured(With(k)) <= budget})
    IN IF last = Len(plan) THEN [pieces |-> whole, next |-> NoCursor]
       ELSE [pieces |-> IF keep > 0 THEN With(keep) ELSE whole,
             next |-> [gen |-> entry.gen, p |-> cut, stream |-> plan[cut].stream,
                       off |-> NextOffset(IF cut = c.p THEN c.off ELSE 0,
                                          SubSeq(text, 1, keep))]]

(* A cursor must be of this generation and point into this plan.           *)
Accepted(entry, plan, c) ==
    \/ c = NoCursor
    \/ /\ c.gen = entry.gen /\ c.p \in DOMAIN plan /\ c.stream = plan[c.p].stream
       /\ c.off <= Len(OutputOf(entry, plan[c.p].id)[c.stream])

Start(g, want, only, budget) ==
    /\ reader.state = "idle"
    /\ reader' = [Nobody EXCEPT !.gen = g, !.want = want, !.only = only, !.budget = budget,
                                !.state = "paging"]
    /\ UNCHANGED <<reg, total, count>>

(* output_retrieval in page mode: an unknown generation, a task that is    *)
(* not resolved and a cursor that is not accepted are typed errors.        *)
ReadPage ==
    /\ reader.state = "paging" /\ reader.pages < MaxPages
    /\ IF Position(reader.gen) = {}
       THEN reader' = [reader EXCEPT !.state = "refused"]
       ELSE LET entry == reg[CHOOSE i \in Position(reader.gen) : TRUE]
                plan == Plan(entry, reader.want, reader.only)
                page == Page(entry, plan, reader.at, reader.budget)
            IN IF plan = <<>> \/ ~Accepted(entry, plan, reader.at)
               THEN reader' = [reader EXCEPT !.state = "refused"]
               ELSE reader' = [reader EXCEPT !.got = @ \o page.pieces, !.at = page.next,
                        !.pages = @ + 1,
                        !.size = SizeOf(page.pieces)
                                   + (IF page.next = NoCursor THEN 0 ELSE CursorSize),
                        !.state = IF page.next = NoCursor THEN "done"
                                  ELSE IF page.next = reader.at THEN "stuck" ELSE "paging"]
    /\ UNCHANGED <<reg, total, count>>

(* failure_evidence: of the first retained task that failed, else of the   *)
(* first retained task, its leading lines and a reference to its output.   *)
Lines(s) == {i \in DOMAIN s : i = 1 \/ s[i - 1] = "n"}

Leading(s, n) ==
    LET starts == {i \in Lines(s) : Cardinality({j \in Lines(s) : j <= i}) > n}
    IN IF starts = {} THEN s ELSE SubSeq(s, 1, Min(starts) - 1)

Evidence(entry, failed, lines) ==
    LET mine == {i \in DOMAIN entry.tasks : entry.tasks[i].id \in failed}
        first == entry.tasks[IF mine = {} THEN 1 ELSE Min(mine)]
    IN [task |-> first.id,
        excerpt |-> Leading(first.out["stdout"] \o first.out["stderr"], lines),
        ref |-> Bytes(first.out) > 0,
        more |-> Len(entry.tasks) - 1]

OutputsNext ==
    \/ \E g \in Generations, id \in TaskIds, out \in Captures : Record(g, id, out)
    \/ \E g \in Generations, want \in Asked \cup {<<>>}, budget \in Budgets,
          only \in {"both", "stdout", "stderr"} : Start(g, want, only, budget)
    \/ ReadPage

OutputsSpec == OutputsInit /\ [][OutputsNext]_outputsVars

-----------------------------------------------------------------------------
(* The byte counts are exact, replaced tasks and evicted generations       *)
(* included, and both bounds hold, so that retention never drifts and the  *)
(* subtractions never underflow (src/output.rs:116, record).               *)
AccountingIsExact ==
    /\ \A i \in DOMAIN reg :
          reg[i].bytes = MapThenSumSet(LAMBDA j : Bytes(reg[i].tasks[j].out), DOMAIN reg[i].tasks)
    /\ total = SumBytes(reg) /\ total <= RetentionBytes
    /\ Len(reg) <= MaxRetained
    /\ \A i, j \in DOMAIN reg : reg[i].gen = reg[j].gen => i = j

(* What the pages of a completed retrieval contain, put together.          *)
Collected(id, stream) ==
    LET mine == SelectSeq(reader.got, LAMBDA q : q.id = id /\ q.stream = stream)
    IN FlattenSeq([i \in DOMAIN mine |-> mine[i].text])

Covered(entry) ==
    \A p \in TaskIds \X {"stdout", "stderr"} :
       Collected(p[1], p[2]) =
          IF p[1] \in Selected(entry, reader.want) /\ reader.only \in {"both", p[2]}
          THEN OutputOf(entry, p[1])[p[2]] ELSE <<>>

IsText(entry) == \A i \in DOMAIN entry.tasks : \A s \in {"stdout", "stderr"} :
                    "x" \notin ToSet(entry.tasks[i].out[s])

(* A client that follows the cursors of an unchanging generation to the    *)
(* last page has received every retained character of what it asked for,   *)
(* in order and once, whatever page size it chose and however much         *)
(* escaping enlarges the text (src/output.rs:306, retrieve_page).          *)
PagesCoverOutput ==
    reader.state = "done" /\ reader.settled =>
       \A i \in Position(reader.gen) : IsText(reg[i]) => Covered(reg[i])

(* Retained output is whole: counted to the byte, and returned to the last *)
(* character.                                                              *)
OutputIsWhole == AccountingIsExact /\ PagesCoverOutput

(* A page that has room for one character of one task.                     *)
OneCharacter == TaskSize + GuessedCursor + JsonLen("n")

AskedLength(entry, plan) ==
    MapThenSumSet(LAMBDA p : Len(OutputOf(entry, plan[p].id)[plan[p].stream]), DOMAIN plan)

(* A client that asks for retained output of an unchanging generation is   *)
(* served to the end: the registry accepts every cursor it has issued, and *)
(* a page with room for a character brings at least one, so that no more   *)
(* pages are needed than there are characters (src/output.rs:306,          *)
(* retrieve_page).                                                         *)
RetrievalCompletes ==
    reader.settled /\ reader.budget >= OneCharacter =>
       \A i \in Position(reader.gen) :
          LET plan == Plan(reg[i], reader.want, reader.only)
          IN IsText(reg[i]) /\ plan # <<>> =>
                /\ reader.state \notin {"refused", "stuck"}
                /\ reader.pages <= Max({1, AskedLength(reg[i], plan)})

(***************************************************************************)
(* What the source says and the code does not do.                          *)
(***************************************************************************)
(* src/output.rs:304: "stale or tampered cursors yield InvalidCursor".  A  *)
(* task recorded between two pages shifts the plan under the cursor, which *)
(* is accepted and skips or repeats output.                                *)
StaleCursorIsRefused ==
    reader.state = "done" =>
       \A i \in Position(reader.gen) : IsText(reg[i]) => Covered(reg[i])

(* The same, for output that is not UTF-8: the cursor counts the bytes of  *)
(* the replacement characters.                                             *)
PagesCoverEveryByte ==
    reader.state = "done" /\ reader.settled => \A i \in Position(reader.gen) : Covered(reg[i])

(* src/output.rs:300: one budget per page "so whole-generation retrieval   *)
(* can never exceed" the limit; the cursor measured is a placeholder       *)
(* shorter than the one sent.                                              *)
PageFitsBudget == reader.pages > 0 => reader.size <= Max({reader.budget, CursorSize})

(* A page size too small for one character gives the same cursor for ever. *)
PagingProgresses == reader.state # "stuck"

(* src/output.rs:573: the evidence has "the exact retrieval command".  The *)
(* name in it is trimmed when it is asked for: the evidence of a task      *)
(* whose name ends in a blank names another task, or none.                 *)
EvidenceIsRetrievable ==
    \A i \in DOMAIN reg : \A failed \in SUBSET TaskIds :
       LET e == Evidence(reg[i], failed, 1)
       IN e.ref => Selected(reg[i], e.task) = {e.task}

(* src/output.rs:35 calls the evidence a "tail"; it is the first lines.    *)
EvidenceIsTheTail ==
    \A i \in DOMAIN reg : LET e == Evidence(reg[i], TaskIds, 1)
                              o == OutputOf(reg[i], e.task)
                          IN IsSuffix(e.excerpt, o["stdout"] \o o["stderr"])

(* src/output.rs:856: "Number of additional failed tasks beyond the named  *)
(* primary"; it counts every other retained task, the passed ones too.     *)
AdditionalAreFailed ==
    \A i \in DOMAIN reg : \A failed \in SUBSET TaskIds :
       Evidence(reg[i], failed, 1).more <= Cardinality(failed)
=============================================================================
