--------------------------- MODULE ExecutorLemmas ---------------------------
(***************************************************************************)
(* The inductive invariant of Executor, what its helpers return, what a    *)
(* step that leaves a piece of the state alone keeps, and the steps that   *)
(* fill slots, poll, and recover a job.                                    *)
(***************************************************************************)
EXTENDS Executor, WellFoundedInduction, TLAPS

(***************************************************************************)
(* The inductive invariant.                                                *)
(***************************************************************************)

Recovering == {"resolve", "approval", "approved", "recover", "pause"}
Closing == {"finish", "hook"} \cup Ended

RestOf(plan, done) == IF done THEN << >> ELSE plan.extra
AheadOf(plan, list, done) == list \o RestOf(plan, done)

Ahead == AheadOf(run, stages, appended)
Current == Range(active) \cup Range(queued) \cup pending
Held == Current \cup Range(services)

(* The jobs of a list of stages come stage by stage, each once.            *)
InTurn(plan, list) ==
    \A i, k \in DOMAIN list : \A m \in DOMAIN list[i].jobs, n \in DOMAIN list[k].jobs :
        /\ i < k => StageIn(plan, list[i].jobs[m]) < StageIn(plan, list[k].jobs[n])
        /\ i = k => StageIn(plan, list[i].jobs[m]) = StageIn(plan, list[k].jobs[n])
        /\ i = k /\ list[i].jobs[m] = list[k].jobs[n] => m = n
        /\ StageIn(plan, list[i].jobs[m]) \in Nat

TypeInv == TypeOK /\ cursor > 0

(* The type invariant by groups of variables.                              *)
ModesTyped == run \in Plans /\ token \in BOOLEAN /\ limit \in Limits /\ appended \in BOOLEAN
ControlTyped ==
    /\ at \in {"idle", "loop", "poll", "services", "keep", "resolve", "approval", "approved",
               "recover", "pause", "finish", "hook"} \cup Ended
    /\ cursor \in Nat \ {0} /\ freed \in BOOLEAN /\ back \in {"loop", "finish"}
    /\ phase \in {"recovery", "verification"}
PlacesTyped ==
    /\ stages \in Seq(Stage) /\ queued \in Seq(Jobs) /\ active \in Seq(Jobs)
    /\ services \in Seq(Jobs) /\ pending \subseteq Jobs /\ stageLimit \in Nat
TasksTyped == job \in [Jobs -> Task]
ReportsTyped ==
    /\ errors \in BOOLEAN
    /\ terminal \in [Jobs -> Seq(Outcomes)] /\ outcome \in [Jobs -> Seq(Outcomes)]
    /\ hook \in {"none", "success", "failure"}

(* A job is in one place: a slot, the queue, pending or the background.    *)
PlacesApart ==
    /\ IsInjective(active) /\ IsInjective(queued) /\ IsInjective(services)
    /\ Range(active) \cap Range(queued) = {} /\ Range(active) \cap pending = {}
    /\ Range(queued) \cap pending = {}
    /\ Range(services) \cap Current = {}

(* What is to come is the rest of the plan, and what is held is of one     *)
(* stage, before all of it; a service may be of an earlier one.            *)
StagesInTurn ==
    /\ InTurn(run, Ahead)
    /\ \A i \in Held : StageIn(run, i) \in Nat
    /\ \A i \in Held, j \in JobsOf(Ahead) : StageIn(run, i) < StageIn(run, j)
    /\ \A i, j \in Current : StageIn(run, i) = StageIn(run, j)
    /\ \A i \in Range(services), j \in Current : StageIn(run, i) <= StageIn(run, j)

(* A job that is held or to come has no verdict yet.                       *)
OpenIsUnreported ==
    \A j \in Held \cup JobsOf(Ahead) : terminal[j] = << >> /\ outcome[j] = << >>

(* A planned job in no place has its verdict.                              *)
NoneIsForgotten ==
    /\ at \notin Ended =>
        \A j \in Planned : j \in Held \cup JobsOf(stages) \/ outcome[j] # << >>
    /\ at = "finished" => \A j \in Planned \cap Finite : outcome[j] # << >>
    /\ at = "cancelled" =>
        \A j \in Planned : terminal[j] # << >> \/ outcome[j] = << "Cancelled" >>

(* What clients are told of a job is its outcome.  A service retired by a  *)
(* reload is told nothing, and a cancelled run has no outcome.             *)
ReportOf(j) ==
    \/ terminal[j] = << >> /\ outcome[j] = << >>
    \/ \E r \in Outcomes : terminal[j] = << WireState(r) >> /\ outcome[j] = << r >>
    \/ terminal[j] = << >> /\ outcome[j] = << "Cancelled" >> /\ j \in run.services
    \/ at = "cancelled" /\ terminal[j] = << "Cancelled" >> /\ outcome[j] = << >>

ReportsAgree == \A j \in Jobs : ReportOf(j)

(* Which places are empty at each position inside advance.                 *)
ControlHolds ==
    /\ at \in Recovering => StageIsOver /\ pending # {}
    /\ at \in Recovering /\ back = "finish" => stages = << >> /\ run.failFast
    /\ at \in Closing \cup {"keep"} => StageIsOver /\ pending = {} /\ stages = << >>
    /\ AtTop /\ StageIsOver => pending = {}
    /\ at \in {"finish", "hook"} /\ services # << >> => run.failFast
    /\ at \in Ended => services = << >>
    /\ hook # "none" => at \in {"hook", "finished"}

(* The slots of a stage.                                                   *)
SlotsHold ==
    /\ Len(active) <= stageLimit
    /\ run.sequential => stageLimit <= 1
    /\ pending # {} => stageLimit >= 1

(* Who may have a child.                                                   *)
ChildrenAreOwned ==
    \A j \in Jobs : job[j].child =>
        \/ j \in Range(active) \cup Range(services)
        \/ at \in {"recover", "pause"} /\ j = Min(pending)

(* Services are in the background only, a failure is deferred by jobs with *)
(* a recovery only, and what has not started has not failed.               *)
TasksHold ==
    /\ Range(services) \subseteq run.services /\ pending \cap run.services = {}
    /\ \A j \in Jobs : job[j].recovery => run.recovery[j] > 0
    /\ \A j \in Jobs : job[j].defer = job[j].recovery
    /\ \A j \in Range(services) : job[j].child \/ job[j].left > 0
    /\ \A j \in Range(queued) \cup JobsOf(Ahead) : ~job[j].failed
    /\ run.failFast => \A j \in Range(active) : ~job[j].failed

(* A failure that no verdict tells of yet and no recovery can undo.        *)
Unforgiven(j) == job[j].failed /\ (j \in run.services \/ (j \in Range(active) /\ ~job[j].defer))

(* The error flag is the failures reported or about to be.                 *)
ErrorsHold ==
    /\ errors /\ at # "cancelled" =>
        \E j \in Jobs : outcome[j] = << "Failed" >> \/ Unforgiven(j)
    /\ \A j \in Jobs : outcome[j] = << "Failed" >> \/ Unforgiven(j) => errors

IInv ==
    /\ TypeInv /\ PlacesApart /\ StagesInTurn /\ OpenIsUnreported /\ NoneIsForgotten
    /\ ReportsAgree /\ ControlHolds /\ SlotsHold /\ ChildrenAreOwned /\ TasksHold
    /\ ErrorsHold /\ SuccessMeansAllPassed

-----------------------------------------------------------------------------
(* Sequences, stages and minima.                                           *)

(* What is left of a list once an element is taken out.                    *)
LEMMA WithoutIs ==
    ASSUME NEW S, NEW s \in Seq(S), NEW p \in 1 .. Len(s), IsInjective(s)
    PROVE  /\ Without(s, p) \in Seq(S)
           /\ Len(Without(s, p)) = Len(s) - 1
           /\ Range(Without(s, p)) = Range(s) \ {s[p]}
           /\ IsInjective(Without(s, p))
<1> DEFINE r == Without(s, p)
<1>1. r \in Seq(S) /\ Len(r) = Len(s) - 1 /\ DOMAIN r = 1 .. (Len(s) - 1)
    BY DEF Without
<1>2. \A i \in 1 .. (Len(s) - 1) : r[i] = IF i < p THEN s[i] ELSE s[i + 1]
    BY Zenon DEF Without
<1> HIDE DEF r
<1>3. ASSUME NEW x \in Range(r) PROVE x \in Range(s) \ {s[p]}
    <2>1. PICK i \in 1 .. (Len(s) - 1) : x = r[i]
        BY <1>1, <1>3, Zenon DEF Range
    <2>2. x = IF i < p THEN s[i] ELSE s[i + 1]
        BY <1>2, <2>1, Zenon
    <2>3. QED
        BY <2>2 DEF Range, IsInjective
<1>4. ASSUME NEW x \in Range(s), x # s[p] PROVE x \in Range(r)
    <2>1. PICK i \in 1 .. Len(s) : x = s[i]
        BY DEF Range
    <2>2. CASE i < p
        <3>1. i \in 1 .. (Len(s) - 1) /\ r[i] = x
            BY <1>2, <2>1, <2>2
        <3>2. QED
            BY <1>1, <3>1, Zenon DEF Range
    <2>3. CASE i > p
        <3>1. i - 1 \in 1 .. (Len(s) - 1) /\ ~(i - 1 < p) /\ (i - 1) + 1 = i
            BY <2>3
        <3>2. r[i - 1] = x
            BY <1>2, <2>1, <3>1, Zenon
        <3>3. QED
            BY <1>1, <3>1, <3>2, Zenon DEF Range
    <2>4. QED
        BY <1>4, <2>1, <2>2, <2>3
<1>5. IsInjective(r)
    <2> SUFFICES ASSUME NEW i \in 1 .. (Len(s) - 1), NEW k \in 1 .. (Len(s) - 1), r[i] = r[k]
                 PROVE i = k
        BY <1>1, Zenon DEF IsInjective
    <2>1. \A m, n \in 1 .. Len(s) : s[m] = s[n] => m = n
        BY DEF IsInjective
    <2>2. i + 1 \in 1 .. Len(s) /\ k + 1 \in 1 .. Len(s) /\ i \in 1 .. Len(s) /\ k \in 1 .. Len(s)
        OBVIOUS
    <2>3. QED
        BY <1>2, <2>1, <2>2
<1>6. QED
    BY <1>1, <1>3, <1>4, <1>5, Zenon DEF r

(* What is left once an element is added at the end.                       *)
LEMMA AppendIs ==
    ASSUME NEW S, NEW s \in Seq(S), NEW x \in S, x \notin Range(s), IsInjective(s)
    PROVE  /\ Append(s, x) \in Seq(S)
           /\ Range(Append(s, x)) = Range(s) \cup {x}
           /\ IsInjective(Append(s, x))
<1> DEFINE r == Append(s, x)
<1>1. r \in Seq(S) /\ Len(r) = Len(s) + 1 /\ r[Len(s) + 1] = x
    OBVIOUS
<1>2. \A i \in 1 .. Len(s) : r[i] = s[i]
    OBVIOUS
<1> HIDE DEF r
<1>3. DOMAIN r = 1 .. (Len(s) + 1) /\ DOMAIN s = 1 .. Len(s)
    BY <1>1
<1>4. Range(r) = Range(s) \cup {x}
    BY <1>1, <1>2, <1>3 DEF Range
<1>5. IsInjective(r)
    BY <1>1, <1>2, <1>3 DEF IsInjective, Range
<1>6. QED
    BY <1>1, <1>4, <1>5, Zenon DEF r

(* The elements of an empty list, and of one that is not.                  *)
LEMMA RangeIs ==
    ASSUME NEW S, NEW s \in Seq(S)
    PROVE  /\ Range(s) \subseteq S
           /\ s = << >> <=> Range(s) = {}
           /\ \A i \in 1 .. Len(s) : s[i] \in Range(s)
<1>1. \A i \in 1 .. Len(s) : s[i] \in Range(s)
    BY DEF Range
<1>2. Range(s) \subseteq S
    BY DEF Range
<1>3. ASSUME s # << >> PROVE Range(s) # {}
    <2>1. 1 \in 1 .. Len(s)
        BY <1>3
    <2>2. QED
        BY <1>1, <2>1, Zenon
<1>4. ASSUME s = << >> PROVE Range(s) = {}
    BY <1>4 DEF Range
<1>5. QED
    BY <1>1, <1>2, <1>3, <1>4, Zenon

(* Slots are filled from the front of the jobs that wait.                  *)
LEMMA FillIs ==
    ASSUME NEW S, NEW a \in Seq(S), NEW w \in Seq(S), NEW n \in 0 .. Len(w),
           IsInjective(a), IsInjective(w), Range(a) \cap Range(w) = {}
    PROVE  LET b == a \o SubSeq(w, 1, n)
               q == SubSeq(w, n + 1, Len(w))
           IN  /\ b \in Seq(S) /\ q \in Seq(S) /\ Len(b) = Len(a) + n
               /\ IsInjective(b) /\ IsInjective(q) /\ Range(b) \cap Range(q) = {}
               /\ Range(b) \cup Range(q) = Range(a) \cup Range(w)
               /\ Range(a) \subseteq Range(b)
               /\ Range(b) \subseteq Range(a) \cup Range(w) /\ Range(q) \subseteq Range(w)
<1> DEFINE u == SubSeq(w, 1, n)
           q == SubSeq(w, n + 1, Len(w))
           b == a \o u
<1>1. u \in Seq(S) /\ Len(u) = n /\ \A i \in 1 .. n : u[i] = w[i]
    OBVIOUS
<1>2. q \in Seq(S) /\ Len(q) = Len(w) - n
    OBVIOUS
<1>3. \A i \in 1 .. (Len(w) - n) : q[i] = w[i + n]
    OBVIOUS
<1> HIDE DEF u, q
<1>4. b \in Seq(S) /\ Len(b) = Len(a) + n
    BY <1>1
<1>5. \A i \in 1 .. Len(a) : b[i] = a[i]
    BY <1>1
<1>6. \A i \in 1 .. n : b[Len(a) + i] = w[i]
    BY <1>1
<1> HIDE DEF b
<1>7. \A i \in 1 .. Len(b) : i \in 1 .. Len(a) \/ (i - Len(a) \in 1 .. n /\ b[i] = w[i - Len(a)])
    <2> TAKE i \in 1 .. Len(b)
    <2>1. CASE i > Len(a)
        <3>1. i - Len(a) \in 1 .. n /\ Len(a) + (i - Len(a)) = i
            BY <1>4, <2>1
        <3>2. QED
            BY <1>6, <3>1, Zenon
    <2>2. QED
        BY <2>1
<1>8. DOMAIN a = 1 .. Len(a) /\ DOMAIN w = 1 .. Len(w) /\ DOMAIN b = 1 .. (Len(a) + n)
        /\ DOMAIN q = 1 .. (Len(w) - n)
    BY <1>2, <1>4
<1>9. Range(a) \subseteq Range(b)
    BY <1>4, <1>5, <1>8 DEF Range
<1>10. \A i \in 1 .. n : w[i] \in Range(b)
    <2> TAKE i \in 1 .. n
    <2>1. Len(a) + i \in DOMAIN b
        BY <1>8
    <2>2. QED
        BY <1>6, <2>1, Zenon DEF Range
<1>11. \A i \in 1 .. Len(w) : i > n => w[i] \in Range(q)
    <2> TAKE i \in 1 .. Len(w)
    <2> HAVE i > n
    <2>1. i - n \in 1 .. (Len(w) - n) /\ (i - n) + n = i
        OBVIOUS
    <2>2. QED
        BY <1>3, <1>8, <2>1, Zenon DEF Range
<1>12. Range(b) \subseteq Range(a) \cup Range(w)
    <2> SUFFICES ASSUME NEW i \in 1 .. Len(b) PROVE b[i] \in Range(a) \cup Range(w)
        BY <1>4, <1>8, Zenon DEF Range
    <2>1. CASE i \in 1 .. Len(a)
        BY <1>5, <1>8, <2>1, Zenon DEF Range
    <2>2. CASE i - Len(a) \in 1 .. n /\ b[i] = w[i - Len(a)]
        <3>1. i - Len(a) \in DOMAIN w
            BY <1>8, <2>2
        <3>2. QED
            BY <2>2, <3>1, Zenon DEF Range
    <2>3. QED
        BY <1>7, <2>1, <2>2, Zenon
<1>13. \A i \in 1 .. (Len(w) - n) : i + n \in DOMAIN w /\ q[i] = w[i + n]
    BY <1>3, <1>8
<1>14. Range(q) \subseteq Range(w)
    BY <1>8, <1>13, Zenon DEF Range
<1>15. Range(a) \cup Range(w) \subseteq Range(b) \cup Range(q)
    <2> SUFFICES ASSUME NEW i \in 1 .. Len(w) PROVE w[i] \in Range(b) \cup Range(q)
        BY <1>8, <1>9, Zenon DEF Range
    <2>1. CASE i <= n
        BY <1>10, <2>1
    <2>2. CASE i > n
        BY <1>11, <2>2, Zenon
    <2>3. QED
        BY <2>1, <2>2
<1>16. IsInjective(q)
    <2> SUFFICES ASSUME NEW i \in 1 .. (Len(w) - n), NEW k \in 1 .. (Len(w) - n), q[i] = q[k]
                 PROVE  i = k
        BY <1>8, Zenon DEF IsInjective
    <2>1. i + n \in DOMAIN w /\ k + n \in DOMAIN w /\ w[i + n] = w[k + n]
        BY <1>13, Zenon
    <2>2. i + n = k + n
        BY <2>1, Zenon DEF IsInjective
    <2>3. QED
        BY <2>2
<1>17. \A i \in 1 .. Len(a), k \in 1 .. Len(w) : a[i] # w[k]
    BY <1>8, Zenon DEF Range
<1>18. \A i, k \in 1 .. Len(w) : w[i] = w[k] => i = k
    BY <1>8, Zenon DEF IsInjective
<1>19. \A i, k \in 1 .. Len(a) : a[i] = a[k] => i = k
    BY <1>8, Zenon DEF IsInjective
<1>20. IsInjective(b)
    <2> SUFFICES ASSUME NEW i \in 1 .. Len(b), NEW k \in 1 .. Len(b), b[i] = b[k] PROVE i = k
        BY <1>4, <1>8, Zenon DEF IsInjective
    <2>1. CASE i \in 1 .. Len(a) /\ k \in 1 .. Len(a)
        BY <1>5, <1>19, <2>1, Zenon
    <2>2. CASE i \in 1 .. Len(a) /\ k \notin 1 .. Len(a)
        BY <1>5, <1>7, <1>17, <2>2
    <2>3. CASE i \notin 1 .. Len(a) /\ k \in 1 .. Len(a)
        BY <1>5, <1>7, <1>17, <2>3
    <2>4. CASE i \notin 1 .. Len(a) /\ k \notin 1 .. Len(a)
        <3>1. i - Len(a) \in 1 .. Len(w) /\ k - Len(a) \in 1 .. Len(w)
            BY <1>7, <2>4, SMTT(30)
        <3>2. i - Len(a) = k - Len(a)
            BY <1>7, <1>18, <2>4, <3>1, Zenon
        <3>3. QED
            BY <3>2
    <2>5. QED
        BY <2>1, <2>2, <2>3, <2>4, Zenon
<1>21. Range(b) \cap Range(q) = {}
    <2> SUFFICES ASSUME NEW i \in 1 .. Len(b), NEW k \in 1 .. (Len(w) - n), b[i] = q[k]
                 PROVE FALSE
        BY <1>4, <1>8, Zenon DEF Range
    <2>1. k + n \in 1 .. Len(w) /\ q[k] = w[k + n]
        BY <1>8, <1>13, Zenon
    <2>2. CASE i \in 1 .. Len(a)
        BY <1>5, <1>17, <2>1, <2>2, Zenon
    <2>3. CASE i - Len(a) \in 1 .. n /\ b[i] = w[i - Len(a)]
        <3>1. i - Len(a) \in 1 .. Len(w) /\ i - Len(a) # k + n
            BY <2>3
        <3>2. QED
            BY <1>18, <2>1, <2>3, <3>1, Zenon
    <2>4. QED
        BY <1>7, <2>2, <2>3, Zenon
<1>22. QED
    BY <1>2, <1>4, <1>9, <1>12, <1>14, <1>15, <1>16, <1>20, <1>21, Zenon DEF b, q, u

(* Min is an element, and the smaller of two numbers.                      *)
LEMMA MinIs ==
    /\ \A S : S \subseteq Nat /\ S # {} => Min(S) \in S
    /\ \A m, n \in Int : Min({m, n}) = IF m <= n THEN m ELSE n
<1>1. ASSUME NEW S, S \subseteq Nat, S # {} PROVE Min(S) \in S
    <2>1. \E x \in S : \A y \in S : ~(<< y, x >> \in OpToRel(<, Nat))
        BY <1>1, WFMin, NatLessThanWellFounded, Zenon
    <2>2. PICK x \in S : \A y \in S : ~(<< y, x >> \in OpToRel(<, Nat))
        BY <2>1, Zenon
    <2>3. \A y \in S : x <= y
        <3> SUFFICES ASSUME NEW y \in S, y < x PROVE FALSE
            BY <1>1
        <3>1. << y, x >> \in Nat \X Nat /\ << y, x >>[1] < << y, x >>[2]
            BY <1>1, Zenon
        <3>2. << y, x >> \in {ss \in Nat \X Nat : ss[1] < ss[2]}
            BY <3>1, Zenon
        <3>3. << y, x >> \in OpToRel(<, Nat)
            BY <3>2, Zenon DEF OpToRel
        <3>4. QED
            BY <2>2, <3>3, Zenon
    <2>4. QED
        BY <2>3, Zenon DEF Min
<1>2. ASSUME NEW m \in Int, NEW n \in Int PROVE Min({m, n}) = IF m <= n THEN m ELSE n
    <2>1. CASE m <= n
        BY <2>1 DEF Min
    <2>2. CASE n <= m
        BY <2>2 DEF Min
    <2>3. QED
        BY <2>1, <2>2
<1>3. QED
    BY <1>1, <1>2, Zenon

(* The jobs of a list of stages, of its parts and of two lists.            *)
LEMMA JobsOfIs ==
    ASSUME NEW l \in Seq(Stage), NEW m \in Seq(Stage)
    PROVE  /\ JobsOf(l) \subseteq Jobs
           /\ JobsOf(<< >>) = {}
           /\ l # << >> => JobsOf(l) = Range(Head(l).jobs) \cup JobsOf(Tail(l))
           /\ JobsOf(l \o m) = JobsOf(l) \cup JobsOf(m)
<1>1. JobsOf(l) \subseteq Jobs
    <2> SUFFICES ASSUME NEW i \in 1 .. Len(l) PROVE Range(l[i].jobs) \subseteq Jobs
        BY DEF JobsOf
    <2>1. l[i] \in Stage
        OBVIOUS
    <2>2. l[i].jobs \in Seq(Jobs)
        BY <2>1, Zenon DEF Stage
    <2>3. QED
        BY <2>2, RangeIs, Zenon
<1>2. JobsOf(<< >>) = {}
    BY DEF JobsOf
<1>3. ASSUME l # << >> PROVE JobsOf(l) = Range(Head(l).jobs) \cup JobsOf(Tail(l))
    <2> DEFINE t == Tail(l)
    <2>1. t \in Seq(Stage) /\ Len(t) = Len(l) - 1 /\ Head(l) = l[1]
        BY <1>3
    <2>2. \A i \in 1 .. (Len(l) - 1) : t[i] = l[i + 1]
        BY <1>3
    <2> HIDE DEF t
    <2>3. ASSUME NEW x \in JobsOf(l) PROVE x \in Range(l[1].jobs) \cup JobsOf(t)
        <3>1. PICK i \in 1 .. Len(l) : x \in Range(l[i].jobs)
            BY <2>3 DEF JobsOf
        <3>2. CASE i # 1
            <4>1. i - 1 \in 1 .. (Len(l) - 1) /\ (i - 1) + 1 = i
                BY <3>2
            <4>2. i - 1 \in DOMAIN t /\ t[i - 1] = l[i]
                BY <2>1, <2>2, <4>1
            <4>3. QED
                BY <3>1, <4>2, Zenon DEF JobsOf
        <3>3. QED
            BY <3>1, <3>2, Zenon
    <2>4. ASSUME NEW x \in JobsOf(t) PROVE x \in JobsOf(l)
        <3>1. PICK i \in 1 .. (Len(l) - 1) : x \in Range(t[i].jobs)
            BY <2>1, <2>4 DEF JobsOf
        <3>2. i + 1 \in DOMAIN l /\ t[i] = l[i + 1]
            BY <2>2
        <3>3. QED
            BY <3>1, <3>2, Zenon DEF JobsOf
    <2>5. 1 \in DOMAIN l
        BY <1>3
    <2>6. Range(l[1].jobs) \subseteq JobsOf(l)
        BY <2>5, Zenon DEF JobsOf
    <2>7. QED
        BY <2>1, <2>3, <2>4, <2>6, Zenon DEF t
<1>4. JobsOf(l \o m) = JobsOf(l) \cup JobsOf(m)
    <2> DEFINE c == l \o m
    <2>1. c \in Seq(Stage) /\ Len(c) = Len(l) + Len(m)
        OBVIOUS
    <2>2. \A i \in 1 .. Len(l) : i \in 1 .. Len(c) /\ c[i] = l[i]
        OBVIOUS
    <2>3. \A i \in 1 .. Len(m) : Len(l) + i \in 1 .. Len(c) /\ c[Len(l) + i] = m[i]
        OBVIOUS
    <2> HIDE DEF c
    <2>4. DOMAIN c = 1 .. Len(c) /\ DOMAIN l = 1 .. Len(l) /\ DOMAIN m = 1 .. Len(m)
        BY <2>1
    <2>5. ASSUME NEW x \in JobsOf(c) PROVE x \in JobsOf(l) \cup JobsOf(m)
        <3>1. PICK i \in 1 .. Len(c) : x \in Range(c[i].jobs)
            BY <2>4, <2>5, Zenon DEF JobsOf
        <3>2. CASE i <= Len(l)
            BY <2>2, <2>4, <3>1, <3>2 DEF JobsOf
        <3>3. CASE i > Len(l)
            <4>1. i - Len(l) \in 1 .. Len(m) /\ Len(l) + (i - Len(l)) = i
                BY <2>1, <3>3
            <4>2. i - Len(l) \in DOMAIN m /\ c[i] = m[i - Len(l)]
                BY <2>3, <2>4, <4>1, Zenon
            <4>3. QED
                BY <3>1, <4>2, Zenon DEF JobsOf
        <3>4. QED
            BY <3>2, <3>3
    <2>6. JobsOf(l) \subseteq JobsOf(c)
        BY <2>2, <2>4, Zenon DEF JobsOf
    <2>7. JobsOf(m) \subseteq JobsOf(c)
        BY <2>3, <2>4, Zenon DEF JobsOf
    <2>8. QED
        BY <2>5, <2>6, <2>7, Zenon DEF c
<1>5. QED
    BY <1>1, <1>2, <1>3, <1>4, Zenon

(* What a plan consists of.                                                *)
LEMMA PlanIs ==
    ASSUME NEW plan \in Plans
    PROVE  /\ plan.stages \in Seq(Stage) /\ plan.extra \in Seq(Stage)
           /\ plan.commands \in [Jobs -> Nat \ {0}] /\ plan.recovery \in [Jobs -> Nat]
           /\ plan.services \subseteq Jobs
           /\ \A j \in plan.services : plan.recovery[j] = 0
           /\ plan.failFast \in BOOLEAN /\ plan.prompt \in BOOLEAN /\ plan.sequential \in BOOLEAN
<1>1. /\ plan.stages \in Seq(Stage) /\ plan.extra \in Seq(Stage)
      /\ plan.commands \in [Jobs -> Nat \ {0}] /\ plan.recovery \in [Jobs -> Nat]
      /\ plan.services \subseteq {j \in Jobs : plan.recovery[j] = 0}
      /\ plan.failFast \in BOOLEAN /\ plan.prompt \in BOOLEAN /\ plan.sequential \in BOOLEAN
    BY PlansAssumption, Zenon
<1>2. QED
    BY <1>1, Zenon

(* What it is for two jobs to be in turn.                                  *)
LEMMA InTurnIs ==
    ASSUME NEW plan, NEW list, InTurn(plan, list), NEW i \in DOMAIN list, NEW k \in DOMAIN list,
           NEW m \in DOMAIN list[i].jobs, NEW n \in DOMAIN list[k].jobs
    PROVE  /\ i < k => StageIn(plan, list[i].jobs[m]) < StageIn(plan, list[k].jobs[n])
           /\ i = k => StageIn(plan, list[i].jobs[m]) = StageIn(plan, list[k].jobs[n])
           /\ i = k /\ list[i].jobs[m] = list[k].jobs[n] => m = n
           /\ StageIn(plan, list[i].jobs[m]) \in Nat
BY Zenon DEF InTurn

(* The stages after the first of a list in turn are in turn, and after it. *)
LEMMA TailInTurn ==
    ASSUME NEW plan, NEW l \in Seq(Stage), l # << >>, InTurn(plan, l)
    PROVE  /\ InTurn(plan, Tail(l))
           /\ IsInjective(Head(l).jobs)
           /\ \A i \in Range(Head(l).jobs), j \in JobsOf(Tail(l)) :
                    StageIn(plan, i) < StageIn(plan, j)
           /\ \A i, j \in Range(Head(l).jobs) : StageIn(plan, i) = StageIn(plan, j)
           /\ \A i \in Range(Head(l).jobs) : StageIn(plan, i) \in Nat
<1> DEFINE t == Tail(l)
<1>1. t \in Seq(Stage) /\ Len(t) = Len(l) - 1 /\ Head(l) = l[1] /\ 1 \in DOMAIN l
    OBVIOUS
<1>2. \A i \in 1 .. (Len(l) - 1) : t[i] = l[i + 1] /\ i + 1 \in DOMAIN l
    OBVIOUS
<1> HIDE DEF t
<1>3. DOMAIN t = 1 .. (Len(l) - 1)
    BY <1>1
<1>4. InTurn(plan, t)
    <2> SUFFICES ASSUME NEW i \in 1 .. (Len(l) - 1), NEW k \in 1 .. (Len(l) - 1),
                        NEW m \in DOMAIN t[i].jobs, NEW n \in DOMAIN t[k].jobs
                 PROVE  /\ i < k => StageIn(plan, t[i].jobs[m]) < StageIn(plan, t[k].jobs[n])
                        /\ i = k => StageIn(plan, t[i].jobs[m]) = StageIn(plan, t[k].jobs[n])
                        /\ i = k /\ t[i].jobs[m] = t[k].jobs[n] => m = n
                        /\ StageIn(plan, t[i].jobs[m]) \in Nat
        BY <1>3 DEF InTurn
    <2>1. t[i] = l[i + 1] /\ t[k] = l[k + 1] /\ i + 1 \in DOMAIN l /\ k + 1 \in DOMAIN l
        BY <1>2, Zenon
    <2>2. m \in DOMAIN l[i + 1].jobs /\ n \in DOMAIN l[k + 1].jobs
        BY <2>1, Zenon
    <2>3. /\ i + 1 < k + 1 => StageIn(plan, l[i + 1].jobs[m]) < StageIn(plan, l[k + 1].jobs[n])
          /\ i + 1 = k + 1 => StageIn(plan, l[i + 1].jobs[m]) = StageIn(plan, l[k + 1].jobs[n])
          /\ i + 1 = k + 1 /\ l[i + 1].jobs[m] = l[k + 1].jobs[n] => m = n
          /\ StageIn(plan, l[i + 1].jobs[m]) \in Nat
        BY <2>1, <2>2, InTurnIs, Zenon
    <2>4. QED
        BY <2>1, <2>3
<1>5. IsInjective(l[1].jobs)
    BY <1>1 DEF InTurn, IsInjective
<1>6. ASSUME NEW i \in Range(l[1].jobs), NEW j \in JobsOf(t)
      PROVE StageIn(plan, i) < StageIn(plan, j)
    <2>1. PICK m \in DOMAIN l[1].jobs : i = l[1].jobs[m]
        BY <1>6, Zenon DEF Range
    <2>2. PICK k \in 1 .. (Len(l) - 1) : j \in Range(t[k].jobs)
        BY <1>3, <1>6, Zenon DEF JobsOf
    <2>3. PICK n \in DOMAIN t[k].jobs : j = t[k].jobs[n]
        BY <2>2, Zenon DEF Range
    <2>4. t[k] = l[k + 1] /\ k + 1 \in DOMAIN l /\ 1 < k + 1
        BY <1>2
    <2>5. QED
        BY <1>1, <2>1, <2>3, <2>4, Zenon DEF InTurn
<1>7. ASSUME NEW i \in Range(l[1].jobs), NEW j \in Range(l[1].jobs)
      PROVE StageIn(plan, i) = StageIn(plan, j) /\ StageIn(plan, i) \in Nat
    <2>1. PICK m \in DOMAIN l[1].jobs : i = l[1].jobs[m]
        BY <1>7, Zenon DEF Range
    <2>2. PICK n \in DOMAIN l[1].jobs : j = l[1].jobs[n]
        BY <1>7, Zenon DEF Range
    <2>3. QED
        BY <1>1, <2>1, <2>2, Zenon DEF InTurn
<1>8. QED
    BY <1>1, <1>4, <1>5, <1>6, <1>7, Zenon DEF t

(* The second of two lists in turn is in turn, and apart from the first.   *)
LEMMA SuffixInTurn ==
    ASSUME NEW plan, NEW l \in Seq(Stage), NEW m \in Seq(Stage), InTurn(plan, l \o m)
    PROVE  InTurn(plan, m) /\ JobsOf(l) \cap JobsOf(m) = {}
<1> DEFINE c == l \o m
<1>0. \A i \in 1 .. Len(l) : i \in 1 .. Len(c) /\ c[i] = l[i]
    OBVIOUS
<1>1. \A i \in 1 .. Len(m) : Len(l) + i \in 1 .. Len(c) /\ c[Len(l) + i] = m[i]
    OBVIOUS
<1>2. c \in Seq(Stage) /\ InTurn(plan, c)
    OBVIOUS
<1> HIDE DEF c
<1>3. DOMAIN c = 1 .. Len(c) /\ DOMAIN m = 1 .. Len(m)
    BY <1>2
<1>4. ASSUME NEW x \in JobsOf(l), x \in JobsOf(m) PROVE FALSE
    <2>1. PICK i \in 1 .. Len(l) : x \in Range(l[i].jobs)
        BY <1>4 DEF JobsOf
    <2>2. PICK k \in 1 .. Len(m) : x \in Range(m[k].jobs)
        BY <1>4 DEF JobsOf
    <2>3. PICK p \in DOMAIN c : p = i /\ c[p] = l[i]
        BY <1>0, <1>3, Zenon
    <2>4. PICK q \in DOMAIN c : q = Len(l) + k /\ c[q] = m[k]
        BY <1>1, <1>3, Zenon
    <2>5. PICK a \in DOMAIN c[p].jobs : x = c[p].jobs[a]
        BY <2>1, <2>3, Zenon DEF Range
    <2>6. PICK b \in DOMAIN c[q].jobs : x = c[q].jobs[b]
        BY <2>2, <2>4, Zenon DEF Range
    <2>7. p < q
        BY <2>3, <2>4
    <2>8. StageIn(plan, c[p].jobs[a]) < StageIn(plan, c[q].jobs[b]) /\ StageIn(plan, c[p].jobs[a]) \in Nat
        BY <1>2, <2>7, InTurnIs, Zenon
    <2>9. QED
        BY <2>5, <2>6, <2>8
<1> SUFFICES InTurn(plan, m)
    BY <1>4, Zenon
<1> SUFFICES ASSUME NEW i \in 1 .. Len(m), NEW k \in 1 .. Len(m),
                    NEW a \in DOMAIN m[i].jobs, NEW b \in DOMAIN m[k].jobs
             PROVE  /\ i < k => StageIn(plan, m[i].jobs[a]) < StageIn(plan, m[k].jobs[b])
                    /\ i = k => StageIn(plan, m[i].jobs[a]) = StageIn(plan, m[k].jobs[b])
                    /\ i = k /\ m[i].jobs[a] = m[k].jobs[b] => a = b
                    /\ StageIn(plan, m[i].jobs[a]) \in Nat
    BY <1>3 DEF InTurn
<1>5. /\ Len(l) + i \in DOMAIN c /\ c[Len(l) + i] = m[i]
      /\ Len(l) + k \in DOMAIN c /\ c[Len(l) + k] = m[k]
    BY <1>1, <1>3, Zenon
<1>6. PICK x \in DOMAIN c, y \in DOMAIN c :
            x = Len(l) + i /\ y = Len(l) + k /\ c[x] = m[i] /\ c[y] = m[k]
    BY <1>5, Zenon
<1>7. a \in DOMAIN c[x].jobs /\ b \in DOMAIN c[y].jobs
    BY <1>6, Zenon
<1>8. /\ x < y => StageIn(plan, c[x].jobs[a]) < StageIn(plan, c[y].jobs[b])
      /\ x = y => StageIn(plan, c[x].jobs[a]) = StageIn(plan, c[y].jobs[b])
      /\ x = y /\ c[x].jobs[a] = c[y].jobs[b] => a = b
      /\ StageIn(plan, c[x].jobs[a]) \in Nat
    BY <1>2, <1>7, InTurnIs, Zenon
<1>9. QED
    BY <1>6, <1>8

(* The stages of a plan and of what is appended are in turn.               *)
LEMMA PlanInTurn ==
    ASSUME NEW plan \in Plans
    PROVE  InTurn(plan, plan.stages \o plan.extra)
<1> DEFINE all == plan.stages \o plan.extra
<1>0. all \in Seq(Stage)
    BY PlanIs
<1>1. \A i, k \in DOMAIN all : \A m \in DOMAIN all[i].jobs, n \in DOMAIN all[k].jobs :
            all[i].jobs[m] = all[k].jobs[n] => i = k /\ m = n
    BY JobsAreApart, Zenon
<1>2. \A j : StageIn(plan, j) = CHOOSE i \in DOMAIN all : j \in Range(all[i].jobs)
    BY Zenon DEF StageIn
<1> HIDE DEF all
<1>3. \A i \in DOMAIN all : \A m \in DOMAIN all[i].jobs : StageIn(plan, all[i].jobs[m]) = i
    <2> TAKE i \in DOMAIN all
    <2> TAKE m \in DOMAIN all[i].jobs
    <2>1. all[i].jobs[m] \in Range(all[i].jobs)
        BY Zenon DEF Range
    <2>2. \A k \in DOMAIN all : all[i].jobs[m] \in Range(all[k].jobs) => k = i
        BY <1>1, Zenon DEF Range
    <2>3. QED
        BY <1>2, <2>1, <2>2, Zenon
<1>4. InTurn(plan, all)
    <2> SUFFICES ASSUME NEW i \in DOMAIN all, NEW k \in DOMAIN all,
                        NEW m \in DOMAIN all[i].jobs, NEW n \in DOMAIN all[k].jobs
                 PROVE  /\ i < k => StageIn(plan, all[i].jobs[m]) < StageIn(plan, all[k].jobs[n])
                        /\ i = k => StageIn(plan, all[i].jobs[m]) = StageIn(plan, all[k].jobs[n])
                        /\ i = k /\ all[i].jobs[m] = all[k].jobs[n] => m = n
                        /\ StageIn(plan, all[i].jobs[m]) \in Nat
        BY Zenon DEF InTurn
    <2>1. StageIn(plan, all[i].jobs[m]) = i /\ StageIn(plan, all[k].jobs[n]) = k
        BY <1>3, Zenon
    <2>2. i \in Nat /\ k \in Nat
        <3>1. DOMAIN all = 1 .. Len(all) /\ Len(all) \in Nat
            BY <1>0
        <3>2. QED
            BY <3>1
    <2>3. QED
        BY <1>1, <2>1, <2>2
<1>5. QED
    BY <1>4, Zenon DEF all

(* Every job of a list in turn has a stage.                                *)
LEMMA StagesAreNumbers ==
    ASSUME NEW plan, NEW l, InTurn(plan, l), NEW j \in JobsOf(l)
    PROVE  StageIn(plan, j) \in Nat
<1>1. PICK i \in DOMAIN l : j \in Range(l[i].jobs)
    BY Zenon DEF JobsOf
<1>2. PICK m \in DOMAIN l[i].jobs : j = l[i].jobs[m]
    BY <1>1, Zenon DEF Range
<1>3. QED
    BY <1>2, InTurnIs, Zenon

(* The stages ahead: those that are left, and those a reload may append.   *)
LEMMA AheadIs ==
    ASSUME NEW plan \in Plans, NEW list \in Seq(Stage), NEW done \in BOOLEAN
    PROVE  /\ RestOf(plan, done) \in Seq(Stage)
           /\ AheadOf(plan, list, done) \in Seq(Stage)
           /\ JobsOf(AheadOf(plan, list, done)) = JobsOf(list) \cup JobsOf(RestOf(plan, done))
           /\ AheadOf(plan, << >>, done) = RestOf(plan, done)
           /\ AheadOf(plan, list \o plan.extra, TRUE) = AheadOf(plan, list, FALSE)
           /\ list # << >> =>
                /\ AheadOf(plan, list, done) # << >>
                /\ Head(AheadOf(plan, list, done)) = Head(list)
                /\ Tail(AheadOf(plan, list, done)) = AheadOf(plan, Tail(list), done)
<1> DEFINE rest == RestOf(plan, done)
<1>1. plan.extra \in Seq(Stage)
    BY PlanIs, Zenon
<1>2. rest \in Seq(Stage)
    BY <1>1 DEF RestOf
<1>3. AheadOf(plan, list, done) = list \o rest
    BY Zenon DEF AheadOf
<1>4. AheadOf(plan, << >>, done) = << >> \o rest
    BY Zenon DEF AheadOf
<1>5. AheadOf(plan, list \o plan.extra, TRUE) = AheadOf(plan, list, FALSE)
    BY <1>1 DEF AheadOf, RestOf
<1>6. AheadOf(plan, Tail(list), done) = Tail(list) \o rest
    BY Zenon DEF AheadOf
<1> HIDE DEF rest
<1>7. << >> \o rest = rest /\ list \o rest \in Seq(Stage)
    BY <1>2
<1>8. JobsOf(list \o rest) = JobsOf(list) \cup JobsOf(rest)
    BY <1>2, JobsOfIs, Zenon
<1>9. ASSUME list # << >>
      PROVE  list \o rest # << >> /\ Head(list \o rest) = Head(list)
                /\ Tail(list \o rest) = Tail(list) \o rest
    BY <1>2, <1>9
<1>10. QED
    BY <1>2, <1>3, <1>4, <1>5, <1>6, <1>7, <1>8, <1>9, Zenon DEF rest

-----------------------------------------------------------------------------
(* What a poll does to a task.                                             *)

AttemptHolds(old, failFast, attempt) ==
    /\ attempt.task \in Task
    /\ attempt.step \in {"again", "Running", "Finished", "FailedFast"}
    /\ attempt.error \in BOOLEAN
    /\ attempt.task.child <=> attempt.step = "Running"
    /\ attempt.task.recovery = old.recovery /\ attempt.task.defer = old.defer
    /\ attempt.step = "FailedFast" => failFast /\ attempt.task.failed
    /\ attempt.error => attempt.task.failed /\ ~old.defer
    /\ old.failed => attempt.task.failed
    /\ attempt.task.failed /\ ~old.failed =>
        /\ attempt.error = ~old.defer
        /\ attempt.step \in {"again", "FailedFast"}
        /\ failFast => attempt.step = "FailedFast"
    /\ attempt.step = "FailedFast" => attempt.error = ~old.defer

(* Only a failed attempt fails, and it fails fast exactly when it should.  *)
LEMMA AttemptIs ==
    ASSUME NEW old \in Task, NEW failFast \in BOOLEAN, NEW attempt \in Attempts(old, failFast)
    PROVE  AttemptHolds(old, failFast, attempt)
<1> DEFINE task == [old EXCEPT !.checked = TRUE]
           next == [task EXCEPT !.left = @ - 1]
           none == [task EXCEPT !.left = 0]
<1>1. task \in Task /\ none \in Task
    BY Zenon DEF Task
<1>2. ASSUME old.left # 0 PROVE next \in Task
    <2>1. old.left - 1 \in Nat /\ task.left = old.left
        BY <1>2 DEF Task
    <2>2. next = [task EXCEPT !.left = old.left - 1]
        BY <2>1, Zenon
    <2>3. QED
        BY <1>1, <2>1, <2>2, Zenon DEF Task
<1>3. \/ attempt = Failing(none, failFast)
      \/ task.child /\ (\/ attempt = Going(task, "Running")
                        \/ attempt = Going([task EXCEPT !.child = FALSE], "again")
                        \/ attempt = Failing(task, failFast))
      \/ ~task.child /\ task.left = 0 /\ attempt = Going(task, "Finished")
      \/ ~task.child /\ task.left # 0 /\ (\/ attempt = Going([next EXCEPT !.child = TRUE], "Running")
                                          \/ attempt = Failing(next, failFast))
    BY Zenon DEF Attempts
<1>4. /\ \A t \in {task, none, next} : t.recovery = old.recovery /\ t.defer = old.defer
                                        /\ t.failed = old.failed /\ t.child = old.child
      /\ task.left = old.left
    BY Zenon DEF Task
<1> HIDE DEF task, next, none
<1>5. ASSUME NEW t \in Task, t.recovery = old.recovery, t.defer = old.defer, t.failed = old.failed,
             attempt = Failing(t, failFast)
      PROVE  /\ attempt.task \in Task /\ attempt.task.failed /\ attempt.task.child = FALSE
             /\ attempt.task.recovery = old.recovery /\ attempt.task.defer = old.defer
             /\ attempt.step = IF failFast THEN "FailedFast" ELSE "again"
             /\ attempt.error = ~old.defer
    BY <1>5, Zenon DEF Failing, Task
<1>6. ASSUME NEW t \in Task, t.recovery = old.recovery, t.defer = old.defer, t.failed = old.failed,
             NEW step, attempt = Going(t, step)
      PROVE  /\ attempt.task = t /\ attempt.step = step /\ attempt.error = FALSE
    BY <1>6, Zenon DEF Going
<1>7. old.defer \in BOOLEAN /\ old.failed \in BOOLEAN /\ old.child \in BOOLEAN
    BY Zenon DEF Task
<1>8. CASE attempt = Failing(none, failFast)
    BY <1>1, <1>4, <1>5, <1>7, <1>8, Zenon DEF AttemptHolds
<1>9. CASE attempt = Failing(task, failFast)
    BY <1>1, <1>4, <1>5, <1>7, <1>9, Zenon DEF AttemptHolds
<1>10. CASE ~task.child /\ task.left # 0 /\ attempt = Failing(next, failFast)
    BY <1>2, <1>4, <1>5, <1>7, <1>10, Zenon DEF AttemptHolds
<1>11. CASE task.child /\ attempt = Going(task, "Running")
    BY <1>1, <1>4, <1>6, <1>7, <1>11, ZenonT(40) DEF AttemptHolds
<1>12. CASE ~task.child /\ task.left = 0 /\ attempt = Going(task, "Finished")
    <2>1. attempt.task = task /\ attempt.step = "Finished" /\ attempt.error = FALSE
        BY <1>1, <1>4, <1>6, <1>12, Zenon
    <2>2. task.failed = old.failed /\ task.child = FALSE
        BY <1>4, <1>7, <1>12, Zenon
    <2>3. QED
        BY <1>1, <1>4, <1>7, <2>1, <2>2, Zenon DEF AttemptHolds
<1>13. CASE task.child /\ attempt = Going([task EXCEPT !.child = FALSE], "again")
    <2> DEFINE t == [task EXCEPT !.child = FALSE]
    <2>1. t \in Task /\ t.recovery = old.recovery /\ t.defer = old.defer /\ t.failed = old.failed
            /\ t.child = FALSE
        BY <1>1, <1>4, Zenon DEF Task
    <2>2. attempt.task = t /\ attempt.step = "again" /\ attempt.error = FALSE
        BY <1>6, <1>13, <2>1, Zenon
    <2> HIDE DEF t
    <2>3. QED
        BY <1>7, <2>1, <2>2, Zenon DEF AttemptHolds
<1>14. CASE ~task.child /\ task.left # 0 /\ attempt = Going([next EXCEPT !.child = TRUE], "Running")
    <2> DEFINE t == [next EXCEPT !.child = TRUE]
    <2>1. next \in Task
        BY <1>2, <1>4, <1>14, Zenon
    <2>2. t \in Task /\ t.recovery = old.recovery /\ t.defer = old.defer /\ t.failed = old.failed
            /\ t.child = TRUE
        BY <1>4, <2>1, Zenon DEF Task
    <2>3. attempt.task = t /\ attempt.step = "Running" /\ attempt.error = FALSE
        BY <1>6, <1>14, <2>2, Zenon
    <2> HIDE DEF t
    <2>4. QED
        BY <1>7, <2>2, <2>3, Zenon DEF AttemptHolds
<1>15. QED
    BY <1>3, <1>8, <1>9, <1>10, <1>11, <1>12, <1>13, <1>14, Zenon

-----------------------------------------------------------------------------
(* What each step leaves alone.                                            *)

(* The type invariant, one conjunct for each group of variables.           *)
LEMMA TypeInvIs ==
    TypeInv <=> ModesTyped /\ ControlTyped /\ PlacesTyped /\ TasksTyped /\ ReportsTyped
<1>1. cursor \in Nat /\ cursor > 0 <=> cursor \in Nat \ {0}
    OBVIOUS
<1>2. QED
    BY <1>1, Zenon DEF TypeInv, TypeOK, ModesTyped, ControlTyped, PlacesTyped, TasksTyped, ReportsTyped

(* The same after a step.                                                  *)
LEMMA TypeInvNext ==
    ModesTyped' /\ ControlTyped' /\ PlacesTyped' /\ TasksTyped' /\ ReportsTyped' => TypeInv'
BY TypeInvIs, PTL

(* Variables that a step leaves alone keep their types.                    *)
LEMMA FrameTypes ==
    /\ ModesTyped /\ UNCHANGED modeVars => ModesTyped'
    /\ ControlTyped /\ UNCHANGED controlVars => ControlTyped'
    /\ PlacesTyped /\ UNCHANGED placeVars => PlacesTyped'
    /\ TasksTyped /\ UNCHANGED job => TasksTyped'
    /\ ReportsTyped /\ UNCHANGED reportVars => ReportsTyped'
BY Zenon DEF ModesTyped, ControlTyped, PlacesTyped, TasksTyped, ReportsTyped, modeVars, controlVars,
       placeVars, reportVars

(* A step that moves no job keeps jobs apart and stages in turn.           *)
LEMMA FramePlaces ==
    ASSUME UNCHANGED <<run, appended, stages, queued, active, services, pending>>
    PROVE  /\ PlacesApart => PlacesApart'
           /\ StagesInTurn => StagesInTurn'
BY Zenon DEF PlacesApart, StagesInTurn, Ahead, Held, Current

(* A step that reports nothing keeps what is reported.                     *)
LEMMA FrameReports ==
    ASSUME UNCHANGED <<run, terminal, outcome>>, at # "cancelled"
    PROVE  ReportsAgree => ReportsAgree'
BY Zenon DEF ReportsAgree, ReportOf

(* A success hook once chosen stays justified.                             *)
LEMMA FrameSuccess ==
    ASSUME UNCHANGED <<run, appended, terminal, outcome, hook>>
    PROVE  SuccessMeansAllPassed => SuccessMeansAllPassed'
BY Zenon DEF SuccessMeansAllPassed, Planned

(* The hook is chosen at the end.                                          *)
LEMMA NoHookYet ==
    ASSUME ControlHolds, at \notin {"hook", "finished"}, hook' = hook
    PROVE  hook' = "none" /\ SuccessMeansAllPassed'
BY Zenon DEF ControlHolds, SuccessMeansAllPassed

(* What is held is not ahead.                                              *)
LEMMA HeldIsNotAhead ==
    ASSUME StagesInTurn
    PROVE  Held \cap JobsOf(Ahead) = {}
<1> SUFFICES ASSUME NEW j \in Held, j \in JobsOf(Ahead) PROVE FALSE
    BY Zenon
<1>1. StageIn(run, j) < StageIn(run, j) /\ StageIn(run, j) \in Nat
    BY Zenon DEF StagesInTurn
<1>2. QED
    BY <1>1

(* A step that moves no job and reports none.                              *)
LEMMA SamePlacesKeep ==
    ASSUME IInv, at \notin Ended, at' \notin Ended,
           UNCHANGED <<run, appended, placeVars, terminal, outcome, hook>>,
           ModesTyped', ControlTyped', TasksTyped', ReportsTyped',
           ControlHolds', ChildrenAreOwned', TasksHold', ErrorsHold'
    PROVE  IInv'
<1>1. /\ TypeInv /\ PlacesApart /\ StagesInTurn /\ OpenIsUnreported /\ NoneIsForgotten
      /\ ReportsAgree /\ SlotsHold /\ SuccessMeansAllPassed
    BY Zenon DEF IInv
<1>2. TypeInv'
    BY <1>1, TypeInvIs, TypeInvNext, FrameTypes, Zenon
<1>3. PlacesApart' /\ StagesInTurn'
    BY <1>1, FramePlaces, Zenon DEF placeVars
<1>4. OpenIsUnreported'
    BY <1>1, Zenon DEF OpenIsUnreported, Held, Current, Ahead, placeVars
<1>5. NoneIsForgotten'
    BY <1>1, Zenon DEF NoneIsForgotten, Held, Current, Planned, placeVars, Ended
<1>6. ReportsAgree'
    BY <1>1, FrameReports, Zenon DEF Ended
<1>7. SlotsHold'
    BY <1>1, Zenon DEF SlotsHold, placeVars
<1>8. SuccessMeansAllPassed'
    BY <1>1, FrameSuccess, Zenon
<1>9. QED
    BY <1>2, <1>3, <1>4, <1>5, <1>6, <1>7, <1>8, Zenon DEF IInv

(* A step that changes nothing but where the thread is.                    *)
LEMMA ControlKeeps ==
    ASSUME IInv, at \notin Ended, at' \notin Ended,
           UNCHANGED <<run, appended, placeVars, job, reportVars>>,
           ModesTyped', ControlTyped', ControlHolds',
           at \in {"recover", "pause"} => at' \in {"recover", "pause"}
    PROVE  IInv'
<1>1. TypeInv /\ ChildrenAreOwned /\ TasksHold /\ ErrorsHold
    BY Zenon DEF IInv
<1>2. TasksTyped' /\ ReportsTyped'
    BY <1>1, TypeInvIs, FrameTypes, Zenon
<1>3. ChildrenAreOwned'
    BY <1>1, Zenon DEF ChildrenAreOwned, placeVars
<1>4. TasksHold'
    BY <1>1, Zenon DEF TasksHold, placeVars, Ahead
<1>5. ErrorsHold'
    BY <1>1, Zenon DEF ErrorsHold, Unforgiven, placeVars, reportVars, Ended
<1>6. QED
    BY <1>2, <1>3, <1>4, <1>5, SamePlacesKeep, Zenon DEF reportVars

(* What a report is, of jobs that have none.                               *)
LEMMA RecordIs ==
    ASSUME ReportsTyped, NEW D, D \subseteq Jobs, NEW result \in [D -> Outcomes],
           \A j \in D : terminal[j] = << >> /\ outcome[j] = << >>
    PROVE  /\ Snapshots(result) =>
                /\ terminal' \in [Jobs -> Seq(Outcomes)]
                /\ \A j \in D : terminal'[j] = << WireState(result[j]) >>
                /\ \A j \in Jobs \ D : terminal'[j] = terminal[j]
           /\ Outcome(result) =>
                /\ outcome' \in [Jobs -> Seq(Outcomes)]
                /\ \A j \in D : outcome'[j] = << result[j] >>
                /\ \A j \in Jobs \ D : outcome'[j] = outcome[j]
<1>1. terminal \in [Jobs -> Seq(Outcomes)] /\ outcome \in [Jobs -> Seq(Outcomes)]
    BY Zenon DEF ReportsTyped
<1>2. \A j \in D : WireState(result[j]) \in Outcomes /\ result[j] \in Outcomes
    BY Zenon DEF WireState, Outcomes
<1>3. \A x \in Outcomes : Append(<< >>, x) = << x >> /\ << x >> \in Seq(Outcomes)
    OBVIOUS
<1>4. \A j \in D : /\ Append(terminal[j], WireState(result[j])) = << WireState(result[j]) >>
                   /\ Append(outcome[j], result[j]) = << result[j] >>
                   /\ << WireState(result[j]) >> \in Seq(Outcomes)
                   /\ << result[j] >> \in Seq(Outcomes)
    BY <1>2, <1>3, Zenon
<1>5. ASSUME Snapshots(result)
      PROVE  /\ terminal' \in [Jobs -> Seq(Outcomes)]
             /\ \A j \in D : terminal'[j] = << WireState(result[j]) >>
             /\ \A j \in Jobs \ D : terminal'[j] = terminal[j]
    <2>1. terminal' = [j \in Jobs |-> IF j \in D THEN Append(terminal[j], WireState(result[j]))
                                      ELSE terminal[j]]
        BY <1>5, Zenon DEF Snapshots
    <2>2. QED
        BY <1>1, <1>4, <2>1, Zenon
<1>6. ASSUME Outcome(result)
      PROVE  /\ outcome' \in [Jobs -> Seq(Outcomes)]
             /\ \A j \in D : outcome'[j] = << result[j] >>
             /\ \A j \in Jobs \ D : outcome'[j] = outcome[j]
    <2>1. outcome' = [j \in Jobs |-> IF j \in D THEN Append(outcome[j], result[j])
                                     ELSE outcome[j]]
        BY <1>6, Zenon DEF Outcome
    <2>2. QED
        BY <1>1, <1>4, <2>1, Zenon
<1>7. QED
    BY <1>5, <1>6, Zenon

-----------------------------------------------------------------------------
(* The top of the loop.                                                    *)

(* fill_available_slots moves jobs from the queue to the slots.            *)
LEMMA FillKeeps ==
    ASSUME TypeInv, NEW w \in Seq(Jobs), NEW n \in Nat, IsInjective(active), IsInjective(w),
           Range(active) \cap Range(w) = {}, Len(active) <= n, FillSlots(w, n)
    PROVE  /\ active' \in Seq(Jobs) /\ queued' \in Seq(Jobs) /\ Len(active') <= n
           /\ IsInjective(active') /\ IsInjective(queued') /\ Range(active') \cap Range(queued') = {}
           /\ Range(active') \cup Range(queued') = Range(active) \cup Range(w)
           /\ Range(active) \subseteq Range(active')
           /\ Range(active') \subseteq Range(active) \cup Range(w) /\ Range(queued') \subseteq Range(w)
           /\ at' = "poll" /\ cursor' = 1 /\ freed' = FALSE
<1>1. active \in Seq(Jobs) /\ Len(active) \in Nat /\ Len(w) \in Nat
    BY DEF TypeInv, TypeOK
<1>2. PICK free \in 0 .. Len(w) :
            /\ Len(active) + free <= n
            /\ active' = active \o SubSeq(w, 1, free)
            /\ queued' = SubSeq(w, free + 1, Len(w))
    <2> DEFINE free == Min({n - Len(active), Len(w)})
    <2>1. free = IF n - Len(active) <= Len(w) THEN n - Len(active) ELSE Len(w)
        BY <1>1, MinIs
    <2>2. active' = active \o SubSeq(w, 1, free) /\ queued' = SubSeq(w, free + 1, Len(w))
        BY Zenon DEF FillSlots
    <2> HIDE DEF free
    <2>3. free \in 0 .. Len(w) /\ Len(active) + free <= n
        BY <1>1, <2>1
    <2>4. QED
        BY <2>2, <2>3, Zenon
<1>3. at' = "poll" /\ cursor' = 1 /\ freed' = FALSE
    BY Zenon DEF FillSlots
<1>4. /\ active' \in Seq(Jobs) /\ queued' \in Seq(Jobs) /\ Len(active') = Len(active) + free
      /\ IsInjective(active') /\ IsInjective(queued') /\ Range(active') \cap Range(queued') = {}
      /\ Range(active') \cup Range(queued') = Range(active) \cup Range(w)
      /\ Range(active) \subseteq Range(active')
      /\ Range(active') \subseteq Range(active) \cup Range(w) /\ Range(queued') \subseteq Range(w)
    BY <1>1, <1>2, FillIs
<1>5. QED
    BY <1>2, <1>3, <1>4, Zenon

(* advance takes the next stage and fills its slots.                       *)
LEMMA NextStageKeeps ==
    ASSUME IInv, NextStage
    PROVE  IInv'
<1> DEFINE h == Head(stages).jobs
           n == StageSlots(Head(stages))
<1>1. /\ TypeInv /\ PlacesApart /\ StagesInTurn /\ OpenIsUnreported /\ NoneIsForgotten
      /\ ReportsAgree /\ ControlHolds /\ SlotsHold /\ ChildrenAreOwned /\ TasksHold
      /\ ErrorsHold /\ SuccessMeansAllPassed
    BY Zenon DEF IInv
<1>2. run \in Plans /\ stages \in Seq(Stage) /\ appended \in BOOLEAN /\ stages # << >>
    BY <1>1, Zenon DEF TypeInv, TypeOK, NextStage
<1>3. Head(stages) \in Stage /\ h \in Seq(Jobs) /\ Head(stages).parallel \in BOOLEAN
        /\ Tail(stages) \in Seq(Stage)
    <2>1. Head(stages) \in Stage /\ Tail(stages) \in Seq(Stage)
        BY <1>2
    <2>2. QED
        BY <2>1, Zenon DEF Stage
<1>4. active = << >> /\ queued = << >> /\ pending = {} /\ at \in {"loop", "idle"}
    BY <1>1, Zenon DEF NextStage, ControlHolds, StageIsOver, AtTop
<1>5. n \in Nat /\ (run.sequential => n <= 1)
    <2>1. limit \in Nat \ {0} /\ Len(h) \in Nat /\ run.sequential \in BOOLEAN
        <3>1. limit \in Limits
            BY <1>1, Zenon DEF TypeInv, TypeOK
        <3>2. Limits \subseteq Nat \ {0}
            BY PlansAssumption, Zenon
        <3>3. run.sequential \in BOOLEAN
            BY <1>2, PlanIs, Zenon
        <3>4. QED
            BY <1>3, <3>1, <3>2, <3>3
    <2>2. (IF run.sequential THEN 1 ELSE limit) \in Int
        BY <2>1
    <2>3. Min({IF run.sequential THEN 1 ELSE limit, Len(h)})
            = IF (IF run.sequential THEN 1 ELSE limit) <= Len(h)
              THEN (IF run.sequential THEN 1 ELSE limit) ELSE Len(h)
        BY <2>1, <2>2, MinIs
    <2>4. QED
        BY <1>3, <2>1, <2>3 DEF StageSlots
<1>6. FillSlots(h, n) /\ stages' = Tail(stages) /\ stageLimit' = n
        /\ UNCHANGED <<modeVars, back, phase, services, pending, job, reportVars>>
    BY Zenon DEF NextStage
<1>7. /\ Ahead \in Seq(Stage) /\ Ahead # << >> /\ Head(Ahead) = Head(stages)
      /\ Tail(Ahead) = AheadOf(run, Tail(stages), appended)
    BY <1>2, AheadIs, Zenon DEF Ahead
<1>8. Ahead' = Tail(Ahead)
    BY <1>6, <1>7, Zenon DEF Ahead, modeVars
<1>9. /\ JobsOf(Ahead) = Range(h) \cup JobsOf(Ahead')
      /\ JobsOf(stages) = Range(h) \cup JobsOf(stages')
    BY <1>2, <1>6, <1>7, <1>8, JobsOfIs, Zenon
<1>10. InTurn(run, Ahead)
    BY <1>1, Zenon DEF StagesInTurn
<1>11. /\ InTurn(run, Ahead') /\ IsInjective(h)
       /\ \A i \in Range(h), j \in JobsOf(Ahead') : StageIn(run, i) < StageIn(run, j)
       /\ \A i, j \in Range(h) : StageIn(run, i) = StageIn(run, j)
       /\ \A i \in Range(h) : StageIn(run, i) \in Nat
    BY <1>7, <1>8, <1>10, TailInTurn, Zenon
<1>12. Range(active) = {} /\ Range(queued) = {} /\ IsInjective(active) /\ Len(active) = 0
    BY <1>1, <1>4, RangeIs DEF PlacesApart, TypeInv, TypeOK
<1> HIDE DEF h, n
<1>13. /\ active' \in Seq(Jobs) /\ queued' \in Seq(Jobs) /\ Len(active') <= n
       /\ IsInjective(active') /\ IsInjective(queued') /\ Range(active') \cap Range(queued') = {}
       /\ Range(active') \cup Range(queued') = Range(h)
       /\ at' = "poll" /\ cursor' = 1 /\ freed' = FALSE
    <2>1. Len(active) <= n /\ Range(active) \cap Range(h) = {}
        BY <1>5, <1>12
    <2>2. QED
        BY <1>1, <1>3, <1>5, <1>6, <1>11, <1>12, <2>1, FillKeeps, Zenon
<1>14. TypeInv'
    <2>1. ModesTyped' /\ TasksTyped' /\ ReportsTyped'
        BY <1>1, <1>6, TypeInvIs, FrameTypes, Zenon
    <2>2. ControlTyped /\ PlacesTyped
        BY <1>1, TypeInvIs, Zenon
    <2>3. ControlTyped'
        <3>1. at' = "poll" /\ cursor' = 1 /\ freed' = FALSE /\ back' = back /\ phase' = phase
            BY <1>6, <1>13, Zenon
        <3>2. cursor' \in Nat \ {0}
            BY <3>1
        <3>3. freed' \in BOOLEAN /\ at' \in {"poll"} /\ back' = back /\ phase' = phase
            BY <3>1, Zenon
        <3>4. QED
            BY <2>2, <3>2, <3>3, Zenon DEF ControlTyped
    <2>4. PlacesTyped'
        BY <1>3, <1>5, <1>6, <1>13, <2>2, Zenon DEF PlacesTyped
    <2>5. QED
        BY <2>1, <2>3, <2>4, TypeInvNext, Zenon
<1>15. Current' = Range(h) /\ Held' = Range(h) \cup Range(services) /\ Held = Range(services)
    BY <1>4, <1>6, <1>12, <1>13, Zenon DEF Held, Current
<1>16. PlacesApart'
    <2>1. \A i \in Range(services), j \in Range(h) : StageIn(run, i) < StageIn(run, j)
        BY <1>1, <1>9, <1>15, Zenon DEF StagesInTurn
    <2>2. \A i \in Range(services) : StageIn(run, i) \in Nat
        BY <1>1, <1>15, Zenon DEF StagesInTurn
    <2>3. Range(services) \cap Range(h) = {}
        BY <1>11, <2>1, <2>2
    <2>4. QED
        BY <1>1, <1>4, <1>6, <1>13, <1>15, <2>3, Zenon DEF PlacesApart
<1>17. StagesInTurn'
    <2>1. \A i \in Range(services), j \in JobsOf(Ahead) : StageIn(run, i) < StageIn(run, j)
        BY <1>1, <1>15, Zenon DEF StagesInTurn
    <2>2. \A i \in Range(services) : StageIn(run, i) \in Nat
        BY <1>1, <1>15, Zenon DEF StagesInTurn
    <2>3. \A i \in Range(services), j \in Range(h) : StageIn(run, i) <= StageIn(run, j)
        BY <1>9, <1>11, <2>1, <2>2
    <2>4. run' = run /\ services' = services
        BY <1>6, Zenon DEF modeVars
    <2>5. \A i \in Held', j \in JobsOf(Ahead') : StageIn(run, i) < StageIn(run, j)
        BY <1>9, <1>11, <1>15, <2>1, Zenon
    <2>6. QED
        BY <1>11, <1>15, <2>2, <2>3, <2>4, <2>5, Zenon DEF StagesInTurn
<1>18. OpenIsUnreported'
    BY <1>1, <1>6, <1>9, <1>15, Zenon DEF OpenIsUnreported, reportVars
<1>19. NoneIsForgotten'
    <2>1. \A j \in Planned : j \in Held \cup JobsOf(stages) \/ outcome[j] # << >>
        BY <1>1, <1>4, Zenon DEF NoneIsForgotten, Ended
    <2>2. Planned' = Planned /\ outcome' = outcome
        BY <1>6, Zenon DEF Planned, modeVars, reportVars
    <2>3. QED
        BY <1>9, <1>13, <1>15, <2>1, <2>2, Zenon DEF NoneIsForgotten
<1>20. ReportsAgree'
    BY <1>1, <1>4, <1>6, FrameReports, Zenon DEF modeVars, reportVars
<1>21. hook' = "none" /\ SuccessMeansAllPassed'
    BY <1>1, <1>4, <1>6, NoHookYet, Zenon DEF reportVars
<1>22. ControlHolds'
    BY <1>13, <1>21, Zenon DEF ControlHolds, Recovering, Closing, Ended, AtTop
<1>23. SlotsHold'
    BY <1>4, <1>5, <1>6, <1>13, Zenon DEF SlotsHold, modeVars
<1>24. ChildrenAreOwned'
    BY <1>1, <1>4, <1>6, <1>12, Zenon DEF ChildrenAreOwned
<1>25. TasksHold'
    <2>1. Range(queued') \cup JobsOf(Ahead') \subseteq JobsOf(Ahead) /\ Range(active') \subseteq JobsOf(Ahead)
        BY <1>9, <1>13, Zenon
    <2>2. QED
        BY <1>1, <1>6, <2>1, Zenon DEF TasksHold, modeVars
<1>26. ErrorsHold'
    <2>1. \A j \in Range(active') : ~job[j].failed
        BY <1>1, <1>9, <1>13, Zenon DEF TasksHold
    <2>2. \A j : Unforgiven(j)' <=> Unforgiven(j)
        BY <1>6, <1>12, <2>1, SMTT(30) DEF Unforgiven, modeVars
    <2>3. QED
        BY <1>1, <1>4, <1>6, <1>13, <2>2, Zenon DEF ErrorsHold, reportVars
<1>27. QED
    BY <1>14, <1>16, <1>17, <1>18, <1>19, <1>20, <1>21, <1>22, <1>23, <1>24, <1>25, <1>26, ZenonT(40) DEF IInv

(* Slots that a pass freed are filled from the queue.                      *)
LEMMA RefillKeeps ==
    ASSUME IInv, Refill
    PROVE  IInv'
<1>1. /\ TypeInv /\ PlacesApart /\ StagesInTurn /\ OpenIsUnreported /\ NoneIsForgotten
      /\ ReportsAgree /\ ControlHolds /\ SlotsHold /\ ChildrenAreOwned /\ TasksHold
      /\ ErrorsHold /\ SuccessMeansAllPassed
    BY Zenon DEF IInv
<1>2. ModesTyped /\ ControlTyped /\ PlacesTyped /\ TasksTyped /\ ReportsTyped
    BY <1>1, TypeInvIs, Zenon
<1>3. /\ at \in {"loop", "idle"} /\ FillSlots(queued, stageLimit)
      /\ UNCHANGED <<modeVars, back, phase, stages, services, pending, stageLimit, job, reportVars>>
    BY Zenon DEF Refill, AtTop
<1>4. /\ active' \in Seq(Jobs) /\ queued' \in Seq(Jobs) /\ Len(active') <= stageLimit
      /\ IsInjective(active') /\ IsInjective(queued') /\ Range(active') \cap Range(queued') = {}
      /\ Range(active') \cup Range(queued') = Range(active) \cup Range(queued)
      /\ Range(active) \subseteq Range(active') /\ Range(queued') \subseteq Range(queued)
      /\ Range(active') \subseteq Range(active) \cup Range(queued)
      /\ at' = "poll" /\ cursor' = 1 /\ freed' = FALSE
    <2>1. queued \in Seq(Jobs) /\ stageLimit \in Nat /\ Len(active) <= stageLimit
        BY <1>1, <1>2, Zenon DEF PlacesTyped, SlotsHold
    <2>2. IsInjective(active) /\ IsInjective(queued) /\ Range(active) \cap Range(queued) = {}
        BY <1>1, Zenon DEF PlacesApart
    <2>3. QED
        BY <1>1, <1>3, <2>1, <2>2, FillKeeps, Zenon
<1>5. /\ run' = run /\ appended' = appended /\ stages' = stages /\ services' = services
      /\ pending' = pending /\ stageLimit' = stageLimit /\ job' = job /\ errors' = errors
      /\ terminal' = terminal /\ outcome' = outcome /\ hook' = hook
    BY <1>3, Zenon DEF modeVars, reportVars
<1>6. Current' = Current /\ Held' = Held /\ Ahead' = Ahead
    BY <1>4, <1>5, Zenon DEF Held, Current, Ahead
<1>7. TypeInv'
    <2>1. ModesTyped' /\ TasksTyped' /\ ReportsTyped'
        BY <1>2, <1>3, FrameTypes, Zenon
    <2>2. ControlTyped'
        <3>1. at' = "poll" /\ cursor' = 1 /\ freed' = FALSE /\ back' = back /\ phase' = phase
            BY <1>3, <1>4
        <3>2. cursor' \in Nat \ {0}
            BY <3>1
        <3>3. freed' \in BOOLEAN /\ at' \in {"poll"} /\ back' = back /\ phase' = phase
            BY <3>1, Zenon
        <3>4. QED
            BY <1>2, <3>2, <3>3, Zenon DEF ControlTyped
    <2>3. PlacesTyped'
        BY <1>2, <1>4, <1>5, Zenon DEF PlacesTyped
    <2>4. QED
        BY <2>1, <2>2, <2>3, TypeInvNext, Zenon
<1>8. PlacesApart'
    BY <1>1, <1>4, <1>5, <1>6, Zenon DEF PlacesApart
<1>9. StagesInTurn'
    BY <1>1, <1>5, <1>6, Zenon DEF StagesInTurn
<1>10. OpenIsUnreported'
    BY <1>1, <1>5, <1>6, Zenon DEF OpenIsUnreported
<1>11. NoneIsForgotten'
    BY <1>1, <1>3, <1>4, <1>5, <1>6, Zenon DEF NoneIsForgotten, Planned, Ended
<1>12. ReportsAgree'
    BY <1>1, <1>3, <1>5, FrameReports, Zenon
<1>13. hook' = "none" /\ SuccessMeansAllPassed'
    BY <1>1, <1>3, <1>5, NoHookYet, Zenon
<1>14. ControlHolds'
    BY <1>4, <1>13, Zenon DEF ControlHolds, Recovering, Closing, Ended, AtTop
<1>15. SlotsHold'
    BY <1>1, <1>4, <1>5, Zenon DEF SlotsHold
<1>16. ChildrenAreOwned'
    BY <1>1, <1>3, <1>4, <1>5, Zenon DEF ChildrenAreOwned
<1>17. TasksHold'
    BY <1>1, <1>4, <1>5, <1>6, Zenon DEF TasksHold
<1>18. ErrorsHold'
    <2>1. \A j \in Range(queued) : ~job[j].failed
        BY <1>1, Zenon DEF TasksHold
    <2>2. \A j : Unforgiven(j)' <=> Unforgiven(j)
        BY <1>4, <1>5, <2>1, Zenon DEF Unforgiven
    <2>3. QED
        BY <1>1, <1>3, <1>4, <1>5, <2>2, Zenon DEF ErrorsHold
<1>19. QED
    BY <1>7, <1>8, <1>9, <1>10, <1>11, <1>12, <1>13, <1>14, <1>15, <1>16, <1>17, <1>18, Zenon DEF IInv

-----------------------------------------------------------------------------
(* Steps that only move the thread, and those of other threads.            *)

(* advance finds no stage left.                                            *)
LEMMA NoStageLeftKeeps ==
    ASSUME IInv, NoStageLeft
    PROVE  IInv'
<1>1. TypeInv /\ ControlHolds
    BY Zenon DEF IInv
<1>2. ModesTyped /\ ControlTyped
    BY <1>1, TypeInvIs, Zenon
<1>3. UNCHANGED <<modeVars, freed, back, phase, placeVars, job, reportVars>>
    BY Zenon DEF NoStageLeft
<1>4. at \in {"loop", "idle"} /\ at' \in {"finish", "keep"} /\ cursor' = 1
    BY Zenon DEF NoStageLeft, AtTop
<1>5. ControlTyped'
    BY <1>2, <1>3, <1>4 DEF ControlTyped
<1>6. StageIsOver /\ stages = << >> /\ pending = {} /\ (at' = "finish" => services = << >>)
    BY <1>1, Zenon DEF NoStageLeft, ControlHolds
<1>7. hook = "none"
    BY <1>1, <1>4, Zenon DEF ControlHolds
<1>8. ControlHolds'
    BY <1>3, <1>4, <1>6, <1>7, Zenon
        DEF ControlHolds, Recovering, Closing, Ended, AtTop, StageIsOver, placeVars, reportVars
<1>9. QED
    BY <1>2, <1>3, <1>4, <1>5, <1>8, FrameTypes, ControlKeeps, Zenon DEF modeVars, Ended

(* The pass over the active tasks ends.                                    *)
LEMMA PassEndsKeeps ==
    ASSUME IInv, PassEnds
    PROVE  IInv'
<1>1. TypeInv /\ ControlHolds
    BY Zenon DEF IInv
<1>2. ModesTyped /\ ControlTyped
    BY <1>1, TypeInvIs, Zenon
<1>3. UNCHANGED <<modeVars, freed, back, phase, placeVars, job, reportVars>>
    BY Zenon DEF PassEnds
<1>4. at = "poll" /\ at' = "services" /\ cursor' = 1
    BY Zenon DEF PassEnds
<1>5. ControlTyped'
    BY <1>2, <1>3, <1>4 DEF ControlTyped
<1>6. ControlHolds'
    BY <1>1, <1>3, <1>4, Zenon DEF ControlHolds, Recovering, Closing, Ended, AtTop, reportVars
<1>7. QED
    BY <1>2, <1>3, <1>4, <1>5, <1>6, FrameTypes, ControlKeeps, Zenon DEF modeVars, Ended

(* A service that runs on is passed over.                                  *)
LEMMA ServiceStaysKeeps ==
    ASSUME IInv, ServiceStays
    PROVE  IInv'
<1>1. TypeInv /\ ControlHolds
    BY Zenon DEF IInv
<1>2. ModesTyped /\ ControlTyped
    BY <1>1, TypeInvIs, Zenon
<1>3. UNCHANGED <<modeVars, at, freed, back, phase, placeVars, job, reportVars>>
    BY Zenon DEF ServiceStays
<1>4. at \in {"services", "keep"} /\ cursor' = cursor + 1
    BY Zenon DEF ServiceStays, PollingServices
<1>5. ControlTyped'
    BY <1>2, <1>3, <1>4 DEF ControlTyped
<1>6. ControlHolds'
    BY <1>1, <1>3, <1>4, Zenon
        DEF ControlHolds, Recovering, Closing, Ended, AtTop, StageIsOver, placeVars, reportVars
<1>7. QED
    BY <1>2, <1>3, <1>4, <1>5, <1>6, FrameTypes, ControlKeeps, Zenon DEF modeVars, Ended

(* advance returns: tasks or services keep the run alive.                  *)
LEMMA KeptAliveKeeps ==
    ASSUME IInv, KeptAlive
    PROVE  IInv'
<1>1. TypeInv /\ ControlHolds
    BY Zenon DEF IInv
<1>2. ModesTyped /\ ControlTyped
    BY <1>1, TypeInvIs, Zenon
<1>3. UNCHANGED <<modeVars, freed, back, phase, placeVars, job, reportVars>>
    BY Zenon DEF KeptAlive
<1>4. at = "keep" /\ at' = "idle" /\ cursor' = 1
    BY Zenon DEF KeptAlive
<1>5. ControlTyped'
    BY <1>2, <1>3, <1>4 DEF ControlTyped
<1>6. ControlHolds'
    BY <1>1, <1>3, <1>4, Zenon
        DEF ControlHolds, Recovering, Closing, Ended, AtTop, StageIsOver, placeVars, reportVars
<1>7. QED
    BY <1>2, <1>3, <1>4, <1>5, <1>6, FrameTypes, ControlKeeps, Zenon DEF modeVars, Ended

(* The stage is over: recovery, or the next stage.                         *)
LEMMA BarrierKeeps ==
    ASSUME IInv, Barrier
    PROVE  IInv'
<1>1. TypeInv /\ ControlHolds
    BY Zenon DEF IInv
<1>2. ModesTyped /\ ControlTyped
    BY <1>1, TypeInvIs, Zenon
<1>3. UNCHANGED <<modeVars, phase, placeVars, job, reportVars>>
    BY Zenon DEF Barrier
<1>4. /\ at \in {"poll", "services"} /\ at' \in {"resolve", "loop", "idle"}
      /\ back' = "loop" /\ cursor' = 1 /\ freed' = FALSE
    BY Zenon DEF Barrier
<1>5. ControlTyped'
    <2>1. cursor' \in Nat \ {0}
        BY <1>4
    <2>2. freed' \in BOOLEAN /\ at' \in {"resolve", "loop", "idle"} /\ back' \in {"loop"} /\ phase' = phase
        BY <1>3, <1>4, Zenon
    <2>3. QED
        BY <1>2, <2>1, <2>2, Zenon DEF ControlTyped
<1>6. /\ at' = "resolve" => StageIsOver /\ pending # {}
      /\ at' # "resolve" /\ StageIsOver => pending = {}
    BY Zenon DEF Barrier
<1>7. hook = "none"
    BY <1>1, <1>4, Zenon DEF ControlHolds
<1>8. ControlHolds'
    BY <1>3, <1>4, <1>6, <1>7, Zenon
        DEF ControlHolds, Recovering, Closing, Ended, AtTop, StageIsOver, placeVars, reportVars
<1>9. QED
    BY <1>2, <1>3, <1>4, <1>5, <1>8, FrameTypes, ControlKeeps, Zenon DEF modeVars, Ended

(* The answer of the prompt is taken.                                      *)
LEMMA ApprovalKeeps ==
    ASSUME IInv, AskApproval \/ Approve \/ ApprovalIsCancelled
    PROVE  IInv'
<1>1. TypeInv /\ ControlHolds
    BY Zenon DEF IInv
<1>2. ModesTyped /\ ControlTyped
    BY <1>1, TypeInvIs, Zenon
<1>3. UNCHANGED <<modeVars, cursor, freed, back, phase, placeVars, job, reportVars>>
    BY Zenon DEF AskApproval, Approve, ApprovalIsCancelled
<1>4. at \in {"resolve", "approval"} /\ at' \in {"approval", "approved", "idle"}
    BY Zenon DEF AskApproval, Approve, ApprovalIsCancelled
<1>5. at' = "idle" => token
    BY Zenon DEF AskApproval, Approve, ApprovalIsCancelled
<1>6. ControlTyped'
    BY <1>2, <1>3, <1>4, Zenon DEF ControlTyped
<1>7. ControlHolds'
    BY <1>1, <1>3, <1>4, <1>5, Zenon
        DEF ControlHolds, Recovering, Closing, Ended, AtTop, StageIsOver, placeVars, reportVars,
            modeVars
<1>8. QED
    BY <1>2, <1>3, <1>4, <1>6, <1>7, FrameTypes, ControlKeeps, Zenon DEF modeVars, Ended

(* A cancel is requested, or a reload sets the limit.                      *)
LEMMA OthersKeep ==
    ASSUME IInv, RequestCancel \/ \E n \in Limits : SetConcurrencyLimit(n)
    PROVE  IInv'
<1>1. TypeInv /\ ControlHolds
    BY Zenon DEF IInv
<1>2. ModesTyped /\ ControlTyped
    BY <1>1, TypeInvIs, Zenon
<1>3. UNCHANGED <<run, appended, controlVars, placeVars, job, reportVars>>
    BY Zenon DEF RequestCancel, SetConcurrencyLimit
<1>4. at \notin Ended /\ at' \notin Ended
    BY <1>3, Zenon DEF RequestCancel, SetConcurrencyLimit, Ended, controlVars
<1>5. ModesTyped' /\ (token => token')
    BY <1>2, Zenon DEF ModesTyped, RequestCancel, SetConcurrencyLimit
<1>6. ControlTyped'
    BY <1>2, <1>3, FrameTypes, Zenon
<1>7. ControlHolds'
    BY <1>1, <1>3, <1>5, Zenon
        DEF ControlHolds, AtTop, StageIsOver, controlVars, placeVars, reportVars
<1>8. QED
    BY <1>3, <1>4, <1>5, <1>6, <1>7, ControlKeeps, Zenon DEF controlVars

-----------------------------------------------------------------------------
(* Steps that change a task and move none.                                 *)

(* A step that replaces one task.                                          *)
LEMMA UpdateIs ==
    ASSUME TasksTyped, NEW p \in Jobs, NEW t \in Task, job' = [job EXCEPT ![p] = t]
    PROVE  TasksTyped' /\ job'[p] = t /\ \A j \in Jobs : j # p => job'[j] = job[j]
BY Zenon DEF TasksTyped

(* The task at the cursor, what a poll makes of it, and of the errors.     *)
LEMMA PollIs ==
    ASSUME IInv, at = "poll", cursor <= Len(active),
           NEW attempt \in Attempts(job[Polled], run.failFast)
    PROVE  /\ cursor \in 1 .. Len(active) /\ Polled \in Range(active) /\ Polled \in Jobs
           /\ attempt.task \in Task /\ attempt.error \in BOOLEAN
           /\ attempt.step \in {"again", "Running", "Finished", "FailedFast"}
           /\ attempt.task.child <=> attempt.step = "Running"
           /\ attempt.task.recovery = job[Polled].recovery
           /\ attempt.task.defer = attempt.task.recovery
           /\ attempt.task.recovery => Polled \notin run.services
           /\ attempt.step = "FailedFast" => /\ run.failFast /\ attempt.task.failed
                                             /\ attempt.error = ~attempt.task.defer
           /\ attempt.task.failed /\ ~attempt.task.defer => errors \/ attempt.error
           /\ attempt.error => attempt.task.failed /\ ~attempt.task.defer
           /\ job[Polled].failed => attempt.task.failed
           /\ run.failFast /\ attempt.task.failed => attempt.step = "FailedFast"
<1>1. TypeInv /\ TasksHold /\ ErrorsHold
    BY Zenon DEF IInv
<1>2. ModesTyped /\ ControlTyped /\ PlacesTyped /\ TasksTyped
    BY <1>1, TypeInvIs, Zenon
<1>3. active \in Seq(Jobs) /\ cursor \in Nat \ {0} /\ run \in Plans
    BY <1>2, Zenon DEF ModesTyped, ControlTyped, PlacesTyped
<1>4. cursor \in 1 .. Len(active) /\ Polled \in Range(active) /\ Polled \in Jobs
    <2>1. cursor \in 1 .. Len(active)
        BY <1>3
    <2>2. QED
        BY <1>3, <2>1, RangeIs, Zenon DEF Polled
<1>5. job[Polled] \in Task
    BY <1>2, <1>4, Zenon DEF TasksTyped
<1>6. run.failFast \in BOOLEAN /\ \A j \in run.services : run.recovery[j] = 0
    BY <1>3, PlanIs, Zenon
<1>7. /\ job[Polled].defer = job[Polled].recovery
      /\ job[Polled].recovery => run.recovery[Polled] > 0
      /\ run.failFast => ~job[Polled].failed
    BY <1>1, <1>4, Zenon DEF TasksHold
<1>8. job[Polled].failed /\ ~job[Polled].defer => errors
    BY <1>1, <1>4, Zenon DEF ErrorsHold, Unforgiven
<1>9. AttemptHolds(job[Polled], run.failFast, attempt)
    BY <1>5, <1>6, AttemptIs, Zenon
<1>10. attempt.task.recovery => Polled \notin run.services
    BY <1>4, <1>6, <1>7, <1>9, SMTT(30) DEF AttemptHolds
<1>11. QED
    BY <1>4, <1>7, <1>8, <1>9, <1>10, Zenon DEF AttemptHolds

(* A poll that ends a command and looks at the task again.                 *)
LEMMA PollAgainKeeps ==
    ASSUME IInv, at = "poll", cursor <= Len(active),
           NEW attempt \in Attempts(job[Polled], run.failFast), PollAgain(attempt)
    PROVE  IInv'
<1>1. /\ TypeInv /\ PlacesApart /\ StagesInTurn /\ ControlHolds /\ ChildrenAreOwned /\ TasksHold
      /\ ErrorsHold
    BY Zenon DEF IInv
<1>2. ModesTyped /\ ControlTyped /\ PlacesTyped /\ TasksTyped /\ ReportsTyped
    BY <1>1, TypeInvIs, Zenon
<1>3. /\ Polled \in Range(active) /\ Polled \in Jobs
      /\ attempt.task \in Task /\ attempt.error \in BOOLEAN
      /\ attempt.task.recovery = job[Polled].recovery
      /\ attempt.task.defer = attempt.task.recovery
      /\ attempt.task.recovery => Polled \notin run.services
      /\ attempt.task.failed /\ ~attempt.task.defer => errors \/ attempt.error
      /\ attempt.error => attempt.task.failed /\ ~attempt.task.defer
      /\ job[Polled].failed => attempt.task.failed
      /\ run.failFast /\ attempt.task.failed => attempt.step = "FailedFast"
    BY PollIs, Zenon
<1>4. /\ attempt.step = "again" /\ job' = [job EXCEPT ![Polled] = attempt.task]
      /\ errors' = (errors \/ attempt.error)
      /\ UNCHANGED <<modeVars, controlVars, placeVars, terminal, outcome, hook>>
    BY Zenon DEF PollAgain, PollWith
<1>5. /\ TasksTyped' /\ job'[Polled] = attempt.task
      /\ \A j \in Jobs : j # Polled => job'[j] = job[j]
    BY <1>2, <1>3, <1>4, UpdateIs, Zenon
<1>6. ModesTyped' /\ ControlTyped' /\ at' = at /\ at \notin Ended
    BY <1>2, <1>4, FrameTypes, Zenon DEF controlVars, Ended
<1>7. ReportsTyped'
    <2>1. errors' \in BOOLEAN
        BY <1>2, <1>3, <1>4, Zenon DEF ReportsTyped
    <2>2. QED
        BY <1>2, <1>4, <2>1, Zenon DEF ReportsTyped
<1>8. /\ run' = run /\ stages' = stages /\ appended' = appended /\ queued' = queued
      /\ active' = active /\ services' = services /\ pending' = pending /\ outcome' = outcome
      /\ Ahead' = Ahead
    BY <1>4, Zenon DEF modeVars, placeVars, Ahead
<1>9. ControlHolds'
    BY <1>1, <1>4, <1>6, Zenon DEF ControlHolds, Recovering, Closing, Ended, AtTop, controlVars
<1>10. ChildrenAreOwned'
    BY <1>1, <1>3, <1>5, <1>6, <1>8, Zenon DEF ChildrenAreOwned
<1>11. Polled \notin Range(services) /\ Polled \notin Range(queued) /\ Polled \notin JobsOf(Ahead)
    BY <1>1, <1>3, HeldIsNotAhead, Zenon DEF PlacesApart, Held, Current
<1>12. TasksHold'
    <2>1. Range(services) \subseteq Jobs /\ Range(queued) \subseteq Jobs /\ Range(active) \subseteq Jobs
        BY <1>2, RangeIs, Zenon DEF PlacesTyped
    <2>2. JobsOf(Ahead) \subseteq Jobs
        BY <1>2, AheadIs, JobsOfIs, Zenon DEF Ahead, ModesTyped, PlacesTyped
    <2>3. \A j \in Range(services) : job'[j] = job[j]
        BY <1>5, <1>11, <2>1, Zenon
    <2>4. \A j \in Range(queued) \cup JobsOf(Ahead) : job'[j] = job[j]
        BY <1>5, <1>11, <2>1, <2>2, Zenon
    <2>5. run.failFast => \A j \in Range(active) : ~job'[j].failed
        BY <1>1, <1>3, <1>4, <1>5, <2>1, Zenon DEF TasksHold
    <2>6. \A j \in Jobs : job'[j].recovery = job[j].recovery /\ job'[j].defer = job'[j].recovery
        <3>1. \A j \in Jobs : job[j].defer = job[j].recovery
            BY <1>1, Zenon DEF TasksHold
        <3>2. QED
            BY <1>3, <1>5, <3>1, Zenon
    <2>7. QED
        BY <1>1, <1>8, <2>3, <2>4, <2>5, <2>6, Zenon DEF TasksHold
<1>13. ErrorsHold'
    <2>1. PICK p \in Jobs : p = Polled
        BY <1>3, Zenon
    <2>2. \A j \in Jobs : j # p => (Unforgiven(j)' <=> Unforgiven(j))
        BY <1>5, <1>8, <2>1, Zenon DEF Unforgiven
    <2>3. job[p].defer = job'[p].defer /\ (job[p].failed => job'[p].failed) /\ p \in Range(active)
        BY <1>1, <1>3, <1>5, <2>1, Zenon DEF TasksHold
    <2>4. Unforgiven(p) => Unforgiven(p)'
        BY <1>8, <2>3, Zenon DEF Unforgiven
    <2>5. attempt.error => Unforgiven(p)'
        BY <1>3, <1>5, <1>8, <2>1, Zenon DEF Unforgiven
    <2>6. Unforgiven(p)' => errors'
        BY <1>3, <1>4, <1>5, <1>8, <2>1, Zenon DEF Unforgiven
    <2>7. errors' => \E j \in Jobs : outcome'[j] = << "Failed" >> \/ Unforgiven(j)'
        <3>1. CASE errors
            <4>1. PICK j \in Jobs : outcome[j] = << "Failed" >> \/ Unforgiven(j)
                BY <1>1, <1>6, <3>1, Zenon DEF ErrorsHold, Ended
            <4>2. QED
                BY <1>8, <2>2, <2>4, <4>1, Zenon
        <3>2. QED
            BY <1>4, <2>5, <3>1, Zenon
    <2>8. \A j \in Jobs : outcome'[j] = << "Failed" >> \/ Unforgiven(j)' => errors'
        BY <1>1, <1>4, <1>8, <2>2, <2>6, Zenon DEF ErrorsHold
    <2>9. QED
        BY <2>7, <2>8, Zenon DEF ErrorsHold
<1>14. QED
    BY <1>4, <1>5, <1>6, <1>7, <1>8, <1>9, <1>10, <1>12, <1>13, SamePlacesKeep, SMTT(30) DEF modeVars

(* The service at the cursor.                                              *)
LEMMA WatchedIs ==
    ASSUME IInv, PollingServices
    PROVE  /\ cursor \in 1 .. Len(services) /\ Watched \in Range(services) /\ Watched \in Jobs
           /\ Watched \in run.services /\ job[Watched] \in Task
           /\ Watched \notin Current /\ Watched \notin JobsOf(Ahead)
<1>1. TypeInv /\ TasksHold /\ PlacesApart /\ StagesInTurn
    BY Zenon DEF IInv
<1>2. services \in Seq(Jobs) /\ cursor \in Nat \ {0} /\ job \in [Jobs -> Task]
    BY <1>1, TypeInvIs, Zenon DEF ControlTyped, PlacesTyped, TasksTyped
<1>3. cursor \in 1 .. Len(services)
    BY <1>2 DEF PollingServices
<1>4. Watched \in Range(services) /\ Watched \in Jobs
    BY <1>2, <1>3, RangeIs, Zenon DEF Watched
<1>5. QED
    BY <1>1, <1>2, <1>3, <1>4, HeldIsNotAhead, Zenon DEF TasksHold, PlacesApart, Held

(* A service whose task changes and that stays.                            *)
LEMMA ServiceChangeKeeps ==
    ASSUME IInv, PollingServices, NEW t \in Task, job' = [job EXCEPT ![Watched] = t],
           t.recovery = job[Watched].recovery, t.defer = job[Watched].defer,
           t.failed = job[Watched].failed, t.child \/ t.left > 0, cursor' = cursor + 1,
           UNCHANGED <<modeVars, at, freed, back, phase, placeVars, reportVars>>
    PROVE  IInv'
<1>1. TypeInv /\ PlacesApart /\ ControlHolds /\ ChildrenAreOwned /\ TasksHold /\ ErrorsHold
    BY Zenon DEF IInv
<1>2. ModesTyped /\ ControlTyped /\ PlacesTyped /\ TasksTyped /\ ReportsTyped
    BY <1>1, TypeInvIs, Zenon
<1>3. PICK p \in Jobs : p = Watched
    BY WatchedIs, Zenon
<1>4. /\ p \in Range(services) /\ p \in run.services /\ p \notin Current /\ p \notin JobsOf(Ahead)
    BY <1>3, WatchedIs, Zenon
<1>5. TasksTyped' /\ job'[p] = t /\ \A j \in Jobs : j # p => job'[j] = job[j]
    BY <1>2, <1>3, UpdateIs, Zenon
<1>6. ModesTyped' /\ ReportsTyped'
    BY <1>2, FrameTypes, Zenon
<1>7. ControlTyped' /\ at \in {"services", "keep"}
    BY <1>2 DEF ControlTyped, PollingServices
<1>8. /\ run' = run /\ stages' = stages /\ appended' = appended /\ queued' = queued
      /\ active' = active /\ services' = services /\ pending' = pending /\ outcome' = outcome
      /\ Ahead' = Ahead /\ errors' = errors /\ hook' = hook /\ token' = token
    BY Zenon DEF modeVars, placeVars, reportVars, Ahead
<1>9. ControlHolds'
    BY <1>1, <1>7, <1>8, Zenon DEF ControlHolds, Recovering, Closing, Ended, AtTop, StageIsOver
<1>10. ChildrenAreOwned'
    BY <1>1, <1>4, <1>5, <1>8, Zenon DEF ChildrenAreOwned
<1>11. \A j \in Jobs : /\ job'[j].recovery = job[j].recovery /\ job'[j].defer = job[j].defer
                       /\ job'[j].failed = job[j].failed
    BY <1>3, <1>5, Zenon
<1>12. TasksHold'
    <2>1. /\ Range(services) \subseteq Jobs /\ Range(queued) \subseteq Jobs
          /\ Range(active) \subseteq Jobs /\ JobsOf(Ahead) \subseteq Jobs
        BY <1>2, RangeIs, AheadIs, JobsOfIs, Zenon DEF Ahead, ModesTyped, PlacesTyped
    <2>2. \A j \in Range(services) : job'[j].child \/ job'[j].left > 0
        BY <1>1, <1>5, <2>1, Zenon DEF TasksHold
    <2>3. QED
        BY <1>1, <1>8, <1>11, <2>1, <2>2, Zenon DEF TasksHold
<1>13. ErrorsHold'
    <2>1. \A j \in Jobs : Unforgiven(j)' <=> Unforgiven(j)
        BY <1>8, <1>11 DEF Unforgiven
    <2>2. QED
        BY <1>1, <1>8, <2>1, Zenon DEF ErrorsHold
<1>14. QED
    BY <1>5, <1>6, <1>7, <1>8, <1>9, <1>10, <1>12, <1>13, SamePlacesKeep, SMTT(30)
        DEF modeVars, reportVars, Ended

(* A service that failed has its command put back.                         *)
LEMMA ServiceRestartsKeeps ==
    ASSUME IInv, ServiceRestarts
    PROVE  IInv'
<1> DEFINE old == job[Watched]
           t == [old EXCEPT !.child = FALSE, !.left = old.left + 1, !.restarts = old.restarts - 1]
<1>1. PollingServices /\ old.restarts > 0
    BY Zenon DEF ServiceRestarts
<1>2. Watched \in Jobs /\ old \in Task
    BY <1>1, WatchedIs, Zenon
<1>3. old.left + 1 \in Nat /\ old.left + 1 > 0 /\ old.restarts - 1 \in 0 .. MaxRestarts
    <2>1. old.left \in Nat /\ old.restarts \in 0 .. MaxRestarts
        BY <1>2, Zenon DEF Task
    <2>2. MaxRestarts \in Nat
        BY PlansAssumption, Zenon
    <2>3. QED
        BY <1>1, <2>1, <2>2
<1>4. /\ t \in Task /\ t.recovery = old.recovery /\ t.defer = old.defer /\ t.failed = old.failed
      /\ t.left > 0
    BY <1>2, <1>3, Zenon DEF Task
<1>5. job' = [job EXCEPT ![Watched] = t]
    <2>1. job \in [Jobs -> Task]
        BY TypeInvIs, Zenon DEF IInv, TasksTyped
    <2>2. job' = [job EXCEPT ![Watched].child = FALSE, ![Watched].left = @ + 1,
                             ![Watched].restarts = @ - 1]
        BY Zenon DEF ServiceRestarts
    <2>3. QED
        BY <1>2, <2>1, <2>2, Zenon DEF Task
<1>6. /\ cursor' = cursor + 1
      /\ UNCHANGED <<modeVars, at, freed, back, phase, placeVars, reportVars>>
    BY Zenon DEF ServiceRestarts
<1> HIDE DEF t
<1>7. QED
    BY <1>1, <1>4, <1>5, <1>6, ServiceChangeKeeps, Zenon

(* A service is started again.                                             *)
LEMMA ServiceRespawnsKeeps ==
    ASSUME IInv, ServiceRespawns
    PROVE  IInv'
<1> DEFINE old == job[Watched]
           t == [old EXCEPT !.child = TRUE, !.left = old.left - 1]
<1>1. PollingServices /\ ~old.child
    BY Zenon DEF ServiceRespawns
<1>2. Watched \in Jobs /\ old \in Task /\ Watched \in Range(services)
    BY <1>1, WatchedIs, Zenon
<1>3. old.left - 1 \in Nat
    <2>1. old.left \in Nat /\ old.left > 0
        BY <1>1, <1>2, Zenon DEF Task, IInv, TasksHold
    <2>2. QED
        BY <2>1
<1>4. /\ t \in Task /\ t.recovery = old.recovery /\ t.defer = old.defer /\ t.failed = old.failed
      /\ t.child
    BY <1>2, <1>3, Zenon DEF Task
<1>5. job' = [job EXCEPT ![Watched] = t]
    <2>1. job \in [Jobs -> Task]
        BY TypeInvIs, Zenon DEF IInv, TasksTyped
    <2>2. job' = [job EXCEPT ![Watched].child = TRUE, ![Watched].left = @ - 1]
        BY Zenon DEF ServiceRespawns
    <2>3. QED
        BY <1>2, <2>1, <2>2, Zenon DEF Task
<1>6. /\ cursor' = cursor + 1
      /\ UNCHANGED <<modeVars, at, freed, back, phase, placeVars, reportVars>>
    BY Zenon DEF ServiceRespawns
<1> HIDE DEF t
<1>7. QED
    BY <1>1, <1>4, <1>5, <1>6, ServiceChangeKeeps, Zenon

-----------------------------------------------------------------------------
(* Steps that take jobs out and report them.                               *)

(* Jobs stay in turn as they leave, or go to the background.               *)
LEMMA ShrinkInTurn ==
    ASSUME StagesInTurn, run' = run, InTurn(run, Ahead'), JobsOf(Ahead') \subseteq JobsOf(Ahead),
           Current' \subseteq Current, Range(services') \subseteq Held
    PROVE  StagesInTurn'
<1>1. Held' \subseteq Held
    BY Zenon DEF Held
<1>2. \A i \in Held : StageIn(run, i) \in Nat
    BY Zenon DEF StagesInTurn
<1>3. \A i \in Range(services'), j \in Current' : StageIn(run, i) <= StageIn(run, j)
    <2> SUFFICES ASSUME NEW i \in Range(services'), NEW j \in Current'
                 PROVE  StageIn(run, i) <= StageIn(run, j)
        BY Zenon
    <2>1. i \in Held /\ StageIn(run, i) \in Nat
        BY <1>2, Zenon
    <2>2. CASE i \in Range(services)
        BY <2>2, Zenon DEF StagesInTurn
    <2>3. CASE i \in Current
        <3>1. StageIn(run, i) = StageIn(run, j)
            BY <2>3, Zenon DEF StagesInTurn
        <3>2. QED
            BY <2>1, <3>1
    <2>4. QED
        BY <2>1, <2>2, <2>3, Zenon DEF Held
<1>4. \A i, j \in Current' : StageIn(run, i) = StageIn(run, j)
    BY Zenon DEF StagesInTurn
<1>5. \A i \in Held', j \in JobsOf(Ahead') : StageIn(run, i) < StageIn(run, j)
    BY <1>1, Zenon DEF StagesInTurn
<1>6. QED
    BY <1>1, <1>2, <1>3, <1>4, <1>5, Zenon DEF StagesInTurn

(* What is held or ahead is a job.                                         *)
LEMMA OpenAreJobs ==
    ASSUME TypeInv
    PROVE  /\ Held \subseteq Jobs /\ Range(services) \subseteq Jobs /\ Range(queued) \subseteq Jobs
           /\ Range(active) \subseteq Jobs /\ pending \subseteq Jobs /\ JobsOf(stages) \subseteq Jobs
           /\ JobsOf(Ahead) \subseteq Jobs /\ JobsOf(stages) \subseteq JobsOf(Ahead)
           /\ Planned \subseteq Jobs
<1>1. ModesTyped /\ PlacesTyped
    BY TypeInvIs, Zenon
<1>2. Range(services) \subseteq Jobs /\ Range(queued) \subseteq Jobs /\ Range(active) \subseteq Jobs
    BY <1>1, RangeIs, Zenon DEF PlacesTyped
<1>3. run \in Plans /\ stages \in Seq(Stage) /\ appended \in BOOLEAN /\ pending \subseteq Jobs
    BY <1>1, Zenon DEF ModesTyped, PlacesTyped
<1>4. Ahead \in Seq(Stage) /\ JobsOf(Ahead) = JobsOf(stages) \cup JobsOf(RestOf(run, appended))
    BY <1>3, AheadIs, Zenon DEF Ahead
<1>5. JobsOf(Ahead) \subseteq Jobs
    BY <1>4, JobsOfIs, Zenon
<1>6. JobsOf(run.stages) \subseteq Jobs /\ JobsOf(run.extra) \subseteq Jobs
    BY <1>3, PlanIs, JobsOfIs, Zenon
<1>7. Planned \subseteq Jobs
    BY <1>6, Zenon DEF Planned
<1>8. QED
    BY <1>2, <1>3, <1>4, <1>5, <1>7, Zenon DEF Held, Current

(* Jobs that are taken out are reported, and no other is.                  *)
LEMMA RecordKeeps ==
    ASSUME IInv, at \notin Ended, at' \notin Ended, run' = run, appended' = appended,
           NEW D, NEW result, D \subseteq Held \cup JobsOf(stages),
           result \in [D -> Outcomes], Record(result),
           Held' \cup JobsOf(stages') = (Held \cup JobsOf(stages)) \ D,
           JobsOf(Ahead') \subseteq JobsOf(Ahead) \ D
    PROVE  /\ OpenIsUnreported' /\ NoneIsForgotten' /\ ReportsAgree'
           /\ terminal' \in [Jobs -> Seq(Outcomes)] /\ outcome' \in [Jobs -> Seq(Outcomes)]
           /\ \A j \in D : j \in Jobs /\ outcome[j] = << >> /\ outcome'[j] = << result[j] >>
           /\ \A j \in Jobs \ D : outcome'[j] = outcome[j]
<1>1. TypeInv /\ OpenIsUnreported /\ NoneIsForgotten /\ ReportsAgree
    BY Zenon DEF IInv
<1>2. ReportsTyped
    BY <1>1, TypeInvIs, Zenon
<1>3. /\ Held \subseteq Jobs /\ JobsOf(stages) \subseteq JobsOf(Ahead) /\ JobsOf(Ahead) \subseteq Jobs
      /\ Planned \subseteq Jobs
    BY <1>1, OpenAreJobs, Zenon
<1>4. D \subseteq Jobs /\ \A j \in D : terminal[j] = << >> /\ outcome[j] = << >>
    BY <1>1, <1>3, Zenon DEF OpenIsUnreported
<1>5. Snapshots(result) /\ Outcome(result)
    BY Zenon DEF Record
<1>6. /\ terminal' \in [Jobs -> Seq(Outcomes)] /\ outcome' \in [Jobs -> Seq(Outcomes)]
      /\ \A j \in D : terminal'[j] = << WireState(result[j]) >> /\ outcome'[j] = << result[j] >>
      /\ \A j \in Jobs \ D : terminal'[j] = terminal[j] /\ outcome'[j] = outcome[j]
    <2>1. /\ terminal' \in [Jobs -> Seq(Outcomes)]
          /\ \A j \in D : terminal'[j] = << WireState(result[j]) >>
          /\ \A j \in Jobs \ D : terminal'[j] = terminal[j]
        BY <1>2, <1>4, <1>5, RecordIs, Zenon
    <2>2. /\ outcome' \in [Jobs -> Seq(Outcomes)]
          /\ \A j \in D : outcome'[j] = << result[j] >>
          /\ \A j \in Jobs \ D : outcome'[j] = outcome[j]
        BY <1>2, <1>4, <1>5, RecordIs, Zenon
    <2>3. QED
        BY <2>1, <2>2, Zenon
<1>7. OpenIsUnreported'
    <2> SUFFICES ASSUME NEW j \in Held' \cup JobsOf(Ahead')
                 PROVE  terminal'[j] = << >> /\ outcome'[j] = << >>
        BY Zenon DEF OpenIsUnreported
    <2>1. j \in (Held \cup JobsOf(Ahead)) \ D
        BY <1>3, Zenon
    <2>2. j \in Jobs \ D
        BY <1>3, <2>1, Zenon
    <2>3. QED
        BY <1>1, <1>6, <2>1, <2>2, Zenon DEF OpenIsUnreported
<1>8. NoneIsForgotten'
    <2>1. \A j \in Planned : j \in Held \cup JobsOf(stages) \/ outcome[j] # << >>
        BY <1>1, Zenon DEF NoneIsForgotten
    <2>2. \A j \in Planned : j \in Held' \cup JobsOf(stages') \/ outcome'[j] # << >>
        <3> SUFFICES ASSUME NEW j \in Planned, j \notin Held' \cup JobsOf(stages')
                     PROVE  outcome'[j] # << >>
            BY Zenon
        <3>1. CASE j \in D
            <4>1. outcome'[j] = << result[j] >>
                BY <1>6, <3>1, Zenon
            <4>2. QED
                BY <4>1
        <3>2. CASE j \notin D
            BY <1>3, <1>6, <2>1, <3>2, Zenon
        <3>3. QED
            BY <3>1, <3>2, Zenon
    <2>3. Planned' = Planned
        BY Zenon DEF Planned
    <2>4. QED
        BY <2>2, <2>3, Zenon DEF NoneIsForgotten, Ended
<1>9. ReportsAgree'
    <2> SUFFICES ASSUME NEW j \in Jobs PROVE ReportOf(j)'
        BY Zenon DEF ReportsAgree
    <2>1. CASE j \in D
        <3>1. result[j] \in Outcomes
            BY <2>1, Zenon
        <3>2. QED
            BY <1>6, <2>1, <3>1, Zenon DEF ReportOf
    <2>2. CASE j \notin D
        BY <1>1, <1>6, <2>2, Zenon DEF ReportsAgree, ReportOf, Ended
    <2>3. QED
        BY <2>1, <2>2, Zenon
<1>10. QED
    BY <1>4, <1>6, <1>7, <1>8, <1>9, Zenon

-----------------------------------------------------------------------------
(* Recovery.                                                               *)
(* The job whose recovery is next.                                         *)
LEMMA PendingIs ==
    ASSUME IInv, at \in Recovering
    PROVE  /\ Min(pending) \in pending /\ Min(pending) \in Jobs /\ job[Min(pending)] \in Task
           /\ Min(pending) \notin run.services /\ Min(pending) \notin Range(services)
           /\ Min(pending) \notin JobsOf(Ahead)
           /\ active = << >> /\ queued = << >> /\ Range(active) = {} /\ Range(queued) = {}
           /\ hook = "none" /\ at \notin Ended
<1>1. TypeInv /\ TasksHold /\ PlacesApart /\ StagesInTurn /\ ControlHolds
    BY Zenon DEF IInv
<1>2. PlacesTyped /\ TasksTyped
    BY <1>1, TypeInvIs, Zenon
<1>3. StageIsOver /\ pending # {} /\ hook = "none" /\ at \notin Ended
    BY <1>1, Zenon DEF ControlHolds, Recovering, Ended
<1>4. pending \subseteq Jobs /\ Jobs \subseteq Nat
    BY <1>2, PlansAssumption, Zenon DEF PlacesTyped
<1>5. Min(pending) \in pending
    BY <1>3, <1>4, MinIs, Zenon
<1>6. Range(active) = {} /\ Range(queued) = {} /\ active = << >> /\ queued = << >>
    BY <1>2, <1>3, RangeIs, Zenon DEF PlacesTyped, StageIsOver
<1>7. job[Min(pending)] \in Task /\ Min(pending) \in Jobs
    BY <1>2, <1>4, <1>5, Zenon DEF TasksTyped
<1>8. QED
    BY <1>1, <1>3, <1>5, <1>6, <1>7, HeldIsNotAhead, Zenon DEF TasksHold, PlacesApart, Held, Current

(* The task of the job in recovery changes, and the job stays.             *)
LEMMA RecoveringKeeps ==
    ASSUME IInv, at \in Recovering, at' \in {"recover", "pause", "idle"},
           NEW t \in Task, job' = [job EXCEPT ![Min(pending)] = t],
           t.recovery => job[Min(pending)].recovery, t.defer = t.recovery,
           at' = "idle" => token /\ ~t.child, phase' \in {"recovery", "verification"},
           UNCHANGED <<modeVars, cursor, freed, back, placeVars, reportVars>>
    PROVE  IInv'
<1>1. TypeInv /\ ControlHolds /\ ChildrenAreOwned /\ TasksHold /\ ErrorsHold
    BY Zenon DEF IInv
<1>2. ModesTyped /\ ControlTyped /\ PlacesTyped /\ TasksTyped /\ ReportsTyped
    BY <1>1, TypeInvIs, Zenon
<1>3. PICK p \in Jobs : p = Min(pending)
    BY PendingIs, Zenon
<1>4. /\ p \in pending /\ p \notin run.services /\ p \notin Range(services)
      /\ p \notin JobsOf(Ahead) /\ p \notin Range(active) /\ p \notin Range(queued)
      /\ at \notin Ended /\ hook = "none"
    BY <1>3, PendingIs, Zenon
<1>5. TasksTyped' /\ job'[p] = t /\ \A j \in Jobs : j # p => job'[j] = job[j]
    BY <1>2, <1>3, UpdateIs, Zenon
<1>6. ModesTyped' /\ ReportsTyped'
    BY <1>2, FrameTypes, Zenon
<1>7. ControlTyped'
    BY <1>2, Zenon DEF ControlTyped
<1>8. /\ run' = run /\ stages' = stages /\ appended' = appended /\ queued' = queued
      /\ active' = active /\ services' = services /\ pending' = pending /\ outcome' = outcome
      /\ Ahead' = Ahead /\ errors' = errors /\ hook' = hook /\ token' = token /\ back' = back
    BY Zenon DEF modeVars, placeVars, reportVars, Ahead
<1>9. ControlHolds'
    BY <1>1, <1>4, <1>8, Zenon DEF ControlHolds, Recovering, Closing, Ended, AtTop, StageIsOver
<1>10. ChildrenAreOwned'
    BY <1>1, <1>3, <1>5, <1>8, Zenon DEF ChildrenAreOwned
<1>11. TasksHold'
    <2>1. /\ Range(services) \subseteq Jobs /\ Range(queued) \subseteq Jobs
          /\ Range(active) \subseteq Jobs /\ JobsOf(Ahead) \subseteq Jobs
        BY <1>1, OpenAreJobs, Zenon
    <2>2. \A j \in Range(services) \cup Range(queued) \cup Range(active) \cup JobsOf(Ahead) :
                job'[j] = job[j]
        BY <1>4, <1>5, <2>1, Zenon
    <2>3. \A j \in Jobs : /\ job'[j].recovery => job[j].recovery
                          /\ job'[j].defer = job'[j].recovery
        BY <1>1, <1>3, <1>5, Zenon DEF TasksHold
    <2>4. QED
        BY <1>1, <1>8, <2>2, <2>3, Zenon DEF TasksHold
<1>12. ErrorsHold'
    <2>1. \A j \in Jobs : Unforgiven(j)' <=> Unforgiven(j)
        BY <1>4, <1>5, <1>8, Zenon DEF Unforgiven
    <2>2. QED
        BY <1>1, <1>4, <1>8, <2>1, Zenon DEF ErrorsHold, Ended
<1>13. QED
    BY <1>4, <1>5, <1>6, <1>7, <1>8, <1>9, <1>10, <1>11, <1>12, SamePlacesKeep, ZenonT(40)
        DEF modeVars, reportVars, Ended

(* An approved job starts its recovery commands.                           *)
LEMMA StartRecoveryKeeps ==
    ASSUME IInv, StartRecovery
    PROVE  IInv'
<1> DEFINE m == Min(pending)
           old == job[m]
           t == [old EXCEPT !.left = run.recovery[m], !.child = FALSE, !.failed = FALSE,
                            !.recovery = FALSE, !.defer = FALSE]
<1>1. at = "approved" /\ at' = "recover" /\ job' = [job EXCEPT ![m] = t]
    BY Zenon DEF StartRecovery
<1>2. UNCHANGED <<modeVars, cursor, freed, back, phase, placeVars, reportVars>>
    BY Zenon DEF StartRecovery
<1>3. at \in Recovering /\ m \in Jobs /\ old \in Task
    BY <1>1, PendingIs, Zenon DEF Recovering
<1>4. ModesTyped /\ ControlTyped
    BY TypeInvIs, Zenon DEF IInv
<1>5. run.recovery[m] \in Nat /\ phase' \in {"recovery", "verification"}
    BY <1>2, <1>3, <1>4, PlanIs, Zenon DEF ModesTyped, ControlTyped
<1>6. t \in Task /\ ~t.recovery /\ t.defer = t.recovery
    BY <1>3, <1>5, Zenon DEF Task
<1> HIDE DEF t
<1>7. QED
    BY <1>1, <1>2, <1>3, <1>5, <1>6, RecoveringKeeps, Zenon

(* What an attempt makes of the task in recovery.                          *)
LEMMA RecoveryAttemptIs ==
    ASSUME IInv, at = "recover", NEW attempt \in Attempts(job[Min(pending)], TRUE)
    PROVE  /\ attempt.task \in Task
           /\ attempt.task.child <=> attempt.step = "Running"
           /\ attempt.task.recovery = job[Min(pending)].recovery
           /\ attempt.task.defer = attempt.task.recovery
           /\ at \in Recovering
<1>1. at \in Recovering
    BY Zenon DEF Recovering
<1>2. job[Min(pending)] \in Task /\ Min(pending) \in Jobs
    BY <1>1, PendingIs, Zenon
<1>3. /\ attempt.task \in Task /\ (attempt.task.child <=> attempt.step = "Running")
      /\ attempt.task.recovery = job[Min(pending)].recovery
      /\ attempt.task.defer = job[Min(pending)].defer
    BY <1>2, AttemptIs, Zenon DEF AttemptHolds
<1>4. job[Min(pending)].defer = job[Min(pending)].recovery
    BY <1>2, Zenon DEF IInv, TasksHold
<1>5. QED
    BY <1>1, <1>3, <1>4, Zenon

(* A recovery or a verification goes on with its commands.                 *)
LEMMA RecoveryGoesOnKeeps ==
    ASSUME IInv, at = "recover", NEW attempt \in Attempts(job[Min(pending)], TRUE),
           RecoveryGoesOn(attempt)
    PROVE  IInv'
<1>1. /\ job' = [job EXCEPT ![Min(pending)] = attempt.task] /\ at' \in {"recover", "pause"}
      /\ UNCHANGED <<modeVars, cursor, freed, back, phase, placeVars, reportVars>>
    BY Zenon DEF RecoveryGoesOn
<1>2. phase' \in {"recovery", "verification"}
    BY <1>1, TypeInvIs, Zenon DEF IInv, ControlTyped
<1>3. QED
    BY <1>1, <1>2, RecoveryAttemptIs, RecoveringKeeps, Zenon

(* Recovery succeeded: the job's own commands run again.                   *)
LEMMA StartVerificationKeeps ==
    ASSUME IInv, at = "recover", NEW attempt \in Attempts(job[Min(pending)], TRUE),
           StartVerification(attempt)
    PROVE  IInv'
<1> DEFINE m == Min(pending)
           t == [attempt.task EXCEPT !.left = run.commands[m], !.child = FALSE]
<1>1. /\ job' = [job EXCEPT ![m] = t] /\ at' = at /\ phase' = "verification"
      /\ UNCHANGED <<modeVars, cursor, freed, back, placeVars, reportVars>>
    BY Zenon DEF StartVerification
<1>2. /\ attempt.task \in Task /\ attempt.task.recovery = job[m].recovery
      /\ attempt.task.defer = attempt.task.recovery /\ at \in Recovering
    BY RecoveryAttemptIs, Zenon
<1>3. run.commands[m] \in Nat
    <2>1. run \in Plans /\ m \in Jobs
        BY <1>2, PendingIs, TypeInvIs, Zenon DEF IInv, ModesTyped
    <2>2. run.commands \in [Jobs -> Nat \ {0}]
        BY <2>1, PlanIs, Zenon
    <2>3. QED
        BY <2>1, <2>2, Zenon
<1>4. t \in Task /\ t.recovery = job[m].recovery /\ t.defer = t.recovery
    BY <1>2, <1>3, Zenon DEF Task
<1> HIDE DEF t
<1>5. QED
    BY <1>1, <1>2, <1>4, RecoveringKeeps, Zenon

(* The token is looked at after a poll of a live child.                    *)
LEMMA PauseRecoveryKeeps ==
    ASSUME IInv, PauseRecovery
    PROVE  IInv'
<1> DEFINE m == Min(pending)
           old == job[m]
           t == [old EXCEPT !.child = FALSE, !.left = 0]
<1>1. at = "pause" /\ UNCHANGED <<modeVars, cursor, freed, back, placeVars, reportVars>>
    BY Zenon DEF PauseRecovery
<1>2. at \in Recovering /\ m \in Jobs /\ old \in Task
    BY <1>1, PendingIs, Zenon DEF Recovering
<1>3. ModesTyped /\ ControlTyped /\ ControlHolds /\ TasksHold /\ TasksTyped
    BY TypeInvIs, Zenon DEF IInv
<1>4. CASE token
    <2>1. at' = "idle" /\ job' = ShutDown({m}) /\ phase' = "recovery"
        BY <1>4, Zenon DEF PauseRecovery
    <2>2. job' = [job EXCEPT ![m] = t]
        BY <1>2, <1>3, <2>1, Zenon DEF ShutDown, TasksTyped
    <2>3. t \in Task /\ t.recovery = old.recovery /\ t.defer = old.defer /\ ~t.child
        BY <1>2, Zenon DEF Task
    <2>4. t.defer = t.recovery
        BY <1>2, <1>3, <2>3, Zenon DEF TasksHold
    <2> HIDE DEF t
    <2>5. QED
        BY <1>1, <1>2, <1>4, <2>1, <2>2, <2>3, <2>4, RecoveringKeeps, SMTT(30)
<1>5. CASE ~token
    <2>1. at' = "recover" /\ UNCHANGED <<job, phase>>
        BY <1>5, Zenon DEF PauseRecovery
    <2>2. ControlTyped'
        BY <1>1, <1>3, <2>1, Zenon DEF ControlTyped
    <2>3. ControlHolds'
        BY <1>1, <1>3, <2>1, Zenon
            DEF ControlHolds, Recovering, Closing, Ended, AtTop, StageIsOver, placeVars, reportVars,
                modeVars
    <2>4. QED
        BY <1>1, <1>3, <2>1, <2>2, <2>3, FrameTypes, ControlKeeps, Zenon DEF modeVars, Ended
<1>6. QED
    BY <1>4, <1>5, Zenon

=============================================================================
