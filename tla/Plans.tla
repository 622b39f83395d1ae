------------------------------- MODULE Plans -------------------------------
(***************************************************************************)
(* Run plans (plan.rs), command templates (template.rs) and the canonical  *)
(* encodings behind execution signatures (plan.rs) and configuration       *)
(* revisions (config_revision.rs).                                         *)
(*                                                                         *)
(* A rule is a record of the fields a plan keeps.  Strings that only need  *)
(* to be told apart are model strings; the strings an encoding is about    *)
(* are sequences of characters.                                            *)
(***************************************************************************)
EXTENDS Naturals, Sequences, FiniteSets, SequencesExt, FiniteSetsExt

Serial == ""     \* the group of a rule without `parallel`

(***************************************************************************)
(* RunPlan                                                                 *)
(***************************************************************************)
\* A stage begins at a serial rule, and where the group changes.
Opens(rules, i) ==
  \/ i = 1
  \/ rules[i].parallel = Serial
  \/ rules[i].parallel # rules[i - 1].parallel

StageOf(rules, i) == Max({j \in 1..i : Opens(rules, j)})

\* close_group numbers the occurrences of each group.
Occurrence(rules, i) ==
  IF rules[i].parallel = Serial THEN 0
  ELSE Cardinality({j \in 1..StageOf(rules, i) :
                      Opens(rules, j) /\ rules[j].parallel = rules[i].parallel})

TaskPlan(rules, i) == [position |-> i, name |-> rules[i].name,
                       group |-> rules[i].parallel,
                       occurrence |-> Occurrence(rules, i)]

\* The stages in order; a serial stage has one task.
FromRules(rules) ==
  LET opens == SetToSortSeq({i \in DOMAIN rules : Opens(rules, i)}, <)
      Members(s) == SetToSortSeq({i \in DOMAIN rules : StageOf(rules, i) = s}, <)
  IN  [k \in DOMAIN opens |->
         [t \in DOMAIN Members(opens[k]) |-> TaskPlan(rules, Members(opens[k])[t])]]

\* Mutant: select first and group what is left.
Regroup(rules, keep) ==
  LET kept == SetToSortSeq(keep, <)
      regrouped == FromRules([i \in DOMAIN kept |-> rules[kept[i]]])
  IN  [k \in DOMAIN regrouped |->
         [t \in DOMAIN regrouped[k] |->
            [regrouped[k][t] EXCEPT !.position = kept[@]]]]

\* RunPlan::filter: tasks go, the occurrences of what stays do not merge.
Filter(rules, keep) ==
  LET Kept(stage) == SelectSeq(stage, LAMBDA task : task.position \in keep)
  IN  SelectSeq([k \in DOMAIN FromRules(rules) |-> Kept(FromRules(rules)[k])],
                LAMBDA stage : stage # <<>>)

TaskOrder(plan) == FlattenSeq([k \in DOMAIN plan |->
                     [t \in DOMAIN plan[k] |-> plan[k][t].position]])

\* The reference: tasks i < j run in one stage iff they share a group that
\* every rule between them shares too, and the plan lists what was kept in
\* configuration order under the occurrence it has in the whole plan.
KeepsBarriers(rules, keep) ==
  LET plan == Filter(rules, keep)
      Together(i, j) == \E k \in DOMAIN plan :
                          {i, j} \subseteq {plan[k][t].position : t \in DOMAIN plan[k]}
  IN  /\ TaskOrder(plan) = SetToSortSeq(keep, <)
      /\ \A i, j \in keep : i < j =>
           (Together(i, j) <=>
              /\ rules[i].parallel # Serial
              /\ \A m \in i..j : rules[m].parallel = rules[i].parallel)
      /\ \A k \in DOMAIN plan, l \in DOMAIN plan :
           k # l => plan[k][1].group = Serial
                    \/ plan[k][1].group # plan[l][1].group
                    \/ plan[k][1].occurrence # plan[l][1].occurrence

(***************************************************************************)
(* RunPlan::resolve_context                                                *)
(***************************************************************************)
\* What a declared cwd can be, looked up in the workspace.
CwdKinds == {"none", "inside", "missing", "absolute", "parent", "dangling", "escaping"}

Resolved(kind) ==
  CASE kind = "none" -> "root"
    [] kind \in {"inside", "missing"} -> "candidate"
    [] kind \in {"absolute", "parent", "dangling", "escaping"} -> "error"

\* One task that cannot be resolved fails the whole plan.
ResolveContext(kinds) ==
  IF \E i \in DOMAIN kinds : Resolved(kinds[i]) = "error" THEN <<>>
  ELSE [i \in DOMAIN kinds |-> Resolved(kinds[i])]

(***************************************************************************)
(* Templates: a command is a sequence of words, "{{" and "}}".             *)
(***************************************************************************)
Options == [filepath |-> <<"P">>, paths |-> <<"P", "Q">>, relative |-> <<"p">>]
Variables == DOMAIN Options

\* str::split
Split(s, sep) ==
  LET cuts == SetToSortSeq({i \in DOMAIN s : s[i] = sep}, <)
      From(k) == IF k = 1 THEN 1 ELSE cuts[k - 1] + 1
      To(k) == IF k > Len(cuts) THEN Len(s) ELSE cuts[k] - 1
  IN  [k \in 1..(Len(cuts) + 1) |-> SubSeq(s, From(k), To(k))]

\* One part of the split at "{{": only the text up to the second "}}" is used.
Part(part) ==
  IF "}}" \notin ToSet(part) THEN part
  ELSE LET parts == Split(part, "}}")
       IN  IF Len(parts[1]) = 1 /\ parts[1][1] \in Variables
           THEN Options[parts[1][1]] \o parts[2]
           ELSE <<"{{">> \o parts[1] \o <<"}}">> \o parts[2]

ExpandCommand(command) ==
  IF "{{" \notin ToSet(command) THEN command
  ELSE FlattenSeq([k \in DOMAIN Split(command, "{{") |-> Part(Split(command, "{{")[k])])

\* Every "{{" is closed before the next one opens, and no other "}}" is there.
WellFormed(command) ==
  LET marks == SelectSeq(command, LAMBDA w : w \in {"{{", "}}"})
  IN  /\ Len(marks) % 2 = 0
      /\ \A i \in DOMAIN marks : marks[i] = IF i % 2 = 1 THEN "{{" ELSE "}}"

\* The reference: placeholders of known variables are replaced in place,
\* everything else stays.
Reference(command) ==
  LET IsOpen(i) == /\ i + 2 \in DOMAIN command /\ command[i] = "{{"
                   /\ command[i + 1] \in Variables /\ command[i + 2] = "}}"
      Inside(i) == \E j \in DOMAIN command : IsOpen(j) /\ i \in (j + 1)..(j + 2)
  IN  FlattenSeq([i \in DOMAIN command |->
        IF IsOpen(i) THEN Options[command[i + 1]]
        ELSE IF Inside(i) THEN <<>> ELSE <<command[i]>>])

(***************************************************************************)
(* Canonical encodings.  Bytes are numbers, a string is a sequence of      *)
(* them, a u64 is written as one number, and an Option is a sequence of at *)
(* most one element.                                                       *)
(***************************************************************************)
String(s) == <<Len(s)>> \o s
Bool(b) == IF b THEN <<1>> ELSE <<0>>
Each(list, Bytes(_)) == <<Len(list)>> \o FlattenSeq([i \in DOMAIN list |-> Bytes(list[i])])
Option(o, Bytes(_)) == IF o = <<>> THEN <<0>> ELSE <<1>> \o Bytes(o[1])
Strings(list) == Each(list, String)

\* A command line: a shell string, or an argv.
CommandBytes(c) == IF c.shell THEN <<0>> \o String(c.args[1]) ELSE <<1>> \o Strings(c.args)
CommandsBytes(cs) == Each(cs, CommandBytes)

\* A pair of an environment, which iterates in key order (BTreeMap).
PairBytes(pair) == String(pair[1]) \o String(pair[2])

\* TaskPlan::encode
TaskBytes(task) ==
  String(task.name) \o Option(task.parallel, String) \o Option(task.occurrence, String)
  \o CommandsBytes(task.commands) \o Option(task.recovery, CommandsBytes)
  \o Option(task.cwd, String) \o Each(task.env, PairBytes)

\* A stage is [group, tasks]; a serial stage has no group.
StageBytes(stage) ==
  IF stage.group = <<>> THEN <<0>> \o TaskBytes(stage.tasks[1])
  ELSE <<1>> \o String(stage.group[1]) \o Each(stage.tasks, TaskBytes)

SignatureSchema == 2
SignatureBytes(plan, jobs, failFast) ==
  <<SignatureSchema, jobs>> \o Bool(failFast) \o Each(plan, StageBytes)

\* What a signature tells apart: encode passes over three fields of a task.
PlanSurface(plan) ==
  LET Written(task) == [f \in DOMAIN task \ {"position", "output", "service"} |-> task[f]]
  IN  [k \in DOMAIN plan |->
         [plan[k] EXCEPT !.tasks = [t \in DOMAIN @ |-> Written(@[t])]]]

\* The order of strings.
Before(a, b) ==
  \E n \in 0..Min({Len(a), Len(b)}) :
    /\ SubSeq(a, 1, n) = SubSeq(b, 1, n)
    /\ \/ n = Len(a) /\ n < Len(b)
       \/ n < Len(a) /\ n < Len(b) /\ a[n + 1] < b[n + 1]

Sort(list) == SortSeq(list, Before)

\* encode_rule: patterns and commands are sorted, an environment gives only
\* its keys, recovery commands stay in order.
RuleBytes(rule) ==
  String(rule.name) \o Bool(rule.init) \o Option(rule.parallel, String)
  \o Bool(rule.service) \o String(rule.output) \o Option(rule.cwd, String)
  \o Strings(Sort(rule.change)) \o Strings(Sort(rule.ignore))
  \o Strings(Sort(rule.commands)) \o Option(rule.recovery, Strings)
  \o Strings([i \in DOMAIN rule.env |-> rule.env[i][1]])

\* semantic_hash: the policy of the file, then its rules.
RevisionSchema == 2
SemanticBytes(config) ==
  <<RevisionSchema>> \o String(config.root) \o <<config.concurrency, config.debounce>>
  \o String(config.backend) \o Bool(config.gitignore) \o String(config.recoveryPolicy)
  \o String(config.hooks) \o String(config.close) \o Option(config.socket, String)
  \o Each(config.rules, RuleBytes)

\* service_signature, and the services of a revision: a reload keeps the
\* process of a service whose name and signature are still there.
ServiceBytes(rule) ==
  <<RevisionSchema, 1>> \o String(rule.name) \o Bool(rule.service) \o String(rule.output)
  \o Option(rule.cwd, String) \o Strings(Sort(rule.commands))
  \o Strings(Sort([i \in DOMAIN rule.env |-> rule.env[i][1]]))
Services(config) ==
  LET services == SelectSeq(config.rules, LAMBDA rule : rule.service)
  IN  [i \in DOMAIN services |-> <<services[i].name, ServiceBytes(services[i])>>]

\* What the bytes stand for: which values a revision tells apart.
Unordered(list) == [x \in ToSet(list) |-> Cardinality({i \in DOMAIN list : list[i] = x})]
RuleSurface(rule) ==
  [rule EXCEPT !.change = Unordered(@), !.ignore = Unordered(@), !.commands = Unordered(@),
               !.env = {@[i][1] : i \in DOMAIN @}]
Surface(config) == [config EXCEPT !.rules = [i \in DOMAIN @ |-> RuleSurface(@[i])]]

\* RevisionTracker::observe: the same bytes are no new revision.
Observe(current, config) ==
  IF current.bytes = SemanticBytes(config) THEN current
  ELSE [number |-> current.number + 1, bytes |-> SemanticBytes(config)]
=============================================================================
