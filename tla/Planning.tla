------------------------------ MODULE Planning ------------------------------
(***************************************************************************)
(* The pure parts of the program over bounded inputs: a behaviour names a  *)
(* question and then picks one input of it.  The properties compare what   *)
(* the code computes for the input with a reference.                       *)
(***************************************************************************)
EXTENDS Routing, Wire

VARIABLE case

Questions == {"plan", "template", "revision", "signature", "route", "target", "reload", "commit", "schema",
              "migrate", "socket", "output", "reply", "estimate"}
Asked(question) == case = [question |-> question]
Init == \E q \in Questions : case = [question |-> q]

UpTo(S, n) == UNION {[1..k -> S] : k \in 0..n}

-----------------------------------------------------------------------------
(* Plans: up to four rules in two groups and every selection of them.      *)
Plan ==
  /\ Asked("plan")
  /\ \E groups \in UpTo({Serial, "g", "h"}, 4) :
       \E keep \in SUBSET DOMAIN groups, odd \in 0..Len(groups), kind \in CwdKinds :
         case' = [planRules |-> [i \in DOMAIN groups |->
                                   [name |-> i, parallel |-> groups[i],
                                    cwd |-> IF i = odd THEN kind ELSE "none"]],
                  keep |-> keep]

\* Selecting tasks of a plan keeps its barriers (plan.rs, RunPlan::filter):
\* two selected jobs share a stage iff every job between them in the file is
\* of their group, whether it was selected or not; order and occurrence
\* numbers are those of the whole plan, so two stages never share one.  And a
\* directory that escapes the workspace refuses a run iff the run needs it.
BarriersSurvive ==
  "keep" \in DOMAIN case =>
    LET order == TaskOrder(Filter(case.planRules, case.keep))
        context == ResolveContext([i \in DOMAIN order |-> case.planRules[order[i]].cwd])
    IN  /\ KeepsBarriers(case.planRules, case.keep)
        /\ order # <<>> =>
             (context = <<>> <=> \E i \in case.keep :
                case.planRules[i].cwd \in {"absolute", "parent", "dangling", "escaping"})

-----------------------------------------------------------------------------
(* Templates: up to six words.                                             *)
Template ==
  /\ Asked("template")
  /\ \E command \in UpTo({"{{", "}}", "paths", "x"}, 6) : case' = [command |-> command]

\* Expanding a command whose braces are balanced replaces the placeholders it
\* knows and leaves every other word where it was (template.rs, expand).
ExpansionKeepsText ==
  "command" \in DOMAIN case /\ WellFormed(case.command) =>
    ExpandCommand(case.command) = Reference(case.command)

-----------------------------------------------------------------------------
(* Encodings: pairs of configurations and of plans that differ in where a  *)
(* string ends, in what is optional, in order or in grouping.              *)
Texts == {<<>>, <<1>>, <<1, 1>>}
BaseRule == [name |-> <<1>>, init |-> FALSE, parallel |-> <<>>, service |-> TRUE,
             output |-> <<>>, cwd |-> <<>>, change |-> <<>>, ignore |-> <<>>,
             commands |-> <<<<1>>>>, recovery |-> <<>>, env |-> <<>>]
RulesOfInterest ==
  {[BaseRule EXCEPT !.name = n, !.parallel = p, !.cwd = c] :
     n \in Texts, p \in {<<>>, <<<<1>>>>}, c \in {<<>>, <<<<>>>>, <<<<1>>>>}}
  \cup {[BaseRule EXCEPT !.change = c, !.ignore = i, !.commands = m] :
     c \in UpTo(Texts, 1), i \in UpTo(Texts, 1), m \in {<<<<1>>>>, <<<<1>>, <<>>>>, <<<<>>, <<1>>>>}}
  \cup {[BaseRule EXCEPT !.recovery = r, !.env = e] :
     r \in {<<>>, <<<<>>>>, <<<<<<1>>, <<>>>>>>, <<<<<<>>, <<1>>>>>>},
     e \in {<<>>, <<<<<<1>>, <<>>>>>>, <<<<<<1>>, <<1>>>>>>}}
BaseConfig == [root |-> <<1>>, concurrency |-> 1, debounce |-> 1, backend |-> <<1>>, gitignore |-> FALSE,
               recoveryPolicy |-> <<1>>, hooks |-> <<>>, close |-> <<>>, socket |-> <<>>,
               rules |-> <<>>]
Configs ==
  {[BaseConfig EXCEPT !.rules = <<r>>] : r \in RulesOfInterest}
  \cup {[BaseConfig EXCEPT !.hooks = h, !.close = c, !.socket = s, !.rules = r] :
     h \in Texts, c \in Texts, s \in {<<>>, <<<<>>>>, <<<<1>>>>},
     r \in {<<>>, <<BaseRule>>, <<[BaseRule EXCEPT !.service = FALSE]>>}}

Revision == /\ Asked("revision")
            /\ \E a \in Configs, b \in Configs : case' = [before |-> a, after |-> b]

BaseTask == [name |-> <<1>>, parallel |-> <<>>, occurrence |-> <<>>,
             commands |-> <<[shell |-> TRUE, args |-> <<<<1>>>>]>>, recovery |-> <<>>,
             cwd |-> <<>>, env |-> <<>>, position |-> 1, output |-> "inherit", service |-> FALSE]
Commands == {[shell |-> TRUE, args |-> <<<<1>>>>], [shell |-> FALSE, args |-> <<<<1>>>>],
             [shell |-> FALSE, args |-> <<<<1>>, <<>>>>], [shell |-> FALSE, args |-> <<<<>>, <<1>>>>]}
Tasks == {[BaseTask EXCEPT !.name = n, !.commands = c] : n \in Texts, c \in UpTo(Commands, 1)}
         \cup {[BaseTask EXCEPT !.recovery = r, !.env = e] :
                 r \in {<<>>, <<<<>>>>, <<<<[shell |-> TRUE, args |-> <<<<1>>>>]>>>>},
                 e \in {<<>>, <<<<<<1>>, <<>>>>>>, <<<<<<>>, <<1>>>>>>}}
         \cup {[BaseTask EXCEPT !.position = p, !.output = o, !.service = v] :
                 p \in 1..2, o \in {"inherit", "quiet"}, v \in BOOLEAN}
Stages == {[group |-> <<>>, tasks |-> <<t>>] : t \in Tasks}
          \cup {[group |-> <<g>>, tasks |-> <<t, BaseTask>>] : g \in Texts, t \in Tasks}
PlansOfInterest == {<<s>> : s \in Stages}
                   \cup {<<[group |-> <<>>, tasks |-> <<t>>], [group |-> <<>>, tasks |-> <<BaseTask>>]>> :
                           t \in Tasks}

Signature ==
  /\ Asked("signature")
  /\ \E p \in PlansOfInterest, q \in PlansOfInterest, jobs \in 1..2 :
       case' = [thisPlan |-> p, thatPlan |-> q, jobs |-> jobs]

\* The canonical encodings are unambiguous (plan.rs, CanonicalEncoder;
\* config_revision.rs, semantic_hash): two runs have one signature iff their
\* concurrency and what TaskPlan::encode writes of their plans are the same
\* (all but the position, the output policy and the service flag of a task),
\* and two configurations have one revision iff they differ at most in the
\* order of patterns and commands and in the values of environments.  So a
\* string that ends elsewhere, an option that is there and empty, a barrier
\* that moved or a service to be replaced never hides behind equal bytes.
EncodingsSeparate ==
  /\ "before" \in DOMAIN case =>
       (Observe([number |-> 1, bytes |-> SemanticBytes(case.before)], case.after).number = 1
          <=> Surface(case.before) = Surface(case.after))
  /\ "before" \in DOMAIN case /\ Surface(case.before) = Surface(case.after) =>
       Services(case.before) = Services(case.after)
  /\ "thisPlan" \in DOMAIN case =>
       (SignatureBytes(case.thisPlan, 1, FALSE) = SignatureBytes(case.thatPlan, case.jobs, FALSE)
          <=> case.jobs = 1 /\ PlanSurface(case.thisPlan) = PlanSurface(case.thatPlan))

\* What a run is made of keeps its meaning on the way to the executor: a
\* selection keeps the barriers of the plan, an expansion the text around its
\* placeholders, and an encoding everything it writes down.
PlansSurvive == BarriersSurvive /\ ExpansionKeepsText /\ EncodingsSeparate

\* The two statements below are false of the code.
\* "Two revisions with the same hash are semantically identical"
\* (config_revision.rs:29): the hash sorts the commands of a rule and leaves
\* out the values of its environment.
EqualRevisionsAreEqual ==
  "before" \in DOMAIN case =>
    (SemanticBytes(case.before) = SemanticBytes(case.after) => case.before = case.after)

\* A signature is a "stable execution identity" (plan.rs:413): runs of one
\* signature run alike.  Whether a task is a service is not in it.
EqualSignaturesRunAlike ==
  "thisPlan" \in DOMAIN case =>
    (SignatureBytes(case.thisPlan, 1, FALSE) = SignatureBytes(case.thatPlan, case.jobs, FALSE)
       => case.thisPlan = case.thatPlan)

-----------------------------------------------------------------------------
(* Routing: two rules, the paths of a small workspace, and file systems    *)
(* that have more and less of them.                                        *)
Relatively(segs) == [abs |-> FALSE, segs |-> segs]
Patterns == {Relatively(<<"**">>), Relatively(<<"a", "*">>), Relatively(<<"a", "f">>),
             Relatively(<<"**", "f">>), Relatively(<<"b", "c", "**">>),
             [abs |-> TRUE, segs |-> <<"w", "a", "**">>], [abs |-> TRUE, segs |-> <<"o", "*">>]}
Excluding == {Relatively(<<"a", "**">>), Relatively(<<"*", "f">>), [abs |-> TRUE, segs |-> <<"w", "**", "f">>]}
RoutingRule(name, change, ignore) ==
  [name |-> name, parallel |-> Serial, change |-> change, ignore |-> ignore,
   inherited |-> {p \in Patterns : ~p.abs}]
FileSystems == {[dirs |-> d, files |-> f] :
  d \in {{<<"w">>}, {<<"w">>, <<"w", "a">>}, {<<"w">>, <<"w", "a">>, <<"w", "b">>, <<"o">>}},
  f \in {{}, {<<"w", "a", "f">>}}}
Paths == {<<"w", "a", "f">>, <<"w", "b", "c", "d">>, <<"w", "f">>, <<"o", "x">>, <<"w", "a", "b", "f">>}

Route ==
  /\ Asked("route")
  /\ \E c1 \in UpTo(Patterns, 2), i1 \in UpTo(Excluding, 1), c2 \in Patterns, fs \in FileSystems :
       case' = [routed |-> <<RoutingRule("r", c1, i1), RoutingRule("s", <<c2>>, <<>>)>>, fs |-> fs]

\* Whatever a watcher would run something for, it watches, and `control emit`
\* explains as the watcher decides (watches.rs): a path with a plan lies under
\* a subscription root, no root lies under another, the tasks of the plan are
\* the ones explained as matched, every other task whose patterns match is
\* explained as ignored, by a pattern or by gitignore, and a task is blamed on
\* its group only for a pattern of the group; and a batch runs something iff
\* one of its paths alone would.
RoutesAreWatchedAndExplained ==
  "routed" \in DOMAIN case =>
    LET rules == case.routed
        roots == SubscriptionRoots(rules, case.fs)
    IN  /\ \A r1, r2 \in roots : r1 # r2 => ~IsPrefix(r1, r2)
        /\ (Batch(rules, FALSE, Paths, SetToSeq(Paths)) # <<>>)
             <=> \E path \in Paths : WatchPlan(rules, FALSE, path) # <<>>
        /\ \A path \in Paths : \A excluded \in {FALSE, Inside(path)} :
             LET plan == WatchPlan(rules, excluded, path)
                 said == Explain(rules, excluded, path)
             IN  /\ plan # <<>> => CoveringRoots(rules, case.fs, path) # {}
                 /\ said.stages = plan
                 /\ said.matched = ToSet(TaskOrder(plan))
                 /\ said.matched \cap said.ignored = {}
                 /\ \A i \in said.matched : Origin(rules[i], excluded, path) = "group" =>
                      \E p \in rules[i].inherited \cap ToSet(rules[i].change) : Hits(p, path)
                 /\ said.matched \cup said.ignored = {i \in DOMAIN rules : Watched(rules[i], path)}

(* Targets: the names of three jobs, one often a part of another.          *)
Names == UpTo({"@", "a", "b"}, 2) \ {<<>>}
Target == /\ Asked("target")
          /\ \E names \in [1..3 -> Names] :
               case' = [named |-> [i \in 1..3 |-> [name |-> names[i], parallel |-> Serial]]]

\* `fzz run TARGET` (watches.rs, run_target_plan) and `fzz control run TARGET`
\* (target_plan) read a target differently and agree on what it can mean: one
\* finds nothing iff the other does; what the first runs, the second runs too,
\* and the second runs more only beside a job of exactly that name; and the
\* first refuses only what the second runs several jobs for.  The full name
\* of a job, as `fzz control list` shows it, runs that job in both, with
\* `fzz run` no other, and two jobs of one name are refused there.
TargetsAgree ==
  "named" \in DOMAIN case =>
    \A target \in Names :
      LET run == RunTarget(case.named, target)
          controlled == ToSet(TaskOrder(TargetPlan(case.named, target)))
          same == {j \in DOMAIN case.named : case.named[j].name = target}
      IN  /\ run.error = "missing" <=> controlled = {}
          /\ run.error = "ambiguous" => Cardinality(controlled) > 1
          /\ run.error = "" => run.keep \subseteq controlled /\ run.keep \in {same, controlled} \ {{}}
          /\ same \subseteq controlled
          /\ Cardinality(same) = 1 => run.error = "" /\ run.keep = same
          /\ Cardinality(same) > 1 => run.error = "ambiguous"

\* A selection is what the program says of it: a change runs what
\* `control emit` explains, and a target that `fzz run` takes stands for what
\* it stands for in `fzz control run`, or for the job of that name alone.
SelectionIsAsExplained == RoutesAreWatchedAndExplained /\ TargetsAgree

\* False of the code, which matches a part of a name on purpose
\* (docs/FLAG_CONTROL_SOCKET.md:60): the name that `control list` shows for a
\* job makes `control run` run that job alone.
ListedTargetRunsAlone ==
  "named" \in DOMAIN case =>
    \A i \in DOMAIN case.named : TaskOrder(TargetPlan(case.named, case.named[i].name)) = <<i>>

-----------------------------------------------------------------------------
(* Configuration files.                                                    *)
\* A mapping of the keys whose value is not Bad.
Mapping(f) == Hash([k \in {k \in DOMAIN f : f[k] # Bad} |-> f[k]])
SomeJob == Hash([name |-> Str("n"), run |-> Str("c"), change |-> Str("p")])
OtherJob == Hash([name |-> Str("m"), run |-> List(<<Str("c"), Str("d")>>), run_on_init |-> Flag(TRUE),
                  env |-> Hash([K |-> Str("v")])])
FileOf(on, execution, hooks, jobs) ==
  <<Mapping([on |-> on, execution |-> execution, hooks |-> hooks, jobs |-> List(jobs)])>>

Started ==
  {FileOf(Mapping([debounce |-> d, socket |-> s, watch_backend |-> b]),
          Mapping([concurrency |-> c, recovery_policy |-> p]), Mapping([success |-> h]), <<SomeJob>>) :
     d \in {Bad, Str("2s")}, s \in {Bad, Str("sock")}, b \in {Bad, Str("poll")},
     c \in {Bad, Num(2)}, p \in {Bad, Str("skip")}, h \in {Bad, Str("h")}}
Edited ==
  {FileOf(Mapping([debounce |-> d, socket |-> s, watch_backend |-> b, poll_interval |-> i,
                   respect_gitignore |-> g]), Bad, Bad, <<SomeJob>>) :
     d \in {Bad, Num(1), Str("0")}, s \in {Bad, Str("new"), Str("")}, b \in {Bad, Str("poll"), Str("x")},
     i \in {Bad, Str("5ms"), Flag(TRUE)}, g \in {Bad, Flag(TRUE), Str("x")}}
  \cup {FileOf(Bad, Mapping([concurrency |-> c, recovery_policy |-> p]),
               Mapping([success |-> h, close |-> e]), j) :
     c \in {Bad, Num(1), Num(0)}, p \in {Bad, Str("prompt"), Str("x")}, h \in {Bad, Str("g"), Num(1)},
     e \in {Bad, Str("e"), Str("{{paths}}")}, j \in {<<SomeJob>>, <<OtherJob, SomeJob>>, <<SomeJob, SomeJob>>}}
  \cup {Garbled, <<>>, <<List(<<SomeJob, OtherJob>>)>>,
        <<Hash([on |-> Hash([concurrency |-> Num(3), debounce |-> Str("5ms")]), tasks |-> List(<<SomeJob>>)])>>}

Reload == /\ Asked("reload")
          /\ \E f \in Started, g \in Edited : case' = [started |-> f, edited |-> g]

AsFile(content) == Defaults[1] :> content @@ Defaults[2] :> NoFile
Declares(content, field) ==
  CASE field = "concurrency" -> Has(PolicyOf(content, "execution"), "concurrency")
    [] field = "debounce" -> Has(Section(content, "on"), "debounce")
    [] field = "backend" -> Has(Section(content, "on"), "watch_backend")
    [] field = "recoveryPolicy" -> Has(Section(content, "execution"), "recovery_policy")
    [] OTHER -> TRUE

\* Editing the file of a running watcher comes to what a restart with the new
\* file would give (reload.rs, reload_session.rs, app.rs): both refuse the
\* same files, both read the same settings from the others, except that a
\* concurrency, debounce, backend or recovery policy the new file leaves out
\* stays the startup's; and a save that changes nothing is no new revision.
ReloadIsRestart ==
  LET Agree(running, candidate, restart) ==
        /\ candidate = Err <=> restart = Err
        /\ candidate # Err =>
             \A field \in DOMAIN running :
               candidate[1][field] = IF Declares(case.edited, field) THEN restart[1][field]
                                     ELSE running[field]
      Reloaded(running) ==
        /\ Decide(Surface(running), ValidateCandidate(case.started, running)) = "noop"
        /\ Agree(running, ValidateCandidate(case.edited, running),
                 Startup(AsFile(case.edited), None, NoOverride))
  IN  "started" \in DOMAIN case => AndThen(Startup(AsFile(case.started), None, NoOverride), Reloaded) = TRUE

(* What is routed after an edit, for the ways to start the watcher.        *)
Commit ==
  /\ Asked("commit")
  /\ \E f \in Started, g \in {FileOf(Bad, Bad, Bad, <<OtherJob, SomeJob>>), FileOf(Bad, Bad, Bad, <<OtherJob>>)},
        restart \in BOOLEAN, names \in {None, Some({"n"})} :
       case' = [ran |-> f, saved |-> g, cli |-> [NoOverride EXCEPT !.restart = restart, !.names = names]]

\* "either commits a hot reload (same process) or shuts down gracefully with a
\* nonzero exit (never leaves old config running silently)" (app.rs:764): once
\* a reload has been committed, the rules that are routed are its own.
CommittedIsRouted ==
  "ran" \in DOMAIN case =>
    LET Routed(running, candidate) ==
          Decide(Surface(running), candidate) = "commit" =>
            RoutedAfterCommit(running, candidate[1], case.cli) = candidate[1].rules
        Reloaded(running) == Routed(running, ValidateCandidate(case.saved, running))
    IN  Reloaded(Startup(AsFile(case.ran), None, case.cli)[1])

\* `fzz watch TARGET` keeps to the jobs of the target across reloads (the
\* candidate is built from the whole file, reload_session.rs:405).
TargetSurvivesReload ==
  "ran" \in DOMAIN case =>
    LET OfTarget(rules) == \A i \in DOMAIN rules : rules[i].name \in case.cli.names[1]
        Reloaded(running) ==
          OfTarget(RoutedAfterCommit(running, ValidateCandidate(case.saved, running)[1], case.cli))
    IN  case.cli.names # None => Reloaded(Startup(AsFile(case.ran), None, case.cli)[1])

(* One or two keys of a plain file, each with a value of any kind.         *)
Pool == {Str("x"), Str("0"), Str(""), Str("2s"), Str("poll"), Str("quiet"), Str("skip"),
         Str("{{paths}}"), Str(":lua f"), Num(0), Num(2), Flag(TRUE), List(<<>>), List(<<Str("x")>>),
         List(<<Num(1)>>), Hash([K |-> Str("v")]), Hash([K |-> Num(1)])}
Few == {Str("x"), Str("2s"), Str("poll"), Flag(TRUE), Num(2)}
Places == {<<owner, key>> : owner \in {"on", "execution", "hooks", "job", "root"},
                            key \in UNION {DOMAIN Catalog[o] : o \in DOMAIN Catalog} \cup {"jobs", "typo"}}
Sensible == {p \in Places : p[2] \in PropertyNames(p[1]) \cup {"typo", "output"}}
With(map, place, owner, v) == IF place[1] = owner THEN place[2] :> v @@ map ELSE map
Perturbed(p, v, q, w) ==
  LET Put(map, owner) == With(With(map, p, owner, v), q, owner, w)
      job == Hash(Put([name |-> Str("n"), run |-> Str("c"), change |-> Str("p")], "job"))
  IN  Hash(Put([on |-> Hash(Put(<<>>, "on")), execution |-> Hash(Put(<<>>, "execution")),
                hooks |-> Hash(Put(<<>>, "hooks")), jobs |-> List(<<job, OtherJob>>)], "root"))

Schema ==
  /\ Asked("schema")
  /\ \/ \E p \in Sensible, v \in Pool, q \in Sensible, w \in Few : case' = [document |-> Perturbed(p, v, q, w)]
     \/ \E profile \in Profiles : case' = [document |-> profile]

\* Values the schema's types admit and no meaning has: a blank text, a zero
\* duration, an empty list, a lua pattern, a template in the close hook.
Leaves(v) ==
  CASE IsStr(v) -> {v.str}
    [] IsList(v) -> IF v.list = <<>> THEN {""}
                    ELSE {v.list[i].str : i \in {i \in DOMAIN v.list : IsStr(v.list[i])}}
    [] OTHER -> {}
Meaningful(root) ==
  LET jobs == Key(root, "jobs").list
      owners == {Key(root, s) : s \in Sections} \cup {jobs[i] : i \in DOMAIN jobs}
      texts == UNION {Leaves(Key(o, k)) : o \in owners, k \in UNION {Keys(x) : x \in owners}}
  IN  /\ texts \cap ({"", "0"} \cup Lua) = {}
      /\ Leaves(Key(Key(root, "hooks"), "close")) \cap Templated = {}
      /\ \A i, j \in DOMAIN jobs : i # j => Key(jobs[i], "name") # Key(jobs[j], "name")

\* The schema that `fzz config schema` prints and the parser describe one
\* language (option_catalog.rs, cli/config.rs, config.rs, cli/templates.rs): a
\* file that is valid under the schema and has no empty value is accepted,
\* every profile of `fzz init` is, and an accepted file has no key that the
\* schema does not know.
SchemaValidIsAccepted ==
  "document" \in DOMAIN case =>
    LET root == case.document
        Agree(accepted, valid) ==
          /\ valid /\ Meaningful(root) => accepted
          /\ root \in Profiles => accepted /\ valid
          /\ accepted => /\ Keys(root) \subseteq PropertyNames("root")
                         /\ \A s \in Sections : Keys(Key(root, s)) \subseteq PropertyNames(s)
                         /\ \A i \in DOMAIN Key(root, "jobs").list :
                              Keys(Key(root, "jobs").list[i]) \subseteq PropertyNames("job")
    IN  Agree(ValidateCandidate(<<root>>, Builtin) # Err, FullSchema(root))

(* Files of the older forms.                                               *)
OldTasks ==
  {Hash([name |-> Str("n"), run |-> Str("c")] @@ extra) :
     extra \in {<<>>, [change |-> Str("p")], [change |-> List(<<Str("p"), Str("q")>>), service |-> Flag(TRUE)],
                [change |-> Str("p"), output |-> Str("quiet")], [change |-> Str("p"), typo |-> Num(1)],
                [change |-> Str("p"), recovery |-> Str("r")], [name |-> Str("m"), run_on_init |-> Flag(TRUE)]}}
OldFiles ==
  {<<List(tasks)>> : tasks \in UpTo(OldTasks, 2)}
  \cup {<<Mapping([on |-> on, execution |-> e, hooks |-> h, tasks |-> List(tasks)])>> :
          on \in {Bad, Mapping([change |-> Str("o")]), Mapping([concurrency |-> Num(2), output |-> Str("quiet")])},
          e \in {Bad, Mapping([output |-> Str("capture")]), Mapping([recovery_policy |-> Str("skip")])},
          h \in {Bad, Mapping([close |-> Str("x")])}, tasks \in UpTo(OldTasks, 2)}
  \cup {<<Mapping([on |-> Hash([change |-> Str("o")]), jobs |-> List(tasks)])>> : tasks \in UpTo(OldTasks, 2)}
  \cup {<<List(<<Hash([tasks |-> List(<<task>>)])>>)>> : task \in OldTasks}
  \cup {Garbled, <<>>, <<Str("x")>>, <<List(<<SomeJob>>), List(<<SomeJob>>)>>}

Migration == /\ Asked("migrate")
             /\ \E file \in OldFiles, block \in BOOLEAN : case' = [old |-> file, block |-> block]

\* What a list's task does not say in the older form.
Unsaid(rules) == [i \in DOMAIN rules |-> [rules[i] EXCEPT !.service = FALSE, !.output = "inherit"]]

\* `fzz migrate` keeps the jobs (cli/migrate.rs): a file it succeeds on is
\* accepted afterwards, by the same rules and the same policy as before
\* (except that a job of a list now has its `service` and `output` read), and
\* migrating it again changes nothing.
MigrationKeepsJobs ==
  LET PolicyRead(content) == <<ConcurrencyFromYaml(content), GenerationHooksFromYaml(content),
                               SessionHooksFromYaml(content)>>
      SameRules(before, after) ==
        /\ after # Err
        /\ before # Err =>
             IF IsList(Root(case.old)) THEN Unsaid(after[1]) = Unsaid(before[1]) ELSE after = before
      Keeps(done) ==
        done.ok =>
          /\ Migrate(done.content, case.block) = done
          /\ SameRules(FromYaml(case.old), FromYaml(done.content))
          /\ PolicyRead(done.content) = PolicyRead(case.old)
  IN  "old" \in DOMAIN case => Keeps(Migrate(case.old, case.block))

(* Where a client finds the watcher.                                       *)
SocketFiles ==
  {NoFile, Garbled, <<List(<<SomeJob>>)>>}
  \cup {FileOf(Mapping([socket |-> s, debounce |-> d]), Bad, Bad, <<SomeJob>>) :
          s \in {Bad, Str("sock"), Str("other"), Str(""), Num(1)}, d \in {Bad, Str("0")}}

Locate ==
  /\ Asked("socket")
  /\ \E yaml \in SocketFiles, yml \in SocketFiles, config \in {None} \cup {Some(d) : d \in ToSet(Defaults)},
        flag \in {None, Some("flag")} :
       case' = [files |-> Defaults[1] :> yaml @@ Defaults[2] :> yml, config |-> config, flag |-> flag]

\* `fzz control` reaches the socket that a watcher started with the same
\* options and files listens on, and finds none when that watcher has none,
\* if the files leave no doubt: --config names one, or not both default names
\* exist (app.rs, resolve_control_socket; cli/control.rs, resolve_socket).
ClientFindsTheSocket ==
  "files" \in DOMAIN case =>
    LET Finds(watcher, client) ==
          watcher # Err => client = IF watcher[1].socket = None THEN Err ELSE Ok(watcher[1].socket)
        plain == case.config # None \/ \E d \in ToSet(Defaults) : ~Exists(case.files, d)
    IN  plain => Finds(Startup(case.files, case.config, [NoOverride EXCEPT !.socket = case.flag]),
                       ResolveSocket(case.files, case.config, case.flag))

\* Every reader of a configuration file takes it for the same: the watcher,
\* the schema, `fzz migrate` and the clients of the socket.
ReadersOfAFileAgree == SchemaValidIsAccepted /\ MigrationKeepsJobs /\ ClientFindsTheSocket

-----------------------------------------------------------------------------
(* Estimates: up to twenty durations of two values, in any order.          *)
Durations == {0, 1, 999, 4000, 1000000, MaxMs}
Sampled(n, k, low, high) == [i \in 1..n |-> IF i <= k THEN high ELSE low]
Estimation ==
  /\ Asked("estimate")
  /\ \E n \in 1..20 : \E k \in 0..n, low \in Durations, high \in Durations, floor \in {<<>>, <<0>>, <<20000>>} :
       case' = [samples |-> Sampled(n, k, low, high), floor |-> floor]

\* The estimate promises what its names say (duration_history.rs): at least
\* nine runs in ten took no more than upperMs and half no more than typicalMs
\* (give or take its rounding), the recommended timeout leaves half of upperMs
\* and two seconds as margin unless the absolute cap is lower, and no floor
\* and no overflow takes it out of its range.
EstimateCoversMostRuns ==
  "samples" \in DOMAIN case =>
    LET e == Estimate(case.samples, case.floor)[1]
        Within(bound) == Cardinality({i \in DOMAIN case.samples : case.samples[i] <= bound})
    IN  /\ 10 * Within(e.upperMs) >= 9 * Len(case.samples)
        /\ 2 * Within(e.typicalMs) >= Len(case.samples)
        /\ e.typicalMs <= e.upperMs
        /\ e.recommendedTimeoutMs \in FloorMs..CapMs
        /\ e.recommendedTimeoutMs < CapMs => e.recommendedTimeoutMs - AddendMs >= e.upperMs + e.upperMs \div 2

-----------------------------------------------------------------------------
(* Command lines of `fzz control`: every set of a subcommand's options,    *)
(* each with one of its values.                                            *)
ValueOf(option) ==
  CASE option = "target" -> <<"t", "">> [] option = "path" -> <<"p", "">>
    [] option = "timeout" -> <<"2s", "0">> [] option \in {"after", "generation"} -> <<1, 0>>
    [] option = "task" -> <<"t", "">> [] option = "tail" -> <<3, 0>>
    [] option = "page-size" -> <<7, 0, 99999>> [] option = "cursor" -> <<"c", "">>
    [] OTHER -> <<TRUE>>
CommandLines(D) ==
  {[o \in D |-> ValueOf(o)[index[o]]] :
     index \in {f \in [D -> 1..3] : \A o \in D : f[o] <= Len(ValueOf(o))}}

Output ==
  /\ Asked("output")
  /\ \E D \in SUBSET ControlArgs.output.options : \E line \in CommandLines(D) : case' = [options |-> line]

\* What the options of `fzz control output` say, to the letter; a page that
\* is given no size has the default one.
Intent(given) ==
  LET page == "page" \in DOMAIN given \/ "full" \in DOMAIN given
      Said(option) == IF option \in DOMAIN given THEN Some(given[option]) ELSE None
  IN  [task |-> Said("task"), page |-> page, tail |-> Said("tail"), cursor |-> Said("cursor"),
       stream |-> IF "stdout" \in DOMAIN given THEN Some("stdout")
                  ELSE IF "stderr" \in DOMAIN given THEN Some("stderr") ELSE None,
       budget |-> IF page THEN Some(OrElse(Said("page-size"), DefaultPage)) ELSE None]

\* What the server makes of the request that the client makes of a line.
Served(given) == Retrieval(Request(1, "output", ParamsOf("output", ActionOf("output", given), "tok")))

\* What the server does not take to the letter: 0 and a blank text are no
\* value, and a page is cut to the largest size.
Taken(given) ==
  LET Means(o) == CASE o \in {"tail", "page-size"} -> given[o] > 0
                    [] o \in {"task", "cursor"} -> given[o] # ""
                    [] OTHER -> TRUE
      meant == [o \in {o \in DOMAIN given : Means(o)} |-> given[o]]
  IN  [Intent(meant) EXCEPT !.budget = IF @ = None THEN None ELSE Some(Smaller(@[1], PageMax))]

\* Every `fzz control output` command line that clap accepts is served, never
\* refused for its options (control_client.rs, output; control.rs,
\* output_retrieval), and as its options say, to the letter if no value is 0
\* or blank and no page larger than the maximum, and otherwise as the line
\* would be that leaves such a value out or asks for the maximum.
AskedIsServed ==
  "options" \in DOMAIN case =>
    (Accepts("output", case.options) => Served(case.options) = Taken(case.options))

(* What the handlers can answer, one field of the record at a time.        *)
SomeTask == [id |-> "i", name |-> "n", state |-> "failed", durationMs |-> None]
States ==
  {[generation |-> 1, state |-> st, trigger |-> tr, commands |-> <<"c">>, durationMs |-> d, failures |-> fl,
    batch |-> b, changed |-> <<>>, predecessor |-> None, supersededBy |-> b, tasks |-> ts,
    effectiveConcurrency |-> e, concurrencySource |-> src, revision |-> r, revisionHash |-> h] :
     st \in {"running", "failed"}, tr \in {None, Some("t")}, d \in {None, Some(5)}, fl \in {<<>>, <<"f">>},
     b \in {None, Some(2)}, ts \in {<<>>, <<SomeTask>>, <<[SomeTask EXCEPT !.durationMs = Some(3)], SomeTask>>},
     e \in {None, Some(4)}, src \in {None, Some("file")}, r \in {None, Some(1)}, h \in {None, Some("h")}}
PlainState == CHOOSE s \in States : s.state = "failed" /\ s.tasks = <<SomeTask>> /\ s.revision = None
Evidences ==
  {None} \cup {Some([excerpt |-> "x", lines |-> 1, truncated |-> tr, totalObservedBytes |-> 9, retainedBytes |-> 9,
                     retrieve |-> "cmd", additionalFailedTasks |-> n, outputRef |-> ref]) :
                 tr \in BOOLEAN, n \in 0..1,
                 ref \in {None, Some([instanceToken |-> "tok", generation |-> 1, task |-> "n", tail |-> 80,
                                      maxBytes |-> 24576, retrieve |-> "cmd"])}}
Transitions == {[phase |-> "running", revision |-> r, revisionHash |-> h, reason |-> q, ordinal |-> 1, atEpochMs |-> 7] :
                  r \in {None, Some(1)}, h \in {None, Some("h")}, q \in {None, Some("q")}}
Streams == {None, Some([content |-> "x", lines |-> 1, retainedBytes |-> 1, observedBytes |-> 2, truncated |-> TRUE])}
Retrieved == {[generation |-> 1, tasks |-> ts, revision |-> r, revisionHash |-> h, resolvedTask |-> rt,
               nextCursor |-> nc, returnedBytes |-> rb, truncated |-> tr] :
                ts \in {<<>>} \cup {<<[id |-> "n", stdout |-> o, stderr |-> e]>> : o \in Streams, e \in Streams},
                r \in {None, Some(1)}, h \in {None, Some("h")}, rt \in {None, Some("n")}, nc \in {None, Some("c")},
                rb \in {None, Some(3)}, tr \in {None, Some(TRUE)}}
Awaited == {[snapshot |-> PlainState, terminalReason |-> q, latestGeneration |-> 2, latestBatch |-> b,
             debounceActive |-> d, queuedBatches |-> 1, freshness |-> f, failureEvidence |-> ev, lifecycle |-> l] :
              q \in Reasons, b \in {None, Some(1)}, d \in BOOLEAN, f \in {"current", "stale", "unknown"},
              ev \in Evidences, l \in {None} \cup {Some(t) : t \in Transitions}}
Revised(record) == {record @@ [revision |-> r, revisionHash |-> h] : r \in {None, Some(1)}, h \in {None, Some("h")}}

BaseApi ==
  [state |-> PlainState, evidence |-> None, lifecycle |-> None, history |-> <<>>, targets |-> <<>>, run |-> None,
   emit |-> None, cancel |-> [kind |-> "error", revision |-> None, revisionHash |-> None], retrieved |-> None,
   await |-> CHOOSE a \in Awaited : TRUE, broker |-> TRUE, estimates |-> TRUE, token |-> "tok"]

Apis(sub) ==
  CASE sub = "status" -> {[BaseApi EXCEPT !.state = st, !.evidence = ev] :
                            st \in States, ev \in {None, CHOOSE e \in Evidences : e # None}}
    [] sub = "list" -> {[BaseApi EXCEPT !.targets = t] :
         t \in UpTo({[name |-> "n", commands |-> <<"c", "d">>, estimate |-> e] :
                       e \in {<<>>} \cup {Estimate(<<1, 2>>, <<>>), Estimate([i \in 1..12 |-> i], <<>>)}}, 2)}
    [] sub = "capabilities" -> {[BaseApi EXCEPT !.broker = b, !.estimates = e, !.lifecycle = l, !.run = r] :
         b \in BOOLEAN, e \in BOOLEAN, l \in {None} \cup {Some(t) : t \in Transitions},
         r \in {None, Some([kind |-> "internal"])}}
    [] sub = "config" -> {BaseApi} \cup {[BaseApi EXCEPT !.lifecycle = Some(t), !.history = h] :
         t \in Transitions, h \in UpTo(Transitions, 2)}
    [] sub = "run" -> {BaseApi, [BaseApi EXCEPT !.run = Some([kind |-> "internal"])],
                       [BaseApi EXCEPT !.run = Some([kind |-> "not_found"])]}
         \cup {[BaseApi EXCEPT !.run = Some([kind |-> "scheduled", scheduled |-> r])] : r \in Revised([runId |-> 3])}
    [] sub = "emit" -> {BaseApi} \cup {[BaseApi EXCEPT !.emit = Some(e)] : e \in UNION {
         Revised([matched |-> m, runId |-> r, outcome |-> o]) : m \in {<<>>, <<"n">>}, r \in {None, Some(3)},
         o \in {"scheduled", "unmatched", "ignored"}}}
    [] sub = "cancel" -> {[BaseApi EXCEPT !.cancel = c] : c \in UNION {Revised([kind |-> k]) :
         k \in {"error", "noop", "escalated", "graceful"}}}
    [] sub = "output" -> {BaseApi} \cup {[BaseApi EXCEPT !.retrieved = Some([kind |-> k])] :
         k \in {"generation", "task", "cursor"}}
         \cup {[BaseApi EXCEPT !.retrieved = Some([kind |-> "ok", output |-> o])] : o \in Retrieved}
    [] sub = "await" -> {[BaseApi EXCEPT !.await = a] : a \in Awaited}

Reply ==
  /\ Asked("reply")
  /\ \E sub \in DOMAIN ControlArgs : \E D \in SUBSET (ControlArgs[sub].options \ {"stdout", "stderr", "page-size", "cursor"}) :
       \E line \in CommandLines(D), api \in Apis(sub) :
         /\ Accepts(sub, line)
         /\ case' = [subcommand |-> sub, given |-> line, api |-> api]

\* The codes of what the handler of the subcommand can answer.
CodesOf(sub, given, api) ==
  CASE sub = "config" -> IF api.lifecycle = None THEN {-32017} ELSE {}
    [] sub = "run" -> IF given["target"] = "" THEN {-32602}
                      ELSE IF api.run = None THEN {-32000}
                      ELSE IF api.run[1].kind = "not_found" THEN {-32016}
                      ELSE IF api.run[1].kind = "internal" THEN {-32000} ELSE {}
    [] sub = "emit" -> IF api.emit = None THEN {-32000} ELSE {}
    [] sub = "cancel" -> IF api.cancel.kind = "error" THEN {-32000}
                         ELSE IF api.cancel.kind = "escalated" THEN {-32021} ELSE {}
    [] sub = "output" -> IF api.retrieved = None THEN {-32014}
                         ELSE IF api.retrieved[1].kind = "generation" THEN {-32010}
                         ELSE IF api.retrieved[1].kind = "task" THEN {-32011}
                         ELSE IF api.retrieved[1].kind = "cursor" THEN {-32013} ELSE {}
    [] OTHER -> {}

\* What a client keeps of a response.  Its decoders leave behind, of a status,
\* what ran before and after, the changed paths and the evidence; of a cancel
\* and of an output, the revision; of an await, the lifecycle.
Without(record, fields) == [f \in DOMAIN record \ fields |-> record[f]]
Revisions == {"revision", "revisionHash"}
KeptState(state) ==
  [Without(state, {"batch", "changed", "predecessor", "supersededBy"}) EXCEPT !.tasks = Some(@)]
KeptEvidence(evidence) ==
  LET Ref(ref) == IF ref = None THEN None ELSE Some(ref[1] @@ [mode |-> "tail"])
  IN  IF evidence = None THEN None ELSE Some([evidence[1] EXCEPT !.outputRef = Ref(@)])

Carries(sub, s, given, api) ==
  CASE sub = "status" -> s = KeptState(api.state)
    [] sub = "list" -> s = api.targets
    [] sub = "capabilities" -> /\ s.token = api.token
                               /\ s.features["subscription"] = api.broker
                               /\ s.features["sequentialOverride"] = (api.run # None)
                               /\ ("config" \in ToSet(s.methods)) = (api.lifecycle # None)
    [] sub = "config" -> s.current = api.lifecycle[1] /\ s.history = api.history
    [] sub = "run" -> s = api.run[1].scheduled
    [] sub = "emit" -> s = api.emit[1]
    [] sub = "cancel" -> s = [cancelled |-> api.cancel.kind = "graceful", generation |-> given["generation"]]
    [] sub = "output" -> s = Without(api.retrieved[1].output, Revisions)
    [] sub = "await" -> s = [Without(api.await, {"lifecycle"}) EXCEPT !.snapshot = KeptState(@),
                                                                    !.failureEvidence = KeptEvidence(@)]

\* An accepted command line gets the answer of the handler behind the server
\* (arguments.rs, control_client.rs, control.rs, cli/format.rs): no response
\* is malformed to the client's decoders, an error is one of the handler's and
\* never of the options, every field that a snapshot of the client has is
\* what was serialized, whatever was absent or null, and no field is missing
\* but those that Carries names; and the printed document of a status, run,
\* emit, cancel or capabilities call has lost nothing of the snapshot.
ReplyIsCarried ==
  "subcommand" \in DOMAIN case =>
    LET method == MethodOf(case.subcommand)
        Carried(answer, codes) ==
          IF codes # {} THEN "server" \in DOMAIN answer /\ answer.server \in codes
          ELSE /\ "snapshot" \in DOMAIN answer
               /\ Carries(case.subcommand, answer.snapshot, case.given, case.api)
               /\ method \in {"status", "run", "emit", "cancel", "capabilities"} =>
                    Decode(method, Document(method, answer.snapshot)) = Ok(answer.snapshot)
    IN  Carried(Call(4, method, ParamsOf(case.subcommand, ActionOf(case.subcommand, case.given), case.api.token),
                     case.api),
                CodesOf(case.subcommand, case.given, case.api))


\* The two statements below are false of the code.
\* "Last N lines per stream (default: 40)" (arguments.rs:884): every option
\* is served to the letter.  The server reads --tail 0 as the default, and a
\* blank --task as all tasks.
OptionsAreServedToTheLetter ==
  "options" \in DOMAIN case =>
    (Accepts("output", case.options) => Served(case.options) = Intent(case.options))

\* `fzz control status` knows all that the watcher says of a run: the
\* evidence of a failure, for one, is served with the status
\* (control.rs, status_result) and not decoded.
StatusIsReadWhole ==
  "subcommand" \in DOMAIN case /\ case.subcommand = "status" =>
    LET answer == Call(4, "status", <<>>, case.api)
    IN  Keys(StatusResult(case.api).result) \subseteq DOMAIN answer.snapshot

Next == Plan \/ Template \/ Revision \/ Signature \/ Route \/ Target \/ Reload \/ Commit \/ Schema \/ Migration \/ Locate
        \/ Estimation \/ Output \/ Reply
Spec == Init /\ [][Next]_case
=============================================================================
