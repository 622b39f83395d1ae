------------------------------ MODULE Settings ------------------------------
(***************************************************************************)
(* The configuration file: the parser and its compatibility forms          *)
(* (config.rs, yaml.rs), the option catalog and the schema made from it    *)
(* (option_catalog.rs, cli/config.rs), the loaders of a starting watcher   *)
(* (app.rs), the reload's reading of the same text (reload.rs,             *)
(* reload_session.rs), `fzz check`, `fzz migrate`, `fzz init` and the      *)
(* control client's search for its socket.                                 *)
(*                                                                         *)
(* A YAML value is a record whose only field names its type.  A text is    *)
(* told apart as far as some reader does: "" is blank, a member of Lua or  *)
(* Templated is what its name says, a duration is a member of Numerals.    *)
(* A result is <<>> (an error) or <<value>>, and so is an Option.          *)
(***************************************************************************)
EXTENDS Plans, TLC

None == <<>>
Some(v) == <<v>>
Err == <<>>
Ok(v) == <<v>>
OrElse(option, default) == IF option = None THEN default ELSE option[1]
AndThen(result, Use(_)) == IF result = Err THEN Err ELSE Use(result[1])

\* All results, or the error of one.
Collect(results) ==
  IF \E i \in DOMAIN results : results[i] = Err THEN Err ELSE Ok([i \in DOMAIN results |-> results[i][1]])

(***************************************************************************)
(* YAML values                                                             *)
(***************************************************************************)
Bad == [bad |-> TRUE]                     \* Yaml::BadValue: no such key
Str(s) == [str |-> s]
Num(n) == [int |-> n]
Flag(b) == [flag |-> b]
List(items) == [list |-> items]
Hash(map) == [hash |-> map]
IsStr(v) == "str" \in DOMAIN v
IsInt(v) == "int" \in DOMAIN v
IsFlag(v) == "flag" \in DOMAIN v
IsList(v) == "list" \in DOMAIN v
IsHash(v) == "hash" \in DOMAIN v

Key(v, k) == IF IsHash(v) /\ k \in DOMAIN v.hash THEN v.hash[k] ELSE Bad
Keys(v) == IF IsHash(v) THEN DOMAIN v.hash ELSE {}
Has(v, k) == Key(v, k) # Bad

\* The content of a file is the sequence of its documents.
Garbled == <<[garbled |-> TRUE]>>         \* text that is not YAML
Readable(content) == content # <<>> /\ content # Garbled
Root(content) == content[1]

Lua == {":lua f"}
Templated == {"{{paths}}"}
Numerals == "0" :> <<0, "">> @@ "1" :> <<1, "">> @@ "5ms" :> <<5, "ms">>
         @@ "2s" :> <<2, "s">> @@ "499s" :> <<499, "s">> @@ "9m" :> <<9, "m">>

(***************************************************************************)
(* yaml.rs                                                                 *)
(***************************************************************************)
AsList(v) ==
  CASE IsList(v) -> Ok([i \in DOMAIN v.list |-> IF IsStr(v.list[i]) THEN v.list[i].str ELSE "_invalid_value_"])
    [] IsStr(v) -> Ok(<<v.str>>)
    [] OTHER -> Err
ExtractList(v, k) == AsList(Key(v, k))

AsString(v) == IF IsStr(v) THEN Ok(v.str) ELSE Err
ExtractString(v, k) == AsString(Key(v, k))

AsOptionalString(v) ==
  CASE v = Bad -> Ok(None)
    [] IsStr(v) /\ v.str # "" -> Ok(Some(v.str))
    [] OTHER -> Err
ExtractOptionalString(v, k) == AsOptionalString(Key(v, k))

Pairs(map, names) == [i \in DOMAIN names |-> <<names[i], map[names[i]].str>>]
AsOptionalStringMap(v) ==
  CASE v = Bad -> Ok(<<>>)
    [] IsHash(v) /\ "" \notin DOMAIN v.hash /\ (\A n \in DOMAIN v.hash : IsStr(v.hash[n])) ->
         Ok(Pairs(v.hash, SetToSeq(DOMAIN v.hash)))
    [] OTHER -> Err
ExtractOptionalStringMap(v, k) == AsOptionalStringMap(Key(v, k))

ExtractBool(v, k) == Key(v, k) = Flag(TRUE)

(***************************************************************************)
(* Durations, of the file and of the command line alike.  MaxMillis stands *)
(* for u64::MAX in the checked multiplication.                             *)
(***************************************************************************)
MaxMillis == 500000
Multiplier(suffix) == CASE suffix = "ms" -> 1 [] suffix = "m" -> 60000 [] OTHER -> 1000

CheckedMillis(n, multiplier) ==
  IF n = 0 \/ n > MaxMillis \div multiplier THEN Err ELSE Ok(n * multiplier)

ParseDebounce(text) ==
  IF text \notin DOMAIN Numerals THEN Err
  ELSE CheckedMillis(Numerals[text][1], Multiplier(Numerals[text][2]))

\* A duration key takes a string, or an integer read as its decimal text.
DurationOf(v) ==
  IF IsInt(v) \/ IsStr(v) THEN ParseDebounce(IF IsInt(v) THEN ToString(v.int) ELSE v.str) ELSE Err

(***************************************************************************)
(* option_catalog.rs                                                       *)
(***************************************************************************)
Enums == [backend |-> {"native", "poll", "auto"},
          output |-> {"inherit", "quiet", "capture", "show-on-failure"},
          policy |-> {"prompt", "skip"}]

Catalog ==
  [on |-> [change |-> "list", ignore |-> "list", socket |-> "string", debounce |-> "duration",
           watch_backend |-> "backend", poll_interval |-> "duration", respect_gitignore |-> "bool"],
   execution |-> [concurrency |-> "int", output |-> "output", recovery_policy |-> "policy"],
   hooks |-> [success |-> "string", failure |-> "string", close |-> "string"],
   job |-> [name |-> "string", run |-> "list", recovery |-> "list", change |-> "list",
            ignore |-> "list", run_on_init |-> "bool", parallel |-> "string", cwd |-> "string",
            env |-> "map", service |-> "bool", output |-> "output"]]
Sections == {"on", "execution", "hooks"}

PropertyNames(owner) == IF owner = "root" THEN Sections \cup {"jobs"} ELSE DOMAIN Catalog[owner]

(***************************************************************************)
(* cli/config.rs: what a validator accepts under the printed schema        *)
(***************************************************************************)
SchemaProperty(kind, v) ==
  CASE kind = "bool" -> IsFlag(v)
    [] kind = "int" -> IsInt(v) /\ v.int >= 1
    [] kind = "string" -> IsStr(v)
    [] kind = "list" -> IsStr(v) \/ (IsList(v) /\ \A i \in DOMAIN v.list : IsStr(v.list[i]))
    [] kind = "duration" -> IsStr(v) /\ v.str \in DOMAIN Numerals
    [] kind = "map" -> IsHash(v) /\ \A k \in Keys(v) : IsStr(Key(v, k))
    [] OTHER -> IsStr(v) /\ v.str \in Enums[kind]

SectionProperties(owner, v) ==
  /\ IsHash(v) /\ Keys(v) \subseteq PropertyNames(owner)
  /\ \A k \in Keys(v) : SchemaProperty(Catalog[owner][k], Key(v, k))

SectionJob(v) ==
  /\ SectionProperties("job", v)
  /\ {"name", "run"} \subseteq Keys(v)
  /\ ~(Has(v, "recovery") /\ Key(v, "service") = Flag(TRUE))

SectionJobs(v) ==
  IsList(v) /\ v.list # <<>> /\ \A i \in DOMAIN v.list : SectionJob(v.list[i])

FullSchema(root) ==
  /\ IsHash(root) /\ Keys(root) \subseteq PropertyNames("root")
  /\ \A s \in Sections \cap Keys(root) : SectionProperties(s, Key(root, s))
  /\ SectionJobs(Key(root, "jobs"))

(***************************************************************************)
(* config.rs: rules                                                        *)
(***************************************************************************)
LegacyOn == {"concurrency", "output", "success", "failure", "close"}

ValidateSection(root, name) ==
  Has(root, name) =>
    /\ IsHash(Key(root, name))
    /\ Keys(Key(root, name)) \subseteq
         PropertyNames(name) \cup (IF name = "on" /\ Has(root, "tasks") THEN LegacyOn ELSE {})

ValidateV2Sections(root) ==
  /\ Keys(root) \subseteq PropertyNames("root") \cup {"tasks"}
  /\ \A s \in Sections : ValidateSection(root, s)

\* Where a grouped legacy file keeps its policy.
Policy(root, section) ==
  IF ~Has(root, section) /\ Has(root, "tasks") THEN Key(root, "on") ELSE Key(root, section)

\* A keyword of the catalog, with what an absent one stands for.
AsKeyword(v, enum, default) ==
  CASE v = Bad -> Ok(default)
    [] IsStr(v) /\ v.str \in Enums[enum] -> Ok(v.str)
    [] OTHER -> Err

OutputPolicyFromRoot(root) == AsKeyword(Key(Policy(root, "execution"), "output"), "output", "inherit")

RecoveryPolicyFrom(execution, legacy) ==
  CASE execution = Bad -> Ok("prompt")
    [] ~IsHash(execution) \/ (legacy /\ Has(execution, "recovery_policy")) -> Err
    [] OTHER -> AsKeyword(Key(execution, "recovery_policy"), "policy", "prompt")
RecoveryPolicyFromRoot(root) == RecoveryPolicyFrom(Key(root, "execution"), Has(root, "tasks"))

EnsureGlobOnly(patterns) == ToSet(patterns) \cap Lua = {}
MergePatterns(common, own) ==
  FoldLeft(LAMBDA merged, p : IF p \in ToSet(merged) THEN merged ELSE Append(merged, p), common, own)
ListOrNone(v, k) == OrElse(ExtractList(v, k), <<>>)

AsCommands(v) ==
  CASE v = Bad -> Ok(None)
    [] IsStr(v) /\ v.str # "" -> Ok(Some(<<v.str>>))
    [] IsList(v) /\ v.list # <<>> /\ (\A i \in DOMAIN v.list : IsStr(v.list[i]) /\ v.list[i].str # "") ->
         Ok(Some([i \in DOMAIN v.list |-> v.list[i].str]))
    [] OTHER -> Err
RecoveryCommandsFromYaml(v) == AsCommands(Key(v, "recovery"))

\* A Boolean that is FALSE when it is absent.
AsFlag(v) == IF v = Bad THEN Ok(FALSE) ELSE IF IsFlag(v) THEN Ok(v.flag) ELSE Err

\* A task's own output policy, else that of the execution section.
OutputOf(v, common) == AsKeyword(Key(v, "output"), "output", common.output)

\* The fields a task of any form is read from.
Task(v, change, ignore, recovery, service, output) ==
  IF ~EnsureGlobOnly(change \o ignore) THEN Err
  ELSE AndThen(Collect(<<ExtractString(v, "name"), ExtractList(v, "run"), recovery, service, output,
                         ExtractOptionalString(v, "parallel"), ExtractOptionalString(v, "cwd"),
                         ExtractOptionalStringMap(v, "env")>>),
         LAMBDA f : Ok([name |-> f[1], commands |-> f[2], change |-> change, ignore |-> ignore,
                        init |-> ExtractBool(v, "run_on_init"), parallel |-> f[6], cwd |-> f[7],
                        env |-> f[8], recovery |-> f[3], service |-> f[4], output |-> f[5]]))

\* A task of a legacy list: unknown keys, `service` and `output` are not read.
RuleFrom(v) ==
  IF Has(v, "recovery") THEN Err
  ELSE Task(v, ListOrNone(v, "change"), ListOrNone(v, "ignore"), Ok(None), Ok(FALSE), Ok("inherit"))

RuleFromWithCommon(v, common) ==
  IF ~(Keys(v) \subseteq PropertyNames("job")) \/ (Has(v, "recovery") /\ Key(v, "service") = Flag(TRUE)) THEN Err
  ELSE Task(v, MergePatterns(common.change, ListOrNone(v, "change")),
            MergePatterns(common.ignore, ListOrNone(v, "ignore")),
            RecoveryCommandsFromYaml(v), AsFlag(Key(v, "service")), OutputOf(v, common))

ExtractCommonRules(root) ==
  [change |-> ListOrNone(Key(root, "on"), "change"), ignore |-> ListOrNone(Key(root, "on"), "ignore"),
   output |-> OrElse(OutputPolicyFromRoot(root), "")]

RejectDuplicateNames(rules) ==
  IF \E i, j \in DOMAIN rules : i # j /\ rules[i].name = rules[j].name THEN Err ELSE Ok(rules)

ParseItems(items, common) ==
  IF ~EnsureGlobOnly(common.change \o common.ignore) THEN Err
  ELSE AndThen(Collect([i \in DOMAIN items |-> RuleFromWithCommon(items[i], common)]), RejectDuplicateNames)

\* The items under `jobs`, or under `tasks` in a legacy file.
ItemsOf(v, legacy, allowEmpty) ==
  IF \/ ~IsList(v)
     \/ v.list = <<>> /\ ~allowEmpty
     \/ legacy /\ \E i \in DOMAIN v.list : Has(v.list[i], "recovery")
  THEN Err ELSE Ok(v.list)

ParseHashFormat(root, allowEmpty) ==
  IF \/ Has(root, "jobs") /\ Has(root, "tasks")
     \/ ~ValidateV2Sections(root)
     \/ RecoveryPolicyFromRoot(root) = Err
     \/ OutputPolicyFromRoot(root) = Err
  THEN Err
  ELSE AndThen(ItemsOf(Key(root, IF Has(root, "jobs") THEN "jobs" ELSE "tasks"), Has(root, "tasks"), allowEmpty),
               LAMBDA items : ParseItems(items, ExtractCommonRules(root)))

\* An item of a root list: a group with `tasks`, or a task.
ParseListItem(v) ==
  IF Has(v, "tasks") THEN ParseHashFormat(v, TRUE) ELSE AndThen(RuleFrom(v), LAMBDA rule : Ok(<<rule>>))

ParseRoot(root) ==
  CASE IsHash(root) -> ParseHashFormat(root, FALSE)
    [] IsList(root) -> AndThen(Collect([i \in DOMAIN root.list |-> ParseListItem(root.list[i])]),
                               LAMBDA groups : Ok(FlattenSeq(groups)))
    [] OTHER -> Err

FromYaml(content) == IF Readable(content) THEN ParseRoot(Root(content)) ELSE Err

\* rules.rs: validate_rules
ValidateRules(rules) ==
  \A i \in DOMAIN rules : /\ rules[i].commands # <<>>
                          /\ ~(rules[i].service /\ rules[i].recovery # None)
                          /\ rules[i].change # <<>> \/ rules[i].init

(***************************************************************************)
(* config.rs: policy                                                       *)
(***************************************************************************)
\* One key of a section: absent, or read by Value, which may refuse it.
Read(content, section, key, default, Value(_)) ==
  CASE ~Readable(content) -> Err
    [] Readable(content) /\ section = Bad -> Ok(default)
    [] Readable(content) /\ section # Bad /\ ~IsHash(section) -> Err
    [] OTHER -> IF Has(section, key) THEN Value(Key(section, key)) ELSE Ok(default)

Optional(result) == AndThen(result, LAMBDA v : Ok(Some(v)))
Section(content, name) == IF Readable(content) THEN Key(Root(content), name) ELSE Bad
PolicyOf(content, name) == IF Readable(content) THEN Policy(Root(content), name) ELSE Bad

ConcurrencyFromYaml(content) ==
  Read(content, PolicyOf(content, "execution"), "concurrency", None,
       LAMBDA v : IF IsInt(v) /\ v.int > 0 THEN Ok(Some(v.int)) ELSE Err)

DebounceFromYaml(content) ==
  Read(content, Section(content, "on"), "debounce", None, LAMBDA v : Optional(DurationOf(v)))

\* The interval is looked at only next to a backend, and is at least 20 ms.
WatchBackendFromYaml(content) ==
  LET Interval(v) == IF v = Bad THEN Ok(500) ELSE DurationOf(v)
      Backend(v) == IF ~IsStr(v) \/ v.str \notin Enums.backend THEN Err
                    ELSE AndThen(Interval(Key(Section(content, "on"), "poll_interval")),
                           LAMBDA ms : Ok(Some(IF v.str = "poll" THEN <<"poll", Max({20, ms})>> ELSE <<v.str>>)))
  IN  Read(content, Section(content, "on"), "watch_backend", None, Backend)

RespectGitignoreFromYaml(content) ==
  IF Readable(content) THEN AsFlag(Key(Section(content, "on"), "respect_gitignore")) ELSE Err

RecoveryPolicyFromYaml(content, default) ==
  IF ~Readable(content) THEN Err
  ELSE IF ~Has(Section(content, "execution"), "recovery_policy") THEN Ok(default)
  ELSE RecoveryPolicyFromRoot(Root(content))

Hook(content, key, Accepts(_)) ==
  Read(content, PolicyOf(content, "hooks"), key, None,
       LAMBDA v : IF IsStr(v) /\ Accepts(v.str) THEN Ok(Some(v.str)) ELSE Err)

GenerationHooksFromYaml(content) ==
  Collect(<<Hook(content, "success", LAMBDA s : TRUE), Hook(content, "failure", LAMBDA s : TRUE)>>)

SessionHooksFromYaml(content) == Hook(content, "close", LAMBDA s : s \notin {""} \cup Templated)

ControlSocketFromYaml(content) ==
  Read(content, Section(content, "on"), "socket", None,
       LAMBDA v : IF IsStr(v) /\ v.str # "" THEN Ok(Some(v.str)) ELSE Err)

(***************************************************************************)
(* A file's settings over defaults for the keys it leaves out: what the    *)
(* reload validates and builds (reload.rs, reload_session.rs).  Ignoring   *)
(* gitignore and having no hook are not defaults of the startup but of the *)
(* parser.                                                                 *)
(***************************************************************************)
\* What is in force when no file says anything; 8 is the machine's parallelism.
Builtin == [concurrency |-> 8, debounce |-> 1000, backend |-> <<"auto">>, recoveryPolicy |-> "prompt"]

OrDefault(result, default) == AndThen(result, LAMBDA v : Ok(OrElse(v, default)))

\* What was read, in the order it is read in, if all of it is valid.
Configuration(read) ==
  IF ~ValidateRules(read[1]) THEN Err
  ELSE Ok([rules |-> read[1], concurrency |-> read[2], debounce |-> read[3], backend |-> read[4],
           gitignore |-> read[5], recoveryPolicy |-> read[6], hooks |-> read[7], close |-> read[8],
           socket |-> read[9]])

ValidateCandidate(content, defaults) ==
  AndThen(Collect(<<FromYaml(content),
                    OrDefault(ConcurrencyFromYaml(content), defaults.concurrency),
                    OrDefault(DebounceFromYaml(content), defaults.debounce),
                    OrDefault(WatchBackendFromYaml(content), defaults.backend),
                    RespectGitignoreFromYaml(content),
                    RecoveryPolicyFromYaml(content, defaults.recoveryPolicy),
                    GenerationHooksFromYaml(content), SessionHooksFromYaml(content),
                    ControlSocketFromYaml(content)>>), Configuration)

\* Every save is a new revision.
DecideAnew(current, candidate) == IF candidate = Err THEN "fatal" ELSE "commit"

\* decide: `current` is the surface of the revision in force.
Decide(current, candidate) ==
  IF candidate = Err THEN "fatal" ELSE IF Surface(candidate[1]) = current THEN "noop" ELSE "commit"

(***************************************************************************)
(* app.rs: a starting watcher.  files maps each of the two default names   *)
(* to the content of the file, None when it does not exist; `config` names *)
(* the file of --config, None without one.                                 *)
(***************************************************************************)
Defaults == <<".watch.yaml", ".watch.yml">>
NoFile == <<[nofile |-> TRUE]>>
Exists(files, name) == files[name] # NoFile

\* The file the policy loaders and the socket come from.
PolicyFile(files, config) ==
  IF config # None THEN config
  ELSE IF Exists(files, Defaults[1]) THEN Some(Defaults[1])
  ELSE IF Exists(files, Defaults[2]) THEN Some(Defaults[2]) ELSE None

FromFile(files, name) == IF Exists(files, name) THEN FromYaml(files[name]) ELSE Err

FirstRead(results) == IF results[1] # Err THEN results[1] ELSE results[2]

\* load_rules: any error of the default file is a reason to try the other.
LoadRules(files, config) ==
  IF config # None THEN FromFile(files, config[1])
  ELSE FirstRead([i \in DOMAIN Defaults |-> FromFile(files, Defaults[i])])

\* One policy loader: the default without a file, else what the file says.
LoadFrom(files, file, default, Reader(_)) ==
  IF file = None THEN Ok(default)
  ELSE IF ~Exists(files, file[1]) THEN Err ELSE Reader(files[file[1]])
Load(files, config, default, Reader(_)) == LoadFrom(files, PolicyFile(files, config), default, Reader)

\* --control-socket, else on.socket of the file.
ControlSocket(files, config, cli) ==
  IF cli.socket # None THEN Ok(cli.socket) ELSE Load(files, config, None, ControlSocketFromYaml)

LoadConcurrency(files, config) ==
  Load(files, config, Builtin.concurrency, LAMBDA c : OrDefault(ConcurrencyFromYaml(c), Builtin.concurrency))
LoadDebounce(files, config) ==
  Load(files, config, Builtin.debounce, LAMBDA c : OrDefault(DebounceFromYaml(c), Builtin.debounce))
LoadWatchBackend(files, config) ==
  Load(files, config, Builtin.backend, LAMBDA c : OrDefault(WatchBackendFromYaml(c), Builtin.backend))
LoadRespectGitignore(files, config) == Load(files, config, FALSE, RespectGitignoreFromYaml)
LoadHooks(files, config) == Load(files, config, <<None, None>>, GenerationHooksFromYaml)
LoadSessionHooks(files, config) == Load(files, config, None, SessionHooksFromYaml)
LoadRecoveryPolicy(files, config) ==
  Load(files, config, Builtin.recoveryPolicy, LAMBDA c : RecoveryPolicyFromYaml(c, Builtin.recoveryPolicy))

EffectiveConcurrency(files, config, cli) ==
  IF cli.sequential THEN Ok(1) ELSE LoadConcurrency(files, config)
EffectiveRecoveryPolicy(files, config, cli) ==
  IF cli.recoveryPolicy # None THEN cli.recoveryPolicy ELSE LoadRecoveryPolicy(files, config)

\* Action::Watch up to the start of the watcher; cli holds --sequential,
\* --recovery-policy, --control-socket, --on-busy restart (or FUNZZY_NON_BLOCK,
\* which does the same) and the names that contain the TARGET.
Startup(files, config, cli) ==
  AndThen(Collect(<<LoadRules(files, config), EffectiveConcurrency(files, config, cli),
                    LoadDebounce(files, config), LoadWatchBackend(files, config),
                    LoadRespectGitignore(files, config), EffectiveRecoveryPolicy(files, config, cli),
                    LoadHooks(files, config), LoadSessionHooks(files, config),
                    ControlSocket(files, config, cli)>>), Configuration)

NoOverride == [sequential |-> FALSE, recoveryPolicy |-> None, socket |-> None, restart |-> FALSE,
               names |-> None]

\* check_config looks at the named or first default file only, and not at
\* the backend, gitignore, the generation hooks or the socket.
CheckContent(content) ==
  Collect(<<FromYaml(content), SessionHooksFromYaml(content), DebounceFromYaml(content),
            RecoveryPolicyFromYaml(content, "prompt"), ConcurrencyFromYaml(content)>>)
CheckConfig(files, config) ==
  LET name == OrElse(config, Defaults[1])
  IN  Exists(files, name) /\ AndThen(CheckContent(files[name]),
                                     LAMBDA read : IF ValidateRules(read[1]) THEN Ok(TRUE) ELSE Err) # Err

\* execute_watch_command: the two ways to run, and the rules that the routing
\* loop of each reads once a reload has been committed.  The loop of
\* WatchCommand has a configuration of its own, which no reload writes.
Selected(rules, cli) ==
  IF cli.names = None THEN rules ELSE SelectSeq(rules, LAMBDA rule : rule.name \in cli.names[1])
NonBlock(initial, cli) == cli.restart \/ initial.socket # None
RoutedAfterCommit(initial, committed, cli) ==
  IF NonBlock(initial, cli) THEN committed.rules ELSE Selected(initial.rules, cli)

(***************************************************************************)
(* cli/control.rs: the socket a client talks to                            *)
(***************************************************************************)
\* resolve_socket without --socket: every candidate is asked in turn.
FirstTelling(answers) == OrElse(SelectSeq(answers, LAMBDA answer : answer # Ok(None)), Err)
ResolveSocket(files, config, global) ==
  LET Asked(name) == IF Exists(files, name) THEN ControlSocketFromYaml(files[name]) ELSE Err
      AskedAll(candidates) == [i \in DOMAIN candidates |-> Asked(candidates[i])]
  IN  IF global # None THEN Ok(global)
      ELSE FirstTelling(AskedAll(IF config # None THEN config
                                 ELSE SelectSeq(Defaults, LAMBDA name : Exists(files, name))))

(***************************************************************************)
(* cli/migrate.rs and cli/init.rs                                          *)
(***************************************************************************)
\* Mutant: the other sections are lost.
RenamedAlone(root) == Hash("jobs" :> Key(root, "tasks"))

\* rename_root_key, for a key alone on its line.
Renamed(root) == Hash([k \in (Keys(root) \ {"tasks"}) \cup {"jobs"} |->
                        IF k = "jobs" THEN Key(root, "tasks") ELSE Key(root, k)])

\* migrate_content; `block` says that keys and items stand on lines of their own.
MigrateContent(content, block) ==
  LET root == Root(content)
  IN  CASE content = Garbled \/ Len(content) # 1 -> Err
        [] IsList(root) -> IF block /\ root.list # <<>> THEN Ok(<<Hash("jobs" :> root)>>) ELSE Err
        [] IsHash(root) /\ Has(root, "jobs") -> Ok(content)
        [] IsHash(root) /\ ~Has(root, "jobs") /\ Has(root, "tasks") ->
             Ok(IF block THEN <<Renamed(root)>> ELSE content)
        [] OTHER -> Err

\* The file after `fzz migrate`: replaced as a whole or left alone.
WriteMigrated(content, migrated) ==
  IF AndThen(migrated, FromYaml) = Err THEN [ok |-> FALSE, content |-> content]
  ELSE [ok |-> TRUE, content |-> migrated[1]]
Migrate(content, block) == WriteMigrated(content, MigrateContent(content, block))

\* render_init_template: what is active, and with the reference job too.
StarterJob(reference) ==
  IF reference THEN <<Hash([run |-> List(<<Str("echo"), Str("{{paths}}")>>), name |-> Str("reference"),
                            recovery |-> Str("fmt"), change |-> List(<<Str("**/*.rs")>>),
                            ignore |-> List(<<Str("**/*.log")>>), parallel |-> Str("checks"),
                            cwd |-> Str("scripts"), env |-> Hash([FOO |-> Str("bar")]),
                            service |-> Flag(TRUE), output |-> Str("show-on-failure")])>>
  ELSE <<>>

RenderInitTemplate(reference) ==
  Hash([on |-> Hash([socket |-> Str("sock")]), execution |-> Hash([concurrency |-> Num(2)]),
        hooks |-> Hash([success |-> Str("echo")]),
        jobs |-> List(StarterJob(reference) \o
                 <<Hash([name |-> Str("hello"), run_on_init |-> Flag(TRUE), run |-> Str("echo")]),
                   Hash([name |-> Str("list"), change |-> Str("**/*.txt"),
                         ignore |-> Str("**/*.log"), run |-> Str("ls")])>>)])

\* The profiles of cli/templates.rs.
MinimalYaml == Hash([on |-> Hash([change |-> Str("**/*")]),
                     jobs |-> List(<<Hash([name |-> Str("build"), run |-> Str("cargo")])>>)])
ParallelYaml ==
  LET Checks(name) == Hash([name |-> Str(name), parallel |-> Str("checks"), run |-> Str("cargo")])
  IN  Hash([on |-> Hash([change |-> Str("src/**")]), execution |-> Hash([concurrency |-> Num(2)]),
            jobs |-> List(<<Checks("lint"), Checks("test"), Hash([name |-> Str("package"), run |-> Str("cargo")])>>)])
AgentYaml ==
  Hash([on |-> Hash([change |-> Str("**/*"), socket |-> Str("sock")]),
        execution |-> Hash([concurrency |-> Num(2), recovery_policy |-> Str("prompt")]),
        jobs |-> List(<<Hash([name |-> Str("verify"), run |-> Str("cargo"), change |-> Str("src/**"),
                              ignore |-> Str("target/**")]),
                        Hash([name |-> Str("lint"), run |-> Str("cargo"), recovery |-> Str("fmt"),
                              change |-> Str("src/**"), run_on_init |-> Flag(TRUE)])>>)])
Profiles == {RenderInitTemplate(FALSE), MinimalYaml, ParallelYaml, AgentYaml}

\* InitCommand: an existing file is never written over.
InitFile(files, profile) ==
  IF Exists(files, Defaults[1]) THEN files ELSE [files EXCEPT ![Defaults[1]] = <<profile>>]

=============================================================================
