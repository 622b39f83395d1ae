-------------------------------- MODULE Wire --------------------------------
(***************************************************************************)
(* The control protocol, from a `fzz control` command line to the document *)
(* it prints: the options clap accepts (src/arguments.rs), the request the *)
(* client makes of them and its decoders (src/control_client.rs), the      *)
(* JSON-RPC layer and the serializers of the server (src/control.rs,       *)
(* src/watcher_state.rs, src/awaiting.rs, src/output.rs), and the          *)
(* documents of `--format json|toon` (src/cli/format.rs).                  *)
(*                                                                         *)
(* A JSON value is written like a YAML one in Settings; an absent key is   *)
(* Bad.  What the handlers behind the server answer is the record `api`,   *)
(* an input here: the other modules model them.                            *)
(***************************************************************************)
EXTENDS Settings, Estimates

Null == [null |-> TRUE]
Is(type, v) == type \in DOMAIN v
Strs(list) == List([i \in DOMAIN list |-> Str(list[i])])
Items(list, Json(_)) == List([i \in DOMAIN list |-> Json(list[i])])
Nullable(option, Json(_)) == IF option = None THEN Null ELSE Json(option[1])
\* skip_serializing_if = "Option::is_none"
Skipped(key, option, Json(_)) == IF option = None THEN <<>> ELSE key :> Json(option[1])


TaskJson(t) == Hash([id |-> Str(t.id), name |-> Str(t.name), state |-> Str(t.state),
                     durationMs |-> Nullable(t.durationMs, Num)])

StateJson(s) ==
  Hash([generation |-> Num(s.generation), state |-> Str(s.state),
        trigger |-> Nullable(s.trigger, Str), commands |-> Strs(s.commands),
        durationMs |-> Nullable(s.durationMs, Num), failures |-> Strs(s.failures),
        batch |-> Nullable(s.batch, Num), changed |-> Strs(s.changed),
        predecessor |-> Nullable(s.predecessor, Num),
        supersededBy |-> Nullable(s.supersededBy, Num), tasks |-> Items(s.tasks, TaskJson),
        effectiveConcurrency |-> Nullable(s.effectiveConcurrency, Num),
        concurrencySource |-> Nullable(s.concurrencySource, Str),
        revision |-> Nullable(s.revision, Num), revisionHash |-> Nullable(s.revisionHash, Str)])

OutputRefJson(r) ==
  Hash([instanceToken |-> Str(r.instanceToken), generation |-> Num(r.generation),
        task |-> Str(r.task), mode |-> Str("tail"), tail |-> Num(r.tail),
        maxBytes |-> Num(r.maxBytes), retrieve |-> Str(r.retrieve)])

EvidenceJson(e) ==
  Hash([excerpt |-> Str(e.excerpt), lines |-> Num(e.lines), truncated |-> Flag(e.truncated),
        totalObservedBytes |-> Num(e.totalObservedBytes),
        retainedBytes |-> Num(e.retainedBytes), retrieve |-> Str(e.retrieve),
        additionalFailedTasks |-> Num(e.additionalFailedTasks)]
       @@ Skipped("outputRef", e.outputRef, OutputRefJson))

TransitionJson(t) ==
  Hash([phase |-> Str(t.phase), revision |-> Nullable(t.revision, Num),
        revisionHash |-> Nullable(t.revisionHash, Str), ordinal |-> Num(t.ordinal),
        atEpochMs |-> Num(t.atEpochMs)] @@ Skipped("reason", t.reason, Str))

EstimateJson(e) ==
  Hash([typicalMs |-> Num(e.typicalMs), upperMs |-> Num(e.upperMs),
        recommendedTimeoutMs |-> Num(e.recommendedTimeoutMs), samples |-> Num(e.samples),
        confidence |-> Str(e.confidence), source |-> Str(e.source)])

AwaitJson(a) ==
  Hash([snapshot |-> StateJson(a.snapshot), terminalReason |-> Str(a.terminalReason),
        latestGeneration |-> Num(a.latestGeneration),
        latestBatch |-> Nullable(a.latestBatch, Num),
        pendingWork |-> Hash([debounceActive |-> Flag(a.debounceActive),
                              queuedBatches |-> Num(a.queuedBatches)]),
        freshness |-> Str(a.freshness)]
       @@ Skipped("failureEvidence", a.failureEvidence, EvidenceJson)
       @@ Skipped("configLifecycle", a.lifecycle, TransitionJson))

StreamJson(s) ==
  Hash([content |-> Str(s.content), lines |-> Num(s.lines),
        retainedBytes |-> Num(s.retainedBytes), observedBytes |-> Num(s.observedBytes),
        truncated |-> Flag(s.truncated)])

RetrievedTaskJson(t) == Hash([id |-> Str(t.id), stdout |-> Nullable(t.stdout, StreamJson),
                              stderr |-> Nullable(t.stderr, StreamJson)])

RetrievedJson(o) ==
  Hash([generation |-> Num(o.generation), tasks |-> Items(o.tasks, RetrievedTaskJson)]
       @@ Skipped("revision", o.revision, Num) @@ Skipped("revisionHash", o.revisionHash, Str)
       @@ Skipped("resolvedTask", o.resolvedTask, Str)
       @@ Skipped("nextCursor", o.nextCursor, Str)
       @@ Skipped("returnedBytes", o.returnedBytes, Num)
       @@ Skipped("truncated", o.truncated, Flag))

ScheduledRunJson(r) ==
  Hash([runId |-> Num(r.runId)]
       @@ Skipped("revision", r.revision, Num) @@ Skipped("revisionHash", r.revisionHash, Str))

EmitJson(e) ==
  Hash([matched |-> Strs(e.matched), runId |-> Nullable(e.runId, Num),
        outcome |-> Str(e.outcome)]
       @@ Skipped("revision", e.revision, Num) @@ Skipped("revisionHash", e.revisionHash, Str))

TargetJson(t) == Hash([name |-> Str(t.name), commands |-> Strs(t.commands)]
                      @@ Skipped("estimate", t.estimate, EstimateJson))

CapabilitiesResult(api) ==
  Hash([protocolVersion |-> Str("1.0"), schemaVersion |-> Num(1), watcherVersion |-> Str("v"),
        instance |-> Hash([token |-> Str(api.token), startedAtEpochMs |-> Num(0)]),
        methods |-> Strs(<<"status", "targets", "run", "emit", "await", "output", "cancel",
                           "capabilities">>
                         \o (IF api.broker THEN <<"subscribe">> ELSE <<>>)
                         \o (IF api.lifecycle # None THEN <<"config">> ELSE <<>>)),
        optionalFields |-> Strs(<<"batch", "changed", "predecessor", "supersededBy",
                                  "failureEvidence", "estimate">>),
        outputFormats |-> Strs(<<"toon", "json">>),
        limits |-> Hash([outputRetentionBytes |-> Num(1048576), maxResponseBytes |-> Num(65536),
                         maxEvidenceLines |-> Num(40), outputSchemaVersion |-> Num(2),
                         outputModes |-> Strs(<<"tail", "page">>),
                         outputPageSizeMax |-> Num(32768),
                         outputMaxBytesEffective |-> Num(24576)]
                        @@ (IF api.estimates
                            THEN [durationEstimateLimits |->
                                    Hash([maxSamples |-> Num(20), floorMs |-> Num(FloorMs),
                                          capMs |-> Num(CapMs)])]
                            ELSE <<>>)),
        features |-> Hash([atomicAwait |-> Flag(TRUE), subscription |-> Flag(api.broker),
                           correlatedSnapshots |-> Flag(FALSE), outputRetrieval |-> Flag(TRUE),
                           pendingWork |-> Flag(FALSE),
                           durationEstimates |-> Flag(api.estimates),
                           sequentialOverride |-> Flag(api.run # None)])])

(***************************************************************************)
(* The server's methods: a result, or the code of an error                 *)
(***************************************************************************)
Fail(code) == [code |-> code]
Good(json) == [result |-> json]
Param(request, key) == Key(Key(request, "params"), key)
AsU64(v) == IF Is("int", v) THEN Some(v.int) ELSE None
Positive(v) == IF Is("int", v) /\ v.int > 0 THEN Some(v.int) ELSE None
NonBlank(v) == IF Is("str", v) /\ v.str # "" THEN Some(v.str) ELSE None
Nul == "nul"                        \* a path with a NUL byte

StatusResult(api) ==
  LET json == StateJson(api.state)
      failed == api.state.state = "failed"
  IN  Good(Hash(json.hash @@ (IF failed THEN Skipped("failureEvidence", api.evidence, EvidenceJson)
                                        ELSE <<>>)))

ConfigResult(api) ==
  IF api.lifecycle = None THEN Fail(-32017)
  ELSE Good(Hash(TransitionJson(api.lifecycle[1]).hash
                 @@ [history |-> Items(api.history, TransitionJson)]))

RunRequested(request, api) ==
  LET sequential == Param(request, "sequential")
  IN  CASE NonBlank(Param(request, "target")) = None -> Fail(-32602)
        [] sequential # Bad /\ ~Is("flag", sequential) -> Fail(-32602)
        [] api.run = None -> Fail(-32000)
        [] api.run[1].kind = "not_found" -> Fail(-32016)
        [] api.run[1].kind = "internal" -> Fail(-32000)
        [] OTHER -> Good(ScheduledRunJson(api.run[1].scheduled))

EmitRequested(request, api) ==
  CASE NonBlank(Param(request, "path")) \in {None, Some(Nul)} -> Fail(-32602)
    [] api.emit = None -> Fail(-32000)
    [] OTHER -> Good(EmitJson(api.emit[1]))

CancelJson(done, generation) == [cancelled |-> Flag(done), generation |-> generation]

CancelRequested(request, api) ==
  LET generation == Param(request, "generation")
      token == Param(request, "instanceToken")
  IN  CASE AsU64(generation) = None -> Fail(-32602)
        [] Is("str", token) /\ token.str # api.token -> Good(Hash(CancelJson(FALSE, generation)))
        [] api.cancel.kind = "error" -> Fail(-32000)
        [] api.cancel.kind = "noop" -> Good(Hash(CancelJson(FALSE, generation)))
        [] api.cancel.kind = "escalated" -> Fail(-32021)
        [] OTHER -> Good(Hash(CancelJson(TRUE, generation)
                              @@ Skipped("revision", api.cancel.revision, Num)
                              @@ Skipped("revisionHash", api.cancel.revisionHash, Str)))

DefaultPage == 24576                \* DEFAULT_PAGE_BYTES
PageMax == 32768                    \* OUTPUT_PAGE_MAX_BYTES

\* The options of a retrieval: what it is to return, or an error.
Retrieval(request) ==
  LET mode == NonBlank(Param(request, "mode"))
      tail == Positive(Param(request, "tail"))
      page == mode = Some("page") \/ Param(request, "full") = Flag(TRUE)
      cursor == NonBlank(Param(request, "cursor"))
      stream == Param(request, "stream")
      budget == OrElse(Positive(Param(request, "maxBytes")), DefaultPage)
  IN  IF \/ mode \notin {None, Some("tail"), Some("page")}
         \/ mode = Some("tail") /\ (page \/ cursor # None)
         \/ ~page /\ cursor # None
         \/ page /\ tail # None
      THEN Fail(-32013)
      ELSE [task |-> NonBlank(Param(request, "task")),
            stream |-> IF stream \in {Str("stdout"), Str("stderr")} THEN Some(stream.str) ELSE None,
            page |-> page, tail |-> IF page THEN None ELSE tail,
            budget |-> IF page THEN Some(Smaller(budget, PageMax)) ELSE None,
            cursor |-> cursor]

TypedOutputError(kind) == CASE kind = "generation" -> -32010 [] kind = "task" -> -32011
                            [] kind = "cursor" -> -32013

OutputRetrieval(request, api) ==
  LET token == Param(request, "instanceToken")
      wanted == Retrieval(request)
  IN  CASE api.retrieved = None -> Fail(-32014)
        [] AsU64(Param(request, "generation")) = None -> Fail(-32602)
        [] Is("str", token) /\ token.str # api.token -> Fail(-32012)
        [] "code" \in DOMAIN wanted -> wanted
        [] api.retrieved[1].kind # "ok" -> Fail(TypedOutputError(api.retrieved[1].kind))
        [] OTHER -> Good(RetrievedJson(api.retrieved[1].output))

AwaitParams(request) ==
  LET after == AsU64(Param(request, "after"))
      generation == AsU64(Param(request, "generation"))
      timeout == Positive(Param(request, "timeoutMs"))
  IN  IF (after = None) # (generation = None) /\ timeout # None
      THEN [after |-> after, generation |-> generation, timeout |-> timeout[1]]
      ELSE Fail(-32602)

Dispatch(method, request, api) ==
  CASE method = "status" -> StatusResult(api)
    [] method = "targets" -> Good(Items(api.targets, TargetJson))
    [] method = "run" -> RunRequested(request, api)
    [] method = "emit" -> EmitRequested(request, api)
    [] method = "cancel" -> CancelRequested(request, api)
    [] method = "output" -> OutputRetrieval(request, api)
    [] method = "config" -> ConfigResult(api)
    [] method = "capabilities" -> Good(CapabilitiesResult(api))
    [] OTHER -> Fail(-32601)

(***************************************************************************)
(* JSON-RPC                                                                *)
(***************************************************************************)
Version == Str("2.0")

RequestId(request) ==
  LET id == Key(request, "id") IN IF Is("int", id) \/ Is("str", id) THEN id ELSE Null

Envelope(id, answer) ==
  Hash([jsonrpc |-> Version, id |-> id]
       @@ (IF "code" \in DOMAIN answer
           THEN [error |-> Hash([code |-> Num(answer.code), message |-> Str("message")])]
           ELSE [result |-> answer.result]))

\* None is a notification's: it gets no response.
ProcessRequest(request, api) ==
  LET id == RequestId(request)
      method == Key(request, "method")
      params == Key(request, "params")
  IN  CASE \/ ~Is("hash", request) \/ ~Is("str", method)
           \/ Key(request, "jsonrpc") # Version -> Some(Envelope(id, Fail(-32600)))
        [] params # Bad /\ ~Is("hash", params) /\ ~Is("list", params) ->
             Some(Envelope(id, Fail(-32602)))
        [] ~Has(request, "id") -> None
        [] OTHER -> Some(Envelope(id, Dispatch(method.str, request, api)))

BatchResponse(responses) ==
  IF responses = <<>> THEN None ELSE Some(List([i \in DOMAIN responses |-> responses[i][1]]))

ProcessPayload(payload, api) ==
  IF ~Is("list", payload) THEN ProcessRequest(payload, api)
  ELSE IF payload.list = <<>> THEN Some(Envelope(Null, Fail(-32600)))
  ELSE BatchResponse(SelectSeq([i \in DOMAIN payload.list |-> ProcessRequest(payload.list[i], api)],
                               LAMBDA r : r # None))

HandleAwait(request, api) ==
  Some(Envelope(RequestId(request),
    CASE Key(request, "jsonrpc") # Version -> Fail(-32600)
      [] "code" \in DOMAIN AwaitParams(request) -> AwaitParams(request)
      [] OTHER -> Good(AwaitJson(api.await))))

HandleLine(request, api) ==
  IF Key(request, "method") = Str("await") /\ Is("hash", Key(request, "params"))
  THEN HandleAwait(request, api) ELSE ProcessPayload(request, api)

(***************************************************************************)
(* The client's decoders.  A reader of a field gives a result: Required    *)
(* fails without a value of the type, Maybe takes an absent or null one    *)
(* for None, Lenient takes anything else for its default.                  *)
(***************************************************************************)
Required(v, key, type) ==
  LET f == Key(v, key) IN IF Is(type, f) THEN Ok(f[type]) ELSE Err
OneOf(v, key, texts) ==
  LET f == Key(v, key) IN IF Is("str", f) /\ f.str \in texts THEN Ok(f.str) ELSE Err
Maybe(v, key, type) ==
  LET f == Key(v, key)
  IN  IF f \in {Bad, Null} THEN Ok(None) ELSE IF Is(type, f) THEN Ok(Some(f[type])) ELSE Err
Lenient(v, key, type, default) ==
  LET f == Key(v, key) IN Ok(IF Is(type, f) THEN f[type] ELSE default)
LenientOption(v, key, type) ==
  LET f == Key(v, key) IN Ok(IF Is(type, f) THEN Some(f[type]) ELSE None)
Nested(v, key, Decode(_)) ==
  LET f == Key(v, key)
  IN  IF f \in {Bad, Null} THEN Ok(None)
      ELSE Optional(Decode(f))

\* The record of the values read, unless a reader failed.
Gather(fields) == IF \E k \in DOMAIN fields : fields[k] = Err THEN Err
                  ELSE Ok([k \in DOMAIN fields |-> fields[k][1]])
DecodeItems(v, Decode(_)) ==
  IF ~Is("list", v) THEN Err
  ELSE Gather([i \in DOMAIN v.list |-> Decode(v.list[i])])

ReadText(v) == IF Is("str", v) THEN Ok(v.str) ELSE Err
ReadStringArray(v, key) == IF Key(v, key) = Bad THEN Ok(<<>>)
                           ELSE DecodeItems(Key(v, key), ReadText)

DecodeTask(v) ==
  Gather([id |-> Required(v, "id", "str"), name |-> Required(v, "name", "str"),
          state |-> OneOf(v, "state", {"passed", "failed", "cancelled"}),
          durationMs |-> IF Key(v, "durationMs") = Bad THEN Err
                         ELSE Maybe(v, "durationMs", "int")])

ReadTerminalTasks(v) ==
  IF Key(v, "tasks") = Bad THEN Ok(None)
  ELSE Optional(DecodeItems(Key(v, "tasks"), DecodeTask))

DecodeStatus(v) ==
  IF ~Is("hash", v) THEN Err ELSE
  Gather([generation |-> Required(v, "generation", "int"), state |-> Required(v, "state", "str"),
          trigger |-> Maybe(v, "trigger", "str"), commands |-> ReadStringArray(v, "commands"),
          durationMs |-> Maybe(v, "durationMs", "int"),
          failures |-> ReadStringArray(v, "failures"), tasks |-> ReadTerminalTasks(v),
          effectiveConcurrency |-> Maybe(v, "effectiveConcurrency", "int"),
          concurrencySource |-> Maybe(v, "concurrencySource", "str"),
          revision |-> Maybe(v, "revision", "int"),
          revisionHash |-> Maybe(v, "revisionHash", "str")])

DecodeEstimate(v) ==
  Gather([typicalMs |-> Lenient(v, "typicalMs", "int", 0),
          upperMs |-> Lenient(v, "upperMs", "int", 0),
          recommendedTimeoutMs |-> Lenient(v, "recommendedTimeoutMs", "int", 0),
          samples |-> Lenient(v, "samples", "int", 0),
          confidence |-> IF OneOf(v, "confidence", {"low", "medium", "high"}) = Err
                         THEN Ok("none") ELSE Required(v, "confidence", "str"),
          source |-> Ok(IF Key(v, "source") = Str("configured") THEN "configured"
                                                               ELSE "measured")])

DecodeTarget(v) ==
  Gather([name |-> Required(v, "name", "str"), commands |-> ReadStringArray(v, "commands"),
          estimate |-> IF Is("hash", Key(v, "estimate"))
                       THEN Nested(v, "estimate", DecodeEstimate) ELSE Ok(None)])

DecodeTargets(v) == DecodeItems(v, DecodeTarget)

LimitKeys == {"outputRetentionBytes", "maxResponseBytes", "maxEvidenceLines"}
EstimateLimitKeys == {"maxSamples", "floorMs", "capMs"}
FeatureKeys == {"atomicAwait", "subscription", "correlatedSnapshots", "outputRetrieval",
                "pendingWork", "durationEstimates", "sequentialOverride"}

DecodeCapabilities(v) ==
  LET limits == Key(v, "limits")
      estimates == Key(limits, "durationEstimateLimits")
  IN  Gather([token |-> Required(Key(v, "instance"), "token", "str"),
              protocolVersion |-> Lenient(v, "protocolVersion", "str", ""),
              schemaVersion |-> Lenient(v, "schemaVersion", "int", 0),
              watcherVersion |-> Lenient(v, "watcherVersion", "str", ""),
              methods |-> ReadStringArray(v, "methods"),
              optionalFields |-> ReadStringArray(v, "optionalFields"),
              outputFormats |-> ReadStringArray(v, "outputFormats"),
              limits |-> Ok([k \in LimitKeys |-> Lenient(limits, k, "int", 0)[1]]),
              estimates |-> Ok([k \in EstimateLimitKeys |-> Lenient(estimates, k, "int", 0)[1]]),
              features |-> Ok([k \in FeatureKeys |->
                                 Lenient(Key(v, "features"), k, "flag", FALSE)[1]])])

DecodeOutputRef(v) ==
  Gather([instanceToken |-> Required(v, "instanceToken", "str"),
          generation |-> Required(v, "generation", "int"), task |-> Required(v, "task", "str"),
          mode |-> Lenient(v, "mode", "str", "tail"), tail |-> Lenient(v, "tail", "int", 80),
          maxBytes |-> Lenient(v, "maxBytes", "int", 0),
          retrieve |-> Lenient(v, "retrieve", "str", "")])

DecodeEvidence(v) ==
  Gather([excerpt |-> Required(v, "excerpt", "str"), lines |-> Required(v, "lines", "int"),
          truncated |-> Required(v, "truncated", "flag"),
          totalObservedBytes |-> Required(v, "totalObservedBytes", "int"),
          retainedBytes |-> Required(v, "retainedBytes", "int"),
          retrieve |-> Required(v, "retrieve", "str"),
          outputRef |-> IF Key(v, "outputRef") = Null THEN Err
                        ELSE Nested(v, "outputRef", DecodeOutputRef),
          additionalFailedTasks |-> Lenient(v, "additionalFailedTasks", "int", 0)])

Reasons == {"passed", "failed", "cancelled", "superseded", "timeout", "disconnected", "restarted"}

DecodeAwait(v) ==
  LET pending == Key(v, "pendingWork")
  IN  Gather([terminalReason |-> OneOf(v, "terminalReason", Reasons),
              latestGeneration |-> Required(v, "latestGeneration", "int"),
              latestBatch |-> Maybe(v, "latestBatch", "int"),
              debounceActive |-> Required(pending, "debounceActive", "flag"),
              queuedBatches |-> Required(pending, "queuedBatches", "int"),
              freshness |-> OneOf(v, "freshness", {"current", "stale", "unknown"}),
              snapshot |-> DecodeStatus(Key(v, "snapshot")),
              failureEvidence |-> Nested(v, "failureEvidence", DecodeEvidence)])

DecodeStream(v) ==
  Gather([content |-> Required(v, "content", "str"), lines |-> Required(v, "lines", "int"),
          retainedBytes |-> Required(v, "retainedBytes", "int"),
          observedBytes |-> Required(v, "observedBytes", "int"),
          truncated |-> Required(v, "truncated", "flag")])

DecodeRetrievedTask(v) ==
  Gather([id |-> Required(v, "id", "str"), stdout |-> Nested(v, "stdout", DecodeStream),
          stderr |-> Nested(v, "stderr", DecodeStream)])

DecodeOutput(v) ==
  Gather([generation |-> Required(v, "generation", "int"),
          resolvedTask |-> LenientOption(v, "resolvedTask", "str"),
          tasks |-> DecodeItems(Key(v, "tasks"), DecodeRetrievedTask),
          nextCursor |-> LenientOption(v, "nextCursor", "str"),
          returnedBytes |-> LenientOption(v, "returnedBytes", "int"),
          truncated |-> LenientOption(v, "truncated", "flag")])

DecodeEmit(v) ==
  Gather([outcome |-> OneOf(v, "outcome", {"scheduled", "unmatched", "ignored"}),
          matched |-> ReadStringArray(v, "matched"), runId |-> Maybe(v, "runId", "int"),
          revision |-> Maybe(v, "revision", "int"),
          revisionHash |-> Maybe(v, "revisionHash", "str")])

DecodeScheduledRun(v) ==
  Gather([runId |-> Required(v, "runId", "int"), revision |-> Maybe(v, "revision", "int"),
          revisionHash |-> Maybe(v, "revisionHash", "str")])

DecodeCancel(v) == Gather([cancelled |-> Required(v, "cancelled", "flag"),
                           generation |-> Required(v, "generation", "int")])

DecodeTransition(v) ==
  Gather([phase |-> Required(v, "phase", "str"), revision |-> LenientOption(v, "revision", "int"),
          revisionHash |-> LenientOption(v, "revisionHash", "str"),
          reason |-> LenientOption(v, "reason", "str"),
          ordinal |-> Lenient(v, "ordinal", "int", 0),
          atEpochMs |-> Lenient(v, "atEpochMs", "int", 0)])

DecodeConfig(v) ==
  Gather([current |-> DecodeTransition(v),
          history |-> IF Is("list", Key(v, "history"))
                      THEN DecodeItems(Key(v, "history"), DecodeTransition) ELSE Ok(<<>>)])

Decode(method, v) ==
  CASE method = "status" -> DecodeStatus(v)
    [] method = "targets" -> DecodeTargets(v)
    [] method = "run" -> DecodeScheduledRun(v)
    [] method = "emit" -> DecodeEmit(v)
    [] method = "capabilities" -> DecodeCapabilities(v)
    [] method = "await" -> DecodeAwait(v)
    [] method = "config" -> DecodeConfig(v)
    [] method = "cancel" -> DecodeCancel(v)
    [] method = "output" -> DecodeOutput(v)

\* call: the request with the connection's id, and the checks on its response.
Request(id, method, params) ==
  Hash([jsonrpc |-> Version, id |-> Num(id), method |-> Str(method), params |-> Hash(params)])

\* The answer in a response, which is absent when the server sent none.
Answer(id, method, response) ==
  LET value == response[1]
      code == Key(Key(value, "error"), "code")
      Decoded(result) == IF result = Err THEN [failure |-> "malformed"] ELSE [snapshot |-> result[1]]
  IN  CASE response = None -> [failure |-> "timeout"]
        [] response # None /\ Has(value, "error") /\ Is("int", code) /\ Key(value, "jsonrpc") = Version
           /\ Key(value, "id") = Num(id) -> [server |-> code.int]
        [] response # None /\ ~Has(value, "error") /\ Has(value, "result") /\ Key(value, "jsonrpc") = Version
           /\ Key(value, "id") = Num(id) -> Decoded(Decode(method, Key(value, "result")))
        [] OTHER -> [failure |-> "malformed"]

Call(id, method, params, api) == Answer(id, method, HandleLine(Request(id, method, params), api))

AwaitMargin == 2000                 \* AWAIT_READ_MARGIN_MS
\* The read bound of an await, in the client's u64.
ReadBound(timeout) == (timeout + AwaitMargin) % (MaxMillis + 1)

(***************************************************************************)
(* The documents printed for a snapshot                                    *)
(***************************************************************************)
StatusDocument(s) ==
  Hash([generation |-> Num(s.generation), state |-> Str(s.state),
        trigger |-> Nullable(s.trigger, Str), durationMs |-> Nullable(s.durationMs, Num),
        commands |-> Strs(s.commands), failures |-> Strs(s.failures),
        effectiveConcurrency |-> Nullable(s.effectiveConcurrency, Num),
        concurrencySource |-> Nullable(s.concurrencySource, Str)]
       @@ Skipped("tasks", s.tasks, LAMBDA tasks : Items(tasks, TaskJson))
       @@ Skipped("revision", s.revision, Num) @@ Skipped("revisionHash", s.revisionHash, Str))

TargetsDocument(targets) == Hash([targets |-> Items(targets, TargetJson)])

CapabilitiesDocument(c) ==
  Hash([protocolVersion |-> Str(c.protocolVersion), schemaVersion |-> Num(c.schemaVersion),
        watcherVersion |-> Str(c.watcherVersion), instance |-> Hash([token |-> Str(c.token)]),
        methods |-> Strs(c.methods), optionalFields |-> Strs(c.optionalFields),
        outputFormats |-> Strs(c.outputFormats),
        limits |-> Hash([k \in LimitKeys |-> Num(c.limits[k])]
                        @@ [durationEstimateLimits |->
                              Hash([k \in EstimateLimitKeys |-> Num(c.estimates[k])])]),
        features |-> Hash([k \in FeatureKeys |-> Flag(c.features[k])])])

RunDocument(r) == ScheduledRunJson(r)
EmitDocument(e) == EmitJson(e)
CancelDocument(c) == Hash([cancelled |-> Flag(c.cancelled), generation |-> Num(c.generation)])

ConfigDocument(c) ==
  LET Entry(t) == [phase |-> Str(t.phase), ordinal |-> Num(t.ordinal),
                   atEpochMs |-> Num(t.atEpochMs)]
      Facts(t) == Skipped("revision", t.revision, Num)
                  @@ Skipped("revisionHash", t.revisionHash, Str)
                  @@ Skipped("reason", t.reason, Str)
      Full(t) == Hash(Entry(t) @@ Facts(t))
  IN  Hash([current |-> Full(c.current), history |-> Items(c.history, Full)]
           @@ Facts(c.current))

OutputDocument(o) ==
  LET Stream(s) == Hash([content |-> Str(s.content), truncated |-> Flag(s.truncated),
                         totalObservedBytes |-> Num(s.observedBytes),
                         retainedBytes |-> Num(s.retainedBytes)])
      Entry(t) == Hash([id |-> Str(t.id)] @@ Skipped("stdout", t.stdout, Stream)
                       @@ Skipped("stderr", t.stderr, Stream))
  IN  Hash([generation |-> Num(o.generation), tasks |-> Items(o.tasks, Entry)]
           @@ Skipped("resolvedTask", o.resolvedTask, Str)
           @@ Skipped("nextCursor", o.nextCursor, Str)
           @@ Skipped("returnedBytes", o.returnedBytes, Num)
           @@ Skipped("truncated", o.truncated, Flag))

AwaitDocument(a) ==
  Hash([terminalReason |-> Str(a.terminalReason), latestGeneration |-> Num(a.latestGeneration),
        latestBatch |-> Nullable(a.latestBatch, Num), freshness |-> Str(a.freshness),
        snapshot |-> StatusDocument(a.snapshot)]
       @@ Skipped("failureEvidence", a.failureEvidence, EvidenceJson))

Document(method, s) ==
  CASE method = "status" -> StatusDocument(s)
    [] method = "targets" -> TargetsDocument(s)
    [] method = "run" -> RunDocument(s)
    [] method = "emit" -> EmitDocument(s)
    [] method = "capabilities" -> CapabilitiesDocument(s)
    [] method = "await" -> AwaitDocument(s)
    [] method = "config" -> ConfigDocument(s)
    [] method = "cancel" -> CancelDocument(s)
    [] method = "output" -> OutputDocument(s)

(***************************************************************************)
(* `fzz control SUBCOMMAND`: what clap is told of the options of each      *)
(* subcommand (the required ones, a group of which one is, the pairs in    *)
(* conflict, what an option requires with it).  `given` maps the           *)
(* options on the command line to their values; a switch maps to TRUE.     *)
(***************************************************************************)
NoArgs == [options |-> {}, required |-> {}, one |-> {}, exclusive |-> {}, requires |-> {}]
WaitArgs == [NoArgs EXCEPT !.options = {"wait", "timeout"},
                           !.requires = {<<"wait", "timeout">>, <<"timeout", "wait">>}]

RunArgs == [WaitArgs EXCEPT !.options = @ \union {"target", "sequential"}, !.required = {"target"}]
EmitArgs == [WaitArgs EXCEPT !.options = @ \union {"path"}, !.required = {"path"}]
CancelArgs == [WaitArgs EXCEPT !.options = @ \union {"generation"}, !.required = {"generation"}]
AwaitArgs == [NoArgs EXCEPT !.options = {"after", "generation", "timeout"}, !.required = {"timeout"},
                            !.one = {"after", "generation"},
                            !.exclusive = {{"after", "generation"}},
                            !.requires = {<<"after", "timeout">>, <<"generation", "timeout">>}]

OutputArgs ==
  [options |-> {"generation", "task", "stdout", "stderr", "tail", "full", "page", "page-size", "cursor"},
   required |-> {"generation"}, one |-> {},
   exclusive |-> {{"stdout", "stderr"}, {"tail", "full"}, {"tail", "page"}, {"full", "page"}},
   requires |-> {<<"page-size", "page">>, <<"cursor", "page">>}]

ControlArgs == [status |-> NoArgs, list |-> NoArgs, capabilities |-> NoArgs, config |-> NoArgs,
                run |-> RunArgs, emit |-> EmitArgs, await |-> AwaitArgs, cancel |-> CancelArgs,
                output |-> OutputArgs]

ParseDuration(text) ==
  IF text \notin DOMAIN Numerals THEN Err
  ELSE CheckedMillis(Numerals[text][1], Multiplier(Numerals[text][2]))

Accepts(sub, given) ==
  LET options == DOMAIN given
      args == ControlArgs[sub]
  IN  /\ options \subseteq args.options /\ args.required \subseteq options
      /\ args.one = {} \/ options \intersect args.one # {}
      /\ \A pair \in args.exclusive : ~(pair \subseteq options)
      /\ \A r \in args.requires : r[1] \in options => r[2] \in options
      /\ "timeout" \in options => ParseDuration(given["timeout"]) # Err
      /\ "path" \in options => given["path"] # ""

\* The ControlAction of an accepted command line.
ActionOf(sub, given) ==
  LET Value(option) == IF option \in DOMAIN given THEN Some(given[option]) ELSE None
      Switch(option) == option \in DOMAIN given
  IN  CASE sub = "run" -> [target |-> given["target"], sequential |-> Switch("sequential")]
        [] sub = "emit" -> [path |-> given["path"]]
        [] sub = "await" -> [after |-> Value("after"), generation |-> Value("generation"),
                             timeout |-> ParseDuration(given["timeout"])[1]]
        [] sub = "cancel" -> [generation |-> given["generation"]]
        [] sub = "output" ->
             [generation |-> given["generation"], task |-> Value("task"), tail |-> Value("tail"),
              stream |-> IF Switch("stdout") THEN Some("stdout")
                         ELSE IF Switch("stderr") THEN Some("stderr") ELSE None,
              full |-> Switch("full"), page |-> Switch("page"),
              pageSize |-> Value("page-size"), cursor |-> Value("cursor")]
        [] OTHER -> <<>>

(***************************************************************************)
(* The client's requests; the token is the one just negotiated             *)
(***************************************************************************)
MethodOf(sub) == IF sub = "list" THEN "targets" ELSE sub

RunParams(action) == [target |-> Str(action.target), sequential |-> Flag(action.sequential)]
EmitParams(action) == [path |-> Str(action.path)]
AwaitRequest(mode, generation, timeout) ==
  mode :> Num(generation) @@ [timeoutMs |-> Num(timeout)]
AwaitParamsOf(action) ==
  IF action.after # None THEN AwaitRequest("after", action.after[1], action.timeout)
                         ELSE AwaitRequest("generation", action.generation[1], action.timeout)
CancelParams(action, token) == [generation |-> Num(action.generation), instanceToken |-> Str(token)]
OutputParams(action, token) ==
  [generation |-> Num(action.generation), instanceToken |-> Str(token)]
  @@ Skipped("task", action.task, Str)
  @@ (IF action.page THEN [mode |-> Str("page")] @@ Skipped("maxBytes", action.pageSize, Num)
                                                 @@ Skipped("cursor", action.cursor, Str)
      ELSE IF action.full THEN [full |-> Flag(TRUE)]
      ELSE Skipped("tail", action.tail, Num))
  @@ Skipped("stream", action.stream, Str)

ParamsOf(sub, action, token) ==
  CASE sub = "run" -> RunParams(action)
    [] sub = "emit" -> EmitParams(action)
    [] sub = "await" -> AwaitParamsOf(action)
    [] sub = "cancel" -> CancelParams(action, token)
    [] sub = "output" -> OutputParams(action, token)
    [] OTHER -> <<>>
=============================================================================
