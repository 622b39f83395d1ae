------------------------------ MODULE Requests ------------------------------
(***************************************************************************)
(* How a run request is put together: the strategies of src/watch_loop.rs, *)
(* the scheduling half of src/workers.rs, the workflow runner of           *)
(* src/workflow.rs and `fzz run`, and what `targets` estimates a run by.   *)
(*                                                                         *)
(* A process is a watcher that restarts runs, a watcher that blocks, or a  *)
(* local run.  A configuration gives its one target a command and a task   *)
(* concurrency.  A command is its text, and says whether the text has      *)
(* {{filepath}} or {{paths}} in it; the target's change pattern matches    *)
(* every path.  Runs pass at once: their samples are what matters here.    *)
(***************************************************************************)
EXTENDS Naturals, Sequences, FiniteSets

CONSTANTS Commands,        \* [text, template] of the target, by revision
          Concurrencies,   \* bounds a configuration may declare
          Batches,         \* sets of changed paths
          MaxCommits,      \* bound: reloads
          MaxRequests      \* bound: runs requested

ASSUME RequestsAssumption == {MaxCommits, MaxRequests} \subseteq Nat

VARIABLES process,   \* "restart", "blocking" or "local"
          live,      \* the shared Watches: [revision, command, concurrency]
          bound,     \* Worker.concurrency
          server,    \* the concurrency the control server was built with, 0 without one
          swapped,   \* has the control server been bound to another path?
          asking,    \* run_target past its read of the shared configuration
          made,      \* requests made so far
          request,   \* the last one
          history,   \* samples: the request each comes from
          listed     \* what the last `targets` answer estimated by

requestsVars == <<process, live, bound, server, swapped, asking, made, request, history, listed>>

NoAsking == [pending |-> FALSE]
NoRequest == [source |-> "none", revision |-> 0, plan |-> <<>>, changed |-> {},
              target |-> FALSE, signature |-> <<>>, sequential |-> FALSE]
NotListed == [samples |-> {}, would |-> <<>>]

RequestsInit ==
    /\ process \in {"restart", "blocking", "local"}
    /\ \E command \in Commands, jobs \in Concurrencies :
          /\ live = [revision |-> 1, command |-> command, concurrency |-> jobs]
          /\ bound = jobs
    /\ server = 0 /\ swapped = FALSE
    /\ asking = NoAsking /\ made = 0 /\ request = NoRequest
    /\ history = {} /\ listed = NotListed

-----------------------------------------------------------------------------
(* resolve_context and expand: the text, and what its template stands for. *)
(* Only the plan that is run is expanded.                                  *)
Expand(command, filepath, paths) ==
    IF command.template THEN <<command.text, filepath, paths>> ELSE <<command.text>>

Unexpanded(command) == <<command.text>>

\* execution_signature: the plan and the effective concurrency (the fail-fast
\* policy of a process never changes).
SignatureFor(plan, jobs) == <<plan, jobs>>

Made(r) ==
    /\ made < MaxRequests /\ made' = made + 1
    /\ request' = r
    /\ history' = IF r.target THEN history \cup {r} ELSE history

\* schedule_target: the label, the signature by the effective concurrency.
TargetRequest(command, revision, jobs, sequential) ==
    LET plan == Expand(command, {}, {}) IN
    [source |-> "control", revision |-> revision, plan |-> plan, changed |-> {},
     target |-> TRUE, signature |-> SignatureFor(plan, jobs), sequential |-> sequential]

\* schedule_plan_correlated: no target and no signature.
PlainRequest(source, command, revision, filepath, changed) ==
    [NoRequest EXCEPT !.source = source, !.revision = revision,
                      !.plan = Expand(command, filepath, changed), !.changed = changed]

-----------------------------------------------------------------------------
(* The watcher that restarts.  on_ready builds the control server; its     *)
(* estimate provider keeps the worker's concurrency of that moment.        *)
OnReady ==
    /\ process = "restart" /\ server = 0
    /\ server' = bound
    /\ UNCHANGED <<process, live, bound, swapped, asking, made, request, history, listed>>

RunInit ==
    /\ process = "restart"
    /\ Made(PlainRequest("init", live.command, live.revision, {}, {}))
    /\ UNCHANGED <<process, live, bound, server, swapped, asking, listed>>

RunChange(filepath, changed) ==
    /\ process = "restart"
    /\ Made(PlainRequest("filesystem", live.command, live.revision, {filepath}, changed))
    /\ UNCHANGED <<process, live, bound, server, swapped, asking, listed>>

\* A bug: an emitted path schedules the job as the target it names.
EmitTarget(path) ==
    /\ process = "restart" /\ server # 0
    /\ Made([TargetRequest(live.command, live.revision, bound, FALSE)
                EXCEPT !.source = "emit"])
    /\ UNCHANGED <<process, live, bound, server, swapped, asking, listed>>

\* emit_path, and the plan of an emitted path has no batch.
EmitPath(path) ==
    /\ process = "restart" /\ server # 0
    /\ Made(PlainRequest("emit", live.command, live.revision, {path}, {}))
    /\ UNCHANGED <<process, live, bound, server, swapped, asking, listed>>

\* run_target reads plan and revision under the shared lock, and schedules
\* them without it.
AskRun(sequential) ==
    /\ process = "restart" /\ server # 0 /\ ~asking.pending
    /\ asking' = [pending |-> TRUE, command |-> live.command, revision |-> live.revision,
                  sequential |-> sequential]
    /\ UNCHANGED <<process, live, bound, server, swapped, made, request, history, listed>>

RunTarget ==
    /\ asking.pending
    /\ Made(TargetRequest(asking.command, asking.revision,
                          IF asking.sequential THEN 1 ELSE bound, asking.sequential))
    /\ asking' = NoAsking
    /\ UNCHANGED <<process, live, bound, server, swapped, listed>>

\* `targets`: the samples of the signature that the provider computes from the
\* resolved plan, beside the signature a run asked for now would be saved by.
ListTargets ==
    /\ process = "restart" /\ server # 0
    /\ LET signature == SignatureFor(Unexpanded(live.command), server)
       IN  listed' = [samples |-> {r \in history : r.signature = signature},
                      would |-> SignatureFor(Expand(live.command, {}, {}), bound)]
    /\ UNCHANGED <<process, live, bound, server, swapped, asking, made, request, history>>

(* A reload: the new control server, if the path changed, is built before  *)
(* the commit; the shared configuration is swapped; then the worker's      *)
(* values are set.                                                         *)
PrepareSocketSwap ==
    /\ process = "restart" /\ server # 0 /\ ~swapped /\ bound = live.concurrency
    /\ server' = bound /\ swapped' = TRUE
    /\ UNCHANGED <<process, live, bound, asking, made, request, history, listed>>

CommitConfig(command, jobs) ==
    /\ process = "restart" /\ live.revision <= MaxCommits /\ bound = live.concurrency
    /\ live' = [revision |-> live.revision + 1, command |-> command, concurrency |-> jobs]
    /\ listed' = NotListed
    /\ UNCHANGED <<process, bound, server, swapped, asking, made, request, history>>

SetConcurrency ==
    /\ bound # live.concurrency
    /\ bound' = live.concurrency
    /\ UNCHANGED <<process, live, server, swapped, asking, made, request, history, listed>>

-----------------------------------------------------------------------------
(* The watcher that blocks and a local run.  No revision is known.         *)

\* WorkflowRunner::run: {{paths}} is given no paths; a target's run is signed.
WorkflowRun(metadata, filepath) ==
    LET plan == Expand(live.command, filepath, {}) IN
    [metadata EXCEPT !.plan = plan,
        !.signature = IF metadata.target THEN SignatureFor(plan, live.concurrency) ELSE <<>>]

RunInitBlocking ==
    /\ process = "blocking"
    /\ Made(WorkflowRun([NoRequest EXCEPT !.source = "init"], {}))
    /\ UNCHANGED <<process, live, bound, server, swapped, asking, listed>>

RunBlocking(filepath, changed) ==
    /\ process = "blocking"
    /\ Made(WorkflowRun([NoRequest EXCEPT !.source = "filesystem", !.changed = changed], {filepath}))
    /\ UNCHANGED <<process, live, bound, server, swapped, asking, listed>>

RunLocally ==
    /\ process = "local"
    /\ Made(WorkflowRun([NoRequest EXCEPT !.source = "local", !.target = TRUE], {}))
    /\ UNCHANGED <<process, live, bound, server, swapped, asking, listed>>

RequestsNext ==
    \/ OnReady \/ RunInit \/ ListTargets \/ RunTarget
    \/ \E changed \in Batches : \E filepath \in changed :
          RunChange(filepath, changed) \/ RunBlocking(filepath, changed)
    \/ \E path \in UNION Batches : EmitPath(path)
    \/ \E sequential \in BOOLEAN : AskRun(sequential)
    \/ PrepareSocketSwap \/ SetConcurrency
    \/ \E command \in Commands, jobs \in Concurrencies : CommitConfig(command, jobs)
    \/ RunInitBlocking \/ RunLocally

RequestsSpec == RequestsInit /\ [][RequestsNext]_requestsVars
-----------------------------------------------------------------------------
\* What `targets` estimates a target by are runs of that target, asked for by
\* name, of the very commands it has now: no run of a file change, of an
\* emitted path or of the start is counted, and none of a revision that ran
\* something else, whatever reloads come between a read of the configuration,
\* the run and the answer (run_target, emit_path, build_control_server).
EstimatesAreOfTheTarget ==
    \A r \in listed.samples : /\ r.source = "control"
                              /\ r.plan = Expand(live.command, {}, {})

-----------------------------------------------------------------------------
\* Statements of the comments and docs that do not hold; see the README.

\* README.md:310 "and the full batch as `{{paths}}`": the command of a run for
\* a batch is expanded with all its paths.
BatchIsExpanded ==
    request.source = "filesystem" /\ Len(request.plan) = 3 => request.plan[3] = request.changed

\* workers.rs "sequential duration history cannot contaminate parallel
\* estimates": a sequential run is not what a parallel one is estimated by.
SequentialStaysApart ==
    \A r \in listed.samples : r.sequential => listed.would = r.signature

\* watch_loop.rs "estimates reflect the live revision after a reload": a run
\* that was saved by the signature a run would have now is estimated by.
EstimateIsFound ==
    \A r \in history : r.signature = listed.would => r \in listed.samples
=============================================================================
