------------------------------- MODULE Control -------------------------------
(***************************************************************************)
(* The control socket and the `fzz control` commands that use it, composed *)
(* (src/control.rs, src/control_client.rs, src/cli/control.rs).  A watcher *)
(* process listens on one path, accepts connections on one thread, serves  *)
(* each on a thread of its own, and may crash, be restarted, or rebind     *)
(* its socket.  Every client runs one command: a fixed sequence of calls   *)
(* over one connection, each bounded by a read timeout.                    *)
(*                                                                         *)
(* Data is abstracted to what a client can conclude from a reply: the      *)
(* identifier it answers, whether it is an error, and the token,           *)
(* generation or outcome it carries.  The runs themselves are the outcomes *)
(* of Worker: a generation is active until it passed, failed, was          *)
(* cancelled or was superseded by the next one.                            *)
(***************************************************************************)
EXTENDS Naturals, Sequences, FiniteSets

CONSTANTS Clients,     \* the commands run against the watcher, one each
          Commands,    \* Commands[c]: the kinds of command c may be
          Conns,       \* bound: connections that exist at a time
          MaxClients,  \* MAX_CLIENT_THREADS
          Retries,     \* reconnections of finish_await
          MaxServers,  \* bound: sockets bound, by restarts and by rebinding
          MaxGen,      \* bound: generations of one process
          Vanishing    \* whether a command may be interrupted by its user

ASSUME ControlAssumption ==
    /\ MaxClients \in Nat \ {0}
    /\ Retries \in Nat /\ MaxServers \in Nat \ {0} /\ MaxGen \in Nat
    /\ Vanishing \in BOOLEAN

VARIABLES srv,        \* the socket bound last
          proc,       \* proc[s]: the process (its token) that bound socket s
          alive,      \* the watcher process runs
          listening,  \* the accept loop of socket srv runs
          slots,      \* slots[s]: active_clients of socket s
          gens,       \* gens[p][g]: outcome of generation g of process p
          conn,       \* conn[k]: a connection and the thread that serves it
          noted,      \* subscriptions a published snapshot waits for
          cl          \* cl[c]: the command client c runs

vars == <<srv, proc, alive, listening, slots, gens, conn, noted, cl>>

Servers == 1..MaxServers
NoGen == 0
NoToken == 0
NoConn == "none"

(***************************************************************************)
(* Connections.  A queued connection is in the kernel's backlog; a taken   *)
(* one was accepted, refused or lost its server.                           *)
(***************************************************************************)
Free == [st |-> "free", srv |-> 1, cli |-> FALSE, up |-> FALSE,
         in |-> <<>>, out |-> <<>>, thr |-> "none", req |-> <<>>]

Threads(s) == {k \in Conns : conn[k].srv = s /\ conn[k].thr # "none"}

Settled(r) == IF r.st = "taken" /\ ~r.cli /\ r.thr = "none" THEN Free ELSE r

CanConnect == alive /\ listening /\ \E k \in Conns : conn[k].st = "free"

NewConn == CHOOSE k \in Conns : conn[k].st = "free"

Connection == [Free EXCEPT !.st = "queued", !.srv = srv, !.cli = TRUE, !.up = TRUE]

Closed(r) == Settled([r EXCEPT !.cli = FALSE, !.out = <<>>])

(* Reply(k, r): the server thread of k writes r, if the client still reads. *)
Written(r, reply) == IF r.cli THEN [r EXCEPT !.out = Append(@, reply)] ELSE r

NoBody == [of |-> "nothing"]
Token(p) == [tok |-> p]
Generation(g) == [gen |-> g]
Acknowledged(b) == [acked |-> b]
Observed(out) == [out |-> out]

Answer(id, body) == [id |-> id, ok |-> TRUE, body |-> body]
RpcError(id) == [id |-> id, ok |-> FALSE, body |-> NoBody]

(***************************************************************************)
(* What each command calls.  "caps?" is a negotiation whose failure the    *)
(* command ignores, "caps" one it does not.                                *)
(***************************************************************************)
Waiting == <<"caps?", "await">>

Program(cmd) ==
    CASE cmd = "status"      -> <<"status">>
      [] cmd = "run"         -> <<"run">>
      [] cmd = "run wait"    -> <<"run">> \o Waiting
      [] cmd = "run in sequence" -> <<"caps", "run">>
      [] cmd = "emit wait"   -> <<"emit">> \o Waiting
      [] cmd = "await"       -> Waiting
      [] cmd = "cancel"      -> <<"caps?", "cancel">>
      [] cmd = "cancel wait" -> <<"caps?", "cancel">> \o Waiting
      [] cmd = "output"      -> <<"caps?", "output">>
      [] cmd = "subscribe"   -> <<"subscribe">>

(* Commands whose generation the user typed, from what they saw earlier.   *)
Numbered == {"await", "cancel", "cancel wait", "output"}

Idle == [cmd |-> "none", todo |-> <<>>, k |-> NoConn, f |-> NoConn, pc |-> "idle",
         id |-> 0, tok |-> NoToken, gen |-> NoGen, on |-> 0, meant |-> 0, tries |-> 0,
         acked |-> FALSE, res |-> "none"]

Init ==
    /\ srv = 1 /\ alive = TRUE /\ listening = TRUE
    /\ proc = [s \in Servers |-> 1]
    /\ slots = [s \in Servers |-> 0]
    /\ gens = [p \in Servers |-> <<>>]
    /\ conn = [k \in Conns |-> Free]
    /\ noted = {}
    /\ cl = [c \in Clients |-> Idle]

-----------------------------------------------------------------------------
(***************************************************************************)
(* The generations of the process that runs now (external to this module:  *)
(* Worker is their specification).  Every change is published.             *)
(***************************************************************************)
P == proc[srv]
Running(p) == {g \in DOMAIN gens[p] : gens[p][g].st = "active"}

Publish == noted' = noted \cup {k \in Conns : conn[k].thr = "subscribed"}

Ended(s, out) == [g \in DOMAIN s |-> IF s[g].st = "active" THEN [s[g] EXCEPT !.st = out] ELSE s[g]]

Schedule(by) ==
    /\ Len(gens[P]) < MaxGen
    /\ gens' = [gens EXCEPT ![P] =
                   Append(Ended(@, "superseded"), [st |-> "active", by |-> by])]
    /\ Publish

FileChanged ==
    /\ alive
    /\ Schedule(NoConn)
    /\ UNCHANGED <<srv, proc, alive, listening, slots, conn, cl>>

GenerationEnds ==
    /\ alive /\ Running(P) # {}
    /\ \E out \in {"passed", "failed"} : gens' = [gens EXCEPT ![P] = Ended(@, out)]
    /\ Publish
    /\ UNCHANGED <<srv, proc, alive, listening, slots, conn, cl>>

AcceptCountsRefused(k) ==
    /\ alive /\ listening /\ conn[k].st = "queued" /\ conn[k].srv = srv
    /\ slots' = [slots EXCEPT ![srv] = @ + 1]
    /\ conn' = [conn EXCEPT ![k] =
          IF slots[srv] + 1 > MaxClients
          THEN Settled([Written(@, RpcError(0)) EXCEPT !.st = "taken", !.up = FALSE])
          ELSE [@ EXCEPT !.st = "taken", !.thr = "serve"]]
    /\ UNCHANGED <<srv, proc, alive, listening, gens, noted, cl>>

-----------------------------------------------------------------------------
(***************************************************************************)
(* The server.                                                             *)
(***************************************************************************)
(* ControlServer::bind's accept loop: count, refuse above the bound with   *)
(* an error that answers no identifier, else give it a thread.             *)
Accept(k) ==
    /\ alive /\ listening /\ conn[k].st = "queued" /\ conn[k].srv = srv
    /\ IF slots[srv] + 1 > MaxClients
       THEN /\ conn' = [conn EXCEPT ![k] =
                  Settled([Written(@, RpcError(0)) EXCEPT !.st = "taken", !.up = FALSE])]
            /\ UNCHANGED slots
       ELSE /\ conn' = [conn EXCEPT ![k].st = "taken", ![k].thr = "serve"]
            /\ slots' = [slots EXCEPT ![srv] = @ + 1]
    /\ UNCHANGED <<srv, proc, alive, listening, gens, noted, cl>>

(* The thread of k ended handle_client: its stream is closed, its slot not *)
(* yet given back.                                                         *)
Leaving(r) == [r EXCEPT !.thr = "leaving", !.up = FALSE, !.in = <<>>]

(* One request of handle_client.  Each read uses a buffer of its own, so   *)
(* whatever else had arrived with this line is gone.                       *)
Taken(k) == [conn[k] EXCEPT !.in = <<>>]

Respond(k, reply) == conn' = [conn EXCEPT ![k] = Written(Taken(k), reply)]

ServeQuery(k, q) ==
    /\ q.m \in {"status", "caps"}
    /\ Respond(k, Answer(q.id, IF q.m = "caps" THEN Token(proc[conn[k].srv]) ELSE NoBody))
    /\ UNCHANGED <<gens, noted>>

ServeRun(k, q) ==
    \/ /\ q.m \in {"run", "emit"}
       /\ Schedule(q.by)
       /\ Respond(k, Answer(q.id, Generation(Len(gens[P]) + 1)))
    \/ /\ q.m = "run"                 \* unknown target, or the watcher is closing
       /\ Respond(k, RpcError(q.id))
       /\ UNCHANGED <<gens, noted>>
    \/ /\ q.m = "emit"                \* the path matches no job: an explicit no-op
       /\ Respond(k, Answer(q.id, Generation(NoGen)))
       /\ UNCHANGED <<gens, noted>>

Matches(g) == g \in Running(P)

ServeCancel(k, q) ==
    /\ q.m = "cancel"
    /\ IF q.tok # NoToken /\ q.tok # P
       THEN Respond(k, Answer(q.id, Acknowledged(FALSE))) /\ UNCHANGED <<gens, noted>>
       ELSE IF Matches(q.gen)
       THEN /\ gens' = [gens EXCEPT ![P] = Ended(@, "cancelled")]
            /\ Publish
            /\ \/ Respond(k, Answer(q.id, Acknowledged(TRUE)))
               \/ Respond(k, RpcError(q.id))         \* cleanup escalated
       ELSE Respond(k, Answer(q.id, Acknowledged(FALSE))) /\ UNCHANGED <<gens, noted>>

ServeOutput(k, q) ==
    /\ q.m = "output"
    /\ Respond(k, IF (q.tok # NoToken /\ q.tok # P) \/ q.gen \notin DOMAIN gens[P]
                  THEN RpcError(q.id) ELSE Answer(q.id, Generation(q.gen)))
    /\ UNCHANGED <<gens, noted>>

(* await and subscribe keep the thread: the first until its condition, its *)
(* bound or the client's disconnection, the second for good.               *)
ServeLong(k, q) ==
    \/ /\ q.m = "await"
       /\ conn' = [conn EXCEPT ![k] = [Taken(k) EXCEPT !.thr = "await", !.req = <<q>>]]
       /\ UNCHANGED <<gens, noted>>
    \/ /\ q.m = "subscribe"
       /\ conn' = [conn EXCEPT ![k] =
                      Written([Taken(k) EXCEPT !.thr = "subscribed"], Answer(q.id, NoBody))]
       /\ UNCHANGED <<gens, noted>>

Serve(k) ==
    /\ alive /\ conn[k].thr = "serve" /\ conn[k].in # <<>>
    /\ LET q == Head(conn[k].in) IN
       \/ ServeQuery(k, q) \/ ServeRun(k, q) \/ ServeCancel(k, q)
       \/ ServeOutput(k, q) \/ ServeLong(k, q)
    /\ UNCHANGED <<srv, proc, alive, listening, slots, cl>>

(* The client closed its end and nothing is left to read.                  *)
ServeEnds(k) ==
    /\ alive /\ conn[k].thr = "serve" /\ conn[k].in = <<>> /\ ~conn[k].cli
    /\ conn' = [conn EXCEPT ![k] = Leaving(@)]
    /\ UNCHANGED <<srv, proc, alive, listening, slots, gens, noted, cl>>

(* handle_await: the generation ended, the bound passed, or the probe read *)
(* something that is not silence (then the client is taken to be gone).    *)
AwaitAnswers(k) ==
    /\ alive /\ conn[k].thr = "await"
    /\ LET q == conn[k].req[1]
           Over == q.gen \in DOMAIN gens[P] /\ q.gen \notin Running(P)
           Gone == ~conn[k].cli \/ conn[k].in # <<>>
       IN \E why \in {"over", "timeout", "gone"} :
             /\ why = "over" => Over
             /\ why = "gone" => Gone
             /\ conn' = [conn EXCEPT ![k] =
                   [Written(@, Answer(q.id, Observed(IF why = "over" THEN gens[P][q.gen].st ELSE why)))
                       EXCEPT !.thr = "serve", !.req = <<>>]]
    /\ UNCHANGED <<srv, proc, alive, listening, slots, gens, noted, cl>>

(* handle_subscribe's loop: only a publication makes the thread write, and *)
(* only the failing write tells it that the client is gone.                *)
Notify(k) ==
    /\ alive /\ k \in noted /\ conn[k].thr = "subscribed"
    /\ noted' = noted \ {k}
    /\ conn' = [conn EXCEPT ![k] = IF @.cli THEN @ ELSE Leaving(@)]
    /\ UNCHANGED <<srv, proc, alive, listening, slots, gens, cl>>

GiveBack(k) ==
    /\ alive /\ conn[k].thr = "leaving"
    /\ conn' = [conn EXCEPT ![k] = Settled([@ EXCEPT !.thr = "none"])]
    /\ slots' = [slots EXCEPT ![conn[k].srv] = @ - 1]
    /\ UNCHANGED <<srv, proc, alive, listening, gens, noted, cl>>

(* A connection whose server end is gone, queued or not.                   *)
Cut(r) == Settled([r EXCEPT !.up = FALSE, !.thr = "none", !.in = <<>>, !.req = <<>>,
                            !.st = IF @ = "queued" THEN "taken" ELSE @])

CutQueued == [k \in Conns |-> IF conn[k].st = "queued" THEN Cut(conn[k]) ELSE conn[k]]

(* accept fails for good: the loop ends and its listener with it, the      *)
(* threads that serve clients stay.                                        *)
AcceptFails ==
    /\ alive /\ listening
    /\ listening' = FALSE
    /\ conn' = CutQueued
    /\ UNCHANGED <<srv, proc, alive, slots, gens, noted, cl>>

(* A reload retires the socket and binds another: same process and token,  *)
(* a new counter; the threads of the old socket stay.                      *)
Rebind ==
    /\ alive /\ srv < MaxServers
    /\ srv' = srv + 1
    /\ proc' = [proc EXCEPT ![srv + 1] = P]
    /\ listening' = TRUE
    /\ conn' = CutQueued
    /\ UNCHANGED <<alive, slots, gens, noted, cl>>

Crash ==
    /\ alive
    /\ alive' = FALSE /\ listening' = FALSE
    /\ conn' = [k \in Conns |-> Cut(conn[k])]
    /\ slots' = [s \in Servers |-> 0]
    /\ noted' = {}
    /\ UNCHANGED <<srv, proc, gens, cl>>

Restart ==
    /\ ~alive /\ srv < MaxServers
    /\ srv' = srv + 1
    /\ proc' = [proc EXCEPT ![srv + 1] = srv + 1]
    /\ alive' = TRUE /\ listening' = TRUE
    /\ UNCHANGED <<slots, gens, conn, noted, cl>>

-----------------------------------------------------------------------------
(***************************************************************************)
(* The client.                                                             *)
(***************************************************************************)
Transport == {"unavailable", "io", "disconnected", "timeout"}

Call(c) == Head(cl[c].todo)
Mine(c) == conn[cl[c].k]

(* The command is over: its result is printed and its connections close.   *)
Finished(c, why, kc) ==
    /\ cl' = [cl EXCEPT ![c].pc = "done", ![c].res = why, ![c].todo = <<>>,
                        ![c].k = NoConn, ![c].f = NoConn]
    /\ conn' = [k \in Conns |-> IF k \in {cl[c].k, cl[c].f} \cap Conns
                                THEN Closed(kc[k]) ELSE kc[k]]

Begin(c) ==
    /\ cl[c].pc = "idle"
    /\ \E cmd \in Commands[c], g \in 1..MaxGen, p \in 1..srv :
          /\ IF cmd \in Numbered THEN g \in DOMAIN gens[proc[p]] ELSE g = 1 /\ p = 1
          /\ IF CanConnect
             THEN /\ cl' = [cl EXCEPT ![c] = [Idle EXCEPT !.cmd = cmd, !.todo = Program(cmd),
                              !.k = NewConn, !.pc = "call", !.on = P,
                              !.gen = IF cmd \in Numbered THEN g ELSE NoGen,
                              !.meant = IF cmd \in Numbered THEN proc[p] ELSE 0]]
                  /\ conn' = [conn EXCEPT ![NewConn] = Connection]
             ELSE /\ cl' = [cl EXCEPT ![c] = [Idle EXCEPT !.cmd = cmd, !.pc = "done",
                                                          !.res = "unavailable"]]
                  /\ UNCHANGED conn
    /\ UNCHANGED <<srv, proc, alive, listening, slots, gens, noted>>

(* ControlClient::call writes the request and waits for one line.          *)
Request(c) ==
    [id |-> cl[c].id + 1, m |-> IF Call(c) = "caps?" THEN "caps" ELSE Call(c),
     gen |-> cl[c].gen, tok |-> cl[c].tok, by |-> c]

FailedRunIsRetried(c, why, kc) ==
    IF Call(c) = "run" /\ why = "timeout" /\ cl[c].id = 1
    THEN cl' = [cl EXCEPT ![c].pc = "call"] /\ conn' = kc
    ELSE IF Call(c) = "caps?"
    THEN cl' = [cl EXCEPT ![c].todo = Tail(@), ![c].pc = "call"] /\ conn' = kc
    ELSE Finished(c, why, kc)

(* A call failed.  A negotiation that may fail leaves no token; a failed   *)
(* await is investigated; any other failure ends the command.              *)
Failed(c, why, kc) ==
    IF Call(c) = "caps?"
    THEN /\ cl' = [cl EXCEPT ![c].todo = Tail(@), ![c].pc = "call", ![c].tok = NoToken,
                             ![c].id = IF cl[c].pc = "call" THEN @ + 1 ELSE @]
         /\ conn' = kc
    ELSE IF Call(c) = "await" /\ why \in Transport
    THEN IF cl[c].tok # NoToken
         THEN cl' = [cl EXCEPT ![c].pc = "renegotiate", ![c].tries = Retries] /\ conn' = kc
         ELSE Finished(c, "disconnected", kc)
    ELSE Finished(c, why, kc)

Send(c) ==
    /\ cl[c].pc = "call"
    /\ IF Mine(c).up
       THEN /\ conn' = [conn EXCEPT ![cl[c].k].in = Append(@, Request(c))]
            /\ cl' = [cl EXCEPT ![c].id = @ + 1, ![c].pc = "wait"]
       ELSE Failed(c, "io", conn)
    /\ UNCHANGED <<srv, proc, alive, listening, slots, gens, noted>>

(* The next call, or the end of the command.  A command that cancelled or  *)
(* that named its outcome ends with that outcome.                          *)
Proceed(c, rec, kc) ==
    IF Tail(rec.todo) = <<>>
    THEN /\ cl' = [cl EXCEPT ![c] = [rec EXCEPT !.pc = "done", !.res = "ok", !.todo = <<>>,
                                                !.k = NoConn]]
         /\ conn' = [kc EXCEPT ![cl[c].k] = Closed(@)]
    ELSE /\ cl' = [cl EXCEPT ![c] = [rec EXCEPT !.pc = "call", !.todo = Tail(@)]]
         /\ conn' = kc

(* How finish_await maps what it observed to the command's exit code.      *)
Successful(out) == out \in {"passed", "cancelled"}

Answered(c, reply, kc) ==
    CASE Call(c) \in {"caps", "caps?"} ->
            Proceed(c, [cl[c] EXCEPT !.tok = reply.body.tok], kc)
      [] Call(c) = "run" -> Proceed(c, [cl[c] EXCEPT !.gen = reply.body.gen], kc)
      [] Call(c) = "emit" ->
            IF reply.body.gen = NoGen THEN Finished(c, "ok", kc)
            ELSE Proceed(c, [cl[c] EXCEPT !.gen = reply.body.gen], kc)
      [] Call(c) = "cancel" -> Proceed(c, [cl[c] EXCEPT !.acked = reply.body.acked], kc)
      [] Call(c) = "await" ->
            Finished(c, IF Successful(reply.body.out) THEN "ok" ELSE reply.body.out, kc)
      [] Call(c) = "subscribe" ->
            cl' = [cl EXCEPT ![c].pc = "subscribed"] /\ conn' = kc
      [] OTHER -> Proceed(c, cl[c], kc)

(* Only the reply to the request just sent counts.                         *)
OfThisCall(c, reply) == reply.id = cl[c].id

Receive(c) ==
    /\ cl[c].pc = "wait" /\ Mine(c).out # <<>>
    /\ LET reply == Head(Mine(c).out)
           kc == [conn EXCEPT ![cl[c].k].out = Tail(@)]
       IN IF ~OfThisCall(c, reply) THEN Failed(c, "malformed", kc)
          ELSE IF ~reply.ok THEN Failed(c, "server", kc)
          ELSE Answered(c, reply, kc)
    /\ UNCHANGED <<srv, proc, alive, listening, slots, gens, noted>>

AwaitHasNoBound(c) ==
    /\ cl[c].pc = "wait" /\ Mine(c).out = <<>>
    /\ Call(c) = "await" => ~Mine(c).up
    /\ Failed(c, IF Mine(c).up THEN "timeout" ELSE "disconnected", conn)
    /\ UNCHANGED <<srv, proc, alive, listening, slots, gens, noted>>

(* End of file, or the read timeout of this call.                          *)
NothingComes(c) ==
    /\ cl[c].pc = "wait" /\ Mine(c).out = <<>>
    /\ Failed(c, IF Mine(c).up THEN "timeout" ELSE "disconnected", conn)
    /\ UNCHANGED <<srv, proc, alive, listening, slots, gens, noted>>

(* finish_await's loop: connect again and ask for the token.               *)
Reconnect(c) ==
    /\ cl[c].pc = "renegotiate"
    /\ IF cl[c].tries = 0 THEN Finished(c, "disconnected", conn)
       ELSE IF CanConnect
       THEN /\ cl' = [cl EXCEPT ![c].pc = "ask", ![c].f = NewConn]
            /\ conn' = [conn EXCEPT ![NewConn] =
                  [Connection EXCEPT !.in = <<[Request(c) EXCEPT !.id = 1, !.m = "caps"]>>]]
       ELSE /\ cl' = [cl EXCEPT ![c].tries = @ - 1]
            /\ UNCHANGED conn
    /\ UNCHANGED <<srv, proc, alive, listening, slots, gens, noted>>

IsAnotherWatcher(c, token) == token # cl[c].tok

Reconnected(c) ==
    /\ cl[c].pc = "ask"
    /\ LET r == conn[cl[c].f]
           good == r.out # <<>> /\ Head(r.out).id = 1 /\ Head(r.out).ok
       IN IF good
          THEN Finished(c, IF IsAnotherWatcher(c, Head(r.out).body.tok) THEN "restarted"
                                                          ELSE "disconnected", conn)
          ELSE /\ cl' = [cl EXCEPT ![c].pc = "renegotiate", ![c].tries = @ - 1,
                                   ![c].f = NoConn]
               /\ conn' = [conn EXCEPT ![cl[c].f] = Closed(@)]
    /\ UNCHANGED <<srv, proc, alive, listening, slots, gens, noted>>

(* The user interrupts the command, or the subscriber goes away.           *)
Interrupted(c) ==
    /\ cl[c].pc = "subscribed" \/ (Vanishing /\ cl[c].pc \in {"call", "wait"})
    /\ Finished(c, "interrupted", conn)
    /\ UNCHANGED <<srv, proc, alive, listening, slots, gens, noted>>

ClientStep(c) ==
    Begin(c) \/ Send(c) \/ Receive(c) \/ NothingComes(c) \/ Reconnect(c) \/ Reconnected(c)

(* Bound: once every command is over the watcher's life is not explored.   *)
Watched == \E c \in Clients : cl[c].pc # "done"

Next ==
    /\ Watched
    /\ \/ FileChanged \/ GenerationEnds
       \/ AcceptFails \/ Rebind \/ Crash \/ Restart
       \/ \E k \in Conns : \/ Accept(k) \/ Serve(k) \/ ServeEnds(k) \/ AwaitAnswers(k)
                           \/ Notify(k) \/ GiveBack(k)
       \/ \E c \in Clients : ClientStep(c) \/ Interrupted(c)

Spec == Init /\ [][Next]_vars

(* A command's own steps are never forgotten: reads and writes return or   *)
(* time out.  Nothing is assumed of the watcher.                           *)
FairSpec == Spec /\ \A c \in Clients : WF_vars(ClientStep(c))

-----------------------------------------------------------------------------
Outcome(c) == gens[cl[c].on][cl[c].gen]
Known(c) == cl[c].gen \in DOMAIN gens[cl[c].on]

(* What a command prints is what happened in the process it talked to: a   *)
(* `--wait` that exits 0 names a generation that passed or was cancelled   *)
(* there (for run and emit, the very one it scheduled), a failure it       *)
(* reports is that generation's, an acknowledged cancellation did cancel,  *)
(* and "restarted" is said only when another process has the socket, in    *)
(* spite of late replies, dropped requests, crashes and rebinding          *)
(* (src/cli/control.rs:418, finish_await; src/control_client.rs:1296,      *)
(* call).                                                                  *)
ReportsAreTrue ==
    \A c \in Clients : cl[c].pc = "done" =>
       /\ cl[c].res = "ok" /\ cl[c].cmd \in {"await", "cancel wait"}
             => Known(c) /\ Outcome(c).st \in {"passed", "cancelled"}
       /\ cl[c].res = "ok" /\ cl[c].cmd \in {"run wait", "emit wait"} /\ cl[c].gen # NoGen
             => Outcome(c).st \in {"passed", "cancelled"} /\ Outcome(c).by = c
       /\ cl[c].res \in {"failed", "superseded"} => Outcome(c).st = cl[c].res
       /\ cl[c].acked => Outcome(c).st = "cancelled"
       /\ cl[c].res = "restarted" => proc[srv] # cl[c].on

(* A command schedules at most one generation, in whatever way its calls   *)
(* fail, and exactly one when `run` exits 0: nothing is ever sent twice    *)
(* (src/cli/control.rs:253, the Run arm of execute).                       *)
Scheduled(c) == {<<p, g>> \in Servers \X (1..MaxGen) :
                    g \in DOMAIN gens[p] /\ gens[p][g].by = c}

RunsAtMostOnce ==
    \A c \in Clients :
       /\ Cardinality(Scheduled(c)) <= 1
       /\ cl[c].res = "ok" /\ cl[c].cmd \in {"run", "run wait", "run in sequence"}
             => Cardinality(Scheduled(c)) = 1

(* A command tells its user what happened, and caused no more than it      *)
(* tells.                                                                  *)
CommandsAreTrue == ReportsAreTrue /\ RunsAtMostOnce

(* active_clients of a socket counts exactly the threads it still serves,  *)
(* the refused connections never among them, and they are never more than  *)
(* MAX_CLIENT_THREADS: no leak can lock clients out                        *)
(* (src/control.rs:303, the accept loop of bind).                          *)
SlotsMatchThreads ==
    \A s \in Servers : slots[s] = Cardinality(Threads(s)) /\ slots[s] <= MaxClients

(* Every command ends, even against a watcher that never answers, whose    *)
(* accept loop died or that crashed at any point: each wait is bounded by  *)
(* a read timeout and each retry by a count                                *)
(* (src/control_client.rs:1296 and :1185, src/cli/control.rs:454).  That   *)
(* connect itself returns is the environment's: it has no timeout (:1109). *)
EveryCommandEnds == []<>(\A c \in Clients : cl[c].pc \in {"idle", "done", "subscribed"})

(***************************************************************************)
(* What the source says and the code does not do.                          *)
(***************************************************************************)
(* src/cli/control.rs:331: the token is negotiated "so a stale request     *)
(* formed against a different watcher process is a safe no-op".  It is     *)
(* asked of whatever process answers now, so the number the user took      *)
(* from an earlier one cancels a generation of the present one.            *)
StaleCancelIsNoOp ==
    \A c \in Clients : cl[c].acked => cl[c].meant = cl[c].on

(* src/control.rs:482: the end of handle_subscribe's loop "releases the    *)
(* subscriber promptly".  A subscriber that left keeps its slot for as     *)
(* long as nothing is published.                                           *)
SubscriberIsReleased ==
    \A k \in Conns : conn[k].thr = "subscribed" /\ k \notin noted => conn[k].cli
=============================================================================
