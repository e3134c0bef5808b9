------------------------------ MODULE Gateway ------------------------------
(***************************************************************************)
(* The gateway process: boot from the environment, mutation requests from  *)
(* the token check to the answer, the API server behind them, and          *)
(* shutdown.  It composes GatewayConfig (what the settings mean) with      *)
(* GatewayPolicy (the gates of a mutation).                                *)
(*                                                                         *)
(* A call is [token, peer, forwarded, cluster, kind] plus the fields of a  *)
(* GatewayPolicy mutation; forwarded is the list of X-Forwarded-For        *)
(* entries.  Time runs in units of ten seconds while something is timed;   *)
(* steps of a handler take no time.  A drain is modelled up to its start   *)
(* (module Drain goes on from there), a parked mutation up to the 202      *)
(* (module Approvals), and of the limiter (module RateLimiter) only that   *)
(* it may refuse when there is one.                                        *)
(***************************************************************************)
EXTENDS GatewayConfig, FiniteSets

CONSTANTS
    Reqs,           \* requests a run can make
    Environments,   \* raw settings the process can be started with
    Calls,          \* calls clients make
    CallTime,       \* RestClient.httpClient.Timeout
    ShutdownTime    \* the context of httpServer.Shutdown

ASSUME GatewayAssumption ==
    /\ CallTime \in Nat \ {0} /\ ShutdownTime \in Nat \ {0}
    /\ Err \notin Environments \cup Calls \cup STRING
    /\ \A e \in Environments : /\ e.tokens \in Seq(STRING) /\ e.token \in STRING
                               /\ {e.rps, e.burst} \subseteq Int \cup {Blank, Garbled}
    /\ \A e \in Environments : \A path \in DOMAIN e.files :
          e.files[path].contexts \in Seq([name : STRING, cluster : STRING, user : STRING])
    /\ \A q \in Calls : q.forwarded \in Seq(STRING) /\ {q.token, q.peer} \subseteq STRING

VARIABLES
    env,        \* the raw settings
    cfg,        \* what main made of them, Err before
    proc,       \* "booting", "serving", "stopping", "exited", "fatal", "killed"
    grace,      \* time Shutdown still waits
    stage,      \* where each request is
    call,       \* what each request asks, Err before it does
    left,       \* time the client of the API server still waits
    effect,     \* what became of the mutation: none, sent, refused or applied, and where
    status,     \* the status of each request once it is known, 0 before
    parked,     \* request -> identity that waits for an approval, Err for none
    audit,      \* the audit log
    unwritten   \* the requests whose entry the sink could not write

vars    == <<env, cfg, proc, grace, stage, call, left, effect, status, parked, audit, unwritten>>
process == <<env, cfg, proc, grace>>

NoEffect == [state |-> "none", server |-> "", token |-> ""]

Init ==
    /\ env \in Environments
    /\ cfg = Err /\ proc = "booting" /\ grace = ShutdownTime
    /\ stage = [r \in Reqs |-> "idle"] /\ call = [r \in Reqs |-> Err]
    /\ left = [r \in Reqs |-> CallTime] /\ effect = [r \in Reqs |-> NoEffect]
    /\ status = [r \in Reqs |-> 0] /\ parked = [r \in Reqs |-> Err]
    /\ audit = {} /\ unwritten = {}

-----------------------------------------------------------------------------
(* The gates, in the order the handlers apply them.                        *)

Policy(c) ==
    INSTANCE GatewayPolicy WITH
        Targets <- STRING, Namespaces <- STRING, ReplicaCounts <- Int,
        MaxReplicas <- c.scale.maxReplicas, AllowedNamespaces <- c.scale.namespaces,
        AllowedNodes <- c.node.allowed, ProtectedNodes <- c.node.protected,
        DisableDrain <- c.node.disableDrain, ApprovalOps <- c.approvals

tokenAccepted(c, q) == c.tokens = {} \/ q.token \in c.tokens

clientIP(c, q) ==
    IF c.trust /\ q.forwarded # <<>> /\ Last(q.forwarded) # ""
    THEN Last(q.forwarded) ELSE q.peer

\* Distinct tokens have distinct fingerprints.
identity(c, q) == IF c.tokens = {} THEN clientIP(c, q) ELSE q.token

ScaleKinds   == {"deployment", "statefulSet"}
RestartKinds == ScaleKinds \cup {"daemonSet"}

KindAllows(q) ==
    /\ q.op = "scale" => q.kind \in ScaleKinds
    /\ q.op = "restart" => q.kind \in RestartKinds

Gate(pass, code) == [pass |-> pass, code |-> code]

\* What a handler checks before it parks or executes.
Gates(c, q) == <<Gate(tokenAccepted(c, q), 401),
                 Gate(Policy(c)!WellFormed(q), 400),
                 Gate(Policy(c)!PolicyAllows(q), 403)>>

\* What a backend checks before it calls its API server.
BackendGates(c, q) == <<Gate(c.backend.live, 501),
                        Gate(q.cluster \in Ids(c.backend.profiles), 404),
                        Gate(KindAllows(q), 400)>>

\* The code of the first gate that does not open, 0 when all do.
FirstFailure(gates) ==
    LET failing == {i \in DOMAIN gates : ~gates[i].pass}
    IN  IF failing = {} THEN 0 ELSE gates[Min(failing)].code

Parks(c, q) == Policy(c)!Parks(q)

Route(c, q) == CHOOSE p \in Range(c.backend.profiles) : p.id = q.cluster

-----------------------------------------------------------------------------
(* The process.                                                            *)

Boot ==
    /\ proc = "booting"
    /\ cfg' = Configure(env)
    /\ proc' = IF Fatal(cfg') THEN "fatal" ELSE "serving"
    /\ UNCHANGED <<env, grace, stage, call, left, effect, status, parked, audit, unwritten>>

InFlight == {r \in Reqs : stage[r] \in {"calling", "replied", "audited"}}

\* The process is gone, and with it the requests it was serving.
Ends(how) ==
    /\ proc' = how
    /\ stage' = [r \in Reqs |-> IF r \in InFlight THEN "lost" ELSE stage[r]]
    /\ UNCHANGED <<env, cfg, grace, call, left, effect, status, parked, audit, unwritten>>

ListenFails == proc = "serving" /\ Ends("fatal")

Kill == proc \in {"serving", "stopping"} /\ Ends("killed")

Signal ==
    /\ proc = "serving" /\ proc' = "stopping"
    /\ UNCHANGED <<env, cfg, grace, stage, call, left, effect, status, parked, audit, unwritten>>

\* Shutdown returns when nothing is in flight, or when its context ends.
Shutdown ==
    /\ proc = "stopping" /\ (InFlight = {} \/ grace = 0)
    /\ Ends("exited")

-----------------------------------------------------------------------------
(* A request.                                                              *)

Reply(r, code) ==
    /\ stage' = [stage EXCEPT ![r] = "replied"]
    /\ status' = [status EXCEPT ![r] = code]

\* 401 and 429 come from the middleware around the handlers, which does not
\* audit, and so does the 500 after a panic.
AnswerUnaudited(r, code) ==
    /\ stage' = [stage EXCEPT ![r] = "audited"]
    /\ status' = [status EXCEPT ![r] = code]
    /\ UNCHANGED <<left, effect, parked, audit, unwritten>>

Park(r, q) ==
    /\ parked' = [parked EXCEPT ![r] = identity(cfg, q)]
    /\ Reply(r, 202)
    /\ UNCHANGED <<left, effect, audit, unwritten>>

Refuse(r, code) == Reply(r, code) /\ UNCHANGED <<left, effect, parked, audit, unwritten>>

\* A drain is registered and runs in the background; the others are sent and awaited.
Execute(r, q) ==
    LET Effect(state) == [state |-> state, server |-> Route(cfg, q).server,
                          token |-> Route(cfg, q).token]
    IN  /\ effect' = [effect EXCEPT ![r] = Effect(IF q.op = "drain" THEN "applied" ELSE "sent")]
        /\ IF q.op = "drain" THEN Reply(r, 202)
           ELSE stage' = [stage EXCEPT ![r] = "calling"] /\ UNCHANGED status
        /\ UNCHANGED <<left, parked, audit, unwritten>>

\* The backend call may panic before it did anything.
Arrive(r, q) ==
    LET front == FirstFailure(Gates(cfg, q))
        back  == FirstFailure(BackendGates(cfg, q))
    IN  /\ proc = "serving" /\ stage[r] = "idle"
        /\ call' = [call EXCEPT ![r] = q]
        /\ \/ cfg.limiter /\ AnswerUnaudited(r, 429)
           \/ front = 401 /\ AnswerUnaudited(r, 401)
           \/ front \notin {0, 401} /\ Refuse(r, front)
           \/ front = 0 /\ Parks(cfg, q) /\ Park(r, q)
           \/ front = 0 /\ ~Parks(cfg, q) /\ back # 0 /\ Refuse(r, back)
           \/ /\ front = 0 /\ ~Parks(cfg, q) /\ back = 0
              /\ Execute(r, q) \/ AnswerUnaudited(r, 500)
        /\ UNCHANGED process

mutationErr_ServerErrors(code) ==
    CASE code = 404 -> "ErrNotFound"
      [] code \in {400, 422, 500} -> "ErrBadRequest"
      [] OTHER -> "error"
\* 0 stands for an error that is no StatusError: the transport failed or timed out.
mutationErr(code) ==
    CASE code = 404 -> "ErrNotFound"
      [] code \in {400, 422} -> "ErrBadRequest"
      [] OTHER -> "error"

backendErrStatus(err) ==
    CASE err = "ErrNotFound" -> 404
      [] err = "ErrBadRequest" -> 400
      [] OTHER -> 502

Applied(r) ==
    /\ effect[r].state = "sent"
    /\ effect' = [effect EXCEPT ![r].state = "applied"]
    /\ UNCHANGED <<process, stage, call, left, status, parked, audit, unwritten>>

Calling(r) == stage[r] = "calling" /\ proc \in {"serving", "stopping"}

Succeeds(r) ==
    /\ Calling(r) /\ effect[r].state = "applied"
    /\ Reply(r, 200)
    /\ UNCHANGED <<process, call, left, effect, parked, audit, unwritten>>

\* A 4xx of the API server: it has not done it and will not.
Refused(r, code) ==
    /\ Calling(r) /\ effect[r].state = "sent"
    /\ effect' = [effect EXCEPT ![r].state = "refused"]
    /\ Reply(r, backendErrStatus(mutationErr(code)))
    /\ UNCHANGED <<process, call, left, parked, audit, unwritten>>

\* A 5xx or a broken connection: whether it was done, or will be, is not known.
Fails(r, code) ==
    /\ Calling(r)
    /\ Reply(r, backendErrStatus(mutationErr(code)))
    /\ UNCHANGED <<process, call, left, effect, parked, audit, unwritten>>

Due_Never(r) == FALSE
Due(r) == left[r] = 0

TimesOut(r) ==
    /\ Calling(r) /\ Due(r)
    /\ Reply(r, backendErrStatus(mutationErr(0)))
    /\ UNCHANGED <<process, call, left, effect, parked, audit, unwritten>>

\* ... or while it waits for the API server; recoverMiddleware answers.
Panics(r) ==
    /\ Calling(r)
    /\ AnswerUnaudited(r, 500)
    /\ UNCHANGED <<process, call>>

Entry(r) == [req |-> r, identity |-> identity(cfg, call[r]), status |-> status[r]]

\* The sink drops the error of a failed write.
Audit(r) ==
    /\ stage[r] = "replied"
    /\ stage' = [stage EXCEPT ![r] = "audited"]
    /\ \/ cfg.audit = "off" /\ UNCHANGED <<audit, unwritten>>
       \/ cfg.audit # "off" /\ audit' = audit \cup {Entry(r)} /\ UNCHANGED unwritten
       \/ cfg.audit # "off" /\ unwritten' = unwritten \cup {r} /\ UNCHANGED audit
    /\ UNCHANGED <<process, call, left, effect, status, parked>>

Answers_First(r) == stage[r] \in {"replied", "audited"}
\* Every handler writes the audit entry before the response.
Answers(r) == stage[r] = "audited"

Answer(r) ==
    /\ Answers(r)
    /\ stage' = [stage EXCEPT ![r] = "answered"]
    /\ UNCHANGED <<process, call, left, effect, status, parked, audit, unwritten>>

\* Ten seconds pass.  Handlers between two calls, and timers that are up, go first.
Timed == {r \in Reqs : Calling(r)}

Tick ==
    /\ proc \in {"serving", "stopping"}
    /\ Timed = InFlight /\ Timed # {}
    /\ \A r \in Timed : left[r] > 0
    /\ proc = "stopping" => grace > 0
    /\ left' = [r \in Reqs |-> IF r \in Timed THEN left[r] - 1 ELSE left[r]]
    /\ grace' = IF proc = "stopping" THEN grace - 1 ELSE grace
    /\ UNCHANGED <<env, cfg, proc, stage, call, effect, status, parked, audit, unwritten>>

-----------------------------------------------------------------------------
Rejections == {400, 403, 404, 409, 422}

Serve(r) ==
    \/ TimesOut(r) \/ Panics(r) \/ Audit(r) \/ Answer(r)
    \/ Succeeds(r) \/ \E code \in Rejections : Refused(r, code)
    \/ \E code \in {0, 500} : Fails(r, code)

Next ==
    \/ Boot \/ Signal \/ Shutdown \/ ListenFails \/ Kill \/ Tick
    \/ \E r \in Reqs : (\E q \in Calls : Arrive(r, q)) \/ Applied(r) \/ Serve(r)

Spec == Init /\ [][Next]_vars

\* Timers fire, handlers run, and Shutdown returns; the API server owes nothing.
FairSpec ==
    /\ Spec /\ WF_vars(Tick) /\ WF_vars(Shutdown)
    /\ \A r \in Reqs : WF_vars(TimesOut(r)) /\ WF_vars(Audit(r)) /\ WF_vars(Answer(r))

-----------------------------------------------------------------------------
(* Properties, stated over the raw settings.                               *)

Took(r)  == effect[r].state # "none" \/ parked[r] # Err
Inline(r) == effect[r].state # "none"
Listed(list) == Range(list) \ {""}

TokensHold(r) ==
    LET accepted == Listed(<<env.token>> \o env.tokens)
    IN  Took(r) => accepted = {} \/ call[r].token \in accepted

ScaleHolds(r) ==
    /\ Took(r) /\ call[r].op = "scale" /\ env.maxReplicas \notin {Blank, 0} =>
         env.maxReplicas # Garbled /\ call[r].replicas <= env.maxReplicas
    /\ Took(r) /\ call[r].op \in {"scale", "restart"} /\ Listed(env.namespaces) # {} =>
         call[r].namespace \in Listed(env.namespaces)

NodesHold(r) ==
    Took(r) /\ call[r].op \in {"cordon", "drain"} =>
        /\ call[r].target \notin Listed(env.protected)
        /\ Listed(env.nodes) # {} => call[r].target \in Listed(env.nodes)
        /\ call[r].op = "drain" => ToLower(env.disableDrain) \in OffWords

\* Drain cordons, so a gate on either holds it back.
ApprovalHolds(r) ==
    LET classes == IF call[r].op = "drain" THEN {"drain", "cordon"} ELSE {call[r].op}
    IN  Inline(r) => {ToLower(op) : op \in Listed(env.requireApproval)} \cap classes = {}

\* The transport the certificate, the key and the client CA ask for.
TLSHolds ==
    IF env.tlsCert = "" /\ env.tlsKey = "" THEN cfg.tls = "off"
    ELSE IF env.clientCA = "" THEN cfg.tls = "tls" ELSE cfg.tls = "mtls"

\* What a mutation got away with never contradicts the raw settings, in upper or
\* lower case, misspelled, negative, zero or half set (main.go:321-350 promise that
\* a value "set but invalid is an error, never a silently disabled control"); and
\* a process that serves limits, encrypts and asks for client certificates when it
\* is told to.  One setting is exempt, because the code does disable it silently: a
\* client CA without certificate and key is ignored and plain HTTP served.
SettingsTakeEffect ==
    /\ \A r \in Reqs : TokensHold(r) /\ ScaleHolds(r) /\ NodesHold(r) /\ ApprovalHolds(r)
    /\ proc = "serving" =>
         /\ (cfg.limiter <=> {env.rps, env.burst} \cap {Blank, 0} = {})
         /\ ~cfg.limiter => {env.rps, env.burst} \subseteq {Blank, 0}
         /\ TLSHolds

\* Nobody is left waiting for an approval no one can give: when a mutation is
\* parked, some accepted token belongs to another identity than its requester's
\* (buildApprovalPolicy wants two distinct tokens).
ApprovalsCanResolve ==
    \A r \in Reqs : parked[r] # Err =>
        \E t \in Listed(<<env.token>> \o env.tokens) : t # parked[r]

\* A mutation lands on the API server, and carries the credentials, that the
\* kubeconfig gives to the context the caller named, and no cluster is listed
\* twice: the profile list and the routing of MultiClusterBackend agree.
LandsWhereNamed ==
    /\ cfg # Err => Cardinality(Ids(cfg.backend.profiles)) = Len(cfg.backend.profiles)
    /\ \A r \in Reqs : Inline(r) =>
         LET doc == env.files[ResolvePath(env)]
         IN  \E c \in First(doc.contexts, call[r].cluster) :
             \E s \in First(doc.clusters, c.cluster), u \in First(doc.users, c.user) :
                 effect[r].server = s.server /\ effect[r].token = Token(u)

\* An answer never lies about the cluster, now or later: 200 means done, a 4xx or
\* 501 means not done and not on its way, and 202 means started or parked, not
\* both.  Only 502 and the 500 after a panic leave it open, because a call that
\* failed, timed out or panicked may have been applied or still be.
StatusTellsEffect ==
    \A r \in Reqs : stage[r] = "answered" =>
        /\ status[r] = 200 => effect[r].state = "applied"
        /\ status[r] \in {400, 401, 403, 404, 429, 501} =>
             effect[r].state \in {"none", "refused"} /\ parked[r] = Err
        /\ status[r] = 202 => ((effect[r].state = "applied") # (parked[r] # Err))

\* A client that has an answer of a handler is in the audit log with that answer,
\* unless the log is off or the sink could not write the entry, also when the process
\* is killed right after; and the identity in it is the caller's token, or an address
\* that the client cannot choose unless the proxy is trusted.  Not every mutation is:
\* what middleware answers is not audited, 401 and 429 before the handler, and 500
\* after it panicked, when the mutation may have been applied.
AnsweredIsAudited ==
    \A r \in Reqs :
        stage[r] = "answered" /\ status[r] \notin {401, 429, 500}
        /\ env.auditLog # "off" /\ r \notin unwritten =>
            \E e \in audit :
                /\ e.req = r /\ e.status = status[r]
                /\ IF Listed(<<env.token>> \o env.tokens) # {}
                   THEN e.identity = call[r].token
                   ELSE e.identity = call[r].peer \/ ToLower(env.trustProxy) \in OnWords

\* A call to an API server that never answers still ends, and so does a process
\* that was told to stop: the client timeout (rest_client.go:76) and the Shutdown
\* timeout (main.go:117) see to it.
CallEnds ==
    /\ \A r \in Reqs : (stage[r] = "calling") ~> (stage[r] \in {"answered", "lost"})
    /\ (proc = "stopping") ~> (proc \in {"exited", "killed"})

\* main.go:94-96: a signal "triggers a graceful shutdown so in-flight requests
\* and the audit writer get to finish".
InFlightFinish == proc = "exited" => \A r \in Reqs : stage[r] # "lost"
=============================================================================
