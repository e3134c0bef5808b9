---------------------------- MODULE GatewayProofs ----------------------------
(***************************************************************************)
(* Proofs about Gateway, for any number of requests, any set of raw        *)
(* settings and any calls: what an answer says of the cluster, who is in   *)
(* the audit log, that a parked mutation can be approved, that every       *)
(* control that is set is on, and that a mutation lands on the cluster the *)
(* caller named.  The lemmas on GatewayConfig say what a configuration     *)
(* that did not fail holds; IInv says by what right each request got where *)
(* it is, and Delivery to which address its mutation went.                 *)
(***************************************************************************)
EXTENDS Gateway, TLAPS, FiniteSetTheorems, WellFoundedInduction, NaturalsInduction

\* The first of three gates that does not open gives the code.
LEMMA ThreeGates ==
    ASSUME NEW p1, NEW p2, NEW p3, NEW c1, NEW c2, NEW c3,
           NEW f, f = FirstFailure(<<Gate(p1, c1), Gate(p2, c2), Gate(p3, c3)>>)
    PROVE  \/ p1 /\ p2 /\ p3 /\ f = 0
           \/ ~(p1 /\ p2 /\ p3) /\ f \in {c1, c2, c3}
<1> DEFINE gates == <<Gate(p1, c1), Gate(p2, c2), Gate(p3, c3)>>
           failing == {i \in DOMAIN gates : ~gates[i].pass}
<1>1. /\ DOMAIN gates = 1..3
      /\ gates[1].pass = p1 /\ gates[2].pass = p2 /\ gates[3].pass = p3
      /\ gates[1].code = c1 /\ gates[2].code = c2 /\ gates[3].code = c3
  BY DEF Gate
<1>2. f = IF failing = {} THEN 0 ELSE gates[Min(failing)].code
  BY DEF FirstFailure
<1> HIDE DEF gates
<1>3. failing \subseteq {1, 2, 3} /\ (failing = {} <=> p1 /\ p2 /\ p3)
  BY <1>1
<1> HIDE DEF failing
<1>4. failing # {} => Min(failing) \in {1, 2, 3}
  <2> SUFFICES ASSUME failing # {} PROVE Min(failing) \in failing
    BY <1>3
  <2>1. \E x \in failing : \A y \in failing : x <= y
    <3>1. 1 <= 1 /\ 1 <= 2 /\ 1 <= 3 /\ 2 <= 2 /\ 2 <= 3 /\ 3 <= 3
      OBVIOUS
    <3>2. CASE 1 \in failing
      BY <1>3, <3>1, <3>2
    <3>3. CASE 1 \notin failing /\ 2 \in failing
      BY <1>3, <3>1, <3>3
    <3>4. CASE 1 \notin failing /\ 2 \notin failing
      BY <1>3, <3>1, <3>4
    <3>5. QED BY <3>2, <3>3, <3>4
  <2>2. QED BY <2>1 DEF Min
<1>5. QED BY <1>1, <1>2, <1>3, <1>4

-----------------------------------------------------------------------------
(* What the settings mean. *)

\* The places of collectTokens hold the tokens that are set, each once.
LEMMA TokensFacts ==
    ASSUME NEW e, e.tokens \in Seq(STRING), e.token \in STRING
    PROVE  /\ {candidates(e)[i] : i \in collectTokens(e)} = Listed(<<e.token>> \o e.tokens)
           /\ collectTokens(e) \subseteq 1..Len(candidates(e))
           /\ \A i, j \in collectTokens(e) : i # j => candidates(e)[i] # candidates(e)[j]
<1>1. PICK s : s = candidates(e)
  OBVIOUS
<1>2. s = <<e.token>> \o e.tokens /\ s \in Seq(STRING) /\ DOMAIN s = 1..Len(s) /\ Len(s) \in Nat
  BY <1>1 DEF candidates
<1>3. collectTokens(e) = {i \in 1..Len(s) : s[i] # "" /\ ~\E j \in 1..(i - 1) : s[j] = s[i]}
  BY <1>1, <1>2 DEF collectTokens, Duplicate
<1>4. Listed(s) = {s[i] : i \in 1..Len(s)} \ {""}
  BY <1>2 DEF Listed, Range
<1>5. ASSUME NEW k \in 1..Len(s), s[k] # ""
      PROVE  \E i \in collectTokens(e) : s[i] = s[k]
  <2> DEFINE T == {i \in 1..Len(s) : s[i] = s[k]}
  <2>1. T \subseteq Nat /\ T # {}
    OBVIOUS
  <2>2. PICK i \in T : \A j \in T : ~(<<j, i>> \in OpToRel(<, Nat))
    <3> HIDE DEF T
    <3>1. QED BY <2>1, WFMin, NatLessThanWellFounded, Zenon
  <2>3. i \in 1..Len(s) /\ s[i] = s[k] /\ i \in Nat
    BY <2>1
  <2>4. \A j \in T : ~(j < i)
    <3> SUFFICES ASSUME NEW j \in T, j < i PROVE FALSE
      OBVIOUS
    <3>1. <<j, i>> \in OpToRel(<, Nat)
      BY <2>1, <2>3 DEF OpToRel
    <3>2. QED BY <2>2, <3>1
  <2>5. ~\E j \in 1..(i - 1) : s[j] = s[i]
    BY <1>2, <2>3, <2>4
  <2>6. QED BY <1>3, <1>5, <2>3, <2>5
<1>6. {s[i] : i \in collectTokens(e)} = Listed(s)
  <2>1. ASSUME NEW i \in collectTokens(e) PROVE s[i] \in Listed(s)
    BY <1>3, <1>4
  <2>2. ASSUME NEW t \in Listed(s) PROVE \E i \in collectTokens(e) : t = s[i]
    <3>1. PICK k \in 1..Len(s) : t = s[k] /\ s[k] # ""
      BY <1>4
    <3>2. QED BY <1>5, <3>1
  <2>3. QED BY <2>1, <2>2
<1>7. \A i, j \in collectTokens(e) : i # j => s[i] # s[j]
  <2>1. \A i \in collectTokens(e) : i \in 1..Len(s) /\ ~\E k \in 1..(i - 1) : s[k] = s[i]
    BY <1>3, Zenon
  <2>2. \A i \in 1..Len(s) : i \in Nat /\ 1 <= i
    BY <1>2
  <2>3. ASSUME NEW i \in collectTokens(e), NEW j \in collectTokens(e), i < j
        PROVE  s[i] # s[j]
    <3>1. i \in Nat /\ j \in Nat /\ 1 <= i
      BY <2>1, <2>2
    <3>2. i \in 1..(j - 1)
      BY <2>3, <3>1
    <3>3. QED BY <2>1, <3>2
  <2>4. \A i, j \in collectTokens(e) : i = j \/ i < j \/ j < i
    <3> SUFFICES ASSUME NEW i \in collectTokens(e), NEW j \in collectTokens(e)
                 PROVE  i = j \/ i < j \/ j < i
      OBVIOUS
    <3>1. i \in Nat /\ j \in Nat
      BY <2>1, <2>2
    <3>2. QED BY <3>1
  <2>5. QED BY <2>3, <2>4
<1>8. QED BY <1>1, <1>2, <1>3, <1>6, <1>7

\* What buildApprovalPolicy is given, and asks for.
Words(e) == e.tokens \in Seq(STRING) /\ e.token \in STRING

Several(T) == ~(Cardinality(T) < 2)

\* Two of them are never one person's.
LEMMA TwoTokens ==
    ASSUME NEW e, Words(e), Several(collectTokens(e))
    PROVE  \E t, u \in Listed(candidates(e)) : t # u
<1> USE DEF Words, Several
<1>1. PICK T : T = collectTokens(e)
  OBVIOUS
<1>2. IsFiniteSet(T)
  <2>1. candidates(e) \in Seq(STRING)
    BY DEF candidates
  <2>2. Len(candidates(e)) \in Nat
    BY <2>1
  <2>3. IsFiniteSet(1..Len(candidates(e)))
    BY <2>2, FS_Interval
  <2>4. QED BY <1>1, <2>3, TokensFacts, FS_Subset
<1>3. \E i, j \in T : i # j
  <2>1. SUFFICES ASSUME \A i, j \in T : i = j PROVE FALSE
    OBVIOUS
  <2>2. CASE T = {}
    <3>1. Cardinality(T) = 0
      BY <2>2, FS_EmptySet
    <3>2. QED BY <1>1, <3>1
  <2>3. CASE T # {}
    <3>1. PICK i \in T : TRUE
      BY <2>3
    <3>2. T = {i}
      BY <2>1, <3>1
    <3>3. Cardinality(T) = 1
      BY <3>2, FS_Singleton
    <3>4. QED BY <1>1, <3>3
  <2>4. QED BY <2>2, <2>3
<1>4. PICK i, j \in T : i # j
  BY <1>3
<1>5. candidates(e)[i] # candidates(e)[j]
  BY <1>1, <1>4, TokensFacts
<1>6. /\ candidates(e)[i] \in Listed(candidates(e))
      /\ candidates(e)[j] \in Listed(candidates(e))
  <2>1. /\ candidates(e)[i] \in {candidates(e)[k] : k \in collectTokens(e)}
        /\ candidates(e)[j] \in {candidates(e)[k] : k \in collectTokens(e)}
    BY <1>1, <1>4
  <2>2. Listed(candidates(e)) = Listed(<<e.token>> \o e.tokens)
    BY DEF candidates
  <2>3. QED BY <2>1, <2>2, TokensFacts
<1>7. QED BY <1>5, <1>6

\* What a configuration without an error holds.
LEMMA ConfigFacts ==
    ASSUME NEW e, NEW c, c = Configure(e), ~Fatal(c)
    PROVE  /\ c.tokens = {candidates(e)[i] : i \in collectTokens(e)}
           /\ c.limiter = buildLimiter(e) /\ c.limiter # Err
           /\ c.trust = envBool(e.trustProxy) /\ c.trust # Err
           /\ c.scale = buildScalePolicy(e) /\ c.scale # Err
           /\ c.node = buildNodePolicy(e) /\ c.node # Err
           /\ c.approvals = buildApprovalPolicy(e, collectTokens(e)) /\ c.approvals # Err
           /\ c.audit = buildAuditSink(e)
           /\ c.tls = buildTLS(e) /\ c.tls # Err
  BY DEF Configure, Fatal

\* A number that is accepted means what it says, and no number is 0.
LEMMA NumberFacts ==
    ASSUME NEW raw, envNumber(raw) # Err
    PROVE  \/ raw = Blank /\ envNumber(raw) = 0
           \/ raw # Blank /\ raw # Garbled /\ raw >= 0 /\ envNumber(raw) = raw
  BY DEF envNumber

LEMMA ScalePolicyFacts ==
    ASSUME NEW e, NEW p, p = buildScalePolicy(e), p # Err
    PROVE  /\ p.maxReplicas = envNumber(e.maxReplicas) /\ envNumber(e.maxReplicas) # Err
           /\ p.namespaces = Listed(e.namespaces)
  BY DEF buildScalePolicy, splitCSV, Listed

LEMMA NodePolicyFacts ==
    ASSUME NEW e, NEW p, p = buildNodePolicy(e), p # Err
    PROVE  /\ p.allowed = Listed(e.nodes) /\ p.protected = Listed(e.protected)
           /\ ~p.disableDrain => ToLower(e.disableDrain) \in OffWords
  BY DEF buildNodePolicy, splitCSV, Listed, envBool

LEMMA ApprovalPolicyFacts ==
    ASSUME NEW e, NEW p, NEW tokens, p = buildApprovalPolicy(e, tokens), p # Err
    PROVE  /\ p = {ToLower(op) : op \in Listed(e.requireApproval)}
           /\ p \subseteq {"scale", "restart", "cordon", "drain"}
           /\ p # {} => ~(Cardinality(tokens) < 2)
  BY DEF buildApprovalPolicy, splitCSV, Listed

-----------------------------------------------------------------------------
(* The inductive invariant. *)

Stages == {"idle", "calling", "replied", "audited", "answered", "lost"}
Codes  == {0, 200, 202, 400, 401, 403, 404, 429, 500, 501, 502}

Configured == cfg = Configure(env) /\ ~Fatal(cfg)

Passed(c, q) == tokenAccepted(c, q) /\ Policy(c)!WellFormed(q) /\ Policy(c)!PolicyAllows(q)

\* What a status that is known says of the mutation, and no later step revokes.
Told(code, state, who) ==
    /\ code = 200 => state = "applied"
    /\ code \in {400, 401, 403, 404, 429, 501} => state \in {"none", "refused"} /\ who = Err
    /\ code = 202 => \/ state = "applied" /\ who = Err
                     \/ state = "none" /\ who # Err

\* Each request, by its stage: what happened to its mutation and by what right.
Standing(r) ==
    /\ stage[r] = "idle" => effect[r].state = "none" /\ parked[r] = Err
    /\ stage[r] # "idle" => Configured /\ call[r] \in Calls
    /\ stage[r] = "calling" => effect[r].state \in {"sent", "applied"} /\ parked[r] = Err
    /\ stage[r] \in {"replied", "audited", "answered"} =>
         Told(status[r], effect[r].state, parked[r])
    /\ stage[r] \in {"audited", "answered"} /\ status[r] \notin {401, 429, 500} =>
         cfg.audit = "off" \/ r \in unwritten \/ Entry(r) \in audit
    /\ Took(r) => Passed(cfg, call[r])
    /\ Inline(r) => ~Parks(cfg, call[r])
    /\ parked[r] # Err => Parks(cfg, call[r])

Shapes ==
    /\ env \in Environments
    /\ stage \in [Reqs -> Stages] /\ status \in [Reqs -> Codes]
    /\ DOMAIN call = Reqs /\ DOMAIN effect = Reqs /\ DOMAIN parked = Reqs
    /\ \A r \in Reqs : "state" \in DOMAIN effect[r]

IInv ==
    /\ Shapes
    /\ proc = "booting" => \A r \in Reqs : stage[r] = "idle"
    /\ proc \in {"serving", "stopping"} => Configured
    /\ \A r \in Reqs : Standing(r)

\* A request that a step leaves alone, or that dies with the process.
LEMMA Unmoved ==
    ASSUME NEW r \in Reqs, Standing(r), cfg' = cfg, env' = env, audit \subseteq audit',
           unwritten \subseteq unwritten',
           \/ stage'[r] = stage[r]
           \/ stage[r] # "idle" /\ stage'[r] = "lost",
           call'[r] = call[r], effect'[r] = effect[r], status'[r] = status[r],
           parked'[r] = parked[r]
    PROVE  Standing(r)'
<1>1. /\ Took(r)' <=> Took(r)
      /\ Inline(r)' <=> Inline(r)
      /\ Configured' <=> Configured
  BY DEF Took, Inline, Configured, Configure, Fatal
<1>2. Entry(r)' = Entry(r)
  BY DEF Entry
<1>3. Passed(cfg', call'[r]) = Passed(cfg, call[r]) /\ Parks(cfg', call'[r]) = Parks(cfg, call[r])
  OBVIOUS
<1>4. QED
  BY <1>1, <1>2, <1>3 DEF Standing, Told

\* The other requests in a step of one.
Others(r) ==
    \A s \in Reqs : s # r => /\ stage'[s] = stage[s] /\ call'[s] = call[s]
                             /\ effect'[s] = effect[s] /\ status'[s] = status[s]
                             /\ parked'[s] = parked[s]

\* A step of one request.
LEMMA OneMoves ==
    ASSUME IInv, NEW r \in Reqs, proc # "booting", UNCHANGED <<env, cfg, proc>>,
           audit \subseteq audit', unwritten \subseteq unwritten', Shapes', Standing(r)',
           Others(r)
    PROVE  IInv'
<1>1. ASSUME NEW s \in Reqs PROVE Standing(s)'
  <2>1. CASE s = r
    BY <2>1
  <2>2. CASE s # r
    <3>1. Standing(s) /\ cfg' = cfg /\ env' = env
      BY DEF IInv
    <3>2. /\ stage'[s] = stage[s] /\ call'[s] = call[s] /\ effect'[s] = effect[s]
          /\ status'[s] = status[s] /\ parked'[s] = parked[s]
      BY <2>2 DEF Others
    <3>3. QED BY <3>1, <3>2, Unmoved
  <2>3. QED BY <2>1, <2>2
<1>2. Configured' <=> Configured
  BY DEF Configured, Configure, Fatal
<1>3. QED BY <1>1, <1>2 DEF IInv

\* What a request that has arrived was checked for.
LEMMA GateFacts ==
    ASSUME NEW c, NEW q, NEW front, front = FirstFailure(Gates(c, q))
    PROVE  \/ front = 0 /\ Passed(c, q)
           \/ front \in {400, 401, 403}
  BY ThreeGates DEF Gates, Passed

LEMMA BackendGateFacts ==
    ASSUME NEW c, NEW q, NEW back, back = FirstFailure(BackendGates(c, q))
    PROVE  back \in {0, 400, 404, 501}
  BY ThreeGates DEF BackendGates

\* A mutation that is parked waits for somebody.
LEMMA IdentityFacts ==
    ASSUME NEW c, NEW q \in Calls
    PROVE  identity(c, q) # Err
<1>1. /\ q.token \in STRING /\ q.peer \in STRING /\ q.forwarded \in Seq(STRING)
      /\ Err \notin STRING
  BY GatewayAssumption
<1>2. q.forwarded # <<>> => Last(q.forwarded) \in STRING
  BY <1>1 DEF Last
<1>3. QED BY <1>1, <1>2 DEF identity, clientIP

-----------------------------------------------------------------------------
(* The steps. *)

\* Where the handler leaves a request that has just arrived.
LEMMA Arrived ==
    ASSUME IInv, NEW r \in Reqs, NEW q \in Calls, proc = "serving",
           UNCHANGED process, UNCHANGED <<audit, unwritten>>, Shapes', Others(r), call'[r] = q,
           stage'[r] \in {"calling", "replied", "audited"},
           stage'[r] = "calling" => effect'[r].state \in {"sent", "applied"} /\ parked'[r] = Err,
           stage'[r] # "calling" => Told(status'[r], effect'[r].state, parked'[r]),
           stage'[r] = "audited" => status'[r] \in {401, 429, 500},
           effect'[r].state # "none" \/ parked'[r] # Err => Passed(cfg, q),
           effect'[r].state # "none" => ~Parks(cfg, q),
           parked'[r] # Err => Parks(cfg, q)
    PROVE  IInv'
<1>1. Configured /\ UNCHANGED <<env, cfg, proc>> /\ proc # "booting"
      /\ audit \subseteq audit' /\ unwritten \subseteq unwritten'
  BY DEF IInv, process
<1>2. Configured'
  BY <1>1 DEF Configured
<1>3. Took(r)' => Passed(cfg, call[r])'
  <2>1. Took(r)' => Passed(cfg, q)
    BY DEF Took
  <2>2. QED BY <1>1, <2>1
<1>4. Inline(r)' => ~Parks(cfg, call[r])'
  <2>1. Inline(r)' => ~Parks(cfg, q)
    BY DEF Inline
  <2>2. QED BY <1>1, <2>1
<1>5. parked'[r] # Err => Parks(cfg, call[r])'
  BY <1>1
<1>6. Standing(r)'
  BY <1>2, <1>3, <1>4, <1>5 DEF Standing, Told
<1>7. QED BY <1>1, <1>6, OneMoves

LEMMA ArriveIInv ==
    ASSUME IInv, NEW r \in Reqs, NEW q \in Calls, Arrive(r, q)
    PROVE  IInv'
<1>1. PICK front, back : front = FirstFailure(Gates(cfg, q))
                         /\ back = FirstFailure(BackendGates(cfg, q))
  OBVIOUS
<1>2. /\ proc = "serving" /\ stage[r] = "idle" /\ UNCHANGED process
      /\ call' = [call EXCEPT ![r] = q]
      /\ \/ cfg.limiter /\ AnswerUnaudited(r, 429)
         \/ front = 401 /\ AnswerUnaudited(r, 401)
         \/ front \notin {0, 401} /\ Refuse(r, front)
         \/ front = 0 /\ Parks(cfg, q) /\ Park(r, q)
         \/ front = 0 /\ ~Parks(cfg, q) /\ back # 0 /\ Refuse(r, back)
         \/ /\ front = 0 /\ ~Parks(cfg, q) /\ back = 0
            /\ Execute(r, q) \/ AnswerUnaudited(r, 500)
  BY <1>1 DEF Arrive
<1>3. /\ front = 0 => Passed(cfg, q)
      /\ front \in {0, 400, 401, 403} /\ back \in {0, 400, 404, 501}
  BY <1>1, GateFacts, BackendGateFacts
<1>4. /\ Shapes /\ env' = env /\ effect[r].state = "none" /\ parked[r] = Err
  BY <1>2 DEF IInv, Standing, process
<1>5. call'[r] = q /\ DOMAIN call' = Reqs /\ \A s \in Reqs : s # r => call'[s] = call[s]
  BY <1>2, <1>4 DEF Shapes
<1>6. ASSUME NEW code \in {400, 401, 403, 404, 429, 500, 501}
      PROVE  code \in Codes /\ Told(code, "none", Err)
  BY DEF Codes, Told
<1>7. ASSUME NEW code \in {400, 401, 403, 404, 429, 500, 501}, Shapes', Others(r),
             stage'[r] \in {"replied", "audited"}, status'[r] = code,
             UNCHANGED <<effect, parked, audit, unwritten>>,
             stage'[r] = "audited" => code \in {401, 429, 500}
      PROVE  IInv'
  <2>1. effect'[r].state = "none" /\ parked'[r] = Err
    BY <1>4, <1>7
  <2>2. Told(status'[r], effect'[r].state, parked'[r])
    BY <1>6, <1>7, <2>1
  <2>3. QED BY <1>2, <1>5, <1>7, <2>1, <2>2, Arrived
<1>8. ASSUME NEW code \in {401, 429, 500}, AnswerUnaudited(r, code)
      PROVE  IInv'
  <2>1. /\ stage' = [stage EXCEPT ![r] = "audited"] /\ status' = [status EXCEPT ![r] = code]
        /\ UNCHANGED <<effect, parked, audit, unwritten>>
    BY <1>8 DEF AnswerUnaudited
  <2>2. code \in {400, 401, 403, 404, 429, 500, 501} /\ code \in Codes
    BY DEF Codes
  <2>3. Shapes'
    BY <1>4, <1>5, <2>1, <2>2 DEF Shapes, Stages
  <2>4. Others(r) /\ stage'[r] = "audited" /\ status'[r] = code
    BY <1>4, <1>5, <2>1 DEF Others, Shapes
  <2>5. QED BY <1>7, <2>1, <2>2, <2>3, <2>4
<1>9. ASSUME NEW code \in {400, 403, 404, 501}, Refuse(r, code)
      PROVE  IInv'
  <2>1. /\ stage' = [stage EXCEPT ![r] = "replied"] /\ status' = [status EXCEPT ![r] = code]
        /\ UNCHANGED <<effect, parked, audit, unwritten>>
    BY <1>9 DEF Refuse, Reply
  <2>2. code \in {400, 401, 403, 404, 429, 500, 501} /\ code \in Codes
    BY DEF Codes
  <2>3. Shapes'
    BY <1>4, <1>5, <2>1, <2>2 DEF Shapes, Stages
  <2>4. Others(r) /\ stage'[r] = "replied" /\ status'[r] = code
    BY <1>4, <1>5, <2>1 DEF Others, Shapes
  <2>5. QED BY <1>7, <2>1, <2>2, <2>3, <2>4
<1>10. ASSUME front = 0, Parks(cfg, q), Park(r, q)
       PROVE  IInv'
  <2>1. PICK id : id = identity(cfg, q)
    OBVIOUS
  <2>2. /\ stage' = [stage EXCEPT ![r] = "replied"] /\ status' = [status EXCEPT ![r] = 202]
        /\ UNCHANGED <<audit, unwritten, effect>> /\ parked' = [parked EXCEPT ![r] = id]
    BY <1>10, <2>1 DEF Park, Reply
  <2>3. id # Err /\ 202 \in Codes /\ Told(202, "none", id)
    BY <2>1, IdentityFacts DEF Codes, Told
  <2>4. stage'[r] = "replied" /\ status'[r] = 202 /\ effect'[r].state = "none" /\ parked'[r] = id
    BY <1>4, <2>2 DEF Shapes
  <2>5. Shapes'
    BY <1>4, <1>5, <2>2, <2>3 DEF Shapes, Stages
  <2>6. Others(r)
    BY <1>4, <1>5, <2>2 DEF Others, Shapes
  <2>7. Told(status'[r], effect'[r].state, parked'[r])
    BY <2>3, <2>4
  <2>8. QED BY <1>2, <1>3, <1>5, <1>10, <2>2, <2>4, <2>5, <2>6, <2>7, Arrived
<1>11. ASSUME front = 0, ~Parks(cfg, q), Execute(r, q)
       PROVE  IInv'
  <2> DEFINE New(state) == [state |-> state, server |-> Route(cfg, q).server,
                            token |-> Route(cfg, q).token]
  <2>1. UNCHANGED <<audit, unwritten, parked>>
    BY <1>11 DEF Execute
  <2>2. CASE q.op = "drain"
    <3>1. PICK n : n = New("applied")
      OBVIOUS
    <3>2. n.state = "applied" /\ "state" \in DOMAIN n
      BY <3>1
    <3>3. /\ effect' = [effect EXCEPT ![r] = n]
          /\ stage' = [stage EXCEPT ![r] = "replied"] /\ status' = [status EXCEPT ![r] = 202]
      BY <1>11, <2>2, <3>1 DEF Execute, Reply
    <3>4. 202 \in Codes /\ Told(202, "applied", Err)
      BY DEF Codes, Told
    <3>5. stage'[r] = "replied" /\ status'[r] = 202 /\ effect'[r] = n /\ parked'[r] = Err
      BY <1>4, <2>1, <3>3 DEF Shapes
    <3>6. Shapes'
      BY <1>4, <1>5, <2>1, <3>2, <3>3, <3>4 DEF Shapes, Stages
    <3>7. Others(r)
      BY <1>4, <1>5, <2>1, <3>3 DEF Others, Shapes
    <3>8. Told(status'[r], effect'[r].state, parked'[r])
      BY <3>2, <3>4, <3>5
    <3>9. QED BY <1>2, <1>3, <1>5, <1>11, <2>1, <3>2, <3>5, <3>6, <3>7, <3>8, Arrived
  <2>3. CASE q.op # "drain"
    <3>1. PICK n : n = New("sent")
      OBVIOUS
    <3>2. n.state = "sent" /\ "state" \in DOMAIN n
      BY <3>1
    <3>3. /\ effect' = [effect EXCEPT ![r] = n]
          /\ stage' = [stage EXCEPT ![r] = "calling"] /\ status' = status
      BY <1>11, <2>3, <3>1 DEF Execute
    <3>4. stage'[r] = "calling" /\ effect'[r] = n /\ parked'[r] = Err
      BY <1>4, <2>1, <3>3 DEF Shapes
    <3>5. Shapes'
      BY <1>4, <1>5, <2>1, <3>2, <3>3 DEF Shapes, Stages
    <3>6. Others(r)
      BY <1>4, <1>5, <2>1, <3>3 DEF Others, Shapes
    <3>7. QED BY <1>2, <1>3, <1>5, <1>11, <2>1, <3>2, <3>4, <3>5, <3>6, Arrived
  <2>4. QED BY <2>2, <2>3
<1>12. QED BY <1>2, <1>3, <1>8, <1>9, <1>10, <1>11

\* A request that was taken up moves on; its call and its right to it stay.
LEMMA Moved ==
    ASSUME IInv, NEW r \in Reqs, stage[r] # "idle", UNCHANGED <<env, cfg, proc>>,
           audit \subseteq audit', unwritten \subseteq unwritten', Shapes', Others(r),
           call' = call, parked' = parked, stage'[r] # "idle",
           effect'[r].state # "none" => effect[r].state # "none",
           stage'[r] = "calling" => effect'[r].state \in {"sent", "applied"} /\ parked[r] = Err,
           stage'[r] \in {"replied", "audited", "answered"} =>
               Told(status'[r], effect'[r].state, parked[r]),
           stage'[r] \in {"audited", "answered"} /\ status'[r] \notin {401, 429, 500} =>
               cfg.audit = "off" \/ r \in unwritten' \/ Entry(r)' \in audit'
    PROVE  IInv'
<1>1. Standing(r) /\ proc # "booting"
  BY DEF IInv
<1>2. Configured /\ call[r] \in Calls
  BY <1>1 DEF Standing
<1>3. Configured'
  BY <1>2 DEF Configured, Configure, Fatal
<1>4. Took(r)' => Passed(cfg, call[r])'
  <2>1. Took(r)' => Took(r)
    BY DEF Took
  <2>2. QED BY <1>1, <2>1 DEF Standing
<1>5. Inline(r)' => ~Parks(cfg, call[r])'
  <2>1. Inline(r)' => Inline(r)
    BY DEF Inline
  <2>2. QED BY <1>1, <2>1 DEF Standing
<1>6. parked'[r] # Err => Parks(cfg, call[r])'
  BY <1>1 DEF Standing
<1>7. Standing(r)'
  BY <1>2, <1>3, <1>4, <1>5, <1>6 DEF Standing
<1>8. QED BY <1>1, <1>7, OneMoves

\* The API server does it, whoever still waits for the answer.
LEMMA AppliedIInv ==
    ASSUME IInv, NEW r \in Reqs, Applied(r)
    PROVE  IInv'
<1>1. /\ effect[r].state = "sent" /\ effect' = [effect EXCEPT ![r].state = "applied"]
      /\ UNCHANGED <<env, cfg, proc, stage, call, status, parked, audit, unwritten>>
  BY DEF Applied, process
<1>2. Shapes /\ Standing(r)
  BY DEF IInv
<1>3. /\ effect'[r].state = "applied" /\ "state" \in DOMAIN effect'[r] /\ DOMAIN effect' = Reqs
      /\ \A s \in Reqs : s # r => effect'[s] = effect[s]
  BY <1>1, <1>2 DEF Shapes
<1>4. Shapes'
  BY <1>1, <1>2, <1>3 DEF Shapes
<1>5. Others(r)
  BY <1>1, <1>3 DEF Others
<1>6. stage[r] # "idle"
  BY <1>1, <1>2 DEF Standing
<1>7. stage[r] = "calling" => parked[r] = Err
  BY <1>2 DEF Standing
<1>8. stage[r] \in {"replied", "audited", "answered"} => Told(status[r], "applied", parked[r])
  BY <1>1, <1>2 DEF Standing, Told
<1>9. Entry(r)' = Entry(r)
  BY <1>1 DEF Entry
<1>10. stage[r] \in {"audited", "answered"} /\ status[r] \notin {401, 429, 500} =>
           cfg.audit = "off" \/ r \in unwritten \/ Entry(r) \in audit
  BY <1>2 DEF Standing
<1>11. QED BY <1>1, <1>3, <1>4, <1>5, <1>6, <1>7, <1>8, <1>9, <1>10, Moved

\* The handler has an answer to a call; what it will say fits what is known.
LEMMA ReplyIInv ==
    ASSUME IInv, NEW r \in Reqs, NEW code \in Codes, stage[r] = "calling", Reply(r, code),
           UNCHANGED <<process, call, parked, audit, unwritten>>, DOMAIN effect' = Reqs,
           "state" \in DOMAIN effect'[r], \A s \in Reqs : s # r => effect'[s] = effect[s],
           Told(code, effect'[r].state, Err)
    PROVE  IInv'
<1>1. Shapes /\ Standing(r)
  BY DEF IInv
<1>2. effect[r].state # "none" /\ parked[r] = Err
  BY <1>1 DEF Standing
<1>3. /\ stage' = [stage EXCEPT ![r] = "replied"] /\ status' = [status EXCEPT ![r] = code]
      /\ UNCHANGED <<env, cfg, proc>>
  BY DEF Reply, process
<1>4. stage'[r] = "replied" /\ status'[r] = code
  BY <1>1, <1>3 DEF Shapes
<1>5. Shapes'
  BY <1>1, <1>3 DEF Shapes, Stages
<1>6. Others(r)
  BY <1>1, <1>3 DEF Others, Shapes
<1>7. QED BY <1>2, <1>3, <1>4, <1>5, <1>6, Moved

LEMMA CallIInv ==
    ASSUME IInv, NEW r \in Reqs,
           \/ Succeeds(r) \/ TimesOut(r)
           \/ \E code \in Rejections : Refused(r, code)
           \/ \E code \in {0, 500} : Fails(r, code)
    PROVE  IInv'
<1>1. Shapes /\ DOMAIN effect = Reqs /\ "state" \in DOMAIN effect[r]
  BY DEF IInv, Shapes
<1>2. CASE Succeeds(r)
  <2>1. /\ stage[r] = "calling" /\ effect[r].state = "applied" /\ Reply(r, 200)
        /\ UNCHANGED <<process, call, effect, parked, audit, unwritten>>
    BY <1>2 DEF Succeeds, Calling
  <2>2. 200 \in Codes /\ Told(200, "applied", Err)
    BY DEF Codes, Told
  <2>3. QED BY <1>1, <2>1, <2>2, ReplyIInv
<1>3. ASSUME NEW code \in {0, 500}, stage[r] = "calling",
             Reply(r, backendErrStatus(mutationErr(code))),
             UNCHANGED <<process, call, effect, parked, audit, unwritten>>
      PROVE  IInv'
  <2>1. backendErrStatus(mutationErr(code)) = 502
    BY DEF mutationErr, backendErrStatus
  <2>2. 502 \in Codes /\ Told(502, effect[r].state, Err)
    BY DEF Codes, Told
  <2>3. Reply(r, 502)
    BY <1>3, <2>1
  <2>4. QED BY <1>1, <1>3, <2>2, <2>3, ReplyIInv
<1>4. CASE TimesOut(r)
  <2>1. /\ stage[r] = "calling" /\ Reply(r, backendErrStatus(mutationErr(0)))
        /\ UNCHANGED <<process, call, effect, parked, audit, unwritten>>
    BY <1>4 DEF TimesOut, Calling
  <2>2. QED BY <1>3, <2>1
<1>5. ASSUME NEW code \in {0, 500}, Fails(r, code) PROVE IInv'
  BY <1>3, <1>5 DEF Fails, Calling
<1>6. ASSUME NEW code \in Rejections, Refused(r, code) PROVE IInv'
  <2>1. PICK st : st = backendErrStatus(mutationErr(code))
    OBVIOUS
  <2>2. st \in {400, 404, 502}
    BY <2>1 DEF mutationErr, backendErrStatus
  <2>3. st \in Codes /\ Told(st, "refused", Err)
    BY <2>2 DEF Codes, Told
  <2>4. /\ stage[r] = "calling" /\ Reply(r, st)
        /\ effect' = [effect EXCEPT ![r].state = "refused"]
        /\ UNCHANGED <<process, call, parked, audit, unwritten>>
    BY <1>6, <2>1 DEF Refused, Calling
  <2>5. /\ effect'[r].state = "refused" /\ "state" \in DOMAIN effect'[r]
        /\ DOMAIN effect' = Reqs /\ \A s \in Reqs : s # r => effect'[s] = effect[s]
    BY <1>1, <2>4
  <2>6. QED BY <2>3, <2>4, <2>5, ReplyIInv
<1>7. QED BY <1>2, <1>4, <1>5, <1>6

\* Nothing is said of a mutation whose backend call panicked.
LEMMA PanicIInv ==
    ASSUME IInv, NEW r \in Reqs, Panics(r)
    PROVE  IInv'
<1>1. Shapes /\ Standing(r)
  BY DEF IInv
<1>2. /\ stage[r] = "calling" /\ stage' = [stage EXCEPT ![r] = "audited"]
      /\ status' = [status EXCEPT ![r] = 500]
      /\ UNCHANGED <<env, cfg, proc, call, effect, parked, audit, unwritten>>
  BY DEF Panics, Calling, AnswerUnaudited, process
<1>3. stage'[r] = "audited" /\ status'[r] = 500
  BY <1>1, <1>2 DEF Shapes
<1>4. Told(500, effect[r].state, parked[r]) /\ 500 \in Codes
  BY DEF Told, Codes
<1>5. Shapes'
  BY <1>1, <1>2, <1>4 DEF Shapes, Stages
<1>6. Others(r)
  BY <1>1, <1>2 DEF Others, Shapes
<1>7. QED BY <1>2, <1>3, <1>4, <1>5, <1>6, Moved

LEMMA AuditIInv ==
    ASSUME IInv, NEW r \in Reqs, Audit(r)
    PROVE  IInv'
<1>1. Shapes /\ Standing(r)
  BY DEF IInv
<1>2. /\ stage[r] = "replied" /\ stage' = [stage EXCEPT ![r] = "audited"]
      /\ \/ cfg.audit = "off" /\ UNCHANGED <<audit, unwritten>>
         \/ audit' = audit \cup {Entry(r)} /\ UNCHANGED unwritten
         \/ unwritten' = unwritten \cup {r} /\ UNCHANGED audit
      /\ UNCHANGED <<env, cfg, proc, call, effect, status, parked>>
  BY DEF Audit, process
<1>3. stage'[r] = "audited" /\ Told(status[r], effect[r].state, parked[r])
  BY <1>1, <1>2 DEF Shapes, Standing
<1>4. Shapes'
  BY <1>1, <1>2 DEF Shapes, Stages
<1>5. Others(r)
  BY <1>1, <1>2 DEF Others, Shapes
<1>6. Entry(r)' = Entry(r)
  BY <1>2 DEF Entry
<1>7. /\ audit \subseteq audit' /\ unwritten \subseteq unwritten'
      /\ cfg.audit = "off" \/ r \in unwritten' \/ Entry(r) \in audit'
  BY <1>2
<1>8. QED BY <1>2, <1>3, <1>4, <1>5, <1>6, <1>7, Moved

LEMMA AnswerIInv ==
    ASSUME IInv, NEW r \in Reqs, Answer(r)
    PROVE  IInv'
<1>1. Shapes /\ Standing(r)
  BY DEF IInv
<1>2. /\ stage[r] = "audited" /\ stage' = [stage EXCEPT ![r] = "answered"]
      /\ UNCHANGED <<env, cfg, proc, call, effect, status, parked, audit, unwritten>>
  BY DEF Answer, Answers, process
<1>3. stage'[r] = "answered" /\ Told(status[r], effect[r].state, parked[r])
  BY <1>1, <1>2 DEF Shapes, Standing
<1>4. Shapes'
  BY <1>1, <1>2 DEF Shapes, Stages
<1>5. Others(r)
  BY <1>1, <1>2 DEF Others, Shapes
<1>6. Entry(r)' = Entry(r)
  BY <1>2 DEF Entry
<1>7. status[r] \notin {401, 429, 500} =>
          cfg.audit = "off" \/ r \in unwritten \/ Entry(r) \in audit
  BY <1>1, <1>2 DEF Standing
<1>8. QED BY <1>2, <1>3, <1>4, <1>5, <1>6, <1>7, Moved

\* The process ends, or only time or the signal moves: no request gains anything.
LEMMA BystandersIInv ==
    ASSUME IInv, UNCHANGED <<env, cfg, call, effect, status, parked, audit, unwritten>>,
           stage' \in [Reqs -> Stages],
           \A r \in Reqs : \/ stage'[r] = stage[r]
                           \/ stage[r] # "idle" /\ stage'[r] = "lost",
           proc' = "booting" => proc = "booting" /\ stage' = stage,
           proc' \in {"serving", "stopping"} => proc \in {"serving", "stopping"}
    PROVE  IInv'
<1>1. Shapes'
  BY DEF IInv, Shapes
<1>2. ASSUME NEW r \in Reqs PROVE Standing(r)'
  BY <1>2, Unmoved DEF IInv
<1>3. Configured' <=> Configured
  BY DEF Configured, Configure, Fatal
<1>4. proc' = "booting" => \A r \in Reqs : stage'[r] = "idle"
  BY DEF IInv
<1>5. proc' \in {"serving", "stopping"} => Configured'
  BY <1>3 DEF IInv
<1>6. QED BY <1>1, <1>2, <1>4, <1>5 DEF IInv

LEMMA ProcessIInv ==
    ASSUME IInv, Signal \/ Shutdown \/ ListenFails \/ Kill \/ Tick \/ UNCHANGED vars
    PROVE  IInv'
<1>1. stage \in [Reqs -> Stages]
  BY DEF IInv, Shapes
<1>2. ASSUME NEW how \in {"fatal", "killed", "exited"}, Ends(how) PROVE IInv'
  <2>1. /\ UNCHANGED <<env, cfg, call, effect, status, parked, audit, unwritten>> /\ proc' = how
        /\ stage' = [r \in Reqs |-> IF r \in InFlight THEN "lost" ELSE stage[r]]
    BY <1>2 DEF Ends
  <2>2. \A r \in InFlight : stage[r] # "idle"
    BY DEF InFlight
  <2>3. stage' \in [Reqs -> Stages]
    BY <1>1, <2>1 DEF Stages
  <2>4. \A r \in Reqs : \/ stage'[r] = stage[r]
                        \/ stage[r] # "idle" /\ stage'[r] = "lost"
    BY <2>1, <2>2
  <2>5. how # "booting" /\ how # "serving" /\ how # "stopping"
    OBVIOUS
  <2>6. QED BY <2>1, <2>3, <2>4, <2>5, BystandersIInv
<1>3. CASE Signal
  BY <1>1, <1>3, BystandersIInv DEF Signal
<1>4. CASE Tick
  BY <1>1, <1>4, BystandersIInv DEF Tick
<1>5. CASE UNCHANGED vars
  BY <1>1, <1>5, BystandersIInv DEF vars
<1>6. CASE Shutdown
  BY <1>2, <1>6 DEF Shutdown
<1>7. CASE ListenFails
  BY <1>2, <1>7 DEF ListenFails
<1>8. CASE Kill
  BY <1>2, <1>8 DEF Kill
<1>9. QED BY <1>3, <1>4, <1>5, <1>6, <1>7, <1>8

\* Nothing has been asked before the settings are read.
LEMMA BootIInv ==
    ASSUME IInv, Boot
    PROVE  IInv'
<1>1. /\ proc = "booting" /\ cfg' = Configure(env) /\ env' = env
      /\ proc' = IF Fatal(cfg') THEN "fatal" ELSE "serving"
      /\ UNCHANGED <<stage, call, effect, status, parked, audit, unwritten>>
  BY DEF Boot
<1>2. Shapes'
  BY <1>1 DEF IInv, Shapes
<1>3. ASSUME NEW r \in Reqs PROVE Standing(r)'
  <2>1. stage[r] = "idle" /\ Standing(r)
    BY <1>1 DEF IInv
  <2>2. effect[r].state = "none" /\ parked[r] = Err
    BY <2>1 DEF Standing
  <2>3. ~Took(r)' /\ ~Inline(r)'
    BY <1>1, <2>2 DEF Took, Inline
  <2>4. QED BY <1>1, <2>1, <2>2, <2>3 DEF Standing
<1>4. proc' \in {"serving", "stopping"} => Configured'
  <2>1. ASSUME ~Fatal(cfg') PROVE Configured'
    <3>1. cfg' = Configure(env')
      BY <1>1
    <3>2. QED BY <2>1, <3>1 DEF Configured, Configure, Fatal
  <2>2. QED BY <1>1, <2>1
<1>5. QED BY <1>1, <1>2, <1>3, <1>4 DEF IInv

LEMMA InitIInv ==
    ASSUME Init
    PROVE  IInv
<1>1. Shapes
  <2>1. /\ DOMAIN call = Reqs /\ DOMAIN effect = Reqs /\ DOMAIN parked = Reqs
        /\ env \in Environments
    BY DEF Init
  <2>2. stage \in [Reqs -> Stages] /\ status \in [Reqs -> Codes]
    BY DEF Init, Stages, Codes
  <2>3. \A r \in Reqs : "state" \in DOMAIN effect[r]
    BY DEF Init, NoEffect
  <2>4. QED BY <2>1, <2>2, <2>3 DEF Shapes
<1>2. ASSUME NEW r \in Reqs PROVE Standing(r)
  <2>1. stage[r] = "idle" /\ effect[r].state = "none" /\ parked[r] = Err
    BY DEF Init, NoEffect
  <2>2. QED BY <2>1 DEF Standing, Took, Inline
<1>3. QED BY <1>1, <1>2 DEF Init, IInv

LEMMA NextIInv ==
    ASSUME IInv, [Next]_vars
    PROVE  IInv'
<1>1. CASE Boot
  BY <1>1, BootIInv
<1>2. CASE Signal \/ Shutdown \/ ListenFails \/ Kill \/ Tick \/ UNCHANGED vars
  BY <1>2, ProcessIInv
<1>3. ASSUME NEW r \in Reqs, NEW q \in Calls, Arrive(r, q) PROVE IInv'
  BY <1>3, ArriveIInv
<1>4. ASSUME NEW r \in Reqs, Applied(r) PROVE IInv'
  BY <1>4, AppliedIInv
<1>5. ASSUME NEW r \in Reqs, Serve(r) PROVE IInv'
  <2>1. CASE Audit(r)
    BY <2>1, AuditIInv
  <2>2. CASE Answer(r)
    BY <2>2, AnswerIInv
  <2>3. CASE Panics(r)
    BY <2>3, PanicIInv
  <2>4. CASE ~Audit(r) /\ ~Answer(r) /\ ~Panics(r)
    <3>1. \/ Succeeds(r) \/ TimesOut(r)
          \/ \E code \in Rejections : Refused(r, code)
          \/ \E code \in {0, 500} : Fails(r, code)
      BY <1>5, <2>4 DEF Serve
    <3>2. QED BY <3>1, CallIInv
  <2>5. QED BY <2>1, <2>2, <2>3, <2>4
<1>6. QED BY <1>1, <1>2, <1>3, <1>4, <1>5 DEF Next

\* Boot, handlers, the API server and shutdown keep IInv.
THEOREM Invariance == Spec => []IInv
<1>1. Init => IInv
  BY InitIInv
<1>2. IInv /\ [Next]_vars => IInv'
  BY NextIInv
<1>3. QED BY <1>1, <1>2, PTL DEF Spec

-----------------------------------------------------------------------------
(* What the invariant says of the answers, the log and the settings. *)

\* An answer never lies about the cluster: 200 only for what mutationErr and the API
\* server left applied, 4xx and 501 only for what never will be, 202 for one of the two.
THEOREM StatusTellsEffectHolds == Spec => []StatusTellsEffect
<1>1. IInv => StatusTellsEffect
  <2> SUFFICES ASSUME IInv, NEW r \in Reqs, stage[r] = "answered"
               PROVE  /\ status[r] = 200 => effect[r].state = "applied"
                      /\ status[r] \in {400, 401, 403, 404, 429, 501} =>
                           effect[r].state \in {"none", "refused"} /\ parked[r] = Err
                      /\ status[r] = 202 => ((effect[r].state = "applied") # (parked[r] # Err))
    BY DEF StatusTellsEffect
  <2>1. Told(status[r], effect[r].state, parked[r])
    BY DEF IInv, Standing
  <2>2. status[r] = 202 => ((effect[r].state = "applied") # (parked[r] # Err))
    BY <2>1 DEF Told
  <2>3. QED BY <2>1, <2>2 DEF Told
<1>2. QED BY <1>1, Invariance, PTL

\* The tokens a configured gateway accepts are the ones that are set.
LEMMA AcceptedTokens ==
    ASSUME IInv, Configured
    PROVE  cfg.tokens = Listed(<<env.token>> \o env.tokens)
<1>1. env.tokens \in Seq(STRING) /\ env.token \in STRING
  BY GatewayAssumption DEF IInv, Shapes
<1>2. cfg.tokens = {candidates(env)[i] : i \in collectTokens(env)}
  BY ConfigFacts DEF Configured
<1>3. QED BY <1>1, <1>2, TokensFacts

\* Whoever has an answer of a handler is in the audit log with it, under the token it
\* sent, or under an address that only a trusted proxy could have chosen (identity,
\* clientIP); except for entries the sink could not write, and without a claim for
\* what middleware answered: 401, 429, and 500 after a panic.
THEOREM AnsweredIsAuditedHolds == Spec => []AnsweredIsAudited
<1>1. IInv => AnsweredIsAudited
  <2> SUFFICES ASSUME IInv, NEW r \in Reqs, stage[r] = "answered",
                      status[r] \notin {401, 429, 500}, env.auditLog # "off", r \notin unwritten
               PROVE  \E e \in audit :
                        /\ e.req = r /\ e.status = status[r]
                        /\ IF Listed(<<env.token>> \o env.tokens) # {}
                           THEN e.identity = call[r].token
                           ELSE e.identity = call[r].peer \/ ToLower(env.trustProxy) \in OnWords
    BY DEF AnsweredIsAudited
  <2>1. Standing(r)
    BY DEF IInv
  <2>2. Configured
    BY <2>1 DEF Standing
  <2>3. /\ cfg.trust = envBool(env.trustProxy) /\ cfg.trust # Err
        /\ cfg.audit = buildAuditSink(env)
    BY <2>2, ConfigFacts DEF Configured
  <2>4. cfg.audit # "off"
    BY <2>3 DEF buildAuditSink
  <2>5. Entry(r) \in audit
    BY <2>1, <2>4 DEF Standing
  <2>6. cfg.trust = TRUE \/ cfg.trust = FALSE
    BY <2>3 DEF envBool
  <2>7. cfg.trust = TRUE => ToLower(env.trustProxy) \in OnWords
    <3> SUFFICES ASSUME ToLower(env.trustProxy) \notin OnWords PROVE cfg.trust # TRUE
      OBVIOUS
    <3>1. cfg.trust \in {FALSE, Err}
      BY <2>3, Zenon DEF envBool
    <3>2. QED BY <2>3, <2>6, <3>1
  <2>8. IF Listed(<<env.token>> \o env.tokens) # {}
        THEN identity(cfg, call[r]) = call[r].token
        ELSE identity(cfg, call[r]) = call[r].peer \/ ToLower(env.trustProxy) \in OnWords
    <3>1. cfg.tokens = Listed(<<env.token>> \o env.tokens)
      BY <2>2, AcceptedTokens
    <3>2. cfg.tokens # {} => identity(cfg, call[r]) = call[r].token
      BY DEF identity
    <3>3. cfg.tokens = {} => identity(cfg, call[r]) = clientIP(cfg, call[r])
      BY DEF identity
    <3>4. cfg.trust = FALSE => clientIP(cfg, call[r]) = call[r].peer
      BY DEF clientIP
    <3>5. clientIP(cfg, call[r]) = call[r].peer \/ ToLower(env.trustProxy) \in OnWords
      BY <2>6, <2>7, <3>4
    <3> HIDE DEF Listed
    <3>6. QED BY <3>1, <3>2, <3>3, <3>5
  <2>9. /\ Entry(r).req = r /\ Entry(r).status = status[r]
        /\ Entry(r).identity = identity(cfg, call[r])
    BY DEF Entry
  <2>10. QED BY <2>5, <2>8, <2>9
<1>2. QED BY <1>1, Invariance, PTL

\* Whatever was parked, some token that is set belongs to another person, because
\* buildApprovalPolicy refuses to gate with fewer than two distinct tokens.
THEOREM ApprovalsCanResolveHolds == Spec => []ApprovalsCanResolve
<1>1. IInv => ApprovalsCanResolve
  <2> SUFFICES ASSUME IInv, NEW r \in Reqs, parked[r] # Err
               PROVE  \E t \in Listed(<<env.token>> \o env.tokens) : t # parked[r]
    BY DEF ApprovalsCanResolve
  <2>1. Standing(r)
    BY DEF IInv
  <2>2. Configured /\ Parks(cfg, call[r])
    BY <2>1 DEF Standing
  <2>3. cfg.approvals = buildApprovalPolicy(env, collectTokens(env)) /\ cfg.approvals # Err
    BY <2>2, ConfigFacts DEF Configured
  <2>4. cfg.approvals # {}
    BY <2>2 DEF Parks, Policy!Parks, Policy!Requires
  <2>5. ~(Cardinality(collectTokens(env)) < 2)
    BY <2>3, <2>4, ApprovalPolicyFacts
  <2>6. env.tokens \in Seq(STRING) /\ env.token \in STRING
    BY GatewayAssumption DEF IInv, Shapes
  <2>7. \E t \in Listed(candidates(env)) : t # parked[r]
    <3>1. Words(env) /\ Several(collectTokens(env))
      BY <2>5, <2>6 DEF Words, Several
    <3>2. \E t, u \in Listed(candidates(env)) : t # u
      BY <3>1, TwoTokens, Zenon
    <3>3. PICK p : p = parked[r]
      OBVIOUS
    <3>4. \E t \in Listed(candidates(env)) : t # p
      BY <3>2
    <3>5. QED BY <3>3, <3>4
  <2>8. QED BY <2>7, Zenon DEF candidates
<1>2. QED BY <1>1, Invariance, PTL

\* buildLimiter: a limiter that runs has both settings, one that does not has neither.
LEMMA LimiterFacts ==
    ASSUME NEW e, {e.rps, e.burst} \subseteq Int \cup {Blank, Garbled},
           NEW on, on = buildLimiter(e), on # Err
    PROVE  /\ on <=> {e.rps, e.burst} \cap {Blank, 0} = {}
           /\ ~on => {e.rps, e.burst} \subseteq {Blank, 0}
<1>1. PICK x, y : x = envNumber(e.rps) /\ y = envNumber(e.burst)
  OBVIOUS
<1>2. x # Err /\ y # Err /\ on = (x > 0) /\ (x > 0) = (y > 0)
  BY <1>1 DEF buildLimiter
<1>3. \/ e.rps = Blank /\ x = 0
      \/ e.rps \in Int /\ e.rps # Blank /\ e.rps >= 0 /\ x = e.rps
  BY <1>1, <1>2, NumberFacts
<1>4. \/ e.burst = Blank /\ y = 0
      \/ e.burst \in Int /\ e.burst # Blank /\ e.burst >= 0 /\ y = e.burst
  BY <1>1, <1>2, NumberFacts
<1>5. (x > 0 <=> e.rps \notin {Blank, 0}) /\ (y > 0 <=> e.burst \notin {Blank, 0})
  BY <1>3, <1>4
<1>6. QED BY <1>2, <1>5

\* buildTLS: encrypted unless certificate and key are missing, and then mutual exactly
\* when a client CA is set.
LEMMA TLSFacts ==
    ASSUME NEW e, NEW tls, tls = buildTLS(e), tls # Err
    PROVE  IF e.tlsCert = "" /\ e.tlsKey = "" THEN tls = "off"
           ELSE IF e.clientCA = "" THEN tls = "tls" ELSE tls = "mtls"
<1>1. CASE e.tlsCert = "" /\ e.tlsKey = ""
  <2>1. tls = "off"
    BY <1>1 DEF buildTLS
  <2>2. QED BY <1>1, <2>1
<1>2. CASE ~(e.tlsCert = "" /\ e.tlsKey = "")
  <2>1. PICK pem \in BOOLEAN : pem <=> {e.tlsCert, e.tlsKey} = {"pem"}
    OBVIOUS
  <2>2. tls = CASE pem /\ e.clientCA = "" -> "tls"
                [] pem /\ e.clientCA = "pem" -> "mtls"
                [] OTHER -> Err
    BY <1>2, <2>1 DEF buildTLS
  <2>3. \/ tls = "tls" /\ e.clientCA = ""
        \/ tls = "mtls" /\ e.clientCA = "pem"
    BY <2>2
  <2>4. QED BY <1>2, <2>3
<1>3. QED BY <1>1, <1>2

\* What is set takes effect, in upper or lower case: main.go refuses to start with a
\* setting it cannot read or that is half set, and no mutation gets past the others.
\* Only a client CA without certificate and key is ignored, as TLSHolds says.
THEOREM SettingsTakeEffectHolds == Spec => []SettingsTakeEffect
<1>1. ASSUME IInv, NEW r \in Reqs
      PROVE  TokensHold(r) /\ ScaleHolds(r) /\ NodesHold(r) /\ ApprovalHolds(r)
  <2>1. Standing(r)
    BY <1>1 DEF IInv
  <2>2. CASE ~Took(r)
    <3>1. ~Inline(r)
      BY <2>2 DEF Took, Inline
    <3>2. QED BY <2>2, <3>1 DEF TokensHold, ScaleHolds, NodesHold, ApprovalHolds
  <2>3. CASE Took(r)
    <3>1. Passed(cfg, call[r]) /\ (Inline(r) => ~Parks(cfg, call[r]))
      BY <2>1, <2>3 DEF Standing
    <3>2. Configured
      BY <2>1, <2>3 DEF Standing, Took
    <3>3. /\ cfg.scale = buildScalePolicy(env) /\ cfg.scale # Err
          /\ cfg.node = buildNodePolicy(env) /\ cfg.node # Err
          /\ cfg.approvals = buildApprovalPolicy(env, collectTokens(env)) /\ cfg.approvals # Err
      BY <3>2, ConfigFacts DEF Configured
    <3>4. TokensHold(r)
      BY <1>1, <3>1, <3>2, AcceptedTokens DEF TokensHold, Passed, tokenAccepted
    <3>5. Policy(cfg)!PolicyAllows(call[r])
      BY <3>1 DEF Passed
    <3>6. ScaleHolds(r)
      <4>1. /\ cfg.scale.maxReplicas = envNumber(env.maxReplicas)
            /\ envNumber(env.maxReplicas) # Err
            /\ cfg.scale.namespaces = Listed(env.namespaces)
        BY <3>3, ScalePolicyFacts
      <4>2. env.maxReplicas \notin {Blank, 0} =>
              env.maxReplicas # Garbled /\ cfg.scale.maxReplicas = env.maxReplicas
        BY <4>1, NumberFacts
      <4>3. call[r].op = "scale" =>
              cfg.scale.maxReplicas = 0 \/ call[r].replicas <= cfg.scale.maxReplicas
        BY <3>5 DEF Policy!PolicyAllows, Policy!Evaluate
      <4>4. call[r].op \in {"scale", "restart"} =>
              cfg.scale.namespaces = {} \/ call[r].namespace \in cfg.scale.namespaces
        BY <3>5 DEF Policy!PolicyAllows, Policy!Evaluate, Policy!EvaluateNamespace
      <4>5. QED BY <4>1, <4>2, <4>3, <4>4 DEF ScaleHolds
    <3>7. NodesHold(r)
      <4>1. /\ cfg.node.allowed = Listed(env.nodes)
            /\ cfg.node.protected = Listed(env.protected)
            /\ ~cfg.node.disableDrain => ToLower(env.disableDrain) \in OffWords
        BY <3>3, NodePolicyFacts
      <4>2. call[r].op \in {"cordon", "drain"} =>
              /\ call[r].target \notin cfg.node.protected
              /\ cfg.node.allowed = {} \/ call[r].target \in cfg.node.allowed
              /\ call[r].op = "drain" => ~cfg.node.disableDrain
        BY <3>5 DEF Policy!PolicyAllows, Policy!EvaluateCordon, Policy!EvaluateDrain,
                    Policy!evaluateNode
      <4>3. QED BY <4>1, <4>2 DEF NodesHold
    <3>8. ApprovalHolds(r)
      <4>1. cfg.approvals = {ToLower(op) : op \in Listed(env.requireApproval)}
            /\ cfg.approvals \subseteq {"scale", "restart", "cordon", "drain"}
        BY <3>3, ApprovalPolicyFacts
      <4>2. Inline(r) => \/ call[r].op = "uncordon"
                         \/ /\ call[r].op \notin cfg.approvals
                            /\ call[r].op = "drain" => "cordon" \notin cfg.approvals
        BY <3>1 DEF Parks, Policy!Parks, Policy!Requires
      <4>3. QED BY <4>1, <4>2 DEF ApprovalHolds
    <3>9. QED BY <3>4, <3>6, <3>7, <3>8
  <2>4. QED BY <2>2, <2>3
<1>2. ASSUME IInv, proc = "serving"
      PROVE  /\ (cfg.limiter <=> {env.rps, env.burst} \cap {Blank, 0} = {})
             /\ ~cfg.limiter => {env.rps, env.burst} \subseteq {Blank, 0}
             /\ TLSHolds
  <2>1. Configured /\ env \in Environments
    BY <1>2 DEF IInv, Shapes
  <2>2. /\ cfg.limiter = buildLimiter(env) /\ cfg.limiter # Err
        /\ cfg.tls = buildTLS(env) /\ cfg.tls # Err
    BY <2>1, ConfigFacts DEF Configured
  <2>3. {env.rps, env.burst} \subseteq Int \cup {Blank, Garbled}
    BY <2>1, GatewayAssumption
  <2>4. /\ (cfg.limiter <=> {env.rps, env.burst} \cap {Blank, 0} = {})
        /\ ~cfg.limiter => {env.rps, env.burst} \subseteq {Blank, 0}
    BY <2>2, <2>3, LimiterFacts
  <2>5. TLSHolds
    BY <2>2, TLSFacts DEF TLSHolds
  <2>6. QED BY <2>4, <2>5
<1>3. IInv => SettingsTakeEffect
  BY <1>1, <1>2 DEF SettingsTakeEffect
<1>4. QED BY <1>3, Invariance, PTL

-----------------------------------------------------------------------------
(* Where a mutation lands: the kubeconfig, its profiles, and the route.     *)

\* Zero is in T and each number up to n follows the one before: induction, by the
\* least number that is missing.
LEMMA Upto ==
    ASSUME NEW n \in Nat, NEW T, 0 \in T, \A i \in 1..n : i - 1 \in T => i \in T
    PROVE  \A i \in 0..n : i \in T
<1> DEFINE Missing == {i \in 0..n : i \notin T}
<1> SUFFICES ASSUME Missing # {} PROVE FALSE
  OBVIOUS
<1>1. Missing \subseteq Nat
  OBVIOUS
<1>2. PICK m \in Missing : \A j \in Missing : ~(<<j, m>> \in OpToRel(<, Nat))
  <2> HIDE DEF Missing
  <2>1. QED BY <1>1, WFMin, NatLessThanWellFounded, Zenon
<1>3. m \in 1..n /\ m - 1 \in 0..n
  OBVIOUS
<1>4. <<m - 1, m>> \in OpToRel(<, Nat)
  BY <1>3 DEF OpToRel
<1>5. m - 1 \in T
  BY <1>2, <1>3, <1>4
<1>6. QED BY <1>3, <1>5

\* f is defined by a step from the value before ...
Steps(n, S, start, step, f) ==
    /\ f \in [0..n -> S] /\ f[0] = start
    /\ \A i \in 1..n : f[i] = step[i][f[i - 1]]

\* ... and such a function exists.
LEMMA Recursion ==
    ASSUME NEW n \in Nat, NEW S, NEW start \in S, NEW step \in [1..n -> [S -> S]]
    PROVE  \E f : Steps(n, S, start, step, f)
<1> DEFINE Eq(m, f) == Steps(m, S, start, step, f)
           T == {m \in 0..n : \E f : Eq(m, f)}
<1>1. 0 \in T
  <2>1. Eq(0, [i \in 0..0 |-> start])
    BY DEF Steps
  <2>2. 0 \in 0..n
    OBVIOUS
  <2> HIDE DEF Eq
  <2>3. QED BY <2>1, <2>2
<1>2. ASSUME NEW m \in 1..n, m - 1 \in T PROVE m \in T
  <2>1. PICK f : Eq(m - 1, f)
    BY <1>2
  <2> DEFINE g == [i \in 0..m |-> IF i = m THEN step[m][f[m - 1]] ELSE f[i]]
  <2>2. f[m - 1] \in S /\ step[m] \in [S -> S]
    BY <2>1 DEF Steps
  <2>3. g \in [0..m -> S] /\ g[0] = start
    BY <2>1, <2>2 DEF Steps
  <2>4. ASSUME NEW i \in 1..m PROVE g[i] = step[i][g[i - 1]]
    <3>1. CASE i = m
      BY <3>1
    <3>2. CASE i # m
      BY <2>1, <3>2 DEF Steps
    <3>3. QED BY <3>1, <3>2
  <2> HIDE DEF g
  <2>5. Eq(m, g)
    BY <2>3, <2>4 DEF Steps
  <2> HIDE DEF Eq
  <2>6. QED BY <2>5
<1>3. n \in T
  <2>1. \A m \in 1..n : m - 1 \in T => m \in T
    BY <1>2
  <2>2. n \in 0..n
    OBVIOUS
  <2> HIDE DEF T
  <2>3. \A i \in 0..n : i \in T
    BY <1>1, <2>1, Upto
  <2>4. QED BY <2>2, <2>3
<1>4. QED BY <1>3

\* The entry First finds is one of that name.
LEMMA FirstFacts ==
    ASSUME NEW entries, NEW name, NEW x, First(entries, name) = {x}
    PROVE  x.name = name
<1> DEFINE I == {i \in 1..Len(entries) : entries[i].name = name}
<1>1. First(entries, name) = IF (IF I # {} THEN Min(I) ELSE 0) = 0 THEN {}
                             ELSE {entries[IF I # {} THEN Min(I) ELSE 0]}
  BY DEF First, SelectInSeq
<1>2. I # {}
  <2> HIDE DEF I
  <2>1. QED BY <1>1
<1>3. I \subseteq Nat
  OBVIOUS
<1>4. PICK m \in I : \A j \in I : ~(<<j, m>> \in OpToRel(<, Nat))
  <2> HIDE DEF I
  <2>1. QED BY <1>2, <1>3, WFMin, NatLessThanWellFounded, Zenon
<1>5. \A j \in I : m <= j
  <2> SUFFICES ASSUME NEW j \in I, j < m PROVE FALSE
    BY <1>3
  <2>1. <<j, m>> \in OpToRel(<, Nat)
    BY <1>3 DEF OpToRel
  <2>2. QED BY <1>4, <2>1
<1>6. Min(I) \in I
  <2> HIDE DEF I
  <2>1. QED BY <1>4, <1>5 DEF Min
<1>7. {x} = {entries[Min(I)]}
  <2>1. Min(I) # 0
    BY <1>6
  <2> HIDE DEF I
  <2>2. QED BY <1>1, <1>2, <2>1
<1>8. QED BY <1>6, <1>7

\* What a resolved cluster is made of.
Sources(doc, name, r) ==
    \E c \in First(doc.contexts, name) :
        /\ r.context = name
        /\ \E s \in First(doc.clusters, c.cluster), u \in First(doc.users, c.user) :
              r.server = s.server /\ r.token = Token(u)

\* Resolve finds a cluster in the entries the context names, and at most one.
LEMMA ResolveFacts ==
    ASSUME NEW doc, NEW name, name # ""
    PROVE  /\ \A r \in Resolve(doc, name) : Sources(doc, name, r)
           /\ \A r, s \in Resolve(doc, name) : r = s
<1> DEFINE R == Range(doc.contexts) \X Range(doc.clusters) \X Range(doc.users)
           joined == {j \in R :
                     /\ name # "" /\ First(doc.contexts, name) = {j[1]}
                     /\ First(doc.clusters, j[1].cluster) = {j[2]}
                     /\ j[2].server # "" /\ Readable(j[2].caData, j[2].caFile)
                     /\ j[1].user # "" /\ First(doc.users, j[1].user) = {j[3]}
                     /\ resolveUser(j[3])}
           Of(j) == [context |-> j[1].name, server |-> j[2].server, insecure |-> j[2].insecure,
                     ca |-> Content(j[2].caData, j[2].caFile),
                     token |-> Token(j[3]), cert |-> Cert(j[3]), key |-> Key(j[3])]
<1>1. Resolve(doc, name) = {Of(j) : j \in joined}
  BY DEF Resolve
<1>2. ASSUME NEW j \in joined PROVE Sources(doc, name, Of(j))
  <2>1. /\ j[1] \in First(doc.contexts, name) /\ j[2] \in First(doc.clusters, j[1].cluster)
        /\ j[3] \in First(doc.users, j[1].user)
    OBVIOUS
  <2>2. j[1].name = name
    <3>1. First(doc.contexts, name) = {j[1]}
      OBVIOUS
    <3> HIDE DEF joined, Of
    <3>2. PICK x, entries : x = j[1] /\ entries = doc.contexts
      OBVIOUS
    <3>3. x.name = name
      BY <3>1, <3>2, FirstFacts, Zenon
    <3>4. QED BY <3>2, <3>3
  <2>3. Of(j).context = j[1].name /\ Of(j).server = j[2].server /\ Of(j).token = Token(j[3])
    OBVIOUS
  <2> HIDE DEF Of, joined
  <2>4. QED BY <2>1, <2>2, <2>3 DEF Sources
<1>3. ASSUME NEW j \in joined, NEW k \in joined PROVE Of(j) = Of(k)
  <2>1. j[1] = k[1]
    OBVIOUS
  <2>2. j[2] = k[2] /\ j[3] = k[3]
    BY <2>1
  <2>3. QED BY <2>1, <2>2
<1> HIDE DEF joined, Of
<1>4. QED BY <1>1, <1>2, <1>3

\* SetToSeq of at most one element.
LEMMA SetToSeqFacts ==
    ASSUME NEW S, \A x, y \in S : x = y
    PROVE  /\ SetToSeq(S) \in Seq(S) /\ Len(SetToSeq(S)) \in {0, 1}
<1>1. \E f \in [1..Cardinality(S) -> S] : IsInjective(f)
  <2>1. CASE S = {}
    <3>1. Cardinality(S) = 0
      BY <2>1, FS_EmptySet
    <3>2. 1..0 = {}
      OBVIOUS
    <3>3. [x \in {} |-> x] \in [1..Cardinality(S) -> S]
      BY <2>1, <3>1, <3>2
    <3>4. IsInjective([x \in {} |-> x])
      BY DEF IsInjective
    <3>5. QED BY <3>3, <3>4
  <2>2. CASE S # {}
    <3>1. PICK x \in S : TRUE
      BY <2>2
    <3>2. S = {x}
      OBVIOUS
    <3>3. Cardinality(S) = 1
      BY <3>2, FS_Singleton
    <3>4. [i \in 1..1 |-> x] \in [1..Cardinality(S) -> S]
      BY <3>3
    <3>5. IsInjective([i \in 1..1 |-> x])
      BY DEF IsInjective
    <3>6. QED BY <3>4, <3>5
  <2>3. QED BY <2>1, <2>2
<1>2. SetToSeq(S) \in [1..Cardinality(S) -> S]
  BY <1>1, Zenon DEF SetToSeq
<1>3. Cardinality(S) \in {0, 1}
  <2>1. CASE S = {}
    BY <2>1, FS_EmptySet
  <2>2. CASE S # {}
    <3>1. PICK x \in S : TRUE
      BY <2>2
    <3>2. S = {x}
      OBVIOUS
    <3>3. QED BY <3>2, FS_Singleton
  <2>3. QED BY <2>1, <2>2
<1>4. PICK n : n = Cardinality(S)
  OBVIOUS
<1>5. n \in Nat /\ SetToSeq(S) \in [1..n -> S]
  BY <1>2, <1>3, <1>4
<1>6. SetToSeq(S) \in Seq(S) /\ Len(SetToSeq(S)) = n
  BY <1>5
<1>7. QED BY <1>3, <1>4, <1>6

Contexts == [name : STRING, cluster : STRING, user : STRING]

Served(doc) == UNION {Resolve(doc, name) : name \in STRING \ {""}}

\* Every cluster ResolveAll finds is one that a context names.
LEMMA ResolveAllFacts ==
    ASSUME NEW doc, doc.contexts \in Seq(Contexts)
    PROVE  ResolveAll(doc) \in Seq(Served(doc))
<1> DEFINE S == Seq(Served(doc))
           N == Len(doc.contexts)
           Resolved(name) == IF name = "" THEN {} ELSE Resolve(doc, name)
           Part(n) == SetToSeq(Resolved(doc.contexts[n].name))
           Next1(s, n) == s \o Part(n)
           step == [n \in 1..N |-> [s \in S |-> Next1(s, n)]]
           Eq(f) == f = [n \in 0..N |-> IF n = 0 THEN <<>> ELSE Next1(f[n - 1], n)]
<1>1. N \in Nat /\ \A n \in 1..N : doc.contexts[n].name \in STRING
  <2>1. N \in Nat /\ \A n \in 1..N : doc.contexts[n] \in Contexts
    <3> HIDE DEF Contexts
    <3>1. QED OBVIOUS
  <2>2. \A c \in Contexts : c.name \in STRING
    BY DEF Contexts
  <2>3. QED BY <2>1, <2>2
<1>2. ASSUME NEW n \in 1..N PROVE Part(n) \in S
  <2>1. PICK name \in STRING : name = doc.contexts[n].name
    BY <1>1
  <2>2. PICK R : R = Resolved(name)
    OBVIOUS
  <2>3. /\ R \subseteq Served(doc)
        /\ \A x, y \in R : x = y
    <3>1. CASE name = ""
      BY <2>2, <3>1
    <3>2. CASE name # ""
      <4>1. R = Resolve(doc, name)
        BY <2>2, <3>2
      <4>2. \A x, y \in R : x = y
        BY <3>2, <4>1, ResolveFacts, Zenon
      <4>3. R \subseteq Served(doc)
        BY <2>1, <3>2, <4>1, Zenon DEF Served
      <4>4. QED BY <4>2, <4>3
    <3>3. QED BY <3>1, <3>2
  <2>4. SetToSeq(R) \in Seq(R)
    BY <2>3, SetToSeqFacts
  <2>5. Part(n) = SetToSeq(R)
    BY <2>1, <2>2
  <2> HIDE DEF Part, Resolved
  <2>6. Part(n) \in Seq(Served(doc))
    BY <2>3, <2>4, <2>5
  <2>7. QED BY <2>6
<1> HIDE DEF Part
<1>3. ASSUME NEW n \in 1..N, NEW s \in S PROVE Next1(s, n) \in S
  BY <1>2
<1>4. <<>> \in S
  OBVIOUS
<1> HIDE DEF S, Next1
<1>5. \E f : Eq(f)
  <2>1. step \in [1..N -> [S -> S]]
    BY <1>3
  <2>2. PICK f : Steps(N, S, <<>>, step, f)
    <3> HIDE DEF step, N
    <3>1. QED BY <1>1, <1>4, <2>1, Recursion
  <2>3. \A n \in 1..N : f[n - 1] \in S
    <3> HIDE DEF step
    <3>1. QED BY <1>1, <2>2 DEF Steps
  <2>4. \A n \in 1..N : step[n][f[n - 1]] = Next1(f[n - 1], n)
    BY <2>3
  <2> DEFINE g(n) == IF n = 0 THEN <<>> ELSE Next1(f[n - 1], n)
  <2>5. \A n \in 0..N : f[n] = g(n)
    <3>1. \A n \in 0..N : n = 0 \/ n \in 1..N
      BY <1>1
    <3> HIDE DEF step
    <3>2. QED BY <2>2, <2>4, <3>1 DEF Steps
  <2> HIDE DEF step, g
  <2>6. f = [n \in 0..N |-> g(n)]
    BY <2>2, <2>5 DEF Steps
  <2>7. Eq(f)
    BY <2>6 DEF g
  <2> HIDE DEF Eq
  <2>8. QED BY <2>7
<1>6. PICK f : Eq(f) /\ ResolveAll(doc) = f[N]
  <2> HIDE DEF N
  <2>1. ResolveAll(doc) = (CHOOSE f : Eq(f))[N]
    BY DEF ResolveAll, N, Next1, Part
  <2>2. QED BY <1>5, <2>1, Zenon
<1> DEFINE T == {n \in 0..N : f[n] \in S}
<1>7. 0 \in T /\ \A n \in 1..N : n - 1 \in T => n \in T
  <2>1. f[0] = <<>> /\ \A n \in 1..N : f[n] = Next1(f[n - 1], n)
    <3> DEFINE g(n) == IF n = 0 THEN <<>> ELSE Next1(f[n - 1], n)
    <3>1. f = [n \in 0..N |-> g(n)]
      BY <1>6
    <3>2. /\ g(0) = <<>> /\ 0 \in 0..N
          /\ \A n \in 1..N : n \in 0..N /\ g(n) = Next1(f[n - 1], n)
      <4> HIDE DEF N
      <4>1. QED BY <1>1
    <3> HIDE DEF g, N
    <3>3. \A n \in 0..N : f[n] = g(n)
      BY <3>1
    <3>4. QED BY <3>2, <3>3
  <2>2. 0 \in 0..N
    BY <1>1
  <2>3. QED BY <1>3, <1>4, <2>1, <2>2
<1>8. N \in Nat /\ N \in 0..N
  BY <1>1
<1>9. \A n \in 0..N : n \in T
  <2> HIDE DEF T, N
  <2>1. QED BY <1>7, <1>8, Upto
<1>10. QED BY <1>6, <1>8, <1>9 DEF S

\* No id twice.
Distinct(profiles) ==
    \A i, j \in 1..Len(profiles) : profiles[i].id = profiles[j].id => i = j

Profiles(R) == {profileFromCluster(r) : r \in R}

\* NewMultiClusterBackend registers clusters of the list, none under an id it has.
LEMMA RegisterFacts ==
    ASSUME NEW R, NEW list \in Seq(R)
    PROVE  /\ NewMultiClusterBackend(list) \in Seq(Profiles(R))
           /\ Distinct(NewMultiClusterBackend(list))
<1> DEFINE P == Profiles(R)
           S == Seq(P)
           N == Len(list)
           Next1(s, n) == IF Registers(s, list[n]) THEN Append(s, profileFromCluster(list[n]))
                          ELSE s
           step == [n \in 1..N |-> [s \in S |-> Next1(s, n)]]
           Eq(f) == f = [n \in 0..N |-> IF n = 0 THEN <<>> ELSE Next1(f[n - 1], n)]
<1>1. N \in Nat /\ \A n \in 1..N : list[n] \in R /\ profileFromCluster(list[n]) \in P
  BY DEF Profiles
<1> HIDE DEF P
<1>2. ASSUME NEW n \in 1..N, NEW s \in S PROVE Next1(s, n) \in S
  BY <1>1
<1>3. ASSUME NEW n \in 1..N, NEW s \in S, Distinct(s) PROVE Distinct(Next1(s, n))
  <2> DEFINE p == profileFromCluster(list[n])
             t == Append(s, p)
  <2>1. CASE ~Registers(s, list[n])
    BY <1>3, <2>1
  <2>2. CASE Registers(s, list[n])
    <3>1. /\ Len(s) \in Nat /\ Len(t) = Len(s) + 1 /\ t[Len(s) + 1] = p
          /\ \A i \in 1..Len(s) : t[i] = s[i]
      OBVIOUS
    <3>2. Next1(s, n) = t
      BY <2>2
    <3>3. p.id = list[n].context
      BY DEF profileFromCluster
    <3>4. DOMAIN s = 1..Len(s)
      OBVIOUS
    <3>5. \A i \in 1..Len(s) : s[i].id # p.id
      BY <2>2, <3>3, <3>4 DEF Registers, Ids, Range
    <3> HIDE DEF t, p, Next1
    <3>6. \A i \in 1..Len(t) : i = Len(s) + 1 \/ i \in 1..Len(s)
      BY <3>1
    <3>7. Distinct(t)
      <4> SUFFICES ASSUME NEW i \in 1..Len(t), NEW j \in 1..Len(t), t[i].id = t[j].id
                   PROVE  i = j
        BY DEF Distinct
      <4>1. CASE i \in 1..Len(s) /\ j \in 1..Len(s)
        BY <1>3, <3>1, <4>1 DEF Distinct
      <4>2. CASE i = Len(s) + 1
        BY <3>1, <3>5, <3>6, <4>2
      <4>3. CASE j = Len(s) + 1
        BY <3>1, <3>5, <3>6, <4>3
      <4>4. QED BY <3>6, <4>1, <4>2, <4>3
    <3>8. QED BY <3>2, <3>7
  <2>3. QED BY <2>1, <2>2
<1>4. <<>> \in S /\ Distinct(<<>>)
  BY DEF Distinct
<1> HIDE DEF S, Next1
<1>5. \E f : Eq(f)
  <2>1. step \in [1..N -> [S -> S]]
    BY <1>2
  <2>2. PICK f : Steps(N, S, <<>>, step, f)
    <3> HIDE DEF step, N
    <3>1. QED BY <1>1, <1>4, <2>1, Recursion
  <2>3. \A n \in 1..N : f[n - 1] \in S
    <3> HIDE DEF step
    <3>1. QED BY <1>1, <2>2 DEF Steps
  <2>4. \A n \in 1..N : step[n][f[n - 1]] = Next1(f[n - 1], n)
    BY <2>3
  <2> DEFINE g(n) == IF n = 0 THEN <<>> ELSE Next1(f[n - 1], n)
  <2>5. \A n \in 0..N : f[n] = g(n)
    <3>1. \A n \in 0..N : n = 0 \/ n \in 1..N
      BY <1>1
    <3> HIDE DEF step
    <3>2. QED BY <2>2, <2>4, <3>1 DEF Steps
  <2> HIDE DEF step, g
  <2>6. f = [n \in 0..N |-> g(n)]
    BY <2>2, <2>5 DEF Steps
  <2>7. Eq(f)
    BY <2>6 DEF g
  <2> HIDE DEF Eq
  <2>8. QED BY <2>7
<1>6. PICK f : Eq(f) /\ NewMultiClusterBackend(list) = f[N]
  <2> HIDE DEF N
  <2>1. NewMultiClusterBackend(list) = (CHOOSE f : Eq(f))[N]
    BY DEF NewMultiClusterBackend, N, Next1
  <2>2. QED BY <1>5, <2>1, Zenon
<1> DEFINE T == {n \in 0..N : f[n] \in S /\ Distinct(f[n])}
<1>7. 0 \in T /\ \A n \in 1..N : n - 1 \in T => n \in T
  <2>1. f[0] = <<>> /\ \A n \in 1..N : f[n] = Next1(f[n - 1], n)
    <3> DEFINE g(n) == IF n = 0 THEN <<>> ELSE Next1(f[n - 1], n)
    <3>1. f = [n \in 0..N |-> g(n)]
      BY <1>6
    <3>2. /\ g(0) = <<>> /\ 0 \in 0..N
          /\ \A n \in 1..N : n \in 0..N /\ g(n) = Next1(f[n - 1], n)
      <4> HIDE DEF N
      <4>1. QED BY <1>1
    <3> HIDE DEF g, N
    <3>3. \A n \in 0..N : f[n] = g(n)
      BY <3>1
    <3>4. QED BY <3>2, <3>3
  <2>2. 0 \in 0..N
    BY <1>1
  <2>3. QED BY <1>2, <1>3, <1>4, <2>1, <2>2
<1>8. N \in Nat /\ N \in 0..N
  BY <1>1
<1>9. \A n \in 0..N : n \in T
  <2> HIDE DEF T, N
  <2>1. QED BY <1>7, <1>8, Upto
<1>10. QED BY <1>6, <1>8, <1>9 DEF S, P

\* As many ids as profiles.
LEMMA CountIds ==
    ASSUME NEW S, NEW profiles \in Seq(S), Distinct(profiles)
    PROVE  Cardinality(Ids(profiles)) = Len(profiles)
<1> DEFINE N == Len(profiles)
           h == [i \in 1..N |-> profiles[i].id]
<1>1. N \in Nat /\ DOMAIN profiles = 1..N
  OBVIOUS
<1>2. Ids(profiles) = {profiles[i].id : i \in 1..N}
  BY <1>1 DEF Ids, Range
<1>3. h \in Bijection(1..N, Ids(profiles))
  <2>1. h \in [1..N -> Ids(profiles)]
    BY <1>2
  <2>2. \A i, j \in 1..N : h[i] = h[j] => i = j
    BY DEF Distinct
  <2>3. \A x \in Ids(profiles) : \E i \in 1..N : h[i] = x
    BY <1>2
  <2> HIDE DEF h, N
  <2> DEFINE I == Ids(profiles)
             D == 1..N
  <2> HIDE DEF I, D
  <2>4. h \in Injection(D, I)
    BY <2>1, <2>2 DEF Injection, IsInjective, I, D
  <2>5. h \in Surjection(D, I)
    BY <2>1, <2>3 DEF Surjection, I, D
  <2>6. QED BY <2>4, <2>5 DEF Bijection, I, D
<1>4. ExistsBijection(1..N, Ids(profiles))
  BY <1>3 DEF ExistsBijection
<1>5. IsFiniteSet(1..N) /\ Cardinality(1..N) = N
  <2>1. PICK m : m = N
    OBVIOUS
  <2> HIDE DEF N
  <2>2. m \in Nat
    BY <1>1, <2>1
  <2>3. IsFiniteSet(1..m) /\ Cardinality(1..m) = IF 1 > m THEN 0 ELSE m - 1 + 1
    BY <2>2, FS_Interval
  <2>4. QED BY <2>1, <2>2, <2>3
<1>6. PICK D, I : D = 1..N /\ I = Ids(profiles)
  OBVIOUS
<1> HIDE DEF N
<1>7. IsFiniteSet(D) /\ ExistsBijection(D, I)
  BY <1>4, <1>5, <1>6
<1>8. Cardinality(I) = Cardinality(D)
  BY <1>7, FS_Bijection, Zenon
<1>9. QED BY <1>5, <1>6, <1>8 DEF N

\* A profile carries what the kubeconfig gives to the context of its name.
Named(doc, p) ==
    \E c \in First(doc.contexts, p.id) :
    \E s \in First(doc.clusters, c.cluster), u \in First(doc.users, c.user) :
        p.server = s.server /\ p.token = Token(u)

\* Its profile has the id and the address of that context.
LEMMA ProfileFacts ==
    ASSUME NEW doc, NEW name, name # "", NEW r \in Resolve(doc, name)
    PROVE  profileFromCluster(r).id = name /\ Named(doc, profileFromCluster(r))
<1>1. PICK p : p = profileFromCluster(r)
  OBVIOUS
<1>2. Sources(doc, name, r)
  BY ResolveFacts
<1>3. p.id = r.context /\ p.server = r.server /\ p.token = r.token
  BY <1>1 DEF profileFromCluster
<1>4. p.id = name
  BY <1>2, <1>3 DEF Sources
<1>5. Named(doc, p)
  BY <1>2, <1>3, <1>4 DEF Sources, Named
<1>6. QED BY <1>1, <1>4, <1>5

\* The profiles of one named context, or of all.
ProfilesOf(e, doc) ==
    IF e.context # ""
    THEN SetToSeq(UNION {NewKubeBackend(r) : r \in Resolve(doc, e.context)})
    ELSE NewMultiClusterBackend(ResolveAll(doc))

\* Every registered profile is what the kubeconfig says of its id, and no two share one.
LEMMA ProfilesOfFacts ==
    ASSUME NEW e, NEW doc, doc.contexts \in Seq(Contexts)
    PROVE  /\ Cardinality(Ids(ProfilesOf(e, doc))) = Len(ProfilesOf(e, doc))
           /\ \A p \in Range(ProfilesOf(e, doc)) : Named(doc, p)
<1>1. CASE e.context # ""
  <2> DEFINE U == UNION {NewKubeBackend(r) : r \in Resolve(doc, e.context)}
  <2>1. \A p \in U : \E r \in Resolve(doc, e.context) : p = profileFromCluster(r)
    BY DEF NewKubeBackend
  <2> HIDE DEF U
  <2>2. \A p, q \in U : p = q
    <3> SUFFICES ASSUME NEW p \in U, NEW q \in U PROVE p = q
      OBVIOUS
    <3>1. PICK r \in Resolve(doc, e.context) : p = profileFromCluster(r)
      BY <2>1
    <3>2. PICK x \in Resolve(doc, e.context) : q = profileFromCluster(x)
      BY <2>1
    <3>3. r = x
      BY <1>1, ResolveFacts
    <3>4. QED BY <3>1, <3>2, <3>3
  <2>3. \A p \in U : Named(doc, p)
    <3> SUFFICES ASSUME NEW p \in U PROVE Named(doc, p)
      OBVIOUS
    <3>1. PICK r \in Resolve(doc, e.context) : p = profileFromCluster(r)
      BY <2>1
    <3>2. Named(doc, profileFromCluster(r))
      BY <1>1, ProfileFacts
    <3>3. QED BY <3>1, <3>2
  <2>4. PICK s : s = SetToSeq(U)
    OBVIOUS
  <2>5. s \in Seq(U) /\ Len(s) \in {0, 1}
    BY <2>2, <2>4, SetToSeqFacts
  <2>6. Distinct(s)
    BY <2>5 DEF Distinct
  <2>7. \A p \in Range(s) : p \in U
    BY <2>5 DEF Range
  <2>8. ProfilesOf(e, doc) = s
    BY <1>1, <2>4 DEF ProfilesOf, U
  <2>9. QED BY <2>3, <2>5, <2>6, <2>7, <2>8, CountIds
<1>2. CASE e.context = ""
  <2>1. PICK list : list = ResolveAll(doc)
    OBVIOUS
  <2>2. list \in Seq(Served(doc))
    BY <2>1, ResolveAllFacts
  <2>3. PICK s : s = NewMultiClusterBackend(list)
    OBVIOUS
  <2>4. s \in Seq(Profiles(Served(doc))) /\ Distinct(s)
    BY <2>2, <2>3, RegisterFacts
  <2>5. \A p \in Profiles(Served(doc)) : Named(doc, p)
    <3> SUFFICES ASSUME NEW p \in Profiles(Served(doc)) PROVE Named(doc, p)
      OBVIOUS
    <3>1. PICK r \in Served(doc) : p = profileFromCluster(r)
      BY DEF Profiles
    <3>2. PICK name \in STRING : name # "" /\ r \in Resolve(doc, name)
      BY DEF Served
    <3>3. QED BY <3>1, <3>2, ProfileFacts
  <2>6. \A p \in Range(s) : p \in Profiles(Served(doc))
    BY <2>4 DEF Range
  <2>7. ProfilesOf(e, doc) = s
    BY <1>2, <2>1, <2>3 DEF ProfilesOf
  <2>8. QED BY <2>4, <2>5, <2>6, <2>7, CountIds
<1>3. QED BY <1>1, <1>2

\* The backend main builds: no id twice, and live profiles are those of the file.
LEMMA BackendFacts ==
    ASSUME NEW e \in Environments, NEW b, b = buildBackend(e)
    PROVE  /\ Cardinality(Ids(b.profiles)) = Len(b.profiles)
           /\ b.live => \A p \in Range(b.profiles) : Named(e.files[ResolvePath(e)], p)
<1> DEFINE docs == IF e.mode = "kube" THEN LoadFile(e.files, ResolvePath(e)) ELSE {}
           found == {ProfilesOf(e, doc) : doc \in docs} \ {<<>>}
<1>1. b = IF found = {} THEN Sample
          ELSE [live |-> TRUE, profiles |-> CHOOSE profiles \in found : TRUE]
  BY DEF buildBackend, ProfilesOf
<1>2. \A doc \in docs : /\ doc = e.files[ResolvePath(e)]
                        /\ doc.contexts \in Seq(Contexts)
  <2>1. \A doc \in docs : /\ ResolvePath(e) \in DOMAIN e.files
                          /\ doc = e.files[ResolvePath(e)]
    BY DEF LoadFile, ParseDocument
  <2>2. \A path \in DOMAIN e.files : e.files[path].contexts \in Seq(Contexts)
    BY GatewayAssumption DEF Contexts
  <2> HIDE DEF docs, Contexts
  <2>3. QED BY <2>1, <2>2
<1> HIDE DEF docs
<1>3. CASE found = {}
  <2>1. PICK x, s : x = [id |-> "gateway-demo", server |-> "", token |-> ""] /\ s = <<x>>
    OBVIOUS
  <2>2. s \in Seq({x}) /\ Len(s) = 1
    <3>1. s = <<x>>
      BY <2>1
    <3>2. QED BY <3>1
  <2>3. Distinct(s)
    BY <2>2 DEF Distinct
  <2>4. b = Sample /\ Sample.live = FALSE /\ Sample.profiles = s
    BY <1>1, <1>3, <2>1 DEF Sample
  <2>5. QED BY <2>2, <2>3, <2>4, CountIds
<1>4. CASE found # {}
  <2>1. PICK s : s = CHOOSE profiles \in found : TRUE
    OBVIOUS
  <2>2. s \in found
    BY <1>4, <2>1
  <2>3. b.live = TRUE /\ b.profiles = s
    <3> HIDE DEF found
    <3>1. b = [live |-> TRUE, profiles |-> s]
      BY <1>1, <1>4, <2>1
    <3>2. QED BY <3>1
  <2>4. PICK doc \in docs : s = ProfilesOf(e, doc)
    BY <2>2
  <2>5. doc = e.files[ResolvePath(e)] /\ doc.contexts \in Seq(Contexts)
    BY <1>2
  <2>6. /\ Cardinality(Ids(s)) = Len(s)
        /\ \A p \in Range(s) : Named(doc, p)
    BY <2>4, <2>5, ProfilesOfFacts
  <2>7. QED BY <2>3, <2>5, <2>6
<1>5. QED BY <1>3, <1>4

\* The profile a call is routed to has the id the caller named.
LEMMA RouteFacts ==
    ASSUME NEW c, NEW q, q.cluster \in Ids(c.backend.profiles)
    PROVE  Route(c, q) \in Range(c.backend.profiles) /\ Route(c, q).id = q.cluster
<1>1. \E p \in Range(c.backend.profiles) : p.id = q.cluster
  BY DEF Ids
<1>2. QED BY <1>1 DEF Route

\* Past the gates of the backend the cluster is registered, so RouteFacts applies.
LEMMA Routed ==
    ASSUME NEW c, NEW q, FirstFailure(BackendGates(c, q)) = 0
    PROVE  c.backend.live /\ q.cluster \in Ids(c.backend.profiles)
<1>1. PICK f, p : /\ f = FirstFailure(BackendGates(c, q))
                  /\ p = (q.cluster \in Ids(c.backend.profiles))
  OBVIOUS
<1>2. \/ c.backend.live /\ p /\ KindAllows(q) /\ f = 0
      \/ f \in {501, 404, 400}
  BY <1>1, ThreeGates DEF BackendGates
<1>3. f \notin {501, 404, 400}
  BY <1>1
<1>4. QED BY <1>1, <1>2, <1>3, Zenon

\* Where a mutation went is where its profile says, and the configuration is that
\* of the settings.
Sent(r) ==
    /\ cfg.backend.live /\ call[r].cluster \in Ids(cfg.backend.profiles)
    /\ effect[r].server = Route(cfg, call[r]).server
    /\ effect[r].token = Route(cfg, call[r]).token

Delivery ==
    /\ cfg # Err => cfg = Configure(env)
    /\ \A r \in Reqs : DOMAIN effect[r] = {"state", "server", "token"}
    /\ \A r \in Reqs : Inline(r) => Sent(r)

\* Nobody's mutation begins, and nothing about the ones that did changes.
LEMMA DeliveryKept ==
    ASSUME IInv, Delivery, UNCHANGED <<env, cfg>>,
           \A r \in Reqs : /\ DOMAIN effect'[r] = {"state", "server", "token"}
                           /\ effect'[r].state # "none" => effect[r].state # "none"
                           /\ effect[r].state # "none" =>
                                /\ effect'[r].server = effect[r].server
                                /\ effect'[r].token = effect[r].token
                                /\ call'[r] = call[r]
    PROVE  Delivery'
<1>1. cfg' # Err => cfg' = Configure(env')
  BY DEF Delivery
<1>2. ASSUME NEW r \in Reqs, Inline(r)' PROVE Sent(r)'
  <2>1. effect[r].state # "none" /\ Sent(r)
    BY <1>2 DEF Delivery, Inline
  <2>2. effect'[r].server = effect[r].server /\ effect'[r].token = effect[r].token
        /\ call'[r] = call[r]
    BY <2>1
  <2>3. QED BY <2>1, <2>2 DEF Sent
<1>3. QED BY <1>1, <1>2 DEF Delivery

\* Execute sends to the profile BackendGates found.
LEMMA ArriveDelivery ==
    ASSUME IInv, Delivery, NEW r \in Reqs, NEW q \in Calls, Arrive(r, q)
    PROVE  Delivery'
<1>1. /\ UNCHANGED <<env, cfg>> /\ stage[r] = "idle" /\ call' = [call EXCEPT ![r] = q]
      /\ \/ effect' = effect
         \/ FirstFailure(BackendGates(cfg, q)) = 0 /\ Execute(r, q)
  BY DEF Arrive, process, AnswerUnaudited, Refuse, Park
<1>2. /\ DOMAIN call = Reqs /\ DOMAIN effect = Reqs /\ effect[r].state = "none"
  BY <1>1 DEF IInv, Shapes, Standing
<1>3. call'[r] = q /\ \A s \in Reqs : s # r => call'[s] = call[s]
  BY <1>1, <1>2
<1>4. CASE effect' = effect
  <2>1. \A s \in Reqs : effect[s].state # "none" => call'[s] = call[s]
    BY <1>2, <1>3
  <2>2. \A s \in Reqs : DOMAIN effect'[s] = {"state", "server", "token"}
    BY <1>4 DEF Delivery
  <2>3. QED BY <1>1, <1>4, <2>1, <2>2, DeliveryKept
<1>5. CASE FirstFailure(BackendGates(cfg, q)) = 0 /\ Execute(r, q)
  <2>1. PICK n : /\ n.server = Route(cfg, q).server /\ n.token = Route(cfg, q).token
                 /\ DOMAIN n = {"state", "server", "token"}
                 /\ effect' = [effect EXCEPT ![r] = n]
    <3> DEFINE New(state) == [state |-> state, server |-> Route(cfg, q).server,
                              token |-> Route(cfg, q).token]
    <3>1. PICK state : effect' = [effect EXCEPT ![r] = New(state)]
      BY <1>5 DEF Execute
    <3>2. PICK n : n = New(state)
      OBVIOUS
    <3>3. n.server = Route(cfg, q).server /\ n.token = Route(cfg, q).token
          /\ DOMAIN n = {"state", "server", "token"}
      BY <3>2
    <3>4. effect' = [effect EXCEPT ![r] = n]
      BY <3>1, <3>2
    <3>5. QED BY <3>3, <3>4
  <2>2. effect'[r] = n /\ \A s \in Reqs : s # r => effect'[s] = effect[s]
    BY <1>2, <2>1
  <2>3. cfg.backend.live /\ q.cluster \in Ids(cfg.backend.profiles)
    BY <1>5, Routed
  <2>4. Sent(r)'
    BY <1>1, <1>3, <2>1, <2>2, <2>3 DEF Sent
  <2>5. ASSUME NEW s \in Reqs, Inline(s)' PROVE Sent(s)'
    <3>1. CASE s = r
      BY <2>4, <3>1
    <3>2. CASE s # r
      <4>1. effect'[s] = effect[s] /\ call'[s] = call[s]
        BY <1>3, <2>2, <3>2
      <4>2. Sent(s)
        BY <2>5, <4>1 DEF Delivery, Inline
      <4>3. QED BY <1>1, <4>1, <4>2 DEF Sent
    <3>3. QED BY <3>1, <3>2
  <2>6. \A s \in Reqs : DOMAIN effect'[s] = {"state", "server", "token"}
    BY <2>1, <2>2 DEF Delivery
  <2>7. cfg' # Err => cfg' = Configure(env')
    BY <1>1 DEF Delivery
  <2>8. QED BY <2>5, <2>6, <2>7 DEF Delivery
<1>6. QED BY <1>1, <1>4, <1>5

\* Only an arrival sends anything; every other step leaves address and token alone.
LEMMA NextDelivery ==
    ASSUME IInv, Delivery, [Next]_vars
    PROVE  Delivery'
<1>1. ASSUME UNCHANGED <<env, cfg, effect, call>> PROVE Delivery'
  <2>1. \A r \in Reqs : DOMAIN effect'[r] = {"state", "server", "token"}
    BY <1>1 DEF Delivery
  <2>2. QED BY <1>1, <2>1, DeliveryKept
<1>2. ASSUME NEW r \in Reqs, NEW state, effect[r].state = "sent",
             effect' = [effect EXCEPT ![r].state = state], UNCHANGED <<env, cfg, call>>
      PROVE  Delivery'
  <2>1. DOMAIN effect = Reqs /\ \A s \in Reqs : DOMAIN effect[s] = {"state", "server", "token"}
    BY DEF IInv, Shapes, Delivery
  <2>2. /\ \A s \in Reqs : s # r => effect'[s] = effect[s]
        /\ effect'[r] = [effect[r] EXCEPT !.state = state]
    BY <1>2, <2>1
  <2>3. /\ DOMAIN effect'[r] = {"state", "server", "token"}
        /\ effect'[r].server = effect[r].server /\ effect'[r].token = effect[r].token
    BY <2>1, <2>2
  <2>4. \A s \in Reqs : /\ DOMAIN effect'[s] = {"state", "server", "token"}
                        /\ effect'[s].state # "none" => effect[s].state # "none"
                        /\ effect'[s].server = effect[s].server
                        /\ effect'[s].token = effect[s].token
    BY <1>2, <2>1, <2>2, <2>3
  <2>5. QED BY <1>2, <2>4, DeliveryKept
<1>3. CASE Boot
  <2>1. /\ proc = "booting" /\ cfg' = Configure(env) /\ UNCHANGED <<env, effect>>
    BY <1>3 DEF Boot
  <2>2. ASSUME NEW r \in Reqs PROVE ~Inline(r)'
    <3>1. effect[r].state = "none"
      BY <2>1 DEF IInv, Standing
    <3>2. QED BY <2>1, <3>1 DEF Inline
  <2>3. cfg' = Configure(env')
    BY <2>1
  <2>4. \A r \in Reqs : DOMAIN effect'[r] = {"state", "server", "token"}
    BY <2>1 DEF Delivery
  <2>5. QED BY <2>2, <2>3, <2>4 DEF Delivery
<1>4. CASE Signal \/ Shutdown \/ ListenFails \/ Kill \/ Tick \/ UNCHANGED vars
  BY <1>1, <1>4 DEF Signal, Shutdown, ListenFails, Kill, Ends, Tick, vars
<1>5. ASSUME NEW r \in Reqs, NEW q \in Calls, Arrive(r, q) PROVE Delivery'
  BY <1>5, ArriveDelivery
<1>6. ASSUME NEW r \in Reqs, Applied(r) PROVE Delivery'
  BY <1>2, <1>6 DEF Applied, process
<1>7. ASSUME NEW r \in Reqs, Serve(r) PROVE Delivery'
  <2>1. CASE TimesOut(r) \/ Panics(r) \/ Audit(r) \/ Answer(r) \/ Succeeds(r)
    BY <1>1, <2>1 DEF TimesOut, Panics, AnswerUnaudited, Audit, Answer, Succeeds, process
  <2>2. ASSUME NEW code, Refused(r, code) PROVE Delivery'
    BY <1>2, <2>2 DEF Refused, process
  <2>3. ASSUME NEW code, Fails(r, code) PROVE Delivery'
    BY <1>1, <2>3 DEF Fails, process
  <2>4. QED BY <1>7, <2>1, <2>2, <2>3 DEF Serve
<1>8. QED BY <1>3, <1>4, <1>5, <1>6, <1>7 DEF Next

\* What was sent as Delivery says landed where the caller named.
LEMMA DeliveryLands ==
    ASSUME IInv, Delivery
    PROVE  LandsWhereNamed
<1>1. env \in Environments
  BY DEF IInv, Shapes
<1>2. ASSUME cfg # Err PROVE cfg.backend = buildBackend(env)
  BY <1>2 DEF Delivery, Configure
<1>3. cfg # Err => Cardinality(Ids(cfg.backend.profiles)) = Len(cfg.backend.profiles)
  BY <1>1, <1>2, BackendFacts
<1>4. ASSUME NEW r \in Reqs, Inline(r)
      PROVE  LET doc == env.files[ResolvePath(env)]
             IN  \E c \in First(doc.contexts, call[r].cluster) :
                 \E s \in First(doc.clusters, c.cluster), u \in First(doc.users, c.user) :
                     effect[r].server = s.server /\ effect[r].token = Token(u)
  <2>1. Sent(r)
    BY <1>4 DEF Delivery
  <2>2. cfg = Configure(env)
    BY <1>4 DEF IInv, Standing, Inline, Configured
  <2>3. cfg.backend = buildBackend(env)
    BY <2>2 DEF Configure
  <2>4. PICK p : p = Route(cfg, call[r])
    OBVIOUS
  <2>5. p \in Range(cfg.backend.profiles) /\ p.id = call[r].cluster
    BY <2>1, <2>4, RouteFacts DEF Sent
  <2>6. Named(env.files[ResolvePath(env)], p)
    BY <1>1, <2>1, <2>3, <2>5, BackendFacts DEF Sent
  <2>7. effect[r].server = p.server /\ effect[r].token = p.token
    BY <2>1, <2>4 DEF Sent
  <2>8. QED BY <2>5, <2>6, <2>7 DEF Named
<1>5. QED BY <1>3, <1>4 DEF LandsWhereNamed

\* LandsWhereNamed for every kubeconfig and any calls: what Resolve joins, ResolveAll
\* collects, NewMultiClusterBackend registers and Route picks belongs to the context
\* the caller named.
THEOREM LandsWhereNamedHolds == Spec => []LandsWhereNamed
<1>1. ASSUME Init PROVE Delivery
  <2>1. cfg = Err
    BY <1>1 DEF Init
  <2>2. \A r \in Reqs : effect[r] = NoEffect
    BY <1>1 DEF Init
  <2>3. DOMAIN NoEffect = {"state", "server", "token"} /\ NoEffect.state = "none"
    BY DEF NoEffect
  <2>4. QED BY <2>1, <2>2, <2>3 DEF Delivery, Inline
<1>2. IInv /\ Delivery /\ [Next]_vars => Delivery'
  BY NextDelivery
<1>3. IInv /\ Delivery => LandsWhereNamed
  BY DeliveryLands
<1>4. QED BY <1>1, <1>2, <1>3, Invariance, PTL DEF Spec
=============================================================================
