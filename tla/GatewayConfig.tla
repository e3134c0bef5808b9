--------------------------- MODULE GatewayConfig ---------------------------
(***************************************************************************)
(* What main.go makes of the environment.  env holds the raw settings: a   *)
(* word or path is a string with blanks trimmed, a list the sequence of    *)
(* its comma-separated parts, a number an integer, Blank (unset) or        *)
(* Garbled (set, but no number); rates and durations are in whole units.   *)
(* Err is the error main answers with log.Fatal.                           *)
(***************************************************************************)
EXTENDS Integers, Kubeconfig

CONSTANTS
    Blank, Garbled, Err,
    ToLower(_)      \* strings.ToLower

\* Of the parts only which ones there are matters.
splitCSV(parts) == {p \in Range(parts) : p # ""}

envNumber(raw) ==
    IF raw = Blank THEN 0 ELSE IF raw # Garbled /\ raw >= 0 THEN raw ELSE Err

OnWords  == {"1", "true", "yes", "on"}
OffWords == {"", "0", "false", "no", "off"}

envBool_Lenient(raw) == ToLower(raw) \in OnWords
envBool(raw) ==
    LET word == ToLower(raw)
    IN  IF word \in OnWords THEN TRUE ELSE IF word \in OffWords THEN FALSE ELSE Err

candidates(env) == <<env.token>> \o env.tokens

Duplicate_Kept(env, i) == FALSE
\* slices.Contains(out, t): an earlier candidate is the same token.
Duplicate(env, i) == \E j \in 1..(i - 1) : candidates(env)[j] = candidates(env)[i]

\* The list of tokens, as the places of the candidates that went into it.
collectTokens(env) ==
    {i \in DOMAIN candidates(env) : candidates(env)[i] # "" /\ ~Duplicate(env, i)}

\* Zero values stand for the nil limiter, policies and store.
buildLimiter(env) ==
    LET rps == envNumber(env.rps)
        burst == envNumber(env.burst)
    IN  IF Err \in {rps, burst} THEN Err
        ELSE IF (rps > 0) # (burst > 0) THEN Err ELSE rps > 0

buildScalePolicy(env) ==
    LET max == envNumber(env.maxReplicas)
    IN  IF max = Err THEN Err
        ELSE [maxReplicas |-> max, namespaces |-> splitCSV(env.namespaces)]

buildNodePolicy(env) ==
    LET disableDrain == envBool(env.disableDrain)
    IN  IF disableDrain = Err THEN Err
        ELSE [allowed |-> splitCSV(env.nodes), disableDrain |-> disableDrain,
              protected |-> splitCSV(env.protected)]

\* The set of gated op-classes.  The TTL is only read when there are some.
buildApprovalPolicy(env, tokens) ==
    LET required == {ToLower(op) : op \in splitCSV(env.requireApproval)}
        ttl == IF env.approvalTTL = Blank THEN 15 ELSE envNumber(env.approvalTTL)
    IN  IF required = {} THEN {}
        ELSE IF ~(required \subseteq {"scale", "restart", "cordon", "drain"})
                \/ Cardinality(tokens) < 2 \/ ttl \in {Err, 0}
        THEN Err ELSE required

\* Without certificate and key the client CA is not looked at.
buildTLS(env) ==
    CASE env.tlsCert = "" /\ env.tlsKey = "" -> "off"
      [] {env.tlsCert, env.tlsKey} = {"pem"} /\ env.clientCA = "" -> "tls"
      [] {env.tlsCert, env.tlsKey} = {"pem"} /\ env.clientCA = "pem" -> "mtls"
      [] OTHER -> Err

\* A log file that cannot be opened is replaced by the standard output.
buildAuditSink(env) ==
    CASE env.auditLog = "off" -> "off"
      [] env.auditLog = "file" -> "file"
      [] OTHER -> "stdout"

Sample == [live |-> FALSE, profiles |-> <<[id |-> "gateway-demo", server |-> "", token |-> ""]>>]

\* Every failure on the way to a cluster falls back to the sample data.
buildBackend(env) ==
    LET docs == IF env.mode = "kube" THEN LoadFile(env.files, ResolvePath(env)) ELSE {}
        Backends(doc) ==
            IF env.context # ""
            THEN SetToSeq(UNION {NewKubeBackend(r) : r \in Resolve(doc, env.context)})
            ELSE NewMultiClusterBackend(ResolveAll(doc))
        found == {Backends(doc) : doc \in docs} \ {<<>>}
    IN  IF found = {} THEN Sample
        ELSE [live |-> TRUE, profiles |-> CHOOSE profiles \in found : TRUE]

\* The api.Server main assembles, before it looks for errors.
Configure(env) ==
    LET tokens == collectTokens(env)
    IN  [backend   |-> buildBackend(env),
         tokens    |-> {candidates(env)[i] : i \in tokens},
         limiter   |-> buildLimiter(env),
         trust     |-> envBool(env.trustProxy),
         scale     |-> buildScalePolicy(env),
         node      |-> buildNodePolicy(env),
         approvals |-> buildApprovalPolicy(env, tokens),
         audit     |-> buildAuditSink(env),
         tls       |-> buildTLS(env)]

Fatal(cfg) == \E f \in DOMAIN cfg : cfg[f] = Err
=============================================================================
