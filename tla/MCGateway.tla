----------------------------- MODULE MCGateway -----------------------------
(***************************************************************************)
(* Instances of Gateway: one working environment over two clusters, and    *)
(* what a typo, a leftover or a broken file turns it into, one setting (or *)
(* two that interact) at a time.                                           *)
(***************************************************************************)
EXTENDS Gateway

Context(name, cluster, user) == [name |-> name, cluster |-> cluster, user |-> user]
Cluster(name, server) == [name |-> name, server |-> server, caData |-> "pem",
                          caFile |-> "", insecure |-> FALSE]
User(name, token) == [name |-> name, token |-> token, tokenFile |-> "", certData |-> "",
                      certFile |-> "", keyData |-> "", keyFile |-> "", plugin |-> FALSE]

Doc == [yaml |-> TRUE, current |-> "c1",
        contexts |-> <<Context("c1", "A", "u"), Context("c2", "B", "v")>>,
        clusters |-> <<Cluster("A", "sA"), Cluster("B", "sB")>>,
        users |-> <<User("u", "ka"), User("v", "kb")>>]

\* The second cluster and its user, as they should not be.
OddClusters == {[Doc.clusters[2] EXCEPT !.server = ""],
                [Doc.clusters[2] EXCEPT !.server = "unusable"],
                [Doc.clusters[2] EXCEPT !.caData = "bad64"],
                [Doc.clusters[2] EXCEPT !.caData = "junk"],
                [Doc.clusters[2] EXCEPT !.caData = "junk", !.insecure = TRUE],
                [Doc.clusters[2] EXCEPT !.caData = "", !.caFile = "missing"],
                [Doc.clusters[2] EXCEPT !.caData = "", !.caFile = "blank"],
                [Doc.clusters[2] EXCEPT !.name = "A"]}
OddUsers == {[Doc.users[2] EXCEPT !.certFile = "pem", !.keyFile = "pem"],
             [Doc.users[2] EXCEPT !.certFile = "pem", !.keyFile = "blank"],
             [Doc.users[2] EXCEPT !.certData = "junk", !.keyFile = "pem"],
             [Doc.users[2] EXCEPT !.keyData = "bad64"],
             [Doc.users[2] EXCEPT !.token = "", !.tokenFile = "kb", !.plugin = TRUE],
             [Doc.users[2] EXCEPT !.token = "", !.tokenFile = "missing"],
             [Doc.users[2] EXCEPT !.token = "", !.plugin = TRUE],
             [Doc.users[2] EXCEPT !.token = "", !.certData = "pem", !.keyData = "pem",
                                  !.plugin = TRUE]}
OddContexts == {<<Context("c1", "A", "u"), Context("c1", "B", "v")>>,
                <<Context("", "B", "v"), Context("c1", "A", "u")>>,
                <<Context("c2", "B", ""), Context("c1", "A", "none")>>,
                <<Context("c2", "A", "v"), Context("c1", "B", "u")>>, <<>>}
Docs == {Doc, [Doc EXCEPT !.yaml = FALSE]}
        \cup {[Doc EXCEPT !.clusters[2] = c] : c \in OddClusters}
        \cup {[Doc EXCEPT !.users[2] = u] : u \in OddUsers}
        \cup {[Doc EXCEPT !.contexts = c] : c \in OddContexts}

Files(doc) == [p \in {"here", "home"} |-> doc]

Base == [mode |-> "kube", files |-> Files(Doc), kubeconfig |-> "here",
         kubeconfigList |-> <<>>, home |-> "home", context |-> "",
         token |-> "t1", tokens |-> <<"t2", "">>,
         maxReplicas |-> Blank, namespaces |-> <<"">>, nodes |-> <<"">>,
         protected |-> <<"">>, disableDrain |-> "", trustProxy |-> "",
         requireApproval |-> <<"">>, approvalTTL |-> Blank, rps |-> Blank, burst |-> Blank,
         tlsCert |-> "", tlsKey |-> "", clientCA |-> "", auditLog |-> ""]

Kubeconfigs ==
    {[Base EXCEPT !.files = Files(d)] : d \in Docs}
    \cup {[Base EXCEPT !.context = c] : c \in {"c2", "cx"}}
    \cup {[Base EXCEPT !.kubeconfig = "", !.kubeconfigList = l, !.home = h] :
             l \in {<<>>, <<"", "nowhere", "here">>, <<"">>}, h \in {"", "home"}}
    \cup {[Base EXCEPT !.mode = "sample"]}

Access ==
    {[Base EXCEPT !.token = t, !.tokens = ts, !.requireApproval = a, !.approvalTTL = ttl] :
        t \in {"", "t1"}, ts \in {<<"">>, <<"t1">>, <<"t1", "t2">>},
        a \in {<<"">>, <<"scale", "Cordon", "">>, <<"scle">>, <<"drain", "restart">>},
        ttl \in {Blank, Garbled, 0, 5}}
    \cup {[Base EXCEPT !.token = "", !.tokens = <<>>, !.trustProxy = w] : w \in {"ON", "no", "ture"}}

Numbers == {Blank, Garbled, 0, 1, -1}

Controls ==
    {[Base EXCEPT !.maxReplicas = n, !.namespaces = ns] :
        n \in Numbers, ns \in {<<"">>, <<"", "ns1">>}}
    \cup {[Base EXCEPT !.nodes = n, !.protected = p, !.disableDrain = w] :
        n \in {<<"">>, <<"n1">>}, p \in {<<"">>, <<"n1", "n2">>, <<"n2">>},
        w \in {"", "off", "True", "flase"}}
    \cup {[Base EXCEPT !.rps = x, !.burst = y] : x \in Numbers, y \in Numbers}
    \cup {[Base EXCEPT !.tlsCert = x, !.tlsKey = y, !.clientCA = z] :
        x \in {"", "pem", "junk"}, y \in {"", "pem"}, z \in {"", "pem", "junk", "missing"}}
    \cup {[Base EXCEPT !.auditLog = a] : a \in {"off", "file", "unopenable"}}

\* The words above that are written with capitals.
MCToLower(word) ==
    CASE word = "ON"     -> "on"
      [] word = "True"   -> "true"
      [] word = "Cordon" -> "cordon"
      [] OTHER           -> word

MCEnvironments == Kubeconfigs \cup Access \cup Controls
MCOneEnvironment == {Base}

Call == [token |-> "t1", peer |-> "ip1", forwarded |-> <<"ip9", "ip2">>, cluster |-> "c1",
         kind |-> "deployment", op |-> "scale", target |-> "w1", valid |-> TRUE,
         namespace |-> "ns1", replicas |-> 1]

MCCalls ==
    {[Call EXCEPT !.token = t] : t \in {"", "t1", "t2", "t9"}}
    \cup {[Call EXCEPT !.forwarded = f] : f \in {<<>>, <<"ip9", "">>}}
    \cup {[Call EXCEPT !.cluster = c] : c \in {"c2", "cx"}}
    \cup {[Call EXCEPT !.op = o, !.kind = k] :
             o \in {"scale", "restart"}, k \in {"statefulSet", "daemonSet", "job"}}
    \cup {[Call EXCEPT !.namespace = "ns2"], [Call EXCEPT !.replicas = 2],
          [Call EXCEPT !.replicas = -1], [Call EXCEPT !.valid = FALSE]}
    \cup {[Call EXCEPT !.op = o, !.target = n] :
             o \in {"cordon", "uncordon", "drain"}, n \in {"n1", "n2"}}

MCFewCalls == {Call, [Call EXCEPT !.op = "drain", !.target = "n1"],
               [Call EXCEPT !.op = "restart", !.cluster = "c2"]}
=============================================================================
