----------------------------- MODULE Kubeconfig -----------------------------
(***************************************************************************)
(* From a kubeconfig file to the clusters the gateway serves               *)
(* (kubeconfig.go, NewRestClient, multi.go).                               *)
(*                                                                         *)
(* A document is [yaml, current, contexts, clusters, users], the last      *)
(* three sequences of records in file order.  A data field holds "" or     *)
(* what it decodes to: "pem", "junk", or "bad64" when it is not base64.  A *)
(* file reference holds "" or what readRef finds there: "missing", "blank" *)
(* (an empty file), "pem" or "junk", and for a token file the token.       *)
(* Something that may fail is the set of its results, {} for an error.     *)
(***************************************************************************)
EXTENDS Naturals, Sequences, SequencesExt

First(entries, name) ==
    LET i == SelectInSeq(entries, LAMBDA e : e.name = name)
    IN  IF i = 0 THEN {} ELSE {entries[i]}

\* One undecodable field of any entry rejects the whole document.
ParseDocument(doc) ==
    {d \in {doc} :
        /\ d.yaml
        /\ \A c \in Range(d.clusters) : c.caData # "bad64"
        /\ \A u \in Range(d.users) : "bad64" \notin {u.certData, u.keyData}}

LoadFile(files, path) ==
    IF path \in DOMAIN files THEN ParseDocument(files[path]) ELSE {}

\* KUBECONFIG lists several files; the first name in it is the only one read.
ResolvePath(env) ==
    LET parts == SelectSeq(env.kubeconfigList, LAMBDA p : p # "")
    IN  Head(SelectSeq(<<env.kubeconfig>> \o parts \o <<env.home>>, LAMBDA p : p # "")
             \o <<"">>)

-----------------------------------------------------------------------------
\* A field given inline or by file: the inline value wins.
Readable(data, file) == data # "" \/ file # "missing"
Content(data, file)  == IF data # "" THEN data ELSE IF file = "blank" THEN "" ELSE file

Token(u) == Content(u.token, u.tokenFile)
Cert(u)  == Content(u.certData, u.certFile)
Key(u)   == Content(u.keyData, u.keyFile)

resolveUser(u) ==
    /\ Readable(u.token, u.tokenFile)
    /\ Readable(u.certData, u.certFile) /\ Readable(u.keyData, u.keyFile)
    /\ (Cert(u) = "") <=> (Key(u) = "")
    /\ ~(Token(u) = "" /\ Cert(u) = "" /\ u.plugin)

Resolve(doc, ctxName) ==
    LET name == IF ctxName = "" THEN doc.current ELSE ctxName
        joined == {j \in Range(doc.contexts) \X Range(doc.clusters) \X Range(doc.users) :
                     /\ name # "" /\ First(doc.contexts, name) = {j[1]}
                     /\ First(doc.clusters, j[1].cluster) = {j[2]}
                     /\ j[2].server # "" /\ Readable(j[2].caData, j[2].caFile)
                     /\ j[1].user # "" /\ First(doc.users, j[1].user) = {j[3]}
                     /\ resolveUser(j[3])}
    IN  {[context |-> j[1].name, server |-> j[2].server, insecure |-> j[2].insecure,
          ca |-> Content(j[2].caData, j[2].caFile),
          token |-> Token(j[3]), cert |-> Cert(j[3]), key |-> Key(j[3])] : j \in joined}

\* An empty name would resolve the current context a second time.
ResolveAll(doc) ==
    LET Resolved(name) == IF name = "" THEN {} ELSE Resolve(doc, name)
        resolved[n \in 0..Len(doc.contexts)] ==
            IF n = 0 THEN <<>>
            ELSE resolved[n - 1] \o SetToSeq(Resolved(doc.contexts[n].name))
    IN  resolved[Len(doc.contexts)]

-----------------------------------------------------------------------------
\* The backend of one resolved cluster, identified by its context.
NewRestClient(r) ==
    /\ r.server # "unusable"
    /\ r.insecure \/ r.ca \in {"", "pem"}
    /\ r.cert # "" => r.cert = "pem" /\ r.key = "pem"

profileFromCluster(r) == [id |-> r.context, server |-> r.server, token |-> r.token]

NewKubeBackend(r) == {profileFromCluster(s) : s \in {x \in {r} : NewRestClient(x)}}

Ids(profiles) == {p.id : p \in Range(profiles)}

Registers_Duplicates(profiles, r) == NewRestClient(r)
\* The second of two clusters with one id is left out.
Registers(profiles, r) == NewRestClient(r) /\ r.context \notin Ids(profiles)

NewMultiClusterBackend(resolved) ==
    LET profiles[n \in 0..Len(resolved)] ==
            IF n = 0 THEN <<>>
            ELSE IF Registers(profiles[n - 1], resolved[n])
                 THEN Append(profiles[n - 1], profileFromCluster(resolved[n]))
                 ELSE profiles[n - 1]
    IN  profiles[Len(resolved)]
=============================================================================
