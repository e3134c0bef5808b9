-------------------------- MODULE ApprovalsProofs --------------------------
(***************************************************************************)
(* Proofs about Approvals for every set of ids, handlers, identities,      *)
(* clusters and mutations, every TTL, retention and policy.                *)
(*                                                                         *)
(* The inductive invariant says, besides the types, who owns an approved   *)
(* record (HandlerInv, OneHolder) and how often each request has run given *)
(* its phase (RequestInv); the properties of Approvals follow from it.     *)
(***************************************************************************)
EXTENDS Approvals, TLAPS

\* h is between Approve and Complete and the store still has its record.
Holds(h) ==
    LET r == hs[h].req IN
    /\ hs[h].rid \in issued
    /\ r \in PendingRequest
    /\ reqs[hs[h].rid] = r
    /\ r.phase = "approved"
    /\ r.cluster = hs[h].cluster
    /\ r.approver # NoOne /\ r.approver # r.requester

HandlerInv(h) ==
    /\ hs[h].pc = "parking" => hs[h].req \in PendingRequest /\ hs[h].req.phase = "pending"
    /\ hs[h].pc \in {"approving", "rejecting"} =>
          /\ hs[h].rid \in issued
          /\ hs[h].pc = "approving" => hs[h].who \in Identities
          /\ reqs[hs[h].rid] # NoRequest => reqs[hs[h].rid].cluster = hs[h].cluster
    /\ hs[h].pc = "executing" => Holds(h) /\ runs[hs[h].rid] = 0
    /\ hs[h].pc = "executed"  => /\ Holds(h) /\ runs[hs[h].rid] = 1
                                 /\ [rid |-> hs[h].rid, what |-> "executed"] \in audited

\* Two handlers never execute the same request.
OneHolder ==
    \A g, h \in Handlers :
        /\ hs[g].pc \in {"executing", "executed"} /\ hs[h].pc \in {"executing", "executed"}
        /\ hs[g].rid = hs[h].rid
        => g = h

RequestInv(id) ==
    /\ runs[id] <= 1
    /\ id \notin issued => reqs[id] = NoRequest /\ runs[id] = 0
    /\ reqs[id] # NoRequest =>
          /\ reqs[id].phase \in {"pending", "rejected", "expired"} => runs[id] = 0
          /\ reqs[id].phase \in {"succeeded", "failed"} =>
                runs[id] = 1 /\ [rid |-> id, what |-> "executed"] \in audited

\* What a gated execution carries.
SecondPerson ==
    \A e \in execs : Parks(e.mut) => /\ e.rid # NoId
                                     /\ e.requester # e.approver
                                     /\ e.approver # NoOne

IInv ==
    /\ TypeOK
    /\ \A h \in Handlers : HandlerInv(h)
    /\ OneHolder
    /\ \A id \in Ids : RequestInv(id)
    /\ SecondPerson

-----------------------------------------------------------------------------
(* What lazy expiry and the sweep do to one record. *)

\* Lazy expiry keeps a record's identity and touches only an overdue pending one.
LEMMA ExpiredLemma ==
    ASSUME NEW r \in PendingRequest, NEW now \in Nat, clock' \in Nat
    PROVE  /\ Expired(r, now) \in PendingRequest
           /\ Expired(r, now).cluster = r.cluster /\ Expired(r, now).requester = r.requester
           /\ Expired(r, now).mut = r.mut /\ Expired(r, now).approver = r.approver
           /\ r.phase # "pending" => Expired(r, now) = r
           /\ r.phase = "pending" => \/ Expired(r, now) = r
                                     \/ /\ Expired(r, now).phase = "expired"
                                        /\ now >= r.expiresAt
<1>1. CASE Overdue(r, now)
  <2> DEFINE e == [r EXCEPT !.phase = "expired", !.updatedAt = clock']
  <2>1. Expired(r, now) = e
    BY <1>1 DEF Expired
  <2>2. /\ e \in PendingRequest /\ e.cluster = r.cluster /\ e.requester = r.requester
        /\ e.mut = r.mut /\ e.approver = r.approver /\ e.phase = "expired"
    BY DEF PendingRequest, Phases, Terminal
  <2> HIDE DEF e
  <2>3. r.phase = "pending" /\ now >= r.expiresAt
    BY <1>1 DEF Overdue
  <2>4. QED BY <2>1, <2>2, <2>3
<1>2. CASE ~Overdue(r, now)
  <2>1. Expired(r, now) = r
    BY <1>2 DEF Expired
  <2>2. QED BY <2>1
<1>3. QED BY <1>1, <1>2

\* Readings of the clock are numbers.
LEMMA ElapsesLemma == ASSUME Elapses PROVE clock' \in Nat
BY ApprovalsAssumption DEF Elapses

\* The step an operation that only expires and sweeps may make of one request.
Settles(id) ==
    \/ reqs'[id] = reqs[id]
    \/ /\ reqs[id] # NoRequest /\ reqs[id].phase = "pending"
       /\ reqs'[id] \in PendingRequest /\ reqs'[id].phase = "expired"
       /\ reqs'[id].cluster = reqs[id].cluster
       /\ reqs'[id].requester = reqs[id].requester
       /\ reqs'[id].approver = reqs[id].approver
       /\ reqs'[id].mut = reqs[id].mut
    \/ /\ reqs[id] # NoRequest /\ reqs[id].phase \in Terminal \cup {"pending"}
       /\ reqs'[id] = NoRequest

\* A request expires only at a reading that reached its deadline.
Ripe(id) ==
    reqs[id] # NoRequest /\ reqs[id].phase = "pending" /\ reqs'[id] # reqs[id] =>
        clock >= reqs[id].expiresAt \/ clock' >= reqs[id].expiresAt

\* Get of one request (expireLocked) only settles the store.
LEMMA ExpireSettles ==
    ASSUME TypeOK, NEW i \in Ids, expireLocked(i)
    PROVE  /\ clock' \in Nat
           /\ reqs' \in [Ids -> PendingRequest \cup {NoRequest}]
           /\ \A id \in Ids : Settles(id) /\ Ripe(id)
<1>0. clock \in Nat
  BY DEF TypeOK
<1>1. CASE Known(i) /\ Overdue(reqs[i], clock)
  <2>1. /\ reqs[i] \in PendingRequest /\ reqs[i] # NoRequest
        /\ reqs' = [reqs EXCEPT ![i] = Expired(reqs[i], clock)]
        /\ clock' \in Nat
    BY <1>1, ElapsesLemma DEF TypeOK, Known, expireLocked
  <2>2. Expired(reqs[i], clock) \in PendingRequest
    BY <1>0, <2>1, ExpiredLemma
  <2>3. reqs' \in [Ids -> PendingRequest \cup {NoRequest}]
    BY <2>1, <2>2 DEF TypeOK
  <2>4. ASSUME NEW id \in Ids PROVE Settles(id) /\ Ripe(id)
    <3>1. CASE id # i
      BY <3>1, <2>1 DEF Settles, Ripe, TypeOK
    <3>2. CASE id = i
      <4>1. reqs'[id] = Expired(reqs[i], clock)
        BY <3>2, <2>1 DEF TypeOK
      <4>2. Settles(id)
        BY <4>1, <3>2, <1>0, <2>1, ExpiredLemma DEF Settles
      <4>3. Ripe(id)
        BY <1>1, <3>2 DEF Ripe, Overdue
      <4>4. QED BY <4>2, <4>3
    <3>3. QED BY <3>1, <3>2
  <2>5. QED BY <2>1, <2>3, <2>4
<1>2. CASE ~(Known(i) /\ Overdue(reqs[i], clock))
  <2>1. clock' = clock /\ reqs' = reqs
    BY <1>2 DEF expireLocked
  <2>2. QED BY <1>0, <2>1 DEF TypeOK, Settles, Ripe
<1>3. QED BY <1>1, <1>2

\* What a sweep makes of one request: with a clock stepped back, it can expire
\* and drop it at once.
SweepsTo(id, new) ==
    \/ new = reqs[id]
    \/ /\ reqs[id] # NoRequest /\ reqs[id].phase \in Terminal
       /\ new = NoRequest
    \/ /\ reqs[id] # NoRequest /\ reqs[id].phase = "pending"
       /\ clock >= reqs[id].expiresAt \/ clock' >= reqs[id].expiresAt
       /\ \/ new = NoRequest
          \/ /\ new \in PendingRequest /\ new.phase = "expired"
             /\ new.cluster = reqs[id].cluster
             /\ new.requester = reqs[id].requester
             /\ new.approver = reqs[id].approver
             /\ new.mut = reqs[id].mut

\* sweepLocked, which Park and List run, only settles the store.
LEMMA SweepSettles ==
    ASSUME TypeOK, clock' \in Nat, NEW seen \in Sweeps
    PROVE  /\ sweepLocked(seen) \in [Ids -> PendingRequest \cup {NoRequest}]
           /\ \A id \in Ids : SweepsTo(id, sweepLocked(seen)[id])
<1> DEFINE swept == sweepLocked(seen)
<1>1. ASSUME NEW id \in Ids
      PROVE  /\ swept[id] \in PendingRequest \cup {NoRequest}
             /\ SweepsTo(id, swept[id])
  <2> DEFINE e == Expired(reqs[id], seen[id])
  <2>1. swept[id] = IF reqs[id] # NoRequest /\ ~Outdated(e) THEN e ELSE NoRequest
    BY DEF sweepLocked, Known
  <2>2. seen[id] \in {clock, clock'} /\ clock \in Nat
    BY DEF Sweeps, TypeOK
  <2>3. CASE reqs[id] = NoRequest
    <3>1. swept[id] = NoRequest
      BY <2>1, <2>3
    <3> HIDE DEF swept
    <3>2. QED BY <2>3, <3>1 DEF SweepsTo
  <2>4. CASE reqs[id] # NoRequest
    <3>1. reqs[id] \in PendingRequest /\ seen[id] \in Nat
      BY <2>2, <2>4 DEF TypeOK
    <3>2. /\ e \in PendingRequest
          /\ e.cluster = reqs[id].cluster /\ e.requester = reqs[id].requester
          /\ e.mut = reqs[id].mut /\ e.approver = reqs[id].approver
          /\ reqs[id].phase # "pending" => e = reqs[id]
          /\ reqs[id].phase = "pending" =>
                e = reqs[id] \/ (e.phase = "expired" /\ seen[id] >= reqs[id].expiresAt)
      BY <3>1, ExpiredLemma
    <3> HIDE DEF e
    <3>3. Outdated(e) => e.phase \in Terminal
      BY DEF Outdated
    <3>4. swept[id] = e \/ (swept[id] = NoRequest /\ e.phase \in Terminal)
      BY <2>1, <2>4, <3>3
    <3> HIDE DEF swept
    <3>5. CASE reqs[id].phase # "pending" \/ e = reqs[id]
      BY <2>4, <3>1, <3>2, <3>4, <3>5 DEF SweepsTo, Terminal
    <3>6. CASE /\ reqs[id].phase = "pending" /\ e.phase = "expired"
               /\ seen[id] >= reqs[id].expiresAt
      BY <2>2, <2>4, <3>2, <3>4, <3>6 DEF SweepsTo
    <3>7. swept[id] \in PendingRequest \cup {NoRequest}
      BY <3>2, <3>4
    <3>8. QED BY <3>2, <3>5, <3>6, <3>7
  <2>5. QED BY <2>3, <2>4
<1>2. swept = [id \in Ids |-> swept[id]]
  BY DEF sweepLocked
<1>3. QED BY <1>1, <1>2

-----------------------------------------------------------------------------
(* The inductive invariant. *)

\* A step that runs nothing, lets requests only settle, and leaves each handler
\* alone, ends it, or starts it on a request of its own cluster.
LEMMA QuietStep ==
    ASSUME IInv, TypeOK',
           \A id \in Ids : Settles(id),
           issued' = issued, runs' = runs, execs' = execs, audited \subseteq audited',
           \A h \in Handlers :
              \/ hs'[h] = hs[h]
              \/ hs'[h].pc = "idle"
              \/ /\ hs'[h].pc \in {"approving", "rejecting"}
                 /\ hs'[h].rid \in issued
                 /\ hs'[h].pc = "approving" => hs'[h].who \in Identities
                 /\ reqs'[hs'[h].rid] # NoRequest
                       => reqs'[hs'[h].rid].cluster = hs'[h].cluster
    PROVE  IInv'
<1>1. ASSUME NEW h \in Handlers PROVE HandlerInv(h)'
  <2>0. HandlerInv(h) /\ issued \subseteq Ids
    BY DEF IInv, TypeOK
  <2>1. CASE hs'[h] = hs[h]
    <3>1. CASE hs[h].pc \in {"executing", "executed"}
      <4>1. Holds(h)
        BY <2>0, <3>1 DEF HandlerInv
      <4>2. reqs[hs[h].rid] # NoRequest
        BY <4>1, NoRequestAssumption DEF Holds
      <4>3. reqs'[hs[h].rid] = reqs[hs[h].rid]
        BY <4>1, <4>2, <2>0 DEF Holds, Settles, Terminal
      <4>4. Holds(h)'
        BY <4>1, <4>3, <2>1 DEF Holds
      <4>5. QED
        BY <2>0, <2>1, <3>1, <4>4 DEF HandlerInv
    <3>2. CASE hs[h].pc \in {"approving", "rejecting"}
      <4>1. hs[h].rid \in Ids /\ hs[h].rid \in issued
        BY <2>0, <3>2 DEF HandlerInv
      <4>2. reqs'[hs[h].rid] # NoRequest => reqs'[hs[h].rid].cluster = hs[h].cluster
        BY <4>1, <2>0, <3>2 DEF HandlerInv, Settles
      <4>3. QED
        BY <2>0, <2>1, <3>2, <4>1, <4>2 DEF HandlerInv
    <3>3. CASE hs[h].pc \in {"idle", "parking"}
      BY <2>0, <2>1, <3>3 DEF HandlerInv
    <3>4. QED
      BY <3>1, <3>2, <3>3 DEF IInv, TypeOK, HandlerState
  <2>2. CASE hs'[h].pc = "idle"
    BY <2>2 DEF HandlerInv
  <2>3. CASE /\ hs'[h].pc \in {"approving", "rejecting"}
             /\ hs'[h].rid \in issued
             /\ hs'[h].pc = "approving" => hs'[h].who \in Identities
             /\ reqs'[hs'[h].rid] # NoRequest => reqs'[hs'[h].rid].cluster = hs'[h].cluster
    BY <2>3 DEF HandlerInv
  <2>4. QED BY <2>1, <2>2, <2>3
<1>2. OneHolder'
  <2> SUFFICES ASSUME NEW g \in Handlers, NEW h \in Handlers,
                      hs'[g].pc \in {"executing", "executed"},
                      hs'[h].pc \in {"executing", "executed"},
                      hs'[g].rid = hs'[h].rid
               PROVE  g = h
    BY DEF OneHolder
  <2>1. hs'[g] = hs[g] /\ hs'[h] = hs[h]
    OBVIOUS
  <2>2. QED BY <2>1 DEF IInv, OneHolder
<1>3. ASSUME NEW id \in Ids PROVE RequestInv(id)'
  <2>1. RequestInv(id) /\ Settles(id)
    BY DEF IInv
  <2>2. CASE reqs'[id] = reqs[id]
    BY <2>1, <2>2 DEF RequestInv
  <2>3. CASE reqs[id] # NoRequest /\ reqs[id].phase = "pending" /\ reqs'[id].phase = "expired"
    BY <2>1, <2>3 DEF RequestInv
  <2>4. CASE reqs'[id] = NoRequest
    BY <2>1, <2>4 DEF RequestInv, Settles
  <2>5. QED BY <2>1, <2>2, <2>3, <2>4 DEF Settles
<1>4. SecondPerson'
  BY DEF IInv, SecondPerson
<1>5. QED BY <1>1, <1>2, <1>3, <1>4 DEF IInv

\* A finished handler has the type of a handler state.
LEMMA IdleType == Idle \in HandlerState /\ Idle.pc = "idle"
BY DEF Idle, HandlerState

\* Init establishes the invariant.
LEMMA InitIInv == Init => IInv
<1> SUFFICES ASSUME Init PROVE IInv
  OBVIOUS
<1>1. TypeOK
  BY IdleType, ApprovalsAssumption DEF Init, TypeOK
<1>2. \A h \in Handlers : hs[h].pc = "idle"
  BY IdleType DEF Init
<1>3. \A h \in Handlers : HandlerInv(h)
  BY <1>2 DEF HandlerInv
<1>4. OneHolder
  BY <1>2 DEF OneHolder
<1>5. \A id \in Ids : RequestInv(id)
  BY DEF Init, RequestInv
<1>6. SecondPerson
  BY DEF Init, SecondPerson
<1>7. QED BY <1>1, <1>3, <1>4, <1>5, <1>6 DEF IInv

\* A mutation answered 400 or 403 preserves the invariant.
LEMMA MutateRefusedIInv ==
    ASSUME IInv, NEW h \in Handlers, NEW m \in Mutations, MutateRefused(h, m)
    PROVE  IInv'
<1>1. TypeOK'
  BY DEF IInv, TypeOK, MutateRefused, Audit, AuditEntry
<1>2. QED BY <1>1, QuietStep DEF MutateRefused, Audit, Settles

\* handleApprove's 403 without accepted tokens preserves the invariant.
LEMMA ApproveWithoutAuthIInv ==
    ASSUME IInv, NEW h \in Handlers, NEW id \in Ids, ApproveWithoutAuth(h, id)
    PROVE  IInv'
<1>1. TypeOK'
  BY DEF IInv, TypeOK, ApproveWithoutAuth, Audit, AuditEntry
<1>2. QED BY <1>1, QuietStep DEF ApproveWithoutAuth, Audit, Settles

\* A step of the wall clock, backwards too, preserves the invariant.
LEMMA ClockStepIInv == ASSUME IInv, ClockStep PROVE IInv'
<1>1. TypeOK'
  BY ElapsesLemma DEF IInv, TypeOK, ClockStep, history
<1>2. QED BY <1>1, QuietStep DEF ClockStep, history, Settles

\* handleGetApproval preserves the invariant.
LEMMA GetApprovalIInv == ASSUME IInv, NEW id \in Ids, GetApproval(id) PROVE IInv'
<1>1. TypeOK /\ expireLocked(id)
  BY DEF IInv, GetApproval
<1>2. /\ clock' \in Nat /\ reqs' \in [Ids -> PendingRequest \cup {NoRequest}]
      /\ \A i \in Ids : Settles(i)
  BY <1>1, ExpireSettles
<1>3. TypeOK'
  BY <1>1, <1>2 DEF TypeOK, GetApproval, history
<1>4. QED BY <1>2, <1>3, QuietStep DEF GetApproval, history

\* A store that is only swept settles.
LEMMA SweptSettles ==
    ASSUME TypeOK, Elapses, NEW seen \in Sweeps, NEW id \in Ids,
           reqs'[id] = sweepLocked(seen)[id]
    PROVE  Settles(id) /\ Ripe(id)
<1>1. SweepsTo(id, reqs'[id])
  BY ElapsesLemma, SweepSettles
<1>2. QED BY <1>1 DEF SweepsTo, Settles, Ripe, Terminal

\* handleListApprovals, with its sweep, preserves the invariant.
LEMMA ListApprovalsIInv == ASSUME IInv, ListApprovals PROVE IInv'
<1>1. PICK seen \in Sweeps : reqs' = sweepLocked(seen)
  BY DEF ListApprovals
<1>2. TypeOK /\ Elapses /\ clock' \in Nat
  BY ElapsesLemma DEF IInv, ListApprovals
<1>3. reqs' \in [Ids -> PendingRequest \cup {NoRequest}] /\ \A i \in Ids : Settles(i)
  BY <1>1, <1>2, SweepSettles, SweptSettles
<1>4. TypeOK'
  BY <1>2, <1>3 DEF TypeOK, ListApprovals, history
<1>5. QED BY <1>3, <1>4, QuietStep DEF ListApprovals, history

\* The lookups: the request, if known, is expired if overdue, and the handler
\* goes on only if the request is its cluster's.
LEMMA LookupIInv ==
    ASSUME IInv, NEW h \in Handlers, NEW c \in Clusters, NEW id \in Ids,
           NEW go \in HandlerState,
           go.pc \in {"approving", "rejecting"}, go.rid = id, go.cluster = c,
           go.pc = "approving" => go.who \in Identities,
           expireLocked(id),
           \/ UNCHANGED hs
           \/ Owned(id, c) /\ hs' = [hs EXCEPT ![h] = go],
           UNCHANGED <<issued, runs, execs, audited>>,
           auth' = auth
    PROVE  IInv'
<1>1. TypeOK
  BY DEF IInv
<1>2. /\ clock' \in Nat /\ reqs' \in [Ids -> PendingRequest \cup {NoRequest}]
      /\ \A i \in Ids : Settles(i)
  BY <1>1, ExpireSettles
<1>3. CASE UNCHANGED hs
  <2>1. TypeOK'
    BY <1>1, <1>2, <1>3 DEF TypeOK
  <2>2. QED BY <1>2, <1>3, <2>1, QuietStep
<1>4. CASE Owned(id, c) /\ hs' = [hs EXCEPT ![h] = go]
  <2>1. TypeOK'
    BY <1>1, <1>2, <1>4 DEF TypeOK
  <2>2. id \in issued
    BY <1>4 DEF IInv, RequestInv, Owned, Known
  <2>3. reqs'[id] # NoRequest => reqs'[id].cluster = c
    BY <1>2, <1>4 DEF Owned, Settles
  <2>4. hs'[h] = go /\ \A g \in Handlers : g # h => hs'[g] = hs[g]
    BY <1>1, <1>4 DEF TypeOK
  <2>5. \A g \in Handlers :
              \/ hs'[g] = hs[g]
              \/ hs'[g].pc = "idle"
              \/ /\ hs'[g].pc \in {"approving", "rejecting"}
                 /\ hs'[g].rid \in issued
                 /\ hs'[g].pc = "approving" => hs'[g].who \in Identities
                 /\ reqs'[hs'[g].rid] # NoRequest
                       => reqs'[hs'[g].rid].cluster = hs'[g].cluster
    BY <2>2, <2>3, <2>4
  <2>6. QED BY <1>2, <2>1, <2>5, QuietStep
<1>5. QED BY <1>3, <1>4

\* handleApprove's ownership lookup preserves the invariant.
LEMMA ApproveLookupIInv ==
    ASSUME IInv, NEW h \in Handlers, NEW who \in Identities, NEW c \in Clusters,
           NEW id \in Ids, ApproveLookup(h, who, c, id)
    PROVE  IInv'
<1> DEFINE go == [Idle EXCEPT !.pc = "approving", !.rid = id, !.who = who, !.cluster = c]
<1>1. /\ go \in HandlerState /\ go.pc = "approving" /\ go.rid = id
      /\ go.who = who /\ go.cluster = c
  BY DEF Idle, HandlerState
<1>2. /\ expireLocked(id) /\ auth' = auth
      /\ UNCHANGED hs \/ (Owned(id, c) /\ hs' = [hs EXCEPT ![h] = go])
      /\ UNCHANGED <<issued, runs, execs, audited>>
  BY DEF ApproveLookup, history
<1> HIDE DEF go
<1>3. QED BY <1>1, <1>2, LookupIInv

\* handleReject's ownership lookup preserves the invariant.
LEMMA RejectLookupIInv ==
    ASSUME IInv, NEW h \in Handlers, NEW c \in Clusters, NEW id \in Ids,
           RejectLookup(h, c, id)
    PROVE  IInv'
<1> DEFINE go == [Idle EXCEPT !.pc = "rejecting", !.rid = id, !.cluster = c]
<1>1. /\ go \in HandlerState /\ go.pc = "rejecting" /\ go.rid = id
      /\ go.cluster = c
  BY DEF Idle, HandlerState
<1>2. /\ expireLocked(id) /\ auth' = auth
      /\ UNCHANGED hs \/ (Owned(id, c) /\ hs' = [hs EXCEPT ![h] = go])
      /\ UNCHANGED <<issued, runs, execs, audited>>
  BY DEF RejectLookup, history
<1> HIDE DEF go
<1>3. QED BY <1>1, <1>2, LookupIInv

\* A handler the step leaves alone keeps its invariant if what it executes is
\* untouched and what it looked up still belongs to its cluster.
LEMMA UntouchedHandler ==
    ASSUME IInv, NEW g \in Handlers, hs'[g] = hs[g],
           issued \subseteq issued', audited \subseteq audited',
           hs[g].pc \in {"executing", "executed"} =>
              reqs'[hs[g].rid] = reqs[hs[g].rid] /\ runs'[hs[g].rid] = runs[hs[g].rid],
           hs[g].pc \in {"approving", "rejecting"} =>
              (reqs'[hs[g].rid] # NoRequest => reqs'[hs[g].rid].cluster = hs[g].cluster)
    PROVE  HandlerInv(g)'
<1>0. HandlerInv(g)
  BY DEF IInv
<1>1. CASE hs[g].pc \in {"executing", "executed"}
  <2>1. Holds(g)
    BY <1>0, <1>1 DEF HandlerInv
  <2>2. Holds(g)'
    BY <1>1, <2>1 DEF Holds
  <2>3. QED BY <1>0, <1>1, <2>2 DEF HandlerInv
<1>2. CASE hs[g].pc \in {"approving", "rejecting"}
  BY <1>0, <1>2 DEF HandlerInv
<1>3. CASE hs[g].pc \in {"idle", "parking"}
  BY <1>0, <1>3 DEF HandlerInv
<1>4. QED BY <1>1, <1>2, <1>3 DEF IInv, TypeOK, HandlerState

\* A mutation that needs no approval, executed inline, preserves the invariant.
LEMMA MutateInlineIInv ==
    ASSUME IInv, NEW h \in Handlers, NEW m \in Mutations, MutateInline(h, m)
    PROVE  IInv'
<1> DEFINE e == [rid |-> NoId, mut |-> m, cluster |-> NoCluster, requester |-> NoOne,
                 approver |-> NoOne]
<1>1. e \in Execution /\ e.mut = m
  BY DEF Execution
<1>2. execs' = execs \cup {e} /\ ~Parks(m)
  BY DEF MutateInline
<1> HIDE DEF e
<1>3. TypeOK'
  BY <1>1, <1>2 DEF IInv, TypeOK, MutateInline, Audit, AuditEntry
<1>4. audited \subseteq audited' /\ UNCHANGED <<reqs, hs, issued, runs>>
  BY DEF MutateInline, Audit
<1>5. \A g \in Handlers : HandlerInv(g)'
  <2> SUFFICES ASSUME NEW g \in Handlers PROVE HandlerInv(g)'
    OBVIOUS
  <2>1. HandlerInv(g)
    BY DEF IInv
  <2>2. QED BY <1>4, <2>1 DEF HandlerInv, Holds
<1>6. OneHolder'
  BY <1>4 DEF IInv, OneHolder
<1>7. \A id \in Ids : RequestInv(id)'
  BY <1>4 DEF IInv, RequestInv
<1>8. SecondPerson'
  BY <1>1, <1>2 DEF IInv, SecondPerson, Parks, Requires
<1>9. QED BY <1>3, <1>5, <1>6, <1>7, <1>8 DEF IInv

\* Park, up to the lock, preserves the invariant.
LEMMA ParkBuildIInv ==
    ASSUME IInv, NEW h \in Handlers, NEW who \in Identities, NEW c \in Clusters,
           NEW m \in Mutations, ParkBuild(h, who, c, m)
    PROVE  IInv'
<1> DEFINE r == [phase |-> "pending", mut |-> m, cluster |-> c,
                 requester |-> who, approver |-> NoOne,
                 updatedAt |-> clock, expiresAt |-> clock + TTL]
           s == [Idle EXCEPT !.pc = "parking", !.who = who, !.cluster = c, !.req = r]
<1>1. clock \in Nat /\ TTL \in Nat
  BY ApprovalsAssumption DEF IInv, TypeOK
<1>2. r \in PendingRequest /\ r.phase = "pending"
  BY <1>1 DEF PendingRequest, Phases
<1>3. hs' = [hs EXCEPT ![h] = s]
  BY DEF ParkBuild
<1> HIDE DEF r
<1>4. s \in HandlerState /\ s.pc = "parking" /\ s.req = r
  BY <1>2 DEF Idle, HandlerState
<1> HIDE DEF s
<1>5. UNCHANGED <<clock, reqs, issued, runs, execs, audited, auth>>
  BY DEF ParkBuild, history
<1>6. TypeOK'
  BY <1>3, <1>4, <1>5 DEF IInv, TypeOK
<1>7. hs'[h] = s /\ \A g \in Handlers : g # h => hs'[g] = hs[g]
  BY <1>3 DEF IInv, TypeOK
<1>8. HandlerInv(h)'
  BY <1>2, <1>4, <1>7 DEF HandlerInv
<1>9. ASSUME NEW g \in Handlers, g # h PROVE HandlerInv(g)'
  <2>1. HandlerInv(g) /\ hs'[g] = hs[g]
    BY <1>7, <1>9 DEF IInv
  <2>2. QED BY <1>5, <2>1 DEF HandlerInv, Holds
<1>10. OneHolder'
  BY <1>4, <1>7 DEF IInv, OneHolder
<1>11. \A id \in Ids : RequestInv(id)'
  BY <1>5 DEF IInv, RequestInv
<1>12. SecondPerson'
  BY <1>5 DEF IInv, SecondPerson
<1>13. QED BY <1>6, <1>8, <1>9, <1>10, <1>11, <1>12 DEF IInv

\* Park under the lock: the sweep, then a fresh id, preserves the invariant.
LEMMA ParkInsertIInv ==
    ASSUME IInv, NEW h \in Handlers, NEW id \in Ids, ParkInsert(h, id)
    PROVE  IInv'
<1>1. TypeOK /\ HandlerInv(h) /\ RequestInv(id)
  BY DEF IInv
<1>2. hs[h].req \in PendingRequest /\ hs[h].req.phase = "pending"
  BY <1>1 DEF ParkInsert, HandlerInv
<1>0. PICK seen \in Sweeps : reqs' = [sweepLocked(seen) EXCEPT ![id] = hs[h].req]
  BY DEF ParkInsert
<1>3. /\ Elapses /\ clock' \in Nat
      /\ sweepLocked(seen) \in [Ids -> PendingRequest \cup {NoRequest}]
  BY <1>1, ElapsesLemma, SweepSettles DEF ParkInsert
<1>4. /\ reqs' = [sweepLocked(seen) EXCEPT ![id] = hs[h].req]
      /\ hs' = [hs EXCEPT ![h] = Idle]
      /\ issued' = issued \cup {id}
      /\ audited' = audited \cup {[rid |-> id, what |-> "parked"]}
      /\ UNCHANGED <<runs, execs, auth>>
      /\ id \notin issued
  BY <1>0 DEF ParkInsert, Audit
<1>5. TypeOK'
  BY <1>1, <1>2, <1>3, <1>4, IdleType DEF TypeOK, AuditEntry
<1>6. reqs'[id] = hs[h].req /\ \A i \in Ids : i # id => reqs'[i] = sweepLocked(seen)[i]
  BY <1>3, <1>4
<1>7. ASSUME NEW i \in Ids, i # id PROVE Settles(i)
  BY <1>1, <1>3, <1>6, <1>7, SweptSettles
<1>8. hs'[h] = Idle /\ \A g \in Handlers : g # h => hs'[g] = hs[g]
  BY <1>1, <1>4 DEF TypeOK
<1>9. HandlerInv(h)'
  BY <1>8, IdleType DEF HandlerInv
<1>10. ASSUME NEW g \in Handlers, g # h PROVE HandlerInv(g)'
  <2>1. HandlerInv(g) /\ hs'[g] = hs[g]
    BY <1>8, <1>10 DEF IInv
  <2>2. CASE hs[g].pc \in {"executing", "executed"}
    <3>1. Holds(g)
      BY <2>1, <2>2 DEF HandlerInv
    <3>2. hs[g].rid \in Ids /\ hs[g].rid # id
      BY <3>1, <1>1, <1>4 DEF Holds, TypeOK
    <3>3. reqs[hs[g].rid] # NoRequest /\ reqs[hs[g].rid].phase = "approved"
      BY <3>1, NoRequestAssumption DEF Holds
    <3>4. reqs'[hs[g].rid] = reqs[hs[g].rid]
      BY <3>2, <3>3, <1>7 DEF Settles, Terminal
    <3>5. QED BY <2>1, <2>2, <3>4, <1>4, UntouchedHandler
  <2>3. CASE hs[g].pc \in {"approving", "rejecting"}
    <3>1. hs[g].rid \in Ids /\ hs[g].rid # id
      BY <2>1, <2>3, <1>1, <1>4 DEF HandlerInv, TypeOK
    <3>2. reqs'[hs[g].rid] # NoRequest => reqs'[hs[g].rid].cluster = hs[g].cluster
      BY <2>1, <2>3, <3>1, <1>7 DEF Settles, HandlerInv
    <3>3. QED BY <2>1, <2>3, <3>2, <1>4, UntouchedHandler
  <2>4. CASE hs[g].pc \notin {"executing", "executed", "approving", "rejecting"}
    BY <2>1, <2>4, <1>4, UntouchedHandler
  <2>5. QED BY <2>2, <2>3, <2>4
<1>11. OneHolder'
  BY <1>8, IdleType DEF IInv, OneHolder
<1>12. ASSUME NEW i \in Ids PROVE RequestInv(i)'
  <2>1. CASE i = id
    BY <2>1, <1>1, <1>2, <1>4, <1>6 DEF RequestInv
  <2>2. CASE i # id
    <3>1. RequestInv(i) /\ Settles(i)
      BY <2>2, <1>7 DEF IInv
    <3>2. QED BY <2>2, <3>1, <1>4 DEF RequestInv, Settles
  <2>3. QED BY <2>1, <2>2
<1>13. SecondPerson'
  BY <1>4 DEF IInv, SecondPerson
<1>14. QED BY <1>5, <1>9, <1>10, <1>11, <1>12, <1>13 DEF IInv

\* Approve and Reject that refuse: a lookup with nothing else.
LEMMA RefusedIInv ==
    ASSUME IInv, NEW h \in Handlers, NEW id \in Ids,
           expireLocked(id),
           hs' = [hs EXCEPT ![h] = Idle],
           Audit(NoId, "refused"),
           UNCHANGED <<issued, runs, execs, auth>>
    PROVE  IInv'
<1>1. TypeOK
  BY DEF IInv
<1>2. /\ clock' \in Nat /\ reqs' \in [Ids -> PendingRequest \cup {NoRequest}]
      /\ \A i \in Ids : Settles(i)
  BY <1>1, ExpireSettles
<1>3. TypeOK' /\ audited \subseteq audited'
  BY <1>1, <1>2, IdleType DEF TypeOK, Audit, AuditEntry
<1>4. \A g \in Handlers : hs'[g] = hs[g] \/ hs'[g].pc = "idle"
  BY <1>1, IdleType DEF TypeOK
<1>5. QED BY <1>2, <1>3, <1>4, QuietStep

\* ApprovalStore.Approve, granting or refusing, preserves the invariant.
LEMMA ApproveIInv ==
    ASSUME IInv, NEW h \in Handlers, Approve(h)
    PROVE  IInv'
<1> DEFINE id == hs[h].rid
           who == hs[h].who
<1>1. TypeOK /\ HandlerInv(h) /\ hs[h].pc = "approving"
  BY DEF IInv, Approve
<1>2. id \in issued /\ id \in Ids /\ who \in Identities
  BY <1>1 DEF HandlerInv, TypeOK
<1>3. CASE ~MayApprove(id, who)
  BY <1>2, <1>3, RefusedIInv DEF Approve
<1>4. CASE MayApprove(id, who)
  <2> DEFINE r == [reqs[id] EXCEPT !.phase = "approved", !.approver = who, !.updatedAt = clock']
             s == [hs[h] EXCEPT !.pc = "executing", !.req = r]
  <2>1. /\ reqs[id] \in PendingRequest /\ reqs[id] # NoRequest
        /\ reqs[id].phase = "pending"
        /\ reqs[id].requester # who /\ reqs[id].cluster = hs[h].cluster
        /\ clock' \in Nat
    <3>1. /\ reqs[id] # NoRequest /\ reqs[id].phase = "pending"
          /\ reqs[id].requester # who
      BY <1>4 DEF MayApprove, StillPending, Phase, Known
    <3>2. reqs[id] \in PendingRequest
      BY <1>1, <1>2, <3>1 DEF TypeOK
    <3>3. clock' \in Nat
      BY <1>4, ElapsesLemma DEF Approve
    <3>4. reqs[id].cluster = hs[h].cluster
      BY <1>1, <3>1 DEF HandlerInv
    <3>5. QED BY <3>1, <3>2, <3>3, <3>4
  <2>2. /\ r \in PendingRequest /\ r.phase = "approved" /\ r.approver = who
        /\ r.requester = reqs[id].requester /\ r.cluster = reqs[id].cluster
    BY <1>2, <2>1 DEF PendingRequest, Phases
  <2>3. reqs' = [reqs EXCEPT ![id] = r]
    BY <1>4 DEF Approve
  <2>4. reqs'[id] = r /\ \A i \in Ids : i # id => reqs'[i] = reqs[i]
    BY <1>1, <1>2, <2>3 DEF TypeOK
  <2>5. hs' = [hs EXCEPT ![h] = s]
    BY <1>4, <2>4 DEF Approve
  <2>6. UNCHANGED <<issued, runs, execs, audited, auth>>
    BY <1>4 DEF Approve
  <2> HIDE DEF r
  <2>7. /\ s \in HandlerState /\ s.pc = "executing" /\ s.req = r /\ s.rid = id
        /\ s.cluster = hs[h].cluster
    <3>1. hs[h] \in HandlerState
      BY <1>1 DEF TypeOK
    <3>2. s \in HandlerState
      BY <3>1, <2>2 DEF HandlerState
    <3>3. QED BY <3>1, <3>2 DEF HandlerState
  <2> HIDE DEF s
  <2>8. TypeOK'
    BY <1>1, <2>1, <2>2, <2>3, <2>5, <2>6, <2>7 DEF TypeOK
  <2>9. hs'[h] = s /\ \A g \in Handlers : g # h => hs'[g] = hs[g]
    BY <1>1, <2>5 DEF TypeOK
  <2>10. /\ runs[id] = 0
         /\ \A g \in Handlers : hs[g].pc \in {"executing", "executed"} => hs[g].rid # id
    <3>1. runs[id] = 0
      BY <1>2, <2>1 DEF IInv, RequestInv
    <3>2. ASSUME NEW g \in Handlers, hs[g].pc \in {"executing", "executed"} PROVE hs[g].rid # id
      <4>1. Holds(g)
        BY <3>2 DEF IInv, HandlerInv
      <4>2. QED BY <4>1, <2>1 DEF Holds
    <3>3. QED BY <3>1, <3>2
  <2>11. HandlerInv(h)'
    <3>1. Holds(h)'
      BY <1>2, <2>1, <2>2, <2>4, <2>6, <2>7, <2>9, ApprovalsAssumption DEF Holds
    <3>2. QED BY <2>6, <2>7, <2>9, <2>10, <3>1 DEF HandlerInv
  <2>12. ASSUME NEW g \in Handlers, g # h PROVE HandlerInv(g)'
    <3>1. HandlerInv(g) /\ hs'[g] = hs[g]
      BY <2>9, <2>12 DEF IInv
    <3>2. hs[g].pc \in {"executing", "executed"} =>
              reqs'[hs[g].rid] = reqs[hs[g].rid] /\ runs'[hs[g].rid] = runs[hs[g].rid]
      BY <1>1, <2>4, <2>6, <2>10, <3>1 DEF HandlerInv, Holds, TypeOK
    <3>3. hs[g].pc \in {"approving", "rejecting"} =>
              (reqs'[hs[g].rid] # NoRequest => reqs'[hs[g].rid].cluster = hs[g].cluster)
      BY <1>1, <2>1, <2>2, <2>4, <3>1 DEF HandlerInv, TypeOK
    <3>4. QED BY <2>6, <3>1, <3>2, <3>3, UntouchedHandler
  <2>13. OneHolder'
    BY <2>7, <2>9, <2>10 DEF IInv, OneHolder
  <2>14. ASSUME NEW i \in Ids PROVE RequestInv(i)'
    <3>1. RequestInv(i)
      BY DEF IInv
    <3>2. CASE i = id
      BY <1>2, <3>2, <3>1, <2>1, <2>2, <2>4, <2>6 DEF RequestInv
    <3>3. CASE i # id
      BY <3>1, <3>3, <2>4, <2>6 DEF RequestInv
    <3>4. QED BY <3>2, <3>3
  <2>15. SecondPerson'
    BY <2>6 DEF IInv, SecondPerson
  <2>16. QED BY <2>8, <2>11, <2>12, <2>13, <2>14, <2>15 DEF IInv
<1>5. QED BY <1>3, <1>4

\* Running an approved request: its handler either goes on to Complete, with
\* the audit entry written, or is gone (a panic).
LEMMA RunIInv ==
    ASSUME IInv, NEW h \in Handlers, NEW s \in HandlerState,
           hs[h].pc = "executing", Run(h),
           hs' = [hs EXCEPT ![h] = s],
           \/ s.pc = "idle"
           \/ /\ s.pc = "executed" /\ s.rid = hs[h].rid /\ s.req = hs[h].req
              /\ s.cluster = hs[h].cluster
              /\ [rid |-> hs[h].rid, what |-> "executed"] \in audited',
           audited \subseteq audited', audited' \subseteq AuditEntry,
           auth' = auth,
           UNCHANGED <<clock, reqs, issued>>
    PROVE  IInv'
<1> DEFINE id == hs[h].rid
           r == hs[h].req
           e == [rid |-> id, mut |-> r.mut, cluster |-> r.cluster,
                 requester |-> r.requester, approver |-> r.approver]
<1>1. TypeOK /\ HandlerInv(h)
  BY DEF IInv
<1>2. Holds(h) /\ runs[id] = 0
  BY <1>1 DEF HandlerInv
<1>3. id \in Ids /\ r \in PendingRequest /\ reqs[id] = r /\ reqs[id] # NoRequest
  BY <1>1, <1>2, NoRequestAssumption DEF Holds, TypeOK
<1>4. e \in Execution /\ e.rid = id /\ e.approver # NoOne /\ e.approver # e.requester
  BY <1>2, <1>3 DEF Execution, PendingRequest, Holds
<1>5. execs' = execs \cup {e} /\ runs' = [runs EXCEPT ![id] = @ + 1]
  BY DEF Run
<1> HIDE DEF e
<1>6. runs' \in [Ids -> Nat] /\ runs'[id] = 1 /\ \A i \in Ids : i # id => runs'[i] = runs[i]
  BY <1>1, <1>2, <1>3, <1>5 DEF TypeOK
<1>7. TypeOK'
  BY <1>1, <1>4, <1>5, <1>6 DEF TypeOK
<1>8. hs'[h] = s /\ \A g \in Handlers : g # h => hs'[g] = hs[g]
  BY <1>1 DEF TypeOK
<1>9. \A g \in Handlers : g # h /\ hs[g].pc \in {"executing", "executed"} => hs[g].rid # id
  BY DEF IInv, OneHolder
<1>10. HandlerInv(h)'
  <2>1. CASE s.pc = "idle"
    BY <2>1, <1>8 DEF HandlerInv
  <2>2. CASE s.pc = "executed"
    <3>1. Holds(h)'
      BY <2>2, <1>2, <1>8 DEF Holds
    <3>2. QED BY <2>2, <3>1, <1>6, <1>8 DEF HandlerInv
  <2>3. QED BY <2>1, <2>2
<1>11. ASSUME NEW g \in Handlers, g # h PROVE HandlerInv(g)'
  <2>1. HandlerInv(g) /\ hs'[g] = hs[g]
    BY <1>8, <1>11 DEF IInv
  <2>2. hs[g].pc \in {"executing", "executed"} => runs'[hs[g].rid] = runs[hs[g].rid]
    BY <1>1, <1>6, <1>9, <1>11, <2>1 DEF HandlerInv, Holds, TypeOK
  <2>3. hs[g].pc \in {"approving", "rejecting"} =>
              (reqs'[hs[g].rid] # NoRequest => reqs'[hs[g].rid].cluster = hs[g].cluster)
    BY <2>1 DEF HandlerInv
  <2>4. QED BY <2>1, <2>2, <2>3, UntouchedHandler
<1>12. OneHolder'
  BY <1>8, <1>9 DEF IInv, OneHolder
<1>13. ASSUME NEW i \in Ids PROVE RequestInv(i)'
  <2>1. RequestInv(i)
    BY DEF IInv
  <2>2. CASE i = id
    BY <2>1, <2>2, <1>2, <1>3, <1>6 DEF RequestInv, Holds
  <2>3. CASE i # id
    BY <2>1, <2>3, <1>6 DEF RequestInv
  <2>4. QED BY <2>2, <2>3
<1>14. SecondPerson'
  BY <1>3, <1>4, <1>5, ApprovalsAssumption DEF IInv, SecondPerson, Parks, Requires
<1>15. QED BY <1>7, <1>10, <1>11, <1>12, <1>13, <1>14 DEF IInv

\* executePending and its audit entry preserve the invariant.
LEMMA executePendingIInv ==
    ASSUME IInv, NEW h \in Handlers, NEW ok \in BOOLEAN, executePending(h, ok)
    PROVE  IInv'
<1> DEFINE s == [hs[h] EXCEPT !.pc = "executed", !.ok = ok]
           a == [rid |-> hs[h].rid, what |-> "executed"]
<1>1. TypeOK /\ hs[h] \in HandlerState
  BY DEF IInv, TypeOK
<1>2. /\ s \in HandlerState /\ s.pc = "executed" /\ s.rid = hs[h].rid
      /\ s.req = hs[h].req /\ s.cluster = hs[h].cluster
  BY <1>1 DEF HandlerState
<1>3. hs' = [hs EXCEPT ![h] = s]
  BY DEF executePending
<1>4. a \in AuditEntry
  BY <1>1 DEF HandlerState, AuditEntry
<1>5. audited' = audited \cup {a}
  BY DEF executePending, Audit
<1>6. /\ hs[h].pc = "executing" /\ Run(h) /\ UNCHANGED <<clock, reqs, issued>>
      /\ auth' = auth
  BY <1>1 DEF executePending, TypeOK
<1> HIDE DEF s
<1>7. QED BY <1>1, <1>2, <1>3, <1>4, <1>5, <1>6, RunIInv DEF TypeOK

\* A panic inside executePending preserves the invariant.
LEMMA ExecutePanicIInv ==
    ASSUME IInv, NEW h \in Handlers, ExecutePanic(h)
    PROVE  IInv'
<1>1. TypeOK
  BY DEF IInv
<1>2. /\ hs[h].pc = "executing" /\ Run(h) /\ UNCHANGED <<clock, reqs, issued, audited>>
      /\ hs' = [hs EXCEPT ![h] = Idle] /\ auth' = auth
  BY <1>1 DEF ExecutePanic, TypeOK
<1>3. QED BY <1>1, <1>2, IdleType, RunIInv DEF TypeOK

\* A handler resolves a request nobody executes any more, to a terminal phase.
Resolves(h, id, r) ==
    /\ reqs[id] # NoRequest /\ r \in PendingRequest
    /\ r.cluster = reqs[id].cluster /\ r.phase \in Terminal
    /\ reqs' = [reqs EXCEPT ![id] = r]
    /\ hs' = [hs EXCEPT ![h] = Idle]
    /\ \A g \in Handlers : g # h /\ hs[g].pc \in {"executing", "executed"} => hs[g].rid # id
    /\ \/ r.phase = "rejected" /\ runs[id] = 0
       \/ /\ r.phase \in {"succeeded", "failed"}
          /\ runs[id] = 1 /\ [rid |-> id, what |-> "executed"] \in audited
    /\ audited \subseteq audited' /\ audited' \subseteq AuditEntry
    /\ clock' \in Nat
    /\ UNCHANGED <<issued, runs, execs, auth>>

\* Moving one unheld request to a terminal phase, and ending its handler,
\* preserves the invariant.
LEMMA ResolveIInv ==
    ASSUME IInv, NEW h \in Handlers, NEW id \in Ids, NEW r, Resolves(h, id, r)
    PROVE  IInv'
<1> USE DEF Resolves
<1>1. TypeOK
  BY DEF IInv
<1>2. r # NoRequest
  BY NoRequestAssumption
<1>4. reqs'[id] = r /\ \A i \in Ids : i # id => reqs'[i] = reqs[i]
  BY <1>1 DEF TypeOK
<1>5. TypeOK'
  BY <1>1, IdleType DEF TypeOK
<1>6. hs'[h] = Idle /\ \A g \in Handlers : g # h => hs'[g] = hs[g]
  BY <1>1 DEF TypeOK
<1>7. HandlerInv(h)'
  BY <1>6, IdleType DEF HandlerInv
<1>8. ASSUME NEW g \in Handlers, g # h PROVE HandlerInv(g)'
  <2>1. HandlerInv(g) /\ hs'[g] = hs[g]
    BY <1>6, <1>8 DEF IInv
  <2>2. hs[g].pc \in {"executing", "executed"} => reqs'[hs[g].rid] = reqs[hs[g].rid]
    BY <1>1, <1>4, <1>8, <2>1 DEF HandlerInv, Holds, TypeOK
  <2>3. hs[g].pc \in {"approving", "rejecting"} =>
              (reqs'[hs[g].rid] # NoRequest => reqs'[hs[g].rid].cluster = hs[g].cluster)
    BY <1>1, <1>2, <1>4, <2>1 DEF HandlerInv, TypeOK
  <2>4. QED BY <2>1, <2>2, <2>3, UntouchedHandler
<1>9. OneHolder'
  BY <1>6, IdleType DEF IInv, OneHolder
<1>10. ASSUME NEW i \in Ids PROVE RequestInv(i)'
  <2>1. RequestInv(i)
    BY DEF IInv
  <2>2. CASE i = id
    BY <2>1, <2>2, <1>2, <1>4 DEF RequestInv, Terminal
  <2>3. CASE i # id
    BY <2>1, <2>3, <1>4 DEF RequestInv
  <2>4. QED BY <2>2, <2>3
<1>11. SecondPerson'
  BY DEF IInv, SecondPerson
<1>12. QED BY <1>5, <1>7, <1>8, <1>9, <1>10, <1>11 DEF IInv

\* ApprovalStore.Complete preserves the invariant.
LEMMA CompleteIInv ==
    ASSUME IInv, NEW h \in Handlers, Complete(h)
    PROVE  IInv'
<1> DEFINE id == hs[h].rid
           p == IF hs[h].ok THEN "succeeded" ELSE "failed"
           r == [reqs[id] EXCEPT !.phase = p, !.updatedAt = clock]
<1>1. TypeOK /\ HandlerInv(h) /\ hs[h].pc = "executed"
  BY DEF IInv, Complete
<1>2. Holds(h) /\ runs[id] = 1 /\ [rid |-> id, what |-> "executed"] \in audited
  BY <1>1 DEF HandlerInv
<1>3. id \in Ids /\ reqs[id] # NoRequest
  BY <1>1, <1>2, NoRequestAssumption DEF Holds, TypeOK
<1>4. /\ r \in PendingRequest /\ r.cluster = reqs[id].cluster
      /\ r.phase \in Terminal /\ r.phase \in {"succeeded", "failed"}
  <2>1. p \in {"succeeded", "failed"} /\ p \in Terminal
    BY DEF Terminal
  <2> HIDE DEF p
  <2>2. reqs[id] \in PendingRequest /\ clock \in Nat
    BY <1>1, <1>3 DEF TypeOK
  <2>3. QED BY <2>1, <2>2 DEF PendingRequest, Phases
<1>5. /\ reqs' = [reqs EXCEPT ![id] = r]
      /\ hs' = [hs EXCEPT ![h] = Idle]
      /\ UNCHANGED <<clock, issued, runs, execs, audited, auth>>
  BY <1>3 DEF Complete, Known, history
<1>6. \A g \in Handlers : g # h /\ hs[g].pc \in {"executing", "executed"} => hs[g].rid # id
  BY <1>1 DEF IInv, OneHolder
<1> HIDE DEF r
<1>7. Resolves(h, id, r)
  BY <1>1, <1>2, <1>3, <1>4, <1>5, <1>6 DEF Resolves, TypeOK
<1>8. QED BY <1>3, <1>7, ResolveIInv

\* ApprovalStore.Reject preserves the invariant.
LEMMA RejectIInv ==
    ASSUME IInv, NEW h \in Handlers, Reject(h)
    PROVE  IInv'
<1> DEFINE id == hs[h].rid
<1>1. TypeOK /\ HandlerInv(h) /\ hs[h].pc = "rejecting"
  BY DEF IInv, Reject
<1>2. id \in issued /\ id \in Ids
  BY <1>1 DEF HandlerInv, TypeOK
<1>3. CASE ~MayReject(id)
  BY <1>2, <1>3, RefusedIInv DEF Reject
<1>4. CASE MayReject(id)
  <2>1. reqs[id] # NoRequest /\ reqs[id].phase = "pending"
    BY <1>4 DEF MayReject, StillPending, Phase, Known
  <2>2. runs[id] = 0
    BY <1>2, <2>1 DEF IInv, RequestInv
  <2>3. \A g \in Handlers : hs[g].pc \in {"executing", "executed"} => hs[g].rid # id
    <3> SUFFICES ASSUME NEW g \in Handlers, hs[g].pc \in {"executing", "executed"}
                 PROVE  hs[g].rid # id
      OBVIOUS
    <3>1. Holds(g)
      BY DEF IInv, HandlerInv
    <3>2. QED BY <3>1, <2>1 DEF Holds
  <2> DEFINE r == [reqs[id] EXCEPT !.phase = "rejected", !.updatedAt = clock']
  <2>4. /\ reqs' = [reqs EXCEPT ![id] = r]
        /\ audited' = audited \cup {[rid |-> id, what |-> "rejected"]}
        /\ hs' = [hs EXCEPT ![h] = Idle]
        /\ clock' \in Nat
        /\ UNCHANGED <<issued, runs, execs, auth>>
    BY <1>4, ElapsesLemma DEF Reject, Audit
  <2>5. audited' \subseteq AuditEntry /\ audited \subseteq audited'
    BY <1>1, <1>2, <2>4 DEF TypeOK, AuditEntry
  <2>6. /\ r \in PendingRequest /\ r.cluster = reqs[id].cluster
        /\ r.phase = "rejected" /\ r.phase \in Terminal
    <3>1. reqs[id] \in PendingRequest /\ clock' \in Nat
      BY <1>1, <1>2, <2>1, <2>4 DEF TypeOK
    <3>2. QED BY <3>1 DEF PendingRequest, Phases, Terminal
  <2> HIDE DEF r
  <2>7. Resolves(h, id, r)
    BY <2>1, <2>2, <2>3, <2>4, <2>5, <2>6 DEF Resolves
  <2>8. QED BY <1>2, <2>7, ResolveIInv
<1>5. QED BY <1>3, <1>4

\* A restart of the gateway, which empties the store, preserves the invariant.
LEMMA RestartIInv == ASSUME IInv, Restart PROVE IInv'
<1>1. /\ reqs' = [id \in Ids |-> NoRequest] /\ hs' = [h \in Handlers |-> Idle]
      /\ UNCHANGED <<clock, issued, runs, execs, audited, auth>>
  BY DEF Restart, history
<1>2. TypeOK'
  BY <1>1, IdleType DEF IInv, TypeOK
<1>3. \A h \in Handlers : hs'[h].pc = "idle"
  BY <1>1, IdleType
<1>4. (\A h \in Handlers : HandlerInv(h))' /\ OneHolder'
  BY <1>3 DEF HandlerInv, OneHolder
<1>5. (\A id \in Ids : RequestInv(id))'
  BY <1>1 DEF IInv, RequestInv
<1>6. SecondPerson'
  BY <1>1 DEF IInv, SecondPerson
<1>7. QED BY <1>2, <1>4, <1>5, <1>6 DEF IInv

\* Every step of the specification preserves the invariant.
LEMMA NextIInv == IInv /\ [Next]_vars => IInv'
<1> SUFFICES ASSUME IInv, [Next]_vars PROVE IInv'
  OBVIOUS
<1>1. ASSUME NEW h \in Handlers, HandlerStep(h) PROVE IInv'
  BY <1>1, ParkInsertIInv, ApproveIInv, executePendingIInv, ExecutePanicIInv,
     CompleteIInv, RejectIInv DEF HandlerStep
<1>2. ASSUME NEW h \in Handlers, ClientCall(h) PROVE IInv'
  BY <1>2, MutateInlineIInv, ParkBuildIInv, ApproveLookupIInv, RejectLookupIInv,
     ApproveWithoutAuthIInv, MutateRefusedIInv DEF ClientCall
<1>3. ASSUME Read PROVE IInv'
  BY <1>3, GetApprovalIInv, ListApprovalsIInv DEF Read
<1>4. CASE UNCHANGED vars
  <2>1. TypeOK' /\ \A id \in Ids : Settles(id)
    BY <1>4 DEF vars, IInv, TypeOK, Settles
  <2>2. QED BY <1>4, <2>1, QuietStep DEF vars
<1>5. QED
  BY <1>1, <1>2, <1>3, <1>4, ClockStepIInv, RestartIInv DEF Next

\* The invariant holds in every reachable state.
THEOREM Invariance == Spec => []IInv
BY InitIInv, NextIInv, PTL DEF Spec

\* Only with accepted tokens does a handler get to Approve, or a gated mutation
\* to the backend: IInv does not need it, so it is an invariant of its own.
AuthInv ==
    /\ \A h \in Handlers : hs[h].pc \in {"approving", "executing", "executed"} => auth
    /\ \A e \in execs : Parks(e.mut) => auth

\* Every step of the specification preserves it.
LEMMA NextAuthInv == IInv /\ AuthInv /\ [Next]_vars => AuthInv'
<1> SUFFICES ASSUME IInv, AuthInv, [Next]_vars PROVE AuthInv'
  OBVIOUS
<1>0. hs \in [Handlers -> HandlerState]
  BY DEF IInv, TypeOK
\* A step of handler h that leaves the backend alone.
<1>1. ASSUME NEW h \in Handlers, NEW s \in HandlerState, hs' = [hs EXCEPT ![h] = s],
             execs' = execs, auth' = auth,
             s.pc \in {"approving", "executing", "executed"} => auth
      PROVE  AuthInv'
  BY <1>0, <1>1 DEF AuthInv
<1>2. ASSUME NEW h \in Handlers, HandlerStep(h) PROVE AuthInv'
  <2>0. hs[h] \in HandlerState
    BY <1>0
  <2>1. ASSUME NEW id \in Ids, ParkInsert(h, id) PROVE AuthInv'
    BY <1>1, <2>1, IdleType DEF ParkInsert
  <2>2. CASE Approve(h)
    <3>1. CASE hs' = [hs EXCEPT ![h] = Idle]
      BY <1>1, <2>2, <3>1, IdleType DEF Approve
    <3>2. CASE hs' = [hs EXCEPT ![h].pc = "executing", ![h].req = reqs'[hs[h].rid]]
      BY <1>0, <2>0, <2>2, <3>2 DEF Approve, AuthInv, HandlerState
    <3>3. QED BY <2>2, <3>1, <3>2 DEF Approve
  <2>3. ASSUME hs[h].pc = "executing", Run(h), auth' = auth,
               \A g \in Handlers : hs'[g].pc = hs[g].pc \/ g = h
        PROVE  AuthInv'
    BY <2>0, <2>3 DEF AuthInv, Run
  <2>4. ASSUME NEW ok \in BOOLEAN, executePending(h, ok) PROVE AuthInv'
    BY <1>0, <2>3, <2>4 DEF executePending
  <2>5. CASE ExecutePanic(h)
    BY <1>0, <2>3, <2>5 DEF ExecutePanic
  <2>6. CASE Complete(h) \/ Reject(h)
    BY <1>1, <2>6, IdleType DEF Complete, Reject, history
  <2>7. QED BY <1>2, <2>1, <2>2, <2>4, <2>5, <2>6 DEF HandlerStep
<1>3. ASSUME NEW h \in Handlers, ClientCall(h) PROVE AuthInv'
  <2>1. ASSUME NEW who \in Identities, NEW c \in Clusters, NEW m \in Mutations,
               ParkBuild(h, who, c, m)
        PROVE  AuthInv'
    BY <1>0, <2>1 DEF ParkBuild, AuthInv, Idle, history
  <2>2. ASSUME NEW who \in Identities, NEW c \in Clusters, NEW id \in Ids,
               ApproveLookup(h, who, c, id)
        PROVE  AuthInv'
    BY <1>0, <2>2 DEF ApproveLookup, AuthGate, AuthInv, history
  <2>7. ASSUME NEW c \in Clusters, NEW id \in Ids, RejectLookup(h, c, id)
        PROVE  AuthInv'
    BY <1>0, <2>7 DEF RejectLookup, AuthInv, Idle, history
  <2>3. ASSUME NEW id \in Ids, ApproveWithoutAuth(h, id) PROVE AuthInv'
    BY <2>3 DEF ApproveWithoutAuth, AuthInv
  <2>4. ASSUME NEW m \in Mutations, MutateRefused(h, m) PROVE AuthInv'
    BY <2>4 DEF MutateRefused, AuthInv
  <2>5. ASSUME NEW m \in Mutations, MutateInline(h, m) PROVE AuthInv'
    BY <2>5 DEF MutateInline, AuthInv, Parks, Requires
  <2>6. QED BY <1>3, <2>1, <2>2, <2>3, <2>4, <2>5, <2>7 DEF ClientCall
<1>4. CASE Read \/ ClockStep \/ UNCHANGED vars
  BY <1>4 DEF Read, GetApproval, ListApprovals, ClockStep, vars, history, AuthInv
<1>5. CASE Restart
  BY <1>5 DEF Restart, history, AuthInv, Idle
<1>6. QED BY <1>2, <1>3, <1>4, <1>5 DEF Next

\* Every variable keeps its type.
THEOREM TypeCorrect == Spec => []TypeOK
<1>1. IInv => TypeOK
  BY DEF IInv
<1>2. QED BY <1>1, Invariance, PTL

\* A mutation that needs approval reaches the backend only with the approval of
\* somebody other than its requester, and only where tokens tell people apart.
THEOREM TwoPersonRuleHolds == Spec => []TwoPersonRule
<1>1. Init => AuthInv
  BY IdleType DEF Init, AuthInv
<1>2. IInv /\ AuthInv => TwoPersonRule
  BY DEF IInv, SecondPerson, AuthInv, TwoPersonRule
<1>3. QED BY <1>1, <1>2, NextAuthInv, Invariance, PTL DEF Spec

\* No interleaving of approvals, and no restart, runs a parked mutation twice.
THEOREM RunsAtMostOnceHolds == Spec => []RunsAtMostOnce
<1>1. IInv => RunsAtMostOnce
  BY DEF IInv, RequestInv, RunsAtMostOnce
<1>2. QED BY <1>1, Invariance, PTL

\* A pending, rejected or expired request has not run.
THEOREM RefusedNeverRunsHolds == Spec => []RefusedNeverRuns
<1>1. IInv => RefusedNeverRuns
  BY DEF IInv, RequestInv, RefusedNeverRuns, Phase, Known
<1>2. QED BY <1>1, Invariance, PTL

\* Complete finds the record its handler approved, unchanged.
THEOREM ApprovedIsHeldHolds == Spec => []ApprovedIsHeld
<1>1. IInv => ApprovedIsHeld
  BY NoRequestAssumption DEF IInv, HandlerInv, Holds, ApprovedIsHeld, Known
<1>2. QED BY <1>1, Invariance, PTL

\* The ownership check cannot go stale between two lock holds.
THEOREM OwnershipHoldsHolds == Spec => []OwnershipHolds
<1>1. IInv => OwnershipHolds
  BY DEF IInv, HandlerInv, Holds, OwnershipHolds, Known
<1>2. QED BY <1>1, Invariance, PTL

\* What one step makes of a pending request, judged by its readings of the clock.
InTime(id) ==
    Phase(id) = "pending" =>
       /\ Phase(id)' \in {"approved", "rejected"} => clock < reqs[id].expiresAt
       /\ Phase(id)' = "expired" => clock >= reqs[id].expiresAt \/ clock' >= reqs[id].expiresAt

\* A request that only settles does so in time.
LEMMA SettlesInTime ==
    ASSUME NEW id \in Ids, Settles(id), Ripe(id) PROVE InTime(id)
<1>1. CASE reqs'[id] = reqs[id]
  BY <1>1 DEF InTime, Phase, Known
<1>2. CASE reqs'[id] # reqs[id]
  BY <1>2 DEF Settles, Ripe, InTime, Phase, Known
<1>3. QED BY <1>1, <1>2

\* So does one that a decision touches, or another one than it touches.
LEMMA DecidedInTime ==
    ASSUME IInv, NEW i \in Ids, StillPending(i), NEW r, reqs' = [reqs EXCEPT ![i] = r],
           r \in PendingRequest, r.phase \in {"approved", "rejected"}
    PROVE  \A id \in Ids : InTime(id)
<1>1. reqs[i] \in PendingRequest /\ reqs \in [Ids -> PendingRequest \cup {NoRequest}]
  BY DEF IInv, TypeOK, StillPending, Phase, Known
<1>2. ASSUME NEW id \in Ids, id # i PROVE InTime(id)
  <2>1. reqs'[id] = reqs[id]
    BY <1>1, <1>2
  <2>2. QED BY <2>1 DEF InTime, Phase, Known
<1>3. InTime(i)
  <2>1. reqs'[i] = r /\ r # NoRequest /\ clock \in Nat /\ reqs[i].expiresAt \in Nat
    BY <1>1, NoRequestAssumption DEF IInv, TypeOK, PendingRequest
  <2>2. clock < reqs[i].expiresAt
    BY <2>1 DEF StillPending, Overdue, Phase, Known
  <2>3. QED BY <2>1, <2>2 DEF InTime, Phase, Known
<1>4. QED BY <1>2, <1>3

\* Every operation decides, and expires, requests in time.
LEMMA NextInTime == ASSUME IInv, [Next]_vars PROVE \A id \in Ids : InTime(id)
<1>0. TypeOK
  BY DEF IInv
<1>1. ASSUME UNCHANGED reqs PROVE \A id \in Ids : InTime(id)
  BY <1>1 DEF InTime, Phase, Known
<1>2. ASSUME NEW i \in Ids, expireLocked(i) PROVE \A id \in Ids : InTime(id)
  BY <1>0, <1>2, ExpireSettles, SettlesInTime
<1>3. ASSUME NEW h \in Handlers, NEW i \in Ids, ParkInsert(h, i)
      PROVE  \A id \in Ids : InTime(id)
  <2>1. PICK seen \in Sweeps : reqs' = [sweepLocked(seen) EXCEPT ![i] = hs[h].req]
    BY <1>3 DEF ParkInsert
  <2>2. Elapses /\ i \notin issued
    BY <1>3 DEF ParkInsert
  <2>3. sweepLocked(seen) \in [Ids -> PendingRequest \cup {NoRequest}]
    BY <1>0, <2>2, ElapsesLemma, SweepSettles
  <2>4. ASSUME NEW id \in Ids, id # i PROVE InTime(id)
    <3>1. reqs'[id] = sweepLocked(seen)[id]
      BY <2>1, <2>3, <2>4
    <3>2. QED BY <1>0, <2>2, <3>1, SweptSettles, SettlesInTime
  <2>5. InTime(i)
    BY <2>2 DEF IInv, RequestInv, InTime, Phase, Known
  <2>6. QED BY <2>4, <2>5
<1>4. ASSUME NEW h \in Handlers, Approve(h) PROVE \A id \in Ids : InTime(id)
  <2> DEFINE i == hs[h].rid
             r == [reqs[i] EXCEPT !.phase = "approved", !.approver = hs[h].who,
                                  !.updatedAt = clock']
  <2>1. i \in Ids /\ hs[h].who \in Identities
    BY <1>0, <1>4 DEF Approve, IInv, HandlerInv, TypeOK
  <2>2. CASE ~MayApprove(i, hs[h].who)
    BY <1>2, <1>4, <2>1, <2>2 DEF Approve
  <2>3. CASE MayApprove(i, hs[h].who)
    <3>1. StillPending(i) /\ clock' \in Nat /\ reqs' = [reqs EXCEPT ![i] = r]
      BY <1>4, <2>3, ElapsesLemma DEF Approve, MayApprove
    <3>2. reqs[i] \in PendingRequest
      BY <1>0, <2>1, <3>1 DEF TypeOK, StillPending, Phase, Known
    <3>3. r \in PendingRequest /\ r.phase = "approved"
      BY <2>1, <3>1, <3>2 DEF PendingRequest, Phases
    <3> HIDE DEF r
    <3>4. QED BY <2>1, <3>1, <3>3, DecidedInTime
  <2>4. QED BY <2>2, <2>3
<1>5. ASSUME NEW h \in Handlers, Reject(h) PROVE \A id \in Ids : InTime(id)
  <2> DEFINE i == hs[h].rid
             r == [reqs[i] EXCEPT !.phase = "rejected", !.updatedAt = clock']
  <2>1. i \in Ids
    BY <1>0, <1>5 DEF Reject, IInv, HandlerInv, TypeOK
  <2>2. CASE ~MayReject(i)
    BY <1>2, <1>5, <2>1, <2>2 DEF Reject
  <2>3. CASE MayReject(i)
    <3>1. StillPending(i) /\ clock' \in Nat /\ reqs' = [reqs EXCEPT ![i] = r]
      BY <1>5, <2>3, ElapsesLemma DEF Reject, MayReject
    <3>2. reqs[i] \in PendingRequest
      BY <1>0, <2>1, <3>1 DEF TypeOK, StillPending, Phase, Known
    <3>3. r \in PendingRequest /\ r.phase = "rejected"
      BY <3>1, <3>2 DEF PendingRequest, Phases, Terminal
    <3> HIDE DEF r
    <3>4. QED BY <2>1, <3>1, <3>3, DecidedInTime
  <2>4. QED BY <2>2, <2>3
<1>6. ASSUME NEW h \in Handlers, Complete(h) PROVE \A id \in Ids : InTime(id)
  <2>1. Holds(h)
    BY <1>6 DEF Complete, IInv, HandlerInv
  <2>2. \A id \in Ids : id # hs[h].rid => reqs'[id] = reqs[id]
    BY <1>0, <1>6 DEF Complete, TypeOK
  <2>3. QED BY <2>1, <2>2 DEF Holds, InTime, Phase, Known
<1>7. ASSUME NEW h \in Handlers, HandlerStep(h) PROVE \A id \in Ids : InTime(id)
  <2>1. ASSUME ExecutePanic(h) \/ \E ok \in BOOLEAN : executePending(h, ok)
        PROVE  UNCHANGED reqs
    BY <2>1 DEF ExecutePanic, executePending
  <2>2. QED BY <1>1, <1>3, <1>4, <1>5, <1>6, <1>7, <2>1 DEF HandlerStep
<1>8. ASSUME NEW h \in Handlers, ClientCall(h) PROVE \A id \in Ids : InTime(id)
  <2>1. ASSUME NEW who \in Identities, NEW c \in Clusters, NEW id \in Ids,
               ApproveLookup(h, who, c, id)
        PROVE  \A i \in Ids : InTime(i)
    BY <1>2, <2>1 DEF ApproveLookup
  <2>2. ASSUME NEW c \in Clusters, NEW id \in Ids, RejectLookup(h, c, id)
        PROVE  \A i \in Ids : InTime(i)
    BY <1>2, <2>2 DEF RejectLookup
  <2>3. ASSUME \/ \E who \in Identities, c \in Clusters, m \in Mutations : ParkBuild(h, who, c, m)
               \/ \E id \in Ids : ApproveWithoutAuth(h, id)
               \/ \E m \in Mutations : MutateRefused(h, m) \/ MutateInline(h, m)
        PROVE  UNCHANGED reqs
    BY <2>3 DEF ParkBuild, ApproveWithoutAuth, MutateRefused, MutateInline
  <2>4. QED BY <1>1, <1>8, <2>1, <2>2, <2>3 DEF ClientCall
<1>9. CASE Read
  <2>1. ASSUME NEW id \in Ids, GetApproval(id) PROVE \A i \in Ids : InTime(i)
    BY <1>2, <2>1 DEF GetApproval
  <2>2. CASE ListApprovals
    BY <1>0, <2>2, SweptSettles, SettlesInTime DEF ListApprovals
  <2>3. QED BY <1>9, <2>1, <2>2 DEF Read
<1>10. CASE Restart
  BY <1>10 DEF Restart, InTime, Phase, Known
<1>11. CASE ClockStep \/ UNCHANGED vars
  BY <1>1, <1>11 DEF ClockStep, vars
<1>12. QED BY <1>7, <1>8, <1>9, <1>10, <1>11 DEF Next

\* Whatever the clock does between and inside the operations, a request is decided
\* only at a reading before its deadline, and expires only at one that reached it.
THEOREM ApprovedInTimeHolds == Spec => ApprovedInTime
<1>1. IInv /\ [Next]_vars => \A id \in Ids : InTime(id)
  BY NextInTime
<1>2. (\A id \in Ids : InTime(id)) =>
        [\A id \in Ids : Phase(id) = "pending" =>
          /\ Phase(id)' \in {"approved", "rejected"} => clock < reqs[id].expiresAt
          /\ Phase(id)' = "expired" => \/ clock >= reqs[id].expiresAt
                                       \/ clock' >= reqs[id].expiresAt]_vars
  BY DEF InTime
<1>3. QED BY <1>1, <1>2, Invariance, PTL DEF Spec, ApprovedInTime

\* Reported outcomes are real and audited.
THEOREM OutcomeAuditedHolds == Spec => []OutcomeAudited
<1>1. IInv => OutcomeAudited
  BY DEF IInv, RequestInv, OutcomeAudited, Phase, Known
<1>2. QED BY <1>1, Invariance, PTL
=============================================================================
