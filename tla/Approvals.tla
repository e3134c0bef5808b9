----------------------------- MODULE Approvals -----------------------------
(***************************************************************************)
(* The gateway's two-person approval flow: the mutex-guarded ApprovalStore *)
(* and the HTTP handlers that park, approve and reject through it.         *)
(*                                                                         *)
(* Every handler is a goroutine; what it does under one hold of the store  *)
(* lock is one action, and handlers interleave between their lock holds.   *)
(* The wall clock moves, and can be stepped (UnixMilli carries no monotonic *)
(* reading), between actions and inside one: an action's first reading is  *)
(* clock, its last one clock'.                                             *)
(***************************************************************************)
EXTENDS GatewayPolicy

CONSTANTS
    Ids,            \* approval request ids (96 random bits: never reused)
    Handlers,       \* HTTP handler goroutines
    Identities,     \* token fingerprints, or client IPs with auth off
    Clusters,       \* cluster ids of URLs and requests
    Mutations,      \* the mutations clients send
    AuthModes,      \* whether the server has accepted tokens, both or one
    MayPanic,       \* a backend call can panic (recoverMiddleware answers 500)
    TTL,            \* ApprovalStore.ttl
    MinRetention,   \* minApprovalRetention
    MaxTime,        \* bound on the wall clock
    NoRequest, NoId, NoOne, NoCluster

ASSUME ApprovalsAssumption ==
    /\ Mutations \subseteq Mutation
    /\ AuthModes \subseteq BOOLEAN /\ MayPanic \in BOOLEAN
    /\ TTL \in Nat \ {0} /\ MinRetention \in Nat /\ MaxTime \in Nat
    /\ NoId \notin Ids /\ NoOne \notin Identities /\ NoCluster \notin Clusters

VARIABLES
    clock,      \* the wall clock, in milliseconds
    reqs,       \* ApprovalStore.reqs
    hs,         \* what each handler goroutine is doing
    auth,       \* len(acceptedTokens()) > 0, fixed at boot
    (* History: what the outside world saw. *)
    issued,     \* ids ever inserted in the store
    runs,       \* how often executePending ran for an id
    execs,      \* mutations that reached the backend
    audited     \* audit entries about approvals

vars == <<clock, reqs, hs, auth, issued, runs, execs, audited>>
history == <<auth, issued, runs, execs, audited>>

Terminal == {"rejected", "expired", "succeeded", "failed"}
Phases   == {"pending", "approved"} \cup Terminal

PendingRequest ==
    [phase : Phases, mut : Mutations, cluster : Clusters, requester : Identities,
     approver : Identities \cup {NoOne}, updatedAt : Nat, expiresAt : Nat]

ASSUME NoRequestAssumption == NoRequest \notin PendingRequest

Idle == [pc |-> "idle", rid |-> NoId, who |-> NoOne, cluster |-> NoCluster,
         req |-> NoRequest, ok |-> FALSE]

\* req: the request Park built, or the copy Approve returned.
HandlerState ==
    [pc : {"idle", "parking", "approving", "executing", "executed", "rejecting"},
     rid : Ids \cup {NoId}, who : Identities \cup {NoOne},
     cluster : Clusters \cup {NoCluster},
     req : PendingRequest \cup {NoRequest}, ok : BOOLEAN]

Execution ==
    [rid : Ids \cup {NoId}, mut : Mutations, cluster : Clusters \cup {NoCluster},
     requester : Identities \cup {NoOne}, approver : Identities \cup {NoOne}]

\* Refusals carry the request id too; no property tells them apart.
AuditEntry == [rid : Ids \cup {NoId},
               what : {"parked", "executed", "rejected", "refused", "inline"}]

TypeOK ==
    /\ clock \in Nat
    /\ reqs \in [Ids -> PendingRequest \cup {NoRequest}]
    /\ hs \in [Handlers -> HandlerState]
    /\ issued \subseteq Ids
    /\ runs \in [Ids -> Nat]
    /\ execs \subseteq Execution
    /\ audited \subseteq AuditEntry
    /\ auth \in BOOLEAN

Init ==
    /\ clock = 0
    /\ reqs = [id \in Ids |-> NoRequest]
    /\ hs = [h \in Handlers |-> Idle]
    /\ issued = {}
    /\ runs = [id \in Ids |-> 0]
    /\ execs = {}
    /\ audited = {}
    /\ auth \in AuthModes

-----------------------------------------------------------------------------
(* The store's operations under its lock. *)

Retention == IF TTL > MinRetention THEN TTL ELSE MinRetention

Known(id) == reqs[id] # NoRequest

Phase(id) == IF Known(id) THEN reqs[id].phase ELSE "absent"

\* The clock while an operation that reads it more than once runs.
Elapses == clock' \in 0..MaxTime

Overdue_Approved(r, now) == r.phase \in {"pending", "approved"} /\ now >= r.expiresAt
Overdue(r, now) == r.phase = "pending" /\ now >= r.expiresAt

\* Lazy expiry of one record: checked at one reading, stamped with a later one.
Expired_Unnamed(r, now) == IF Overdue(r, now)
                           THEN [r EXCEPT !.phase = "timeout", !.updatedAt = clock'] ELSE r
Expired(r, now) == IF Overdue(r, now)
                   THEN [r EXCEPT !.phase = "expired", !.updatedAt = clock'] ELSE r

\* Lookup and lazy expiry; the clock is read again only to stamp the record.
expireLocked(id) ==
    IF Known(id) /\ Overdue(reqs[id], clock)
    THEN Elapses /\ reqs' = [reqs EXCEPT ![id] = Expired(@, clock)]
    ELSE UNCHANGED <<clock, reqs>>

Outdated_Approved(r) == r.phase # "pending" /\ r.updatedAt < clock - Retention
Outdated(r) == r.phase \in Terminal /\ r.updatedAt < clock - Retention

\* seen[id]: the reading at which the sweep, after its cutoff, checks id.
sweepLocked(seen) ==
    [id \in Ids |-> IF Known(id) /\ ~Outdated(Expired(reqs[id], seen[id]))
                    THEN Expired(reqs[id], seen[id]) ELSE NoRequest]

Sweeps == [Ids -> {clock, clock'}]

\* Lookup and lazy expiry, then the phase check of Approve and Reject.
StillPending(id) == Phase(id) = "pending" /\ ~Overdue(reqs[id], clock)

MayApprove_Again(id, who) == \/ StillPending(id) /\ reqs[id].requester # who
                             \/ Phase(id) = "approved" /\ reqs[id].approver = who
MayApprove_NoExpiry(id, who) == Phase(id) = "pending" /\ reqs[id].requester # who
MayApprove(id, who) == StillPending(id) /\ reqs[id].requester # who

MayReject(id) == StillPending(id)

\* The ownership check of handleApprove and handleReject.
Owned_AnyCluster(id, c) == Known(id)
Owned(id, c) == Known(id) /\ reqs[id].cluster = c

-----------------------------------------------------------------------------
(* POST .../{scale,restart,cordon,uncordon,drain}. *)

Audit(rid, what) == audited' = audited \cup {[rid |-> rid, what |-> what]}

\* 400 or 403.
MutateRefused(h, m) ==
    /\ hs[h] = Idle
    /\ ~(WellFormed(m) /\ PolicyAllows(m))
    /\ Audit(NoId, "refused")
    /\ UNCHANGED <<clock, reqs, hs, issued, runs, execs, auth>>

\* No approval needed: the handler itself calls the backend.  Who asked for it,
\* and for which cluster, is not recorded.
MutateInline(h, m) ==
    /\ hs[h] = Idle
    /\ WellFormed(m) /\ PolicyAllows(m) /\ ~Parks(m)
    /\ execs' = execs \cup {[rid |-> NoId, mut |-> m, cluster |-> NoCluster,
                             requester |-> NoOne, approver |-> NoOne]}
    /\ Audit(NoId, "inline")
    /\ UNCHANGED <<clock, reqs, hs, issued, runs, auth>>

\* Park, up to the lock.  Its two readings of the clock, for updatedAt and for the
\* deadline, are one: nothing compares a pending record's updatedAt.
ParkBuild(h, who, c, m) ==
    /\ hs[h] = Idle
    /\ WellFormed(m) /\ PolicyAllows(m) /\ Parks(m)
    /\ hs' = [hs EXCEPT ![h] =
                [Idle EXCEPT !.pc = "parking", !.who = who, !.cluster = c,
                    !.req = [phase |-> "pending", mut |-> m, cluster |-> c,
                             requester |-> who, approver |-> NoOne,
                             updatedAt |-> clock, expiresAt |-> clock + TTL]]]
    /\ UNCHANGED <<clock, reqs, history>>

\* Park, under the lock, and the rest of writeParked.
ParkInsert(h, id) ==
    /\ hs[h].pc = "parking"
    /\ id \notin issued
    /\ Elapses
    /\ \E seen \in Sweeps : reqs' = [sweepLocked(seen) EXCEPT ![id] = hs[h].req]
    /\ hs' = [hs EXCEPT ![h] = Idle]
    /\ issued' = issued \cup {id}
    /\ Audit(id, "parked")
    /\ UNCHANGED <<runs, execs, auth>>

-----------------------------------------------------------------------------
(* GET .../approvals/{rid} and GET .../approvals. *)

GetApproval(id) ==
    /\ expireLocked(id)
    /\ UNCHANGED <<hs, history>>

ListApprovals ==
    /\ Elapses
    /\ \E seen \in Sweeps : reqs' = sweepLocked(seen)
    /\ UNCHANGED <<hs, history>>

-----------------------------------------------------------------------------
(* POST .../approvals/{rid}/approve. *)

AuthGate_Off == TRUE
\* handleApprove's first check: the server has accepted tokens.
AuthGate == auth

\* 403.
ApproveWithoutAuth(h, id) ==
    /\ hs[h] = Idle
    /\ ~AuthGate
    /\ Audit(NoId, "refused")
    /\ UNCHANGED <<clock, reqs, hs, issued, runs, execs, auth>>

\* Get: the ownership check, under a lock hold of its own.  404 if it fails.
ApproveLookup(h, who, c, id) ==
    /\ hs[h] = Idle
    /\ AuthGate
    /\ expireLocked(id)
    /\ IF Owned(id, c)
       THEN hs' = [hs EXCEPT ![h] = [Idle EXCEPT !.pc = "approving", !.rid = id,
                                         !.who = who, !.cluster = c]]
       ELSE UNCHANGED hs
    /\ UNCHANGED history

\* Approve: under a second lock hold; 404 or 409 if it refuses.
Approve(h) ==
    LET id == hs[h].rid IN
    /\ hs[h].pc = "approving"
    /\ IF MayApprove(id, hs[h].who)
       THEN /\ Elapses
            /\ reqs' = [reqs EXCEPT ![id].phase = "approved",
                                    ![id].approver = hs[h].who,
                                    ![id].updatedAt = clock']
            /\ hs' = [hs EXCEPT ![h].pc = "executing", ![h].req = reqs'[id]]
            /\ UNCHANGED audited
       ELSE /\ expireLocked(id)
            /\ hs' = [hs EXCEPT ![h] = Idle]
            /\ Audit(NoId, "refused")
    /\ UNCHANGED <<issued, runs, execs, auth>>

Run(h) ==
    LET r == hs[h].req IN
    /\ runs' = [runs EXCEPT ![hs[h].rid] = @ + 1]
    /\ execs' = execs \cup {[rid |-> hs[h].rid, mut |-> r.mut, cluster |-> r.cluster,
                             requester |-> r.requester, approver |-> r.approver]}

executePending_Unaudited(h, ok) ==
    /\ hs[h].pc = "executing"
    /\ Run(h)
    /\ hs' = [hs EXCEPT ![h].pc = "executed", ![h].ok = ok]
    /\ UNCHANGED <<clock, reqs, issued, audited, auth>>
executePending_DropsErrors(h, ok) ==
    /\ hs[h].pc = "executing"
    /\ Run(h)
    /\ hs' = [hs EXCEPT ![h] = IF ok THEN [@ EXCEPT !.pc = "executed", !.ok = ok] ELSE Idle]
    /\ Audit(hs[h].rid, "executed")
    /\ UNCHANGED <<clock, reqs, issued, auth>>
\* executePending, without the lock, and the audit entry that follows it.
executePending(h, ok) ==
    /\ hs[h].pc = "executing"
    /\ Run(h)
    /\ hs' = [hs EXCEPT ![h].pc = "executed", ![h].ok = ok]
    /\ Audit(hs[h].rid, "executed")
    /\ UNCHANGED <<clock, reqs, issued, auth>>

\* The backend call panics: recoverMiddleware answers 500 and the rest of the
\* handler, its audit entry and Complete included, does not run.
ExecutePanic(h) ==
    /\ MayPanic
    /\ hs[h].pc = "executing"
    /\ Run(h)
    /\ hs' = [hs EXCEPT ![h] = Idle]
    /\ UNCHANGED <<clock, reqs, auth, issued, audited>>

Complete_Requeue(h) ==
    LET id == hs[h].rid IN
    /\ hs[h].pc = "executed"
    /\ IF Known(id)
       THEN reqs' = [reqs EXCEPT ![id].phase = IF hs[h].ok THEN "succeeded" ELSE "pending",
                                 ![id].updatedAt = clock]
       ELSE UNCHANGED reqs
    /\ hs' = [hs EXCEPT ![h] = Idle]
    /\ UNCHANGED <<clock, history>>
\* Complete: under a third lock hold.
Complete(h) ==
    LET id == hs[h].rid IN
    /\ hs[h].pc = "executed"
    /\ IF Known(id)
       THEN reqs' = [reqs EXCEPT ![id].phase = IF hs[h].ok THEN "succeeded" ELSE "failed",
                                 ![id].updatedAt = clock]
       ELSE UNCHANGED reqs
    /\ hs' = [hs EXCEPT ![h] = Idle]
    /\ UNCHANGED <<clock, history>>

-----------------------------------------------------------------------------
(* POST .../approvals/{rid}/reject. *)

\* Who rejects only goes into the reason.
RejectLookup(h, c, id) ==
    /\ hs[h] = Idle
    /\ expireLocked(id)
    /\ IF Owned(id, c)
       THEN hs' = [hs EXCEPT ![h] = [Idle EXCEPT !.pc = "rejecting", !.rid = id,
                                         !.cluster = c]]
       ELSE UNCHANGED hs
    /\ UNCHANGED history

Reject(h) ==
    LET id == hs[h].rid IN
    /\ hs[h].pc = "rejecting"
    /\ IF MayReject(id)
       THEN /\ Elapses
            /\ reqs' = [reqs EXCEPT ![id].phase = "rejected", ![id].updatedAt = clock']
            /\ Audit(id, "rejected")
       ELSE /\ expireLocked(id)
            /\ Audit(NoId, "refused")
    /\ hs' = [hs EXCEPT ![h] = Idle]
    /\ UNCHANGED <<issued, runs, execs, auth>>

-----------------------------------------------------------------------------
(* Environment. *)

ClockStep ==
    /\ Elapses
    /\ UNCHANGED <<reqs, hs, history>>

\* The gateway process restarts: the store is in memory only and every handler
\* dies where it is; what reached the backend stays done.
Restart ==
    /\ reqs' = [id \in Ids |-> NoRequest]
    /\ hs' = [h \in Handlers |-> Idle]
    /\ UNCHANGED <<clock, history>>

HandlerStep(h) ==
    \/ \E id \in Ids : ParkInsert(h, id)
    \/ Approve(h)
    \/ \E ok \in BOOLEAN : executePending(h, ok)
    \/ ExecutePanic(h)
    \/ Complete(h)
    \/ Reject(h)

ClientCall(h) ==
    \/ \E who \in Identities, c \in Clusters, m \in Mutations : ParkBuild(h, who, c, m)
    \/ \E who \in Identities, c \in Clusters, id \in Ids :
          ApproveLookup(h, who, c, id)
    \/ \E c \in Clusters, id \in Ids : RejectLookup(h, c, id)
    \/ \E id \in Ids : ApproveWithoutAuth(h, id)
    \/ \E m \in Mutations : MutateRefused(h, m) \/ MutateInline(h, m)

Read == (\E id \in Ids : GetApproval(id)) \/ ListApprovals

Next ==
    \/ \E h \in Handlers : HandlerStep(h) \/ ClientCall(h)
    \/ Read
    \/ ClockStep
    \/ Restart

Spec == Init /\ [][Next]_vars

\* A handler goroutine that can go on does: the store's lock is held only for
\* short sections, and every backend call returns (RestClient's 30 s timeout).
FairSpec == Spec /\ \A h \in Handlers : WF_vars(HandlerStep(h))

-----------------------------------------------------------------------------
(* Properties. *)

\* A mutation whose op-class needs approval reaches the backend only through a
\* request that an identity other than its requester approved, whatever order
\* handlers take their lock holds in, and across restarts; and never where
\* identities are mere addresses, with no tokens to tell two people apart.
TwoPersonRule ==
    \A e \in execs : Parks(e.mut) => /\ auth
                                     /\ e.rid # NoId
                                     /\ e.requester # e.approver
                                     /\ e.approver # NoOne

\* Concurrent approvals of one request, and approvals racing a restart, run its
\* mutation at most once.
RunsAtMostOnce == \A id \in Ids : runs[id] <= 1

\* A request that is pending, was rejected or has expired never ran, although
\* Complete does not look at the phase it overwrites.
RefusedNeverRuns ==
    \A id \in Ids : Phase(id) \in {"pending", "rejected", "expired"} => runs[id] = 0

\* While a handler executes an approved request outside the lock, the store
\* keeps that very record: no sweep, reject, expiry or second approval touches
\* it, so Complete finds it and never answers 500.
ApprovedIsHeld ==
    \A h \in Handlers : hs[h].pc \in {"executing", "executed"} =>
        Known(hs[h].rid) /\ reqs[hs[h].rid] = hs[h].req

\* The ownership check made under the first lock hold is still true under the
\* second: a handler never approves or rejects another cluster's request.
OwnershipHolds ==
    \A h \in Handlers :
        hs[h].pc \in {"approving", "rejecting", "executing", "executed"} /\ Known(hs[h].rid)
            => reqs[hs[h].rid].cluster = hs[h].cluster

\* However long a handler waited between its lookup and the store's lock, a
\* request is approved or rejected only if it was not overdue when the store,
\* under that lock, first read the clock; and no operation expires a request none
\* of whose readings reached its deadline.  (The stamp updatedAt is a later
\* reading: an approval can be dated after the deadline.)
ApprovedInTime ==
    [][\A id \in Ids : Phase(id) = "pending" =>
          /\ Phase(id)' \in {"approved", "rejected"} => clock < reqs[id].expiresAt
          /\ Phase(id)' = "expired" => \/ clock >= reqs[id].expiresAt
                                       \/ clock' >= reqs[id].expiresAt]_vars

\* A request reported as succeeded or failed did run, and was handed to the audit
\* log (which may be off, or fail to write it) before it was reported.
OutcomeAudited ==
    \A id \in Ids : Phase(id) \in {"succeeded", "failed"} =>
        runs[id] = 1 /\ [rid |-> id, what |-> "executed"] \in audited

\* The superset rule: a drain, which cordons first, never gets past a gate that
\* a cordon of the same node would not get past.
DrainGuardedAsCordon ==
    \A e \in execs : e.mut.op = "drain" =>
        /\ EvaluateCordon(e.mut.target, TRUE)
        /\ "cordon" \in ApprovalOps => e.approver # NoOne

\* The flow implements TwoPersonFlow.
FlowPhase(id) == IF Known(id) THEN reqs[id].phase
                 ELSE IF id \in issued THEN "forgotten" ELSE "unknown"

Flow == INSTANCE TwoPersonFlow WITH
    phase     <- [id \in Ids |-> FlowPhase(id)],
    requester <- [id \in Ids |-> IF Known(id) THEN reqs[id].requester ELSE NoOne],
    approver  <- [id \in Ids |-> IF Known(id) THEN reqs[id].approver ELSE NoOne]

ImplementsFlow == Flow!FlowSpec

\* An approved request reaches a terminal phase (or goes with a restart).
ApprovedResolves ==
    \A id \in Ids : Phase(id) = "approved" ~> Phase(id) \in Terminal \cup {"absent"}
=============================================================================
