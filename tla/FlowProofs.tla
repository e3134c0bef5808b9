----------------------------- MODULE FlowProofs -----------------------------
(***************************************************************************)
(* The approval flow implements TwoPersonFlow, and a drain is guarded as a *)
(* cordon is, for every value of the constants of Approvals.               *)
(*                                                                         *)
(* Both rest on the invariant of ApprovalsProofs and on what it leaves out *)
(* (GateInv): a record is parked without an approver, and only after the   *)
(* policy has let its mutation through.                                    *)
(***************************************************************************)
EXTENDS ApprovalsProofs

\* What a record the policy has let through carries.
Vetted(r) == PolicyAllows(r.mut)

GateInv ==
    /\ \A h \in Handlers : hs[h].pc = "parking" =>
          Vetted(hs[h].req) /\ hs[h].req.approver = NoOne
    /\ \A id \in Ids : reqs[id] # NoRequest => Vetted(reqs[id])
    /\ DrainGuardedAsCordon

\* The policy that lets a drain through lets a cordon of its node through.
LEMMA DrainPolicy ==
    ASSUME NEW m \in Mutations, PolicyAllows(m), m.op = "drain"
    PROVE  EvaluateCordon(m.target, TRUE)
BY DEF PolicyAllows, EvaluateDrain, EvaluateCordon

\* Gating cordon gates drain.
LEMMA DrainParks ==
    ASSUME NEW m \in Mutations, m.op = "drain", "cordon" \in ApprovalOps
    PROVE  Parks(m)
BY DEF Parks, Requires

-----------------------------------------------------------------------------
(* What a step can be to the requests: every action of Approvals is one of     *)
(* these.                                                                      *)

Others(id) == \A i \in Ids \ {id} : reqs'[i] = reqs[i]

NoneParks == \A h \in Handlers : hs'[h] = hs[h] \/ hs'[h].pc # "parking"

\* Requests at most expire or are swept away.
Quiet ==
    /\ \A id \in Ids : Settles(id)
    /\ NoneParks
    /\ UNCHANGED <<issued, runs, execs>>

\* A mutation that needs no approval runs, and nothing else happens.
Inlined(m) ==
    /\ PolicyAllows(m) /\ ~Parks(m)
    /\ execs' = execs \cup {[rid |-> NoId, mut |-> m, cluster |-> NoCluster,
                             requester |-> NoOne, approver |-> NoOne]}
    /\ UNCHANGED <<reqs, hs, issued, runs>>

\* A handler builds the record it will park.
Built(h) ==
    /\ hs'[h].req.approver = NoOne /\ Vetted(hs'[h].req)
    /\ \A g \in Handlers : g # h => hs'[g] = hs[g]
    /\ UNCHANGED <<reqs, issued, runs, execs>>

\* It parks it under a new id.
Inserted(h, id) ==
    /\ hs[h].pc = "parking" /\ id \notin issued
    /\ reqs'[id] = hs[h].req
    /\ \A i \in Ids \ {id} : Settles(i)
    /\ issued' = issued \cup {id}
    /\ NoneParks
    /\ UNCHANGED <<runs, execs>>

\* A second person approves.
Granted(id) ==
    /\ reqs[id] # NoRequest /\ reqs[id].phase = "pending"
    /\ reqs'[id] \in PendingRequest /\ reqs'[id].phase = "approved"
    /\ reqs'[id].requester = reqs[id].requester /\ reqs'[id].mut = reqs[id].mut
    /\ reqs'[id].approver \in Identities \ {reqs[id].requester}
    /\ Others(id) /\ NoneParks
    /\ UNCHANGED <<issued, runs, execs>>

\* The approved mutation runs.
Ran(h) ==
    /\ hs[h].pc = "executing" /\ Run(h)
    /\ NoneParks
    /\ UNCHANGED <<reqs, issued>>

\* The request is rejected, or gets the outcome of its run.
Resolved(id) ==
    /\ reqs[id] # NoRequest /\ reqs'[id] \in PendingRequest
    /\ \/ reqs[id].phase = "pending" /\ reqs'[id].phase = "rejected"
       \/ /\ reqs[id].phase = "approved" /\ runs[id] = 1
          /\ reqs'[id].phase \in {"succeeded", "failed"}
    /\ reqs'[id].requester = reqs[id].requester
    /\ reqs'[id].approver = reqs[id].approver
    /\ reqs'[id].mut = reqs[id].mut
    /\ Others(id) /\ NoneParks
    /\ UNCHANGED <<issued, runs, execs>>

Shape ==
    \/ Quiet
    \/ \E m \in Mutations : Inlined(m)
    \/ \E h \in Handlers : Built(h) \/ Ran(h)
    \/ \E h \in Handlers, id \in Ids : Inserted(h, id)
    \/ \E id \in Ids : Granted(id) \/ Resolved(id)
    \/ Restart

\* A handler that ends does not park.
LEMMA Ends ==
    ASSUME IInv, NEW h \in Handlers, hs' = [hs EXCEPT ![h] = Idle]
    PROVE  NoneParks
BY IdleType DEF IInv, TypeOK, NoneParks

\* A lookup that expires an overdue request settles the store.
LEMMA LookupSettles ==
    ASSUME IInv, NEW id \in Ids, expireLocked(id)
    PROVE  \A i \in Ids : Settles(i)
BY ExpireSettles DEF IInv

\* The lookups before Approve and Reject are quiet.
LEMMA LookupQuiet ==
    ASSUME IInv, NEW h \in Handlers, NEW c \in Clusters, NEW id \in Ids,
           (\E who \in Identities : ApproveLookup(h, who, c, id)) \/ RejectLookup(h, c, id)
    PROVE  Quiet
<1>1. expireLocked(id)
  BY DEF ApproveLookup, RejectLookup
<1>2. UNCHANGED <<issued, runs, execs>>
  BY DEF ApproveLookup, RejectLookup, history
<1>3. NoneParks
  <2>1. CASE hs' = hs
    BY <2>1 DEF NoneParks
  <2>2. ASSUME NEW s, s.pc # "parking", hs' = [hs EXCEPT ![h] = s] PROVE NoneParks
    BY <2>2 DEF IInv, TypeOK, NoneParks
  <2>4. ASSUME NEW who
        PROVE  [Idle EXCEPT !.pc = "approving", !.rid = id, !.who = who,
                            !.cluster = c].pc # "parking"
    BY DEF Idle
  <2>5. [Idle EXCEPT !.pc = "rejecting", !.rid = id, !.cluster = c].pc # "parking"
    BY DEF Idle
  <2>6. QED BY <2>1, <2>2, <2>4, <2>5 DEF ApproveLookup, RejectLookup
<1>4. QED BY <1>1, <1>2, <1>3, LookupSettles DEF Quiet

\* Reads of the store and steps of the clock are quiet.
LEMMA ReadQuiet ==
    ASSUME IInv, Read \/ ClockStep \/ UNCHANGED vars
    PROVE  Quiet
<1>1. UNCHANGED <<hs, issued, runs, execs>>
  BY DEF Read, GetApproval, ListApprovals, ClockStep, vars, history
<1>2. \A id \in Ids : Settles(id)
  <2>1. ASSUME NEW id \in Ids, GetApproval(id) PROVE \A i \in Ids : Settles(i)
    BY <2>1, LookupSettles DEF GetApproval
  <2>2. CASE ListApprovals
    BY <2>2, SweptSettles DEF ListApprovals, IInv
  <2>3. CASE ClockStep \/ UNCHANGED vars
    BY <2>3 DEF ClockStep, vars, Settles
  <2>4. QED BY <2>1, <2>2, <2>3 DEF Read
<1>3. QED BY <1>1, <1>2 DEF Quiet, NoneParks

\* What Approve makes of a request.
LEMMA ApproveShape ==
    ASSUME IInv, NEW h \in Handlers, Approve(h)
    PROVE  Quiet \/ \E id \in Ids : Granted(id)
<1> DEFINE id == hs[h].rid
           who == hs[h].who
<1>1. TypeOK /\ HandlerInv(h) /\ hs[h].pc = "approving" /\ UNCHANGED <<issued, runs, execs>>
  BY DEF IInv, Approve
<1>2. id \in Ids /\ who \in Identities /\ hs[h] \in HandlerState
  BY <1>1 DEF HandlerInv, TypeOK
<1>3. CASE ~MayApprove(id, who)
  <2>1. hs' = [hs EXCEPT ![h] = Idle] /\ expireLocked(id)
    BY <1>3 DEF Approve
  <2>2. QED BY <1>1, <1>2, <2>1, Ends, LookupSettles DEF Quiet
<1>4. CASE MayApprove(id, who)
  <2> DEFINE r == [reqs[id] EXCEPT !.phase = "approved", !.approver = who, !.updatedAt = clock']
  <2>1. reqs[id] # NoRequest /\ reqs[id].requester # who
    BY <1>4 DEF MayApprove, StillPending, Phase, Known
  <2>2. reqs[id] \in PendingRequest /\ clock' \in Nat
    BY <1>1, <1>2, <1>4, <2>1, ElapsesLemma DEF TypeOK, Approve
  <2>3. reqs[id].phase = "pending"
    BY <1>4 DEF MayApprove, StillPending, Phase, Known
  <2>4. /\ r \in PendingRequest /\ r.phase = "approved" /\ r.approver = who
        /\ r.requester = reqs[id].requester /\ r.mut = reqs[id].mut
    BY <1>2, <2>2 DEF PendingRequest, Phases
  <2>5. /\ reqs' = [reqs EXCEPT ![id] = r]
        /\ hs' = [hs EXCEPT ![h].pc = "executing", ![h].req = reqs'[id]]
    BY <1>4 DEF Approve
  <2> HIDE DEF r
  <2>6. reqs'[id] = r /\ Others(id)
    BY <1>1, <1>2, <2>5 DEF TypeOK, Others
  <2>7. NoneParks
    BY <1>1, <1>2, <2>5 DEF TypeOK, NoneParks, HandlerState
  <2>8. Granted(id)
    BY <1>1, <1>2, <2>1, <2>3, <2>4, <2>6, <2>7 DEF Granted
  <2>9. QED BY <1>2, <2>8
<1>5. QED BY <1>3, <1>4

\* What Reject makes of one.
LEMMA RejectShape ==
    ASSUME IInv, NEW h \in Handlers, Reject(h)
    PROVE  Quiet \/ \E id \in Ids : Resolved(id)
<1> DEFINE id == hs[h].rid
<1>1. /\ TypeOK /\ HandlerInv(h) /\ hs[h].pc = "rejecting"
      /\ UNCHANGED <<issued, runs, execs>> /\ NoneParks
  BY Ends DEF IInv, Reject
<1>2. id \in Ids
  BY <1>1 DEF HandlerInv, TypeOK
<1>3. CASE ~MayReject(id)
  BY <1>1, <1>2, <1>3, LookupSettles DEF Quiet, Reject
<1>4. CASE MayReject(id)
  <2> DEFINE r == [reqs[id] EXCEPT !.phase = "rejected", !.updatedAt = clock']
  <2>1. reqs[id] # NoRequest
    BY <1>4 DEF MayReject, StillPending, Phase, Known
  <2>2. reqs[id] \in PendingRequest /\ clock' \in Nat
    BY <1>1, <1>2, <1>4, <2>1, ElapsesLemma DEF TypeOK, Reject
  <2>3. reqs[id].phase = "pending"
    BY <1>4 DEF MayReject, StillPending, Phase, Known
  <2>4. /\ r \in PendingRequest /\ r.phase = "rejected" /\ r.approver = reqs[id].approver
        /\ r.requester = reqs[id].requester /\ r.mut = reqs[id].mut
    BY <2>2 DEF PendingRequest, Phases, Terminal
  <2>5. reqs' = [reqs EXCEPT ![id] = r]
    BY <1>4 DEF Reject
  <2> HIDE DEF r
  <2>6. reqs'[id] = r /\ Others(id)
    BY <1>1, <1>2, <2>5 DEF TypeOK, Others
  <2>7. Resolved(id)
    BY <1>1, <2>1, <2>3, <2>4, <2>6 DEF Resolved
  <2>8. QED BY <1>2, <2>7
<1>5. QED BY <1>3, <1>4

\* Complete finds the approved record and gives it its outcome.
LEMMA CompleteShape ==
    ASSUME IInv, NEW h \in Handlers, Complete(h)
    PROVE  \E id \in Ids : Resolved(id)
<1> DEFINE id == hs[h].rid
           p == IF hs[h].ok THEN "succeeded" ELSE "failed"
           r == [reqs[id] EXCEPT !.phase = p, !.updatedAt = clock]
<1>1. /\ TypeOK /\ HandlerInv(h) /\ hs[h].pc = "executed"
      /\ UNCHANGED <<issued, runs, execs>> /\ NoneParks
  BY Ends DEF IInv, Complete, history
<1>2. Holds(h) /\ runs[id] = 1
  BY <1>1 DEF HandlerInv
<1>3. id \in Ids /\ reqs[id] # NoRequest /\ reqs[id] \in PendingRequest
      /\ reqs[id].phase = "approved" /\ clock \in Nat
  BY <1>1, <1>2, NoRequestAssumption DEF Holds, TypeOK
<1>4. p \in {"succeeded", "failed"}
  OBVIOUS
<1>5. reqs' = [reqs EXCEPT ![id] = r]
  BY <1>3 DEF Complete, Known
<1> HIDE DEF p
<1>6. /\ r \in PendingRequest /\ r.phase = p /\ r.approver = reqs[id].approver
      /\ r.requester = reqs[id].requester /\ r.mut = reqs[id].mut
  BY <1>3, <1>4 DEF PendingRequest, Phases, Terminal
<1> HIDE DEF r
<1>7. reqs'[id] = r /\ Others(id)
  BY <1>1, <1>3, <1>5 DEF TypeOK, Others
<1>8. Resolved(id)
  BY <1>1, <1>2, <1>3, <1>4, <1>6, <1>7 DEF Resolved
<1>9. QED BY <1>3, <1>8

\* Park, before and under the lock.
LEMMA ParkShape ==
    ASSUME IInv, NEW h \in Handlers
    PROVE  /\ \A who \in Identities, c \in Clusters, m \in Mutations :
                 ParkBuild(h, who, c, m) => Built(h)
           /\ \A id \in Ids : ParkInsert(h, id) => Inserted(h, id)
<1>0. TypeOK /\ hs \in [Handlers -> HandlerState]
  BY DEF IInv, TypeOK
<1>1. ASSUME NEW who \in Identities, NEW c \in Clusters, NEW m \in Mutations,
             ParkBuild(h, who, c, m)
      PROVE  Built(h)
  <2> DEFINE r == [phase |-> "pending", mut |-> m, cluster |-> c,
                   requester |-> who, approver |-> NoOne,
                   updatedAt |-> clock, expiresAt |-> clock + TTL]
             s == [Idle EXCEPT !.pc = "parking", !.who = who, !.cluster = c, !.req = r]
  <2>1. hs' = [hs EXCEPT ![h] = s] /\ PolicyAllows(m)
    BY <1>1 DEF ParkBuild
  <2>2. r.mut = m /\ r.approver = NoOne
    OBVIOUS
  <2> HIDE DEF r
  <2>3. s.req = r
    BY DEF Idle
  <2> HIDE DEF s
  <2>4. hs'[h] = s /\ \A g \in Handlers : g # h => hs'[g] = hs[g]
    BY <1>0, <2>1
  <2>5. QED BY <1>1, <2>1, <2>2, <2>3, <2>4 DEF Built, Vetted, ParkBuild, history
<1>2. ASSUME NEW id \in Ids, ParkInsert(h, id) PROVE Inserted(h, id)
  <2>0. PICK seen \in Sweeps : reqs' = [sweepLocked(seen) EXCEPT ![id] = hs[h].req]
    BY <1>2 DEF ParkInsert
  <2>1. Elapses /\ sweepLocked(seen) \in [Ids -> PendingRequest \cup {NoRequest}]
    BY <1>0, <1>2, ElapsesLemma, SweepSettles DEF ParkInsert
  <2>3. reqs'[id] = hs[h].req /\ \A i \in Ids \ {id} : reqs'[i] = sweepLocked(seen)[i]
    BY <2>0, <2>1
  <2>4. \A i \in Ids \ {id} : Settles(i)
    BY <1>0, <2>1, <2>3, SweptSettles
  <2>5. NoneParks
    BY <1>2, Ends DEF ParkInsert
  <2>6. QED BY <1>2, <2>3, <2>4, <2>5 DEF Inserted, ParkInsert
<1>3. QED BY <1>1, <1>2

\* Executing, with or without a panic.
LEMMA RunShape ==
    ASSUME IInv, NEW h \in Handlers,
           ExecutePanic(h) \/ \E ok \in BOOLEAN : executePending(h, ok)
    PROVE  Ran(h)
<1>1. hs[h] \in HandlerState /\ hs \in [Handlers -> HandlerState]
  BY DEF IInv, TypeOK
<1>2. CASE ExecutePanic(h)
  BY <1>2, Ends DEF ExecutePanic, Ran
<1>3. ASSUME NEW ok \in BOOLEAN, executePending(h, ok) PROVE Ran(h)
  <2> DEFINE s == [hs[h] EXCEPT !.pc = "executed", !.ok = ok]
  <2>1. hs' = [hs EXCEPT ![h] = s] /\ s.pc = "executed"
    BY <1>1, <1>3 DEF executePending, HandlerState
  <2> HIDE DEF s
  <2>2. NoneParks
    BY <1>1, <2>1 DEF NoneParks
  <2>3. QED BY <1>3, <2>2 DEF executePending, Ran
<1>4. QED BY <1>2, <1>3

\* Every step has one of the shapes.
LEMMA NextShape == ASSUME IInv, [Next]_vars PROVE Shape
<1>1. ASSUME NEW h \in Handlers, HandlerStep(h) PROVE Shape
  BY <1>1, ParkShape, ApproveShape, RunShape, CompleteShape, RejectShape
     DEF HandlerStep, Shape
<1>2. ASSUME NEW h \in Handlers, ClientCall(h) PROVE Shape
  <2>1. ASSUME NEW m \in Mutations, MutateInline(h, m) PROVE Inlined(m)
    BY <2>1 DEF MutateInline, Inlined
  <2>2. ASSUME \/ \E id \in Ids : ApproveWithoutAuth(h, id)
               \/ \E m \in Mutations : MutateRefused(h, m)
        PROVE  Quiet
    BY <2>2 DEF ApproveWithoutAuth, MutateRefused, Quiet, NoneParks, Settles
  <2>3. QED BY <1>2, <2>1, <2>2, ParkShape, LookupQuiet DEF ClientCall, Shape
<1>3. QED BY <1>1, <1>2, ReadQuiet DEF Next, Shape

-----------------------------------------------------------------------------
(* A drain is guarded as a cordon is. *)

\* Every step keeps what is parked or recorded vetted, and drains guarded.
LEMMA NextGateInv == IInv /\ GateInv /\ [Next]_vars => GateInv'
<1> SUFFICES ASSUME IInv, GateInv, [Next]_vars PROVE GateInv'
  OBVIOUS
<1> DEFINE Parked   == \A h \in Handlers : hs[h].pc = "parking" =>
                          Vetted(hs[h].req) /\ hs[h].req.approver = NoOne
           Recorded == \A id \in Ids : reqs[id] # NoRequest => Vetted(reqs[id])
<1>0. Parked /\ Recorded /\ DrainGuardedAsCordon
  BY DEF GateInv
<1>1. ASSUME NoneParks PROVE Parked'
  BY <1>0, <1>1 DEF NoneParks, Vetted
<1>2. ASSUME UNCHANGED execs PROVE DrainGuardedAsCordon'
  BY <1>0, <1>2 DEF DrainGuardedAsCordon
<1>3. ASSUME NEW id \in Ids, Settles(id), reqs'[id] # NoRequest PROVE Vetted(reqs'[id])
  BY <1>0, <1>3 DEF Settles, Vetted
<1>4. CASE Quiet
  BY <1>1, <1>2, <1>3, <1>4 DEF Quiet, GateInv, Vetted
<1>5. ASSUME NEW m \in Mutations, Inlined(m) PROVE GateInv'
  <2> DEFINE e == [rid |-> NoId, mut |-> m, cluster |-> NoCluster,
                   requester |-> NoOne, approver |-> NoOne]
  <2>1. execs' = execs \cup {e} /\ e.mut = m
    BY <1>5 DEF Inlined
  <2> HIDE DEF e
  <2>2. m.op = "drain" => EvaluateCordon(m.target, TRUE) /\ "cordon" \notin ApprovalOps
    BY <1>5, DrainPolicy, DrainParks DEF Inlined
  <2>3. DrainGuardedAsCordon'
    BY <1>0, <2>1, <2>2 DEF DrainGuardedAsCordon
  <2>4. QED BY <1>0, <1>5, <2>3 DEF GateInv, Inlined
<1>6. ASSUME NEW h \in Handlers, Built(h) PROVE GateInv'
  BY <1>0, <1>2, <1>6 DEF GateInv, Built, Vetted
<1>7. ASSUME NEW h \in Handlers, NEW id \in Ids, Inserted(h, id) PROVE GateInv'
  <2>1. Vetted(hs[h].req)
    BY <1>0, <1>7 DEF Inserted
  <2>2. Recorded'
    BY <1>3, <1>7, <2>1 DEF Inserted, Vetted
  <2>3. QED BY <1>1, <1>2, <1>7, <2>2 DEF Inserted, GateInv
<1>8. ASSUME NEW id \in Ids, Granted(id) \/ Resolved(id) PROVE GateInv'
  <2>1. /\ reqs[id] # NoRequest /\ reqs'[id].mut = reqs[id].mut
        /\ \A i \in Ids \ {id} : reqs'[i] = reqs[i]
    BY <1>8 DEF Granted, Resolved, Others
  <2>2. Recorded'
    BY <1>0, <2>1 DEF Vetted
  <2>3. QED BY <1>1, <1>2, <1>8, <2>2 DEF Granted, Resolved, GateInv
<1>9. ASSUME NEW h \in Handlers, Ran(h) PROVE GateInv'
  <2> DEFINE r == hs[h].req
             e == [rid |-> hs[h].rid, mut |-> r.mut, cluster |-> r.cluster,
                   requester |-> r.requester, approver |-> r.approver]
  <2>1. Holds(h) /\ hs[h].rid \in Ids
    BY <1>9 DEF Ran, IInv, HandlerInv, Holds, TypeOK
  <2>2. r \in PendingRequest /\ Vetted(r) /\ r.approver # NoOne /\ r.mut \in Mutations
    BY <1>0, <2>1, NoRequestAssumption DEF Holds, PendingRequest
  <2>3. execs' = execs \cup {e} /\ e.mut = r.mut /\ e.approver = r.approver
    BY <1>9 DEF Ran, Run
  <2> HIDE DEF e, r
  <2>4. r.mut.op = "drain" => EvaluateCordon(r.mut.target, TRUE)
    BY <2>2, DrainPolicy DEF Vetted
  <2>5. DrainGuardedAsCordon'
    BY <1>0, <2>2, <2>3, <2>4 DEF DrainGuardedAsCordon
  <2>6. QED BY <1>0, <1>1, <1>9, <2>5 DEF GateInv, Ran
<1>10. CASE Restart
  <2>1. Parked' /\ Recorded'
    BY <1>10, IdleType DEF Restart
  <2>2. QED BY <1>2, <1>10, <2>1 DEF Restart, history, GateInv
<1>11. QED BY <1>4, <1>5, <1>6, <1>7, <1>8, <1>9, <1>10, NextShape DEF Shape

\* The superset rule: no drain, parked or inline, gets past a gate of policy or
\* approval that a cordon of the same node would not get past.
THEOREM DrainGuardedAsCordonHolds == Spec => []DrainGuardedAsCordon
<1>1. Init => GateInv
  BY IdleType DEF Init, GateInv, DrainGuardedAsCordon
<1>2. GateInv => DrainGuardedAsCordon
  BY DEF GateInv
<1>3. QED BY <1>1, <1>2, NextGateInv, Invariance, PTL DEF Spec

-----------------------------------------------------------------------------
(* The refinement. *)

\* One request moves by one step of TwoPersonFlow.
Moves(id) ==
    Flow!Ask(id) \/ Flow!Grant(id) \/ Flow!Refuse(id) \/ Flow!Execute(id)
    \/ Flow!Finish(id) \/ Flow!Forget(id) \/ Flow!Keep(id)

\* A request that only settles is kept, expires or is forgotten.
LEMMA SettlesMoves ==
    ASSUME IInv, NEW id \in Ids, Settles(id), runs'[id] = runs[id],
           id \in issued' <=> id \in issued
    PROVE  Moves(id)
<1>1. reqs[id] # NoRequest => id \in issued
  BY DEF IInv, RequestInv
<1>2. CASE reqs'[id] = reqs[id]
  <2>1. Flow!Keep(id)
    BY <1>2 DEF Flow!Keep, Flow!Same, FlowPhase, Known
  <2>2. QED BY <2>1 DEF Moves
<1>3. CASE /\ reqs[id] # NoRequest /\ reqs[id].phase = "pending"
           /\ reqs'[id] \in PendingRequest /\ reqs'[id].phase = "expired"
           /\ reqs'[id].requester = reqs[id].requester
           /\ reqs'[id].approver = reqs[id].approver
  <2>0. reqs'[id] # NoRequest
    BY <1>3, NoRequestAssumption
  <2>1. Flow!Refuse(id)
    BY <1>3, <2>0 DEF Flow!Refuse, Flow!Move, Flow!Same, FlowPhase, Known
  <2>2. QED BY <2>1 DEF Moves
<1>4. CASE /\ reqs[id] # NoRequest /\ reqs[id].phase \in Terminal \cup {"pending"}
           /\ reqs'[id] = NoRequest
  <2>1. Flow!Forget(id)
    BY <1>1, <1>4 DEF Flow!Forget, Flow!Outcomes, FlowPhase, Known, Terminal
  <2>2. QED BY <2>1 DEF Moves
<1>5. QED BY <1>2, <1>3, <1>4 DEF Settles

\* A request a step leaves alone settles.
LEMMA UntouchedMoves ==
    ASSUME IInv, NEW id \in Ids, reqs'[id] = reqs[id], runs'[id] = runs[id],
           issued' = issued
    PROVE  Moves(id)
BY SettlesMoves DEF Settles

\* Every step of the approval flow is a step of TwoPersonFlow, or none.
LEMMA NextFlow == IInv /\ GateInv /\ [Next]_vars => Flow!FlowNext
<1> SUFFICES ASSUME IInv, GateInv, [Next]_vars PROVE Flow!FlowNext
  OBVIOUS
<1>0. ASSUME \A id \in Ids : Moves(id) PROVE Flow!FlowNext
  BY <1>0 DEF Moves, Flow!FlowNext
<1>1. CASE Quiet
  BY <1>0, <1>1, SettlesMoves DEF Quiet
<1>2. ASSUME NEW m \in Mutations, Inlined(m) PROVE Flow!FlowNext
  BY <1>0, <1>2, UntouchedMoves DEF Inlined
<1>3. ASSUME NEW h \in Handlers, Built(h) PROVE Flow!FlowNext
  BY <1>0, <1>3, UntouchedMoves DEF Built
<1>4. ASSUME NEW h \in Handlers, NEW id \in Ids, Inserted(h, id) PROVE Flow!FlowNext
  <2>1. /\ reqs[id] = NoRequest /\ runs[id] = 0 /\ id \notin issued
        /\ hs[h].req \in PendingRequest /\ hs[h].req.phase = "pending"
        /\ hs[h].req.requester \in Identities
    BY <1>4 DEF Inserted, IInv, RequestInv, HandlerInv, PendingRequest
  <2>2. hs[h].req.approver = NoOne
    BY <1>4 DEF Inserted, GateInv
  <2>3. reqs'[id] = hs[h].req /\ reqs'[id] # NoRequest /\ runs'[id] = 0
    BY <1>4, <2>1, NoRequestAssumption DEF Inserted
  <2>4. Flow!Ask(id)
    BY <2>1, <2>2, <2>3 DEF Flow!Ask, Flow!Move, FlowPhase, Known
  <2>5. ASSUME NEW i \in Ids, i # id PROVE Moves(i)
    BY <1>4, <2>5, SettlesMoves DEF Inserted
  <2>6. QED BY <1>0, <2>4, <2>5 DEF Moves
<1>5. ASSUME NEW id \in Ids, Granted(id) PROVE Flow!FlowNext
  <2>1. reqs'[id] # NoRequest /\ runs[id] = 0 /\ runs'[id] = 0
    BY <1>5, NoRequestAssumption DEF Granted, IInv, RequestInv
  <2>2. Flow!Grant(id)
    BY <1>5, <2>1 DEF Granted, Flow!Grant, Flow!Move, FlowPhase, Known
  <2>3. ASSUME NEW i \in Ids, i # id PROVE Moves(i)
    BY <1>5, <2>3, UntouchedMoves DEF Granted, Others
  <2>4. QED BY <1>0, <2>2, <2>3 DEF Moves
<1>6. ASSUME NEW id \in Ids, Resolved(id) PROVE Flow!FlowNext
  <2>1. reqs'[id] # NoRequest /\ runs'[id] = runs[id]
    BY <1>6, NoRequestAssumption DEF Resolved
  <2>2. reqs[id].phase = "pending" /\ reqs'[id].phase = "rejected" => Flow!Refuse(id)
    BY <1>6, <2>1 DEF Resolved, Flow!Refuse, Flow!Move, Flow!Same, FlowPhase, Known
  <2>3. reqs[id].phase = "approved" /\ runs[id] = 1
        /\ reqs'[id].phase \in {"succeeded", "failed"} => Flow!Finish(id)
    BY <1>6, <2>1 DEF Resolved, Flow!Finish, Flow!Move, Flow!Same, FlowPhase, Known
  <2>4. Moves(id)
    BY <1>6, <2>2, <2>3 DEF Resolved, Moves
  <2>5. ASSUME NEW i \in Ids, i # id PROVE Moves(i)
    BY <1>6, <2>5, UntouchedMoves DEF Resolved, Others
  <2>6. QED BY <1>0, <2>4, <2>5
<1>7. ASSUME NEW h \in Handlers, Ran(h) PROVE Flow!FlowNext
  <2>0. PICK id \in Ids : id = hs[h].rid
    BY <1>7 DEF Ran, IInv, HandlerInv, Holds, TypeOK
  <2>1. /\ Holds(h) /\ runs[id] = 0
        /\ runs' = [runs EXCEPT ![id] = @ + 1] /\ UNCHANGED <<reqs, issued>>
    BY <1>7, <2>0 DEF Ran, Run, IInv, HandlerInv
  <2>2. reqs[id] # NoRequest /\ reqs[id].phase = "approved"
    BY <2>0, <2>1, NoRequestAssumption DEF Holds
  <2>3. runs'[id] = 1 /\ \A i \in Ids : i # id => runs'[i] = runs[i]
    BY <2>1 DEF IInv, TypeOK
  <2>4. Flow!Execute(id)
    BY <2>1, <2>2, <2>3 DEF Flow!Execute, Flow!Move, Flow!Same, FlowPhase, Known
  <2>5. ASSUME NEW i \in Ids, i # id PROVE Moves(i)
    BY <2>1, <2>3, <2>5, UntouchedMoves
  <2>6. QED BY <1>0, <2>4, <2>5 DEF Moves
<1>8. CASE Restart
  <2>1. \A id \in Ids : reqs'[id] = NoRequest
    BY <1>8 DEF Restart
  <2>2. issued' = issued /\ runs' = runs
    BY <1>8 DEF Restart, history
  <2>3. ASSUME NEW id \in Ids
        PROVE  FlowPhase(id)' = IF FlowPhase(id) \in Flow!Live THEN "forgotten"
                                ELSE FlowPhase(id)
    <3>1. CASE reqs[id] # NoRequest
      <4>1. id \in issued /\ reqs[id].phase \in Phases
        BY <3>1 DEF IInv, RequestInv, TypeOK, PendingRequest
      <4>2. FlowPhase(id) \in Flow!Live /\ FlowPhase(id)' = "forgotten"
        BY <3>1, <4>1, <2>1, <2>2
           DEF FlowPhase, Known, Flow!Live, Flow!Outcomes, Phases, Terminal
      <4>3. QED BY <4>2
    <3>2. CASE reqs[id] = NoRequest
      BY <3>2, <2>1, <2>2 DEF FlowPhase, Known, Flow!Live, Flow!Outcomes
    <3>3. QED BY <3>1, <3>2
  <2>4. Flow!Lose
    BY <2>2, <2>3 DEF Flow!Lose
  <2>5. QED BY <2>4 DEF Flow!FlowNext
<1>9. QED BY <1>1, <1>2, <1>3, <1>4, <1>5, <1>6, <1>7, <1>8, NextShape DEF Shape

\* The handlers, their lock holds, the sweeps, panics and restarts implement what
\* TwoPersonFlow promises of each request.
THEOREM ImplementsFlowHolds == Spec => ImplementsFlow
<1>1. Init => GateInv
  BY IdleType DEF Init, GateInv, DrainGuardedAsCordon
<1>2. Init => Flow!FlowInit
  BY DEF Init, Flow!FlowInit, FlowPhase, Known
<1>3. QED BY <1>1, <1>2, NextFlow, NextGateInv, Invariance, PTL
      DEF Spec, ImplementsFlow, Flow!FlowSpec
=============================================================================
