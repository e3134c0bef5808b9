--------------------------- MODULE TwoPersonFlow ---------------------------
(***************************************************************************)
(* What the approval flow promises about each parked mutation, without     *)
(* handlers, locks, clock or audit: somebody asks, somebody else may       *)
(* approve, the mutation runs at most once and only then, and the request  *)
(* ends in exactly one outcome, which stays until it is forgotten.         *)
(***************************************************************************)
EXTENDS Naturals

CONSTANTS Ids, Identities, NoOne

VARIABLES phase, requester, approver, runs

flow == <<phase, requester, approver, runs>>

Outcomes == {"rejected", "expired", "succeeded", "failed"}
Live     == {"pending", "approved"} \cup Outcomes

FlowInit ==
    /\ phase = [id \in Ids |-> "unknown"]
    /\ requester = [id \in Ids |-> NoOne]
    /\ approver = [id \in Ids |-> NoOne]
    /\ runs = [id \in Ids |-> 0]

Move(id, from, to) == phase[id] = from /\ phase'[id] = to

Same(id) == requester'[id] = requester[id] /\ approver'[id] = approver[id]

Ask(id) ==
    /\ Move(id, "unknown", "pending")
    /\ requester'[id] \in Identities /\ approver'[id] = NoOne
    /\ runs'[id] = 0

\* The second person.
Grant(id) ==
    /\ Move(id, "pending", "approved")
    /\ requester'[id] = requester[id]
    /\ approver'[id] \in Identities \ {requester[id]}
    /\ runs'[id] = 0 /\ runs[id] = 0

Refuse(id) ==
    /\ Move(id, "pending", "rejected") \/ Move(id, "pending", "expired")
    /\ Same(id) /\ runs'[id] = runs[id]

Execute(id) ==
    /\ Move(id, "approved", "approved") /\ Same(id)
    /\ runs[id] = 0 /\ runs'[id] = 1

Finish(id) ==
    /\ Move(id, "approved", "succeeded") \/ Move(id, "approved", "failed")
    /\ Same(id)
    /\ runs[id] = 1 /\ runs'[id] = 1

\* With a clock stepped back, one sweep expires a request and forgets it.
Forget(id) ==
    /\ phase[id] \in Outcomes \cup {"pending"} /\ phase'[id] = "forgotten"
    /\ runs'[id] = runs[id]

Keep(id) == phase'[id] = phase[id] /\ Same(id) /\ runs'[id] = runs[id]

\* A restart forgets every request at once; what ran stays run.
Lose ==
    /\ phase' = [id \in Ids |-> IF phase[id] \in Live THEN "forgotten" ELSE phase[id]]
    /\ runs' = runs

\* One store operation can touch several requests (a sweep), each by one step.
FlowNext ==
    \/ Lose
    \/ \A id \in Ids :
          Ask(id) \/ Grant(id) \/ Refuse(id) \/ Execute(id) \/ Finish(id)
          \/ Forget(id) \/ Keep(id)

FlowSpec == FlowInit /\ [][FlowNext]_flow
=============================================================================
