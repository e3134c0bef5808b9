---------------------------- MODULE MCApprovals ----------------------------
(***************************************************************************)
(* Instances of Approvals for TLC: one node and one protected node, cordon *)
(* gated (and so drain), scale and uncordon not.                           *)
(***************************************************************************)
EXTENDS Approvals, TLC

M(op, t, v) == [op |-> op, target |-> t, valid |-> v, namespace |-> "ns", replicas |-> 1]

MCTargets == {"node", "master", "web"}

\* One parked mutation: enough for the races between handlers.
MCOneMutation == {M("drain", "node", TRUE)}

\* Around the gate: parked, refused by policy, inline.
MCMutations == {M("drain", "node", TRUE), M("cordon", "master", TRUE),
                M("uncordon", "master", TRUE)}

Symmetry == Permutations(Ids) \cup Permutations(Handlers)
                \cup Permutations(Identities) \cup Permutations(Clusters)
=============================================================================
