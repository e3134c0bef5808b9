--------------------------- MODULE GatewayPolicy ---------------------------
(***************************************************************************)
(* The gates a gateway mutation passes before it reaches the cluster:      *)
(* validation of the target id, ScalePolicy or NodePolicy, and the         *)
(* op-classes an ApprovalStore parks.  A mutation request is the record    *)
(* the handler has after decoding path and body; texts (ids, reasons) are  *)
(* abstracted to what the gates compare.  A nil *ScalePolicy, *NodePolicy  *)
(* or *ApprovalStore permits what its zero value permits, so each is given *)
(* here by its fields.                                                     *)
(***************************************************************************)
EXTENDS Integers

CONSTANTS
    Targets,            \* workload and node ids
    Namespaces,         \* namespaces workload ids can name
    ReplicaCounts,      \* replica counts a scale body can carry
    MaxReplicas,        \* ScalePolicy.MaxReplicas, 0 is "no ceiling"
    AllowedNamespaces,  \* ScalePolicy.AllowedNamespaces, {} is "any"
    AllowedNodes,       \* NodePolicy.AllowedNodes, {} is "any"
    ProtectedNodes,     \* NodePolicy.ProtectedNodes
    DisableDrain,       \* NodePolicy.DisableDrain
    ApprovalOps         \* op-classes given to NewApprovalStore

WorkloadOps == {"scale", "restart"}
NodeOps     == {"cordon", "uncordon", "drain"}
OpClasses   == {"scale", "restart", "cordon", "drain"}

ASSUME PolicyAssumption ==
    /\ MaxReplicas \in Nat
    /\ ReplicaCounts \subseteq Int
    /\ AllowedNamespaces \subseteq Namespaces
    /\ AllowedNodes \subseteq Targets
    /\ ProtectedNodes \subseteq Targets
    /\ DisableDrain \in BOOLEAN
    /\ ApprovalOps \subseteq OpClasses

\* A decoded mutation.  valid: ParseWorkloadID or ValidateNodeID accepts the id.
Mutation == [op : WorkloadOps \cup NodeOps, target : Targets, valid : BOOLEAN,
             namespace : Namespaces, replicas : ReplicaCounts]

-----------------------------------------------------------------------------
EvaluateNamespace(ns) == AllowedNamespaces = {} \/ ns \in AllowedNamespaces

Evaluate(ns, n) == (MaxReplicas = 0 \/ n <= MaxReplicas) /\ EvaluateNamespace(ns)

evaluateNode(node) ==
    /\ node \notin ProtectedNodes
    /\ AllowedNodes = {} \/ node \in AllowedNodes

EvaluateCordon(node, unschedulable) == unschedulable => evaluateNode(node)

EvaluateDrain(node) == ~DisableDrain /\ evaluateNode(node)

Requires_Exact(op) == op \in ApprovalOps
\* ApprovalStore.Requires: gating cordon gates drain as well.
Requires(op) == op \in ApprovalOps \/ (op = "drain" /\ "cordon" \in ApprovalOps)

\* The 400 answers: a bad id, or a scale without a non-negative count.
WellFormed(m) == m.valid /\ (m.op = "scale" => m.replicas >= 0)

\* The 403 answers: the policy check each handler runs.
PolicyAllows(m) ==
    CASE m.op = "scale"    -> Evaluate(m.namespace, m.replicas)
      [] m.op = "restart"  -> EvaluateNamespace(m.namespace)
      [] m.op = "cordon"   -> EvaluateCordon(m.target, TRUE)
      [] m.op = "uncordon" -> EvaluateCordon(m.target, FALSE)
      [] m.op = "drain"    -> EvaluateDrain(m.target)

\* The op-class a handler asks Requires about; uncordon never asks.
Parks(m) == m.op # "uncordon" /\ Requires(m.op)
=============================================================================
