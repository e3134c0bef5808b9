------------------------------ MODULE MCDrain ------------------------------
(***************************************************************************)
(* Instances of Drain for TLC.                                             *)
(***************************************************************************)
EXTENDS Drain, TLC

Managed   == [mirror |-> FALSE, daemonSet |-> FALSE, controller |-> TRUE, phase |-> "running"]
Bare      == [Managed EXCEPT !.controller = FALSE]
DaemonPod == [Managed EXCEPT !.daemonSet = TRUE]

\* Evictable pods on one node: of three, two workers leave one queued.
MCManagedPods == [n \in Names |-> Managed]
MCOneNode == [n \in Names |-> "n1"]

SymmetricPods == Permutations(Names)

\* A bare pod, a DaemonSet pod and a managed pod: a drain is refused until the
\* bare one is gone.
MCMixedPods == "p" :> Managed @@ "bare" :> Bare @@ "ds" :> DaemonPod
=============================================================================
