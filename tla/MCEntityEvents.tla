--------------------------- MODULE MCEntityEvents ---------------------------
(***************************************************************************)
(* The instance of EntityEvents for TLC, without symmetry: it checks       *)
(* liveness.                                                               *)
(***************************************************************************)
EXTENDS EntityEvents
=============================================================================
