--------------------------- MODULE MCCoordinator ----------------------------
(***************************************************************************)
(* One collector, one frontend and two backends.                           *)
(***************************************************************************)
EXTENDS Coordinator

MCCount == [t \in Types |-> IF t = "backend" THEN 2 ELSE 1]

=============================================================================
