------------------------- MODULE MCCoordinatorRoute -------------------------
(* Two sensors, two engine calls at once. *)
EXTENDS CoordinatorRoute
=============================================================================
