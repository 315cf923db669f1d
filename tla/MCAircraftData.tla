--------------------------- MODULE MCAircraftData ---------------------------
(* AircraftData and its refinement on small instances. *)
EXTENDS AircraftDataRefinement, TLC

Symmetry == Permutations(Ids)
=============================================================================
