------------------------------ MODULE MCClient ------------------------------
(***************************************************************************)
(* Client for TLC.                                                         *)
(***************************************************************************)
EXTENDS ClientRefinement
=============================================================================
