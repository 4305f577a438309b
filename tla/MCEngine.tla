------------------------------ MODULE MCEngine ------------------------------
(***************************************************************************)
(* Instances of Engine and of the map it implements for TLC.               *)
(***************************************************************************)
EXTENDS EngineRefinement
=============================================================================
