---------------------------------- MODULE MCKvp ----------------------------------
(***************************************************************************)
(* Values of Kvp's constants for TLC.                                      *)
(***************************************************************************)
EXTENDS Kvp, TLC

MCSymmetry == Permutations(Nodes) \cup Permutations(Values)
=============================================================================
