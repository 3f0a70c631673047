---------------------------------- MODULE MCCtw ----------------------------------
(***************************************************************************)
(* Values of Ctw's constants for TLC.                                      *)
(***************************************************************************)
EXTENDS CtwProperties, TLC

MCSymmetry == Permutations(Workers)

MCGet == {[verb |-> "GET", data |-> FALSE]}
MCPut == {[verb |-> "PUT", data |-> TRUE], [verb |-> "PUT", data |-> FALSE]}
=============================================================================
