---------------------------------- MODULE MCRest ----------------------------------
(***************************************************************************)
(* Values of Rest's constants for TLC.                                     *)
(***************************************************************************)
EXTENDS RestProperties, TLC

MCSymmetry == Permutations(Workers) \cup Permutations(Servers)

MCGet   == {[verb |-> "GET", data |-> FALSE]}
MCPosts == MCGet \cup {[verb |-> "POST", data |-> TRUE]}
=============================================================================
