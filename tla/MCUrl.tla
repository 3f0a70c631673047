----------------------------------- MODULE MCUrl -----------------------------------
(***************************************************************************)
(* Values of UrlParams' constants for TLC.                                 *)
(***************************************************************************)
EXTENDS UrlParams

MCSymmetry == Permutations(Nodes)

MCKeys   == {<<97>>, <<Equals, Ampersand>>}
MCValues == {<<>>} \cup {[i \in 1 .. 5 |-> 5 * block + i] : block \in 0 .. 50}
=============================================================================
