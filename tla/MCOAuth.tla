---------------------------------- MODULE MCOAuth ----------------------------------
(***************************************************************************)
(* Values of OAuth's constants for TLC.                                    *)
(***************************************************************************)
EXTENDS OAuthProperties

MCSymmetry == Permutations(Workers) \cup Permutations(Accounts)

MCGet     == {[verb |-> "GET", data |-> TRUE]}
MCUploads == {[verb |-> "POST", data |-> TRUE], [verb |-> "PUT", data |-> TRUE]}

MCOpening == {"-----BEGIN", "-----END"}
MCClosing == {"KEY-----"}
MCKey     == <<"-----BEGIN", "PRIVATE", "KEY-----", "MIIC", "dgIB", "-----END", "PRIVATE", "KEY-----">>
MCKeys    == {MCKey}
=============================================================================
