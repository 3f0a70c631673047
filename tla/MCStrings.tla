----------------------------------- MODULE MCStrings -----------------------------------
(***************************************************************************)
(* Values of Strings' constants for TLC.                                   *)
(***************************************************************************)
EXTENDS Strings

MCSymmetry == Permutations(Threads)

(* every text of up to four of the characters that matter                      *)
MCTexts == UNION {[1 .. n -> {BACKSLASH, COMMA, "a"}] : n \in 0 .. 4}

CR == "\r"
MCStatus == <<"a", ":", " ", "b", CR, NEWLINE>>  \* a line of another name
MCCookie == <<SETCOOKIE, ":", " ", "c", ";", " ", "p", CR, NEWLINE>>
MCOther  == <<SETCOOKIE, ":", "d", ";", CR, NEWLINE>>
MCEnd    == <<CR, NEWLINE>>

MCHeaders == {<<>>, MCStatus \o MCEnd, MCCookie \o MCEnd, MCStatus \o MCCookie \o MCOther \o MCEnd,
              <<SETCOOKIE, "2">> \o MCStatus \o MCOther}

(* a cookie without attributes, and one from a server that speaks HTTP/2        *)
MCBare  == {<<SETCOOKIE, ":", " ", "c", CR, NEWLINE>>}
MCLower == {<<"set-cookie", ":", " ", "c", ";", CR, NEWLINE>>}
=============================================================================
