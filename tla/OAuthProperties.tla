----------------------------- MODULE OAuthProperties -----------------------------
(***************************************************************************)
(* What should hold of the requests [oauth] signs.                         *)
(***************************************************************************)
EXTENDS OAuth, CtwProperties

(* An RSA key as PEM has it: the words of a -----marker----- on one line, with *)
(* spaces, and every other word on a line of its own.                          *)
InMarker(words, i) ==
    \E j \in 1 .. i : words[j] \in Opening /\ \A k \in j .. i : words[k] \notin Closing

PemText(words) ==
    FlattenSeq([i \in 1 .. Len(words) |->
        IF i = Len(words) THEN <<words[i]>>
        ELSE <<words[i], IF InMarker(words, i) THEN " " ELSE "\n">>])

(* What libcurl sends was signed for the account of the last init and with the *)
(* method and the key of the last method message, as they were when the        *)
(* command was issued, whatever messages, cancels and reports came between     *)
(* that and the moment the worker takes the text.  Nothing is said of a        *)
(* command that follows an init or a method message that was not in order.     *)
InOrder == asked.url # None /\ asked.method # None
Wanted  == [asked EXCEPT !.key = IF @ = None THEN None ELSE PemText(@)]

SignedAsAsked ==
    \A w \in Workers : pc[w] \in CancelRegion /\ object = "live" /\ InOrder => sent = Wanted

(* An object that has no account, because the last init named none, makes no   *)
(* request.                                                                    *)
UninitialisedIsSilent ==
    [][\A w \in Workers, r \in Requests :
          OAuthCommand(w, r) => account # NoAccount]_<<vars, oauthVars>>

(* Nothing that was freed goes into a signature.                               *)
NoFreedText ==
    \A w \in Workers : pc[w] \in CancelRegion /\ object = "live" =>
        sent.url # Freed /\ sent.key # Freed
=============================================================================
