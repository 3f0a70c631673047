----------------------------------- MODULE Strings -----------------------------------
(***************************************************************************)
(* string_remove_backslashes (src/inc/string.c), which Pd's thread calls   *)
(* for commands and JSON texts, and rest_extract_token (src/rest.c), which *)
(* the worker of a login calls without any lock.  Both take their text     *)
(* apart with strtok, and strtok remembers where it is in one static       *)
(* variable.                                                               *)
(*                                                                         *)
(* A text is a sequence of characters; NUL is what strtok writes where it  *)
(* cuts.  The name of the header and a word are one character each.        *)
(***************************************************************************)
EXTENDS Naturals, Sequences, SequencesExt

CONSTANTS
    Threads,  \* each takes one text apart
    Texts,    \* what Pd's messages hold
    Headers,  \* what the servers' answers begin with
    Serial    \* does a thread begin only when no other is at it?

NUL == "NUL"
BACKSLASH == "\\"
COMMA == ","
NEWLINE == "\n"
BLANK == " "
SEMICOLON == ";"
SETCOOKIE == "Set-Cookie"

(* a C string ends at its first NUL                                            *)
ASSUME StringsAssumption ==
    Serial \in BOOLEAN /\ \A s \in Texts \cup Headers : s \in Seq(Range(s) \ {NUL})

VARIABLES
    position,  \* static of strtok: <<thread whose text it is in, index>>, or <<>>
    text,      \* the copy each thread takes apart
    source,    \* history: the text as it was
    line,      \* header_line of each thread: <<thread, index>>, or <<>>
    result,    \* the cleaned text, or the cookie
    pc         \* control state of each thread

vars == <<position, text, source, line, result, pc>>

Init ==
    /\ position = <<>> /\ pc = [t \in Threads |-> "idle"]
    /\ text = [t \in Threads |-> <<>>] /\ source = text /\ line = text /\ result = text

--------------------------------------------------------------------------------
(* strtok from p: skips delimiters, cuts at the next one, goes on behind it    *)

End(s, i) == Min({j \in i .. Len(s) : s[j] = NUL} \cup {Len(s) + 1})

Token(p, delimiters) ==
    LET s     == text[p[1]]
        end   == End(s, p[2])
        begin == Min({j \in p[2] .. end - 1 : s[j] \notin delimiters} \cup {end})
        stop  == Min({j \in begin .. end - 1 : s[j] \in delimiters} \cup {end})
    IN  [found |-> begin < end, string |-> SubSeq(s, begin, stop - 1), at |-> <<p[1], begin>>,
         cut |-> stop, next |-> IF stop < end THEN stop + 1 ELSE end]

Cut(p, token) ==
    /\ position' = <<p[1], token.next>>
    /\ text' = [text EXCEPT ![p[1]] =
                   IF token.cut \in DOMAIN @ THEN [@ EXCEPT ![token.cut] = NUL] ELSE @]

Goto(t, state) == pc' = [pc EXCEPT ![t] = state]

Begin(t, state, s) ==
    /\ pc[t] = "idle"
    /\ Serial => \A u \in Threads : pc[u] \in {"idle", "cleaned", "extracted"}
    /\ Goto(t, state)
    /\ text' = [text EXCEPT ![t] = s] /\ source' = [source EXCEPT ![t] = s]
    /\ UNCHANGED <<position, line, result>>

--------------------------------------------------------------------------------
(* string_remove_backslashes; an empty text is not looked at                   *)

Clean(t, s) == Begin(t, IF s = <<>> THEN "cleaned" ELSE "first", s)

BugFirstSegment(t) ==
    /\ pc[t] = "first" /\ Goto(t, "segment")
    /\ LET token == Token(<<t, 1>>, {BACKSLASH})
       IN  /\ Cut(<<t, 1>>, token)
           /\ result' = [result EXCEPT ![t] = <<BACKSLASH>> \o token.string]
    /\ UNCHANGED <<source, line>>

(* strcpy of the first segment                                                 *)
FirstSegment(t) ==
    /\ pc[t] = "first" /\ Goto(t, "segment")
    /\ LET token == Token(<<t, 1>>, {BACKSLASH})
       IN  /\ Cut(<<t, 1>>, token)
           /\ result' = [result EXCEPT ![t] = token.string]
    /\ UNCHANGED <<source, line>>

BugMasked(string) == IF Head(string) = COMMA THEN <<BACKSLASH>> \o string ELSE string

(* the backslash before a comma goes, any other stays                          *)
Masked(string) == IF Head(string) = COMMA THEN string ELSE <<BACKSLASH>> \o string

NextSegment(t) ==
    /\ pc[t] = "segment"
    /\ LET token == Token(position, {BACKSLASH})
       IN  /\ Cut(position, token)
           /\ Goto(t, IF token.found THEN "segment" ELSE "cleaned")
           /\ result' = [result EXCEPT ![t] = IF token.found THEN @ \o Masked(token.string) ELSE @]
    /\ UNCHANGED <<source, line>>

--------------------------------------------------------------------------------
(* rest_extract_token                                                          *)

Extract(t, s) == Begin(t, IF s = <<>> THEN "extracted" ELSE "header", s)

(* strncmp(header_line, "Set-Cookie:", 11) == 0                                *)
StartsCookie(string) == Len(string) > 1 /\ string[1] = SETCOOKIE /\ string[2] = ":"

ReadLine(t, p) ==
    LET token == Token(p, {NEWLINE})
    IN  /\ Cut(p, token)
        /\ line' = [line EXCEPT ![t] = token.at]
        /\ Goto(t, IF ~token.found THEN "extracted"
                   ELSE IF StartsCookie(token.string) THEN "name" ELSE "line")
        /\ UNCHANGED <<source, result>>

FirstLine(t) == pc[t] = "header" /\ ReadLine(t, <<t, 1>>)
NextLine(t)  == pc[t] = "line" /\ ReadLine(t, position)

BugCutName(t) ==
    /\ pc[t] = "name" /\ Goto(t, "parameter")
    /\ position' = line[t]
    /\ UNCHANGED <<text, source, line, result>>

(* the line is taken apart again from its beginning                            *)
CutName(t) ==
    /\ pc[t] = "name" /\ Goto(t, "parameter")
    /\ Cut(line[t], Token(line[t], {":", BLANK}))
    /\ UNCHANGED <<source, line, result>>

(* the first parameter is the cookie                                           *)
Parameter(t) ==
    /\ pc[t] = "parameter" /\ Goto(t, "extracted")
    /\ LET token == Token(position, {SEMICOLON, BLANK})
       IN  /\ Cut(position, token)
           /\ result' = [result EXCEPT ![t] = token.string]
    /\ UNCHANGED <<source, line>>

(* both threads are done                                                       *)
Done == (\A t \in Threads : pc[t] \in {"cleaned", "extracted"}) /\ UNCHANGED vars

Next ==
    \/ \E t \in Threads :
          \/ \E s \in Texts : Clean(t, s)
          \/ \E s \in Headers : Extract(t, s)
          \/ FirstSegment(t) \/ NextSegment(t)
          \/ FirstLine(t) \/ NextLine(t) \/ CutName(t) \/ Parameter(t)
    \/ Done

Spec == Init /\ [][Next]_vars

--------------------------------------------------------------------------------
(* Properties                                                                  *)

(* The text without the backslashes that come before a comma.                  *)
Unmasked(s) ==
    FlattenSeq([i \in DOMAIN s |->
        IF s[i] = BACKSLASH /\ i < Len(s) /\ s[i + 1] = COMMA THEN <<>> ELSE <<s[i]>>])

(* No backslash at the end, two in a row, or at the beginning before anything  *)
(* but a comma.                                                                *)
Tame(s) ==
    \A i \in DOMAIN s : s[i] = BACKSLASH =>
        /\ i < Len(s) /\ s[i + 1] # BACKSLASH
        /\ i = 1 => s[2] = COMMA

(* The backslash that Pd puts before a comma is removed and every other stays: *)
(* what is sent, or parsed as JSON, is what the user wrote.                    *)
BackslashesRemoved == \A t \in Threads : pc[t] = "cleaned" => result[t] = Unmasked(source[t])

(* The same for texts that strtok takes apart without losing a character.      *)
TameTextsCleaned ==
    \A t \in Threads : pc[t] = "cleaned" /\ Tame(source[t]) => result[t] = Unmasked(source[t])

(* The cleaned text never outgrows its buffer, which is as long as the source. *)
CleanedFits ==
    \A t \in Threads : pc[t] \in {"segment", "cleaned"} => Len(result[t]) <= Len(source[t])

(* Where the lines of a header begin that set a cookie.                        *)
CookieLines(s) ==
    {i \in DOMAIN s : (i = 1 \/ s[i - 1] = NEWLINE) /\ StartsCookie(SubSeq(s, i, Len(s)))}

(* What the first of them has after its name, without blanks and semicolons    *)
(* before it, up to its first semicolon, blank or end.                         *)
Cookie(s) ==
    LET begin == Min({j \in Min(CookieLines(s)) + 2 .. Len(s) : s[j] \notin {SEMICOLON, BLANK}}
                        \cup {Len(s) + 1})
        end   == Min({j \in begin .. Len(s) : s[j] \in {SEMICOLON, BLANK, NEWLINE}} \cup {Len(s) + 1})
    IN  IF CookieLines(s) = {} THEN <<>> ELSE SubSeq(s, begin, end - 1)

(* What rest_extract_token returns is the cookie that the server set, whatever *)
(* lines come before and after it.                                             *)
CookieFound == \A t \in Threads : pc[t] = "extracted" => result[t] = Cookie(source[t])

(* A cookie that the server set is found, however the name of its header is     *)
(* written.                                                                    *)
CookieSaved ==
    \A t \in Threads :
        pc[t] = "extracted" /\ {SETCOOKIE, "set-cookie"} \cap Range(source[t]) # {} => result[t] # <<>>

(* The cookie has no part of the end of its line.                              *)
CookieWithoutEnd == \A t \in Threads : pc[t] = "extracted" => "\r" \notin Range(result[t])
=============================================================================
