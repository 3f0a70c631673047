--------------------------------- MODULE UrlParams ---------------------------------
(***************************************************************************)
(* [urlparams] (src/urlparams.c): the store of Kvp, compiled without       *)
(* ARRAY, and the query string that a bang makes of it.  Keys and values   *)
(* are texts here: sequences of bytes, without the terminating zero.       *)
(***************************************************************************)
EXTENDS Kvp, SequencesExt

ASSUME UrlAssumption == ~Arrays /\ Keys \cup Values \subseteq Seq(1 .. 255)

Equals == 61
Ampersand == 38
Percent == 37

(* a byte as the char of the build, which is signed                            *)
Char(byte) == IF byte > 127 THEN byte - 256 ELSE byte

(* urlp_tohex                                                                  *)
Hex(code) == LET digit == code % 16 IN IF digit < 10 THEN 48 + digit ELSE 87 + digit

BugPlain(c) == c \in {Ampersand} \cup 48 .. 57 \cup 65 .. 90 \cup 97 .. 122

(* isalnum is FALSE for a negative char: glibc, in the locale that Pd runs in  *)
Plain(c) == c \in (48 .. 57) \cup (65 .. 90) \cup (97 .. 122) \cup {45, 46, 95, 126}

(* one turn of the loop of urlp_encode; >> of a negative char rounds down      *)
EncodeByte(byte) ==
    LET c == Char(byte)
    IN  IF Plain(c) THEN <<byte>> ELSE <<Percent, Hex(c \div 16), Hex(c % 16)>>

Encode(text) == FlattenSeq([i \in DOMAIN text |-> EncodeByte(text[i])])

BugEncodedLen(text) == Len(text) + 1

(* the size of the buffer urlp_encode allocates, and adds up for the output    *)
EncodedLen(text) == Len(text) * 3 + 1

Value(k) == Entry(k).values[1]

(* urlparams_bang: the text, and the size of the buffer it is written to       *)
Output ==
    FlattenSeq([i \in DOMAIN data |->
        Encode(data[i]) \o <<Equals>> \o Encode(Value(data[i]))
          \o IF i < Len(data) THEN <<Ampersand>> ELSE <<>>])

OutputLen ==
    LET upTo[i \in 0 .. Len(data)] ==
            IF i = 0 THEN 0
            ELSE upTo[i - 1] + EncodedLen(data[i]) + EncodedLen(Value(data[i])) + 2
    IN  upTo[Len(data)]

UrlInit == Init /\ \A n \in Nodes : memory[n].val = <<>>

UrlNext == Clear \/ \E k \in Keys, v \in Values : Add(k, v)

UrlSpec == UrlInit /\ [][UrlNext]_vars

--------------------------------------------------------------------------------
(* Properties                                                                  *)

HexValue(c) == IF c < 58 THEN c - 48 ELSE c - 87

(* What a server makes of the character at i: %XY is a byte, which is there    *)
(* when its last digit is.                                                     *)
Decoded(text, i) ==
    IF text[i] = Percent \/ (i > 1 /\ text[i - 1] = Percent) THEN <<>>
    ELSE IF i > 2 /\ text[i - 2] = Percent
         THEN <<16 * HexValue(text[i - 1]) + HexValue(text[i])>>
         ELSE <<text[i]>>

Decode(text) == FlattenSeq([i \in DOMAIN text |-> Decoded(text, i)])

(* One more character ends the last of the parts, or is its next.              *)
Divided(parts, c, separator) ==
    IF c = separator THEN Append(parts, <<>>)
    ELSE [parts EXCEPT ![Len(parts)] = Append(@, c)]

(* The texts between the separators.                                           *)
Split(text, separator) ==
    LET parts[i \in 0 .. Len(text)] ==
            IF i = 0 THEN << <<>> >> ELSE Divided(parts[i - 1], text[i], separator)
    IN  parts[Len(text)]

(* A server that gets the output of a bang reads the keys and values that were *)
(* added, in their order, whatever bytes they hold.                            *)
ServerReadsStore ==
    data # <<>> =>
        LET pairs == Split(Output, Ampersand)
        IN  [i \in DOMAIN pairs |-> LET p == Split(pairs[i], Equals)
                                    IN  [j \in DOMAIN p |-> Decode(p[j])]]
            = [i \in DOMAIN data |-> <<data[i], Value(data[i])>>]

(* The buffer whose size the first pass of urlparams_bang adds up holds what   *)
(* the second pass writes, with its terminating zero.                          *)
BufferFits == data # <<>> => Len(Output) + 1 <= OutputLen
=============================================================================
