----------------------------------- MODULE Json -----------------------------------
(***************************************************************************)
(* JSON values and the texts [json-encode] and [json-decode] make of them. *)
(* json-c parses and prints: here it is a value that stands for its text.  *)
(* A value is a tuple that begins with its json-c type.                    *)
(***************************************************************************)
EXTENDS Integers, SequencesExt

CONSTANTS
    IntMax,       \* the largest int; the build has 2^31 - 1
    Exact,        \* up to here a t_float holds every integer; the build has 2^24
    Unit,         \* numbers that are not whole are multiples of 1 / Unit
    Depth,        \* how many containers may nest for json-c; the build has 31
    Escaped,      \* words in which JSON escapes a character: quotes, newlines, ...
    Backslashed,  \* those of them with a backslash
    Merged(_)     \* a text after string_remove_backslashes, which Strings has in full

ASSUME NumbersAssumption ==
    /\ IntMax \in Nat /\ Exact \in Nat \ {0}
    /\ Unit \in Nat \ {0} /\ \E i \in 0 .. Unit : Unit = 2^i

ASSUME TextsAssumption == Depth \in Nat /\ Backslashed \subseteq Escaped

JNull       == <<"null">>
JBoolean(b) == <<"boolean", b>>
JInt(n)     == <<"int", n>>
JDouble(n)  == <<"double", n>>   \* the number n / Unit, with a point or an exponent
JString(t)  == <<"string", t>>   \* of a text
JObject(s)  == <<"object", s>>   \* of a sequence of members <<key, value>>
JArray(s)   == <<"array", s>>    \* of a sequence of values

Type(v) == v[1]
Of(v)   == v[2]

(* Texts: the plain JSON of a value, a word, no character, or something in     *)
(* braces that is not JSON, unless it is when its backslashes are removed      *)
Json(v)   == <<"json", v>>
Word(w)   == <<"word", w>>
Braces(w) == <<"{}", w>>
Empty     == <<"">>

IsObject(t) == Type(t) = "json" /\ Type(Of(t)) = "object"
InBraces(t) == Type(t) = "{}" \/ IsObject(t)

(* What Pd sends and the store keeps is a text or a number                     *)
Float(n)    == <<"float", n>>      \* a whole number, as t_float or as int
Fraction(n) == <<"fraction", n>>   \* n / Unit, as t_float
Text(t)     == <<"text", t>>

--------------------------------------------------------------------------------
(* What json-c reads                                                           *)

Container(v) == Type(v) \in {"array", "object"}

Inner(v) ==
    CASE Type(v) = "array"  -> Range(Of(v))
      [] Type(v) = "object" -> {Of(v)[i][2] : i \in DOMAIN Of(v)}
      [] OTHER              -> {}

(* v, what is in it, what is in that and so on                                 *)
Levels(v) ==
    LET level[d \in 0 .. Depth] == IF d = 0 THEN {v} ELSE UNION {Inner(w) : w \in level[d - 1]}
    IN  level

Nested(v) == UNION {Levels(v)[d] : d \in 0 .. Depth}

IsSequence(s) == s \in Seq({s[i] : i \in 1 .. Len(s)})

Nests(v) ==
    /\ \A w \in Levels(v)[Depth] : ~Container(w)
    /\ \A w \in Nested(v) : Container(w) => IsSequence(Of(w))

(* json_tokener_parse: NULL for what is not JSON or nests too deep, and for    *)
(* null.  (json-c reads one level more if it is empty.)                        *)
Reads(t)  == Type(t) = "json" /\ Nests(Of(t))
Parses(t) == Reads(t) /\ Of(t) # JNull

--------------------------------------------------------------------------------
(* Backslashes                                                                 *)

(* the texts of its strings and keys                                           *)
Strings(v) ==
    LET In(type) == {w \in Nested(v) : Type(w) = type}
    IN  {Of(w) : w \in In("string")}
            \cup UNION {{Word(Of(w)[i][1]) : i \in DOMAIN Of(w)} : w \in In("object")}

(* A text that JSON escapes as a string: in the JSON of a value these are the  *)
(* quotes around its strings and keys.                                         *)
Escapes(t) ==
    IF Type(t) = "json" THEN Strings(Of(t)) # {} ELSE t # Empty /\ Of(t) \in Escaped

(* A text that holds a backslash: JSON does where it escapes something.        *)
Backslash(t) ==
    IF Type(t) = "json" THEN \E s \in Strings(Of(t)) : Escapes(s)
    ELSE t # Empty /\ Of(t) \in Backslashed

(* JSON has two of them in a row where it escapes a backslash.                 *)
Doubled(v) == \E s \in Strings(v) : Backslash(s)

(* string_remove_backslashes merges backslashes in a row, and takes away those *)
(* at the ends and before a comma.  A single one in JSON begins an escape: it  *)
(* is none of these.                                                           *)
Altered(t) == IF Type(t) = "json" THEN Doubled(Of(t)) ELSE Backslash(t)

Cleaned(t) == IF Altered(t) THEN Merged(t) ELSE t

--------------------------------------------------------------------------------
(* Numbers                                                                     *)

(* json_object_get_int: an int64 is clamped                                    *)
Clamped(n) == IF n > IntMax THEN IntMax ELSE IF n < -(IntMax + 1) THEN -(IntMax + 1) ELSE n

Abs(n) == IF n < 0 THEN -n ELSE n

(* the distance of the t_floats around n                                       *)
Spacing(n) ==
    2 ^ (CHOOSE i \in 0 .. Abs(n) : Abs(n) <= Exact * 2 ^ i /\ (i = 0 \/ Abs(n) > Exact * 2 ^ (i - 1)))

(* the t_float next to n; of two that are as near, the even one                *)
Rounded(n) ==
    LET s     == Spacing(n)
        below == s * (n \div s)
        rest  == 2 * (n % s)
    IN  IF rest < s \/ (rest = s /\ (n \div s) % 2 = 0) THEN below ELSE below + s

(* a double as t_float, which may be whole.  Rounding goes by significant      *)
(* digits, so it is the same for multiples of 1 / Unit.                        *)
ToFloat(n) ==
    IF Rounded(n) % Unit = 0 THEN Float(Rounded(n) \div Unit) ELSE Fraction(Rounded(n))

(* (int)n, undefined outside the range of int: the platforms give a limit      *)
Cast(n) == IF Clamped(n) = n THEN {n} ELSE {IntMax, -(IntMax + 1)}
=============================================================================
