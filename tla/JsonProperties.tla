------------------------------ MODULE JsonProperties ------------------------------
(***************************************************************************)
(* What should hold of [json-encode], of the files it reads and writes,    *)
(* and of [json-decode] when it gets the output of [json-encode].          *)
(***************************************************************************)
EXTENDS JsonEncode, JsonDecode

(* JSON the store can hold as it is: one object with at least one member, of   *)
(* ints and other numbers that are not whole, each of which a t_float can      *)
(* hold, strings that are not themselves in braces, and nested objects in      *)
(* which no backslash is escaped.                                              *)
Plain(t) ==
    /\ Parses(t) /\ IsObject(t)
    /\ Inner(Of(t)) # {}
    /\ \A v \in Inner(Of(t)) :
          \/ Type(v) = "int" /\ Clamped(Of(v)) = Of(v) /\ Rounded(Of(v)) = Of(v)
          \/ Type(v) = "double" /\ ToFloat(Of(v)) = Fraction(Of(v))
          \/ Type(v) = "string" /\ ~InBraces(Of(v))
          \/ Type(v) = "object" /\ ~Doubled(v)

ReadEnds == loading # <<>> /\ loading' = <<>>

(* A plain object that was read from a file, the user's or one that write      *)
(* made, is encoded again member for member and in its order, and nothing of   *)
(* what the store held before is left.                                         *)
ReadBack == [][ReadEnds /\ Plain(file) => Encoded' = file]_jsonVars

(* The same for every file that [json-encode] wrote itself.                    *)
WrittenIsReadBack == [][ReadEnds /\ file \notin Files => Encoded' = file]_jsonVars

(* The JSON that the values of a key are meant to be: a number, an object for  *)
(* the text of one, a string for any other, and an array of these.             *)
Meant(v) ==
    CASE Type(v) = "float"    -> JInt(Of(v))
      [] Type(v) = "fraction" -> JDouble(Of(v))
      [] OTHER                -> IF IsObject(Of(v)) THEN Of(Of(v)) ELSE JString(Of(v))

MeantFor(e) ==
    IF e.isArray THEN JArray([i \in DOMAIN e.values |-> Meant(e.values[i])]) ELSE Meant(e.values[1])

Meaning == JObject([i \in DOMAIN data |-> <<data[i], MeantFor(Entry(data[i]))>>])

(* An int that a t_float can hold, or a text that is not lost in braces.       *)
Lasts(v) ==
    /\ Type(v) = "float" => Rounded(Of(v)) = Of(v)
    /\ Type(v) = "text" => Type(Of(v)) # "{}"

(* What was added under a key comes out of [json-decode] when it gets the      *)
(* output of a bang: one list for each key, in the order of the keys, with the *)
(* number or the text that was added (an array as JSON), then one bang.  It    *)
(* does if no text in braces is anything but JSON, no int is too large for a   *)
(* t_float, and the JSON of all together nests no deeper than json-c reads and *)
(* escapes no backslash, which string_remove_backslashes would not keep.       *)
DecodeShowsStore ==
    LET e(i)  == Entry(data[i])
        Shown(i) == IF e(i).isArray THEN Text(Json(MeantFor(e(i)))) ELSE e(i).values[1]
    IN  /\ data # <<>> /\ Nests(Meaning) /\ ~Doubled(Meaning)
        /\ \A i \in DOMAIN data : \A j \in DOMAIN e(i).values : Lasts(e(i).values[j])
        => Decoded(Encoded) = Append([i \in DOMAIN data |-> Pair(data[i], Shown(i))], Bang)

(* The values of a text that are no arrays, in their order.                    *)
LeavesOf(w, leaves) ==
    IF Type(w) = "array" THEN FlattenSeq([i \in 1 .. Len(Of(w)) |-> leaves[Of(w)[i]]]) ELSE <<w>>

Leaves(v) == LET leaves[w \in Nested(v)] == LeavesOf(w, leaves) IN leaves[v]

(* How many lists such a value has, and where the events of each one end.      *)
Size(v) == IF Type(v) = "object" THEN Len(Of(v)) ELSE IF v = JNull THEN 0 ELSE 1

Ends(values) ==
    LET end[i \in 0 .. Len(values)] == IF i = 0 THEN 0 ELSE end[i - 1] + Size(values[i]) + 1
    IN  end

(* "[json-decode] treats json arrays as a series of objects": of any file that *)
(* is JSON when string_remove_backslashes is done with it, each value ends     *)
(* with a bang of its own, after as many lists as it has members, and each     *)
(* null with an error.                                                         *)
DecodeSeries ==
    Type(file) = "json" /\ Reads(Cleaned(file)) =>
        LET leaves == Leaves(Of(Cleaned(file)))
            end    == Ends(leaves)
            events == Decoded(file)
        IN  /\ Len(events) = end[Len(leaves)]
            /\ \A i \in 1 .. Len(leaves) :
                  events[end[i]] = IF leaves[i] = JNull THEN ErrorBang ELSE Bang
            /\ \A p \in 1 .. Len(events) :
                  events[p] \in {Bang, ErrorBang} => \E i \in 1 .. Len(leaves) : p = end[i]

(* A text comes out of [json-decode] also if it has a backslash in it.         *)
BackslashKept ==
    \A i \in DOMAIN data :
        LET v == Entry(data[i]).values[1]
        IN  Type(v) = "text" /\ Type(Of(v)) = "word" /\ ~Entry(data[i]).isArray
                => Pair(data[i], v) \in Range(Decoded(Encoded))

(* A text in braces, whatever it holds, is not lost when it is encoded.        *)
BracesKept ==
    Type(Encoded) = "json" => JNull \notin Inner(Of(Encoded))

(* A whole number that is added is encoded as that number, however large.      *)
NumberKept ==
    [][\A k \in Keys, x \in Sent :
          AddSent(k, x) /\ Type(x) = "float" => JsonOf(Entry(k)'.values[1]) = JInt(Of(x))]_jsonVars

(* A read that ends with an error leaves the store as it was.                  *)
FailedReadHarmless ==
    [][BeginRead /\ Type(Of(file)) # "object" => Encoded' = Encoded]_jsonVars
=============================================================================
