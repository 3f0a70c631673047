-------------------------------- MODULE JsonDecode --------------------------------
(***************************************************************************)
(* [json-decode] (src/json-decode.c): what it sends out of its outlets for *)
(* a JSON text, as the sequence of the events a patch sees.                *)
(***************************************************************************)
EXTENDS Json

Bang       == <<"bang">>             \* left outlet: the value is complete
ErrorBang  == <<"error">>            \* right outlet
Data(a)    == <<"data", a>>          \* middle outlet: a number or a symbol
Pair(k, a) == <<"list", <<k, a>>>>   \* middle outlet: a key and its value

(* the atom a value is output as; json_object_to_json_string_ext for what is   *)
(* nested                                                                      *)
Atom(v) ==
    CASE Type(v) = "boolean" -> Float(IF Of(v) THEN 1 ELSE 0)
      [] Type(v) = "int"     -> Float(Rounded(Clamped(Of(v))))
      [] Type(v) = "double"  -> ToFloat(Of(v))
      [] Type(v) = "string"  -> Text(Of(v))
      [] Type(v) = "null"    -> Text(Empty)
      [] OTHER               -> Text(Json(v))

BugBangEach(v) ==
    FlattenSeq([i \in 1 .. Len(Of(v)) |-> <<Pair(Of(v)[i][1], Atom(Of(v)[i][2])), Bang>>])

(* jdec_output_object                                                          *)
OutputObject(v) ==
    [i \in 1 .. Len(Of(v)) |-> Pair(Of(v)[i][1], Atom(Of(v)[i][2]))] \o <<Bang>>

(* jdec_output_array: the members of an array, one after another; out is what  *)
(* is output for each                                                          *)
OutputArray(v, out) ==
    FlattenSeq([i \in 1 .. Len(Of(v)) |->
        IF Of(v)[i] = JNull THEN <<ErrorBang>> ELSE out[Of(v)[i]]])

OutputValue(v, out) ==
    CASE Type(v) = "object" -> OutputObject(v)
      [] Type(v) = "array"  -> OutputArray(v, out)
      [] OTHER              -> <<Data(Atom(v)), Bang>>

(* jdec_output                                                                 *)
Output(v) == LET out[w \in Nested(v)] == OutputValue(w, out) IN out[v]

(* json_decode_string, json_decode_list, jdec_output_string: what is parsed is *)
(* the text without its backslashes; an empty one is not looked at             *)
Decoded(t) ==
    LET c == Cleaned(t)
    IN  IF t = Empty THEN <<>> ELSE IF Parses(c) THEN Output(Of(c)) ELSE <<ErrorBang>>
=============================================================================
