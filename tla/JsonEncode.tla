-------------------------------- MODULE JsonEncode --------------------------------
(***************************************************************************)
(* [json-encode] (src/json-encode.c): the store of Kvp filled by messages  *)
(* and from files, and printed as JSON.  A read clears the store and then  *)
(* adds member after member; nothing else happens in between, but each     *)
(* addition is a step, as it is one of Kvp.                                *)
(***************************************************************************)
EXTENDS Kvp, Json

CONSTANTS
    Sent,   \* what the patch adds
    Files   \* what the file may hold before the patch writes it

(* kvp_val_create: a number without fraction is kept as int                    *)
Kept(x) == IF Type(x) = "float" THEN {Float(n) : n \in Cast(Of(x))} ELSE {x}

(* What json-c knows as an object is one of pairs of a key of the store and a  *)
(* value, no two with the same key; an array among the values is one of values. *)
WellFormed(t) ==
    IsObject(t) =>
        LET members == Of(Of(t))
        IN  /\ t = Json(JObject(members)) /\ IsSequence(members)
            /\ \A i, j \in 1 .. Len(members) : members[i][1] = members[j][1] => i = j
            /\ \A i \in 1 .. Len(members) :
                  LET k == members[i][1]
                      v == members[i][2]
                  IN  /\ members[i] = <<k, v>> /\ k \in Keys
                      /\ Type(v) \in {"int", "double", "string"} => v = <<Type(v), Of(v)>>
                      /\ Type(v) = "array" => IsSequence(Of(v))

(* What a struct _v holds: an int, a t_float with a fraction or a text.        *)
IsStored(v) ==
    /\ v = <<Type(v), Of(v)>> /\ Type(v) \in {"float", "fraction", "text"}
    /\ Type(v) = "float" => Clamped(Of(v)) = Of(v)
    /\ Type(v) = "fraction" => ToFloat(Of(v)) = v
    /\ Type(v) = "text" /\ Type(Of(v)) = "json" => v = Text(Json(Of(Of(v))))

ASSUME JsonAssumption ==
    /\ \A v \in Values : IsStored(v)
    /\ Text(Empty) \in Values
    /\ \A x \in Sent : Kept(x) \subseteq Values
    /\ \A f \in Files : WellFormed(f)

VARIABLES
    file,    \* text of the file; Missing if there is none
    loading  \* the additions a read has still to make: records [key, value, array]

jsonVars == <<vars, file, loading>>

Missing == <<"no file">>

(* getbytes returns memory that is zeroed                                      *)
JsonInit ==
    /\ Init /\ \A n \in Nodes : memory[n].val = Text(Empty)
    /\ file \in Files /\ loading = <<>>

--------------------------------------------------------------------------------
(* Into the store                                                              *)

MayAdd == loading = <<>> /\ UNCHANGED <<file, loading>>

(* jenc_add, for add and array; without a value nothing happens                *)
AddSent(k, x)   == MayAdd /\ \E v \in Kept(x) : Add(k, v)
ArraySent(k, x) == MayAdd /\ \E v \in Kept(x) : AddToArray(k, v)
ClearSent       == MayAdd /\ Clear

(* jenc_load_json_object: what one member adds.  Of an array each member is    *)
(* kept as its JSON text, and null is left out.                                *)
Additions(k, v) ==
    LET Simple(x) == <<[key |-> k, value |-> x, array |-> FALSE]>>
        t == Type(v)
    IN  IF t = "array"
        THEN FlattenSeq([i \in 1 .. Len(Of(v)) |->
                 IF Of(v)[i] = JNull THEN <<>>
                 ELSE <<[key |-> k, value |-> Text(Json(Of(v)[i])), array |-> TRUE]>>])
        ELSE Simple(CASE t = "boolean" -> Float(IF Of(v) THEN 1 ELSE 0)
                      [] t = "int"     -> Float(Rounded(Clamped(Of(v))))
                      [] t = "double"  -> ToFloat(Of(v))
                      [] t = "string"  -> Text(Of(v))
                      [] t = "object"  -> Text(Json(v))
                      [] t = "null"    -> Text(Empty))

(* json_encode_read, jenc_load_json_data: the store is cleared for any JSON.   *)
(* A file is parsed as it is, without string_remove_backslashes.               *)
(* Bound: what is read is one of Values; text in arrays nests deeper each time *)
(* it is written and read.                                                     *)
BeginRead ==
    /\ loading = <<>> /\ Parses(file)
    /\ Clear
    /\ loading' = IF Type(Of(file)) # "object" THEN <<>>
                  ELSE FlattenSeq([i \in 1 .. Len(Of(Of(file))) |->
                           Additions(Of(Of(file))[i][1], Of(Of(file))[i][2])])
    /\ \A i \in 1 .. Len(loading') : Kept(loading'[i].value) \subseteq Values
    /\ UNCHANGED file

BugLoadBackwards ==
    /\ loading # <<>> /\ loading' = Front(loading)
    /\ LET a == Last(loading)
       IN  \E v \in Kept(a.value) : IF a.array THEN AddToArray(a.key, v) ELSE Add(a.key, v)
    /\ UNCHANGED file

Load ==
    /\ loading # <<>> /\ loading' = Tail(loading)
    /\ LET a == Head(loading)
       IN  \E v \in Kept(a.value) : IF a.array THEN AddToArray(a.key, v) ELSE Add(a.key, v)
    /\ UNCHANGED file

--------------------------------------------------------------------------------
(* Out of the store                                                            *)

(* jenc_create_object: a text in braces becomes the object that it is the JSON *)
(* of once its backslashes are removed, or null                                *)
JsonOf(v) ==
    CASE Type(v) = "float"    -> JInt(Of(v))
      [] Type(v) = "fraction" -> JDouble(Of(v))
      [] OTHER ->
            LET t == Of(v)
                c == Cleaned(t)
            IN  IF ~InBraces(t) THEN JString(t) ELSE IF Parses(c) /\ IsObject(c) THEN Of(c) ELSE JNull

BugArrayTail(values) == JArray([i \in 1 .. Len(values) - 1 |-> JsonOf(values[i + 1])])

(* jenc_get_array_value                                                        *)
ArrayOf(values) == JArray([i \in DOMAIN values |-> JsonOf(values[i])])

(* jenc_get_json_symbol; a bang outputs it                                     *)
Encoded ==
    LET Member(k) ==
            LET e == Entry(k)
            IN  <<k, IF e.isArray THEN ArrayOf(e.values) ELSE JsonOf(e.values[1])>>
    IN  IF data = <<>> THEN Empty ELSE Json(JObject([i \in DOMAIN data |-> Member(data[i])]))

(* json_encode_write                                                           *)
Write == loading = <<>> /\ file' = Encoded /\ UNCHANGED <<vars, loading>>

JsonNext ==
    \/ \E k \in Keys, x \in Sent : AddSent(k, x) \/ ArraySent(k, x)
    \/ ClearSent \/ BeginRead \/ Load \/ Write

JsonSpec == JsonInit /\ [][JsonNext]_jsonVars
=============================================================================
