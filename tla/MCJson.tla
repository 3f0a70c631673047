---------------------------------- MODULE MCJson ----------------------------------
(***************************************************************************)
(* Values of JsonEncode's constants for TLC.                               *)
(***************************************************************************)
EXTENDS JsonProperties

CONSTANTS id, name,  \* keys
          hi, path   \* words; path ends in a backslash

MCSymmetry == Permutations(Nodes)

MCKeys == {id, name}

MCNested == JObject(<<<<id, JInt(4)>>>>)
MCPlain  == JObject(<<<<name, JString(Word(path))>>, <<id, JDouble(3)>>>>)
MCMixed  == JObject(<<<<id, JArray(<<JNull, JString(Word(hi))>>)>>, <<name, JDouble(2)>>>>)
MCSeries == JArray(<<MCNested, JArray(<<JNull, MCNested, JBoolean(TRUE)>>), JInt(6)>>)
MCMerges == JArray(<<JString(Word(path)), JInt(4)>>)

MCFiles == {Missing} \cup {Json(v) : v \in {MCPlain, MCMixed, MCSeries, MCMerges}}

MCSent   == {Float(4), Text(Json(MCNested))}
MCValues == MCSent \cup {Fraction(3), Float(1), Text(Word(path)), Text(Empty), Text(Json(JString(Word(hi))))}

MCBackslashed == {path}

(* Without the second backslash the quote behind path does not end its string, *)
(* and what follows is not JSON.                                               *)
MCMerged(t) == Word(hi)

MCWords      == {Text(Word(hi)), Text(Word(path))}
MCBraces     == {Text(Braces(hi))} \cup MCWords
MCLarge      == {Float(8)}
MCMoreValues == MCValues \cup MCBraces \cup {Float(7), Float(-8)}
=============================================================================
