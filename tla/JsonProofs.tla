------------------------------- MODULE JsonProofs -------------------------------
(***************************************************************************)
(* Proofs about [json-encode] and [json-decode]: whatever messages come    *)
(* and whatever is read from files that the user or the object itself      *)
(* wrote, the store is the one of Kvp, and keeps what is proved of that;   *)
(* what was added is decoded as it was, what was read is encoded again,    *)
(* and each value of a series is decoded for itself.                       *)
(***************************************************************************)
EXTENDS JsonProperties, KvpProofs

--------------------------------------------------------------------------------
(* Files and reads                                                             *)

(* A sequence of elements of a set is one of its own elements, which are in it. *)
LEMMA OwnElements ==
    ASSUME NEW S, NEW s \in Seq(S)
    PROVE  IsSequence(s) /\ Elements(s) \subseteq S
<1>1. s \in [1 .. Len(s) -> S] /\ Len(s) \in Nat
  OBVIOUS
<1>2. \A i \in 1 .. Len(s) : s[i] \in Elements(s)
  BY DEF Elements
<1>3. s \in Seq(Elements(s))
  BY <1>1, <1>2
<1>4. Elements(s) = {s[i] : i \in 1 .. Len(s)}
  BY DEF Elements
<1> QED
  BY <1>1, <1>3, <1>4 DEF IsSequence

(* A sequence is one of its elements.                                          *)
LEMMA SequenceOfElements ==
    ASSUME NEW s
    PROVE  IsSequence(s) <=> s \in Seq(Elements(s))
<1>1. Elements(s) = {s[i] : i \in 1 .. Len(s)}
  BY DEF Elements
<1> QED
  BY <1>1 DEF IsSequence

(* What a member adds is added under its key.                                  *)
LEMMA AdditionsOfKey ==
    ASSUME NEW k, NEW v, Type(v) = "array" => IsSequence(Of(v))
    PROVE  IsSequence(Additions(k, v)) /\ \A a \in Elements(Additions(k, v)) : a.key = k
<1>1. CASE Type(v) = "array"
  <2> DEFINE n == Len(Of(v))
             A(i) == [key |-> k, value |-> Text(Json(Of(v)[i])), array |-> TRUE]
             S == {A(i) : i \in 1 .. n}
             s == [i \in 1 .. n |-> IF Of(v)[i] = JNull THEN <<>> ELSE <<A(i)>>]
  <2>1. n \in Nat
    BY <1>1 DEF IsSequence
  <2>2. \A i \in 1 .. n : A(i) \in S
    OBVIOUS
  <2>3. \A a \in S : a.key = k
    OBVIOUS
  <2>4. Additions(k, v) = FlattenSeq(s)
    BY <1>1 DEF Additions
  <2> HIDE DEF n, A, S
  <2>5. \A i \in 1 .. n : (IF Of(v)[i] = JNull THEN <<>> ELSE <<A(i)>>) \in Seq(S)
    BY <2>2
  <2>6. s \in Seq(Seq(S))
    BY <2>1, <2>5
  <2> HIDE DEF s
  <2>7. Additions(k, v) \in Seq(S)
    BY <2>4, <2>6, FlattenSeqType
  <2> QED
    BY <2>3, <2>7, OwnElements
<1>2. CASE Type(v) # "array"
  <2>1. PICK x : Additions(k, v) = <<[key |-> k, value |-> x, array |-> FALSE]>>
    BY <1>2 DEF Additions
  <2> DEFINE a == [key |-> k, value |-> x, array |-> FALSE]
  <2>2. a.key = k
    OBVIOUS
  <2> HIDE DEF a
  <2>3. Additions(k, v) \in Seq({a})
    BY <2>1 DEF a
  <2> QED
    BY <2>2, <2>3, OwnElements
<1> QED
  BY <1>1, <1>2

(* A file is well formed, the user's and the one that was written; what a read *)
(* has still to add are values that can be added, under keys of the store.     *)
FileInv ==
    /\ WellFormed(file)
    /\ IsSequence(loading)
    /\ \A a \in Elements(loading) : a.key \in Keys /\ Kept(a.value) \subseteq Values

(* A read has its members before it adds the first of them.                    *)
LEMMA BeginReadKeepsFile ==
    ASSUME FileInv, BeginRead
    PROVE  FileInv'
<1>1. CASE Type(Of(file)) # "object"
  <2>1. loading' = <<>> /\ file' = file
    BY <1>1 DEF BeginRead
  <2>2. IsSequence(<<>>) /\ Elements(<<>>) = {}
    BY DEF IsSequence, Elements
  <2> QED
    BY <2>1, <2>2 DEF FileInv
<1>2. CASE Type(Of(file)) = "object"
  <2> DEFINE members == Of(Of(file))
             A(i) == Additions(members[i][1], members[i][2])
             S == UNION {Elements(A(i)) : i \in 1 .. Len(members)}
             s == [i \in 1 .. Len(members) |-> A(i)]
  <2>1. /\ Len(members) \in Nat
        /\ \A i \in 1 .. Len(members) :
              /\ members[i][1] \in Keys
              /\ Type(members[i][2]) = "array" => IsSequence(Of(members[i][2]))
    <3>1. IsObject(file)
      BY <1>2 DEF BeginRead, Parses, Reads, IsObject
    <3>2. IsSequence(members)
      BY <3>1 DEF FileInv, WellFormed
    <3>3. Len(members) \in Nat
      BY <3>2 DEF IsSequence
    <3> QED
      BY <3>1, <3>3 DEF FileInv, WellFormed
  <2>2. loading' = FlattenSeq(s) /\ file' = file
    BY <1>2 DEF BeginRead
  <2> HIDE DEF members
  <2>3. ASSUME NEW i \in 1 .. Len(members)
        PROVE  IsSequence(A(i)) /\ \A a \in Elements(A(i)) : a.key \in Keys
    BY <2>1, AdditionsOfKey
  <2> HIDE DEF A
  <2>4. \A i \in 1 .. Len(members) : A(i) \in Seq(S)
    <3> TAKE i \in 1 .. Len(members)
    <3>1. Elements(A(i)) \subseteq S
      OBVIOUS
    <3> HIDE DEF S
    <3> QED
      BY <2>3, <3>1, SequenceOfElements
  <2>5. \A a \in S : a.key \in Keys
    BY <2>3
  <2> HIDE DEF S
  <2>6. s \in Seq(Seq(S))
    BY <2>1, <2>4
  <2> HIDE DEF s
  <2>7. loading' \in Seq(S)
    BY <2>2, <2>6, FlattenSeqType
  <2>8. IsSequence(loading') /\ Elements(loading') \subseteq S
    BY <2>7, OwnElements
  <2>9. \A a \in Elements(loading') : Kept(a.value) \subseteq Values
    BY DEF BeginRead, Elements
  <2> QED
    BY <2>2, <2>5, <2>8, <2>9 DEF FileInv
<1> QED
  BY <1>1, <1>2

(* Each of its additions is an addition to the store.                          *)
LEMMA LoadKeepsFile ==
    ASSUME FileInv, Load
    PROVE  FileInv' /\ \E k \in Keys, v \in Values : Add(k, v) \/ AddToArray(k, v)
<1>1. loading # <<>> /\ loading \in Seq(Elements(loading)) /\ loading' = Tail(loading) /\ file' = file
  BY SequenceOfElements DEF FileInv, Load
<1>2. Tail(loading) \in Seq(Elements(loading)) /\ Head(loading) \in Elements(loading)
  <2>1. Len(loading) \in Nat \ {0} /\ Head(loading) = loading[1]
    BY <1>1
  <2> QED
    BY <1>1, <2>1 DEF Elements
<1>3. IsSequence(loading') /\ Elements(loading') \subseteq Elements(loading)
  BY <1>1, <1>2, OwnElements
<1>4. \E k \in Keys, v \in Values : Add(k, v) \/ AddToArray(k, v)
  BY <1>2 DEF FileInv, Load
<1>5. \A a \in Elements(loading') : a.key \in Keys /\ Kept(a.value) \subseteq Values
  BY <1>3 DEF FileInv
<1>6. WellFormed(file')
  BY <1>1 DEF FileInv
<1> QED
  BY <1>1, <1>3, <1>4, <1>5, <1>6 DEF FileInv

(* What is written is an object of the keys in the table, and its arrays are   *)
(* sequences because the lists in memory are.                                  *)
LEMMA WriteKeepsFile ==
    ASSUME Arrays, TypeOK, ListInv, FileInv, Write
    PROVE  FileInv'
<1>1. ASSUME NEW v
      PROVE  /\ Type(JsonOf(v)) # "array"
             /\ Type(JsonOf(v)) \in {"int", "double", "string"} =>
                   JsonOf(v) = <<Type(JsonOf(v)), Of(JsonOf(v))>>
  BY DEF JsonOf, IsObject, Type, Of, JInt, JDouble, JNull, JString
<1>2. ASSUME NEW k \in Keys, Present(k), Entry(k).isArray
      PROVE  IsSequence(Of(ArrayOf(Entry(k).values)))
  <2> DEFINE q == Visited(k)
  <2>1. Entry(k).values = Texts(memory, q)
    <3>1. Entry(k) = [isArray |-> pair[k].isArray, values |-> Texts(memory, q)]
      BY <1>2, EntryOf
    <3> QED
      BY <3>1
  <2>2. Len(q) \in Nat
    BY <1>2, VisitedType
  <2> HIDE DEF q
  <2>3. DOMAIN Texts(memory, q) = 1 .. Len(q)
    BY DEF Texts
  <2>4. Of(ArrayOf(Entry(k).values)) = [i \in 1 .. Len(q) |-> JsonOf(Texts(memory, q)[i])]
    BY <2>1, <2>3 DEF Of, ArrayOf, JArray
  <2> DEFINE S == {JsonOf(Texts(memory, q)[i]) : i \in 1 .. Len(q)}
  <2>5. [i \in 1 .. Len(q) |-> JsonOf(Texts(memory, q)[i])] \in Seq(S)
    BY <2>2
  <2> QED
    BY <2>4, <2>5, OwnElements
<1> DEFINE V(k) == IF Entry(k).isArray THEN ArrayOf(Entry(k).values) ELSE JsonOf(Entry(k).values[1])
           members == [i \in DOMAIN data |-> <<data[i], V(data[i])>>]
<1>3. CASE data = <<>>
  <2>1. file' = Empty /\ loading' = loading
    BY <1>3 DEF Write, Encoded
  <2>2. WellFormed(Empty)
    BY DEF Type, Empty, WellFormed, IsObject
  <2> QED
    BY <2>1, <2>2 DEF FileInv
<1>4. CASE data # <<>>
  <2>1. file' = Json(JObject(members)) /\ loading' = loading
    BY <1>4 DEF Write, Encoded
  <2>2. Len(data) \in Nat /\ DOMAIN data = 1 .. Len(data)
        /\ \A i \in 1 .. Len(data) : data[i] \in Keys /\ Present(data[i])
    BY DEF TypeOK, Elements
  <2>3. ASSUME NEW i \in 1 .. Len(data)
        PROVE  /\ Type(V(data[i])) = "array" => IsSequence(Of(V(data[i])))
               /\ Type(V(data[i])) \in {"int", "double", "string"} =>
                     V(data[i]) = <<Type(V(data[i])), Of(V(data[i]))>>
    <3>1. CASE Entry(data[i]).isArray
      <4>1. V(data[i]) = ArrayOf(Entry(data[i]).values) /\ Type(V(data[i])) = "array"
        BY <3>1 DEF ArrayOf, JArray, Type
      <4> QED
        BY <1>2, <2>2, <3>1, <4>1
    <3>2. CASE ~Entry(data[i]).isArray
      BY <1>1, <3>2
    <3> QED
      BY <3>1, <3>2
  <2> HIDE DEF V
  <2> DEFINE S == {<<data[i], V(data[i])>> : i \in 1 .. Len(data)}
  <2>4. members \in Seq(S) /\ Len(members) = Len(data)
    BY <2>2
  <2>5. IsSequence(members)
    BY <2>4, OwnElements
  <2>6. \A i \in 1 .. Len(members) : /\ members[i][1] = data[i] /\ members[i][2] = V(data[i])
                                     /\ members[i] = <<data[i], V(data[i])>>
    BY <2>2
  <2> HIDE DEF members
  <2>7. Of(Of(Json(JObject(members)))) = members
    BY DEF Of, Json, JObject
  <2>8. \A i, j \in 1 .. Len(members) : members[i][1] = members[j][1] => i = j
    BY <2>4, <2>6 DEF TypeOK
  <2>9. WellFormed(file')
    <3> SUFFICES /\ file' = Json(JObject(members))
                 /\ \A i \in 1 .. Len(members) :
                       LET k == members[i][1]
                           v == members[i][2]
                       IN  /\ members[i] = <<k, v>> /\ k \in Keys
                           /\ Type(v) \in {"int", "double", "string"} => v = <<Type(v), Of(v)>>
                           /\ Type(v) = "array" => IsSequence(Of(v))
      BY <2>1, <2>5, <2>7, <2>8 DEF WellFormed
    <3> QED
      BY <2>1, <2>2, <2>3, <2>4, <2>6
  <2> QED
    BY <2>1, <2>9 DEF FileInv
<1> QED
  BY <1>3, <1>4

--------------------------------------------------------------------------------
(* The messages and the store                                                  *)

JsonInv == TypeOK /\ ListInv /\ FileInv

(* Every message and every member that is read is a step of Kvp, or none.      *)
LEMMA JsonStep ==
    ASSUME Arrays, ~Mixes, JsonInv, [JsonNext]_jsonVars
    PROVE  [Next]_vars /\ FileInv'
<1>0. TypeOK /\ ListInv /\ FileInv
  BY DEF JsonInv
<1>1. ASSUME UNCHANGED <<file, loading>> PROVE FileInv'
  BY <1>0, <1>1 DEF FileInv
<1>2. ASSUME NEW k \in Keys, NEW x \in Sent, AddSent(k, x) \/ ArraySent(k, x)
      PROVE  [Next]_vars /\ FileInv'
  <2>1. Kept(x) \subseteq Values
    BY JsonAssumption
  <2>2. Next
    BY <1>2, <2>1 DEF AddSent, ArraySent, Next
  <2> QED
    BY <1>1, <1>2, <2>2 DEF AddSent, ArraySent, MayAdd
<1>3. CASE ClearSent
  BY <1>1, <1>3 DEF ClearSent, MayAdd, Next
<1>4. CASE BeginRead
  <2>1. Clear
    BY <1>4 DEF BeginRead
  <2> QED
    BY <1>0, <1>4, <2>1, BeginReadKeepsFile DEF Next
<1>5. CASE Load
  BY <1>0, <1>5, LoadKeepsFile DEF Next
<1>6. CASE Write
  <2>1. UNCHANGED vars
    BY <1>6 DEF Write
  <2> QED
    BY <1>0, <1>6, <2>1, WriteKeepsFile
<1>7. CASE UNCHANGED jsonVars
  <2>1. UNCHANGED vars /\ UNCHANGED <<file, loading>>
    BY <1>7 DEF jsonVars
  <2> QED
    BY <1>1, <2>1
<1> QED
  BY <1>2, <1>3, <1>4, <1>5, <1>6, <1>7 DEF JsonNext

(* Table, lists and file are in order in every reachable state.                *)
LEMMA JsonInvariant == ASSUME Arrays, ~Mixes PROVE JsonSpec => []JsonInv
<1>1. JsonInit => JsonInv
  <2> SUFFICES ASSUME JsonInit PROVE JsonInv
    OBVIOUS
  <2>1. TypeOK /\ ListInv
    BY InitTypes, InitLists DEF JsonInit
  <2>2. WellFormed(file) /\ loading = <<>>
    BY JsonAssumption DEF JsonInit
  <2>3. IsSequence(<<>>) /\ Elements(<<>>) = {}
    BY DEF IsSequence, Elements
  <2> QED
    BY <2>1, <2>2, <2>3 DEF JsonInv, FileInv
<1>2. JsonInv /\ [JsonNext]_jsonVars => JsonInv'
  <2> SUFFICES ASSUME JsonInv, [JsonNext]_jsonVars PROVE JsonInv'
    OBVIOUS
  <2>1. [Next]_vars /\ FileInv'
    BY JsonStep
  <2>2. TypeOK' /\ ListInv'
    BY <2>1, TypeStep, ListStep DEF JsonInv
  <2> QED
    BY <2>1, <2>2 DEF JsonInv
<1> QED
  BY <1>1, <1>2, PTL DEF JsonSpec

(* [json-encode] does to its store only what the messages of Kvp do: reading a *)
(* file, the user's or its own, is a clear and then one addition after another *)
(* of keys and values it can hold, and writing one leaves the store alone.     *)
THEOREM JsonEncodeRunsStore == ASSUME Arrays, ~Mixes PROVE JsonSpec => Spec
<1>1. JsonInit => Init
  BY DEF JsonInit
<1>2. JsonInv /\ [JsonNext]_jsonVars => [Next]_vars
  BY JsonStep
<1> QED
  BY <1>1, <1>2, JsonInvariant, PTL DEF JsonSpec, Spec

(* So table and pairs agree in every state, also while a file is being read.   *)
THEOREM JsonTypeCorrect == ASSUME Arrays, ~Mixes PROVE JsonSpec => []TypeOK
  BY JsonEncodeRunsStore, KvpTypeCorrect, PTL

(* No value is lost and none is freed while it is stored, whatever is read over *)
(* whatever was stored before.                                                 *)
THEOREM ReadsOwnMemory == ASSUME Arrays, ~Mixes PROVE JsonSpec => []MemoryOwned
  BY JsonEncodeRunsStore, JsonEncodeOwnsMemory, PTL

(* Messages and reads together keep what Store promises: keys in the order of  *)
(* the messages or of the file, arrays with their members in order.            *)
THEOREM ReadsImplementStore == ASSUME Arrays, ~Mixes PROVE JsonSpec => StoreImplemented
  BY JsonEncodeRunsStore, JsonEncodeImplementsStore, PTL

--------------------------------------------------------------------------------
(* What is nested in a value                                                   *)

(* What is in the values of a set.                                             *)
Deeper(W) == UNION {Inner(w) : w \in W}

(* One turn of the recursion in Levels, up to n.                               *)
NextLevels(v, n, f) == [d \in 0 .. n |-> IF d = 0 THEN {v} ELSE Deeper(f[d - 1])]

(* The levels begin with the value itself, and go on with what is in the last  *)
(* one.                                                                        *)
LEMMA LevelsOf ==
    ASSUME NEW v
    PROVE  /\ Levels(v)[0] = {v}
           /\ \A d \in 1 .. Depth : Levels(v)[d] = Deeper(Levels(v)[d - 1])
<1> DEFINE T == {n \in Nat : \E f : f = NextLevels(v, n, f)}
<1>1. 0 \in T
  <2> DEFINE f == [d \in 0 .. 0 |-> {v}]
  <2>1. f = NextLevels(v, 0, f)
    BY DEF NextLevels
  <2> QED
    BY <2>1
<1>2. ASSUME NEW n \in Nat, n \in T PROVE n + 1 \in T
  <2>1. PICK f : f = NextLevels(v, n, f)
    BY <1>2
  <2> DEFINE next == Deeper(f[n])
             g    == [d \in 0 .. n + 1 |-> IF d = n + 1 THEN next ELSE f[d]]
  <2>2. \A d \in 0 .. n : f[d] = IF d = 0 THEN {v} ELSE Deeper(f[d - 1])
    BY <2>1 DEF NextLevels
  <2>3. \A d \in 0 .. n + 1 : g[d] = IF d = 0 THEN {v} ELSE Deeper(g[d - 1])
    <3> TAKE d \in 0 .. n + 1
    <3>1. /\ d \in 0 .. n => g[d] = f[d]
          /\ d = n + 1 => g[d] = next
          /\ d # 0 => g[d - 1] = f[d - 1]
      OBVIOUS
    <3> HIDE DEF g
    <3>2. d = n + 1 => g[d] = Deeper(f[d - 1])
      BY <3>1
    <3> HIDE DEF next
    <3>3. d = n + 1 \/ d \in 0 .. n
      OBVIOUS
    <3> QED
      BY <2>2, <3>1, <3>2, <3>3
  <2>4. g = [d \in 0 .. n + 1 |-> g[d]]
    OBVIOUS
  <2> HIDE DEF g
  <2>5. g = NextLevels(v, n + 1, g)
    BY <2>3, <2>4 DEF NextLevels
  <2> QED
    BY <2>5
<1>3. Depth \in T
  <2> HIDE DEF T
  <2> QED
    BY <1>1, <1>2, TextsAssumption, ByInduction
<1>4. Levels(v) = CHOOSE f : f = NextLevels(v, Depth, f)
  BY DEF Levels, NextLevels, Deeper
<1>5. PICK f : f = Levels(v) /\ f = NextLevels(v, Depth, f)
  BY <1>3, <1>4
<1>6. \A d \in 0 .. Depth : f[d] = IF d = 0 THEN {v} ELSE Deeper(f[d - 1])
  BY <1>5 DEF NextLevels
<1>7. 0 \in 0 .. Depth /\ \A d \in 1 .. Depth : d \in 0 .. Depth /\ d # 0
  BY TextsAssumption
<1> QED
  BY <1>5, <1>6, <1>7

(* What is in an array or an object is nested too, one level deeper.           *)
LEMMA InnerNested ==
    ASSUME NEW v, Nests(v), NEW d \in 0 .. Depth, NEW w \in Levels(v)[d], Container(w)
    PROVE  /\ d + 1 \in 0 .. Depth /\ w \in Nested(v) /\ IsSequence(Of(w))
           /\ Inner(w) \subseteq Levels(v)[d + 1] /\ Inner(w) \subseteq Nested(v)
<1>1. d # Depth
  BY DEF Nests
<1>2. d + 1 \in 1 .. Depth /\ d + 1 \in 0 .. Depth /\ (d + 1) - 1 = d
  BY <1>1, TextsAssumption
<1>3. Levels(v)[d + 1] = Deeper(Levels(v)[d])
  BY <1>2, LevelsOf
<1>4. w \in Nested(v)
  BY DEF Nested
<1>5. IsSequence(Of(w))
  BY <1>4 DEF Nests
<1>6. Inner(w) \subseteq Levels(v)[d + 1]
  BY <1>3 DEF Deeper
<1>7. Inner(w) \subseteq Nested(v)
  BY <1>2, <1>6 DEF Nested
<1> QED
  BY <1>2, <1>4, <1>5, <1>6, <1>7

(* The members of an array are in it.                                          *)
LEMMA MembersNested ==
    ASSUME NEW v, Nests(v), NEW d \in 0 .. Depth, NEW w \in Levels(v)[d], Type(w) = "array"
    PROVE  /\ d + 1 \in 0 .. Depth /\ w \in Nested(v) /\ Len(Of(w)) \in Nat
           /\ \A i \in 1 .. Len(Of(w)) : Of(w)[i] \in Levels(v)[d + 1] /\ Of(w)[i] \in Nested(v)
<1>1. Container(w) /\ Inner(w) = Range(Of(w))
  BY DEF Container, Inner
<1>2. /\ d + 1 \in 0 .. Depth /\ w \in Nested(v) /\ IsSequence(Of(w))
      /\ Inner(w) \subseteq Levels(v)[d + 1] /\ Inner(w) \subseteq Nested(v)
  BY <1>1, InnerNested
<1>3. Len(Of(w)) \in Nat /\ DOMAIN Of(w) = 1 .. Len(Of(w))
  BY <1>2 DEF IsSequence
<1>4. \A i \in 1 .. Len(Of(w)) : Of(w)[i] \in Inner(w)
  BY <1>1, <1>3 DEF Range
<1> QED
  BY <1>2, <1>3, <1>4

(* What is in a value that json-c reads is one that it would read alone.       *)
LEMMA InnerNests ==
    ASSUME NEW v, Nests(v), NEW w \in Inner(v)
    PROVE  Nests(w) /\ Nested(w) \subseteq Nested(v)
<1>1. PICK f, g : f = Levels(v) /\ g = Levels(w)
  OBVIOUS
<1>2. /\ f[0] = {v} /\ \A d \in 1 .. Depth : f[d] = Deeper(f[d - 1])
      /\ g[0] = {w} /\ \A d \in 1 .. Depth : g[d] = Deeper(g[d - 1])
  BY <1>1, LevelsOf
<1>3. Depth \in Nat /\ Depth # 0
  <2>1. Container(v)
    BY DEF Container, Inner
  <2>2. v \in Levels(v)[0] /\ 0 \in 0 .. Depth
    BY <1>1, <1>2, TextsAssumption
  <2>3. 0 + 1 \in 0 .. Depth
    BY <2>1, <2>2, InnerNested
  <2> QED
    BY <2>3, TextsAssumption
<1>4. ASSUME NEW A, NEW B, A \subseteq B PROVE Deeper(A) \subseteq Deeper(B)
  BY <1>4 DEF Deeper
<1> DEFINE T == {n \in Nat : n + 1 <= Depth => g[n] \subseteq f[n + 1]}
<1>5. 0 \in T
  <2>1. f[1] = Deeper(f[0])
    BY <1>2, <1>3
  <2>2. w \in Deeper({v})
    BY DEF Deeper
  <2> QED
    BY <1>2, <2>1, <2>2
<1>6. ASSUME NEW n \in Nat, n \in T PROVE n + 1 \in T
  <2> SUFFICES ASSUME (n + 1) + 1 <= Depth PROVE g[n + 1] \subseteq f[(n + 1) + 1]
    OBVIOUS
  <2>1. /\ n + 1 \in 1 .. Depth /\ (n + 1) - 1 = n
        /\ (n + 1) + 1 \in 1 .. Depth /\ ((n + 1) + 1) - 1 = n + 1 /\ n + 1 <= Depth
    BY <1>3
  <2>2. g[n + 1] = Deeper(g[n]) /\ f[(n + 1) + 1] = Deeper(f[n + 1]) /\ g[n] \subseteq f[n + 1]
    BY <1>2, <1>6, <2>1
  <2> QED
    BY <1>4, <2>2
<1>7. \A n \in Nat : n + 1 <= Depth => g[n] \subseteq f[n + 1]
  <2>1. Nat \subseteq T
    <3> HIDE DEF T
    <3> QED
      BY <1>5, <1>6, ByInduction
  <2> QED
    BY <2>1
<1>8. g[Depth] = {}
  <2>1. PICK n \in Nat : n + 1 = Depth /\ n = Depth - 1
    BY <1>3
  <2>2. g[n] \subseteq f[Depth] /\ g[Depth] = Deeper(g[n])
    BY <1>2, <1>3, <1>7, <2>1
  <2>3. \A x \in f[Depth] : Inner(x) = {}
    BY <1>1 DEF Nests, Container, Inner
  <2> QED
    BY <2>2, <2>3 DEF Deeper
<1>9. \A d \in 0 .. Depth : g[d] \subseteq Nested(v)
  <2> TAKE d \in 0 .. Depth
  <2>1. CASE d = Depth
    BY <1>8, <2>1
  <2>2. CASE d # Depth
    <3>1. d \in Nat /\ d + 1 <= Depth /\ d + 1 \in 0 .. Depth
      BY <1>3, <2>2
    <3>2. g[d] \subseteq f[d + 1]
      BY <1>7, <3>1
    <3> QED
      BY <1>1, <3>1, <3>2 DEF Nested
  <2> QED
    BY <2>1, <2>2
<1>10. Nested(w) \subseteq Nested(v)
  BY <1>1, <1>9 DEF Nested
<1>11. Nests(w)
  BY <1>1, <1>8, <1>10 DEF Nests
<1> QED
  BY <1>10, <1>11

(* So are its strings.                                                         *)
LEMMA InnerDoubled ==
    ASSUME NEW v, Nests(v), ~Doubled(v), NEW w \in Inner(v)
    PROVE  ~Doubled(w)
<1>1. Nested(w) \subseteq Nested(v)
  BY InnerNests
<1>2. Strings(w) \subseteq Strings(v)
  BY <1>1 DEF Strings
<1> QED
  BY <1>2 DEF Doubled

--------------------------------------------------------------------------------
(* A series of values                                                          *)

(* f and g are the same for the members of w.                                  *)
Agree(w, f, g) == Type(w) = "array" => \A i \in 1 .. Len(Of(w)) : f[Of(w)[i]] = g[Of(w)[i]]

(* G makes functions on the nested values from functions on them, and asks     *)
(* them for nothing but the members of an array.                               *)
AsksMembers(v, S, G) ==
    /\ G \in [[Nested(v) -> S] -> [Nested(v) -> S]]
    /\ \A f, g \in [Nested(v) -> S], w \in Nested(v) : Agree(w, f, g) => G[f][w] = G[g][w]

(* There is one that is what G makes of it.                                    *)
LEMMA RecursionDefines ==
    ASSUME NEW v, Nests(v), NEW S, NEW b \in S, NEW G, AsksMembers(v, S, G)
    PROVE  \E f : f \in [Nested(v) -> S] /\ f = G[f]
<1> DEFINE R == [Nested(v) -> S]
           F == [i \in 1 .. Depth + 2 |-> G]
           first == [w \in Nested(v) |-> b]
<1>1. PICK h : Iterates(h, R, Depth + 2, first, F)
  <2>1. first \in R
    OBVIOUS
  <2>2. F \in [1 .. Depth + 2 -> [R -> R]]
    BY DEF AsksMembers
  <2> HIDE DEF R, F, first
  <2> QED
    BY <2>1, <2>2, TextsAssumption, Iteration
<1>2. /\ \A m \in 0 .. Depth + 2 : h[m] \in R
      /\ \A m \in 1 .. Depth + 2 : h[m] = G[h[m - 1]]
  <2> HIDE DEF R
  <2> QED
    BY <1>1 DEF Iterates
<1> DEFINE T == {n \in Nat : n <= Depth => \A w \in Levels(v)[Depth - n] :
                                \A m \in n + 1 .. Depth + 1 : h[m + 1][w] = h[m][w]}
<1>3. ASSUME NEW m \in 1 .. Depth + 1, NEW w \in Nested(v), Agree(w, h[m], h[m - 1])
      PROVE  h[m + 1][w] = h[m][w]
  <2>1. /\ m + 1 \in 1 .. Depth + 2 /\ (m + 1) - 1 = m /\ m \in 1 .. Depth + 2
        /\ m \in 0 .. Depth + 2 /\ m - 1 \in 0 .. Depth + 2
    BY TextsAssumption
  <2>2. h[m + 1] = G[h[m]] /\ h[m] = G[h[m - 1]] /\ h[m] \in R /\ h[m - 1] \in R
    BY <1>2, <2>1
  <2>3. G[h[m]][w] = G[h[m - 1]][w]
    BY <1>3, <2>2 DEF AsksMembers
  <2> QED
    BY <2>2, <2>3
<1> HIDE DEF R
<1>4. 0 \in T
  <2> SUFFICES ASSUME NEW w \in Levels(v)[Depth], NEW m \in 1 .. Depth + 1
               PROVE  h[m + 1][w] = h[m][w]
    BY TextsAssumption
  <2>1. w \in Nested(v) /\ Type(w) # "array"
    BY TextsAssumption DEF Nests, Container, Nested
  <2> QED
    BY <1>3, <2>1 DEF Agree
<1>5. ASSUME NEW n \in Nat, n \in T PROVE n + 1 \in T
  <2> SUFFICES ASSUME n + 1 <= Depth, NEW w \in Levels(v)[Depth - (n + 1)],
                      NEW m \in (n + 1) + 1 .. Depth + 1
               PROVE  h[m + 1][w] = h[m][w]
    OBVIOUS
  <2>1. PICK d \in 0 .. Depth : d = Depth - (n + 1) /\ d + 1 = Depth - n
    BY TextsAssumption
  <2>2. m - 1 \in n + 1 .. Depth + 1 /\ m \in 1 .. Depth + 1 /\ (m - 1) + 1 = m
    BY TextsAssumption
  <2>3. \A x \in Levels(v)[d + 1] : h[m][x] = h[m - 1][x]
    BY <1>5, <2>1, <2>2, TextsAssumption
  <2>4. Agree(w, h[m], h[m - 1])
    BY <2>1, <2>3, MembersNested DEF Agree
  <2>5. w \in Nested(v)
    BY <2>1 DEF Nested
  <2> QED
    BY <1>3, <2>2, <2>4, <2>5
<1>6. Nat \subseteq T
  <2> HIDE DEF T
  <2> QED
    BY <1>4, <1>5, ByInduction
<1>7. ASSUME NEW w \in Nested(v) PROVE h[Depth + 2][w] = h[Depth + 1][w]
  <2>1. PICK d \in 0 .. Depth : w \in Levels(v)[d]
    BY DEF Nested
  <2>2. PICK n \in Nat : n <= Depth /\ d = Depth - n
    <3>1. Depth - d \in Nat /\ Depth - d <= Depth /\ d = Depth - (Depth - d)
      BY TextsAssumption
    <3> QED
      BY <3>1
  <2>3. Depth + 1 \in n + 1 .. Depth + 1 /\ (Depth + 1) + 1 = Depth + 2
    BY <2>2, TextsAssumption
  <2> QED
    BY <1>6, <2>1, <2>2, <2>3
<1>8. h[Depth + 1] \in R /\ h[Depth + 2] \in R /\ h[Depth + 2] = G[h[Depth + 1]]
  <2>1. /\ Depth + 1 \in 0 .. Depth + 2 /\ Depth + 2 \in 0 .. Depth + 2
        /\ Depth + 2 \in 1 .. Depth + 2 /\ (Depth + 2) - 1 = Depth + 1
    BY TextsAssumption
  <2> QED
    BY <1>2, <2>1
<1>9. h[Depth + 2] = h[Depth + 1]
  BY <1>7, <1>8 DEF R
<1> QED
  BY <1>8, <1>9 DEF R

(* All that can be output for a text.                                          *)
Events(v) ==
    {Bang, ErrorBang} \cup {Data(Atom(w)) : w \in Nested(v)}
        \cup UNION {{Pair(Of(w)[i][1], Atom(Of(w)[i][2])) : i \in 1 .. Len(Of(w))} : w \in Nested(v)}

(* A value that is no array, and what is output for it alone.                  *)
Leaf(v) == {w \in Nested(v) : Type(w) # "array"}

LeafEvents(w) ==
    IF Type(w) = "object" THEN OutputObject(w)
    ELSE IF w = JNull THEN <<ErrorBang>> ELSE <<Data(Atom(w)), Bang>>

(* It is one list for each member or a single value, and then a bang, or just  *)
(* the error.                                                                  *)
LEMMA LeafEventsOf ==
    ASSUME NEW v, Nests(v), NEW w \in Leaf(v)
    PROVE  /\ LeafEvents(w) \in Seq(Events(v))
           /\ Size(w) \in Nat /\ Len(LeafEvents(w)) = Size(w) + 1
           /\ LeafEvents(w)[Size(w) + 1] = IF w = JNull THEN ErrorBang ELSE Bang
           /\ \A p \in 1 .. Size(w) : LeafEvents(w)[p] \notin {Bang, ErrorBang}
<1>1. ASSUME NEW k, NEW a
      PROVE  Pair(k, a) \notin {Bang, ErrorBang} /\ Data(a) \notin {Bang, ErrorBang}
  BY DEF Pair, Data, Bang, ErrorBang
<1>2. w \in Nested(v) /\ Bang \in Events(v) /\ ErrorBang \in Events(v) /\ Data(Atom(w)) \in Events(v)
  BY DEF Leaf, Events
<1>3. CASE Type(w) = "object"
  <2>1. PICK n \in Nat : n = Len(Of(w)) /\ Size(w) = n
    BY <1>2, <1>3 DEF Nests, Container, IsSequence, Size
  <2>2. w # JNull
    BY <1>3 DEF JNull, Type
  <2> DEFINE P(i) == Pair(Of(w)[i][1], Atom(Of(w)[i][2]))
             lists == [i \in 1 .. n |-> P(i)]
  <2>3. \A i \in 1 .. n : P(i) \in Events(v)
    BY <1>2, <2>1 DEF Events
  <2>4. \A i \in 1 .. n : P(i) \notin {Bang, ErrorBang}
    BY <1>1
  <2> HIDE DEF P
  <2>5. lists \in Seq(Events(v)) /\ Len(lists) = n /\ \A i \in 1 .. n : lists[i] = P(i)
    BY <2>3
  <2>6. LeafEvents(w) = lists \o <<Bang>>
    BY <1>3, <2>1 DEF LeafEvents, OutputObject, P
  <2> HIDE DEF lists
  <2>7. /\ lists \o <<Bang>> \in Seq(Events(v)) /\ Len(lists \o <<Bang>>) = n + 1
        /\ (lists \o <<Bang>>)[n + 1] = Bang
        /\ \A i \in 1 .. n : (lists \o <<Bang>>)[i] = lists[i]
    BY <1>2, <2>5
  <2> QED
    BY <2>1, <2>2, <2>4, <2>5, <2>6, <2>7
<1>4. CASE Type(w) # "object" /\ w = JNull
  <2>1. LeafEvents(w) = <<ErrorBang>> /\ Size(w) = 0
    BY <1>4 DEF LeafEvents, Size
  <2> QED
    BY <1>2, <1>4, <2>1
<1>5. CASE Type(w) # "object" /\ w # JNull
  <2>1. LeafEvents(w) = <<Data(Atom(w)), Bang>> /\ Size(w) = 1
    BY <1>5 DEF LeafEvents, Size
  <2>2. Data(Atom(w)) \notin {Bang, ErrorBang}
    BY <1>1
  <2> QED
    BY <1>2, <1>5, <2>1, <2>2
<1> QED
  BY <1>3, <1>4, <1>5

(* One turn of the recursion in Output, and the function it defines.           *)
NextOut(v, f) == [w \in Nested(v) |-> OutputValue(w, f)]

Out(v) == CHOOSE f : f = NextOut(v, f)

(* The recursion of Output defines what is output for each nested value.       *)
LEMMA OutDefined ==
    ASSUME NEW v, Nests(v)
    PROVE  \A w \in Nested(v) : Out(v)[w] = OutputValue(w, Out(v))
<1> DEFINE S == Seq(Events(v))
           G == [f \in [Nested(v) -> S] |-> [w \in Nested(v) |-> OutputValue(w, f)]]
<1>1. ASSUME NEW w \in Nested(v), Type(w) = "array"
      PROVE  Len(Of(w)) \in Nat /\ \A i \in 1 .. Len(Of(w)) : Of(w)[i] \in Nested(v)
  <2>1. PICK d \in 0 .. Depth : w \in Levels(v)[d]
    BY DEF Nested
  <2> QED
    BY <1>1, <2>1, MembersNested
<1>2. ASSUME NEW w \in Nested(v), NEW f \in [Nested(v) -> S] PROVE OutputValue(w, f) \in S
  <2>1. Bang \in Events(v) /\ ErrorBang \in Events(v) /\ Data(Atom(w)) \in Events(v)
    BY DEF Events
  <2>2. CASE Type(w) = "object"
    <3>1. w \in Leaf(v) /\ OutputValue(w, f) = LeafEvents(w)
      BY <2>2 DEF Leaf, OutputValue, LeafEvents
    <3> QED
      BY <3>1, LeafEventsOf
  <2>3. CASE Type(w) = "array"
    <3> DEFINE E(i) == IF Of(w)[i] = JNull THEN <<ErrorBang>> ELSE f[Of(w)[i]]
               s == [i \in 1 .. Len(Of(w)) |-> E(i)]
    <3>1. \A i \in 1 .. Len(Of(w)) : E(i) \in S
      BY <1>1, <2>1, <2>3
    <3>2. OutputValue(w, f) = FlattenSeq(s)
      BY <2>3 DEF OutputValue, OutputArray
    <3> HIDE DEF E
    <3>3. s \in Seq(S)
      BY <1>1, <2>3, <3>1
    <3> HIDE DEF s
    <3> QED
      BY <3>2, <3>3, FlattenSeqType
  <2>4. CASE Type(w) \notin {"object", "array"}
    <3>1. OutputValue(w, f) = <<Data(Atom(w)), Bang>>
      BY <2>4 DEF OutputValue
    <3> QED
      BY <2>1, <3>1
  <2> QED
    BY <2>2, <2>3, <2>4
<1>3. G \in [[Nested(v) -> S] -> [Nested(v) -> S]]
  <2> HIDE DEF S
  <2> QED
    BY <1>2
<1>4. ASSUME NEW f, NEW g, NEW w \in Nested(v), Agree(w, f, g)
      PROVE  OutputValue(w, f) = OutputValue(w, g)
  <2>1. CASE Type(w) = "array"
    <3>1. OutputArray(w, f) = OutputArray(w, g)
      <4>1. [i \in 1 .. Len(Of(w)) |-> IF Of(w)[i] = JNull THEN <<ErrorBang>> ELSE f[Of(w)[i]]]
              = [i \in 1 .. Len(Of(w)) |-> IF Of(w)[i] = JNull THEN <<ErrorBang>> ELSE g[Of(w)[i]]]
        BY <1>4, <2>1 DEF Agree
      <4> QED
        BY <4>1 DEF OutputArray
    <3> QED
      BY <2>1, <3>1 DEF OutputValue
  <2>2. CASE Type(w) # "array"
    BY <2>2 DEF OutputValue
  <2> QED
    BY <2>1, <2>2
<1>5. \A f, g \in [Nested(v) -> S], w \in Nested(v) : Agree(w, f, g) => G[f][w] = G[g][w]
  BY <1>4
<1>6. <<>> \in S
  OBVIOUS
<1>7. \E f \in [Nested(v) -> S] : f = G[f]
  <2> HIDE DEF S, G
  <2>1. AsksMembers(v, S, G)
    BY <1>3, <1>5 DEF AsksMembers
  <2>2. \E f : f \in [Nested(v) -> S] /\ f = G[f]
    BY <1>6, <2>1, RecursionDefines
  <2> QED
    BY <2>2
<1>8. \E f : f = NextOut(v, f)
  <2> HIDE DEF S
  <2> QED
    BY <1>7 DEF NextOut
<1>9. PICK f : f = Out(v) /\ f = NextOut(v, f)
  BY <1>8 DEF Out
<1> QED
  BY <1>9 DEF NextOut

(* One turn of the recursion in Leaves, and the function it defines.           *)
NextLeaves(v, f) == [w \in Nested(v) |-> LeavesOf(w, f)]

LeavesIn(v) == CHOOSE f : f = NextLeaves(v, f)

(* It defines the leaves of each nested value.                                 *)
LEMMA LeavesDefined ==
    ASSUME NEW v, Nests(v)
    PROVE  /\ Leaves(v) = LeavesIn(v)[v]
           /\ \A w \in Nested(v) : LeavesIn(v)[w] = LeavesOf(w, LeavesIn(v))
<1> DEFINE S == Seq(Leaf(v))
           G == [f \in [Nested(v) -> S] |-> [w \in Nested(v) |-> LeavesOf(w, f)]]
<1>1. ASSUME NEW w \in Nested(v), Type(w) = "array"
      PROVE  Len(Of(w)) \in Nat /\ \A i \in 1 .. Len(Of(w)) : Of(w)[i] \in Nested(v)
  <2>1. PICK d \in 0 .. Depth : w \in Levels(v)[d]
    BY DEF Nested
  <2> QED
    BY <1>1, <2>1, MembersNested
<1>2. ASSUME NEW w \in Nested(v), NEW f \in [Nested(v) -> S] PROVE LeavesOf(w, f) \in S
  <2>1. CASE Type(w) = "array"
    <3> DEFINE s == [i \in 1 .. Len(Of(w)) |-> f[Of(w)[i]]]
    <3>1. s \in Seq(S)
      <4> HIDE DEF S
      <4> QED
        BY <1>1, <2>1
    <3>2. LeavesOf(w, f) = FlattenSeq(s)
      BY <2>1 DEF LeavesOf
    <3> HIDE DEF s
    <3> QED
      BY <3>1, <3>2, FlattenSeqType
  <2>2. CASE Type(w) # "array"
    <3>1. LeavesOf(w, f) = <<w>> /\ w \in Leaf(v)
      BY <2>2 DEF LeavesOf, Leaf
    <3> QED
      BY <3>1
  <2> QED
    BY <2>1, <2>2
<1>3. G \in [[Nested(v) -> S] -> [Nested(v) -> S]]
  <2> HIDE DEF S
  <2> QED
    BY <1>2
<1>4. ASSUME NEW f, NEW g, NEW w \in Nested(v), Agree(w, f, g)
      PROVE  LeavesOf(w, f) = LeavesOf(w, g)
  <2>1. CASE Type(w) = "array"
    <3>1. [i \in 1 .. Len(Of(w)) |-> f[Of(w)[i]]] = [i \in 1 .. Len(Of(w)) |-> g[Of(w)[i]]]
      BY <1>4, <2>1 DEF Agree
    <3> QED
      BY <2>1, <3>1 DEF LeavesOf
  <2>2. CASE Type(w) # "array"
    BY <2>2 DEF LeavesOf
  <2> QED
    BY <2>1, <2>2
<1>5. \A f, g \in [Nested(v) -> S], w \in Nested(v) : Agree(w, f, g) => G[f][w] = G[g][w]
  BY <1>4
<1>6. <<>> \in S
  OBVIOUS
<1>7. \E f \in [Nested(v) -> S] : f = G[f]
  <2> HIDE DEF S, G
  <2>1. AsksMembers(v, S, G)
    BY <1>3, <1>5 DEF AsksMembers
  <2>2. \E f : f \in [Nested(v) -> S] /\ f = G[f]
    BY <1>6, <2>1, RecursionDefines
  <2> QED
    BY <2>2
<1>8. \E f : f = NextLeaves(v, f)
  <2> HIDE DEF S
  <2> QED
    BY <1>7 DEF NextLeaves
<1>9. PICK f : f = LeavesIn(v) /\ f = NextLeaves(v, f)
  BY <1>8 DEF LeavesIn
<1>10. Leaves(v) = LeavesIn(v)[v]
  BY DEF Leaves, LeavesIn, NextLeaves
<1> QED
  BY <1>9, <1>10 DEF NextLeaves

(* What is output for a value among others: for null the error.                *)
Among(w, out) == IF w = JNull THEN <<ErrorBang>> ELSE out[w]

(* What is output for a value is what is output for its leaves.                *)
LEMMA LeavesAreOutput ==
    ASSUME NEW v, Nests(v)
    PROVE  LET e == [w \in Leaf(v) |-> LeafEvents(w)]
           IN  /\ Leaves(v) \in Seq(Leaf(v))
               /\ Among(v, Out(v)) = FlattenSeq(Mapped(e, Leaves(v)))
<1> DEFINE e == [w \in Leaf(v) |-> LeafEvents(w)]
<1>1. PICK out : out = Out(v) /\ \A w \in Nested(v) : out[w] = OutputValue(w, out)
  BY OutDefined
<1>2. PICK leaves : /\ leaves = LeavesIn(v)
                    /\ \A w \in Nested(v) : leaves[w] = LeavesOf(w, leaves)
  BY LeavesDefined
<1>3. e \in [Leaf(v) -> Seq(Events(v))] /\ \A w \in Leaf(v) : e[w] = LeafEvents(w)
  BY LeafEventsOf
<1> HIDE DEF e
<1> DEFINE Fine(w) == /\ leaves[w] \in Seq(Leaf(v))
                      /\ Among(w, out) = FlattenSeq(Mapped(e, leaves[w]))
           T == {n \in Nat : n <= Depth => \A w \in Levels(v)[Depth - n] : Fine(w)}
<1>4. ASSUME NEW w \in Nested(v), Type(w) # "array" PROVE Fine(w)
  <2>1. w \in Leaf(v) /\ leaves[w] = <<w>>
    BY <1>2, <1>4 DEF Leaf, LeavesOf
  <2>2. PICK x : x = LeafEvents(w) /\ x \in Seq(Events(v))
    BY <2>1, LeafEventsOf
  <2>3. Among(w, out) = x
    BY <1>1, <1>4, <2>2 DEF Among, OutputValue, LeafEvents, JNull, Type
  <2>4. Mapped(e, <<w>>) = <<x>>
    <3>1. e[w] = x
      BY <1>3, <2>1, <2>2
    <3>2. Mapped(e, <<w>>) = [i \in 1 .. 1 |-> e[<<w>>[i]]]
      BY DEF Mapped
    <3>3. \A i \in 1 .. 1 : <<w>>[i] = w
      OBVIOUS
    <3> QED
      BY <3>1, <3>2, <3>3
  <2>5. FlattenSeq(<<x>>) = x
    <3>1. /\ <<>> \in Seq(Seq(Events(v))) /\ Append(<<>>, x) = <<x>>
          /\ <<>> \o x = x
      BY <2>2
    <3>2. FlattenSeq(Append(<<>>, x)) = FlattenSeq(<<>>) \o x
      BY <2>2, <3>1, FlattenSeqAppend
    <3> QED
      BY <3>1, <3>2, FlattenSeqEmpty
  <2> QED
    BY <2>1, <2>3, <2>4, <2>5
<1>5. ASSUME NEW w, Type(w) = "array", w \in Nested(v), Len(Of(w)) \in Nat,
             \A i \in 1 .. Len(Of(w)) : Fine(Of(w)[i])
      PROVE  Fine(w)
  <2>1. PICK n, x, y : /\ n = Len(Of(w)) /\ n \in Nat /\ x = Of(w)
                       /\ y = [i \in 1 .. n |-> leaves[x[i]]]
    BY <1>5
  <2>2. \A i \in 1 .. n : y[i] = leaves[x[i]] /\ y[i] \in Seq(Leaf(v))
    BY <1>5, <2>1
  <2>3. leaves[w] = FlattenSeq([i \in 1 .. n |-> y[i]])
    <3>1. leaves[w] = FlattenSeq([i \in 1 .. n |-> leaves[x[i]]])
      BY <1>2, <1>5, <2>1 DEF LeavesOf
    <3>2. [i \in 1 .. n |-> y[i]] = [i \in 1 .. n |-> leaves[x[i]]]
      BY <2>2
    <3> QED
      BY <3>1, <3>2
  <2>4. Among(w, out) = FlattenSeq([i \in 1 .. n |-> Among(x[i], out)])
    <3>1. w # JNull
      BY <1>5 DEF JNull, Type
    <3>2. out[w] = OutputArray(w, out)
      BY <1>1, <1>5 DEF OutputValue
    <3> QED
      BY <2>1, <3>1, <3>2 DEF OutputArray, Among
  <2>5. [i \in 1 .. n |-> Among(x[i], out)] = [i \in 1 .. n |-> FlattenSeq(Mapped(e, y[i]))]
    BY <1>5, <2>1, <2>2
  <2>6. FlattenSeq([i \in 1 .. n |-> FlattenSeq(Mapped(e, y[i]))])
          = FlattenSeq(Mapped(e, FlattenSeq([i \in 1 .. n |-> y[i]])))
    <3>1. n \in Nat
      BY <1>5, <2>1
    <3>2. MappedJoined(e, n, y)
      BY <1>3, <2>2, <3>1, FlattenSeqMapped
    <3> QED
      BY <3>2 DEF MappedJoined
  <2>7. leaves[w] \in Seq(Leaf(v))
    <3>1. [i \in 1 .. n |-> y[i]] \in Seq(Seq(Leaf(v)))
      BY <2>1, <2>2
    <3> QED
      BY <2>3, <3>1, FlattenSeqType
  <2> QED
    BY <2>3, <2>4, <2>5, <2>6, <2>7
<1> HIDE DEF Fine
<1>6. 0 \in T
  <2> SUFFICES ASSUME NEW w \in Levels(v)[Depth] PROVE Fine(w)
    BY TextsAssumption
  <2>1. w \in Nested(v) /\ Type(w) # "array"
    BY TextsAssumption DEF Nests, Container, Nested
  <2> QED
    BY <1>4, <2>1
<1>7. ASSUME NEW n \in Nat, n \in T PROVE n + 1 \in T
  <2> SUFFICES ASSUME n + 1 <= Depth, NEW w \in Levels(v)[Depth - (n + 1)] PROVE Fine(w)
    OBVIOUS
  <2>1. PICK d \in 0 .. Depth : d = Depth - (n + 1) /\ d + 1 = Depth - n
    BY TextsAssumption
  <2>2. \A x \in Levels(v)[d + 1] : Fine(x)
    BY <1>7, <2>1, TextsAssumption
  <2>3. w \in Nested(v) /\ w \in Levels(v)[d]
    BY <2>1 DEF Nested
  <2>4. CASE Type(w) = "array"
    <3>1. Len(Of(w)) \in Nat /\ \A i \in 1 .. Len(Of(w)) : Fine(Of(w)[i])
      BY <2>2, <2>3, <2>4, MembersNested
    <3> QED
      BY <1>5, <2>3, <2>4, <3>1
  <2> QED
    BY <1>4, <2>3, <2>4
<1>8. Depth \in T
  <2> HIDE DEF T
  <2> QED
    BY <1>6, <1>7, TextsAssumption, ByInduction
<1>9. v \in Levels(v)[Depth - Depth]
  BY LevelsOf, TextsAssumption
<1>10. Fine(v)
  BY <1>8, <1>9, TextsAssumption
<1> QED
  BY <1>1, <1>2, <1>10, LeavesDefined DEF Fine, e

(* Each value ends one event behind its own.                                   *)
LEMMA EndsDefined ==
    ASSUME NEW R, NEW x \in Seq(R), \A i \in 1 .. Len(x) : Size(x[i]) \in Nat
    PROVE  /\ Ends(x)[0] = 0 /\ \A i \in 0 .. Len(x) : Ends(x)[i] \in Nat
           /\ \A i \in 1 .. Len(x) : Ends(x)[i] = Ends(x)[i - 1] + Size(x[i]) + 1
<1>1. PICK n \in Nat : n = Len(x)
  OBVIOUS
<1> DEFINE F == [i \in 1 .. n |-> [m \in Nat |-> m + Size(x[i]) + 1]]
           Next1(f) == [i \in 0 .. n |-> IF i = 0 THEN 0 ELSE f[i - 1] + Size(x[i]) + 1]
<1>2. PICK f : Iterates(f, Nat, n, 0, F)
  <2>1. F \in [1 .. n -> [Nat -> Nat]]
    BY <1>1
  <2> HIDE DEF F
  <2> QED
    BY <2>1, Iteration
<1>3. f \in [0 .. n -> Nat] /\ f[0] = 0 /\ \A i \in 1 .. n : f[i] = f[i - 1] + Size(x[i]) + 1
  <2>1. f \in [0 .. n -> Nat] /\ f[0] = 0 /\ \A i \in 1 .. n : f[i] = F[i][f[i - 1]]
    BY <1>2 DEF Iterates
  <2>2. \A i \in 1 .. n : f[i - 1] \in Nat
    BY <2>1
  <2> QED
    BY <2>1, <2>2
<1>4. f = Next1(f)
  BY <1>3
<1>5. Ends(x) = CHOOSE g : g = Next1(g)
  BY <1>1 DEF Ends
<1>6. PICK g : g = Ends(x) /\ g = Next1(g)
  <2> HIDE DEF Next1
  <2> QED
    BY <1>4, <1>5
<1>7. \A i \in 0 .. n : g[i] = IF i = 0 THEN 0 ELSE g[i - 1] + Size(x[i]) + 1
  BY <1>6
<1>8. g[0] = 0 /\ \A i \in 1 .. n : g[i] = g[i - 1] + Size(x[i]) + 1
  BY <1>7
<1> DEFINE T == {m \in Nat : m <= n => g[m] \in Nat}
<1>9. 0 \in T
  BY <1>8
<1>10. ASSUME NEW m \in Nat, m \in T PROVE m + 1 \in T
  <2> SUFFICES ASSUME m + 1 <= n PROVE g[m + 1] \in Nat
    OBVIOUS
  <2>1. m + 1 \in 1 .. n /\ (m + 1) - 1 = m /\ g[m] \in Nat
    BY <1>10
  <2>2. g[m + 1] = g[m] + Size(x[m + 1]) + 1 /\ Size(x[m + 1]) \in Nat
    BY <1>1, <1>8, <2>1
  <2> QED
    BY <2>1, <2>2
<1>11. Nat \subseteq T
  <2> HIDE DEF T
  <2> QED
    BY <1>9, <1>10, ByInduction
<1>12. n \in Nat
  BY <1>1
<1>13. \A i \in 0 .. n : g[i] \in Nat
  BY <1>11, <1>12
<1> QED
  BY <1>1, <1>6, <1>8, <1>13

(* The events of the first n values of x: each value ends with its bang or its *)
(* error, and there is no other.                                               *)
Ended(x, n, events) ==
    /\ Len(events) = Ends(x)[n]
    /\ \A i \in 1 .. n :
          /\ Ends(x)[i] \in 1 .. Len(events)
          /\ events[Ends(x)[i]] = IF x[i] = JNull THEN ErrorBang ELSE Bang
    /\ \A p \in 1 .. Len(events) :
          events[p] \in {Bang, ErrorBang} => \E i \in 1 .. n : p = Ends(x)[i]

(* The next value keeps it so.                                                 *)
LEMMA OneMoreEnds ==
    ASSUME NEW S, NEW x, NEW n \in Nat, NEW events \in Seq(S), Ended(x, n, events),
           NEW size \in Nat, NEW own \in Seq(S), Len(own) = size + 1,
           own[size + 1] = IF x[n + 1] = JNull THEN ErrorBang ELSE Bang,
           \A p \in 1 .. size : own[p] \notin {Bang, ErrorBang},
           Ends(x)[n + 1] = Ends(x)[n] + size + 1
    PROVE  Ended(x, n + 1, events \o own)
<1>1. PICK end, len : /\ end = Ends(x) /\ len = Len(events) /\ len \in Nat /\ len = end[n]
                      /\ end[n + 1] = len + size + 1
  BY DEF Ended
<1>2. /\ \A i \in 1 .. n :
            end[i] \in 1 .. len /\ events[end[i]] = IF x[i] = JNull THEN ErrorBang ELSE Bang
      /\ \A p \in 1 .. len :
            events[p] \in {Bang, ErrorBang} => \E i \in 1 .. n : p = end[i]
  BY <1>1 DEF Ended
<1>3. PICK all : /\ all = events \o own /\ Len(all) = len + size + 1
                 /\ \A p \in 1 .. len : all[p] = events[p]
                 /\ \A p \in 1 .. size + 1 : all[len + p] = own[p]
  <2>1. PICK all : all = events \o own
    OBVIOUS
  <2>2. /\ Len(all) = Len(events) + Len(own)
        /\ \A p \in 1 .. Len(events) : all[p] = events[p]
        /\ \A p \in 1 .. Len(own) : all[Len(events) + p] = own[p]
    <3>1. /\ Len(events \o own) = Len(events) + Len(own)
          /\ \A p \in 1 .. Len(events) : (events \o own)[p] = events[p]
          /\ \A p \in 1 .. Len(own) : (events \o own)[Len(events) + p] = own[p]
      BY ONLY events \in Seq(S), own \in Seq(S), JoinedElements
    <3> QED
      BY ONLY <2>1, <3>1
  <2>3. Len(events) = len /\ Len(own) = size + 1 /\ len \in Nat
    BY <1>1
  <2>4. Len(all) = len + size + 1
    BY ONLY <2>2, <2>3, size \in Nat
  <2>5. \A p \in 1 .. len : all[p] = events[p]
    BY ONLY <2>2, <2>3
  <2>6. \A p \in 1 .. size + 1 : all[len + p] = own[p]
    BY ONLY <2>2, <2>3
  <2> QED
    BY <2>1, <2>4, <2>5, <2>6
<1>4. ASSUME NEW i \in 1 .. n + 1
      PROVE  /\ end[i] \in 1 .. Len(all)
             /\ all[end[i]] = IF x[i] = JNull THEN ErrorBang ELSE Bang
  <2>1. CASE i = n + 1
    <3>1. end[i] = len + (size + 1) /\ size + 1 \in 1 .. size + 1
      BY <1>1, <2>1
    <3>2. all[len + (size + 1)] = own[size + 1]
      BY <1>3, <3>1
    <3>3. end[i] \in 1 .. Len(all)
      BY <1>1, <1>3, <3>1, SMTT(30)
    <3> QED
      BY <2>1, <3>1, <3>2, <3>3
  <2>2. CASE i # n + 1
    <3>1. i \in 1 .. n
      BY <2>2
    <3>2. end[i] \in 1 .. len /\ events[end[i]] = IF x[i] = JNull THEN ErrorBang ELSE Bang
      BY <1>2, <3>1
    <3> QED
      BY <1>1, <1>3, <3>2, SMTT(30)
  <2> QED
    BY <2>1, <2>2
<1>5. ASSUME NEW p \in 1 .. Len(all), all[p] \in {Bang, ErrorBang}
      PROVE  \E i \in 1 .. n + 1 : p = end[i]
  <2>1. CASE p <= len
    <3>1. p \in 1 .. len /\ events[p] \in {Bang, ErrorBang}
      BY <1>3, <1>5, <2>1
    <3>2. PICK i \in 1 .. n : p = end[i]
      BY <1>2, <3>1
    <3> QED
      BY <3>2
  <2>2. CASE ~(p <= len)
    <3>1. p - len \in 1 .. size + 1 /\ len + (p - len) = p
      BY <1>1, <1>3, <2>2
    <3>2. own[p - len] \in {Bang, ErrorBang}
      <4>1. all[len + (p - len)] = own[p - len]
        BY <1>3, <3>1
      <4> QED
        BY <1>5, <3>1, <4>1
    <3>3. p - len \notin 1 .. size
      BY <3>2
    <3>4. p - len = size + 1
      BY <3>1, <3>3
    <3>5. p = len + size + 1
      <4>1. len \in Nat
        BY <1>1
      <4>2. p \in 1 .. len + size + 1
        BY <1>3
      <4> QED
        BY ONLY <3>4, <4>1, <4>2, size \in Nat
    <3>6. n + 1 \in 1 .. n + 1
      OBVIOUS
    <3>7. p = end[n + 1]
      BY <1>1, <3>5
    <3> QED
      BY <3>6, <3>7
  <2> QED
    BY <2>1, <2>2
<1>6. Len(all) = end[n + 1]
  BY <1>1, <1>3
<1> QED
  BY <1>1, <1>3, <1>4, <1>5, <1>6 DEF Ended

(* So the events of all the leaves end where Ends says.                        *)
LEMMA LeavesEnd ==
    ASSUME NEW v, Nests(v), NEW e, \A w \in Leaf(v) : e[w] = LeafEvents(w), NEW x \in Seq(Leaf(v))
    PROVE  Ended(x, Len(x), FlattenSeq(Mapped(e, x)))
<1>1. PICK len \in Nat : len = Len(x)
  OBVIOUS
<1>2. \A i \in 1 .. len : x[i] \in Leaf(v)
  BY <1>1
<1>3. ASSUME NEW i \in 1 .. len
      PROVE  /\ e[x[i]] \in Seq(Events(v)) /\ Size(x[i]) \in Nat /\ Len(e[x[i]]) = Size(x[i]) + 1
             /\ e[x[i]][Size(x[i]) + 1] = IF x[i] = JNull THEN ErrorBang ELSE Bang
             /\ \A p \in 1 .. Size(x[i]) : e[x[i]][p] \notin {Bang, ErrorBang}
  BY <1>2, LeafEventsOf
<1>4. /\ Ends(x)[0] = 0 /\ \A i \in 0 .. len : Ends(x)[i] \in Nat
      /\ \A i \in 1 .. len : Ends(x)[i] = Ends(x)[i - 1] + Size(x[i]) + 1
  BY <1>1, <1>3, EndsDefined
<1> DEFINE First(n) == FlattenSeq([i \in 1 .. n |-> e[x[i]]])
           T == {n \in Nat : n <= len => First(n) \in Seq(Events(v)) /\ Ended(x, n, First(n))}
<1>5. 0 \in T
  <2>1. [i \in 1 .. 0 |-> e[x[i]]] = <<>>
    OBVIOUS
  <2>2. First(0) = <<>>
    BY <2>1, FlattenSeqEmpty
  <2> HIDE DEF First
  <2>3. Ended(x, 0, <<>>)
    BY <1>4 DEF Ended
  <2>4. <<>> \in Seq(Events(v))
    OBVIOUS
  <2> QED
    BY <2>2, <2>3, <2>4
<1>6. ASSUME NEW n \in Nat, n \in T PROVE n + 1 \in T
  <2> SUFFICES ASSUME n + 1 <= len
               PROVE  First(n + 1) \in Seq(Events(v)) /\ Ended(x, n + 1, First(n + 1))
    OBVIOUS
  <2>1. PICK own, size : own = e[x[n + 1]] /\ size = Size(x[n + 1])
    OBVIOUS
  <2>2. n + 1 \in 1 .. len /\ (n + 1) - 1 = n /\ \A i \in 1 .. n + 1 : i \in 1 .. len
    OBVIOUS
  <2>3. PICK g : g = [i \in 1 .. len |-> e[x[i]]]
    OBVIOUS
  <2>4. \A i \in 1 .. n + 1 : g[i] = e[x[i]] /\ g[i] \in Seq(Events(v))
    BY <1>3, <2>2, <2>3
  <2>5. First(n) = FlattenSeq([i \in 1 .. n |-> g[i]]) /\ First(n + 1) = FlattenSeq([i \in 1 .. n + 1 |-> g[i]])
    <3>1. [i \in 1 .. n |-> e[x[i]]] = [i \in 1 .. n |-> g[i]]
      BY <2>4
    <3>2. [i \in 1 .. n + 1 |-> e[x[i]]] = [i \in 1 .. n + 1 |-> g[i]]
      BY <2>4
    <3> QED
      BY <3>1, <3>2
  <2>6. First(n + 1) = First(n) \o own
    <3>1. FlattenSeq([i \in 1 .. n + 1 |-> g[i]]) = FlattenSeq([i \in 1 .. n |-> g[i]]) \o g[n + 1]
      BY <2>4, FlattenSeqNext
    <3>2. g[n + 1] = own
      BY <2>1, <2>4
    <3> HIDE DEF First
    <3> QED
      BY <2>5, <3>1, <3>2
  <2>7. First(n) \in Seq(Events(v)) /\ Ended(x, n, First(n))
    BY <1>6
  <2> HIDE DEF First
  <2>8. /\ size \in Nat /\ own \in Seq(Events(v)) /\ Len(own) = size + 1
        /\ own[size + 1] = IF x[n + 1] = JNull THEN ErrorBang ELSE Bang
        /\ \A p \in 1 .. size : own[p] \notin {Bang, ErrorBang}
    BY <1>3, <2>1, <2>2
  <2>9. Ends(x)[n + 1] = Ends(x)[n] + size + 1
    BY <1>4, <2>1, <2>2
  <2>10. PICK events : events = First(n)
    OBVIOUS
  <2>11. events \in Seq(Events(v)) /\ Ended(x, n, events)
    BY <2>7, <2>10
  <2>12. Ended(x, n + 1, events \o own)
    BY <2>8, <2>9, <2>11, OneMoreEnds
  <2>13. events \o own \in Seq(Events(v))
    BY <2>8, <2>11
  <2> QED
    BY <2>6, <2>10, <2>12, <2>13
<1>7. len \in T
  <2> HIDE DEF T
  <2> QED
    BY <1>5, <1>6, ByInduction
<1> QED
  BY <1>1, <1>7 DEF Mapped

(* What is output for a text: each value in it ends where Ends says.           *)
LEMMA SeriesOf ==
    ASSUME NEW t, Type(t) = "json", Reads(Cleaned(t))
    PROVE  Ended(Leaves(Of(Cleaned(t))), Len(Leaves(Of(Cleaned(t)))), Decoded(t))
<1>1. PICK c, v : c = Cleaned(t) /\ v = Of(c) /\ Reads(c) /\ Nests(v)
  BY DEF Reads
<1>2. Output(v) = Out(v)[v]
  BY DEF Output, Out, NextOut
<1>3. Decoded(t) = Among(v, Out(v))
  <2>1. t # Empty
    <3>1. Empty[1] # "json"
      BY DEF Empty
    <3>2. t[1] = "json"
      BY DEF Type
    <3> QED
      BY <3>1, <3>2
  <2> QED
    BY <1>1, <1>2, <2>1 DEF Decoded, Parses, Among
<1> DEFINE e == [w \in Leaf(v) |-> LeafEvents(w)]
<1>4. \A w \in Leaf(v) : e[w] = LeafEvents(w)
  OBVIOUS
<1>5. Leaves(v) \in Seq(Leaf(v)) /\ Among(v, Out(v)) = FlattenSeq(Mapped(e, Leaves(v)))
  BY <1>1, LeavesAreOutput
<1> HIDE DEF e
<1>6. Ended(Leaves(v), Len(Leaves(v)), FlattenSeq(Mapped(e, Leaves(v))))
  BY <1>1, <1>4, <1>5, LeavesEnd
<1> QED
  BY <1>1, <1>3, <1>5, <1>6

(* Whatever file [json-decode] gets, if it is JSON once the backslashes are    *)
(* removed, each value in its arrays is decoded as if it were alone: its lists *)
(* and its bang, or its error, before those of the next one, and nothing       *)
(* behind the last.                                                            *)
THEOREM SeriesDecoded == JsonSpec => []DecodeSeries
<1>1. DecodeSeries
  BY SeriesOf DEF DecodeSeries, Ended
<1> QED
  BY <1>1, PTL

--------------------------------------------------------------------------------
(* From [json-encode] to [json-decode]                                         *)

(* An object is output by jdec_output_object alone.                            *)
LEMMA ObjectIsOutput ==
    ASSUME NEW v, Type(v) = "object", Nests(v)
    PROVE  Output(v) = OutputObject(v)
<1>1. v \in Nested(v)
  <2>1. v \in Levels(v)[0] /\ 0 \in 0 .. Depth
    BY LevelsOf, TextsAssumption
  <2> QED
    BY <2>1 DEF Nested
<1>2. Output(v) = Out(v)[v]
  BY DEF Output, Out, NextOut
<1>3. Out(v)[v] = OutputValue(v, Out(v))
  BY <1>1, OutDefined
<1> QED
  BY <1>2, <1>3 DEF OutputValue

(* What is meant to be JSON is: an object that json-c reads, and in which no   *)
(* backslash is escaped, is taken for what it is, and any other text is a      *)
(* string, if it is not in braces.                                             *)
LEMMA JsonIsMeant ==
    ASSUME NEW v, IsStored(v), Lasts(v), Nests(Meant(v)), ~Doubled(Meant(v))
    PROVE  JsonOf(v) = Meant(v)
<1>1. CASE Type(v) # "text"
  BY <1>1 DEF IsStored, JsonOf, Meant
<1>2. CASE Type(v) = "text" /\ IsObject(Of(v))
  <2>1. PICK t, x : t = Of(v) /\ x = Of(t) /\ Type(t) = "json" /\ Type(x) = "object"
    BY <1>2 DEF IsObject
  <2>2. Meant(v) = x
    BY <1>2, <2>1 DEF Meant
  <2>3. Cleaned(t) = t
    BY <2>1, <2>2 DEF Cleaned, Altered
  <2>4. x # JNull
    BY <2>1 DEF JNull, Type
  <2>5. Parses(t) /\ IsObject(t) /\ InBraces(t)
    BY <2>1, <2>2, <2>4 DEF Parses, Reads, IsObject, InBraces
  <2> QED
    BY <1>2, <2>1, <2>2, <2>3, <2>5 DEF JsonOf
<1>3. CASE Type(v) = "text" /\ ~IsObject(Of(v))
  <2>1. ~InBraces(Of(v))
    BY <1>3 DEF InBraces, IsObject, Lasts
  <2> QED
    BY <1>3, <2>1 DEF JsonOf, Meant
<1> QED
  BY <1>1, <1>2, <1>3

(* It is shown as it was added.                                                *)
LEMMA AtomOfMeant ==
    ASSUME NEW v, IsStored(v), Lasts(v)
    PROVE  Atom(Meant(v)) = v
<1>1. v = <<Type(v), Of(v)>> /\ Type(v) \in {"float", "fraction", "text"}
  BY DEF IsStored
<1>2. CASE Type(v) = "float"
  <2>1. Meant(v) = JInt(Of(v)) /\ Clamped(Of(v)) = Of(v) /\ Rounded(Of(v)) = Of(v)
    BY <1>2 DEF Meant, IsStored, Lasts
  <2>2. Type(JInt(Of(v))) = "int" /\ Of(JInt(Of(v))) = Of(v)
    BY DEF Type, Of, JInt
  <2>3. Atom(JInt(Of(v))) = Float(Of(v))
    BY <2>1, <2>2 DEF Atom
  <2> QED
    BY <1>1, <1>2, <2>1, <2>3 DEF Float
<1>3. CASE Type(v) = "fraction"
  <2>1. Meant(v) = JDouble(Of(v)) /\ ToFloat(Of(v)) = v
    BY <1>3 DEF Meant, IsStored
  <2>2. Type(JDouble(Of(v))) = "double" /\ Of(JDouble(Of(v))) = Of(v)
    BY DEF Type, Of, JDouble
  <2> QED
    BY <2>1, <2>2 DEF Atom
<1>4. CASE Type(v) = "text"
  <2>1. PICK t : t = Of(v)
    OBVIOUS
  <2>2. v = Text(t)
    BY <1>1, <1>4, <2>1 DEF Text
  <2>3. CASE IsObject(t)
    <3>1. Meant(v) = Of(t) /\ Type(Of(t)) = "object" /\ v = Text(Json(Of(t)))
      BY <1>4, <2>1, <2>3 DEF Meant, IsObject, IsStored
    <3> QED
      BY <3>1 DEF Atom
  <2>4. CASE ~IsObject(t)
    <3>1. Meant(v) = JString(t)
      BY <1>4, <2>1, <2>4 DEF Meant
    <3>2. Type(JString(t)) = "string" /\ Of(JString(t)) = t
      BY DEF Type, Of, JString
    <3> QED
      BY <2>2, <3>1, <3>2 DEF Atom
  <2> QED
    BY <2>3, <2>4
<1> QED
  BY <1>1, <1>2, <1>3, <1>4

(* What a bang finds under a key are values that were stored there.            *)
LEMMA EntryValues ==
    ASSUME Arrays, TypeOK, ListInv, NEW k \in Keys, Present(k)
    PROVE  /\ 1 \in DOMAIN Entry(k).values
           /\ \A j \in DOMAIN Entry(k).values : Entry(k).values[j] \in Values
<1> DEFINE q == Visited(k)
<1>1. Entry(k).values = Texts(memory, q)
  <2>1. Entry(k) = [isArray |-> pair[k].isArray, values |-> Texts(memory, q)]
    BY EntryOf
  <2> QED
    BY <2>1
<1>2. Len(q) \in Nat /\ Len(q) >= 1 /\ \A j \in 1 .. Len(q) : q[j] \in Elements(Stored(k))
  BY VisitedType
<1>3. Elements(Stored(k)) \subseteq Nodes
  <2>1. Stored(k) \in Seq(Nodes)
    BY DEF ListInv, Chain
  <2> QED
    BY <2>1 DEF Elements
<1> HIDE DEF q
<1>4. /\ DOMAIN Texts(memory, q) = 1 .. Len(q)
      /\ \A j \in 1 .. Len(q) : Texts(memory, q)[j] = memory[q[j]].val
  BY DEF Texts
<1>5. \A j \in 1 .. Len(q) : memory[q[j]].val \in Values
  BY <1>2, <1>3 DEF TypeOK
<1> QED
  BY <1>1, <1>2, <1>4, <1>5

(* What a bang makes of a key.                                                 *)
Member(k) == LET e == Entry(k)
             IN  <<k, IF e.isArray THEN ArrayOf(e.values) ELSE JsonOf(e.values[1])>>

(* Of an entry whose JSON json-c would read without a change, a bang makes     *)
(* what is meant.                                                              *)
LEMMA EntryIsMeant ==
    ASSUME NEW e, e.isArray \in BOOLEAN, 1 \in DOMAIN e.values,
           \A j \in DOMAIN e.values : IsStored(e.values[j]) /\ Lasts(e.values[j]),
           Nests(MeantFor(e)), ~Doubled(MeantFor(e))
    PROVE  MeantFor(e) = IF e.isArray THEN ArrayOf(e.values) ELSE JsonOf(e.values[1])
<1>1. CASE e.isArray
  <2>1. PICK m : m = [j \in DOMAIN e.values |-> Meant(e.values[j])] /\ MeantFor(e) = JArray(m)
    BY <1>1 DEF MeantFor
  <2>2. Type(JArray(m)) = "array" /\ Of(JArray(m)) = m
    BY DEF JArray, Type, Of
  <2>3. Inner(JArray(m)) = Range(m)
    BY <2>2 DEF Inner
  <2>4. ASSUME NEW j \in DOMAIN e.values PROVE JsonOf(e.values[j]) = Meant(e.values[j])
    <3>1. m[j] \in Range(m) /\ m[j] = Meant(e.values[j])
      BY <2>1 DEF Range
    <3>2. Nests(m[j]) /\ ~Doubled(m[j])
      BY <2>1, <2>3, <3>1, InnerNests, InnerDoubled
    <3> QED
      BY <3>1, <3>2, JsonIsMeant
  <2>5. ArrayOf(e.values) = JArray(m)
    BY <2>1, <2>4 DEF ArrayOf
  <2> QED
    BY <1>1, <2>1, <2>5
<1>2. CASE ~e.isArray
  <2>1. MeantFor(e) = Meant(e.values[1])
    BY <1>2 DEF MeantFor
  <2> QED
    BY <1>2, <2>1, JsonIsMeant
<1> QED
  BY <1>1, <1>2

(* What a patch adds with [json-encode], as numbers and texts that JSON can    *)
(* tell apart and without backslashes that string_remove_backslashes takes     *)
(* away, comes out of [json-decode] key by key, as it was added and in its     *)
(* order, with one bang behind it.                                             *)
THEOREM DecoderShowsStore == ASSUME Arrays, ~Mixes PROVE JsonSpec => []DecodeShowsStore
<1>1. JsonInv => DecodeShowsStore
  <2> DEFINE e(i) == Entry(data[i])
             Shown(i) == IF e(i).isArray THEN Text(Json(MeantFor(e(i)))) ELSE e(i).values[1]
  <2> SUFFICES ASSUME TypeOK, ListInv, data # <<>>, Nests(Meaning), ~Doubled(Meaning),
                      \A i \in DOMAIN data : \A j \in DOMAIN e(i).values : Lasts(e(i).values[j])
               PROVE  Decoded(Encoded) = Append([i \in DOMAIN data |-> Pair(data[i], Shown(i))], Bang)
    BY DEF JsonInv, DecodeShowsStore
  <2>1. PICK len \in Nat : len = Len(data) /\ DOMAIN data = 1 .. len
    BY DEF TypeOK
  <2>2. \A i \in 1 .. len : data[i] \in Keys /\ Present(data[i])
    BY <2>1 DEF TypeOK, Elements
  <2>3. PICK ms : ms = [i \in 1 .. len |-> <<data[i], MeantFor(e(i))>>] /\ Meaning = JObject(ms)
    BY <2>1 DEF Meaning
  <2>4. Type(JObject(ms)) = "object" /\ Of(JObject(ms)) = ms /\ DOMAIN ms = 1 .. len /\ Len(ms) = len
    BY <2>3 DEF JObject, Type, Of
  <2>5. ASSUME NEW i \in 1 .. len
        PROVE  Member(data[i]) = ms[i] /\ ms[i][1] = data[i] /\ Atom(ms[i][2]) = Shown(i)
    <3>1. PICK k, n : k \in Keys /\ k = data[i] /\ Present(k) /\ n = Entry(k)
      BY <2>2
    <3>2. ms[i] = <<k, MeantFor(n)>> /\ ms[i][2] = MeantFor(n)
      BY <2>3, <3>1
    <3>3. MeantFor(n) \in Inner(JObject(ms))
      <4>1. ms[i][2] \in {ms[j][2] : j \in DOMAIN ms}
        BY <2>4
      <4> QED
        BY <2>4, <3>2, <4>1 DEF Inner
    <3>4. Nests(MeantFor(n)) /\ ~Doubled(MeantFor(n))
      BY <2>3, <3>3, InnerNests, InnerDoubled
    <3>5. 1 \in DOMAIN n.values /\ \A j \in DOMAIN n.values : IsStored(n.values[j])
      BY <3>1, EntryValues, JsonAssumption
    <3>6. \A j \in DOMAIN n.values : Lasts(n.values[j])
      BY <2>1, <3>1
    <3>7. n.isArray \in BOOLEAN
      <4>1. n = [isArray |-> pair[k].isArray, values |-> Texts(memory, Visited(k))]
        BY <3>1, EntryOf
      <4> QED
        BY <3>1, <4>1 DEF TypeOK
    <3>8. MeantFor(n) = IF n.isArray THEN ArrayOf(n.values) ELSE JsonOf(n.values[1])
      BY <3>4, <3>5, <3>6, <3>7, EntryIsMeant
    <3>9. Member(k) = ms[i]
      BY <3>1, <3>2, <3>8 DEF Member
    <3>10. Atom(MeantFor(n)) = IF n.isArray THEN Text(Json(MeantFor(n))) ELSE n.values[1]
      <4>1. CASE n.isArray
        <5>1. Type(MeantFor(n)) = "array"
          BY <4>1 DEF MeantFor, JArray, Type
        <5> QED
          BY <4>1, <5>1 DEF Atom
      <4>2. CASE ~n.isArray
        <5>1. MeantFor(n) = Meant(n.values[1])
          BY <4>2 DEF MeantFor
        <5> QED
          BY <3>5, <3>6, <4>2, <5>1, AtomOfMeant
      <4> QED
        BY <4>1, <4>2
    <3> QED
      BY <3>1, <3>2, <3>9, <3>10
  <2>6. Encoded = Json(JObject(ms))
    <3>1. [i \in DOMAIN data |-> Member(data[i])] = ms
      BY <2>1, <2>3, <2>5
    <3> QED
      BY <3>1 DEF Encoded, Member
  <2>7. Decoded(Json(JObject(ms))) = Output(JObject(ms))
    <3>1. Json(JObject(ms)) # Empty
      BY DEF Json, Empty
    <3>2. Type(Json(JObject(ms))) = "json" /\ Of(Json(JObject(ms))) = JObject(ms)
      BY DEF Type, Of, Json
    <3>3. JObject(ms) # JNull
      BY DEF JObject, JNull
    <3>4. Cleaned(Json(JObject(ms))) = Json(JObject(ms))
      BY <2>3, <3>2 DEF Cleaned, Altered
    <3> QED
      BY <2>3, <3>1, <3>2, <3>3, <3>4 DEF Decoded, Parses, Reads
  <2>8. Output(JObject(ms)) = OutputObject(JObject(ms))
    BY <2>3, <2>4, ObjectIsOutput
  <2> DEFINE lists == [i \in 1 .. len |-> Pair(data[i], Shown(i))]
  <2>9. OutputObject(JObject(ms)) = lists \o <<Bang>>
    <3>1. [i \in 1 .. len |-> Pair(ms[i][1], Atom(ms[i][2]))] = lists
      BY <2>5
    <3> HIDE DEF lists
    <3> QED
      BY <2>4, <3>1 DEF OutputObject
  <2>10. lists \o <<Bang>> = Append(lists, Bang)
    <3> DEFINE S == {lists[i] : i \in 1 .. len} \cup {Bang}
    <3>1. lists \in Seq(S) /\ Bang \in S
      OBVIOUS
    <3> HIDE DEF S, lists
    <3> QED
      BY <3>1, AppendIsConcat
  <2> QED
    BY <2>1, <2>6, <2>7, <2>8, <2>9, <2>10
<1> QED
  BY <1>1, JsonInvariant, PTL

--------------------------------------------------------------------------------
(* From the file back into a file                                              *)

(* What is stored of a value that the store can hold as it is.                 *)
Value(v) ==
    CASE Type(v) = "double" -> Fraction(Of(v))
      [] Type(v) = "object" -> Text(Json(v))
      [] Type(v) = "int"    -> Float(Of(v))
      [] Type(v) = "string" -> Text(Of(v))

Single(m, i) == [key |-> m[i][1], value |-> Value(m[i][2]), array |-> FALSE]

(* The members of such an object: no two with the same key, each added by one  *)
(* addition, kept as it is sent, and encoded as what it was in the file.       *)
Holdable(m) ==
    /\ IsSequence(m) /\ Len(m) >= 1
    /\ \A i, j \in 1 .. Len(m) : m[i][1] = m[j][1] => i = j
    /\ \A i \in 1 .. Len(m) :
          /\ m[i] = <<m[i][1], m[i][2]>> /\ m[i][1] \in Keys
          /\ Additions(m[i][1], m[i][2]) = <<Single(m, i)>>
          /\ Kept(Value(m[i][2])) = {Value(m[i][2])}
          /\ JsonOf(Value(m[i][2])) = m[i][2]

(* The first j members are in the store, and nothing else is; the others are   *)
(* still to be added, in their order.                                          *)
Loads(m, j) ==
    /\ Len(loading) = Len(m) - j
    /\ \A i \in 1 .. Len(m) - j : loading[i] = Single(m, j + i)
    /\ Len(data) = j
    /\ \A i \in 1 .. j :
          /\ data[i] = m[i][1]
          /\ Entry(m[i][1]) = [isArray |-> FALSE, values |-> <<Value(m[i][2])>>]

(* While a plain object is read, some of its members are in the store.         *)
ReadInv ==
    loading # <<>> /\ Plain(file) =>
        \E j \in 0 .. Len(Of(Of(file))) - 1 : Loads(Of(Of(file)), j)

(* A value that the store can hold as it is comes by one addition.             *)
LEMMA PlainMember ==
    ASSUME NEW k, NEW v, Nests(v),
           Type(v) \in {"int", "double", "string"} => v = <<Type(v), Of(v)>>,
           \/ Type(v) = "int" /\ Clamped(Of(v)) = Of(v) /\ Rounded(Of(v)) = Of(v)
           \/ Type(v) = "double" /\ ToFloat(Of(v)) = Fraction(Of(v))
           \/ Type(v) = "string" /\ ~InBraces(Of(v))
           \/ Type(v) = "object" /\ ~Doubled(v)
    PROVE  /\ Additions(k, v) = <<[key |-> k, value |-> Value(v), array |-> FALSE]>>
           /\ Kept(Value(v)) = {Value(v)}
           /\ JsonOf(Value(v)) = v
<1>1. CASE Type(v) = "double" /\ ToFloat(Of(v)) = Fraction(Of(v))
  <2>1. Value(v) = Fraction(Of(v))
    BY <1>1 DEF Value
  <2>2. Additions(k, v) = <<[key |-> k, value |-> Fraction(Of(v)), array |-> FALSE]>>
    BY <1>1 DEF Additions
  <2>3. Type(Fraction(Of(v))) = "fraction" /\ Of(Fraction(Of(v))) = Of(v)
    BY DEF Fraction, Type, Of
  <2>4. Kept(Fraction(Of(v))) = {Fraction(Of(v))}
    BY <2>3 DEF Kept
  <2>5. JsonOf(Fraction(Of(v))) = v
    <3>1. v = JDouble(Of(v))
      BY <1>1 DEF JDouble
    <3> QED
      BY <2>3, <3>1 DEF JsonOf
  <2> QED
    BY <2>1, <2>2, <2>4, <2>5
<1>2. CASE Type(v) = "object" /\ ~Doubled(v)
  <2>1. Value(v) = Text(Json(v))
    BY <1>2 DEF Value
  <2>2. Additions(k, v) = <<[key |-> k, value |-> Text(Json(v)), array |-> FALSE]>>
    BY <1>2 DEF Additions
  <2>3. /\ Type(Text(Json(v))) = "text" /\ Of(Text(Json(v))) = Json(v)
        /\ Type(Json(v)) = "json" /\ Of(Json(v)) = v
    BY DEF Text, Json, Type, Of
  <2>4. Kept(Text(Json(v))) = {Text(Json(v))}
    BY <2>3 DEF Kept
  <2>5. JsonOf(Text(Json(v))) = v
    <3>1. Cleaned(Json(v)) = Json(v)
      BY <1>2, <2>3 DEF Cleaned, Altered
    <3>2. v # JNull
      BY <1>2 DEF JNull, Type
    <3>3. Parses(Json(v)) /\ IsObject(Json(v)) /\ InBraces(Json(v))
      BY <1>2, <2>3, <3>2 DEF Parses, Reads, IsObject, InBraces
    <3> QED
      BY <2>3, <3>1, <3>3 DEF JsonOf
  <2> QED
    BY <2>1, <2>2, <2>4, <2>5
<1>3. CASE Type(v) = "int" /\ Clamped(Of(v)) = Of(v) /\ Rounded(Of(v)) = Of(v)
  <2> DEFINE n == Of(v)
  <2>1. Value(v) = Float(n)
    BY <1>3 DEF Value
  <2>2. Additions(k, v) = <<[key |-> k, value |-> Float(n), array |-> FALSE]>>
    BY <1>3 DEF Additions
  <2>3. Type(Float(n)) = "float" /\ Of(Float(n)) = n
    BY DEF Float, Type, Of
  <2>4. Kept(Float(n)) = {Float(n)}
    <3>1. Cast(n) = {n}
      BY <1>3 DEF Cast
    <3> QED
      BY <2>3, <3>1 DEF Kept
  <2>5. JsonOf(Float(n)) = v
    <3>1. v = JInt(n)
      BY <1>3 DEF JInt
    <3> QED
      BY <2>3, <3>1 DEF JsonOf
  <2> QED
    BY <2>1, <2>2, <2>4, <2>5
<1>4. CASE Type(v) = "string" /\ ~InBraces(Of(v))
  <2>1. Value(v) = Text(Of(v))
    BY <1>4 DEF Value
  <2>2. Additions(k, v) = <<[key |-> k, value |-> Text(Of(v)), array |-> FALSE]>>
    BY <1>4 DEF Additions
  <2>3. Type(Text(Of(v))) = "text" /\ Of(Text(Of(v))) = Of(v)
    BY DEF Text, Type, Of
  <2>4. Kept(Text(Of(v))) = {Text(Of(v))}
    BY <2>3 DEF Kept
  <2>5. JsonOf(Text(Of(v))) = v
    <3>1. v = JString(Of(v))
      BY <1>4 DEF JString
    <3> QED
      BY <1>4, <2>3, <3>1 DEF JsonOf
  <2> QED
    BY <1>4, <2>1, <2>2, <2>4, <2>5
<1> QED
  BY <1>1, <1>2, <1>3, <1>4

(* So a plain object can be held.                                              *)
LEMMA PlainHoldable ==
    ASSUME NEW t, WellFormed(t), Plain(t)
    PROVE  t = Json(JObject(Of(Of(t)))) /\ Holdable(Of(Of(t)))
<1> DEFINE m == Of(Of(t))
<1>1. /\ t = Json(JObject(m)) /\ IsSequence(m)
      /\ \A i, j \in 1 .. Len(m) : m[i][1] = m[j][1] => i = j
      /\ \A i \in 1 .. Len(m) :
            /\ m[i] = <<m[i][1], m[i][2]>> /\ m[i][1] \in Keys
            /\ Type(m[i][2]) \in {"int", "double", "string"} => m[i][2] = <<Type(m[i][2]), Of(m[i][2])>>
  BY DEF WellFormed, Plain
<1>2. Inner(Of(t)) = {m[i][2] : i \in DOMAIN m} /\ Inner(Of(t)) # {}
  BY DEF Inner, Plain, IsObject
<1>3. \A v \in Inner(Of(t)) :
          \/ Type(v) = "int" /\ Clamped(Of(v)) = Of(v) /\ Rounded(Of(v)) = Of(v)
          \/ Type(v) = "double" /\ ToFloat(Of(v)) = Fraction(Of(v))
          \/ Type(v) = "string" /\ ~InBraces(Of(v))
          \/ Type(v) = "object" /\ ~Doubled(v)
  BY DEF Plain
<1> HIDE DEF m
<1>4. DOMAIN m = 1 .. Len(m) /\ Len(m) \in Nat
  BY <1>1 DEF IsSequence
<1>5. Len(m) >= 1
  BY <1>2, <1>4
<1>6. ASSUME NEW i \in 1 .. Len(m)
      PROVE  /\ Additions(m[i][1], m[i][2]) = <<Single(m, i)>>
             /\ Kept(Value(m[i][2])) = {Value(m[i][2])}
             /\ JsonOf(Value(m[i][2])) = m[i][2]
  <2>1. m[i][2] \in Inner(Of(t))
    BY <1>2, <1>4
  <2>2. Nests(m[i][2])
    BY <2>1, InnerNests DEF Plain, Parses, Reads
  <2> QED
    BY <1>1, <1>3, <2>1, <2>2, PlainMember DEF Single
<1>7. Holdable(m)
  BY <1>1, <1>5, <1>6 DEF Holdable
<1> QED
  BY <1>1, <1>7 DEF m

(* A read begins with none of the members in the store.                        *)
LEMMA ReadBegins ==
    ASSUME NEW m, Holdable(m), file = Json(JObject(m)), BeginRead
    PROVE  Loads(m, 0)'
<1>1. PICK n \in Nat : n = Len(m)
  BY DEF Holdable, IsSequence
<1>2. Of(Of(file)) = m /\ Type(Of(file)) = "object"
  BY DEF Json, JObject, Of, Type
<1>3. loading' = FlattenSeq([i \in 1 .. n |-> Additions(m[i][1], m[i][2])]) /\ data' = <<>>
  BY <1>1, <1>2 DEF BeginRead, Clear
<1> DEFINE h == [i \in 1 .. n |-> Single(m, i)]
<1>4. [i \in 1 .. n |-> Additions(m[i][1], m[i][2])] = [i \in 1 .. n |-> <<h[i]>>]
  BY <1>1 DEF Holdable
<1>5. FlattenSeq([i \in 1 .. n |-> <<h[i]>>]) = [i \in 1 .. n |-> h[i]]
  <2> HIDE DEF h
  <2> QED
    BY FlattenSeqSingles
<1>6. Len(loading') = n /\ \A i \in 1 .. n : loading'[i] = Single(m, i)
  BY <1>3, <1>4, <1>5, SMTT(30)
<1> QED
  BY <1>1, <1>3, <1>6, SMTT(30) DEF Loads

(* Each addition puts the next member into the store, behind the others.       *)
LEMMA ReadContinues ==
    ASSUME Arrays, TypeOK, TypeOK', ListInv, FileInv, NEW m, Holdable(m),
           NEW j \in 0 .. Len(m) - 1, Loads(m, j), Load
    PROVE  Loads(m, j + 1)'
<1>1. PICK n \in Nat : n = Len(m) /\ j \in 0 .. n - 1
  BY DEF Holdable, IsSequence
<1> DEFINE k == m[j + 1][1]
           v == Value(m[j + 1][2])
<1>2. k \in Keys /\ Kept(v) = {v} /\ \A i \in 1 .. j : m[i][1] # k
  <2>1. j + 1 \in 1 .. Len(m) /\ \A i \in 1 .. j : i \in 1 .. Len(m) /\ i # j + 1
    BY <1>1
  <2>2. m[j + 1][1] \in Keys /\ Kept(Value(m[j + 1][2])) = {Value(m[j + 1][2])}
    BY <2>1 DEF Holdable
  <2>3. \A i \in 1 .. j : m[i][1] # m[j + 1][1]
    BY <2>1 DEF Holdable
  <2> QED
    BY <2>2, <2>3
<1>3. /\ loading \in Seq(Elements(loading)) /\ Len(loading) = n - j /\ loading' = Tail(loading)
      /\ \A i \in 1 .. n - j : loading[i] = Single(m, j + i)
      /\ data \in Seq(Keys) /\ Len(data) = j
      /\ \A i \in 1 .. j : /\ data[i] = m[i][1]
                           /\ Entry(m[i][1]) = [isArray |-> FALSE, values |-> <<Value(m[i][2])>>]
  BY <1>1, SequenceOfElements DEF FileInv, TypeOK, Load, Loads
<1>4. Head(loading) = Single(m, j + 1) /\ Head(loading) \in Elements(loading)
  <2>1. Head(loading) = loading[1] /\ 1 \in 1 .. n - j
    BY <1>1, <1>3
  <2> QED
    BY <1>1, <1>3, <2>1 DEF Elements
<1>5. v \in Values
  <2>1. Kept(Single(m, j + 1).value) \subseteq Values
    BY <1>4 DEF FileInv
  <2>2. Single(m, j + 1).value = v
    BY DEF Single
  <2> QED
    BY <1>2, <2>1, <2>2
<1>6. Add(k, v)
  <2>1. /\ Single(m, j + 1).key = k /\ Single(m, j + 1).value = v
        /\ Single(m, j + 1).array = FALSE
    BY DEF Single
  <2> HIDE DEF k, v
  <2> QED
    BY <1>2, <1>4, <2>1 DEF Load
<1> HIDE DEF k, v
<1>7. ~Present(k)
  <2>1. k \notin Elements(data)
    BY <1>2, <1>3 DEF Elements
  <2> QED
    BY <1>2, <2>1 DEF TypeOK
<1>8. /\ \A i \in Keys : Entry(i)' = IF i = k THEN [isArray |-> FALSE, values |-> <<v>>] ELSE Entry(i)
      /\ data' = Append(data, k)
  <2>1. PICK a \in Nodes \ allocated : memory' = Created(a, v) /\ Insert(k, a, FALSE)
    BY <1>6, <1>7 DEF Add
  <2>2. \A i \in Keys : Entry(i)' = IF i = k THEN [isArray |-> FALSE, values |-> <<v>>] ELSE Entry(i)
    BY <1>2, <1>5, <1>7, <2>1, NewEntry
  <2>3. data' = Append(data, k)
    BY <2>1 DEF Insert
  <2> QED
    BY <2>2, <2>3
<1>9. Len(loading') = n - (j + 1) /\ \A i \in 1 .. n - (j + 1) : loading'[i] = Single(m, (j + 1) + i)
  <2>1. Len(Tail(loading)) = n - (j + 1) /\ \A i \in 1 .. n - (j + 1) : Tail(loading)[i] = loading[i + 1]
    BY <1>1, <1>3
  <2>2. \A i \in 1 .. n - (j + 1) : i + 1 \in 1 .. n - j /\ j + (i + 1) = (j + 1) + i
    BY <1>1
  <2> QED
    BY <1>3, <2>1, <2>2
<1>10. Len(data') = j + 1 /\ data'[j + 1] = k /\ \A i \in 1 .. j : data'[i] = data[i]
  BY <1>1, <1>2, <1>3, <1>8
<1>11. ASSUME NEW i \in 1 .. j + 1
       PROVE  /\ data'[i] = m[i][1]
              /\ Entry(m[i][1])' = [isArray |-> FALSE, values |-> <<Value(m[i][2])>>]
  <2>1. CASE i = j + 1
    BY <1>2, <1>8, <1>10, <2>1 DEF k, v
  <2>2. CASE i # j + 1
    <3>1. i \in 1 .. j /\ m[i][1] \in Keys /\ m[i][1] # k
      BY <1>1, <1>2, <2>2 DEF Holdable
    <3> QED
      BY <1>3, <1>8, <1>10, <3>1
  <2> QED
    BY <2>1, <2>2
<1> QED
  BY <1>1, <1>9, <1>10, <1>11 DEF Loads

(* With all members in the store the object is what a bang outputs.            *)
Complete == \A m : Holdable(m) /\ Loads(m, Len(m)) => Encoded = Json(JObject(m))

(* It is in every state that is well typed.                                    *)
LEMMA LoadedIsComplete == TypeOK => Complete
<1> SUFFICES ASSUME TypeOK, NEW m, Holdable(m), Loads(m, Len(m))
             PROVE  Encoded = Json(JObject(m))
  BY DEF Complete
<1>1. PICK n \in Nat : n = Len(m)
  BY DEF Holdable, IsSequence
<1>2. DOMAIN data = 1 .. n /\ n >= 1 /\ data # <<>>
  BY <1>1 DEF TypeOK, Loads, Holdable
<1>3. ASSUME NEW i \in 1 .. n PROVE Member(data[i]) = m[i]
  <2>1. PICK e : e = Entry(m[i][1]) /\ e = [isArray |-> FALSE, values |-> <<Value(m[i][2])>>]
    BY <1>1 DEF Loads
  <2>2. data[i] = m[i][1] /\ m[i] = <<m[i][1], m[i][2]>> /\ JsonOf(Value(m[i][2])) = m[i][2]
    BY <1>1 DEF Loads, Holdable
  <2>3. ~e.isArray /\ e.values[1] = Value(m[i][2])
    BY <2>1
  <2> QED
    BY <2>1, <2>2, <2>3 DEF Member
<1>4. Encoded = Json(JObject([i \in 1 .. n |-> Member(data[i])]))
  BY <1>2 DEF Encoded, Member
<1>5. m = [i \in 1 .. n |-> m[i]]
  BY <1>1 DEF Holdable, IsSequence
<1> QED
  BY <1>3, <1>4, <1>5

(* Between two additions of a read no message is handled.                      *)
LEMMA OnlyLoads ==
    ASSUME loading # <<>>, JsonNext
    PROVE  Load
  BY DEF JsonNext, AddSent, ArraySent, ClearSent, MayAdd, BeginRead, Write

(* ReadInv goes from step to step.                                             *)
LEMMA ReadStep ==
    ASSUME Arrays, TypeOK, TypeOK', ListInv, FileInv, ReadInv, [JsonNext]_jsonVars
    PROVE  ReadInv'
<1> SUFFICES ASSUME loading' # <<>>, Plain(file)' PROVE ReadInv'
  BY DEF ReadInv
<1> DEFINE m == Of(Of(file))
<1>1. CASE BeginRead
  <2>1. file' = file /\ Plain(file)
    BY <1>1 DEF BeginRead, Plain
  <2>2. file = Json(JObject(m)) /\ Holdable(m)
    BY <2>1, PlainHoldable DEF FileInv
  <2>3. PICK s : s = m
    OBVIOUS
  <2>4. Loads(s, 0)'
    BY <1>1, <2>2, <2>3, ReadBegins
  <2>5. 0 \in 0 .. Len(s) - 1
    BY <2>2, <2>3 DEF Holdable, IsSequence
  <2> QED
    BY <2>1, <2>3, <2>4, <2>5 DEF ReadInv
<1>2. CASE Load
  <2>1. file' = file /\ Plain(file) /\ loading # <<>>
    BY <1>2 DEF Load, Plain
  <2>2. Holdable(m)
    BY <2>1, PlainHoldable DEF FileInv
  <2>3. PICK s : s = m
    OBVIOUS
  <2>4. PICK j \in 0 .. Len(s) - 1 : Loads(s, j + 1)'
    <3>1. PICK j \in 0 .. Len(s) - 1 : Loads(s, j)
      BY <2>1, <2>3 DEF ReadInv
    <3> QED
      BY <1>2, <2>2, <2>3, <3>1, ReadContinues
  <2>5. j + 1 \in 0 .. Len(s) - 1
    <3>1. Len(loading') = Len(s) - (j + 1)
      BY <2>4 DEF Loads
    <3>2. loading' \in Seq(Elements(loading'))
      BY <1>2, LoadKeepsFile, SequenceOfElements DEF FileInv
    <3>3. Len(loading') # 0
      BY <3>2
    <3>4. Len(s) \in Nat
      BY <2>2, <2>3 DEF Holdable, IsSequence
    <3> QED
      BY <3>1, <3>3, <3>4
  <2> QED
    BY <2>1, <2>3, <2>4, <2>5 DEF ReadInv
<1>3. CASE JsonNext /\ ~BeginRead /\ ~Load
  <2>1. loading = <<>>
    BY <1>3, OnlyLoads
  <2>2. loading' = loading
    BY <1>3 DEF JsonNext, AddSent, ArraySent, ClearSent, MayAdd, Write
  <2> QED
    BY <2>1, <2>2
<1>4. CASE UNCHANGED jsonVars
  <2>1. UNCHANGED vars /\ loading' = loading /\ file' = file
    BY <1>4 DEF jsonVars
  <2>2. Plain(file)
    BY <2>1 DEF Plain
  <2>3. PICK s : s = m
    OBVIOUS
  <2>4. PICK j \in 0 .. Len(s) - 1 : Loads(s, j)
    BY <2>1, <2>2, <2>3 DEF ReadInv
  <2>5. data' = data /\ \A k : Entry(k)' = Entry(k)
    BY <2>1 DEF vars, Entry, Present, List
  <2>6. Loads(s, j)'
    BY <2>1, <2>4, <2>5 DEF Loads
  <2> QED
    BY <2>1, <2>3, <2>6 DEF ReadInv
<1> QED
  BY <1>1, <1>2, <1>3, <1>4

(* Whatever the store held, when the read of a plain object ends a bang outputs *)
(* that object: all its members, in the order of the file, and nothing else.   *)
THEOREM ReadsBack == ASSUME Arrays, ~Mixes PROVE JsonSpec => ReadBack
<1>1. JsonInit => ReadInv
  BY DEF JsonInit, ReadInv
<1>2. JsonInv /\ JsonInv' /\ ReadInv /\ [JsonNext]_jsonVars => ReadInv'
  BY ReadStep DEF JsonInv
<1>3. JsonInv => Complete
  BY LoadedIsComplete DEF JsonInv
<1>4. JsonInv /\ JsonInv' /\ ReadInv /\ Complete' /\ [JsonNext]_jsonVars
          => [ReadEnds /\ Plain(file) => Encoded' = file]_jsonVars
  <2> SUFFICES ASSUME JsonInv, JsonInv', ReadInv, Complete', [JsonNext]_jsonVars, ReadEnds, Plain(file)
               PROVE  Encoded' = file
    OBVIOUS
  <2>1. Load
    <3>1. JsonNext /\ loading # <<>>
      BY DEF ReadEnds, jsonVars
    <3> QED
      BY <3>1, OnlyLoads
  <2>2. file = Json(JObject(Of(Of(file)))) /\ Holdable(Of(Of(file)))
    BY PlainHoldable DEF JsonInv, FileInv
  <2>3. PICK s : s = Of(Of(file))
    OBVIOUS
  <2>4. PICK j \in 0 .. Len(s) - 1 : Loads(s, j + 1)'
    <3>1. PICK j \in 0 .. Len(s) - 1 : Loads(s, j)
      BY <2>3 DEF ReadEnds, ReadInv
    <3> QED
      BY <2>1, <2>2, <2>3, <3>1, ReadContinues DEF JsonInv
  <2>5. j + 1 = Len(s)
    <3>1. Len(loading') = Len(s) - (j + 1) /\ Len(loading') = 0
      BY <2>4 DEF Loads, ReadEnds
    <3>2. Len(s) \in Nat
      BY <2>2, <2>3 DEF Holdable, IsSequence
    <3> QED
      BY <3>1, <3>2
  <2>6. Loads(s, Len(s))'
    BY <2>4, <2>5
  <2> QED
    BY <2>2, <2>3, <2>6 DEF Complete
<1> QED
  BY <1>1, <1>2, <1>3, <1>4, JsonInvariant, PTL DEF JsonSpec, ReadBack
=============================================================================
