-------------------------------- MODULE KvpProofs --------------------------------
(***************************************************************************)
(* Proofs about the key-value store, for any keys, values and heap: type   *)
(* correctness for both builds, and, for the build of [urlparams] (without *)
(* ARRAY) and for that of [json-encode] (with ARRAY, as long as no key is  *)
(* sent with both add and array), the ownership of memory and the          *)
(* refinement of Store.                                                    *)
(***************************************************************************)
EXTENDS Kvp, SequenceLemmas

--------------------------------------------------------------------------------
(* Sequences                                                                   *)

(* Appending a new key keeps a sequence free of repetitions and adds the key   *)
(* to its elements (kvp_insert after HASH_FIND_STR found nothing).             *)
LEMMA AppendElement ==
    ASSUME NEW S, NEW s \in Seq(S), NEW k \in S
    PROVE  /\ Append(s, k) \in Seq(S)
           /\ Elements(Append(s, k)) = Elements(s) \cup {k}
           /\ (\A i, j \in 1 .. Len(s) : s[i] = s[j] => i = j) /\ k \notin Elements(s)
                 => \A i, j \in 1 .. Len(Append(s, k)) :
                        Append(s, k)[i] = Append(s, k)[j] => i = j
<1>1. /\ Append(s, k) \in Seq(S) /\ Len(s) \in Nat
      /\ Len(Append(s, k)) = Len(s) + 1 /\ Append(s, k)[Len(s) + 1] = k
      /\ \A i \in 1 .. Len(s) : Append(s, k)[i] = s[i]
  OBVIOUS
<1>2. Elements(Append(s, k)) = Elements(s) \cup {k}
  <2>1. 1 .. Len(s) + 1 = 1 .. Len(s) \cup {Len(s) + 1}
    BY <1>1
  <2> QED
    BY <1>1, <2>1 DEF Elements
<1>3. ASSUME \A i, j \in 1 .. Len(s) : s[i] = s[j] => i = j,
             k \notin Elements(s),
             NEW i \in 1 .. Len(s) + 1, NEW j \in 1 .. Len(s) + 1,
             Append(s, k)[i] = Append(s, k)[j]
      PROVE  i = j
  <2>1. CASE i = Len(s) + 1 /\ j # Len(s) + 1
    <3>1. j \in 1 .. Len(s)
      BY <2>1, <1>1
    <3>2. s[j] = k
      BY <3>1, <2>1, <1>1, <1>3
    <3> QED
      BY <3>1, <3>2, <1>3 DEF Elements
  <2>2. CASE j = Len(s) + 1 /\ i # Len(s) + 1
    <3>1. i \in 1 .. Len(s)
      BY <2>2, <1>1
    <3>2. s[i] = k
      BY <3>1, <2>2, <1>1, <1>3
    <3> QED
      BY <3>1, <3>2, <1>3 DEF Elements
  <2>3. CASE i # Len(s) + 1 /\ j # Len(s) + 1
    <3>1. i \in 1 .. Len(s) /\ j \in 1 .. Len(s)
      BY <2>3, <1>1
    <3> QED
      BY <3>1, <1>1, <1>3
  <2> QED
    BY <2>1, <2>2, <2>3
<1> QED
  BY <1>1, <1>2, <1>3

--------------------------------------------------------------------------------
(* Type correctness, for both builds                                           *)

(* Putting a new value under a new key keeps the table consistent.             *)
LEMMA InsertTypes ==
    ASSUME TypeOK, NEW k \in Keys, ~Present(k), NEW n \in Nodes, NEW v \in Values,
           NEW array \in BOOLEAN, array => Arrays,
           memory' = Created(n, v), Insert(k, n, array)
    PROVE  TypeOK'
<1>0. n # Null /\ pair \in [Keys -> [value : Nodes \cup {Null}, last : Nodes \cup {Null},
                                    isArray : BOOLEAN]]
  BY KvpAssumption DEF TypeOK
<1>1. pair' \in [Keys -> [value : Nodes \cup {Null}, last : Nodes \cup {Null}, isArray : BOOLEAN]]
  BY DEF TypeOK, Insert
<1>2. /\ pair'[k] = [value |-> n, last |-> n, isArray |-> array]
      /\ \A j \in Keys : j # k => pair'[j] = pair[j]
  BY DEF TypeOK, Insert
<1>3. memory' \in [Nodes -> [val : Values, next : Nodes \cup {Null}]]
  BY DEF TypeOK, Created
<1>4. /\ data \in Seq(Keys) /\ data' = Append(data, k) /\ k \notin Elements(data)
      /\ \A i, j \in 1 .. Len(data) : data[i] = data[j] => i = j
  BY DEF TypeOK, Insert
<1>5. /\ data' \in Seq(Keys)
      /\ Elements(data') = Elements(data) \cup {k}
      /\ \A i, j \in 1 .. Len(data') : data'[i] = data'[j] => i = j
  <2>1. /\ Append(data, k) \in Seq(Keys)
        /\ Elements(Append(data, k)) = Elements(data) \cup {k}
        /\ \A i, j \in 1 .. Len(Append(data, k)) :
              Append(data, k)[i] = Append(data, k)[j] => i = j
    BY <1>4, AppendElement, Zenon
  <2> QED
    BY <1>4, <2>1
<1>6. \A j \in Keys : Present(j)' <=> j \in Elements(data')
  <2> TAKE j \in Keys
  <2>1. CASE j = k
    BY <2>1, <1>0, <1>2, <1>5 DEF Present
  <2>2. CASE j # k
    BY <2>2, <1>2, <1>5 DEF Present, TypeOK
  <2> QED
    BY <2>1, <2>2
<1>7. \A j \in Keys : (pair'[j].isArray => Arrays) /\ (~Present(j)' => pair'[j] = NoPair)
  BY <1>0, <1>2 DEF Present, TypeOK
<1>8. allocated' \subseteq Nodes
  BY DEF TypeOK, Insert
<1> QED
  BY <1>1, <1>3, <1>5, <1>6, <1>7, <1>8 DEF TypeOK, Elements

(* So does replacing the value of a key.                                       *)
LEMMA ReplaceTypes ==
    ASSUME TypeOK, NEW k \in Keys, Present(k), NEW n \in Nodes, NEW v \in Values,
           NEW array \in BOOLEAN, array => Arrays,
           memory' = Created(n, v), Replace(k, n, array)
    PROVE  TypeOK'
<1>0. n # Null
  BY KvpAssumption
<1>1. pair' \in [Keys -> [value : Nodes \cup {Null}, last : Nodes \cup {Null}, isArray : BOOLEAN]]
  BY DEF TypeOK, Replace
<1>2. /\ pair'[k].value = n /\ pair'[k].isArray = array
      /\ \A j \in Keys : j # k => pair'[j] = pair[j]
  BY DEF TypeOK, Replace
<1>3. memory' \in [Nodes -> [val : Values, next : Nodes \cup {Null}]]
  BY DEF TypeOK, Created
<1>4. data' = data /\ allocated' \subseteq Nodes
  BY DEF TypeOK, Replace
<1>5. \A j \in Keys : Present(j)' <=> Present(j)
  BY <1>0, <1>2 DEF Present
<1>6. \A j \in Keys : (pair'[j].isArray => Arrays) /\ (~Present(j)' => pair'[j] = NoPair)
  BY <1>0, <1>2, <1>5 DEF Present, TypeOK
<1> QED
  BY <1>1, <1>3, <1>4, <1>5, <1>6 DEF TypeOK, Elements

(* So does appending to an array.                                              *)
LEMMA AppendTypes ==
    ASSUME TypeOK, NEW k \in Keys, Present(k), NEW n \in Nodes, NEW v \in Values,
           AddLast(k, n, v)
    PROVE  TypeOK'
<1>1. pair' \in [Keys -> [value : Nodes \cup {Null}, last : Nodes \cup {Null}, isArray : BOOLEAN]]
  BY DEF TypeOK, AddLast
<1>2. \A j \in Keys : pair'[j].value = pair[j].value /\ pair'[j].isArray = pair[j].isArray
  BY DEF TypeOK, AddLast
<1>3. \A j \in Keys : j # k => pair'[j] = pair[j]
  BY DEF TypeOK, AddLast
<1>4. memory' \in [Nodes -> [val : Values, next : Nodes \cup {Null}]]
  BY DEF TypeOK, Created, AddLast
<1>5. data' = data /\ allocated' \subseteq Nodes
  BY DEF TypeOK, AddLast
<1> QED
  BY <1>1, <1>2, <1>3, <1>4, <1>5 DEF TypeOK, Elements, Present

(* So does every step.                                                         *)
LEMMA TypeStep ==
    ASSUME TypeOK, [Next]_vars
    PROVE  TypeOK'
<1>1. CASE Clear
  <2>1. /\ data' \in Seq(Keys) /\ Elements(data') = {}
        /\ \A i, j \in 1 .. Len(data') : data'[i] = data'[j] => i = j
    BY <1>1 DEF Clear, Elements
  <2>2. \A k \in Keys : pair'[k] = NoPair /\ ~Present(k)'
    BY <1>1 DEF Clear, Present, NoPair
  <2> QED
    BY <1>1, <2>1, <2>2 DEF Clear, TypeOK, NoPair, Elements
<1>2. ASSUME NEW k \in Keys, NEW v \in Values, Add(k, v) PROVE TypeOK'
  <2>1. PICK n \in Nodes \ allocated :
          /\ memory' = Created(n, v)
          /\ IF Present(k) THEN Replace(k, n, FALSE) ELSE Insert(k, n, FALSE)
    BY <1>2 DEF Add
  <2> QED
    BY <2>1, InsertTypes, ReplaceTypes
<1>3. ASSUME NEW k \in Keys, NEW v \in Values, AddToArray(k, v) PROVE TypeOK'
  <2>1. PICK n \in Nodes \ allocated :
          \/ ~Present(k) /\ memory' = Created(n, v) /\ Insert(k, n, TRUE)
          \/ Present(k) /\ pair[k].isArray /\ AddLast(k, n, v)
          \/ Present(k) /\ ~pair[k].isArray /\ memory' = Created(n, v) /\ Replace(k, n, TRUE)
    BY <1>3 DEF AddToArray
  <2>2. Arrays
    BY <1>3 DEF AddToArray
  <2> QED
    BY <2>1, <2>2, InsertTypes, ReplaceTypes, AppendTypes
<1>4. CASE UNCHANGED vars
  BY <1>4 DEF TypeOK, vars, Present, Elements
<1> QED
  BY <1>1, <1>2, <1>3, <1>4 DEF Next

(* The empty store is well typed.                                              *)
LEMMA InitTypes == Init => TypeOK
<1> SUFFICES ASSUME Init PROVE TypeOK
  OBVIOUS
<1>1. /\ data \in Seq(Keys) /\ Elements(data) = {}
      /\ \A i, j \in 1 .. Len(data) : data[i] = data[j] => i = j
  BY DEF Init, Elements
<1>2. \A k \in Keys : pair[k] = NoPair /\ ~Present(k)
  BY DEF Init, Present, NoPair
<1> QED
  BY <1>1, <1>2 DEF Init, TypeOK, NoPair

(* Every reachable state of the store is well typed, whatever add, array and   *)
(* clear messages come, and however the allocator hands out addresses: pairs   *)
(* and table agree, and no key is in the table twice.                          *)
THEOREM KvpTypeCorrect == Spec => []TypeOK
<1>1. TypeOK /\ [Next]_vars => TypeOK'
  BY TypeStep
<1> QED
  BY <1>1, InitTypes, PTL DEF Spec

--------------------------------------------------------------------------------
(* Ownership of memory without ARRAY: every address in use is the value of     *)
(* exactly one key.                                                            *)

OwnInv ==
    /\ allocated = {pair[k].value : k \in {j \in Keys : Present(j)}}
    /\ \A j, k \in Keys : Present(j) /\ Present(k) /\ pair[j].value = pair[k].value => j = k

(* Without ARRAY a value is not followed.                                      *)
LEMMA SingleValue ==
    ASSUME ~Arrays, NEW mem, NEW first
    PROVE  List(mem, first) = <<first>> /\ Elements(List(mem, first)) = {first}
<1>1. List(mem, first) = <<first>>
  BY DEF List
<1>2. Elements(<<first>>) = {first}
  BY DEF Elements
<1> QED
  BY <1>1, <1>2

(* Every message keeps one address for each key.                               *)
LEMMA OwnStep ==
    ASSUME ~Arrays, TypeOK, OwnInv, [Next]_vars
    PROVE  OwnInv'
<1>1. CASE Clear
  <2>1. \A k \in Keys : ~Present(k)'
    BY <1>1 DEF Clear, Present, NoPair
  <2>2. \A k \in Keys : Elements(List(memory, pair[k].value)) = {pair[k].value}
    BY SingleValue
  <2>3. allocated' = allocated \ UNION {{pair[k].value} : k \in {j \in Keys : Present(j)}}
    BY <1>1, <2>2 DEF Clear
  <2>4. allocated' = {}
    <3>1. UNION {{pair[k].value} : k \in {j \in Keys : Present(j)}}
            = {pair[k].value : k \in {j \in Keys : Present(j)}}
      OBVIOUS
    <3> QED
      BY <2>3, <3>1 DEF OwnInv
  <2> QED
    BY <2>1, <2>4 DEF OwnInv
<1>2. ASSUME NEW k \in Keys, NEW v \in Values, Add(k, v) PROVE OwnInv'
  <2>1. PICK n \in Nodes \ allocated :
            IF Present(k) THEN Replace(k, n, FALSE) ELSE Insert(k, n, FALSE)
    BY <1>2 DEF Add
  <2>2. n # Null
    BY KvpAssumption
  <2>3. /\ pair'[k].value = n
        /\ \A j \in Keys \ {k} : pair'[j] = pair[j]
    BY <2>1 DEF TypeOK, Insert, Replace
  <2>4. /\ Present(k)'
        /\ \A j \in Keys \ {k} : (Present(j)' <=> Present(j)) /\ pair'[j].value = pair[j].value
    BY <2>2, <2>3 DEF Present
  <2>5. \A j \in Keys : Present(j) => pair[j].value \in allocated /\ pair[j].value # n
    BY DEF OwnInv
  <2>6. allocated' = {pair'[i].value : i \in {j \in Keys : Present(j)'}}
    <3>1. CASE Present(k)
      <4>1. allocated' = (allocated \cup {n}) \ {pair[k].value}
        BY <2>1, <3>1, SingleValue DEF Replace
      <4>2. \A a : a \in allocated' <=> \E i \in Keys : Present(i)' /\ a = pair'[i].value
        BY <3>1, <4>1, <2>3, <2>4, <2>5 DEF OwnInv
      <4> QED
        BY <4>2
    <3>2. CASE ~Present(k)
      <4>1. allocated' = allocated \cup {n}
        BY <2>1, <3>2 DEF Insert
      <4>2. \A a : a \in allocated' <=> \E i \in Keys : Present(i)' /\ a = pair'[i].value
        BY <3>2, <4>1, <2>3, <2>4, <2>5 DEF OwnInv
      <4> QED
        BY <4>2
    <3> QED
      BY <3>1, <3>2
  <2>7. \A i, j \in Keys : Present(i)' /\ Present(j)' /\ pair'[i].value = pair'[j].value => i = j
    BY <2>3, <2>4, <2>5 DEF OwnInv
  <2> QED
    BY <2>6, <2>7 DEF OwnInv
<1>3. ASSUME NEW k \in Keys, NEW v \in Values, AddToArray(k, v) PROVE FALSE
  BY <1>3 DEF AddToArray
<1>4. CASE UNCHANGED vars
  BY <1>4 DEF OwnInv, vars, Present
<1> QED
  BY <1>1, <1>2, <1>3, <1>4 DEF Next

(* So it is in every reachable state.                                          *)
LEMMA OwnInvariant == ASSUME ~Arrays PROVE Spec => []OwnInv
<1>1. Init => OwnInv
  BY DEF Init, OwnInv, Present, NoPair
<1>2. TypeOK /\ OwnInv /\ [Next]_vars => OwnInv'
  BY OwnStep
<1> QED
  BY <1>1, <1>2, KvpTypeCorrect, PTL DEF Spec

(* In [urlparams] the memory in use is always exactly that of the stored       *)
(* values, each owned by one key: overwriting and clearing neither lose a      *)
(* value nor free one that is still stored.                                    *)
THEOREM UrlparamsOwnsMemory == ASSUME ~Arrays PROVE Spec => []MemoryOwned
<1>1. OwnInv => MemoryOwned
  <2> SUFFICES ASSUME OwnInv PROVE MemoryOwned
    OBVIOUS
  <2>1. \A k \in Keys : Elements(List(memory, pair[k].value)) = {pair[k].value}
    BY SingleValue
  <2>2. UNION {Elements(List(memory, pair[k].value)) : k \in {j \in Keys : Present(j)}}
          = {pair[k].value : k \in {j \in Keys : Present(j)}}
    BY <2>1
  <2>3. \A j, k \in Keys : Present(j) /\ Present(k) /\ j # k =>
           Elements(List(memory, pair[j].value)) \cap Elements(List(memory, pair[k].value)) = {}
    BY <2>1 DEF OwnInv
  <2> QED
    BY <2>2, <2>3 DEF OwnInv, MemoryOwned
<1> QED
  BY <1>1, OwnInvariant, PTL

--------------------------------------------------------------------------------
(* Refinement without ARRAY                                                    *)

(* What a bang reads of a key is its value, or nothing.                        *)
LEMMA SingleEntry ==
    ASSUME ~Arrays, TypeOK, NEW k \in Keys
    PROVE  Entry(k) = IF Present(k)
                      THEN [isArray |-> FALSE, values |-> <<memory[pair[k].value].val>>]
                      ELSE Content!Nothing
<1>1. ~pair[k].isArray /\ pair[k].isArray = FALSE
  BY DEF TypeOK
<1>2. [i \in DOMAIN <<pair[k].value>> |-> memory[<<pair[k].value>>[i]].val]
        = <<memory[pair[k].value].val>>
  OBVIOUS
<1> QED
  BY <1>1, <1>2 DEF Entry, Content!Nothing

(* A step that gives key k the value at an address that was free changes what  *)
(* is read of k, and of k only.                                                *)
LEMMA OnlyOneEntry ==
    ASSUME ~Arrays, TypeOK, TypeOK', OwnInv, NEW k \in Keys, NEW v \in Values, Add(k, v)
    PROVE  \A j \in Keys : Entry(j)' = IF j = k THEN [isArray |-> FALSE, values |-> <<v>>]
                                               ELSE Entry(j)
<1>1. PICK n \in Nodes \ allocated :
          /\ memory' = Created(n, v)
          /\ IF Present(k) THEN Replace(k, n, FALSE) ELSE Insert(k, n, FALSE)
  BY DEF Add
<1>2. n # Null
  BY KvpAssumption
<1>3. /\ pair'[k].value = n
      /\ \A j \in Keys \ {k} : pair'[j] = pair[j]
  BY <1>1 DEF TypeOK, Insert, Replace
<1>4. /\ memory'[n].val = v
      /\ \A m \in Nodes \ {n} : memory'[m] = memory[m]
  BY <1>1 DEF TypeOK, Created
<1>5. \A j \in Keys : Entry(j)' = IF Present(j)'
                                  THEN [isArray |-> FALSE, values |-> <<memory'[pair'[j].value].val>>]
                                  ELSE Content!Nothing
  <2> TAKE j \in Keys
  <2>1. ~pair'[j].isArray /\ pair'[j].isArray = FALSE
    BY DEF TypeOK
  <2>2. [i \in DOMAIN <<pair'[j].value>> |-> memory'[<<pair'[j].value>>[i]].val]
          = <<memory'[pair'[j].value].val>>
    OBVIOUS
  <2> QED
    BY <2>1, <2>2 DEF Entry, Content!Nothing
<1>6. ASSUME NEW j \in Keys
      PROVE  Entry(j)' = IF j = k THEN [isArray |-> FALSE, values |-> <<v>>] ELSE Entry(j)
  <2>1. CASE j = k
    BY <2>1, <1>2, <1>3, <1>4, <1>5 DEF Present
  <2>2. CASE j # k
    <3>1. pair'[j] = pair[j] /\ (Present(j)' <=> Present(j))
      BY <2>2, <1>3 DEF Present
    <3>2. Present(j) => pair[j].value \in Nodes \ {n}
      BY DEF OwnInv, TypeOK
    <3>3. Present(j) => memory'[pair'[j].value].val = memory[pair[j].value].val
      BY <3>1, <3>2, <1>4
    <3> QED
      BY <2>2, <3>1, <3>3, <1>5, SingleEntry
  <2> QED
    BY <2>1, <2>2
<1> QED
  BY <1>6

(* [urlparams] keeps what Store promises, for any keys, any values and any     *)
(* allocator: keys stay in the order in which they were added, a new value     *)
(* overwrites the old one in its place, other keys stay as they are, and clear *)
(* empties the store.                                                          *)
THEOREM UrlparamsImplementsStore == ASSUME ~Arrays PROVE Spec => StoreImplemented
<1> DEFINE entries == [k \in Keys |-> Entry(k)]
<1>1. Init => Content!Init
  <2> SUFFICES ASSUME Init PROVE Content!Init
    OBVIOUS
  <2>1. \A k \in Keys : ~Present(k)
    BY DEF Init, Present, NoPair
  <2>2. \A k \in Keys : Entry(k) = Content!Nothing
    BY <2>1 DEF Entry, Content!Nothing
  <2> QED
    BY <2>2 DEF Init, Content!Init
<1>2. TypeOK /\ TypeOK' /\ OwnInv /\ [Next]_vars => [Content!Next]_<<data, entries>>
  <2> SUFFICES ASSUME TypeOK, TypeOK', OwnInv, [Next]_vars
               PROVE  [Content!Next]_<<data, entries>>
    OBVIOUS
  <2>1. CASE Clear
    <3>1. \A k \in Keys : ~Present(k)'
      BY <2>1 DEF Clear, Present, NoPair
    <3>2. \A k \in Keys : Entry(k)' = Content!Nothing
      BY <3>1 DEF Entry, Content!Nothing
    <3> QED
      BY <2>1, <3>2 DEF Clear, Content!Clear, Content!Next
  <2>2. ASSUME NEW k \in Keys, NEW v \in Values, Add(k, v)
        PROVE  Content!Add(k, v)
    <3>1. \A j \in Keys : Entry(j)' = IF j = k THEN [isArray |-> FALSE, values |-> <<v>>]
                                               ELSE Entry(j)
      BY <2>2, OnlyOneEntry
    <3>2. entries' = [entries EXCEPT ![k] = [isArray |-> FALSE, values |-> <<v>>]]
      BY <3>1
    <3>3. entries[k] = Content!Nothing <=> ~Present(k)
      BY SingleEntry DEF Content!Nothing
    <3>4. data' = IF Present(k) THEN data ELSE Append(data, k)
      BY <2>2 DEF Add, Insert, Replace
    <3> QED
      BY <3>2, <3>3, <3>4 DEF Content!Add, Content!Set
  <2>3. ASSUME NEW k \in Keys, NEW v \in Values, AddToArray(k, v) PROVE FALSE
    BY <2>3 DEF AddToArray
  <2>4. CASE UNCHANGED vars
    BY <2>4 DEF vars, Entry, Present, List
  <2> QED
    BY <2>1, <2>2, <2>3, <2>4 DEF Next, Content!Next
<1> QED
  BY <1>1, <1>2, KvpTypeCorrect, OwnInvariant, PTL DEF Spec, StoreImplemented, Content!Spec
--------------------------------------------------------------------------------
(* Following a list                                                            *)

(* The addresses s form a list: each is followed by the next, none comes twice,*)
(* and the last is followed by NULL.                                           *)
Chain(mem, s) ==
    /\ s \in Seq(Nodes) /\ s # <<>>
    /\ \A i \in 1 .. Len(s) - 1 : mem[s[i]].next = s[i + 1]
    /\ mem[s[Len(s)]].next = Null
    /\ \A i, j \in 1 .. Len(s) : s[i] = s[j] => i = j

(* A list is no longer than the memory: its turns below are enough.            *)
LEMMA ChainBound ==
    ASSUME NEW mem, NEW s, Chain(mem, s)
    PROVE  Len(s) \in Nat /\ Len(s) >= 1 /\ Len(s) <= Cardinality(Nodes) /\ Cardinality(Nodes) \in Nat
<1>1. s \in Seq(Nodes) /\ Len(s) \in Nat /\ Len(s) >= 1
  BY DEF Chain
<1>2. s \in Injection(1 .. Len(s), Nodes)
  BY <1>1 DEF Chain, Injection, IsInjective
<1>3. Cardinality(1 .. Len(s)) <= Cardinality(Nodes)
  BY <1>2, KvpAssumption, FS_Injection
<1>4. Cardinality(1 .. Len(s)) = Len(s)
  BY <1>1, FS_Interval
<1>5. Cardinality(Nodes) \in Nat
  BY KvpAssumption, FS_CardinalityType
<1> QED
  BY <1>1, <1>3, <1>4, <1>5


(* One turn of the loop that follows a list, and all its turns.                *)
Turn(mem, before) ==
    LET next == mem[before[Len(before)]].next
    IN  IF next = Null THEN before ELSE Append(before, next)
Turns(mem, first, f) == [i \in Nat |-> IF i = 0 THEN <<first>> ELSE Turn(mem, f[i - 1])]
UpTo(mem, first) == CHOOSE f : f = Turns(mem, first, f)

(* List takes as many turns as there are addresses.                            *)
LEMMA ListIsUpTo ==
    ASSUME Arrays, NEW mem, NEW first
    PROVE  List(mem, first) = UpTo(mem, first)[Cardinality(Nodes)]
  BY DEF List, UpTo, Turns, Turn

(* After i turns the first i + 1 addresses of a list are found.                *)
Found(s, i) == SubSeq(s, 1, IF i < Len(s) THEN i + 1 ELSE Len(s))

(* One more turn finds the next address, or stays at the end.                  *)
LEMMA FoundNext ==
    ASSUME NEW mem, NEW s, Chain(mem, s), NEW i \in Nat
    PROVE  Found(s, i + 1) = Turn(mem, Found(s, i))
<1>0. Len(s) \in Nat /\ Len(s) >= 1 /\ s \in Seq(Nodes)
  BY ChainBound DEF Chain
<1>1. CASE i + 1 >= Len(s)
  <2>1. Found(s, i) = s /\ Found(s, i + 1) = s
    BY <1>0, <1>1 DEF Found
  <2>2. Turn(mem, s) = s
    BY DEF Chain, Turn
  <2> QED
    BY <2>1, <2>2
<1>2. CASE i + 1 < Len(s)
  <2> DEFINE a == SubSeq(s, 1, i + 1)
  <2>1. Found(s, i) = a /\ Found(s, i + 1) = SubSeq(s, 1, i + 2)
    BY <1>0, <1>2 DEF Found
  <2>2. Len(a) = i + 1 /\ a[i + 1] = s[i + 1] /\ a \in Seq(Nodes)
    BY <1>0, <1>2
  <2>3. mem[s[i + 1]].next = s[i + 2] /\ s[i + 2] # Null
    <3>1. s[i + 2] \in Nodes
      BY <1>0, <1>2
    <3> QED
      BY <1>2, <1>0, <3>1, KvpAssumption DEF Chain
  <2>4. Turn(mem, a) = Append(a, s[i + 2])
    <3> HIDE DEF a
    <3> QED
      BY <2>2, <2>3 DEF Turn
  <2>5. Append(a, s[i + 2]) = SubSeq(s, 1, i + 2)
    BY <1>0, <1>2
  <2> QED
    BY <2>1, <2>4, <2>5
<1> QED
  BY <1>0, <1>1, <1>2

(* So List finds exactly the addresses of the list.                            *)
LEMMA ListOfChain ==
    ASSUME Arrays, NEW mem, NEW s, Chain(mem, s)
    PROVE  List(mem, s[1]) = s
<1> DEFINE found == [i \in Nat |-> Found(s, i)]
           upTo  == UpTo(mem, s[1])
           Same  == {i \in Nat : upTo[i] = found[i]}
<1>0. Len(s) \in Nat /\ Len(s) >= 1 /\ s \in Seq(Nodes)
  BY ChainBound DEF Chain
<1>1. Found(s, 0) = <<s[1]>>
  <2>1. Found(s, 0) = SubSeq(s, 1, 1)
    BY <1>0 DEF Found
  <2>2. SubSeq(s, 1, 1) = [i \in 1 .. 1 |-> s[i]]
    BY <1>0
  <2>3. [i \in 1 .. 1 |-> s[i]] = <<s[1]>>
    OBVIOUS
  <2> QED
    BY <2>1, <2>2, <2>3
<1>2. found = Turns(mem, s[1], found)
  <2>1. ASSUME NEW i \in Nat PROVE found[i] = IF i = 0 THEN <<s[1]>> ELSE Turn(mem, found[i - 1])
    <3>1. CASE i = 0
      BY <1>1, <3>1
    <3>2. CASE i # 0
      <4>1. i - 1 \in Nat /\ (i - 1) + 1 = i
        BY <3>2
      <4>2. Found(s, (i - 1) + 1) = Turn(mem, Found(s, i - 1))
        BY <4>1, FoundNext
      <4> QED
        BY <3>2, <4>1, <4>2
    <3> QED
      BY <3>1, <3>2
  <2> QED
    BY <2>1 DEF Turns
<1>3. upTo = Turns(mem, s[1], upTo)
  <2> HIDE DEF found
  <2> QED
    BY <1>2 DEF UpTo
<1>4. 0 \in Same
  BY <1>1, <1>3 DEF Turns
<1>5. ASSUME NEW i \in Nat, i \in Same PROVE i + 1 \in Same
  <2> HIDE DEF upTo
  <2>1. upTo[i] = Found(s, i)
    BY <1>5
  <2>2. upTo[i + 1] = Turn(mem, upTo[i])
    BY <1>3 DEF Turns
  <2> QED
    BY <2>1, <2>2, FoundNext
<1>6. Nat \subseteq Same
  <2> HIDE DEF Same
  <2> QED
    BY <1>4, <1>5, ByInduction
<1>7. Cardinality(Nodes) \in Nat /\ Found(s, Cardinality(Nodes)) = s
  BY <1>0, ChainBound DEF Found
<1> QED
  BY <1>6, <1>7, ListIsUpTo

--------------------------------------------------------------------------------
(* Lists and the heap                                                          *)

(* A list stays one as long as nothing is written to its addresses.            *)
LEMMA ChainKept ==
    ASSUME NEW mem, NEW new, NEW s, Chain(mem, s), \A a \in Elements(s) : new[a] = mem[a]
    PROVE  Chain(new, s)
<1>1. \A i \in 1 .. Len(s) : new[s[i]] = mem[s[i]]
  BY DEF Elements
<1>2. Len(s) \in Nat /\ Len(s) >= 1
  BY ChainBound
<1> QED
  BY <1>1, <1>2 DEF Chain

(* A new value is a list of its own.                                           *)
LEMMA ChainOne ==
    ASSUME NEW mem, NEW n \in Nodes, mem[n].next = Null
    PROVE  Chain(mem, <<n>>) /\ Elements(<<n>>) = {n}
  BY DEF Chain, Elements

(* A new value linked behind the last one makes the list longer by one.        *)
LEMMA ChainLonger ==
    ASSUME NEW mem, NEW new, NEW s, Chain(mem, s), NEW n \in Nodes \ Elements(s),
           new[n].next = Null, new[s[Len(s)]].next = n,
           \A a \in Elements(s) : a # s[Len(s)] => new[a] = mem[a]
    PROVE  Chain(new, Append(s, n)) /\ Elements(Append(s, n)) = Elements(s) \cup {n}
<1> DEFINE t == Append(s, n)
<1>0. Len(s) \in Nat /\ Len(s) >= 1 /\ s \in Seq(Nodes)
  BY ChainBound DEF Chain
<1>1. /\ t \in Seq(Nodes) /\ t # <<>> /\ Len(t) = Len(s) + 1 /\ t[Len(s) + 1] = n
      /\ \A i \in 1 .. Len(s) : t[i] = s[i]
  BY <1>0
<1>2. /\ Elements(t) = Elements(s) \cup {n}
      /\ \A i, j \in 1 .. Len(t) : t[i] = t[j] => i = j
  BY <1>0, AppendElement DEF Chain
<1>3. ASSUME NEW i \in 1 .. Len(s) PROVE new[t[i]].next = t[i + 1]
  <2>1. CASE i = Len(s)
    BY <1>0, <1>1, <2>1
  <2>2. CASE i # Len(s)
    <3>1. i \in 1 .. Len(s) - 1 /\ i + 1 \in 1 .. Len(s) /\ Len(s) \in 1 .. Len(s)
      BY <1>0, <2>2
    <3>2. s[i] \in Elements(s) /\ s[i] # s[Len(s)]
      BY <2>2, <3>1 DEF Elements, Chain
    <3>3. new[s[i]] = mem[s[i]] /\ mem[s[i]].next = s[i + 1]
      BY <3>1, <3>2 DEF Chain
    <3> QED
      BY <1>1, <3>1, <3>3
  <2> QED
    BY <2>1, <2>2
<1> HIDE DEF t
<1>4. Chain(new, t)
  BY <1>0, <1>1, <1>2, <1>3 DEF Chain
<1> QED
  BY <1>2, <1>4 DEF t

(* The values of a key in memory.                                              *)
Stored(k) == List(memory, pair[k].value)

(* The pointers of a pair are the ends of its list: last, which nothing but    *)
(* kvp_add_to_array reads, is the address the list ends at.  Without this the  *)
(* lists of two keys could grow into each other.                               *)
ListInv ==
    /\ MemoryOwned
    /\ \A k \in Keys : Present(k) =>
          /\ Chain(memory, Stored(k)) /\ Stored(k)[1] = pair[k].value
          /\ pair[k].isArray => Stored(k)[Len(Stored(k))] = pair[k].last

(* A step that gives key k the list t and leaves the lists of other keys alone *)
(* keeps all this.                                                             *)
LEMMA OneList ==
    ASSUME Arrays, ListInv, NEW k \in Keys, NEW t,
           Present(k)', Chain(memory', t), t[1] = pair'[k].value,
           pair'[k].isArray => t[Len(t)] = pair'[k].last,
           \A j \in Keys \ {k} : pair'[j] = pair[j],
           \A j \in Keys \ {k} : Present(j) =>
               /\ Elements(t) \cap Elements(Stored(j)) = {}
               /\ \A a \in Elements(Stored(j)) : memory'[a] = memory[a],
           allocated' = (IF Present(k) THEN allocated \ Elements(Stored(k)) ELSE allocated) \cup Elements(t)
    PROVE  /\ ListInv'
           /\ Stored(k)' = t
           /\ \A j \in Keys \ {k} : Present(j) => Stored(j)' = Stored(j)
<1>1. Stored(k)' = t
  BY ListOfChain DEF Stored
<1>2. ASSUME NEW j \in Keys \ {k}, Present(j)
      PROVE  Stored(j)' = Stored(j) /\ Chain(memory', Stored(j)) /\ Stored(j)[1] = pair[j].value
  <2>1. Chain(memory', Stored(j)) /\ Stored(j)[1] = pair[j].value
    BY <1>2, ChainKept DEF ListInv
  <2>2. List(memory', pair[j].value) = Stored(j)
    BY <2>1, ListOfChain
  <2>3. Stored(j)' = List(memory', pair[j].value)
    BY DEF Stored
  <2> QED
    BY <2>1, <2>2, <2>3
<1>3. \A j \in Keys \ {k} : Present(j)' <=> Present(j)
  BY DEF Present
<1>4. allocated = UNION {Elements(Stored(j)) : j \in {i \in Keys : Present(i)}}
  BY DEF ListInv, MemoryOwned, Stored
<1>5. \A i, j \in Keys : Present(i) /\ Present(j) /\ i # j =>
          Elements(Stored(i)) \cap Elements(Stored(j)) = {}
  BY DEF ListInv, MemoryOwned, Stored
<1>6. \A i, j \in Keys : Present(i)' /\ Present(j)' /\ i # j =>
          Elements(Stored(i)') \cap Elements(Stored(j)') = {}
  BY <1>1, <1>2, <1>3, <1>5
<1>7. allocated' = UNION {Elements(Stored(j)') : j \in {i \in Keys : Present(i)'}}
  <2>1. ASSUME NEW a
        PROVE  a \in allocated' <=> \E j \in Keys : Present(j)' /\ a \in Elements(Stored(j)')
    <3>1. a \in allocated <=> \E j \in Keys : Present(j) /\ a \in Elements(Stored(j))
      BY <1>4
    <3>2. (\E j \in Keys : Present(j)' /\ a \in Elements(Stored(j)')) <=>
             \/ a \in Elements(t)
             \/ \E j \in Keys \ {k} : Present(j) /\ a \in Elements(Stored(j))
      BY <1>1, <1>2, <1>3
    <3>3. a \in allocated' <=>
             a \in Elements(t) \/ (a \in allocated /\ ~(Present(k) /\ a \in Elements(Stored(k))))
      OBVIOUS
    <3>4. ASSUME Present(k), a \in Elements(Stored(k)), NEW j \in Keys \ {k}, Present(j)
          PROVE  a \notin Elements(Stored(j))
      BY <1>5, <3>4
    <3> QED
      BY <3>1, <3>2, <3>3, <3>4
  <2> QED
    BY <2>1
<1>8. MemoryOwned'
  BY <1>6, <1>7 DEF MemoryOwned, Stored
<1>9. \A j \in Keys : Present(j)' =>
          /\ Chain(memory', Stored(j)') /\ Stored(j)'[1] = pair'[j].value
          /\ pair'[j].isArray => Stored(j)'[Len(Stored(j)')] = pair'[j].last
  BY <1>1, <1>2, <1>3 DEF ListInv
<1> QED
  BY <1>1, <1>2, <1>8, <1>9 DEF ListInv

(* kvp_add_simple, and kvp_add_array for a new key: the list of one value.     *)
LEMMA NewList ==
    ASSUME Arrays, TypeOK, ListInv, NEW k \in Keys, NEW n \in Nodes \ allocated, NEW v \in Values,
           NEW array \in BOOLEAN, memory' = Created(n, v),
           IF Present(k) THEN ~array /\ Replace(k, n, array) ELSE Insert(k, n, array)
    PROVE  /\ ListInv' /\ Present(k)' /\ Stored(k)' = <<n>> /\ pair'[k].isArray = array
           /\ memory'[n].val = v
           /\ \A j \in Keys \ {k} : /\ pair'[j] = pair[j]
                                    /\ Present(j) => Stored(j)' = Stored(j)
                                    /\ Present(j) => \A a \in Elements(Stored(j)) : memory'[a] = memory[a]
<1>0. n # Null
  BY KvpAssumption
<1>1. /\ pair'[k].value = n /\ pair'[k].isArray = array
      /\ array => pair'[k].last = n
      /\ \A j \in Keys \ {k} : pair'[j] = pair[j]
  BY DEF TypeOK, Insert, Replace
<1>2. /\ memory'[n].val = v /\ memory'[n].next = Null
      /\ \A a \in Nodes \ {n} : memory'[a] = memory[a]
  BY DEF TypeOK, Created
<1>3. Chain(memory', <<n>>) /\ Elements(<<n>>) = {n}
  BY <1>2, ChainOne
<1>4. \A j \in Keys : Present(j) => Elements(Stored(j)) \subseteq allocated
  BY DEF ListInv, MemoryOwned, Stored
<1>5. \A j \in Keys : Present(j) => n \notin Elements(Stored(j))
  BY <1>4
<1>6. \A j \in Keys : Present(j) => \A a \in Elements(Stored(j)) : memory'[a] = memory[a]
  BY <1>2, <1>4, <1>5 DEF TypeOK
<1>7. allocated' = (IF Present(k) THEN allocated \ Elements(Stored(k)) ELSE allocated) \cup {n}
  BY <1>5 DEF Insert, Replace, Stored
<1>8. Present(k)'
  BY <1>0, <1>1 DEF Present
<1>9. ListInv' /\ Stored(k)' = <<n>> /\ \A j \in Keys \ {k} : Present(j) => Stored(j)' = Stored(j)
  <2>1. <<n>>[1] = n /\ <<n>>[Len(<<n>>)] = n
    OBVIOUS
  <2> QED
    BY <1>1, <1>3, <1>5, <1>6, <1>7, <1>8, <2>1, OneList
<1> QED
  BY <1>1, <1>2, <1>6, <1>8, <1>9

(* kvp_add_to_array: the list of the key gets longer at its end.               *)
LEMMA LongerList ==
    ASSUME Arrays, TypeOK, ListInv, NEW k \in Keys, Present(k), pair[k].isArray,
           NEW n \in Nodes \ allocated, NEW v \in Values, AddLast(k, n, v)
    PROVE  /\ ListInv' /\ Present(k)' /\ pair'[k].isArray
           /\ n \notin Elements(Stored(k)) /\ Stored(k)' = Append(Stored(k), n)
           /\ memory'[n].val = v
           /\ \A a \in Elements(Stored(k)) : memory'[a].val = memory[a].val
           /\ \A j \in Keys \ {k} : /\ pair'[j] = pair[j]
                                    /\ Present(j) => Stored(j)' = Stored(j)
                                    /\ Present(j) => \A a \in Elements(Stored(j)) : memory'[a] = memory[a]
<1> DEFINE s == Stored(k)
           last == pair[k].last
<1>0. /\ Chain(memory, s) /\ s[1] = pair[k].value /\ s[Len(s)] = last
      /\ Len(s) \in Nat /\ Len(s) >= 1 /\ s \in Seq(Nodes)
  BY ChainBound DEF ListInv, Chain
<1>1. /\ pair'[k].value = pair[k].value /\ pair'[k].isArray /\ pair'[k].last = n
      /\ \A j \in Keys \ {k} : pair'[j] = pair[j]
  BY DEF TypeOK, AddLast
<1>2. \A j \in Keys : Present(j) => Elements(Stored(j)) \subseteq allocated
  BY DEF ListInv, MemoryOwned, Stored
<1>3. last \in Elements(s) /\ last \in Nodes /\ last # n
  <2>1. last \in Elements(s) /\ last \in Nodes
    BY <1>0 DEF Elements
  <2> QED
    BY <1>2, <2>1
<1>4. /\ memory'[n].val = v /\ memory'[n].next = Null
      /\ memory'[last].val = memory[last].val /\ memory'[last].next = n
      /\ \A a \in Nodes \ {n, last} : memory'[a] = memory[a]
  BY <1>3 DEF TypeOK, Created, AddLast
<1>5. n \notin Elements(s)
  BY <1>2
<1>6. \A a \in Elements(s) : a # s[Len(s)] => memory'[a] = memory[a]
  BY <1>0, <1>2, <1>4, <1>5 DEF TypeOK
<1>7. Chain(memory', Append(s, n)) /\ Elements(Append(s, n)) = Elements(s) \cup {n}
  BY <1>0, <1>4, <1>5, <1>6, ChainLonger
<1>8. \A j \in Keys \ {k} : Present(j) => Elements(s) \cap Elements(Stored(j)) = {}
  BY DEF ListInv, MemoryOwned, Stored
<1>9. \A j \in Keys \ {k} : Present(j) =>
          /\ Elements(Append(s, n)) \cap Elements(Stored(j)) = {}
          /\ \A a \in Elements(Stored(j)) : memory'[a] = memory[a]
  <2> TAKE j \in Keys \ {k}
  <2> HAVE Present(j)
  <2>1. n \notin Elements(Stored(j)) /\ last \notin Elements(Stored(j))
    BY <1>2, <1>3, <1>8
  <2>2. Elements(Stored(j)) \subseteq Nodes
    BY <1>2 DEF TypeOK
  <2> QED
    BY <1>4, <1>7, <1>8, <2>1, <2>2
<1>10. allocated' = (allocated \ Elements(s)) \cup Elements(Append(s, n))
  BY <1>2, <1>7 DEF AddLast
<1>11. Append(s, n)[1] = s[1] /\ Append(s, n)[Len(Append(s, n))] = n
  BY <1>0
<1>12. Present(k)'
  BY <1>1 DEF Present
<1> HIDE DEF s, last
<1>13. ListInv' /\ Stored(k)' = Append(s, n) /\ \A j \in Keys \ {k} : Present(j) => Stored(j)' = Stored(j)
  BY <1>0, <1>1, <1>7, <1>9, <1>10, <1>11, <1>12, OneList DEF s
<1>14. \A a \in Elements(s) : memory'[a].val = memory[a].val
  BY <1>0, <1>4, <1>6
<1> QED
  BY <1>1, <1>4, <1>5, <1>9, <1>12, <1>13, <1>14 DEF s

(* clear frees every list.                                                     *)
LEMMA ClearsAll ==
    ASSUME ListInv, Clear
    PROVE  ListInv' /\ \A k \in Keys : ~Present(k)'
<1>1. \A k \in Keys : ~Present(k)'
  BY DEF Clear, Present, NoPair
<1>2. allocated' = {}
  BY DEF Clear, ListInv, MemoryOwned
<1> QED
  BY <1>1, <1>2 DEF ListInv, MemoryOwned

(* Every message keeps the lists as they are, one by one.                      *)
LEMMA ListStep ==
    ASSUME Arrays, ~Mixes, TypeOK, ListInv, [Next]_vars
    PROVE  ListInv'
<1>1. ASSUME NEW k \in Keys, NEW v \in Values, Add(k, v) PROVE ListInv'
  BY <1>1, NewList DEF Add
<1>2. ASSUME NEW k \in Keys, NEW v \in Values, AddToArray(k, v) PROVE ListInv'
  BY <1>2, NewList, LongerList DEF AddToArray
<1>3. CASE UNCHANGED vars
  BY <1>3 DEF vars, ListInv, MemoryOwned, Stored, Present
<1> QED
  BY <1>1, <1>2, <1>3, ClearsAll DEF Next

(* There are none at first.                                                    *)
LEMMA InitLists == Init => ListInv
  BY DEF Init, ListInv, MemoryOwned, Present, NoPair

(* So the lists are whole in every reachable state.                            *)
LEMMA ListInvariant == ASSUME Arrays, ~Mixes PROVE Spec => []ListInv
<1>1. TypeOK /\ ListInv /\ [Next]_vars => ListInv'
  BY ListStep
<1> QED
  BY <1>1, InitLists, KvpTypeCorrect, PTL DEF Spec

(* In [json-encode], as long as the patch sends a key with add or with array and *)
(* not with both, the memory in use is always exactly that of the stored lists, *)
(* each owned by one key: no value of an array is lost, none is freed while it *)
(* is stored, and no two arrays share a value.                                 *)
THEOREM JsonEncodeOwnsMemory == ASSUME Arrays, ~Mixes PROVE Spec => []MemoryOwned
<1>1. ListInv => MemoryOwned
  BY DEF ListInv
<1> QED
  BY <1>1, ListInvariant, PTL

--------------------------------------------------------------------------------
(* Refinement with ARRAY                                                       *)

(* What a bang reads of a list of addresses.                                   *)
Texts(mem, s) == [i \in 1 .. Len(s) |-> mem[s[i]].val]

(* The addresses a bang visits for a key.                                      *)
Visited(k) == IF pair[k].isArray THEN Stored(k) ELSE <<pair[k].value>>

(* They are addresses of its list, and at least one.                           *)
LEMMA VisitedType ==
    ASSUME ListInv, NEW k \in Keys, Present(k)
    PROVE  /\ Visited(k) \in Seq(Nodes \cup {Null}) /\ Len(Visited(k)) >= 1
           /\ \A i \in 1 .. Len(Visited(k)) : Visited(k)[i] \in Elements(Stored(k))
<1>1. Stored(k) \in Seq(Nodes) /\ Len(Stored(k)) >= 1 /\ Stored(k)[1] = pair[k].value
  BY ChainBound DEF ListInv, Chain
<1>2. CASE pair[k].isArray
  <2>1. Visited(k) = Stored(k)
    BY <1>2 DEF Visited
  <2> QED
    BY <1>1, <2>1 DEF Elements
<1>3. CASE ~pair[k].isArray
  <2>1. Visited(k) = <<pair[k].value>>
    BY <1>3 DEF Visited
  <2>2. pair[k].value \in Elements(Stored(k)) /\ pair[k].value \in Nodes
    BY <1>1 DEF Elements
  <2> QED
    BY <2>1, <2>2
<1> QED
  BY <1>2, <1>3

(* What a bang reads of a key: the values at these addresses, or nothing.      *)
LEMMA EntryOf ==
    ASSUME Arrays, TypeOK, ListInv, NEW k \in Keys
    PROVE  /\ Present(k) => Entry(k) = [isArray |-> pair[k].isArray,
                                        values  |-> Texts(memory, Visited(k))]
           /\ ~Present(k) => Entry(k) = [isArray |-> FALSE, values |-> <<>>]
           /\ Entry(k) = Content!Nothing <=> ~Present(k)
<1>1. Present(k) => DOMAIN Visited(k) = 1 .. Len(Visited(k)) /\ Len(Visited(k)) >= 1 /\ Len(Visited(k)) \in Nat
  BY VisitedType
<1>2. Present(k) => Entry(k) = [isArray |-> pair[k].isArray, values |-> Texts(memory, Visited(k))]
  BY <1>1 DEF Entry, Texts, Stored, Visited
<1>3. ~Present(k) => Entry(k) = [isArray |-> FALSE, values |-> <<>>]
  BY DEF Entry
<1>4. Present(k) => Entry(k) # Content!Nothing
  <2> SUFFICES ASSUME Present(k), Texts(memory, Visited(k)) = <<>> PROVE FALSE
    BY <1>2 DEF Content!Nothing
  <2>1. Len(Texts(memory, Visited(k))) = Len(Visited(k))
    BY <1>1 DEF Texts
  <2> QED
    BY <1>1, <2>1
<1> QED
  BY <1>2, <1>3, <1>4 DEF Content!Nothing

(* What is read of a key stays, if its pair and its list stay.                 *)
LEMMA EntryKept ==
    ASSUME Arrays, TypeOK, ListInv, NEW j \in Keys,
           pair'[j] = pair[j],
           Present(j) => /\ Stored(j)' = Stored(j)
                         /\ \A a \in Elements(Stored(j)) : memory'[a] = memory[a]
    PROVE  Entry(j)' = Entry(j)
<1>1. CASE ~Present(j)
  BY <1>1 DEF Entry, Present
<1>2. CASE Present(j)
  <2> DEFINE q == Visited(j)
  <2>1. DOMAIN q = 1 .. Len(q) /\ (\A i \in 1 .. Len(q) : q[i] \in Elements(Stored(j))) /\ Present(j)'
    BY <1>2, VisitedType DEF Present
  <2>2. Entry(j) = [isArray |-> pair[j].isArray, values |-> [i \in DOMAIN q |-> memory[q[i]].val]]
    BY <1>2 DEF Entry, Stored, Visited
  <2>3. Entry(j)' = [isArray |-> pair[j].isArray, values |-> [i \in DOMAIN q |-> memory'[q[i]].val]]
    BY <1>2, <2>1 DEF Entry, Stored, Visited
  <2> HIDE DEF q
  <2> QED
    BY <1>2, <2>1, <2>2, <2>3
<1> QED
  BY <1>1, <1>2

(* After kvp_add_simple, and after the first value of an array, the key has the *)
(* new value, and other keys what they had.                                    *)
LEMMA NewEntry ==
    ASSUME Arrays, TypeOK, TypeOK', ListInv, NEW k \in Keys, NEW n \in Nodes \ allocated,
           NEW v \in Values, NEW array \in BOOLEAN, memory' = Created(n, v),
           IF Present(k) THEN ~array /\ Replace(k, n, array) ELSE Insert(k, n, array)
    PROVE  \A j \in Keys : Entry(j)' = IF j = k THEN [isArray |-> array, values |-> <<v>>] ELSE Entry(j)
<1>1. ListInv' /\ Present(k)' /\ Stored(k)' = <<n>> /\ pair'[k].isArray = array /\ memory'[n].val = v
  BY NewList
<1>2. pair'[k].value = n
  BY DEF TypeOK, Insert, Replace
<1>3. Entry(k)' = [isArray |-> array, values |-> <<v>>]
  <2>1. [i \in DOMAIN <<n>> |-> memory'[<<n>>[i]].val] = <<v>>
    BY <1>1
  <2> QED
    BY <1>1, <1>2, <2>1 DEF Entry, Stored
<1>4. ASSUME NEW j \in Keys \ {k} PROVE Entry(j)' = Entry(j)
  BY NewList, EntryKept
<1> QED
  BY <1>3, <1>4

(* After kvp_add_to_array the new value comes behind those of before.          *)
LEMMA LongerEntry ==
    ASSUME Arrays, TypeOK, ListInv, NEW k \in Keys, Present(k), pair[k].isArray,
           NEW n \in Nodes \ allocated, NEW v \in Values, AddLast(k, n, v)
    PROVE  \A j \in Keys : Entry(j)' = IF j = k THEN [isArray |-> TRUE, values |-> Append(Entry(k).values, v)]
                                                ELSE Entry(j)
<1> DEFINE s == Stored(k)
<1>1. /\ Present(k)' /\ pair'[k].isArray /\ Stored(k)' = Append(s, n) /\ memory'[n].val = v
      /\ \A a \in Elements(s) : memory'[a].val = memory[a].val
  BY LongerList
<1>2. Len(s) \in Nat /\ s \in Seq(Nodes)
  BY ChainBound DEF ListInv, Chain
<1>3. Entry(k).values = [i \in 1 .. Len(s) |-> memory[s[i]].val]
  <2>1. Entry(k) = [isArray |-> pair[k].isArray, values |-> Texts(memory, Visited(k))]
    BY EntryOf
  <2>2. Visited(k) = s
    BY DEF Visited
  <2> QED
    BY <2>1, <2>2 DEF Texts
<1>4. Entry(k)' = [isArray |-> TRUE, values |-> [i \in 1 .. Len(s) + 1 |-> memory'[Append(s, n)[i]].val]]
  <2>1. DOMAIN Append(s, n) = 1 .. Len(s) + 1
    BY <1>2
  <2>2. pair'[k].isArray = TRUE
    BY <1>1, AppendTypes DEF TypeOK
  <2> QED
    BY <1>1, <2>1, <2>2 DEF Entry, Stored
<1>5. [i \in 1 .. Len(s) + 1 |-> memory'[Append(s, n)[i]].val] = Append(Entry(k).values, v)
  <2>1. ASSUME NEW i \in 1 .. Len(s) PROVE memory'[Append(s, n)[i]].val = memory[s[i]].val
    <3>1. Append(s, n)[i] = s[i] /\ s[i] \in Elements(s)
      BY <1>2, <2>1 DEF Elements
    <3> QED
      BY <1>1, <3>1
  <2>2. memory'[Append(s, n)[Len(s) + 1]].val = v
    BY <1>1, <1>2
  <2> QED
    BY <1>2, <1>3, <2>1, <2>2
<1>6. ASSUME NEW j \in Keys \ {k} PROVE Entry(j)' = Entry(j)
  BY LongerList, EntryKept
<1> QED
  BY <1>4, <1>5, <1>6

(* [json-encode] keeps what Store promises, for any keys, values and allocator, *)
(* as long as no key is sent with both add and array: values of an array stay  *)
(* in the order they came in, whatever is done to other keys in between.       *)
THEOREM JsonEncodeImplementsStore == ASSUME Arrays, ~Mixes PROVE Spec => StoreImplemented
<1> DEFINE entries == [k \in Keys |-> Entry(k)]
<1>1. Init => Content!Init
  <2> SUFFICES ASSUME Init PROVE Content!Init
    OBVIOUS
  <2>1. \A k \in Keys : ~Present(k)
    BY DEF Init, Present, NoPair
  <2>2. \A k \in Keys : Entry(k) = Content!Nothing
    BY <2>1 DEF Entry, Content!Nothing
  <2> QED
    BY <2>2 DEF Init, Content!Init
<1>2. TypeOK /\ TypeOK' /\ ListInv /\ [Next]_vars => [Content!Next]_<<data, entries>>
  <2> SUFFICES ASSUME TypeOK, TypeOK', ListInv, [Next]_vars
               PROVE  [Content!Next]_<<data, entries>>
    OBVIOUS
  <2>1. CASE Clear
    <3>1. \A k \in Keys : Entry(k)' = Content!Nothing
      BY <2>1, ClearsAll DEF Entry, Content!Nothing
    <3> QED
      BY <2>1, <3>1 DEF Clear, Content!Clear, Content!Next
  <2>2. ASSUME NEW k \in Keys, NEW e,
               \A j \in Keys : Entry(j)' = IF j = k THEN e ELSE Entry(j),
               data' = IF Present(k) THEN data ELSE Append(data, k)
        PROVE  Content!Set(k, e)
    <3>1. entries' = [entries EXCEPT ![k] = e]
      BY <2>2
    <3>2. entries[k] = Content!Nothing <=> ~Present(k)
      BY EntryOf
    <3> QED
      BY <2>2, <3>1, <3>2 DEF Content!Set
  <2>3. ASSUME NEW k \in Keys, NEW v \in Values, Add(k, v) PROVE Content!Add(k, v)
    <3>1. \A j \in Keys : Entry(j)' = IF j = k THEN [isArray |-> FALSE, values |-> <<v>>] ELSE Entry(j)
      BY <2>3, NewEntry DEF Add
    <3>2. data' = IF Present(k) THEN data ELSE Append(data, k)
      BY <2>3 DEF Add, Insert, Replace
    <3> QED
      BY <2>2, <3>1, <3>2 DEF Content!Add
  <2>4. ASSUME NEW k \in Keys, NEW v \in Values, AddToArray(k, v) PROVE Content!AddToArray(k, v)
    <3>1. PICK n \in Nodes \ allocated :
              \/ ~Present(k) /\ memory' = Created(n, v) /\ Insert(k, n, TRUE)
              \/ Present(k) /\ pair[k].isArray /\ AddLast(k, n, v)
      BY <2>4 DEF AddToArray
    <3>2. CASE ~Present(k) /\ memory' = Created(n, v) /\ Insert(k, n, TRUE)
      <4>1. \A j \in Keys : Entry(j)' = IF j = k THEN [isArray |-> TRUE, values |-> <<v>>] ELSE Entry(j)
        BY <3>2, NewEntry
      <4>2. ~entries[k].isArray
        <5>1. entries[k] = [isArray |-> FALSE, values |-> <<>>]
          BY <3>2, EntryOf
        <5> QED
          BY <5>1
      <4>3. data' = IF Present(k) THEN data ELSE Append(data, k)
        BY <3>2 DEF Insert
      <4> QED
        BY <2>2, <4>1, <4>2, <4>3 DEF Content!AddToArray
    <3>3. CASE Present(k) /\ pair[k].isArray /\ AddLast(k, n, v)
      <4>1. \A j \in Keys : Entry(j)' =
                IF j = k THEN [isArray |-> TRUE, values |-> Append(Entry(k).values, v)] ELSE Entry(j)
        BY <3>3, LongerEntry
      <4>2. entries[k].isArray /\ entries[k].values = Entry(k).values
        <5>1. Entry(k) = [isArray |-> pair[k].isArray, values |-> Texts(memory, Visited(k))]
          BY <3>3, EntryOf
        <5> QED
          BY <3>3, <5>1
      <4>3. data' = IF Present(k) THEN data ELSE Append(data, k)
        BY <3>3 DEF AddLast
      <4> QED
        BY <2>2, <4>1, <4>2, <4>3 DEF Content!AddToArray
    <3> QED
      BY <3>1, <3>2, <3>3
  <2>5. CASE UNCHANGED vars
    BY <2>5 DEF vars, Entry, Present
  <2> QED
    BY <2>1, <2>3, <2>4, <2>5 DEF Next, Content!Next
<1> QED
  BY <1>1, <1>2, KvpTypeCorrect, ListInvariant, PTL DEF Spec, StoreImplemented, Content!Spec

(* A value sent with array to a key that holds an array is always added at its *)
(* end, under the same condition; with both messages for one key, kvp_array    *)
(* shows that it can be lost.                                                  *)
THEOREM ArraysGrow == ASSUME Arrays, ~Mixes PROVE Spec => ArrayAdds
<1>1. ASSUME TypeOK, ListInv, NEW k \in Keys, NEW v \in Values, AddToArray(k, v), Entry(k).isArray
      PROVE  Entry(k)'.values = Append(Entry(k).values, v)
  <2>1. Present(k) /\ pair[k].isArray
    <3>1. CASE ~Present(k)
      <4>1. Entry(k) = [isArray |-> FALSE, values |-> <<>>]
        BY <1>1, <3>1, EntryOf
      <4> QED
        BY <1>1, <4>1
    <3>2. CASE Present(k)
      <4>1. Entry(k) = [isArray |-> pair[k].isArray, values |-> Texts(memory, Visited(k))]
        BY <1>1, <3>2, EntryOf
      <4>2. Entry(k).isArray <=> pair[k].isArray
        BY <4>1
      <4> QED
        BY <1>1, <3>2, <4>2
    <3> QED
      BY <3>1, <3>2
  <2>2. PICK n \in Nodes \ allocated : AddLast(k, n, v)
    BY <1>1, <2>1 DEF AddToArray
  <2>3. Entry(k)' = [isArray |-> TRUE, values |-> Append(Entry(k).values, v)]
    BY <1>1, <2>1, <2>2, LongerEntry
  <2> QED
    BY <2>3
<1>2. TypeOK /\ ListInv =>
          \A k \in Keys, v \in Values :
              AddToArray(k, v) /\ Entry(k).isArray =>
                  Entry(k)'.values = Append(Entry(k).values, v)
  BY <1>1
<1>3. TypeOK /\ ListInv /\ [Next]_vars =>
          [\A k \in Keys, v \in Values :
              AddToArray(k, v) /\ Entry(k).isArray =>
                  Entry(k)'.values = Append(Entry(k).values, v)]_vars
  BY <1>2
<1> QED
  BY <1>3, KvpTypeCorrect, ListInvariant, PTL DEF Spec, ArrayAdds
=============================================================================
