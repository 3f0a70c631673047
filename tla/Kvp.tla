----------------------------------- MODULE Kvp -----------------------------------
(***************************************************************************)
(* The key-value store of [json-encode] and [urlparams] (src/inc/kvp.c) as *)
(* it lies in memory: a uthash table of pairs, each of which points to its *)
(* value; with ARRAY defined, to the first and to the last value of a      *)
(* linked list.  Memory that was freed is given out again by the allocator *)
(* at any later time, and a write through a pointer that was left behind   *)
(* reaches whoever owns it then.                                           *)
(***************************************************************************)
EXTENDS Naturals, Sequences, FiniteSets

CONSTANTS
    Keys,
    Values,  \* what a key can be given; strings and numbers are not told apart
    Nodes,   \* bound: the addresses a struct _v can get
    Null,    \* NULL
    Arrays,  \* compiled with ARRAY ([json-encode]) or without ([urlparams])?
    Mixes    \* does the patch send "array" for a key that holds a single value?

ASSUME KvpAssumption ==
    /\ Null \notin Nodes
    /\ IsFiniteSet(Nodes)
    /\ Arrays \in BOOLEAN
    /\ Mixes \in BOOLEAN

VARIABLES
    data,      \* the keys of the hash table, in the order HASH_ITER visits them
    pair,      \* struct _kvp of each key; NoPair if the table has none
    memory,    \* the values: struct _v at each address
    allocated  \* the addresses that are in use

vars == <<data, pair, memory, allocated>>

NoPair == [value |-> Null, last |-> Null, isArray |-> FALSE]
Present(k) == pair[k].value # Null

Init ==
    /\ data = <<>> /\ pair = [k \in Keys |-> NoPair]
    /\ memory \in [Nodes -> [val : Values, next : {Null}]]
    /\ allocated = {}

(* The values from the one at address first to the end of its list, in order.  *)
(* Without ARRAY a value is not part of a list.                                *)
List(mem, first) ==
    LET upTo[i \in Nat] ==
            IF i = 0 THEN <<first>>
            ELSE LET before == upTo[i - 1]
                     next == mem[before[Len(before)]].next
                 IN  IF next = Null THEN before ELSE Append(before, next)
    IN  IF Arrays THEN upTo[Cardinality(Nodes)] ELSE <<first>>

Elements(seq) == {seq[i] : i \in 1 .. Len(seq)}

--------------------------------------------------------------------------------
(* Definitions named Bug... are mutants: what the definition that follows      *)
(* would be with a plausible mistake.  They are not part of the specification. *)

Created(n, v) == [memory EXCEPT ![n] = [val |-> v, next |-> Null]]

(* kvp_create and kvp_insert                                                   *)
Insert(k, n, array) ==
    /\ pair' = [pair EXCEPT ![k] = [value |-> n, last |-> n, isArray |-> array]]
    /\ data' = Append(data, k)
    /\ allocated' = allocated \cup {n}

BugReplaceLeaks(k, n, array) ==
    /\ pair' = [pair EXCEPT ![k].value = n, ![k].isArray = array]
    /\ allocated' = (allocated \cup {n}) \ {pair[k].value}
    /\ UNCHANGED data

(* kvp_replace_value, kvp_val_free: the old list is freed; last stays as it is *)
Replace(k, n, array) ==
    /\ pair' = [pair EXCEPT ![k].value = n, ![k].isArray = array]
    /\ allocated' = (allocated \cup {n}) \ Elements(List(memory, pair[k].value))
    /\ UNCHANGED data

(* kvp_val_create gets any address that is free; kvp_add_simple                *)
Add(k, v) ==
    \E n \in Nodes \ allocated :
        /\ memory' = Created(n, v)
        /\ IF Present(k) THEN Replace(k, n, FALSE) ELSE Insert(k, n, FALSE)

BugLastStays(k, n, v) ==
    /\ memory' = [Created(n, v) EXCEPT ![pair[k].last].next = n]
    /\ allocated' = allocated \cup {n}
    /\ UNCHANGED <<data, pair>>

(* kvp_add_to_array: last->next = value, and last = value                      *)
AddLast(k, n, v) ==
    /\ memory' = [Created(n, v) EXCEPT ![pair[k].last].next = n]
    /\ pair' = [pair EXCEPT ![k].last = n]
    /\ allocated' = allocated \cup {n}
    /\ UNCHANGED data

(* kvp_val_create, kvp_add_array                                               *)
AddToArray(k, v) ==
    /\ Arrays
    /\ Mixes \/ ~Present(k) \/ pair[k].isArray
    /\ \E n \in Nodes \ allocated :
          \/ ~Present(k) /\ memory' = Created(n, v) /\ Insert(k, n, TRUE)
          \/ Present(k) /\ pair[k].isArray /\ AddLast(k, n, v)
          \/ Present(k) /\ ~pair[k].isArray /\ memory' = Created(n, v) /\ Replace(k, n, TRUE)

BugClearKeepsTable ==
    /\ pair' = [k \in Keys |-> NoPair]
    /\ allocated' = allocated \ UNION {Elements(List(memory, pair[k].value)) :
                                          k \in {j \in Keys : Present(j)}}
    /\ UNCHANGED <<data, memory>>

(* kvp_store_free_memory: every pair and every list                            *)
Clear ==
    /\ data' = <<>> /\ pair' = [k \in Keys |-> NoPair]
    /\ allocated' = allocated \ UNION {Elements(List(memory, pair[k].value)) :
                                          k \in {j \in Keys : Present(j)}}
    /\ UNCHANGED memory

Next == Clear \/ \E k \in Keys, v \in Values : Add(k, v) \/ AddToArray(k, v)

Spec == Init /\ [][Next]_vars

--------------------------------------------------------------------------------
(* What a bang reads                                                           *)

(* the text of one key: the value, or the values from the first to the end     *)
Entry(k) ==
    LET list == IF pair[k].isArray THEN List(memory, pair[k].value) ELSE <<pair[k].value>>
    IN  IF Present(k)
        THEN [isArray |-> pair[k].isArray,
              values  |-> [i \in DOMAIN list |-> memory[list[i]].val]]
        ELSE [isArray |-> FALSE, values |-> <<>>]

Content == INSTANCE Store WITH order <- data, entry <- [k \in Keys |-> Entry(k)]

--------------------------------------------------------------------------------
(* Properties                                                                  *)

(* Every state is well typed; the table has each key once, and no other.       *)
TypeOK ==
    /\ data \in Seq(Keys)
    /\ \A i, j \in 1 .. Len(data) : data[i] = data[j] => i = j
    /\ \A k \in Keys : Present(k) <=> k \in Elements(data)
    /\ pair \in [Keys -> [value : Nodes \cup {Null}, last : Nodes \cup {Null}, isArray : BOOLEAN]]
    /\ \A k \in Keys : (pair[k].isArray => Arrays) /\ (~Present(k) => pair[k] = NoPair)
    /\ memory \in [Nodes -> [val : Values, next : Nodes \cup {Null}]]
    /\ allocated \subseteq Nodes

(* Whatever the store does to its lists is what the messages promise: adding,  *)
(* overwriting, appending in order and clearing, for each key alone.           *)
StoreImplemented == Content!Spec

(* The memory in use is that of the stored values: no value is lost, and none  *)
(* is freed while a pair still leads to it or belongs to two pairs.            *)
MemoryOwned ==
    LET stored == {k \in Keys : Present(k)}
        Owned(k) == Elements(List(memory, pair[k].value))
    IN  /\ allocated = UNION {Owned(k) : k \in stored}
        /\ \A j, k \in stored : j # k => Owned(j) \cap Owned(k) = {}

(* A value sent with "array" to a key that holds an array is added at its end. *)
ArrayAdds ==
    [][\A k \in Keys, v \in Values :
          AddToArray(k, v) /\ Entry(k).isArray =>
              Entry(k)'.values = Append(Entry(k).values, v)]_vars
=============================================================================
