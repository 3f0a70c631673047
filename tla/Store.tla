---------------------------------- MODULE Store ----------------------------------
(***************************************************************************)
(* What [json-encode] and [urlparams] promise about the values they keep:  *)
(* an ordered collection of keys, each with one value or with an array of  *)
(* values.  Nothing is said of how they are stored.                        *)
(***************************************************************************)
EXTENDS Sequences

CONSTANTS Keys, Values

VARIABLES order,  \* the keys in the order in which they were added
          entry   \* what is stored under each key

Nothing == [isArray |-> FALSE, values |-> <<>>]

Init == order = <<>> /\ entry = [k \in Keys |-> Nothing]

Set(k, e) ==
    /\ entry'[k] = e /\ entry' = [entry EXCEPT ![k] = e]
    /\ order' = IF entry[k] = Nothing THEN Append(order, k) ELSE order

(* "adding a different value will overwrite the previously stored one"         *)
Add(k, v) == Set(k, [isArray |-> FALSE, values |-> <<v>>])

(* "array adds a new value to an array"; a single value gives way to an array  *)
AddToArray(k, v) ==
    Set(k, [isArray |-> TRUE,
            values  |-> IF entry[k].isArray THEN Append(entry[k].values, v) ELSE <<v>>])

(* "clear clears the internally stored object"                                 *)
Clear == order' = <<>> /\ entry' = [k \in Keys |-> Nothing]

Next == Clear \/ \E k \in Keys, v \in Values : Add(k, v) \/ AddToArray(k, v)

Spec == Init /\ [][Next]_<<order, entry>>
=============================================================================
