------------------------------ MODULE StoreMap ------------------------------
(***************************************************************************)
(* The map every c10d::Store keeps, and the queries its clients make.      *)
(*                                                                         *)
(* A value is the integer whose decimal form it is, or Text, bytes that    *)
(* std::stoll rejects.  std::to_string and std::stoll are then inverse to  *)
(* each other on integers.                                                 *)
(***************************************************************************)
EXTENDS Integers

CONSTANTS
  Text,   \* a value that is not the decimal form of an integer
  None    \* no value

Operation == {"SET", "ADD", "GET", "WAIT", "CHECK", "GETNUMKEYS", "DELETE_KEY"}
Query(op, keys, val) == [op |-> op, keys |-> keys, val |-> val]

(* The key of a query that has only one.                                   *)
TheKey(q) == CHOOSE k \in q.keys : TRUE

(* A bool that a call returns.                                             *)
Truth(b) == IF b THEN 1 ELSE 0

EmptyMap == [k \in {} |-> 0]
Bind(map, k, v) == [j \in DOMAIN map \cup {k} |-> IF j = k THEN v ELSE map[j]]
Unbind(map, k) == [j \in DOMAIN map \ {k} |-> map[j]]

(* add(): an absent key counts as zero, text cannot be added to.           *)
CanAdd(map, k) == k \in DOMAIN map => map[k] # Text
Plus(map, k, n) == IF k \in DOMAIN map THEN map[k] + n ELSE n
=============================================================================
