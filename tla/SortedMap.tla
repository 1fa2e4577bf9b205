----------------------------- MODULE SortedMap -----------------------------
(***************************************************************************)
(* What a name or number tree promises (QPDFNumberTreeObjectHelper.hh,     *)
(* 130-175): a sorted map with one iterator, which is on a key or at the   *)
(* end, from where it steps to the first or to the last key, and to a new  *)
(* first item that is put in.  A map can be in disorder, and nothing is    *)
(* promised until it has been mended.                                      *)
(*                                                                         *)
(* The header knows one end.  The one that a search leaves which finds     *)
(* nothing compares equal to it, but the code does not keep the promise    *)
(* for it: it may neither step nor follow an insertion.  It is called Lost *)
(* here, and where it goes is left open until it is placed anew.  What is  *)
(* inserted there is promised all the same.                                *)
(***************************************************************************)
EXTENDS Integers, FiniteSets, Functions

CONSTANTS
  Keys,        \* the keys that are asked for
  Vals,
  End,         \* the position of an iterator that is on no key
  Lost         \* an end that a search has left which found nothing

VARIABLES
  map,         \* a function from the keys that are there to their values
  pos,         \* where the iterator is
  sorted       \* whether the map is in order

mapVars == <<map, pos, sorted>>

(* The least and the greatest of a set of keys, or the end.                *)
Least(K) == IF K = {} THEN End ELSE CHOOSE k \in K : \A x \in K : k <= x
Greatest(K) == IF K = {} THEN End ELSE CHOOSE k \in K : \A x \in K : x <= k

IsMap(m) == m = [k \in DOMAIN m |-> m[k]] /\ \A k \in DOMAIN m : m[k] \in Vals

After(K, p) == Least({k \in K : p = End \/ k > p})
Before(K, p) == Greatest({k \in K : p = End \/ k < p})
Present == DOMAIN map

Init ==
  /\ sorted \in BOOLEAN
  /\ IsMap(map)
  /\ pos = End

Mend == ~sorted /\ sorted' /\ IsMap(map')

Start == pos' \in {After(Present, End), Before(Present, End)} /\ UNCHANGED map

Anywhere == DOMAIN map' \cup {End, Lost}

Step ==
  /\ UNCHANGED map
  /\ pos' \in IF pos = Lost THEN Anywhere ELSE {After(Present, pos), Before(Present, pos)}

(* A search leaves the end only if the key is not there.                   *)
Find(k) ==
  /\ IF k \in Present THEN pos' = k
     ELSE LET lower == Before(Present, k) IN
          pos' \in IF lower = End THEN {End} ELSE {lower, End, Lost}
  /\ UNCHANGED map

Insert(k, v) == map' = [x \in Present \cup {k} |-> IF x = k THEN v ELSE map[x]] /\ pos' = k

(* The caller says where; it has to be the right place.                    *)
InsertAfter(k, v) ==
  /\ k \notin Present
  /\ IF pos \in {End, Lost} THEN \A x \in Present : k < x
     ELSE pos < k /\ \A x \in Present : x <= pos \/ k < x
  /\ map' = [x \in Present \cup {k} |-> IF x = k THEN v ELSE map[x]]
  /\ pos' \in IF pos = Lost THEN Anywhere ELSE {k}

RemoveHere ==
  /\ pos \in Present
  /\ map' = Restrict(map, Present \ {pos})
  /\ pos' = After(Present, pos)

RemoveKey(k) == k \in Present /\ map' = Restrict(map, Present \ {k}) /\ pos' = End

Next ==
  \/ Mend
  \/ /\ sorted /\ UNCHANGED sorted
     /\ \/ Start \/ Step \/ RemoveHere
        \/ \E k \in Keys : Find(k) \/ RemoveKey(k)
        \/ \E k \in Keys, v \in Vals : Insert(k, v) \/ InsertAfter(k, v)

Spec == Init /\ [][Next]_mapVars
=============================================================================
