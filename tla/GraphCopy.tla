----------------------------- MODULE GraphCopy -----------------------------
(***************************************************************************)
(* What writing a document promises: objects get numbers, and under the    *)
(* number of an object stands a copy that refers to the numbers of what    *)
(* the object refers to.  A number given never changes, none is given      *)
(* twice, and what stands under a number stays.  Some numbers stand for    *)
(* things that are no objects of the document.                             *)
(***************************************************************************)
EXTENDS Naturals

CONSTANTS Objs   \* the objects of the document

VARIABLES
  refs,        \* what each object refers to, in order
  number,      \* the numbers of objects; 0 for none
  copy         \* what has been written under which number

vars == <<refs, number, copy>>

Init ==
  /\ number = [o \in Objs |-> 0]
  /\ copy = << >>

(* What is to be written is settled before anything has a number.          *)
Settle == Init /\ UNCHANGED <<number, copy>>

(* Any objects may get numbers at once, different from all in use.         *)
Number ==
  /\ number' \in [Objs -> Nat]
  /\ \A o \in Objs : number[o] # 0 => number'[o] = number[o]
  /\ \A o, p \in Objs : o # p /\ number'[o] # 0 => number'[o] # number'[p]
  /\ \A o \in Objs : number[o] = 0 => number'[o] \notin DOMAIN copy
  /\ UNCHANGED <<refs, copy>>

(* Nothing written changes; but for the numbers in new, what is added has  *)
(* a number that is no object's.                                           *)
Keeps(new) ==
  /\ \A n \in DOMAIN copy : n \in DOMAIN copy' /\ copy'[n] = copy[n]
  /\ \A n \in DOMAIN copy' \ DOMAIN copy : n \in new \/ \A p \in Objs : number[p] # n
  /\ UNCHANGED <<refs, number>>

Copied(o) ==
  [of |-> o, refs |-> [i \in DOMAIN refs[o] |-> number[refs[o][i]]]]

(* An object is written once all it refers to have numbers.                *)
Write(o) ==
  /\ number[o] # 0 /\ number[o] \notin DOMAIN copy
  /\ \A i \in DOMAIN refs[o] : number[refs[o][i]] # 0
  /\ Keeps({number[o]})
  /\ number[o] \in DOMAIN copy' /\ copy'[number[o]] = Copied(o)

Next == Settle \/ Number \/ Keeps({}) \/ \E o \in Objs : Write(o)

Spec == Init /\ [][Next]_vars
=============================================================================
