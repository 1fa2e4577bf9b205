---------------------------- MODULE ObjectTable ----------------------------
(***************************************************************************)
(* What a QPDF document promises about its numbered objects, with nothing  *)
(* said about the file they come from, about when they are read, or about  *)
(* the handles a program holds: a table from object ids to values that     *)
(* changes only as the program's calls ask.  The variable call is the      *)
(* interface: the call that the last step carried out, with its arguments. *)
(*                                                                         *)
(* ObjectCache.tla describes the object cache of libqpdf/QPDF_objects.cc   *)
(* and is checked, and proved, to implement this module.                   *)
(***************************************************************************)
EXTENDS Naturals

CONSTANTS
  Ids,      \* object ids, 1..MaxId
  Values,   \* what an object can be
  Null,     \* the value of an object that does not exist
  InFile,   \* the ids the cross-reference table of the file defines
  FileVal   \* their values in the file

VARIABLES
  store,    \* the value of every id
  used,     \* the ids that exist: in the file, or given out since
  call      \* the call made last

tableVars == <<store, used, call>>

Init ==
  /\ store = [i \in Ids |-> IF i \in InFile THEN FileVal[i] ELSE Null]
  /\ used = InFile
  /\ call = <<"none">>

Put(i, v) ==
  /\ store' = [store EXCEPT ![i] = v]
  /\ used' = used \cup {i}

Replace(i, v) ==
  /\ Put(i, v)
  /\ call' = <<"replace", i, v>>

(* A new object takes the id just above every id that exists.              *)
Create(i, v) ==
  /\ \A u \in used : u < i
  /\ i = 1 \/ i - 1 \in used
  /\ Put(i, v)
  /\ call' = <<"create", i, v>>

(* A reference to an id that does not exist is a reference to null.        *)
Mention(i) ==
  /\ i \notin used
  /\ used' = used \cup {i}
  /\ call' = <<"mention", i>>
  /\ UNCHANGED store

Swap(i, j) ==
  /\ store' = [store EXCEPT ![i] = store[j], ![j] = store[i]]
  /\ used' = used \cup {i, j}
  /\ call' = <<"swap", i, j>>

(* Everything else a program does, reading objects above all, changes no   *)
(* object.                                                                 *)
Read ==
  /\ call' = <<"read">>
  /\ UNCHANGED <<store, used>>

Next ==
  \/ \E i \in Ids, v \in Values : Replace(i, v) \/ Create(i, v)
  \/ \E i \in Ids : Mention(i)
  \/ \E i, j \in Ids : Swap(i, j)
  \/ Read

Spec == Init /\ [][Next]_tableVars
=============================================================================
