--------------------------- MODULE Writer_proofs ---------------------------
(***************************************************************************)
(* The files the writer makes, for every document.  The first half is of   *)
(* Writer, the files that are not linearized, and the second half of       *)
(* Linearizer, which writes with the same handlers and so with the same    *)
(* invariant of the numbers.                                               *)
(*                                                                         *)
(* Files that are not linearized.                                          *)
(*                                                                         *)
(* No two things get one number.  The invariant that carries this says     *)
(* that an object in an object stream has its number no later than the     *)
(* stream, so that the mark of an object that has been met never stays,    *)
(* and that the number set aside for a length is below next_objid.         *)
(*                                                                         *)
(* Such a file is a copy of the graph of objects, provided that nothing in *)
(* it refers to a cross-reference stream: in QDF mode those are left out,  *)
(* and a reference to one is written with the number 0.  The invariant of  *)
(* the second part says which objects have been closed, and that all that  *)
(* is in the file is theirs, so that an object never meets something under *)
(* its number.                                                             *)
(***************************************************************************)
EXTENDS Linearizer, Induction

Types ==
  /\ doc \in Docs
  /\ held \in [Objs -> Objs \cup {None}]
  /\ num \in [Objs -> Nat] /\ next \in Nat \ {0}

WithStream ==
  \A o \in Objs : held[o] # None => /\ held[held[o]] = None
                                    /\ num[held[o]] # 0 => num[o] # 0

Below ==
  \A o \in Objs : /\ num[o] < next
                  /\ num[o] # 0 /\ HasLength(o) /\ held[o] = None => num[o] + 1 < next

Different ==
  \A o, p \in Objs : num[o] # 0 /\ num[p] # 0 =>
    /\ o # p => num[o] # num[p]
    /\ HasLength(o) /\ held[o] = None => num[p] # num[o] + 1

Written == text \in Seq(Int)

Fresh == phase = "config" => num = [o \in Objs |-> 0]

IInv == Types /\ WithStream /\ Below /\ Different /\ Fresh /\ Written

-----------------------------------------------------------------------------
(* The elements of a finite set of numbers have different ranks, which are *)
(* all those from 0 to one less than how many there are.                   *)
LEMMA RanksIn ==
  ASSUME NEW M, M \subseteq Int, IsFiniteSet(M)
  PROVE  LET Lower(o) == Cardinality({p \in M : p < o})
         IN /\ Cardinality(M) \in Nat
            /\ \A o \in M : Lower(o) \in Nat /\ Lower(o) < Cardinality(M)
            /\ \A o, p \in M : o # p => Lower(o) # Lower(p)
            /\ \A k \in 0..(Cardinality(M) - 1) : \E o \in M : Lower(o) = k
<1> DEFINE B(o) == {p \in M : p < o}
<1> DEFINE Lower(o) == Cardinality(B(o))
<1> DEFINE c == Cardinality(M)
<1>1. \A o \in M : IsFiniteSet(B(o)) /\ B(o) \subseteq M
  BY FS_Subset
<1>2. c \in Nat /\ \A o \in M : Lower(o) \in Nat
  BY <1>1, FS_CardinalityType
<1>3. \A o \in M : Lower(o) < c
  <2> SUFFICES ASSUME NEW o \in M PROVE Cardinality(B(o)) < Cardinality(M)
    OBVIOUS
  <2>1. B(o) # M
    <3>1. o \notin B(o)
      OBVIOUS
    <3> QED
      BY <3>1
  <2> QED
    BY <1>1, <1>2, <2>1, FS_Subset
<1>4. ASSUME NEW o \in M, NEW p \in M, o < p
      PROVE  Cardinality(B(o)) < Cardinality(B(p))
  <2>1. o \in B(p) /\ o \notin B(o)
    BY <1>4
  <2>2. ASSUME NEW q \in M, q < o PROVE q < p
    BY <1>4, <2>2
  <2>3. IsFiniteSet(B(p)) /\ B(o) # B(p)
    BY <1>1, <2>1
  <2>4. B(o) \subseteq B(p)
    BY <2>2
  <2> QED
    BY <1>2, <2>3, <2>4, FS_Subset
<1>5. \A o, p \in M : o # p => Lower(o) # Lower(p)
  <2> SUFFICES ASSUME NEW o \in M, NEW p \in M, o # p
               PROVE  Cardinality(B(o)) # Cardinality(B(p))
    OBVIOUS
  <2>1. o < p \/ p < o
    OBVIOUS
  <2>2. Cardinality(B(o)) < Cardinality(B(p)) \/ Cardinality(B(p)) < Cardinality(B(o))
    BY <2>1, <1>4
  <2> QED
    BY <2>2, <1>2
<1>6. ASSUME NEW k \in 0..(c - 1), \A o \in M : Lower(o) # k
      PROVE  FALSE
  <2> DEFINE T == (0..(c - 1)) \ {k}
  <2> DEFINE f == [o \in M |-> Lower(o)]
  <2> HIDE DEF B, Lower, c
  <2>1. f \in [M -> T]
    BY <1>2, <1>3, <1>6
  <2>2. IsFiniteSet(0..(c - 1)) /\ Cardinality(0..(c - 1)) = c
    BY <1>2, <1>6, FS_Interval
  <2>3. IsFiniteSet(T) /\ Cardinality(T) = c - 1
    BY <2>2, <1>6, FS_RemoveElement
  <2>4. Cardinality(T) < Cardinality(M)
    BY <1>2, <2>3 DEF c
  <2> HIDE DEF T, f
  <2>5. PICK x, y \in M : x # y /\ f[x] = f[y]
    BY <2>1, <2>3, <2>4, FS_PigeonHole
  <2>6. Lower(x) = Lower(y)
    BY <2>5 DEF f
  <2> QED
    BY <1>5, <2>5, <2>6
<1> QED
  BY <1>2, <1>3, <1>5, <1>6

(* All elements of a finite set of numbers are sorted.                     *)
LEMMA SortedHasAll ==
  ASSUME NEW S, S \subseteq Int, IsFiniteSet(S)
  PROVE  /\ \E T : Sorted(S) \in Seq(T)
         /\ \A o \in S : \E i \in DOMAIN Sorted(S) : Sorted(S)[i] = o
<1> DEFINE Lower(o) == Cardinality({p \in S : p < o})
<1> DEFINE At(i) == CHOOSE o \in S : Lower(o) = i - 1
<1>1. /\ Cardinality(S) \in Nat
      /\ \A o \in S : Lower(o) \in Nat /\ Lower(o) < Cardinality(S)
      /\ \A o, p \in S : o # p => Lower(o) # Lower(p)
  BY RanksIn
<1>2. Sorted(S) = [i \in 1..Cardinality(S) |-> At(i)]
  BY DEF Sorted
<1> HIDE DEF Lower
<1>3. Sorted(S) \in Seq({At(i) : i \in 1..Cardinality(S)})
  <2> HIDE DEF At
  <2> QED
    BY <1>1, <1>2
<1>4. ASSUME NEW o \in S
      PROVE  \E i \in DOMAIN Sorted(S) : Sorted(S)[i] = o
  <2>1. Lower(o) + 1 \in 1..Cardinality(S) /\ (Lower(o) + 1) - 1 = Lower(o)
    BY <1>1
  <2>2. At(Lower(o) + 1) = o
    BY <1>1, <2>1
  <2> HIDE DEF At
  <2> QED
    BY <1>2, <2>1, <2>2
<1> QED
  BY <1>3, <1>4

(* So have the objects of a stream.                                        *)
LEMMA Ranks ==
  ASSUME NEW s \in Objs
  PROVE  /\ Cardinality(Members(s)) \in Nat
         /\ \A o \in Members(s) : Rank(o) \in Nat /\ Rank(o) < Cardinality(Members(s))
         /\ \A o, p \in Members(s) : o # p => Rank(o) # Rank(p)
         /\ \A k \in 0..(Cardinality(Members(s)) - 1) : \E o \in Members(s) : Rank(o) = k
<1> DEFINE M == Members(s)
<1>1. IsFiniteSet(M) /\ M \subseteq Objs
  BY ConstantsAssumption, FS_Subset DEF Members
<1>2. Objs \subseteq Int
  BY ConstantsAssumption
<1>3. \A o \in M : Rank(o) = Cardinality({p \in M : p < o})
  BY DEF Rank, Members
<1> HIDE DEF M
<1>4. M \subseteq Int
  BY <1>1, <1>2
<1> DEFINE Lower(o) == Cardinality({p \in M : p < o})
<1>5. /\ Cardinality(M) \in Nat
      /\ \A o \in M : Lower(o) \in Nat /\ Lower(o) < Cardinality(M)
      /\ \A o, p \in M : o # p => Lower(o) # Lower(p)
      /\ \A k \in 0..(Cardinality(M) - 1) : \E o \in M : Lower(o) = k
  BY <1>1, <1>4, RanksIn
<1>6. \A o \in M : Rank(o) = Lower(o)
  BY <1>3
<1> HIDE DEF Lower
<1>7. /\ Cardinality(M) \in Nat
      /\ \A o \in M : Rank(o) \in Nat /\ Rank(o) < Cardinality(M)
      /\ \A o, p \in M : o # p => Rank(o) # Rank(p)
      /\ \A k \in 0..(Cardinality(M) - 1) : \E o \in M : Rank(o) = k
  BY <1>5, <1>6
<1> QED
  BY <1>7 DEF M

-----------------------------------------------------------------------------
(* The numbers after o has been put on the queue, where old are those      *)
(* before, or those with a mark at an object in o.                         *)
LEMMA PushKeeps ==
  ASSUME Types, WithStream, Below, Different,
         NEW s \in Objs, held[s] = None, num[s] = 0,
         NEW old \in [Objs -> Int],
         \A o \in Objs : old[o] = num[o] \/ held[o] = s,
         Push(s, old)
  PROVE  /\ num' \in [Objs -> Nat] /\ next' \in Nat \ {0}
         /\ \A o \in Objs : held[o] # None => (num'[held[o]] # 0 => num'[o] # 0)
         /\ \A o \in Objs :
              /\ num'[o] < next'
              /\ num'[o] # 0 /\ HasLength(o) /\ held[o] = None => num'[o] + 1 < next'
         /\ \A o, p \in Objs : num'[o] # 0 /\ num'[p] # 0 =>
              /\ o # p => num'[o] # num'[p]
              /\ HasLength(o) /\ held[o] = None => num'[p] # num'[o] + 1
<1> DEFINE M == Members(s)
<1> DEFINE c == Cardinality(M)
<1>1. /\ c \in Nat
      /\ \A o \in M : Rank(o) \in Nat /\ Rank(o) < c
      /\ \A o, p \in M : o # p => Rank(o) # Rank(p)
  BY Ranks
<1>2. \A o \in Objs : o \in M <=> held[o] = s
  BY DEF Members
<1>3. num' = [o \in Objs |-> IF o = s THEN next
                            ELSE IF held[o] = s THEN next + 1 + Rank(o) ELSE old[o]]
  BY DEF Push, Renumbered
<1>4. num' = [o \in Objs |-> IF o = s THEN next
                            ELSE IF o \in M THEN next + 1 + Rank(o) ELSE num[o]]
  BY <1>2, <1>3
<1>5. /\ next' \in Nat /\ next' >= next + 1 + c
      /\ HasLength(s) => M = {} /\ next' = next + 2
  <2>1. next' = next + 1 + c + (IF HasLength(s) THEN 1 ELSE 0)
    <3>1. Members(s) = M
      BY DEF Members
    <3>2. next' = next + 1 + (Cardinality(Members(s)) + (IF HasLength(s) THEN 1 ELSE 0))
      BY DEF Push, Reserved
    <3>3. next' = next + 1 + (c + (IF HasLength(s) THEN 1 ELSE 0))
      BY <3>1, <3>2
    <3> HIDE DEF c, M
    <3> QED
      BY <1>1, <3>3 DEF Types
  <2>2. HasLength(s) => M = {}
    BY DEF HasLength, Members
  <2>3. M = {} => c = 0
    BY FS_EmptySet
  <2> QED
    BY <1>1, <2>1, <2>2, <2>3 DEF Types
<1>6. \A o \in Objs :
        \/ o = s /\ num'[o] = next
        \/ o # s /\ o \in M /\ num'[o] = next + 1 + Rank(o) /\ held[o] # None
        \/ o # s /\ o \notin M /\ num'[o] = num[o]
  <2>1. \A o \in M : held[o] # None
    BY ConstantsAssumption DEF Members
  <2> HIDE DEF M, c
  <2> QED
    BY <1>4, <2>1
<1> HIDE DEF M, c
<1>7. num' \in [Objs -> Nat] /\ next' \in Nat \ {0}
  <2>1. \A o \in Objs : num'[o] \in Nat
    BY <1>1, <1>6 DEF Types
  <2>2. next' # 0
    BY <1>1, <1>5 DEF Types
  <2> QED
    BY <1>4, <1>5, <2>1, <2>2
<1>8. ASSUME NEW o \in Objs, held[o] # None, num'[held[o]] # 0
      PROVE  num'[o] # 0
  <2>1. held[o] \in Objs /\ held[held[o]] = None
    BY <1>8 DEF Types, WithStream
  <2>2. held[o] = s \/ num'[held[o]] = num[held[o]]
    BY <1>6, <2>1
  <2>3. held[o] = s => o \in M
    BY <1>2
  <2> QED
    BY <1>1, <1>6, <1>8, <2>2, <2>3 DEF Types, WithStream
<1>9. ASSUME NEW o \in Objs
      PROVE  /\ num'[o] < next'
             /\ num'[o] # 0 /\ HasLength(o) /\ held[o] = None => num'[o] + 1 < next'
  BY <1>1, <1>5, <1>6 DEF Types, Below
<1>10. ASSUME NEW o \in Objs, NEW p \in Objs, num'[o] # 0, num'[p] # 0
       PROVE  /\ o # p => num'[o] # num'[p]
              /\ HasLength(o) /\ held[o] = None => num'[p] # num'[o] + 1
  <2>1. CASE o \in M /\ o # s
    BY <1>1, <1>6, <1>10, <2>1 DEF Types, Below
  <2>2. CASE o = s
    <3>1. o # p => num'[o] # num'[p]
      BY <1>1, <1>6, <1>10, <2>2 DEF Types, Below
    <3>2. HasLength(o) => num'[p] # num'[o] + 1
      BY <1>1, <1>5, <1>6, <1>10, <2>2 DEF Types, Below
    <3> QED
      BY <3>1, <3>2
  <2>3. CASE o \notin M /\ o # s
    BY <1>1, <1>6, <1>10, <2>3 DEF Types, Below, Different
  <2> QED
    BY <2>1, <2>2, <2>3
<1> QED
  BY <1>7, <1>8, <1>9, <1>10

(* Enqueuing keeps the invariant.                                          *)
LEMMA EnqueueKeeps ==
  ASSUME IInv, NEW o \in Objs, Enqueue(o), UNCHANGED docVars, phase # "config"
  PROVE  (Types /\ WithStream /\ Below /\ Different)'
<1> USE DEF IInv
<1>1. HasLength(o) = HasLength(o)' 
  BY DEF HasLength, docVars, Members
<1>2. \A p \in Objs : HasLength(p)' = HasLength(p)
  BY DEF HasLength, docVars, Members
<1>3. CASE num' = num /\ next' = next
  BY <1>2, <1>3 DEF Types, WithStream, Below, Different, docVars
<1>4. ASSUME NEW s \in Objs, held[s] = None, num[s] = 0, NEW old \in [Objs -> Int],
             \A p \in Objs : old[p] = num[p] \/ held[p] = s,
             Push(s, old)
      PROVE  (Types /\ WithStream /\ Below /\ Different)'
  BY <1>2, <1>4, PushKeeps DEF Types, WithStream, Below, Different, docVars
<1>5. CASE num[o] # 0 \/ Skipped(o)
  BY <1>3, <1>5 DEF Enqueue, numVars
<1>6. CASE num[o] = 0 /\ held[o] = None /\ ~Skipped(o)
  <2>1. Push(o, num) /\ num \in [Objs -> Int]
    BY <1>6 DEF Enqueue, Types
  <2> QED
    BY <1>4, <1>6, <2>1
<1>7. CASE num[o] = 0 /\ held[o] # None /\ ~Skipped(o)
  <2>1. held[o] \in Objs /\ held[held[o]] = None /\ num[held[o]] = 0
    BY <1>7 DEF Types, WithStream
  <2>2. Push(held[o], Marked(o))
    BY <1>7, <2>1 DEF Enqueue
  <2>3. /\ Marked(o) \in [Objs -> Int]
        /\ \A p \in Objs : Marked(o)[p] = num[p] \/ held[p] = held[o]
    BY DEF Marked, Types
  <2> QED
    BY <1>4, <2>1, <2>2, <2>3
<1> QED
  BY <1>5, <1>6, <1>7

-----------------------------------------------------------------------------
LEMMA InitInvariant == Init => IInv
  BY DEF Init, IInv, Types, WithStream, Below, Different, Fresh, Written

(* What leaves numbers, documents and settings alone keeps the invariant.  *)
LEMMA QuietKeeps ==
  ASSUME IInv, UNCHANGED <<docVars, num, next>>, phase' # "config" \/ phase' = phase,
         text' \in Seq(Int)
  PROVE  IInv'
<1>1. \A p \in Objs : HasLength(p)' = HasLength(p)
  BY DEF HasLength, docVars, Members
<1> QED
  BY <1>1 DEF IInv, Types, WithStream, Below, Different, Fresh, Written, docVars

LEMMA StepKeeps == IInv /\ [Next]_vars => IInv'
<1> SUFFICES ASSUME IInv, [Next]_vars PROVE IInv'
  OBVIOUS
<1>1. CASE Setting
  BY <1>1 DEF Setting, IInv, Types, WithStream, Below, Different, Fresh, Written, numVars, outVars
<1>2. CASE Setup
  BY <1>2 DEF Setup, IInv, Types, WithStream, Below, Different, Fresh, Written, numVars, outVars, HasRoom
<1>3. CASE EnqueueObject
  <2>1. PICK o \in Objs : Enqueue(o)
    BY <1>3 DEF EnqueueObject
  <2>2. UNCHANGED docVars /\ phase # "config" /\ phase' = phase /\ text' = text
    BY <1>3 DEF EnqueueObject, outVars
  <2> QED
    BY <2>1, <2>2, EnqueueKeeps DEF IInv, Fresh, Written
<1>4. CASE UnparseChild
  <2>1. UNCHANGED docVars /\ phase # "config" /\ phase' = phase
    BY <1>4 DEF UnparseChild
  <2> DEFINE child == Refs(now)[Len(text) + 1]
  <2>2. child \in Objs
    <3>1. \/ now \in doc.table /\ Refs(now) = doc.refs[now]
          \/ Refs(now) = <<>>
      BY DEF Refs
    <3>2. Len(text) \in Nat /\ Len(text) < Len(Refs(now))
      BY <1>4 DEF UnparseChild, IInv, Written
    <3>3. doc.table \subseteq Objs /\ doc.refs \in [Objs -> Seq(doc.table)]
      BY ConstantsAssumption DEF IInv, Types, IsDoc
    <3>4. now \in doc.table /\ Refs(now) = doc.refs[now]
      BY <3>1, <3>2
    <3>5. Refs(now) \in Seq(doc.table) /\ Len(text) + 1 \in 1..Len(Refs(now))
      BY <3>2, <3>3, <3>4
    <3>6. child \in doc.table
      BY <3>5
    <3> QED
      BY <3>3, <3>6
  <2>3. (cfg.linearize /\ UNCHANGED <<num, next>>) \/ Enqueue(child)
    BY <1>4 DEF UnparseChild, numVars
  <2>4. (Types /\ WithStream /\ Below /\ Different)'
    <3>1. CASE UNCHANGED <<num, next>>
      <4>1. \A p \in Objs : HasLength(p)' = HasLength(p)
        BY <2>1 DEF HasLength, docVars, Members
      <4> QED
        BY <2>1, <3>1, <4>1 DEF IInv, Types, WithStream, Below, Different, docVars
    <3> HIDE DEF child
    <3> QED
      BY <2>1, <2>2, <2>3, <3>1, EnqueueKeeps
  <2>5. text' \in Seq(Int)
    <3>1. num'[child] \in Int
      BY <2>2, <2>4 DEF Types
    <3> QED
      BY <1>4, <3>1 DEF UnparseChild, IInv, Written
  <2> QED
    BY <2>1, <2>4, <2>5 DEF IInv, Fresh, Written
<1>5. CASE StartWriting \/ WriteNext \/ CloseObject
  <2>1. UNCHANGED <<docVars, num, next>> /\ (phase' # "config" \/ phase' = phase)
    BY <1>5 DEF StartWriting, WriteNext, CloseObject, numVars
  <2>2. text' \in Seq(Int)
    <3>1. text' = text \/ text' = <<>>
      BY <1>5 DEF StartWriting, WriteNext, CloseObject, outVars
    <3>2. text \in Seq(Int) /\ <<>> \in Seq(Int)
      BY DEF IInv, Written
    <3> QED
      BY <3>1, <3>2
  <2> QED
    BY <2>1, <2>2, QuietKeeps
<1>6. CASE CloseFile
  <2>1. Specials \in Nat
    BY DEF Specials
  <2>2. \A p \in Objs : HasLength(p)' = HasLength(p)
    BY <1>6 DEF CloseFile, HasLength, docVars, Members
  <2>3. next' = next + Specials /\ num' = num /\ UNCHANGED docVars /\ phase' # "config"
        /\ text' = text
    BY <1>6 DEF CloseFile
  <2> QED
    BY <2>1, <2>2, <2>3 DEF IInv, Types, WithStream, Below, Different, Fresh, Written, docVars
<1>7. CASE UNCHANGED vars
  BY <1>7, QuietKeeps DEF vars, numVars, outVars, IInv, Written
<1> QED
  BY <1>1, <1>2, <1>3, <1>4, <1>5, <1>6, <1>7 DEF Next, Work

(* No two objects written get the same number.                             *)
THEOREM WriterNumbersUnique == Spec => []NumbersUnique
<1>1. IInv => NumbersUnique
  BY DEF IInv, Types, Below, Different, NumbersUnique, Numbered
<1> QED
  BY <1>1, InitInvariant, StepKeeps, PTL DEF Spec

-----------------------------------------------------------------------------
(* The file is a copy.                                                     *)

XrefsUnused ==
  \A d \in Docs : \A o \in Objs : \A i \in DOMAIN d.refs[o] : d.refs[o][i] \notin d.xrefs

(* An object in an object stream has a number if and only if that has.     *)
Paired == \A o \in Objs : held[o] # None => (num[o] # 0 <=> num[held[o]] # 0)

Queued ==
  /\ queue \in Seq(Objs)
  /\ \A i \in DOMAIN queue : held[queue[i]] = None /\ num[queue[i]] # 0
  /\ \A i, j \in DOMAIN queue : queue[i] = queue[j] => i = j

(* Whose turn it is: an object that is in the object stream at the front,  *)
(* or, when none of those is left, what is at the front.                   *)
Turn ==
  /\ front \in Nat /\ front <= Len(queue)
  /\ now # None => /\ front # 0 /\ rest \subseteq Members(Current)
                   /\ (now = Current /\ rest = {}) \/ now \in rest

Transcribed ==
  now # None => /\ Len(text) <= Len(Refs(now))
                /\ \A i \in DOMAIN text : text[i] # 0 /\ text[i] = num[Refs(now)[i]]

(* Objects that have been written to the end.                              *)
Place(o) == IF held[o] = None THEN o ELSE held[o]
Closed(o) ==
  \E i \in DOMAIN queue :
    /\ queue[i] = Place(o) /\ i <= front
    /\ i < front \/ now = None \/ (o # Current /\ o \notin rest)

Filed ==
  phase # "done" =>
    \A n \in DOMAIN file : \E o \in Objs :
      /\ Closed(o) /\ num[o] # 0
      /\ n = num[o] \/ (HasLength(o) /\ held[o] = None /\ n = num[o] + 1)

Stages ==
  /\ phase = "config" => file = << >> /\ queue = <<>> /\ front = 0 /\ now = None
  /\ phase \in {"enqueue", "write"} => ~cfg.linearize

CInv == IInv /\ Paired /\ Queued /\ Turn /\ Transcribed /\ Filed /\ Stages

-----------------------------------------------------------------------------
(* Numbers that are given are new, and the others stay.                    *)
GivenTo(s) ==
  /\ s \in Objs /\ held[s] = None /\ num[s] = 0
  /\ \A o \in Objs : \/ o = s /\ num'[o] = next
                     \/ o # s /\ held[o] = s /\ num'[o] \in Nat /\ num'[o] > next
                     \/ o # s /\ held[o] # s /\ num'[o] = num[o]
  /\ next' \in Nat /\ next' > next
  /\ \A n \in next..(next' - 1) :
       (\E o \in Objs : num'[o] = n) \/ (HasLength(s) /\ n = next + 1)
  /\ queue' = Append(queue, s)

LEMMA PushMoves ==
  ASSUME Types, NEW s \in Objs, held[s] = None, num[s] = 0, NEW old \in [Objs -> Int],
         \A o \in Objs : old[o] = num[o] \/ held[o] = s,
         Push(s, old)
  PROVE  GivenTo(s)
<1> DEFINE M == Members(s)
<1>1. /\ Cardinality(M) \in Nat /\ \A o \in M : Rank(o) \in Nat
      /\ \A k \in 0..(Cardinality(M) - 1) : \E o \in M : Rank(o) = k
  BY Ranks
<1>2. \A o \in Objs : o \in M <=> held[o] = s
  BY DEF Members
<1>3. num' = [o \in Objs |-> IF o = s THEN next
                            ELSE IF held[o] = s THEN next + 1 + Rank(o) ELSE old[o]]
  BY DEF Push, Renumbered
<1>4. \A o \in Objs : \/ o = s /\ num'[o] = next
                      \/ o # s /\ o \in M /\ num'[o] = next + 1 + Rank(o)
                      \/ o # s /\ o \notin M /\ num'[o] = num[o]
  BY <1>2, <1>3
<1>5. Members(s) = M
  BY DEF Members
<1>6. next' = next + 1 + (Cardinality(M) + (IF HasLength(s) THEN 1 ELSE 0))
  BY <1>5 DEF Push, Reserved
<1>7. queue' = Append(queue, s)
  BY DEF Push
<1>8. M \subseteq Objs
  BY DEF Members
<1> HIDE DEF M
<1>9. next' \in Nat /\ next' > next
  BY <1>1, <1>6 DEF Types
<1>10. \A o \in M : next + 1 + Rank(o) \in Nat /\ next + 1 + Rank(o) > next
  BY <1>1 DEF Types
<1>11. \A o \in M : num'[o] = next + 1 + Rank(o)
  <2>1. s \notin M
    BY <1>2, ConstantsAssumption
  <2> QED
    BY <1>4, <1>8, <2>1
<1>12. ASSUME NEW n \in next..(next' - 1)
       PROVE  (\E o \in Objs : num'[o] = n) \/ (HasLength(s) /\ n = next + 1)
  <2>1. CASE n = next
    BY <1>4, <2>1
  <2>2. CASE n - next - 1 \in 0..(Cardinality(M) - 1)
    <3>1. PICK o \in M : Rank(o) = n - next - 1
      BY <1>1, <2>2
    <3>2. num'[o] = n /\ o \in Objs
      BY <1>8, <1>11, <3>1 DEF Types
    <3> QED
      BY <3>2
  <2>3. CASE n # next /\ n - next - 1 \notin 0..(Cardinality(M) - 1)
    <3>1. HasLength(s)
      BY <1>1, <1>6, <2>3 DEF Types
    <3>2. M = {}
      BY <1>5, <3>1 DEF HasLength
    <3>3. Cardinality(M) = 0
      BY <3>2, FS_EmptySet
    <3>4. next' = next + 2
      BY <1>6, <3>1, <3>3 DEF Types
    <3> QED
      BY <2>3, <3>1, <3>4 DEF Types
  <2> QED
    BY <2>1, <2>2, <2>3
<1> QED
  BY <1>2, <1>4, <1>7, <1>9, <1>10, <1>12 DEF GivenTo

LEMMA EnqueueMoves ==
  ASSUME CInv, NEW o \in Objs, Enqueue(o)
  PROVE  \/ UNCHANGED numVars /\ (num[o] # 0 \/ Skipped(o))
         \/ GivenTo(Place(o))
<1> USE DEF CInv, IInv
<1>1. CASE num[o] # 0 \/ Skipped(o)
  BY <1>1 DEF Enqueue
<1>2. CASE num[o] = 0 /\ ~Skipped(o) /\ held[o] = None
  <2>1. Push(o, num) /\ num \in [Objs -> Int]
    BY <1>2 DEF Enqueue, Types
  <2>2. GivenTo(o)
    BY <1>2, <2>1, PushMoves
  <2> QED
    BY <1>2, <2>2 DEF Place
<1>3. CASE num[o] = 0 /\ ~Skipped(o) /\ held[o] # None
  <2>1. held[o] \in Objs /\ held[held[o]] = None /\ num[held[o]] = 0
    BY <1>3 DEF Types, WithStream, Paired
  <2>2. Push(held[o], Marked(o))
    BY <1>3, <2>1 DEF Enqueue
  <2>3. /\ Marked(o) \in [Objs -> Int]
        /\ \A p \in Objs : Marked(o)[p] = num[p] \/ held[p] = held[o]
    BY DEF Marked, Types
  <2>4. GivenTo(held[o])
    BY <2>1, <2>2, <2>3, PushMoves
  <2> QED
    BY <1>3, <2>4 DEF Place
<1> QED
  BY <1>1, <1>2, <1>3

(* What has a number keeps it, and new numbers are above all in use.       *)
LEMMA MovedNumbers ==
  ASSUME CInv, NEW s, GivenTo(s), NEW o \in Objs
  PROVE  /\ num'[o] \in Nat
         /\ num[o] # 0 => num'[o] = num[o]
         /\ num[o] = 0 => num'[o] = 0 \/ num'[o] >= next
<1>1. s \in Objs /\ num[s] = 0 /\ s # None
  BY ConstantsAssumption DEF GivenTo
<1>2. held[o] = s => num[o] = 0
  BY <1>1 DEF CInv, Paired
<1>3. num[o] \in Nat /\ next \in Nat
  BY DEF CInv, IInv, Types
<1>4. \/ o = s /\ num'[o] = next
      \/ held[o] = s /\ num'[o] \in Int /\ num'[o] > next
      \/ o # s /\ held[o] # s /\ num'[o] = num[o]
  BY DEF GivenTo
<1> QED
  BY <1>1, <1>2, <1>3, <1>4

(* What is added at the end of the queue leaves it in order.               *)
LEMMA Appended ==
  ASSUME NEW S, NEW q \in Seq(S), NEW s \in S
  PROVE  LET r == Append(q, s) IN
         /\ r \in Seq(S) /\ Len(r) = Len(q) + 1 /\ Len(q) \in Nat
         /\ DOMAIN q = 1..Len(q) /\ DOMAIN r = 1..(Len(q) + 1)
         /\ \A i \in DOMAIN q : i \in DOMAIN r /\ r[i] = q[i] /\ q[i] \in S
         /\ r[Len(q) + 1] = s
         /\ \A i \in DOMAIN r : i \in DOMAIN q \/ i = Len(q) + 1
  OBVIOUS

(* Giving numbers disturbs nothing of what has been written.               *)
LEMMA MovedKeeps ==
  ASSUME CInv, NEW s, GivenTo(s), UNCHANGED <<docVars, phase, front, rest, now, file>>
  PROVE  (Paired /\ Queued /\ Turn /\ Filed)'
<1>1. /\ s \in Objs /\ held[s] = None /\ num[s] = 0 /\ s # None
      /\ queue' = Append(queue, s) /\ num'[s] = next
  BY ConstantsAssumption DEF GivenTo
<1>2. next \in Nat \ {0} /\ num \in [Objs -> Nat] /\ held \in [Objs -> Objs \cup {None}]
  BY DEF CInv, IInv, Types
<1>3. Paired'
  <2> SUFFICES ASSUME NEW o \in Objs, held[o] # None
               PROVE  num'[o] # 0 <=> num'[held[o]] # 0
    BY DEF Paired, docVars
  <2>1. held[o] \in Objs /\ held[held[o]] = None /\ (num[o] # 0 <=> num[held[o]] # 0)
    BY <1>2 DEF CInv, IInv, WithStream, Paired
  <2>2. CASE held[o] = s
    BY <1>1, <1>2, <2>1, <2>2 DEF GivenTo
  <2>3. CASE held[o] # s
    BY <1>1, <2>1, <2>3 DEF GivenTo
  <2> QED
    BY <2>2, <2>3
<1>4. /\ queue \in Seq(Objs)
      /\ \A i \in DOMAIN queue : queue[i] \in Objs /\ held[queue[i]] = None /\ num[queue[i]] # 0
      /\ \A i, j \in DOMAIN queue : queue[i] = queue[j] => i = j
  BY DEF CInv, Queued
<1>5. /\ queue' \in Seq(Objs) /\ Len(queue') = Len(queue) + 1 /\ Len(queue) \in Nat
      /\ DOMAIN queue = 1..Len(queue) /\ DOMAIN queue' = 1..(Len(queue) + 1)
      /\ \A i \in DOMAIN queue : i \in DOMAIN queue' /\ queue'[i] = queue[i]
      /\ queue'[Len(queue) + 1] = s
      /\ \A i \in DOMAIN queue' : i \in DOMAIN queue \/ i = Len(queue) + 1
  BY <1>1, <1>4, Appended
<1>6. Queued'
  <2>1. \A i \in DOMAIN queue' : held[queue'[i]] = None /\ num'[queue'[i]] # 0
    BY <1>1, <1>2, <1>4, <1>5, MovedNumbers
  <2>2. \A i, j \in DOMAIN queue' : queue'[i] = queue'[j] => i = j
    BY <1>1, <1>4, <1>5
  <2> QED
    BY <1>5, <2>1, <2>2 DEF Queued, docVars
<1>7. front \in Nat /\ front <= Len(queue) /\ (front # 0 => Current' = Current)
  <2>1. front \in Nat /\ front <= Len(queue)
    BY DEF CInv, Turn
  <2>2. front # 0 => front \in DOMAIN queue
    BY <1>5, <2>1
  <2> QED
    BY <1>5, <2>1, <2>2 DEF Current
<1>8. \A o : Members(o)' = Members(o)
  BY DEF Members, docVars
<1>9. Turn'
  <2>1. front <= Len(queue')
    BY <1>5, <1>7
  <2>2. now # None => front # 0
    BY DEF CInv, Turn
  <2> QED
    BY <1>7, <1>8, <2>1, <2>2 DEF CInv, Turn
<1>10. \A o \in Objs : Closed(o) => Closed(o)'
  <2> SUFFICES ASSUME NEW o \in Objs, Closed(o) PROVE Closed(o)'
    OBVIOUS
  <2>1. PICK i \in DOMAIN queue :
          /\ queue[i] = Place(o) /\ i <= front
          /\ i < front \/ now = None \/ (o # Current /\ o \notin rest)
    BY DEF Closed
  <2>2. i \in DOMAIN queue' /\ queue'[i] = Place(o)' /\ front # 0
    BY <1>5, <1>7, <2>1 DEF Place, docVars
  <2> QED
    BY <1>7, <2>1, <2>2 DEF Closed
<1>11. \A o \in Objs : HasLength(o)' = HasLength(o)
  BY <1>8 DEF HasLength, docVars
<1>12. Filed'
  <2> SUFFICES ASSUME phase # "done", NEW n \in DOMAIN file
               PROVE  \E o \in Objs :
                        /\ Closed(o)' /\ num'[o] # 0
                        /\ n = num'[o] \/ (HasLength(o)' /\ held'[o] = None /\ n = num'[o] + 1)
    BY DEF Filed
  <2>1. PICK o \in Objs :
          /\ Closed(o) /\ num[o] # 0
          /\ n = num[o] \/ (HasLength(o) /\ held[o] = None /\ n = num[o] + 1)
    BY DEF CInv, Filed
  <2>2. num'[o] = num[o]
    BY <2>1, MovedNumbers
  <2> QED
    BY <1>10, <1>11, <2>1, <2>2 DEF docVars
<1> QED
  BY <1>3, <1>6, <1>9, <1>12

-----------------------------------------------------------------------------
LEMMA FirstIsIn ==
  ASSUME NEW S, S \subseteq Objs, S # {}
  PROVE  First(S) \in S
<1>1. S \subseteq Nat
  BY ConstantsAssumption
<1>2. PICK o \in S : \A p \in S : <<p, o>> \notin OpToRel(<, Nat)
  BY <1>1, NatLessThanWellFounded, WFMin
<1>3. \A p \in S : o <= p
  <2> SUFFICES ASSUME NEW p \in S PROVE o <= p
    OBVIOUS
  <2>1. o \in Nat /\ p \in Nat
    BY <1>1
  <2>2. ~(p < o)
    BY <1>2, <2>1 DEF OpToRel
  <2> QED
    BY <2>1, <2>2
<1> QED
  BY <1>3 DEF First

(* The object being written is at the front of the queue, or in what is.   *)
LEMMA AtWork ==
  ASSUME CInv, now # None
  PROVE  /\ now \in Objs /\ num[now] # 0 /\ ~Closed(now)
         /\ front \in DOMAIN queue /\ Current = queue[front] /\ Place(now) = Current
         /\ now # Current => held[now] = Current
<1>1. /\ queue \in Seq(Objs)
      /\ \A i \in DOMAIN queue : queue[i] \in Objs /\ held[queue[i]] = None /\ num[queue[i]] # 0
      /\ \A i, j \in DOMAIN queue : queue[i] = queue[j] => i = j
      /\ front \in Nat /\ front <= Len(queue) /\ front # 0
      /\ rest \subseteq Members(Current)
      /\ (now = Current /\ rest = {}) \/ now \in rest
  BY DEF CInv, Queued, Turn
<1>2. front \in DOMAIN queue /\ Current = queue[front] /\ Current # None
  BY <1>1, ConstantsAssumption DEF Current
<1>3. now = Current \/ (now \in Objs /\ held[now] = Current)
  BY <1>1 DEF Members
<1>4. now \in Objs /\ num[now] # 0 /\ Place(now) = Current
  BY <1>1, <1>2, <1>3 DEF CInv, Paired, Place
<1>5. ~Closed(now)
  <2> SUFFICES ASSUME Closed(now) PROVE FALSE
    OBVIOUS
  <2>1. PICK i \in DOMAIN queue :
          /\ queue[i] = Current /\ i <= front
          /\ i < front \/ (now # Current /\ now \notin rest)
    BY <1>4 DEF Closed
  <2>2. i = front
    BY <1>1, <1>2, <2>1
  <2> QED
    BY <1>1, <2>1, <2>2
<1> QED
  BY <1>2, <1>3, <1>4, <1>5

LEMMA CopyInit == Init => CInv
<1> SUFFICES ASSUME Init PROVE CInv
  OBVIOUS
<1>1. DOMAIN file = {}
  BY DEF Init
<1> QED
  BY <1>1, InitInvariant DEF Init, CInv, Paired, Queued, Turn, Transcribed, Filed, Stages

-----------------------------------------------------------------------------
(* What is referred to is an object that is to be written.                 *)
LEMMA ChildIsObject ==
  ASSUME CInv, XrefsUnused, now # None, NEW i \in 1..Len(Refs(now))
  PROVE  /\ Len(Refs(now)) \in Nat
         /\ Refs(now)[i] \in Objs /\ ~Skipped(Refs(now)[i])
<1>1. \/ now \in doc.table /\ Refs(now) = doc.refs[now]
      \/ Refs(now) = <<>>
  BY DEF Refs
<1>2. doc \in Docs /\ doc.table \subseteq Objs /\ doc.refs \in [Objs -> Seq(doc.table)]
  BY ConstantsAssumption DEF CInv, IInv, Types, IsDoc
<1>3. now \in doc.table /\ Refs(now) = doc.refs[now]
  BY <1>1
<1>4. Refs(now) \in Seq(doc.table) /\ i \in DOMAIN Refs(now)
  BY <1>2, <1>3
<1> QED
  BY <1>2, <1>3, <1>4 DEF XrefsUnused, Skipped

(* Where a reference is written, its object has a number.                  *)
LEMMA UnparseKeeps ==
  ASSUME CInv, XrefsUnused, UnparseChild
  PROVE  /\ (Paired /\ Queued /\ Turn /\ Filed /\ Transcribed)'
         /\ numVars' = numVars \/ \E s \in Objs : GivenTo(s)
<1> DEFINE child == Refs(now)[Len(text) + 1]
<1>1. /\ phase = "write" /\ now # None /\ ~cfg.linearize
      /\ Len(text) \in Nat /\ text \in Seq(Int) /\ Len(text) < Len(Refs(now))
      /\ Enqueue(child) /\ text' = Append(text, num'[child])
      /\ UNCHANGED <<docVars, phase, front, todo, rest, now, file>>
  BY DEF UnparseChild, CInv, IInv, Written, Stages
<1>2. Len(text) + 1 \in 1..Len(Refs(now)) /\ Len(Refs(now)) \in Nat
  <2>1. Len(Refs(now)) \in Nat
    <3>1. Refs(now) = <<>> \/ (now \in doc.table /\ Refs(now) = doc.refs[now])
      BY DEF Refs
    <3>2. doc.table \subseteq Objs /\ doc.refs \in [Objs -> Seq(doc.table)]
      BY ConstantsAssumption DEF CInv, IInv, Types, IsDoc
    <3> QED
      BY <3>1, <3>2
  <2> QED
    BY <1>1, <2>1
<1>3. child \in Objs /\ ~Skipped(child)
  BY <1>1, <1>2, ChildIsObject
<1> HIDE DEF child
<1>4. \/ UNCHANGED numVars /\ num[child] # 0
      \/ GivenTo(Place(child))
  BY <1>1, <1>3, EnqueueMoves
<1>5. num'[child] # 0 /\ \A o \in Objs : num[o] # 0 => num'[o] = num[o]
  <2>1. CASE GivenTo(Place(child))
    <3>1. Place(child) = child \/ held[child] = Place(child)
      BY DEF Place
    <3>2. num'[child] # 0
      BY <1>3, <2>1, <3>1, ConstantsAssumption DEF GivenTo, CInv, IInv, Types
    <3> QED
      BY <2>1, <3>2, MovedNumbers
  <2> QED
    BY <1>4, <2>1 DEF numVars
<1>6. (Paired /\ Queued /\ Turn /\ Filed)'
  <2>1. CASE UNCHANGED numVars
    <3>1. \A o : HasLength(o)' = HasLength(o) /\ Closed(o)' = Closed(o)
      BY <1>1, <2>1 DEF HasLength, Closed, Place, Current, Members, docVars, numVars
    <3>2. \A o : Members(o)' = Members(o)
      BY <1>1 DEF Members, docVars
    <3> QED
      BY <1>1, <2>1, <3>1, <3>2
         DEF CInv, Paired, Queued, Turn, Filed, Current, docVars, numVars
  <2> QED
    BY <1>1, <1>4, <2>1, MovedKeeps
<1>7. Transcribed'
  <2>1. Refs(now)' = Refs(now)
    BY <1>1 DEF Refs, docVars
  <2>2. num'[child] \in Nat
    BY <1>3, <1>4, MovedNumbers DEF numVars, CInv, IInv, Types
  <2>3. /\ Len(text') = Len(text) + 1
        /\ DOMAIN text = 1..Len(text) /\ DOMAIN text' = 1..(Len(text) + 1)
        /\ \A i \in DOMAIN text : text'[i] = text[i]
        /\ text'[Len(text) + 1] = num'[child]
    BY <1>1, <2>2
  <2>4. \A i \in DOMAIN text' : text'[i] # 0 /\ text'[i] = num'[Refs(now)[i]]
    <3> SUFFICES ASSUME NEW i \in DOMAIN text'
                 PROVE  text'[i] # 0 /\ text'[i] = num'[Refs(now)[i]]
      OBVIOUS
    <3>1. CASE i = Len(text) + 1
      BY <1>5, <2>3, <3>1 DEF child
    <3>2. CASE i \in DOMAIN text
      <4>1. text[i] # 0 /\ text[i] = num[Refs(now)[i]]
        BY <1>1, <3>2 DEF CInv, Transcribed
      <4>2. i \in 1..Len(Refs(now))
        BY <1>1, <1>2, <2>3, <3>2
      <4>3. Refs(now)[i] \in Objs
        BY <1>1, <4>2, ChildIsObject
      <4> QED
        BY <1>5, <2>3, <3>2, <4>1, <4>3
    <3> QED
      BY <1>1, <2>3, <3>1, <3>2
  <2>5. Len(text') <= Len(Refs(now))
    BY <1>1, <1>2, <2>3
  <2> QED
    BY <1>1, <2>1, <2>4, <2>5 DEF Transcribed
<1>8. Place(child) \in Objs
  BY <1>3, ConstantsAssumption DEF Place, CInv, IInv, Types
<1> QED
  BY <1>4, <1>6, <1>7, <1>8

-----------------------------------------------------------------------------
(* What is put into the file when an object is closed.                     *)
LEMMA Closing ==
  ASSUME CloseObject
  PROVE  LET extra == HasLength(now) /\ held[now] = None
             added == IF extra THEN {num[now], num[now] + 1} ELSE {num[now]}
         IN /\ DOMAIN file' = DOMAIN file \cup added
            /\ \A n \in DOMAIN file : n \notin added => file'[n] = file[n]
            /\ num[now] # num[now] + 1 => file'[num[now]] = Item
<1>1. CASE HasLength(now) /\ held[now] = None
  <2>1. file' = Put(Put(file, num[now], Item), num[now] + 1, Length)
    BY <1>1 DEF CloseObject
  <2> QED
    BY <1>1, <2>1 DEF Put
<1>2. CASE ~(HasLength(now) /\ held[now] = None)
  <2>1. file' = Put(file, num[now], Item)
    BY <1>2 DEF CloseObject
  <2> QED
    BY <1>2, <2>1 DEF Put
<1> QED
  BY <1>1, <1>2

(* An object is closed when it has been written, and what was closed stays *)
(* closed.                                                                 *)
LEMMA CloseKeeps ==
  ASSUME CInv, CloseObject
  PROVE  (Paired /\ Queued /\ Turn /\ Transcribed /\ Filed)'
<1>1. /\ phase = "write" /\ now # None /\ rest' = rest \ {now}
      /\ now' = IF now = Current THEN None
                ELSE IF rest' = {} THEN Current ELSE First(rest')
      /\ text' = <<>>
      /\ UNCHANGED <<docVars, phase, numVars, front, todo>>
  BY DEF CloseObject
<1>2. /\ \A o : HasLength(o)' = HasLength(o)
      /\ \A o : Members(o)' = Members(o)
      /\ Current' = Current /\ \A o : Place(o)' = Place(o)
  BY <1>1 DEF HasLength, Members, Current, Place, docVars, numVars
<1>3. Paired' /\ Queued'
  BY <1>1 DEF CInv, Paired, Queued, docVars, numVars
<1>4. /\ rest \subseteq Members(Current) /\ front # 0
      /\ now = Current => rest = {}
      /\ front \in Nat /\ front <= Len(queue)
  <2>1. \A o \in Members(Current) : held[o] = Current
    BY DEF Members
  <2>2. held[Current] = None /\ Current # None /\ Current \in Objs
    BY <1>1, AtWork, ConstantsAssumption DEF CInv, Queued
  <2>3. Current \notin Members(Current)
    BY <2>1, <2>2
  <2> QED
    BY <1>1, <2>3 DEF CInv, Turn
<1>5. rest' # {} => First(rest') \in rest'
  BY <1>1, <1>4, FirstIsIn DEF Members
<1>6. Turn'
  BY <1>1, <1>2, <1>4, <1>5 DEF Turn, numVars
<1>7. Transcribed'
  <2>1. \A o : Len(Refs(o)) \in Nat \/ o \notin Objs
    BY ConstantsAssumption DEF Refs, CInv, IInv, Types, IsDoc
  <2>2. now' # None => now' \in Objs
    BY <1>1, <1>4, <1>5, AtWork DEF Members, CInv, Queued
  <2>3. \A o : Refs(o)' = Refs(o)
    BY <1>1 DEF Refs, docVars
  <2>4. Len(text') = 0 /\ DOMAIN text' = {}
    BY <1>1
  <2>5. now' # None => Len(Refs(now')) \in Nat
    BY <2>1, <2>2
  <2>6. Refs(now)' = Refs(now')
    BY <1>1 DEF Refs, docVars
  <2> QED
    BY <2>4, <2>5, <2>6 DEF Transcribed
<1>8. \A o \in Objs : Closed(o) => Closed(o)'
  <2> SUFFICES ASSUME NEW o \in Objs, Closed(o) PROVE Closed(o)'
    OBVIOUS
  <2>1. PICK i \in DOMAIN queue :
          /\ queue[i] = Place(o) /\ i <= front
          /\ i < front \/ (o # Current /\ o \notin rest)
    BY <1>1 DEF Closed
  <2> QED
    BY <1>1, <1>2, <2>1 DEF Closed, numVars
<1>9. \A o \in Objs : o = now => Closed(o)'
  <2>1. /\ front \in DOMAIN queue /\ Place(now) = queue[front] /\ front <= front
    BY <1>1, <1>4, AtWork
  <2>2. \/ now' = None
        \/ now # Current /\ now \notin rest'
    BY <1>1
  <2>3. \E i \in DOMAIN queue : /\ queue[i] = Place(now) /\ i <= front
                                /\ i < front \/ now' = None
                                   \/ (now # Current /\ now \notin rest')
    BY <2>1, <2>2
  <2>4. \A o : Closed(o)' <=>
          \E i \in DOMAIN queue : /\ queue[i] = Place(o) /\ i <= front
                                  /\ i < front \/ now' = None
                                     \/ (o # Current /\ o \notin rest')
    BY <1>1, <1>2 DEF Closed, numVars
  <2> QED
    BY <2>3, <2>4
<1>10. Filed'
  <2> DEFINE Is(n, o) == /\ num[o] # 0
                         /\ n = num[o] \/ (HasLength(o) /\ held[o] = None /\ n = num[o] + 1)
  <2> SUFFICES ASSUME NEW n \in DOMAIN file'
               PROVE  \E o \in Objs : Closed(o)' /\ Is(n, o)
    BY <1>1, <1>2 DEF Filed, docVars, numVars
  <2>1. CASE n \in DOMAIN file
    <3>1. PICK o \in Objs : Closed(o) /\ Is(n, o)
      BY <1>1, <2>1 DEF CInv, Filed
    <3> QED
      BY <1>8, <3>1
  <2>2. CASE n \notin DOMAIN file
    <3>1. n = num[now] \/ (HasLength(now) /\ held[now] = None /\ n = num[now] + 1)
      BY <2>2, Closing
    <3>2. now \in Objs /\ num[now] # 0
      BY <1>1, AtWork
    <3>3. Is(n, now)
      BY <3>1, <3>2
    <3> QED
      BY <1>9, <3>2, <3>3
  <2> QED
    BY <2>1, <2>2
<1> QED
  BY <1>3, <1>6, <1>7, <1>10

(* The object at work is closed under a number that stood for nothing.     *)
LEMMA CloseIsNew ==
  ASSUME CInv, CloseObject
  PROVE  /\ num[now] \notin DOMAIN file
         /\ HasLength(now) /\ held[now] = None => num[now] + 1 \notin DOMAIN file
<1>1. /\ now \in Objs /\ num[now] # 0 /\ ~Closed(now) /\ phase # "done"
  BY AtWork DEF CloseObject
<1>2. \A o \in Objs : num[o] \in Nat
  BY DEF CInv, IInv, Types
<1>3. \A o, p \in Objs : num[o] # 0 /\ num[p] # 0 =>
        /\ o # p => num[o] # num[p]
        /\ HasLength(o) /\ held[o] = None => num[p] # num[o] + 1
  BY DEF CInv, IInv, Different
<1>4. \A n \in DOMAIN file : \E o \in Objs :
        /\ o # now /\ num[o] # 0
        /\ n = num[o] \/ (HasLength(o) /\ held[o] = None /\ n = num[o] + 1)
  BY <1>1 DEF CInv, Filed
<1>5. num[now] \notin DOMAIN file
  BY <1>1, <1>3, <1>4
<1>6. ASSUME HasLength(now), held[now] = None, num[now] + 1 \in DOMAIN file
      PROVE  FALSE
  <2>1. PICK o \in Objs :
          /\ o # now /\ num[o] # 0
          /\ num[now] + 1 = num[o] \/ num[now] + 1 = num[o] + 1
    BY <1>4, <1>6
  <2>2. num[o] # num[now] /\ num[o] # num[now] + 1
    BY <1>1, <1>3, <1>6, <2>1
  <2> QED
    BY <1>1, <1>2, <2>1, <2>2
<1> QED
  BY <1>5, <1>6

-----------------------------------------------------------------------------
LEMMA CopyStep == CInv /\ XrefsUnused /\ [Next]_vars => CInv'
<1> SUFFICES ASSUME CInv, XrefsUnused, [Next]_vars
             PROVE  (Paired /\ Queued /\ Turn /\ Transcribed /\ Filed /\ Stages)'
  BY StepKeeps DEF CInv
<1>1. CASE Setting \/ Setup
  <2>1. /\ phase = "config" /\ UNCHANGED <<numVars, front, outVars>>
        /\ \A o \in Objs : num[o] = 0
        /\ phase' = "enqueue" => ~cfg'.linearize
        /\ phase' # "write"
    BY <1>1 DEF Setting, Setup, CInv, IInv, Fresh
  <2>2. file = << >> /\ queue = <<>> /\ front = 0 /\ now = None
    BY <2>1 DEF CInv, Stages
  <2>3. Paired'
    <3>1. held' \in [Objs -> Objs \cup {None}]
      BY StepKeeps DEF CInv, IInv, Types
    <3>2. num' = num
      BY <2>1 DEF numVars
    <3> QED
      BY <2>1, <3>1, <3>2 DEF Paired
  <2>4. /\ file' = << >> /\ queue' = <<>> /\ front' = 0 /\ now' = None
        /\ DOMAIN file' = {} /\ DOMAIN queue' = {} /\ queue' \in Seq(Objs)
        /\ Len(queue') = 0
    BY <2>1, <2>2 DEF numVars, outVars
  <2> QED
    BY <2>1, <2>3, <2>4 DEF Queued, Turn, Transcribed, Filed, Stages
<1>2. CASE EnqueueObject
  <2>1. PICK o \in Objs : Enqueue(o)
    BY <1>2 DEF EnqueueObject
  <2>2. UNCHANGED <<docVars, phase, front, rest, now, text, file>> /\ phase = "enqueue"
    BY <1>2 DEF EnqueueObject, outVars
  <2>3. \A p : Refs(p)' = Refs(p) /\ Members(p)' = Members(p) /\ HasLength(p)' = HasLength(p)
    BY <2>2 DEF Refs, Members, HasLength, docVars
  <2>4. CASE UNCHANGED numVars
    <3>1. Current' = Current /\ \A p : Closed(p)' = Closed(p)
      BY <2>2, <2>4 DEF Current, Closed, Place, docVars, numVars
    <3>2. Refs(now)' = Refs(now)
      BY <2>2, <2>3
    <3> QED
      BY <2>2, <2>3, <2>4, <3>1, <3>2
         DEF CInv, Paired, Queued, Turn, Transcribed, Filed, Stages, docVars, numVars
  <2>5. CASE GivenTo(Place(o))
    <3>1. (Paired /\ Queued /\ Turn /\ Filed)'
      BY <2>2, <2>5, MovedKeeps
    <3>2. now' # None => \A i \in DOMAIN text : num'[Refs(now)[i]] = num[Refs(now)[i]]
      <4> SUFFICES ASSUME now # None, NEW i \in DOMAIN text
                   PROVE  num'[Refs(now)[i]] = num[Refs(now)[i]]
        BY <2>2
      <4>1. /\ Len(text) <= Len(Refs(now)) /\ num[Refs(now)[i]] # 0
            /\ Len(text) \in Nat /\ DOMAIN text = 1..Len(text)
        BY DEF CInv, IInv, Written, Transcribed
      <4>2. i \in 1..Len(Refs(now)) \/ Len(Refs(now)) \notin Nat
        BY <4>1
      <4>3. Len(Refs(now)) \in Nat
        <5>1. Refs(now) = <<>> \/ (now \in doc.table /\ Refs(now) = doc.refs[now])
          BY DEF Refs
        <5>2. doc.table \subseteq Objs /\ doc.refs \in [Objs -> Seq(doc.table)]
          BY ConstantsAssumption DEF CInv, IInv, Types, IsDoc
        <5> QED
          BY <5>1, <5>2
      <4>4. Refs(now)[i] \in Objs
        BY <4>2, <4>3, ChildIsObject
      <4> QED
        BY <2>5, <4>1, <4>4, MovedNumbers
    <3>3. Transcribed'
      BY <2>2, <2>3, <3>2 DEF CInv, Transcribed
    <3> QED
      BY <2>2, <3>1, <3>3 DEF CInv, Stages, docVars
  <2> QED
    BY <2>1, <2>4, <2>5, EnqueueMoves
<1>3. CASE UnparseChild
  BY <1>3, UnparseKeeps DEF CInv, Stages, UnparseChild, docVars
<1>4. CASE StartWriting
  <2>1. /\ phase = "enqueue" /\ phase' = "write"
        /\ UNCHANGED <<docVars, numVars, front, rest, now, text, file>>
    BY <1>4 DEF StartWriting, outVars
  <2>2. \A p : Refs(p)' = Refs(p) /\ Members(p)' = Members(p) /\ HasLength(p)' = HasLength(p)
    BY <2>1 DEF Refs, Members, HasLength, docVars
  <2>3. Current' = Current /\ Refs(now)' = Refs(now) /\ \A p : Closed(p)' = Closed(p)
    BY <2>1, <2>2 DEF Current, Closed, Place, docVars, numVars
  <2> QED
    BY <2>1, <2>2, <2>3
       DEF CInv, Paired, Queued, Turn, Transcribed, Filed, Stages, docVars, numVars
<1>5. CASE WriteNext
  <2>1. /\ phase = "write" /\ now = None /\ front < Len(queue) /\ front' = front + 1
        /\ rest' = Members(queue[front + 1])
        /\ now' = IF rest' = {} THEN queue[front + 1] ELSE First(rest')
        /\ text' = <<>>
        /\ UNCHANGED <<docVars, phase, numVars, file>>
    BY <1>5 DEF WriteNext
  <2>2. \A p : /\ Refs(p)' = Refs(p) /\ Members(p)' = Members(p)
               /\ HasLength(p)' = HasLength(p) /\ Place(p)' = Place(p)
    BY <2>1 DEF Refs, Members, HasLength, Place, docVars
  <2>3. queue \in Seq(Objs) /\ front \in Nat
    BY DEF CInv, Queued, Turn
  <2>4. /\ Current' = queue[front + 1] /\ queue[front + 1] \in Objs
        /\ front' \in Nat /\ front' <= Len(queue') /\ front' # 0
    BY <2>1, <2>3 DEF Current, numVars
  <2>5. rest' # {} => First(rest') \in rest'
    BY <2>1, FirstIsIn DEF Members
  <2>6. Turn'
    BY <2>1, <2>2, <2>4, <2>5 DEF Turn
  <2>7. Paired' /\ Queued' /\ Stages'
    BY <2>1 DEF CInv, Paired, Queued, Stages, docVars, numVars
  <2>8. Transcribed'
    <3>1. now' \in Objs
      BY <2>1, <2>4, <2>5 DEF Members
    <3>2. Len(Refs(now')) \in Nat
      BY <3>1, ConstantsAssumption DEF Refs, CInv, IInv, Types, IsDoc
    <3>3. Refs(now)' = Refs(now')
      BY <2>1 DEF Refs, docVars
    <3>4. Len(text') = 0 /\ DOMAIN text' = {}
      BY <2>1
    <3> QED
      BY <3>2, <3>3, <3>4 DEF Transcribed
  <2>9. \A o \in Objs : Closed(o) => Closed(o)'
    <3> SUFFICES ASSUME NEW o \in Objs, Closed(o) PROVE Closed(o)'
      OBVIOUS
    <3>1. PICK i \in DOMAIN queue : queue[i] = Place(o) /\ i <= front
      BY DEF Closed
    <3>2. i <= front' /\ i < front'
      BY <2>1, <2>3, <3>1
    <3> QED
      BY <2>1, <2>2, <3>1, <3>2 DEF Closed, numVars
  <2>10. Filed'
    BY <2>1, <2>2, <2>9 DEF CInv, Filed, docVars, numVars
  <2> QED
    BY <2>6, <2>7, <2>8, <2>10
<1>6. CASE CloseObject
  BY <1>6, CloseKeeps DEF CInv, Stages, CloseObject, docVars
<1>7. CASE CloseFile
  <2>1. phase' = "done" /\ now' = None /\ UNCHANGED <<docVars, num, queue, front>>
    BY <1>7 DEF CloseFile
  <2> QED
    BY <2>1 DEF CInv, Paired, Queued, Turn, Transcribed, Filed, Stages, docVars
<1>8. CASE UNCHANGED vars
  <2>1. UNCHANGED <<docVars, phase, numVars, front, rest, now, text, file>>
    BY <1>8 DEF vars, outVars
  <2>2. \A p : Refs(p)' = Refs(p) /\ Members(p)' = Members(p) /\ HasLength(p)' = HasLength(p)
    BY <2>1 DEF Refs, Members, HasLength, docVars
  <2>3. Current' = Current /\ Refs(now)' = Refs(now) /\ \A p : Closed(p)' = Closed(p)
    BY <2>1, <2>2 DEF Current, Closed, Place, docVars, numVars
  <2> QED
    BY <2>1, <2>2, <2>3
       DEF CInv, Paired, Queued, Turn, Transcribed, Filed, Stages, docVars, numVars
<1> QED
  BY <1>1, <1>2, <1>3, <1>4, <1>5, <1>6, <1>7, <1>8 DEF Next, Work

-----------------------------------------------------------------------------
(* Every step is a step of the copying, or none.                           *)
LEMMA InitCopies == Init => Copy!Init
  BY DEF Init, Copy!Init

LEMMA NumberingIsCopying ==
  ASSUME CInv, CInv', phase # "done", NEW s, GivenTo(s), UNCHANGED <<docVars, file>>
  PROVE  Copy!Number
<1>1. num' \in [Objs -> Nat]
  BY DEF CInv, IInv, Types
<1>2. \A o \in Objs : num[o] # 0 => num'[o] = num[o]
  BY MovedNumbers
<1>3. \A o, p \in Objs : o # p /\ num'[o] # 0 => num'[o] # num'[p]
  BY DEF CInv, IInv, Types, Different
<1>4. ASSUME NEW o \in Objs, num[o] = 0
      PROVE  num'[o] \notin DOMAIN file
  <2>1. \A n \in DOMAIN file : n \in Nat /\ n # 0 /\ n < next
    BY DEF CInv, Filed, IInv, Types, Below
  <2>2. num'[o] = 0 \/ num'[o] >= next
    BY <1>4, MovedNumbers
  <2>3. next \in Nat
    BY DEF CInv, IInv, Types
  <2> QED
    BY <2>1, <2>2, <2>3
<1>5. \A o : Refs(o)' = Refs(o)
  BY DEF Refs, docVars
<1> QED
  BY <1>1, <1>2, <1>3, <1>4, <1>5 DEF Copy!Number

LEMMA ClosingIsCopying ==
  ASSUME CInv, CloseObject
  PROVE  Copy!Next
<1> DEFINE added == IF HasLength(now) /\ held[now] = None
                    THEN {num[now], num[now] + 1} ELSE {num[now]}
<1>1. /\ now \in Objs /\ num[now] # 0 /\ num[now] \in Nat /\ now # None
      /\ Len(text) = Len(Refs(now)) /\ UNCHANGED <<doc, held, num>>
  BY AtWork DEF CloseObject, docVars, numVars, CInv, IInv, Types
<1>2. \A o : Refs(o)' = Refs(o)
  BY <1>1 DEF Refs
<1>3. /\ num[now] \notin DOMAIN file
      /\ HasLength(now) /\ held[now] = None => num[now] + 1 \notin DOMAIN file
  BY CloseIsNew
<1>4. /\ DOMAIN file' = DOMAIN file \cup added
      /\ \A n \in DOMAIN file : n \notin added => file'[n] = file[n]
      /\ file'[num[now]] = Item
  BY <1>1, Closing
<1>5. \A n \in DOMAIN file : n \in DOMAIN file' /\ file'[n] = file[n]
  BY <1>3, <1>4
<1>6. \A n \in DOMAIN file' \ DOMAIN file :
        n \in {num[now]} \/ \A p \in Objs : num[p] # n
  <2> SUFFICES ASSUME NEW n \in DOMAIN file', n \notin DOMAIN file, n # num[now],
                      NEW p \in Objs
               PROVE  num[p] # n
    OBVIOUS
  <2>1. HasLength(now) /\ held[now] = None /\ n = num[now] + 1
    BY <1>4
  <2> QED
    BY <1>1, <2>1 DEF CInv, IInv, Different
<1>7. Item.of = now /\ Item.refs = [i \in DOMAIN Refs(now) |-> num[Refs(now)[i]]]
  <2>1. \A i \in DOMAIN text : text[i] = num[Refs(now)[i]]
    BY <1>1 DEF CInv, Transcribed
  <2>2. text \in Seq(Int)
    BY DEF CInv, IInv, Written
  <2>3. DOMAIN text = DOMAIN Refs(now)
    <3>1. \E S : Refs(now) \in Seq(S)
      BY <1>1, ConstantsAssumption DEF Refs, CInv, IInv, Types, IsDoc
    <3> QED
      BY <1>1, <2>2, <3>1
  <2>4. text = [i \in DOMAIN text |-> text[i]]
    BY <2>2
  <2>5. text = [i \in DOMAIN Refs(now) |-> num[Refs(now)[i]]]
    BY <2>1, <2>3, <2>4
  <2> QED
    BY <2>5 DEF Item
<1>8. \A i \in DOMAIN Refs(now) : num[Refs(now)[i]] # 0
  <2>1. DOMAIN text = DOMAIN Refs(now)
    <3>1. \E S : Refs(now) \in Seq(S)
      BY <1>1, ConstantsAssumption DEF Refs, CInv, IInv, Types, IsDoc
    <3>2. text \in Seq(Int)
      BY DEF CInv, IInv, Written
    <3> QED
      BY <1>1, <3>1, <3>2
  <2> QED
    BY <1>1, <2>1 DEF CInv, Transcribed
<1> HIDE DEF added
<1>9. ASSUME NEW o \in Objs, o = now
      PROVE  Copy!Write(o)
  <2> DEFINE F(f) == [n \in DOMAIN f |-> [of |-> f[n].of, refs |-> f[n].refs]]
             G == [p \in Objs |-> Refs(p)]
  <2>1. DOMAIN F(file) = DOMAIN file /\ DOMAIN F(file') = DOMAIN file'
    OBVIOUS
  <2>2. \A n \in DOMAIN file : n \in DOMAIN file' /\ F(file')[n] = F(file)[n]
    BY <1>5
  <2>3. num[o] \in DOMAIN file' /\ num[o] \notin DOMAIN file /\ num[o] # 0
    BY <1>1, <1>3, <1>4, <1>9 DEF added
  <2>4. F(file')[num[o]] = [of |-> Item.of, refs |-> Item.refs]
    BY <1>1, <1>4, <1>9, <2>3
  <2>5. F(file')[num[o]] = [of |-> o, refs |-> [i \in DOMAIN G[o] |-> num[G[o][i]]]]
    BY <1>7, <1>9, <2>4
  <2>6. \A i \in DOMAIN G[o] : num[G[o][i]] # 0
    BY <1>8, <1>9
  <2>7. \A n \in DOMAIN file' \ DOMAIN file : n \in {num[o]} \/ \A p \in Objs : num[p] # n
    BY <1>6, <1>9
  <2>8. G' = G /\ num' = num
    BY <1>1, <1>2
  <2>9. Copy!Copied(o) = [of |-> o, refs |-> [i \in DOMAIN G[o] |-> num[G[o][i]]]]
    BY DEF Copy!Copied
  <2>10. Copy!Keeps({num[o]})
    BY <2>1, <2>2, <2>7, <2>8 DEF Copy!Keeps
  <2> HIDE DEF G
  <2> QED
    BY <2>1, <2>3, <2>5, <2>6, <2>9, <2>10 DEF Copy!Write, G
<1> QED
  BY <1>1, <1>9 DEF Copy!Next

LEMMA StepCopies == CInv /\ CInv' /\ XrefsUnused /\ [Next]_vars => [Copy!Next]_(Copy!vars)
<1> SUFFICES ASSUME CInv, CInv', XrefsUnused, [Next]_vars
             PROVE  Copy!Next \/ UNCHANGED Copy!vars
  OBVIOUS
<1>1. CASE Setting \/ Setup
  <2>1. phase = "config" /\ UNCHANGED <<num, file>>
    BY <1>1 DEF Setting, Setup, numVars, outVars
  <2>2. num = [o \in Objs |-> 0] /\ file = << >>
    BY <2>1 DEF CInv, IInv, Fresh, Stages
  <2>3. Copy!Init
    BY <2>2 DEF Copy!Init
  <2>4. Copy!Settle
    BY <2>1, <2>3 DEF Copy!Settle
  <2> QED
    BY <2>4 DEF Copy!Next
<1>2. ASSUME UNCHANGED <<doc, held, num, file>> PROVE UNCHANGED Copy!vars
  BY <1>2 DEF Copy!vars, Refs
<1>3. CASE EnqueueObject
  <2>1. PICK o \in Objs : Enqueue(o)
    BY <1>3 DEF EnqueueObject
  <2>2. UNCHANGED <<docVars, file>> /\ phase # "done"
    BY <1>3 DEF EnqueueObject, outVars
  <2> QED
    BY <1>2, <2>1, <2>2, EnqueueMoves, NumberingIsCopying DEF Copy!Next, docVars, numVars
<1>4. CASE UnparseChild
  <2>1. UNCHANGED <<docVars, file>> /\ phase # "done"
    BY <1>4 DEF UnparseChild
  <2>2. UNCHANGED numVars \/ \E s \in Objs : GivenTo(s)
    BY <1>4, UnparseKeeps
  <2> QED
    BY <1>2, <2>1, <2>2, NumberingIsCopying DEF Copy!Next, docVars, numVars
<1>5. CASE StartWriting \/ WriteNext \/ UNCHANGED vars
  BY <1>2, <1>5 DEF StartWriting, WriteNext, vars, docVars, numVars, outVars
<1>6. CASE CloseObject
  BY <1>6, ClosingIsCopying
<1>7. CASE CloseFile
  <2>1. /\ UNCHANGED <<doc, held, num>> /\ phase # "done"
        /\ next' = next + Specials
        /\ file' = [n \in DOMAIN file \cup next..(next' - 1) |->
                     IF n \in DOMAIN file THEN file[n] ELSE Length]
    BY <1>7 DEF CloseFile, docVars
  <2>2. \A o : Refs(o)' = Refs(o)
    BY <2>1 DEF Refs
  <2>3. \A p \in Objs : num[p] \in Nat /\ num[p] < next /\ next \in Nat
    BY DEF CInv, IInv, Types, Below
  <2>4. \A n \in DOMAIN file : n \in DOMAIN file' /\ file'[n] = file[n]
    BY <2>1
  <2>5. \A n \in DOMAIN file' \ DOMAIN file : \A p \in Objs : num[p] # n
    <3>1. \A n \in DOMAIN file' \ DOMAIN file : n \in next..(next' - 1)
      BY <2>1
    <3>2. Specials \in Nat
      BY DEF Specials
    <3> QED
      BY <2>1, <2>3, <3>1, <3>2
  <2>6. Copy!Keeps({})
    BY <2>1, <2>2, <2>4, <2>5 DEF Copy!Keeps
  <2> QED
    BY <2>6 DEF Copy!Next
<1> QED
  BY <1>1, <1>3, <1>4, <1>5, <1>6, <1>7 DEF Next, Work

(* The file that is written is a copy of the graph of objects, if no       *)
(* object refers to a cross-reference stream.                              *)
THEOREM WriterImplementsCopy == XrefsUnused => (Spec => ImplementsCopy)
<1> SUFFICES ASSUME XrefsUnused PROVE Spec => ImplementsCopy
  OBVIOUS
<1>1. Init => CInv /\ Copy!Init
  BY CopyInit, InitCopies
<1>2. CInv /\ [Next]_vars => CInv'
  BY CopyStep
<1>3. CInv /\ CInv' /\ [Next]_vars => [Copy!Next]_(Copy!vars)
  BY StepCopies
<1> QED
  BY <1>1, <1>2, <1>3, PTL DEF Spec, ImplementsCopy, Copy!Spec

-----------------------------------------------------------------------------
(***************************************************************************)
(* A file that is not linearized is complete when it is finished, for      *)
(* every document, provided that nothing in it refers to a cross-reference *)
(* stream (what only such a stream refers to would be lost in QDF mode).   *)
(*                                                                         *)
(* There are three parts.  What is in use is the least set with the        *)
(* references of the trailer that has all its elements lead to; the walk   *)
(* that chooses what may go into object streams stays within it.  Every    *)
(* number below next_objid belongs to an object or to a length.  And what  *)
(* has been closed is in the file under its number, with all it refers to  *)
(* numbered, and so on the queue, which is written to its end.             *)
(***************************************************************************)
XrefsNotInTrailer == \A d \in Docs : Elements(d.trailer) \cap d.xrefs = {}

Config ==
  [linearize : BOOLEAN, qdf : BOOLEAN, direct : BOOLEAN, unref : BOOLEAN, compress : BOOLEAN,
   streams : {"disable", "preserve", "generate"}]

(* What goes into an object stream is in use and no stream.                *)
Settled ==
  /\ cfg \in Config
  /\ phase # "config" /\ ~cfg.unref =>
       \A o \in Objs : held[o] # None => o \in InUse /\ o \notin doc.streams

(* What the writer starts from has a number or is yet to be enqueued.      *)
Sought == Elements(doc.trailer) \cup (IF cfg.unref THEN doc.table ELSE {})
Pending ==
  /\ phase = "enqueue" => \E T : todo \in Seq(T)
  /\ phase \in {"write", "done"} => todo = <<>>
  /\ phase \in {"enqueue", "write", "done"} =>
       /\ \A o \in Sought : num[o] # 0 \/ Skipped(o) \/ o \in Elements(todo)
       /\ cfg.unref \/ Elements(todo) \subseteq Elements(doc.trailer)

UsedOnly == cfg.unref \/ \A o \in Objs : num[o] # 0 => o \in InUse

OnQueue == \A o \in Objs : num[o] # 0 => \E i \in DOMAIN queue : queue[i] = Place(o)

(* Every number is that of an object or of the length after it.            *)
Covered ==
  /\ phase = "config" => next = 1
  /\ phase # "done" =>
       \A n \in 1..(next - 1) : \E o \in Objs :
         /\ num[o] # 0
         /\ n = num[o] \/ (HasLength(o) /\ held[o] = None /\ n = num[o] + 1)

(* What has been closed is in the file, and all it refers to has a number. *)
Present ==
  \A o \in Objs : Closed(o) =>
    /\ num[o] \in DOMAIN file /\ file[num[o]].of = o
    /\ file[num[o]].in = IF held[o] = None THEN 0 ELSE num[held[o]]
    /\ HasLength(o) /\ held[o] = None => num[o] + 1 \in DOMAIN file

Linked ==
  \A o \in Objs : Closed(o) => \A i \in DOMAIN Refs(o) : num[Refs(o)[i]] # 0

Finished ==
  phase = "done" => front = Len(queue) /\ now = None /\ DOMAIN file = 1..(next - 1)

Numbering == UsedOnly /\ OnQueue /\ Covered /\ Present /\ Linked
DInv == CInv /\ Settled /\ Pending /\ Numbering /\ Finished

-----------------------------------------------------------------------------

LEMMA TurnsAreFinite ==
  ASSUME doc \in Docs
  PROVE  Turns \in Nat
<1>1. /\ doc.table \subseteq Objs /\ doc.refs \in [Objs -> Seq(doc.table)]
      /\ doc.trailer \in Seq(doc.table)
  BY ConstantsAssumption DEF IsDoc
<1> DEFINE Places(o) == {o} \X DOMAIN doc.refs[o]
<1> DEFINE All == {Places(o) : o \in doc.table}
<1>2. IsFiniteSet(All)
  <2>1. IsFiniteSet(doc.table)
    BY <1>1, ConstantsAssumption, FS_Subset
  <2> DEFINE f == [o \in doc.table |-> Places(o)]
  <2>2. f \in Surjection(doc.table, All)
    <3>1. f \in [doc.table -> All] /\ \A p \in All : \E o \in doc.table : f[o] = p
      OBVIOUS
    <3> HIDE DEF f, All
    <3> QED
      BY <3>1 DEF Surjection
  <2> HIDE DEF f, All
  <2> QED
    BY <2>1, <2>2, FS_Surjection
<1>3. \A o \in doc.table : IsFiniteSet(Places(o))
  <2> SUFFICES ASSUME NEW o \in doc.table PROVE IsFiniteSet({o} \X DOMAIN doc.refs[o])
    OBVIOUS
  <2>1. Len(doc.refs[o]) \in Nat /\ DOMAIN doc.refs[o] = 1..Len(doc.refs[o])
    BY <1>1
  <2>2. IsFiniteSet(1..Len(doc.refs[o])) /\ IsFiniteSet({o})
    <3>1. 1 \in Int /\ Len(doc.refs[o]) \in Int
      BY <2>1
    <3> QED
      BY <3>1, FS_Interval, FS_Singleton
  <2> QED
    BY <2>1, <2>2, FS_Product
<1>4. IsFiniteSet(UNION All)
  <2>1. \A p \in All : IsFiniteSet(p)
    BY <1>3
  <2> HIDE DEF All
  <2> QED
    BY <1>2, <2>1, FS_UNION
<1>5. Cardinality(UNION All) \in Nat /\ Len(doc.trailer) \in Nat
  BY <1>1, <1>4, FS_CardinalityType
<1> QED
  BY <1>5 DEF Turns

LEMMA WalkWithin ==
  ASSUME doc \in Docs, NEW U, U \subseteq Objs, Elements(doc.trailer) \subseteq U,
         \A o \in U : Elements(doc.refs[o]) \subseteq U
  PROVE  /\ Eligible \in Seq(Objs)
         /\ \A o \in Elements(Eligible) : o \in U /\ Compressible(o)
<1> DEFINE D == [stack : Seq(Objs), seen : SUBSET Objs, found : Seq(Objs)]
<1> DEFINE base == [stack |-> doc.trailer, seen |-> {}, found |-> <<>>]
<1> DEFINE Good(s) == \A i \in DOMAIN s : s[i] \in U
<1> DEFINE Sound(w) ==
      w \in D /\ Good(w.stack) /\ Good(w.found)
        /\ \A i \in DOMAIN w.found : Compressible(w.found[i])
<1>1. /\ doc.table \subseteq Objs /\ doc.refs \in [Objs -> Seq(doc.table)]
      /\ doc.trailer \in Seq(doc.table)
  BY ConstantsAssumption DEF IsDoc
<1>2. /\ doc.trailer \in Seq(Objs) /\ \A o \in Objs : doc.refs[o] \in Seq(Objs)
  BY <1>1
<1>3. Sound(base)
  <2>1. base \in D
    BY <1>2
  <2>2. Good(doc.trailer)
    BY DEF Elements
  <2> QED
    BY <2>1, <2>2
<1>4. Visit = [w \in D |->
         IF w.stack = <<>> THEN w
         ELSE IF Head(w.stack) \in w.seen THEN [w EXCEPT !.stack = Tail(w.stack)]
         ELSE [stack |-> doc.refs[Head(w.stack)] \o Tail(w.stack),
               seen |-> w.seen \cup {Head(w.stack)},
               found |-> IF Compressible(Head(w.stack))
                         THEN Append(w.found, Head(w.stack)) ELSE w.found]]
  BY DEF Visit
<1>5. ASSUME NEW w \in D
      PROVE  Visit[w] \in D /\ (Sound(w) => Sound(Visit[w]))
  <2>1. CASE w.stack = <<>>
    BY <1>4, <2>1
  <2>2. CASE w.stack # <<>>
    <3> DEFINE o == Head(w.stack)
    <3>1. /\ o \in Objs /\ Tail(w.stack) \in Seq(Objs)
          /\ Good(w.stack) => o \in U /\ Good(Tail(w.stack))
      BY <2>2
    <3>2. CASE o \in w.seen
      <4>1. Visit[w] = [w EXCEPT !.stack = Tail(w.stack)]
        BY <1>4, <2>2, <3>2
      <4>2. /\ Visit[w] \in D /\ Visit[w].stack = Tail(w.stack) /\ Visit[w].found = w.found
        BY <3>1, <4>1
      <4> QED
        BY <3>1, <4>2
    <3>3. CASE o \notin w.seen
      <4> DEFINE s == doc.refs[o] \o Tail(w.stack)
                 f == IF Compressible(o) THEN Append(w.found, o) ELSE w.found
      <4>1. Visit[w] = [stack |-> s, seen |-> w.seen \cup {o}, found |-> f]
        BY <1>4, <2>2, <3>3
      <4>2. s \in Seq(Objs) /\ f \in Seq(Objs)
        BY <1>2, <3>1
      <4>3. Visit[w] \in D /\ Visit[w].stack = s /\ Visit[w].found = f
        <5> HIDE DEF s, f, o
        <5> QED
          BY <3>1, <4>1, <4>2
      <4>4. Good(w.stack) => Good(s)
        <5> SUFFICES ASSUME Good(w.stack) PROVE Good(s)
          OBVIOUS
        <5>1. o \in U /\ Good(Tail(w.stack))
          BY <3>1
        <5>2. Good(doc.refs[o])
          BY <5>1 DEF Elements
        <5>3. doc.refs[o] \in Seq(Objs) /\ Tail(w.stack) \in Seq(Objs)
          BY <1>2, <3>1
        <5> HIDE DEF o
        <5> QED
          BY <5>2, <5>1, <5>3
      <4>5. Sound(w) => Good(f) /\ \A i \in DOMAIN f : Compressible(f[i])
        <5> SUFFICES ASSUME Sound(w) PROVE \A i \in DOMAIN f : f[i] \in U /\ Compressible(f[i])
          OBVIOUS
        <5>1. CASE Compressible(o)
          <6> SUFFICES ASSUME NEW i \in DOMAIN f PROVE f[i] \in U /\ Compressible(f[i])
            OBVIOUS
          <6>1. f = Append(w.found, o) /\ w.found \in Seq(Objs)
            BY <5>1
          <6>2. \/ i \in DOMAIN w.found /\ f[i] = w.found[i]
                \/ f[i] = o
            BY <6>1
          <6> QED
            BY <3>1, <5>1, <6>2
        <5>2. CASE ~Compressible(o)
          BY <5>2
        <5> QED
          BY <5>1, <5>2
      <4> QED
        BY <4>3, <4>4, <4>5
    <3> QED
      BY <3>2, <3>3
  <2> QED
    BY <2>1, <2>2
<1>6. Walk \in [Nat -> D] /\ Walk[0] = base /\ \A n \in Nat : Walk[n + 1] = Visit[Walk[n]]
  <2>1. base \in D /\ Visit \in [D -> D]
    BY <1>3, <1>4, <1>5
  <2> HIDE DEF D, base
  <2> DEFINE Rec(f) == f = [n \in Nat |-> IF n = 0 THEN base ELSE Visit[f[n - 1]]]
  <2>2. \E f : Rec(f)
    BY <2>1, RecursiveFunctionExists
  <2>3. Walk = CHOOSE f : Rec(f)
    BY DEF Walk, base
  <2>4. Rec(Walk)
    <3> HIDE DEF Rec
    <3> QED
      BY <2>2, <2>3
  <2> QED
    BY <2>1, <2>4, RecursiveFunction
<1> HIDE DEF D, base, Sound
<1> DEFINE E == {n \in Nat : Sound(Walk[n])}
<1>7. 0 \in E
  BY <1>3, <1>6
<1>8. ASSUME NEW n \in Nat, n \in E PROVE n + 1 \in E
  <2>1. Walk[n] \in D /\ Walk[n + 1] = Visit[Walk[n]]
    BY <1>6
  <2> QED
    BY <1>5, <1>8, <2>1
<1>9. \A n \in Nat : Sound(Walk[n])
  <2>1. \A n \in Nat : n \in E
    <3> HIDE DEF E
    <3> QED
      BY <1>7, <1>8, InductionOver
  <2> QED
    BY <2>1
<1>10. Turns \in Nat
  BY TurnsAreFinite
<1> QED
  BY <1>9, <1>10 DEF Sound, Eligible, Elements, D

-----------------------------------------------------------------------------
(* What is in use is the least that has what the trailer refers to and all *)
(* that its elements lead to.                                              *)
Least ==
  /\ InUse \subseteq Objs /\ Elements(doc.trailer) \subseteq InUse
  /\ \A o \in InUse : Leads(o) \subseteq InUse
  /\ \A C \in SUBSET Objs :
       Elements(doc.trailer) \subseteq C /\ (\A o \in C : Leads(o) \subseteq C)
         => InUse \subseteq C

LEMMA InUseIsLeast == doc \in Docs /\ held \in [Objs -> Objs \cup {None}] => Least
<1> SUFFICES ASSUME doc \in Docs, held \in [Objs -> Objs \cup {None}]
             PROVE  Least
  OBVIOUS
<1> DEFINE base == Elements(doc.trailer)
<1> DEFINE Rec(f) == f = [n \in Nat |-> IF n = 0 THEN base ELSE Further[f[n - 1]]]
<1> DEFINE Steps == CHOOSE f : Rec(f)
<1> DEFINE c == Cardinality(Objs)
<1>1. InUse = Steps[c]
  BY DEF InUse
<1>2. base \in SUBSET Objs
  BY ConstantsAssumption DEF IsDoc, Elements
<1>3. \A o \in Objs : Leads(o) \subseteq Objs
  <2> SUFFICES ASSUME NEW o \in Objs PROVE Leads(o) \subseteq Objs
    OBVIOUS
  <2>1. Refs(o) = <<>> \/ Refs(o) = doc.refs[o]
    BY DEF Refs
  <2>2. doc.table \subseteq Objs /\ doc.refs[o] \in Seq(doc.table)
    BY ConstantsAssumption DEF IsDoc
  <2>3. Elements(Refs(o)) \subseteq Objs
    BY <2>1, <2>2 DEF Elements
  <2> QED
    BY <2>3 DEF Leads
<1>4. Further = [S \in SUBSET Objs |-> S \cup UNION {Leads(o) : o \in S}]
  BY DEF Further
<1>5. Further \in [SUBSET Objs -> SUBSET Objs] /\ \A S \in SUBSET Objs : S \subseteq Further[S]
  BY <1>3, <1>4
<1> HIDE DEF base
<1>6. Steps \in [Nat -> SUBSET Objs] /\ Steps[0] = base /\ \A n \in Nat : Steps[n + 1] = Further[Steps[n]]
  <2> DEFINE D == SUBSET Objs
  <2>1. base \in D /\ Further \in [D -> D]
    BY <1>2, <1>5
  <2> HIDE DEF D
  <2>2. \E f : Rec(f)
    BY <2>1, RecursiveFunctionExists
  <2>3. Rec(Steps)
    <3> HIDE DEF Rec
    <3> QED
      BY <2>2
  <2> HIDE DEF Steps
  <2>4. Steps \in [Nat -> D] /\ Steps[0] = base /\ \A n \in Nat : Steps[n + 1] = Further[Steps[n]]
    BY <2>1, <2>3, RecursiveFunction
  <2> QED
    BY <2>4 DEF D
<1> HIDE DEF Steps
<1>7. c \in Nat /\ IsFiniteSet(Objs)
  BY ConstantsAssumption, FS_CardinalityType
<1>8. Further[Steps[c]] = Steps[c]
  BY <1>5, <1>6, <1>7, ComesToRest
<1>9. \A o \in InUse : Leads(o) \subseteq InUse
  <2>1. Further[Steps[c]] = Steps[c] \cup UNION {Leads(o) : o \in Steps[c]}
    BY <1>4, <1>6, <1>7
  <2> QED
    BY <1>1, <1>8, <2>1
<1>10. base \subseteq InUse
  <2> DEFINE E == {n \in Nat : base \subseteq Steps[n]}
  <2>1. 0 \in E
    BY <1>6
  <2>2. ASSUME NEW n \in Nat, n \in E PROVE n + 1 \in E
    BY <1>5, <1>6, <2>2
  <2>3. \A n \in Nat : n \in E
    <3> HIDE DEF E
    <3> QED
      BY <2>1, <2>2, InductionOver
  <2> QED
    BY <1>1, <1>7, <2>3
<1>11. ASSUME NEW C \in SUBSET Objs, base \subseteq C, \A o \in C : Leads(o) \subseteq C
       PROVE  InUse \subseteq C
  <2> DEFINE E == {n \in Nat : Steps[n] \subseteq C}
  <2>1. 0 \in E
    BY <1>6, <1>11
  <2>2. ASSUME NEW n \in Nat, n \in E PROVE n + 1 \in E
    <3>1. Steps[n + 1] = Steps[n] \cup UNION {Leads(o) : o \in Steps[n]}
      BY <1>4, <1>6
    <3> QED
      BY <1>11, <2>2, <3>1
  <2>3. \A n \in Nat : n \in E
    <3> HIDE DEF E
    <3> QED
      BY <2>1, <2>2, InductionOver
  <2> QED
    BY <1>1, <1>7, <2>3
<1> QED
  BY <1>1, <1>6, <1>7, <1>9, <1>10, <1>11 DEF base, Least

(* Once the document is settled, what is in use does not change.           *)
LEMMA InUseStays ==
  ASSUME UNCHANGED <<doc, held>>
  PROVE  InUse' = InUse /\ \A o : Refs(o)' = Refs(o)
<1>1. \A o : Refs(o)' = Refs(o)
  BY DEF Refs
<1>2. \A o : Leads(o)' = Leads(o)
  BY <1>1 DEF Leads, Elements
<1>3. Further' = Further
  BY <1>2 DEF Further
<1>4. Elements(doc.trailer)' = Elements(doc.trailer)
  BY DEF Elements
<1>5. InUse' = InUse
  BY <1>3, <1>4 DEF InUse
<1> QED
  BY <1>1, <1>5

-----------------------------------------------------------------------------
LEMMA ClosedHasNumber ==
  ASSUME CInv, NEW o \in Objs, Closed(o)
  PROVE  num[o] # 0 /\ front # 0
<1>1. PICK i \in DOMAIN queue : queue[i] = Place(o) /\ i <= front
  BY DEF Closed
<1>2. queue \in Seq(Objs) /\ num[queue[i]] # 0 /\ front \in Nat
  BY <1>1 DEF CInv, Queued, Turn
<1>3. i \in Nat /\ i # 0
  BY <1>1, <1>2
<1>4. num[o] # 0
  <2>1. CASE held[o] = None
    BY <1>1, <1>2, <2>1 DEF Place
  <2>2. CASE held[o] # None
    BY <1>1, <1>2, <2>2 DEF Place, CInv, Paired
  <2> QED
    BY <2>1, <2>2
<1> QED
  BY <1>1, <1>2, <1>3, <1>4

(* Giving numbers to an object that is in use keeps the invariant.         *)
LEMMA NumberingKeeps ==
  ASSUME DInv, NEW c \in Objs, GivenTo(Place(c)), cfg.unref \/ c \in InUse, phase # "config",
         UNCHANGED <<docVars, phase, front, rest, now, file>>
  PROVE  Numbering'
<1> DEFINE s == Place(c)
<1>1. /\ s \in Objs /\ held[s] = None /\ num[s] = 0 /\ s # None
      /\ queue' = Append(queue, s) /\ num'[s] = next
      /\ next' \in Nat /\ next' > next
  BY ConstantsAssumption DEF GivenTo
<1>2. /\ next \in Nat \ {0} /\ num \in [Objs -> Nat] /\ held \in [Objs -> Objs \cup {None}]
      /\ doc \in Docs /\ UNCHANGED <<doc, held, cfg>>
  BY DEF DInv, CInv, IInv, Types, docVars
<1>3. /\ \A o : Refs(o)' = Refs(o) /\ Place(o)' = Place(o) /\ HasLength(o)' = HasLength(o)
      /\ InUse' = InUse
  BY <1>2, InUseStays DEF Refs, Place, HasLength, Members
<1>4. \A o \in Objs : num[o] # 0 => num'[o] = num[o]
  BY MovedNumbers DEF DInv
<1>5. /\ queue \in Seq(Objs) /\ Len(queue) \in Nat
      /\ DOMAIN queue = 1..Len(queue) /\ DOMAIN queue' = 1..(Len(queue) + 1)
      /\ \A i \in DOMAIN queue : i \in DOMAIN queue' /\ queue'[i] = queue[i]
      /\ queue'[Len(queue) + 1] = s
      /\ \A i \in DOMAIN queue' : i \in DOMAIN queue \/ i = Len(queue) + 1
  <2>1. queue \in Seq(Objs)
    BY DEF DInv, CInv, Queued
  <2> HIDE DEF s
  <2> QED
    BY <1>1, <2>1, Appended
<1>6. \A o \in Objs : num'[o] # 0 /\ num[o] = 0 => o = s \/ held[o] = s
  BY DEF GivenTo
<1> HIDE DEF s
<1>7. UsedOnly'
  <2> SUFFICES ASSUME ~cfg.unref, NEW o \in Objs, num'[o] # 0
               PROVE  o \in InUse
    BY <1>2, <1>3 DEF UsedOnly
  <2>1. CASE num[o] # 0
    BY <2>1 DEF DInv, Numbering, UsedOnly
  <2>2. CASE held[o] = s
    BY <1>1, <2>2 DEF DInv, Settled
  <2>3. CASE o = s
    <3>1. s = c \/ s = held[c]
      BY DEF s, Place
    <3>2. held[c] # None => held[c] \in InUse
      BY <1>2, InUseIsLeast DEF Leads, Least
    <3> QED
      BY <1>1, <2>3, <3>1, <3>2
  <2> QED
    BY <1>6, <2>1, <2>2, <2>3
<1>8. OnQueue'
  <2> SUFFICES ASSUME NEW o \in Objs, num'[o] # 0
               PROVE  \E i \in DOMAIN queue' : queue'[i] = Place(o)
    BY <1>3 DEF OnQueue
  <2>1. CASE num[o] # 0
    BY <1>5, <2>1 DEF DInv, Numbering, OnQueue
  <2>2. CASE o = s \/ held[o] = s
    <3>1. Place(o) = s
      BY <1>1, <2>2 DEF Place
    <3>2. Len(queue) + 1 \in DOMAIN queue'
      BY <1>5
    <3> QED
      BY <1>5, <3>1, <3>2
  <2> QED
    BY <1>6, <2>1, <2>2
<1>9. Covered'
  <2> SUFFICES ASSUME phase # "done", NEW n \in 1..(next' - 1)
               PROVE  \E o \in Objs :
                        /\ num'[o] # 0
                        /\ n = num'[o] \/ (HasLength(o) /\ held[o] = None /\ n = num'[o] + 1)
    BY <1>2, <1>3 DEF Covered
  <2>1. CASE n < next
    <3>1. n \in 1..(next - 1)
      BY <1>1, <1>2, <2>1
    <3>2. PICK o \in Objs :
            /\ num[o] # 0
            /\ n = num[o] \/ (HasLength(o) /\ held[o] = None /\ n = num[o] + 1)
      BY <3>1 DEF DInv, Numbering, Covered
    <3>3. num'[o] = num[o]
      BY <1>4, <3>2
    <3> QED
      BY <3>2, <3>3
  <2>2. CASE n >= next
    <3>1. n \in next..(next' - 1) /\ n # 0
      <4> DEFINE a == next
                 b == next'
      <4>1. a \in Nat /\ b \in Nat /\ n \in 1..(b - 1) /\ n >= a
        BY <1>1, <1>2, <2>2
      <4> HIDE DEF a, b
      <4>2. n \in a..(b - 1) /\ n # 0
        BY <4>1
      <4> QED
        BY <4>2 DEF a, b
    <3>2. (\E o \in Objs : num'[o] = n) \/ (HasLength(s) /\ n = next + 1)
      BY <3>1 DEF GivenTo, s
    <3> QED
      BY <1>1, <1>2, <3>1, <3>2
  <2> QED
    BY <1>1, <1>2, <2>1, <2>2
<1>10. ASSUME NEW o \in Objs, Closed(o)'
       PROVE  Closed(o) /\ num[o] # 0 /\ num'[o] = num[o]
  <2>1. PICK i \in DOMAIN queue' :
          /\ queue'[i] = Place(o) /\ i <= front
          /\ i < front \/ now = None \/ (o # Current' /\ o \notin rest)
    BY <1>3, <1>10 DEF Closed
  <2>2. front \in Nat /\ front <= Len(queue)
    BY DEF DInv, CInv, Turn
  <2>3. i \in DOMAIN queue /\ queue[i] = Place(o) /\ front # 0
    BY <1>5, <2>1, <2>2
  <2>4. Current' = Current
    BY <1>5, <2>2, <2>3 DEF Current
  <2>5. Closed(o)
    BY <2>1, <2>3, <2>4 DEF Closed
  <2> QED
    BY <1>4, <2>5, ClosedHasNumber DEF DInv
<1>11. Present'
  <2> SUFFICES ASSUME NEW o \in Objs, Closed(o)'
               PROVE  /\ num'[o] \in DOMAIN file /\ file[num'[o]].of = o
                      /\ file[num'[o]].in = IF held[o] = None THEN 0 ELSE num'[held[o]]
                      /\ HasLength(o) /\ held[o] = None => num'[o] + 1 \in DOMAIN file
    BY <1>2, <1>3 DEF Present
  <2>1. Closed(o) /\ num[o] # 0 /\ num'[o] = num[o]
    BY <1>10
  <2>2. held[o] # None => num'[held[o]] = num[held[o]]
    BY <1>2, <1>4, <2>1 DEF DInv, CInv, Paired
  <2> QED
    BY <2>1, <2>2 DEF DInv, Numbering, Present
<1>12. Linked'
  <2> SUFFICES ASSUME NEW o \in Objs, Closed(o)', NEW i \in DOMAIN Refs(o)
               PROVE  num'[Refs(o)[i]] # 0
    BY <1>3 DEF Linked
  <2>1. num[Refs(o)[i]] # 0
    BY <1>10 DEF DInv, Numbering, Linked
  <2>2. Refs(o)[i] \in Objs
    <3>1. Refs(o) = <<>> \/ Refs(o) = doc.refs[o]
      BY DEF Refs
    <3>2. doc.table \subseteq Objs /\ doc.refs[o] \in Seq(doc.table)
      BY <1>2, ConstantsAssumption DEF IsDoc
    <3> QED
      BY <3>1, <3>2
  <2> QED
    BY <1>4, <2>1, <2>2
<1> QED
  BY <1>7, <1>8, <1>9, <1>11, <1>12 DEF Numbering

(* So does what leaves alone what the invariant is about.                  *)
LEMMA QuietNumbering ==
  ASSUME Numbering, phase' = phase \/ (phase # "done" /\ phase' # "config"),
         UNCHANGED <<docVars, numVars, front, rest, now, file>>
  PROVE  Numbering'
<1>1. UNCHANGED <<doc, held, cfg>>
  BY DEF docVars
<1>2. /\ \A o : /\ Refs(o)' = Refs(o) /\ Place(o)' = Place(o)
               /\ HasLength(o)' = HasLength(o)
      /\ InUse' = InUse /\ Current' = Current
  BY <1>1, InUseStays DEF Refs, Place, HasLength, Members, Current, numVars
<1>3. \A o : Closed(o)' = Closed(o)
  BY <1>2 DEF Closed, numVars
<1> QED
  BY <1>1, <1>2, <1>3 DEF Numbering, UsedOnly, OnQueue, Covered, Present, Linked, numVars

(* What is referred to by an object in use is in use.                      *)
LEMMA ChildInUse ==
  ASSUME DInv, now # None, NEW i \in DOMAIN Refs(now)
  PROVE  cfg.unref \/ Refs(now)[i] \in InUse
<1> SUFFICES ASSUME ~cfg.unref PROVE Refs(now)[i] \in InUse
  OBVIOUS
<1>1. now \in InUse
  BY AtWork DEF DInv, Numbering, UsedOnly
<1>2. Leads(now) \subseteq InUse
  BY <1>1, InUseIsLeast DEF DInv, CInv, IInv, Types, Least
<1> QED
  BY <1>2 DEF Leads, Elements

-----------------------------------------------------------------------------
(* Setup: what is chosen for object streams has been found by the walk.    *)
LEMMA ChosenAreEligible ==
  ASSUME doc \in Docs, cfg \in Config, Eligible \in Seq(Objs)
  PROVE  /\ Chosen \in [Objs -> Int \cup {None}]
         /\ ~cfg.unref => \A o \in Objs : Freed[Chosen][o] # None => o \in Elements(Eligible)
         /\ \A o \in KeptOut : o \in Objs => Freed[Chosen][o] = None
<1> DEFINE C == [Objs -> Int \cup {None}]
<1>1. Elements(Eligible) \in SUBSET Objs
  BY DEF Elements
<1>2. Objs \subseteq Int /\ doc.stored \in [Objs -> Objs \cup {None}]
  BY ConstantsAssumption DEF IsDoc
<1>3. Chosen \in C /\ (~cfg.unref => \A o \in Objs : Chosen[o] # None => o \in Elements(Eligible))
  <2>1. CASE cfg.streams = "disable"
    BY <2>1 DEF Chosen
  <2>2. CASE cfg.streams = "preserve"
    <3>1. Chosen = [p \in Objs |->
                      IF cfg.unref \/ p \in Elements(Eligible) THEN doc.stored[p] ELSE None]
      BY <1>1, <2>2 DEF Chosen, Preserved, Kept
    <3> QED
      BY <1>2, <3>1
  <2>3. CASE cfg.streams = "generate"
    <3> DEFINE each == CeilDiv(Len(Eligible), CeilDiv(Len(Eligible), PerStream))
    <3>1. Chosen = [p \in Objs |->
             IF \E i \in DOMAIN Eligible : Eligible[i] = p
             THEN NewObject(CeilDiv(CHOOSE i \in DOMAIN Eligible : Eligible[i] = p, each))
             ELSE None]
      BY <2>3 DEF Chosen, Spread
    <3>2. ASSUME NEW a \in Nat \ {0}, NEW b \in Nat \ {0}
          PROVE  CeilDiv(a, b) \in Nat \ {0}
      <4>1. (a + b - 1) \div b \in Int /\ (a + b - 1) \div b > 0
        OBVIOUS
      <4> QED
        BY <4>1 DEF CeilDiv
    <3>3. Len(Eligible) \in Nat /\ DOMAIN Eligible = 1..Len(Eligible)
      OBVIOUS
    <3>4. ASSUME NEW i \in DOMAIN Eligible PROVE NewObject(CeilDiv(i, each)) \in Int
      <4>1. Len(Eligible) \in Nat \ {0} /\ i \in Nat \ {0}
        BY <3>3
      <4>2. CeilDiv(Len(Eligible), PerStream) \in Nat \ {0}
        BY <3>2, <4>1, ConstantsAssumption
      <4>3. each \in Nat \ {0}
        BY <3>2, <4>1, <4>2
      <4> HIDE DEF each
      <4>4. CeilDiv(i, each) \in Nat \ {0}
        BY <3>2, <4>1, <4>3
      <4>5. Cardinality(doc.table) \in Nat
        BY ConstantsAssumption, FS_Subset, FS_CardinalityType DEF IsDoc
      <4> QED
        BY <4>4, <4>5 DEF NewObject
    <3> HIDE DEF each
    <3>5. ASSUME NEW p \in Objs
          PROVE  /\ Chosen[p] \in Int \cup {None}
                 /\ Chosen[p] # None => p \in Elements(Eligible)
      <4>1. CASE \E i \in DOMAIN Eligible : Eligible[i] = p
        <5> DEFINE k == CHOOSE i \in DOMAIN Eligible : Eligible[i] = p
        <5>1. k \in DOMAIN Eligible /\ p \in Elements(Eligible)
          BY <4>1 DEF Elements
        <5>2. Chosen[p] = NewObject(CeilDiv(k, each))
          BY <3>1, <4>1
        <5> HIDE DEF k
        <5> QED
          BY <3>4, <5>1, <5>2
      <4>2. CASE ~\E i \in DOMAIN Eligible : Eligible[i] = p
        BY <3>1, <4>2
      <4> QED
        BY <4>1, <4>2
    <3> QED
      BY <3>1, <3>5
  <2>4. cfg.streams \in {"disable", "preserve", "generate"}
    BY DEF Config
  <2> QED
    BY <2>1, <2>2, <2>3, <2>4
<1>4. Freed = [c \in C |-> [p \in Objs |-> IF p \in KeptOut THEN None ELSE c[p]]]
  BY DEF Freed
<1> HIDE DEF C
<1>5. \A o \in Objs : Freed[Chosen][o] = IF o \in KeptOut THEN None ELSE Chosen[o]
  BY <1>3, <1>4
<1> QED
  BY <1>3, <1>5 DEF C

LEMMA EligibleIsSeq ==
  ASSUME doc \in Docs
  PROVE  Eligible \in Seq(Objs) /\ \A p \in Elements(Eligible) : Compressible(p)
<1>1. /\ doc.table \subseteq Objs /\ doc.refs \in [Objs -> Seq(doc.table)]
      /\ doc.trailer \in Seq(doc.table)
  BY ConstantsAssumption DEF IsDoc
<1>2. Elements(doc.trailer) \subseteq doc.table
  BY <1>1 DEF Elements
<1>3. \A p \in doc.table : Elements(doc.refs[p]) \subseteq doc.table
  BY <1>1 DEF Elements
<1> QED
  BY <1>1, <1>2, <1>3, WalkWithin

LEMMA ChosenStayInUse ==
  ASSUME DInv, Setup, ~cfg.unref, NEW o \in Objs, held'[o] # None
  PROVE  o \in InUse' /\ o \notin doc.streams
<1>1. /\ held' = Freed[Chosen] /\ held' \in [Objs -> Objs \cup {None}]
      /\ doc' = doc /\ doc \in Docs /\ cfg \in Config
  BY DEF Setup, HasRoom, DInv, Settled, CInv, IInv, Types
<1>2. /\ doc.table \subseteq Objs /\ doc.refs \in [Objs -> Seq(doc.table)]
      /\ doc.trailer \in Seq(doc.table)
  BY <1>1, ConstantsAssumption DEF IsDoc
<1>3. /\ InUse' \subseteq Objs /\ Elements(doc.trailer) \subseteq InUse'
      /\ \A p \in InUse' : Leads(p)' \subseteq InUse'
  <2>1. (doc \in Docs /\ held \in [Objs -> Objs \cup {None}] => Least)'
    BY InUseIsLeast, PTL
  <2> QED
    BY <1>1, <2>1 DEF Least, Elements
<1>4. Eligible \in Seq(Objs) /\ \A p \in Elements(Eligible) : Compressible(p)
  BY <1>1, EligibleIsSeq
<1>5. \A p \in Objs : held'[p] # None => p \in Elements(Eligible)
  BY <1>1, <1>4, ChosenAreEligible
<1> DEFINE U == InUse' \cap doc.table
<1>6. ASSUME NEW p \in U PROVE Elements(doc.refs[p]) \subseteq U
  <2>1. held'[p] = None \/ p \notin doc.streams
    BY <1>2, <1>4, <1>5 DEF Compressible
  <2>2. Refs(p)' = doc.refs[p]
    BY <1>1, <2>1 DEF Refs
  <2>3. Elements(doc.refs[p]) \subseteq InUse'
    BY <1>3, <2>2 DEF Leads, Elements
  <2>4. Elements(doc.refs[p]) \subseteq doc.table
    BY <1>2 DEF Elements
  <2> QED
    BY <2>3, <2>4
<1>7. Elements(doc.trailer) \subseteq U
  BY <1>2, <1>3 DEF Elements
<1>8. \A p \in Elements(Eligible) : p \in U
  <2>1. U \subseteq Objs
    BY <1>3
  <2> HIDE DEF U
  <2> QED
    BY <1>1, <1>6, <1>7, <2>1, WalkWithin
<1> QED
  BY <1>4, <1>5, <1>8 DEF Compressible

(* Before anything is enqueued nothing has a number.                       *)
LEMMA NothingNumbered ==
  ASSUME (\A o \in Objs : num[o] = 0) /\ queue = <<>> /\ next = 1 /\ phase # "done"
  PROVE  Numbering /\ Finished
<1>1. DOMAIN queue = {} /\ 1..(next - 1) = {}
  OBVIOUS
<1>2. \A o : ~Closed(o)
  BY <1>1 DEF Closed
<1> QED
  BY <1>1, <1>2 DEF Numbering, UsedOnly, OnQueue, Covered, Present, Linked, Finished

LEMMA CompleteInit == Init => DInv
<1> SUFFICES ASSUME Init PROVE DInv
  OBVIOUS
<1>1. (\A o \in Objs : num[o] = 0) /\ queue = <<>> /\ next = 1 /\ phase = "config"
  BY DEF Init
<1>2. Numbering /\ Finished
  BY <1>1, NothingNumbered
<1>3. cfg \in Config
  BY DEF Init, DefaultConfig, Config
<1> QED
  BY <1>1, <1>2, <1>3, CopyInit DEF DInv, Settled, Pending

(* One sequence after the other.                                           *)
LEMMA Joined ==
  ASSUME NEW A, NEW a \in Seq(A), NEW B, NEW b \in Seq(B)
  PROVE  a \o b \in Seq(A \cup B) /\ Elements(a \o b) = Elements(a) \cup Elements(b)
<1> DEFINE c == a \o b
<1>1. /\ c \in Seq(A \cup B) /\ Len(a) \in Nat /\ Len(b) \in Nat
      /\ DOMAIN a = 1..Len(a) /\ DOMAIN b = 1..Len(b) /\ DOMAIN c = 1..(Len(a) + Len(b))
      /\ \A i \in DOMAIN a : i \in DOMAIN c /\ c[i] = a[i]
      /\ \A i \in DOMAIN b : Len(a) + i \in DOMAIN c /\ c[Len(a) + i] = b[i]
  <2>1. a \in Seq(A \cup B) /\ b \in Seq(A \cup B)
    OBVIOUS
  <2> QED
    BY <2>1
<1>2. \A i \in DOMAIN c : i \in DOMAIN a \/ \E j \in DOMAIN b : i = Len(a) + j
  <2> SUFFICES ASSUME NEW i \in DOMAIN c, i \notin DOMAIN a
               PROVE  i - Len(a) \in DOMAIN b /\ i = Len(a) + (i - Len(a))
    BY Zenon
  <2> QED
    BY <1>1
<1> HIDE DEF c
<1>3. \A x \in Elements(c) : x \in Elements(a) \cup Elements(b)
  BY <1>1, <1>2 DEF Elements
<1>4. \A x \in Elements(a) \cup Elements(b) : x \in Elements(c)
  BY <1>1 DEF Elements
<1> QED
  BY <1>1, <1>3, <1>4 DEF c

LEMMA SettingKeeps ==
  ASSUME DInv, Setting
  PROVE  (Settled /\ Pending /\ Numbering /\ Finished)'
<1>1. phase = "config" /\ phase' = "config" /\ UNCHANGED <<held, doc, num, next, queue>>
  BY DEF Setting, numVars
<1>2. (\A o \in Objs : num'[o] = 0) /\ queue' = <<>> /\ next' = 1
  BY <1>1 DEF DInv, CInv, IInv, Fresh, Stages, Numbering, Covered
<1>3. (Numbering /\ Finished)'
  <2>1. ((\A o \in Objs : num[o] = 0) /\ queue = <<>> /\ next = 1 /\ phase # "done"
           => Numbering /\ Finished)'
    BY NothingNumbered, PTL
  <2> QED
    BY <1>1, <1>2, <2>1
<1>4. cfg' \in Config
  <2>1. cfg \in Config
    BY DEF DInv, Settled
  <2>2. PICK b \in BOOLEAN :
          cfg' \in {Qdf(cfg, b), Linearize(cfg, b), [cfg EXCEPT !.unref = b],
                    [cfg EXCEPT !.compress = b]}
                   \cup {[cfg EXCEPT !.streams = s] : s \in {"disable", "preserve", "generate"}}
    BY DEF Setting
  <2>3. Qdf(cfg, b) \in Config /\ Linearize(cfg, b) \in Config
    BY <2>1 DEF Config, Qdf, Linearize
  <2>4. [cfg EXCEPT !.unref = b] \in Config /\ [cfg EXCEPT !.compress = b] \in Config
    BY <2>1 DEF Config
  <2>5. \A s \in {"disable", "preserve", "generate"} : [cfg EXCEPT !.streams = s] \in Config
    BY <2>1 DEF Config
  <2> QED
    BY <2>2, <2>3, <2>4, <2>5
<1> QED
  BY <1>1, <1>3, <1>4 DEF Settled, Pending

LEMMA SetupKeeps ==
  ASSUME DInv, Setup
  PROVE  (Settled /\ Pending /\ Numbering /\ Finished)'
<1>1. /\ phase = "config" /\ phase' \in {"parts", "enqueue"} /\ phase' # "done"
      /\ UNCHANGED <<doc, num, next, queue>>
      /\ cfg' = cfg \/ cfg' = Qdf(cfg, FALSE)
      /\ doc \in Docs /\ cfg \in Config
  BY DEF Setup, numVars, DInv, Settled, CInv, IInv, Types
<1>2. (\A o \in Objs : num'[o] = 0) /\ queue' = <<>> /\ next' = 1
  BY <1>1 DEF DInv, CInv, IInv, Fresh, Stages, Numbering, Covered
<1>3. (Numbering /\ Finished)'
  <2>1. ((\A o \in Objs : num[o] = 0) /\ queue = <<>> /\ next = 1 /\ phase # "done"
           => Numbering /\ Finished)'
    BY NothingNumbered, PTL
  <2> QED
    BY <1>1, <1>2, <2>1
<1>4. cfg' \in Config /\ cfg'.unref = cfg.unref
  BY <1>1 DEF Config, Qdf
<1>5. Settled'
  BY <1>1, <1>4, ChosenStayInUse DEF Settled
<1>6. Pending'
  <2>1. CASE phase' = "parts"
    BY <2>1 DEF Pending
  <2>2. CASE phase' = "enqueue"
    <3> DEFINE all == doc.table \cup NewStreams[Chosen]
    <3>1. todo' = (IF cfg.unref THEN Sorted(all) ELSE <<>>) \o doc.trailer /\ cfg' = cfg
      BY <2>2 DEF Setup
    <3>2. doc.table \subseteq Objs /\ Objs \subseteq Int /\ doc.trailer \in Seq(Objs)
      BY <1>1, ConstantsAssumption DEF IsDoc
    <3>3. all \subseteq Int /\ IsFiniteSet(all)
      <4> DEFINE C == [Objs -> Int \cup {None}]
      <4>1. Chosen \in C
        BY <1>1, EligibleIsSeq, ChosenAreEligible
      <4>2. NewStreams = [c \in C |-> {c[o] : o \in Objs} \ {None}]
        BY DEF NewStreams
      <4> HIDE DEF C
      <4>3. NewStreams[Chosen] = {Chosen[o] : o \in Objs} \ {None}
        BY <4>1, <4>2
      <4>4. NewStreams[Chosen] \subseteq Int
        BY <4>1, <4>3 DEF C
      <4>5. IsFiniteSet({Chosen[o] : o \in Objs})
        <5> DEFINE f == [o \in Objs |-> Chosen[o]]
                   T == {Chosen[o] : o \in Objs}
        <5>1. f \in [Objs -> T] /\ \A t \in T : \E o \in Objs : f[o] = t
          OBVIOUS
        <5> HIDE DEF f, T
        <5>2. f \in Surjection(Objs, T)
          BY <5>1 DEF Surjection
        <5>3. IsFiniteSet(T)
          BY <5>2, FS_Surjection, ConstantsAssumption
        <5> QED
          BY <5>3 DEF T
      <4>6. IsFiniteSet(NewStreams[Chosen]) /\ IsFiniteSet(doc.table)
        BY <3>2, <4>3, <4>5, ConstantsAssumption, FS_Subset
      <4> QED
        BY <3>2, <4>4, <4>6, FS_Union
    <3>4. \E T : (IF cfg.unref THEN Sorted(all) ELSE <<>>) \in Seq(T)
      <4>1. \E T : Sorted(all) \in Seq(T)
        <5> HIDE DEF all
        <5> QED
          BY <3>3, SortedHasAll
      <4>2. <<>> \in Seq({})
        OBVIOUS
      <4> HIDE DEF all
      <4> QED
        BY <4>1, <4>2
    <3>5. cfg.unref => doc.table \subseteq Elements(Sorted(all))
      <4>1. \A o \in all : o \in Elements(Sorted(all))
        <5> HIDE DEF all
        <5> QED
          BY <3>3, SortedHasAll DEF Elements
      <4> QED
        BY <4>1
    <3>6. ~cfg.unref => Elements(IF cfg.unref THEN Sorted(all) ELSE <<>>) = {}
      BY DEF Elements
    <3> DEFINE a == IF cfg.unref THEN Sorted(all) ELSE <<>>
    <3>7. /\ \E T : todo' \in Seq(T)
          /\ Elements(todo') = Elements(a) \cup Elements(doc.trailer)
      <4>1. PICK T : a \in Seq(T)
        BY <3>4
      <4> DEFINE b == doc.trailer
      <4>2. a \o b \in Seq(T \cup Objs) /\ Elements(a \o b) = Elements(a) \cup Elements(b)
        <5>1. b \in Seq(Objs)
          BY <3>2
        <5>2. \A c \in Seq(T), d \in Seq(Objs) :
                c \o d \in Seq(T \cup Objs) /\ Elements(c \o d) = Elements(c) \cup Elements(d)
          BY Joined, Zenon
        <5> HIDE DEF a, b
        <5> QED
          BY <4>1, <5>1, <5>2
      <4>3. todo' = a \o b
        BY <3>1
      <4> QED
        BY <4>2, <4>3
    <3> HIDE DEF all
    <3>8. /\ \A o \in Sought' : o \in Elements(todo')
          /\ cfg.unref \/ Elements(todo') \subseteq Elements(doc.trailer)
      BY <1>1, <3>1, <3>5, <3>6, <3>7 DEF Sought
    <3> QED
      BY <1>1, <2>2, <3>1, <3>7, <3>8 DEF Pending, Elements
  <2> QED
    BY <1>1, <2>1, <2>2
<1> QED
  BY <1>3, <1>5, <1>6

-----------------------------------------------------------------------------
(* An object in use is enqueued.                                           *)
LEMMA EnqueuedKeeps ==
  ASSUME DInv, NEW c \in Objs, Enqueue(c), cfg.unref \/ c \in InUse,
         phase \in {"enqueue", "write"}, UNCHANGED <<docVars, phase, front, rest, now, file>>
  PROVE  /\ Numbering' /\ Settled'
         /\ \A o \in Objs : num[o] # 0 => num'[o] # 0
         /\ num'[c] # 0 \/ Skipped(c)
<1>1. Settled'
  BY InUseStays DEF DInv, Settled, docVars
<1>2. CASE UNCHANGED numVars /\ (num[c] # 0 \/ Skipped(c))
  BY <1>1, <1>2, QuietNumbering DEF DInv, numVars
<1>3. CASE GivenTo(Place(c))
  <2>1. Numbering'
    BY <1>3, NumberingKeeps
  <2>2. \A o \in Objs : num[o] # 0 => num'[o] # 0
    BY <1>3, MovedNumbers DEF DInv
  <2>3. num'[c] # 0
    <3>1. next \in Nat \ {0} /\ held \in [Objs -> Objs \cup {None}]
      BY DEF DInv, CInv, IInv, Types
    <3>2. c = Place(c) \/ held[c] = Place(c)
      BY DEF Place
    <3>3. num'[c] = next \/ (num'[c] \in Nat /\ num'[c] > next)
      BY <1>3, <3>2 DEF GivenTo
    <3> QED
      BY <3>1, <3>3
  <2> QED
    BY <1>1, <2>1, <2>2, <2>3
<1> QED
  BY <1>2, <1>3, EnqueueMoves DEF DInv

LEMMA EnqueueObjectKeeps ==
  ASSUME DInv, EnqueueObject
  PROVE  (Settled /\ Pending /\ Numbering /\ Finished)'
<1>1. /\ phase = "enqueue" /\ todo # <<>> /\ todo' = Tail(todo)
      /\ UNCHANGED <<docVars, phase, front, rest, now, file>>
  BY DEF EnqueueObject, outVars
<1>2. PICK c \in Objs : c = Head(todo) /\ Enqueue(c)
  BY DEF EnqueueObject
<1>3. PICK T : todo \in Seq(T)
  BY <1>1 DEF DInv, Pending
<1>4. /\ todo' \in Seq(T)
      /\ Elements(todo) = {c} \cup Elements(todo')
  <2> DEFINE t == Tail(todo)
  <2>1. /\ t \in Seq(T) /\ Len(todo) \in Nat \ {0} /\ DOMAIN todo = 1..Len(todo)
        /\ DOMAIN t = 1..(Len(todo) - 1) /\ \A i \in DOMAIN t : t[i] = todo[i + 1]
        /\ todo[1] = c
    BY <1>1, <1>2, <1>3
  <2> HIDE DEF t
  <2>2. \A i \in DOMAIN todo : i = 1 \/ (i - 1 \in DOMAIN t /\ t[i - 1] = todo[i])
    BY <2>1
  <2>3. 1 \in DOMAIN todo /\ \A i \in DOMAIN t : i + 1 \in DOMAIN todo /\ t[i] = todo[i + 1]
    BY <2>1
  <2>4. \A x \in Elements(todo) : x = c \/ x \in Elements(t)
    BY <2>1, <2>2 DEF Elements
  <2>5. \A x \in {c} \cup Elements(t) : x \in Elements(todo)
    BY <2>1, <2>3 DEF Elements
  <2>6. Elements(todo') = Elements(t)
    BY <1>1 DEF t
  <2> QED
    BY <1>1, <2>1, <2>4, <2>5, <2>6 DEF t
<1>5. cfg.unref \/ c \in InUse
  <2>1. cfg.unref \/ c \in Elements(doc.trailer)
    BY <1>1, <1>4 DEF DInv, Pending
  <2> QED
    BY <2>1, InUseIsLeast DEF DInv, CInv, IInv, Types, Least
<1>6. /\ Numbering' /\ Settled'
      /\ \A o \in Objs : num[o] # 0 => num'[o] # 0
      /\ num'[c] # 0 \/ Skipped(c)
  BY <1>1, <1>2, <1>5, EnqueuedKeeps
<1>7. Pending'
  <2>1. /\ Sought' = Sought /\ \A o : Skipped(o)' = Skipped(o)
        /\ doc' = doc /\ cfg' = cfg
    BY <1>1 DEF Sought, Skipped, docVars, Elements
  <2>2. Sought \subseteq Objs
    BY ConstantsAssumption DEF DInv, CInv, IInv, Types, IsDoc, Sought, Elements
  <2>3. ASSUME NEW o \in Sought
        PROVE  num'[o] # 0 \/ Skipped(o) \/ o \in Elements(todo')
    <3>1. num[o] # 0 \/ Skipped(o) \/ o \in Elements(todo)
      BY <1>1 DEF DInv, Pending
    <3> QED
      BY <1>4, <1>6, <2>2, <3>1
  <2>4. cfg.unref \/ Elements(todo') \subseteq Elements(doc.trailer)
    BY <1>1, <1>4 DEF DInv, Pending
  <2>5. Elements(todo') = Elements(todo)' /\ Elements(doc.trailer)' = Elements(doc.trailer)
    BY <2>1 DEF Elements
  <2> QED
    BY <1>1, <1>4, <2>1, <2>3, <2>4, <2>5 DEF Pending
<1> QED
  BY <1>1, <1>6, <1>7 DEF Finished

LEMMA StartWritingKeeps ==
  ASSUME DInv, StartWriting
  PROVE  (Settled /\ Pending /\ Numbering /\ Finished)'
<1>1. /\ phase = "enqueue" /\ phase' = "write" /\ todo = <<>> /\ todo' = todo
      /\ UNCHANGED <<docVars, numVars, front, rest, now, file>>
  BY DEF StartWriting, outVars
<1>2. /\ Sought' = Sought /\ \A o : Skipped(o)' = Skipped(o)
      /\ Elements(todo)' = Elements(todo) /\ Elements(doc.trailer)' = Elements(doc.trailer)
      /\ cfg' = cfg /\ num' = num
  BY <1>1 DEF Sought, Skipped, docVars, numVars, Elements
<1>3. Settled'
  BY <1>1, InUseStays DEF DInv, Settled, docVars
<1>4. Pending'
  BY <1>1, <1>2 DEF DInv, Pending
<1> QED
  BY <1>1, <1>3, <1>4, QuietNumbering DEF DInv, Finished

LEMMA UnparseChildKeeps ==
  ASSUME DInv, XrefsUnused, UnparseChild
  PROVE  (Settled /\ Pending /\ Numbering /\ Finished)'
<1> DEFINE c == Refs(now)[Len(text) + 1]
<1>1. /\ phase = "write" /\ now # None /\ Len(text) < Len(Refs(now)) /\ todo' = todo
      /\ UNCHANGED <<docVars, phase, front, rest, now, file>>
  BY DEF UnparseChild
<1>2. Enqueue(c)
  BY <1>1 DEF UnparseChild, DInv, CInv, Stages
<1>3. /\ c \in Objs /\ Len(text) + 1 \in DOMAIN Refs(now)
  <2>1. \/ now \in doc.table /\ Refs(now) = doc.refs[now]
        \/ Refs(now) = <<>>
    BY DEF Refs
  <2>2. doc.table \subseteq Objs /\ doc.refs \in [Objs -> Seq(doc.table)]
    BY ConstantsAssumption DEF DInv, CInv, IInv, Types, IsDoc
  <2>3. Refs(now) \in Seq(doc.table)
    <3>1. CASE now \in doc.table /\ Refs(now) = doc.refs[now]
      BY <2>2, <3>1
    <3>2. CASE Refs(now) = <<>>
      BY <3>2
    <3> QED
      BY <2>1, <3>1, <3>2
  <2>4. Len(text) \in Nat
    BY DEF DInv, CInv, IInv, Written
  <2>5. Len(text) + 1 \in 1..Len(Refs(now))
    BY <1>1, <2>3, <2>4
  <2> QED
    BY <2>2, <2>3, <2>5
<1>4. cfg.unref \/ c \in InUse
  BY <1>1, <1>3, ChildInUse
<1> HIDE DEF c
<1>5. /\ Numbering' /\ Settled' /\ \A o \in Objs : num[o] # 0 => num'[o] # 0
  BY <1>1, <1>2, <1>3, <1>4, EnqueuedKeeps
<1>6. Pending'
  <2>1. /\ Sought' = Sought /\ \A o : Skipped(o)' = Skipped(o)
        /\ Elements(todo)' = Elements(todo) /\ Elements(doc.trailer)' = Elements(doc.trailer)
        /\ cfg' = cfg
    BY <1>1 DEF Sought, Skipped, docVars, Elements
  <2>2. Sought \subseteq Objs
    BY ConstantsAssumption DEF DInv, CInv, IInv, Types, IsDoc, Sought, Elements
  <2> QED
    BY <1>1, <1>5, <2>1, <2>2 DEF DInv, Pending
<1> QED
  BY <1>1, <1>5, <1>6 DEF Finished

-----------------------------------------------------------------------------
LEMMA WriteNextKeeps ==
  ASSUME DInv, WriteNext
  PROVE  (Settled /\ Pending /\ Numbering /\ Finished)'
<1>1. /\ phase = "write" /\ now = None /\ front < Len(queue) /\ front' = front + 1
      /\ rest' = Members(queue[front + 1])
      /\ now' = IF rest' = {} THEN queue[front + 1] ELSE First(rest')
      /\ UNCHANGED <<docVars, phase, numVars, todo, file>>
  BY DEF WriteNext
<1>2. /\ \A o : /\ Refs(o)' = Refs(o) /\ HasLength(o)' = HasLength(o)
               /\ Place(o)' = Place(o) /\ Skipped(o)' = Skipped(o)
      /\ Sought' = Sought /\ Elements(todo)' = Elements(todo)
      /\ Elements(doc.trailer)' = Elements(doc.trailer)
      /\ UNCHANGED <<doc, cfg, held, num, next, queue>> /\ InUse' = InUse
  BY <1>1, InUseStays
     DEF Refs, Members, HasLength, Place, Skipped, Sought, Elements, docVars, numVars
<1>3. queue \in Seq(Objs) /\ front \in Nat
  BY DEF DInv, CInv, Queued, Turn
<1>4. /\ Current' = queue[front + 1] /\ queue[front + 1] \in Objs
      /\ now' # None
  <2>1. Current' = queue[front + 1] /\ queue[front + 1] \in Objs
    BY <1>1, <1>3 DEF Current, numVars
  <2>2. rest' # {} => First(rest') \in Objs
    BY <1>1, FirstIsIn DEF Members
  <2> QED
    BY <1>1, <2>1, <2>2, ConstantsAssumption
<1>5. ASSUME NEW o \in Objs, Closed(o)'
      PROVE  Closed(o)
  <2>1. PICK i \in DOMAIN queue :
          /\ queue[i] = Place(o) /\ i <= front + 1
          /\ i < front + 1 \/ (o # Current' /\ o \notin rest')
    BY <1>1, <1>2, <1>4, <1>5 DEF Closed
  <2>2. CASE i < front + 1
    BY <1>1, <1>3, <2>1, <2>2 DEF Closed
  <2>3. CASE i = front + 1 /\ o # Current' /\ o \notin rest'
    <3>1. Place(o) = Current' /\ held[o] # Current'
      BY <1>1, <1>4, <2>1, <2>3 DEF Members
    <3> QED
      BY <2>3, <3>1 DEF Place
  <2> QED
    BY <1>3, <2>1, <2>2, <2>3
<1>6. Settled' /\ Pending' /\ Finished'
  BY <1>1, <1>2 DEF DInv, Settled, Pending, Finished
<1>7. Numbering'
  BY <1>1, <1>2, <1>5 DEF DInv, Numbering, UsedOnly, OnQueue, Covered, Present, Linked
<1> QED
  BY <1>6, <1>7

LEMMA CloseObjectKeeps ==
  ASSUME DInv, CloseObject
  PROVE  (Settled /\ Pending /\ Numbering /\ Finished)'
<1>1. /\ phase = "write" /\ now # None /\ rest' = rest \ {now} /\ Len(text) = Len(Refs(now))
      /\ now' = IF now = Current THEN None
                ELSE IF rest' = {} THEN Current ELSE First(rest')
      /\ UNCHANGED <<docVars, phase, numVars, front, todo>>
  BY DEF CloseObject
<1>2. /\ \A o : /\ Refs(o)' = Refs(o) /\ HasLength(o)' = HasLength(o)
               /\ Place(o)' = Place(o) /\ Skipped(o)' = Skipped(o)
      /\ Sought' = Sought /\ Elements(todo)' = Elements(todo) /\ Current' = Current
      /\ Elements(doc.trailer)' = Elements(doc.trailer)
      /\ UNCHANGED <<doc, cfg, held, num, next, queue>> /\ InUse' = InUse
  BY <1>1, InUseStays
     DEF Refs, Members, HasLength, Place, Skipped, Sought, Elements, Current, docVars, numVars
<1>3. /\ now \in Objs /\ num[now] # 0 /\ ~Closed(now)
      /\ now # Current => held[now] = Current
      /\ now = Current => held[now] = None /\ rest = {}
      /\ front \in Nat /\ Current # None
  <2>1. /\ now \in Objs /\ num[now] # 0 /\ ~Closed(now)
        /\ now # Current => held[now] = Current
        /\ front \in DOMAIN queue /\ Current = queue[front]
    BY <1>1, AtWork DEF DInv
  <2>2. /\ held[Current] = None /\ Current \in Objs /\ Current # None
    BY <2>1, ConstantsAssumption DEF DInv, CInv, Queued
  <2>3. now = Current => now \notin rest
    BY <1>1, <2>2 DEF DInv, CInv, Turn, Members
  <2> QED
    BY <1>1, <2>1, <2>2, <2>3 DEF DInv, CInv, Turn
<1>4. ASSUME NEW o \in Objs, Closed(o)', o # now
      PROVE  Closed(o)
  <2>1. PICK i \in DOMAIN queue :
          /\ queue[i] = Place(o) /\ i <= front
          /\ i < front \/ now' = None \/ (o # Current /\ o \notin rest')
    BY <1>1, <1>2, <1>4 DEF Closed
  <2>2. i < front \/ (o # Current /\ o \notin rest)
    <3>1. CASE now' = None
      <4>1. now = Current
        <5>1. rest' # {} => First(rest') \in Objs
          BY <1>1, FirstIsIn DEF DInv, CInv, Turn, Members
        <5> QED
          BY <1>1, <1>3, <3>1, <5>1, ConstantsAssumption
      <4> QED
        BY <1>3, <1>4, <4>1
    <3>2. CASE now' # None
      BY <1>1, <1>4, <2>1, <3>2
    <3> QED
      BY <3>1, <3>2
  <2> QED
    BY <2>1, <2>2 DEF Closed
<1>5. Settled' /\ Pending' /\ Finished'
  BY <1>1, <1>2 DEF DInv, Settled, Pending, Finished
<1>6. UsedOnly' /\ OnQueue' /\ Covered'
  BY <1>1, <1>2 DEF DInv, Numbering, UsedOnly, OnQueue, Covered
<1>7. Linked'
  <2>1. ASSUME NEW i \in DOMAIN Refs(now) PROVE num[Refs(now)[i]] # 0
    <3>1. text \in Seq(Int) /\ \A j \in DOMAIN text : text[j] # 0 /\ text[j] = num[Refs(now)[j]]
      BY <1>1 DEF DInv, CInv, IInv, Written, Transcribed
    <3>2. \E T : Refs(now) \in Seq(T)
      <4>1. \/ now \in doc.table /\ Refs(now) = doc.refs[now]
            \/ Refs(now) = <<>>
        BY DEF Refs
      <4>2. doc.refs[now] \in Seq(doc.table)
        BY <1>3, ConstantsAssumption DEF DInv, CInv, IInv, Types, IsDoc
      <4>3. <<>> \in Seq({})
        OBVIOUS
      <4> QED
        BY <4>1, <4>2, <4>3
    <3>3. DOMAIN Refs(now) = DOMAIN text
      BY <1>1, <3>1, <3>2
    <3> QED
      BY <3>1, <3>3
  <2>2. \A o \in Objs : Closed(o)' => \A i \in DOMAIN Refs(o) : num[Refs(o)[i]] # 0
    BY <1>4, <2>1 DEF DInv, Numbering, Linked
  <2> QED
    BY <1>2, <2>2 DEF Linked
<1>8. Present'
  <2> DEFINE extra == HasLength(now) /\ held[now] = None
             added == IF extra THEN {num[now], num[now] + 1} ELSE {num[now]}
  <2>1. /\ DOMAIN file' = DOMAIN file \cup added
        /\ \A n \in DOMAIN file : n \notin added => file'[n] = file[n]
        /\ num[now] # num[now] + 1 => file'[num[now]] = Item
    BY Closing
  <2>2. \A n \in DOMAIN file : n \notin added
    BY CloseIsNew DEF DInv
  <2>3. num[now] # num[now] + 1
    BY <1>3 DEF DInv, CInv, IInv, Types
  <2>4. extra => num[now] + 1 \in added
    OBVIOUS
  <2>5. num[now] \in added
    OBVIOUS
  <2> HIDE DEF added
  <2> SUFFICES ASSUME NEW o \in Objs, Closed(o)'
               PROVE  /\ num[o] \in DOMAIN file' /\ file'[num[o]].of = o
                      /\ file'[num[o]].in = IF held[o] = None THEN 0 ELSE num[held[o]]
                      /\ HasLength(o) /\ held[o] = None => num[o] + 1 \in DOMAIN file'
    BY <1>2 DEF Present
  <2>6. CASE o = now
    <3>1. file'[num[now]].of = now /\ file'[num[now]].in = IF now = Current THEN 0 ELSE num[Current]
      BY <2>1, <2>3 DEF Item
    <3> QED
      BY <1>3, <2>1, <2>4, <2>5, <2>6, <3>1
  <2>7. CASE o # now
    <3>1. /\ num[o] \in DOMAIN file /\ file[num[o]].of = o
          /\ file[num[o]].in = IF held[o] = None THEN 0 ELSE num[held[o]]
          /\ HasLength(o) /\ held[o] = None => num[o] + 1 \in DOMAIN file
      BY <1>4, <2>7 DEF DInv, Numbering, Present
    <3> QED
      BY <2>1, <2>2, <3>1
  <2> QED
    BY <2>6, <2>7
<1> QED
  BY <1>5, <1>6, <1>7, <1>8 DEF Numbering

(* At the end there is something under every number, and the numbers that  *)
(* are left are filled.                                                    *)
LEMMA CloseFileKeeps ==
  ASSUME DInv, CloseFile
  PROVE  (Settled /\ Pending /\ Numbering /\ Finished)'
<1>1. /\ phase = "write" /\ now = None /\ front = Len(queue) /\ next' = next + Specials
      /\ file' = [n \in DOMAIN file \cup next..(next' - 1) |->
                    IF n \in DOMAIN file THEN file[n] ELSE Length]
      /\ phase' = "done"
      /\ UNCHANGED <<docVars, num, queue, front, todo, rest, now>>
  BY DEF CloseFile
<1>2. /\ \A o : /\ Refs(o)' = Refs(o) /\ HasLength(o)' = HasLength(o)
               /\ Place(o)' = Place(o) /\ Skipped(o)' = Skipped(o)
      /\ Sought' = Sought /\ Elements(todo)' = Elements(todo) /\ Current' = Current
      /\ Elements(doc.trailer)' = Elements(doc.trailer)
      /\ UNCHANGED <<doc, cfg, held, num, queue>> /\ InUse' = InUse
  BY <1>1, InUseStays
     DEF Refs, Members, HasLength, Place, Skipped, Sought, Elements, Current, docVars
<1>3. \A o : Closed(o)' = Closed(o)
  BY <1>1, <1>2 DEF Closed
<1>4. /\ next \in Nat \ {0} /\ num \in [Objs -> Nat]
      /\ next' \in Nat /\ next' >= next
  <2>1. next \in Nat \ {0} /\ num \in [Objs -> Nat]
    BY DEF DInv, CInv, IInv, Types
  <2>2. Specials \in Nat
    BY DEF Specials
  <2> QED
    BY <1>1, <2>1, <2>2
<1>5. DOMAIN file = 1..(next - 1)
  <2>1. ASSUME NEW n \in 1..(next - 1) PROVE n \in DOMAIN file
    <3>1. PICK o \in Objs :
            /\ num[o] # 0
            /\ n = num[o] \/ (HasLength(o) /\ held[o] = None /\ n = num[o] + 1)
      BY <1>1 DEF DInv, Numbering, Covered
    <3>2. PICK i \in DOMAIN queue : queue[i] = Place(o)
      BY <3>1 DEF DInv, Numbering, OnQueue
    <3>3. queue \in Seq(Objs)
      BY DEF DInv, CInv, Queued
    <3>4. Closed(o)
      BY <1>1, <3>2, <3>3 DEF Closed
    <3> QED
      BY <3>1, <3>4 DEF DInv, Numbering, Present
  <2>2. ASSUME NEW n \in DOMAIN file PROVE n \in 1..(next - 1)
    <3>1. PICK o \in Objs :
            /\ num[o] # 0
            /\ n = num[o] \/ (HasLength(o) /\ held[o] = None /\ n = num[o] + 1)
      BY <1>1 DEF DInv, CInv, Filed
    <3>2. num[o] < next /\ (num[o] # 0 /\ HasLength(o) /\ held[o] = None => num[o] + 1 < next)
      BY DEF DInv, CInv, IInv, Below
    <3> QED
      BY <1>4, <3>1, <3>2
  <2> QED
    BY <2>1, <2>2
<1>6. /\ DOMAIN file' = 1..(next' - 1)
      /\ \A n \in DOMAIN file : n \in DOMAIN file' /\ file'[n] = file[n]
  <2> DEFINE a == next
             b == next'
  <2>1. DOMAIN file' = DOMAIN file \cup a..(b - 1)
    BY <1>1
  <2>2. DOMAIN file = 1..(a - 1) /\ a \in Nat \ {0} /\ b \in Nat /\ b >= a
    BY <1>4, <1>5
  <2>3. DOMAIN file' = 1..(b - 1)
    <3> HIDE DEF a, b
    <3> QED
      BY <2>1, <2>2
  <2> QED
    BY <1>1, <2>3
<1>7. Settled' /\ Pending' /\ Finished'
  BY <1>1, <1>2, <1>6 DEF DInv, Settled, Pending, Finished
<1>8. UsedOnly' /\ OnQueue' /\ Covered' /\ Linked'
  BY <1>1, <1>2, <1>3 DEF DInv, Numbering, UsedOnly, OnQueue, Covered, Linked
<1>9. Present'
  BY <1>2, <1>3, <1>6 DEF DInv, Numbering, Present
<1> QED
  BY <1>7, <1>8, <1>9 DEF Numbering

-----------------------------------------------------------------------------
LEMMA CompleteStep == DInv /\ XrefsUnused /\ [Next]_vars => DInv'
<1> SUFFICES ASSUME DInv, XrefsUnused, [Next]_vars
             PROVE  (Settled /\ Pending /\ Numbering /\ Finished)'
  BY CopyStep DEF DInv
<1>1. CASE UNCHANGED vars
  <2>1. UNCHANGED <<docVars, phase, numVars, front, todo, rest, now, file>>
    BY <1>1 DEF vars, outVars
  <2>2. /\ Sought' = Sought /\ \A o : Skipped(o)' = Skipped(o)
        /\ Elements(todo)' = Elements(todo) /\ Elements(doc.trailer)' = Elements(doc.trailer)
        /\ UNCHANGED <<cfg, held, num, next, queue>> /\ InUse' = InUse
    BY <2>1, InUseStays DEF Sought, Skipped, docVars, numVars, Elements
  <2>3. Settled' /\ Pending' /\ Finished'
    BY <2>1, <2>2 DEF DInv, Settled, Pending, Finished, docVars
  <2> QED
    BY <2>1, <2>3, QuietNumbering DEF DInv
<1> QED
  BY <1>1, SettingKeeps, SetupKeeps, EnqueueObjectKeeps, StartWritingKeeps, WriteNextKeeps,
     UnparseChildKeeps, CloseObjectKeeps, CloseFileKeeps DEF Next, Work

LEMMA DoneIsComplete == DInv /\ XrefsUnused /\ XrefsNotInTrailer => Complete
<1> SUFFICES ASSUME DInv, XrefsUnused, XrefsNotInTrailer, phase = "done"
             PROVE  /\ DOMAIN file = 1..(next - 1)
                    /\ {o \in Wanted : ~Skipped(o)} \subseteq Numbered
                    /\ \A o \in Numbered :
                         /\ file[num[o]].of = o
                         /\ file[num[o]].in = IF held[o] = None THEN 0 ELSE num[held[o]]
                    /\ cfg.unref \/ Numbered \subseteq InUse
  BY DEF Complete
<1>1. /\ doc \in Docs /\ held \in [Objs -> Objs \cup {None}]
      /\ front = Len(queue) /\ now = None /\ DOMAIN file = 1..(next - 1) /\ queue \in Seq(Objs)
  BY DEF DInv, CInv, IInv, Types, Finished, Queued
<1>2. /\ doc.table \subseteq Objs /\ doc.refs \in [Objs -> Seq(doc.table)]
      /\ doc.trailer \in Seq(doc.table)
  BY <1>1, ConstantsAssumption DEF IsDoc
<1>3. \A o \in Objs : num[o] # 0 => Closed(o)
  <2> SUFFICES ASSUME NEW o \in Objs, num[o] # 0 PROVE Closed(o)
    OBVIOUS
  <2>1. PICK i \in DOMAIN queue : queue[i] = Place(o)
    BY DEF DInv, Numbering, OnQueue
  <2> QED
    BY <1>1, <2>1 DEF Closed
<1>4. \A o \in Numbered :
        /\ file[num[o]].of = o
        /\ file[num[o]].in = IF held[o] = None THEN 0 ELSE num[held[o]]
  BY <1>3 DEF Numbered, DInv, Numbering, Present
<1>5. cfg.unref \/ Numbered \subseteq InUse
  BY DEF DInv, Numbering, UsedOnly, Numbered
<1>6. \A o \in Sought : num[o] # 0 \/ Skipped(o)
  BY DEF DInv, Pending, Elements
<1>7. Elements(doc.trailer) \subseteq Numbered
  <2>1. ASSUME NEW o \in Elements(doc.trailer) PROVE o \in Numbered
    <3>1. o \in Objs /\ o \notin doc.xrefs
      BY <1>1, <1>2 DEF Elements, XrefsNotInTrailer
    <3> QED
      BY <1>6, <3>1 DEF Sought, Skipped, Numbered
  <2> QED
    BY <2>1
<1>8. \A o \in Numbered : Leads(o) \subseteq Numbered
  <2> SUFFICES ASSUME NEW o \in Numbered, NEW x \in Leads(o) PROVE x \in Numbered
    OBVIOUS
  <2>1. o \in Objs /\ num[o] # 0 /\ Closed(o)
    BY <1>3 DEF Numbered
  <2>2. CASE x = held[o] /\ held[o] # None
    BY <1>1, <2>1, <2>2 DEF DInv, CInv, Paired, Numbered
  <2>3. CASE x \in Elements(Refs(o))
    <3>1. PICK i \in DOMAIN Refs(o) : x = Refs(o)[i]
      BY <2>3 DEF Elements
    <3>2. num[x] # 0
      BY <2>1, <3>1 DEF DInv, Numbering, Linked
    <3>3. x \in Objs
      <4>1. Refs(o) = doc.refs[o] \/ Refs(o) = <<>>
        BY DEF Refs
      <4>2. doc.refs[o] \in Seq(doc.table)
        BY <1>2, <2>1
      <4>3. doc.refs[o][i] \in doc.table
        BY <3>1, <4>1, <4>2
      <4> QED
        BY <1>2, <3>1, <4>1, <4>3
    <3> QED
      BY <3>2, <3>3 DEF Numbered
  <2> QED
    BY <2>2, <2>3 DEF Leads
<1>9. InUse \subseteq Numbered
  <2>1. Numbered \in SUBSET Objs
    BY DEF Numbered
  <2> HIDE DEF Numbered
  <2> QED
    BY <1>1, <1>7, <1>8, <2>1, InUseIsLeast DEF Least
<1>10. {o \in Wanted : ~Skipped(o)} \subseteq Numbered
  <2> SUFFICES ASSUME NEW o \in Wanted, ~Skipped(o) PROVE o \in Numbered
    OBVIOUS
  <2>1. CASE o \in InUse
    BY <1>9, <2>1
  <2>2. CASE o \in doc.table /\ cfg.unref
    BY <1>2, <1>6, <2>2 DEF Sought, Numbered
  <2> QED
    BY <2>1, <2>2 DEF Wanted
<1> QED
  BY <1>1, <1>4, <1>5, <1>10

(* A file that is finished holds all that is in use, each object in its    *)
(* place, and nothing else, and has no gap in its numbers.                 *)
THEOREM WriterIsComplete == XrefsUnused /\ XrefsNotInTrailer => (Spec => []Complete)
<1>1. Init => DInv
  BY CompleteInit
<1>2. DInv /\ XrefsUnused /\ [Next]_vars => DInv'
  BY CompleteStep
<1>3. DInv /\ XrefsUnused /\ XrefsNotInTrailer => Complete
  BY DoneIsComplete
<1> SUFFICES ASSUME XrefsUnused, XrefsNotInTrailer PROVE Spec => []Complete
  OBVIOUS
<1>4. DInv /\ [Next]_vars => DInv'
  BY <1>2
<1>5. DInv => Complete
  BY <1>3
<1> QED
  BY <1>1, <1>4, <1>5, PTL DEF Spec

-----------------------------------------------------------------------------
(***************************************************************************)
(* A linearized file gives no two objects one number, and every offset     *)
(* that is written before its target is where the target comes to stand,   *)
(* for every document, any number of pages and a hint stream of any        *)
(* length.                                                                 *)
(*                                                                         *)
(* There are three parts.  The parts of the file are lists of sets that    *)
(* are apart from each other, and so is the order of the numbers.  In the  *)
(* second pass all that stands behind the hint stream has moved by its     *)
(* length, and nothing else; and no offset is longer than its field.  The  *)
(* invariant then says, for each phase, what the phases before have left.  *)
(***************************************************************************)

(* s has each element of S once.                                           *)
Lists(s, S) ==
  /\ s \in Seq(S)
  /\ \A x \in S : \E i \in DOMAIN s : s[i] = x
  /\ \A i, j \in DOMAIN s : s[i] = s[j] => i = j

LEMMA ListsNothing == Lists(<<>>, {})
  BY DEF Lists

LEMMA ListsOne == ASSUME NEW x PROVE Lists(<<x>>, {x})
  BY DEF Lists

(* One list after another, if they have nothing in common.                 *)
LEMMA ListsAfter ==
  ASSUME NEW a, NEW A, NEW b, NEW B, Lists(a, A), Lists(b, B), A \cap B = {}
  PROVE  /\ Lists(a \o b, A \cup B) /\ Len(a \o b) = Len(a) + Len(b)
         /\ \A i \in DOMAIN a : (a \o b)[i] = a[i]
         /\ \A i \in DOMAIN b : (a \o b)[Len(a) + i] = b[i]
<1> DEFINE c == a \o b
<1>1. /\ a \in Seq(A) /\ b \in Seq(B) /\ Len(a) \in Nat /\ Len(b) \in Nat
      /\ DOMAIN a = 1..Len(a) /\ DOMAIN b = 1..Len(b)
  BY DEF Lists
<1>2. /\ c \in Seq(A \cup B) /\ Len(c) = Len(a) + Len(b) /\ DOMAIN c = 1..(Len(a) + Len(b))
      /\ \A i \in DOMAIN a : i \in DOMAIN c /\ c[i] = a[i]
      /\ \A i \in DOMAIN b : Len(a) + i \in DOMAIN c /\ c[Len(a) + i] = b[i]
  <2>1. a \in Seq(A \cup B) /\ b \in Seq(A \cup B)
    BY <1>1
  <2> QED
    BY <1>1, <2>1
<1>3. \A i \in DOMAIN c : i \in DOMAIN a \/ (i - Len(a) \in DOMAIN b /\ i = Len(a) + (i - Len(a)))
  BY <1>1, <1>2
<1> HIDE DEF c
<1>4. \A i \in DOMAIN c : \/ i \in DOMAIN a /\ c[i] = a[i] /\ c[i] \in A
                          \/ i - Len(a) \in DOMAIN b /\ c[i] = b[i - Len(a)] /\ c[i] \in B
  <2> SUFFICES ASSUME NEW i \in DOMAIN c
               PROVE  \/ i \in DOMAIN a /\ c[i] = a[i] /\ c[i] \in A
                      \/ i - Len(a) \in DOMAIN b /\ c[i] = b[i - Len(a)] /\ c[i] \in B
    OBVIOUS
  <2>1. CASE i \in DOMAIN a
    BY <1>1, <1>2, <2>1
  <2>2. CASE i \notin DOMAIN a
    <3>1. i - Len(a) \in DOMAIN b /\ c[i] = b[i - Len(a)]
      BY <1>2, <1>3, <2>2
    <3> QED
      BY <1>1, <3>1
  <2> QED
    BY <2>1, <2>2
<1>5. \A x \in A \cup B : \E i \in DOMAIN c : c[i] = x
  <2>1. ASSUME NEW x \in A PROVE \E i \in DOMAIN c : c[i] = x
    BY <1>2 DEF Lists
  <2>2. ASSUME NEW x \in B PROVE \E i \in DOMAIN c : c[i] = x
    BY <1>2 DEF Lists
  <2> QED
    BY <2>1, <2>2
<1>6. ASSUME NEW i \in DOMAIN c, NEW j \in DOMAIN c, c[i] = c[j] PROVE i = j
  <2>1. CASE i \in DOMAIN a /\ j \in DOMAIN a
    BY <1>2, <1>6, <2>1 DEF Lists
  <2>2. CASE i \notin DOMAIN a /\ j \notin DOMAIN a
    <3>1. /\ i - Len(a) \in DOMAIN b /\ c[i] = b[i - Len(a)]
          /\ j - Len(a) \in DOMAIN b /\ c[j] = b[j - Len(a)]
      BY <1>4, <2>2
    <3>2. i - Len(a) = j - Len(a)
      BY <1>6, <3>1 DEF Lists
    <3> QED
      BY <1>1, <1>2, <3>2
  <2>3. CASE ~(i \in DOMAIN a <=> j \in DOMAIN a)
    <3>1. (c[i] \in A /\ c[j] \in B) \/ (c[i] \in B /\ c[j] \in A)
      BY <1>4, <2>3
    <3> QED
      BY <1>6, <3>1
  <2> QED
    BY <2>1, <2>2, <2>3
<1>7. Lists(c, A \cup B)
  BY <1>2, <1>5, <1>6 DEF Lists
<1> QED
  BY <1>2, <1>7 DEF c

LEMMA SortedLists ==
  ASSUME NEW S, S \subseteq Int, IsFiniteSet(S)
  PROVE  Lists(Sorted(S), S)
<1> DEFINE Rk(o) == Cardinality({p \in S : p < o})
<1> DEFINE At(i) == CHOOSE o \in S : Rk(o) = i - 1
<1>1. /\ Cardinality(S) \in Nat
      /\ \A o \in S : Rk(o) \in Nat /\ Rk(o) < Cardinality(S)
      /\ \A o, p \in S : o # p => Rk(o) # Rk(p)
      /\ \A k \in 0..(Cardinality(S) - 1) : \E o \in S : Rk(o) = k
  BY RanksIn
<1>2. Sorted(S) = [i \in 1..Cardinality(S) |-> At(i)]
  BY DEF Sorted
<1> HIDE DEF Rk
<1>3. \A i \in 1..Cardinality(S) : At(i) \in S /\ Rk(At(i)) = i - 1
  BY <1>1
<1> HIDE DEF At
<1>4. Sorted(S) \in Seq(S) /\ DOMAIN Sorted(S) = 1..Cardinality(S)
  BY <1>1, <1>2, <1>3
<1>5. ASSUME NEW i \in DOMAIN Sorted(S), NEW j \in DOMAIN Sorted(S), Sorted(S)[i] = Sorted(S)[j]
      PROVE  i = j
  <2>1. i - 1 = j - 1
    BY <1>2, <1>3, <1>4, <1>5
  <2> QED
    BY <1>1, <1>4, <2>1
<1>6. \A o \in S : \E i \in DOMAIN Sorted(S) : Sorted(S)[i] = o
  BY SortedHasAll
<1> QED
  BY <1>4, <1>5, <1>6 DEF Lists

(* What the modules of Linearization are instantiated with is the same.    *)
LEMMA SameCardinality == \A S : L!Cardinality(S) = Cardinality(S)
  BY DEF L!Cardinality, Cardinality

LEMMA LeadingLists ==
  ASSUME NEW S, S \subseteq Int, IsFiniteSet(S), NEW o
  PROVE  Lists(L!Sorted(S), S) /\ Lists(L!Leading(o, S), S)
<1>1. ASSUME NEW T, T \subseteq Int, IsFiniteSet(T) PROVE Lists(L!Sorted(T), T)
  <2>1. L!Sorted(T) = Sorted(T)
    BY DEF L!Sorted, Sorted, L!Cardinality, Cardinality
  <2> QED
    BY <1>1, <2>1, SortedLists
<1>2. CASE o \in S
  <2>1. S \ {o} \subseteq Int /\ IsFiniteSet(S \ {o})
    BY FS_Subset
  <2>2. Lists(L!Sorted(S \ {o}), S \ {o})
    BY <1>1, <2>1
  <2>3. Lists(<<o>>, {o}) /\ {o} \cap (S \ {o}) = {} /\ {o} \cup (S \ {o}) = S
    BY <1>2, ListsOne
  <2> DEFINE t == L!Sorted(S \ {o})
  <2> DEFINE T == S \ {o}
  <2> HIDE DEF t, T
  <2>4. Lists(<<o>> \o t, {o} \cup T)
    BY <2>2, <2>3, ListsAfter DEF t, T
  <2> QED
    BY <1>1, <1>2, <2>3, <2>4 DEF L!Leading, t, T
<1>3. CASE o \notin S
  BY <1>1, <1>3 DEF L!Leading
<1> QED
  BY <1>2, <1>3

(* Lists that have nothing in common, one after the other.                 *)
LEMMA JoinedLists ==
  ASSUME NEW n \in Nat, NEW f, NEW A, \A i \in 1..n : Lists(f[i], A[i]),
         \A i, j \in 1..n : i # j => A[i] \cap A[j] = {}
  PROVE  Lists(L!Joined(f, n), UNION {A[i] : i \in 1..n})
<1> DEFINE U == UNION {A[i] : i \in 1..n}
<1> DEFINE D == Seq(U)
<1> DEFINE Rec(j) == j = [i \in 0..n |-> IF i = 0 THEN <<>> ELSE j[i - 1] \o f[i]]
<1> DEFINE J == CHOOSE j : Rec(j)
<1>1. L!Joined(f, n) = J[n]
  BY DEF L!Joined
<1>2. \A i \in 1..n : f[i] \in D
  BY DEF Lists
<1>3. \E j : Rec(j)
  <2> DEFINE step == [p \in (1..n) \X D |-> p[2] \o f[p[1]]]
  <2>1. \A i \in 1..n, d \in D : step[<<i, d>>] = d \o f[i] /\ d \o f[i] \in D
    <3> SUFFICES ASSUME NEW i \in 1..n, NEW d \in D
                 PROVE  step[<<i, d>>] = d \o f[i] /\ d \o f[i] \in D
      OBVIOUS
    <3>1. d \o f[i] \in D
      <4> HIDE DEF U
      <4> QED
        BY <1>2
    <3>2. <<i, d>> \in (1..n) \X D
      OBVIOUS
    <3> HIDE DEF D
    <3>3. step[<<i, d>>] = <<i, d>>[2] \o f[<<i, d>>[1]]
      BY <3>2
    <3> QED
      BY <3>1, <3>3
  <2>2. <<>> \in D
    OBVIOUS
  <2> HIDE DEF step, D
  <2>3. PICK g : IsRun(g, n, D, <<>>, step)
    BY <2>1, <2>2, RecursionTo
  <2>4. /\ g \in [0..n -> D] /\ g[0] = <<>>
        /\ \A i \in 1..n : g[i] = g[i - 1] \o f[i]
    <3>1. g \in [0..n -> D] /\ g[0] = <<>> /\ \A i \in 1..n : g[i] = step[<<i, g[i - 1]>>]
      BY <2>3 DEF IsRun
    <3>2. \A i \in 1..n : g[i - 1] \in D
      BY <3>1
    <3> QED
      BY <2>1, <3>1, <3>2
  <2>5. g = [i \in 0..n |-> IF i = 0 THEN <<>> ELSE g[i - 1] \o f[i]]
    <3>1. ASSUME NEW i \in 0..n
          PROVE  g[i] = IF i = 0 THEN <<>> ELSE g[i - 1] \o f[i]
      <4>1. i = 0 \/ i \in 1..n
        OBVIOUS
      <4> QED
        BY <2>4, <4>1, Zenon
    <3>2. g = [i \in 0..n |-> g[i]]
      BY <2>4
    <3> QED
      BY <3>1, <3>2, Zenon
  <2> QED
    BY <2>5
<1>4. Rec(J)
  <2> HIDE DEF Rec
  <2> QED
    BY <1>3
<1>5. J[0] = <<>> /\ \A i \in 1..n : J[i] = J[i - 1] \o f[i]
  <2> HIDE DEF J
  <2>1. \A i \in 0..n : J[i] = IF i = 0 THEN <<>> ELSE J[i - 1] \o f[i]
    BY <1>4, Zenon
  <2>2. 0 \in 0..n /\ \A i \in 1..n : i \in 0..n /\ i # 0
    OBVIOUS
  <2> QED
    BY <2>1, <2>2, Zenon
<1> HIDE DEF J
<1> DEFINE Up(i) == UNION {A[k] : k \in 1..i}
<1> DEFINE S == {i \in Nat : i <= n => Lists(J[i], Up(i))}
<1>6. 0 \in S
  <2>1. Up(0) = {}
    OBVIOUS
  <2> QED
    BY <1>5, <2>1, ListsNothing
<1>7. ASSUME NEW i \in Nat, i \in S, i + 1 <= n PROVE Lists(J[i + 1], Up(i + 1))
  <2>1. Lists(J[i], Up(i)) /\ i + 1 \in 1..n /\ (i + 1) - 1 = i
    BY <1>7
  <2>2. J[i + 1] = J[i] \o f[i + 1]
    BY <1>5, <2>1
  <2>3. Up(i + 1) = Up(i) \cup A[i + 1]
    <3>1. \A k : k \in 1..(i + 1) <=> k \in 1..i \/ k = i + 1
      BY <2>1
    <3> QED
      BY <3>1
  <2>4. Up(i) \cap A[i + 1] = {}
    <3>1. \A k \in 1..i : k \in 1..n /\ k # i + 1
      BY <2>1
    <3>2. \A k \in 1..i : A[k] \cap A[i + 1] = {}
      BY <2>1, <3>1
    <3> QED
      BY <3>2
  <2>5. Lists(f[i + 1], A[i + 1])
    BY <2>1
  <2> HIDE DEF Up
  <2> QED
    BY <2>1, <2>2, <2>3, <2>4, <2>5, ListsAfter
<1>8. \A i \in Nat : i <= n => Lists(J[i], Up(i))
  <2> HIDE DEF Up
  <2>1. \A i \in Nat : i \in S => i + 1 \in S
    BY <1>7
  <2>2. \A i \in Nat : i \in S
    <3> HIDE DEF S
    <3> QED
      BY <1>6, <2>1, InductionOver
  <2> QED
    BY <2>2
<1> QED
  BY <1>1, <1>8

-----------------------------------------------------------------------------
(* The objects that are in no object stream, which are those that the      *)
(* parts are made of.                                                      *)
Free == {o \in Objs : held[o] = None}

HeldOnce ==
  /\ doc \in Docs
  /\ held \in [Objs -> Objs \cup {None}]
  /\ \A o \in Objs : held[o] # None => held[held[o]] = None

LEMMA DocIs ==
  ASSUME HeldOnce
  PROVE  /\ IsDoc(doc) /\ IsLinearizable(doc)
         /\ Free \subseteq Objs /\ Objs \subseteq Int /\ IsFiniteSet(Objs) /\ None \notin Objs
         /\ doc.trailer[1] \in Objs /\ doc.pages \in Seq(Objs)
<1>1. IsDoc(doc) /\ IsLinearizable(doc)
  BY ConstantsAssumption, LinearizerAssumption DEF HeldOnce
<1>2. doc.trailer[1] \in Objs /\ doc.pages \in Seq(Objs)
  BY <1>1 DEF IsDoc
<1> QED
  BY <1>1, <1>2, ConstantsAssumption DEF Free

LEMMA ReachIsWithin ==
  ASSUME HeldOnce, NEW start \in SUBSET Objs, NEW avoid
  PROVE  L!Reach(start, avoid) \subseteq Objs
<1> DEFINE step == [S \in SUBSET Objs |-> S \cup ((UNION {L!Within(o) : o \in S}) \ avoid)]
<1> DEFINE g == CHOOSE g : g = [S \in SUBSET Objs |->
                                  LET T == S \cup ((UNION {L!Within(o) : o \in S}) \ avoid) IN
                                  IF T = S THEN S ELSE g[T]]
<1>1. L!Reach(start, avoid) = g[start \ avoid]
  BY DEF L!Reach
<1>2. \A o \in Objs : L!Within(o) \subseteq Objs
  <2> SUFFICES ASSUME NEW o \in Objs, NEW i \in DOMAIN doc.refs[o]
               PROVE  doc.refs[o][i] \in Objs
    BY DEF L!Within
  <2>1. doc.refs[o] \in Seq(doc.table) /\ doc.table \subseteq Objs
    BY DocIs DEF IsDoc
  <2> QED
    BY <2>1
<1>3. step \in [SUBSET Objs -> SUBSET Objs] /\ \A S \in SUBSET Objs : S \subseteq step[S]
  BY <1>2
<1>4. /\ \E f : IsRest(f, Objs, step)
      /\ \A f : IsRest(f, Objs, step) => \A S \in SUBSET Objs : f[S] \in SUBSET Objs
  <2>1. IsFiniteSet(Objs)
    BY DocIs
  <2> HIDE DEF step
  <2> QED
    BY <1>3, <2>1, RestExists
<1>5. IsRest(g, Objs, step)
  <2>1. \A f : IsRest(f, Objs, step) <=>
          f = [S \in SUBSET Objs |->
                 LET T == S \cup ((UNION {L!Within(o) : o \in S}) \ avoid) IN
                 IF T = S THEN S ELSE f[T]]
    <3>1. \A S \in SUBSET Objs : step[S] = S \cup ((UNION {L!Within(o) : o \in S}) \ avoid)
      OBVIOUS
    <3> HIDE DEF step
    <3> QED
      BY <3>1 DEF IsRest
  <2> QED
    BY <1>4, <2>1
<1> HIDE DEF g
<1> QED
  BY <1>1, <1>4, <1>5

(* What obj_user_to_objects has.                                           *)
Uses(u) ==
  /\ u.page \in [L!PageNos -> SUBSET Free] /\ u.thumb \in [L!PageNos -> SUBSET Free]
  /\ u.key \in [L!Keys -> SUBSET Free]
  /\ u.info \subseteq Free /\ u.encrypt \subseteq Free

LEMMA HoldersAreFree ==
  ASSUME HeldOnce
  PROVE  /\ \A o \in Objs : L!Holder(o) \in Free
         /\ \A S \in SUBSET Objs : L!Holders(S) \subseteq Free
<1>1. ASSUME NEW o \in Objs PROVE L!Holder(o) \in Free
  <2>1. held[o] = None \/ (held[o] \in Objs /\ held[held[o]] = None)
    BY DEF HeldOnce
  <2>2. o # None
    BY DocIs
  <2> QED
    BY <2>1, <2>2 DEF L!Holder, Free
<1> QED
  BY <1>1 DEF L!Holders

LEMMA UsedIsUses ==
  ASSUME HeldOnce
  PROVE  Uses(L!Used)
<1>1. IsDoc(doc) /\ IsLinearizable(doc) /\ None \notin Objs /\ doc.pages \in Seq(Objs)
  BY DocIs
<1>2. ASSUME NEW i \in L!PageNos
      PROVE  doc.pages[i] \in Objs /\ {doc.thumb[doc.pages[i]]} \ {None} \in SUBSET Objs
  <2>1. doc.pages[i] \in Objs
    BY <1>1 DEF L!PageNos
  <2> QED
    BY <1>1, <2>1 DEF IsLinearizable
<1>3. \A S \in SUBSET Objs : \A avoid : L!Holders(L!Reach(S, avoid)) \subseteq Free
  BY ReachIsWithin, HoldersAreFree
<1>4. ASSUME NEW i \in L!PageNos
      PROVE  L!Holders(L!OfPage(i)) \subseteq Free /\ L!Holders(L!OfThumb(i)) \subseteq Free
  <2>1. {doc.pages[i]} \in SUBSET Objs
    BY <1>2
  <2> QED
    BY <1>2, <1>3, <2>1 DEF L!OfPage, L!OfThumb
<1>5. ASSUME NEW k \in L!Keys PROVE L!Holders(L!OfKey(k)) \subseteq Free
  <2>1. doc.keys[k] \in SUBSET Objs
    BY <1>1 DEF IsLinearizable, L!Keys
  <2> QED
    BY <1>3, <2>1 DEF L!OfKey
<1>6. doc.info \in SUBSET Objs /\ doc.encrypt \in SUBSET Objs
  BY <1>1 DEF IsLinearizable
<1>7. /\ L!Used.page = [i \in L!PageNos |-> L!Holders(L!OfPage(i))]
      /\ L!Used.thumb = [i \in L!PageNos |-> L!Holders(L!OfThumb(i))]
      /\ L!Used.key = [k \in L!Keys |-> L!Holders(L!OfKey(k))]
      /\ L!Used.info = L!Holders(L!Reach(doc.info, L!Pages))
      /\ L!Used.encrypt = L!Holders(L!Reach(doc.encrypt, L!Pages))
  BY DEF L!Used
<1>8. L!Used.info \subseteq Free /\ L!Used.encrypt \subseteq Free
  BY <1>3, <1>6, <1>7
<1>9. /\ L!Used.page \in [L!PageNos -> SUBSET Free]
      /\ L!Used.thumb \in [L!PageNos -> SUBSET Free]
      /\ L!Used.key \in [L!Keys -> SUBSET Free]
  BY <1>4, <1>5, <1>7
<1> QED
  BY <1>8, <1>9 DEF Uses

(* The objects of a category, which are apart from those of the others.    *)
Of(u, k) == {o \in L!AllUsed(u) : L!Category(u, o) = k}

LEMMA Apart ==
  ASSUME HeldOnce, NEW u, Uses(u)
  PROVE  /\ \A k : Of(u, k) \subseteq Free /\ Of(u, k) \subseteq Int /\ IsFiniteSet(Of(u, k))
         /\ \A k, l : k # l => Of(u, k) \cap Of(u, l) = {}
<1>1. L!AllUsed(u) \subseteq Free
  <2>1. L!Holder(L!Root) \in Free
    <3>1. doc.trailer[1] \in Objs
      BY DocIs
    <3> QED
      BY <3>1, HoldersAreFree DEF L!Root
  <2> QED
    BY <2>1 DEF L!AllUsed, Uses
<1>2. \A k : Of(u, k) \subseteq Free
  BY <1>1 DEF Of
<1> QED
  BY <1>2, DocIs, FS_Subset DEF Of

(* A page's own objects are on no other page.                              *)
LEMMA OwnPage ==
  ASSUME HeldOnce, NEW u, Uses(u),
         NEW o \in Of(u, "otherPrivate"), NEW i \in L!PageNos \ {1}, NEW j \in L!PageNos \ {1},
         o \in u.page[i], o \in u.page[j]
  PROVE  i = j
<1> DEFINE P == {k \in L!PageNos \ {1} : o \in u.page[k]}
<1>1. L!Cardinality(P) = 1
  BY DEF Of, L!Category
<1>2. IsFiniteSet(P)
  <2>1. L!PageNos = 1..Len(doc.pages) /\ Len(doc.pages) \in Nat
    BY DocIs DEF L!PageNos
  <2>2. IsFiniteSet(1..Len(doc.pages))
    BY <2>1, FS_Interval
  <2> QED
    BY <2>1, <2>2, FS_Subset
<1>3. Cardinality(P) = 1
  BY <1>1, SameCardinality
<1> HIDE DEF P
<1>4. \E x : P = {x}
  BY <1>2, <1>3, FS_Singleton
<1> QED
  BY <1>4 DEF P

LEMMA OwnThumb ==
  ASSUME HeldOnce, NEW u, Uses(u),
         NEW o \in Of(u, "thumbPrivate"), NEW i \in L!PageNos, NEW j \in L!PageNos,
         o \in u.thumb[i], o \in u.thumb[j]
  PROVE  i = j
<1> DEFINE P == {k \in L!PageNos : o \in u.thumb[k]}
<1>1. L!Cardinality(P) = 1
  BY DEF Of, L!Category
<1>2. IsFiniteSet(P)
  <2>1. L!PageNos = 1..Len(doc.pages) /\ Len(doc.pages) \in Nat
    BY DocIs DEF L!PageNos
  <2>2. IsFiniteSet(1..Len(doc.pages))
    BY <2>1, FS_Interval
  <2> QED
    BY <2>1, <2>2, FS_Subset
<1>3. Cardinality(P) = 1
  BY <1>1, SameCardinality
<1> HIDE DEF P
<1>4. \E x : P = {x}
  BY <1>2, <1>3, FS_Singleton
<1> QED
  BY <1>4 DEF P

-----------------------------------------------------------------------------
(* The parts are lists of free objects that have nothing in common.        *)
LaidOut(p) ==
  /\ \A s \in {p.p4, p.p6, p.p7, p.p8, p.p9} : Lists(s, Elements(s)) /\ Elements(s) \subseteq Free
  /\ Elements(p.p4) \cap Elements(p.p6) = {} /\ Elements(p.p4) \cap Elements(p.p7) = {}
  /\ Elements(p.p4) \cap Elements(p.p8) = {} /\ Elements(p.p4) \cap Elements(p.p9) = {}
  /\ Elements(p.p6) \cap Elements(p.p7) = {} /\ Elements(p.p6) \cap Elements(p.p8) = {}
  /\ Elements(p.p6) \cap Elements(p.p9) = {} /\ Elements(p.p7) \cap Elements(p.p8) = {}
  /\ Elements(p.p7) \cap Elements(p.p9) = {} /\ Elements(p.p8) \cap Elements(p.p9) = {}

LEMMA ListsElements == ASSUME NEW s, NEW S, Lists(s, S) PROVE Elements(s) = S
<1>1. s \in Seq(S) /\ \A x \in S : \E i \in DOMAIN s : s[i] = x
  BY DEF Lists
<1> QED
  BY <1>1 DEF Elements

LEMMA PlanIsLaidOut ==
  ASSUME HeldOnce, NEW u, Uses(u)
  PROVE  L!Plan(u).ok => /\ LaidOut(L!Plan(u).parts)
                         /\ Len(doc.pages) > 0
                         /\ L!Holder(doc.pages[1]) \in Elements(L!Plan(u).parts.p6)
<1> DEFINE c == [k \in L!Categories |-> Of(u, k)]
<1> DEFINE n == Len(doc.pages)
<1> DEFINE p == L!PartsOf(u, c)
<1> DEFINE own == [i \in 1..(n - 1) |->
                     L!Leading(L!Holder(doc.pages[i + 1]), c["otherPrivate"] \cap u.page[i + 1])]
<1> DEFINE thumbs == [i \in L!PageNos |->
                        L!Leading(L!Holder(doc.thumb[doc.pages[i]]), c["thumbPrivate"] \cap u.thumb[i])]
<1> DEFINE outl == IF doc.outlines = None THEN <<>>
                   ELSE L!Leading(L!Holder(doc.outlines), c["outlines"])
<1> DEFINE tree == u.key["pages"] \cap c["other"]
<1>1. /\ \A k : Of(u, k) \subseteq Free /\ Of(u, k) \subseteq Int /\ IsFiniteSet(Of(u, k))
      /\ \A k, l : k # l => Of(u, k) \cap Of(u, l) = {}
  BY Apart
<1>2. \A k \in L!Categories : c[k] = Of(u, k)
  OBVIOUS
<1>3. {"root", "outlines", "open", "firstPrivate", "firstShared", "otherPrivate",
       "otherShared", "thumbPrivate", "thumbShared", "other"} \subseteq L!Categories
  BY DEF L!Categories
<1>4. /\ L!Plan(u).parts = [p EXCEPT !.p7 = L!Joined(p.p7, n - 1)]
      /\ L!Plan(u).ok => n > 0 /\ L!Holder(doc.pages[1]) \in c["firstPrivate"]
  <2>1. c \in [L!Categories -> SUBSET Objs]
    BY <1>1, <1>2, DocIs
  <2>2. c = [k \in L!Categories |-> {o \in L!AllUsed(u) : L!Category(u, o) = k}]
    BY DEF Of
  <2> HIDE DEF c
  <2> QED
    BY <2>1, <2>2 DEF L!Plan
<1>5. /\ p.p4 = L!Sorted(c["root"]) \o L!Sorted(c["open"])
      /\ p.p6 = L!Leading(L!Holder(doc.pages[1]), c["firstPrivate"]) \o L!Sorted(c["firstShared"])
                  \o (IF L!OutlinesFirst THEN outl ELSE <<>>)
      /\ p.p7 = own
      /\ p.p8 = L!Sorted(c["otherShared"])
      /\ p.p9 = L!Sorted(tree) \o L!Joined(thumbs, n) \o L!Sorted(c["thumbShared"])
                  \o (IF L!OutlinesFirst THEN <<>> ELSE outl) \o L!Sorted(c["other"] \ tree)
      /\ p = [p4 |-> p.p4, p6 |-> p.p6, p7 |-> p.p7, p8 |-> p.p8, p9 |-> p.p9]
  <2> HIDE DEF c
  <2> QED
    BY DEF L!PartsOf
<1> HIDE DEF c, p, outl, tree
<1> DEFINE x(k) == Of(u, k)
<1>6. ASSUME NEW S, NEW k, S \subseteq x(k) PROVE S \subseteq Free /\ S \subseteq Int /\ IsFiniteSet(S)
  BY <1>1, <1>6, FS_Subset
<1>7. ASSUME NEW S, NEW k, S \subseteq x(k), NEW o
      PROVE  Lists(L!Sorted(S), S) /\ Lists(L!Leading(o, S), S)
  BY <1>6, <1>7, LeadingLists
<1>8. \A k, l : k # l => x(k) \cap x(l) = {}
  BY <1>1
<1>9. /\ c["root"] = x("root") /\ c["open"] = x("open") /\ c["outlines"] = x("outlines")
      /\ c["firstPrivate"] = x("firstPrivate") /\ c["firstShared"] = x("firstShared")
      /\ c["otherPrivate"] = x("otherPrivate") /\ c["otherShared"] = x("otherShared")
      /\ c["thumbPrivate"] = x("thumbPrivate") /\ c["thumbShared"] = x("thumbShared")
      /\ c["other"] = x("other")
  BY <1>2, <1>3
<1> DEFINE Outl == IF doc.outlines = None THEN {} ELSE x("outlines")
<1> DEFINE O1 == IF L!OutlinesFirst THEN Outl ELSE {}
<1> DEFINE O2 == IF L!OutlinesFirst THEN {} ELSE Outl
<1> HIDE DEF x
<1>10. /\ Lists(IF L!OutlinesFirst THEN outl ELSE <<>>, O1)
       /\ Lists(IF L!OutlinesFirst THEN <<>> ELSE outl, O2)
       /\ O1 \subseteq x("outlines") /\ O2 \subseteq x("outlines") /\ O1 \cap O2 = {}
  <2>1. Lists(outl, Outl)
    <3>1. Lists(L!Leading(L!Holder(doc.outlines), x("outlines")), x("outlines"))
      BY <1>7
    <3> QED
      BY <1>9, <3>1, ListsNothing DEF outl
  <2> QED
    BY <2>1, ListsNothing
<1> HIDE DEF Outl, O1, O2
<1> DEFINE P4 == x("root") \cup x("open")
<1>11. Lists(p.p4, P4)
  <2>1. Lists(L!Sorted(x("root")), x("root")) /\ Lists(L!Sorted(x("open")), x("open"))
    BY <1>7
  <2> DEFINE a == L!Sorted(x("root"))
  <2> DEFINE b == L!Sorted(x("open"))
  <2> HIDE DEF a, b
  <2>2. Lists(a \o b, x("root") \cup x("open"))
    BY <1>8, <2>1, ListsAfter DEF a, b
  <2> QED
    BY <1>5, <1>9, <2>2 DEF a, b
<1> DEFINE P6 == (x("firstPrivate") \cup x("firstShared")) \cup O1
<1>12. Lists(p.p6, P6)
  <2> DEFINE a == L!Leading(L!Holder(doc.pages[1]), x("firstPrivate"))
  <2> DEFINE b == L!Sorted(x("firstShared"))
  <2> DEFINE d == IF L!OutlinesFirst THEN outl ELSE <<>>
  <2>1. Lists(a, x("firstPrivate")) /\ Lists(b, x("firstShared")) /\ Lists(d, O1)
    BY <1>7, <1>10
  <2>2. p.p6 = (a \o b) \o d
    BY <1>5, <1>9
  <2> HIDE DEF a, b, d
  <2>3. Lists(a \o b, x("firstPrivate") \cup x("firstShared"))
    BY <1>8, <2>1, ListsAfter
  <2>4. (x("firstPrivate") \cup x("firstShared")) \cap O1 = {}
    BY <1>8, <1>10
  <2> DEFINE ab == a \o b
  <2> DEFINE AB == x("firstPrivate") \cup x("firstShared")
  <2> HIDE DEF ab, AB
  <2>5. Lists(ab \o d, AB \cup O1)
    BY <2>1, <2>3, <2>4, ListsAfter DEF ab, AB
  <2> QED
    BY <2>2, <2>5 DEF ab, AB
<1> DEFINE ownSet == [i \in 1..(n - 1) |-> x("otherPrivate") \cap u.page[i + 1]]
<1> DEFINE P7 == UNION {ownSet[i] : i \in 1..(n - 1)}
<1>13. n \in Nat /\ L!PageNos = 1..n
  BY DocIs DEF L!PageNos
<1>14. n > 0 => Lists(L!Joined(p.p7, n - 1), P7)
  <2> SUFFICES ASSUME n > 0 PROVE Lists(L!Joined(p.p7, n - 1), P7)
    OBVIOUS
  <2>1. ASSUME NEW i \in 1..(n - 1) PROVE Lists(own[i], ownSet[i])
    <3>1. x("otherPrivate") \cap u.page[i + 1] \subseteq x("otherPrivate")
      OBVIOUS
    <3>2. Lists(L!Leading(L!Holder(doc.pages[i + 1]), x("otherPrivate") \cap u.page[i + 1]),
                x("otherPrivate") \cap u.page[i + 1])
      BY <1>7, <3>1
    <3> QED
      BY <1>9, <3>2
  <2>2. ASSUME NEW i \in 1..(n - 1), NEW j \in 1..(n - 1), i # j PROVE ownSet[i] \cap ownSet[j] = {}
    <3>1. i + 1 \in L!PageNos \ {1} /\ j + 1 \in L!PageNos \ {1} /\ i + 1 # j + 1
      BY <1>13, <2>2
    <3>2. \A o \in Of(u, "otherPrivate") : ~(o \in u.page[i + 1] /\ o \in u.page[j + 1])
      BY <3>1, OwnPage
    <3> QED
      BY <3>2 DEF x
  <2>3. n - 1 \in Nat
    BY <1>13
  <2> HIDE DEF own, ownSet
  <2>4. Lists(L!Joined(own, n - 1), UNION {ownSet[i] : i \in 1..(n - 1)})
    BY <2>1, <2>2, <2>3, JoinedLists
  <2> QED
    BY <1>5, <2>4
<1>15. P7 \subseteq x("otherPrivate")
  OBVIOUS
<1>16. Lists(p.p8, x("otherShared"))
  BY <1>5, <1>7, <1>9
<1> DEFINE thumbSet == [i \in 1..n |-> x("thumbPrivate") \cap u.thumb[i]]
<1> DEFINE T == UNION {thumbSet[i] : i \in 1..n}
<1>17. Lists(L!Joined(thumbs, n), T)
  <2>1. ASSUME NEW i \in 1..n PROVE Lists(thumbs[i], thumbSet[i])
    <3>1. x("thumbPrivate") \cap u.thumb[i] \subseteq x("thumbPrivate")
      OBVIOUS
    <3>2. Lists(L!Leading(L!Holder(doc.thumb[doc.pages[i]]), x("thumbPrivate") \cap u.thumb[i]),
                x("thumbPrivate") \cap u.thumb[i])
      BY <1>7, <3>1
    <3>3. i \in L!PageNos
      BY <1>13
    <3> QED
      BY <1>9, <3>2, <3>3
  <2>2. ASSUME NEW i \in 1..n, NEW j \in 1..n, i # j PROVE thumbSet[i] \cap thumbSet[j] = {}
    <3>1. i \in L!PageNos /\ j \in L!PageNos
      BY <1>13
    <3>2. \A o \in Of(u, "thumbPrivate") : ~(o \in u.thumb[i] /\ o \in u.thumb[j])
      BY <2>2, <3>1, OwnThumb
    <3> QED
      BY <3>2 DEF x
  <2>3. n \in Nat
    BY <1>13
  <2> HIDE DEF thumbs, thumbSet, n
  <2> QED
    BY <2>1, <2>2, <2>3, JoinedLists
<1>18. T \subseteq x("thumbPrivate")
  OBVIOUS
<1> HIDE DEF T, thumbs
<1> DEFINE tr == u.key["pages"] \cap x("other")
<1> DEFINE P9 == (((tr \cup T) \cup x("thumbShared")) \cup O2) \cup (x("other") \ tr)
<1>19. Lists(p.p9, P9)
  <2> DEFINE a == L!Sorted(tr)
  <2> DEFINE b == L!Joined(thumbs, n)
  <2> DEFINE d == L!Sorted(x("thumbShared"))
  <2> DEFINE e == IF L!OutlinesFirst THEN <<>> ELSE outl
  <2> DEFINE f == L!Sorted(x("other") \ tr)
  <2>1. tr \subseteq x("other") /\ x("other") \ tr \subseteq x("other")
    OBVIOUS
  <2>2. /\ Lists(a, tr) /\ Lists(b, T) /\ Lists(d, x("thumbShared")) /\ Lists(e, O2)
        /\ Lists(f, x("other") \ tr)
    BY <1>7, <1>10, <1>17, <2>1
  <2>3. p.p9 = (((a \o b) \o d) \o e) \o f
    BY <1>5, <1>9 DEF tree
  <2> HIDE DEF a, b, d, e, f
  <2>4. Lists(a \o b, tr \cup T)
    <3>1. tr \cap T = {}
      BY <1>8, <1>18
    <3> QED
      BY <2>2, <3>1, ListsAfter
  <2> HIDE DEF tr
  <2> DEFINE ab == a \o b
  <2> DEFINE AB == tr \cup T
  <2>5. AB \cap x("thumbShared") = {}
    BY <1>8, <1>18, <2>1
  <2> HIDE DEF ab, AB
  <2>6. Lists(ab \o d, AB \cup x("thumbShared"))
    BY <2>2, <2>4, <2>5, ListsAfter DEF ab, AB
  <2> DEFINE abd == ab \o d
  <2> DEFINE ABD == AB \cup x("thumbShared")
  <2>7. ABD \cap O2 = {}
    BY <1>8, <1>10, <1>18, <2>1 DEF AB
  <2> HIDE DEF abd, ABD
  <2>8. Lists(abd \o e, ABD \cup O2)
    BY <2>2, <2>6, <2>7, ListsAfter DEF abd, ABD
  <2> DEFINE abde == abd \o e
  <2> DEFINE ABDE == ABD \cup O2
  <2>9. ABDE \cap (x("other") \ tr) = {}
    BY <1>8, <1>10, <1>18, <2>1 DEF AB, ABD
  <2> HIDE DEF abde, ABDE
  <2>10. Lists(abde \o f, ABDE \cup (x("other") \ tr))
    BY <2>2, <2>8, <2>9, ListsAfter DEF abde, ABDE
  <2> QED
    BY <2>3, <2>10 DEF ab, AB, abd, ABD, abde, ABDE
<1> HIDE DEF P7
<1> DEFINE q == L!Plan(u).parts
<1>20. /\ q.p4 = p.p4 /\ q.p6 = p.p6 /\ q.p7 = L!Joined(p.p7, n - 1) /\ q.p8 = p.p8 /\ q.p9 = p.p9
  BY <1>4, <1>5
<1> HIDE DEF q
<1>21. ASSUME n > 0
       PROVE  /\ Lists(q.p4, P4) /\ Lists(q.p6, P6) /\ Lists(q.p7, P7)
              /\ Lists(q.p8, x("otherShared")) /\ Lists(q.p9, P9)
  BY <1>11, <1>12, <1>14, <1>16, <1>19, <1>20, <1>21
<1>22. /\ P4 \subseteq Free /\ P6 \subseteq Free /\ P7 \subseteq Free
       /\ x("otherShared") \subseteq Free /\ P9 \subseteq Free
  <2>1. \A k : x(k) \subseteq Free
    BY <1>1 DEF x
  <2> QED
    BY <1>10, <1>15, <1>18, <2>1
<1>23. /\ P4 \cap P6 = {} /\ P4 \cap P7 = {} /\ P4 \cap x("otherShared") = {} /\ P4 \cap P9 = {}
       /\ P6 \cap P7 = {} /\ P6 \cap x("otherShared") = {} /\ P6 \cap P9 = {}
       /\ P7 \cap x("otherShared") = {} /\ P7 \cap P9 = {} /\ x("otherShared") \cap P9 = {}
  <2> DEFINE K == L!Categories
  <2>1. x("outlines") \cap x("other") = {} /\ \A k \in K, l \in K : k # l => x(k) \cap x(l) = {}
    BY <1>8
  <2> QED
    BY <1>3, <1>10, <1>15, <1>18, <1>8
<1>24. ASSUME n > 0 PROVE LaidOut(q)
  <2>1. /\ Elements(q.p4) = P4 /\ Elements(q.p6) = P6 /\ Elements(q.p7) = P7
        /\ Elements(q.p8) = x("otherShared") /\ Elements(q.p9) = P9
    BY <1>21, <1>24, ListsElements
  <2> HIDE DEF P4, P6, P9
  <2> QED
    BY <1>21, <1>22, <1>23, <1>24, <2>1 DEF LaidOut
<1>25. ASSUME L!Plan(u).ok PROVE L!Holder(doc.pages[1]) \in Elements(q.p6)
  <2>1. Elements(q.p6) = P6
    BY <1>4, <1>21, <1>25, ListsElements
  <2> QED
    BY <1>4, <1>9, <1>25, <2>1
<1> QED
  BY <1>4, <1>24, <1>25 DEF q

-----------------------------------------------------------------------------
(* The order of the numbers is a list, too; the objects in the streams of  *)
(* a half follow that half.                                                *)
Begins(s, t) == \A i \in DOMAIN s : i \in DOMAIN t /\ t[i] = s[i]
Follows(a, b, c) == Len(c) = Len(a) + Len(b) /\ \A i \in DOMAIN b : c[Len(a) + i] = b[i]

LEMMA ListsOn ==
  ASSUME NEW a, NEW A, NEW b, NEW B, Lists(a, A), Lists(b, B), A \cap B = {}
  PROVE  Lists(a \o b, A \cup B) /\ Begins(a, a \o b) /\ Follows(a, b, a \o b)
<1>1. /\ Lists(a \o b, A \cup B) /\ Len(a \o b) = Len(a) + Len(b)
      /\ \A i \in DOMAIN a : (a \o b)[i] = a[i]
      /\ \A i \in DOMAIN b : (a \o b)[Len(a) + i] = b[i]
  BY ListsAfter
<1>2. DOMAIN a = 1..Len(a) /\ Len(a) \in Nat /\ Len(b) \in Nat
  BY DEF Lists
<1>3. DOMAIN (a \o b) = 1..(Len(a) + Len(b))
  <2> DEFINE c == a \o b
  <2>1. c \in Seq(A \cup B) /\ Len(c) = Len(a) + Len(b)
    BY <1>1 DEF Lists
  <2> HIDE DEF c
  <2>2. DOMAIN c = 1..(Len(a) + Len(b))
    BY <2>1
  <2> QED
    BY <2>2 DEF c
<1>4. \A i \in DOMAIN a : i \in DOMAIN (a \o b)
  BY <1>2, <1>3
<1> QED
  BY <1>1, <1>4 DEF Begins, Follows

LEMMA OneIfLists ==
  ASSUME NEW b, NEW x
  PROVE  Lists(OneIf(b, x), IF b THEN {x} ELSE {})
  BY ListsOne, ListsNothing DEF OneIf

LEMMA MembersApart ==
  ASSUME HeldOnce, NEW s \in Objs
  PROVE  Members(s) \subseteq Int /\ IsFiniteSet(Members(s)) /\ Members(s) \cap Free = {}
  BY DocIs, FS_Subset DEF Members, Free

InAny(S) == {o \in Objs : held[o] \in S}

LEMMA InStreamsLists ==
  ASSUME HeldOnce, NEW s, NEW S, Lists(s, S), S \subseteq Objs
  PROVE  Lists(InStreams(s), InAny(S))
<1> DEFINE n == Len(s)
<1> DEFINE A == [i \in 1..n |-> Members(s[i])]
<1> DEFINE f == [i \in DOMAIN s |-> Sorted(Members(s[i]))]
<1>1. s \in Seq(S) /\ n \in Nat /\ DOMAIN s = 1..n /\ \A i \in 1..n : s[i] \in S
  BY DEF Lists
<1>2. \A i \in 1..n : Lists(f[i], A[i])
  BY <1>1, MembersApart, SortedLists
<1>3. ASSUME NEW i \in 1..n, NEW j \in 1..n, i # j PROVE A[i] \cap A[j] = {}
  <2>1. s[i] # s[j]
    BY <1>1, <1>3 DEF Lists
  <2> QED
    BY <2>1 DEF Members
<1>4. UNION {A[i] : i \in 1..n} = InAny(S)
  <2>1. ASSUME NEW o, NEW i \in 1..n, o \in A[i] PROVE o \in InAny(S)
    BY <1>1, <2>1 DEF Members, InAny
  <2>2. ASSUME NEW o \in InAny(S) PROVE \E i \in 1..n : o \in A[i]
    <3>1. PICK i \in DOMAIN s : s[i] = held[o]
      BY <2>2 DEF Lists, InAny
    <3>2. o \in Members(s[i])
      BY <3>1 DEF Members, InAny
    <3> QED
      BY <1>1, <3>1, <3>2
  <2> QED
    BY <2>1, <2>2
<1> HIDE DEF f, A
<1>5. Lists(L!Joined(f, n), UNION {A[i] : i \in 1..n})
  <2> HIDE DEF n
  <2> QED
    BY <1>1, <1>2, <1>3, JoinedLists
<1> QED
  BY <1>4, <1>5 DEF InStreams, f

(* The two halves.                                                         *)
First1 == Elements(plan.parts.p4) \cup Elements(plan.parts.p6)
Second2 == (Elements(plan.parts.p7) \cup Elements(plan.parts.p8)) \cup Elements(plan.parts.p9)

LEMMA Halves ==
  ASSUME HeldOnce, LaidOut(plan.parts)
  PROVE  /\ Lists(FirstHalf, First1) /\ Lists(SecondHalf, Second2)
         /\ First1 \subseteq Free /\ Second2 \subseteq Free /\ First1 \cap Second2 = {}
         /\ Lists(Parts, First1 \cup Second2)
<1> DEFINE p == plan.parts
<1>1. /\ Lists(p.p4, Elements(p.p4)) /\ Lists(p.p6, Elements(p.p6)) /\ Lists(p.p7, Elements(p.p7))
      /\ Lists(p.p8, Elements(p.p8)) /\ Lists(p.p9, Elements(p.p9))
      /\ Elements(p.p4) \subseteq Free /\ Elements(p.p6) \subseteq Free
      /\ Elements(p.p7) \subseteq Free /\ Elements(p.p8) \subseteq Free
      /\ Elements(p.p9) \subseteq Free
  BY DEF LaidOut
<1>2. Lists(FirstHalf, First1)
  <2>1. Elements(p.p4) \cap Elements(p.p6) = {}
    BY DEF LaidOut
  <2> QED
    BY <1>1, <2>1, ListsOn DEF FirstHalf, First1
<1> DEFINE a == p.p7 \o p.p8
<1> DEFINE A == Elements(p.p7) \cup Elements(p.p8)
<1>3. Lists(a, A)
  <2>1. Elements(p.p7) \cap Elements(p.p8) = {}
    BY DEF LaidOut
  <2> QED
    BY <1>1, <2>1, ListsOn
<1>4. Lists(SecondHalf, Second2)
  <2>1. A \cap Elements(p.p9) = {}
    BY DEF LaidOut
  <2>2. SecondHalf = a \o p.p9 /\ Second2 = A \cup Elements(p.p9)
    BY DEF SecondHalf, Second2
  <2> HIDE DEF a, A, p
  <2> QED
    BY <1>1, <1>3, <2>1, <2>2, ListsOn
<1>5. First1 \subseteq Free /\ Second2 \subseteq Free
  BY <1>1 DEF First1, Second2
<1>6. First1 \cap Second2 = {}
  BY DEF First1, Second2, LaidOut
<1>7. Lists(Parts, First1 \cup Second2)
  BY <1>2, <1>4, <1>6, ListsOn DEF Parts
<1> QED
  BY <1>2, <1>4, <1>5, <1>6, <1>7

(* What else has a number.                                                 *)
Others == {LinDict, FirstXref, SecondXref, Encryption, Hint}

LEMMA OthersApart ==
  ASSUME HeldOnce
  PROVE  /\ Others \cap Objs = {}
         /\ \A S \in SUBSET Objs : S \cap Others = {}
         /\ LinDict # FirstXref /\ LinDict # SecondXref /\ LinDict # Encryption /\ LinDict # Hint
         /\ FirstXref # SecondXref /\ FirstXref # Encryption /\ FirstXref # Hint
         /\ SecondXref # Encryption /\ SecondXref # Hint /\ Encryption # Hint
  BY ConstantsAssumption DEF Others, LinDict, FirstXref, SecondXref, Encryption, Hint

InFile == First1 \cup Second2
NumberedObjs == InFile \cup InAny(InFile)

InFlow == InFile \cup {Hint} \cup (IF doc.encrypted THEN {Encryption} ELSE {})

LEMMA OrderIs ==
  ASSUME HeldOnce, LaidOut(plan.parts)
  PROVE  \E S : /\ Lists(NumberOrder, S)
                /\ S \cap Objs = NumberedObjs /\ S \subseteq Objs \cup Others
                /\ InFlow \subseteq S
                /\ \E m \in DOMAIN NumberOrder :
                     /\ NumberOrder[m] = LinDict
                     /\ \A x \in Second2 : \E i \in DOMAIN NumberOrder :
                          NumberOrder[i] = x /\ i < m
<1> DEFINE p == plan.parts
<1> DEFINE P4 == Elements(p.p4)
<1> DEFINE P6 == Elements(p.p6)
<1> DEFINE M1 == InAny(First1)
<1> DEFINE M2 == InAny(Second2)
<1> DEFINE e1 == OneIf(AnyHeld, FirstXref)
<1> DEFINE e2 == OneIf(AnyHeld, SecondXref)
<1> DEFINE e3 == OneIf(doc.encrypted, Encryption)
<1> DEFINE E1 == IF AnyHeld THEN {FirstXref} ELSE {}
<1> DEFINE E2 == IF AnyHeld THEN {SecondXref} ELSE {}
<1> DEFINE E3 == IF doc.encrypted THEN {Encryption} ELSE {}
<1>1. /\ Lists(FirstHalf, First1) /\ Lists(SecondHalf, Second2)
      /\ First1 \subseteq Free /\ Second2 \subseteq Free /\ First1 \cap Second2 = {}
      /\ Free \subseteq Objs
  BY Halves, DocIs
<1>2. /\ Lists(p.p4, P4) /\ Lists(p.p6, P6) /\ P4 \cap P6 = {} /\ P4 \cup P6 = First1
  BY DEF LaidOut, First1
<1>3. Lists(e1, E1) /\ Lists(e2, E2) /\ Lists(e3, E3)
  BY OneIfLists
<1>4. /\ Lists(InStreams(FirstHalf), M1) /\ Lists(InStreams(SecondHalf), M2)
      /\ M1 \subseteq Objs /\ M2 \subseteq Objs
      /\ M1 \cap Free = {} /\ M2 \cap Free = {} /\ M1 \cap M2 = {}
  <2>1. None \notin Free
    BY DocIs
  <2> QED
    BY <1>1, <2>1, InStreamsLists DEF InAny, Free
<1>5. Lists(<<LinDict>>, {LinDict}) /\ Lists(<<Hint>>, {Hint})
  BY ListsOne
<1>6. E1 \subseteq {FirstXref} /\ E2 \subseteq {SecondXref} /\ E3 \subseteq {Encryption}
  OBVIOUS
<1>7. {FirstXref, SecondXref, Encryption, LinDict, Hint} \cap Objs = {}
  BY OthersApart DEF Others
<1> HIDE DEF e1, e2, e3, E1, E2, E3, P4, P6, M1, M2, p
<1>8. /\ FirstXref \notin Objs /\ SecondXref \notin Objs /\ Encryption \notin Objs
      /\ LinDict \notin Objs /\ Hint \notin Objs
  BY <1>7
<1> DEFINE S2 == Second2 \cup E2
<1> DEFINE s2 == SecondHalf \o e2
<1>9. Lists(s2, S2) /\ Begins(SecondHalf, s2)
  <2>1. Second2 \cap E2 = {}
    BY <1>1, <1>6, <1>8
  <2> QED
    BY <1>1, <1>3, <2>1, ListsOn
<1> DEFINE S3 == S2 \cup M2
<1> DEFINE s3 == s2 \o InStreams(SecondHalf)
<1>10. Lists(s3, S3) /\ Begins(s2, s3)
  <2>1. S2 \cap M2 = {}
    BY <1>1, <1>4, <1>6, <1>8
  <2> HIDE DEF S2, s2
  <2> QED
    BY <1>4, <1>9, <2>1, ListsOn
<1> DEFINE S4 == S3 \cup {LinDict}
<1> DEFINE s4 == s3 \o <<LinDict>>
<1>11. S3 \cap {LinDict} = {}
  BY <1>1, <1>4, <1>6, <1>8, OthersApart
<1>12. /\ Lists(s4, S4) /\ Begins(s3, s4)
       /\ Len(s3) \in Nat /\ DOMAIN s3 = 1..Len(s3)
       /\ Len(s3) + 1 \in DOMAIN s4 /\ s4[Len(s3) + 1] = LinDict
  <2> HIDE DEF S3, s3
  <2>1. /\ Lists(s4, S4) /\ Begins(s3, s4) /\ Len(s4) = Len(s3) + Len(<<LinDict>>)
        /\ \A i \in DOMAIN <<LinDict>> : s4[Len(s3) + i] = <<LinDict>>[i]
    BY <1>5, <1>10, <1>11, ListsOn, ListsAfter
  <2>2. s4 \in Seq(S4) /\ Len(s3) \in Nat /\ DOMAIN s3 = 1..Len(s3)
    BY <1>10, <2>1 DEF Lists
  <2>3. 1 \in DOMAIN <<LinDict>> /\ Len(<<LinDict>>) = 1 /\ <<LinDict>>[1] = LinDict
    OBVIOUS
  <2>4. s4[Len(s3) + 1] = LinDict
    BY <2>1, <2>3
  <2> HIDE DEF s4, S4
  <2>5. DOMAIN s4 = 1..Len(s4) /\ Len(s4) = Len(s3) + 1
    BY <2>1, <2>2, <2>3
  <2> QED
    BY <2>1, <2>2, <2>4, <2>5
<1> DEFINE S5 == S4 \cup E1
<1> DEFINE s5 == s4 \o e1
<1>13. Lists(s5, S5) /\ Begins(s4, s5)
  <2>1. S4 \cap E1 = {}
    BY <1>1, <1>4, <1>6, <1>8, OthersApart
  <2> HIDE DEF S4, s4
  <2> QED
    BY <1>3, <1>12, <2>1, ListsOn
<1> DEFINE S6 == S5 \cup P4
<1> DEFINE s6 == s5 \o p.p4
<1>14. Lists(s6, S6) /\ Begins(s5, s6)
  <2>1. S5 \cap P4 = {}
    BY <1>1, <1>2, <1>4, <1>6, <1>8
  <2> HIDE DEF S5, s5
  <2> QED
    BY <1>2, <1>13, <2>1, ListsOn
<1> DEFINE S7 == S6 \cup E3
<1> DEFINE s7 == s6 \o e3
<1>15. Lists(s7, S7) /\ Begins(s6, s7)
  <2>1. S6 \cap E3 = {}
    BY <1>1, <1>2, <1>4, <1>6, <1>8, OthersApart
  <2> HIDE DEF S6, s6
  <2> QED
    BY <1>3, <1>14, <2>1, ListsOn
<1> DEFINE S8 == S7 \cup {Hint}
<1> DEFINE s8 == s7 \o <<Hint>>
<1>16. Lists(s8, S8) /\ Begins(s7, s8)
  <2>1. S7 \cap {Hint} = {}
    BY <1>1, <1>2, <1>4, <1>6, <1>8, OthersApart
  <2> HIDE DEF S7, s7
  <2> QED
    BY <1>5, <1>15, <2>1, ListsOn
<1> DEFINE S9 == S8 \cup P6
<1> DEFINE s9 == s8 \o p.p6
<1>17. Lists(s9, S9) /\ Begins(s8, s9)
  <2>1. S8 \cap P6 = {}
    BY <1>1, <1>2, <1>4, <1>6, <1>8
  <2> HIDE DEF S8, s8
  <2> QED
    BY <1>2, <1>16, <2>1, ListsOn
<1> DEFINE S10 == S9 \cup M1
<1> DEFINE s10 == s9 \o InStreams(FirstHalf)
<1>18. Lists(s10, S10) /\ Begins(s9, s10)
  <2>1. S9 \cap M1 = {}
    BY <1>1, <1>2, <1>4, <1>6, <1>8
  <2> HIDE DEF S9, s9
  <2> QED
    BY <1>4, <1>17, <2>1, ListsOn
<1>19. NumberOrder = s10
  BY DEF NumberOrder, e1, e2, e3, p
<1>20. S10 \cap Objs = NumberedObjs
  <2>1. M1 \cup M2 = InAny(InFile)
    BY DEF M1, M2, InAny, InFile
  <2> QED
    BY <1>1, <1>2, <1>4, <1>6, <1>8, <2>1 DEF NumberedObjs, InFile
<1>21. S10 \subseteq Objs \cup Others
  BY <1>1, <1>2, <1>4, <1>6 DEF Others
<1>22. InFlow \subseteq S10
  BY <1>2 DEF InFlow, InFile, E3
<1>23. Begins(s4, s10)
  <2> HIDE DEF s4, s5, s6, s7, s8, s9, s10
  <2> QED
    BY <1>13, <1>14, <1>15, <1>16, <1>17, <1>18 DEF Begins
<1>24. Begins(SecondHalf, s3)
  <2> HIDE DEF s2, s3
  <2> QED
    BY <1>9, <1>10 DEF Begins
<1> HIDE DEF s3, s4, s10, S10
<1> DEFINE m == Len(s3) + 1
<1>25. m \in DOMAIN s10 /\ s10[m] = LinDict
  BY <1>12, <1>23 DEF Begins
<1>26. ASSUME NEW x \in Second2 PROVE \E i \in DOMAIN s10 : s10[i] = x /\ i < m
  <2>1. PICK i \in DOMAIN SecondHalf : SecondHalf[i] = x
    BY <1>1 DEF Lists
  <2>2. i \in DOMAIN s3 /\ s3[i] = x
    BY <1>24, <2>1 DEF Begins
  <2>3. i \in DOMAIN s4 /\ s4[i] = x
    BY <1>12, <2>2 DEF Begins
  <2>4. i \in DOMAIN s10 /\ s10[i] = x
    BY <1>23, <2>3 DEF Begins
  <2> QED
    BY <1>12, <2>2, <2>4
<1> HIDE DEF m
<1> QED
  BY <1>18, <1>19, <1>20, <1>21, <1>22, <1>25, <1>26

(* What is written, in order, up to the hint stream, to the end of the     *)
(* first page and to the end.                                              *)
LEMMA FlowIs ==
  ASSUME HeldOnce, LaidOut(plan.parts), Elements(plan.parts.p6) # {}
  PROVE  /\ Lists(Flow, InFlow)
         /\ \E h, k \in DOMAIN Flow :
              /\ Flow[h] = Hint /\ h < k /\ Flow[k] = LastOf(plan.parts.p6)
              /\ \A i \in DOMAIN Flow : i > k => Flow[i] \in Second2
<1> DEFINE p == plan.parts
<1> DEFINE P4 == Elements(p.p4)
<1> DEFINE P6 == Elements(p.p6)
<1> DEFINE e3 == OneIf(doc.encrypted, Encryption)
<1> DEFINE E3 == IF doc.encrypted THEN {Encryption} ELSE {}
<1>1. /\ Lists(SecondHalf, Second2)
      /\ First1 \subseteq Objs /\ Second2 \subseteq Objs /\ First1 \cap Second2 = {}
  BY Halves, DocIs
<1>2. /\ Lists(p.p4, P4) /\ Lists(p.p6, P6) /\ P4 \cap P6 = {} /\ P4 \cup P6 = First1
  BY DEF LaidOut, First1
<1>3. Lists(e3, E3)
  BY OneIfLists
<1>4. Lists(<<Hint>>, {Hint})
  BY ListsOne
<1>5. E3 \subseteq {Encryption}
  OBVIOUS
<1>6. Encryption \notin Objs /\ Hint \notin Objs /\ Encryption # Hint
  BY OthersApart DEF Others
<1>7. P6 # {}
  OBVIOUS
<1>8. InFlow = (((P4 \cup E3) \cup {Hint}) \cup P6) \cup Second2
  BY <1>2 DEF InFlow, InFile
<1>9. Flow = (((p.p4 \o e3) \o <<Hint>>) \o p.p6) \o SecondHalf
  BY DEF Flow
<1> HIDE DEF e3, E3, P4, P6, p
<1> DEFINE S1 == P4 \cup E3
<1> DEFINE s1 == p.p4 \o e3
<1>10. Lists(s1, S1)
  <2>1. P4 \cap E3 = {}
    BY <1>1, <1>2, <1>5, <1>6
  <2> QED
    BY <1>2, <1>3, <2>1, ListsOn
<1> DEFINE S2 == S1 \cup {Hint}
<1> DEFINE s2 == s1 \o <<Hint>>
<1>11. S1 \cap {Hint} = {}
  BY <1>1, <1>2, <1>5, <1>6
<1>12. /\ Lists(s2, S2) /\ Len(s1) \in Nat /\ Len(s2) = Len(s1) + 1
       /\ Len(s1) + 1 \in DOMAIN s2 /\ s2[Len(s1) + 1] = Hint
  <2> HIDE DEF S1, s1
  <2>1. /\ Lists(s2, S2) /\ Len(s2) = Len(s1) + Len(<<Hint>>)
        /\ \A i \in DOMAIN <<Hint>> : s2[Len(s1) + i] = <<Hint>>[i]
    BY <1>4, <1>10, <1>11, ListsAfter
  <2>2. s2 \in Seq(S2) /\ Len(s1) \in Nat
    BY <1>10, <2>1 DEF Lists
  <2>3. 1 \in DOMAIN <<Hint>> /\ Len(<<Hint>>) = 1 /\ <<Hint>>[1] = Hint
    OBVIOUS
  <2>4. s2[Len(s1) + 1] = Hint
    BY <2>1, <2>3
  <2> HIDE DEF s2, S2
  <2>5. DOMAIN s2 = 1..Len(s2) /\ Len(s2) = Len(s1) + 1
    BY <2>1, <2>2, <2>3
  <2> QED
    BY <2>1, <2>2, <2>4, <2>5
<1> DEFINE S3 == S2 \cup P6
<1> DEFINE s3 == s2 \o p.p6
<1>13. S2 \cap P6 = {}
  BY <1>1, <1>2, <1>5, <1>6
<1> HIDE DEF S1, s1
<1>14. p.p6 \in Seq(P6) /\ Len(p.p6) \in Nat /\ Len(p.p6) # 0 /\ Len(p.p6) \in DOMAIN p.p6
  <2>1. p.p6 \in Seq(P6) /\ \E i \in DOMAIN p.p6 : TRUE
    BY <1>2, <1>7 DEF Lists
  <2> QED
    BY <2>1
<1>15. /\ Lists(s3, S3) /\ Begins(s2, s3) /\ Len(s3) = Len(s2) + Len(p.p6)
       /\ s3[Len(s2) + Len(p.p6)] = LastOf(p.p6)
       /\ DOMAIN s3 = 1..Len(s3) /\ Len(s3) \in Nat
  <2> HIDE DEF S2, s2
  <2>1. /\ Lists(s3, S3) /\ Begins(s2, s3) /\ Len(s3) = Len(s2) + Len(p.p6)
        /\ \A i \in DOMAIN p.p6 : s3[Len(s2) + i] = p.p6[i]
    <3>1. Lists(s3, S3) /\ Begins(s2, s3) /\ Follows(s2, p.p6, s3)
      BY <1>2, <1>12, <1>13, ListsOn
    <3> QED
      BY <3>1 DEF Follows
  <2>2. s3[Len(s2) + Len(p.p6)] = LastOf(p.p6)
    BY <1>14, <2>1 DEF LastOf
  <2>3. s3 \in Seq(S3)
    BY <2>1 DEF Lists
  <2> HIDE DEF s3, S3
  <2>4. DOMAIN s3 = 1..Len(s3) /\ Len(s3) \in Nat
    BY <2>3
  <2> QED
    BY <2>1, <2>2, <2>4
<1> DEFINE s4 == s3 \o SecondHalf
<1>16. S3 \cap Second2 = {}
  BY <1>1, <1>2, <1>5, <1>6 DEF S1
<1>17. /\ Lists(s4, S3 \cup Second2) /\ Begins(s3, s4) /\ Len(s4) = Len(s3) + Len(SecondHalf)
       /\ \A i \in DOMAIN SecondHalf : s4[Len(s3) + i] = SecondHalf[i]
  <2> HIDE DEF S3, s3
  <2>1. Lists(s4, S3 \cup Second2) /\ Begins(s3, s4) /\ Follows(s3, SecondHalf, s4)
    BY <1>1, <1>15, <1>16, ListsOn
  <2> HIDE DEF s4
  <2> QED
    BY <2>1 DEF Follows
<1>18. SecondHalf \in Seq(Second2) /\ DOMAIN SecondHalf = 1..Len(SecondHalf) /\ Len(SecondHalf) \in Nat
  BY <1>1 DEF Lists
<1>19. DOMAIN s4 = 1..Len(s4)
  <2>1. s4 \in Seq(S3 \cup Second2)
    BY <1>17 DEF Lists
  <2> HIDE DEF s4, S3
  <2> QED
    BY <2>1
<1>20. Flow = s4 /\ InFlow = S3 \cup Second2
  BY <1>8, <1>9 DEF S1, s1
<1> DEFINE h == Len(s1) + 1
<1> DEFINE k == Len(s3)
<1> HIDE DEF s2, s3, s4, S2, S3
<1>21. h \in Nat /\ k \in Nat /\ h < k /\ k \in DOMAIN s3
  <2> DEFINE c == Len(p.p6)
  <2>1. c \in Nat /\ c # 0
    BY <1>14
  <2>2. Len(s1) \in Nat /\ Len(s3) \in Nat /\ Len(s3) = Len(s1) + 1 + c
    BY <1>12, <1>15
  <2>3. DOMAIN s3 = 1..Len(s3)
    BY <1>15
  <2> HIDE DEF c
  <2> QED
    BY <2>1, <2>2, <2>3
<1>22. h \in DOMAIN s4 /\ s4[h] = Hint
  BY <1>12, <1>15, <1>17 DEF Begins
<1>23. k \in DOMAIN s4 /\ s4[k] = LastOf(p.p6)
  <2>1. s3[k] = LastOf(p.p6)
    BY <1>15
  <2> QED
    BY <1>17, <1>21, <2>1 DEF Begins
<1>24. ASSUME NEW i \in DOMAIN s4, i > k PROVE s4[i] \in Second2
  <2>1. i - k \in DOMAIN SecondHalf /\ k + (i - k) = i
    BY <1>17, <1>18, <1>19, <1>21, <1>24
  <2>2. s4[i] = SecondHalf[i - k]
    BY <1>17, <2>1
  <2> QED
    BY <1>18, <2>1, <2>2
<1> HIDE DEF h, k
<1> QED
  BY <1>17, <1>20, <1>21, <1>22, <1>23, <1>24 DEF p

-----------------------------------------------------------------------------
(* Where the ends of what is written are, from start on.                   *)
EndsAre(e, start, hint) ==
  /\ e \in [0..Len(Flow) -> Nat] /\ e[0] = start
  /\ \A i \in 1..Len(Flow) : e[i] = e[i - 1] + SizeIn(Flow[i], hint)

(* What is written has a size, but for the hint stream in the first pass.  *)
LEMMA Sizes ==
  ASSUME HeldOnce, LaidOut(plan.parts), Elements(plan.parts.p6) # {}, NEW hint \in Nat
  PROVE  /\ Flow \in Seq(InFlow) /\ Len(Flow) \in Nat /\ DOMAIN Flow = 1..Len(Flow)
         /\ \A x \in InFlow : /\ SizeIn(x, hint) \in Nat
                              /\ x # Hint => SizeIn(x, hint) > 0 /\ SizeIn(x, hint) = SizeIn(x, 0)
                              /\ x = Hint => SizeIn(x, hint) = hint
<1>1. Lists(Flow, InFlow)
  BY FlowIs
<1>2. InFlow \subseteq Objs \cup {Hint, Encryption} /\ Hint \notin Objs /\ Encryption \notin Objs
      /\ Hint # Encryption
  BY Halves, DocIs, OthersApart DEF InFlow, InFile, Others
<1>3. \A o \in Objs : doc.size[o] \in Nat /\ doc.size[o] > 0
  BY DocIs DEF IsLinearizable
<1>4. ASSUME NEW x \in InFlow
      PROVE  /\ SizeIn(x, hint) \in Nat
             /\ x # Hint => SizeIn(x, hint) > 0 /\ SizeIn(x, hint) = SizeIn(x, 0)
             /\ x = Hint => SizeIn(x, hint) = hint
  <2>1. CASE x = Hint
    BY <1>2, <2>1 DEF SizeIn
  <2>2. CASE x = Encryption
    BY <1>2, <2>2 DEF SizeIn
  <2>3. CASE x \in Objs
    BY <1>2, <1>3, <2>3 DEF SizeIn
  <2> QED
    BY <1>2, <2>1, <2>2, <2>3
<1>5. Flow \in Seq(InFlow) /\ Len(Flow) \in Nat /\ DOMAIN Flow = 1..Len(Flow)
  BY <1>1 DEF Lists
<1> QED
  BY <1>4, <1>5

LEMMA EndsExist ==
  ASSUME HeldOnce, LaidOut(plan.parts), Elements(plan.parts.p6) # {},
         NEW start \in Nat, NEW hint \in Nat
  PROVE  EndsAre(Ends0(start, hint), start, hint)
<1> DEFINE n == Len(Flow)
<1> DEFINE Rec(e) ==
      e = [i \in 0..n |-> IF i = 0 THEN start ELSE e[i - 1] + SizeIn(Flow[i], hint)]
<1> DEFINE E == CHOOSE e : Rec(e)
<1>1. Ends0(start, hint) = [i \in 0..n |-> E[i]]
  BY DEF Ends0
<1>2. n \in Nat /\ \A i \in 1..n : SizeIn(Flow[i], hint) \in Nat
  BY Sizes
<1>3. \E e : Rec(e)
  <2> DEFINE step == [p \in (1..n) \X Nat |-> p[2] + SizeIn(Flow[p[1]], hint)]
  <2>1. \A i \in 1..n, m \in Nat : step[<<i, m>>] = m + SizeIn(Flow[i], hint) /\ step[<<i, m>>] \in Nat
    <3> SUFFICES ASSUME NEW i \in 1..n, NEW m \in Nat
                 PROVE  step[<<i, m>>] = m + SizeIn(Flow[i], hint) /\ step[<<i, m>>] \in Nat
      OBVIOUS
    <3>1. <<i, m>> \in (1..n) \X Nat
      OBVIOUS
    <3>2. step[<<i, m>>] = m + SizeIn(Flow[i], hint)
      BY <3>1
    <3> HIDE DEF step
    <3> QED
      BY <1>2, <3>2
  <2> HIDE DEF step, n
  <2>2. PICK g : IsRun(g, n, Nat, start, step)
    BY <1>2, <2>1, RecursionTo
  <2>3. /\ g \in [0..n -> Nat] /\ g[0] = start
        /\ \A i \in 1..n : g[i] = g[i - 1] + SizeIn(Flow[i], hint)
    <3>1. g \in [0..n -> Nat] /\ g[0] = start /\ \A i \in 1..n : g[i] = step[<<i, g[i - 1]>>]
      BY <2>2 DEF IsRun
    <3>2. \A i \in 1..n : g[i - 1] \in Nat
      BY <1>2, <3>1
    <3> QED
      BY <2>1, <3>1, <3>2
  <2>4. ASSUME NEW i \in 0..n
        PROVE  g[i] = IF i = 0 THEN start ELSE g[i - 1] + SizeIn(Flow[i], hint)
    <3>1. i = 0 \/ i \in 1..n
      BY <1>2
    <3> QED
      BY <2>3, <3>1, Zenon
  <2>5. g = [i \in 0..n |-> g[i]]
    BY <2>3
  <2>6. Rec(g)
    BY <2>4, <2>5, Zenon
  <2> QED
    BY <2>6
<1>4. Rec(E)
  <2> HIDE DEF Rec
  <2> QED
    BY <1>3
<1> HIDE DEF E
<1>5. E[0] = start /\ \A i \in 1..n : E[i] = E[i - 1] + SizeIn(Flow[i], hint)
  <2> HIDE DEF n
  <2>1. \A i \in 0..n : E[i] = IF i = 0 THEN start ELSE E[i - 1] + SizeIn(Flow[i], hint)
    BY <1>4, Zenon
  <2>2. 0 \in 0..n /\ \A i \in 1..n : i \in 0..n /\ i # 0
    BY <1>2
  <2> QED
    BY <2>1, <2>2, Zenon
<1> HIDE DEF n
<1> DEFINE S == {i \in Nat : i <= n => E[i] \in Nat}
<1>6. \A i \in Nat : i \in S
  <2>1. 0 \in S
    BY <1>5
  <2>2. ASSUME NEW i \in Nat, i \in S PROVE i + 1 \in S
    <3>1. CASE i + 1 <= n
      <4>1. i + 1 \in 1..n /\ (i + 1) - 1 = i /\ E[i] \in Nat
        BY <1>2, <2>2, <3>1
      <4>2. E[i + 1] = E[i] + SizeIn(Flow[i + 1], hint)
        BY <1>5, <4>1
      <4> QED
        BY <1>2, <4>1, <4>2
    <3> QED
      BY <3>1
  <2> HIDE DEF S
  <2> QED
    BY <2>1, <2>2, InductionOver
<1>7. \A i \in 0..n : E[i] \in Nat
  BY <1>2, <1>6
<1> QED
  BY <1>1, <1>2, <1>5, <1>7 DEF EndsAre, n

(* What is behind starts no earlier; up to the hint stream, later.         *)
LEMMA EndsGrow ==
  ASSUME HeldOnce, LaidOut(plan.parts), Elements(plan.parts.p6) # {},
         NEW start, NEW hint \in Nat, NEW e, EndsAre(e, start, hint)
  PROVE  /\ \A i, j \in 0..Len(Flow) : i <= j => e[i] <= e[j]
         /\ \A i \in 1..Len(Flow) : Flow[i] # Hint => e[i - 1] < e[i]
<1> DEFINE n == Len(Flow)
<1>1. /\ n \in Nat /\ \A i \in 1..n : Flow[i] \in InFlow
      /\ \A x \in InFlow : /\ SizeIn(x, hint) \in Nat
                           /\ x # Hint => SizeIn(x, hint) > 0
  BY Sizes
<1>2. /\ \A i \in 0..n : e[i] \in Nat
      /\ \A i \in 1..n : e[i] = e[i - 1] + SizeIn(Flow[i], hint)
  BY DEF EndsAre
<1>3. ASSUME NEW i \in 1..n
      PROVE  /\ i - 1 \in 0..n /\ i \in 0..n /\ e[i - 1] <= e[i]
             /\ Flow[i] # Hint => e[i - 1] < e[i]
  <2> DEFINE z == SizeIn(Flow[i], hint)
  <2>1. i - 1 \in 0..n /\ i \in 0..n
    BY <1>1
  <2>2. z \in Nat /\ (Flow[i] # Hint => z > 0)
    BY <1>1
  <2>3. e[i - 1] \in Nat /\ e[i] = e[i - 1] + z
    BY <1>2, <2>1
  <2> HIDE DEF z, n
  <2> QED
    BY <2>1, <2>2, <2>3
<1> HIDE DEF n
<1>4. ASSUME NEW i \in 0..n PROVE \A j \in 0..n : i <= j => e[i] <= e[j]
  <2> DEFINE S == {j \in Nat : j <= n /\ i <= j => e[i] <= e[j]}
  <2>1. 0 \in S
    BY <1>2
  <2>2. ASSUME NEW j \in Nat, j \in S PROVE j + 1 \in S
    <3>1. CASE j + 1 <= n /\ i <= j
      <4>1. j + 1 \in 1..n /\ (j + 1) - 1 = j /\ j \in 0..n /\ j + 1 \in 0..n
        BY <1>1, <3>1
      <4>2. e[i] <= e[j] /\ e[j] <= e[j + 1]
        BY <1>1, <1>3, <2>2, <3>1, <4>1
      <4>3. e[i] \in Nat /\ e[j] \in Nat /\ e[j + 1] \in Nat
        BY <1>2, <4>1
      <4>4. e[i] <= e[j + 1]
        BY <4>2, <4>3
      <4> QED
        BY <4>4
    <3>2. CASE i = j + 1
      BY <1>2, <3>2
    <3> QED
      BY <1>1, <3>1, <3>2
  <2> HIDE DEF S
  <2>3. \A j \in Nat : j \in S
    BY <2>1, <2>2, InductionOver
  <2> QED
    BY <1>1, <2>3 DEF S
<1> QED
  BY <1>3, <1>4 DEF n

(* In the second pass what is behind the hint stream has moved by its      *)
(* length.                                                                 *)
Shifted(e, f, h, hint) == \A i \in 0..Len(Flow) : f[i] = IF i >= h THEN e[i] + hint ELSE e[i]

LEMMA EndsMove ==
  ASSUME HeldOnce, LaidOut(plan.parts), Elements(plan.parts.p6) # {},
         NEW start, NEW hint \in Nat, NEW e, NEW f,
         EndsAre(e, start, 0), EndsAre(f, start, hint),
         NEW h \in DOMAIN Flow, Flow[h] = Hint
  PROVE  Shifted(e, f, h, hint)
<1> DEFINE n == Len(Flow)
<1> DEFINE ok(i) == f[i] = IF i >= h THEN e[i] + hint ELSE e[i]
<1>1. /\ n \in Nat /\ h \in 1..n /\ \A i \in 1..n : Flow[i] \in InFlow
      /\ \A i \in 1..n : i # h => Flow[i] # Hint
  <2>1. Flow \in Seq(InFlow) /\ n \in Nat /\ DOMAIN Flow = 1..n
    BY Sizes
  <2>2. \A i, j \in DOMAIN Flow : Flow[i] = Flow[j] => i = j
    BY FlowIs DEF Lists
  <2> QED
    BY <2>1, <2>2
<1>2. /\ \A x \in InFlow : SizeIn(x, 0) \in Nat
      /\ \A x \in InFlow : x # Hint => SizeIn(x, hint) = SizeIn(x, 0)
      /\ \A x \in InFlow : x = Hint => SizeIn(x, hint) = hint /\ SizeIn(x, 0) = 0
  <2>1. 0 \in Nat
    OBVIOUS
  <2> QED
    BY <2>1, Sizes
<1>3. /\ e[0] = f[0]
      /\ \A i \in 0..n : e[i] \in Nat
      /\ \A i \in 1..n : e[i] = e[i - 1] + SizeIn(Flow[i], 0)
      /\ \A i \in 1..n : f[i] = f[i - 1] + SizeIn(Flow[i], hint)
  BY DEF EndsAre
<1> HIDE DEF n
<1> DEFINE S == {i \in Nat : i <= n => ok(i)}
<1>4. 0 \in S
  BY <1>1, <1>3
<1>5. ASSUME NEW i \in Nat, i \in S PROVE i + 1 \in S
  <2> SUFFICES ASSUME i + 1 <= n PROVE ok(i + 1)
    OBVIOUS
  <2> DEFINE z == SizeIn(Flow[i + 1], 0)
  <2> DEFINE y == SizeIn(Flow[i + 1], hint)
  <2>1. i + 1 \in 1..n /\ (i + 1) - 1 = i /\ i \in 0..n
    BY <1>1
  <2>2. e[i + 1] = e[i] + z /\ f[i + 1] = f[i] + y
    BY <1>3, <2>1
  <2>3. ok(i) /\ e[i] \in Nat
    BY <1>3, <1>5, <2>1
  <2>4. CASE i + 1 = h
    <3>1. y = hint /\ z = 0
      BY <1>1, <1>2, <2>1, <2>4
    <3>2. f[i] = e[i]
      BY <1>1, <2>3, <2>4
    <3> HIDE DEF y, z
    <3>3. f[i + 1] = e[i + 1] + hint
      BY <2>2, <2>3, <3>1, <3>2
    <3> QED
      BY <1>1, <2>4, <3>3
  <2>5. CASE i + 1 # h
    <3>1. y = z /\ z \in Nat
      BY <1>1, <1>2, <2>1, <2>5
    <3>2. i + 1 >= h <=> i >= h
      BY <1>1, <2>5
    <3> HIDE DEF y, z
    <3> QED
      BY <2>2, <2>3, <3>1, <3>2
  <2> QED
    BY <2>4, <2>5
<1> HIDE DEF S
<1>6. \A i \in Nat : i \in S
  BY <1>4, <1>5, InductionOver
<1>7. \A i \in 0..n : ok(i)
  BY <1>1, <1>6 DEF S
<1> QED
  BY <1>7 DEF n, Shifted

-----------------------------------------------------------------------------
(* Where something stands in a list.                                       *)
LEMMA IdOfLists ==
  ASSUME NEW s, NEW S, Lists(s, S)
  PROVE  /\ Len(s) \in Nat /\ DOMAIN s = 1..Len(s)
         /\ \A i \in DOMAIN s : IdOf(s[i], s) = i
         /\ \A x \in S : IdOf(x, s) \in DOMAIN s /\ s[IdOf(x, s)] = x
         /\ \A x : x \notin S => IdOf(x, s) = 0
<1>1. /\ s \in Seq(S) /\ \A x \in S : \E i \in DOMAIN s : s[i] = x
      /\ \A i, j \in DOMAIN s : s[i] = s[j] => i = j
  BY DEF Lists
<1>2. Len(s) \in Nat /\ DOMAIN s = 1..Len(s) /\ \A i \in DOMAIN s : s[i] \in S
  BY <1>1
<1>3. ASSUME NEW i \in DOMAIN s PROVE IdOf(s[i], s) = i
  <2>1. \E j \in DOMAIN s : s[j] = s[i]
    OBVIOUS
  <2>2. (CHOOSE j \in DOMAIN s : s[j] = s[i]) = i
    BY <1>1
  <2> QED
    BY <2>1, <2>2 DEF IdOf
<1>4. ASSUME NEW x \in S PROVE IdOf(x, s) \in DOMAIN s /\ s[IdOf(x, s)] = x
  <2>1. PICK i \in DOMAIN s : s[i] = x
    BY <1>1
  <2> QED
    BY <1>3, <2>1
<1>5. ASSUME NEW x, x \notin S PROVE IdOf(x, s) = 0
  <2>1. ~ \E i \in DOMAIN s : s[i] = x
    BY <1>2, <1>5
  <2> QED
    BY <2>1 DEF IdOf
<1> QED
  BY <1>2, <1>3, <1>4, <1>5

(* How many bytes, or decimal digits, a number has.                        *)
IsBase(base) == base = 10 \/ base = 256

LEMMA Quotients ==
  ASSUME NEW base, IsBase(base), NEW n \in Nat
  PROVE  /\ n \div base \in Nat /\ (n # 0 => n \div base < n)
         /\ \A m \in 0..n : m \div base <= n \div base
<1>1. CASE base = 10
  <2>1. n \div 10 \in Nat /\ (n # 0 => n \div 10 < n)
    OBVIOUS
  <2>2. \A m \in 0..n : m \div 10 <= n \div 10
    OBVIOUS
  <2> QED
    BY <1>1, <2>1, <2>2
<1>2. CASE base = 256
  <2>1. n \div 256 \in Nat /\ (n # 0 => n \div 256 < n)
    OBVIOUS
  <2>2. \A m \in 0..n : m \div 256 <= n \div 256
    OBVIOUS
  <2> QED
    BY <1>2, <2>1, <2>2
<1> QED
  BY <1>1, <1>2 DEF IsBase

IsCount(f, base) == f = [n \in Nat |-> IF n = 0 THEN 0 ELSE 1 + f[n \div base]]

(* It counts, and larger numbers have no fewer.                            *)
Counts(f, base) ==
  /\ f[0] = 0
  /\ \A n \in Nat : f[n] \in Nat /\ (n # 0 => f[n] = 1 + f[n \div base])
  /\ \A n \in Nat : \A m \in 0..n : f[m] <= f[n]

LEMMA CountExists ==
  ASSUME NEW base, IsBase(base)
  PROVE  \E f : IsCount(f, base)
<1> DEFINE down == [n \in Nat |-> n \div base]
<1> DEFINE step == [k \in Nat |-> 1 + k]
<1>1. GoesDown(Nat, 0, step, down)
  <2>1. \A n \in Nat : n \div base \in Nat /\ (n # 0 => n \div base < n)
    BY Quotients
  <2>2. step \in [Nat -> Nat] /\ 0 \in Nat
    OBVIOUS
  <2> HIDE DEF step
  <2>3. down \in [Nat -> Nat] /\ \A n \in Nat \ {0} : down[n] < n
    BY <2>1
  <2> HIDE DEF down
  <2> QED
    BY <2>2, <2>3 DEF GoesDown
<1>2. (\A n \in Nat : down[n] = n \div base) /\ \A k \in Nat : step[k] = 1 + k
  OBVIOUS
<1> HIDE DEF down, step
<1>3. PICK f \in [Nat -> Nat] : f = [n \in Nat |-> IF n = 0 THEN 0 ELSE step[f[down[n]]]]
  BY <1>1, RecursionDown
<1>4. ASSUME NEW n \in Nat PROVE f[n] = IF n = 0 THEN 0 ELSE 1 + f[n \div base]
  <2>1. f[n] = IF n = 0 THEN 0 ELSE step[f[down[n]]]
    BY <1>3, Zenon
  <2>2. step[f[down[n]]] = 1 + f[n \div base]
    <3>1. down[n] \in Nat /\ down[n] = n \div base
      BY <1>2, Quotients
    <3>2. f[down[n]] \in Nat
      BY <1>3, <3>1
    <3> QED
      BY <1>2, <3>1, <3>2
  <2> QED
    BY <2>1, <2>2, Zenon
<1>5. f = [n \in Nat |-> f[n]]
  BY <1>3
<1>6. IsCount(f, base)
  BY <1>4, <1>5, Zenon DEF IsCount
<1> QED
  BY <1>6

LEMMA CountIs ==
  ASSUME NEW base, IsBase(base), NEW f, IsCount(f, base)
  PROVE  Counts(f, base)
<1>1. f[0] = 0 /\ \A n \in Nat : n # 0 => f[n] = 1 + f[n \div base]
  <2>1. \A n \in Nat : f[n] = IF n = 0 THEN 0 ELSE 1 + f[n \div base]
    BY Zenon DEF IsCount
  <2>2. 0 \in Nat
    OBVIOUS
  <2> QED
    BY <2>1, <2>2, Zenon
<1> DEFINE S == {k \in Nat : \A n \in 0..k : f[n] \in Nat /\ \A m \in 0..n : f[m] <= f[n]}
<1>2. \A k \in Nat : k \in S
  <2>1. 0 \in S
    BY <1>1
  <2>2. ASSUME NEW k \in Nat, k \in S PROVE k + 1 \in S
    <3> DEFINE q == (k + 1) \div base
    <3>1. k + 1 \in Nat /\ k + 1 # 0
      OBVIOUS
    <3>2. q \in Nat /\ q < k + 1 /\ \A m \in 0..(k + 1) : m \div base <= q /\ m \div base \in Nat
      BY <3>1, Quotients
    <3>3. f[k + 1] = 1 + f[q]
      BY <1>1, <3>1
    <3> HIDE DEF q
    <3>4. f[q] \in Nat /\ \A m \in 0..q : f[m] \in Nat /\ f[m] <= f[q]
      <4>1. q \in 0..k /\ \A m \in 0..q : m \in 0..k
        BY <3>2
      <4> QED
        BY <2>2, <4>1
    <3>5. \A m \in 0..(k + 1) : f[m] <= f[k + 1]
      <4> SUFFICES ASSUME NEW m \in 0..(k + 1) PROVE f[m] <= f[k + 1]
        OBVIOUS
      <4>1. CASE m = 0
        BY <1>1, <3>3, <3>4, <4>1
      <4>2. CASE m # 0
        <5> DEFINE p == m \div base
        <5>1. p \in 0..q
          BY <3>2
        <5>2. f[m] = 1 + f[p]
          BY <1>1, <4>2
        <5> HIDE DEF p
        <5> QED
          BY <3>3, <3>4, <5>1, <5>2
      <4> QED
        BY <4>1, <4>2
    <3>6. \A n \in 0..(k + 1) : n \in 0..k \/ n = k + 1
      OBVIOUS
    <3>7. f[k + 1] \in Nat
      BY <3>3, <3>4
    <3> QED
      BY <2>2, <3>1, <3>5, <3>6, <3>7
  <2> HIDE DEF S
  <2> QED
    BY <2>1, <2>2, InductionOver
<1>3. \A n \in Nat : f[n] \in Nat /\ \A m \in 0..n : f[m] <= f[n]
  BY <1>2
<1> QED
  BY <1>1, <1>3 DEF Counts

LEMMA BytesAre == Counts(BytesNeeded, 256)
<1>1. BytesNeeded = CHOOSE f : IsCount(f, 256)
  BY DEF BytesNeeded, IsCount
<1>2. IsCount(BytesNeeded, 256)
  BY <1>1, CountExists DEF IsBase
<1> QED
  BY <1>2, CountIs DEF IsBase

LEMMA DigitsAre == Counts(Digits, 10)
<1>1. Digits = CHOOSE f : IsCount(f, 10)
  BY DEF Digits, IsCount
<1>2. IsCount(Digits, 10)
  BY <1>1, CountExists DEF IsBase
<1> QED
  BY <1>2, CountIs DEF IsBase

LEMMA StoredIs ==
  /\ \A n \in Nat : Stored[0][n] = 0
  /\ \A b, n \in Nat : Stored[b + 1][n] = 256 * Stored[b][n \div 256] + (n % 256)
<1> DEFINE Shifts(g) == [n \in Nat |-> 256 * g[n \div 256] + (n % 256)]
<1> DEFINE none == [n \in Nat |-> 0]
<1> DEFINE Rec(f) == f = [b \in Nat |-> IF b = 0 THEN none ELSE Shifts(f[b - 1])]
<1> DEFINE F == Stored
<1>1. F = CHOOSE f : Rec(f)
  BY DEF Stored
<1>2. \E f : Rec(f)
  <2> DEFINE D == [Nat -> Nat]
  <2> DEFINE step == [g \in D |-> Shifts(g)]
  <2>1. none \in D
    OBVIOUS
  <2>2. step \in [D -> D]
    <3> SUFFICES ASSUME NEW g \in D PROVE Shifts(g) \in D
      <4> HIDE DEF D, Shifts
      <4> QED
        BY Zenon
    <3> SUFFICES ASSUME NEW n \in Nat PROVE 256 * g[n \div 256] + (n % 256) \in Nat
      OBVIOUS
    <3>1. n \div 256 \in Nat /\ n % 256 \in Nat
      OBVIOUS
    <3>2. g[n \div 256] \in Nat
      BY <3>1
    <3> QED
      BY <3>1, <3>2
  <2>3. \A g \in D : step[g] = Shifts(g)
    BY Zenon
  <2> HIDE DEF none, step, D, Shifts
  <2>4. PICK f : f = [b \in Nat |-> IF b = 0 THEN none ELSE step[f[b - 1]]]
    BY <2>1, <2>2, RecursiveFunctionExists
  <2>5. f \in [Nat -> D]
    BY <2>1, <2>2, <2>4, RecursiveFunction
  <2>6. ASSUME NEW b \in Nat PROVE f[b] = IF b = 0 THEN none ELSE Shifts(f[b - 1])
    <3>1. f[b] = IF b = 0 THEN none ELSE step[f[b - 1]]
      BY <2>4, Zenon
    <3>2. CASE b = 0
      BY <3>1, <3>2, Zenon
    <3>3. CASE b # 0
      <4>1. b - 1 \in Nat
        BY <3>3
      <4>2. f[b - 1] \in D
        BY <2>5, <4>1, Zenon
      <4> QED
        BY <2>3, <3>1, <3>3, <4>2, Zenon
    <3> QED
      BY <3>2, <3>3
  <2>7. f = [b \in Nat |-> f[b]]
    BY <2>5, Zenon
  <2>8. Rec(f)
    BY <2>6, <2>7, Zenon
  <2> QED
    BY <2>8
<1>3. Rec(F)
  <2> HIDE DEF Rec
  <2> QED
    BY <1>1, <1>2
<1> HIDE DEF F
<1>4. \A b \in Nat : F[b] = IF b = 0 THEN none ELSE Shifts(F[b - 1])
  <2> HIDE DEF none, Shifts
  <2> QED
    BY <1>3, Zenon
<1> HIDE DEF Rec
<1>5. ASSUME NEW n \in Nat PROVE F[0][n] = 0
  <2>1. F[0] = none
    <3> HIDE DEF Shifts, none
    <3> QED
      BY <1>4
  <2> QED
    BY <2>1
<1>6. ASSUME NEW b \in Nat, NEW n \in Nat
      PROVE  F[b + 1][n] = 256 * F[b][n \div 256] + (n % 256)
  <2>1. b + 1 \in Nat /\ b + 1 # 0 /\ (b + 1) - 1 = b
    OBVIOUS
  <2>2. F[b + 1] = Shifts(F[b])
    <3> HIDE DEF Shifts, none
    <3> QED
      BY <1>4, <2>1
  <2> QED
    BY <2>2
<1> QED
  BY <1>5, <1>6 DEF F

(* A number fits into a field that was made for a larger one.              *)
Whole(b) == \A n \in Nat : BytesNeeded[n] <= b => Stored[b][n] = n

LEMMA WholeIfWide == \A b \in Nat : Whole(b)
<1> DEFINE S == {b \in Nat : Whole(b)}
<1>1. 0 \in S
  <2> SUFFICES ASSUME NEW n \in Nat, BytesNeeded[n] <= 0 PROVE Stored[0][n] = n
    BY DEF Whole
  <2>1. n = 0
    <3> SUFFICES ASSUME n # 0 PROVE FALSE
      OBVIOUS
    <3> DEFINE q == BytesNeeded[n \div 256]
    <3>1. BytesNeeded[n] = 1 + q /\ q \in Nat
      <4>1. n \div 256 \in Nat
        OBVIOUS
      <4> QED
        BY <4>1, BytesAre DEF Counts
    <3> HIDE DEF q
    <3> QED
      BY <3>1
  <2> QED
    BY <2>1, StoredIs
<1>2. ASSUME NEW b \in Nat, b \in S PROVE b + 1 \in S
  <2> SUFFICES ASSUME NEW n \in Nat, BytesNeeded[n] <= b + 1 PROVE Stored[b + 1][n] = n
    BY DEF Whole
  <2> DEFINE q == n \div 256
  <2>1. q \in Nat /\ n = 256 * q + (n % 256) /\ n % 256 \in Nat
    OBVIOUS
  <2>2. BytesNeeded[q] <= b
    <3>1. BytesNeeded[q] \in Nat
      BY <2>1, BytesAre DEF Counts
    <3>2. CASE n = 0
      BY <1>2, <3>2, BytesAre DEF Counts
    <3>3. CASE n # 0
      <4>1. BytesNeeded[n] = 1 + BytesNeeded[q]
        BY <3>3, BytesAre DEF Counts
      <4> HIDE DEF q
      <4> QED
        BY <3>1, <4>1
    <3> QED
      BY <3>2, <3>3
  <2>3. Stored[b][q] = q
    BY <1>2, <2>1, <2>2 DEF Whole
  <2>4. Stored[b + 1][n] = 256 * Stored[b][q] + (n % 256)
    BY StoredIs
  <2> HIDE DEF q
  <2> QED
    BY <2>1, <2>3, <2>4
<1> HIDE DEF S
<1>3. \A b \in Nat : b \in S
  BY <1>1, <1>2, InductionOver
<1> QED
  BY <1>3 DEF S

LEMMA Fits ==
  ASSUME NEW max \in Nat, NEW n \in Nat, n <= max, Len(order) \in Nat
  PROVE  InTable(n, max) = n
<1> DEFINE b == FieldSize(max)
<1>1. b \in Nat /\ b >= BytesNeeded[max] /\ BytesNeeded[max] \in Nat
  <2>1. BytesNeeded[max] \in Nat /\ BytesNeeded[Len(order)] \in Nat
    BY BytesAre DEF Counts
  <2> QED
    BY <2>1 DEF FieldSize, Larger
<1> HIDE DEF b
<1>2. BytesNeeded[n] <= b
  <2>1. BytesNeeded[n] \in Nat /\ n \in 0..max
    BY BytesAre DEF Counts
  <2>2. BytesNeeded[n] <= BytesNeeded[max]
    BY <2>1, BytesAre DEF Counts
  <2> QED
    BY <1>1, <2>1, <2>2
<1>3. Stored[b][n] = n
  BY <1>1, <1>2, WholeIfWide DEF Whole
<1> QED
  BY <1>3 DEF InTable, b

-----------------------------------------------------------------------------
(* What the first pass found is where the second pass puts things, once    *)
(* the length of the hint stream is taken in.                              *)
First0 == Ends0(pass1.start, 0)

Measured ==
  /\ pass1.start \in Nat /\ pass1.hint \in Nat
  /\ pass1.at = Starts(First0)
  /\ pass1.second = Finish(First0) /\ pass1.end6 = End(First0, LastOf(plan.parts.p6))

(* The numbers of the objects behind the first page are before that of the *)
(* dictionary.                                                             *)
OrderedBy ==
  /\ Lists(order, Elements(order))
  /\ Elements(order) \cap Objs = NumberedObjs /\ Elements(order) \subseteq Objs \cup Others
  /\ InFlow \subseteq Elements(order)
  /\ \E m \in DOMAIN order :
       /\ order[m] = LinDict
       /\ \A x \in Second2 : \E i \in DOMAIN order : order[i] = x /\ i < m

LEMMA WhereThingsAre ==
  ASSUME HeldOnce, LaidOut(plan.parts), Elements(plan.parts.p6) # {}, NEW ends
  PROVE  /\ DOMAIN Starts(ends) = InFlow
         /\ \A x \in InFlow : /\ IdOf(x, Flow) \in 1..Len(Flow) /\ Flow[IdOf(x, Flow)] = x
                              /\ Starts(ends)[x] = ends[IdOf(x, Flow) - 1]
         /\ \A i \in 1..Len(Flow) : Flow[i] \in InFlow /\ IdOf(Flow[i], Flow) = i
         /\ Len(Flow) \in Nat /\ DOMAIN Flow = 1..Len(Flow)
<1>1. Lists(Flow, InFlow)
  BY FlowIs
<1>2. /\ Len(Flow) \in Nat /\ DOMAIN Flow = 1..Len(Flow)
      /\ \A i \in DOMAIN Flow : IdOf(Flow[i], Flow) = i
      /\ \A x \in InFlow : IdOf(x, Flow) \in DOMAIN Flow /\ Flow[IdOf(x, Flow)] = x
  BY <1>1, IdOfLists
<1>3. {Flow[i] : i \in DOMAIN Flow} = InFlow
  <2>1. \A i \in DOMAIN Flow : Flow[i] \in InFlow
    BY <1>1 DEF Lists
  <2> QED
    BY <1>2, <2>1
<1>4. Starts(ends) = [x \in InFlow |-> ends[IdOf(x, Flow) - 1]]
  BY <1>3 DEF Starts
<1> QED
  BY <1>2, <1>3, <1>4

LEMMA SecondPass ==
  ASSUME HeldOnce, LaidOut(plan.parts), Elements(plan.parts.p6) # {}, Measured
  PROVE  /\ DOMAIN pass1.at = InFlow /\ DOMAIN Starts(Now) = InFlow
         /\ \A x \in InFlow : Moved(x) = Starts(Now)[x]
         /\ \A x \in InFlow : Starts(Now)[x] \in Nat /\ Starts(Now)[x] <= Finish(Now)
         /\ Finish(Now) \in Nat
         /\ pass1.at[Hint] = Starts(Now)[Hint]
         /\ pass1.second + pass1.hint = Finish(Now)
         /\ pass1.end6 + pass1.hint = End(Now, LastOf(plan.parts.p6))
         /\ LastOf(plan.parts.p6) \in InFlow
         /\ pass1.at[LastOf(plan.parts.p6)] + pass1.hint = Starts(Now)[LastOf(plan.parts.p6)]
         /\ \A x \in InFlow \ Second2 : Starts(Now)[x] <= Starts(Now)[LastOf(plan.parts.p6)]
<1> DEFINE n == Len(Flow)
<1> DEFINE hint == pass1.hint
<1> DEFINE start == pass1.start
<1> DEFINE e == First0
<1> DEFINE f == Now
<1> DEFINE last == LastOf(plan.parts.p6)
<1>1. EndsAre(e, start, 0) /\ EndsAre(f, start, hint) /\ start \in Nat /\ hint \in Nat
  <2>1. 0 \in Nat /\ start \in Nat /\ hint \in Nat
    BY DEF Measured
  <2> QED
    BY <2>1, EndsExist DEF First0, Now
<1>2. PICK h, k \in DOMAIN Flow :
        /\ Flow[h] = Hint /\ h < k /\ Flow[k] = last
        /\ \A i \in DOMAIN Flow : i > k => Flow[i] \in Second2
  BY FlowIs
<1>3. /\ n \in Nat /\ DOMAIN Flow = 1..n /\ h \in 1..n /\ k \in 1..n
      /\ DOMAIN Starts(e) = InFlow /\ DOMAIN Starts(f) = InFlow
      /\ \A i \in 1..n : Flow[i] \in InFlow /\ IdOf(Flow[i], Flow) = i
  BY <1>2, WhereThingsAre
<1>4. \A x \in InFlow : /\ IdOf(x, Flow) \in 1..n /\ Flow[IdOf(x, Flow)] = x
                        /\ Starts(e)[x] = e[IdOf(x, Flow) - 1]
                        /\ Starts(f)[x] = f[IdOf(x, Flow) - 1]
  BY WhereThingsAre
<1>5. \A i \in 0..n : f[i] = IF i >= h THEN e[i] + hint ELSE e[i]
  <2> HIDE DEF e, f, hint, start
  <2>1. /\ EndsAre(e, start, 0) /\ EndsAre(f, start, hint) /\ hint \in Nat
        /\ h \in DOMAIN Flow /\ Flow[h] = Hint
    BY <1>1, <1>2
  <2>2. Shifted(e, f, h, hint)
    BY <2>1, EndsMove
  <2> QED
    BY <2>2 DEF Shifted, n
<1>6. /\ \A i, j \in 0..n : i <= j => e[i] <= e[j]
      /\ \A i \in 1..n : Flow[i] # Hint => e[i - 1] < e[i]
      /\ \A i, j \in 0..n : i <= j => f[i] <= f[j]
  <2>1. 0 \in Nat
    OBVIOUS
  <2> QED
    BY <1>1, <2>1, EndsGrow
<1>7. \A i \in 0..n : e[i] \in Nat /\ f[i] \in Nat
  BY <1>1 DEF EndsAre
<1>8. /\ pass1.at = Starts(e) /\ pass1.second = e[n] /\ Finish(Now) = f[n]
      /\ pass1.end6 = e[IdOf(last, Flow)] /\ End(Now, last) = f[IdOf(last, Flow)]
  BY DEF Measured, Finish, End
<1> HIDE DEF e, f, n, hint, start, last
<1>9. IdOf(Hint, Flow) = h /\ IdOf(last, Flow) = k /\ Hint \in InFlow /\ last \in InFlow
  BY <1>2, <1>3
<1>10. \A i \in 1..n : i - 1 \in 0..n /\ i \in 0..n /\ n \in 0..n
  BY <1>3
<1>11. ASSUME NEW x \in InFlow
       PROVE  /\ Starts(f)[x] = IF IdOf(x, Flow) > h THEN Starts(e)[x] + hint ELSE Starts(e)[x]
              /\ Starts(f)[x] \in Nat /\ Starts(f)[x] <= f[n] /\ Starts(e)[x] \in Nat
  <2> DEFINE i == IdOf(x, Flow)
  <2>1. i \in 1..n /\ Starts(e)[x] = e[i - 1] /\ Starts(f)[x] = f[i - 1]
    BY <1>4
  <2> HIDE DEF i
  <2>2. i - 1 \in 0..n /\ n \in 0..n /\ i - 1 <= n /\ (i - 1 >= h <=> i > h)
    BY <1>3, <2>1
  <2>3. f[i - 1] = IF i > h THEN e[i - 1] + hint ELSE e[i - 1]
    BY <1>5, <2>2
  <2>4. f[i - 1] <= f[n]
    BY <1>6, <2>2
  <2> QED
    BY <1>7, <2>1, <2>2, <2>3, <2>4 DEF i
<1>12. ASSUME NEW x \in InFlow PROVE Moved(x) = Starts(f)[x]
  <2> DEFINE i == IdOf(x, Flow)
  <2>1. i \in 1..n /\ Flow[i] = x /\ Starts(e)[x] = e[i - 1] /\ Starts(e)[Hint] = e[h - 1]
    BY <1>4, <1>9
  <2>2. Moved(x) = IF x # Hint /\ Starts(e)[x] >= Starts(e)[Hint]
                   THEN Starts(e)[x] + hint ELSE Starts(e)[x]
    BY <1>8 DEF Moved, hint
  <2>3. Starts(f)[x] = IF i > h THEN Starts(e)[x] + hint ELSE Starts(e)[x]
    BY <1>11
  <2>4. x # Hint /\ Starts(e)[x] >= Starts(e)[Hint] <=> i > h
    <3> HIDE DEF i
    <3>1. CASE i > h
      <4>1. x # Hint
        BY <1>9, <2>1, <3>1 DEF i
      <4>2. i - 1 \in 0..n /\ h - 1 \in 0..n /\ h - 1 <= i - 1
        BY <1>3, <2>1, <3>1
      <4>3. e[h - 1] <= e[i - 1] /\ e[h - 1] \in Nat /\ e[i - 1] \in Nat
        BY <1>6, <1>7, <4>2
      <4> QED
        BY <2>1, <3>1, <4>1, <4>3
    <3>2. CASE i = h
      BY <1>2, <2>1, <3>2
    <3>3. CASE i < h
      <4>1. x # Hint
        BY <1>3, <1>9, <2>1, <3>3 DEF i
      <4>2. e[i - 1] < e[i]
        BY <1>6, <2>1, <4>1
      <4>3. i \in 0..n /\ i - 1 \in 0..n /\ h - 1 \in 0..n /\ i <= h - 1
        BY <1>3, <2>1, <3>3
      <4>4. e[i] <= e[h - 1] /\ e[i] \in Nat /\ e[i - 1] \in Nat /\ e[h - 1] \in Nat
        BY <1>6, <1>7, <4>3
      <4>5. ~(e[i - 1] >= e[h - 1])
        BY <4>2, <4>4
      <4> QED
        BY <1>3, <2>1, <3>3, <4>5
    <3> QED
      BY <1>3, <2>1, <3>1, <3>2, <3>3
  <2> HIDE DEF i
  <2>5. CASE i > h
    BY <2>2, <2>3, <2>4, <2>5
  <2>6. CASE ~(i > h)
    BY <2>2, <2>3, <2>4, <2>6
  <2> QED
    BY <2>5, <2>6
<1>13. Starts(e)[Hint] = Starts(f)[Hint]
  BY <1>3, <1>9, <1>11
<1>14. /\ e[n] + hint = f[n] /\ f[n] \in Nat
       /\ e[k] + hint = f[k] /\ Starts(e)[last] + hint = Starts(f)[last]
  <2>1. n \in 0..n /\ k \in 0..n /\ n >= h /\ k >= h /\ k > h
    BY <1>2, <1>3
  <2> QED
    BY <1>5, <1>7, <1>9, <1>11, <2>1
<1>15. ASSUME NEW x \in InFlow \ Second2 PROVE Starts(f)[x] <= Starts(f)[last]
  <2> DEFINE i == IdOf(x, Flow)
  <2>1. i \in 1..n /\ Flow[i] = x /\ Starts(f)[x] = f[i - 1] /\ Starts(f)[last] = f[k - 1]
    BY <1>4, <1>9
  <2>2. ~(i > k)
    BY <1>2, <1>3, <2>1
  <2> HIDE DEF i
  <2>3. i - 1 \in 0..n /\ k - 1 \in 0..n /\ i - 1 <= k - 1
    BY <1>3, <2>1, <2>2
  <2> QED
    BY <1>6, <2>1, <2>3
<1> QED
  BY <1>3, <1>8, <1>9, <1>11, <1>12, <1>13, <1>14, <1>15 DEF e, f, hint, last

LEMMA FieldsFit ==
  ASSUME HeldOnce, LaidOut(plan.parts), Elements(plan.parts.p6) # {}, Measured, OrderedBy
  PROVE  /\ FirstThings \subseteq InFlow
         /\ \A x \in FirstThings :
              InTable(Moved(x), pass1.at[LastOf(plan.parts.p6)] + pass1.hint) = Starts(Now)[x]
         /\ \A x \in InFlow : InTable(Starts(Now)[x], Finish(Now)) = Starts(Now)[x]
<1> DEFINE last == LastOf(plan.parts.p6)
<1>1. /\ DOMAIN pass1.at = InFlow
      /\ \A x \in InFlow : Moved(x) = Starts(Now)[x]
      /\ \A x \in InFlow : Starts(Now)[x] \in Nat /\ Starts(Now)[x] <= Finish(Now)
      /\ Finish(Now) \in Nat /\ last \in InFlow
      /\ pass1.at[last] + pass1.hint = Starts(Now)[last]
      /\ \A x \in InFlow \ Second2 : Starts(Now)[x] <= Starts(Now)[last]
  BY SecondPass
<1>2. FirstThings \subseteq InFlow
  BY <1>1 DEF FirstThings
<1>3. /\ Len(order) \in Nat /\ DOMAIN order = 1..Len(order)
      /\ \A i \in DOMAIN order : IdOf(order[i], order) = i
  BY IdOfLists DEF OrderedBy
<1>4. ASSUME NEW x \in FirstThings PROVE x \notin Second2
  <2> SUFFICES ASSUME x \in Second2 PROVE FALSE
    OBVIOUS
  <2>1. PICK m \in DOMAIN order :
          /\ order[m] = LinDict
          /\ \A y \in Second2 : \E i \in DOMAIN order : order[i] = y /\ i < m
    BY DEF OrderedBy
  <2>2. PICK i \in DOMAIN order : order[i] = x /\ i < m
    BY <2>1
  <2>3. Id(x) = i /\ Id(LinDict) = m
    BY <1>3, <2>1, <2>2 DEF Id
  <2>4. Id(x) > Id(LinDict)
    BY DEF FirstThings
  <2> QED
    BY <1>3, <2>2, <2>3, <2>4
<1>5. ASSUME NEW x \in FirstThings
      PROVE  InTable(Moved(x), pass1.at[last] + pass1.hint) = Starts(Now)[x]
  <2>1. /\ Starts(Now)[x] \in Nat /\ Starts(Now)[last] \in Nat
        /\ Starts(Now)[x] <= Starts(Now)[last] /\ Moved(x) = Starts(Now)[x]
    BY <1>1, <1>2, <1>4
  <2> HIDE DEF last
  <2>2. InTable(Starts(Now)[x], Starts(Now)[last]) = Starts(Now)[x]
    BY <1>3, <2>1, Fits
  <2> QED
    BY <1>1, <2>1, <2>2
<1>6. ASSUME NEW x \in InFlow
      PROVE  InTable(Starts(Now)[x], Finish(Now)) = Starts(Now)[x]
  BY <1>1, <1>3, Fits
<1> QED
  BY <1>2, <1>5, <1>6

-----------------------------------------------------------------------------
(* There is one way to lay things out.                                     *)
LEMMA EndsAreOne ==
  ASSUME HeldOnce, LaidOut(plan.parts), Elements(plan.parts.p6) # {},
         NEW start \in Nat, NEW hint \in Nat, NEW f, EndsAre(f, start, hint)
  PROVE  f = Ends0(start, hint)
<1> DEFINE e == Ends0(start, 0)
<1> DEFINE g == Ends0(start, hint)
<1>1. EndsAre(e, start, 0) /\ EndsAre(g, start, hint)
  <2>1. 0 \in Nat
    OBVIOUS
  <2> QED
    BY <2>1, EndsExist
<1> HIDE DEF e, g
<1>2. PICK h \in DOMAIN Flow : Flow[h] = Hint
  BY FlowIs
<1>3. h \in DOMAIN Flow /\ Flow[h] = Hint
  BY <1>2
<1>4. Shifted(e, f, h, hint) /\ Shifted(e, g, h, hint)
  BY <1>1, <1>3, EndsMove
<1>5. \A i \in 0..Len(Flow) : f[i] = g[i]
  BY <1>4 DEF Shifted
<1>6. f \in [0..Len(Flow) -> Nat] /\ g \in [0..Len(Flow) -> Nat]
  BY <1>1 DEF EndsAre
<1> QED
  BY <1>5, <1>6 DEF g

LEMMA EndsOfAll ==
  \A s, t \in Nat : HeldOnce /\ LaidOut(plan.parts) /\ Elements(plan.parts.p6) # {} =>
    EndsAre(Ends0(s, t), s, t)
  BY EndsExist

LEMMA LayoutStays ==
  ASSUME UNCHANGED <<doc, held, plan>>
  PROVE  /\ HeldOnce => HeldOnce'
         /\ Free' = Free /\ InFile' = InFile /\ NumberedObjs' = NumberedObjs
         /\ Second2' = Second2 /\ InFlow' = InFlow /\ Flow' = Flow /\ Parts' = Parts
         /\ LaidOut(plan.parts) => LaidOut(plan.parts)'
<1>1. HeldOnce => HeldOnce'
  BY DEF HeldOnce
<1>2. Free' = Free
  BY DEF Free
<1>3. First1' = First1 /\ Second2' = Second2
  BY DEF First1, Second2, Elements
<1>4. InFile' = InFile
  BY <1>3 DEF InFile
<1>5. NumberedObjs' = NumberedObjs
  BY <1>4 DEF NumberedObjs, InAny
<1>6. InFlow' = InFlow
  BY <1>4 DEF InFlow, Hint, Encryption
<1>7. Flow' = Flow /\ Parts' = Parts
  BY DEF Flow, Parts, FirstHalf, SecondHalf, OneIf, Hint, Encryption
<1>8. LaidOut(plan.parts) => LaidOut(plan.parts)'
  BY <1>2 DEF LaidOut
<1> QED
  BY <1>1, <1>2, <1>3, <1>4, <1>5, <1>6, <1>7, <1>8

LEMMA PlacesStay ==
  ASSUME HeldOnce, LaidOut(plan.parts), Elements(plan.parts.p6) # {},
         UNCHANGED <<doc, held, plan>>, NEW start \in Nat, NEW hint \in Nat
  PROVE  Ends0(start, hint)' = Ends0(start, hint)
<1> DEFINE f == Ends0(start, hint)'
<1>1. HeldOnce' /\ LaidOut(plan.parts)' /\ (Elements(plan.parts.p6) # {})' /\ Flow' = Flow
  BY LayoutStays DEF Elements
<1>2. EndsAre(Ends0(start, hint), start, hint)'
  <2>1. (\A s, t \in Nat : HeldOnce /\ LaidOut(plan.parts) /\ Elements(plan.parts.p6) # {} =>
          EndsAre(Ends0(s, t), s, t))'
    BY EndsOfAll, PTL
  <2> QED
    BY <1>1, <2>1
<1>3. EndsAre(f, start, hint)
  BY <1>1, <1>2 DEF EndsAre, SizeIn, Hint, Encryption
<1> HIDE DEF f
<1>4. f = Ends0(start, hint)
  BY <1>3, EndsAreOne
<1> QED
  BY <1>4 DEF f

-----------------------------------------------------------------------------
(* What each phase has left for those that follow it.                      *)
Working(phases) == cfg.linearize /\ phase \in phases

Route ==
  /\ cfg \in Config
  /\ phase \in {"parts", "number", "measure", "tables"} => cfg.linearize
  /\ phase = "enqueue" => ~cfg.linearize
  /\ phase \in {"config", "parts", "number", "measure", "tables"} =>
       front = 0 /\ now = None
  /\ phase # "config" /\ cfg.linearize => \A i \in DOMAIN doc.pages : held[doc.pages[i]] = None

Fit ==
  /\ LaidOut(plan.parts) /\ Len(doc.pages) > 0
  /\ doc.pages[1] \in Elements(plan.parts.p6)

Planned ==
  /\ phase = "config" => users = None
  /\ phase = "parts" => users = None \/ Uses(users)
  /\ Working({"number", "measure", "tables", "write", "done"}) => Fit

Ordered ==
  /\ OrderedBy
  /\ num = [o \in Objs |-> Id(o)]
  /\ queue = Parts
  /\ \A o \in InFile : ~HasLength(o)

InOrder == Working({"measure", "tables", "write", "done"}) => Ordered

Reckoned == Working({"tables", "write", "done"}) => Measured

Pointed ==
  /\ {"hintAt", "end6", "second", "page", "at"} \subseteq DOMAIN tables
  /\ tables.hintAt = Starts(Now)[Hint]
  /\ tables.end6 = End(Now, LastOf(plan.parts.p6))
  /\ tables.second = Finish(Now)
  /\ tables.page = num[doc.pages[1]]

Placed ==
  /\ Working({"write"}) => tables.at = [x \in FirstThings |-> Starts(Now)[x]]
  /\ Working({"done"}) => tables.at = Starts(Now)
  /\ Working({"write", "done"}) => Pointed

(* What is on the queue up to front is in the file, but for what is being  *)
(* written.                                                                *)
Copied ==
  /\ front \in 0..Len(queue)
  /\ now # None => /\ front \in DOMAIN queue
                   /\ now \in {queue[front]} \cup Members(queue[front])
                   /\ rest \subseteq Members(queue[front])
  /\ \A i \in DOMAIN queue : i < front \/ (i = front /\ now = None) =>
       num[queue[i]] \in DOMAIN file /\ file[num[queue[i]]].of = queue[i]

Progress ==
  /\ Working({"write", "done"}) => Copied
  /\ Working({"done"}) => front = Len(queue) /\ now = None

LInv == IInv /\ Route /\ Planned /\ InOrder /\ Reckoned /\ Placed /\ Progress

-----------------------------------------------------------------------------
LEMMA InvariantGivesHeld == ASSUME IInv PROVE HeldOnce
  BY DEF IInv, Types, WithStream, HeldOnce

LEMMA FitHasFirst == ASSUME Fit PROVE Elements(plan.parts.p6) # {}
  BY DEF Fit

LEMMA LInitInvariant == LInit => LInv
<1> SUFFICES ASSUME LInit PROVE LInv
  OBVIOUS
<1>1. IInv
  BY InitInvariant DEF LInit
<1>2. cfg = DefaultConfig /\ cfg \in Config /\ phase = "config" /\ ~cfg.linearize
  BY DEF LInit, Init, DefaultConfig, Config
<1>3. front = 0 /\ now = None /\ users = None
  BY DEF LInit, Init
<1> QED
  BY <1>1, <1>2, <1>3
  DEF LInv, Route, Planned, InOrder, Reckoned, Placed, Progress, Working

(* What is left stays as long as what it speaks of.                        *)
LEMMA FitStays == ASSUME UNCHANGED <<doc, held, plan>>, Fit PROVE Fit'
<1>1. LaidOut(plan.parts)'
  BY LayoutStays DEF Fit
<1> QED
  BY <1>1 DEF Fit, Elements

LEMMA OrderedStays ==
  ASSUME UNCHANGED <<doc, cfg, held, plan, order, num, queue>>, Ordered
  PROVE  Ordered'
<1>1. /\ InFile' = InFile /\ NumberedObjs' = NumberedObjs /\ Second2' = Second2
      /\ InFlow' = InFlow /\ Parts' = Parts
  BY LayoutStays
<1>2. OrderedBy'
  BY <1>1 DEF Ordered, OrderedBy, Others, LinDict, FirstXref, SecondXref, Encryption, Hint
<1>3. \A o : HasLength(o)' = HasLength(o)
  BY DEF HasLength, Members
<1>4. \A o : Id(o)' = Id(o)
  BY DEF Id
<1>5. (\A o \in InFile : ~HasLength(o))'
  BY <1>1, <1>3 DEF Ordered
<1>6. (num = [o \in Objs |-> Id(o)])'
  BY <1>4 DEF Ordered
<1> QED
  BY <1>1, <1>2, <1>5, <1>6 DEF Ordered

LEMMA TablesStay ==
  ASSUME HeldOnce, Fit, Measured, UNCHANGED <<doc, held, plan, order, pass1>>
  PROVE  /\ Measured' /\ Now' = Now
         /\ \A ends : Starts(ends)' = Starts(ends)
         /\ \A ends, x : End(ends, x)' = End(ends, x)
         /\ \A ends : Finish(ends)' = Finish(ends)
         /\ FirstThings' = FirstThings
<1>1. Flow' = Flow
  BY LayoutStays
<1>2. LaidOut(plan.parts) /\ Elements(plan.parts.p6) # {}
  BY FitHasFirst DEF Fit
<1>3. 0 \in Nat /\ pass1.start \in Nat /\ pass1.hint \in Nat
  BY DEF Measured
<1>4. First0' = First0 /\ Now' = Now
  <2>1. /\ Ends0(pass1.start, 0)' = Ends0(pass1.start, 0)
        /\ Ends0(pass1.start, pass1.hint)' = Ends0(pass1.start, pass1.hint)
    <3> DEFINE s == pass1.start
    <3> DEFINE t == pass1.hint
    <3>1. \A a, b \in Nat : Ends0(a, b)' = Ends0(a, b)
      BY <1>2, PlacesStay
    <3> QED
      BY <1>3, <3>1
  <2> QED
    BY <2>1 DEF First0, Now
<1>5. /\ \A ends : Starts(ends)' = Starts(ends)
      /\ \A ends, x : End(ends, x)' = End(ends, x)
      /\ \A ends : Finish(ends)' = Finish(ends)
  BY <1>1 DEF Starts, End, Finish
<1>6. Measured'
  BY <1>1, <1>4 DEF Measured, Starts, End, Finish
<1>7. FirstThings' = FirstThings
  BY DEF FirstThings, Id, LinDict
<1> QED
  BY <1>4, <1>5, <1>6, <1>7

-----------------------------------------------------------------------------
(* Each action.  First those of files that are not linearized.             *)
LEMMA StandardKeeps ==
  ASSUME IInv', Route, ~cfg.linearize, UNCHANGED <<cfg, doc, held>>,
         phase \in {"enqueue", "write"}, phase' \in {"enqueue", "write", "done"}
  PROVE  LInv'
<1>1. ~cfg'.linearize /\ cfg' \in Config
  BY DEF Route
<1> QED
  BY <1>1 DEF LInv, Route, Planned, InOrder, Reckoned, Placed, Progress, Working

LEMMA LSettingKeeps == ASSUME LInv, Setting, UNCHANGED linVars PROVE LInv'
<1>1. IInv'
  BY StepKeeps DEF LInv, Next
<1>2. /\ phase = "config" /\ phase' = "config" /\ front' = front /\ now' = now /\ rest' = rest
      /\ users' = users
  BY DEF Setting, outVars, linVars
<1>3. cfg' \in Config
  <2>1. cfg \in Config
    BY DEF LInv, Route
  <2>2. \A b \in BOOLEAN : /\ Qdf(cfg, b) \in Config /\ Linearize(cfg, b) \in Config
                           /\ [cfg EXCEPT !.unref = b] \in Config
                           /\ [cfg EXCEPT !.compress = b] \in Config
    BY <2>1 DEF Config, Qdf, Linearize
  <2>3. \A s \in {"disable", "preserve", "generate"} : [cfg EXCEPT !.streams = s] \in Config
    BY <2>1 DEF Config
  <2> QED
    BY <2>2, <2>3 DEF Setting
<1> QED
  BY <1>1, <1>2, <1>3
  DEF LInv, Route, Planned, InOrder, Reckoned, Placed, Progress, Working

LEMMA LSetupKeeps == ASSUME LInv, Setup, UNCHANGED linVars PROVE LInv'
<1>1. IInv'
  BY StepKeeps DEF LInv, Next, Work
<1>2. /\ phase = "config" /\ front' = front /\ now' = now /\ rest' = rest /\ doc' = doc
      /\ users' = users /\ users = None /\ front = 0 /\ now = None /\ cfg \in Config
  BY DEF Setup, outVars, linVars, LInv, Planned, Route
<1>3. CASE cfg.linearize
  <2>1. cfg' = Qdf(cfg, FALSE) /\ phase' = "parts"
    BY <1>3 DEF Setup
  <2>2. cfg' \in Config /\ cfg'.linearize
    BY <1>2, <1>3, <2>1 DEF Config, Qdf
  <2>3. \A i \in DOMAIN doc.pages : held'[doc.pages[i]] = None
    <3>1. held' = Freed[Chosen]
      BY DEF Setup
    <3>2. \A o \in KeptOut : o \in Objs => Freed[Chosen][o] = None
      <4>1. doc \in Docs
        BY DEF LInv, IInv, Types
      <4> QED
        BY <1>2, <4>1, EligibleIsSeq, ChosenAreEligible
    <3>3. \A i \in DOMAIN doc.pages : doc.pages[i] \in Objs /\ doc.pages[i] \in KeptOut
      BY <1>3, InvariantGivesHeld, DocIs DEF KeptOut, LInv
    <3> QED
      BY <3>1, <3>2, <3>3
  <2> QED
    BY <1>1, <1>2, <2>1, <2>2, <2>3
    DEF LInv, Route, Planned, InOrder, Reckoned, Placed, Progress, Working
<1>4. CASE ~cfg.linearize
  <2>1. cfg' = cfg /\ phase' = "enqueue"
    BY <1>4 DEF Setup
  <2> QED
    BY <1>1, <1>2, <1>4, <2>1
    DEF LInv, Route, Planned, InOrder, Reckoned, Placed, Progress, Working
<1> QED
  BY <1>3, <1>4

(* The parts.                                                              *)
LEMMA OptimizeKeeps == ASSUME LInv, Optimize PROVE LInv'
<1>1. UNCHANGED vars /\ phase = "parts" /\ users' = L!Used
  BY DEF Optimize
<1>2. IInv'
  BY <1>1, StepKeeps DEF LInv
<1>3. Uses(users)'
  <2>1. Uses(L!Used)
    BY InvariantGivesHeld, UsedIsUses DEF LInv
  <2>2. Free' = Free
    BY <1>1 DEF Free, vars, docVars
  <2> QED
    BY <1>1, <2>1, <2>2 DEF Uses, L!PageNos, L!Keys, vars, docVars
<1>4. Route'
  BY <1>1 DEF LInv, Route, vars, docVars, outVars
<1> QED
  BY <1>1, <1>2, <1>3, <1>4
  DEF LInv, Planned, InOrder, Reckoned, Placed, Progress, Working, vars

LEMMA PlanPartsKeeps == ASSUME LInv, PlanParts PROVE LInv'
<1>1. /\ UNCHANGED <<docVars, num, next, front, now, rest, text>>
      /\ phase = "parts" /\ plan' = L!Plan(users) /\ phase' \in {"number", "failed"}
      /\ phase' = "number" => L!Plan(users).ok
      /\ users # None
  BY DEF PlanParts, numVars, outVars
<1>2. IInv'
  <2>1. text' \in Seq(Int)
    BY <1>1 DEF LInv, IInv, Written
  <2> QED
    BY <1>1, <2>1, QuietKeeps DEF LInv
<1>3. ASSUME phase' = "number" PROVE Fit'
  <2>1. HeldOnce /\ Uses(users)
    BY <1>1, InvariantGivesHeld DEF LInv, Planned
  <2>2. /\ LaidOut(L!Plan(users).parts) /\ Len(doc.pages) > 0
        /\ L!Holder(doc.pages[1]) \in Elements(L!Plan(users).parts.p6)
    BY <1>1, <1>3, <2>1, PlanIsLaidOut
  <2>3. L!Holder(doc.pages[1]) = doc.pages[1]
    <3>1. 1 \in DOMAIN doc.pages
      BY <2>1, <2>2, DocIs
    <3>2. held[doc.pages[1]] = None
      BY <1>1, <3>1 DEF LInv, Route
    <3> QED
      BY <3>2 DEF L!Holder
  <2>4. Free' = Free
    BY <1>1 DEF Free, docVars
  <2>5. LaidOut(plan.parts)'
    BY <1>1, <2>2, <2>4 DEF LaidOut
  <2> QED
    BY <1>1, <2>2, <2>3, <2>5 DEF Fit, docVars
<1>4. Route'
  BY <1>1 DEF LInv, Route, docVars
<1> QED
  BY <1>1, <1>2, <1>3, <1>4
  DEF LInv, Planned, InOrder, Reckoned, Placed, Progress, Working

(* The numbers.                                                            *)
LEMMA NumbersAreOrdered ==
  ASSUME LInv, Fit
  PROVE  /\ Lists(NumberOrder, Elements(NumberOrder))
         /\ Elements(NumberOrder) \cap Objs = NumberedObjs
         /\ Elements(NumberOrder) \subseteq Objs \cup Others
         /\ InFlow \subseteq Elements(NumberOrder)
         /\ \E m \in DOMAIN NumberOrder :
              /\ NumberOrder[m] = LinDict
              /\ \A x \in Second2 : \E i \in DOMAIN NumberOrder : NumberOrder[i] = x /\ i < m
<1>1. HeldOnce /\ LaidOut(plan.parts)
  BY InvariantGivesHeld DEF LInv, Fit
<1>2. PICK S : /\ Lists(NumberOrder, S)
               /\ S \cap Objs = NumberedObjs /\ S \subseteq Objs \cup Others
               /\ InFlow \subseteq S
               /\ \E m \in DOMAIN NumberOrder :
                    /\ NumberOrder[m] = LinDict
                    /\ \A x \in Second2 : \E i \in DOMAIN NumberOrder :
                         NumberOrder[i] = x /\ i < m
  BY <1>1, OrderIs
<1>3. Elements(NumberOrder) = S
  BY <1>2, ListsElements
<1> QED
  BY <1>2, <1>3

LEMMA NumberKeeps == ASSUME LInv, Number PROVE LInv'
<1>1. /\ phase = "number" /\ UNCHANGED <<docVars, plan, front, now, rest, text, users>>
  BY DEF Number, outVars
<1>2. HeldOnce /\ Fit /\ cfg.linearize
  BY <1>1, InvariantGivesHeld DEF LInv, Route, Planned, Working
<1>3. Lists(Parts, InFile) /\ InFile \subseteq Free /\ Free \subseteq Objs /\ None \notin Objs
  BY <1>2, Halves, DocIs DEF InFile, Fit
<1>4. CASE \E i \in DOMAIN Parts : HasLength(Parts[i])
  <2>1. phase' = "failed" /\ UNCHANGED <<num, next>>
    BY <1>4 DEF Number, numVars
  <2>2. IInv'
    <3>1. text' \in Seq(Int)
      BY <1>1 DEF LInv, IInv, Written
    <3> QED
      BY <1>1, <2>1, <3>1, QuietKeeps DEF LInv
  <2>3. Route'
    BY <1>1, <2>1 DEF LInv, Route, docVars
  <2> QED
    BY <2>1, <2>2, <2>3
    DEF LInv, Planned, InOrder, Reckoned, Placed, Progress, Working
<1>5. CASE ~\E i \in DOMAIN Parts : HasLength(Parts[i])
  <2>1. /\ phase' = "measure" /\ order' = NumberOrder
        /\ num' = [o \in Objs |-> IdOf(o, order')]
        /\ next' = Len(order') + 1 /\ queue' = Parts
    BY <1>5 DEF Number
  <2>2. \A o \in InFile : ~HasLength(o)
    BY <1>3, <1>5 DEF Lists
  <2>3. /\ Lists(order', Elements(order'))
        /\ Elements(order') \cap Objs = NumberedObjs
        /\ Elements(order') \subseteq Objs \cup Others
        /\ InFlow \subseteq Elements(order')
        /\ \E m \in DOMAIN order' :
             /\ order'[m] = LinDict
             /\ \A x \in Second2 : \E i \in DOMAIN order' : order'[i] = x /\ i < m
    BY <1>2, <2>1, NumbersAreOrdered
  <2>4. /\ Len(order') \in Nat /\ DOMAIN order' = 1..Len(order')
        /\ \A x \in Elements(order') : IdOf(x, order') \in DOMAIN order'
                                       /\ order'[IdOf(x, order')] = x
        /\ \A x : x \notin Elements(order') => IdOf(x, order') = 0
    BY <2>3, IdOfLists
  <2>5. \A o \in Objs : /\ num'[o] \in 0..Len(order')
                        /\ num'[o] # 0 <=> o \in NumberedObjs
                        /\ num'[o] # 0 => order'[num'[o]] = o
    BY <2>1, <2>3, <2>4
  <2>6. \A o \in Objs : held[o] = None /\ num'[o] # 0 => ~HasLength(o)
    BY <1>3, <2>2, <2>5 DEF NumberedObjs, InAny
  <2>7. \A o \in Objs : HasLength(o)' = HasLength(o)
    BY <1>1 DEF HasLength, docVars, Members
  <2>8. IInv'
    <3>1. Types'
      <4>1. num' \in [Objs -> Nat]
        BY <2>1, <2>4, <2>5
      <4>2. next' \in Nat \ {0}
        BY <2>1, <2>4
      <4> QED
        BY <1>1, <4>1, <4>2 DEF LInv, IInv, Types, docVars
    <3>2. WithStream'
      <4> SUFFICES ASSUME NEW o \in Objs, held[o] # None
                   PROVE  held[held[o]] = None /\ (num'[held[o]] # 0 => num'[o] # 0)
        BY <1>1 DEF WithStream, docVars
      <4>1. held[held[o]] = None /\ held[o] \in Objs
        BY <1>2 DEF HeldOnce
      <4>2. ASSUME num'[held[o]] # 0 PROVE num'[o] # 0
        <5>1. held[o] \in NumberedObjs
          BY <2>5, <4>1, <4>2
        <5>2. held[o] \in InFile
          BY <1>3, <4>1, <5>1 DEF NumberedObjs, InAny
        <5>3. o \in NumberedObjs
          BY <5>2 DEF NumberedObjs, InAny
        <5> QED
          BY <2>5, <5>3
      <4> QED
        BY <4>1, <4>2
    <3>3. Below'
      <4> SUFFICES ASSUME NEW o \in Objs
                   PROVE  num'[o] < next' /\ ~(num'[o] # 0 /\ HasLength(o) /\ held[o] = None)
        BY <1>1, <2>7 DEF Below, docVars
      <4> QED
        BY <2>1, <2>4, <2>5, <2>6
    <3>4. Different'
      <4> SUFFICES ASSUME NEW o \in Objs, NEW p \in Objs, num'[o] # 0, num'[p] # 0
                   PROVE  /\ o # p => num'[o] # num'[p]
                          /\ ~(HasLength(o) /\ held[o] = None)
        BY <1>1, <2>7 DEF Different, docVars
      <4> QED
        BY <2>5, <2>6
    <3>5. Fresh' /\ Written'
      BY <1>1, <2>1 DEF Fresh, LInv, IInv, Written
    <3> QED
      BY <3>1, <3>2, <3>3, <3>4, <3>5 DEF IInv
  <2>9. /\ InFile' = InFile /\ NumberedObjs' = NumberedObjs /\ Second2' = Second2
        /\ InFlow' = InFlow /\ Parts' = Parts
    BY <1>1, LayoutStays DEF docVars
  <2>10. OrderedBy'
    BY <2>3, <2>9 DEF OrderedBy, Others, LinDict, FirstXref, SecondXref, Encryption, Hint
  <2>11. (num = [o \in Objs |-> Id(o)])'
    BY <2>1 DEF Id
  <2>12. Ordered'
    BY <2>1, <2>2, <2>3, <2>7, <2>9, <2>10, <2>11, <1>3 DEF Ordered
  <2>13. Fit'
    BY <1>1, <1>2, FitStays DEF docVars
  <2>14. Route'
    BY <1>1, <1>2, <2>1 DEF LInv, Route, docVars
  <2> QED
    BY <2>1, <2>8, <2>12, <2>13, <2>14
    DEF LInv, Planned, InOrder, Reckoned, Placed, Progress, Working
<1> QED
  BY <1>4, <1>5

LEMMA CountsAre ==
  ASSUME OrderedBy
  PROVE  /\ Len(order) \in Nat /\ FirstCount \in Nat /\ FirstCount # 0
         /\ SecondCount \in Nat /\ SecondCount # 0
<1>1. Len(order) \in Nat /\ DOMAIN order = 1..Len(order)
  BY IdOfLists DEF OrderedBy
<1>2. Id(LinDict) \in 1..Len(order)
  <2>1. LinDict \in Elements(order)
    BY DEF OrderedBy, Elements
  <2> QED
    BY <1>1, <2>1, IdOfLists DEF OrderedBy, Id
<1> QED
  BY <1>1, <1>2 DEF FirstCount, SecondCount

(* The room that the first pass leaves for the table in front is a number. *)
LEMMA StartIsNumber ==
  ASSUME HeldOnce, Fit, Ordered
  PROVE  LET xref1 == StreamSize(Rows(FirstCount, 2 ^ 25))
         IN FirstXrefAt + (IF AnyHeld THEN xref1 + Padding(xref1) + 1
                           ELSE TableSize(FirstCount)) \in Nat
<1> DEFINE rows == Rows(FirstCount, 2 ^ 25)
<1> DEFINE xref1 == StreamSize(rows)
<1>1. FirstCount \in Nat
  BY CountsAre DEF Ordered
<1>2. rows \in Nat
  <2> DEFINE b == FieldSize(2 ^ 25)
  <2>1. b \in Nat
    <3>1. 2 ^ 25 \in Nat /\ Len(order) \in Nat
      BY IdOfLists DEF Ordered, OrderedBy
    <3>2. BytesNeeded[2 ^ 25] \in Nat /\ BytesNeeded[Len(order)] \in Nat
      BY <3>1, BytesAre DEF Counts
    <3> QED
      BY <3>2 DEF FieldSize, Larger
  <2> DEFINE c == IF cfg.compress THEN 1 ELSE 0
  <2> DEFINE w == 1 + b + 1 + c
  <2>2. c \in Nat
    OBVIOUS
  <2> HIDE DEF b, c
  <2>3. w \in Nat
    BY <2>1, <2>2
  <2> HIDE DEF w
  <2> DEFINE k == FirstCount
  <2>4. rows = k * w
    BY DEF Rows, w, c, b
  <2>5. k \in Nat
    BY <1>1
  <2> HIDE DEF k, rows
  <2>6. k * w \in Nat
    BY <2>3, <2>5
  <2> QED
    BY <2>4, <2>6
<1> HIDE DEF rows
<1>3. xref1 \in Nat
  <2>1. Digits[rows] \in Nat
    BY <1>2, DigitsAre DEF Counts
  <2> QED
    BY <1>2, <2>1 DEF StreamSize
<1> HIDE DEF xref1
<1>4. Padding(xref1) \in Nat
  <2> DEFINE q == (xref1 + 16384 - 1) \div 16384
  <2>1. q \in Nat
    BY <1>3
  <2> HIDE DEF q
  <2>2. Padding(xref1) = 16 + 5 * q
    BY DEF Padding, CeilDiv, q
  <2> QED
    BY <2>1, <2>2
<1>5. FirstXrefAt \in Nat /\ TableSize(FirstCount) \in Nat
  BY <1>1 DEF FirstXrefAt, Header, TableSize
<1> QED
  BY <1>3, <1>4, <1>5 DEF xref1, rows

(* The first pass.                                                         *)
LEMMA MeasureKeeps == ASSUME LInv, Measure PROVE LInv'
<1>1. /\ phase = "measure" /\ phase' = "tables"
      /\ UNCHANGED <<docVars, num, next, queue, front, now, rest, text, users, plan, order>>
  BY DEF Measure, numVars, outVars
<1>2. HeldOnce /\ Fit /\ Ordered /\ cfg.linearize
  BY <1>1, InvariantGivesHeld DEF LInv, Route, Planned, InOrder, Working
<1>3. IInv'
  <2>1. text' \in Seq(Int)
    BY <1>1 DEF LInv, IInv, Written
  <2> QED
    BY <1>1, <2>1, QuietKeeps DEF LInv
<1>4. Fit' /\ Ordered'
  BY <1>1, <1>2, FitStays, OrderedStays DEF docVars
<1>5. Measured'
  <2>1. PICK start \in Nat, hint \in Hints :
          /\ pass1'.start = start /\ pass1'.hint = hint
          /\ pass1'.at = Starts(Ends0(start, 0))
          /\ pass1'.second = Finish(Ends0(start, 0))
          /\ pass1'.end6 = End(Ends0(start, 0), LastOf(plan.parts.p6))
    <3> DEFINE xref1 == StreamSize(Rows(FirstCount, 2 ^ 25))
    <3> DEFINE begin == FirstXrefAt + (IF AnyHeld THEN xref1 + Padding(xref1) + 1
                                       ELSE TableSize(FirstCount))
    <3>1. \E hint \in Hints :
            /\ pass1'.start = begin /\ pass1'.hint = hint
            /\ pass1'.at = Starts(Ends0(begin, 0))
            /\ pass1'.second = Finish(Ends0(begin, 0))
            /\ pass1'.end6 = End(Ends0(begin, 0), LastOf(plan.parts.p6))
      BY DEF Measure
    <3>2. begin \in Nat
      BY <1>2, StartIsNumber
    <3> HIDE DEF begin
    <3> QED
      BY <3>1, <3>2
  <2>2. start \in Nat /\ 0 \in Nat /\ hint \in Nat
    BY LinearizerAssumption
  <2>3. Ends0(start, 0)' = Ends0(start, 0)
    <3>1. LaidOut(plan.parts) /\ Elements(plan.parts.p6) # {}
      BY <1>2, FitHasFirst DEF Fit
    <3>2. UNCHANGED <<doc, held, plan>>
      BY <1>1 DEF docVars
    <3>3. \A a, b \in Nat : Ends0(a, b)' = Ends0(a, b)
      BY <1>2, <3>1, <3>2, PlacesStay
    <3> QED
      BY <2>2, <3>3
  <2>4. First0' = Ends0(start, 0)
    BY <2>1, <2>3 DEF First0
  <2>5. Flow' = Flow
    BY <1>1, LayoutStays DEF docVars
  <2> QED
    BY <1>1, <2>1, <2>2, <2>4, <2>5 DEF Measured, Starts, End, Finish
<1>6. Route'
  BY <1>1, <1>2 DEF LInv, Route, docVars
<1> QED
  BY <1>1, <1>3, <1>4, <1>5, <1>6
  DEF LInv, Planned, InOrder, Reckoned, Placed, Progress, Working

(* The first table of the second pass, with all that is written before     *)
(* what it points to.                                                      *)
LEMMA WriteFirstTableKeeps == ASSUME LInv, WriteFirstTable PROVE LInv'
<1>1. /\ phase = "tables" /\ phase' \in {"write", "failed"}
      /\ UNCHANGED <<docVars, num, next, queue, front, now, rest, text, users, plan, order, pass1>>
  BY DEF WriteFirstTable, numVars, outVars
<1>2. /\ HeldOnce /\ Fit /\ Ordered /\ Measured /\ cfg.linearize
      /\ front = 0 /\ now = None
  BY <1>1, InvariantGivesHeld DEF LInv, Route, Planned, InOrder, Reckoned, Working
<1>3. IInv'
  <2>1. text' \in Seq(Int)
    BY <1>1 DEF LInv, IInv, Written
  <2> QED
    BY <1>1, <2>1, QuietKeeps DEF LInv
<1>4. Fit' /\ Ordered'
  BY <1>1, <1>2, FitStays, OrderedStays DEF docVars
<1>5. /\ Measured' /\ Now' = Now /\ FirstThings' = FirstThings
      /\ \A ends : Starts(ends)' = Starts(ends)
      /\ \A ends, x : End(ends, x)' = End(ends, x)
      /\ \A ends : Finish(ends)' = Finish(ends)
  BY <1>1, <1>2, TablesStay DEF docVars
<1>6. LaidOut(plan.parts) /\ Elements(plan.parts.p6) # {} /\ OrderedBy
  BY <1>2, FitHasFirst DEF Fit, Ordered
<1> DEFINE last == LastOf(plan.parts.p6)
<1> DEFINE max == pass1.at[last] + pass1.hint
<1>7. /\ tables'.hintAt = pass1.at[Hint] /\ tables'.end6 = pass1.end6 + pass1.hint
      /\ tables'.second = pass1.second + pass1.hint /\ tables'.page = num[doc.pages[1]]
      /\ tables'.at = [x \in FirstThings |-> InTable(Moved(x), max)]
      /\ {"hintAt", "end6", "second", "page", "at"} \subseteq DOMAIN tables'
  BY DEF WriteFirstTable
<1>8. tables'.at = [x \in FirstThings |-> Starts(Now)[x]]
  <2>1. \A x \in FirstThings : InTable(Moved(x), max) = Starts(Now)[x]
    BY <1>2, <1>6, FieldsFit
  <2> HIDE DEF max
  <2> QED
    BY <1>7, <2>1
<1>9. /\ tables'.hintAt = Starts(Now)[Hint] /\ tables'.end6 = End(Now, last)
      /\ tables'.second = Finish(Now)
  BY <1>2, <1>6, <1>7, SecondPass
<1>10. Placed'
  <2>1. Pointed'
    <3>1. num'[doc'.pages[1]] = num[doc.pages[1]] /\ LastOf(plan'.parts.p6) = last
      BY <1>1 DEF docVars
    <3>2. /\ Starts(Now)' = Starts(Now) /\ Finish(Now)' = Finish(Now)
          /\ End(Now, LastOf(plan.parts.p6))' = End(Now, last)
      BY <1>1, <1>5
    <3> QED
      BY <1>7, <1>9, <3>1, <3>2 DEF Pointed, Hint
  <2>2. (tables.at = [x \in FirstThings |-> Starts(Now)[x]])'
    BY <1>5, <1>8
  <2> QED
    BY <1>1, <2>1, <2>2 DEF Placed, Working
<1>11. Copied'
  <2>1. front' = 0 /\ now' = None /\ queue' = queue
    BY <1>1, <1>2
  <2>2. queue \in Seq(InFile)
    BY <1>2, <1>6, Halves DEF Ordered, Lists, InFile
  <2> QED
    BY <2>1, <2>2 DEF Copied
<1>12. Route'
  BY <1>1, <1>2 DEF LInv, Route, docVars
<1> QED
  BY <1>1, <1>3, <1>4, <1>5, <1>10, <1>11, <1>12
  DEF LInv, Planned, InOrder, Reckoned, Progress, Working

(* The writing of the objects.                                             *)
LEMMA WritingKeeps ==
  ASSUME LInv, IInv', Copied', cfg.linearize, phase = "write", phase' = "write",
         UNCHANGED <<docVars, num, queue, plan, order, pass1, tables>>
  PROVE  LInv'
<1>1. HeldOnce /\ Fit /\ Ordered /\ Measured
  BY InvariantGivesHeld DEF LInv, Planned, InOrder, Reckoned, Working
<1>2. Fit' /\ Ordered'
  BY <1>1, FitStays, OrderedStays DEF docVars
<1>3. /\ Measured' /\ Now' = Now /\ FirstThings' = FirstThings
      /\ \A ends : Starts(ends)' = Starts(ends)
      /\ \A ends, x : End(ends, x)' = End(ends, x)
      /\ \A ends : Finish(ends)' = Finish(ends)
  BY <1>1, TablesStay DEF docVars
<1>4. Placed'
  <2>1. tables.at = [x \in FirstThings |-> Starts(Now)[x]] /\ Pointed
    BY DEF LInv, Placed, Working
  <2>2. /\ Starts(Now)' = Starts(Now) /\ Finish(Now)' = Finish(Now)
        /\ End(Now, LastOf(plan.parts.p6))' = End(Now, LastOf(plan.parts.p6))
    BY <1>3
  <2>3. Pointed'
    BY <2>1, <2>2 DEF Pointed, Hint, docVars
  <2>4. (tables.at = [x \in FirstThings |-> Starts(Now)[x]])'
    BY <1>3, <2>1, <2>2
  <2> QED
    BY <2>3, <2>4 DEF Placed, Working
<1>5. Route'
  BY DEF LInv, Route, docVars
<1> QED
  BY <1>2, <1>3, <1>4, <1>5
  DEF LInv, Planned, InOrder, Reckoned, Progress, Working

(* What is on the queue has a number of its own, and no length.            *)
LEMMA QueueIs ==
  ASSUME LInv, Fit, Ordered
  PROVE  /\ Len(queue) \in Nat /\ DOMAIN queue = 1..Len(queue)
         /\ \A i, j \in DOMAIN queue : queue[i] = queue[j] => i = j
         /\ \A i \in DOMAIN queue : /\ queue[i] \in Objs /\ held[queue[i]] = None
                                    /\ num[queue[i]] # 0 /\ ~HasLength(queue[i])
                                    /\ \A o \in Members(queue[i]) : o \in Objs /\ num[o] # 0
         /\ \A o, p \in Objs : num[o] # 0 /\ num[p] # 0 /\ o # p => num[o] # num[p]
         /\ \A o \in Objs : num[o] \in 0..Len(order)
         /\ \A x \in First1 : \E i \in DOMAIN queue : queue[i] = x
<1>1. HeldOnce /\ LaidOut(plan.parts)
  BY InvariantGivesHeld DEF LInv, Fit
<1>2. Lists(queue, InFile) /\ InFile \subseteq Free
  BY <1>1, Halves DEF Ordered, InFile
<1>3. /\ Len(queue) \in Nat /\ DOMAIN queue = 1..Len(queue)
      /\ \A i, j \in DOMAIN queue : queue[i] = queue[j] => i = j
      /\ \A i \in DOMAIN queue : queue[i] \in InFile
      /\ \A x \in InFile : \E i \in DOMAIN queue : queue[i] = x
  BY <1>2 DEF Lists
<1>4. /\ Len(order) \in Nat /\ DOMAIN order = 1..Len(order)
      /\ \A x \in Elements(order) : IdOf(x, order) \in DOMAIN order
      /\ \A x : x \notin Elements(order) => IdOf(x, order) = 0
      /\ Elements(order) \cap Objs = NumberedObjs
  BY IdOfLists DEF Ordered, OrderedBy
<1>5. \A o \in Objs : num[o] \in 0..Len(order) /\ (o \in NumberedObjs => num[o] # 0)
  BY <1>4 DEF Ordered, Id
<1>6. ASSUME NEW i \in DOMAIN queue
      PROVE  /\ queue[i] \in Objs /\ held[queue[i]] = None
             /\ num[queue[i]] # 0 /\ ~HasLength(queue[i])
             /\ \A o \in Members(queue[i]) : o \in Objs /\ num[o] # 0
  <2>1. queue[i] \in InFile /\ queue[i] \in Objs /\ held[queue[i]] = None
    BY <1>2, <1>3 DEF Free
  <2>2. ~HasLength(queue[i])
    BY <2>1 DEF Ordered
  <2>3. queue[i] \in NumberedObjs
    BY <2>1 DEF NumberedObjs
  <2>4. \A o \in Members(queue[i]) : o \in Objs /\ o \in NumberedObjs
    BY <2>1 DEF Members, NumberedObjs, InAny
  <2> QED
    BY <1>5, <2>1, <2>2, <2>3, <2>4
<1>7. \A o, p \in Objs : num[o] # 0 /\ num[p] # 0 /\ o # p => num[o] # num[p]
  BY DEF LInv, IInv, Different
<1> QED
  BY <1>3, <1>5, <1>6, <1>7 DEF InFile

LEMMA LWriteNextKeeps == ASSUME LInv, WriteNext, UNCHANGED linVars PROVE LInv'
<1>1. IInv'
  BY StepKeeps DEF LInv, Next, Work
<1>2. /\ phase = "write" /\ phase' = "write" /\ now = None /\ front < Len(queue)
      /\ front' = front + 1 /\ rest' = Members(queue[front + 1])
      /\ now' = IF rest' = {} THEN queue[front + 1] ELSE First(rest')
      /\ UNCHANGED <<docVars, num, queue, file, plan, order, pass1, tables>>
  BY DEF WriteNext, linVars, numVars
<1>3. CASE ~cfg.linearize
  BY <1>1, <1>2, <1>3, StandardKeeps DEF LInv, docVars
<1>4. CASE cfg.linearize
  <2>1. Fit /\ Ordered /\ Copied
    BY <1>2, <1>4 DEF LInv, Planned, InOrder, Progress, Working
  <2>2. /\ Len(queue) \in Nat /\ DOMAIN queue = 1..Len(queue) /\ front \in 0..Len(queue)
        /\ \A i \in DOMAIN queue : queue[i] \in Objs
    BY <2>1, QueueIs DEF Copied
  <2>3. front + 1 \in DOMAIN queue /\ front + 1 \in 0..Len(queue)
    BY <1>2, <2>2
  <2>4. now' \in {queue[front + 1]} \cup Members(queue[front + 1])
    <3>1. rest' # {} => First(rest') \in rest'
      <4>1. rest' \subseteq Objs
        BY <1>2 DEF Members
      <4> QED
        BY <4>1, FirstIsIn
    <3> QED
      BY <1>2, <3>1
  <2>5. now' # None
    <3>1. None \notin Objs
      BY ConstantsAssumption
    <3> QED
      BY <2>2, <2>3, <2>4, <3>1 DEF Members
  <2>6. Members(queue[front])' = Members(queue[front + 1])
    BY <1>2 DEF Members, docVars
  <2>7. \A i \in DOMAIN queue : i < front' => i < front \/ (i = front /\ now = None)
    BY <1>2, <2>2
  <2>8. Copied'
    BY <1>2, <2>1, <2>2, <2>3, <2>4, <2>5, <2>6, <2>7 DEF Copied
  <2> QED
    BY <1>1, <1>2, <1>4, <2>8, WritingKeeps
<1> QED
  BY <1>3, <1>4

LEMMA LUnparseChildKeeps == ASSUME LInv, UnparseChild, UNCHANGED linVars PROVE LInv'
<1>1. IInv'
  BY StepKeeps DEF LInv, Next, Work
<1>2. /\ phase = "write" /\ phase' = "write"
      /\ cfg.linearize => UNCHANGED numVars
      /\ UNCHANGED <<docVars, front, rest, now, file, plan, order, pass1, tables>>
  BY DEF UnparseChild, linVars
<1>3. CASE ~cfg.linearize
  BY <1>1, <1>2, <1>3, StandardKeeps DEF LInv, docVars
<1>4. CASE cfg.linearize
  <2>1. Copied /\ UNCHANGED <<num, queue>>
    BY <1>2, <1>4 DEF LInv, Progress, Working, numVars
  <2>2. \A s : Members(s)' = Members(s)
    BY <1>2 DEF Members, docVars
  <2>3. Copied'
    BY <1>2, <2>1, <2>2 DEF Copied
  <2> QED
    BY <1>1, <1>2, <1>4, <2>1, <2>3, WritingKeeps
<1> QED
  BY <1>3, <1>4

LEMMA LCloseObjectKeeps == ASSUME LInv, CloseObject, UNCHANGED linVars PROVE LInv'
<1>1. IInv'
  BY StepKeeps DEF LInv, Next, Work
<1>2. /\ phase = "write" /\ phase' = "write" /\ now # None
      /\ rest' = rest \ {now}
      /\ now' = IF now = Current THEN None ELSE IF rest' = {} THEN Current ELSE First(rest')
      /\ UNCHANGED <<docVars, num, queue, front, plan, order, pass1, tables>>
  BY DEF CloseObject, linVars, numVars
<1>3. CASE ~cfg.linearize
  BY <1>1, <1>2, <1>3, StandardKeeps DEF LInv, docVars
<1>4. CASE cfg.linearize
  <2>1. Fit /\ Ordered /\ Copied
    BY <1>2, <1>4 DEF LInv, Planned, InOrder, Progress, Working
  <2>2. /\ Len(queue) \in Nat /\ DOMAIN queue = 1..Len(queue)
        /\ \A i, j \in DOMAIN queue : queue[i] = queue[j] => i = j
        /\ \A i \in DOMAIN queue : /\ queue[i] \in Objs /\ held[queue[i]] = None
                                   /\ num[queue[i]] # 0 /\ ~HasLength(queue[i])
                                   /\ \A o \in Members(queue[i]) : o \in Objs /\ num[o] # 0
        /\ \A o, p \in Objs : num[o] # 0 /\ num[p] # 0 /\ o # p => num[o] # num[p]
    BY <2>1, QueueIs
  <2>3. /\ front \in 0..Len(queue) /\ front \in DOMAIN queue
        /\ now \in {Current} \cup Members(Current) /\ rest \subseteq Members(Current)
        /\ \A i \in DOMAIN queue : i < front =>
             num[queue[i]] \in DOMAIN file /\ file[num[queue[i]]].of = queue[i]
    BY <1>2, <2>1 DEF Copied, Current
  <2>4. /\ Current \in Objs /\ held[Current] = None
        /\ \A o \in Members(Current) : o \in Objs /\ num[o] # 0 /\ held[o] = Current
    BY <2>2, <2>3 DEF Current, Members
  <2>5. now \in Objs /\ num[now] # 0 /\ None \notin Objs
    BY <2>2, <2>3, <2>4, ConstantsAssumption DEF Current
  <2>6. file' = Put(file, num[now], Item)
    <3>1. ~(HasLength(now) /\ held[now] = None)
      BY <2>2, <2>3, <2>4, <2>5 DEF Current
    <3> QED
      BY <3>1 DEF CloseObject
  <2>7. /\ DOMAIN file' = DOMAIN file \cup {num[now]}
        /\ file'[num[now]].of = now
        /\ \A m \in DOMAIN file : m # num[now] => file'[m] = file[m]
    BY <2>6 DEF Put, Item
  <2>8. ASSUME NEW i \in DOMAIN queue, i < front \/ (i = front /\ now' = None)
        PROVE  num[queue[i]] \in DOMAIN file' /\ file'[num[queue[i]]].of = queue[i]
    <3>1. CASE i < front
      <4>1. queue[i] # now
        <5>1. queue[i] # Current
          BY <2>2, <2>3, <3>1 DEF Current
        <5>2. \A o \in Members(Current) : held[o] # None
          BY <2>4, <2>5
        <5> QED
          BY <2>2, <2>3, <5>1, <5>2
      <4>2. num[queue[i]] # num[now]
        BY <2>2, <2>5, <4>1
      <4> QED
        BY <2>3, <2>7, <3>1, <4>2
    <3>2. CASE i = front /\ now' = None
      <4>1. now = Current
        <5>1. SUFFICES ASSUME now # Current PROVE now' # None
          BY <3>2
        <5>2. rest' \subseteq Members(Current) /\ Members(Current) \subseteq Objs
          BY <1>2, <2>3, <2>4
        <5>3. rest' # {} => First(rest') \in rest'
          BY <5>2, FirstIsIn
        <5> QED
          BY <1>2, <2>4, <2>5, <5>1, <5>2, <5>3
      <4> QED
        BY <2>7, <3>2, <4>1 DEF Current
    <3> QED
      BY <2>8, <3>1, <3>2
  <2>9. now' # None => now' \in {Current} \cup Members(Current)
    <3>1. rest' \subseteq Members(Current) /\ Members(Current) \subseteq Objs
      BY <1>2, <2>3, <2>4
    <3>2. rest' # {} => First(rest') \in rest'
      BY <3>1, FirstIsIn
    <3> QED
      BY <1>2, <3>1, <3>2
  <2>10. \A s : Members(s)' = Members(s)
    BY <1>2 DEF Members, docVars
  <2>11. Copied'
    BY <1>2, <2>3, <2>8, <2>9, <2>10 DEF Copied, Current
  <2> QED
    BY <1>1, <1>2, <1>4, <2>11, WritingKeeps
<1> QED
  BY <1>3, <1>4

(* The end.                                                                *)
LEMMA LCloseFileKeeps == ASSUME LInv, CloseFile, UNCHANGED linVars PROVE LInv'
<1>1. IInv'
  BY StepKeeps DEF LInv, Next, Work
<1>2. /\ phase = "write" /\ phase' = "done" /\ ~cfg.linearize /\ UNCHANGED docVars
  BY DEF CloseFile
<1> QED
  BY <1>1, <1>2, StandardKeeps DEF LInv, docVars

LEMMA WriteSecondTableKeeps == ASSUME LInv, WriteSecondTable PROVE LInv'
<1>1. /\ phase = "write" /\ cfg.linearize /\ now = None /\ front = Len(queue)
      /\ phase' \in {"done", "failed"}
      /\ UNCHANGED <<docVars, num, next, queue, front, rest, now, text, users, plan, order, pass1>>
  BY DEF WriteSecondTable, numVars
<1>2. /\ HeldOnce /\ Fit /\ Ordered /\ Measured /\ Copied /\ Pointed
      /\ tables.at = [x \in FirstThings |-> Starts(Now)[x]]
  BY <1>1, InvariantGivesHeld
  DEF LInv, Planned, InOrder, Reckoned, Placed, Progress, Working
<1>3. IInv'
  <2>1. text' \in Seq(Int)
    BY <1>1 DEF LInv, IInv, Written
  <2> QED
    BY <1>1, <2>1, QuietKeeps DEF LInv
<1>4. Fit' /\ Ordered'
  BY <1>1, <1>2, FitStays, OrderedStays DEF docVars
<1>5. /\ Measured' /\ Now' = Now /\ FirstThings' = FirstThings
      /\ \A ends : Starts(ends)' = Starts(ends)
      /\ \A ends, x : End(ends, x)' = End(ends, x)
      /\ \A ends : Finish(ends)' = Finish(ends)
  BY <1>1, <1>2, TablesStay DEF docVars
<1>6. LaidOut(plan.parts) /\ Elements(plan.parts.p6) # {} /\ OrderedBy
  BY <1>2, FitHasFirst DEF Fit, Ordered
<1>7. tables' = [tables EXCEPT !.at =
        [x \in DOMAIN Starts(Now) |->
           IF x \in FirstThings THEN @[x] ELSE InTable(Starts(Now)[x], Finish(Now))]]
  BY DEF WriteSecondTable
<1>8. /\ tables'.at = Starts(Now) /\ DOMAIN tables' = DOMAIN tables
      /\ tables'.hintAt = tables.hintAt /\ tables'.end6 = tables.end6
      /\ tables'.second = tables.second /\ tables'.page = tables.page
  <2> DEFINE at == [x \in DOMAIN Starts(Now) |->
                      IF x \in FirstThings THEN tables.at[x]
                      ELSE InTable(Starts(Now)[x], Finish(Now))]
  <2>1. DOMAIN Starts(Now) = InFlow
    BY <1>2, <1>6, SecondPass
  <2>2. \A x \in InFlow : InTable(Starts(Now)[x], Finish(Now)) = Starts(Now)[x]
    BY <1>2, <1>6, FieldsFit
  <2>3. \A x \in InFlow : at[x] = Starts(Now)[x]
    BY <1>2, <2>1, <2>2
  <2>4. Starts(Now) = [x \in DOMAIN Starts(Now) |-> Starts(Now)[x]]
    BY DEF Starts
  <2>5. DOMAIN at = DOMAIN Starts(Now) /\ at = [x \in DOMAIN at |-> at[x]]
    OBVIOUS
  <2>6. tables' = [tables EXCEPT !.at = at]
    BY <1>7
  <2> HIDE DEF at
  <2>7. at = Starts(Now)
    BY <2>1, <2>3, <2>4, <2>5
  <2>8. {"hintAt", "end6", "second", "page", "at"} \subseteq DOMAIN tables
    BY <1>2 DEF Pointed
  <2> QED
    BY <2>6, <2>7, <2>8
<1>9. Placed'
  <2>1. /\ Starts(Now)' = Starts(Now) /\ Finish(Now)' = Finish(Now)
        /\ End(Now, LastOf(plan.parts.p6))' = End(Now, LastOf(plan.parts.p6))
    BY <1>1, <1>5
  <2>2. Pointed'
    BY <1>1, <1>2, <1>8, <2>1 DEF Pointed, Hint, docVars
  <2> QED
    BY <1>1, <1>8, <2>1, <2>2 DEF Placed, Working
<1>10. Copied' /\ front' = Len(queue') /\ now' = None
  <2>1. file' = [n \in 1..Len(order) |-> IF n \in DOMAIN file THEN file[n] ELSE Length]
    BY DEF WriteSecondTable
  <2>2. /\ \A i \in DOMAIN queue : queue[i] \in Objs /\ num[queue[i]] # 0
        /\ \A o \in Objs : num[o] \in 0..Len(order)
    BY <1>2, QueueIs DEF LInv
  <2>3. \A i \in DOMAIN queue : num[queue[i]] \in 1..Len(order)
    BY <2>2
  <2>4. \A n \in 1..Len(order) : n \in DOMAIN file => n \in DOMAIN file' /\ file'[n] = file[n]
    BY <2>1
  <2>5. \A s : Members(s)' = Members(s)
    BY <1>1 DEF Members, docVars
  <2> QED
    BY <1>1, <1>2, <2>3, <2>4, <2>5 DEF Copied
<1>11. Route'
  BY <1>1 DEF LInv, Route, docVars
<1> QED
  BY <1>1, <1>3, <1>4, <1>5, <1>9, <1>10, <1>11
  DEF LInv, Planned, InOrder, Reckoned, Progress, Working

LEMMA CheckKeeps == ASSUME LInv, Reopen \/ Recalculate PROVE LInv'
<1>1. /\ phase' \in {"reopened", "checked"} /\ UNCHANGED <<docVars, num, next, text>>
      /\ cfg.linearize \/ ~cfg.linearize
  BY DEF Reopen, Recalculate, numVars, outVars
<1>2. IInv'
  <2>1. text' \in Seq(Int)
    BY <1>1 DEF LInv, IInv, Written
  <2> QED
    BY <1>1, <2>1, QuietKeeps DEF LInv
<1>3. Route'
  <2>1. phase # "config"
    BY DEF Reopen, Recalculate, Linearized
  <2> QED
    BY <1>1, <2>1 DEF LInv, Route, docVars
<1> QED
  BY <1>1, <1>2, <1>3 DEF LInv, Planned, InOrder, Reckoned, Placed, Progress, Working

LEMMA NothingKeeps == ASSUME LInv, UNCHANGED allVars PROVE LInv'
<1>1. /\ UNCHANGED <<doc, cfg, held, phase, num, next, queue, front, todo, rest, now, text, file>>
      /\ UNCHANGED <<users, plan, order, pass1, tables, again>>
      /\ UNCHANGED vars
  BY DEF allVars, vars, linVars, docVars, numVars, outVars
<1>2. IInv'
  BY <1>1, StepKeeps DEF LInv
<1>3. Route'
  BY <1>1 DEF LInv, Route
<1>4. Planned'
  <2>1. Uses(users) => Uses(users)'
    <3>1. Free' = Free
      BY <1>1 DEF Free
    <3> QED
      BY <1>1, <3>1 DEF Uses, L!PageNos, L!Keys
  <2>2. Fit => Fit'
    BY <1>1, FitStays
  <2> QED
    BY <1>1, <2>1, <2>2 DEF LInv, Planned, Working
<1>5. InOrder'
  BY <1>1, OrderedStays DEF LInv, InOrder, Working
<1>6. CASE ~Working({"tables", "write", "done"})
  BY <1>1, <1>2, <1>3, <1>4, <1>5, <1>6 DEF LInv, Reckoned, Placed, Progress, Working
<1>7. CASE Working({"tables", "write", "done"})
  <2>1. HeldOnce /\ Fit /\ Measured
    BY <1>7, InvariantGivesHeld DEF LInv, Planned, Reckoned, Working
  <2>2. /\ Measured' /\ Now' = Now /\ FirstThings' = FirstThings
        /\ \A ends : Starts(ends)' = Starts(ends)
        /\ \A ends, x : End(ends, x)' = End(ends, x)
        /\ \A ends : Finish(ends)' = Finish(ends)
    BY <1>1, <2>1, TablesStay
  <2>3. /\ Starts(Now)' = Starts(Now) /\ Finish(Now)' = Finish(Now)
        /\ End(Now, LastOf(plan.parts.p6))' = End(Now, LastOf(plan.parts.p6))
    BY <1>1, <2>2
  <2>4. Pointed => Pointed'
    BY <1>1, <2>3 DEF Pointed, Hint
  <2>5. Placed'
    <3>1. tables.at = Starts(Now) => (tables.at = Starts(Now))'
      BY <1>1, <2>3
    <3>2. tables.at = [x \in FirstThings |-> Starts(Now)[x]]
            => (tables.at = [x \in FirstThings |-> Starts(Now)[x]])'
      BY <1>1, <2>2, <2>3
    <3> QED
      BY <1>1, <2>4, <3>1, <3>2 DEF LInv, Placed, Working
  <2>6. Progress'
    BY <1>1 DEF LInv, Progress, Copied, Working, Members
  <2> QED
    BY <1>1, <1>2, <1>3, <1>4, <1>5, <2>2, <2>5, <2>6 DEF LInv, Reckoned
<1> QED
  BY <1>6, <1>7

-----------------------------------------------------------------------------
LEMMA LStepKeeps == LInv /\ [LNext]_allVars => LInv'
<1> SUFFICES ASSUME LInv, [LNext]_allVars PROVE LInv'
  OBVIOUS
<1>1. CASE Setting /\ UNCHANGED linVars
  BY <1>1, LSettingKeeps
<1>2. CASE Setup /\ UNCHANGED linVars
  BY <1>2, LSetupKeeps
<1>3. CASE (EnqueueObject \/ StartWriting) /\ UNCHANGED linVars
  <2>1. IInv'
    BY <1>3, StepKeeps DEF LInv, Next, Work
  <2>2. /\ phase = "enqueue" /\ phase' \in {"enqueue", "write"} /\ UNCHANGED docVars
    BY <1>3 DEF EnqueueObject, StartWriting
  <2> QED
    BY <2>1, <2>2, StandardKeeps DEF LInv, Route, docVars
<1>4. CASE WriteNext /\ UNCHANGED linVars
  BY <1>4, LWriteNextKeeps
<1>5. CASE UnparseChild /\ UNCHANGED linVars
  BY <1>5, LUnparseChildKeeps
<1>6. CASE CloseObject /\ UNCHANGED linVars
  BY <1>6, LCloseObjectKeeps
<1>7. CASE CloseFile /\ UNCHANGED linVars
  BY <1>7, LCloseFileKeeps
<1>8. CASE Optimize
  BY <1>8, OptimizeKeeps
<1>9. CASE PlanParts
  BY <1>9, PlanPartsKeeps
<1>10. CASE Number
  BY <1>10, NumberKeeps
<1>11. CASE Measure
  BY <1>11, MeasureKeeps
<1>12. CASE WriteFirstTable
  BY <1>12, WriteFirstTableKeeps
<1>13. CASE WriteSecondTable
  BY <1>13, WriteSecondTableKeeps
<1>14. CASE Reopen \/ Recalculate
  BY <1>14, CheckKeeps
<1>15. CASE UNCHANGED allVars
  BY <1>15, NothingKeeps
<1> QED
  BY <1>1, <1>2, <1>3, <1>4, <1>5, <1>6, <1>7, <1>8, <1>9, <1>10, <1>11, <1>12, <1>13,
     <1>14, <1>15 DEF LNext, LWork, Work

(* No two objects get one number, nor an object and the length of a stream,*)
(* whether the file is linearized or not: in a linearized file, where the  *)
(* numbers come from the order of the parts and not from the queue, an     *)
(* object has one place in that order.                                     *)
THEOREM LinearizedNumbersUnique == LSpec => []NumbersUnique
<1>1. LInv => NumbersUnique
  BY DEF LInv, IInv, Types, Below, Different, NumbersUnique, Numbered
<1> QED
  BY <1>1, LInitInvariant, LStepKeeps, PTL DEF LSpec

(* Every offset that a linearized file has before its target is where the  *)
(* target is: no field is too short for it, the hint stream moves what is  *)
(* behind it and nothing else, and the first page is where the dictionary  *)
(* says it is.                                                             *)
THEOREM LinearizedInPlace == LSpec => []InPlace
<1>1. LInv => InPlace
  <2> SUFFICES ASSUME LInv, Linearized PROVE InPlace
    BY DEF InPlace
  <2>1. /\ Fit /\ Ordered /\ Copied /\ Pointed /\ front = Len(queue) /\ now = None
        /\ tables.at = Starts(Now)
    BY DEF LInv, Planned, InOrder, Placed, Progress, Linearized, Working
  <2>2. PICK i \in DOMAIN queue : queue[i] = doc.pages[1]
    <3>1. doc.pages[1] \in First1
      BY <2>1 DEF Fit, First1
    <3> QED
      BY <2>1, <3>1, QueueIs
  <2>3. i < front \/ (i = front /\ now = None)
    BY <2>1, QueueIs
  <2>4. file[num[doc.pages[1]]].of = doc.pages[1]
    BY <2>1, <2>2, <2>3 DEF Copied
  <2> QED
    BY <2>1, <2>4 DEF InPlace, Pointed
<1> QED
  BY <1>1, LInitInvariant, LStepKeeps, PTL DEF LSpec

-----------------------------------------------------------------------------
(* The room for the tables.  What a stream may become when it is           *)
(* compressed fits into what was left for it, with the longer number that  *)
(* its length may be.                                                      *)
LEMMA DigitsMore ==
  ASSUME NEW m \in Nat, NEW n \in Nat, m <= 10 * n + 9
  PROVE  Digits[m] <= Digits[n] + 1
<1>1. /\ Digits[0] = 0 /\ Digits[m] \in Nat /\ Digits[n] \in Nat
      /\ m # 0 => Digits[m] = 1 + Digits[m \div 10]
  BY DigitsAre DEF Counts
<1>2. m \div 10 \in 0..n
  OBVIOUS
<1>3. Digits[m \div 10] <= Digits[n] /\ Digits[m \div 10] \in Nat
  BY <1>2, DigitsAre DEF Counts
<1> QED
  BY <1>1, <1>3

LEMMA PaddingIsEnough ==
  ASSUME NEW r \in Nat, r # 0, NEW q \in 0..r, NEW bytes \in {q} \cup Deflated(q)
  PROVE  StreamSize(bytes) <= StreamSize(r) + Padding(StreamSize(r))
<1> DEFINE x == 150 + Digits[r] + r
<1> DEFINE c == (q + 16384 - 1) \div 16384
<1> DEFINE d == (x + 16384 - 1) \div 16384
<1>1. Digits[r] \in Nat /\ Digits[r] >= 1
  <2>1. r \div 10 \in Nat
    OBVIOUS
  <2>2. Digits[r \div 10] \in Nat /\ Digits[r] = 1 + Digits[r \div 10]
    BY <2>1, DigitsAre DEF Counts
  <2> QED
    BY <2>2
<1>2. q \in Nat /\ x \in Nat /\ x >= q /\ x >= 1
  BY <1>1
<1>3. c \in Nat /\ d \in Nat /\ c <= d /\ d >= 1 /\ c <= q
  <2> HIDE DEF x
  <2> QED
    BY <1>2
<1>4. StreamSize(r) = x /\ Padding(x) = 16 + 5 * d
  BY DEF StreamSize, Padding, CeilDiv
<1>5. bytes = q \/ bytes = 20 \/ bytes = q + 6 + 5 * c
  BY DEF Deflated, CeilDiv
<1>6. StreamSize(bytes) = 150 + Digits[bytes] + bytes
  BY DEF StreamSize
<1> HIDE DEF c, d
<1>7. CASE bytes = q
  <2>1. Digits[q] <= Digits[r] /\ Digits[q] \in Nat
    BY DigitsAre DEF Counts
  <2> QED
    BY <1>1, <1>2, <1>3, <1>4, <1>6, <1>7, <2>1
<1>8. CASE bytes = 20
  <2>1. Digits[20] <= 2 /\ Digits[20] \in Nat
    <3>1. 20 <= 10 * 2 + 9 /\ 2 <= 10 * 0 + 9 /\ 20 \in Nat /\ 2 \in Nat /\ 0 \in Nat
      OBVIOUS
    <3>2. Digits[20] <= Digits[2] + 1 /\ Digits[2] <= Digits[0] + 1
      BY <3>1, DigitsMore
    <3>3. Digits[20] \in Nat /\ Digits[2] \in Nat /\ Digits[0] = 0
      BY <3>1, DigitsAre DEF Counts
    <3> QED
      BY <3>2, <3>3
  <2> QED
    BY <1>1, <1>2, <1>3, <1>4, <1>6, <1>8, <2>1
<1>9. CASE bytes = q + 6 + 5 * c
  <2>1. bytes \in Nat /\ bytes <= 10 * r + 9
    BY <1>2, <1>3, <1>9
  <2>2. Digits[bytes] <= Digits[r] + 1 /\ Digits[bytes] \in Nat
    BY <2>1, DigitsMore, DigitsAre DEF Counts
  <2> QED
    BY <1>1, <1>2, <1>3, <1>4, <1>6, <1>9, <2>2
<1> QED
  BY <1>5, <1>7, <1>8, <1>9

LEMMA RowsAre ==
  ASSUME NEW n \in Nat, n # 0, NEW a \in Nat, NEW b \in Nat, Len(order) \in Nat,
         FieldSize(a) <= FieldSize(b)
  PROVE  Rows(n, b) \in Nat /\ Rows(n, b) # 0 /\ Rows(n, a) \in 0..Rows(n, b)
<1> DEFINE c == IF cfg.compress THEN 1 ELSE 0
<1> DEFINE v == 1 + FieldSize(a) + 1 + c
<1> DEFINE w == 1 + FieldSize(b) + 1 + c
<1>1. FieldSize(a) \in Nat /\ FieldSize(b) \in Nat
  BY BytesAre DEF FieldSize, Larger, Counts
<1>2. v \in Nat /\ w \in Nat \ {0} /\ v <= w
  BY <1>1
<1>3. Rows(n, a) = n * v /\ Rows(n, b) = n * w
  BY DEF Rows
<1> HIDE DEF v, w
<1>4. n * v \in Nat /\ n * w \in Nat \ {0} /\ n * v <= n * w
  BY <1>2
<1> QED
  BY <1>3, <1>4

(* So a table fits if its numbers are no longer than those it was measured *)
(* with.                                                                   *)
LEMMA TableFits ==
  ASSUME NEW n \in Nat, n # 0, NEW a \in Nat, NEW b \in Nat, Len(order) \in Nat,
         FieldSize(a) <= FieldSize(b), NEW bytes \in DataSizes(n, a)
  PROVE  /\ StreamSize(bytes) \in Nat /\ StreamSize(Rows(n, b)) \in Nat
         /\ Padding(StreamSize(Rows(n, b))) \in Nat
         /\ StreamSize(bytes) <= StreamSize(Rows(n, b)) + Padding(StreamSize(Rows(n, b)))
<1> DEFINE r == Rows(n, b)
<1> DEFINE q == Rows(n, a)
<1>1. r \in Nat /\ r # 0 /\ q \in 0..r
  BY RowsAre
<1>2. bytes \in {q} \cup Deflated(q)
  BY DEF DataSizes
<1> HIDE DEF r, q
<1>3. StreamSize(bytes) <= StreamSize(r) + Padding(StreamSize(r))
  BY <1>1, <1>2, PaddingIsEnough
<1>4. \A k \in Nat : StreamSize(k) \in Nat /\ Padding(k) \in Nat
  <2> SUFFICES ASSUME NEW k \in Nat PROVE StreamSize(k) \in Nat /\ Padding(k) \in Nat
    OBVIOUS
  <2>1. Digits[k] \in Nat
    BY DigitsAre DEF Counts
  <2>2. (k + 16384 - 1) \div 16384 \in Nat
    OBVIOUS
  <2> QED
    BY <2>1, <2>2 DEF StreamSize, Padding, CeilDiv
<1>5. bytes \in Nat
  <2>1. (q + 16384 - 1) \div 16384 \in Nat
    BY <1>1
  <2> QED
    BY <1>1, <1>2, <2>1 DEF Deflated, CeilDiv
<1> QED
  BY <1>1, <1>3, <1>4, <1>5 DEF r

(* What the first pass left for the tables.                                *)
Left(bytes) == StreamSize(bytes) + Padding(StreamSize(bytes)) + 1

Room ==
  /\ pass1.start = FirstXrefAt + (IF AnyHeld THEN Left(Rows(FirstCount, 2 ^ 25))
                                  ELSE TableSize(FirstCount))
  /\ pass1.secondEnd = pass1.second + (IF AnyHeld THEN Left(Rows(SecondCount, pass1.second))
                                       ELSE TableSize(SecondCount))

RoomLeft == Working({"tables", "write"}) => Room

LEMMA RoomStays ==
  ASSUME Room, UNCHANGED <<cfg, held, order, pass1>>
  PROVE  Room'
  BY DEF Room, Left, StreamSize, Padding, Rows, FieldSize, FirstCount, SecondCount, Id, AnyHeld,
         TableSize

LEMMA RoomKept == LInv /\ RoomLeft /\ [LNext]_allVars => RoomLeft'
<1> SUFFICES ASSUME LInv, RoomLeft, [LNext]_allVars, Working({"tables", "write"})' PROVE Room'
  BY DEF RoomLeft
<1>1. CASE Measure
  <2>1. UNCHANGED <<cfg, held, order>>
    BY <1>1 DEF Measure, docVars
  <2>2. /\ pass1'.start = FirstXrefAt + (IF AnyHeld THEN Left(Rows(FirstCount, 2 ^ 25))
                                         ELSE TableSize(FirstCount))
        /\ pass1'.secondEnd = pass1'.second
             + (IF AnyHeld THEN Left(Rows(SecondCount, pass1'.second)) ELSE TableSize(SecondCount))
    BY <1>1 DEF Measure, Left
  <2>3. AnyHeld' = AnyHeld /\ FirstCount' = FirstCount /\ SecondCount' = SecondCount
    BY <2>1 DEF AnyHeld, FirstCount, SecondCount, Id
  <2>4. Rows(FirstCount, 2 ^ 25)' = Rows(FirstCount, 2 ^ 25)
    BY <2>1, <2>3 DEF Rows, FieldSize
  <2>5. Rows(SecondCount, pass1.second)' = Rows(SecondCount, pass1'.second)
    BY <2>1, <2>3 DEF Rows, FieldSize
  <2>6. TableSize(FirstCount)' = TableSize(FirstCount) /\ TableSize(SecondCount)' = TableSize(SecondCount)
    BY <2>3 DEF TableSize
  <2>7. /\ Left(Rows(FirstCount, 2 ^ 25))' = Left(Rows(FirstCount, 2 ^ 25))
        /\ Left(Rows(SecondCount, pass1.second))' = Left(Rows(SecondCount, pass1'.second))
    BY <2>4, <2>5 DEF Left, StreamSize, Padding
  <2> QED
    BY <2>2, <2>3, <2>6, <2>7 DEF Room
<1>2. CASE ~Measure
  <2>1. Working({"tables", "write"}) /\ UNCHANGED <<cfg, held, order, pass1>>
    <3>1. CASE Setting /\ UNCHANGED linVars
      BY <3>1 DEF Setting, Working
    <3>2. CASE Setup /\ UNCHANGED linVars
      BY <3>2 DEF Setup, Working
    <3>3. CASE (EnqueueObject \/ StartWriting) /\ UNCHANGED linVars
      BY <3>3 DEF EnqueueObject, StartWriting, Working, docVars, LInv, Route
    <3>4. CASE (WriteNext \/ UnparseChild \/ CloseObject \/ CloseFile) /\ UNCHANGED linVars
      BY <3>4 DEF WriteNext, UnparseChild, CloseObject, CloseFile, Working, docVars, linVars
    <3>5. CASE Optimize \/ PlanParts \/ Number
      BY <3>5 DEF Optimize, PlanParts, Number, Working, vars, docVars
    <3>6. CASE WriteFirstTable \/ WriteSecondTable
      BY <3>6 DEF WriteFirstTable, WriteSecondTable, Working, docVars
    <3>7. CASE Reopen \/ Recalculate
      BY <3>7 DEF Reopen, Recalculate, Working
    <3>8. CASE UNCHANGED allVars
      BY <3>8 DEF allVars, vars, linVars, docVars, Working
    <3> QED
      BY <1>2, <3>1, <3>2, <3>3, <3>4, <3>5, <3>6, <3>7, <3>8 DEF LNext, LWork, Work
  <2> QED
    BY <2>1, RoomStays DEF RoomLeft
<1> QED
  BY <1>1, <1>2

FirstMax == pass1.at[LastOf(plan.parts.p6)] + pass1.hint

LEMMA FourBytes ==
  ASSUME NEW n \in Nat, n < 4294967296, Len(order) \in Nat
  PROVE  FieldSize(n) <= FieldSize(2 ^ 25)
<1>1. BytesNeeded[0] = 0 /\ \A k \in Nat : BytesNeeded[k] \in Nat
      /\ (k # 0 => BytesNeeded[k] = 1 + BytesNeeded[k \div 256])
  BY BytesAre DEF Counts
<1>2. BytesNeeded[2 ^ 25] = 4
  <2>1. 2 ^ 25 = 33554432
    OBVIOUS
  <2>2. /\ 33554432 \div 256 = 131072 /\ 131072 \div 256 = 512
        /\ 512 \div 256 = 2 /\ 2 \div 256 = 0
    OBVIOUS
  <2>3. BytesNeeded[2] = 1 + BytesNeeded[0]
    BY <1>1, <2>2
  <2>4. BytesNeeded[512] = 1 + BytesNeeded[2]
    BY <1>1, <2>2
  <2>5. BytesNeeded[131072] = 1 + BytesNeeded[512]
    BY <1>1, <2>2
  <2>6. BytesNeeded[33554432] = 1 + BytesNeeded[131072]
    BY <1>1, <2>2
  <2> QED
    BY <1>1, <2>1, <2>3, <2>4, <2>5, <2>6
<1>3. ASSUME NEW k \in Nat, NEW m \in Nat, BytesNeeded[k \div 256] <= m
      PROVE  BytesNeeded[k] <= m + 1
  <2>1. k \div 256 \in Nat
    OBVIOUS
  <2>2. BytesNeeded[k \div 256] \in Nat
    BY <1>1, <2>1
  <2>3. CASE k = 0
    BY <1>1, <2>3
  <2>4. CASE k # 0
    <3>1. BytesNeeded[k] = 1 + BytesNeeded[k \div 256]
      BY <1>1, <2>4
    <3> QED
      BY <1>3, <2>2, <3>1
  <2> QED
    BY <2>3, <2>4
<1>4. PICK a, b, c \in Nat :
        a = n \div 256 /\ b = a \div 256 /\ c = b \div 256 /\ c \div 256 = 0
  <2>1. PICK a, b, c \in Nat : a = n \div 256 /\ b = a \div 256 /\ c = b \div 256
    <3>1. \A k \in Nat : k \div 256 \in Nat
      OBVIOUS
    <3> QED
      BY <3>1
  <2>2. a < 16777216
    BY <2>1
  <2>3. b < 65536
    BY <2>1, <2>2
  <2>4. c < 256
    BY <2>1, <2>3
  <2>5. c \div 256 = 0
    BY <2>4
  <2> QED
    BY <2>1, <2>5
<1>5. BytesNeeded[c] <= 0 + 1
  BY <1>1, <1>3, <1>4
<1>6. BytesNeeded[b] <= 1 + 1
  BY <1>3, <1>4, <1>5
<1>7. BytesNeeded[a] <= 2 + 1
  BY <1>3, <1>4, <1>6
<1>8. BytesNeeded[n] <= 3 + 1
  BY <1>3, <1>4, <1>7
<1>9. BytesNeeded[n] \in Nat /\ BytesNeeded[Len(order)] \in Nat
  BY <1>1
<1> QED
  BY <1>2, <1>8, <1>9 DEF FieldSize, Larger

(* The second pass finds room for its tables, which are written where the  *)
(* first pass left it and may be longer: the first table if the last       *)
(* object of part 6 starts within the first four gigabytes, the condition  *)
(* that a comment names (QPDFWriter.cc:2948); the second if the hint       *)
(* stream does not make its offset need another byte, which the code takes *)
(* for granted.                                                            *)
TablesFit ==
  [][ /\ WriteFirstTable /\ FirstMax < 4294967296 => phase' = "write"
      /\ WriteSecondTable /\ FieldSize(Finish(Now)) <= FieldSize(pass1.second)
           => phase' = "done" ]_allVars

LEMMA FirstFits ==
  ASSUME LInv, RoomLeft, WriteFirstTable, FirstMax < 4294967296
  PROVE  phase' = "write"
<1>1. /\ HeldOnce /\ Fit /\ Ordered /\ Measured /\ Room
  BY InvariantGivesHeld
  DEF WriteFirstTable, LInv, Route, Planned, InOrder, Reckoned, RoomLeft, Working
<1>2. LaidOut(plan.parts) /\ Elements(plan.parts.p6) # {} /\ OrderedBy
  BY <1>1, FitHasFirst DEF Fit, Ordered
<1>3. FirstMax \in Nat
  BY <1>1, <1>2, SecondPass DEF FirstMax
<1>4. FirstCount \in Nat /\ FirstCount # 0 /\ Len(order) \in Nat
  BY <1>2, CountsAre
<1>5. FieldSize(FirstMax) <= FieldSize(2 ^ 25)
  BY <1>3, <1>4, FourBytes
<1>6. CASE ~AnyHeld
  BY <1>6 DEF WriteFirstTable
<1>7. CASE AnyHeld
  <2>1. PICK bytes \in DataSizes(FirstCount, FirstMax) :
          phase' = IF FirstXrefAt + StreamSize(bytes) + 1 > pass1.start THEN "failed" ELSE "write"
    BY <1>7 DEF WriteFirstTable, FirstMax
  <2> DEFINE p == 2 ^ 25
  <2> DEFINE x == StreamSize(Rows(FirstCount, p))
  <2>2. p \in Nat /\ FieldSize(FirstMax) <= FieldSize(p)
    BY <1>5
  <2>3. pass1.start = FirstXrefAt + (x + Padding(x) + 1)
    BY <1>1, <1>7 DEF Room, Left
  <2>4. /\ StreamSize(bytes) \in Nat /\ x \in Nat /\ Padding(x) \in Nat
        /\ StreamSize(bytes) <= x + Padding(x)
    <3> HIDE DEF p
    <3> QED
      BY <1>3, <1>4, <2>2, TableFits
  <2>5. FirstXrefAt \in Nat
    BY DEF FirstXrefAt, Header
  <2> HIDE DEF x
  <2> QED
    BY <2>1, <2>3, <2>4, <2>5
<1> QED
  BY <1>6, <1>7

LEMMA SecondFits ==
  ASSUME LInv, RoomLeft, WriteSecondTable, FieldSize(Finish(Now)) <= FieldSize(pass1.second)
  PROVE  phase' = "done"
<1>1. /\ HeldOnce /\ Fit /\ Ordered /\ Measured /\ Room
  BY InvariantGivesHeld
  DEF WriteSecondTable, LInv, Planned, InOrder, Reckoned, RoomLeft, Working
<1>2. LaidOut(plan.parts) /\ Elements(plan.parts.p6) # {} /\ OrderedBy
  BY <1>1, FitHasFirst DEF Fit, Ordered
<1>3. Finish(Now) \in Nat /\ pass1.second + pass1.hint = Finish(Now) /\ pass1.hint \in Nat
  BY <1>1, <1>2, SecondPass DEF Measured
<1>4. pass1.second \in Nat
  <2>1. EndsAre(First0, pass1.start, 0) /\ Len(Flow) \in Nat
    <3>1. 0 \in Nat /\ pass1.start \in Nat
      BY <1>1 DEF Measured
    <3> QED
      BY <1>1, <1>2, <3>1, EndsExist, Sizes DEF First0
  <2> QED
    BY <1>1, <2>1 DEF EndsAre, Measured, Finish
<1>5. SecondCount \in Nat /\ SecondCount # 0 /\ Len(order) \in Nat
  BY <1>2, CountsAre
<1>6. CASE ~AnyHeld
  BY <1>6 DEF WriteSecondTable
<1>7. CASE AnyHeld
  <2> DEFINE end == Finish(Now)
  <2>1. PICK bytes \in DataSizes(SecondCount, end) :
          phase' = IF end + StreamSize(bytes) + 1 > pass1.secondEnd + pass1.hint
                   THEN "failed" ELSE "done"
    BY <1>7 DEF WriteSecondTable
  <2> DEFINE p == pass1.second
  <2> DEFINE x == StreamSize(Rows(SecondCount, p))
  <2>2. pass1.secondEnd = p + (x + Padding(x) + 1)
    BY <1>1, <1>7 DEF Room, Left
  <2>3. p \in Nat /\ end \in Nat /\ FieldSize(end) <= FieldSize(p) /\ p + pass1.hint = end
    BY <1>3, <1>4
  <2>4. /\ StreamSize(bytes) \in Nat /\ x \in Nat /\ Padding(x) \in Nat
        /\ StreamSize(bytes) <= x + Padding(x)
    <3> HIDE DEF p, end
    <3> QED
      BY <1>5, <2>1, <2>3, TableFits
  <2> HIDE DEF x, p, end
  <2> QED
    BY <1>3, <2>1, <2>2, <2>3, <2>4
<1> QED
  BY <1>6, <1>7

(* The second pass never lacks the room for a table unless the offsets in  *)
(* it need more bytes than the first pass gave them, however well or badly *)
(* the table is compressed.                                                *)
THEOREM LinearizedTablesFit == LSpec => TablesFit
<1>1. LInit => RoomLeft
  BY DEF LInit, Init, RoomLeft, Working
<1>2. LInv /\ RoomLeft /\ [LNext]_allVars =>
        [ /\ WriteFirstTable /\ FirstMax < 4294967296 => phase' = "write"
          /\ WriteSecondTable /\ FieldSize(Finish(Now)) <= FieldSize(pass1.second)
               => phase' = "done" ]_allVars
  BY FirstFits, SecondFits
<1> QED
  BY <1>1, <1>2, LInitInvariant, LStepKeeps, RoomKept, PTL DEF LSpec, TablesFit

=============================================================================
