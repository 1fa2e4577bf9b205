------------------------- MODULE ForeignCopy_proofs -------------------------
(***************************************************************************)
(* Proofs about ForeignCopy, for documents of any size and any shape.      *)
(*                                                                         *)
(* The heart of it is Reached: while a call is under way, what an object   *)
(* to be copied refers to has a copy already or is still to be visited, so *)
(* that nothing is missing once all has been visited.                      *)
(***************************************************************************)
EXTENDS ForeignCopy, Induction, FiniteSetTheorems, TLAPS

Reached ==
  ask # Nobody => \A o \in toCopy : \A r \in g.refs[o] :
    Is(r, "pages") \/ r \in mapped \/ r \in todo

PagesUnmapped == \A o \in mapped : ~Is(o, "pages")

(* Pages are filled in after all has been visited, and only the page asked *)
(* for is among the objects to copy.                                       *)
PagesWait ==
  /\ todo # {} => ask # Nobody /\ \A o \in filled : Is(o, "page") => o \in asked
  /\ ask # Nobody => \A o \in toCopy : Is(o, "page") => o = ask

Reservations ==
  /\ toCopy \cap filled = {}
  /\ ask # Nobody => ~stuck /\ \A o \in mapped \ filled : Is(o, "page") \/ o \in toCopy

IInv ==
  /\ TypeOK /\ Faithful /\ NothingLeftReserved /\ PagesOnDemand
  /\ Reached /\ PagesUnmapped /\ PagesWait /\ Reservations

LEMMA Shapes ==
  ASSUME g \in Graphs, NEW o \in Objs
  PROVE  g.refs[o] \subseteq Objs
  BY ConstantsAssumption

LEMMA InitIInv == Init => IInv
<1> SUFFICES ASSUME Init PROVE IInv
  OBVIOUS
<1> USE DEF Init
<1>1. TypeOK
  BY DEF TypeOK
<1>2. Faithful /\ NothingLeftReserved /\ PagesOnDemand
  BY DEF Faithful, NothingLeftReserved, PagesOnDemand
<1>3. Reached /\ PagesUnmapped /\ PagesWait /\ Reservations
  BY DEF Reached, PagesUnmapped, PagesWait, Reservations
<1> QED
  BY <1>1, <1>2, <1>3 DEF IInv

LEMMA CopyForeignObjectIInv ==
  ASSUME IInv, NEW o \in Objs, CopyForeignObject(o)
  PROVE  IInv'
<1> USE DEF IInv, Is
<1>1. /\ ask = Nobody /\ ~stuck /\ ask' = o /\ o # Nobody
      /\ toCopy = {} /\ todo = {}
      /\ \A x \in mapped \ filled : Is(x, "page")
      /\ UNCHANGED <<g, filled, body, stuck, asked>>
  BY ConstantsAssumption DEF CopyForeignObject, NothingLeftReserved, PagesWait
<1>2. CASE ~Is(o, "pages") /\ Again(o)
  <2>1. mapped' = mapped \cup {o} /\ toCopy' = {o} /\ todo' = g.refs[o]
    BY <1>1, <1>2 DEF CopyForeignObject
  <2>2. o \notin filled
    BY <1>2 DEF Again, TypeOK
  <2>3. g.refs[o] \subseteq Objs
    BY Shapes DEF TypeOK
  <2>4. TypeOK'
    BY <1>1, <2>1, <2>3 DEF TypeOK
  <2>5. Faithful' /\ NothingLeftReserved'
    BY <1>1 DEF Faithful, NothingLeftReserved
  <2>6. \A x \in filled : Is(x, "page") => x \in asked
    BY <1>1, ConstantsAssumption DEF PagesOnDemand, TypeOK
  <2>7. PagesOnDemand' /\ PagesWait'
    BY <1>1, <2>1, <2>6 DEF PagesOnDemand, PagesWait
  <2>8. Reached' /\ PagesUnmapped'
    BY <1>1, <1>2, <2>1 DEF Reached, PagesUnmapped
  <2>9. Reservations'
    BY <1>1, <2>1, <2>2 DEF Reservations
  <2> QED
    BY <2>4, <2>5, <2>7, <2>8, <2>9
<1>3. CASE ~(~Is(o, "pages") /\ Again(o))
  <2>1. mapped' = mapped /\ toCopy' = {} /\ todo' = {}
    BY <1>1, <1>3 DEF CopyForeignObject
  <2>2. TypeOK'
    BY <1>1, <2>1 DEF TypeOK
  <2>3. Faithful' /\ NothingLeftReserved'
    BY <1>1 DEF Faithful, NothingLeftReserved
  <2>4. \A x \in filled : Is(x, "page") => x \in asked
    BY <1>1, ConstantsAssumption DEF PagesOnDemand, TypeOK
  <2>5. PagesOnDemand' /\ PagesWait'
    BY <1>1, <2>1, <2>4 DEF PagesOnDemand, PagesWait
  <2>6. Reached' /\ PagesUnmapped' /\ Reservations'
    BY <1>1, <2>1 DEF Reached, PagesUnmapped, Reservations
  <2> QED
    BY <2>2, <2>3, <2>5, <2>6
<1> QED
  BY <1>2, <1>3

LEMMA ReserveIInv ==
  ASSUME IInv, NEW o \in Objs, Reserve(o)
  PROVE  IInv'
<1> USE DEF IInv, Is
<1>1. /\ ask # Nobody /\ o \in todo /\ ~stuck
      /\ UNCHANGED <<g, filled, body, ask, stuck, asked>>
      /\ mapped' = IF Is(o, "pages") THEN mapped ELSE mapped \cup {o}
      /\ \A x \in filled : Is(x, "page") => x \in asked
  BY DEF Reserve, PagesWait, Reservations
<1>2. Faithful' /\ NothingLeftReserved' /\ PagesOnDemand' /\ PagesUnmapped'
  BY <1>1 DEF Faithful, NothingLeftReserved, PagesOnDemand, PagesUnmapped
<1>3. CASE Stops(o)
  <2>1. todo' = todo \ {o} /\ toCopy' = toCopy
    BY <1>3 DEF Reserve
  <2>2. TypeOK'
    BY <1>1, <2>1 DEF TypeOK
  <2>3. Reached'
    BY <1>1, <2>1 DEF Reached
  <2>4. PagesWait'
    BY <1>1, <2>1 DEF PagesWait
  <2>5. Reservations'
    BY <1>1, <1>3, <2>1 DEF Reservations, Stops
  <2> QED
    BY <1>2, <2>2, <2>3, <2>4, <2>5
<1>4. CASE ~Stops(o)
  <2>1. /\ todo' = (todo \ {o}) \cup g.refs[o] /\ toCopy' = toCopy \cup {o}
        /\ mapped' = mapped \cup {o}
        /\ o \notin mapped /\ ~Is(o, "page") /\ ~Is(o, "pages")
    BY <1>1, <1>4 DEF Reserve, Stops
  <2>2. g.refs[o] \subseteq Objs /\ o \notin filled
    BY <2>1, Shapes DEF TypeOK
  <2>3. TypeOK'
    BY <1>1, <2>1, <2>2 DEF TypeOK
  <2>4. Reached'
    BY <1>1, <2>1 DEF Reached
  <2>5. PagesWait'
    BY <1>1, <2>1 DEF PagesWait
  <2>6. Reservations'
    BY <1>1, <2>1, <2>2 DEF Reservations
  <2> QED
    BY <1>2, <2>3, <2>4, <2>5, <2>6
<1> QED
  BY <1>3, <1>4

LEMMA FailIInv ==
  ASSUME IInv, NEW o \in Objs, Fail(o)
  PROVE  IInv'
<1> USE DEF IInv, Is
<1>1. /\ ask # Nobody /\ o \in todo /\ ask' = Nobody /\ todo' = {} /\ stuck'
      /\ UNCHANGED <<g, mapped, filled, body, toCopy, asked>>
      /\ \A x \in filled : Is(x, "page") => x \in asked
  BY DEF Fail, Stuck, PagesWait
<1>2. TypeOK'
  BY <1>1 DEF TypeOK, Fail, Stuck
<1>3. Faithful' /\ NothingLeftReserved' /\ PagesOnDemand' /\ PagesUnmapped'
  BY <1>1 DEF Faithful, NothingLeftReserved, PagesOnDemand, PagesUnmapped
<1>4. Reached' /\ PagesWait' /\ Reservations'
  BY <1>1 DEF Reached, PagesWait, Reservations
<1> QED
  BY <1>2, <1>3, <1>4

LEMMA ReplaceIInv ==
  ASSUME IInv, NEW o \in Objs, Replace(o)
  PROVE  IInv'
<1> USE DEF IInv, Is
<1>1. /\ ask # Nobody /\ todo = {} /\ o \in toCopy
      /\ body' = [body EXCEPT ![o] = Known(o)]
      /\ filled' = filled \cup {o} /\ toCopy' = toCopy \ {o}
      /\ UNCHANGED <<g, mapped, ask, todo, stuck, asked>>
  BY DEF Replace
<1>2. Known(o) \subseteq Objs /\ Known(o) = {r \in g.refs[o] : ~Is(r, "pages")}
  BY <1>1 DEF Known, TypeOK, Reached, PagesUnmapped
<1>3. TypeOK'
  BY <1>1, <1>2 DEF TypeOK
<1>4. Faithful'
  <2>1. body'[o] = Known(o) /\ \A x \in Objs : x # o => body'[x] = body[x]
    BY <1>1 DEF TypeOK
  <2>2. filled \subseteq Objs
    BY DEF TypeOK
  <2> QED
    BY <1>1, <1>2, <2>1, <2>2 DEF Faithful
<1>5. NothingLeftReserved' /\ PagesUnmapped' /\ Reached'
  BY <1>1 DEF NothingLeftReserved, PagesUnmapped, Reached
<1>6. PagesOnDemand' /\ PagesWait'
  BY <1>1 DEF PagesOnDemand, PagesWait
<1>7. Reservations'
  BY <1>1 DEF Reservations
<1> QED
  BY <1>3, <1>4, <1>5, <1>6, <1>7

LEMMA ReturnIInv ==
  ASSUME IInv, Return
  PROVE  IInv'
<1> USE DEF IInv, Is
<1>1. /\ ask # Nobody /\ todo = {} /\ toCopy = {} /\ ask' = Nobody
      /\ asked' = asked \cup {ask}
      /\ UNCHANGED <<g, mapped, filled, body, todo, toCopy, stuck>>
  BY DEF Return
<1>2. TypeOK'
  BY <1>1 DEF TypeOK
<1>3. Faithful' /\ PagesOnDemand' /\ PagesUnmapped'
  BY <1>1 DEF Faithful, PagesOnDemand, PagesUnmapped
<1>4. NothingLeftReserved' /\ Reached' /\ PagesWait' /\ Reservations'
  BY <1>1 DEF NothingLeftReserved, Reached, PagesWait, Reservations
<1> QED
  BY <1>2, <1>3, <1>4

LEMMA StepIInv == IInv /\ [Next]_vars => IInv'
<1> SUFFICES ASSUME IInv, [Next]_vars PROVE IInv'
  OBVIOUS
<1>1. ASSUME NEW o \in Objs, CopyForeignObject(o) PROVE IInv'
  BY <1>1, CopyForeignObjectIInv
<1>2. ASSUME NEW o \in Objs, Reserve(o) PROVE IInv'
  BY <1>2, ReserveIInv
<1>3. ASSUME NEW o \in Objs, Fail(o) PROVE IInv'
  BY <1>3, FailIInv
<1>4. ASSUME NEW o \in Objs, Replace(o) PROVE IInv'
  BY <1>4, ReplaceIInv
<1>5. CASE Return
  BY <1>5, ReturnIInv
<1>6. CASE UNCHANGED vars
  BY <1>6 DEF vars, IInv, TypeOK, Faithful, NothingLeftReserved, PagesOnDemand,
    Reached, PagesUnmapped, PagesWait, Reservations, Is
<1> QED
  BY <1>1, <1>2, <1>3, <1>4, <1>5, <1>6 DEF Next, Work

(* The strengthened invariant holds: the two passes of copyForeignObject   *)
(* keep its parts together.                                                *)
THEOREM AlwaysIInv == Spec => []IInv
  BY InitIInv, StepIInv, PTL DEF Spec

(* The state stays of its types on every graph of objects.                 *)
THEOREM TypesHold == Spec => []TypeOK
<1>1. IInv => TypeOK
  BY DEF IInv
<1> QED
  BY <1>1, AlwaysIInv, PTL

(* The copies refer to the copies of all that the objects refer to, in     *)
(* documents of any shape, with no object left behind as a null; and       *)
(* reserve_objects stops at page boundaries: no page is copied but one     *)
(* that copyForeignObject was called for.                                  *)
THEOREM CopiesAreRight == Spec => []CopiesRight
<1>1. IInv => CopiesRight
  BY DEF IInv, CopiesRight
<1> QED
  BY <1>1, AlwaysIInv, PTL

(* A copy, once filled in, is never made again or changed by later calls.  *)
THEOREM CopiesAreStable == Spec => CopiesStay
<1> DEFINE Stay == /\ mapped \subseteq mapped' /\ filled \subseteq filled'
                   /\ \A o \in filled : body'[o] = body[o] /\ o \notin toCopy'
<1>1. ASSUME IInv, IInv', [Next]_vars PROVE [Stay]_vars
  <2>1. toCopy' \cap filled' = {} /\ toCopy \cap filled = {} /\ body \in [Objs -> SUBSET Objs]
    BY <1>1 DEF IInv, Reservations, TypeOK
  <2>2. ASSUME NEW o \in Objs, CopyForeignObject(o) PROVE Stay
    BY <2>1, <2>2 DEF CopyForeignObject
  <2>3. ASSUME NEW o \in Objs, Reserve(o) \/ Fail(o) PROVE Stay
    BY <2>1, <2>3 DEF Reserve, Fail
  <2>4. ASSUME NEW o \in Objs, Replace(o) PROVE Stay
    <3>1. filled \subseteq Objs /\ o \notin filled
      BY <1>1, <2>1, <2>4 DEF IInv, TypeOK, Replace
    <3> QED
      BY <2>1, <2>4, <3>1 DEF Replace
  <2>5. CASE Return
    BY <2>1, <2>5 DEF Return
  <2> QED
    BY <1>1, <2>2, <2>3, <2>4, <2>5 DEF Next, Work
<1>2. Spec => [][Next]_vars
  BY PTL DEF Spec
<1> QED
  BY <1>1, <1>2, AlwaysIInv, PTL DEF CopiesStay

-----------------------------------------------------------------------------
(* What an object needs is within every set that the object is in and that *)
(* references do not lead out of, but at pages.                            *)
LEMMA NeedsWithin ==
  ASSUME g \in Graphs, NEW a \in Objs, NEW C, C \subseteq Objs, a \in C,
         \A x \in C : ~Is(x, "pages") /\ (Is(x, "page") => x = a) => g.refs[x] \subseteq C
  PROVE  Needs(a) \subseteq C
<1> DEFINE Through(S) == {y \in S : ~Is(y, "pages") /\ (Is(y, "page") => y = a)}
<1> DEFINE Step(S) == S \cup UNION {g.refs[x] : x \in Through(S)}
<1> DEFINE Rec(f) == f = [n \in Nat |-> IF n = 0 THEN {a} ELSE Step(f[n - 1])]
<1> DEFINE R == CHOOSE f : Rec(f)
<1>1. Needs(a) = R[Cardinality(Objs)]
  BY DEF Needs
<1>2. \A S \in SUBSET C : Step(S) \in SUBSET C
  BY DEF Is
<1>3. Rec(R)
  <2> DEFINE D == SUBSET C
  <2> DEFINE base == {a}
  <2> DEFINE step == [S \in D |-> Step(S)]
  <2>1. step \in [D -> D] /\ base \in D
    BY <1>2
  <2>2. PICK f \in [Nat -> D] : f[0] = base /\ \A n \in Nat \ {0} : f[n] = step[f[n - 1]]
    <3> HIDE DEF step, D, base
    <3> QED
      BY <2>1, RecursionExists
  <2>3. \A n \in Nat \ {0} : step[f[n - 1]] = Step(f[n - 1])
    OBVIOUS
  <2>4. Rec(f)
    <3> HIDE DEF step
    <3> QED
      BY <2>2, <2>3
  <2> QED
    BY <2>4
<1> HIDE DEF R, Step
<1> DEFINE E == {n \in Nat : R[n] \in SUBSET C}
<1>4. 0 \in E
  BY <1>3
<1>5. ASSUME NEW n \in Nat, n \in E PROVE n + 1 \in E
  <2>1. R[n + 1] = Step(R[n])
    <3>1. n + 1 \in Nat /\ n + 1 # 0 /\ (n + 1) - 1 = n
      OBVIOUS
    <3> QED
      BY <1>3, <3>1
  <2> QED
    BY <1>2, <1>5, <2>1
<1>6. \A n \in Nat : n \in E
  <2> HIDE DEF E
  <2> QED
    BY <1>4, <1>5, InductionOver
<1>7. Cardinality(Objs) \in Nat
  BY ConstantsAssumption, FS_CardinalityType
<1> QED
  BY <1>1, <1>6, <1>7

(* The object asked for is to be copied until it has been.                 *)
AskKept ==
  ask # Nobody => Is(ask, "pages") \/ ask \in filled \/ ask \in toCopy

(* What a copy refers to has a copy, or a reservation.                     *)
Followed ==
  \A o \in filled : \A r \in g.refs[o] : Is(r, "pages") \/ r \in mapped

KInv == IInv /\ AskKept /\ Followed /\ Complete

LEMMA NothingTakenBack ==
  ASSUME Complete, UNCHANGED <<g, asked>>, mapped \subseteq mapped', filled \subseteq filled'
  PROVE  Complete'
<1>1. \A a : Needs(a)' = Needs(a)
  BY DEF Needs, Is
<1> QED
  BY <1>1 DEF Complete, Is

(* When all has been visited and filled in, nothing that the object needs  *)
(* is missing, however the references go round.                            *)
LEMMA ReturnCompletes ==
  ASSUME KInv, Return
  PROVE  Complete'
<1>1. /\ ask \in Objs /\ todo = {} /\ toCopy = {} /\ asked' = asked \cup {ask}
      /\ UNCHANGED <<g, mapped, filled>>
  BY DEF KInv, IInv, TypeOK, Return
<1>2. \A o \in mapped \ filled : Is(o, "page")
  BY <1>1 DEF KInv, IInv, Reservations, Return
<1> DEFINE C == {o \in Objs : \/ Is(o, "pages")
                              \/ o \in mapped /\ (o \in filled \/ (Is(o, "page") /\ o # ask))}
<1>3. CASE ~Is(ask, "pages")
  <2>1. ask \in filled
    BY <1>1, <1>3 DEF KInv, AskKept, Return
  <2>2. ask \in C
    BY <1>1, <2>1 DEF KInv, IInv, TypeOK
  <2>3. ASSUME NEW x \in C, ~Is(x, "pages"), Is(x, "page") => x = ask
        PROVE  g.refs[x] \subseteq C
    <3>1. x \in filled
      BY <2>1, <2>3
    <3>2. g.refs[x] \subseteq Objs
      BY <2>3, Shapes DEF KInv, IInv, TypeOK
    <3>3. \A r \in g.refs[x] : Is(r, "pages") \/ r \in mapped
      BY <3>1 DEF KInv, Followed
    <3> QED
      BY <1>2, <2>1, <3>2, <3>3
  <2>4. Needs(ask) \subseteq C
    <3>1. g \in Graphs /\ C \subseteq Objs
      BY DEF KInv, IInv, TypeOK
    <3> HIDE DEF C
    <3> QED
      BY <1>1, <2>2, <2>3, <3>1, NeedsWithin
  <2>5. \A o \in Needs(ask) :
          ~Is(o, "pages") => o \in mapped /\ (o \in filled \/ (Is(o, "page") /\ o # ask))
    BY <2>4
  <2>6. \A a : Needs(a)' = Needs(a)
    BY <1>1 DEF Needs, Is
  <2> QED
    BY <1>1, <2>5, <2>6 DEF KInv, Complete, Is
<1>4. CASE Is(ask, "pages")
  <2>1. \A a : Needs(a)' = Needs(a)
    BY <1>1 DEF Needs, Is
  <2> QED
    BY <1>1, <1>4, <2>1 DEF KInv, Complete, Is
<1> QED
  BY <1>3, <1>4

LEMMA InitKInv == Init => KInv
  BY InitIInv DEF Init, KInv, AskKept, Followed, Complete

LEMMA StepKInv == KInv /\ [Next]_vars => KInv'
<1> SUFFICES ASSUME KInv, [Next]_vars PROVE (AskKept /\ Followed /\ Complete)'
  BY StepIInv DEF KInv
<1>1. ASSUME NEW o \in Objs, CopyForeignObject(o) PROVE (AskKept /\ Followed /\ Complete)'
  <2>1. /\ ask = Nobody /\ ask' = o /\ mapped \subseteq mapped'
        /\ UNCHANGED <<g, filled, body, stuck, asked>>
    BY <1>1 DEF CopyForeignObject
  <2>2. \A x \in mapped \ filled : Is(x, "page")
    BY <1>1 DEF CopyForeignObject, KInv, IInv, NothingLeftReserved
  <2>3. Is(o, "pages") \/ o \in filled \/ o \in toCopy'
    BY <1>1, <2>2 DEF CopyForeignObject, Again
  <2> QED
    BY <2>1, <2>3, NothingTakenBack DEF KInv, AskKept, Followed, Is
<1>2. ASSUME NEW o \in Objs, Reserve(o) PROVE (AskKept /\ Followed /\ Complete)'
  <2>1. /\ mapped \subseteq mapped' /\ toCopy \subseteq toCopy'
        /\ UNCHANGED <<g, filled, body, ask, stuck, asked>>
    BY <1>2 DEF Reserve
  <2> QED
    BY <2>1, NothingTakenBack DEF KInv, AskKept, Followed, Is
<1>3. ASSUME NEW o \in Objs, Fail(o) PROVE (AskKept /\ Followed /\ Complete)'
  BY <1>3, NothingTakenBack DEF Fail, KInv, AskKept, Followed, Is
<1>4. ASSUME NEW o \in Objs, Replace(o) PROVE (AskKept /\ Followed /\ Complete)'
  <2>1. /\ ask # Nobody /\ todo = {} /\ o \in toCopy
        /\ filled' = filled \cup {o} /\ toCopy' = toCopy \ {o}
        /\ UNCHANGED <<g, mapped, ask, todo, stuck, asked>>
    BY <1>4 DEF Replace
  <2>2. \A r \in g.refs[o] : Is(r, "pages") \/ r \in mapped
    BY <2>1 DEF KInv, IInv, Reached
  <2> QED
    BY <2>1, <2>2, NothingTakenBack DEF KInv, AskKept, Followed, Is
<1>5. CASE Return
  BY <1>5, ReturnCompletes DEF Return, KInv, AskKept, Followed, Is
<1>6. CASE UNCHANGED vars
  BY <1>6, NothingTakenBack DEF vars, KInv, AskKept, Followed, Is
<1> QED
  BY <1>1, <1>2, <1>3, <1>4, <1>5, <1>6 DEF Next, Work

(* A call of copyForeignObject that returns has copied the object and      *)
(* everything it needs up to the pages, in documents of any shape.         *)
THEOREM CopiesAreComplete == Spec => []Complete
<1>1. KInv => Complete
  BY DEF KInv
<1> QED
  BY <1>1, InitKInv, StepKInv, PTL DEF Spec
=============================================================================
