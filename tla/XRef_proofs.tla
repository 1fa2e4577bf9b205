---------------------------- MODULE XRef_proofs ----------------------------
(***************************************************************************)
(* Theorems about the cross-reference table: that it is the one which the  *)
(* file defines once parse has read it (TableIsNewestHolds), and that      *)
(* recovery finds what is there and loses nothing (RecoveryFindsHolds),    *)
(* for every file, option and bound that XRef's assumption allows.         *)
(*                                                                         *)
(* Neither is inductive: both speak of a table that is ready, and the      *)
(* table is built entry by entry, section by section.  The heart of the    *)
(* invariant is Represents(x, d, P): the table x and the deleted objects d *)
(* are what the mentions P, a part of those in the file, say.  Reading     *)
(* states it of the mentions in the part of the chain that has been read,  *)
(* whose length is the number of the sections visited: without loops no    *)
(* section is read twice.  One entry keeps it (OneMention, which is where  *)
(* the order of the entries matters), so does a section, by induction over *)
(* its entries (RepresentsAll), and at the end of the chain the mentions   *)
(* read are all that there are (ChainEnds).  The order in which the code   *)
(* reads, ReadBefore, differs from the one that counts, Newer, within a    *)
(* hybrid section only; for an object that is not disputed they agree on   *)
(* the newest mention (SameNewest).  Generations must grow for the last    *)
(* step only, WholeIsNewest: reading keeps older generations, which        *)
(* FinishReading removes.                                                  *)
(*                                                                         *)
(* For recovery the invariant says that no plain entry outlives the table  *)
(* that was given up (PlainIsGone), and that nothing in a table contradicts *)
(* an object that the file has plainly (PlainlyOne): else such an object   *)
(* might be lost to an older generation, or to a deletion remembered from  *)
(* the sections that were given up.  When sections are read after recovery *)
(* it says that the objects of the file are in the table already, but for  *)
(* those that some section says are free (AllFound): so an entry that is   *)
(* added is not of an object that recovery found.                          *)
(***************************************************************************)
EXTENDS XRef, Induction

(* The values of xref_table.  What readObjectAtOffset leaves in the cache  *)
(* does not matter to the table.                                           *)
Xrefs ==
  {x \in UNION {[K -> Entries] : K \in SUBSET (Nat \X Nat)} :
     \A og \in DOMAIN x : IsValid(x[og]) /\ Key(x[og]) = og}

TablesOf(c) == [xref : Xrefs, deleted : SUBSET Nat, cached : {c}, ok : BOOLEAN]

LEMMA XrefFacts ==
  ASSUME NEW x \in Xrefs
  PROVE  /\ DOMAIN x \subseteq Nat \X Nat
         /\ x = [og \in DOMAIN x |-> x[og]]
         /\ \A og \in DOMAIN x : x[og] \in Entries /\ IsValid(x[og]) /\ Key(x[og]) = og
<1>1. PICK K \in SUBSET (Nat \X Nat) : x \in [K -> Entries]
  BY DEF Xrefs
<1> QED
  BY <1>1 DEF Xrefs

LEMMA KeyType ==
  ASSUME NEW e \in Entries
  PROVE  /\ Key(e) \in Nat \X Nat /\ Key(e)[1] = e.id
         /\ Key(e)[2] = IF e.kind = "packed" THEN 0 ELSE e.gen
BY DEF Entries, Key

LEMMA WithFacts ==
  ASSUME NEW x \in Xrefs, NEW e \in Entries, IsValid(e), Key(e) \notin DOMAIN x
  PROVE  LET y == With(x, Key(e), e)
         IN  /\ y \in Xrefs
             /\ DOMAIN y = DOMAIN x \cup {Key(e)}
             /\ y[Key(e)] = e
             /\ \A og \in DOMAIN x : y[og] = x[og]
<1> DEFINE y == With(x, Key(e), e)
<1> DEFINE K == DOMAIN x \cup {Key(e)}
<1>1. K \in SUBSET (Nat \X Nat)
  BY XrefFacts, KeyType
<1>2. y \in [K -> Entries]
  BY XrefFacts DEF With
<1>3. \A og \in DOMAIN y : IsValid(y[og]) /\ Key(y[og]) = og
  BY XrefFacts DEF With
<1> QED
  BY <1>1, <1>2, <1>3 DEF Xrefs, With

LEMMA RestrictFacts ==
  ASSUME NEW x \in Xrefs, NEW S, S \subseteq DOMAIN x
  PROVE  /\ Restrict(x, S) \in Xrefs
         /\ DOMAIN Restrict(x, S) = S
         /\ \A og \in S : Restrict(x, S)[og] = x[og]
<1>1. S \in SUBSET (Nat \X Nat)
  BY XrefFacts
<1>2. Restrict(x, S) \in [S -> Entries]
  BY XrefFacts DEF Restrict
<1> QED
  BY <1>1, <1>2, XrefFacts DEF Restrict, Xrefs

(* What one entry does to a table: nothing but an exception, one object    *)
(* more that is known to be free, one entry more, or nothing at all.       *)
Inserts(t, e, u) ==
  \/ /\ ~t.ok \/ e.kind = "bad"
     /\ ~u.ok /\ u.xref = t.xref /\ u.deleted = t.deleted
  \/ /\ t.ok /\ e.kind = "free"
     /\ u.ok /\ u.xref = t.xref
     /\ u.deleted = IF Key(e) \notin DOMAIN t.xref /\ e.id <= MaxId
                    THEN t.deleted \cup {e.id} ELSE t.deleted
  \/ /\ t.ok /\ IsValid(e) /\ e.id \notin t.deleted /\ Key(e) \notin DOMAIN t.xref
     /\ u.ok /\ u.deleted = t.deleted
     /\ DOMAIN u.xref = DOMAIN t.xref \cup {Key(e)}
     /\ u.xref[Key(e)] = e
     /\ \A og \in DOMAIN t.xref : u.xref[og] = t.xref[og]
  \/ /\ t.ok /\ e.kind \notin {"free", "bad"}
     /\ ~IsValid(e) \/ e.id \in t.deleted \/ Key(e) \in DOMAIN t.xref
     /\ u.ok /\ u.xref = t.xref /\ u.deleted = t.deleted

LEMMA TableFacts ==
  ASSUME NEW c, NEW t \in TablesOf(c)
  PROVE  /\ t.xref \in Xrefs /\ t.deleted \in SUBSET Nat /\ t.ok \in BOOLEAN /\ t.cached = c
         /\ \A y : [t EXCEPT !.xref = y] =
                   [xref |-> y, deleted |-> t.deleted, cached |-> c, ok |-> t.ok]
         /\ \A d : [t EXCEPT !.deleted = d] =
                   [xref |-> t.xref, deleted |-> d, cached |-> c, ok |-> t.ok]
<1>1. /\ t.xref \in Xrefs /\ t.deleted \in SUBSET Nat /\ t.ok \in BOOLEAN /\ t.cached = c
      /\ t = [xref |-> t.xref, deleted |-> t.deleted, cached |-> t.cached, ok |-> t.ok]
  BY DEF TablesOf
<1>2. \A y : [t EXCEPT !.xref = y] =
              [xref |-> y, deleted |-> t.deleted, cached |-> c, ok |-> t.ok]
  BY <1>1
<1>3. \A d : [t EXCEPT !.deleted = d] =
              [xref |-> t.xref, deleted |-> d, cached |-> c, ok |-> t.ok]
  BY <1>1
<1> QED
  BY <1>1, <1>2, <1>3

LEMMA InsertFacts ==
  ASSUME NEW c, NEW t \in TablesOf(c), NEW e \in Entries
  PROVE  Insert(t, e) \in TablesOf(c) /\ Inserts(t, e, Insert(t, e))
<1> DEFINE u == Insert(t, e)
<1>t. t.xref \in Xrefs /\ t.deleted \in SUBSET Nat /\ t.ok \in BOOLEAN /\ e.id \in Nat
  BY TableFacts DEF Entries
<1>1. CASE ~t.ok \/ e.kind = "bad"
  <2>1. u = [t EXCEPT !.ok = FALSE]
    BY <1>1 DEF Insert
  <2>2. u \in TablesOf(c) /\ u.xref = t.xref /\ u.deleted = t.deleted
    BY <2>1 DEF TablesOf
  <2>3. u.ok = FALSE
    BY <2>1 DEF TablesOf
  <2> QED
    BY <1>1, <2>2, <2>3 DEF Inserts
<1>2. CASE t.ok /\ e.kind = "free"
  <2> DEFINE d == IF Key(e) \notin DOMAIN t.xref /\ e.id <= MaxId
                  THEN t.deleted \cup {e.id} ELSE t.deleted
  <2>1. u = [xref |-> t.xref, deleted |-> d, cached |-> c, ok |-> TRUE]
    <3>1. t = [xref |-> t.xref, deleted |-> t.deleted, cached |-> c, ok |-> TRUE]
      BY <1>2 DEF TablesOf
    <3>2. CASE Key(e) \notin DOMAIN t.xref /\ e.id <= MaxId
      BY <1>2, <3>2, TableFacts DEF Insert, InsertFreeXrefEntry
    <3>3. CASE ~(Key(e) \notin DOMAIN t.xref /\ e.id <= MaxId)
      BY <1>2, <3>1, <3>3 DEF Insert, InsertFreeXrefEntry
    <3> QED
      BY <3>2, <3>3
  <2>2. d \in SUBSET Nat
    BY <1>t
  <2> HIDE DEF d
  <2>3. u \in TablesOf(c) /\ u.ok /\ u.xref = t.xref /\ u.deleted = d
    BY <1>t, <2>1, <2>2 DEF TablesOf
  <2> QED
    BY <1>2, <2>3 DEF Inserts, d
<1>3. CASE t.ok /\ e.kind \notin {"free", "bad"}
  <2>1. CASE IsValid(e) /\ e.id \notin t.deleted /\ Key(e) \notin DOMAIN t.xref
    <3> DEFINE y == With(t.xref, Key(e), e)
    <3>1. u = [xref |-> y, deleted |-> t.deleted, cached |-> c, ok |-> TRUE]
      BY <1>3, <2>1, TableFacts DEF Insert, InsertXrefEntry
    <3>2. /\ y \in Xrefs /\ DOMAIN y = DOMAIN t.xref \cup {Key(e)} /\ y[Key(e)] = e
          /\ \A og \in DOMAIN t.xref : y[og] = t.xref[og]
      BY <1>t, <2>1, WithFacts
    <3> HIDE DEF y
    <3>3. u \in TablesOf(c) /\ u.ok /\ u.xref = y /\ u.deleted = t.deleted
      BY <1>t, <3>1, <3>2 DEF TablesOf
    <3> QED
      BY <1>3, <2>1, <3>2, <3>3 DEF Inserts
  <2>2. CASE ~(IsValid(e) /\ e.id \notin t.deleted /\ Key(e) \notin DOMAIN t.xref)
    <3>1. u = t
      BY <1>t, <1>3, <2>2 DEF Insert, InsertXrefEntry
    <3> QED
      BY <1>3, <2>2, <3>1 DEF Inserts
  <2> QED
    BY <2>1, <2>2
<1> QED
  BY <1>t, <1>1, <1>2, <1>3

(* Entries are inserted one after the other.                               *)
LEMMA OneAfterTheOther ==
  ASSUME NEW c, NEW t \in TablesOf(c), NEW es \in Seq(Entries)
  PROVE  \E f \in [0..Len(es) -> TablesOf(c)] :
           /\ f[0] = t
           /\ \A n \in 1..Len(es) : f[n] = Insert(f[n - 1], es[n])
           /\ InsertAll(t, es) = f[Len(es)]
<1> DEFINE m == Len(es)
<1> DEFINE D == TablesOf(c)
<1>1. m \in Nat /\ \A n \in 1..m : es[n] \in Entries
  OBVIOUS
<1> DEFINE step == [p \in (1..m) \X D |-> Insert(p[2], es[p[1]])]
<1>2. ASSUME NEW n \in 1..m, NEW d \in D
      PROVE  step[<<n, d>>] = Insert(d, es[n]) /\ step[<<n, d>>] \in D
  <2>1. step[<<n, d>>] = Insert(d, es[n]) /\ es[n] \in Entries
    BY <1>1
  <2> QED
    BY <2>1, InsertFacts
<1> DEFINE Rec(f) == f = [n \in 0..m |-> IF n = 0 THEN t ELSE Insert(f[n - 1], es[n])]
<1> HIDE DEF step
<1>4. ASSUME NEW f \in [0..m -> D],
             f[0] = t, \A n \in 1..m : f[n] = step[<<n, f[n - 1]>>]
      PROVE  Rec(f)
  <2>1. \A n \in 0..m : f[n] = IF n = 0 THEN t ELSE Insert(f[n - 1], es[n])
    <3> SUFFICES ASSUME NEW n \in 0..m PROVE f[n] = IF n = 0 THEN t ELSE Insert(f[n - 1], es[n])
      OBVIOUS
    <3>1. n # 0 => n \in 1..m /\ f[n - 1] \in D
      BY <1>1
    <3> HIDE DEF D
    <3> QED
      BY <1>2, <1>4, <3>1
  <2>2. f = [n \in 0..m |-> f[n]]
    OBVIOUS
  <2> HIDE DEF D
  <2> QED
    BY <2>1, <2>2
<1>5. \E f : Rec(f)
  <2> HIDE DEF Rec, D, m
  <2>1. t \in D /\ m \in Nat /\ \A n \in 1..m, d \in D : step[<<n, d>>] \in D
    BY <1>1, <1>2 DEF D
  <2>2. PICK f : IsRun(f, m, D, t, step)
    BY <2>1, RecursionTo
  <2> QED
    BY <1>4, <2>2 DEF IsRun
<1> DEFINE g == CHOOSE f : Rec(f)
<1>6. Rec(g)
  <2> HIDE DEF Rec
  <2> QED
    BY <1>5
<1>7. InsertAll(t, es) = g[m]
  BY DEF InsertAll
<1> HIDE DEF g
<1>8. g[0] = t /\ \A n \in 1..m : g[n] = Insert(g[n - 1], es[n])
  <2> HIDE DEF D
  <2> QED
    BY <1>1, <1>6
<1> DEFINE S == {n \in Nat : n <= m => g[n] \in D}
<1>9. 0 \in S
  BY <1>8
<1>10. ASSUME NEW n \in Nat, n \in S PROVE n + 1 \in S
  <2>1. CASE n + 1 <= m
    <3>1. g[n] \in D /\ n + 1 \in 1..m /\ (n + 1) - 1 = n
      BY <1>1, <1>10, <2>1
    <3>2. g[n + 1] = Insert(g[n], es[n + 1]) /\ es[n + 1] \in Entries
      BY <1>1, <1>8, <3>1
    <3>3. g[n + 1] \in D
      BY <3>1, <3>2, InsertFacts
    <3> QED
      BY <3>3
  <2> QED
    BY <2>1
<1>11. \A n \in Nat : n \in S
  <2> HIDE DEF S
  <2> QED
    BY <1>9, <1>10, InductionOver
<1>12. g \in [0..m -> D]
  <2>1. \A n \in 0..m : g[n] \in D
    BY <1>1, <1>11
  <2> HIDE DEF D
  <2> QED
    BY <1>6, <2>1
<1> QED
  BY <1>7, <1>8, <1>12

(* What n entries have done to a table t: all that it had is there, what   *)
(* is new comes from the first entry for it, what is known to be free from *)
(* a free entry, and no valid entry is missing.                            *)
Effect(t, es, u, n) ==
  /\ \A og \in DOMAIN t.xref : og \in DOMAIN u.xref /\ u.xref[og] = t.xref[og]
  /\ \A og \in DOMAIN u.xref \ DOMAIN t.xref : \E k \in 1..n :
       /\ IsValid(es[k]) /\ Key(es[k]) = og /\ u.xref[og] = es[k]
       /\ \A j \in 1..n : IsValid(es[j]) /\ Key(es[j]) = og => k <= j
  /\ t.deleted \subseteq u.deleted
  /\ \A i \in u.deleted \ t.deleted : \E k \in 1..n : es[k].kind = "free" /\ es[k].id = i
  /\ u.ok => \A k \in 1..n : IsValid(es[k]) => Key(es[k]) \in DOMAIN u.xref \/ es[k].id \in u.deleted
  /\ t.ok /\ (\A k \in 1..n : es[k].kind # "bad") => u.ok

LEMMA OneMore ==
  ASSUME NEW c, NEW t \in TablesOf(c), NEW es \in Seq(Entries), NEW n \in Nat, n + 1 <= Len(es),
         NEW u \in TablesOf(c), Effect(t, es, u, n)
  PROVE  Effect(t, es, Insert(u, es[n + 1]), n + 1)
<1> DEFINE e == es[n + 1]
<1> DEFINE v == Insert(u, e)
<1>1. /\ n + 1 \in 1..Len(es) /\ e \in Entries /\ Inserts(u, e, v) /\ v \in TablesOf(c)
      /\ 1..(n + 1) = 1..n \cup {n + 1}
      /\ \A k \in 1..n : k \in 1..Len(es) /\ es[k] \in Entries
  <2>1. n + 1 \in 1..Len(es) /\ e \in Entries /\ 1..(n + 1) = 1..n \cup {n + 1}
    OBVIOUS
  <2>2. \A k \in 1..n : k \in 1..Len(es) /\ es[k] \in Entries
    OBVIOUS
  <2> HIDE DEF e
  <2> QED
    BY <2>1, <2>2, InsertFacts
<1> HIDE DEF v
<1>2. /\ u.deleted \subseteq v.deleted
      /\ \A og \in DOMAIN u.xref : og \in DOMAIN v.xref /\ v.xref[og] = u.xref[og]
  BY <1>1 DEF Inserts
<1>3. \A og \in DOMAIN t.xref : og \in DOMAIN v.xref /\ v.xref[og] = t.xref[og]
  BY <1>2 DEF Effect
<1>4. ASSUME NEW og \in DOMAIN v.xref \ DOMAIN t.xref
      PROVE  \E k \in 1..(n + 1) :
               /\ IsValid(es[k]) /\ Key(es[k]) = og /\ v.xref[og] = es[k]
               /\ \A j \in 1..(n + 1) : IsValid(es[j]) /\ Key(es[j]) = og => k <= j
  <2>1. CASE og \in DOMAIN u.xref
    <3>1. PICK k \in 1..n :
            /\ IsValid(es[k]) /\ Key(es[k]) = og /\ u.xref[og] = es[k]
            /\ \A j \in 1..n : IsValid(es[j]) /\ Key(es[j]) = og => k <= j
      BY <1>4, <2>1 DEF Effect
    <3>2. k \in 1..(n + 1) /\ \A j \in 1..(n + 1) : j \in 1..n \/ k <= j
      OBVIOUS
    <3> QED
      BY <1>2, <2>1, <3>1, <3>2
  <2>2. CASE og \notin DOMAIN u.xref
    <3>1. u.ok /\ IsValid(e) /\ e.id \notin u.deleted /\ Key(e) = og /\ v.xref[og] = e
      BY <1>1, <1>4, <2>2 DEF Inserts
    <3>2. ASSUME NEW j \in 1..n, IsValid(es[j]), Key(es[j]) = og
          PROVE  FALSE
      <4>1. es[j].id = og[1] /\ e.id = og[1]
        BY <1>1, <3>1, <3>2, KeyType
      <4> QED
        BY <2>2, <3>1, <3>2, <4>1 DEF Effect
    <3>3. \A j \in 1..(n + 1) : IsValid(es[j]) /\ Key(es[j]) = og => n + 1 <= j
      BY <1>1, <3>2
    <3> QED
      BY <1>1, <3>1, <3>3
  <2> QED
    BY <2>1, <2>2
<1>5. t.deleted \subseteq v.deleted
  BY <1>2 DEF Effect
<1>6. ASSUME NEW i \in v.deleted \ t.deleted
      PROVE  \E k \in 1..(n + 1) : es[k].kind = "free" /\ es[k].id = i
  <2>1. CASE i \in u.deleted
    <3>1. \E k \in 1..n : es[k].kind = "free" /\ es[k].id = i
      BY <1>6, <2>1 DEF Effect
    <3> QED
      BY <1>1, <3>1
  <2>2. CASE i \notin u.deleted
    <3>1. e.kind = "free" /\ e.id = i
      BY <1>1, <1>6, <2>2 DEF Inserts
    <3> QED
      BY <1>1, <3>1
  <2> QED
    BY <2>1, <2>2
<1>7. ASSUME v.ok, NEW k \in 1..(n + 1), IsValid(es[k])
      PROVE  Key(es[k]) \in DOMAIN v.xref \/ es[k].id \in v.deleted
  <2>1. u.ok /\ e.kind # "bad"
    BY <1>1, <1>7 DEF Inserts, IsValid
  <2>2. CASE k \in 1..n
    BY <1>2, <1>7, <2>1, <2>2 DEF Effect
  <2>3. CASE k = n + 1
    <3>1. e.kind # "free"
      BY <1>7, <2>3 DEF IsValid
    <3> QED
      BY <1>1, <1>7, <2>1, <2>3, <3>1 DEF Inserts
  <2> QED
    BY <1>1, <2>2, <2>3
<1>8. ASSUME t.ok, \A k \in 1..(n + 1) : es[k].kind # "bad"
      PROVE  v.ok
  <2>1. u.ok /\ e.kind # "bad"
    BY <1>1, <1>8 DEF Effect
  <2> QED
    BY <1>1, <2>1 DEF Inserts
<1>9. Effect(t, es, v, n + 1)
  BY <1>3, <1>4, <1>5, <1>6, <1>7, <1>8 DEF Effect
<1> QED
  BY <1>9 DEF v

LEMMA InsertAllEffect ==
  ASSUME NEW c, NEW t \in TablesOf(c), NEW es \in Seq(Entries)
  PROVE  InsertAll(t, es) \in TablesOf(c) /\ Effect(t, es, InsertAll(t, es), Len(es))
<1>1. PICK f \in [0..Len(es) -> TablesOf(c)] :
        /\ f[0] = t
        /\ \A n \in 1..Len(es) : f[n] = Insert(f[n - 1], es[n])
        /\ InsertAll(t, es) = f[Len(es)]
  BY OneAfterTheOther
<1> DEFINE S == {n \in Nat : n <= Len(es) => Effect(t, es, f[n], n)}
<1>2. 0 \in S
  <2>1. t.ok \in BOOLEAN
    BY TableFacts
  <2> QED
    BY <1>1, <2>1 DEF Effect
<1>3. ASSUME NEW n \in Nat, n \in S PROVE n + 1 \in S
  <2>1. CASE n + 1 <= Len(es)
    <3>1. n \in 0..Len(es) /\ n + 1 \in 1..Len(es) /\ (n + 1) - 1 = n
      BY <2>1
    <3>2. f[n] \in TablesOf(c) /\ f[n + 1] = Insert(f[n], es[n + 1]) /\ Effect(t, es, f[n], n)
      BY <1>1, <1>3, <3>1
    <3>3. Effect(t, es, f[n + 1], n + 1)
      BY <2>1, <3>2, OneMore
    <3> QED
      BY <3>3
  <2> QED
    BY <2>1
<1>4. \A n \in Nat : n \in S
  <2> HIDE DEF S
  <2> QED
    BY <1>2, <1>3, InductionOver
<1> QED
  BY <1>1, <1>4

-----------------------------------------------------------------------------
(* Files and their entries.                                                *)

LEMMA FileFacts ==
  ASSUME file \in Files
  PROVE  /\ Len(file.sections) \in Nat /\ DOMAIN file.sections = 1..Len(file.sections)
         /\ \A k \in DOMAIN file.sections :
              /\ file.sections[k].kind \in {"table", "stream", "junk"}
              /\ file.sections[k].entries \in Seq(Entries)
              /\ file.sections[k].prev \in 0..Len(file.sections) \cup {-1}
              /\ file.sections[k].stm \in 0..Len(file.sections)
         /\ file.start \in 0..Len(file.sections) /\ file.late \in 0..Len(file.sections)
         /\ Len(file.objects) \in Nat /\ DOMAIN file.objects = 1..Len(file.objects)
         /\ \A k \in DOMAIN file.objects :
              /\ file.objects[k].id \in Nat /\ file.objects[k].gen \in Nat
              /\ file.objects[k].xref \in 0..Len(file.sections)
<1>1. IsFile(file)
  BY ConstantsAssumption
<1> DEFINE offsets == 0..Len(file.sections)
<1> DEFINE Sections == [kind : {"table", "stream", "junk"}, self : Nat, entries : Seq(Entries),
                        prev : offsets \cup {-1}, stm : offsets, size : Int]
<1> DEFINE Found1 == [id : Nat, gen : Nat, xref : offsets]
<1>2. /\ file.sections \in Seq(Sections) /\ file.objects \in Seq(Found1)
      /\ file.start \in offsets /\ file.late \in offsets
  BY <1>1 DEF IsFile
<1>3. \A k \in DOMAIN file.sections : file.sections[k] \in Sections
  <2> HIDE DEF Sections
  <2> QED
    BY <1>2
<1>4. \A k \in DOMAIN file.objects : file.objects[k] \in Found1
  <2> HIDE DEF Found1
  <2> QED
    BY <1>2
<1>5. /\ Len(file.sections) \in Nat /\ DOMAIN file.sections = 1..Len(file.sections)
      /\ Len(file.objects) \in Nat /\ DOMAIN file.objects = 1..Len(file.objects)
  <2> HIDE DEF Sections, Found1
  <2> QED
    BY <1>2
<1> QED
  BY <1>2, <1>3, <1>4, <1>5

(* What becomes of an entry of a stream.  Faithful is what holds outside   *)
(* of recovery.                                                            *)
Derived(d, e) ==
  /\ d \in Entries /\ e \in Entries
  /\ d.id = e.id
  /\ IsValid(d) => d = e
  /\ d.kind = "free" => e.kind = "free"

Faithful(d, e) ==
  /\ IsValid(e) => d = e
  /\ e.kind = "free" /\ e.id # 0 => d.kind = "free"

LEMMA FromStreamFacts ==
  ASSUME NEW es \in Seq(Entries), NEW recovery \in BOOLEAN
  PROVE  LET ds == FromStream(es, recovery)
         IN  /\ ds \in Seq(Entries) /\ Len(ds) = Len(es)
             /\ \A k \in 1..Len(es) :
                  /\ Derived(ds[k], es[k])
                  /\ ~recovery => Faithful(ds[k], es[k])
                  /\ recovery /\ IsValid(ds[k]) => ds[k].kind # "plain"
<1> DEFINE ds == FromStream(es, recovery)
<1> DEFINE m == Len(es)
<1>1. m \in Nat /\ DOMAIN es = 1..m /\ \A k \in 1..m : es[k] \in Entries
  OBVIOUS
<1>2. ASSUME NEW k \in 1..m
      PROVE  /\ Derived(ds[k], es[k])
             /\ ~recovery => Faithful(ds[k], es[k])
             /\ recovery /\ IsValid(ds[k]) => ds[k].kind # "plain"
  <2> DEFINE e == es[k]
  <2>1. /\ e \in Entries
        /\ ds[k] = IF e.id = 0 \/ (recovery /\ e.kind = "plain") THEN [e EXCEPT !.kind = "other"]
                   ELSE IF e.kind = "free" THEN [e EXCEPT !.gen = 0]
                   ELSE e
    BY <1>1 DEF FromStream
  <2> HIDE DEF e, ds
  <2>2. CASE e.id = 0 \/ (recovery /\ e.kind = "plain")
    <3>1. ds[k] = [e EXCEPT !.kind = "other"]
      BY <2>1, <2>2
    <3>2. ds[k] \in Entries /\ ds[k].id = e.id /\ ds[k].kind = "other"
      BY <2>1, <3>1 DEF Entries
    <3>3. ~IsValid(ds[k]) /\ (~recovery => ~IsValid(e))
      BY <2>2, <3>2 DEF IsValid
    <3> QED
      BY <2>1, <2>2, <3>2, <3>3 DEF Derived, Faithful, e
  <2>3. CASE ~(e.id = 0 \/ (recovery /\ e.kind = "plain")) /\ e.kind = "free"
    <3>1. ds[k] = [e EXCEPT !.gen = 0]
      BY <2>1, <2>3
    <3>2. ds[k] \in Entries /\ ds[k].id = e.id /\ ds[k].kind = "free"
      <4>1. e = [id |-> e.id, gen |-> e.gen, kind |-> "free", at |-> e.at]
            /\ e.id \in Nat /\ e.at \in Nat
        BY <2>1, <2>3 DEF Entries
      <4>2. ds[k] = [id |-> e.id, gen |-> 0, kind |-> "free", at |-> e.at]
        BY <3>1, <4>1
      <4> QED
        BY <4>1, <4>2 DEF Entries
    <3>3. ~IsValid(ds[k]) /\ ~IsValid(e)
      BY <2>3, <3>2 DEF IsValid
    <3> QED
      BY <2>1, <2>3, <3>2, <3>3 DEF Derived, Faithful, e
  <2>4. CASE ~(e.id = 0 \/ (recovery /\ e.kind = "plain")) /\ e.kind # "free"
    <3>1. ds[k] = e
      BY <2>1, <2>4
    <3> QED
      BY <2>1, <2>4, <3>1 DEF Derived, Faithful, e
  <2> QED
    BY <2>2, <2>3, <2>4
<1>3. ds = [k \in 1..m |-> ds[k]]
  BY <1>1 DEF FromStream
<1>4. ds \in Seq(Entries) /\ Len(ds) = m
  <2>1. \A k \in 1..m : ds[k] \in Entries
    BY <1>2 DEF Derived
  <2> HIDE DEF ds, m
  <2> QED
    BY <1>1, <1>3, <2>1
<1> QED
  BY <1>2, <1>4

-----------------------------------------------------------------------------
(* What reading a section leaves of the table, and what it adds to it.     *)

FreeIds == {i \in Nat : \E e \in Said : e.kind = "free" /\ e.id = i}

Grows(t, u, E) ==
  /\ \A og \in DOMAIN t.xref : og \in DOMAIN u.xref /\ u.xref[og] = t.xref[og]
  /\ \A og \in DOMAIN u.xref \ DOMAIN t.xref : u.xref[og] \in E
  /\ t.deleted \subseteq u.deleted /\ u.deleted \subseteq t.deleted \cup FreeIds

LEMMA EntriesAreSaid ==
  ASSUME file \in Files, NEW k \in DOMAIN file.sections
  PROVE  LET es == file.sections[k].entries
             m == file.sections[k].stm
         IN  /\ es \in Seq(Entries) /\ \A i \in 1..Len(es) : es[i] \in Said /\ es[i] \in Entries
             /\ file.sections[k].kind = "table" => \A i \in 1..Len(es) : es[i] \in Tabled
             /\ file.sections[k].kind = "table" /\ m # 0 =>
                  /\ m \in DOMAIN file.sections
                  /\ \A i \in 1..Len(file.sections[m].entries) :
                       file.sections[m].entries[i] \in Tabled
<1> DEFINE es == file.sections[k].entries
<1> DEFINE m == file.sections[k].stm
<1>1. es \in Seq(Entries) /\ m \in 0..Len(file.sections) /\ k # 0
      /\ DOMAIN file.sections = 1..Len(file.sections) /\ Len(file.sections) \in Nat
  BY FileFacts
<1>2. \A s \in Seq(Entries) : \A i \in 1..Len(s) : s[i] \in Range(s) /\ s[i] \in Entries
  BY DEF Range
<1>3. \A i \in 1..Len(es) : es[i] \in Said /\ es[i] \in Entries
  BY <1>1, <1>2 DEF Said
<1>4. ASSUME file.sections[k].kind = "table"
      PROVE  \A i \in 1..Len(es) : es[i] \in Tabled
  BY <1>1, <1>2, <1>4 DEF Tabled
<1>5. ASSUME file.sections[k].kind = "table", m # 0
      PROVE  /\ m \in DOMAIN file.sections
             /\ \A i \in 1..Len(file.sections[m].entries) :
                  file.sections[m].entries[i] \in Tabled
  <2>1. m \in DOMAIN file.sections
    BY <1>1, <1>5
  <2>2. file.sections[m].entries \in Seq(Entries)
    BY <2>1, FileFacts
  <2> QED
    BY <1>2, <1>5, <2>1, <2>2 DEF Tabled
<1> QED
  BY <1>1, <1>3, <1>4, <1>5

LEMMA InsertAllGrows ==
  ASSUME NEW c, NEW t \in TablesOf(c), NEW es \in Seq(Entries), NEW ds \in Seq(Entries),
         Len(ds) = Len(es), NEW E,
         \A k \in 1..Len(es) : /\ Derived(ds[k], es[k]) /\ es[k] \in Said
                               /\ IsValid(ds[k]) => es[k] \in E
  PROVE  InsertAll(t, ds) \in TablesOf(c) /\ Grows(t, InsertAll(t, ds), E)
<1> DEFINE u == InsertAll(t, ds)
<1>1. u \in TablesOf(c) /\ Effect(t, ds, u, Len(es))
  BY InsertAllEffect
<1> HIDE DEF u
<1>2. \A og \in DOMAIN t.xref : og \in DOMAIN u.xref /\ u.xref[og] = t.xref[og]
  BY <1>1 DEF Effect
<1>3. ASSUME NEW og \in DOMAIN u.xref \ DOMAIN t.xref
      PROVE  u.xref[og] \in E
  <2>1. PICK k \in 1..Len(es) : IsValid(ds[k]) /\ u.xref[og] = ds[k]
    BY <1>1 DEF Effect
  <2> QED
    BY <2>1 DEF Derived
<1>4. ASSUME NEW i \in u.deleted \ t.deleted
      PROVE  i \in FreeIds
  <2>1. PICK k \in 1..Len(es) : ds[k].kind = "free" /\ ds[k].id = i
    BY <1>1 DEF Effect
  <2>2. es[k] \in Said /\ es[k].kind = "free" /\ es[k].id = i /\ es[k] \in Entries
    BY <2>1 DEF Derived
  <2> QED
    BY <2>2 DEF FreeIds, Entries
<1>5. t.deleted \subseteq u.deleted
  BY <1>1 DEF Effect
<1>6. Grows(t, u, E)
  BY <1>2, <1>3, <1>4, <1>5 DEF Grows
<1> QED
  BY <1>1, <1>6 DEF u

LEMMA CacheStreamFacts ==
  ASSUME NEW c, NEW t \in TablesOf(c), NEW og
  PROVE  \E c1 : /\ CacheStream(t, og) \in TablesOf(c1)
                 /\ CacheStream(t, og).xref = t.xref
                 /\ CacheStream(t, og).deleted = t.deleted
                 /\ CacheStream(t, og).ok = t.ok
<1>1. CASE CacheStream(t, og) = t
  BY <1>1
<1>2. CASE CacheStream(t, og) # t
  <2> DEFINE c1 == With(t.cached, og, "xref")
  <2>1. CacheStream(t, og) = [t EXCEPT !.cached = c1]
    BY <1>2 DEF CacheStream
  <2>2. [t EXCEPT !.cached = c1] \in TablesOf(c1)
        /\ [t EXCEPT !.cached = c1].xref = t.xref
        /\ [t EXCEPT !.cached = c1].deleted = t.deleted
        /\ [t EXCEPT !.cached = c1].ok = t.ok
    <3> HIDE DEF c1
    <3> QED
      BY DEF TablesOf
  <2> QED
    BY <2>1, <2>2
<1> QED
  BY <1>1, <1>2

Alike(t, u) == t.xref = u.xref /\ t.deleted = u.deleted /\ t.ok = u.ok

(* v is u with the entries ds inserted, after an object has been cached.   *)
Takes(u, ds, v) == \E c, t : t \in TablesOf(c) /\ Alike(t, u) /\ v = InsertAll(t, ds)

(* The entries of section k that are kept are in E.                        *)
Supplies(k, recovery, E) ==
  LET es == file.sections[k].entries
  IN  \A i \in 1..Len(es) : ~(recovery /\ es[i].kind = "plain") => es[i] \in E

(* r is what reading the stream k into the table t may return.             *)
ReadsStream(r, t, k, recovery, E) ==
  /\ r.ok \in BOOLEAN
  /\ \E c : r.t \in TablesOf(c)
  /\ Grows(t, r.t, E)
  /\ r.ok => /\ r.next = file.sections[k].prev /\ r.next # -1
             /\ Takes(t, FromStream(file.sections[k].entries, recovery), r.t)
             /\ t.ok => r.t.ok

LEMMA ReadStreamFacts ==
  ASSUME file \in Files, NEW c, NEW t \in TablesOf(c), NEW k \in DOMAIN file.sections,
         NEW recovery \in BOOLEAN, NEW E, Supplies(k, recovery, E)
  PROVE  ReadsStream(ReadXrefStream(t, k, recovery), t, k, recovery, E)
<1> DEFINE r == ReadXrefStream(t, k, recovery)
<1> DEFINE sec == file.sections[k]
<1> DEFINE es == sec.entries
<1> DEFINE ds == FromStream(es, recovery)
<1>1. /\ es \in Seq(Entries) /\ sec.prev \in 0..Len(file.sections) \cup {-1}
      /\ \A i \in 1..Len(es) : es[i] \in Said
  BY FileFacts, EntriesAreSaid
<1> DEFINE fails == IgnoreStreams \/ sec.kind # "stream" \/ sec.size < 0 \/ ~Readable(es)
<1>2. CASE fails
  <2> DEFINE t1 == CacheStream(t, <<sec.self, 0>>)
  <2>1. /\ r.ok = FALSE
        /\ r.t = t \/ r.t = t1
    <3>1. \/ r = [ok |-> FALSE, t |-> t, next |-> 0, dict |-> FALSE]
          \/ r = [ok |-> FALSE, t |-> t1, next |-> 0, dict |-> FALSE]
      BY <1>2 DEF ReadXrefStream
    <3> HIDE DEF t1, r
    <3> QED
      BY <3>1
  <2>2. \E c1 : t1 \in TablesOf(c1) /\ t1.xref = t.xref /\ t1.deleted = t.deleted
    BY CacheStreamFacts
  <2> HIDE DEF r, t1
  <2>3. (\E c1 : r.t \in TablesOf(c1)) /\ r.t.xref = t.xref /\ r.t.deleted = t.deleted
    BY <2>1, <2>2
  <2>4. Grows(t, r.t, E)
    BY <2>3 DEF Grows
  <2> QED
    BY <2>1, <2>3, <2>4 DEF ReadsStream, r
<1>3. CASE ~fails
  <2> DEFINE t1 == CacheStream(t, <<sec.self, 0>>)
  <2>1. r = [ok |-> sec.prev # -1, t |-> InsertAll(t1, ds), next |-> sec.prev, dict |-> TRUE]
    BY <1>3 DEF ReadXrefStream
  <2>2. PICK c1 : t1 \in TablesOf(c1) /\ t1.xref = t.xref /\ t1.deleted = t.deleted /\ t1.ok = t.ok
    BY CacheStreamFacts
  <2> HIDE DEF t1
  <2>3. /\ ds \in Seq(Entries) /\ Len(ds) = Len(es)
        /\ \A i \in 1..Len(es) :
             Derived(ds[i], es[i]) /\ (recovery /\ IsValid(ds[i]) => ds[i].kind # "plain")
    BY <1>1, FromStreamFacts
  <2> DEFINE u == InsertAll(t1, ds)
  <2>4. u \in TablesOf(c1) /\ Grows(t1, u, E)
    <3>1. \A i \in 1..Len(es) : IsValid(ds[i]) => es[i] \in E
      BY <2>3 DEF Derived, Supplies
    <3> HIDE DEF ds, es
    <3> QED
      BY <1>1, <2>2, <2>3, <3>1, InsertAllGrows
  <2>5. ASSUME t.ok PROVE u.ok
    <3>1. \A i \in 1..Len(es) : ds[i].kind # "bad"
      <4>1. \A i \in 1..Len(es) : es[i].kind # "bad"
        BY <1>1, <1>3 DEF Readable
      <4>2. ASSUME NEW i \in 1..Len(es) PROVE ds[i].kind \in {"other", es[i].kind}
        <5>1. i \in DOMAIN es /\ es[i] \in Entries
          BY <1>1
        <5>2. ds[i] \in {[es[i] EXCEPT !.kind = "other"], [es[i] EXCEPT !.gen = 0], es[i]}
          BY <5>1, Zenon DEF FromStream
        <5> QED
          BY <5>1, <5>2 DEF Entries
      <4> QED
        BY <4>1, <4>2
    <3> HIDE DEF ds, es
    <3>2. Effect(t1, ds, u, Len(es))
      <4>1. t1 \in TablesOf(c1) /\ ds \in Seq(Entries) /\ Len(ds) = Len(es)
        BY <2>2, <2>3
      <4>2. Effect(t1, ds, u, Len(ds))
        BY <4>1, InsertAllEffect
      <4> QED
        BY <4>1, <4>2
    <3> HIDE DEF u
    <3> QED
      BY <2>2, <2>5, <3>1, <3>2 DEF Effect
  <2>6. Grows(t, u, E)
    BY <2>2, <2>4 DEF Grows
  <2>7. r.ok = (sec.prev # -1) /\ r.t = u /\ r.next = sec.prev
    BY <2>1
  <2> HIDE DEF u, r, ds, es, sec
  <2>8. u = InsertAll(t1, ds)
    BY DEF u
  <2>9. r.ok => r.next = sec.prev /\ r.next # -1
    BY <2>7
  <2>10. Takes(t, ds, r.t)
    BY <2>2, <2>7, <2>8 DEF Takes, Alike
  <2>11. r.ok \in BOOLEAN /\ (\E c2 : r.t \in TablesOf(c2)) /\ Grows(t, r.t, E) /\ (t.ok => r.t.ok)
    BY <2>4, <2>5, <2>6, <2>7
  <2> QED
    BY <2>9, <2>10, <2>11 DEF ReadsStream, r, ds, es, sec
<1> QED
  BY <1>2, <1>3

(* The entries that the section off may add to the table.                  *)
Allowed == {e \in Said : mode = "streams" /\ e.kind = "plain" => e \in Tabled}

LEMMA TableIsTable ==
  ASSUME xref \in Xrefs, deleted \in SUBSET Nat
  PROVE  /\ Table \in TablesOf(cached)
         /\ Table.xref = xref /\ Table.deleted = deleted /\ Table.ok = TRUE
BY DEF Table, TablesOf

(* Reading a table inserts its entries, and reading its /XRefStm those of  *)
(* that, unless there is an exception.                                     *)
LEMMA ReadTableFacts ==
  ASSUME file \in Files, xref \in Xrefs, deleted \in SUBSET Nat,
         NEW k \in DOMAIN file.sections, file.sections[k].kind = "table"
  PROVE  LET r == ReadXrefTable(Table, k)
             u == InsertAll(Table, file.sections[k].entries)
         IN  /\ r.t = u /\ u \in TablesOf(cached)
             /\ Grows(Table, u, Allowed)
             /\ r.ok => u.ok
             /\ r.ok /\ StmOf(k) = 0 => r.next = file.sections[k].prev /\ r.next # -1
<1> DEFINE r == ReadXrefTable(Table, k)
<1> DEFINE sec == file.sections[k]
<1> DEFINE es == sec.entries
<1> DEFINE u == InsertAll(Table, es)
<1>1. /\ es \in Seq(Entries)
      /\ \A i \in 1..Len(es) : es[i] \in Said /\ es[i] \in Tabled /\ es[i] \in Entries
  BY EntriesAreSaid
<1>2. u \in TablesOf(cached) /\ Grows(Table, u, Allowed)
  <2>1. \A i \in 1..Len(es) : Derived(es[i], es[i]) /\ es[i] \in Said /\ es[i] \in Allowed
    BY <1>1 DEF Derived, Allowed
  <2> HIDE DEF es
  <2> QED
    BY <1>1, <2>1, TableIsTable, InsertAllGrows
<1>3. r.t = u /\ (r.ok => u.ok) /\ (r.ok /\ StmOf(k) = 0 => r.next = sec.prev /\ r.next # -1)
  <2> DEFINE sized == trailer # NoTrailer \/ sec.size # -1
  <2> DEFINE b == u.ok /\ sized /\ (StmOf(k) = 0 => sec.prev # -1)
  <2>1. r = [ok |-> b, t |-> u, next |-> sec.prev, dict |-> u.ok]
    BY Zenon DEF ReadXrefTable
  <2>2. b => u.ok /\ (StmOf(k) = 0 => sec.prev # -1)
    OBVIOUS
  <2> HIDE DEF r, b, u, sec
  <2>3. r.ok = b /\ r.t = u /\ r.next = sec.prev
    BY <2>1
  <2> QED
    BY <2>2, <2>3
<1> QED
  BY <1>2, <1>3

LEMMA ReadStmFacts ==
  ASSUME file \in Files, xref \in Xrefs, deleted \in SUBSET Nat,
         NEW k \in DOMAIN file.sections, StmOf(k) # 0
  PROVE  LET r == ReadXrefStm(Table, k)
             ds == FromStream(file.sections[StmOf(k)].entries, FALSE)
         IN  /\ \E c : r.t \in TablesOf(c)
             /\ Grows(Table, r.t, Allowed)
             /\ r.ok => /\ r.next = file.sections[k].prev /\ r.next # -1
                        /\ r.t.ok /\ Takes(Table, ds, r.t)
<1> DEFINE r == ReadXrefStm(Table, k)
<1> DEFINE m == StmOf(k)
<1> DEFINE prev == file.sections[k].prev
<1> DEFINE ds == FromStream(file.sections[m].entries, FALSE)
<1> DEFINE s == ReadXrefStream(Table, m, FALSE)
<1>1. m \in DOMAIN file.sections
      /\ \A i \in 1..Len(file.sections[m].entries) : file.sections[m].entries[i] \in Allowed
  <2>1. m = file.sections[k].stm /\ m # 0 /\ file.sections[k].kind = "table"
    BY DEF StmOf
  <2>2. m \in DOMAIN file.sections
        /\ \A i \in 1..Len(file.sections[m].entries) : file.sections[m].entries[i] \in Tabled
    BY <2>1, EntriesAreSaid
  <2>3. \A i \in 1..Len(file.sections[m].entries) : file.sections[m].entries[i] \in Said
    BY <2>2, EntriesAreSaid
  <2> QED
    BY <2>2, <2>3 DEF Allowed
<1>2. /\ s.ok \in BOOLEAN
      /\ \E c : s.t \in TablesOf(c)
      /\ Grows(Table, s.t, Allowed)
      /\ s.ok => Takes(Table, ds, s.t) /\ s.t.ok
  <2> HIDE DEF m
  <2>1. Supplies(m, FALSE, Allowed)
    BY <1>1 DEF Supplies
  <2>2. ReadsStream(s, Table, m, FALSE, Allowed)
    BY <1>1, <2>1, TableIsTable, ReadStreamFacts
  <2> HIDE DEF s
  <2> QED
    BY <2>2, TableIsTable DEF ReadsStream
<1>3. r.t = s.t /\ r.next = prev /\ (r.ok => s.ok /\ prev # -1)
  <2> DEFINE b == s.ok /\ prev # -1
  <2>1. r = [ok |-> b, t |-> s.t, next |-> prev, dict |-> s.dict]
    BY Zenon DEF ReadXrefStm
  <2> HIDE DEF r, s, prev, b
  <2>2. r.ok = b /\ r.t = s.t /\ r.next = prev
    BY <2>1
  <2> QED
    BY <2>2 DEF b
<1> HIDE DEF s, r, ds
<1>4. r.ok => r.next = prev /\ r.next # -1 /\ r.t.ok /\ Takes(Table, ds, r.t)
  BY <1>2, <1>3
<1> QED
  BY <1>2, <1>3, <1>4 DEF r, ds

LEMMA ReadSectionGrows ==
  ASSUME file \in Files, xref \in Xrefs, deleted \in SUBSET Nat, NEW k \in DOMAIN file.sections
  PROVE  LET r == ReadSection(k)
         IN  /\ r.t.xref \in Xrefs /\ r.t.deleted \in SUBSET Nat
             /\ Grows(Table, r.t, Allowed)
             /\ r.ok /\ StmOf(k) = 0 => r.next = file.sections[k].prev /\ r.next # -1
<1> DEFINE r == ReadSection(k)
<1>1. CASE file.sections[k].kind = "table"
  <2>1. r = ReadXrefTable(Table, k)
    BY <1>1 DEF ReadSection
  <2>2. (\E c1 : r.t \in TablesOf(c1)) /\ Grows(Table, r.t, Allowed)
        /\ (r.ok /\ StmOf(k) = 0 => r.next = file.sections[k].prev /\ r.next # -1)
    BY <1>1, <2>1, ReadTableFacts
  <2> QED
    BY <2>2, TableFacts
<1>2. CASE file.sections[k].kind # "table"
  <2>1. r = ReadXrefStream(Table, k, mode = "streams")
    BY <1>2 DEF ReadSection
  <2>2. \A i \in 1..Len(file.sections[k].entries) :
          ~(mode = "streams" /\ file.sections[k].entries[i].kind = "plain")
            => file.sections[k].entries[i] \in Allowed
    BY EntriesAreSaid DEF Allowed
  <2> DEFINE b == mode = "streams"
  <2>3. b \in BOOLEAN
    OBVIOUS
  <2>4. (\E c1 : r.t \in TablesOf(c1)) /\ Grows(Table, r.t, Allowed)
        /\ (r.ok => r.next = file.sections[k].prev /\ r.next # -1)
    <3>1. r = ReadXrefStream(Table, k, b)
      BY <2>1
    <3>2. Supplies(k, b, Allowed)
      BY <2>2 DEF Supplies
    <3> HIDE DEF b, r
    <3>3. ReadsStream(r, Table, k, b, Allowed)
      BY <2>3, <3>1, <3>2, TableIsTable, ReadStreamFacts
    <3> QED
      BY <3>3 DEF ReadsStream
  <2> QED
    BY <2>4, TableFacts
<1> QED
  BY <1>1, <1>2

-----------------------------------------------------------------------------
(* What the file says of its objects, and a table that holds just that, as *)
(* far as the file has been read: P are the mentions that have been read.  *)

LEMMA ChainFacts ==
  ASSUME file \in Files
  PROVE  /\ InChain[0] = Start
         /\ \A n \in Nat :
              /\ InChain[n] \in 0..Len(file.sections) \cup {-1}
              /\ InChain[n + 1] = IF InChain[n] \in DOMAIN file.sections
                                  THEN file.sections[InChain[n]].prev ELSE 0
<1> DEFINE D == 0..Len(file.sections) \cup {-1}
<1> DEFINE step == [k \in D |-> IF k \in DOMAIN file.sections THEN file.sections[k].prev ELSE 0]
<1>1. Len(file.sections) \in Nat /\ Start \in D /\ \A k \in DOMAIN file.sections : file.sections[k].prev \in D
  BY FileFacts DEF Start
<1>2. step \in [D -> D]
  BY <1>1
<1> DEFINE Rec(f) == f = [n \in Nat |-> IF n = 0 THEN Start
                                        ELSE LET k == f[n - 1]
                                             IN IF k \in DOMAIN file.sections
                                                THEN file.sections[k].prev ELSE 0]
<1>3. \E f : Rec(f)
  <2>1. PICK f : f = [n \in Nat |-> IF n = 0 THEN Start ELSE step[f[n - 1]]]
    <3> HIDE DEF D, step
    <3> QED
      BY <1>1, <1>2, RecursiveFunctionExists
  <2>2. f \in [Nat -> D] /\ f[0] = Start /\ \A n \in Nat : f[n + 1] = step[f[n]]
    <3>1. Start \in D /\ step \in [D -> D]
      BY <1>1, <1>2
    <3> HIDE DEF D, step
    <3> QED
      BY <2>1, <3>1, RecursiveFunction
  <2>3. \A n \in Nat : f[n] = IF n = 0 THEN Start
                              ELSE LET k == f[n - 1]
                                   IN IF k \in DOMAIN file.sections
                                      THEN file.sections[k].prev ELSE 0
    <3> SUFFICES ASSUME NEW n \in Nat, n # 0
                 PROVE  f[n] = IF f[n - 1] \in DOMAIN file.sections
                               THEN file.sections[f[n - 1]].prev ELSE 0
      BY <2>2
    <3>1. n - 1 \in Nat /\ (n - 1) + 1 = n
      OBVIOUS
    <3>2. f[(n - 1) + 1] = step[f[n - 1]] /\ f[n - 1] \in D
      BY <2>2, <3>1
    <3> QED
      BY <3>1, <3>2
  <2>4. f = [n \in Nat |-> f[n]]
    BY <2>2
  <2> QED
    BY <2>3, <2>4
<1>4. Rec(InChain)
  <2>1. InChain = CHOOSE f : Rec(f)
    BY DEF InChain
  <2> HIDE DEF Rec
  <2> QED
    BY <1>3, <2>1
<1>5. InChain[0] = Start
  BY <1>4
<1>6. \A n \in Nat : InChain[n + 1] = IF InChain[n] \in DOMAIN file.sections
                                      THEN file.sections[InChain[n]].prev ELSE 0
  <2> SUFFICES ASSUME NEW n \in Nat
               PROVE  InChain[n + 1] = IF InChain[n] \in DOMAIN file.sections
                                       THEN file.sections[InChain[n]].prev ELSE 0
    OBVIOUS
  <2>1. n + 1 \in Nat /\ n + 1 # 0 /\ (n + 1) - 1 = n
    OBVIOUS
  <2> QED
    BY <1>4, <2>1
<1> DEFINE S == {n \in Nat : InChain[n] \in D}
<1>7. 0 \in S
  BY <1>1, <1>5
<1>8. ASSUME NEW n \in Nat, n \in S PROVE n + 1 \in S
  <2>1. InChain[n + 1] = IF InChain[n] \in DOMAIN file.sections
                         THEN file.sections[InChain[n]].prev ELSE 0
    BY <1>6
  <2>2. 0 \in D
    BY <1>1
  <2>3. InChain[n + 1] \in D
    <3> HIDE DEF D
    <3> QED
      BY <1>1, <2>1, <2>2
  <2> QED
    BY <2>3
<1>9. \A n \in Nat : n \in S
  <2> HIDE DEF S
  <2> QED
    BY <1>7, <1>8, InductionOver
<1> QED
  BY <1>5, <1>6, <1>9

LEMMA EntriesAtFacts ==
  ASSUME file \in Files, NEW n \in Nat, NEW s \in {0, 1}
  PROVE  /\ EntriesAt(n, s) \in Seq(Entries)
         /\ Len(EntriesAt(n, s)) \in Nat
         /\ DOMAIN EntriesAt(n, s) = 1..Len(EntriesAt(n, s))
         /\ \A i \in DOMAIN EntriesAt(n, s) : EntriesAt(n, s)[i] \in Entries
<1>1. EntriesAt(n, s) \in Seq(Entries)
  <2>1. <<>> \in Seq(Entries)
    OBVIOUS
  <2>2. \A k \in DOMAIN file.sections :
          /\ file.sections[k].entries \in Seq(Entries)
          /\ StmOf(k) # 0 => StmOf(k) \in DOMAIN file.sections
    <3> SUFFICES ASSUME NEW k \in DOMAIN file.sections
                 PROVE  /\ file.sections[k].entries \in Seq(Entries)
                        /\ StmOf(k) # 0 => StmOf(k) \in DOMAIN file.sections
      OBVIOUS
    <3> QED
      BY EntriesAreSaid DEF StmOf
  <2> QED
    BY <2>1, <2>2 DEF EntriesAt
<1> QED
  BY <1>1

LEMMA MentionFacts ==
  ASSUME file \in Files, NEW p \in Mentions
  PROVE  /\ p[1] \in 0..(Len(file.sections) - 1) /\ p[2] \in {0, 1}
         /\ p[1] \in Nat
         /\ p[3] \in DOMAIN EntriesAt(p[1], p[2]) /\ p[3] \in Nat \ {0}
         /\ p = <<p[1], p[2], p[3]>>
         /\ At(p) \in Entries /\ Id(p) \in 1..MaxId
         /\ IF Live(p) THEN IsValid(At(p)) ELSE At(p).kind = "free"
<1>1. PICK n \in 0..(Len(file.sections) - 1), s \in {0, 1} : \E i \in DOMAIN EntriesAt(n, s) : p = <<n, s, i>>
  BY DEF Mentions
<1>2. PICK i \in DOMAIN EntriesAt(n, s) : p = <<n, s, i>>
  BY <1>1
<1>3. n \in Nat /\ i \in Nat \ {0} /\ EntriesAt(n, s)[i] \in Entries
  <2>1. n \in Nat
    BY FileFacts
  <2>2. EntriesAt(n, s)[i] \in Entries /\ Len(EntriesAt(n, s)) \in Nat /\ i \in 1..Len(EntriesAt(n, s))
    BY <2>1, EntriesAtFacts
  <2> QED
    BY <2>1, <2>2
<1>4. At(p) \in Entries
  BY <1>2, <1>3 DEF At
<1>5. IF Live(p) THEN IsValid(At(p)) ELSE Id(p) \in 1..MaxId
  BY DEF Mentions
<1> QED
  BY <1>2, <1>3, <1>4, <1>5 DEF Live, Id, IsValid

LEMMA MentionIs ==
  ASSUME file \in Files, NEW n \in 0..(Len(file.sections) - 1), NEW s \in {0, 1},
         NEW i \in DOMAIN EntriesAt(n, s)
  PROVE  /\ At(<<n, s, i>>) = EntriesAt(n, s)[i]
         /\ <<n, s, i>> \in Mentions <=>
              IF Live(<<n, s, i>>) THEN IsValid(At(<<n, s, i>>)) ELSE Id(<<n, s, i>>) \in 1..MaxId
<1> DEFINE p == <<n, s, i>>
<1>1. At(p) = EntriesAt(n, s)[i]
  BY DEF At
<1>2. p \in UNION {{<<m, r, j>> : j \in DOMAIN EntriesAt(m, r)} :
                     m \in 0..(Len(file.sections) - 1), r \in {0, 1}}
  <2> DEFINE Of(m, r) == {<<m, r, j>> : j \in DOMAIN EntriesAt(m, r)}
  <2>1. p \in Of(n, s)
    OBVIOUS
  <2>2. Of(n, s) \in {Of(m, r) : m \in 0..(Len(file.sections) - 1), r \in {0, 1}}
    <3> HIDE DEF Of
    <3> QED
      OBVIOUS
  <2>3. p \in UNION {Of(m, r) : m \in 0..(Len(file.sections) - 1), r \in {0, 1}}
    <3> HIDE DEF Of, p
    <3> QED
      BY <2>1, <2>2
  <2> QED
    BY <2>3
<1>3. p \in Mentions <=> IF Live(p) THEN IsValid(At(p)) ELSE Id(p) \in 1..MaxId
  <2> HIDE DEF p
  <2> QED
    BY <1>2 DEF Mentions
<1> QED
  BY <1>1, <1>3

(* The order in which the mentions are read: newer sections first, and a   *)
(* table before its /XRefStm.                                              *)
ReadBefore(p, q) ==
  \/ p[1] < q[1]
  \/ p[1] = q[1] /\ p[2] < q[2]
  \/ p[1] = q[1] /\ p[2] = q[2] /\ p[3] < q[3]

NewestIn(p, P) == \A q \in P \ {p} : Id(q) = Id(p) => ReadBefore(p, q)

Represents(x, d, P) ==
  /\ \A og \in DOMAIN x : \E p \in P : Live(p) /\ x[og] = At(p)
  /\ \A p \in P : NewestIn(p, P) /\ Live(p) => Key(At(p)) \in DOMAIN x /\ x[Key(At(p))] = At(p)
  /\ \A p \in P : NewestIn(p, P) /\ ~Live(p) => Id(p) \in d
  /\ \A i \in d \ {0} : \E p \in P : Id(p) = i
  /\ \A og \in DOMAIN x, p \in P : Id(p) = og[1] /\ NewestIn(p, P) => Live(p)

LEMMA ReadOrder ==
  ASSUME file \in Files, NEW p \in Mentions, NEW q \in Mentions
  PROVE  /\ ~(ReadBefore(p, q) /\ ReadBefore(q, p))
         /\ p # q => ReadBefore(p, q) \/ ReadBefore(q, p)
<1>1. /\ p[1] \in Nat /\ p[2] \in {0, 1} /\ p[3] \in Nat /\ p = <<p[1], p[2], p[3]>>
      /\ q[1] \in Nat /\ q[2] \in {0, 1} /\ q[3] \in Nat /\ q = <<q[1], q[2], q[3]>>
  BY MentionFacts
<1>2. ~(ReadBefore(p, q) /\ ReadBefore(q, p))
  BY <1>1 DEF ReadBefore
<1>3. p[1] # q[1] \/ p[2] # q[2] \/ p[3] # q[3] => ReadBefore(p, q) \/ ReadBefore(q, p)
  BY <1>1 DEF ReadBefore
<1> QED
  BY <1>1, <1>2, <1>3

LEMMA NoMention ==
  ASSUME NEW P, NEW t, NEW d, NEW u, Represents(t.xref, t.deleted, P), d.id \in Nat,
         Inserts(t, d, u), u.ok, ~IsValid(d), d.kind = "free" => d.id \notin 1..MaxId
  PROVE  Represents(u.xref, u.deleted, P)
<1>1. u.xref = t.xref /\ t.deleted \subseteq u.deleted /\ u.deleted \subseteq t.deleted \cup {0}
  <2>1. d.kind = "free" /\ d.id <= MaxId => d.id = 0
    OBVIOUS
  <2> QED
    BY <2>1 DEF Inserts
<1> QED
  BY <1>1 DEF Represents

LEMMA OneMention ==
  ASSUME file \in Files, NEW P, P \subseteq Mentions, NEW p \in Mentions \ P,
         \A q \in P : ReadBefore(q, p),
         NEW c, NEW t \in TablesOf(c), NEW u \in TablesOf(c), NEW d \in Entries,
         Represents(t.xref, t.deleted, P), Inserts(t, d, u), u.ok,
         Live(p) => d = At(p), ~Live(p) => d.kind = "free" /\ d.id = Id(p)
  PROVE  Represents(u.xref, u.deleted, P \cup {p})
<1> DEFINE Q == P \cup {p}
<1>1. /\ At(p) \in Entries /\ Id(p) \in 1..MaxId /\ d.id = Id(p) /\ Id(p) \in Nat \ {0}
      /\ Live(p) => IsValid(d) /\ d.kind # "free"
      /\ Key(At(p))[1] = Id(p)
  <2>1. /\ At(p) \in Entries /\ Id(p) \in 1..MaxId
        /\ Live(p) => IsValid(At(p))
    BY MentionFacts
  <2> QED
    BY <2>1, KeyType DEF Id, Live
<1>2. \A q \in P : ~ReadBefore(p, q) /\ q \in Mentions
  BY ReadOrder
<1>3. ASSUME NEW q \in P, NewestIn(q, Q) PROVE NewestIn(q, P)
  BY <1>3 DEF NewestIn
<1>4. ASSUME NewestIn(p, Q), NEW q \in P PROVE Id(q) # Id(p)
  BY <1>2, <1>4 DEF NewestIn
<1>5. /\ t.xref \in Xrefs /\ u.xref \in Xrefs
      /\ \A og \in DOMAIN t.xref : og \in DOMAIN u.xref /\ u.xref[og] = t.xref[og]
      /\ t.deleted \subseteq u.deleted
  BY TableFacts DEF Inserts
<1>6. ASSUME NEW og \in DOMAIN t.xref PROVE \E q \in P : Live(q) /\ t.xref[og] = At(q) /\ Id(q) = og[1]
  <2>1. PICK q \in P : Live(q) /\ t.xref[og] = At(q)
    BY DEF Represents
  <2>2. Key(At(q)) = og /\ At(q) \in Entries
    BY <1>5, <2>1, XrefFacts
  <2>3. Id(q) = og[1]
    BY <2>2, KeyType DEF Id
  <2> QED
    BY <2>1, <2>3
<1>7. ASSUME NEW og \in DOMAIN u.xref \ DOMAIN t.xref
      PROVE  Live(p) /\ og = Key(d) /\ u.xref[og] = d /\ og[1] = Id(p) /\ Id(p) \notin t.deleted
  <2>1. IsValid(d) /\ og = Key(d) /\ u.xref[og] = d /\ d.id \notin t.deleted
    BY <1>7 DEF Inserts
  <2>2. d.kind # "free"
    BY <2>1 DEF IsValid
  <2> QED
    BY <1>1, <2>1, <2>2
<1>8. ASSUME NEW og \in DOMAIN u.xref PROVE \E q \in Q : Live(q) /\ u.xref[og] = At(q)
  <2>1. CASE og \in DOMAIN t.xref
    BY <1>5, <1>6, <2>1
  <2>2. CASE og \notin DOMAIN t.xref
    BY <1>7, <2>2
  <2> QED
    BY <2>1, <2>2
<1>9. ASSUME NEW q \in Q, NewestIn(q, Q), Live(q)
      PROVE  Key(At(q)) \in DOMAIN u.xref /\ u.xref[Key(At(q))] = At(q)
  <2>1. CASE q \in P
    <3>1. Key(At(q)) \in DOMAIN t.xref /\ t.xref[Key(At(q))] = At(q)
      BY <1>3, <1>9, <2>1 DEF Represents
    <3> QED
      BY <1>5, <3>1
  <2>2. CASE q = p
    <3>1. Key(d) \notin DOMAIN t.xref
      BY <1>1, <1>4, <1>6, <1>9, <2>2
    <3>2. d.id \notin t.deleted
      BY <1>1, <1>4, <1>9, <2>2 DEF Represents
    <3> QED
      BY <1>1, <1>9, <2>2, <3>1, <3>2 DEF Inserts
  <2> QED
    BY <2>1, <2>2
<1>10. ASSUME NEW q \in Q, NewestIn(q, Q), ~Live(q)
       PROVE  Id(q) \in u.deleted
  <2>1. CASE q \in P
    BY <1>3, <1>5, <1>10, <2>1 DEF Represents
  <2>2. CASE q = p
    <3>1. d.kind = "free" /\ d.id = Id(p) /\ ~IsValid(d)
      BY <1>10, <2>2 DEF IsValid
    <3>2. Key(d) \notin DOMAIN t.xref
      <4>1. Key(d)[1] = Id(p)
        BY <1>1, KeyType
      <4> QED
        BY <1>4, <1>6, <1>10, <2>2, <4>1
    <3>3. d.id <= MaxId
      BY <1>1, ConstantsAssumption
    <3> QED
      BY <2>2, <3>1, <3>2, <3>3 DEF Inserts
  <2> QED
    BY <2>1, <2>2
<1>11. ASSUME NEW i \in u.deleted \ {0}
       PROVE  \E q \in Q : Id(q) = i
  <2>1. i \in t.deleted \/ i = d.id
    BY <1>11 DEF Inserts
  <2> QED
    BY <1>1, <1>11, <2>1 DEF Represents
<1>12. ASSUME NEW og \in DOMAIN u.xref, NEW q \in Q, Id(q) = og[1], NewestIn(q, Q)
       PROVE  Live(q)
  <2>1. CASE og \in DOMAIN t.xref /\ q \in P
    BY <1>3, <1>12, <2>1 DEF Represents
  <2>2. CASE og \in DOMAIN t.xref /\ q = p
    <3>1. PICK r \in P : Id(r) = og[1]
      BY <1>6, <2>2
    <3> QED
      BY <1>4, <1>12, <2>2, <3>1
  <2>3. CASE og \notin DOMAIN t.xref /\ q \in P
    <3>1. Id(q) \notin t.deleted
      BY <1>7, <1>12, <2>3
    <3> QED
      BY <1>3, <1>12, <2>3, <3>1 DEF Represents
  <2>4. CASE og \notin DOMAIN t.xref /\ q = p
    BY <1>7, <2>4
  <2> QED
    BY <2>1, <2>2, <2>3, <2>4
<1> QED
  BY <1>8, <1>9, <1>10, <1>11, <1>12 DEF Represents

(* The mentions in what is read before the entries s of the n-th section,  *)
(* and, with them, of the first i of those.                                *)
Upto(n, s) == {p \in Mentions : p[1] < n \/ (p[1] = n /\ p[2] < s)}
AndFirst(n, s, i) == Upto(n, s) \cup {p \in Mentions : p[1] = n /\ p[2] = s /\ p[3] <= i}

LEMMA UptoNext ==
  ASSUME file \in Files, NEW n \in 0..(Len(file.sections) - 1), NEW s \in {0, 1}
  PROVE  /\ AndFirst(n, s, 0) = Upto(n, s)
         /\ AndFirst(n, s, Len(EntriesAt(n, s))) = Upto(n, s + 1)
         /\ Len(EntriesAt(n, s)) = 0 => Upto(n, s) = Upto(n, s + 1)
         /\ Upto(n, 2) = Upto(n + 1, 0)
<1>1. n \in Nat
  BY FileFacts
<1>2. Len(EntriesAt(n, s)) \in Nat
  BY <1>1, EntriesAtFacts
<1>3. \A p \in Mentions : /\ p[1] \in Nat /\ p[2] \in {0, 1} /\ p[3] \in Nat \ {0}
                          /\ p[1] = n /\ p[2] = s => p[3] \in 1..Len(EntriesAt(n, s))
  <2> SUFFICES ASSUME NEW p \in Mentions
               PROVE  /\ p[1] \in Nat /\ p[2] \in {0, 1} /\ p[3] \in Nat \ {0}
                      /\ p[1] = n /\ p[2] = s => p[3] \in 1..Len(EntriesAt(n, s))
    OBVIOUS
  <2>1. p[1] \in Nat /\ p[2] \in {0, 1} /\ p[3] \in Nat \ {0} /\ p[3] \in DOMAIN EntriesAt(p[1], p[2])
    BY MentionFacts
  <2> QED
    BY <1>1, <2>1, EntriesAtFacts
<1>4. AndFirst(n, s, 0) = Upto(n, s)
  BY <1>3 DEF AndFirst
<1>5. \A p \in Mentions :
        (p[1] < n \/ (p[1] = n /\ p[2] < s + 1)) <=>
          ((p[1] < n \/ (p[1] = n /\ p[2] < s))
             \/ (p[1] = n /\ p[2] = s /\ p[3] <= Len(EntriesAt(n, s))))
  BY <1>1, <1>2, <1>3
<1>6. AndFirst(n, s, Len(EntriesAt(n, s))) = Upto(n, s + 1)
  BY <1>5 DEF AndFirst, Upto
<1>7. \A p \in Mentions : (p[1] < n \/ (p[1] = n /\ p[2] < 2)) <=> (p[1] < n + 1 \/ (p[1] = n + 1 /\ p[2] < 0))
  BY <1>1, <1>3
<1>8. Upto(n, 2) = Upto(n + 1, 0)
  BY <1>7 DEF Upto
<1> QED
  BY <1>4, <1>6, <1>8

LEMMA RepresentsAll ==
  ASSUME file \in Files, NEW n \in 0..(Len(file.sections) - 1), NEW s \in {0, 1},
         NEW c, NEW t \in TablesOf(c), NEW ds \in Seq(Entries),
         Len(ds) = Len(EntriesAt(n, s)),
         \A k \in 1..Len(ds) : Derived(ds[k], EntriesAt(n, s)[k]) /\ Faithful(ds[k], EntriesAt(n, s)[k]),
         Represents(t.xref, t.deleted, Upto(n, s)),
         InsertAll(t, ds).ok
  PROVE  Represents(InsertAll(t, ds).xref, InsertAll(t, ds).deleted, Upto(n, s + 1))
<1> DEFINE es == EntriesAt(n, s)
<1> DEFINE m == Len(es)
<1>1. n \in Nat /\ m \in Nat /\ DOMAIN es = 1..m /\ \A i \in 1..m : es[i] \in Entries /\ ds[i] \in Entries
  <2>1. n \in Nat
    BY FileFacts
  <2>2. m \in Nat /\ DOMAIN es = 1..m /\ \A i \in 1..m : es[i] \in Entries
    BY <2>1, EntriesAtFacts
  <2>3. \A i \in 1..m : ds[i] \in Entries
    OBVIOUS
  <2> QED
    BY <2>1, <2>2, <2>3
<1>2. PICK f \in [0..m -> TablesOf(c)] :
        /\ f[0] = t
        /\ \A i \in 1..m : f[i] = Insert(f[i - 1], ds[i])
        /\ InsertAll(t, ds) = f[m]
  BY OneAfterTheOther
<1> DEFINE R(i) == Represents(f[i].xref, f[i].deleted, AndFirst(n, s, i))
<1> DEFINE S == {i \in Nat : i <= m => (f[i].ok => R(i))}
<1>3. 0 \in S
  BY <1>2, UptoNext
<1>4. ASSUME NEW i \in Nat, i \in S PROVE i + 1 \in S
  <2> SUFFICES ASSUME i + 1 <= m, f[i + 1].ok PROVE R(i + 1)
    OBVIOUS
  <2> DEFINE e == es[i + 1]
  <2> DEFINE d == ds[i + 1]
  <2> DEFINE p == <<n, s, i + 1>>
  <2> DEFINE P == AndFirst(n, s, i)
  <2>1. /\ i + 1 \in 1..m /\ i \in 0..m /\ (i + 1) - 1 = i /\ i <= m
        /\ e \in Entries /\ d \in Entries /\ Derived(d, e) /\ Faithful(d, e)
    BY <1>1
  <2>2. f[i] \in TablesOf(c) /\ f[i + 1] \in TablesOf(c) /\ Inserts(f[i], d, f[i + 1])
    <3>1. f[i] \in TablesOf(c) /\ f[i + 1] = Insert(f[i], d)
      BY <1>2, <2>1
    <3> HIDE DEF d
    <3> QED
      BY <2>1, <3>1, InsertFacts
  <2>3. f[i].ok
    BY <2>2 DEF Inserts
  <2>4. Represents(f[i].xref, f[i].deleted, P)
    BY <1>4, <2>1, <2>3
  <2>5. /\ At(p) = e
        /\ p \in Mentions <=> IF Live(p) THEN IsValid(e) ELSE Id(p) \in 1..MaxId
    BY <1>1, <2>1, MentionIs
  <2>6. \A q \in Mentions : /\ q[1] \in Nat /\ q[2] \in {0, 1} /\ q[3] \in Nat
                            /\ q = <<q[1], q[2], q[3]>>
    BY MentionFacts
  <2>7. p[1] = n /\ p[2] = s /\ p[3] = i + 1
    OBVIOUS
  <2> HIDE DEF p, e, d
  <2>8. p \notin P
    BY <1>1, <2>7 DEF AndFirst, Upto
  <2>9. CASE p \in Mentions
    <3>1. AndFirst(n, s, i + 1) = P \cup {p}
      <4>1. \A q \in Mentions : (q[1] = n /\ q[2] = s /\ q[3] <= i + 1) <=>
                                  ((q[1] = n /\ q[2] = s /\ q[3] <= i) \/ q = p)
        <5>1. \A q \in Mentions : q = p <=> (q[1] = n /\ q[2] = s /\ q[3] = i + 1)
          BY <2>6, <2>7 DEF p
        <5> QED
          BY <2>6, <5>1
      <4> QED
        BY <2>9, <4>1 DEF AndFirst
    <3>2. \A q \in P : ReadBefore(q, p)
      BY <1>1, <2>6, <2>7 DEF ReadBefore, AndFirst, Upto
    <3>3. /\ Live(p) => d = At(p)
          /\ ~Live(p) => d.kind = "free" /\ d.id = Id(p)
      BY <2>1, <2>5, <2>9 DEF Faithful, Derived, Live, Id
    <3>4. P \subseteq Mentions
      BY DEF AndFirst, Upto
    <3> HIDE DEF P
    <3>5. Represents(f[i + 1].xref, f[i + 1].deleted, P \cup {p})
      BY <2>1, <2>2, <2>4, <2>8, <2>9, <3>2, <3>3, <3>4, OneMention
    <3> QED
      BY <3>1, <3>5
  <2>10. CASE p \notin Mentions
    <3>1. AndFirst(n, s, i + 1) = P
      <4>1. \A q \in Mentions : (q[1] = n /\ q[2] = s /\ q[3] <= i + 1) <=>
                                  (q[1] = n /\ q[2] = s /\ q[3] <= i)
        <5>1. \A q \in Mentions : ~(q[1] = n /\ q[2] = s /\ q[3] = i + 1)
          BY <2>6, <2>7, <2>10 DEF p
        <5> QED
          BY <2>6, <5>1
      <4> QED
        BY <4>1 DEF AndFirst
    <3>2. ~IsValid(d) /\ (d.kind = "free" => d.id \notin 1..MaxId) /\ d.id \in Nat
      BY <2>1, <2>5, <2>10 DEF Derived, Live, Id, IsValid, Entries
    <3> HIDE DEF P
    <3>3. Represents(f[i + 1].xref, f[i + 1].deleted, P)
      BY <2>2, <2>4, <3>2, NoMention
    <3> QED
      BY <3>1, <3>3
  <2> QED
    BY <2>9, <2>10
<1>5. m \in S
  <2>1. \A i \in Nat : i \in S
    <3> HIDE DEF S
    <3> QED
      BY <1>3, <1>4, InductionOver
  <2> QED
    BY <1>1, <2>1
<1>6. R(m)
  BY <1>1, <1>2, <1>5
<1> QED
  BY <1>2, <1>6, UptoNext

LEMMA ReadSectionRepresents ==
  ASSUME file \in Files, xref \in Xrefs, deleted \in SUBSET Nat, mode # "streams",
         NEW n \in 0..(Len(file.sections) - 1), InChain[n] \in DOMAIN file.sections,
         Represents(xref, deleted, Upto(n, 0)), ReadSection(InChain[n]).ok
  PROVE  LET k == InChain[n]
             t == ReadSection(k).t
         IN  /\ Represents(t.xref, t.deleted, Upto(n, 1))
             /\ StmOf(k) = 0 => Upto(n, 1) = Upto(n + 1, 0)
<1> DEFINE k == InChain[n]
<1> DEFINE r == ReadSection(k)
<1> DEFINE es == file.sections[k].entries
<1>1. /\ EntriesAt(n, 0) = es
      /\ StmOf(k) = 0 => EntriesAt(n, 1) = <<>>
  BY DEF EntriesAt
<1>2. /\ StmOf(k) = 0 => Upto(n, 1) = Upto(n + 1, 0)
      /\ 0 + 1 = 1 /\ 0 \in {0, 1}
  <2>1. Upto(n, 2) = Upto(n + 1, 0) /\ (Len(EntriesAt(n, 1)) = 0 => Upto(n, 1) = Upto(n, 1 + 1))
    BY UptoNext
  <2> QED
    BY <1>1, <2>1
<1> HIDE DEF k
<1>k. k \in DOMAIN file.sections /\ k = InChain[n]
  BY DEF k
<1>3. es \in Seq(Entries)
  BY <1>k, EntriesAreSaid
<1>4. CASE file.sections[k].kind = "table"
  <2>1. r.t = InsertAll(Table, es) /\ r.t.ok
    <3>1. r = ReadXrefTable(Table, k) /\ r.ok
      BY <1>4, <1>k DEF ReadSection
    <3> HIDE DEF r
    <3> QED
      BY <1>4, <1>k, <3>1, ReadTableFacts
  <2>2. \A i \in 1..Len(es) : Derived(es[i], es[i]) /\ Faithful(es[i], es[i])
    <3>1. \A i \in 1..Len(es) : es[i] \in Entries
      BY <1>3
    <3> QED
      BY <3>1 DEF Derived, Faithful
  <2>3. Table \in TablesOf(cached) /\ Represents(Table.xref, Table.deleted, Upto(n, 0))
    BY TableIsTable
  <2> HIDE DEF es, r
  <2>4. Represents(r.t.xref, r.t.deleted, Upto(n, 0 + 1))
    BY <1>1, <1>2, <1>3, <2>1, <2>2, <2>3, RepresentsAll
  <2> QED
    BY <1>2, <1>k, <2>4 DEF r
<1>5. CASE file.sections[k].kind # "table"
  <2> DEFINE ds == FromStream(es, FALSE)
  <2>1. r = ReadXrefStream(Table, k, FALSE) /\ r.ok
    BY <1>5, <1>k DEF ReadSection
  <2> HIDE DEF r, ds
  <2>2. Takes(Table, ds, r.t) /\ r.t.ok
    <3>1. Supplies(k, FALSE, Said)
      BY <1>k, EntriesAreSaid DEF Supplies
    <3>2. ReadsStream(ReadXrefStream(Table, k, FALSE), Table, k, FALSE, Said)
      BY <1>k, <3>1, TableIsTable, ReadStreamFacts
    <3>3. ReadsStream(r, Table, k, FALSE, Said)
      BY <2>1, <3>2
    <3> QED
      BY <2>1, <3>3, TableIsTable DEF ReadsStream, ds
  <2>3. PICK c1, t1 : /\ t1 \in TablesOf(c1) /\ t1.xref = xref /\ t1.deleted = deleted
                      /\ r.t = InsertAll(t1, ds)
    BY <2>2, TableIsTable DEF Takes, Alike
  <2>4. /\ ds \in Seq(Entries) /\ Len(ds) = Len(es)
        /\ \A i \in 1..Len(ds) : Derived(ds[i], es[i]) /\ Faithful(ds[i], es[i])
    BY <1>3, FromStreamFacts DEF ds
  <2>5. Represents(t1.xref, t1.deleted, Upto(n, 0))
    BY <2>3
  <2> HIDE DEF es
  <2>6. Represents(r.t.xref, r.t.deleted, Upto(n, 0 + 1))
    BY <1>1, <1>2, <2>2, <2>3, <2>4, <2>5, RepresentsAll
  <2> QED
    BY <1>2, <1>k, <2>6 DEF r
<1> QED
  BY <1>4, <1>5

LEMMA ReadStmRepresents ==
  ASSUME file \in Files, xref \in Xrefs, deleted \in SUBSET Nat,
         NEW n \in 0..(Len(file.sections) - 1), InChain[n] \in DOMAIN file.sections,
         StmOf(InChain[n]) # 0,
         Represents(xref, deleted, Upto(n, 1)), ReadXrefStm(Table, InChain[n]).ok
  PROVE  LET t == ReadXrefStm(Table, InChain[n]).t
         IN  Represents(t.xref, t.deleted, Upto(n + 1, 0))
<1> DEFINE k == InChain[n]
<1> DEFINE r == ReadXrefStm(Table, k)
<1> DEFINE m == StmOf(k)
<1> DEFINE ds == FromStream(file.sections[m].entries, FALSE)
<1>1. EntriesAt(n, 1) = file.sections[m].entries
  BY DEF EntriesAt
<1>2. Upto(n, 2) = Upto(n + 1, 0) /\ 1 + 1 = 2 /\ 1 \in {0, 1}
  BY UptoNext
<1>3. file.sections[m].entries \in Seq(Entries)
  BY EntriesAreSaid DEF StmOf
<1>4. r.t.ok /\ Takes(Table, ds, r.t)
  <2> HIDE DEF k, m
  <2>1. k \in DOMAIN file.sections /\ m # 0 /\ m = StmOf(k) /\ ReadXrefStm(Table, k).ok
    BY DEF k, m
  <2> QED
    BY <2>1, ReadStmFacts
<1> HIDE DEF k, m, r, ds
<1>5. PICK c1, t1 : /\ t1 \in TablesOf(c1) /\ t1.xref = xref /\ t1.deleted = deleted
                    /\ r.t = InsertAll(t1, ds)
  BY <1>4, TableIsTable DEF Takes, Alike
<1>6. /\ ds \in Seq(Entries) /\ Len(ds) = Len(EntriesAt(n, 1))
      /\ \A i \in 1..Len(ds) : Derived(ds[i], EntriesAt(n, 1)[i]) /\ Faithful(ds[i], EntriesAt(n, 1)[i])
  BY <1>1, <1>3, FromStreamFacts DEF ds
<1>7. Represents(t1.xref, t1.deleted, Upto(n, 1))
  BY <1>5
<1>8. Represents(r.t.xref, r.t.deleted, Upto(n, 1 + 1))
  BY <1>2, <1>4, <1>5, <1>6, <1>7, RepresentsAll
<1> QED
  BY <1>2, <1>8 DEF r, k

(* Every object that is mentioned has a newest mention.                    *)
LEMMA NewestExists ==
  ASSUME file \in Files, NEW p0 \in Mentions
  PROVE  \E p \in Mentions : Id(p) = Id(p0) /\ NewestIn(p, Mentions)
<1> DEFINE M == {p \in Mentions : Id(p) = Id(p0)}
<1>1. \A p \in M : p[1] \in Nat /\ p[2] \in Nat /\ p[3] \in Nat /\ p = <<p[1], p[2], p[3]>>
  <2> SUFFICES ASSUME NEW p \in M
               PROVE  p[1] \in Nat /\ p[2] \in Nat /\ p[3] \in Nat /\ p = <<p[1], p[2], p[3]>>
    OBVIOUS
  <2>1. p[1] \in Nat /\ p[2] \in {0, 1} /\ p[3] \in Nat /\ p = <<p[1], p[2], p[3]>>
    BY MentionFacts
  <2> QED
    BY <2>1
<1> DEFINE A == {p[1] : p \in M}
<1>2. PICK n \in A : \A x \in A : n <= x
  <2>1. A \subseteq Nat /\ A # {}
    BY <1>1
  <2> HIDE DEF A
  <2> QED
    BY <2>1, LeastIn
<1> DEFINE B == {p[2] : p \in {q \in M : q[1] = n}}
<1>3. PICK s \in B : \A x \in B : s <= x
  <2>1. B \subseteq Nat /\ B # {}
    BY <1>1, <1>2
  <2> HIDE DEF B
  <2> QED
    BY <2>1, LeastIn
<1> DEFINE C == {p[3] : p \in {q \in M : q[1] = n /\ q[2] = s}}
<1>4. PICK i \in C : \A x \in C : i <= x
  <2>1. C \subseteq Nat /\ C # {}
    BY <1>1, <1>3
  <2> HIDE DEF C
  <2> QED
    BY <2>1, LeastIn
<1>5. PICK p \in M : p[1] = n /\ p[2] = s /\ p[3] = i
  BY <1>4
<1>6. ASSUME NEW q \in M PROVE ~ReadBefore(q, p)
  <2>1. n <= q[1] /\ (q[1] = n => s <= q[2]) /\ (q[1] = n /\ q[2] = s => i <= q[3])
    BY <1>2, <1>3, <1>4
  <2>2. n \in Nat /\ s \in Nat /\ i \in Nat /\ q[1] \in Nat /\ q[2] \in Nat /\ q[3] \in Nat
    BY <1>1, <1>5
  <2> QED
    BY <1>5, <2>1, <2>2 DEF ReadBefore
<1>7. NewestIn(p, Mentions)
  BY <1>5, <1>6, ReadOrder DEF NewestIn
<1> QED
  BY <1>5, <1>7

(* The order of reading finds the same newest mention as the manual, for   *)
(* an object that is not in dispute.                                       *)
LEMMA SameNewest ==
  ASSUME file \in Files, NEW p \in Mentions, Id(p) \notin Disputed
  PROVE  IsNewest(p) <=> NewestIn(p, Mentions)
<1>1. \A q \in Mentions : q[1] \in Nat /\ q[2] \in {0, 1} /\ q[3] \in Nat /\ Id(q) \in 1..MaxId
  BY MentionFacts
<1>2. ASSUME NEW q \in Mentions, Id(q) = Id(p), q[1] = p[1], q[2] # p[2],
             \A r \in Mentions : Id(r) = Id(p) => p[1] <= r[1]
      PROVE  FALSE
  <2>1. \/ p[2] = 0 /\ q[2] = 1
        \/ p[2] = 1 /\ q[2] = 0
    BY <1>1, <1>2
  <2>2. Id(p) \in Disputed
    BY <1>1, <1>2, <2>1 DEF Disputed
  <2> QED
    BY <2>2
<1>3. ASSUME IsNewest(p) PROVE NewestIn(p, Mentions)
  <2>1. \A q \in Mentions : Id(q) = Id(p) => p[1] <= q[1]
    BY <1>1, <1>3 DEF IsNewest, Newer
  <2> SUFFICES ASSUME NEW q \in Mentions \ {p}, Id(q) = Id(p) PROVE ReadBefore(p, q)
    BY DEF NewestIn
  <2>2. Newer(p, q) /\ (q[1] = p[1] => q[2] = p[2])
    BY <1>2, <1>3, <2>1 DEF IsNewest
  <2> QED
    BY <1>1, <2>2 DEF Newer, ReadBefore
<1>4. ASSUME NewestIn(p, Mentions) PROVE IsNewest(p)
  <2>1. \A q \in Mentions : Id(q) = Id(p) => p[1] <= q[1]
    BY <1>1, <1>4 DEF NewestIn, ReadBefore
  <2> SUFFICES ASSUME NEW q \in Mentions \ {p}, Id(q) = Id(p) PROVE Newer(p, q)
    BY DEF IsNewest
  <2>2. ReadBefore(p, q) /\ (q[1] = p[1] => q[2] = p[2])
    BY <1>2, <1>4, <2>1 DEF NewestIn
  <2> QED
    BY <1>1, <2>2 DEF Newer, ReadBefore
<1> QED
  BY <1>3, <1>4

LEMMA WholeIsNewest ==
  ASSUME file \in Files, xref \in Xrefs, NEW d, Represents(xref, d, Mentions), GenerationsGrow
  PROVE  Undisputed(Restrict(xref, Highest)) = Undisputed(Newest)
<1> DEFINE live == {p \in Mentions : IsNewest(p) /\ Live(p)}
<1> DEFINE K(p) == Key(At(p))
<1> DEFINE Clear(og) == og[1] \notin Disputed
<1>1. \A p \in Mentions : /\ At(p) \in Entries /\ K(p) = <<Id(p), Gen(p)>>
                          /\ Id(p) \in Nat /\ Gen(p) \in Nat
                          /\ Clear(K(p)) => (IsNewest(p) <=> NewestIn(p, Mentions))
  <2> SUFFICES ASSUME NEW p \in Mentions
               PROVE  /\ At(p) \in Entries /\ K(p) = <<Id(p), Gen(p)>>
                      /\ Id(p) \in Nat /\ Gen(p) \in Nat
                      /\ Clear(K(p)) => (IsNewest(p) <=> NewestIn(p, Mentions))
    OBVIOUS
  <2>1. At(p) \in Entries
    BY MentionFacts
  <2>2. Key(At(p)) \in Nat \X Nat /\ Key(At(p))[1] = At(p).id
    BY <2>1, KeyType
  <2>3. K(p) = <<Id(p), Gen(p)>> /\ Id(p) \in Nat /\ Gen(p) \in Nat
    BY <2>2 DEF Id, Gen
  <2> QED
    BY <2>1, <2>3, SameNewest
<1>2. \A p \in live : Clear(K(p)) => K(p) \in DOMAIN xref /\ xref[K(p)] = At(p)
  BY <1>1 DEF Represents
<1>3. ASSUME NEW og \in DOMAIN xref, Clear(og)
      PROVE  \E q \in Mentions, p \in live :
               /\ Live(q) /\ og = K(q) /\ Id(p) = Id(q) /\ Gen(p) >= Gen(q)
  <2>1. PICK q \in Mentions : Live(q) /\ xref[og] = At(q)
    BY DEF Represents
  <2>2. og = K(q)
    BY <2>1, XrefFacts
  <2>3. PICK p \in Mentions : Id(p) = Id(q) /\ NewestIn(p, Mentions)
    BY NewestExists
  <2>4. Live(p)
    BY <1>1, <2>2, <2>3 DEF Represents
  <2>5. IsNewest(p)
    BY <1>1, <1>3, <2>2, <2>3
  <2>6. p = q \/ Newer(p, q)
    BY <2>3, <2>5 DEF IsNewest
  <2>7. Gen(p) >= Gen(q)
    BY <1>1, <2>1, <2>3, <2>4, <2>6 DEF GenerationsGrow
  <2> QED
    BY <1>1, <2>1, <2>2, <2>3, <2>4, <2>5, <2>7
<1>4. ASSUME NEW og \in Highest, Clear(og) PROVE \E p \in live : og = K(p)
  <2>1. og \in DOMAIN xref /\ \A h \in DOMAIN xref : h[1] = og[1] => h[2] <= og[2]
    BY DEF Highest
  <2>2. PICK q \in Mentions, p \in live : /\ Live(q) /\ og = K(q) /\ Id(p) = Id(q) /\ Gen(p) >= Gen(q)
    BY <1>3, <1>4, <2>1
  <2>3. K(p) = <<Id(p), Gen(p)>> /\ og = <<Id(p), Gen(q)>> /\ Gen(p) \in Nat /\ Gen(q) \in Nat
    BY <1>1, <2>2
  <2>4. Gen(p) <= Gen(q)
    <3>1. Clear(K(p))
      BY <1>4, <2>3
    <3> HIDE DEF live, Clear
    <3>2. K(p) \in DOMAIN xref
      BY <1>2, <3>1
    <3> QED
      BY <2>1, <2>3, <3>2
  <2>5. Gen(p) = Gen(q)
    BY <2>2, <2>3, <2>4
  <2> QED
    BY <2>3, <2>5
<1>5. ASSUME NEW p \in live, Clear(K(p)) PROVE K(p) \in Highest
  <2>1. ASSUME NEW h \in DOMAIN xref, h[1] = K(p)[1] PROVE h[2] <= K(p)[2]
    <3>1. PICK q \in Mentions, r \in live : Live(q) /\ h = K(q) /\ Id(r) = Id(q) /\ Gen(r) >= Gen(q)
      BY <1>3, <1>5, <2>1
    <3>2. Id(q) = Id(p) /\ K(p)[2] = Gen(p) /\ h[2] = Gen(q)
      BY <1>1, <2>1, <3>1
    <3>3. q = p \/ Newer(p, q)
      BY <1>1, <3>2 DEF IsNewest
    <3> QED
      BY <1>1, <3>1, <3>2, <3>3 DEF GenerationsGrow
  <2> QED
    BY <1>2, <1>5, <2>1 DEF Highest
<1>6. \A p, q \in live : K(p) = K(q) => p = q
  <2> SUFFICES ASSUME NEW p \in live, NEW q \in live, K(p) = K(q), p # q
               PROVE  FALSE
    OBVIOUS
  <2>1. Id(p) = Id(q) /\ p \in Mentions /\ q \in Mentions
    BY <1>1
  <2>2. Newer(p, q) /\ Newer(q, p)
    BY <1>1, <2>1 DEF IsNewest
  <2>3. \A r \in {p, q} : r[1] \in Nat /\ r[2] \in {0, 1} /\ r[3] \in Nat
    BY <2>1, MentionFacts
  <2> QED
    BY <2>2, <2>3 DEF Newer
<1> HIDE DEF live, K, Clear
<1> DEFINE D == {K(p) : p \in live}
<1> DEFINE N == [og \in D |-> At(CHOOSE p \in live : K(p) = og)]
<1>7. {og \in Highest : Clear(og)} = {og \in D : Clear(og)}
  BY <1>4, <1>5
<1>8. \A og \in D : Clear(og) => xref[og] = N[og]
  <2> SUFFICES ASSUME NEW p \in live, Clear(K(p)) PROVE xref[K(p)] = N[K(p)]
    OBVIOUS
  <2>1. p = CHOOSE q \in live : K(q) = K(p)
    BY <1>6
  <2>2. N[K(p)] = At(p)
    BY <2>1
  <2> QED
    BY <1>2, <2>2
<1>9. Newest = N
  BY DEF Newest, live, K
<1>10. DOMAIN N = D
  OBVIOUS
<1> HIDE DEF N, D
<1> DEFINE H == Restrict(xref, Highest)
<1>11. DOMAIN H = Highest /\ \A og \in Highest : H[og] = xref[og]
  BY DEF Restrict
<1> HIDE DEF H
<1>12. Undisputed(H) = [og \in {x \in Highest : Clear(x)} |-> xref[og]]
  BY <1>11 DEF Undisputed, Restrict, Clear
<1>13. Undisputed(N) = [og \in {x \in D : Clear(x)} |-> N[og]]
  BY <1>10 DEF Undisputed, Restrict, Clear
<1>14. Undisputed(H) = Undisputed(N)
  BY <1>7, <1>8, <1>12, <1>13
<1> QED
  BY <1>9, <1>14 DEF H

LEMMA ChainEnds ==
  ASSUME file \in Files, NEW c \in Nat, InChain[c] = 0
  PROVE  Upto(c, 0) = Mentions
<1> DEFINE S == {i \in Nat : InChain[c + i] = 0}
<1>1. 0 \in S
  OBVIOUS
<1>2. ASSUME NEW i \in Nat, i \in S PROVE i + 1 \in S
  <2>1. c + i \in Nat /\ c + (i + 1) = (c + i) + 1 /\ InChain[c + i] = 0
    BY <1>2
  <2>2. 0 \notin DOMAIN file.sections
    BY FileFacts
  <2>3. InChain[(c + i) + 1] = IF InChain[c + i] \in DOMAIN file.sections
                               THEN file.sections[InChain[c + i]].prev ELSE 0
    BY <2>1, ChainFacts
  <2>4. InChain[c + (i + 1)] = 0
    BY <2>1, <2>2, <2>3
  <2> QED
    BY <2>4
<1>3. \A i \in Nat : i \in S
  <2> HIDE DEF S
  <2> QED
    BY <1>1, <1>2, InductionOver
<1>4. ASSUME NEW p \in Mentions PROVE p[1] < c
  <2>1. p[1] \in Nat /\ p[2] \in {0, 1} /\ p[3] \in DOMAIN EntriesAt(p[1], p[2])
    BY MentionFacts
  <2> SUFFICES ASSUME c <= p[1] PROVE FALSE
    BY <2>1
  <2>2. p[1] - c \in Nat /\ c + (p[1] - c) = p[1]
    BY <2>1
  <2>3. InChain[p[1]] = 0
    BY <1>3, <2>2
  <2>4. InChain[p[1]] \notin DOMAIN file.sections
    BY <2>3, FileFacts
  <2>5. EntriesAt(p[1], p[2]) = <<>>
    BY <2>4 DEF EntriesAt
  <2> QED
    BY <2>1, <2>5
<1> QED
  BY <1>4 DEF Upto

-----------------------------------------------------------------------------
(* What recovery makes of the table.                                       *)

LEMMA FoundFacts ==
  ASSUME file \in Files
  PROVE  /\ Found \in Seq(Entries) /\ Len(Found) = Len(file.objects)
         /\ \A i \in 1..Len(file.objects) :
              LET k == (Len(file.objects) - i) + 1
              IN  /\ k \in DOMAIN file.objects
                  /\ Found[i].id = file.objects[k].id /\ Found[i].gen = file.objects[k].gen
                  /\ Found[i].kind = "plain" /\ Found[i].at = k
                  /\ Key(Found[i]) = Og(file.objects[k])
<1> DEFINE m == Len(file.objects)
<1> DEFINE E(k) == [id |-> file.objects[k].id, gen |-> file.objects[k].gen, kind |-> "plain", at |-> k]
<1>1. /\ m \in Nat /\ DOMAIN file.objects = 1..m
      /\ \A k \in 1..m : file.objects[k].id \in Nat /\ file.objects[k].gen \in Nat
  BY FileFacts
<1>2. \A k \in 1..m : E(k) \in Entries
  <2> SUFFICES ASSUME NEW k \in 1..m PROVE E(k) \in Entries
    OBVIOUS
  <2>1. k \in Nat
    BY <1>1
  <2> QED
    BY <1>1, <2>1 DEF Entries
<1> DEFINE F == [k \in 1..m |-> E(k)]
<1>3. F \in Seq(Entries) /\ Len(F) = m
  <2> HIDE DEF E
  <2> QED
    BY <1>1, <1>2
<1>4. Found = [i \in 1..m |-> F[(m - i) + 1]]
  <2>1. Found = Reverse(F)
    BY <1>1 DEF Found
  <2> HIDE DEF F
  <2> QED
    BY <1>3, <2>1 DEF Reverse
<1>5. \A i \in 1..m : (m - i) + 1 \in 1..m
  BY <1>1
<1>6. \A i \in 1..m : Found[i] = E((m - i) + 1)
  <2> HIDE DEF E
  <2> QED
    BY <1>4, <1>5
<1>7. Found \in Seq(Entries) /\ Len(Found) = m
  <2>1. \A i \in 1..m : Found[i] \in Entries
    <3> HIDE DEF E
    <3> QED
      BY <1>2, <1>5, <1>6
  <2>2. Found = [i \in 1..m |-> Found[i]]
    <3> HIDE DEF F
    <3> QED
      BY <1>4
  <2> HIDE DEF m
  <2> QED
    BY <1>1, <2>1, <2>2
<1>8. ASSUME NEW i \in 1..m
      PROVE  LET k == (m - i) + 1
             IN  /\ k \in DOMAIN file.objects
                 /\ Found[i].id = file.objects[k].id /\ Found[i].gen = file.objects[k].gen
                 /\ Found[i].kind = "plain" /\ Found[i].at = k
                 /\ Key(Found[i]) = Og(file.objects[k])
  <2> DEFINE k == (m - i) + 1
  <2>1. k \in DOMAIN file.objects /\ Found[i] = E(k)
    BY <1>1, <1>5, <1>6
  <2> HIDE DEF k
  <2>2. /\ Found[i].id = file.objects[k].id /\ Found[i].gen = file.objects[k].gen
        /\ Found[i].kind = "plain" /\ Found[i].at = k
    BY <2>1
  <2>3. Key(Found[i]) = Og(file.objects[k])
    BY <2>2 DEF Key, Og
  <2> QED
    BY <2>1, <2>2, <2>3 DEF k
<1> QED
  BY <1>7, <1>8

Findable(o) == o.id \in 1..MaxId /\ o.gen <= MaxGen

LEMMA WithFoundFacts ==
  ASSUME file \in Files, deleted \in SUBSET Nat, NEW x \in Xrefs,
         \A og \in DOMAIN x : x[og].kind # "plain"
  PROVE  LET y == WithFound(x)
         IN  /\ y \in Xrefs
             /\ \A og \in DOMAIN y : y[og].kind = "plain" => IsThere(og, y[og])
             /\ \A og \in DOMAIN y :
                  og \in DOMAIN x \/ \E k \in DOMAIN file.objects : og = Og(file.objects[k])
             /\ \A k \in DOMAIN file.objects :
                  Findable(file.objects[k]) /\ file.objects[k].id \notin deleted
                    => Og(file.objects[k]) \in DOMAIN y
<1> DEFINE m == Len(file.objects)
<1> DEFINE t == [Table EXCEPT !.xref = x]
<1> DEFINE u == InsertAll(t, Found)
<1> DEFINE K(i) == (m - i) + 1
<1>1. t \in TablesOf(cached) /\ t.xref = x /\ t.deleted = deleted /\ t.ok = TRUE
  BY DEF Table, TablesOf
<1> HIDE DEF t
<1>2. /\ Found \in Seq(Entries) /\ Len(Found) = m
      /\ \A i \in 1..m :
           /\ K(i) \in DOMAIN file.objects
           /\ Found[i].id = file.objects[K(i)].id /\ Found[i].gen = file.objects[K(i)].gen
           /\ Found[i].kind = "plain" /\ Found[i].at = K(i)
           /\ Key(Found[i]) = Og(file.objects[K(i)])
  BY FoundFacts
<1>3. u \in TablesOf(cached) /\ Effect(t, Found, u, m)
  BY <1>1, <1>2, InsertAllEffect
<1>4. u.xref \in Xrefs /\ u.xref = WithFound(x)
  <2>1. u.xref = WithFound(x)
    BY DEF WithFound, t
  <2> HIDE DEF u
  <2> QED
    BY <1>3, <2>1, TableFacts
<1> HIDE DEF u
<1>5. m \in Nat /\ DOMAIN file.objects = 1..m
  BY FileFacts
<1>6. \A k \in DOMAIN file.objects : K(k) \in 1..m /\ K(K(k)) = k
  BY <1>5
<1>7. ASSUME NEW og \in DOMAIN u.xref \ DOMAIN x
      PROVE  IsThere(og, u.xref[og]) /\ \E k \in DOMAIN file.objects : og = Og(file.objects[k])
  <2>1. PICK i \in 1..m :
          /\ IsValid(Found[i]) /\ Key(Found[i]) = og /\ u.xref[og] = Found[i]
          /\ \A j \in 1..m : IsValid(Found[j]) /\ Key(Found[j]) = og => i <= j
    BY <1>1, <1>3 DEF Effect
  <2>2. K(i) \in DOMAIN file.objects /\ u.xref[og].at = K(i) /\ Og(file.objects[K(i)]) = og
        /\ Found[i].kind = "plain"
    BY <1>2, <2>1
  <2>3. ASSUME NEW k \in DOMAIN file.objects, Og(file.objects[k]) = og
        PROVE  k <= K(i)
    <3>1. /\ K(k) \in 1..m /\ Key(Found[K(k)]) = og
          /\ Found[K(k)].kind = "plain"
          /\ Found[K(k)].id = file.objects[k].id /\ Found[K(k)].gen = file.objects[k].gen
      <4>1. K(k) \in 1..m /\ K(K(k)) = k
        BY <1>6
      <4> HIDE DEF K
      <4> QED
        BY <1>2, <2>3, <4>1
    <3>2. file.objects[k].id = file.objects[K(i)].id /\ file.objects[k].gen = file.objects[K(i)].gen
      BY <2>2, <2>3 DEF Og
    <3>3. IsValid(Found[K(k)])
      <4> HIDE DEF K
      <4> QED
        BY <1>2, <2>1, <3>1, <3>2 DEF IsValid
    <3>4. i <= K(k)
      <4> HIDE DEF K
      <4> QED
        BY <2>1, <3>1, <3>3
    <3> QED
      BY <1>5, <3>4
  <2> HIDE DEF K
  <2> QED
    BY <2>2, <2>3 DEF IsThere
<1>8. ASSUME NEW og \in DOMAIN u.xref, u.xref[og].kind = "plain"
      PROVE  IsThere(og, u.xref[og])
  <2>1. og \notin DOMAIN x
    BY <1>1, <1>3, <1>8 DEF Effect
  <2> QED
    BY <1>7, <2>1
<1>9. ASSUME NEW k \in DOMAIN file.objects, Findable(file.objects[k]), file.objects[k].id \notin deleted
      PROVE  Og(file.objects[k]) \in DOMAIN u.xref
  <2> DEFINE i == K(k)
  <2>1. i \in 1..m /\ K(i) = k
    BY <1>6
  <2> HIDE DEF i, K
  <2>2. /\ Found[i].id = file.objects[k].id /\ Found[i].gen = file.objects[k].gen
        /\ Found[i].kind = "plain" /\ Key(Found[i]) = Og(file.objects[k])
    BY <1>2, <2>1
  <2>3. IsValid(Found[i])
    BY <1>9, <2>2 DEF IsValid, Findable
  <2>4. u.ok
    BY <1>1, <1>2, <1>3 DEF Effect
  <2>5. Found[i].id \notin u.deleted
    <3>1. \A j \in 1..m : Found[j].kind # "free"
      BY <1>2
    <3> QED
      BY <1>1, <1>3, <1>9, <2>2, <3>1 DEF Effect
  <2> QED
    BY <1>3, <2>1, <2>2, <2>3, <2>4, <2>5 DEF Effect
<1> QED
  BY <1>4, <1>7, <1>8, <1>9

-----------------------------------------------------------------------------
(* The inductive invariant.                                                *)

TypeOK ==
  /\ file \in Files
  /\ pc \in {"open", "read", "stm", "reconstruct", "recover", "conclude", "ready", "failed"}
  /\ mode \in {"first", "resumed", "retry", "streams"}
  /\ off \in 0..Len(file.sections) /\ visited \subseteq DOMAIN file.sections
  /\ xref \in Xrefs /\ backup \in Xrefs /\ deleted \in SUBSET Nat
  /\ reconstructed \in BOOLEAN /\ parsed \in BOOLEAN

(* Who is at work, and what has not begun yet.                             *)
IsReading == pc \in {"read", "stm"}

Stages ==
  /\ pc \in {"open", "reconstruct"} => ~reconstructed
  /\ pc \in {"recover", "conclude"} => reconstructed
  /\ IsReading => (reconstructed <=> mode # "first")
  /\ IsReading /\ mode = "first" => file.start # 0
  /\ IsReading /\ mode = "retry" => file.start = 0
  /\ pc = "stm" => off # 0 /\ StmOf(off) # 0
  /\ pc = "ready" => parsed
  /\ pc = "open" \/ (pc = "reconstruct" /\ ~parsed /\ file.start = 0) =>
       xref = EmptyTable /\ deleted = {}

(* The table holds what has been read of the chain of sections; of a       *)
(* hybrid section it may be only the first half.                           *)
Half == IF pc = "stm" THEN 1 ELSE 0
Reading ==
  IsReading /\ mode \in {"first", "retry"} =>
    /\ off = InChain[Cardinality(visited)] /\ off \notin visited
    /\ Represents(xref, deleted, Upto(Cardinality(visited), Half))

(* Nothing that was read survives as the place of a plain object.          *)
NoPlain(x) == \A og \in DOMAIN x : x[og].kind # "plain"
PlainIsGone ==
  /\ pc = "recover" => NoPlain(Base)
  /\ IsReading /\ mode = "retry" => NoPlain(backup)

(* What is read after recovery does not touch what recovery has found.     *)
ReadingOn == IsReading /\ mode \in {"streams", "resumed"}
Recovered == pc = "conclude" \/ ReadingOn \/ (pc = "ready" /\ reconstructed)

AllThere ==
  Recovered => \A og \in DOMAIN xref : xref[og].kind = "plain" =>
    \/ IsThere(og, xref[og])
    \/ /\ mode \in {"streams", "resumed"} /\ Stale(og, xref[og])
       /\ mode = "streams" => xref[og] \in Tabled

AllFound ==
  /\ deleted \subseteq FreeIds
  /\ ReadingOn => \A k \in DOMAIN file.objects : Findable(file.objects[k]) =>
                    Og(file.objects[k]) \in DOMAIN xref \/ file.objects[k].id \in FreeIds

AllKept ==
  Recovered => \A k \in DOMAIN file.objects :
                 Plainly(file.objects[k]) => Og(file.objects[k]) \in DOMAIN xref

(* Of an object with one generation no other gets into a table.            *)
PlainlyOne ==
  \A k \in DOMAIN file.objects : Plainly(file.objects[k]) =>
    /\ file.objects[k].id \notin deleted
    /\ \A og \in DOMAIN xref \cup DOMAIN backup : og[1] = file.objects[k].id => og[2] = 0

IInv ==
  /\ TypeOK /\ Stages /\ Reading /\ TableIsNewest
  /\ PlainIsGone /\ AllThere /\ AllFound /\ AllKept /\ PlainlyOne

(* The file stays what it is, and so does all that is said of it.          *)
LEMMA SameFile ==
  ASSUME file' = file
  PROVE  /\ InChain' = InChain /\ Mentions' = Mentions
         /\ GenerationsGrow' <=> GenerationsGrow
         /\ Newest' = Newest /\ Tabled' = Tabled
         /\ FreeIds' = FreeIds /\ \A k : StmOf(k)' = StmOf(k)
         /\ \A x : Undisputed(x)' = Undisputed(x)
         /\ \A og, e : Stale(og, e)' <=> Stale(og, e)
         /\ \A n, s : Upto(n, s)' = Upto(n, s)
         /\ \A x, d, P : Represents(x, d, P)' <=> Represents(x, d, P)
         /\ \A og, e : IsThere(og, e)' <=> IsThere(og, e)
         /\ \A o : Plainly(o)' <=> Plainly(o)
<1>1. InChain' = InChain
  BY Zenon DEF InChain, Start
<1>s. \A k : StmOf(k)' = StmOf(k)
  BY Zenon DEF StmOf
<1>2. \A n, s : EntriesAt(n, s)' = EntriesAt(n, s)
  BY <1>1, <1>s, Zenon DEF EntriesAt
<1>3. \A p : At(p)' = At(p)
  BY <1>2, Zenon DEF At
<1>4. \A p : (Live(p)' <=> Live(p)) /\ Id(p)' = Id(p) /\ Gen(p)' = Gen(p)
  BY <1>3, Zenon DEF Live, Id, Gen
<1>5. Mentions' = Mentions
  BY <1>2, <1>3, <1>4 DEF Mentions
<1>6. GenerationsGrow' <=> GenerationsGrow
  BY <1>4, <1>5, Zenon DEF GenerationsGrow
<1>7. \A p : IsNewest(p)' <=> IsNewest(p)
  BY <1>4, <1>5, Zenon DEF IsNewest
<1>8. Newest' = Newest
  <2> DEFINE live == {p \in Mentions : IsNewest(p) /\ Live(p)}
  <2> DEFINE N(og) == CHOOSE p \in live : Key(At(p)) = og
  <2>1. live' = live
    BY <1>4, <1>5, <1>7
  <2>2. {Key(At(p)) : p \in live}' = {Key(At(p)) : p \in live}
    <3> HIDE DEF live
    <3> QED
      BY <1>3, <2>1
  <2>3. \A og : N(og)' = N(og)
    <3> HIDE DEF live
    <3> QED
      BY <1>3, <2>1, Zenon
  <2>4. [og \in {Key(At(p)) : p \in live} |-> At(N(og))]'
          = [og \in {Key(At(p)) : p \in live} |-> At(N(og))]
    <3> HIDE DEF live, N
    <3> QED
      BY <1>3, <2>1, <2>2, <2>3, Zenon
  <2> QED
    BY <2>4 DEF Newest
<1>9. Tabled' = Tabled
  BY DEF Tabled
<1>10. ASSUME NEW n, NEW s PROVE Upto(n, s)' = Upto(n, s)
  BY <1>5, Zenon DEF Upto
<1>11. \A p, P : NewestIn(p, P)' <=> NewestIn(p, P)
  BY <1>4, Zenon DEF NewestIn
<1>12. ASSUME NEW x, NEW d, NEW P PROVE Represents(x, d, P)' <=> Represents(x, d, P)
  BY <1>3, <1>4, <1>11, Zenon DEF Represents
<1>13. ASSUME NEW og, NEW e PROVE IsThere(og, e)' <=> IsThere(og, e)
  BY Zenon DEF IsThere, Og
<1>14. ASSUME NEW o PROVE Plainly(o)' <=> Plainly(o)
  BY Zenon DEF Plainly
<1>15. Said' = Said
  BY DEF Said
<1>16. FreeIds' = FreeIds
  BY <1>15 DEF FreeIds
<1>17. ASSUME NEW og, NEW e PROVE Stale(og, e)' <=> Stale(og, e)
  BY <1>15, Zenon DEF Stale, Og
<1>18. Disputed' = Disputed
  BY <1>4, <1>5 DEF Disputed
<1>19. \A x : Undisputed(x)' = Undisputed(x)
  BY <1>18 DEF Undisputed, Restrict
<1> QED
  BY <1>1, <1>s, <1>5, <1>6, <1>8, <1>9, <1>10, <1>12, <1>13, <1>14, <1>16, <1>17, <1>19

LEMMA NothingRead ==
  ASSUME file \in Files
  PROVE  /\ EmptyTable \in Xrefs
         /\ Represents(EmptyTable, {}, Upto(0, 0))
         /\ Cardinality({}) = 0
<1>1. DOMAIN EmptyTable = {} /\ EmptyTable \in [{} -> Entries] /\ {} \in SUBSET (Nat \X Nat)
  BY DEF EmptyTable
<1>2. EmptyTable \in Xrefs
  BY <1>1 DEF Xrefs
<1>3. Upto(0, 0) = {}
  <2>1. \A p \in Mentions : p[1] \in Nat /\ p[2] \in {0, 1}
    BY MentionFacts
  <2> QED
    BY <2>1 DEF Upto
<1>4. Represents(EmptyTable, {}, {})
  BY <1>1 DEF Represents
<1>5. Cardinality({}) = 0
  BY FS_EmptySet
<1> QED
  BY <1>2, <1>3, <1>4, <1>5

LEMMA InitIInv == Init => IInv
<1> SUFFICES ASSUME Init PROVE IInv
  OBVIOUS
<1>1. file \in Files /\ pc = "open" /\ mode = "first" /\ off = 0 /\ visited = {}
      /\ xref = EmptyTable /\ deleted = {} /\ backup = EmptyTable /\ ~reconstructed
      /\ reconstructed \in BOOLEAN /\ ~parsed /\ parsed \in BOOLEAN
  BY DEF Init
<1>2. TypeOK
  <2>1. EmptyTable \in Xrefs /\ Len(file.sections) \in Nat
    BY <1>1, NothingRead, FileFacts
  <2> QED
    BY <1>1, <2>1 DEF TypeOK
<1>3. DOMAIN EmptyTable = {}
  BY DEF EmptyTable
<1>4. PlainlyOne
  BY <1>1, <1>3 DEF PlainlyOne
<1>5. Stages /\ Reading /\ TableIsNewest /\ PlainIsGone /\ AllThere /\ AllFound /\ AllKept
  BY <1>1 DEF Stages, IsReading, Reading, TableIsNewest, NewestWins, OneGeneration, PlainIsGone,
              AllThere, AllFound, AllKept, Recovered, ReadingOn
<1> QED
  BY <1>2, <1>4, <1>5 DEF IInv

LEMMA ParseKeeps ==
  ASSUME IInv, Parse
  PROVE  IInv'
<1>1. /\ pc = "open" /\ file' = file /\ UNCHANGED <<xref, deleted, backup, reconstructed, parsed>>
      /\ xref = EmptyTable /\ deleted = {} /\ ~reconstructed /\ file \in Files
  BY DEF Parse, IInv, Stages, TypeOK
<1>2. CASE file.start = 0
  <2>1. pc' = "reconstruct" /\ UNCHANGED <<mode, off, visited>>
    BY <1>2 DEF Parse
  <2>2. TypeOK'
    BY <1>1, <2>1 DEF IInv, TypeOK
  <2>3. Stages' /\ Reading' /\ TableIsNewest' /\ PlainIsGone' /\ AllThere' /\ AllFound' /\ AllKept'
    BY <1>1, <2>1 DEF Stages, IsReading, Reading, TableIsNewest, NewestWins, OneGeneration, PlainIsGone,
                      AllThere, AllFound, AllKept, Recovered, ReadingOn
  <2>4. PlainlyOne'
    BY <1>1, SameFile DEF IInv, PlainlyOne
  <2> QED
    BY <2>2, <2>3, <2>4 DEF IInv
<1>3. CASE file.start # 0
  <2>1. pc' = "read" /\ mode' = "first" /\ off' = file.start /\ visited' = {}
    BY <1>3 DEF Parse, StartReading
  <2>2. TypeOK'
    <3>1. file.start \in 0..Len(file.sections)
      BY <1>1, FileFacts
    <3> QED
      BY <1>1, <2>1, <3>1 DEF IInv, TypeOK
  <2>3. Stages' /\ TableIsNewest' /\ PlainIsGone' /\ AllThere' /\ AllFound' /\ AllKept'
    BY <1>1, <1>3, <2>1 DEF Stages, IsReading, TableIsNewest, NewestWins, OneGeneration, PlainIsGone,
                            AllThere, AllFound, AllKept, Recovered, ReadingOn
  <2>4. PlainlyOne'
    BY <1>1, SameFile DEF IInv, PlainlyOne
  <2>5. Reading'
    <3>1. InChain[0] = file.start
      BY <1>1, <1>3, ChainFacts DEF Start
    <3>2. Represents(xref', deleted', Upto(Cardinality(visited'), 0))
      BY <1>1, <2>1, NothingRead
    <3>3. off' = InChain[Cardinality(visited')] /\ off' \notin visited'
      BY <1>1, <2>1, <3>1, NothingRead
    <3>4. Half' = 0
      BY <2>1 DEF Half
    <3> QED
      BY <1>1, <3>2, <3>3, <3>4, SameFile DEF Reading
  <2> QED
    BY <2>2, <2>3, <2>4, <2>5 DEF IInv
<1> QED
  BY <1>2, <1>3

(* What the file says of an object with one generation.                    *)
LEMMA PlainlySaid ==
  ASSUME file \in Files, NEW k \in DOMAIN file.objects, Plainly(file.objects[k])
  PROVE  LET o == file.objects[k]
         IN  /\ o.id \in Nat /\ o.id # 0 /\ o.id \notin FreeIds
             /\ \A e \in Said : e.id = o.id => e.gen = 0
             /\ \A j \in DOMAIN file.objects : file.objects[j].id = o.id => file.objects[j].gen = 0
<1> DEFINE o == file.objects[k]
<1>1. /\ o.id \in 1..MaxId
      /\ \A j \in DOMAIN file.objects : file.objects[j].id = o.id => file.objects[j].gen = 0
      /\ \A n \in DOMAIN file.sections : \A e \in Range(file.sections[n].entries) :
           e.id = o.id => e.kind # "free" /\ e.gen = 0
  BY DEF Plainly
<1> HIDE DEF o
<1>2. \A e \in Said : e.id = o.id => e.kind # "free" /\ e.gen = 0
  BY <1>1 DEF Said
<1>3. o.id \notin FreeIds
  BY <1>2 DEF FreeIds
<1>4. o.id \in Nat /\ o.id # 0
  BY <1>1, ConstantsAssumption
<1> QED
  BY <1>1, <1>2, <1>3, <1>4 DEF o

LEMMA PlainlyFindable ==
  ASSUME NEW o, Plainly(o)
  PROVE  Findable(o)
BY ConstantsAssumption DEF Plainly, Findable

(* A step of read_xref at the section off adds something to the table, and *)
(* then looks at the /XRefStm, goes on to the older section or ends.       *)
Reads(r) ==
  /\ UNCHANGED <<file, mode, backup, reconstructed, parsed>>
  /\ xref' = r.t.xref /\ deleted' = r.t.deleted
  /\ \/ pc' = "stm" /\ StmOf(off) # 0 /\ UNCHANGED <<off, visited>>
     \/ /\ pc' = "read" /\ off' = r.next /\ visited' = visited \cup {off}
        /\ r.ok /\ r.next \notin visited'
        /\ r.next = file.sections[off].prev /\ r.next # -1
     \/ pc' = ThrowTo /\ off' = 0 /\ visited' = visited \cup {off}

LEMMA AtSection ==
  ASSUME IInv, IsReading, off # 0
  PROVE  /\ file \in Files /\ xref \in Xrefs /\ deleted \in SUBSET Nat /\ backup \in Xrefs
         /\ mode \in {"first", "resumed", "retry", "streams"}
         /\ reconstructed \in BOOLEAN /\ parsed \in BOOLEAN
         /\ DOMAIN file.sections = 1..Len(file.sections) /\ Len(file.sections) \in Nat
         /\ visited \subseteq DOMAIN file.sections /\ off \in DOMAIN file.sections
         /\ file.sections[off].prev \in 0..Len(file.sections) \cup {-1}
<1>1. /\ file \in Files /\ off \in 0..Len(file.sections)
      /\ visited \subseteq DOMAIN file.sections
  BY DEF IInv, TypeOK
<1>2. DOMAIN file.sections = 1..Len(file.sections) /\ Len(file.sections) \in Nat
  BY <1>1, FileFacts
<1>3. off \in DOMAIN file.sections
  BY <1>1, <1>2
<1> QED
  BY <1>1, <1>2, <1>3, FileFacts DEF IInv, TypeOK

(* Without loops the number of sections visited is the place in the chain. *)
LEMMA NextInChain ==
  ASSUME IInv, IsReading, off # 0, mode \in {"first", "retry"}
  PROVE  LET c == Cardinality(visited)
         IN  /\ c \in Nat /\ c \in 0..(Len(file.sections) - 1)
             /\ off = InChain[c] /\ Represents(xref, deleted, Upto(c, Half))
             /\ Cardinality(visited \cup {off}) = c + 1
             /\ InChain[c + 1] = file.sections[off].prev
<1> DEFINE c == Cardinality(visited)
<1>1. /\ file \in Files /\ off \in DOMAIN file.sections /\ visited \subseteq DOMAIN file.sections
      /\ DOMAIN file.sections = 1..Len(file.sections) /\ Len(file.sections) \in Nat
  BY AtSection
<1>2. off = InChain[c] /\ off \notin visited /\ Represents(xref, deleted, Upto(c, Half))
  BY DEF IInv, Reading
<1>3. IsFiniteSet(DOMAIN file.sections) /\ Cardinality(DOMAIN file.sections) = Len(file.sections)
  <2>1. IsFiniteSet(1..Len(file.sections)) /\ Cardinality(1..Len(file.sections)) = Len(file.sections)
    BY <1>1, FS_Interval
  <2> QED
    BY <1>1, <2>1
<1>4. c \in Nat /\ Cardinality(visited \cup {off}) = c + 1
  <2>1. IsFiniteSet(visited)
    BY <1>1, <1>3, FS_Subset
  <2> QED
    BY <1>2, <2>1, FS_CardinalityType, FS_AddElement
<1>5. Cardinality(visited \cup {off}) <= Len(file.sections)
  <2>1. visited \cup {off} \subseteq DOMAIN file.sections
    BY <1>1
  <2> QED
    BY <1>3, <2>1, FS_Subset
<1> HIDE DEF c
<1>6. c \in 0..(Len(file.sections) - 1)
  BY <1>1, <1>4, <1>5
<1>7. InChain[c + 1] = file.sections[off].prev
  BY <1>1, <1>2, <1>4, ChainFacts
<1> QED
  BY <1>2, <1>4, <1>6, <1>7 DEF c

(* What every step of read_xref keeps: all but Reading.                    *)
LEMMA ReadsKeeps ==
  ASSUME IInv, IsReading, off # 0, NEW r, Reads(r),
         r.t.xref \in Xrefs, r.t.deleted \in SUBSET Nat,
         Grows(Table, r.t, Allowed), Reading'
  PROVE  IInv'
<1>1. /\ UNCHANGED <<file, mode, backup, reconstructed, parsed>>
      /\ xref' = r.t.xref /\ deleted' = r.t.deleted
  BY DEF Reads
<1>2. /\ file \in Files /\ xref \in Xrefs /\ deleted \in SUBSET Nat /\ backup \in Xrefs
      /\ mode \in {"first", "resumed", "retry", "streams"}
      /\ reconstructed \in BOOLEAN /\ parsed \in BOOLEAN
      /\ DOMAIN file.sections = 1..Len(file.sections) /\ Len(file.sections) \in Nat
      /\ visited \subseteq DOMAIN file.sections /\ off \in DOMAIN file.sections
      /\ file.sections[off].prev \in 0..Len(file.sections) \cup {-1}
  BY AtSection
<1>3. /\ mode = "first" => ThrowTo = "reconstruct"
      /\ mode = "resumed" => ThrowTo = "failed"
      /\ mode = "retry" => ThrowTo = "recover"
      /\ mode = "streams" => ThrowTo = "conclude"
  BY DEF ThrowTo
<1>4. /\ pc' \in {"read", "stm"} \/ pc' = ThrowTo
      /\ pc' = "stm" => off' = off /\ StmOf(off) # 0
  BY <1>2, <1>3 DEF Reads
<1>5. /\ \A og \in DOMAIN xref : og \in DOMAIN xref' /\ xref'[og] = xref[og]
      /\ \A og \in DOMAIN xref' \ DOMAIN xref : xref'[og] \in Allowed
      /\ deleted' \subseteq deleted \cup FreeIds
  <2>1. Table.xref = xref /\ Table.deleted = deleted
    BY DEF Table
  <2> QED
    BY <1>1, <2>1 DEF Grows
<1>6. TypeOK'
  <2>1. visited' \subseteq DOMAIN file.sections /\ off' \in 0..Len(file.sections)
    BY <1>2 DEF Reads
  <2>2. pc' \in {"read", "stm", "reconstruct", "recover", "conclude", "failed"}
    BY <1>2, <1>3, <1>4
  <2> QED
    BY <1>1, <1>2, <2>1, <2>2 DEF TypeOK
<1>7. Stages'
  <2>1. /\ reconstructed <=> mode # "first"
        /\ mode = "first" => file.start # 0
        /\ mode = "retry" => file.start = 0
    BY DEF IInv, Stages
  <2>2. (pc = "stm" => off # 0 /\ StmOf(off) # 0)'
    BY <1>1, <1>4 DEF StmOf
  <2>3. /\ pc' # "open" /\ pc' # "ready"
        /\ pc' = "reconstruct" => mode = "first"
        /\ pc' \in {"recover", "conclude"} => mode \in {"retry", "streams"}
    BY <1>2, <1>3, <1>4
  <2> QED
    BY <1>1, <1>2, <2>1, <2>2, <2>3 DEF Stages, IsReading
<1>8. TableIsNewest'
  BY <1>2, <1>3, <1>4 DEF TableIsNewest, NewestWins, OneGeneration
<1>9. PlainIsGone'
  <2>1. pc' = "recover" => mode = "retry"
    BY <1>2, <1>3, <1>4
  <2>2. mode = "retry" => Base' = backup /\ NoPlain(backup)
    BY <1>1 DEF Base, IInv, PlainIsGone
  <2> QED
    BY <1>1, <2>1, <2>2 DEF PlainIsGone, NoPlain
<1>10. ASSUME Recovered' PROVE mode \in {"streams", "resumed"} /\ ReadingOn /\ Recovered
  <2>1. mode \in {"streams", "resumed"}
    BY <1>1, <1>2, <1>3, <1>4, <1>10 DEF Recovered, ReadingOn, IsReading
  <2> QED
    BY <2>1 DEF Recovered, ReadingOn
<1>11. AllThere'
  <2> SUFFICES ASSUME Recovered', NEW og \in DOMAIN xref', xref'[og].kind = "plain"
               PROVE  \/ IsThere(og, xref'[og])
                      \/ Stale(og, xref'[og]) /\ (mode = "streams" => xref'[og] \in Tabled)
    BY <1>1, <1>10, SameFile DEF AllThere
  <2>1. CASE og \in DOMAIN xref
    BY <1>5, <1>10, <2>1 DEF IInv, AllThere
  <2>2. CASE og \notin DOMAIN xref
    <3> DEFINE e == xref'[og]
    <3>1. e \in Said /\ (mode = "streams" => e \in Tabled)
      BY <1>5, <2>2 DEF Allowed
    <3>2. IsValid(e) /\ Key(e) = og
      BY <1>1, XrefFacts
    <3>3. ASSUME NEW k \in DOMAIN file.objects, Og(file.objects[k]) = og
          PROVE  \E f \in Said : f.kind = "free" /\ f.id = og[1]
      <4>1. og = <<e.id, e.gen>> /\ e.id \in 1..MaxId /\ e.gen <= MaxGen
        BY <3>2 DEF IsValid, Key
      <4>2. Findable(file.objects[k])
        BY <3>3, <4>1 DEF Findable, Og
      <4>3. file.objects[k].id \in FreeIds
        BY <1>10, <2>2, <3>3, <4>2 DEF IInv, AllFound
      <4> QED
        BY <3>3, <4>3 DEF FreeIds, Og
    <3>4. Stale(og, e)
      BY <3>1, <3>3 DEF Stale
    <3> QED
      BY <3>1, <3>4
  <2> QED
    BY <2>1, <2>2
<1>12. AllFound'
  <2>1. deleted' \subseteq FreeIds
    BY <1>5 DEF IInv, AllFound
  <2>2. ReadingOn' => ReadingOn
    BY <1>1 DEF ReadingOn
  <2> QED
    BY <1>1, <1>5, <2>1, <2>2, SameFile DEF IInv, AllFound, Findable, Og
<1>13. AllKept'
  BY <1>1, <1>5, <1>10, SameFile DEF IInv, AllKept, Og
<1>14. PlainlyOne'
  <2> SUFFICES ASSUME NEW k \in DOMAIN file.objects, Plainly(file.objects[k])
               PROVE  /\ file.objects[k].id \notin deleted'
                      /\ \A og \in DOMAIN xref' \cup DOMAIN backup :
                           og[1] = file.objects[k].id => og[2] = 0
    BY <1>1, SameFile DEF PlainlyOne
  <2>1. /\ file.objects[k].id \notin deleted
        /\ \A og \in DOMAIN xref \cup DOMAIN backup : og[1] = file.objects[k].id => og[2] = 0
    BY DEF IInv, PlainlyOne
  <2>2. /\ file.objects[k].id \notin FreeIds
        /\ \A e \in Said : e.id = file.objects[k].id => e.gen = 0
    BY <1>2, PlainlySaid
  <2>3. ASSUME NEW og \in DOMAIN xref' \ DOMAIN xref, og[1] = file.objects[k].id
        PROVE  og[2] = 0
    <3>1. xref'[og] \in Said /\ xref'[og] \in Entries /\ Key(xref'[og]) = og
      BY <1>1, <1>5, XrefFacts DEF Allowed
    <3>2. og[1] = xref'[og].id
          /\ og[2] = IF xref'[og].kind = "packed" THEN 0 ELSE xref'[og].gen
      BY <3>1, KeyType
    <3> QED
      BY <2>2, <2>3, <3>1, <3>2
  <2> QED
    BY <1>5, <2>1, <2>2, <2>3
<1> QED
  BY <1>6, <1>7, <1>8, <1>9, <1>11, <1>12, <1>13, <1>14 DEF IInv

LEMMA ReadXrefKeeps ==
  ASSUME IInv, ReadXref
  PROVE  IInv'
<1> DEFINE r == ReadSection(off)
<1> DEFINE c == Cardinality(visited)
<1>1. /\ pc = "read" /\ off # 0 /\ IsReading /\ Half = 0
      /\ UNCHANGED <<file, mode, backup, reconstructed, parsed>>
      /\ xref' = r.t.xref /\ deleted' = r.t.deleted
      /\ IF r.ok /\ StmOf(off) # 0 THEN pc' = "stm" /\ UNCHANGED <<off, visited>> ELSE Follow(r)
  BY DEF ReadXref, SetTable, IsReading, Half
<1>2. /\ file \in Files /\ xref \in Xrefs /\ deleted \in SUBSET Nat /\ off \in DOMAIN file.sections
  BY <1>1, AtSection
<1>3. /\ r.t.xref \in Xrefs /\ r.t.deleted \in SUBSET Nat
      /\ Grows(Table, r.t, Allowed)
      /\ r.ok /\ StmOf(off) = 0 => r.next = file.sections[off].prev /\ r.next # -1
  BY <1>2, ReadSectionGrows
<1> HIDE DEF r
<1>4. \/ pc' = "stm" /\ r.ok /\ StmOf(off) # 0 /\ UNCHANGED <<off, visited>>
      \/ /\ pc' = "read" /\ off' = r.next /\ visited' = visited \cup {off}
         /\ r.ok /\ StmOf(off) = 0 /\ r.next \notin visited \cup {off}
      \/ pc' = ThrowTo /\ off' = 0 /\ visited' = visited \cup {off}
  BY <1>1 DEF Follow, ReadXref_Continues
<1>5. Reads(r)
  BY <1>1, <1>3, <1>4 DEF Reads
<1>6. Reading'
  <2> SUFFICES ASSUME IsReading', mode \in {"first", "retry"}
               PROVE  /\ off' = InChain[Cardinality(visited')] /\ off' \notin visited'
                      /\ Represents(xref', deleted', Upto(Cardinality(visited'), Half'))
    BY <1>1, SameFile DEF Reading
  <2>1. /\ c \in Nat /\ c \in 0..(Len(file.sections) - 1)
        /\ off = InChain[c] /\ Represents(xref, deleted, Upto(c, 0))
        /\ Cardinality(visited \cup {off}) = c + 1
        /\ InChain[c + 1] = file.sections[off].prev
    BY <1>1, NextInChain
  <2>2. pc' # ThrowTo
    BY DEF ThrowTo, IsReading
  <2>3. r.ok /\ r = ReadSection(InChain[c])
    BY <1>4, <2>1, <2>2 DEF r
  <2> HIDE DEF c
  <2>4. /\ Represents(xref', deleted', Upto(c, 1))
        /\ StmOf(off) = 0 => Upto(c, 1) = Upto(c + 1, 0)
    BY <1>1, <1>2, <2>1, <2>3, ReadSectionRepresents
  <2>5. CASE pc' = "stm"
    <3>1. Half' = 1
      BY <2>5 DEF Half
    <3>2. off' = off /\ visited' = visited
      BY <1>4, <2>2, <2>5
    <3>3. off \notin visited
      BY <1>1 DEF IInv, Reading
    <3> QED
      BY <2>1, <2>4, <3>1, <3>2, <3>3 DEF c
  <2>6. CASE pc' = "read"
    <3>1. /\ off' = r.next /\ visited' = visited \cup {off}
          /\ r.ok /\ StmOf(off) = 0 /\ r.next \notin visited \cup {off}
      BY <1>4, <2>2, <2>6
    <3>2. Half' = 0 /\ Cardinality(visited') = c + 1
      BY <2>1, <2>6, <3>1 DEF Half
    <3>3. off' = InChain[c + 1] /\ off' \notin visited'
      BY <1>3, <2>1, <3>1
    <3>4. Represents(xref', deleted', Upto(c + 1, 0))
      BY <2>4, <3>1
    <3> QED
      BY <3>2, <3>3, <3>4
  <2> QED
    BY <1>4, <2>2, <2>5, <2>6
<1> QED
  BY <1>1, <1>3, <1>5, <1>6, ReadsKeeps

LEMMA ReadHybridKeeps ==
  ASSUME IInv, ReadHybrid
  PROVE  IInv'
<1> DEFINE r == ReadXrefStm(Table, off)
<1> DEFINE c == Cardinality(visited)
<1>1. /\ pc = "stm" /\ off # 0 /\ StmOf(off) # 0 /\ IsReading /\ Half = 1
      /\ UNCHANGED <<file, mode, backup, reconstructed, parsed>>
      /\ xref' = r.t.xref /\ deleted' = r.t.deleted /\ Follow(r)
  BY DEF ReadHybrid, SetTable, IInv, Stages, IsReading, Half
<1>2. /\ file \in Files /\ xref \in Xrefs /\ deleted \in SUBSET Nat /\ off \in DOMAIN file.sections
  BY <1>1, AtSection
<1>3. /\ r.t.xref \in Xrefs /\ r.t.deleted \in SUBSET Nat
      /\ Grows(Table, r.t, Allowed)
      /\ r.ok => r.next = file.sections[off].prev /\ r.next # -1
  <2>1. /\ \E c1 : r.t \in TablesOf(c1)
        /\ Grows(Table, r.t, Allowed)
        /\ r.ok => r.next = file.sections[off].prev /\ r.next # -1
    BY <1>1, <1>2, ReadStmFacts
  <2> QED
    BY <2>1, TableFacts
<1> HIDE DEF r
<1>4. \/ /\ pc' = "read" /\ off' = r.next /\ visited' = visited \cup {off}
         /\ r.ok /\ r.next \notin visited \cup {off}
      \/ pc' = ThrowTo /\ off' = 0 /\ visited' = visited \cup {off}
  BY <1>1 DEF Follow, ReadXref_Continues
<1>5. Reads(r)
  BY <1>1, <1>3, <1>4 DEF Reads
<1>6. Reading'
  <2> SUFFICES ASSUME IsReading', mode \in {"first", "retry"}
               PROVE  /\ off' = InChain[Cardinality(visited')] /\ off' \notin visited'
                      /\ Represents(xref', deleted', Upto(Cardinality(visited'), Half'))
    BY <1>1, SameFile DEF Reading
  <2>1. /\ c \in Nat /\ c \in 0..(Len(file.sections) - 1)
        /\ off = InChain[c] /\ Represents(xref, deleted, Upto(c, 1))
        /\ Cardinality(visited \cup {off}) = c + 1
        /\ InChain[c + 1] = file.sections[off].prev
    BY <1>1, NextInChain
  <2>2. pc' # ThrowTo
    BY DEF ThrowTo, IsReading
  <2>3. /\ r.ok /\ r = ReadXrefStm(Table, InChain[c])
        /\ Half' = 0 /\ Cardinality(visited') = c + 1
    BY <1>4, <2>1, <2>2 DEF r, Half
  <2> HIDE DEF c
  <2>4. Represents(xref', deleted', Upto(c + 1, 0))
    BY <1>1, <1>2, <2>1, <2>3, ReadStmRepresents
  <2> QED
    BY <1>3, <1>4, <2>1, <2>2, <2>3, <2>4
<1> QED
  BY <1>1, <1>3, <1>5, <1>6, ReadsKeeps

LEMMA FinishReadingKeeps ==
  ASSUME IInv, FinishReading
  PROVE  IInv'
<1> DEFINE c == Cardinality(visited)
<1>1. /\ pc = "read" /\ IsReading /\ Half = 0 /\ off = 0 /\ UNCHANGED <<file, mode, off, visited, backup>>
      /\ xref' = Restrict(xref, Highest) /\ deleted' = {}
  BY DEF FinishReading, IsReading, Half
<1>2. /\ file \in Files /\ xref \in Xrefs /\ deleted \in SUBSET Nat /\ backup \in Xrefs
      /\ mode \in {"first", "resumed", "retry", "streams"} /\ reconstructed \in BOOLEAN /\ parsed \in BOOLEAN
      /\ visited \subseteq DOMAIN file.sections /\ off \in 0..Len(file.sections)
  BY DEF IInv, TypeOK
<1>3. /\ mode = "first" => ThrowTo = "reconstruct"
      /\ mode = "retry" => ThrowTo = "recover"
      /\ mode = "streams" => ThrowTo = "conclude"
  BY <1>1 DEF ThrowTo
<1>4. /\ reconstructed <=> mode # "first"
      /\ mode = "first" => file.start # 0
      /\ mode = "retry" => file.start = 0
  BY <1>1 DEF IInv, Stages
<1>5. \/ mode = "first" /\ pc' \in {"ready", "failed"} /\ parsed' = TRUE /\ reconstructed' = FALSE
      \/ mode = "resumed" /\ pc' \in {"ready", "failed"} /\ parsed' = TRUE /\ reconstructed' = TRUE
      \/ mode = "retry" /\ pc' = "ready" /\ parsed' = TRUE /\ reconstructed' = FALSE
      \/ mode = "retry" /\ pc' = "recover" /\ parsed' = parsed /\ reconstructed' = reconstructed
      \/ mode = "streams" /\ pc' = "conclude" /\ parsed' = parsed /\ reconstructed' = reconstructed
  <2>1. \/ mode \in {"first", "resumed"} /\ pc' \in {"ready", "failed"} /\ parsed' = TRUE /\ reconstructed' = reconstructed
        \/ mode = "retry" /\ pc' = "ready" /\ parsed' = TRUE /\ reconstructed' = FALSE
        \/ mode \in {"retry", "streams"} /\ pc' = ThrowTo /\ parsed' = parsed /\ reconstructed' = reconstructed
    BY DEF FinishReading
  <2> QED
    BY <1>2, <1>3, <1>4, <2>1
<1>6. /\ xref' \in Xrefs /\ DOMAIN xref' = Highest /\ Highest \subseteq DOMAIN xref
      /\ \A og \in Highest : xref'[og] = xref[og]
  <2>1. Highest \subseteq DOMAIN xref
    BY DEF Highest
  <2> QED
    BY <1>1, <1>2, <2>1, RestrictFacts
<1>7. TypeOK'
  BY <1>1, <1>2, <1>5, <1>6 DEF TypeOK
<1>8. Stages'
  BY <1>1, <1>2, <1>4, <1>5 DEF Stages, IsReading
<1>9. Reading'
  BY <1>5 DEF Reading, IsReading
<1>10. TableIsNewest'
  <2> SUFFICES ASSUME pc' = "ready", ~reconstructed'
               PROVE  /\ GenerationsGrow => Undisputed(xref') = Undisputed(Newest)
                      /\ \A g, h \in DOMAIN xref' : g[1] = h[1] => g = h
    BY <1>1, SameFile DEF TableIsNewest, NewestWins, OneGeneration
  <2>1. mode \in {"first", "retry"}
    BY <1>5
  <2>2. off = InChain[c] /\ Represents(xref, deleted, Upto(c, 0))
    <3>1. Reading
      BY DEF IInv
    <3> HIDE DEF Half
    <3> QED
      BY <1>1, <2>1, <3>1 DEF Reading
  <2>3. c \in Nat
    <3>1. DOMAIN file.sections = 1..Len(file.sections) /\ Len(file.sections) \in Nat
      BY <1>2, FileFacts
    <3>2. IsFiniteSet(1..Len(file.sections))
      BY <3>1, FS_Interval
    <3>3. IsFiniteSet(visited)
      BY <1>2, <3>1, <3>2, FS_Subset
    <3> QED
      BY <3>3, FS_CardinalityType
  <2> HIDE DEF c
  <2>4. Represents(xref, deleted, Mentions)
    BY <1>1, <1>2, <2>2, <2>3, ChainEnds
  <2>5. GenerationsGrow => Undisputed(xref') = Undisputed(Newest)
    BY <1>1, <1>2, <2>4, WholeIsNewest
  <2>6. ASSUME NEW g \in DOMAIN xref', NEW h \in DOMAIN xref', g[1] = h[1]
        PROVE  g = h
    <3>1. g \in Nat \X Nat /\ h \in Nat \X Nat
      BY <1>6, XrefFacts
    <3>2. g[2] <= h[2] /\ h[2] <= g[2]
      BY <1>6, <2>6 DEF Highest
    <3> QED
      BY <2>6, <3>1, <3>2
  <2> QED
    BY <2>5, <2>6
<1>11. PlainIsGone'
  <2>1. mode = "retry" => Base' = backup /\ NoPlain(backup)
    BY <1>1 DEF Base, IInv, PlainIsGone
  <2> QED
    BY <1>5, <2>1 DEF PlainIsGone, IsReading, NoPlain
<1>12. ASSUME Recovered' PROVE mode \in {"streams", "resumed"} /\ Recovered
  BY <1>1, <1>5, <1>12 DEF Recovered, ReadingOn, IsReading
<1>13. AllThere' /\ AllFound'
  <2>1. AllThere'
    BY <1>1, <1>6, <1>12, SameFile DEF IInv, AllThere
  <2> QED
    BY <1>1, <1>5, <2>1 DEF AllFound, ReadingOn, IsReading
<1>14. AllKept'
  <2> SUFFICES ASSUME Recovered', NEW k \in DOMAIN file.objects, Plainly(file.objects[k])
               PROVE  Og(file.objects[k]) \in Highest
    BY <1>1, <1>6, SameFile DEF AllKept, Og
  <2>1. Og(file.objects[k]) \in DOMAIN xref
    BY <1>12 DEF IInv, AllKept
  <2>2. Og(file.objects[k])[1] = file.objects[k].id /\ Og(file.objects[k])[2] = 0
    BY DEF Og, Plainly
  <2>3. \A h \in DOMAIN xref : h[1] = file.objects[k].id => h[2] = 0
    BY DEF IInv, PlainlyOne
  <2> QED
    BY <2>1, <2>2, <2>3 DEF Highest
<1>15. PlainlyOne'
  BY <1>1, <1>6, SameFile DEF IInv, PlainlyOne
<1> QED
  BY <1>7, <1>8, <1>9, <1>10, <1>11, <1>13, <1>14, <1>15 DEF IInv

LEMMA DamagedKeeps ==
  ASSUME IInv, Damaged
  PROVE  IInv'
<1>1. /\ pc = "ready" /\ ~reconstructed /\ pc' = "reconstruct"
      /\ UNCHANGED <<file, mode, off, visited, xref, deleted, backup, reconstructed, parsed>>
  BY DEF Damaged, CanBeDamaged
<1>2. TypeOK'
  BY <1>1 DEF IInv, TypeOK
<1>3. parsed
  BY <1>1 DEF IInv, Stages
<1>4. Stages' /\ Reading' /\ TableIsNewest' /\ PlainIsGone' /\ AllThere' /\ AllKept'
  BY <1>1, <1>3 DEF Stages, IsReading, Reading, TableIsNewest, NewestWins, OneGeneration, PlainIsGone,
                    AllThere, AllKept, Recovered, ReadingOn
<1>5. AllFound' /\ PlainlyOne'
  BY <1>1, SameFile DEF IInv, AllFound, ReadingOn, IsReading, PlainlyOne
<1> QED
  BY <1>2, <1>4, <1>5 DEF IInv

(* A recovery in the middle of reading starts like Recover from the table  *)
(* built so far.                                                           *)
LEMMA DamagedReadingKeeps ==
  ASSUME IInv, DamagedReading
  PROVE  IInv'
<1> DEFINE base == Restrict(xref, NotPlain)
<1> DEFINE x == WithFound(base)
<1>1. /\ pc \in {"read", "stm"} /\ ~reconstructed /\ reconstructed' = TRUE /\ mode' = "resumed"
      /\ xref' = x /\ deleted' = {} /\ pc' \in {pc, "failed"} /\ parsed' \in BOOLEAN
      /\ UNCHANGED <<file, off, visited, backup>>
  BY DEF DamagedReading, CanBeDamaged
<1>2. /\ file \in Files /\ xref \in Xrefs /\ deleted \in SUBSET Nat /\ backup \in Xrefs
      /\ visited \subseteq DOMAIN file.sections /\ off \in 0..Len(file.sections)
  BY DEF IInv, TypeOK
<1>3. /\ base \in Xrefs /\ DOMAIN base = NotPlain /\ NotPlain \subseteq DOMAIN xref
      /\ \A og \in NotPlain : base[og] = xref[og]
  <2>1. NotPlain \subseteq DOMAIN xref
    BY DEF NotPlain
  <2> QED
    BY <1>2, <2>1, RestrictFacts
<1>4. /\ x \in Xrefs
      /\ \A og \in DOMAIN x : x[og].kind = "plain" => IsThere(og, x[og])
      /\ \A og \in DOMAIN x : og \in DOMAIN base \/ \E k \in DOMAIN file.objects : og = Og(file.objects[k])
      /\ \A k \in DOMAIN file.objects :
           Findable(file.objects[k]) /\ file.objects[k].id \notin deleted => Og(file.objects[k]) \in DOMAIN x
  <2>1. \A og \in DOMAIN base : base[og].kind # "plain"
    BY <1>3 DEF NotPlain
  <2> HIDE DEF base
  <2> QED
    BY <1>2, <1>3, <2>1, WithFoundFacts
<1> HIDE DEF x, base
<1>5. TypeOK'
  BY <1>1, <1>2, <1>4 DEF TypeOK
<1>6. Stages'
  <2>1. (pc = "stm" => off # 0 /\ StmOf(off) # 0)'
    BY <1>1 DEF IInv, Stages, StmOf
  <2> QED
    BY <1>1, <2>1 DEF Stages, IsReading
<1>7. Reading' /\ TableIsNewest' /\ PlainIsGone'
  BY <1>1 DEF Reading, TableIsNewest, NewestWins, OneGeneration, PlainIsGone
<1>8. AllThere'
  BY <1>1, <1>4, SameFile DEF AllThere
<1>9. AllFound'
  <2>1. deleted \subseteq FreeIds
    BY DEF IInv, AllFound
  <2> QED
    BY <1>1, <1>4, <2>1, SameFile DEF AllFound, Findable, Og
<1>10. AllKept'
  <2>1. \A k \in DOMAIN file.objects :
          Plainly(file.objects[k]) => file.objects[k].id \notin deleted /\ Findable(file.objects[k])
    BY PlainlyFindable DEF IInv, PlainlyOne
  <2> QED
    BY <1>1, <1>4, <2>1, SameFile DEF AllKept, Og
<1>11. PlainlyOne'
  <2> SUFFICES ASSUME NEW k \in DOMAIN file.objects, Plainly(file.objects[k]),
                      NEW og \in DOMAIN x \cup DOMAIN backup, og[1] = file.objects[k].id
               PROVE  og[2] = 0
    BY <1>1, SameFile DEF PlainlyOne
  <2>1. \A h \in DOMAIN xref \cup DOMAIN backup : h[1] = file.objects[k].id => h[2] = 0
    BY DEF IInv, PlainlyOne
  <2>2. \A j \in DOMAIN file.objects : file.objects[j].id = file.objects[k].id => file.objects[j].gen = 0
    BY <1>2, PlainlySaid
  <2>3. CASE og \in DOMAIN xref \cup DOMAIN backup
    BY <2>1, <2>3
  <2>4. CASE og \notin DOMAIN xref \cup DOMAIN backup
    <3>1. PICK j \in DOMAIN file.objects : og = Og(file.objects[j])
      BY <1>3, <1>4, <2>4
    <3> QED
      BY <2>2, <3>1 DEF Og
  <2> QED
    BY <2>3, <2>4
<1> QED
  BY <1>5, <1>6, <1>7, <1>8, <1>9, <1>10, <1>11 DEF IInv

LEMMA ReconstructKeeps ==
  ASSUME IInv, Reconstruct
  PROVE  IInv'
<1>1. /\ pc = "reconstruct" /\ reconstructed' = TRUE /\ xref' = Restrict(xref, NotPlain)
      /\ UNCHANGED <<file, deleted, parsed>>
  BY DEF Reconstruct
<1>2. /\ file \in Files /\ xref \in Xrefs /\ deleted \in SUBSET Nat /\ backup \in Xrefs
      /\ mode \in {"first", "resumed", "retry", "streams"} /\ reconstructed \in BOOLEAN /\ parsed \in BOOLEAN
      /\ visited \subseteq DOMAIN file.sections /\ off \in 0..Len(file.sections)
  BY DEF IInv, TypeOK
<1>3. /\ xref' \in Xrefs /\ DOMAIN xref' = NotPlain /\ NotPlain \subseteq DOMAIN xref
      /\ \A og \in NotPlain : xref'[og] = xref[og]
  <2>1. NotPlain \subseteq DOMAIN xref
    BY DEF NotPlain
  <2> QED
    BY <1>1, <1>2, <2>1, RestrictFacts
<1>4. NoPlain(xref')
  BY <1>3 DEF NoPlain, NotPlain
<1>5. CASE file.start = 0 /\ ~parsed /\ file.late # 0 /\ file.objects # <<>>
  <2>1. pc' = "read" /\ mode' = "retry" /\ off' = file.late /\ visited' = {} /\ backup' = xref'
    BY <1>5 DEF Reconstruct, StartReading
  <2>2. TypeOK'
    <3>1. file.late \in 0..Len(file.sections)
      BY <1>2, FileFacts
    <3> QED
      BY <1>1, <1>2, <1>3, <2>1, <3>1 DEF TypeOK
  <2>3. Stages' /\ TableIsNewest' /\ AllThere' /\ AllKept'
    BY <1>1, <1>5, <2>1 DEF Stages, IsReading, TableIsNewest, NewestWins, OneGeneration, AllThere, AllKept,
                            Recovered, ReadingOn
  <2>4. PlainIsGone'
    BY <1>4, <2>1 DEF PlainIsGone, NoPlain
  <2>5. xref = EmptyTable /\ deleted = {}
    BY <1>1, <1>5 DEF IInv, Stages
  <2>6. xref' = EmptyTable
    <3>1. DOMAIN xref' = {}
      BY <1>3, <2>5 DEF EmptyTable
    <3>2. xref' = [og \in DOMAIN xref' |-> xref'[og]]
      BY <1>3, XrefFacts
    <3> QED
      BY <3>1, <3>2 DEF EmptyTable
  <2>7. Reading'
    <3>1. InChain[0] = file.late
      BY <1>2, <1>5, ChainFacts DEF Start
    <3>2. Represents(xref', deleted', Upto(Cardinality(visited'), 0))
      BY <1>1, <1>2, <2>1, <2>5, <2>6, NothingRead
    <3>3. off' = InChain[Cardinality(visited')] /\ off' \notin visited'
      BY <1>1, <1>2, <2>1, <3>1, NothingRead
    <3>4. Half' = 0
      BY <2>1 DEF Half
    <3> QED
      BY <1>1, <3>2, <3>3, <3>4, SameFile DEF Reading
  <2>8. AllFound' /\ PlainlyOne'
    BY <1>1, <1>3, <2>1, SameFile DEF IInv, AllFound, ReadingOn, IsReading, PlainlyOne
  <2> QED
    BY <2>2, <2>3, <2>4, <2>7, <2>8 DEF IInv
<1>6. CASE ~(file.start = 0 /\ ~parsed /\ file.late # 0 /\ file.objects # <<>>)
  <2>1. pc' = "recover" /\ mode' = "first" /\ UNCHANGED <<backup, off, visited>>
    BY <1>6 DEF Reconstruct
  <2>2. TypeOK'
    BY <1>1, <1>2, <1>3, <2>1 DEF TypeOK
  <2>3. Stages' /\ Reading' /\ TableIsNewest' /\ AllThere' /\ AllKept'
    BY <1>1, <2>1 DEF Stages, IsReading, Reading, TableIsNewest, NewestWins, OneGeneration,
                      AllThere, AllKept, Recovered, ReadingOn
  <2>4. PlainIsGone'
    <3>1. Base' = xref'
      BY <2>1 DEF Base
    <3> QED
      BY <1>4, <2>1, <3>1 DEF PlainIsGone, NoPlain
  <2>5. AllFound' /\ PlainlyOne'
    BY <1>1, <1>3, <2>1, SameFile DEF IInv, AllFound, ReadingOn, IsReading, PlainlyOne
  <2> QED
    BY <2>2, <2>3, <2>4, <2>5 DEF IInv
<1> QED
  BY <1>5, <1>6

LEMMA RecoverKeeps ==
  ASSUME IInv, Recover
  PROVE  IInv'
<1> DEFINE x == RecoveredTable
<1>1. /\ pc = "recover" /\ xref' = x /\ deleted' = {}
      /\ UNCHANGED <<file, backup, reconstructed, parsed>>
      /\ \/ pc' = "conclude" /\ UNCHANGED <<mode, off, visited>>
         \/ /\ pc' = "read" /\ mode' = "streams" /\ visited' = {}
            /\ \E last \in XrefStreams(x) : off' = SectionOf(x[last])
  BY DEF Recover, StartReading
<1>2. /\ file \in Files /\ xref \in Xrefs /\ deleted \in SUBSET Nat /\ backup \in Xrefs
      /\ mode \in {"first", "resumed", "retry", "streams"} /\ reconstructed \in BOOLEAN /\ parsed \in BOOLEAN
      /\ visited \subseteq DOMAIN file.sections /\ off \in 0..Len(file.sections)
  BY DEF IInv, TypeOK
<1>3. Base \in Xrefs /\ DOMAIN Base \subseteq DOMAIN xref \cup DOMAIN backup
  BY <1>2 DEF Base
<1>4. /\ x \in Xrefs
      /\ \A og \in DOMAIN x : x[og].kind = "plain" => IsThere(og, x[og])
      /\ \A og \in DOMAIN x : og \in DOMAIN Base \/ \E k \in DOMAIN file.objects : og = Og(file.objects[k])
      /\ \A k \in DOMAIN file.objects :
           Findable(file.objects[k]) /\ file.objects[k].id \notin deleted => Og(file.objects[k]) \in DOMAIN x
  <2>1. \A og \in DOMAIN Base : Base[og].kind # "plain"
    BY <1>1 DEF IInv, PlainIsGone, NoPlain
  <2> QED
    BY <1>2, <1>3, <2>1, WithFoundFacts DEF RecoveredTable
<1>5. reconstructed
  BY <1>1 DEF IInv, Stages
<1>6. off' \in 0..Len(file.sections)
  <2>1. ASSUME NEW last \in XrefStreams(x) PROVE SectionOf(x[last]) \in 0..Len(file.sections)
    <3>1. last \in DOMAIN x /\ x[last].kind = "plain"
      BY DEF XrefStreams
    <3>2. x[last].at \in DOMAIN file.objects
      BY <1>4, <3>1 DEF IsThere
    <3> QED
      BY <1>2, <3>2, FileFacts DEF SectionOf
  <2> QED
    BY <1>1, <1>2, <2>1
<1> HIDE DEF x
<1>7. TypeOK'
  BY <1>1, <1>2, <1>4, <1>6 DEF TypeOK
<1>8. Stages' /\ Reading' /\ TableIsNewest' /\ PlainIsGone'
  BY <1>1, <1>5 DEF Stages, IsReading, Reading, TableIsNewest, NewestWins, OneGeneration, PlainIsGone
<1>9. AllThere' /\ AllFound'
  <2>1. AllThere'
    BY <1>1, <1>4, SameFile DEF AllThere
  <2>2. deleted \subseteq FreeIds
    BY DEF IInv, AllFound
  <2> QED
    BY <1>1, <1>4, <2>1, <2>2, SameFile DEF AllFound, Findable, Og
<1>10. AllKept'
  <2>1. \A k \in DOMAIN file.objects :
          Plainly(file.objects[k]) => file.objects[k].id \notin deleted /\ Findable(file.objects[k])
    BY PlainlyFindable DEF IInv, PlainlyOne
  <2> QED
    BY <1>1, <1>4, <2>1, SameFile DEF AllKept, Og
<1>11. PlainlyOne'
  <2> SUFFICES ASSUME NEW k \in DOMAIN file.objects, Plainly(file.objects[k]),
                      NEW og \in DOMAIN x \cup DOMAIN backup, og[1] = file.objects[k].id
               PROVE  og[2] = 0
    BY <1>1, SameFile DEF PlainlyOne
  <2>1. \A h \in DOMAIN xref \cup DOMAIN backup : h[1] = file.objects[k].id => h[2] = 0
    BY DEF IInv, PlainlyOne
  <2>2. \A j \in DOMAIN file.objects : file.objects[j].id = file.objects[k].id => file.objects[j].gen = 0
    BY <1>2, PlainlySaid
  <2>3. CASE og \in DOMAIN xref \cup DOMAIN backup
    BY <2>1, <2>3
  <2>4. CASE og \notin DOMAIN xref \cup DOMAIN backup
    <3>1. PICK j \in DOMAIN file.objects : og = Og(file.objects[j])
      BY <1>3, <1>4, <2>4
    <3> QED
      BY <2>2, <3>1 DEF Og
  <2> QED
    BY <2>3, <2>4
<1> QED
  BY <1>7, <1>8, <1>9, <1>10, <1>11 DEF IInv

LEMMA ConcludeKeeps ==
  ASSUME IInv, Conclude
  PROVE  IInv'
<1>1. /\ pc = "conclude" /\ UNCHANGED <<file, mode, off, visited, xref, deleted, backup, reconstructed>>
      /\ pc' \in {"ready", "failed"} /\ parsed' = (pc' = "ready")
  BY DEF Conclude
<1>2. TypeOK'
  BY <1>1 DEF IInv, TypeOK
<1>3. reconstructed /\ Recovered
  BY <1>1 DEF IInv, Stages, Recovered
<1>4. Stages' /\ Reading' /\ TableIsNewest' /\ PlainIsGone'
  BY <1>1, <1>3 DEF Stages, IsReading, Reading, TableIsNewest, NewestWins, OneGeneration, PlainIsGone
<1>5. AllThere' /\ AllFound' /\ AllKept'
  BY <1>1, <1>3, SameFile DEF IInv, AllThere, AllFound, ReadingOn, IsReading, AllKept
<1>6. PlainlyOne'
  BY <1>1, SameFile DEF IInv, PlainlyOne
<1> QED
  BY <1>2, <1>4, <1>5, <1>6 DEF IInv

LEMMA StutterKeeps ==
  ASSUME IInv, UNCHANGED vars
  PROVE  IInv'
<1>1. UNCHANGED <<file, pc, mode, off, visited, xref, deleted, backup, reconstructed, parsed>>
  BY DEF vars
<1>2. TypeOK' /\ Stages'
  BY <1>1, SameFile DEF IInv, TypeOK, Stages, IsReading
<1>3. Reading'
  BY <1>1, SameFile DEF IInv, Reading, IsReading, Half
<1>4. TableIsNewest'
  BY <1>1, SameFile DEF IInv, TableIsNewest, NewestWins, OneGeneration
<1>5. PlainIsGone'
  BY <1>1 DEF IInv, PlainIsGone, IsReading, NoPlain, Base
<1>6. AllThere' /\ AllFound' /\ AllKept'
  BY <1>1, SameFile DEF IInv, AllThere, AllFound, AllKept, Recovered, ReadingOn, IsReading, Findable, Og
<1>7. PlainlyOne'
  BY <1>1, SameFile DEF IInv, PlainlyOne
<1> QED
  BY <1>2, <1>3, <1>4, <1>5, <1>6, <1>7 DEF IInv

-----------------------------------------------------------------------------
(* Whatever sections, loops, deleted objects and damage the file has, the  *)
(* table that read_xref builds is at every moment the one that the part of *)
(* the file read so far defines.                                           *)
THEOREM Inductive == Spec => []IInv
<1>1. IInv /\ [Next]_vars => IInv'
  BY ParseKeeps, ReadXrefKeeps, ReadHybridKeeps, FinishReadingKeeps, DamagedKeeps,
     DamagedReadingKeeps, ReconstructKeeps, RecoverKeeps, ConcludeKeeps, StutterKeeps DEF Next, Work
<1> QED
  BY <1>1, InitIInv, PTL DEF Spec

(* Every variable of the table stays in its domain.                        *)
THEOREM TypeCorrect == Spec => []TypeOK
<1>1. IInv => TypeOK
  BY DEF IInv
<1> QED
  BY <1>1, Inductive, PTL

(* Once a document is open without recovery, its table has one generation  *)
(* of an object; and if the file numbers generations upwards, an object is *)
(* what the newest section that mentions it says, and not there if that    *)
(* says it is free, except where a section contradicts itself in its table *)
(* and its /XRefStm: parse, read_xref, insertXrefEntry and                 *)
(* insertFreeXrefEntry.                                                    *)
THEOREM TableIsNewestHolds == Spec => []TableIsNewest
<1>1. IInv => TableIsNewest
  BY DEF IInv
<1> QED
  BY <1>1, Inductive, PTL

(* After reconstruct_xref, whether it ran between sections, in the middle  *)
(* of one or when the document was in use, the table has all objects of    *)
(* the file that have one generation and are nowhere said to be free, and  *)
(* it has each plain object where the file has it last; what a section     *)
(* read afterwards adds is only an object that the file does not have, or  *)
(* one that a section says is free.                                        *)
THEOREM RecoveryFindsHolds == Spec => []RecoveryFinds
<1>1. ASSUME IInv PROVE RecoveredAreThere
  <2>1. pc = "ready" /\ reconstructed => AllThere /\ Recovered
    BY <1>1 DEF IInv, Recovered
  <2> QED
    BY <2>1 DEF RecoveredAreThere, AllThere
<1>2. ASSUME IInv PROVE NothingLost
  BY <1>2 DEF NothingLost, IInv, AllKept, Recovered
<1>3. IInv => RecoveryFinds
  BY <1>1, <1>2 DEF RecoveryFinds
<1> QED
  BY <1>3, Inductive, PTL
=============================================================================
