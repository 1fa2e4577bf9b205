------------------------- MODULE ObjectCache_proofs -------------------------
(***************************************************************************)
(* Proofs about ObjectCache, for every set of objects, every file and any  *)
(* number of handles.                                                      *)
(*                                                                         *)
(* The argument: a step is a resolution, which changes cells that were     *)
(* unread, followed by one update of at most two cells.  InOrder says that *)
(* a cache, given as functions, is as it should be; it survives a          *)
(* resolution (AfterInOrder), and the update that follows it.              *)
(***************************************************************************)
EXTENDS ObjectCache, TLAPS

Typed(ca, va, o, ta) ==
  /\ ca \in [Ids -> Cells \cup {NoCell}]
  /\ va \in [Cells -> CellValues]
  /\ o \in [Cells -> Ids \cup {0}]
  /\ ta \in [Cells -> Cells \cup {NoCell}]

Entries(ca, va, o) ==
  \A i \in Ids : ca[i] # NoCell =>
    o[ca[i]] = i /\ va[ca[i]] # Unused /\ va[ca[i]] # Reference

Follow(va, ta, c) == IF va[c] = Reference THEN ta[c] ELSE c

Handles(ca, va, o, ta) ==
  \A c \in Cells : o[c] # 0 => ca[o[c]] # NoCell /\ Follow(va, ta, c) = ca[o[c]]

(* A direct object is neither unread nor a reference; the cell named after *)
(* an id carries that id, once it is used at all.                          *)
Directs(va, o) ==
  \A c \in Cells :
    /\ o[c] = 0 => va[c] # Unresolved /\ va[c] # Reference
    /\ c \in Ids => o[c] \in {0, c}
    /\ c \in Ids /\ o[c] = 0 => va[c] = Unused

Open(ca, va, i) == ca[i] = NoCell \/ va[ca[i]] = Unresolved

(* An object in an object stream is read when the stream is, not earlier   *)
(* and not later, and all that the file has is read once fixed is set.     *)
ReadInTime(ca, va, lo, fi) ==
  /\ fi => \A i \in InFile : ~Open(ca, va, i)
  /\ \A i \in InFile : StreamOf[i] \in lo /\ FileVal[i] # Null => ~Open(ca, va, i)
  /\ \A i \in InFile : StreamOf[i] # 0 /\ StreamOf[i] \notin lo => Open(ca, va, i)

InOrder(ca, va, o, ta, lo, fi) ==
  /\ Typed(ca, va, o, ta)
  /\ Entries(ca, va, o)
  /\ Handles(ca, va, o, ta)
  /\ Directs(va, o)
  /\ lo \subseteq ObjectStreams /\ fi \in BOOLEAN
  /\ ReadInTime(ca, va, lo, fi)

IInv == InOrder(cache, val, og, target, loaded, fixed)

-----------------------------------------------------------------------------
(* Names of special values, and where ids, cells and streams lie.          *)
LEMMA Names ==
  /\ Ids \subseteq Cells /\ UserCells \subseteq Cells /\ NoCell \notin Cells
  /\ UserCells \cap Ids = {}
  /\ Ids \subseteq Int /\ 0 \notin Ids
  /\ ObjectStreams \subseteq InFile /\ InFile \subseteq Ids
  /\ Data \cup {Null} \subseteq Values /\ Values \subseteq CellValues
  /\ Unused \notin Values /\ Unresolved \notin Values /\ Reference \notin Values
  /\ Unused # Unresolved /\ Unused # Reference /\ Unresolved # Reference
  /\ Unresolved \in CellValues /\ Unused \in CellValues /\ Reference \in CellValues
  /\ \A i \in InFile : StreamOf[i] # 0 => StreamOf[i] \in InFile /\ StreamOf[StreamOf[i]] = 0
  /\ \A i \in InFile : FileVal[i] \in Data \cup {Null}
<1>1. Ids \subseteq Cells /\ UserCells \subseteq Cells /\ Ids \subseteq Int /\ 0 \notin Ids
  BY ConstantsAssumption DEF Ids, Cells
<1>2. NoCell \notin Cells /\ UserCells \cap Ids = {}
  BY ConstantsAssumption DEF Ids, Cells, NoCell
<1>3. /\ \A i \in InFile : StreamOf[i] # 0 =>
             StreamOf[i] \in InFile /\ StreamOf[StreamOf[i]] = 0
      /\ \A i \in InFile : FileVal[i] \in Data \cup {Null}
      /\ InFile \subseteq Ids
  BY ConstantsAssumption
<1>4. ObjectStreams \subseteq InFile
  BY <1>3 DEF ObjectStreams
<1>5. /\ Data \cup {Null} \subseteq Values /\ Values \subseteq CellValues
      /\ Unresolved \in CellValues /\ Unused \in CellValues /\ Reference \in CellValues
  BY DEF Values, CellValues
<1>6. /\ Unused \notin Values /\ Unresolved \notin Values /\ Reference \notin Values
      /\ Unused # Unresolved /\ Unused # Reference /\ Unresolved # Reference
  BY ConstantsAssumption DEF Values, Unused, Null, Reserved, Unresolved, Reference
<1> QED
  BY <1>1, <1>2, <1>3, <1>4, <1>5, <1>6

(* The named conjuncts of the invariants, read off InOrder.                *)
LEMMA InOrderNamed ==
  ASSUME IInv
  PROVE  TypeOK /\ EntriesAreObjects /\ HandlesFollow /\ FixedMeansCached /\ LoadedMeansRead
<1> USE DEF IInv, InOrder
<1>1. TypeOK
  BY DEF Typed, TypeOK
<1>2. EntriesAreObjects
  BY DEF Entries, EntriesAreObjects, IsCached
<1>3. HandlesFollow
  BY DEF Handles, Follow, HandlesFollow, IsCached, Deref
<1>4. FixedMeansCached
  BY DEF ReadInTime, Open, FixedMeansCached, IsUnresolved, IsCached
<1>5. LoadedMeansRead
  BY DEF ReadInTime, Open, LoadedMeansRead, IsUnresolved, IsCached
<1> QED
  BY <1>1, <1>2, <1>3, <1>4, <1>5

LEMMA InitInOrder == Init => IInv
<1> SUFFICES ASSUME Init PROVE IInv
  OBVIOUS
<1> USE Names DEF Init
<1>1. Typed(cache, val, og, target) /\ Entries(cache, val, og)
  BY DEF Typed, Entries
<1>2. Handles(cache, val, og, target) /\ Directs(val, og)
  BY DEF Handles, Directs
<1>3. ReadInTime(cache, val, loaded, fixed)
  BY DEF ReadInTime, Open
<1> QED
  BY <1>1, <1>2, <1>3 DEF IInv, InOrder

-----------------------------------------------------------------------------
(* Resolution.                                                             *)

(* What is resolved was unread before, is in the file's order, and gets a  *)
(* cell of its own.                                                        *)
LEMMA ResolvedFacts ==
  ASSUME IInv, NEW T \in SUBSET Ids
  PROVE  /\ ToLoad(T) \subseteq ObjectStreams
         /\ Resolved(T) \subseteq Ids
         /\ \A i \in T : Open(cache, val, i) => i \in Resolved(T)
         /\ \A i \in Resolved(T) : Open(cache, val, i)
         /\ \A i \in Resolved(T) : CacheAfter(T)[i] \in Cells
         /\ \A i \in Resolved(T) : ReadAs(i) \in Data \cup {Null}
         /\ CacheAfter(T) \in [Ids -> Cells \cup {NoCell}]
         /\ \A i \in Ids : cache[i] # NoCell => CacheAfter(T)[i] = cache[i]
         /\ \A i \in Ids : i \notin Resolved(T) => CacheAfter(T)[i] = cache[i]
         /\ \A i \in Ids : CacheAfter(T)[i] # NoCell =>
              CacheAfter(T)[i] = cache[i] \/ CacheAfter(T)[i] = i
<1> USE Names
<1>1. /\ Typed(cache, val, og, target) /\ Entries(cache, val, og) /\ Directs(val, og)
      /\ ReadInTime(cache, val, loaded, fixed)
  BY DEF IInv, InOrder
<1>2. ToLoad(T) \subseteq ObjectStreams
  BY DEF ToLoad, ObjectStreams
<1>3. FromStreams(T) \subseteq InFile
  BY DEF FromStreams
<1>4. Resolved(T) \subseteq Ids
  BY <1>2, <1>3 DEF Resolved
<1>5. ASSUME NEW i \in T, Open(cache, val, i) PROVE i \in Resolved(T)
  BY <1>5 DEF Resolved, IsUnresolved, IsCached, Open
<1>6. ASSUME NEW i \in Resolved(T) PROVE Open(cache, val, i)
  <2>1. CASE i \in FromStreams(T)
    <3>1. StreamOf[i] # 0 /\ StreamOf[i] \notin loaded /\ i \in InFile
      BY <2>1 DEF FromStreams, ToLoad
    <3> QED
      BY <1>1, <3>1 DEF ReadInTime
  <2>2. CASE i \notin FromStreams(T)
    BY <1>6, <2>2 DEF Resolved, IsUnresolved, IsCached, Open
  <2> QED
    BY <2>1, <2>2
<1>7. \A i \in Ids : CacheAfter(T)[i] =
        IF i \in Resolved(T) /\ cache[i] = NoCell THEN i ELSE cache[i]
  BY DEF CacheAfter, IsCached
<1>8. CacheAfter(T) \in [Ids -> Cells \cup {NoCell}]
  BY <1>1 DEF CacheAfter, Typed
<1>9. \A i \in Resolved(T) : CacheAfter(T)[i] \in Cells
  <2>1. \A i \in Ids : i \in Cells /\ (cache[i] = NoCell \/ cache[i] \in Cells)
    BY <1>1 DEF Typed
  <2> QED
    BY <1>4, <1>7, <2>1
<1>10. \A i \in Resolved(T) : ReadAs(i) \in Data \cup {Null}
  BY DEF ReadAs
<1> QED
  BY <1>2, <1>4, <1>5, <1>6, <1>7, <1>8, <1>9, <1>10

(* No cell stands for two ids, before a resolution or after it.            *)
LEMMA OneCellPerId ==
  ASSUME IInv, NEW T \in SUBSET Ids, NEW i \in Ids, NEW j \in Ids,
         CacheAfter(T)[i] = CacheAfter(T)[j], CacheAfter(T)[i] # NoCell
  PROVE  i = j
<1>1. Typed(cache, val, og, target) /\ Entries(cache, val, og) /\ Directs(val, og)
  BY DEF IInv, InOrder
<1>2. ASSUME NEW k \in Ids, CacheAfter(T)[k] # NoCell
      PROVE  \/ cache[k] # NoCell /\ CacheAfter(T)[k] = cache[k] /\ og[cache[k]] = k
             \/ cache[k] = NoCell /\ CacheAfter(T)[k] = k
  BY <1>1, <1>2, ResolvedFacts DEF Entries
<1>3. ASSUME NEW k \in Ids, og[k] # 0 PROVE og[k] = k
  BY <1>1, <1>3, Names DEF Directs
<1> QED
  BY <1>2, <1>3, Names

LEMMA AfterAt ==
  ASSUME IInv, NEW T \in SUBSET Ids, NEW i \in Resolved(T)
  PROVE  /\ ValAfter(T)[CacheAfter(T)[i]] = ReadAs(i)
         /\ OgAfter(T)[CacheAfter(T)[i]] = i
<1> DEFINE c == CacheAfter(T)[i]
           k == CHOOSE j \in Resolved(T) : CacheAfter(T)[j] = c
<1>1. i \in Ids /\ c \in Cells /\ c # NoCell /\ Resolved(T) \subseteq Ids
  BY ResolvedFacts, Names
<1>2. k \in Resolved(T) /\ CacheAfter(T)[k] = c
  OBVIOUS
<1>3. k = i
  BY <1>1, <1>2, OneCellPerId
<1>4. ValAfter(T)[c] = ReadAs(k) /\ OgAfter(T)[c] = k
  BY <1>1, <1>2, Zenon DEF ValAfter, OgAfter
<1> QED
  BY <1>3, <1>4

LEMMA AfterElsewhere ==
  ASSUME NEW T, NEW c \in Cells, \A i \in Resolved(T) : CacheAfter(T)[i] # c
  PROVE  ValAfter(T)[c] = val[c] /\ OgAfter(T)[c] = og[c]
  BY DEF ValAfter, OgAfter

(* A resolution leaves the cache in order, and leaves nothing of T unread. *)
LEMMA AfterInOrder ==
  ASSUME IInv, NEW T \in SUBSET Ids, NEW f \in BOOLEAN, f => fixed \/ InFile \subseteq T
  PROVE  /\ InOrder(CacheAfter(T), ValAfter(T), OgAfter(T), target, loaded \cup ToLoad(T), f)
         /\ \A i \in T : ~Open(CacheAfter(T), ValAfter(T), i)
<1> DEFINE ca == CacheAfter(T)
           va == ValAfter(T)
           o == OgAfter(T)
           R == Resolved(T)
<1> USE Names
<1>1. /\ Typed(cache, val, og, target) /\ Entries(cache, val, og)
      /\ Handles(cache, val, og, target) /\ Directs(val, og)
      /\ ReadInTime(cache, val, loaded, fixed)
      /\ loaded \subseteq ObjectStreams
  BY DEF IInv, InOrder
<1>2. \A i \in R : i \in Ids /\ ca[i] \in Cells /\ ca[i] # NoCell
                  /\ va[ca[i]] = ReadAs(i) /\ o[ca[i]] = i
                  /\ ReadAs(i) \in Values
  BY ResolvedFacts, AfterAt
<1>3. \A c \in Cells : (\E i \in R : ca[i] = c) \/ (va[c] = val[c] /\ o[c] = og[c])
  BY AfterElsewhere
<1>4. /\ \A i \in Ids : i \notin R => ca[i] = cache[i]
      /\ \A i \in Ids : cache[i] # NoCell => ca[i] = cache[i]
      /\ ca \in [Ids -> Cells \cup {NoCell}]
  BY ResolvedFacts
<1>5. Typed(ca, va, o, target)
  <2>1. \A c \in Cells : va[c] \in CellValues /\ o[c] \in Ids \cup {0}
    BY <1>1, <1>2, <1>3 DEF Typed
  <2>2. va = [c \in Cells |-> va[c]] /\ o = [c \in Cells |-> o[c]]
    BY DEF ValAfter, OgAfter
  <2>3. va \in [Cells -> CellValues] /\ o \in [Cells -> Ids \cup {0}]
    BY <2>1, <2>2
  <2> QED
    BY <1>1, <1>4, <2>3 DEF Typed
(* An entry that is not resolved keeps its cell and what is in it.         *)
<1>6. ASSUME NEW i \in Ids, i \notin R, cache[i] # NoCell
      PROVE  ca[i] = cache[i] /\ va[ca[i]] = val[cache[i]] /\ o[ca[i]] = og[cache[i]]
  <2>1. ca[i] = cache[i] /\ ca[i] \in Cells
    BY <1>4, <1>6
  <2>2. \A j \in R : ca[j] # ca[i]
    BY <1>2, <1>6, <2>1, OneCellPerId
  <2> QED
    BY <1>3, <2>1, <2>2
<1>7. Entries(ca, va, o)
  <2>1. ASSUME NEW i \in Ids, ca[i] # NoCell
        PROVE  o[ca[i]] = i /\ va[ca[i]] # Unused /\ va[ca[i]] # Reference
    BY <1>1, <1>2, <1>4, <1>6, <2>1 DEF Entries
  <2> QED
    BY <2>1 DEF Entries
<1>8. Handles(ca, va, o, target)
  <2>1. ASSUME NEW c \in Cells, o[c] # 0
        PROVE  ca[o[c]] # NoCell /\ Follow(va, target, c) = ca[o[c]]
    <3>1. CASE \E i \in R : ca[i] = c
      BY <1>2, <3>1 DEF Follow
    <3>2. CASE va[c] = val[c] /\ o[c] = og[c]
      <4>1. og[c] \in Ids /\ cache[og[c]] # NoCell /\ Follow(val, target, c) = cache[og[c]]
        BY <1>1, <2>1, <3>2 DEF Handles, Typed
      <4>2. Follow(va, target, c) = Follow(val, target, c)
        BY <3>2 DEF Follow
      <4> QED
        BY <1>4, <3>2, <4>1, <4>2
    <3> QED
      BY <1>3, <3>1, <3>2
  <2> QED
    BY <2>1 DEF Handles
<1>9. Directs(va, o)
  <2>1. ASSUME NEW c \in Cells
        PROVE  /\ o[c] = 0 => va[c] # Unresolved /\ va[c] # Reference
               /\ c \in Ids => o[c] \in {0, c}
               /\ c \in Ids /\ o[c] = 0 => va[c] = Unused
    <3>1. CASE \E i \in R : ca[i] = c
      <4>1. PICK i \in R : ca[i] = c
        BY <3>1
      <4>2. c = i \/ (c = cache[i] /\ og[c] = i)
        <5>1. i \in Ids /\ c # NoCell /\ (c = cache[i] \/ c = i)
          BY <1>2, <4>1, ResolvedFacts
        <5>2. cache[i] # NoCell => og[cache[i]] = i
          BY <1>1, <5>1 DEF Entries
        <5> QED
          BY <5>1, <5>2
      <4> QED
        BY <1>1, <1>2, <4>1, <4>2 DEF Directs
    <3>2. CASE va[c] = val[c] /\ o[c] = og[c]
      BY <1>1, <3>2 DEF Directs
    <3> QED
      BY <1>3, <3>1, <3>2
  <2> QED
    BY <2>1 DEF Directs
<1>10. ASSUME NEW i \in Ids
       PROVE  Open(ca, va, i) <=> Open(cache, val, i) /\ i \notin R
  <2>1. CASE i \in R
    BY <1>2, <2>1 DEF Open
  <2>2. CASE i \notin R
    BY <1>4, <1>6, <2>2 DEF Open
  <2> QED
    BY <2>1, <2>2
<1>11. \A i \in T : ~Open(ca, va, i)
  BY <1>10, ResolvedFacts
<1>12. ReadInTime(ca, va, loaded \cup ToLoad(T), f)
  <2>1. f => \A i \in InFile : ~Open(ca, va, i)
    BY <1>1, <1>10, <1>11 DEF ReadInTime
  <2>2. ASSUME NEW i \in InFile, StreamOf[i] \in loaded \cup ToLoad(T), FileVal[i] # Null
        PROVE  ~Open(ca, va, i)
    <3>1. CASE StreamOf[i] \in loaded
      BY <1>1, <1>10, <2>2, <3>1 DEF ReadInTime
    <3>2. CASE StreamOf[i] \in ToLoad(T)
      BY <1>10, <2>2, <3>2 DEF FromStreams, Resolved
    <3> QED
      BY <2>2, <3>1, <3>2
  <2>3. ASSUME NEW i \in InFile, StreamOf[i] # 0, StreamOf[i] \notin loaded \cup ToLoad(T)
        PROVE  Open(ca, va, i)
    <3>1. Open(cache, val, i)
      BY <1>1, <2>3 DEF ReadInTime
    <3>2. i \notin FromStreams(T)
      BY <2>3 DEF FromStreams
    <3>3. i \notin T
      BY <2>3, <3>1 DEF ToLoad, Open, IsUnresolved, IsCached
    <3>4. i \notin ToLoad(T)
      BY <2>3 DEF ToLoad
    <3> QED
      BY <1>10, <3>1, <3>2, <3>3, <3>4 DEF Resolved
  <2> QED
    BY <2>1, <2>2, <2>3 DEF ReadInTime
<1>13. loaded \cup ToLoad(T) \subseteq ObjectStreams
  BY <1>1, ResolvedFacts
<1> QED
  BY <1>5, <1>7, <1>8, <1>9, <1>11, <1>12, <1>13 DEF InOrder

-----------------------------------------------------------------------------
(* Updates, of any cache that is in order.                                 *)

(* A new entry, for an object that was direct.                             *)
LEMMA AddEntry ==
  ASSUME NEW ca, NEW va, NEW o, NEW ta, NEW lo, NEW fi,
         InOrder(ca, va, o, ta, lo, fi),
         NEW i \in Ids, ca[i] = NoCell,
         NEW c \in Cells, o[c] = 0, c \in Ids => c = i,
         NEW v \in Values \cup {Unresolved},
         v # Unresolved /\ i \in InFile => StreamOf[i] \in lo \cup {0}
  PROVE  InOrder([ca EXCEPT ![i] = c], [va EXCEPT ![c] = v], [o EXCEPT ![c] = i], ta, lo, fi)
<1> DEFINE cb == [ca EXCEPT ![i] = c]
           vb == [va EXCEPT ![c] = v]
           p == [o EXCEPT ![c] = i]
<1> USE Names
<1>1. /\ Typed(ca, va, o, ta) /\ Entries(ca, va, o) /\ Handles(ca, va, o, ta)
      /\ Directs(va, o) /\ ReadInTime(ca, va, lo, fi)
      /\ lo \subseteq ObjectStreams /\ fi \in BOOLEAN
  BY DEF InOrder
<1>2. /\ cb \in [Ids -> Cells \cup {NoCell}] /\ cb[i] = c
      /\ \A j \in Ids : j # i => cb[j] = ca[j]
      /\ vb[c] = v /\ p[c] = i
      /\ \A d \in Cells : d # c => vb[d] = va[d] /\ p[d] = o[d]
  BY <1>1 DEF Typed
<1>3. \A j \in Ids : j # i /\ ca[j] # NoCell => ca[j] \in Cells /\ ca[j] # c
  BY <1>1 DEF Entries, Typed
<1>4. Typed(cb, vb, p, ta)
  BY <1>1 DEF Typed
<1>5. Entries(cb, vb, p)
  BY <1>1, <1>2, <1>3 DEF Entries
<1>6. Handles(cb, vb, p, ta)
  <2>1. ASSUME NEW d \in Cells, p[d] # 0
        PROVE  cb[p[d]] # NoCell /\ Follow(vb, ta, d) = cb[p[d]]
    <3>1. CASE d = c
      BY <1>2, <3>1 DEF Follow
    <3>2. CASE d # c
      <4>1. o[d] # 0 /\ o[d] \in Ids /\ ca[o[d]] # NoCell /\ Follow(va, ta, d) = ca[o[d]]
        BY <1>1, <1>2, <2>1, <3>2 DEF Handles, Typed
      <4>2. Follow(vb, ta, d) = Follow(va, ta, d)
        BY <1>2, <3>2 DEF Follow
      <4> QED
        BY <1>2, <3>2, <4>1, <4>2
    <3> QED
      BY <3>1, <3>2
  <2> QED
    BY <2>1 DEF Handles
<1>7. Directs(vb, p)
  BY <1>1, <1>2 DEF Directs
<1>8. ReadInTime(cb, vb, lo, fi)
  <2>1. \A j \in Ids : j # i => (Open(cb, vb, j) <=> Open(ca, va, j))
    BY <1>2, <1>3 DEF Open
  <2>2. Open(cb, vb, i) <=> v = Unresolved
    BY <1>2 DEF Open
  <2>3. Open(ca, va, i)
    BY DEF Open
  <2>4. ASSUME fi, NEW j \in InFile PROVE ~Open(cb, vb, j)
    <3>1. ~Open(ca, va, j)
      BY <1>1, <2>4 DEF ReadInTime
    <3>2. j # i
      BY <2>3, <3>1
    <3> QED
      BY <2>1, <3>1, <3>2
  <2>5. \A j \in InFile : StreamOf[j] \in lo /\ FileVal[j] # Null => ~Open(cb, vb, j)
    BY <1>1, <2>1, <2>2, <2>3 DEF ReadInTime
  <2>6. \A j \in InFile : StreamOf[j] # 0 /\ StreamOf[j] \notin lo => Open(cb, vb, j)
    BY <1>1, <2>1, <2>2 DEF ReadInTime
  <2> QED
    BY <2>4, <2>5, <2>6 DEF ReadInTime
<1> QED
  BY <1>1, <1>4, <1>5, <1>6, <1>7, <1>8 DEF InOrder

(* New contents for an entry: the handle they come from becomes a          *)
(* reference to the entry.                                                 *)
LEMMA FillEntry ==
  ASSUME NEW ca, NEW va, NEW o, NEW ta, NEW lo, NEW fi,
         InOrder(ca, va, o, ta, lo, fi),
         NEW i \in Ids, ca[i] # NoCell,
         NEW c \in Cells, o[c] = 0, va[c] # Unused,
         i \in InFile => StreamOf[i] \in lo \cup {0}
  PROVE  InOrder(ca, [va EXCEPT ![ca[i]] = va[c], ![c] = Reference],
                 [o EXCEPT ![c] = i, ![ca[i]] = i],
                 [ta EXCEPT ![ca[i]] = ta[c], ![c] = ca[i]], lo, fi)
<1> DEFINE t == ca[i]
           vb == [va EXCEPT ![t] = va[c], ![c] = Reference]
           p == [o EXCEPT ![c] = i, ![t] = i]
           tb == [ta EXCEPT ![t] = ta[c], ![c] = t]
<1> USE Names
<1>1. /\ Typed(ca, va, o, ta) /\ Entries(ca, va, o) /\ Handles(ca, va, o, ta)
      /\ Directs(va, o) /\ ReadInTime(ca, va, lo, fi)
      /\ lo \subseteq ObjectStreams /\ fi \in BOOLEAN
  BY DEF InOrder
<1>2. t \in Cells /\ t # c /\ o[t] = i
  BY <1>1 DEF Entries, Typed
<1>3. va[c] # Unresolved /\ va[c] # Reference /\ va[c] # Unused /\ c \notin Ids
  BY <1>1 DEF Directs
<1>4. /\ vb[t] = va[c] /\ vb[c] = Reference /\ p[c] = i /\ p[t] = i
      /\ tb[c] = t
      /\ \A d \in Cells : d # c /\ d # t => vb[d] = va[d] /\ p[d] = o[d] /\ tb[d] = ta[d]
  BY <1>1, <1>2 DEF Typed
<1>5. \A j \in Ids : j # i /\ ca[j] # NoCell => ca[j] \in Cells /\ ca[j] # c /\ ca[j] # t
  BY <1>1, <1>2 DEF Entries, Typed
<1>6. Typed(ca, vb, p, tb)
  BY <1>1, <1>2 DEF Typed
<1>7. Entries(ca, vb, p)
  <2>1. ASSUME NEW j \in Ids, ca[j] # NoCell
        PROVE  p[ca[j]] = j /\ vb[ca[j]] # Unused /\ vb[ca[j]] # Reference
    <3>1. CASE j = i
      BY <1>3, <1>4, <3>1
    <3>2. CASE j # i
      <4>1. vb[ca[j]] = va[ca[j]] /\ p[ca[j]] = o[ca[j]]
        BY <1>4, <1>5, <2>1, <3>2
      <4> QED
        BY <1>1, <2>1, <4>1 DEF Entries
    <3> QED
      BY <3>1, <3>2
  <2> QED
    BY <2>1 DEF Entries
<1>8. Handles(ca, vb, p, tb)
  <2>1. ASSUME NEW d \in Cells, p[d] # 0
        PROVE  ca[p[d]] # NoCell /\ Follow(vb, tb, d) = ca[p[d]]
    <3>1. CASE d = c
      BY <1>4, <3>1 DEF Follow
    <3>2. CASE d = t
      BY <1>3, <1>4, <3>2 DEF Follow
    <3>3. CASE d # c /\ d # t
      <4>1. p[d] = o[d] /\ ca[o[d]] # NoCell /\ Follow(va, ta, d) = ca[o[d]]
        BY <1>1, <1>4, <2>1, <3>3 DEF Handles
      <4>2. Follow(vb, tb, d) = Follow(va, ta, d)
        BY <1>4, <3>3 DEF Follow
      <4> QED
        BY <4>1, <4>2
    <3> QED
      BY <3>1, <3>2, <3>3
  <2> QED
    BY <2>1 DEF Handles
<1>9. Directs(vb, p)
  <2>1. t \in Ids => t = i
    BY <1>1, <1>2 DEF Directs
  <2>2. ASSUME NEW d \in Cells
        PROVE  /\ p[d] = 0 => vb[d] # Unresolved /\ vb[d] # Reference
               /\ d \in Ids => p[d] \in {0, d}
               /\ d \in Ids /\ p[d] = 0 => vb[d] = Unused
    <3> HIDE DEF t, vb, p, tb
    <3>0. i # 0
      OBVIOUS
    <3>1. CASE d = c
      <4>1. p[d] = i /\ d \notin Ids
        BY <1>3, <1>4, <3>1
      <4> QED
        BY <3>0, <4>1
    <3>2. CASE d = t
      <4>1. p[d] = i /\ (d \in Ids => d = i)
        BY <1>4, <2>1, <3>2
      <4> QED
        BY <3>0, <4>1
    <3>3. CASE d # c /\ d # t
      <4>1. vb[d] = va[d] /\ p[d] = o[d]
        BY <1>4, <3>3
      <4> QED
        BY <1>1, <4>1 DEF Directs
    <3> QED
      BY <3>1, <3>2, <3>3
  <2> QED
    BY <2>2 DEF Directs
<1>10. ReadInTime(ca, vb, lo, fi)
  <2>1. \A j \in Ids : j # i => (Open(ca, vb, j) <=> Open(ca, va, j))
    BY <1>4, <1>5 DEF Open
  <2>2. ~Open(ca, vb, i)
    BY <1>3, <1>4 DEF Open
  <2> QED
    BY <1>1, <2>1, <2>2 DEF ReadInTime
<1> QED
  BY <1>1, <1>6, <1>7, <1>8, <1>9, <1>10 DEF InOrder

LEMMA SwapEntries ==
  ASSUME NEW ca, NEW va, NEW o, NEW ta, NEW lo, NEW fi,
         InOrder(ca, va, o, ta, lo, fi),
         NEW i \in Ids, ~Open(ca, va, i), NEW j \in Ids, ~Open(ca, va, j)
  PROVE  InOrder(ca, [va EXCEPT ![ca[i]] = va[ca[j]], ![ca[j]] = va[ca[i]]], o, ta, lo, fi)
<1> DEFINE a == ca[i]
           b == ca[j]
           vb == [va EXCEPT ![a] = va[b], ![b] = va[a]]
<1> USE Names
<1>1. /\ Typed(ca, va, o, ta) /\ Entries(ca, va, o) /\ Handles(ca, va, o, ta)
      /\ Directs(va, o) /\ ReadInTime(ca, va, lo, fi)
      /\ lo \subseteq ObjectStreams /\ fi \in BOOLEAN
  BY DEF InOrder
<1>2. /\ a \in Cells /\ b \in Cells /\ o[a] = i /\ o[b] = j
      /\ va[a] # Unresolved /\ va[a] # Unused /\ va[a] # Reference
      /\ va[b] # Unresolved /\ va[b] # Unused /\ va[b] # Reference
  BY <1>1 DEF Entries, Typed, Open
<1>3. /\ vb[a] = va[b] /\ vb[b] = va[a]
      /\ \A d \in Cells : d # a /\ d # b => vb[d] = va[d]
  BY <1>1, <1>2 DEF Typed
<1>4. Typed(ca, vb, o, ta)
  BY <1>1, <1>2 DEF Typed
<1>5. ASSUME NEW k \in Ids, ca[k] # NoCell
      PROVE  ca[k] = a \/ ca[k] = b \/ vb[ca[k]] = va[ca[k]]
  <2>1. ca[k] \in Cells
    BY <1>1, <1>5 DEF Typed
  <2> QED
    BY <1>3, <2>1
<1>5a. Entries(ca, vb, o)
  <2>1. ASSUME NEW k \in Ids, ca[k] # NoCell
        PROVE  o[ca[k]] = k /\ vb[ca[k]] # Unused /\ vb[ca[k]] # Reference
    <3>1. o[ca[k]] = k /\ va[ca[k]] # Unused /\ va[ca[k]] # Reference
      BY <1>1, <2>1 DEF Entries
    <3> QED
      BY <1>2, <1>3, <1>5, <2>1, <3>1
  <2> QED
    BY <2>1 DEF Entries
<1>6. \A d \in Cells : Follow(vb, ta, d) = Follow(va, ta, d)
  BY <1>2, <1>3 DEF Follow
<1>7. Handles(ca, vb, o, ta)
  BY <1>1, <1>6 DEF Handles
<1>8. Directs(vb, o)
  BY <1>1, <1>2, <1>3 DEF Directs
<1>9. ASSUME NEW k \in Ids PROVE Open(ca, vb, k) <=> Open(ca, va, k)
  <2>1. CASE ca[k] = NoCell
    BY <2>1 DEF Open
  <2>2. CASE ca[k] # NoCell /\ (ca[k] = a \/ ca[k] = b)
    BY <1>2, <1>3, <2>2 DEF Open
  <2>3. CASE ca[k] # NoCell /\ vb[ca[k]] = va[ca[k]]
    BY <2>3 DEF Open
  <2> QED
    BY <1>5, <2>1, <2>2, <2>3
<1>10. ReadInTime(ca, vb, lo, fi)
  BY <1>1, <1>9 DEF ReadInTime
<1> QED
  BY <1>1, <1>4, <1>5a, <1>7, <1>8, <1>10 DEF InOrder

-----------------------------------------------------------------------------
(* Steps.                                                                  *)
LEMMA DocIdsAreIds == DocIds \subseteq Ids
  BY DEF DocIds

LEMMA ResolveInOrder ==
  ASSUME IInv, NEW i \in DocIds, Resolve(i)
  PROVE  IInv'
<1>1. {i} \in SUBSET Ids
  BY DocIdsAreIds
<1>2. fixed \in BOOLEAN
  BY DEF IInv, InOrder
<1>3. InOrder(CacheAfter({i}), ValAfter({i}), OgAfter({i}), target,
              loaded \cup ToLoad({i}), fixed)
  BY <1>1, <1>2, AfterInOrder
<1> QED
  BY <1>3 DEF Resolve, IInv

LEMMA GetObjectInOrder ==
  ASSUME IInv, NEW i \in DocIds, GetObject(i) \/ GetObjectForParser(i)
  PROVE  IInv'
<1>1. i \in Ids /\ i \in Cells /\ cache[i] = NoCell
  BY DocIdsAreIds, Names DEF GetObject, GetObjectForParser, IsCached
<1>2. og[i] = 0
  BY <1>1, Names DEF IInv, InOrder, Directs, Handles
<1>3. CASE GetObject(i)
  <2>1. InOrder([cache EXCEPT ![i] = i], [val EXCEPT ![i] = Unresolved],
                [og EXCEPT ![i] = i], target, loaded, fixed)
    BY <1>1, <1>2, AddEntry DEF IInv
  <2> QED
    BY <1>3, <2>1 DEF GetObject, IInv
<1>4. CASE GetObjectForParser(i)
  <2>1. i \notin InFile /\ Null \in Values
    BY <1>4 DEF GetObjectForParser, Values
  <2>2. InOrder([cache EXCEPT ![i] = i], [val EXCEPT ![i] = Null],
                [og EXCEPT ![i] = i], target, loaded, fixed)
    BY <1>1, <1>2, <2>1, AddEntry DEF IInv
  <2> QED
    BY <1>4, <2>2 DEF GetObjectForParser, IInv
<1> QED
  BY <1>3, <1>4

(* Once the dangling references are fixed all that the file has is read.   *)
LEMMA DanglingInOrder ==
  ASSUME IInv
  PROVE  /\ Dangling \in SUBSET Ids
         /\ InOrder(CacheAfter(Dangling), ValAfter(Dangling), OgAfter(Dangling), target,
                    loaded \cup ToLoad(Dangling), TRUE)
<1>1. Dangling \in SUBSET Ids
  BY Names DEF Dangling
<1>2. fixed \/ InFile \subseteq Dangling
  BY DEF Dangling
<1> QED
  BY <1>1, <1>2, AfterInOrder

LEMMA GetObjectCountInOrder ==
  ASSUME IInv, GetObjectCount
  PROVE  IInv'
  BY DanglingInOrder DEF GetObjectCount, IInv

LEMMA NewDirectInOrder ==
  ASSUME IInv, NEW c \in UserCells, NEW v \in Data \cup {Null}, NewDirect(c, v)
  PROVE  IInv'
<1> USE Names
<1>1. /\ Typed(cache, val, og, target) /\ Entries(cache, val, og)
      /\ Handles(cache, val, og, target) /\ Directs(val, og)
      /\ ReadInTime(cache, val, loaded, fixed)
      /\ loaded \subseteq ObjectStreams /\ fixed \in BOOLEAN
  BY DEF IInv, InOrder
<1>2. c \in Cells /\ c \notin Ids /\ v \in Values /\ val[c] = Unused
  BY DEF NewDirect
<1>3. /\ val' = [val EXCEPT ![c] = v]
      /\ UNCHANGED <<cache, og, target, loaded, fixed>>
  BY DEF NewDirect
<1>4. val'[c] = v /\ \A d \in Cells : d # c => val'[d] = val[d]
  BY <1>1, <1>3 DEF Typed
<1>5. \A i \in Ids : cache[i] # NoCell => cache[i] \in Cells /\ cache[i] # c
  BY <1>1, <1>2 DEF Entries, Typed
<1>6. Typed(cache, val', og, target)
  BY <1>1, <1>2, <1>3 DEF Typed
<1>7. Entries(cache, val', og)
  BY <1>1, <1>4, <1>5 DEF Entries
<1>8. \A d \in Cells : Follow(val', target, d) = Follow(val, target, d)
  BY <1>2, <1>4 DEF Follow
<1>9. Handles(cache, val', og, target)
  BY <1>1, <1>8 DEF Handles
<1>10. Directs(val', og)
  BY <1>1, <1>2, <1>4 DEF Directs
<1>11. \A i \in Ids : Open(cache, val', i) <=> Open(cache, val, i)
  BY <1>4, <1>5 DEF Open
<1>12. ReadInTime(cache, val', loaded, fixed)
  BY <1>1, <1>11 DEF ReadInTime
<1> QED
  BY <1>1, <1>3, <1>6, <1>7, <1>9, <1>10, <1>12 DEF IInv, InOrder

(* A direct object is in no entry, whatever is resolved.                   *)
LEMMA DirectStays ==
  ASSUME IInv, NEW T \in SUBSET Ids, NEW c \in Cells, og[c] = 0, c \notin Ids
  PROVE  OgAfter(T)[c] = 0 /\ ValAfter(T)[c] = val[c]
<1>1. ASSUME NEW j \in Resolved(T), CacheAfter(T)[j] = c PROVE FALSE
  <2>0. j \in Ids /\ c # NoCell
    BY ResolvedFacts, Names
  <2>1. j \in Ids /\ c # NoCell /\ CacheAfter(T)[j] = cache[j]
    BY <1>1, <2>0, ResolvedFacts
  <2>2. og[c] = j
    BY <1>1, <2>1 DEF IInv, InOrder, Entries
  <2> QED
    BY <2>1, <2>2, Names
<1> QED
  BY <1>1, AfterElsewhere

LEMMA MakeIndirectInOrder ==
  ASSUME IInv, NEW c \in Cells, og[c] = 0, c \notin Ids,
         NEW v \in Values, NEW i \in Ids, MakeIndirect(c, v, i)
  PROVE  IInv'
<1> DEFINE T == Dangling
<1>1. /\ T \in SUBSET Ids
      /\ InOrder(CacheAfter(T), ValAfter(T), OgAfter(T), target, loaded \cup ToLoad(T), TRUE)
  BY DanglingInOrder
<1>2. CacheAfter(T)[i] = NoCell
  BY Names DEF MakeIndirect, IsNextObjGen
<1>3. i \notin InFile
  BY <1>1, <1>2 DEF InOrder, ReadInTime, Open
<1>4. OgAfter(T)[c] = 0
  BY <1>1, DirectStays
<1>5. InOrder([CacheAfter(T) EXCEPT ![i] = c], [ValAfter(T) EXCEPT ![c] = v],
              [OgAfter(T) EXCEPT ![c] = i], target, loaded \cup ToLoad(T), TRUE)
  BY <1>1, <1>2, <1>3, <1>4, AddEntry
<1> QED
  BY <1>5 DEF MakeIndirect, IInv

LEMMA ReplaceObjectInOrder ==
  ASSUME Callers = {}, IInv, NEW c \in Cells, NEW i \in DocIds, ReplaceObject(i, c)
  PROVE  IInv'
<1>1. /\ i \in Ids /\ og[c] = 0 /\ val[c] # Unused
      /\ i \in InFile => StreamOf[i] \in loaded \cup {0}
  BY DocIdsAreIds DEF ReplaceObject, Unread
<1>2. UpdateCache(i, c) /\ UNCHANGED <<loaded, fixed>>
  BY DEF ReplaceObject
<1>3. c \notin Ids /\ val[c] \in Values \cup {Unresolved}
  BY <1>1 DEF IInv, InOrder, Directs, Typed, CellValues
<1>4. CASE cache[i] # NoCell
  <2>1. InOrder(cache, [val EXCEPT ![cache[i]] = val[c], ![c] = Reference],
                [og EXCEPT ![c] = i, ![cache[i]] = i],
                [target EXCEPT ![cache[i]] = target[c], ![c] = cache[i]], loaded, fixed)
    BY <1>1, <1>4, FillEntry DEF IInv
  <2> QED
    BY <1>2, <1>4, <2>1 DEF UpdateCache, IsCached, IInv
<1>5. CASE cache[i] = NoCell
  <2>1. [val EXCEPT ![c] = val[c]] = val
    BY DEF IInv, InOrder, Typed
  <2>2. InOrder([cache EXCEPT ![i] = c], [val EXCEPT ![c] = val[c]], [og EXCEPT ![c] = i],
                target, loaded, fixed)
    BY <1>1, <1>3, <1>5, AddEntry DEF IInv
  <2> QED
    BY <1>2, <1>5, <2>1, <2>2 DEF UpdateCache, IsCached, IInv
<1> QED
  BY <1>4, <1>5

LEMMA SwapObjectsInOrder ==
  ASSUME IInv, NEW i \in DocIds, NEW j \in DocIds, SwapObjects(i, j)
  PROVE  IInv'
<1> DEFINE T == {i, j}
<1>1. T \in SUBSET Ids /\ fixed \in BOOLEAN
  BY DocIdsAreIds DEF IInv, InOrder
<1>2. /\ InOrder(CacheAfter(T), ValAfter(T), OgAfter(T), target, loaded \cup ToLoad(T), fixed)
      /\ ~Open(CacheAfter(T), ValAfter(T), i) /\ ~Open(CacheAfter(T), ValAfter(T), j)
  BY <1>1, AfterInOrder
<1>3. InOrder(CacheAfter(T),
              [ValAfter(T) EXCEPT ![CacheAfter(T)[i]] = ValAfter(T)[CacheAfter(T)[j]],
                                  ![CacheAfter(T)[j]] = ValAfter(T)[CacheAfter(T)[i]]],
              OgAfter(T), target, loaded \cup ToLoad(T), fixed)
  BY <1>1, <1>2, SwapEntries
<1> QED
  BY <1>3 DEF SwapObjects, IInv

LEMMA UnusedIsDirect ==
  ASSUME IInv, NEW c \in Cells, val[c] = Unused
  PROVE  og[c] = 0
<1> USE Names
<1>1. SUFFICES ASSUME og[c] # 0 PROVE FALSE
  OBVIOUS
<1>2. og[c] \in Ids /\ cache[og[c]] = c /\ cache[og[c]] # NoCell
  BY <1>1 DEF IInv, InOrder, Typed, Handles, Follow
<1> QED
  BY <1>2 DEF IInv, InOrder, Entries

LEMMA StepInOrder ==
  ASSUME Callers = {}, IInv, [Next]_vars
  PROVE  IInv'
<1> USE Names
<1>1. ASSUME NEW i \in DocIds, Resolve(i) \/ GetObject(i) \/ GetObjectForParser(i)
      PROVE  IInv'
  BY <1>1, ResolveInOrder, GetObjectInOrder
<1>2. CASE GetObjectCount
  BY <1>2, GetObjectCountInOrder
<1>3. ASSUME NEW c \in UserCells, NEW v \in Data \cup {Null}, NewDirect(c, v)
      PROVE  IInv'
  BY <1>3, NewDirectInOrder
<1>4. ASSUME NEW c \in Cells, NEW i \in Ids, MakeIndirectObject(c, i)
      PROVE  IInv'
  <2>1. og[c] = 0 /\ val[c] \in Data \cup {Null} /\ MakeIndirect(c, val[c], i)
    BY <1>4 DEF MakeIndirectObject
  <2>2. c \notin Ids
    BY <2>1 DEF IInv, InOrder, Directs
  <2> QED
    BY <2>1, <2>2, MakeIndirectInOrder
<1>5. ASSUME NEW c \in UserCells, NEW v \in {Null, Reserved}, NEW i \in Ids,
             NewIndirect(c, v, i)
      PROVE  IInv'
  <2>1. /\ MakeIndirect(c, v, i) /\ val[c] = Unused
        /\ c \in Cells /\ c \notin Ids /\ v \in Values
    BY <1>5 DEF NewIndirect, Values
  <2>2. og[c] = 0
    BY <2>1, UnusedIsDirect
  <2> QED
    BY <2>1, <2>2, MakeIndirectInOrder
<1>6. ASSUME NEW c \in Cells, NEW i \in DocIds, ReplaceObject(i, c)
      PROVE  IInv'
  BY <1>6, ReplaceObjectInOrder
<1>7. ASSUME NEW r \in Cells, NEW c \in Cells, ReplaceReserved(r, c)
      PROVE  IInv'
  BY <1>6, <1>7 DEF ReplaceReserved
<1>8. ASSUME NEW i \in DocIds, NEW j \in DocIds, SwapObjects(i, j)
      PROVE  IInv'
  BY <1>8, SwapObjectsInOrder
<1>9. CASE UNCHANGED vars
  BY <1>9 DEF vars, IInv
<1> QED
  BY <1>1, <1>2, <1>3, <1>4, <1>5, <1>6, <1>7, <1>8, <1>9 DEF Next

(* The cache is in order in every state, as long as the callers keep their *)
(* side: no replacement of an object whose object stream is unread, none   *)
(* of an object by itself (QPDF.hh:385-391).                               *)
THEOREM AlwaysInOrder ==
  ASSUME Callers = {}
  PROVE  Spec => []IInv
<1>1. Init => IInv
  BY InitInOrder
<1>2. IInv /\ [Next]_vars => IInv'
  BY StepInOrder
<1> QED
  BY <1>1, <1>2, PTL DEF Spec

(* Every entry of obj_cache is an object that carries the entry's id, and  *)
(* no handle loses its object: updateCache, swapObjects and the lazy       *)
(* reading of resolve preserve it together.                                *)
THEOREM EntriesCorrect ==
  ASSUME Callers = {}
  PROVE  Spec => [](TypeOK /\ EntriesAreObjects /\ HandlesFollow)
<1>1. IInv => TypeOK /\ EntriesAreObjects /\ HandlesFollow
  BY InOrderNamed
<1>2. Spec => []IInv
  BY AlwaysInOrder
<1> QED
  BY <1>1, <1>2, PTL

(* fixDanglingReferences and resolveObjectsInStream leave nothing unread   *)
(* that later calls rely on: nextObjGen on the first, the guard that reads *)
(* an object stream only once on the second.                               *)
THEOREM ReadingCorrect ==
  ASSUME Callers = {}
  PROVE  Spec => []ReadIsRead
<1>1. IInv => ReadIsRead
  BY InOrderNamed DEF ReadIsRead
<1>2. Spec => []IInv
  BY AlwaysInOrder
<1> QED
  BY <1>1, <1>2, PTL

-----------------------------------------------------------------------------
(* Refinement: what each step does to the table that the cache stands for. *)

Shown(ca, va) ==
  [i \in Ids |-> IF ~Open(ca, va, i) THEN va[ca[i]]
                 ELSE IF i \in InFile THEN FileVal[i] ELSE Null]
Present(ca) == InFile \cup {i \in Ids : ca[i] # NoCell}

LEMMA MeaningShown ==
  ASSUME IInv
  PROVE  Meaning = Shown(cache, val) /\ InUse = Present(cache)
<1>1. Entries(cache, val, og)
  BY DEF IInv, InOrder
<1>2. ASSUME NEW i \in Ids, ~Open(cache, val, i) PROVE Deref(cache[i]) = cache[i]
  BY <1>1, <1>2 DEF Entries, Open, Deref
<1>3. \A i \in Ids : IsUnresolved(i) <=> Open(cache, val, i)
  BY DEF Open, IsUnresolved, IsCached
<1>4. Meaning = Shown(cache, val)
  BY <1>2, <1>3 DEF Meaning, Shown
<1> QED
  BY <1>4 DEF InUse, Present, IsCached

LEMMA MeaningShownNext ==
  ASSUME IInv'
  PROVE  Meaning' = Shown(cache', val') /\ InUse' = Present(cache')
<1>1. Entries(cache', val', og')
  BY DEF IInv, InOrder
<1>2. ASSUME NEW i \in Ids, ~Open(cache', val', i) PROVE Deref(cache[i])' = cache'[i]
  BY <1>1, <1>2 DEF Entries, Open, Deref
<1>3. \A i \in Ids : IsUnresolved(i)' <=> Open(cache', val', i)
  BY DEF Open, IsUnresolved, IsCached
<1>4. Meaning' = Shown(cache', val')
  BY <1>2, <1>3 DEF Meaning, Shown
<1> QED
  BY <1>4 DEF InUse, Present, IsCached

(* Reading an object shows what the file has, which is what an unread      *)
(* object stood for.                                                       *)
LEMMA AfterShown ==
  ASSUME IInv, NEW T \in SUBSET Ids
  PROVE  /\ Shown(CacheAfter(T), ValAfter(T)) = Shown(cache, val)
         /\ Present(CacheAfter(T)) = Present(cache) \cup T
<1> DEFINE ca == CacheAfter(T)
           va == ValAfter(T)
<1> USE Names
<1>1. /\ Typed(cache, val, og, target) /\ Entries(cache, val, og)
      /\ ReadInTime(cache, val, loaded, fixed)
  BY DEF IInv, InOrder
<1>2. ASSUME NEW i \in Ids, i \in Resolved(T)
      PROVE  /\ Open(cache, val, i) /\ ca[i] \in Cells /\ ca[i] # NoCell
             /\ va[ca[i]] = ReadAs(i) /\ ~Open(ca, va, i)
  <2>1. Open(cache, val, i) /\ ca[i] \in Cells /\ ca[i] # NoCell
    BY <1>2, ResolvedFacts
  <2>2. va[ca[i]] = ReadAs(i) /\ ReadAs(i) \in Values
    BY <1>2, AfterAt, ResolvedFacts
  <2> QED
    BY <2>1, <2>2 DEF Open
<1>3. ASSUME NEW i \in Ids, Open(cache, val, i)
      PROVE  ReadAs(i) = IF i \in InFile THEN FileVal[i] ELSE Null
  BY <1>1, <1>3 DEF ReadAs, ReadInTime
<1>4. ASSUME NEW i \in Ids, i \notin Resolved(T)
      PROVE  /\ ca[i] = cache[i]
             /\ ca[i] # NoCell => va[ca[i]] = val[cache[i]]
  <2>1. ca[i] = cache[i]
    BY <1>4, ResolvedFacts
  <2>2. ASSUME ca[i] # NoCell PROVE va[ca[i]] = val[cache[i]]
    <3>1. ASSUME NEW j \in Resolved(T), ca[j] = ca[i] PROVE FALSE
      <4>1. j \in Ids
        BY ResolvedFacts
      <4>2. j = i
        BY <2>2, <3>1, <4>1, OneCellPerId
      <4> QED
        BY <1>4, <4>2
    <3>2. ca[i] \in Cells
      BY <2>1, <2>2, <1>1 DEF Typed
    <3>3. \A c \in Cells : (\E j \in Resolved(T) : ca[j] = c) \/ va[c] = val[c]
      BY AfterElsewhere
    <3>4. va[ca[i]] = val[ca[i]]
      BY <3>1, <3>2, <3>3
    <3> QED
      BY <2>1, <3>4
  <2> QED
    BY <2>1, <2>2
<1>5. ASSUME NEW i \in Ids PROVE Shown(ca, va)[i] = Shown(cache, val)[i]
  <2>1. CASE i \in Resolved(T)
    BY <1>2, <1>3, <2>1 DEF Shown
  <2>2. CASE i \notin Resolved(T)
    BY <1>4, <2>2 DEF Shown, Open
  <2> QED
    BY <2>1, <2>2
<1>6. Shown(ca, va) = Shown(cache, val)
  BY <1>5 DEF Shown
<1>7. ASSUME NEW i \in Ids PROVE i \in Present(ca) <=> i \in Present(cache) \cup T
  <2>1. CASE i \in Resolved(T) /\ i \notin T
    <3>1. i \in InFile
      BY <2>1, ResolvedFacts DEF Resolved, FromStreams
    <3> QED
      BY <3>1 DEF Present
  <2>2. CASE i \in Resolved(T) /\ i \in T
    BY <1>2, <2>2 DEF Present
  <2>3. CASE i \notin Resolved(T)
    <3>1. i \in T => cache[i] # NoCell
      BY <2>3, ResolvedFacts DEF Open
    <3> QED
      BY <1>4, <2>3, <3>1 DEF Present
  <2> QED
    BY <2>1, <2>2, <2>3
<1>8. Present(ca) \subseteq Ids /\ Present(cache) \cup T \subseteq Ids
  BY DEF Present
<1> QED
  BY <1>6, <1>7, <1>8

(* A value put into an entry, new or not, is shown for that id only.       *)
PutIn(ca, va, cb, vb, i, v) ==
  /\ ca \in [Ids -> Cells \cup {NoCell}]
  /\ i \in Ids /\ v \in Values
  /\ cb[i] # NoCell /\ vb[cb[i]] = v
  /\ \A j \in Ids : j # i => cb[j] = ca[j] /\ (ca[j] # NoCell => vb[ca[j]] = va[ca[j]])

LEMMA PutShown ==
  ASSUME NEW ca, NEW va, NEW cb, NEW vb, NEW i, NEW v, PutIn(ca, va, cb, vb, i, v)
  PROVE  /\ Shown(cb, vb) = [Shown(ca, va) EXCEPT ![i] = v]
         /\ Present(cb) = Present(ca) \cup {i}
<1> USE DEF PutIn
<1>1. v # Unresolved
  BY Names
<1>2. \A j \in Ids : Shown(cb, vb)[j] = IF j = i THEN v ELSE Shown(ca, va)[j]
  BY <1>1 DEF Shown, Open
<1>3. Shown(cb, vb) = [Shown(ca, va) EXCEPT ![i] = v]
  BY <1>2 DEF Shown
<1> QED
  BY <1>3 DEF Present

LEMMA ReadSteps ==
  ASSUME IInv, IInv',
         \/ \E i \in DocIds : Resolve(i) \/ GetObject(i)
         \/ GetObjectCount
         \/ \E c \in UserCells, v \in Data \cup {Null} : NewDirect(c, v)
  PROVE  Table!Read
<1> USE Names
<1>1. /\ Meaning = Shown(cache, val) /\ InUse = Present(cache)
      /\ Meaning' = Shown(cache', val') /\ InUse' = Present(cache')
  BY MeaningShown, MeaningShownNext
<1>2. ASSUME NEW i \in DocIds, Resolve(i) PROVE Table!Read
  <2>1. {i} \in SUBSET Ids /\ i \in Present(cache)
    BY <1>2, DocIdsAreIds DEF Resolve, IsCached, Present
  <2>2. cache' = CacheAfter({i}) /\ val' = ValAfter({i}) /\ call' = <<"read">>
    BY <1>2 DEF Resolve
  <2>3. /\ Shown(CacheAfter({i}), ValAfter({i})) = Shown(cache, val)
        /\ Present(CacheAfter({i})) = Present(cache) \cup {i}
    BY <2>1, AfterShown
  <2>4. Present(cache) \cup {i} = Present(cache)
    BY <2>1
  <2> QED
    BY <1>1, <2>2, <2>3, <2>4 DEF Table!Read
<1>3. ASSUME NEW i \in DocIds, GetObject(i) PROVE Table!Read
  <2>1. /\ i \in Ids /\ i \in InFile /\ i \in Cells /\ cache[i] = NoCell
        /\ cache' = [cache EXCEPT ![i] = i] /\ val' = [val EXCEPT ![i] = Unresolved]
        /\ call' = <<"read">>
    BY <1>3, DocIdsAreIds DEF GetObject, IsCached
  <2>2. Typed(cache, val, og, target) /\ Entries(cache, val, og) /\ Directs(val, og)
    BY DEF IInv, InOrder
  <2>3. /\ cache'[i] = i /\ val'[i] = Unresolved
        /\ \A j \in Ids : j # i => cache'[j] = cache[j]
        /\ \A c \in Cells : c # i => val'[c] = val[c]
    BY <2>1, <2>2 DEF Typed
  <2>4. \A j \in Ids : j # i /\ cache[j] # NoCell => cache[j] \in Cells /\ cache[j] # i
    BY <2>1, <2>2 DEF Entries, Typed, Directs
  <2>5. \A j \in Ids : Shown(cache', val')[j] = Shown(cache, val)[j]
    BY <2>1, <2>3, <2>4 DEF Shown, Open
  <2>6. Shown(cache', val') = Shown(cache, val)
    BY <2>5 DEF Shown
  <2>7. Present(cache') = Present(cache)
    BY <2>1, <2>3 DEF Present
  <2> QED
    BY <1>1, <2>1, <2>6, <2>7 DEF Table!Read
<1>4. ASSUME GetObjectCount PROVE Table!Read
  <2>1. Dangling \in SUBSET Ids /\ Dangling \subseteq Present(cache)
    BY DEF Dangling, Present
  <2>2. cache' = CacheAfter(Dangling) /\ val' = ValAfter(Dangling) /\ call' = <<"read">>
    BY <1>4 DEF GetObjectCount
  <2>3. Shown(cache', val') = Shown(cache, val) /\ Present(cache') = Present(cache)
    BY <2>1, <2>2, AfterShown
  <2> QED
    BY <1>1, <2>2, <2>3 DEF Table!Read
<1>5. ASSUME NEW c \in UserCells, NEW v \in Data \cup {Null}, NewDirect(c, v)
      PROVE  Table!Read
  <2>1. /\ c \in Cells /\ val[c] = Unused /\ val' = [val EXCEPT ![c] = v]
        /\ cache' = cache /\ call' = <<"read">>
    BY <1>5 DEF NewDirect
  <2>2. Typed(cache, val, og, target) /\ Entries(cache, val, og)
    BY DEF IInv, InOrder
  <2>3. \A j \in Ids : cache[j] # NoCell => val'[cache[j]] = val[cache[j]]
    BY <2>1, <2>2 DEF Entries, Typed
  <2>4. \A j \in Ids : Shown(cache', val')[j] = Shown(cache, val)[j]
    BY <2>1, <2>3 DEF Shown, Open
  <2>5. Shown(cache', val') = Shown(cache, val) /\ Present(cache') = Present(cache)
    BY <2>1, <2>4 DEF Shown
  <2> QED
    BY <1>1, <2>1, <2>5 DEF Table!Read
<1> QED
  BY <1>2, <1>3, <1>4, <1>5

LEMMA MentionStep ==
  ASSUME IInv, IInv', NEW i \in DocIds, GetObjectForParser(i)
  PROVE  Table!Mention(i)
<1> USE Names
<1>1. /\ Meaning = Shown(cache, val) /\ InUse = Present(cache)
      /\ Meaning' = Shown(cache', val') /\ InUse' = Present(cache')
  BY MeaningShown, MeaningShownNext
<1>2. /\ i \in Ids /\ i \notin InFile /\ i \in Cells /\ cache[i] = NoCell
      /\ cache' = [cache EXCEPT ![i] = i] /\ val' = [val EXCEPT ![i] = Null]
      /\ call' = <<"mention", i>>
  BY DocIdsAreIds DEF GetObjectForParser, IsCached
<1>3. Typed(cache, val, og, target) /\ Entries(cache, val, og) /\ Directs(val, og)
  BY DEF IInv, InOrder
<1>4. /\ cache'[i] = i /\ val'[i] = Null /\ Null \in Values
      /\ \A j \in Ids : j # i => cache'[j] = cache[j]
      /\ \A c \in Cells : c # i => val'[c] = val[c]
  BY <1>2, <1>3 DEF Typed, Values
<1>5. \A j \in Ids : j # i /\ cache[j] # NoCell => cache[j] \in Cells /\ cache[j] # i
  BY <1>2, <1>3 DEF Entries, Typed, Directs
<1>6. /\ Shown(cache', val') = [Shown(cache, val) EXCEPT ![i] = Null]
      /\ Present(cache') = Present(cache) \cup {i}
  <2>1. cache \in [Ids -> Cells \cup {NoCell}]
    BY <1>3 DEF Typed
  <2>2. \A j \in Ids : j # i => cache'[j] = cache[j] /\ (cache[j] # NoCell => val'[cache[j]] = val[cache[j]])
    BY <1>4, <1>5
  <2>3. cache'[i] # NoCell /\ val'[cache'[i]] = Null
    BY <1>2, <1>4
  <2>4. PutIn(cache, val, cache', val', i, Null)
    BY <1>2, <1>4, <2>1, <2>2, <2>3 DEF PutIn
  <2> QED
    BY <2>4, PutShown
<1>7. Shown(cache, val)[i] = Null
  BY <1>2 DEF Shown, Open
<1>8. Shown(cache', val') = Shown(cache, val)
  BY <1>6, <1>7 DEF Shown
<1>9. i \notin Present(cache)
  BY <1>2 DEF Present
<1> QED
  BY <1>1, <1>2, <1>6, <1>8, <1>9 DEF Table!Mention

LEMMA CreateStep ==
  ASSUME IInv, IInv', NEW c \in Cells, og[c] = 0, c \notin Ids,
         NEW v \in Values, NEW i \in Ids, MakeIndirect(c, v, i)
  PROVE  Table!Create(i, v)
<1> DEFINE T == Dangling
           ca == CacheAfter(T)
           va == ValAfter(T)
<1> USE Names
<1>1. /\ Meaning = Shown(cache, val) /\ InUse = Present(cache)
      /\ Meaning' = Shown(cache', val') /\ InUse' = Present(cache')
  BY MeaningShown, MeaningShownNext
<1>2. /\ T \in SUBSET Ids
      /\ InOrder(ca, va, OgAfter(T), target, loaded \cup ToLoad(T), TRUE)
  BY DanglingInOrder
<1>3. /\ cache' = [ca EXCEPT ![i] = c] /\ val' = [va EXCEPT ![c] = v]
      /\ call' = <<"create", i, v>>
      /\ \A j \in Ids : ca[j] # NoCell => j < i
      /\ i = 1 \/ ca[i - 1] # NoCell
  BY DEF MakeIndirect, IsNextObjGen
<1>4. /\ ca \in [Ids -> Cells \cup {NoCell}] /\ va \in [Cells -> CellValues]
      /\ \A j \in InFile : ca[j] # NoCell
  BY <1>2 DEF InOrder, Typed, ReadInTime, Open
<1>5. Shown(ca, va) = Shown(cache, val) /\ Present(ca) = Present(cache)
  <2>1. Present(ca) = Present(cache) \cup T /\ Shown(ca, va) = Shown(cache, val)
    BY <1>2, AfterShown
  <2>2. T \subseteq Present(cache)
    BY DEF Dangling, Present
  <2> QED
    BY <2>1, <2>2
<1>6. \A j \in Ids : ca[j] # NoCell => ca[j] \in Cells /\ ca[j] # c
  <2>1. OgAfter(T)[c] = 0
    BY <1>2, DirectStays
  <2>2. Entries(ca, va, OgAfter(T))
    BY <1>2 DEF InOrder
  <2> QED
    BY <1>4, <2>1, <2>2 DEF Entries
<1>7. PutIn(ca, va, cache', val', i, v)
  BY <1>3, <1>4, <1>6 DEF PutIn
<1>8. /\ Shown(cache', val') = [Shown(ca, va) EXCEPT ![i] = v]
      /\ Present(cache') = Present(ca) \cup {i}
  BY <1>7, PutShown
<1>9. \A u \in Present(cache) : u < i
  BY <1>3, <1>4, <1>5 DEF Present
<1>10. i = 1 \/ i - 1 \in Present(cache)
  <2>1. i = 1 \/ i - 1 \in Ids
    BY ConstantsAssumption DEF Ids
  <2> QED
    BY <1>3, <1>5, <2>1 DEF Present
<1> QED
  BY <1>1, <1>3, <1>5, <1>8, <1>9, <1>10 DEF Table!Create, Table!Put

LEMMA ReplaceStep ==
  ASSUME Callers = {}, IInv, IInv', NEW c \in Cells, NEW i \in DocIds, ReplaceObject(i, c)
  PROVE  Table!Replace(i, val[c]) /\ val[c] \in Values /\ i \in Ids
<1> USE Names
<1>1. /\ Meaning = Shown(cache, val) /\ InUse = Present(cache)
      /\ Meaning' = Shown(cache', val') /\ InUse' = Present(cache')
  BY MeaningShown, MeaningShownNext
<1>2. /\ i \in Ids /\ og[c] = 0 /\ val[c] # Unused /\ UpdateCache(i, c)
      /\ call' = <<"replace", i, val[c]>>
  BY DocIdsAreIds DEF ReplaceObject
<1>3. Typed(cache, val, og, target) /\ Entries(cache, val, og) /\ Directs(val, og)
  BY DEF IInv, InOrder
<1>4. val[c] \in Values
  BY <1>2, <1>3 DEF Directs, Typed, CellValues
<1>5. \A j \in Ids : cache[j] # NoCell =>
        cache[j] \in Cells /\ cache[j] # c /\ og[cache[j]] = j
  BY <1>2, <1>3 DEF Entries, Typed
<1>6. cache \in [Ids -> Cells \cup {NoCell}] /\ val \in [Cells -> CellValues]
  BY <1>3 DEF Typed
<1>7. PutIn(cache, val, cache', val', i, val[c])
  <2>1. CASE cache[i] # NoCell
    <3>1. cache' = cache /\ val' = [val EXCEPT ![cache[i]] = val[c], ![c] = Reference]
      BY <1>2, <2>1 DEF UpdateCache, IsCached
    <3>2. val'[cache[i]] = val[c]
      BY <1>2, <1>5, <1>6, <2>1, <3>1
    <3>3. \A d \in Cells : d # c /\ d # cache[i] => val'[d] = val[d]
      BY <1>6, <3>1
    <3>4. \A j \in Ids : j # i /\ cache[j] # NoCell => cache[j] # cache[i]
      BY <1>2, <1>5, <2>1
    <3> QED
      BY <1>2, <1>4, <1>5, <1>6, <2>1, <3>1, <3>2, <3>3, <3>4 DEF PutIn
  <2>2. CASE cache[i] = NoCell
    <3>1. cache' = [cache EXCEPT ![i] = c] /\ val' = val
      BY <1>2, <2>2 DEF UpdateCache, IsCached
    <3> QED
      BY <1>2, <1>4, <1>6, <3>1 DEF PutIn
  <2> QED
    BY <2>1, <2>2
<1>8. /\ Shown(cache', val') = [Shown(cache, val) EXCEPT ![i] = val[c]]
      /\ Present(cache') = Present(cache) \cup {i}
  BY <1>7, PutShown
<1> QED
  BY <1>1, <1>2, <1>4, <1>8 DEF Table!Replace, Table!Put

LEMMA SwapStep ==
  ASSUME IInv, IInv', NEW i \in DocIds, NEW j \in DocIds, SwapObjects(i, j)
  PROVE  Table!Swap(i, j) /\ i \in Ids /\ j \in Ids
<1> DEFINE T == {i, j}
           ca == CacheAfter(T)
           va == ValAfter(T)
<1> USE Names
<1>1. /\ Meaning = Shown(cache, val) /\ InUse = Present(cache)
      /\ Meaning' = Shown(cache', val') /\ InUse' = Present(cache')
  BY MeaningShown, MeaningShownNext
<1>2. i \in Ids /\ j \in Ids /\ T \in SUBSET Ids /\ fixed \in BOOLEAN
  BY DocIdsAreIds DEF IInv, InOrder
<1>3. /\ InOrder(ca, va, OgAfter(T), target, loaded \cup ToLoad(T), fixed)
      /\ ~Open(ca, va, i) /\ ~Open(ca, va, j)
  <2>1. i \in T /\ j \in T
    OBVIOUS
  <2> HIDE DEF T
  <2> QED
    BY <1>2, <2>1, AfterInOrder
<1>4. Shown(ca, va) = Shown(cache, val) /\ Present(ca) = Present(cache) \cup {i, j}
  BY <1>2, AfterShown
<1>5. /\ cache' = ca /\ val' = [va EXCEPT ![ca[i]] = va[ca[j]], ![ca[j]] = va[ca[i]]]
      /\ call' = <<"swap", i, j>>
  BY DEF SwapObjects
<1>6. /\ va \in [Cells -> CellValues]
      /\ \A k \in Ids : ca[k] # NoCell => ca[k] \in Cells
      /\ Entries(ca, va, OgAfter(T))
  <2>1. Typed(ca, va, OgAfter(T), target) /\ Entries(ca, va, OgAfter(T))
    BY <1>3 DEF InOrder
  <2> HIDE DEF ca, va
  <2> QED
    BY <2>1 DEF Typed
<1>7. /\ ca[i] # NoCell /\ ca[j] # NoCell
      /\ va[ca[i]] # Unresolved /\ va[ca[j]] # Unresolved
  BY <1>3 DEF Open
<1>8. /\ val'[ca[i]] = va[ca[j]] /\ val'[ca[j]] = va[ca[i]]
      /\ \A d \in Cells : d # ca[i] /\ d # ca[j] => val'[d] = va[d]
  BY <1>2, <1>5, <1>6, <1>7
<1>9. ASSUME NEW k \in Ids, ca[k] # NoCell, k # i, k # j
      PROVE  ca[k] \in Cells /\ ca[k] # ca[i] /\ ca[k] # ca[j]
  BY <1>2, <1>6, <1>7, <1>9 DEF Entries
<1>10. ASSUME NEW k \in Ids
       PROVE  Shown(cache', val')[k] = IF k = i THEN va[ca[j]]
                                       ELSE IF k = j THEN va[ca[i]] ELSE Shown(ca, va)[k]
  <2>1. Shown(cache', val')[k] =
          IF ca[k] # NoCell /\ val'[ca[k]] # Unresolved THEN val'[ca[k]]
          ELSE IF k \in InFile THEN FileVal[k] ELSE Null
    BY <1>5 DEF Shown, Open
  <2>2. Shown(ca, va)[k] =
          IF ca[k] # NoCell /\ va[ca[k]] # Unresolved THEN va[ca[k]]
          ELSE IF k \in InFile THEN FileVal[k] ELSE Null
    BY DEF Shown, Open
  <2> QED
    BY <1>7, <1>8, <1>9, <2>1, <2>2
<1>11. Shown(ca, va)[i] = va[ca[i]] /\ Shown(ca, va)[j] = va[ca[j]]
  BY <1>2, <1>7 DEF Shown, Open
<1>12. Shown(cache', val') =
         [Shown(ca, va) EXCEPT ![i] = Shown(ca, va)[j], ![j] = Shown(ca, va)[i]]
  <2> DEFINE new == Shown(cache', val')
  <2> DEFINE old == Shown(ca, va)
  <2>1. new = [k \in Ids |-> new[k]] /\ old = [k \in Ids |-> old[k]]
    BY DEF Shown
  <2>2. \A k \in Ids : new[k] = IF k = i THEN old[j] ELSE IF k = j THEN old[i] ELSE old[k]
    BY <1>10, <1>11
  <2> HIDE DEF new, old
  <2>3. new = [old EXCEPT ![i] = old[j], ![j] = old[i]]
    BY <1>2, <2>1, <2>2
  <2> QED
    BY <2>3 DEF new, old
<1> QED
  BY <1>1, <1>2, <1>4, <1>5, <1>12 DEF Table!Swap

LEMMA StepRefines ==
  ASSUME Callers = {}, IInv, IInv', [Next]_vars
  PROVE  [Table!Next]_(Table!tableVars)
<1> USE Names
<1>1. CASE \/ \E i \in DocIds : Resolve(i) \/ GetObject(i)
           \/ GetObjectCount
           \/ \E c \in UserCells, v \in Data \cup {Null} : NewDirect(c, v)
  BY <1>1, ReadSteps DEF Table!Next
<1>2. ASSUME NEW i \in DocIds, GetObjectForParser(i) PROVE Table!Next
  BY <1>2, MentionStep, DocIdsAreIds DEF Table!Next
<1>3. ASSUME NEW c \in Cells, NEW i \in Ids, MakeIndirectObject(c, i) PROVE Table!Next
  <2>1. og[c] = 0 /\ val[c] \in Data \cup {Null} /\ MakeIndirect(c, val[c], i)
    BY <1>3 DEF MakeIndirectObject
  <2>2. c \notin Ids
    BY <2>1 DEF IInv, InOrder, Directs
  <2>3. Table!Create(i, val[c])
    BY <2>1, <2>2, CreateStep
  <2> QED
    BY <2>1, <2>3 DEF Table!Next
<1>4. ASSUME NEW c \in UserCells, NEW v \in {Null, Reserved}, NEW i \in Ids,
             NewIndirect(c, v, i)
      PROVE  Table!Next
  <2>1. /\ MakeIndirect(c, v, i) /\ val[c] = Unused
        /\ c \in Cells /\ c \notin Ids /\ v \in Values
    BY <1>4 DEF NewIndirect, Values
  <2>2. og[c] = 0
    BY <2>1, UnusedIsDirect
  <2>3. Table!Create(i, v)
    BY <2>1, <2>2, CreateStep
  <2> QED
    BY <2>1, <2>3 DEF Table!Next
<1>5. ASSUME NEW c \in Cells, NEW i \in DocIds, ReplaceObject(i, c) PROVE Table!Next
  BY <1>5, ReplaceStep DEF Table!Next
<1>6. ASSUME NEW r \in Cells, NEW c \in Cells, ReplaceReserved(r, c) PROVE Table!Next
  BY <1>5, <1>6 DEF ReplaceReserved
<1>7. ASSUME NEW i \in DocIds, NEW j \in DocIds, SwapObjects(i, j) PROVE Table!Next
  BY <1>7, SwapStep DEF Table!Next
<1>8. CASE UNCHANGED vars
  BY <1>8 DEF vars, Table!tableVars, Meaning, InUse, IsUnresolved, IsCached, Deref
<1> QED
  BY <1>1, <1>2, <1>3, <1>4, <1>5, <1>6, <1>7, <1>8 DEF Next

(* The cache implements the table: whatever is read when, and whichever    *)
(* handle it is read through, a document's objects change only as the      *)
(* calls replaceObject, makeIndirectObject and swapObjects ask, and a new  *)
(* object gets the first id above all that exist.                          *)
THEOREM Refinement ==
  ASSUME Callers = {}
  PROVE  Spec => ImplementsTable
<1>1. Init => Table!Init
  BY Names DEF Init, Table!Init, Meaning, InUse, IsUnresolved, IsCached
<1>2. IInv /\ IInv' /\ [Next]_vars => [Table!Next]_(Table!tableVars)
  BY StepRefines
<1>3. Spec => []IInv
  BY AlwaysInOrder
<1> QED
  BY <1>1, <1>2, <1>3, PTL DEF Spec, ImplementsTable, Table!Spec
=============================================================================
