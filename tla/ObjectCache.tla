---------------------------- MODULE ObjectCache ----------------------------
(***************************************************************************)
(* The object cache of a QPDF document (libqpdf/QPDF_objects.cc) after the *)
(* cross-reference table has been read: which QPDFObject stands for which  *)
(* object id, when it is read from the file, and what the calls that       *)
(* create, replace and swap objects do to the handles a program already    *)
(* holds.                                                                  *)
(*                                                                         *)
(* A QPDFObjectHandle is a shared pointer to a QPDFObject, called a cell   *)
(* here; obj_cache maps an id to a cell.  A cell that a lookup creates for *)
(* id i is named i (an id is looked up for the first time once only, as    *)
(* nothing leaves the cache here); the cells that programs create for      *)
(* direct objects are the members of UserCells.                            *)
(*                                                                         *)
(* Left out: generations (one object per id; XRef.tla has them) and what   *)
(* happens inside one resolution (Resolver.tla has it).                    *)
(***************************************************************************)
EXTENDS Integers, FiniteSets

CONSTANTS
  MaxId,      \* bound on object ids
  UserCells,  \* objects a program can create
  Data,       \* contents of objects
  Streams,    \* those of them that are streams
  InFile,     \* ids in the cross-reference table
  FileVal,    \* what the file holds for them; Null where it is unreadable
  StreamOf,   \* the object stream an id is stored in, 0 for none
  Callers     \* calls the library accepts that callers make, see below

Ids == 1..MaxId
NoCell == 0
Cells == Ids \cup UserCells

Unused == "unused"
Null == "null"
Reserved == "reserved"
Unresolved == "unresolved"
Reference == "reference"
Values == Data \cup {Null, Reserved}
CellValues == Values \cup {Unused, Unresolved, Reference}

(* Callers lists the calls that are tried although they break a promise:   *)
(*  "replace_unread"  replaceObject on an id kept in an object stream that *)
(*                    has not been read yet                                *)
(*  "replace_self"    replaceObject of a stream by a handle to itself      *)
(*  "indirect_twice"  makeIndirectObject on a handle that is indirect      *)
CallerKinds == {"replace_unread", "replace_self", "indirect_twice"}

ASSUME ConstantsAssumption ==
  /\ MaxId \in Nat \ {0}
  /\ UserCells \cap (0..MaxId) = {}
  /\ Data \cap {Unused, Null, Reserved, Unresolved, Reference} = {}
  /\ Streams \subseteq Data
  /\ InFile \subseteq Ids
  /\ FileVal \in [InFile -> Data \cup {Null}]
  /\ StreamOf \in [InFile -> InFile \cup {0}]
  /\ \A i \in InFile : StreamOf[i] # 0 =>
       /\ StreamOf[StreamOf[i]] = 0
       /\ FileVal[StreamOf[i]] \in Streams \/ FileVal[i] = Null
  /\ Callers \subseteq CallerKinds

VARIABLES
  cache,   \* obj_cache: id -> cell, NoCell where there is no entry
  val,     \* cell -> its value
  og,      \* cell -> the id it carries, 0 for a direct object
  target,  \* cell -> the cell a Reference refers to
  loaded,  \* resolved_object_streams
  fixed,   \* fixed_dangling_refs
  call     \* the call made last, for ObjectTable

vars == <<cache, val, og, target, loaded, fixed, call>>

ObjectStreams == {StreamOf[i] : i \in InFile} \ {0}

(* The ids a program works on: object streams are not objects of the       *)
(* document and are referred to by no object.                              *)
DocIds == Ids \ ObjectStreams

Init ==
  /\ cache = [i \in Ids |-> NoCell]
  /\ val = [c \in Cells |-> Unused]
  /\ og = [c \in Cells |-> 0]
  /\ target = [c \in Cells |-> NoCell]
  /\ loaded = {}
  /\ fixed = FALSE
  /\ call = <<"none">>

-----------------------------------------------------------------------------
(* Reading.  Resolving a set T of ids, in one step.                        *)

IsCached(i) == cache[i] # NoCell
IsUnresolved(i) == ~IsCached(i) \/ val[cache[i]] = Unresolved

(* The object streams that resolving T reads: each is read once only.      *)
ToLoad(T) ==
  {StreamOf[i] : i \in {j \in T \cap InFile : IsUnresolved(j)}}
    \ (loaded \cup {0})

(* Every object found in an object stream goes into the cache when the     *)
(* stream is read, provided that the cross-reference table says it is      *)
(* there; whether the object has been resolved before is not looked at.    *)
FromStreams(T) ==
  {i \in InFile : StreamOf[i] \in ToLoad(T) /\ FileVal[i] # Null}

Resolved(T) == {i \in T \cup ToLoad(T) : IsUnresolved(i)} \cup FromStreams(T)

(* What an id reads as: null where the file does not define it, or where   *)
(* the object stream it should be in was read and did not have it.         *)
ReadAs(i) ==
  IF i \in InFile /\ StreamOf[i] \notin loaded THEN FileVal[i] ELSE Null

CacheAfter(T) == [i \in Ids |-> IF i \in Resolved(T) /\ ~IsCached(i)
                                THEN i ELSE cache[i]]
ValAfter(T) == [c \in Cells |->
                  IF \E i \in Resolved(T) : CacheAfter(T)[i] = c
                  THEN ReadAs(CHOOSE i \in Resolved(T) : CacheAfter(T)[i] = c)
                  ELSE val[c]]
OgAfter(T) == [c \in Cells |->
                 IF \E i \in Resolved(T) : CacheAfter(T)[i] = c
                 THEN CHOOSE i \in Resolved(T) : CacheAfter(T)[i] = c
                 ELSE og[c]]

(* Resolver::resolved, on the first use of a handle to an unread object.   *)
Resolve(i) ==
  /\ IsCached(i) /\ IsUnresolved(i)
  /\ cache' = CacheAfter({i})
  /\ val' = ValAfter({i})
  /\ og' = OgAfter({i})
  /\ loaded' = loaded \cup ToLoad({i})
  /\ call' = <<"read">>
  /\ UNCHANGED <<target, fixed>>

(* A lookup of an id that is in the file makes a cell that will be read    *)
(* when it is used; for any other id getObject returns a fresh direct null *)
(* and leaves the cache alone.                                             *)
GetObject(i) ==
  /\ ~IsCached(i) /\ i \in InFile
  /\ cache' = [cache EXCEPT ![i] = i]
  /\ val' = [val EXCEPT ![i] = Unresolved]
  /\ og' = [og EXCEPT ![i] = i]
  /\ call' = <<"read">>
  /\ UNCHANGED <<target, loaded, fixed>>

(* A reference met in text that is not part of the file.  An id that is    *)
(* nowhere is entered as an indirect null.                                 *)
GetObjectForParser(i) ==
  /\ ~IsCached(i) /\ i \notin InFile
  /\ cache' = [cache EXCEPT ![i] = i]
  /\ val' = [val EXCEPT ![i] = Null]
  /\ og' = [og EXCEPT ![i] = i]
  /\ call' = <<"mention", i>>
  /\ UNCHANGED <<target, loaded, fixed>>

(* The ids that fixDanglingReferences still has to resolve.                *)
Dangling_Forgotten == {}   \* slip: the file's ids are not resolved first
Dangling == IF fixed THEN {} ELSE InFile

GetObjectCount ==
  /\ ~fixed
  /\ cache' = CacheAfter(Dangling)
  /\ val' = ValAfter(Dangling)
  /\ og' = OgAfter(Dangling)
  /\ loaded' = loaded \cup ToLoad(Dangling)
  /\ fixed' = TRUE
  /\ call' = <<"read">>
  /\ UNCHANGED target

-----------------------------------------------------------------------------
(* Changing.                                                               *)

NewDirect(c, v) ==
  /\ val[c] = Unused
  /\ val' = [val EXCEPT ![c] = v]
  /\ call' = <<"read">>
  /\ UNCHANGED <<cache, og, target, loaded, fixed>>

(* nextObjGen: one more than the highest id in the cache, once everything  *)
(* in the cross-reference table is in the cache too.                       *)
IsNextObjGen_Stale(i) ==   \* slip: highest id taken before resolving
  /\ \A j \in Ids : IsCached(j) => j < i
  /\ i = 1 \/ IsCached(i - 1)
IsNextObjGen(i) ==
  /\ \A j \in Ids : CacheAfter(Dangling)[j] # NoCell => j < i
  /\ i = 1 \/ CacheAfter(Dangling)[i - 1] # NoCell

MakeIndirect(c, v, i) ==
  /\ IsNextObjGen(i)
  /\ cache' = [CacheAfter(Dangling) EXCEPT ![i] = c]
  /\ val' = [ValAfter(Dangling) EXCEPT ![c] = v]
  /\ og' = [OgAfter(Dangling) EXCEPT ![c] = i]
  /\ loaded' = loaded \cup ToLoad(Dangling)
  /\ fixed' = TRUE
  /\ call' = <<"create", i, v>>
  /\ UNCHANGED target

MakeIndirectObject(c, i) ==
  /\ val[c] \in Data \cup {Null}
  /\ og[c] = 0 \/ "indirect_twice" \in Callers
  /\ MakeIndirect(c, val[c], i)

(* newReserved and newIndirectNull.                                        *)
NewIndirect(c, v, i) ==
  /\ val[c] = Unused
  /\ MakeIndirect(c, v, i)

Deref(c) == IF val[c] = Reference THEN target[c] ELSE c

(* updateCache with destroy = false: an entry keeps its cell, so that the  *)
(* handles to it see the new value, and the cell that held the value turns *)
(* into a reference to the entry's cell.                                   *)
UpdateCache_NewCell(i, c) ==   \* slip: the entry changes cells
  /\ cache' = [cache EXCEPT ![i] = c]
  /\ og' = [og EXCEPT ![c] = i]
  /\ UNCHANGED <<val, target>>
UpdateCache(i, c) ==
  IF IsCached(i)
  THEN LET t == cache[i] IN
       /\ val' = [val EXCEPT ![t] = val[c], ![c] = Reference]
       /\ target' = [target EXCEPT ![t] = target[c], ![c] = t]
       /\ og' = [og EXCEPT ![c] = i, ![t] = i]
       /\ UNCHANGED cache
  ELSE /\ cache' = [cache EXCEPT ![i] = c]
       /\ og' = [og EXCEPT ![c] = i]
       /\ UNCHANGED <<val, target>>

(* An object kept in an object stream that has yet to be read.             *)
Unread(i) == i \in InFile /\ StreamOf[i] \notin loaded \cup {0}

ReplaceObject(i, c) ==
  /\ val[c] # Unused
  /\ \/ og[c] = 0
     \/ /\ val[Deref(c)] \in Streams /\ og[c] = i
        /\ "replace_self" \in Callers
  /\ Unread(i) => "replace_unread" \in Callers
  /\ UpdateCache(i, c)
  /\ call' = <<"replace", i, val[c]>>
  /\ UNCHANGED <<loaded, fixed>>

(* r is the reserved object, or a null.                                    *)
ReplaceReserved(r, c) ==
  /\ val[Deref(r)] \in {Reserved, Null} /\ og[r] \in DocIds
  /\ ReplaceObject(og[r], c)

SwapObjects(i, j) ==
  LET T == {i, j}
      a == CacheAfter(T)[i]
      b == CacheAfter(T)[j]
  IN /\ cache' = CacheAfter(T)
     /\ val' = [ValAfter(T) EXCEPT ![a] = ValAfter(T)[b],
                                   ![b] = ValAfter(T)[a]]
     /\ og' = OgAfter(T)
     /\ loaded' = loaded \cup ToLoad(T)
     /\ call' = <<"swap", i, j>>
     /\ UNCHANGED <<target, fixed>>

Next ==
  \/ \E i \in DocIds : Resolve(i) \/ GetObject(i) \/ GetObjectForParser(i)
  \/ GetObjectCount
  \/ \E c \in UserCells, v \in Data \cup {Null} : NewDirect(c, v)
  \/ \E c \in Cells, i \in Ids : MakeIndirectObject(c, i)
  \/ \E c \in UserCells, v \in {Null, Reserved}, i \in Ids : NewIndirect(c, v, i)
  \/ \E c \in Cells, i \in DocIds : ReplaceObject(i, c)
  \/ \E r, c \in Cells : ReplaceReserved(r, c)
  \/ \E i, j \in DocIds : SwapObjects(i, j)

Spec == Init /\ [][Next]_vars

-----------------------------------------------------------------------------
TypeOK ==
  /\ cache \in [Ids -> Cells \cup {NoCell}]
  /\ val \in [Cells -> CellValues]
  /\ og \in [Cells -> Ids \cup {0}]
  /\ target \in [Cells -> Cells \cup {NoCell}]
  /\ loaded \subseteq ObjectStreams
  /\ fixed \in BOOLEAN

(* An entry of the cache is an object that carries the id of the entry,    *)
(* and never a reference: type_code() looks through one reference only, so *)
(* a reference in the cache would hide the object from every handle.       *)
EntriesAreObjects ==
  \A i \in Ids : IsCached(i) =>
    /\ og[cache[i]] = i
    /\ val[cache[i]] \notin {Unused, Reference}

(* Every handle that carries id i, whenever the program obtained it, shows *)
(* the object that the cache holds for i now (replaceObject is documented  *)
(* to redirect the handles that already exist).                            *)
HandlesFollow ==
  \A c \in Cells : og[c] # 0 =>
    /\ IsCached(og[c])
    /\ Deref(c) = cache[og[c]]

(* Reading every object in the cross-reference table first is what makes   *)
(* the highest id in the cache the highest id in use.                      *)
FixedMeansCached == fixed => \A i \in InFile : IsCached(i) /\ ~IsUnresolved(i)

(* When an object stream has been read, all that it holds has been read.   *)
LoadedMeansRead ==
  \A i \in InFile : StreamOf[i] \in loaded /\ FileVal[i] # Null => ~IsUnresolved(i)

(* Whoever asks is past reading: after fixDanglingReferences for every     *)
(* object, after an object stream for what is in it.                       *)
ReadIsRead == FixedMeansCached /\ LoadedMeansRead

(* The values that the document promises: see ObjectTable.                 *)
Meaning ==
  [i \in Ids |-> IF ~IsUnresolved(i) THEN val[Deref(cache[i])]
                 ELSE IF i \in InFile THEN FileVal[i] ELSE Null]
InUse == InFile \cup {i \in Ids : IsCached(i)}

Table == INSTANCE ObjectTable WITH store <- Meaning, used <- InUse

(* Lazy reading cannot be observed: every step is the call it is named     *)
(* for, carried out on a plain table, or changes no object.                *)
ImplementsTable == Table!Spec

(* The handles of replaceObject's caller and of everyone else see the new  *)
(* object until the next call that replaces or swaps it (QPDF.hh:385-391). *)
ReplaceSticks ==
  [][call'[1] = "read" => \A i \in DocIds :
        ~IsUnresolved(i) => Meaning'[i] = Meaning[i]]_vars
=============================================================================
