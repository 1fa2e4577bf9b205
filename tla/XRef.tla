------------------------------- MODULE XRef -------------------------------
(***************************************************************************)
(* The cross-reference table of a QPDF document (libqpdf/QPDF_objects.cc): *)
(* how Objects::parse builds it from the sections of the file, newest      *)
(* first, and how reconstruct_xref rebuilds it when a section or, later,   *)
(* an object turns out to be damaged.                                      *)
(*                                                                         *)
(* A file is a record:                                                     *)
(*   sections  its cross-reference sections; an offset that names a        *)
(*             section is its index, see Section                           *)
(*   start     the section found by the search for startxref in the last   *)
(*             1054 bytes, 0 if there is none                              *)
(*   late      the last startxref of the file when it follows all objects, *)
(*             found by reconstruct_xref only; 0 if there is none          *)
(*   objects   the "n n obj" of the file in the order of their offsets; an *)
(*             object's offset is its index; xref is the section that the  *)
(*             object is, if it is a cross-reference stream, or 0          *)
(*   trailers  what follows each word "trailer"                            *)
(*                                                                         *)
(* Reading a section is one step, or two if it has an /XRefStm.  Whether   *)
(* the catalog and the pages can be found with a table is left open, and   *)
(* so is which references there are in the dictionaries of the sections.   *)
(* Left out: warnings and their limits, inspection mode, suppressed        *)
(* recovery, encryption, tokens.                                           *)
(***************************************************************************)
EXTENDS Integers, FiniteSets, SequencesExt

CONSTANTS
  Files,          \* the files that may be opened
  MaxId,          \* xref_table_max_id
  MaxGen,         \* the highest generation, 65534
  IgnoreStreams   \* the option ignore_xref_streams

(* A section is a "table", a "stream" or "junk".  It has entries; self is  *)
(* the id of a cross-reference stream's own object; stm is /XRefStm, prev  *)
(* is /Prev (0 absent, -1 not a number) and size is /Size (-1 not a        *)
(* number); a stream has no entries but those that /Index counts.  An      *)
(* entry has an id, a gen and a kind: "free", "plain" with its offset at,  *)
(* "packed" in the object stream at, "bad", unreadable, or "other", of a   *)
(* type that there is not.                                                 *)
Entries ==
  [id : Nat, gen : Nat, kind : {"free", "plain", "packed", "bad", "other"}, at : Nat]

IsFile(f) ==
  LET offsets == 0..Len(f.sections) IN
  /\ f.sections \in Seq([kind : {"table", "stream", "junk"}, self : Nat, entries : Seq(Entries),
                         prev : offsets \cup {-1}, stm : offsets, size : Int])
  /\ f.start \in offsets /\ f.late \in offsets
  /\ f.objects \in Seq([id : Nat, gen : Nat, xref : offsets])
  /\ f.trailers \in Seq({"root", "noroot"})

ASSUME ConstantsAssumption ==
  /\ MaxId \in Nat \ {0} /\ MaxGen \in Nat
  /\ IgnoreStreams \in BOOLEAN
  /\ \A f \in Files : IsFile(f)

NoTrailer == <<"none">>

VARIABLES
  file,
  pc,             \* "open", "read", "stm", between a table and its
                  \* /XRefStm, "reconstruct", "recover", "conclude",
                  \* "ready" or "failed"
  mode,           \* who called read_xref: "first", "retry" or "streams";
                  \* "resumed" is "first" after a recovery in the middle
  off,            \* the section that read_xref reads next, 0 at the end
  visited,        \* the sections that this read_xref has read
  xref,           \* xref_table: <<id, gen>> -> entry
  deleted,        \* deleted_objects, a set of ids
  trailer,        \* where the trailer dictionary comes from
  cached,         \* <<id, gen>> -> what obj_cache holds since read_xref
  backup,         \* xref_backup of reconstruct_xref
  reconstructed,  \* reconstructed_xref
  parsed          \* the document is open

vars == <<file, pc, mode, off, visited, xref, deleted, trailer, cached,
          backup, reconstructed, parsed>>

EmptyTable == [og \in {} |-> {}]

Init ==
  /\ file \in Files
  /\ pc = "open" /\ mode = "first"
  /\ off = 0 /\ visited = {}
  /\ xref = EmptyTable /\ deleted = {} /\ cached = EmptyTable
  /\ trailer = NoTrailer /\ backup = EmptyTable
  /\ reconstructed = FALSE /\ parsed = FALSE

With(f, x, y) == [z \in DOMAIN f \cup {x} |-> IF z = x THEN y ELSE f[z]]

-----------------------------------------------------------------------------
(* The table under construction: t.xref and t.deleted, and t.ok until      *)
(* there is an exception.                                                  *)

IsValid(e) ==
  /\ e.kind \in {"plain", "packed"}
  /\ e.id \in 1..MaxId
  /\ e.kind = "packed" \/ e.gen <= MaxGen
  /\ e.kind = "packed" => e.at # e.id /\ e.at <= MaxId

Key(e) == <<e.id, IF e.kind = "packed" THEN 0 ELSE e.gen>>

(* The first entry for an object and generation stays: newer sections are  *)
(* read before older ones.                                                 *)
InsertXrefEntry_Overwrite(t, e) ==   \* slip: an older entry replaces it
  IF IsValid(e) /\ e.id \notin t.deleted
  THEN [t EXCEPT !.xref = With(t.xref, Key(e), e)]
  ELSE t
InsertXrefEntry(t, e) ==
  IF IsValid(e) /\ e.id \notin t.deleted /\ Key(e) \notin DOMAIN t.xref
  THEN [t EXCEPT !.xref = With(t.xref, Key(e), e)]
  ELSE t

InsertFreeXrefEntry(t, e) ==
  IF Key(e) \notin DOMAIN t.xref /\ e.id <= MaxId
  THEN [t EXCEPT !.deleted = @ \cup {e.id}]
  ELSE t

Insert(t, e) ==
  IF ~t.ok \/ e.kind = "bad" THEN [t EXCEPT !.ok = FALSE]
  ELSE IF e.kind = "free" THEN InsertFreeXrefEntry(t, e)
  ELSE InsertXrefEntry(t, e)

InsertAll(t, es) ==
  LET after[n \in 0..Len(es)] == IF n = 0 THEN t ELSE Insert(after[n - 1], es[n])
  IN after[Len(es)]

Table == [xref |-> xref, deleted |-> deleted, cached |-> cached, ok |-> TRUE]

(* The entries of a stream: object 0 is skipped, the generation of a free  *)
(* entry is disregarded, and in recovery plain entries are skipped.        *)
FromStream(es, recovery) ==
  [k \in DOMAIN es |->
     IF es[k].id = 0 \/ (recovery /\ es[k].kind = "plain") THEN [es[k] EXCEPT !.kind = "other"]
     ELSE IF es[k].kind = "free" THEN [es[k] EXCEPT !.gen = 0]
     ELSE es[k]]

(* The data of a stream has all the entries that it should have.           *)
Readable(es) == \A k \in DOMAIN es : es[k].kind # "bad"

(* readObjectAtOffset caches the stream under its own id, unless the table *)
(* already has another object there.                                       *)
CacheStream(t, og) ==
  IF og \in DOMAIN t.xref \/ og \in DOMAIN t.cached THEN t
  ELSE [t EXCEPT !.cached = With(t.cached, og, "xref")]

(* Reading gives [ok, t, next, dict]: whether it came to the end, the      *)
(* table it leaves, /Prev, and whether it met a trailer dictionary.        *)
ReadXrefStream(t, k, recovery) ==
  LET sec == file.sections[k]
      t1 == CacheStream(t, <<sec.self, 0>>)
      fails(u) == [ok |-> FALSE, t |-> u, next |-> 0, dict |-> FALSE]
  IN IF IgnoreStreams \/ sec.kind # "stream" THEN fails(t)
     ELSE IF sec.size < 0 \/ ~Readable(sec.entries) THEN fails(t1)
     ELSE [ok |-> sec.prev # -1,
           t |-> InsertAll(t1, FromStream(sec.entries, recovery)),
           next |-> sec.prev, dict |-> TRUE]

StmOf(k) ==
  IF file.sections[k].kind = "table" /\ ~IgnoreStreams THEN file.sections[k].stm ELSE 0

(* The entries of a table are in the table before its trailer is looked at. *)
ReadXrefTable(t, k) ==
  LET sec == file.sections[k]
      t1 == InsertAll(t, sec.entries)
      sized == trailer # NoTrailer \/ sec.size # -1
  IN [ok |-> t1.ok /\ sized /\ (StmOf(k) = 0 => sec.prev # -1),
      t |-> t1, next |-> sec.prev, dict |-> t1.ok]

(* The entries of its /XRefStm come after them, and what that says of      *)
(* /Prev is not used.                                                      *)
ReadXrefStm(t, k) ==
  LET stm == ReadXrefStream(t, StmOf(k), FALSE)
      prev == file.sections[k].prev
  IN [ok |-> stm.ok /\ prev # -1, t |-> stm.t, next |-> prev, dict |-> stm.dict]

ReadSection(k) ==
  CASE file.sections[k].kind = "table" -> ReadXrefTable(Table, k)
    [] OTHER -> ReadXrefStream(Table, k, mode = "streams")

SetTable(t) == xref' = t.xref /\ deleted' = t.deleted /\ cached' = t.cached

-----------------------------------------------------------------------------
(* parse                                                                   *)
StartReading(k, m) ==
  /\ pc' = "read" /\ mode' = m
  /\ off' = k /\ visited' = {}

Parse ==
  /\ pc = "open"
  /\ IF file.start = 0
     THEN pc' = "reconstruct" /\ UNCHANGED <<mode, off, visited>>
     ELSE StartReading(file.start, "first")
  /\ UNCHANGED <<file, xref, deleted, trailer, cached, backup, reconstructed, parsed>>

(* Where an exception thrown in read_xref is caught; reconstruct_xref does *)
(* not run twice.                                                          *)
ThrowTo ==
  [first |-> "reconstruct", resumed |-> "failed",
   retry |-> "recover", streams |-> "conclude"][mode]

ReadXref_Loop(r) == r.ok   \* slip: no check for loops
ReadXref_Continues(r) == r.ok /\ r.next \notin visited \cup {off}

TakeTrailer(r) ==
  trailer' = IF r.dict /\ trailer = NoTrailer THEN <<"section", off>> ELSE trailer

Follow(r) ==
  /\ visited' = visited \cup {off}
  /\ IF ReadXref_Continues(r) THEN off' = r.next /\ pc' = "read"
     ELSE off' = 0 /\ pc' = ThrowTo

ReadXref ==
  /\ pc = "read" /\ off # 0
  /\ LET r == ReadSection(off) IN
     /\ SetTable(r.t) /\ TakeTrailer(r)
     /\ IF r.ok /\ StmOf(off) # 0 THEN pc' = "stm" /\ UNCHANGED <<off, visited>>
        ELSE Follow(r)
  /\ UNCHANGED <<file, mode, backup, reconstructed, parsed>>

ReadHybrid ==
  /\ pc = "stm"
  /\ LET r == ReadXrefStm(Table, off) IN SetTable(r.t) /\ TakeTrailer(r) /\ Follow(r)
  /\ UNCHANGED <<file, mode, backup, reconstructed, parsed>>

MaxObj == Max({og[1] : og \in DOMAIN xref} \cup deleted \cup {0})
Size == IF trailer[1] = "section" THEN file.sections[trailer[2]].size ELSE 0

(* When /Size is off by one the object above the highest is looked at, in  *)
(* case it is the cross-reference stream; nothing else is known of it, so  *)
(* that it is a null in the cache from then on.                            *)
CacheAboveMax ==
  LET og == <<MaxObj + 1, 0>> IN
  IF Size = MaxObj + 2 /\ ~parsed /\ og \notin DOMAIN cached
  THEN With(cached, og, "null") ELSE cached

(* Only the highest generation of an object stays.                         *)
Highest == {og \in DOMAIN xref :
              \A h \in DOMAIN xref : h[1] = og[1] => h[2] <= og[2]}

FinishReading ==
  /\ pc = "read" /\ off = 0
  /\ xref' = Restrict(xref, Highest)
  /\ cached' = Restrict(CacheAboveMax,
                        DOMAIN CacheAboveMax \ (DOMAIN xref \ Highest))
  /\ deleted' = {}
  /\ \/ /\ mode \in {"first", "resumed"}   \* does the catalog have /Pages?
        /\ pc' \in {"ready", "failed"}
        /\ parsed' = TRUE
        /\ UNCHANGED reconstructed
     \/ /\ mode = "retry"
        /\ pc' = "ready" /\ parsed' = TRUE /\ reconstructed' = FALSE
     \/ /\ mode \in {"retry", "streams"}
        /\ pc' = ThrowTo
        /\ UNCHANGED <<parsed, reconstructed>>
  /\ UNCHANGED <<file, mode, off, visited, trailer, backup>>

-----------------------------------------------------------------------------
(* reconstruct_xref                                                        *)

(* The plain entries go; what object streams hold cannot be found by       *)
(* looking through the file, so the packed entries stay.                   *)
NotPlain == {og \in DOMAIN xref : xref[og].kind # "plain"}

(* Every "n n obj" of the file, from the last to the first, is entered in  *)
(* a table, as if it were the oldest.                                      *)
Found_Forward ==   \* slip: from the first to the last
  [k \in DOMAIN file.objects |->
     [id |-> file.objects[k].id, gen |-> file.objects[k].gen,
      kind |-> "plain", at |-> k]]
Found ==
  Reverse([k \in DOMAIN file.objects |->
             [id |-> file.objects[k].id, gen |-> file.objects[k].gen,
              kind |-> "plain", at |-> k]])

WithFound(x) == InsertAll([Table EXCEPT !.xref = x], Found).xref

(* An object that cannot be read as the table says makes readObjectAtOffset *)
(* give up the table, once.                                                *)
CanBeDamaged ==
  ~reconstructed /\ \E og \in DOMAIN xref : xref[og].kind = "plain" /\ xref[og].at # 0

Damaged ==
  /\ pc = "ready" /\ CanBeDamaged
  /\ pc' = "reconstruct"
  /\ UNCHANGED <<file, mode, off, visited, xref, deleted, trailer, cached,
                 backup, reconstructed, parsed>>

(* It may be one that the dictionary of a section refers to, as /Length of *)
(* a cross-reference stream.  Then there is a trailer and reconstruct_xref *)
(* runs through; read_xref goes on with its table and the older sections,  *)
(* unless it cannot do without that object.                                *)
DamagedReading ==
  /\ pc \in {"read", "stm"} /\ CanBeDamaged
  /\ reconstructed' = TRUE /\ mode' = "resumed"
  /\ xref' = WithFound(Restrict(xref, NotPlain)) /\ deleted' = {}
  /\ pc' \in {pc, "failed"} /\ parsed' \in BOOLEAN
  /\ UNCHANGED <<file, off, visited, trailer, cached, backup>>

Reconstruct ==
  /\ pc = "reconstruct"
  /\ reconstructed' = TRUE
  /\ xref' = Restrict(xref, NotPlain)
  /\ IF file.start = 0 /\ ~parsed /\ file.late # 0 /\ file.objects # <<>>
     THEN StartReading(file.late, "retry") /\ backup' = xref'
     ELSE /\ pc' = "recover" /\ mode' = "first"
          /\ UNCHANGED <<backup, off, visited>>
  /\ UNCHANGED <<file, deleted, trailer, cached, parsed>>

(* The objects found are entered in the table that was left, or that was   *)
(* set aside before the attempt to read from the late startxref.           *)
Base == IF mode = "retry" THEN backup ELSE xref
RecoveredTable == WithFound(Base)

(* The words "trailer" are collected only while there is no trailer; the   *)
(* last one that is followed by a dictionary with a /Root is taken.        *)
RootTrailers ==
  {k \in DOMAIN file.trailers :
     file.trailers[k] = "root" /\ (trailer = NoTrailer \/ mode = "retry")}

(* The cross-reference streams in a table.  They are looked at by id; one  *)
(* that has no /Size counts only if it is further on than the last that    *)
(* did: max_size stays 0.                                                  *)
XrefStreams(x) ==
  {og \in DOMAIN x : /\ x[og].kind = "plain"
                     /\ og \in DOMAIN cached => cached[og] # "null"
                     /\ file.objects[x[og].at].xref # 0}

SectionOf(e) == file.objects[e.at].xref
Before(g, h) == g[1] < h[1] \/ (g[1] = h[1] /\ g[2] < h[2])
IsFirst(x, og) == \A h \in XrefStreams(x) \ {og} : Before(og, h)
IsTaken(x, og) ==
  LET sized == {h \in XrefStreams(x) : file.sections[SectionOf(x[h])].size > 0}
      rest == {h \in XrefStreams(x) : \A g \in sized : g = h \/ Before(g, h)}
  IN og \in rest /\ \A h \in rest : x[h].at <= x[og].at

(* The dictionary of the first becomes the trailer, and the chain of the   *)
(* last that counts is read.                                               *)
Recover ==
  /\ pc = "recover"
  /\ xref' = RecoveredTable
  /\ deleted' = {}
  /\ IF RootTrailers # {}
     THEN /\ trailer' = <<"found", Max(RootTrailers)>>
          /\ pc' = "conclude" /\ UNCHANGED <<mode, off, visited>>
     ELSE IF trailer = NoTrailer /\ XrefStreams(RecoveredTable) # {}
     THEN \E first, last \in XrefStreams(RecoveredTable) :
            /\ IsFirst(RecoveredTable, first) /\ IsTaken(RecoveredTable, last)
            /\ trailer' = <<"section", SectionOf(RecoveredTable[first])>>
            /\ StartReading(SectionOf(RecoveredTable[last]), "streams")
     ELSE pc' = "conclude" /\ UNCHANGED <<trailer, mode, off, visited>>
  /\ UNCHANGED <<file, cached, backup, reconstructed, parsed>>

(* Without a trailer a catalog is looked for among the objects read so     *)
(* far.  An exception ends parse, but not a document that is in use.       *)
Conclude ==
  /\ pc = "conclude"
  /\ trailer' \in IF trailer = NoTrailer THEN {NoTrailer, <<"made">>} ELSE {trailer}
  /\ IF parsed THEN pc' = "ready"
     ELSE IF trailer' = NoTrailer \/ DOMAIN xref = {} THEN pc' = "failed"
     ELSE pc' \in {"ready", "failed"}   \* are there any pages?
  /\ parsed' = (pc' = "ready")
  /\ UNCHANGED <<file, mode, off, visited, xref, deleted, cached, backup, reconstructed>>

Work ==
  Parse \/ ReadXref \/ ReadHybrid \/ FinishReading \/ Reconstruct \/ Recover \/ Conclude
Next == Work \/ Damaged \/ DamagedReading

(* The program runs what it has begun; nothing makes an object damaged.    *)
Spec == Init /\ [][Next]_vars /\ WF_vars(Work)

-----------------------------------------------------------------------------
(* The sections of the file in the order in which they count.              *)
Start == IF file.start = 0 THEN file.late ELSE file.start
InChain[n \in Nat] ==
  IF n = 0 THEN Start
  ELSE LET k == InChain[n - 1]
       IN IF k \in DOMAIN file.sections THEN file.sections[k].prev ELSE 0

EntriesAt(n, s) ==
  LET k == InChain[n] IN
  IF k \notin DOMAIN file.sections THEN <<>>
  ELSE IF s = 0 THEN file.sections[k].entries
  ELSE IF StmOf(k) # 0 THEN file.sections[StmOf(k)].entries ELSE <<>>

(* A mention of an object is an entry, by its section, whether it is in    *)
(* the section itself, 0, or in its /XRefStm, 1, and its place there.      *)
At(p) == EntriesAt(p[1], p[2])[p[3]]
Id(p) == At(p).id
Live(p) == At(p).kind # "free"
Gen(p) == Key(At(p))[2]

Mentions ==
  {p \in UNION {{<<n, s, i>> : i \in DOMAIN EntriesAt(n, s)} :
                  n \in 0..(Len(file.sections) - 1), s \in {0, 1}} :
     IF Live(p) THEN IsValid(At(p)) ELSE Id(p) \in 1..MaxId}

(* An older section does not count for an object that a newer one has, and *)
(* a table does not for one that its /XRefStm has.                         *)
Newer(p, q) ==
  \/ p[1] < q[1]
  \/ p[1] = q[1] /\ p[2] > q[2]
  \/ p[1] = q[1] /\ p[2] = q[2] /\ p[3] < q[3]

(* A file that numbers the generations of an object upwards.               *)
GenerationsGrow ==
  \A p, q \in Mentions :
    Live(p) /\ Live(q) /\ Id(p) = Id(q) /\ Newer(p, q) => Gen(p) >= Gen(q)

(* The table that the file defines: an object is what the newest section   *)
(* that mentions it says, and is not there if that says it is free.        *)
IsNewest(p) == \A q \in Mentions \ {p} : Id(q) = Id(p) => Newer(p, q)
Newest ==
  LET live == {p \in Mentions : IsNewest(p) /\ Live(p)}
  IN [og \in {Key(At(p)) : p \in live} |-> At(CHOOSE p \in live : Key(At(p)) = og)]

(* The objects of which the newest section that mentions them speaks in    *)
(* both its table and its /XRefStm.  There the code does not do what the   *)
(* manual asks for: the table, read first, stays.                          *)
Disputed ==
  {i \in 1..MaxId : \E p, q \in Mentions :
     /\ Id(p) = i /\ Id(q) = i
     /\ p[1] = q[1] /\ p[2] = 0 /\ q[2] = 1
     /\ \A r \in Mentions : Id(r) = i => p[1] <= r[1]}

Undisputed(x) == Restrict(x, {og \in DOMAIN x : og[1] \notin Disputed})

NewestWins ==
  pc = "ready" /\ ~reconstructed /\ GenerationsGrow =>
    Undisputed(xref) = Undisputed(Newest)

(* Once a table has been read, an object has one generation in it.         *)
OneGeneration ==
  pc = "ready" /\ ~reconstructed =>
    \A g, h \in DOMAIN xref : g[1] = h[1] => g = h

TableIsNewest == NewestWins /\ OneGeneration

(* After recovery, what the table says of a plain object is that it is     *)
(* where the file has it, and where the file has it last; unless it comes  *)
(* from a section read after recovery: an older one, after a recovery in   *)
(* the middle, or a table to which the chain of a cross-reference stream   *)
(* has led.  Those add only objects that the file does not have, or that   *)
(* some section says are free.                                             *)
Og(o) == <<o.id, o.gen>>
Said == UNION {Range(file.sections[n].entries) : n \in DOMAIN file.sections}
Tabled ==
  LET tables == {n \in DOMAIN file.sections : file.sections[n].kind = "table"}
      all == (tables \cup {file.sections[n].stm : n \in tables}) \ {0}
  IN UNION {Range(file.sections[n].entries) : n \in all}

IsThere(og, e) ==
  /\ e.at \in DOMAIN file.objects
  /\ Og(file.objects[e.at]) = og
  /\ \A k \in DOMAIN file.objects : Og(file.objects[k]) = og => k <= e.at

Stale(og, e) ==
  /\ e \in Said
  /\ \/ \A k \in DOMAIN file.objects : Og(file.objects[k]) # og
     \/ \E f \in Said : f.kind = "free" /\ f.id = og[1]

RecoveredAreThere ==
  pc = "ready" /\ reconstructed =>
    \A og \in DOMAIN xref : xref[og].kind = "plain" =>
      \/ IsThere(og, xref[og])
      \/ /\ mode \in {"streams", "resumed"} /\ Stale(og, xref[og])
         /\ mode = "streams" => xref[og] \in Tabled

(* After recovery no object of the file is missing from the table, if the  *)
(* file has one generation of it and no section says that it is free.      *)
Plainly(o) ==
  /\ o.id \in 1..MaxId /\ o.gen = 0
  /\ \A j \in DOMAIN file.objects : file.objects[j].id = o.id => file.objects[j].gen = 0
  /\ \A n \in DOMAIN file.sections : \A e \in Range(file.sections[n].entries) :
       e.id = o.id => e.kind # "free" /\ e.gen = 0

NothingLost ==
  pc = "ready" /\ reconstructed =>
    \A k \in DOMAIN file.objects :
      Plainly(file.objects[k]) => Og(file.objects[k]) \in DOMAIN xref

RecoveryFinds == RecoveredAreThere /\ NothingLost

(* Opening a file ends, and so does everything that damage leads to,       *)
(* whatever /Prev and startxref say.                                       *)
Settles == <>[](pc \in {"ready", "failed"})
=============================================================================
