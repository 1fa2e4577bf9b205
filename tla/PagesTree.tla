----------------------------- MODULE PagesTree -----------------------------
(***************************************************************************)
(* The pages of a QPDF document (libqpdf/QPDF_pages.cc): the /Pages tree   *)
(* of the file, the vector all_pages that programs hold a reference to,    *)
(* and the map pageobj_to_pages_pos, which is kept from the first call     *)
(* that changes pages on, when the tree is flattened.                      *)
(*                                                                         *)
(* The state of the document is one record, doc, and what a method of      *)
(* Pages does to it an operator on such records, so that the methods call  *)
(* each other as they do in the code; doc.exc is the exception in flight,  *)
(* "none" if there is none.  One call of the API is one step, but for the  *)
(* traversal of the tree, which looks at one entry of /Kids in a step.     *)
(*                                                                         *)
(* Objects are tree nodes, the members of Nodes, and pages, which are      *)
(* numbered from 1.  One inheritable attribute stands for the four;        *)
(* MediaBox, Resources and Annots repairs are left out, except that pages  *)
(* in Faulty have so many errors that recovery gives up on them.           *)
(***************************************************************************)
EXTENDS Integers, FiniteSets, SequencesExt

CONSTANTS
  Nodes,          \* dictionaries with /Kids
  MaxPage,        \* bound: no call begins with more pages
  Faulty,         \* pages with more than two errors
  MaxLevel,       \* depth at which a tree is given up, 100
  Documents       \* the initial documents

None == 0         \* no parent, no attribute
Junk == -1        \* an entry of /Kids that is no dictionary
Direct == -2      \* an entry of /Kids that is a page but not indirect
Pages == Nat \ {0}

(* The fields of doc:                                                      *)
(*  top      what /Pages in the catalog is                                 *)
(*  kids     node -> /Kids                                                 *)
(*  parent   node or page -> /Parent                                       *)
(*  attr     node or page -> its own value of the attribute                *)
(*  count    node -> /Count                                                *)
(*  all      all_pages                                                     *)
(*  pos      pageobj_to_pages_pos, counting from 0                         *)
(*  invalid  invalid_page_found                                            *)
(*  pushed   pushed_inherited_attributes_to_pages                          *)
(*  made     the number of pages there are                                 *)
(*  exc      the exception that the last call ended in                     *)
(*  recovered   reconstructed_xref                                         *)
(*  visited, seen   the nodes and pages that cache() has met so far        *)
NoMap == [p \in {} |-> 0]
Objects(d) == Nodes \cup 1..d.made

(* A document that has just been opened, whatever its tree is like.        *)
Opened(d) ==
  /\ d.made \in Nat /\ d.top \in Objects(d)
  /\ d.kids \in [Nodes -> Seq(Objects(d) \cup {Junk, Direct})]
  /\ DOMAIN d.parent = Objects(d) /\ DOMAIN d.attr = Objects(d)
  /\ \A x \in Objects(d) : d.parent[x] \in Objects(d) \cup {None}
  /\ d.count \in [Nodes -> Int]
  /\ d.all = <<>> /\ d.pos = NoMap /\ d.visited = {} /\ d.seen = {} /\ d.exc = "none"
  /\ d.invalid = FALSE /\ d.pushed = FALSE /\ d.recovered \in BOOLEAN
  /\ DOMAIN d = {"top", "kids", "parent", "attr", "count", "all", "pos", "invalid", "pushed",
                 "made", "exc", "recovered", "visited", "seen"}

ASSUME ConstantsAssumption ==
  /\ \A n \in Nodes : n \notin Pages \cup {None, Junk, Direct}
  /\ MaxPage \in Nat /\ MaxLevel \in Nat \ {0} /\ Faulty \subseteq Pages
  /\ \A d \in Documents : Opened(d)

VARIABLES
  doc,   \* the document
  call,  \* the call made last, with its arguments while it is under way
  path   \* the calls of getAllPagesInternal under way, outermost first

vars == <<doc, call, path>>

Init == doc \in Documents /\ call = <<"open">> /\ path = <<>>

Throw(d, e) == [d EXCEPT !.exc = e]
Fails(d) == d.exc # "none"
Then(d, Op(_)) == IF Fails(d) THEN d ELSE Op(d)
Put(f, x, v) == [y \in DOMAIN f \cup {x} |-> IF y = x THEN v ELSE f[y]]

-----------------------------------------------------------------------------
(* getAllPagesInternal for one entry of /Kids                              *)

(* A new page object, and one that is a copy of page p.                    *)
NewPage(d, parent, attr) ==
  [d EXCEPT !.made = @ + 1, !.parent = Put(@, d.made + 1, parent), !.attr = Put(@, d.made + 1, attr)]
CopyOf(d, p) == NewPage(d, d.parent[p], d.attr[p])

SetKid(d, n, k, x) == [d EXCEPT !.kids[n][k] = x]
Found(d, p) == [d EXCEPT !.all = Append(@, p), !.seen = @ \cup {p}]
FoundNew(d, n, k) == Found(SetKid(d, n, k, d.made), d.made)
LeftOut(d, n, k) == [SetKid(d, n, k, Junk) EXCEPT !.invalid = TRUE]

(* One leaf of the tree, the kth entry of node n.                          *)
Leaf_DropDuplicate(d, n, k) ==   \* slip: it is left out as in recovery
  LET p == d.kids[n][k] IN
  CASE p = Direct -> FoundNew(NewPage(d, None, None), n, k)
    [] p = Junk \/ p \in d.seen -> LeftOut(d, n, k)
    [] OTHER -> Found(d, p)
Leaf(d, n, k) ==
  LET p == d.kids[n][k] IN
  CASE p = Junk -> [d EXCEPT !.invalid = TRUE]
    [] p = Direct -> FoundNew(NewPage(d, None, None), n, k)
    [] p \in d.seen /\ ~d.recovered -> FoundNew(CopyOf(d, p), n, k)
    [] d.recovered /\ p \in d.seen \cup Faulty -> [LeftOut(d, n, k) EXCEPT !.seen = @ \cup {p}]
    [] p \in Pages /\ p \notin d.seen /\ ~(d.recovered /\ p \in Faulty) -> Found(d, p)

-----------------------------------------------------------------------------
(* pushInheritedAttributesToPageInternal, on a tree that cache() has been  *)
(* through: every node is met once.                                        *)

TreeNodes(d) ==
  LET f[l \in Nat] ==
        IF l = 0 THEN {d.top} ELSE f[l - 1] \cup (UNION {ToSet(d.kids[n]) : n \in f[l - 1]} \cap Nodes)
  IN f[MaxLevel]
Holds(d, n, x) == n \in TreeNodes(d) /\ x \in ToSet(d.kids[n])
Holder(d, x) == CHOOSE n \in TreeNodes(d) : Holds(d, n, x)

(* What there is for the kids of node n: its own value, or that of the     *)
(* nearest of the nodes above it.                                          *)
Own_Farthest(d, n, value) == IF value = None THEN d.attr[n] ELSE value   \* slip
Own(d, n, value) == IF d.attr[n] = None THEN value ELSE d.attr[n]
Handed(d, node) ==
  LET f[l \in Nat] ==
        [n \in TreeNodes(d) |-> Own(d, n, IF n = d.top \/ l = 0 THEN None ELSE f[l - 1][Holder(d, n)])]
  IN f[MaxLevel][node]

Pushed(d) ==
  [x \in DOMAIN d.attr |->
     CASE x \in TreeNodes(d) -> None
       [] x \in Pages /\ d.attr[x] = None /\ (\E n \in TreeNodes(d) : Holds(d, n, x))
            -> Handed(d, Holder(d, x))
       [] OTHER -> d.attr[x]]

(* pushInheritedAttributesToPage once the pages are cached.  The flag is   *)
(* not looked at when the tree is about to be flattened.                   *)
PushCached(d, always) ==
  IF d.pushed /\ ~always THEN d ELSE [d EXCEPT !.attr = Pushed(d), !.pushed = TRUE]

(* flattenPagesTree once the pages are cached: page by page each gets its  *)
(* position and the root for its parent, up to one that is in the map; an  *)
(* exception for /Count comes after /Kids has been replaced.               *)
Positions(d, s) ==
  [p \in DOMAIN d.pos \cup ToSet(s) |->
     IF p \in DOMAIN d.pos THEN d.pos[p] ELSE (CHOOSE k \in DOMAIN s : s[k] = p) - 1]
Adopted(d, s) ==
  [x \in DOMAIN d.parent |-> IF x \in ToSet(s) THEN d.top ELSE d.parent[x]]
Enter(d, s) == [d EXCEPT !.pos = Positions(d, s), !.parent = Adopted(d, s)]

Counted(d) ==
  LET n == Len(d.all) IN
  IF d.count[d.top] > n /\ d.invalid THEN [d EXCEPT !.count[d.top] = n]
  ELSE IF d.count[d.top] # n THEN Throw(d, "count")
  ELSE d
FlattenPushed(d) ==
  LET s == d.all
      twice == {k \in DOMAIN s : s[k] \in DOMAIN d.pos \cup ToSet(SubSeq(s, 1, k - 1))}
  IN IF twice # {}
     THEN Throw(Enter(d, SubSeq(s, 1, Min(twice) - 1)), "duplicate")
     ELSE Counted([Enter(d, s) EXCEPT !.kids[d.top] = s])
FlattenCached(d) == FlattenPushed(PushCached(d, TRUE))

(* What cache() does when it has been through the tree.  An entry that had *)
(* to be left out makes it flatten the tree at once.                       *)
CacheFound(d) ==
  Then(IF d.invalid /\ d.pos = NoMap THEN FlattenCached(d) ELSE d,
       LAMBDA e : [e EXCEPT !.invalid = FALSE])

-----------------------------------------------------------------------------
(* insert and erase, on a flat tree                                        *)

(* The positions from k on are entered again, for all_pages as it is now.  *)
Renumbered(d, k) ==
  [p \in DOMAIN d.pos |-> IF \E j \in (k + 1)..Len(d.all) : d.all[j] = p
                          THEN (CHOOSE j \in (k + 1)..Len(d.all) : d.all[j] = p) - 1
                          ELSE d.pos[p]]

(* insert at position i, counting from 0; the range is checked after a     *)
(* page has been made indirect, which is not undone.  x is a page, or      *)
(* Direct for one that is not an object of the document yet.               *)
Inserted(d, p, i) ==
  LET e == [d EXCEPT !.parent[p] = d.top,
                     !.kids[d.top] = InsertAt(@, i + 1, p),
                     !.count[d.top] = Len(d.kids[d.top]) + 1,
                     !.all = InsertAt(@, i + 1, p),
                     !.pos = Put(@, p, i)]
  IN [e EXCEPT !.pos = Renumbered(e, i + 1)]
InsertObject(d, p, i) ==
  IF i < 0 \/ i > Len(d.all) THEN Throw(d, "range")
  ELSE IF p \in DOMAIN d.pos THEN Inserted(CopyOf(d, p), d.made + 1, i)
  ELSE Inserted(d, p, i)
InsertPage(d, x, i) ==
  IF x = Direct THEN InsertObject(NewPage(d, None, None), d.made + 1, i)
  ELSE InsertObject(d, x, i)

ErasePage(d, p) ==
  LET k == d.pos[p] + 1
      e == [d EXCEPT !.kids[d.top] = RemoveAt(@, k),
                     !.count[d.top] = Len(d.kids[d.top]) - 1,
                     !.all = RemoveAt(@, k),
                     !.pos = Restrict(@, DOMAIN @ \ {p})]
  IN [e EXCEPT !.pos = Renumbered(e, k - 1)]

-----------------------------------------------------------------------------
(* The calls.  Each clears the exception of the one before.                *)
Start == [doc EXCEPT !.exc = "none"]
Bounded == path = <<>> /\ doc.made <= MaxPage

(* What is left to do in a call when the pages are cached.                 *)
Known(d, p, Op(_)) == IF p \in DOMAIN d.pos THEN Op(d) ELSE Throw(d, "unknown")
OnFlat(c, d) ==
  CASE c[1] = "insert" -> InsertPage(d, c[2], c[3])
    [] c[1] = "find" -> Known(d, c[2], LAMBDA e : e)
    [] c[1] = "erase" -> Known(d, c[2], LAMBDA e : ErasePage(e, c[2]))
OnCached(c, d) ==
  CASE c[1] \in {"get", "update", "edit"} -> d
    [] c[1] = "push" -> PushCached(d, FALSE)
    [] c[1] \in {"insert", "find", "erase"} -> Then(FlattenCached(d), LAMBDA e : OnFlat(c, e))
Return(c, d) ==
  doc' = [d EXCEPT !.visited = {}, !.seen = {}] /\ call' = <<c[1]>> /\ path' = <<>>

(* /Pages of the catalog may name a node that is not the root, or a page.  *)
Climb(d) ==
  LET up[k \in Nat] == IF k = 0 THEN d.top ELSE d.parent[up[k - 1]]
      Ends(k) == d.parent[up[k]] = None \/ \E j \in 0..(k - 1) : up[j] = up[k]
  IN up[CHOOSE k \in 0..(Cardinality(Nodes) + d.made) : Ends(k) /\ \A j \in 0..(k - 1) : ~Ends(j)]

(* cache(): what it finds stays until all_pages is cleared.                *)
Frame(n) == [node |-> n, next |-> 1]
ReadTree(c, d) ==
  IF d.top \notin Nodes THEN Return(c, Throw(d, "no kids"))
  ELSE /\ doc' = [d EXCEPT !.visited = {d.top}]
       /\ call' = c /\ path' = <<Frame(d.top)>>
Cache(c, d) ==
  IF d.all # <<>> \/ d.invalid THEN Return(c, OnCached(c, d))
  ELSE ReadTree(c, [d EXCEPT !.top = Climb(d)])

Flatten(c, d) == IF d.pos # NoMap THEN Return(c, OnFlat(c, d)) ELSE Cache(c, d)

GetAllPages == Bounded /\ Cache(<<"get">>, Start)

Cleared_KeepMap(d) ==   \* slip: the map is not cleared
  [d EXCEPT !.all = <<>>, !.pushed = FALSE]
Cleared(d) == [d EXCEPT !.all = <<>>, !.pos = NoMap, !.pushed = FALSE]
UpdateCache == Bounded /\ Cache(<<"update">>, Cleared(Start))

PushInherited ==
  /\ Bounded
  /\ IF doc.pushed THEN Return(<<"push">>, Start) ELSE Cache(<<"push">>, Start)

Insert(x, i) == Bounded /\ Flatten(<<"insert", x, i>>, Start)

(* addPage at the end: the end is what /Count said before the call.        *)
AddPage(x) == Insert(x, IF doc.top \in Nodes THEN doc.count[doc.top] ELSE 0)

Find(p) == Bounded /\ Flatten(<<"find", p>>, Start)

Erase(p) == Bounded /\ Flatten(<<"erase", p>>, Start)

(* A program that changes /Kids itself and then calls updateAllPagesCache. *)
EditAndUpdate ==
  /\ Bounded /\ doc.top \in Nodes
  /\ doc.kids[doc.top] # <<>> /\ Head(doc.kids[doc.top]) \in Pages
  /\ Cache(<<"edit">>, Cleared([Start EXCEPT !.kids[doc.top] = Tail(@), !.count[doc.top] = @ - 1]))

-----------------------------------------------------------------------------
(* getAllPagesInternal: each call goes through the /Kids of its node.  A   *)
(* node that is met a second time is taken for a loop.                     *)
At == Last(path)
Kids == doc.kids[At.node]
Kid == Kids[At.next]
Looking == path # <<>> /\ At.next <= Len(Kids)
Advanced == Append(Front(path), [At EXCEPT !.next = @ + 1])
GiveUp(e) == Return(call, Throw([doc EXCEPT !.all = <<>>, !.invalid = FALSE], e))

VisitPage ==
  /\ Looking /\ Kid \notin Nodes
  /\ doc' = Leaf(doc, At.node, At.next)
  /\ path' = Advanced
  /\ UNCHANGED call

VisitNode ==
  /\ Looking /\ Kid \in Nodes
  /\ IF Len(path) = MaxLevel THEN GiveUp("too deep")
     ELSE IF Kid \in doc.visited THEN GiveUp("loop")
     ELSE /\ doc' = [doc EXCEPT !.visited = @ \cup {Kid}]
          /\ path' = Append(Advanced, Frame(Kid))
          /\ UNCHANGED call

NodeDone ==
  /\ Len(path) > 1 /\ ~Looking
  /\ path' = Front(path)
  /\ UNCHANGED <<doc, call>>

TreeDone ==
  /\ Len(path) = 1 /\ ~Looking
  /\ Return(call, Then(CacheFound(doc), LAMBDA d : OnCached(call, d)))

Next ==
  \/ GetAllPages \/ UpdateCache \/ PushInherited \/ EditAndUpdate
  \/ \E x \in (1..doc.made) \cup {Direct} :
       AddPage(x) \/ \E i \in 0..(Len(doc.all) + 1) : Insert(x, i)
  \/ \E p \in 1..doc.made : Find(p) \/ Erase(p)
  \/ VisitPage \/ VisitNode \/ NodeDone \/ TreeDone

Spec == Init /\ [][Next]_vars

-----------------------------------------------------------------------------
(* The pages below a node in order, as deep as trees may be.               *)
Piece(x, below) ==
  IF x \in Nodes THEN below[x] ELSE IF x \in Pages THEN <<x>> ELSE <<>>
Joined(s, below) ==
  LET f[k \in 0..Len(s)] == IF k = 0 THEN <<>> ELSE f[k - 1] \o Piece(s[k], below)
  IN f[Len(s)]
LeavesBelow(d) ==
  LET f[l \in Nat] ==
        IF l = 0 THEN [n \in Nodes |-> <<>>]
        ELSE LET below == f[l - 1] IN [n \in Nodes |-> Joined(d.kids[n], below)]
  IN f[MaxLevel]
Leaves(d) == Piece(Climb(d), LeavesBelow(d))

(* Every page of the tree with a value that it shows, of its own or        *)
(* inherited.                                                              *)
Shown(d) ==
  LET Nearer(pv, n) == <<pv[1], IF pv[2] = None THEN d.attr[n] ELSE pv[2]>>
      f[l \in Nat] ==
        IF l = 0 THEN [n \in Nodes |-> {}]
        ELSE LET below == f[l - 1]
                 Through(x) == IF x \in Nodes THEN below[x] ELSE {<<x, d.attr[x]>>}
                 Kept(n) == {x \in ToSet(d.kids[n]) : x \in Nodes \cup Pages}
             IN [n \in Nodes |-> {Nearer(pv, n) : pv \in UNION {Through(x) : x \in Kept(n)}}]
  IN IF Climb(d) \in Nodes THEN f[MaxLevel][Climb(d)] ELSE {}

(* The vector that programs hold and the map that they do not see agree.   *)
Consistent ==
  doc.pos # NoMap =>
    /\ DOMAIN doc.pos = ToSet(doc.all)
    /\ \A k \in DOMAIN doc.all : doc.pos[doc.all[k]] = k - 1

(* Once there is a map the tree is flat: its root lists the pages of the   *)
(* vector, and each of them has the root for its parent.                   *)
FlatTree ==
  doc.pos # NoMap =>
    /\ doc.kids[doc.top] = doc.all
    /\ \A p \in ToSet(doc.all) : doc.parent[p] = doc.top

(* The vector lists the pages of the tree, each page once, and as soon as  *)
(* there is a map it agrees with both, also when a call has failed.        *)
MapAndTreeAgree ==
  /\ path = <<>> /\ doc.all # <<>> => doc.all = LeavesBelow(doc)[doc.top]
  /\ IsInjective(doc.all) /\ Consistent /\ FlatTree

(* Whatever is done to the tree, a page that was in it shows a value of    *)
(* the attribute that it showed before.                                    *)
AttributesKept ==
  [][\A pv \in Shown(doc') :
       pv[1] \in ToSet(Leaves(doc)) => pv \in Shown(doc)]_vars

(* Pages do not trade places, and only erasing takes pages away.           *)
OrderKept ==
  [][LET old == Leaves(doc)
         new == Leaves(doc')
         Kept(s, t) == SelectSeq(s, LAMBDA p : p \in ToSet(t))
     IN /\ IsInjective(old) => Kept(new, old) = Kept(old, new)
        /\ call'[1] \notin {"erase", "edit"} /\ ~doc.recovered =>
             /\ ToSet(old) \subseteq ToSet(new)
             /\ Len(old) <= Len(new)]_vars
=============================================================================
