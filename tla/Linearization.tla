--------------------------- MODULE Linearization ---------------------------
(***************************************************************************)
(* Which objects go where in a linearized file (libqpdf/                   *)
(* QPDF_linearization.cc: optimize_internal, calculateLinearizationData).  *)
(* The same code prepares the file for the writer and checks a file that   *)
(* has been read; here d is the document and h says which object stream    *)
(* each object is in.                                                      *)
(*                                                                         *)
(* A user is a page, the thumbnail of a page, a key of the trailer or of   *)
(* the catalog, or the catalog itself.                                     *)
(***************************************************************************)
EXTENDS Integers, Sequences, FiniteSets

CONSTANTS Objs, None
VARIABLES d, h

Pages == {d.pages[i] : i \in DOMAIN d.pages}
PageNos == DOMAIN d.pages
Keys == {"pages", "outlines", "open", "names"}   \* open: /OpenAction and the like

(* updateObjectMaps: a walk does not enter another page; from a page it    *)
(* does not go up, and what its thumbnail reaches counts for the thumbnail *)
(* alone, which is visited first.                                          *)
Within(o) ==
  {d.refs[o][i] : i \in DOMAIN d.refs[o]}
    \ (IF o \in Pages THEN {d.parent[o], d.thumb[o]} ELSE {})

Reach(start, avoid) ==
  LET grow[S \in SUBSET Objs] ==
        LET T == S \cup ((UNION {Within(o) : o \in S}) \ avoid) IN
        IF T = S THEN S ELSE grow[T]
  IN grow[start \ avoid]

OfThumb(i) == Reach({d.thumb[d.pages[i]]} \ {None}, Pages)
OfPage(i) == Reach({d.pages[i]}, (Pages \ {d.pages[i]}) \cup OfThumb(i))
OfKey(k) == Reach(d.keys[k], Pages)

(* filterCompressedObjects: who uses an object in an object stream uses    *)
(* the stream.                                                             *)
Holder(o) == IF o # None /\ h[o] # None THEN h[o] ELSE o
Holders(S) == {Holder(o) : o \in S}

(* obj_user_to_objects.                                                    *)
Used ==
  [page |-> [i \in PageNos |-> Holders(OfPage(i))],
   thumb |-> [i \in PageNos |-> Holders(OfThumb(i))],
   key |-> [k \in Keys |-> Holders(OfKey(k))],
   info |-> Holders(Reach(d.info, Pages)),
   encrypt |-> Holders(Reach(d.encrypt, Pages))]

-----------------------------------------------------------------------------
(* calculateLinearizationData.                                             *)
Root == Head(d.trailer)
AllUsed(u) ==
  {Holder(Root)} \cup u.info \cup u.encrypt \cup (UNION {u.key[k] : k \in Keys})
    \cup (UNION {u.page[i] \cup u.thumb[i] : i \in PageNos})

Category(u, o) ==
  LET first == o \in u.page[1]
      others == Cardinality({i \in PageNos \ {1} : o \in u.page[i]})
      thumbs == Cardinality({i \in PageNos : o \in u.thumb[i]})
      document == o \in u.info \cup u.key["pages"] \cup u.key["names"]
  IN CASE o = Holder(Root) -> "root"
       [] o \in u.key["outlines"] -> "outlines"
       [] o \in u.encrypt \cup u.key["open"] -> "open"
       [] first /\ ~document /\ others = 0 /\ thumbs = 0 -> "firstPrivate"
       [] first -> "firstShared"
       [] others = 1 /\ ~document /\ thumbs = 0 -> "otherPrivate"
       [] others > 1 -> "otherShared"
       [] thumbs = 1 /\ ~document -> "thumbPrivate"
       [] thumbs > 1 -> "thumbShared"
       [] OTHER -> "other"

Sorted(S) ==
  [i \in 1..Cardinality(S) |-> CHOOSE o \in S : Cardinality({p \in S : p < o}) = i - 1]

(* The members of S, with o at their head if it is one.                    *)
Leading(o, S) == IF o \in S THEN <<o>> \o Sorted(S \ {o}) ELSE Sorted(S)

Joined(f, n) == LET join[i \in 0..n] == IF i = 0 THEN <<>> ELSE join[i - 1] \o f[i] IN join[n]

OutlinesFirst == d.useOutlines /\ d.outlines # None

(* The parts, each a list of lists: c gives the objects of a category.     *)
PartsOf(u, c) ==
  LET n == Len(d.pages)
      page(i) == Holder(d.pages[i])
      outlines == IF d.outlines = None THEN <<>> ELSE Leading(Holder(d.outlines), c["outlines"])
      tree == u.key["pages"] \cap c["other"]
  IN [p4 |-> Sorted(c["root"]) \o Sorted(c["open"]),
      p6 |-> Leading(page(1), c["firstPrivate"]) \o Sorted(c["firstShared"])
               \o (IF OutlinesFirst THEN outlines ELSE <<>>),
      p7 |-> [i \in 1..(n - 1) |->
                Leading(page(i + 1), c["otherPrivate"] \cap u.page[i + 1])],
      p8 |-> Sorted(c["otherShared"]),
      p9 |-> Sorted(tree)
               \o Joined([i \in PageNos |->
                    Leading(Holder(d.thumb[d.pages[i]]), c["thumbPrivate"] \cap u.thumb[i])], n)
               \o Sorted(c["thumbShared"])
               \o (IF OutlinesFirst THEN <<>> ELSE outlines)
               \o Sorted(c["other"] \ tree)]

Categories == {"root", "outlines", "open", "firstPrivate", "firstShared", "otherPrivate",
               "otherShared", "thumbPrivate", "thumbShared", "other"}

(* What the hint tables say: how many objects belong to each page; which   *)
(* shared objects a page uses; the outlines.                               *)
Users_Once(u, o) ==   \* a slip: pages are one user
  (IF \E i \in PageNos : o \in u.page[i] THEN 1 ELSE 0)
    + Cardinality({k \in Keys : o \in u.key[k]})

Users(u, o) ==
  Cardinality({i \in PageNos : o \in u.page[i]}) + Cardinality({i \in PageNos : o \in u.thumb[i]})
    + Cardinality({k \in Keys : o \in u.key[k]}) + (IF o \in u.info THEN 1 ELSE 0)
    + (IF o \in u.encrypt THEN 1 ELSE 0) + (IF o = Holder(Root) THEN 1 ELSE 0)

Elements(s) == {s[i] : i \in DOMAIN s}

Plan(u) ==
  LET n == Len(d.pages)
      about(c, p) ==
        [parts |-> [p EXCEPT !.p7 = Joined(@, n - 1)],
         counts |-> [i \in PageNos |-> IF i = 1 THEN Len(p.p6) ELSE Len(p.p7[i - 1])],
         shared |-> [i \in PageNos \ {1} |->
                       {o \in u.page[i] : Users(u, o) > 1
                                          /\ o \in Elements(p.p6) \cup Elements(p.p8)}],
         outlines |-> IF d.outlines = None THEN <<>>
                      ELSE Leading(Holder(d.outlines), c["outlines"]),
         ok |-> /\ n > 0 /\ Holder(d.pages[1]) \in c["firstPrivate"]
                /\ \A i \in PageNos \ {1} :
                     Holder(d.pages[i]) \in c["otherPrivate"] \cap u.page[i]
                /\ u.key["pages"] # {}
                /\ Len(p.p4 \o p.p6 \o Joined(p.p7, n - 1) \o p.p8 \o p.p9)
                     = Cardinality(AllUsed(u))]
      of[c \in [Categories -> SUBSET Objs]] == about(c, PartsOf(u, c))
  IN of[[k \in Categories |-> {o \in AllUsed(u) : Category(u, o) = k}]]
=============================================================================
