------------------------------ MODULE MCWriter ------------------------------
(* Documents: 1 is the catalog, 2 the page tree, 3, 4 and 5 are pages, 7    *)
(* the information dictionary, 9 an object stream, the others what pages   *)
(* and keys of the catalog use.                                            *)
EXTENDS Linearizer

MCObjs == 1..17
Over(f, x) == [o \in MCObjs |-> IF o \in DOMAIN f THEN f[o] ELSE x]
Keys0 == [pages |-> {2}, outlines |-> {}, open |-> {}, names |-> {}]

MCDoc(table, refs, pages, streams, S) ==
  [table |-> 1..table, refs |-> Over(refs, <<>>), trailer |-> <<1, 7>>, streams |-> streams,
   xrefs |-> {}, stored |-> [o \in MCObjs |-> IF o \in S THEN 9 ELSE None],
   fixed |-> {}, pages |-> pages, encrypted |-> FALSE,
   parent |-> [o \in MCObjs |-> IF \E i \in DOMAIN pages : pages[i] = o THEN 2 ELSE None],
   thumb |-> Over(<<>>, None), keys |-> Keys0,
   info |-> {7}, encrypt |-> {}, outlines |-> None, useOutlines |-> FALSE,
   size |-> Over(<<60, 60, 80, 80, 80, 300, 50>>, 100)]

(* Pages 3 and 4 with 6 for both and streams 8 and 10 for one of them; 11  *)
(* is not in use and refers to x.  With a large 6, the hint stream moves    *)
(* the end of the file beyond 64K.                                         *)
Pair(x, S) ==
  MCDoc(13, <<<<2>>, <<3, 4>>, <<2, 6, 8>>, <<2, 6, 10>>, <<>>, <<5>>, <<>>, <<12>>, <<>>, <<6>>, <<12, x>>>>,
        <<3, 4>>, {8, 9, 10}, S)

(* An object stream that extends another.                                  *)
Extending ==
  [Pair(12, {2, 6}) EXCEPT !.refs[9] = <<13>>, !.stored[7] = 13, !.streams = @ \cup {13}]

TwoPages ==
  {[Pair(12, S) EXCEPT !.encrypted = e] :
     S \in {{}, {1, 2, 7}, {2, 4, 5, 6, 11}, {7, 8}}, e \in BOOLEAN}
    \cup {[Pair(12, S) EXCEPT !.size[6] = 64400] : S \in {{}, {2, 7}}}
    \cup {Extending}

(* Three pages with outlines 8 and 11, thumbnails and shared objects.      *)
ThreePages ==
  {[MCDoc(13, <<<<2, 8, 12>>, <<3, 4, 5>>, <<2, 6, 10>>, <<2, 6>>, <<2, 6, 11, 13>>, <<>>, <<>>, <<3, 11>>, <<>>, <<7>>, <<8>>, <<6, 10>>>>,
         <<3, 4, 5>>, {9, 10}, S)
     EXCEPT !.outlines = 8, !.keys = [Keys0 EXCEPT !.outlines = {8}, ![k] = @ \cup {12}],
            !.useOutlines = b] :
     S \in {{}, {6, 8, 11}}, b \in BOOLEAN, k \in {"open", "names"}}

(* Thumbnails 8, 10 and one that is also used by a page; an old            *)
(* cross-reference stream.                                                 *)
Thumbs ==
  {[MCDoc(12, <<<<2>>, <<3, 4>>, <<2, 8, 11>>, <<2, 10, 6>>, <<>>, <<>>, <<>>, <<6>>, <<>>, t, <<>>, <<>>>>,
         <<3, 4>>, {8, 10, 12}, {})
     EXCEPT !.thumb = Over([o \in {3, 4} |-> IF o = 3 THEN 8 ELSE 10], None), !.xrefs = {12}] :
     t \in {<<>>, <<6>>, <<8>>, <<11>>}}

(* 13 is not in use, but referred to by an object that is preserved.       *)
UnrefDocs == {Pair(13, {2, 4, 5, 6, 11})}

MCDocs == TwoPages \cup ThreePages \cup Thumbs
=============================================================================
