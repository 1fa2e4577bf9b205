--------------------------- MODULE MCPagesTree ---------------------------
(* Small documents for PagesTree: pages 1 and 2, tree nodes -11 (the root) *)
(* and -12, attribute values 7 and 8.                                      *)
EXTENDS PagesTree

Root == -11
Mid == -12
MCNodes == {Root, Mid}

Count(s) == Len(SelectSeq(s, LAMBDA x : x \in Pages \cup {Direct}))

Doc(top, rootKids, midKids, rootAttr, midAttr, pageAttr, more, recovered) ==
  LET n == Count(midKids) IN
  [top |-> top,
   kids |-> (Root :> rootKids) @@ (Mid :> midKids),
   parent |-> [x \in MCNodes \cup 1..2 |-> IF x \notin {1, 2, Mid} THEN None ELSE
                                            IF x = 1 THEN Mid ELSE Root],
   attr |-> [x \in MCNodes \cup 1..2 |->
               CASE x = Root -> rootAttr [] x = Mid -> midAttr
                 [] x = 1 -> pageAttr [] OTHER -> None],
   count |-> (Root :> Count(rootKids) + (IF Mid \in ToSet(rootKids) THEN n ELSE 0) + more)
               @@ (Mid :> n),
   all |-> <<>>, pos |-> NoMap, invalid |-> FALSE, pushed |-> FALSE,
   made |-> 2, exc |-> "none", recovered |-> recovered,
   visited |-> {}, seen |-> {}]

(* Trees that a file may have: the root not where the catalog says, a page *)
(* that is listed twice, a page that is not an object, a loop.             *)
SoundTrees ==
  {<<Root, <<Mid, 2>>, <<1>>>>, <<Mid, <<2, Mid>>, <<1>>>>, <<1, <<Mid, 2>>, <<1>>>>,
   <<Root, <<2, Mid, 2>>, <<1>>>>, <<Root, <<Mid, 1>>, <<1, 2>>>>,
   <<Root, <<Direct, Mid>>, <<1>>>>, <<Root, <<2, Mid>>, <<1, Root>>>>, <<Root, <<Mid, Root>>, <<1>>>>,
   <<Root, <<>>, <<>>>>}
MCSound ==
  {Doc(t[1], t[2], t[3], a[1], a[2], a[3], 0, FALSE) :
     t \in SoundTrees, a \in {<<7, None, None>>, <<7, 8, None>>, <<None, 8, 7>>}}

(* Trees with an entry that is no dictionary.  With more than 0 /Count     *)
(* counts it, with less than 0 it counts too few pages, which recovery can *)
(* do with, as it leaves out pages too.                                    *)
MCJunk ==
  {Doc(t[1], t[2], t[3], 7, 8, None, m[1], m[2]) :
     t \in {<<Root, <<Junk, Mid>>, <<1, 2>>>>, <<Root, <<Mid, 2>>, <<1, Junk, 1>>>>},
     m \in {<<-1, TRUE>>} \cup {0, 1, 2} \X BOOLEAN}

MCDocuments == MCSound \cup MCJunk
=============================================================================
