--------------------------- MODULE MCForeignCopy ---------------------------
(* All foreign documents of three objects that refer to at most two each,  *)
(* up to renaming.                                                         *)
EXTENDS ForeignCopy

MCObjs == 1..3
Rank == [plain |-> 1, page |-> 2, pages |-> 3, reserved |-> 4]
MCGraphs ==
  [kind : {k \in [MCObjs -> Kinds] : Rank[k[1]] <= Rank[k[2]] /\ Rank[k[2]] <= Rank[k[3]]},
   refs : [MCObjs -> {S \in SUBSET MCObjs : Cardinality(S) <= 2}]]
=============================================================================
