------------------------------ MODULE MCNNTree -----------------------------
(***************************************************************************)
(* Trees for checking NNTree: grown by ascending insertion, as documents   *)
(* are built, thinned by removals, and damaged.                            *)
(***************************************************************************)
EXTENDS NNTree

Grown(n) == FoldLeft(Put, <<Empty>>, [i \in 1..n |-> <<2 * i, 1>>])
Thinned(n, keys) ==
  LET drop(t, k) == RemoveItem(t, FindInternal(t, k, FALSE).it).tree
  IN FoldLeft(drop, Grown(n), keys)

(* Up to four levels; and leaves with one item each.                       *)
MCSound == {Grown(n) : n \in {0, 3, 17}} \cup {Thinned(5, <<4, 10, 8>>), Thinned(9, <<4, 8, 10, 14, 18>>)}

(* Grown(5) is a root with nodes 2, of the keys 2 and 4, and 3, of 6, 8    *)
(* and 10; what is damaged is a limit, a key, a value, what a node has or  *)
(* an array that ends with a key.                                          *)
Five == Grown(5)
MCBroken ==
  {[Five EXCEPT ![2].limits = l] : l \in {<<>>, <<Bad, 4>>, <<2, 6>>}}
    \cup {[Five EXCEPT ![1].kids = s] : s \in {<<3, 2>>, <<2, Nil, 3>>, <<2, 1, 3>>, <<2, 3, 2>>}}
    \cup {[Five EXCEPT ![2] = Node("none", <<>>, <<>>, <<2, 4>>)], [Five EXCEPT ![3].items = <<>>],
          [Five EXCEPT ![2].items[1] = Bad], [Five EXCEPT ![3].items[3] = Bad],
          [Five EXCEPT ![2].items[2] = Bad], [Five EXCEPT ![3].items[4] = Bad],
          [Five EXCEPT ![2].items = <<2, 1, 4>>], [Five EXCEPT ![3].items = <<6, 1, 8, 1, 10>>],
          [Five EXCEPT ![3].items = <<8, 1, 6, 1, 4, 2>>],
          [Grown(0) EXCEPT ![1].has = "none"], [Grown(0) EXCEPT ![1].items = <<2>>]}
MCKeys == {1, 4, 9, 36}
=============================================================================
