------------------------------- MODULE NNTree -------------------------------
(***************************************************************************)
(* Name and number trees (NNTree.cc): a balanced tree of dictionaries      *)
(* whose leaves hold the items and whose other nodes hold kids, with the   *)
(* first and the last key below it in the /Limits of every node but the    *)
(* root, and an iterator that keeps the path to its item through every     *)
(* change it makes.  Trees that come from a file may be damaged; a search  *)
(* that fails builds them anew.                                            *)
(*                                                                         *)
(* A tree is a sequence of nodes; the root is node 1, an indirect object.  *)
(* The items of a node are one array of keys and values, which in a        *)
(* damaged file may end with a key.  Sequences begin at 1, so an iterator  *)
(* is on no item when its item is 0.                                       *)
(*                                                                         *)
(* A kid that is a direct object has a number as any other: deepen makes   *)
(* it an indirect object where it goes through it (NNTree.cc:526-539),     *)
(* which remains the same dictionary, so that the tree does not change.    *)
(***************************************************************************)
EXTENDS Integers, Sequences, SequencesExt

CONSTANTS
  Keys,        \* the keys programs use, positive numbers
  Vals,        \* values programs give them, positive numbers
  Threshold,   \* split_threshold: how many items or kids a node may have
  Sound,       \* the trees a program may find that are in order
  Broken,      \* and those that are not
  MaxOps       \* how many calls are made

ASSUME NNTreeAssumption ==
  /\ Keys \cup Vals \subseteq Nat \ {0} /\ Threshold \in Nat /\ Threshold > 2 /\ MaxOps \in Nat
  /\ <<>> \notin Sound \cup Broken

Root == 1
Nil == 0       \* in place of a node: null, or not a dictionary
Bad == 0       \* in place of a key or a value: something that is not valid

Node(has, kids, items, limits) == [has |-> has, kids |-> kids, items |-> items, limits |-> limits]
Empty == Node("items", <<>>, <<>>, <<>>)

IsKey(k) == k # Bad
IsValue(v) == v # Bad
IsValid(item) == IsKey(item[1]) /\ IsValue(item[2])

-----------------------------------------------------------------------------
(* Iterators.                                                              *)

Iter(path, node, item) == [path |-> path, node |-> node, item |-> item]
EndIter == Iter(<<>>, Nil, 0)
Valid(it) == it.item > 0
On(t, it) == <<t[it.node].items[it.item], t[it.node].items[it.item + 1]>>
IsWhole(t, it) == it.item < Len(t[it.node].items) /\ IsValid(On(t, it))

(* Down from node n by first or by last kids to a node with items.  It     *)
(* fails, and the path stays, at a loop or where there is nothing.  An     *)
(* array that ends with a key is read from its last two elements.          *)
RECURSIVE Descend(_, _, _, _)
Descend(t, path, n, first) ==
  IF n = Nil \/ \E e \in ToSet(path) : e.node = n THEN EndIter
  ELSE IF Len(t[n].items) > 1 THEN Iter(path, n, IF first THEN 1 ELSE Len(t[n].items) - 1)
  ELSE IF t[n].kids = <<>> THEN Iter(path, IF t[n].has = "items" THEN n ELSE Nil, 0)
  ELSE LET k == IF first THEN 1 ELSE Len(t[n].kids)
       IN Descend(t, Append(path, [node |-> n, kid |-> k]), t[n].kids[k], first)

Reached(to, it, empty) == IF Valid(to) \/ (empty /\ to.node # Nil) THEN to ELSE it
Deepen(t, it, n, first, empty) == Reached(Descend(t, it.path, n, first), it, empty)

Begin(t) == Deepen(t, EndIter, Root, TRUE, TRUE)
Final(t) == Deepen(t, EndIter, Root, FALSE, TRUE)

(* The next kid that is a node, or one of the places beyond the kids.      *)
NextKid(t, e, backward) ==
  LET kids == t[e.node].kids
      IsNode(k) == kids[k] # Nil /\ t[kids[k]].has # "none"
  IN IF backward
     THEN Max({0} \cup {k \in 1..Len(kids) : k < e.kid /\ IsNode(k)})
     ELSE Min({Len(kids) + 1} \cup {k \in 1..Len(kids) : k > e.kid /\ IsNode(k)})

(* Up the path to a node with another kid, and down from it.               *)
RECURSIVE Climb(_, _, _)
ClimbTo(t, path, k, backward) ==
  LET e == Last(path)
      moved == Append(Front(path), [e EXCEPT !.kid = k])
      down == Descend(t, moved, t[e.node].kids[k], ~backward)
  IN IF k \notin DOMAIN t[e.node].kids THEN Climb(t, Front(path), backward)
     ELSE IF Valid(down) THEN down
     ELSE Climb(t, moved, backward)
Climb(t, path, backward) ==
  IF path = <<>> THEN EndIter
  ELSE ClimbTo(t, path, NextKid(t, Last(path), backward), backward)

(* Items are passed over when the value is missing, or when the key or the *)
(* value is not valid.                                                     *)
RECURSIVE Advance(_, _, _)
AdvanceTo(t, to, backward) ==
  IF Valid(to) /\ ~IsWhole(t, to) THEN Advance(t, to, backward) ELSE to
Advance(t, it, backward) ==
  LET i == it.item + (IF backward THEN -2 ELSE 2)
  IN IF ~Valid(it) THEN it
     ELSE AdvanceTo(t, IF i \in DOMAIN t[it.node].items THEN [it EXCEPT !.item = i]
                       ELSE Climb(t, it.path, backward), backward)

Increment(t, it, backward) ==
  IF Valid(it) THEN Advance(t, it, backward)
  ELSE Deepen(t, it, Root, ~backward, TRUE)

(* What a loop over the tree sees.                                         *)
Iters == [path : Seq([node : Nat, kid : Nat]), node : Nat, item : Nat]
Read(t) ==
  LET From[i \in Iters] == IF Valid(i) THEN <<On(t, i)>> \o From[Increment(t, i, FALSE)] ELSE <<>>
  IN From[Begin(t)]

-----------------------------------------------------------------------------
(* Changes.  A node is named by its number and the place p in the path     *)
(* where its parent is; the root has no parent, and p is 0.                *)

(* The limits of a node with items, and of one with kids; none where the   *)
(* kids have none.                                                         *)
LimitsOf(t, n) ==
  LET node == t[n]
      OfKid(k) == IF node.kids[k] = Nil THEN <<>> ELSE t[node.kids[k]].limits
      size == Len(node.items)
  IN IF size > 1 THEN <<node.items[1], node.items[2 * ((size - 1) \div 2) + 1]>>
     ELSE IF node.kids = <<>> \/ OfKid(1) = <<>> \/ OfKid(Len(node.kids)) = <<>> THEN <<>>
     ELSE <<OfKid(1)[1], OfKid(Len(node.kids))[2]>>

RECURSIVE ResetLimits(_, _, _, _)
SetLimits(t, path, n, p, limits) ==
  LET set == IF limits = <<>> \/ n = path[1].node THEN t ELSE [t EXCEPT ![n].limits = limits]
      settled == limits # <<>> /\ IsKey(limits[1]) /\ IsKey(limits[2]) /\ t[n].limits = limits
  IN IF settled \/ p = 1 THEN set ELSE ResetLimits(set, path, path[p].node, p - 1)
ResetLimits(t, path, n, p) ==
  IF p = 0 THEN [t EXCEPT ![n].limits = <<>>] ELSE SetLimits(t, path, n, p, LimitsOf(t, n))


(* A root that is split becomes the parent of a new node with all it had.  *)
PushDown(t, it, leaf) ==
  LET new == Len(t) + 1
      under == IF leaf \/ it.path = <<>> THEN it.path ELSE [it.path EXCEPT ![1].node = new]
  IN [tree |-> Append([t EXCEPT ![Root] = Node("kids", <<new>>, <<>>, <<>>)],
                      [t[Root] EXCEPT !.limits = <<>>]),
      it |-> Iter(<<[node |-> Root, kid |-> 1]>> \o under, IF leaf THEN new ELSE it.node, it.item)]

(* How many of n elements stay in the first half: an even number, of kids  *)
(* too.                                                                    *)
Half(n) == 2 * (n \div 4)

(* The second half of node n goes to a new node, which becomes the next    *)
(* kid of the parent.  The iterator follows its item.                      *)
Halve(t, it, n, p, leaf, start) ==
  LET second == Len(t) + 1
      half == IF leaf THEN [t EXCEPT ![n].items = SubSeq(@, 1, start)]
              ELSE [t EXCEPT ![n].kids = SubSeq(@, 1, start)]
      rest == IF leaf THEN Node("items", <<>>, SubSeq(t[n].items, start + 1, Len(t[n].items)), <<>>)
              ELSE Node("kids", SubSeq(t[n].kids, start + 1, Len(t[n].kids)), <<>>, <<>>)
      first == ResetLimits(half, it.path, n, p)
      both == ResetLimits(Append(first, rest), it.path, second, p)
      parent == it.path[p]
      moves == (IF leaf THEN it.item ELSE it.path[p + 1].kid) > start
      path == IF moves THEN [it.path EXCEPT ![p].kid = @ + 1] ELSE it.path
  IN [tree |-> [both EXCEPT ![parent.node].kids = InsertAt(@, parent.kid + 1, second)],
      it |-> IF ~moves THEN it
             ELSE IF leaf THEN Iter(path, second, it.item - start)
             ELSE [it EXCEPT !.path = [path EXCEPT ![p + 1] = [node |-> second, kid |-> @.kid - start]]]]

(* A node that is too large is halved, then the nodes above it; the root   *)
(* where it was pushed to.                                                 *)
RECURSIVE Split(_, _, _, _)
SplitRoot(down, leaf, start) == Halve(down.tree, down.it, Len(down.tree), 1, leaf, start)
SplitAbove(halved, up, p) ==
  Split(ResetLimits(halved.tree, halved.it.path, up, p), halved.it, up, p - 1)
Split(t, it, n, p) ==
  LET leaf == t[n].items # <<>>
      size == Len(IF leaf THEN t[n].items ELSE t[n].kids)
  IN IF size <= (IF leaf THEN 2 * Threshold ELSE Threshold) THEN [tree |-> t, it |-> it]
     ELSE IF p = 0 THEN SplitRoot(PushDown(t, it, leaf), leaf, Half(size))
     ELSE SplitAbove(Halve(t, it, n, p, leaf, Half(size)), it.path[p].node, p)

(* An item goes to place i of the node the iterator is on.                 *)
PutAt(t, it, i, item) ==
  LET put == [t EXCEPT ![it.node].items = InsertAt(InsertAt(@, i, item[2]), i, item[1])]
      p == Len(it.path)
  IN Split(ResetLimits(put, it.path, it.node, p), it, it.node, p)

InsertFirst(t, k, v) == PutAt(t, [Begin(t) EXCEPT !.item = 1], 1, <<k, v>>)

AtFirst(t, it) == [tree |-> t, it |-> Deepen(t, it, Root, TRUE, FALSE)]
AtNext(put) == [put EXCEPT !.it = Increment(put.tree, @, FALSE)]
InsertAfter(t, it, k, v) ==
  IF Valid(it) THEN AtNext(PutAt(t, it, it.item + 2, <<k, v>>))
  ELSE AtFirst(InsertFirst(t, k, v).tree, it)

(* The last node of the path loses the kid the path goes through, and so   *)
(* does every node above that would be left with no kid.                   *)
RECURSIVE RemoveKid(_, _)
RemoveKid(t, path) ==
  LET e == Last(path)
      kids == RemoveAt(t[e.node].kids, e.kid)
      less == [t EXCEPT ![e.node].kids = kids]
      set == IF e.kid = 1 \/ e.kid = Len(kids) + 1
             THEN ResetLimits(less, path, e.node, Len(path) - 1) ELSE less
      back == Iter(Append(Front(path), [e EXCEPT !.kid = @ - 1]), Nil, 0)
      prev == Deepen(set, back, kids[e.kid - 1], FALSE, TRUE)
  IN IF kids # <<>>
     THEN [tree |-> set,
           it |-> IF e.kid > Len(kids)
                  THEN IF Valid(prev) THEN Increment(set, prev, FALSE) ELSE prev
                  ELSE Deepen(set, Iter(path, Nil, 0), kids[e.kid], TRUE, TRUE)]
     ELSE IF Len(path) = 1 THEN [tree |-> [t EXCEPT ![Root] = [Empty EXCEPT !.limits = t[Root].limits]],
                                 it |-> Iter(<<>>, Root, 0)]
     ELSE RemoveKid(less, Front(path))

(* The elements of an item are taken out.                                  *)
Without(items, i) == RemoveAt(RemoveAt(items, i), i)

RemoveItem_Back(t, it) ==   \* a slip: from a last item the iterator goes back
  LET n == it.node
      items == Without(t[n].items, it.item)
      less == [t EXCEPT ![n].items = items]
      last == it.item > Len(items)
  IN IF items # <<>>
     THEN [tree |-> ResetLimits(less, it.path, n, Len(it.path)),
           it |-> IF last THEN [it EXCEPT !.item = @ - 2] ELSE it]
     ELSE IF it.path = <<>> THEN [tree |-> less, it |-> Iter(<<>>, Root, 0)]
     ELSE RemoveKid(less, it.path)

(* The iterator is left on a key without a value, and an exception is      *)
(* thrown, when that is what follows the item.                             *)
RemoveItem(t, it) ==
  LET n == it.node
      items == Without(t[n].items, it.item)
      less == [t EXCEPT ![n].items = items]
      last == it.item > Len(items)
      set == IF it.item = 1 \/ last THEN ResetLimits(less, it.path, n, Len(it.path)) ELSE less
  IN IF items # <<>>
     THEN [tree |-> set,
           it |-> IF last THEN Increment(set, [it EXCEPT !.item = @ - 2], FALSE) ELSE it]
     ELSE IF it.path = <<>> THEN [tree |-> less, it |-> Iter(<<>>, Root, 0)]
     ELSE RemoveKid(less, it.path)

-----------------------------------------------------------------------------
(* Searches.                                                               *)

Compare(a, b) == IF a < b THEN -1 ELSE IF a > b THEN 1 ELSE 0

(* What comparing with an item or a kid says; Fault where it throws.       *)
Fault == 2
CompareItem(k, items, j) == IF IsKey(items[2 * j - 1]) THEN Compare(k, items[2 * j - 1]) ELSE Fault
CompareKid(t, k, kid) ==
  LET limits == IF kid = Nil THEN <<>> ELSE t[kid].limits
  IN IF limits = <<>> \/ Bad \in ToSet(limits) THEN Fault
     ELSE IF k < limits[1] THEN -1
     ELSE IF k > limits[2] THEN 1 ELSE 0

(* Halving steps over 1..n, for as many checks as the power of 2 that is   *)
(* not below n has bits.  It finds the place where status is 0, or else    *)
(* the last one it saw with 1, or 0 for none, or -1 for a fault.           *)
RECURSIVE Search(_, _, _, _, _)
Search(status, i, step, checks, found) ==
  LET s == IF i \in DOMAIN status THEN status[i] ELSE -1
      half == IF step > 1 THEN step \div 2 ELSE 1
  IN IF checks = 0 THEN found
     ELSE IF s = Fault THEN -1
     ELSE IF s = 0 THEN i
     ELSE Search(status, i + s * half, half, checks - 1, IF s = 1 THEN i ELSE found)

BinarySearch(status) ==
  LET n == Len(status)
      e == CHOOSE b \in 0..n : 2^b >= n /\ (b > 0 => 2^(b-1) < n)
      step == 2^e \div 2
  IN Search(status, step + 1, step, e + 1, 0)

(* An iterator, or that an exception was thrown, as it is at an item with  *)
(* a value that is not valid.  A search that finds nothing has gone down a *)
(* path all the same.                                                      *)
Result(ok, it) == [ok |-> ok, it |-> it]
Threw == Result(FALSE, EndIter)

RECURSIVE Seek(_, _, _, _, _)
AtItem(t, path, n, j) ==
  IF j = 0 THEN Result(TRUE, Iter(path, Nil, 0))
  ELSE IF j = -1 \/ ~IsValid(On(t, Iter(path, n, 2 * j - 1))) THEN Threw
  ELSE Result(TRUE, Iter(path, n, 2 * j - 1))
AtKid(t, path, n, i, k, prev) ==
  IF i \in {0, -1} THEN Threw
  ELSE Seek(t, Append(path, [node |-> n, kid |-> i]), t[n].kids[i], k, prev)
Exactly(items, j, k, prev) == IF j > 0 /\ ~prev /\ items[2 * j - 1] # k THEN 0 ELSE j
Seek(t, path, n, k, prev) ==
  LET items == t[n].items
      kids == t[n].kids
      status == [j \in 1..Len(items) \div 2 |-> CompareItem(k, items, j)]
  IN IF \E e \in ToSet(path) : e.node = n THEN Threw
     ELSE IF Len(items) > 1 THEN AtItem(t, path, n, Exactly(items, BinarySearch(status), k, prev))
     ELSE IF kids = <<>> THEN Threw
     ELSE AtKid(t, path, n, BinarySearch([j \in DOMAIN kids |-> CompareKid(t, k, kids[j])]), k, prev)

FindFrom(t, begin, k, prev) ==
  IF ~Valid(begin) THEN Result(TRUE, EndIter)
  ELSE IF ~IsValid(On(t, begin)) THEN Threw
  ELSE IF k < On(t, begin)[1] THEN Result(TRUE, EndIter)
  ELSE Seek(t, <<>>, Root, k, prev)
FindInternal(t, k, prev) == FindFrom(t, Begin(t), k, prev)

(* Insertion of an item, where a search has led.                           *)
InsertFound(t, it, k, v) ==
  IF ~Valid(it)
  THEN IF Begin(t).node = Nil THEN [tree |-> t, it |-> EndIter] ELSE InsertFirst(t, k, v)
  ELSE IF On(t, it)[1] = k
  THEN [tree |-> [t EXCEPT ![it.node].items[it.item + 1] = v], it |-> it]
  ELSE InsertAfter(t, it, k, v)

(* The tree built anew from all its items that can be read; of items with  *)
(* the same key the last.                                                  *)
Put(t, item) == InsertFound(t, FindInternal(t, item[1], TRUE).it, item[1], item[2]).tree
Collected_First(t) ==   \* a slip: insert for insert_or_assign
  LET assign(m, item) == IF IsValid(item) THEN m @@ (item[1] :> item[2]) ELSE m
  IN FoldLeft(assign, <<>>, Read(t))

Collected(t) ==
  LET assign(m, item) == IF IsValid(item) THEN (item[1] :> item[2]) @@ m ELSE m
  IN FoldLeft(assign, <<>>, Read(t))
Rebuild(t, m) == FoldLeft(LAMBDA u, k : Put(u, <<k, m[k]>>), t, SetToSortSeq(DOMAIN m, <))
Repair(t) ==
  [Rebuild([t EXCEPT ![Root] = Empty], Collected(t)) EXCEPT ![Root].limits = t[Root].limits]

(* A search; one that throws is made again after a repair.                 *)
FindAgain(t, k, prev) == [tree |-> t, it |-> FindInternal(t, k, prev).it, repaired |-> TRUE]
FindIn(t, k, prev) ==
  LET found == FindInternal(t, k, prev)
  IN IF found.ok THEN [tree |-> t, it |-> found.it, repaired |-> FALSE]
     ELSE FindAgain(Repair(t), k, prev)

-----------------------------------------------------------------------------
VARIABLES
  tree,        \* the nodes
  it,          \* the iterator a program holds
  damaged,     \* whether the tree is as a damaged file had it
  ops          \* how many calls have been made

vars == <<tree, it, damaged, ops>>

Init ==
  /\ tree \in Sound \cup Broken
  /\ damaged = (tree \in Broken)
  /\ it = EndIter
  /\ ops = 0

Call == ops < MaxOps /\ ops' = ops + 1

GoBegin == Call /\ it' = Begin(tree) /\ UNCHANGED <<tree, damaged>>
GoLast == Call /\ it' = Final(tree) /\ UNCHANGED <<tree, damaged>>
Move(backward) == Call /\ it' = Increment(tree, it, backward) /\ UNCHANGED <<tree, damaged>>

Find(k, prev) ==
  /\ Call
  /\ \E f \in {FindIn(tree, k, prev)} :
       /\ tree' = f.tree /\ it' = f.it
       /\ damaged' = (damaged /\ ~f.repaired)

(* Insertion into a tree without a node for items throws.                  *)
Insert(k, v) ==
  /\ Call
  /\ \E f \in {FindIn(tree, k, TRUE)} : \E r \in {InsertFound(f.tree, f.it, k, v)} :
       /\ tree' = r.tree
       /\ it' = IF Valid(r.it) THEN r.it ELSE it
       /\ damaged' = (damaged /\ ~f.repaired)

RemoveKey(k) ==
  /\ Call
  /\ \E f \in {FindIn(tree, k, FALSE)} :
       /\ tree' = IF Valid(f.it) THEN RemoveItem(f.tree, f.it).tree ELSE f.tree
       /\ it' = IF tree' = tree THEN it ELSE EndIter
       /\ damaged' = (damaged /\ ~f.repaired)

(* The caller has to know that the item belongs after the iterator.        *)
Follows(k) ==
  /\ \A x \in ToSet(Read(tree)) :
       IF Valid(it) THEN x[1] <= On(tree, it)[1] \/ k < x[1] ELSE k < x[1]
  /\ Valid(it) => On(tree, it)[1] < k

InsertNext(k, v) ==
  /\ Call /\ ~damaged /\ Follows(k)
  /\ \E r \in {InsertAfter(tree, it, k, v)} : tree' = r.tree /\ it' = r.it
  /\ UNCHANGED damaged

RemoveHere ==
  /\ Call /\ Valid(it) /\ it.item < Len(tree[it.node].items)
  /\ \E r \in {RemoveItem(tree, it)} : tree' = r.tree /\ it' = r.it
  /\ UNCHANGED damaged

(* Keys have to be valid and in order, and values valid; limits are not    *)
(* looked at.                                                              *)
Fails(items) ==
  \E i \in DOMAIN items :
    ~IsValid(items[i]) \/ (i > 1 /\ items[i - 1][1] >= items[i][1])
Validate ==
  /\ Call
  /\ \E fails \in {Fails(Read(tree))} :
       /\ tree' = IF fails THEN Repair(tree) ELSE tree
       /\ it' = IF fails THEN EndIter ELSE it
       /\ damaged' = (damaged /\ ~fails)

Next ==
  \/ GoBegin \/ GoLast \/ RemoveHere \/ Validate
  \/ \E backward \in BOOLEAN : Move(backward)
  \/ \E k \in Keys : RemoveKey(k)
  \/ \E k \in Keys, prev \in BOOLEAN : Find(k, prev)
  \/ \E k \in Keys, v \in Vals : Insert(k, v) \/ InsertNext(k, v)

Spec == Init /\ [][Next]_vars
-----------------------------------------------------------------------------
(* The nodes below a node, itself included, and the items in them.         *)
RECURSIVE Under(_, _)
Under(t, n) == {n} \cup UNION {Under(t, m) : m \in ToSet(t[n].kids)}
Items(t, n) ==
  UNION {{<<t[m].items[2 * j - 1], t[m].items[2 * j]>> : j \in 1..Len(t[m].items) \div 2} : m \in Under(t, n)}
Below(t, n) == {i[1] : i \in Items(t, n)}

(* However split and emptied, the tree stays a tree of one depth in which  *)
(* no node but the root is empty and none has more than split_threshold    *)
(* items or kids.  The first limit of a node is its first key, and the     *)
(* second is its last key, or at least one of its keys where there are two *)
(* levels or more below it (split, resetLimits, remove).                   *)
RECURSIVE IsBalanced(_, _)
IsBalanced(t, nodes) ==
  LET size(n) == Len(t[n].items) \div 2 + Len(t[n].kids)
  IN /\ IsInjective(nodes)
     /\ \A n \in ToSet(nodes) \ {Root} :
          /\ size(n) > 0
          /\ t[n].limits[1] = Min(Below(t, n)) /\ t[n].limits[2] \in Below(t, n)
          /\ (\A m \in ToSet(t[n].kids) : t[m].kids = <<>>) => t[n].limits[2] = Max(Below(t, n))
     /\ \A n \in ToSet(nodes) : size(n) <= Threshold
     /\ \/ \A n \in ToSet(nodes) : t[n].has = "items" /\ t[n].kids = <<>>
        \/ /\ \A n \in ToSet(nodes) : t[n].has = "kids" /\ t[n].items = <<>>
           /\ IsBalanced(t, FlattenSeq([i \in DOMAIN nodes |-> t[nodes[i]].kids]))
Balanced == ~damaged => IsBalanced(tree, <<Root>>)

(* An iterator on an item holds the very path that leads to it, after      *)
(* whatever it and its tree went through (split, remove).                  *)
PathLeadsToItem ==
  Valid(it) =>
    /\ it.item \in DOMAIN tree[it.node].items
    /\ (it.path # <<>> => it.path[1].node = Root) /\ (it.path = <<>> => it.node = Root)
    /\ \A i \in DOMAIN it.path :
         tree[it.path[i].node].kids[it.path[i].kid] =
           IF i = Len(it.path) THEN it.node ELSE it.path[i + 1].node


(* A program cannot tell the tree from a sorted map, but for the end that  *)
(* a search has left in a tree of several nodes (Lost in SortedMap): the   *)
(* path it has gone down stays, and deepen takes the root for a loop.      *)
Contents == FoldSet(LAMBDA i, m : (i[1] :> i[2]) @@ m, <<>>, Items(tree, Root))
Position == IF Valid(it) THEN On(tree, it)[1] ELSE IF it.path = <<>> THEN -1 ELSE -2

Map == INSTANCE SortedMap WITH
  map <- IF damaged THEN <<>> ELSE Contents,
  pos <- IF damaged THEN -1 ELSE Position,
  sorted <- ~damaged, End <- -1, Lost <- -2
ImplementsMap == Map!Spec

(* A repair puts the keys in order and loses no item that could be read;   *)
(* of items with the same key the one that came last stays.                *)
LastOf(items, k) == Last(SelectSeq(items, LAMBDA i : i[1] = k))
RepairRecovers ==
  [][damaged /\ ~damaged' /\ ((\E k \in Keys, prev \in BOOLEAN : Find(k, prev)) \/ Validate) =>
       \E old \in {SelectSeq(Read(tree), IsValid)}, new \in {Read(tree')} :
         /\ ~Fails(new)
         /\ ToSet(new) = {LastOf(old, i[1]) : i \in ToSet(old)}]_vars
=============================================================================
