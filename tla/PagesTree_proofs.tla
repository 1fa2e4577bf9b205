-------------------------- MODULE PagesTree_proofs --------------------------
(***************************************************************************)
(* The vector of pages, the map and the tree agree in every document, at   *)
(* whatever entry the traversal of the tree is, and after every exception. *)
(***************************************************************************)
EXTENDS PagesTree, Induction

-----------------------------------------------------------------------------
(* The pages below the entries of an array, one after the other.           *)

Below == [Nodes -> Seq(Pages)]

IsJoin(f, s, b) ==
  /\ f \in [0..Len(s) -> Seq(Pages)] /\ f[0] = <<>>
  /\ \A k \in 1..Len(s) : f[k] = f[k - 1] \o Piece(s[k], b)

LEMMA PieceIsPages ==
  ASSUME NEW x, NEW b \in Below
  PROVE  Piece(x, b) \in Seq(Pages)
  BY DEF Piece, Below

LEMMA JoinExists ==
  ASSUME NEW X, NEW s \in Seq(X), NEW b \in Below
  PROVE  \E f : IsJoin(f, s, b) /\ Joined(s, b) = f[Len(s)]
<1> DEFINE D == Seq(Pages)
           none == <<>>
           m == Len(s)
           step == [p \in (1..m) \X D |-> p[2] \o Piece(s[p[1]], b)]
           Rec(f) == f = [k \in 0..m |-> IF k = 0 THEN <<>> ELSE f[k - 1] \o Piece(s[k], b)]
<1>1. m \in Nat /\ none \in D
  OBVIOUS
<1>2. \A i \in 1..m, d \in D : step[<<i, d>>] = d \o Piece(s[i], b) /\ step[<<i, d>>] \in D
  <2> SUFFICES ASSUME NEW i \in 1..m, NEW d \in D
               PROVE  step[<<i, d>>] = d \o Piece(s[i], b) /\ step[<<i, d>>] \in D
    OBVIOUS
  <2>1. step[<<i, d>>] = d \o Piece(s[i], b)
    OBVIOUS
  <2>2. Piece(s[i], b) \in D
    BY PieceIsPages
  <2> HIDE DEF step
  <2>3. d \o Piece(s[i], b) \in D
    BY <2>2
  <2> QED
    BY <2>1, <2>3
<1> HIDE DEF step, D, m, none
<1>3. PICK f : IsRun(f, m, D, none, step)
  BY <1>1, <1>2, RecursionTo
<1>4. f \in [0..m -> D] /\ f[0] = none /\ \A i \in 1..m : f[i] = step[<<i, f[i - 1]>>]
  BY <1>3 DEF IsRun
<1>5. \A i \in 1..m : f[i] = f[i - 1] \o Piece(s[i], b)
  <2> SUFFICES ASSUME NEW i \in 1..m PROVE f[i] = f[i - 1] \o Piece(s[i], b)
    OBVIOUS
  <2>1. f[i - 1] \in D
    BY <1>1, <1>4
  <2> QED
    BY <1>2, <1>4, <2>1
<1>6. \A k \in 0..m : f[k] = IF k = 0 THEN <<>> ELSE f[k - 1] \o Piece(s[k], b)
  <2> SUFFICES ASSUME NEW k \in 0..m PROVE f[k] = IF k = 0 THEN <<>> ELSE f[k - 1] \o Piece(s[k], b)
    OBVIOUS
  <2>1. k # 0 => k \in 1..m
    BY <1>1
  <2> QED
    BY <1>4, <1>5, <2>1, Zenon DEF none
<1>7. Rec(f)
  <2>1. f = [k \in 0..m |-> f[k]]
    BY <1>4
  <2> QED
    BY <1>6, <2>1, Zenon
<1> DEFINE g == CHOOSE g : Rec(g)
<1>8. Rec(g)
  <2> HIDE DEF Rec
  <2> QED
    BY <1>7
<1>9. Joined(s, b) = g[m]
  BY DEF Joined, m
<1> HIDE DEF g
<1>10. \A k \in 0..m : g[k] = IF k = 0 THEN <<>> ELSE g[k - 1] \o Piece(s[k], b)
  BY <1>8, Zenon
<1>11. \A i \in Nat : i <= m => g[i] = f[i]
  <2> DEFINE E == {i \in Nat : i <= m => g[i] = f[i]}
  <2>1. 0 \in E
    BY <1>1, <1>4, <1>10 DEF none
  <2>2. ASSUME NEW i \in Nat, i \in E PROVE i + 1 \in E
    <3> SUFFICES ASSUME i + 1 <= m PROVE g[i + 1] = f[i + 1]
      OBVIOUS
    <3>1. i + 1 \in 0..m /\ i + 1 \in 1..m /\ i + 1 # 0 /\ (i + 1) - 1 = i /\ g[i] = f[i]
      BY <1>1, <2>2
    <3> QED
      BY <1>5, <1>10, <3>1
  <2>3. \A i \in Nat : i \in E
    <3> HIDE DEF E
    <3> QED
      BY <2>1, <2>2, InductionOver
  <2> QED
    BY <2>3
<1>12. IsJoin(f, s, b)
  BY <1>4, <1>5 DEF IsJoin, D, m, none
<1> QED
  BY <1>1, <1>9, <1>11, <1>12 DEF m

LEMMA JoinsAlike ==
  ASSUME NEW X, NEW s \in Seq(X), NEW t \in Seq(X), NEW b, NEW c, NEW f, NEW g,
         IsJoin(f, s, b), IsJoin(g, t, c),
         NEW k \in Nat, k <= Len(s), k <= Len(t), \A i \in 1..k : Piece(s[i], b) = Piece(t[i], c)
  PROVE  f[k] = g[k]
<1> DEFINE E == {i \in Nat : i <= k => f[i] = g[i]}
<1>1. 0 \in E
  BY DEF IsJoin
<1>2. ASSUME NEW i \in Nat, i \in E PROVE i + 1 \in E
  <2> SUFFICES ASSUME i + 1 <= k PROVE f[i + 1] = g[i + 1]
    OBVIOUS
  <2>1. /\ i + 1 \in 1..k /\ i + 1 \in 1..Len(s) /\ i + 1 \in 1..Len(t)
        /\ (i + 1) - 1 = i /\ f[i] = g[i]
    BY <1>2
  <2>2. f[i + 1] = f[i] \o Piece(s[i + 1], b) /\ g[i + 1] = g[i] \o Piece(t[i + 1], c)
    BY <2>1 DEF IsJoin
  <2> QED
    BY <2>1, <2>2
<1>3. \A i \in Nat : i \in E
  <2> HIDE DEF E
  <2> QED
    BY <1>1, <1>2, InductionOver
<1> QED
  BY <1>3

(* What is joined is pages, and depends on the pieces only.                *)
LEMMA JoinedAlike ==
  ASSUME NEW X, NEW s \in Seq(X), NEW t \in Seq(X), NEW b \in Below, NEW c \in Below,
         Len(s) = Len(t), \A i \in 1..Len(s) : Piece(s[i], b) = Piece(t[i], c)
  PROVE  Joined(s, b) = Joined(t, c) /\ Joined(s, b) \in Seq(Pages)
<1>1. PICK f : IsJoin(f, s, b) /\ Joined(s, b) = f[Len(s)]
  BY JoinExists
<1>2. PICK g : IsJoin(g, t, c) /\ Joined(t, c) = g[Len(t)]
  BY JoinExists
<1>3. Len(s) \in Nat /\ Len(s) <= Len(s) /\ Len(s) <= Len(t)
  OBVIOUS
<1>4. f[Len(s)] = g[Len(s)]
  BY <1>1, <1>2, <1>3, JoinsAlike
<1>5. f[Len(s)] \in Seq(Pages)
  BY <1>1, <1>3 DEF IsJoin
<1> QED
  BY <1>1, <1>2, <1>4, <1>5

LEMMA JoinedGrows ==
  ASSUME NEW X, NEW s \in Seq(X), NEW b \in Below, NEW k \in 1..Len(s)
  PROVE  Joined(SubSeq(s, 1, k), b) = Joined(SubSeq(s, 1, k - 1), b) \o Piece(s[k], b)
<1> DEFINE t == SubSeq(s, 1, k)
           u == SubSeq(s, 1, k - 1)
<1>1. /\ t \in Seq(X) /\ Len(t) = k /\ u \in Seq(X) /\ Len(u) = k - 1
      /\ t[k] = s[k] /\ \A i \in 1..(k - 1) : t[i] = u[i]
      /\ k \in Nat /\ k - 1 \in Nat /\ k - 1 <= k /\ k \in 1..k
  OBVIOUS
<1> HIDE DEF t, u
<1>2. PICK f : IsJoin(f, t, b) /\ Joined(t, b) = f[Len(t)]
  BY <1>1, JoinExists
<1>3. PICK g : IsJoin(g, u, b) /\ Joined(u, b) = g[Len(u)]
  BY <1>1, JoinExists
<1>4. \A i \in 1..(k - 1) : Piece(t[i], b) = Piece(u[i], b)
  BY <1>1
<1>5. f[k - 1] = g[k - 1]
  <2>1. k - 1 <= Len(t) /\ k - 1 <= Len(u)
    BY <1>1
  <2> QED
    BY <1>1, <1>2, <1>3, <1>4, <2>1, JoinsAlike
<1>6. f[k] = f[k - 1] \o Piece(t[k], b)
  BY <1>1, <1>2 DEF IsJoin
<1> QED
  BY <1>1, <1>2, <1>3, <1>5, <1>6 DEF t, u

LEMMA JoinedNone ==
  ASSUME NEW X, NEW s \in Seq(X), NEW b \in Below
  PROVE  Joined(SubSeq(s, 1, 0), b) = <<>> /\ Joined(s, b) = Joined(SubSeq(s, 1, Len(s)), b)
<1> DEFINE t == SubSeq(s, 1, 0)
<1>1. t \in Seq(X) /\ Len(t) = 0
  OBVIOUS
<1>2. SubSeq(s, 1, Len(s)) = s
  OBVIOUS
<1> HIDE DEF t
<1>3. PICK f : IsJoin(f, t, b) /\ Joined(t, b) = f[Len(t)]
  BY <1>1, JoinExists
<1> QED
  BY <1>1, <1>2, <1>3 DEF IsJoin, t

LEMMA JoinedPages ==
  ASSUME NEW s \in Seq(Pages), NEW b \in Below
  PROVE  Joined(s, b) = s
<1>1. PICK f : IsJoin(f, s, b) /\ Joined(s, b) = f[Len(s)]
  BY JoinExists
<1> DEFINE E == {i \in Nat : i <= Len(s) => f[i] = SubSeq(s, 1, i)}
<1>2. 0 \in E
  BY <1>1 DEF IsJoin
<1>3. ASSUME NEW i \in Nat, i \in E PROVE i + 1 \in E
  <2> SUFFICES ASSUME i + 1 <= Len(s) PROVE f[i + 1] = SubSeq(s, 1, i + 1)
    OBVIOUS
  <2>1. i + 1 \in 1..Len(s) /\ (i + 1) - 1 = i /\ f[i] = SubSeq(s, 1, i)
    BY <1>3
  <2>2. f[i + 1] = f[i] \o Piece(s[i + 1], b)
    BY <1>1, <2>1 DEF IsJoin
  <2>3. s[i + 1] \in Pages /\ Piece(s[i + 1], b) = <<s[i + 1]>>
    BY <2>1, ConstantsAssumption DEF Piece
  <2>4. SubSeq(s, 1, i) \o <<s[i + 1]>> = SubSeq(s, 1, i + 1)
    BY <2>1
  <2> QED
    BY <2>1, <2>2, <2>3, <2>4
<1>4. \A i \in Nat : i \in E
  <2> HIDE DEF E
  <2> QED
    BY <1>2, <1>3, InductionOver
<1>5. f[Len(s)] = SubSeq(s, 1, Len(s)) /\ SubSeq(s, 1, Len(s)) = s
  BY <1>4
<1> QED
  BY <1>1, <1>5

-----------------------------------------------------------------------------
(* The pages below a node, as deep as trees may be.                        *)

KidsTyped(kids) == \E X : kids \in [Nodes -> Seq(X)]

LEMMA LeavesExist ==
  ASSUME NEW d, KidsTyped(d.kids)
  PROVE  \E f \in [Nat -> Below] :
           /\ LeavesBelow(d) = f[MaxLevel]
           /\ \A l \in Nat, n \in Nodes : f[l + 1][n] = Joined(d.kids[n], f[l])
<1> DEFINE D == Below
           none == [n \in Nodes |-> <<>>]
           step == [b \in D |-> [n \in Nodes |-> Joined(d.kids[n], b)]]
           Rec(f) == f = [l \in Nat |-> IF l = 0 THEN [n \in Nodes |-> <<>>]
                                        ELSE [n \in Nodes |-> Joined(d.kids[n], f[l - 1])]]
<1>1. none \in D
  BY DEF Below
<1>2. \A b \in D : step[b] = [n \in Nodes |-> Joined(d.kids[n], b)] /\ step[b] \in D
  <2> SUFFICES ASSUME NEW b \in D PROVE step[b] \in D
    OBVIOUS
  <2>1. \A n \in Nodes : Joined(d.kids[n], b) \in Seq(Pages)
    <3> SUFFICES ASSUME NEW n \in Nodes PROVE Joined(d.kids[n], b) \in Seq(Pages)
      OBVIOUS
    <3>1. PICK X : d.kids \in [Nodes -> Seq(X)]
      BY DEF KidsTyped
    <3>2. d.kids[n] \in Seq(X)
      BY <3>1
    <3> QED
      BY <3>2, JoinedAlike
  <2> QED
    BY <2>1 DEF Below
<1>3. step \in [D -> D]
  BY <1>2
<1> HIDE DEF D, step, none
<1>4. PICK f : f = [l \in Nat |-> IF l = 0 THEN none ELSE step[f[l - 1]]]
  BY <1>1, <1>3, RecursiveFunctionExists
<1>5. f \in [Nat -> D] /\ f[0] = none /\ \A l \in Nat : f[l + 1] = step[f[l]]
  BY <1>1, <1>3, <1>4, RecursiveFunction
<1>6. \A l \in Nat : f[l] = IF l = 0 THEN [n \in Nodes |-> <<>>]
                            ELSE [n \in Nodes |-> Joined(d.kids[n], f[l - 1])]
  <2> SUFFICES ASSUME NEW l \in Nat, l # 0 PROVE f[l] = [n \in Nodes |-> Joined(d.kids[n], f[l - 1])]
    BY <1>5 DEF none
  <2>1. l - 1 \in Nat /\ (l - 1) + 1 = l
    OBVIOUS
  <2>2. f[l] = step[f[l - 1]] /\ f[l - 1] \in D
    BY <1>5, <2>1
  <2> QED
    BY <1>2, <2>2
<1>7. Rec(f)
  <2>1. f = [l \in Nat |-> f[l]]
    BY <1>5
  <2> QED
    BY <1>6, <2>1, Zenon
<1> DEFINE g == CHOOSE g : Rec(g)
<1>8. Rec(g)
  <2> HIDE DEF Rec
  <2> QED
    BY <1>7
<1>9. LeavesBelow(d) = g[MaxLevel]
  BY DEF LeavesBelow
<1> HIDE DEF g
<1>10. \A l \in Nat : g[l] = IF l = 0 THEN [n \in Nodes |-> <<>>]
                             ELSE [n \in Nodes |-> Joined(d.kids[n], g[l - 1])]
  BY <1>8, Zenon
<1>11. \A l \in Nat : g[l] = f[l]
  <2> DEFINE E == {l \in Nat : g[l] = f[l]}
  <2>1. 0 \in E
    BY <1>6, <1>10
  <2>2. ASSUME NEW l \in Nat, l \in E PROVE l + 1 \in E
    <3>1. l + 1 \in Nat /\ l + 1 # 0 /\ (l + 1) - 1 = l /\ g[l] = f[l]
      BY <2>2
    <3> DEFINE On(b) == [n \in Nodes |-> Joined(d.kids[n], b)]
    <3>2. f[l + 1] = On(f[(l + 1) - 1]) /\ g[l + 1] = On(g[(l + 1) - 1])
      BY <1>6, <1>10, <3>1, Zenon
    <3> HIDE DEF On
    <3>3. g[l + 1] = f[l + 1]
      BY <3>1, <3>2
    <3> QED
      BY <3>1, <3>3
  <2>3. \A l \in Nat : l \in E
    <3> HIDE DEF E
    <3> QED
      BY <2>1, <2>2, InductionOver
  <2> QED
    BY <2>3
<1>12. \A l \in Nat, n \in Nodes : f[l + 1][n] = Joined(d.kids[n], f[l])
  <2> SUFFICES ASSUME NEW l \in Nat, NEW n \in Nodes PROVE f[l + 1][n] = Joined(d.kids[n], f[l])
    OBVIOUS
  <2> DEFINE b == f[l]
  <2>1. f[l + 1] = step[b] /\ b \in D
    BY <1>5
  <2> HIDE DEF b
  <2>2. f[l + 1] = [x \in Nodes |-> Joined(d.kids[x], b)]
    BY <1>2, <2>1
  <2>3. f[l + 1][n] = Joined(d.kids[n], b)
    BY <2>2
  <2> QED
    BY <2>3 DEF b
<1> QED
  BY <1>5, <1>9, <1>11, <1>12, ConstantsAssumption DEF D

(* On a flat tree they are the entries of its root.                        *)
LEMMA LeavesOfFlat ==
  ASSUME NEW d, KidsTyped(d.kids), d.top \in Nodes, d.kids[d.top] \in Seq(Pages)
  PROVE  LeavesBelow(d)[d.top] = d.kids[d.top]
<1>1. PICK f \in [Nat -> Below] : /\ LeavesBelow(d) = f[MaxLevel]
                                  /\ \A l \in Nat, n \in Nodes : f[l + 1][n] = Joined(d.kids[n], f[l])
  BY LeavesExist
<1> DEFINE l == MaxLevel - 1
<1>2. l \in Nat /\ l + 1 = MaxLevel
  BY ConstantsAssumption
<1> HIDE DEF l
<1>3. LeavesBelow(d)[d.top] = Joined(d.kids[d.top], f[l]) /\ f[l] \in Below
  BY <1>1, <1>2
<1> QED
  BY <1>3, JoinedPages

(* What a traversal has found below each node that it is through with.     *)
(* Each node was met once, at its level.                                   *)
Through(d, C, L, level) ==
  /\ C \subseteq Nodes /\ L \in Below /\ level \in [Nodes -> 1..MaxLevel]
  /\ \A c \in C :
       /\ L[c] = Joined(d.kids[c], L)
       /\ \A i \in DOMAIN d.kids[c] :
            d.kids[c][i] \in Nodes => d.kids[c][i] \in C /\ level[d.kids[c][i]] = level[c] + 1

LEMMA ThroughIsLeaves ==
  ASSUME NEW d, KidsTyped(d.kids), NEW C, NEW L, NEW level, Through(d, C, L, level),
         NEW n \in C, level[n] = 1
  PROVE  LeavesBelow(d)[n] = L[n]
<1>1. PICK f \in [Nat -> Below] : /\ LeavesBelow(d) = f[MaxLevel]
                                  /\ \A l \in Nat, x \in Nodes : f[l + 1][x] = Joined(d.kids[x], f[l])
  BY LeavesExist
<1>t. /\ C \subseteq Nodes /\ L \in Below /\ level \in [Nodes -> 1..MaxLevel] /\ MaxLevel \in Nat
      /\ \A c \in C : L[c] = Joined(d.kids[c], L)
  BY ConstantsAssumption DEF Through
<1> DEFINE E == {l \in Nat : \A c \in C : l + level[c] >= MaxLevel + 1 => f[l][c] = L[c]}
<1>2. 0 \in E
  BY <1>t
<1>3. ASSUME NEW l \in Nat, l \in E PROVE l + 1 \in E
  <2> SUFFICES ASSUME NEW c \in C, (l + 1) + level[c] >= MaxLevel + 1 PROVE f[l + 1][c] = L[c]
    OBVIOUS
  <2>1. \A x \in C : l + level[x] >= MaxLevel + 1 => f[l][x] = L[x]
    BY <1>3
  <2>2. PICK X : d.kids[c] \in Seq(X)
    BY <1>t DEF KidsTyped
  <2>3. f[l] \in Below
    BY <1>1
  <2>4. \A i \in 1..Len(d.kids[c]) : Piece(d.kids[c][i], f[l]) = Piece(d.kids[c][i], L)
    <3> SUFFICES ASSUME NEW i \in 1..Len(d.kids[c]), d.kids[c][i] \in Nodes
                 PROVE  Piece(d.kids[c][i], f[l]) = Piece(d.kids[c][i], L)
      BY DEF Piece
    <3> DEFINE x == d.kids[c][i]
    <3>1. i \in DOMAIN d.kids[c]
      BY <2>2
    <3>2. x \in C /\ level[x] = level[c] + 1
      BY <3>1 DEF Through
    <3> HIDE DEF x
    <3>3. l + level[x] >= MaxLevel + 1
      BY <1>t, <3>2
    <3>4. f[l][x] = L[x]
      BY <2>1, <3>2, <3>3
    <3> QED
      BY <3>4 DEF Piece, x
  <2>5. Joined(d.kids[c], f[l]) = Joined(d.kids[c], L)
    <3> DEFINE s == d.kids[c]
               b == f[l]
    <3>1. s \in Seq(X) /\ b \in Below /\ L \in Below /\ \A i \in 1..Len(s) : Piece(s[i], b) = Piece(s[i], L)
      BY <1>t, <2>2, <2>3, <2>4
    <3> HIDE DEF s, b
    <3>2. Joined(s, b) = Joined(s, L)
      BY <3>1, JoinedAlike
    <3> QED
      BY <3>2 DEF s, b
  <2> QED
    BY <1>1, <1>t, <2>5
<1>4. \A l \in Nat : l \in E
  <2> HIDE DEF E
  <2> QED
    BY <1>2, <1>3, InductionOver
<1> QED
  BY <1>1, <1>4, <1>t

-----------------------------------------------------------------------------
(* A document between two calls.                                           *)

Fields == {"top", "kids", "parent", "attr", "count", "all", "pos", "invalid", "pushed",
           "made", "exc", "recovered", "visited", "seen"}

Typed(d) ==
  /\ DOMAIN d = Fields /\ d.made \in Nat
  /\ d.kids \in [Nodes -> Seq(Objects(d) \cup {Junk, Direct})]
  /\ DOMAIN d.parent = Objects(d) /\ DOMAIN d.attr = Objects(d)
  /\ d.count \in [Nodes -> Int]
  /\ d.all \in Seq(1..d.made) /\ IsInjective(d.all)
  /\ d.invalid \in BOOLEAN /\ d.recovered \in BOOLEAN

IsMap(f) == f = [x \in DOMAIN f |-> f[x]]

(* The tree is flat and the map is complete.                               *)
IsFlat(d) ==
  /\ IsMap(d.pos)
  /\ d.top \in Nodes /\ d.kids[d.top] = d.all
  /\ \A p \in ToSet(d.all) : d.parent[p] = d.top
  /\ DOMAIN d.pos = ToSet(d.all) /\ \A k \in DOMAIN d.all : d.pos[d.all[k]] = k - 1

Sound(d) ==
  /\ Typed(d)
  /\ d.all # <<>> \/ d.invalid => d.top \in Nodes
  /\ d.pos # NoMap => IsFlat(d)
  /\ d.all # <<>> => d.all = LeavesBelow(d)[d.top]

LEMMA KidsAreTyped == ASSUME NEW d, Typed(d) PROVE KidsTyped(d.kids)
  BY DEF Typed, KidsTyped

LEMMA AllIsPages ==
  ASSUME NEW m \in Nat, NEW s \in Seq(1..m)
  PROVE  s \in Seq(Pages)
<1>1. 1..m \subseteq Pages
  BY DEF Pages
<1> QED
  BY <1>1

LEMMA EmptyVector == \A m : <<>> \in Seq(1..m) /\ IsInjective(<<>>)
  BY DEF IsInjective

LEMMA FlatIsSound ==
  ASSUME NEW d, Typed(d), IsFlat(d)
  PROVE  Sound(d)
<1>1. d.kids[d.top] \in Seq(Pages) /\ d.top \in Nodes
  BY AllIsPages DEF Typed, IsFlat
<1>2. LeavesBelow(d)[d.top] = d.all
  BY <1>1, KidsAreTyped, LeavesOfFlat DEF IsFlat
<1> QED
  BY <1>2 DEF Sound, IsFlat

LEMMA LeavesSame ==
  ASSUME NEW d, NEW e, e.kids = d.kids
  PROVE  LeavesBelow(e) = LeavesBelow(d)
  BY DEF LeavesBelow

(* What differs only in what has no part in it.                            *)
Alike(d, e) ==
  /\ DOMAIN e = Fields /\ DOMAIN e.attr = DOMAIN d.attr /\ e.invalid \in BOOLEAN
  /\ e.kids = d.kids /\ e.parent = d.parent /\ e.count = d.count /\ e.all = d.all
  /\ e.pos = d.pos /\ e.made = d.made /\ e.recovered = d.recovered
  /\ e.top = d.top /\ (e.invalid => d.invalid)

LEMMA AlikeIsSound ==
  ASSUME NEW d, NEW e, Alike(d, e)
  PROVE  /\ Typed(d) => Typed(e)
         /\ Sound(d) => Sound(e)
         /\ IsFlat(d) => IsFlat(e)
<1>1. Typed(d) => Typed(e)
  BY DEF Alike, Typed, Objects
<1>2. IsFlat(d) => IsFlat(e)
  BY DEF Alike, IsFlat
<1>3. LeavesBelow(e) = LeavesBelow(d)
  BY LeavesSame DEF Alike
<1> QED
  BY <1>1, <1>2, <1>3 DEF Alike, Sound

LEMMA SmallSteps ==
  ASSUME NEW d, Typed(d)
  PROVE  /\ \A e : Alike(d, Throw(d, e))
         /\ \A b : Alike(d, PushCached(d, b))
         /\ Alike(d, [d EXCEPT !.invalid = FALSE])
         /\ Alike(d, [d EXCEPT !.exc = "none"])
         /\ Alike(d, [d EXCEPT !.visited = {}, !.seen = {}])
<1>1. \A e : Alike(d, Throw(d, e))
  BY DEF Alike, Throw, Typed, Fields
<1>2. \A b : Alike(d, PushCached(d, b))
  <2> DEFINE new == Pushed(d)
  <2>1. DOMAIN new = DOMAIN d.attr
    BY DEF Pushed
  <2> HIDE DEF new
  <2>2. Alike(d, [d EXCEPT !.attr = new, !.pushed = TRUE])
    BY <2>1 DEF Alike, Typed, Fields
  <2>3. Alike(d, d)
    BY DEF Alike, Typed
  <2> QED
    BY <2>2, <2>3 DEF PushCached, new
<1>3. Alike(d, [d EXCEPT !.invalid = FALSE])
  BY DEF Alike, Typed, Fields
<1>4. Alike(d, [d EXCEPT !.exc = "none"])
  BY DEF Alike, Typed, Fields
<1>5. Alike(d, [d EXCEPT !.visited = {}, !.seen = {}])
  BY DEF Alike, Typed, Fields
<1> QED
  BY <1>1, <1>2, <1>3, <1>4, <1>5

-----------------------------------------------------------------------------
(* Flattening: whatever it throws, it has made the tree flat.              *)

LEMMA PositionsFound ==
  ASSUME NEW d, NEW s, NEW m, s \in Seq(1..m), IsInjective(s), DOMAIN d.pos = {}
  PROVE  DOMAIN Positions(d, s) = ToSet(s) /\ \A k \in DOMAIN s : Positions(d, s)[s[k]] = k - 1
<1>1. DOMAIN Positions(d, s) = ToSet(s)
  BY DEF Positions
<1>2. ASSUME NEW k \in DOMAIN s PROVE Positions(d, s)[s[k]] = k - 1
  <2>1. s[k] \in ToSet(s)
    BY DEF ToSet
  <2>2. Positions(d, s)[s[k]] = (CHOOSE j \in DOMAIN s : s[j] = s[k]) - 1
    BY <2>1 DEF Positions
  <2>3. \A j \in DOMAIN s : s[j] = s[k] => j = k
    BY DEF IsInjective
  <2>4. (CHOOSE j \in DOMAIN s : s[j] = s[k]) = k
    BY <2>3
  <2> QED
    BY <2>2, <2>4
<1> QED
  BY <1>1, <1>2

LEMMA FlattenedPushed ==
  ASSUME NEW d, Sound(d), d.top \in Nodes
  PROVE  LET e == FlattenPushed(d) IN Typed(e) /\ IsFlat(e) /\ e.made = d.made
<1> DEFINE s == d.all
           twice == {k \in DOMAIN s : s[k] \in DOMAIN d.pos \cup ToSet(SubSeq(s, 1, k - 1))}
<1>t. Typed(d) /\ s \in Seq(1..d.made) /\ IsInjective(s) /\ d.made \in Nat
  BY DEF Sound, Typed
<1>1. ASSUME NEW k \in DOMAIN s PROVE s[k] \notin ToSet(SubSeq(s, 1, k - 1))
  <2>1. k \in 1..Len(s)
    BY <1>t
  <2>2. \A j \in 1..(k - 1) : j \in DOMAIN s /\ SubSeq(s, 1, k - 1)[j] = s[j] /\ j # k
    BY <1>t, <2>1
  <2>3. DOMAIN SubSeq(s, 1, k - 1) = 1..(k - 1)
    BY <1>t, <2>1
  <2> QED
    BY <1>t, <2>2, <2>3 DEF ToSet, IsInjective
<1>2. CASE d.pos = NoMap \/ s = <<>>
  <2>1. DOMAIN d.pos = {}
    <3>1. CASE d.pos = NoMap
      BY <3>1 DEF NoMap
    <3>2. CASE d.pos # NoMap /\ s = <<>>
      BY <3>2 DEF Sound, IsFlat, ToSet
    <3> QED
      BY <1>2, <3>1, <3>2
  <2>2. twice = {}
    BY <1>1, <2>1
  <2> DEFINE A == Adopted(d, s)
             pos == Positions(d, s)
             f == [Enter(d, s) EXCEPT !.kids[d.top] = s]
  <2>3. FlattenPushed(d) = Counted(f)
    BY <2>2 DEF FlattenPushed
  <2>4. DOMAIN pos = ToSet(s) /\ \A k \in DOMAIN s : pos[s[k]] = k - 1
    BY <1>t, <2>1, PositionsFound
  <2>5. DOMAIN A = DOMAIN d.parent /\ \A p \in ToSet(s) : p \in DOMAIN d.parent => A[p] = d.top
    BY DEF Adopted
  <2>6. IsMap(pos)
    BY DEF Positions, IsMap
  <2> HIDE DEF pos, A
  <2>7. \A p \in ToSet(s) : A[p] = d.top
    <3>1. \A p \in ToSet(s) : p \in 1..d.made
      BY <1>t DEF ToSet
    <3> QED
      BY <1>t, <2>5, <3>1 DEF Typed, Objects
  <2>8. /\ DOMAIN f = Fields /\ f.made = d.made /\ f.top = d.top /\ f.all = s /\ f.attr = d.attr
        /\ f.parent = A /\ f.pos = pos /\ f.kids = [d.kids EXCEPT ![d.top] = s]
        /\ f.count = d.count /\ f.invalid = d.invalid /\ f.recovered = d.recovered
    BY <1>t DEF Typed, Fields, Enter, A, pos
  <2> HIDE DEF f
  <2>9. f.kids \in [Nodes -> Seq(Objects(d) \cup {Junk, Direct})] /\ f.kids[d.top] = s
    <3>1. s \in Seq(Objects(d) \cup {Junk, Direct})
      BY <1>t DEF Objects
    <3>2. d.kids \in [Nodes -> Seq(Objects(d) \cup {Junk, Direct})]
      BY <1>t DEF Typed
    <3> HIDE DEF s
    <3> QED
      BY <2>8, <3>1, <3>2
  <2>10. Typed(f)
    BY <1>t, <2>5, <2>8, <2>9 DEF Typed, Objects
  <2>11. IsFlat(f)
    BY <2>4, <2>6, <2>7, <2>8, <2>9 DEF IsFlat
  <2> DEFINE g == [f EXCEPT !.count[d.top] = Len(s)]
  <2>12. Len(s) \in Int /\ d.count \in [Nodes -> Int]
    BY <1>t DEF Typed
  <2>13. /\ DOMAIN g = Fields /\ g.made = f.made /\ g.top = f.top /\ g.all = f.all /\ g.attr = f.attr
         /\ g.parent = f.parent /\ g.pos = f.pos /\ g.kids = f.kids
         /\ g.count = [f.count EXCEPT ![d.top] = Len(s)] /\ g.invalid = f.invalid /\ g.recovered = f.recovered
    BY <2>8 DEF Fields
  <2> HIDE DEF g
  <2>14. Typed(g) /\ IsFlat(g)
    <3>1. g.count \in [Nodes -> Int]
      BY <2>8, <2>12, <2>13
    <3>2. Typed(g)
      BY <2>10, <2>13, <3>1 DEF Typed, Objects
    <3>3. IsFlat(g)
      BY <2>11, <2>13 DEF IsFlat
    <3> QED
      BY <3>2, <3>3
  <2> DEFINE h == Throw(f, "count")
  <2>15. Typed(h) /\ IsFlat(h) /\ h.made = f.made
    BY <2>10, <2>11, AlikeIsSound, SmallSteps DEF Alike
  <2>16. Counted(f) \in {f, g, h}
    BY <2>8 DEF Counted, g, h
  <2> HIDE DEF h
  <2> QED
    BY <2>3, <2>8, <2>10, <2>11, <2>13, <2>14, <2>15, <2>16
<1>3. CASE d.pos # NoMap /\ s # <<>>
  <2>1. IsFlat(d)
    BY <1>3 DEF Sound
  <2>2. 1 \in twice /\ twice \subseteq Nat /\ \A k \in twice : 1 <= k
    <3>1. 1 \in DOMAIN s /\ DOMAIN s = 1..Len(s)
      BY <1>t, <1>3
    <3>2. s[1] \in DOMAIN d.pos
      BY <2>1, <3>1 DEF IsFlat, ToSet
    <3> QED
      BY <3>1, <3>2
  <2>3. Min(twice) = 1
    <3> HIDE DEF twice
    <3>1. \A x \in twice : (\A y \in twice : x <= y) <=> x = 1
      BY <2>2
    <3>2. Min(twice) = CHOOSE x \in twice : x = 1
      BY <3>1, Zenon DEF Min
    <3> QED
      BY <2>2, <3>2
  <2> DEFINE none == SubSeq(s, 1, 0)
             f == Enter(d, none)
  <2>4. FlattenPushed(d) = Throw(f, "duplicate")
    BY <2>2, <2>3 DEF FlattenPushed
  <2>5. ToSet(none) = {}
    <3>1. DOMAIN none = {}
      BY <1>t
    <3> QED
      BY <3>1 DEF ToSet
  <2> HIDE DEF none
  <2>6. DOMAIN Adopted(d, none) = DOMAIN d.parent /\ \A x \in DOMAIN d.parent : Adopted(d, none)[x] = d.parent[x]
    BY <2>5 DEF Adopted
  <2> DEFINE A == Adopted(d, none)
             pos == Positions(d, none)
  <2>7. IsMap(pos) /\ DOMAIN pos = DOMAIN d.pos /\ \A p \in DOMAIN d.pos : pos[p] = d.pos[p]
    BY <2>5 DEF Positions, IsMap
  <2>8. /\ DOMAIN f = Fields /\ f.made = d.made /\ f.top = d.top /\ f.all = s /\ f.attr = d.attr
        /\ f.parent = A /\ f.pos = pos /\ f.kids = d.kids
        /\ f.count = d.count /\ f.invalid = d.invalid /\ f.recovered = d.recovered
    BY <1>t DEF Typed, Fields, Enter
  <2> HIDE DEF f, A, pos
  <2>9. Typed(f)
    BY <1>t, <2>6, <2>8 DEF Typed, Objects, A
  <2>10. IsFlat(f)
    <3>1. \A p \in ToSet(s) : p \in DOMAIN d.parent
      BY <1>t DEF ToSet, Typed, Objects
    <3>2. \A p \in ToSet(s) : f.parent[p] = d.top
      BY <2>1, <2>6, <2>8, <3>1 DEF IsFlat, A
    <3>3. \A k \in DOMAIN s : s[k] \in DOMAIN d.pos /\ d.pos[s[k]] = k - 1
      BY <2>1 DEF IsFlat, ToSet
    <3> QED
      BY <2>1, <2>7, <2>8, <3>2, <3>3 DEF IsFlat
  <2> QED
    BY <2>4, <2>8, <2>9, <2>10, AlikeIsSound, SmallSteps DEF Alike
<1> QED
  BY <1>2, <1>3

LEMMA FlattenedCached ==
  ASSUME NEW d, Sound(d), d.top \in Nodes
  PROVE  LET e == FlattenCached(d) IN Typed(e) /\ IsFlat(e) /\ Sound(e) /\ e.made = d.made
<1> DEFINE b == PushCached(d, TRUE)
<1>1. Alike(d, b) /\ Sound(b)
  BY SmallSteps, AlikeIsSound DEF Sound
<1>2. b.top \in Nodes /\ b.made = d.made
  BY <1>1 DEF Alike
<1> HIDE DEF b
<1>3. LET e == FlattenPushed(b) IN Typed(e) /\ IsFlat(e) /\ e.made = d.made
  BY <1>1, <1>2, FlattenedPushed
<1> QED
  BY <1>3, FlatIsSound DEF FlattenCached, b

-----------------------------------------------------------------------------
(* Inserting and erasing on a flat tree.                                   *)

NumberedTo(f, t, k) ==
  DOMAIN f = ToSet(t) /\ \A j \in DOMAIN t : j <= k => f[t[j]] = j - 1
Numbered(f, t) ==
  DOMAIN f = ToSet(t) /\ IsMap(f) /\ \A j \in DOMAIN t : f[t[j]] = j - 1

LEMMA NumbersRight ==
  ASSUME NEW Y, NEW e, e.all \in Seq(Y), IsInjective(e.all),
         NEW k, k \in Nat, NumberedTo(e.pos, e.all, k)
  PROVE  Numbered(Renumbered(e, k), e.all)
<1> DEFINE t == e.all
<1>t. t \in Seq(Y) /\ IsInjective(t) /\ DOMAIN e.pos = ToSet(t)
      /\ \A j \in DOMAIN t : j <= k => e.pos[t[j]] = j - 1
  BY DEF NumberedTo
<1>1. DOMAIN Renumbered(e, k) = ToSet(t) /\ IsMap(Renumbered(e, k))
  BY <1>t DEF Renumbered, IsMap
<1>2. ASSUME NEW j \in DOMAIN t PROVE Renumbered(e, k)[t[j]] = j - 1
  <2> DEFINE J == (k + 1)..Len(t)
             x == t[j]
  <2>1. DOMAIN t = 1..Len(t) /\ J \subseteq DOMAIN t /\ x \in DOMAIN e.pos
    BY <1>t DEF ToSet
  <2>2. Renumbered(e, k)[x] = IF \E i \in J : t[i] = x THEN (CHOOSE i \in J : t[i] = x) - 1 ELSE e.pos[x]
    BY <2>1 DEF Renumbered
  <2>3. \A i \in DOMAIN t : t[i] = x => i = j
    BY <1>t DEF IsInjective
  <2> HIDE DEF x, J
  <2>4. CASE j \in J
    <3>1. \A i \in J : t[i] = x <=> i = j
      BY <2>1, <2>3 DEF x
    <3>2. (CHOOSE i \in J : t[i] = x) = j
      BY <2>4, <3>1
    <3> QED
      BY <2>2, <2>4, <3>1, <3>2 DEF x
  <2>5. CASE j \notin J
    <3>1. ~\E i \in J : t[i] = x
      BY <2>1, <2>3, <2>5
    <3>2. j <= k
      BY <2>1, <2>5 DEF J
    <3> QED
      BY <1>t, <2>2, <3>1, <3>2 DEF x
  <2> QED
    BY <2>4, <2>5
<1> QED
  BY <1>1, <1>2 DEF Numbered

LEMMA InsertFacts ==
  ASSUME NEW X, NEW s \in Seq(X), NEW p \in X, NEW i \in 0..Len(s)
  PROVE  LET t == InsertAt(s, i + 1, p)
         IN /\ t \in Seq(X) /\ Len(t) = Len(s) + 1 /\ t[i + 1] = p
            /\ \A j \in 1..i : t[j] = s[j]
            /\ \A j \in (i + 2)..(Len(s) + 1) : t[j] = s[j - 1]
            /\ ToSet(t) = ToSet(s) \cup {p}
            /\ IsInjective(s) /\ p \notin ToSet(s) => IsInjective(t)
<1> DEFINE t == InsertAt(s, i + 1, p)
           u == SubSeq(s, 1, i)
           v == SubSeq(s, i + 1, Len(s))
           n == Len(s)
<1>1. /\ u \in Seq(X) /\ Len(u) = i /\ v \in Seq(X) /\ Len(v) = n - i /\ n \in Nat /\ i \in Nat /\ i <= n
      /\ \A j \in 1..i : u[j] = s[j]
      /\ \A j \in 1..(n - i) : v[j] = s[i + j]
  OBVIOUS
<1> DEFINE w == u \o <<p>>
<1>2. t = w \o v
  <2>1. (i + 1) - 1 = i
    OBVIOUS
  <2> QED
    BY <2>1, Zenon DEF InsertAt
<1> HIDE DEF u, v, t
<1>w. w \in Seq(X) /\ Len(w) = i + 1 /\ w[i + 1] = p /\ \A j \in 1..i : w[j] = u[j]
  BY <1>1
<1> HIDE DEF w
<1>3. /\ t \in Seq(X) /\ Len(t) = n + 1 /\ t[i + 1] = p
      /\ \A j \in 1..i : t[j] = u[j]
      /\ \A j \in (i + 2)..(n + 1) : t[j] = v[j - i - 1]
  BY <1>1, <1>2, <1>w
<1>4. \A j \in 1..i : t[j] = s[j]
  BY <1>1, <1>3
<1>5. \A j \in (i + 2)..(n + 1) : t[j] = s[j - 1]
  <2> SUFFICES ASSUME NEW j \in (i + 2)..(n + 1) PROVE t[j] = s[j - 1]
    OBVIOUS
  <2>1. j - i - 1 \in 1..(n - i) /\ i + (j - i - 1) = j - 1
    BY <1>1
  <2> QED
    BY <1>1, <1>3, <2>1
<1>6. DOMAIN t = 1..(n + 1) /\ DOMAIN s = 1..n
  BY <1>3
<1>7. \A j \in 1..(n + 1) : j \in 1..i \/ j = i + 1 \/ j \in (i + 2)..(n + 1)
  BY <1>1
<1>8. \A j \in (i + 2)..(n + 1) : j - 1 \in DOMAIN s
  BY <1>1, <1>6
<1>9. \A j \in 1..i : j \in DOMAIN s
  BY <1>1, <1>6
<1>10. ToSet(t) = ToSet(s) \cup {p}
  <2>1. \A j \in DOMAIN t : t[j] \in ToSet(s) \cup {p}
    BY <1>3, <1>4, <1>5, <1>6, <1>7, <1>8, <1>9 DEF ToSet
  <2>2. \A j \in DOMAIN s : s[j] \in ToSet(t)
    <3> SUFFICES ASSUME NEW j \in DOMAIN s PROVE s[j] \in ToSet(t)
      OBVIOUS
    <3>1. CASE j <= i
      BY <1>1, <1>4, <1>6, <3>1 DEF ToSet
    <3>2. CASE j > i
      <4>1. j + 1 \in (i + 2)..(n + 1) /\ (j + 1) - 1 = j /\ j + 1 \in DOMAIN t
        BY <1>1, <1>6, <3>2
      <4> QED
        BY <1>5, <4>1 DEF ToSet
    <3> QED
      BY <1>1, <1>6, <3>1, <3>2
  <2>3. p \in ToSet(t)
    BY <1>1, <1>3, <1>6 DEF ToSet
  <2> QED
    BY <2>1, <2>2, <2>3 DEF ToSet
<1>11. ASSUME IsInjective(s), p \notin ToSet(s) PROVE IsInjective(t)
  <2>1. \A j \in DOMAIN t : j # i + 1 => t[j] \in ToSet(s)
    BY <1>4, <1>5, <1>6, <1>7, <1>8, <1>9 DEF ToSet
  <2>2. SUFFICES ASSUME NEW j \in DOMAIN t, NEW k \in DOMAIN t, t[j] = t[k] PROVE j = k
    BY DEF IsInjective
  <2>3. CASE j = i + 1 \/ k = i + 1
    BY <1>3, <1>11, <2>1, <2>2, <2>3
  <2>4. CASE j # i + 1 /\ k # i + 1
    <3> DEFINE o(x) == IF x <= i THEN x ELSE x - 1
    <3>1. \A x \in DOMAIN t : x # i + 1 => o(x) \in DOMAIN s /\ t[x] = s[o(x)]
      <4> SUFFICES ASSUME NEW x \in DOMAIN t, x # i + 1 PROVE o(x) \in DOMAIN s /\ t[x] = s[o(x)]
        OBVIOUS
      <4>1. x \in 1..i \/ x \in (i + 2)..(n + 1)
        BY <1>6, <1>7
      <4>2. CASE x \in 1..i
        <5>1. o(x) = x
          BY <4>2
        <5> QED
          BY <1>4, <1>9, <4>2, <5>1
      <4>3. CASE x \in (i + 2)..(n + 1)
        <5>1. o(x) = x - 1
          BY <1>1, <4>3
        <5> QED
          BY <1>5, <1>8, <4>3, <5>1
      <4> QED
        BY <4>1, <4>2, <4>3
    <3>2. o(j) = o(k)
      <4> HIDE DEF o
      <4> QED
        BY <1>11, <2>2, <2>4, <3>1 DEF IsInjective
    <3> QED
      BY <1>1, <1>6, <1>7, <2>4, <3>2
  <2> QED
    BY <2>3, <2>4
<1> QED
  BY <1>3, <1>4, <1>5, <1>10, <1>11 DEF t

LEMMA RemoveFacts ==
  ASSUME NEW X, NEW s \in Seq(X), NEW k \in 1..Len(s), IsInjective(s)
  PROVE  LET t == RemoveAt(s, k)
         IN /\ t \in Seq(X) /\ Len(t) = Len(s) - 1
            /\ \A j \in 1..(k - 1) : t[j] = s[j]
            /\ \A j \in k..(Len(s) - 1) : t[j] = s[j + 1]
            /\ ToSet(t) = ToSet(s) \ {s[k]}
            /\ IsInjective(t)
<1> DEFINE t == RemoveAt(s, k)
           u == SubSeq(s, 1, k - 1)
           v == SubSeq(s, k + 1, Len(s))
           n == Len(s)
           o(x) == IF x < k THEN x ELSE x + 1
<1>1. /\ u \in Seq(X) /\ Len(u) = k - 1 /\ v \in Seq(X) /\ Len(v) = n - k /\ n \in Nat /\ k \in 1..n
      /\ \A j \in 1..(k - 1) : u[j] = s[j]
      /\ \A j \in 1..(n - k) : v[j] = s[k + j]
  OBVIOUS
<1>2. t = u \o v
  BY DEF RemoveAt
<1> HIDE DEF u, v, t
<1>3. /\ t \in Seq(X) /\ Len(t) = n - 1
      /\ \A j \in 1..(k - 1) : t[j] = u[j]
      /\ \A j \in k..(n - 1) : t[j] = v[j - k + 1]
  <2>0. u \in Seq(X) /\ v \in Seq(X)
    BY <1>1
  <2>1. t \in Seq(X) /\ Len(t) = Len(u) + Len(v)
    BY ONLY <1>2, <2>0
  <2>2. \A j \in 1..(Len(u) + Len(v)) : t[j] = IF j <= Len(u) THEN u[j] ELSE v[j - Len(u)]
    BY ONLY <1>2, <2>0
  <2>3. Len(t) = n - 1
    BY <1>1, <2>1
  <2>4. \A j \in 1..(k - 1) : t[j] = u[j]
    BY <1>1, <2>2
  <2>5. ASSUME NEW j \in k..(n - 1) PROVE t[j] = v[j - k + 1]
    <3>1. /\ j \in 1..(Len(u) + Len(v)) /\ ~(j <= Len(u)) /\ j - Len(u) = j - k + 1
      BY <1>1
    <3> QED
      BY <2>2, <3>1
  <2> QED
    BY <2>1, <2>3, <2>4, <2>5
<1>4. \A j \in 1..(k - 1) : t[j] = s[j]
  BY <1>1, <1>3
<1>5. \A j \in k..(n - 1) : t[j] = s[j + 1]
  <2> SUFFICES ASSUME NEW j \in k..(n - 1) PROVE t[j] = s[j + 1]
    OBVIOUS
  <2>1. j - k + 1 \in 1..(n - k) /\ k + (j - k + 1) = j + 1
    BY <1>1
  <2> QED
    BY <1>1, <1>3, <2>1
<1>6. DOMAIN t = 1..(n - 1) /\ DOMAIN s = 1..n
  BY <1>3
<1>7. \A x \in DOMAIN t : o(x) \in DOMAIN s /\ t[x] = s[o(x)] /\ o(x) # k
  <2> SUFFICES ASSUME NEW x \in DOMAIN t PROVE o(x) \in DOMAIN s /\ t[x] = s[o(x)] /\ o(x) # k
    OBVIOUS
  <2>1. CASE x < k
    <3>1. o(x) = x /\ x \in 1..(k - 1)
      BY <1>1, <1>6, <2>1
    <3> QED
      BY <1>1, <1>4, <1>6, <3>1
  <2>2. CASE ~(x < k)
    <3>1. o(x) = x + 1 /\ x \in k..(n - 1)
      BY <1>1, <1>6, <2>2
    <3> QED
      BY <1>1, <1>5, <1>6, <3>1
  <2> QED
    BY <2>1, <2>2
<1>8. \A x \in DOMAIN t, y \in DOMAIN t : o(x) = o(y) => x = y
  BY <1>1, <1>6
<1>9. \A y \in DOMAIN s : y # k => \E x \in DOMAIN t : o(x) = y
  <2> SUFFICES ASSUME NEW y \in DOMAIN s, y # k PROVE \E x \in DOMAIN t : o(x) = y
    OBVIOUS
  <2> DEFINE x == IF y < k THEN y ELSE y - 1
  <2>1. x \in DOMAIN t /\ o(x) = y
    BY <1>1, <1>6
  <2> HIDE DEF x
  <2> QED
    BY <2>1
<1> HIDE DEF o
<1>10. ToSet(t) = ToSet(s) \ {s[k]}
  <2>1. \A x \in DOMAIN t : t[x] \in ToSet(s) \ {s[k]}
    BY <1>1, <1>6, <1>7 DEF ToSet, IsInjective
  <2>2. \A y \in DOMAIN s : s[y] # s[k] => s[y] \in ToSet(t)
    BY <1>7, <1>9 DEF ToSet
  <2> QED
    BY <2>1, <2>2 DEF ToSet
<1>11. IsInjective(t)
  BY <1>7, <1>8 DEF IsInjective
<1> QED
  BY <1>3, <1>4, <1>5, <1>10, <1>11 DEF t

LEMMA InsertedIsFlat ==
  ASSUME NEW d, Typed(d), IsFlat(d), NEW p \in 1..d.made, p \notin DOMAIN d.pos, NEW i \in 0..Len(d.all)
  PROVE  LET e == Inserted(d, p, i) IN Typed(e) /\ IsFlat(e) /\ e.made = d.made
<1> DEFINE s == d.all
           t == InsertAt(s, i + 1, p)
           pos == Put(d.pos, p, i)
           X == Objects(d) \cup {Junk, Direct}
           Y == 1..d.made
           e == [d EXCEPT !.parent[p] = d.top,
                          !.kids[d.top] = InsertAt(@, i + 1, p),
                          !.count[d.top] = Len(d.kids[d.top]) + 1,
                          !.all = InsertAt(@, i + 1, p),
                          !.pos = Put(@, p, i)]
           new == Renumbered(e, i + 1)
           g == [e EXCEPT !.pos = new]
<1>1. /\ d.made \in Nat /\ s \in Seq(1..d.made) /\ IsInjective(s) /\ i \in 0..Len(s)
      /\ d.top \in Nodes /\ d.kids[d.top] = s /\ DOMAIN d.pos = ToSet(s) /\ p \notin ToSet(s)
      /\ Len(s) + 1 \in Int
  BY DEF Typed, IsFlat
<1>y. s \in Seq(Y) /\ p \in Y
  BY <1>1
<1>2. /\ t \in Seq(1..d.made) /\ Len(t) = Len(s) + 1 /\ t[i + 1] = p
      /\ \A j \in 1..i : t[j] = s[j]
      /\ ToSet(t) = ToSet(s) \cup {p} /\ IsInjective(t)
  <2> HIDE DEF s, Y
  <2>1. t \in Seq(Y) /\ Len(t) = Len(s) + 1 /\ t[i + 1] = p /\ (\A j \in 1..i : t[j] = s[j])
        /\ ToSet(t) = ToSet(s) \cup {p} /\ IsInjective(t)
    <3>1. s \in Seq(Y) /\ p \in Y /\ i \in 0..Len(s) /\ IsInjective(s) /\ p \notin ToSet(s)
      BY <1>1, <1>y
    <3> QED
      BY ONLY <3>1, InsertFacts
  <2> QED
    BY <2>1 DEF Y
<1>3. /\ DOMAIN e = Fields /\ e.made = d.made /\ e.top = d.top /\ e.all = t /\ e.attr = d.attr
      /\ e.parent = [d.parent EXCEPT ![p] = d.top] /\ e.pos = pos /\ e.kids = [d.kids EXCEPT ![d.top] = t]
      /\ e.count = [d.count EXCEPT ![d.top] = Len(s) + 1]
      /\ e.invalid = d.invalid /\ e.recovered = d.recovered
  BY <1>1 DEF Typed, Fields
<1> HIDE DEF e, s, t
<1>4. DOMAIN pos = ToSet(t) /\ \A j \in DOMAIN t : j <= i + 1 => pos[t[j]] = j - 1
  <2>1. DOMAIN pos = ToSet(t)
    BY <1>1, <1>2 DEF Put
  <2>2. pos[p] = i /\ \A q \in ToSet(s) : pos[q] = d.pos[q]
    BY <1>1 DEF Put
  <2>3. \A j \in DOMAIN s : s[j] \in ToSet(s) /\ d.pos[s[j]] = j - 1
    BY DEF IsFlat, ToSet, s
  <2> HIDE DEF pos
  <2> SUFFICES ASSUME NEW j \in DOMAIN t, j <= i + 1 PROVE pos[t[j]] = j - 1
    BY <2>1
  <2>4. CASE j = i + 1
    BY <1>1, <1>2, <2>2, <2>4
  <2>5. CASE j # i + 1
    <3>1. j \in 1..i /\ j \in DOMAIN s
      BY <1>1, <1>2, <2>5
    <3>2. t[j] = s[j]
      <4>1. \A l \in 1..i : t[l] = s[l]
        BY ONLY <1>2
      <4> QED
        BY ONLY <3>1, <4>1
    <3>3. pos[s[j]] = d.pos[s[j]] /\ d.pos[s[j]] = j - 1
      BY ONLY <2>2, <2>3, <3>1
    <3> QED
      BY <3>2, <3>3
  <2> QED
    BY <2>4, <2>5
<1> HIDE DEF pos
<1>5. DOMAIN new = ToSet(t) /\ IsMap(new) /\ \A j \in DOMAIN t : new[t[j]] = j - 1
  <2>1. i + 1 \in Nat
    BY <1>1
  <2> DEFINE n == i + 1
  <2>2. NumberedTo(e.pos, e.all, n)
    BY <1>3, <1>4 DEF NumberedTo
  <2>3. e.all \in Seq(Y) /\ IsInjective(e.all) /\ n \in Nat
    BY <1>2, <1>3, <2>1
  <2> HIDE DEF Y, n
  <2>4. Numbered(Renumbered(e, n), e.all)
    BY <2>2, <2>3, NumbersRight
  <2> QED
    BY <1>3, <2>4 DEF n, Numbered
<1> HIDE DEF new
<1>6. /\ DOMAIN g = Fields /\ g.made = d.made /\ g.top = d.top /\ g.all = t /\ g.attr = d.attr
      /\ g.parent = e.parent /\ g.pos = new /\ g.kids = e.kids /\ g.count = e.count
      /\ g.invalid = d.invalid /\ g.recovered = d.recovered
  BY <1>3 DEF Fields
<1> HIDE DEF g
<1>7. g.kids \in [Nodes -> Seq(X)] /\ g.kids[d.top] = t
  <2>1. t \in Seq(X) /\ d.kids \in [Nodes -> Seq(X)]
    <3>1. t \in Seq(Y) /\ Y \subseteq X
      BY <1>2 DEF Objects
    <3>2. d.kids \in [Nodes -> Seq(X)]
      BY DEF Typed
    <3> HIDE DEF X, Y
    <3> QED
      BY <3>1, <3>2
  <2> HIDE DEF X
  <2> QED
    BY <1>1, <1>3, <1>6, <2>1
<1>8. g.count \in [Nodes -> Int]
  BY <1>1, <1>3, <1>6 DEF Typed
<1>9. DOMAIN g.parent = Objects(d) /\ \A q \in ToSet(t) : g.parent[q] = d.top
  <2>1. p \in DOMAIN d.parent /\ DOMAIN d.parent = Objects(d)
    BY DEF Typed, Objects
  <2>2. \A q \in ToSet(s) : q \in DOMAIN d.parent /\ d.parent[q] = d.top
    <3>1. \A q \in ToSet(s) : q \in 1..d.made
      BY <1>1 DEF ToSet
    <3> QED
      BY <2>1, <3>1 DEF Objects, IsFlat, s
  <2> QED
    BY <1>2, <1>3, <1>6, <2>1, <2>2
<1>10. Typed(g)
  BY <1>1, <1>2, <1>6, <1>7, <1>8, <1>9 DEF Typed, Objects
<1>11. IsFlat(g)
  BY <1>1, <1>5, <1>6, <1>7, <1>9 DEF IsFlat
<1>12. Inserted(d, p, i) = g
  BY DEF Inserted, g, e, new
<1> QED
  BY <1>6, <1>10, <1>11, <1>12

LEMMA ErasedIsFlat ==
  ASSUME NEW d, Typed(d), IsFlat(d), NEW p \in DOMAIN d.pos
  PROVE  LET e == ErasePage(d, p) IN Typed(e) /\ IsFlat(e) /\ e.made = d.made
<1> DEFINE s == d.all
           k == d.pos[p] + 1
           t == RemoveAt(s, k)
           pos == Restrict(d.pos, DOMAIN d.pos \ {p})
           X == Objects(d) \cup {Junk, Direct}
           Y == 1..d.made
           e == [d EXCEPT !.kids[d.top] = RemoveAt(@, k),
                          !.count[d.top] = Len(d.kids[d.top]) - 1,
                          !.all = RemoveAt(@, k),
                          !.pos = Restrict(@, DOMAIN @ \ {p})]
           new == Renumbered(e, k - 1)
           g == [e EXCEPT !.pos = new]
<1>1. /\ d.made \in Nat /\ s \in Seq(1..d.made) /\ IsInjective(s)
      /\ d.top \in Nodes /\ d.kids[d.top] = s /\ DOMAIN d.pos = ToSet(s)
      /\ \A j \in DOMAIN s : s[j] \in ToSet(s) /\ d.pos[s[j]] = j - 1
      /\ Len(s) - 1 \in Int
  BY DEF Typed, IsFlat, ToSet
<1>2. k \in 1..Len(s) /\ s[k] = p /\ k - 1 \in Nat
  <2>1. PICK j \in DOMAIN s : s[j] = p
    BY <1>1 DEF ToSet
  <2>2. j \in 1..Len(s) /\ d.pos[p] = j - 1
    BY <1>1, <2>1
  <2> QED
    BY <2>1, <2>2
<1> HIDE DEF k, s
<1>3. /\ t \in Seq(1..d.made) /\ Len(t) = Len(s) - 1
      /\ \A j \in 1..(k - 1) : t[j] = s[j]
      /\ ToSet(t) = ToSet(s) \ {p} /\ IsInjective(t)
  <2>1. s \in Seq(Y)
    BY <1>1
  <2> HIDE DEF Y
  <2>k. k \in 1..Len(s) /\ IsInjective(s)
    BY <1>1, <1>2
  <2>2. /\ t \in Seq(Y) /\ Len(t) = Len(s) - 1 /\ (\A j \in 1..(k - 1) : t[j] = s[j])
        /\ ToSet(t) = ToSet(s) \ {s[k]} /\ IsInjective(t)
    BY <2>1, <2>k, RemoveFacts
  <2> QED
    BY <1>2, <2>2 DEF Y
<1>4. /\ DOMAIN e = Fields /\ e.made = d.made /\ e.top = d.top /\ e.all = t /\ e.attr = d.attr
      /\ e.parent = d.parent /\ e.pos = pos /\ e.kids = [d.kids EXCEPT ![d.top] = t]
      /\ e.count = [d.count EXCEPT ![d.top] = Len(s) - 1]
      /\ e.invalid = d.invalid /\ e.recovered = d.recovered
  BY <1>1 DEF Typed, Fields, s
<1> HIDE DEF e, t
<1>5. DOMAIN pos = ToSet(t) /\ \A j \in DOMAIN t : j <= k - 1 => pos[t[j]] = j - 1
  <2>1. DOMAIN pos = ToSet(t) /\ \A q \in ToSet(t) : pos[q] = d.pos[q]
    BY <1>1, <1>3 DEF Restrict
  <2> HIDE DEF pos
  <2> SUFFICES ASSUME NEW j \in DOMAIN t, j <= k - 1 PROVE pos[t[j]] = j - 1
    BY <2>1
  <2>2. j \in 1..(k - 1) /\ j \in DOMAIN s
    <3>1. s \in Seq(Y) /\ t \in Seq(Y)
      BY <1>1, <1>3
    <3> QED
      BY <1>2, <1>3, <3>1
  <2>3. t[j] \in ToSet(t)
    BY DEF ToSet
  <2> QED
    BY <1>1, <1>3, <2>1, <2>2, <2>3
<1> HIDE DEF pos
<1>6. DOMAIN new = ToSet(t) /\ IsMap(new) /\ \A j \in DOMAIN t : new[t[j]] = j - 1
  <2> DEFINE n == k - 1
  <2>1. NumberedTo(e.pos, e.all, n)
    BY <1>4, <1>5 DEF NumberedTo
  <2>2. e.all \in Seq(Y) /\ IsInjective(e.all) /\ n \in Nat
    BY <1>2, <1>3, <1>4
  <2> HIDE DEF Y, n
  <2>3. Numbered(Renumbered(e, n), e.all)
    BY <2>1, <2>2, NumbersRight
  <2> QED
    BY <1>4, <2>3 DEF n, Numbered
<1> HIDE DEF new
<1>7. /\ DOMAIN g = Fields /\ g.made = d.made /\ g.top = d.top /\ g.all = t /\ g.attr = d.attr
      /\ g.parent = d.parent /\ g.pos = new /\ g.kids = e.kids /\ g.count = e.count
      /\ g.invalid = d.invalid /\ g.recovered = d.recovered
  BY <1>4 DEF Fields
<1> HIDE DEF g
<1>8. g.kids \in [Nodes -> Seq(X)] /\ g.kids[d.top] = t
  <2>1. t \in Seq(X) /\ d.kids \in [Nodes -> Seq(X)]
    <3>1. t \in Seq(Y) /\ Y \subseteq X
      BY <1>3 DEF Objects
    <3>2. d.kids \in [Nodes -> Seq(X)]
      BY DEF Typed
    <3> HIDE DEF X, Y
    <3> QED
      BY <3>1, <3>2
  <2> HIDE DEF X
  <2> QED
    BY <1>1, <1>4, <1>7, <2>1
<1>9. g.count \in [Nodes -> Int]
  BY <1>1, <1>4, <1>7 DEF Typed
<1>10. Typed(g)
  BY <1>1, <1>3, <1>7, <1>8, <1>9 DEF Typed, Objects
<1>11. \A q \in ToSet(t) : g.parent[q] = d.top
  BY <1>3, <1>7 DEF IsFlat, s
<1>12. IsFlat(g)
  BY <1>1, <1>6, <1>7, <1>8, <1>11 DEF IsFlat
<1>13. ErasePage(d, p) = g
  BY DEF ErasePage, g, e, new, k
<1> QED
  BY <1>7, <1>10, <1>12, <1>13

LEMMA NewPageFacts ==
  ASSUME NEW d, Typed(d), NEW parent, NEW attr
  PROVE  LET e == NewPage(d, parent, attr)
         IN /\ Typed(e) /\ e.made = d.made + 1 /\ (IsFlat(d) => IsFlat(e))
            /\ e.kids = d.kids /\ e.top = d.top /\ e.all = d.all /\ e.pos = d.pos
            /\ e.seen = d.seen /\ e.visited = d.visited /\ e.invalid = d.invalid
<1> DEFINE q == d.made + 1
           P == Put(d.parent, q, parent)
           A == Put(d.attr, q, attr)
           e == NewPage(d, parent, attr)
<1>1. d.made \in Nat /\ 1..q = 1..d.made \cup {q}
  BY DEF Typed
<1>2. Nodes \cup 1..q = Objects(d) \cup {q}
  BY <1>1 DEF Objects
<1>3. DOMAIN P = Objects(d) \cup {q} /\ DOMAIN A = Objects(d) \cup {q}
  BY DEF Typed, Put
<1>4. \A x \in Objects(d) : x # q => P[x] = d.parent[x]
  BY DEF Put, Typed
<1> HIDE DEF P, A
<1>5. /\ DOMAIN e = Fields /\ e.made = q /\ e.parent = P /\ e.attr = A
      /\ e.kids = d.kids /\ e.top = d.top /\ e.all = d.all /\ e.pos = d.pos
      /\ e.seen = d.seen /\ e.visited = d.visited /\ e.invalid = d.invalid
      /\ e.count = d.count /\ e.recovered = d.recovered
  BY DEF NewPage, Typed, Fields, P, A
<1> HIDE DEF e
<1>6. Objects(e) = Objects(d) \cup {q} /\ e.made \in Nat
  BY <1>1, <1>2, <1>5 DEF Objects
<1>7. e.all \in Seq(1..e.made) /\ IsInjective(e.all)
  <2> DEFINE X == 1..d.made
             Y == 1..q
  <2>1. d.all \in Seq(X) /\ IsInjective(d.all) /\ X \subseteq Y
    BY <1>1 DEF Typed
  <2> HIDE DEF X, Y
  <2>2. d.all \in Seq(Y)
    BY <2>1
  <2> QED
    BY <1>5, <2>1, <2>2 DEF Y
<1>8. e.kids \in [Nodes -> Seq(Objects(e) \cup {Junk, Direct})]
  <2> DEFINE X == Objects(d) \cup {Junk, Direct}
             Y == Objects(e) \cup {Junk, Direct}
  <2>1. d.kids \in [Nodes -> Seq(X)] /\ X \subseteq Y
    BY <1>6 DEF Typed
  <2> HIDE DEF X, Y
  <2>2. \A n \in Nodes : d.kids[n] \in Seq(Y)
    BY <2>1
  <2>3. d.kids \in [Nodes -> Seq(Y)]
    BY <2>1, <2>2
  <2> QED
    BY <1>5, <2>3 DEF Y
<1>9. Typed(e)
  BY <1>3, <1>5, <1>6, <1>7, <1>8 DEF Typed
<1>10. ASSUME IsFlat(d) PROVE IsFlat(e)
  <2>1. \A x \in ToSet(d.all) : x \in Objects(d) /\ x # q
    BY <1>1 DEF Typed, ToSet, Objects
  <2>2. \A x \in ToSet(d.all) : e.parent[x] = d.top
    BY <1>4, <1>5, <1>10, <2>1 DEF IsFlat
  <2> QED
    BY <1>5, <1>10, <2>2 DEF IsFlat
<1> QED
  BY <1>5, <1>9, <1>10 DEF e

-----------------------------------------------------------------------------
(* What is left of a call when the pages are known.                        *)

CallOK(c, m) ==
  \/ c[1] \in {"get", "update", "edit", "push", "find", "erase"}
  \/ c[1] = "insert" /\ c[2] \in 1..m \cup {Direct} /\ c[3] \in Int

LEMMA InsertObjectIsFlat ==
  ASSUME NEW d, Typed(d), IsFlat(d), NEW p \in 1..d.made, NEW i \in Int
  PROVE  LET e == InsertObject(d, p, i) IN Typed(e) /\ IsFlat(e)
<1> DEFINE f == CopyOf(d, p)
           q == d.made + 1
<1>1. Len(d.all) \in Nat /\ d.made \in Nat
  BY DEF Typed
<1>2. CASE i < 0 \/ i > Len(d.all)
  <2>1. InsertObject(d, p, i) = Throw(d, "range")
    BY <1>2 DEF InsertObject
  <2> QED
    BY <2>1, SmallSteps, AlikeIsSound
<1>3. CASE i \in 0..Len(d.all) /\ p \in DOMAIN d.pos
  <2>1. Typed(f) /\ IsFlat(f) /\ f.made = q /\ f.all = d.all /\ f.pos = d.pos
    BY NewPageFacts DEF CopyOf
  <2>2. q \in 1..q /\ \A x \in 1..d.made : x # q
    BY <1>1
  <2>3. \A x \in ToSet(d.all) : x \in 1..d.made
    BY DEF Typed, ToSet
  <2>4. q \notin DOMAIN d.pos
    BY <2>2, <2>3 DEF IsFlat
  <2>5. InsertObject(d, p, i) = Inserted(f, q, i)
    <3>1. ~(i < 0 \/ i > Len(d.all))
      BY <1>1, <1>3
    <3> QED
      BY <1>3, <3>1, Zenon DEF InsertObject
  <2> HIDE DEF f, q
  <2>6. q \in 1..f.made /\ q \notin DOMAIN f.pos /\ i \in 0..Len(f.all)
    BY <1>3, <2>1, <2>2, <2>4
  <2> QED
    BY <2>1, <2>5, <2>6, InsertedIsFlat
<1>4. CASE i \in 0..Len(d.all) /\ p \notin DOMAIN d.pos
  <2>1. InsertObject(d, p, i) = Inserted(d, p, i)
    BY <1>1, <1>4 DEF InsertObject
  <2> QED
    BY <1>4, <2>1, InsertedIsFlat
<1> QED
  BY <1>1, <1>2, <1>3, <1>4

LEMMA OnFlatIsSound ==
  ASSUME NEW c, NEW d, Typed(d), IsFlat(d), CallOK(c, d.made), c[1] \in {"insert", "find", "erase"}
  PROVE  Sound(OnFlat(c, d))
<1>1. CASE c[1] = "insert"
  <2>1. OnFlat(c, d) = InsertPage(d, c[2], c[3]) /\ c[3] \in Int /\ c[2] \in 1..d.made \cup {Direct}
    BY <1>1 DEF OnFlat, CallOK
  <2>2. CASE c[2] = Direct
    <3> DEFINE f == NewPage(d, None, None)
               q == d.made + 1
    <3>1. Typed(f) /\ IsFlat(f) /\ f.made = q
      BY NewPageFacts
    <3>2. q \in 1..q
      BY DEF Typed
    <3>3. OnFlat(c, d) = InsertObject(f, q, c[3])
      BY <2>1, <2>2 DEF InsertPage
    <3> HIDE DEF f, q
    <3>4. q \in 1..f.made
      BY <3>1, <3>2
    <3> QED
      BY <2>1, <3>1, <3>3, <3>4, InsertObjectIsFlat, FlatIsSound
  <2>3. CASE c[2] # Direct
    <3>1. OnFlat(c, d) = InsertObject(d, c[2], c[3]) /\ c[2] \in 1..d.made
      BY <2>1, <2>3 DEF InsertPage
    <3> QED
      BY <2>1, <3>1, InsertObjectIsFlat, FlatIsSound
  <2> QED
    BY <2>2, <2>3
<1>2. CASE c[1] \in {"find", "erase"}
  <2>1. Sound(d) /\ Sound(Throw(d, "unknown"))
    BY FlatIsSound, SmallSteps, AlikeIsSound
  <2>2. c[2] \in DOMAIN d.pos => Sound(ErasePage(d, c[2]))
    BY ErasedIsFlat, FlatIsSound
  <2>3. \/ OnFlat(c, d) \in {d, Throw(d, "unknown")}
        \/ c[2] \in DOMAIN d.pos /\ OnFlat(c, d) = ErasePage(d, c[2])
    BY <1>2 DEF OnFlat, Known
  <2> QED
    BY <2>1, <2>2, <2>3
<1> QED
  BY <1>1, <1>2

LEMMA OnCachedIsSound ==
  ASSUME NEW c, NEW d, Sound(d), d.top \in Nodes, CallOK(c, d.made)
  PROVE  Sound(OnCached(c, d))
<1>1. CASE c[1] \in {"get", "update", "edit"}
  BY <1>1 DEF OnCached
<1>2. CASE c[1] = "push"
  <2>1. OnCached(c, d) = PushCached(d, FALSE)
    BY <1>2 DEF OnCached
  <2>2. Alike(d, PushCached(d, FALSE))
    BY SmallSteps DEF Sound
  <2> QED
    BY <2>1, <2>2, AlikeIsSound
<1>3. CASE c[1] \in {"insert", "find", "erase"}
  <2> DEFINE f == FlattenCached(d)
  <2>1. Typed(f) /\ IsFlat(f) /\ Sound(f) /\ f.made = d.made
    BY FlattenedCached
  <2>2. OnCached(c, d) \in {f, OnFlat(c, f)}
    BY <1>3 DEF OnCached, Then
  <2> HIDE DEF f
  <2>3. Sound(OnFlat(c, f))
    BY <1>3, <2>1, OnFlatIsSound
  <2> QED
    BY <2>1, <2>2, <2>3
<1> QED
  BY <1>1, <1>2, <1>3 DEF CallOK

LEMMA CacheFoundIsSound ==
  ASSUME NEW d, Sound(d), d.top \in Nodes
  PROVE  LET e == CacheFound(d) IN Sound(e) /\ e.top \in Nodes /\ e.made = d.made
<1> DEFINE f == IF d.invalid /\ d.pos = NoMap THEN FlattenCached(d) ELSE d
           g == [f EXCEPT !.invalid = FALSE]
<1>1. Sound(f) /\ f.top \in Nodes /\ f.made = d.made
  BY FlattenedCached DEF IsFlat
<1>2. CacheFound(d) \in {f, g}
  BY DEF CacheFound, Then
<1> HIDE DEF f
<1>3. Sound(g) /\ g.top = f.top /\ g.made = f.made
  <2>1. Alike(f, g)
    BY <1>1, SmallSteps DEF Sound
  <2> QED
    BY <1>1, <2>1, AlikeIsSound DEF Alike
<1> QED
  BY <1>1, <1>2, <1>3

-----------------------------------------------------------------------------
(* The traversal.  path names the nodes that it is in, each an entry of    *)
(* the one before; it is through with the other nodes that it has met.     *)

Frames == [node : Nodes, next : Nat \ {0}]
OnPath(s) == {s[j].node : j \in DOMAIN s}

(* How many entries of the jth node it is through with.                    *)
Done(s, j) == IF j = Len(s) THEN s[j].next - 1 ELSE s[j].next - 2

Met(d) ==
  /\ Typed(d) /\ d.pos = NoMap
  /\ ToSet(d.all) \subseteq d.seen /\ d.seen \subseteq 1..d.made
  /\ d.visited \subseteq Nodes

Way(d, s) ==
  /\ s \in Seq(Frames) /\ Len(s) \in 1..MaxLevel /\ s[1].node = d.top
  /\ \A j \in 1..Len(s) : s[j].next <= Len(d.kids[s[j].node]) + 1
  /\ \A i, j \in 1..Len(s) : s[i].node = s[j].node => i = j
  /\ \A j \in 1..(Len(s) - 1) :
       s[j].next > 1 /\ d.kids[s[j].node][s[j].next - 1] = s[j + 1].node

(* The nodes among the entries before are done with, one level below.      *)
Gone(d, s, C, level) ==
  \A j \in 1..Len(s) :
    /\ level[s[j].node] = j
    /\ \A i \in 1..Done(s, j) :
         d.kids[s[j].node][i] \in Nodes =>
           d.kids[s[j].node][i] \in C /\ level[d.kids[s[j].node][i]] = j + 1

(* A[j] is what had been found when the jth node was entered.              *)
Adds(d, s, A, L) ==
  /\ A \in [1..(Len(s) + 1) -> Seq(Pages)] /\ A[1] = <<>> /\ A[Len(s) + 1] = d.all
  /\ \A j \in 1..Len(s) :
       A[j + 1] = A[j] \o Joined(SubSeq(d.kids[s[j].node], 1, Done(s, j)), L)

Walk(d, s, A, L, level) ==
  /\ Met(d) /\ Way(d, s) /\ OnPath(s) \subseteq d.visited
  /\ Through(d, d.visited \ OnPath(s), L, level)
  /\ Gone(d, s, d.visited \ OnPath(s), level)
  /\ Adds(d, s, A, L)

LEMMA SetKidFacts ==
  ASSUME NEW d, Typed(d), NEW n \in Nodes, NEW k \in 1..Len(d.kids[n]),
         NEW x \in Objects(d) \cup {Junk, Direct}
  PROVE  LET e == SetKid(d, n, k, x)
         IN /\ Typed(e)
            /\ e.made = d.made /\ e.top = d.top /\ e.visited = d.visited /\ e.seen = d.seen
            /\ e.all = d.all /\ e.pos = d.pos
            /\ \A y \in Nodes : y # n => e.kids[y] = d.kids[y]
            /\ Len(e.kids[n]) = Len(d.kids[n]) /\ e.kids[n][k] = x
            /\ \A i \in 1..Len(d.kids[n]) : i # k => e.kids[n][i] = d.kids[n][i]
<1> DEFINE X == Objects(d) \cup {Junk, Direct}
           t == [d.kids[n] EXCEPT ![k] = x]
           e == SetKid(d, n, k, x)
<1>1. d.kids \in [Nodes -> Seq(X)] /\ x \in X
  BY DEF Typed
<1>2. t \in Seq(X) /\ Len(t) = Len(d.kids[n]) /\ t[k] = x
      /\ \A i \in 1..Len(d.kids[n]) : i # k => t[i] = d.kids[n][i]
  <2> HIDE DEF X
  <2> QED
    BY <1>1
<1>3. /\ DOMAIN e = Fields /\ e.kids = [d.kids EXCEPT ![n] = t]
      /\ e.made = d.made /\ e.top = d.top /\ e.visited = d.visited /\ e.seen = d.seen
      /\ e.all = d.all /\ e.pos = d.pos /\ e.parent = d.parent /\ e.attr = d.attr
      /\ e.count = d.count /\ e.invalid = d.invalid /\ e.recovered = d.recovered
  BY DEF SetKid, Typed, Fields
<1> HIDE DEF e, t
<1>4. e.kids \in [Nodes -> Seq(X)] /\ e.kids[n] = t /\ \A y \in Nodes : y # n => e.kids[y] = d.kids[y]
  <2> HIDE DEF X
  <2> QED
    BY <1>1, <1>2, <1>3
<1>5. Typed(e)
  BY <1>3, <1>4 DEF Typed, Objects
<1> QED
  BY <1>2, <1>3, <1>4, <1>5 DEF e

LEMMA FoundFacts ==
  ASSUME NEW d, Typed(d), ToSet(d.all) \subseteq d.seen, d.seen \subseteq 1..d.made,
         NEW p \in 1..d.made, p \notin d.seen
  PROVE  LET e == Found(d, p)
         IN /\ Typed(e) /\ ToSet(e.all) \subseteq e.seen /\ e.seen \subseteq 1..e.made
            /\ e.made = d.made /\ e.top = d.top /\ e.visited = d.visited /\ e.kids = d.kids
            /\ e.pos = d.pos /\ e.all = d.all \o <<p>>
<1> DEFINE X == 1..d.made
           s == d.all
           t == Append(s, p)
           e == Found(d, p)
<1>1. s \in Seq(X) /\ p \in X /\ IsInjective(s) /\ p \notin ToSet(s)
  BY DEF Typed
<1>2. /\ DOMAIN e = Fields /\ e.all = t /\ e.seen = d.seen \cup {p}
      /\ e.made = d.made /\ e.top = d.top /\ e.visited = d.visited /\ e.kids = d.kids
      /\ e.pos = d.pos /\ e.parent = d.parent /\ e.attr = d.attr
      /\ e.count = d.count /\ e.invalid = d.invalid /\ e.recovered = d.recovered
  BY DEF Found, Typed, Fields
<1> HIDE DEF e, s, X
<1>3. /\ t \in Seq(X) /\ DOMAIN t = DOMAIN s \cup {Len(s) + 1} /\ t[Len(s) + 1] = p
      /\ Len(s) + 1 \notin DOMAIN s /\ t = s \o <<p>> /\ \A i \in DOMAIN s : t[i] = s[i]
  BY <1>1
<1> HIDE DEF t
<1>4. \A i \in DOMAIN s : t[i] # p
  BY <1>1, <1>3 DEF ToSet
<1>5. IsInjective(t)
  BY <1>1, <1>3, <1>4 DEF IsInjective
<1>6. ToSet(t) \subseteq ToSet(s) \cup {p}
  BY <1>3 DEF ToSet
<1>7. Typed(e)
  BY <1>2, <1>3, <1>5 DEF Typed, Objects, X
<1> QED
  BY <1>1, <1>2, <1>3, <1>6, <1>7 DEF e, s, X

(* What looking at a page has changed in d.                                *)
Looked(d, e, n, k) ==
  /\ Met(e) /\ e.top = d.top /\ e.visited = d.visited /\ 1..d.made \subseteq 1..e.made
  /\ \A y \in Nodes : y # n => e.kids[y] = d.kids[y]
  /\ Len(e.kids[n]) = Len(d.kids[n])
  /\ \A i \in 1..Len(d.kids[n]) : i # k => e.kids[n][i] = d.kids[n][i]
  /\ e.kids[n][k] \notin Nodes
  /\ \A b : e.all = d.all \o Piece(e.kids[n][k], b)

LEMMA LeafFacts ==
  ASSUME NEW d, Met(d), NEW n \in Nodes, NEW k \in 1..Len(d.kids[n]), d.kids[n][k] \notin Nodes
  PROVE  Looked(d, Leaf(d, n, k), n, k)
<1> DEFINE p == d.kids[n][k]
           e == Leaf(d, n, k)
           q == d.made + 1
           Fine(f) == Looked(d, f, n, k)
<1>t. /\ Typed(d) /\ d.made \in Nat /\ d.pos = NoMap /\ ToSet(d.all) \subseteq d.seen
      /\ d.seen \subseteq 1..d.made /\ d.visited \subseteq Nodes /\ d.all \in Seq(1..d.made)
  BY DEF Met, Typed
<1>x. Junk \notin Pages /\ Junk \notin Nodes /\ \A x \in Pages : \A b : x \notin Nodes /\ Piece(x, b) = <<x>>
  BY ConstantsAssumption DEF Junk, Pages, Piece
<1>n. \A a, b : LET f == NewPage(d, a, b)
                IN /\ Typed(f) /\ f.made = q /\ f.kids = d.kids /\ f.top = d.top /\ f.all = d.all
                   /\ f.pos = d.pos /\ f.seen = d.seen /\ f.visited = d.visited
  BY <1>t, NewPageFacts
<1>j. \A b : d.all \o Piece(Junk, b) = d.all
  BY <1>t, <1>x DEF Piece
<1>p. p \in 1..d.made \cup {Junk, Direct}
  <2>1. d.kids[n] \in Seq(Objects(d) \cup {Junk, Direct})
    BY <1>t DEF Typed
  <2> QED
    BY <2>1 DEF Objects
<1>1. CASE p = Junk
  <2> DEFINE f == [d EXCEPT !.invalid = TRUE]
  <2>1. e = f
    BY <1>t, <1>1, ConstantsAssumption DEF Leaf, Junk, Direct, Pages
  <2>2. /\ DOMAIN f = Fields /\ f.kids = d.kids /\ f.invalid = TRUE /\ f.seen = d.seen
        /\ f.made = d.made /\ f.top = d.top /\ f.visited = d.visited /\ f.all = d.all
        /\ f.pos = d.pos /\ f.parent = d.parent /\ f.attr = d.attr
        /\ f.count = d.count /\ f.recovered = d.recovered
    BY <1>t DEF Typed, Fields
  <2> HIDE DEF f
  <2>3. Typed(f)
    BY <1>t, <2>2 DEF Typed, Objects
  <2> QED
    BY <1>t, <1>j, <1>x, <1>1, <2>1, <2>2, <2>3 DEF Met, Looked
<1>2. ASSUME NEW f, Typed(f), f.made = q, f.kids = d.kids, f.top = d.top, f.all = d.all, f.pos = d.pos,
             f.seen = d.seen, f.visited = d.visited
      PROVE  Fine(FoundNew(f, n, k))
  <2> DEFINE g == SetKid(f, n, k, q)
             h == Found(g, q)
  <2>1. FoundNew(f, n, k) = h
    BY <1>2 DEF FoundNew
  <2>2. q \in 1..q /\ q \in Pages /\ q \in Objects(f) \cup {Junk, Direct} /\ 1..d.made \subseteq 1..q
        /\ q \notin 1..d.made
    BY <1>t, <1>2 DEF Pages, Objects
  <2> HIDE DEF q
  <2>3. /\ Typed(g) /\ g.made = q /\ g.top = d.top /\ g.visited = d.visited /\ g.seen = d.seen
        /\ g.all = d.all /\ g.pos = d.pos
        /\ \A y \in Nodes : y # n => g.kids[y] = d.kids[y]
        /\ Len(g.kids[n]) = Len(d.kids[n]) /\ g.kids[n][k] = q
        /\ \A i \in 1..Len(d.kids[n]) : i # k => g.kids[n][i] = d.kids[n][i]
    BY <1>2, <2>2, SetKidFacts
  <2> HIDE DEF g
  <2>4. /\ Typed(h) /\ ToSet(h.all) \subseteq h.seen /\ h.seen \subseteq 1..h.made
        /\ h.made = g.made /\ h.top = g.top /\ h.visited = g.visited /\ h.kids = g.kids
        /\ h.pos = g.pos /\ h.all = g.all \o <<q>>
    <3>1. q \in 1..g.made /\ q \notin g.seen /\ ToSet(g.all) \subseteq g.seen /\ g.seen \subseteq 1..g.made
      BY <1>t, <2>2, <2>3
    <3> QED
      BY <2>3, <3>1, FoundFacts
  <2> HIDE DEF h
  <2>5. Fine(h)
    <3>1. Met(h)
      BY <1>t, <2>3, <2>4 DEF Met
    <3>2. h.kids[n][k] \notin Nodes
      BY <1>x, <2>2, <2>3, <2>4
    <3>3. \A b : h.all = d.all \o Piece(h.kids[n][k], b)
      <4>1. \A b : Piece(h.kids[n][k], b) = <<q>>
        BY <1>x, <2>2, <2>3, <2>4
      <4> QED
        BY <2>3, <2>4, <4>1
    <3> QED
      BY <2>2, <2>3, <2>4, <3>1, <3>2, <3>3 DEF Looked
  <2> QED
    BY <2>1, <2>5
<1>3. CASE p = Direct
  <2> DEFINE f == NewPage(d, None, None)
  <2>1. e = FoundNew(f, n, k)
    BY <1>t, <1>3, ConstantsAssumption DEF Leaf, Junk, Direct, Pages
  <2>2. Typed(f) /\ f.made = q /\ f.kids = d.kids /\ f.top = d.top /\ f.all = d.all /\ f.pos = d.pos
        /\ f.seen = d.seen /\ f.visited = d.visited
    BY <1>n
  <2> HIDE DEF f, Fine, q
  <2>3. Fine(e)
    BY <1>2, <2>1, <2>2
  <2> QED
    BY <2>3 DEF Fine
<1>4. CASE p \in 1..d.made /\ p \in d.seen /\ ~d.recovered
  <2> DEFINE f == CopyOf(d, p)
  <2>1. e = FoundNew(f, n, k)
    BY <1>t, <1>4 DEF Leaf, Junk, Direct
  <2>2. Typed(f) /\ f.made = q /\ f.kids = d.kids /\ f.top = d.top /\ f.all = d.all /\ f.pos = d.pos
        /\ f.seen = d.seen /\ f.visited = d.visited
    BY <1>n DEF CopyOf
  <2> HIDE DEF f, Fine, q
  <2>3. Fine(e)
    BY <1>2, <2>1, <2>2
  <2> QED
    BY <2>3 DEF Fine
<1>5. CASE p \in 1..d.made /\ d.recovered /\ p \in d.seen \cup Faulty
  <2> DEFINE g == SetKid(d, n, k, Junk)
             f == [[g EXCEPT !.invalid = TRUE] EXCEPT !.seen = @ \cup {p}]
  <2>1. e = f
    BY <1>t, <1>5 DEF Leaf, LeftOut, Junk, Direct
  <2>2. /\ Typed(g) /\ g.made = d.made /\ g.top = d.top /\ g.visited = d.visited /\ g.seen = d.seen
        /\ g.all = d.all /\ g.pos = d.pos
        /\ \A y \in Nodes : y # n => g.kids[y] = d.kids[y]
        /\ Len(g.kids[n]) = Len(d.kids[n]) /\ g.kids[n][k] = Junk
        /\ \A i \in 1..Len(d.kids[n]) : i # k => g.kids[n][i] = d.kids[n][i]
    BY <1>t, SetKidFacts
  <2> HIDE DEF g
  <2>3. /\ DOMAIN f = Fields /\ f.kids = g.kids /\ f.invalid = TRUE /\ f.seen = g.seen \cup {p}
        /\ f.made = g.made /\ f.top = g.top /\ f.visited = g.visited /\ f.all = g.all
        /\ f.pos = g.pos /\ f.parent = g.parent /\ f.attr = g.attr
        /\ f.count = g.count /\ f.recovered = g.recovered
    BY <2>2 DEF Typed, Fields
  <2> HIDE DEF f
  <2>4. Typed(f)
    BY <2>2, <2>3 DEF Typed, Objects
  <2>5. Met(f)
    BY <1>t, <1>5, <2>2, <2>3, <2>4 DEF Met
  <2> HIDE DEF p, e
  <2>6. f.kids[n][k] \notin Nodes /\ \A b : f.all = d.all \o Piece(f.kids[n][k], b)
    BY <1>j, <1>x, <2>2, <2>3
  <2>7. Fine(f)
    BY <2>2, <2>3, <2>5, <2>6 DEF Looked
  <2> QED
    BY <2>1, <2>7 DEF e
<1>6. CASE p \in 1..d.made /\ p \notin d.seen /\ ~(d.recovered /\ p \in Faulty)
  <2> DEFINE f == Found(d, p)
  <2>0. p \in Pages /\ p # Junk /\ p # Direct
    BY <1>6 DEF Pages, Junk, Direct
  <2>1. e = f
    BY <1>6, <2>0 DEF Leaf
  <2>2. /\ Typed(f) /\ ToSet(f.all) \subseteq f.seen /\ f.seen \subseteq 1..f.made
        /\ f.made = d.made /\ f.top = d.top /\ f.visited = d.visited /\ f.kids = d.kids
        /\ f.pos = d.pos /\ f.all = d.all \o <<p>>
    BY <1>t, <1>6, FoundFacts
  <2> HIDE DEF f
  <2>3. Fine(f)
    BY <1>t, <1>x, <2>0, <2>2 DEF Met, Looked
  <2> QED
    BY <2>1, <2>3
<1> QED
  <2>1. p = Junk \/ p = Direct \/ p \in 1..d.made
    BY <1>p
  <2> HIDE DEF p, e
  <2> QED
    BY <1>1, <1>3, <1>4, <1>5, <1>6, <2>1 DEF e

LEMMA SamePrefix ==
  ASSUME NEW X, NEW s \in Seq(X), NEW Y, NEW t \in Seq(Y), NEW k \in Nat,
         k <= Len(s), k <= Len(t), \A i \in 1..k : s[i] = t[i]
  PROVE  SubSeq(s, 1, k) = SubSeq(t, 1, k)
  OBVIOUS

LEMMA AdvancedFacts ==
  ASSUME NEW s \in Seq(Frames), s # <<>>
  PROVE  LET t == Append(Front(s), [Last(s) EXCEPT !.next = @ + 1])
         IN /\ t \in Seq(Frames) /\ Len(t) = Len(s) /\ \A j \in 1..(Len(s) - 1) : t[j] = s[j]
            /\ t[Len(s)].node = s[Len(s)].node /\ t[Len(s)].next = s[Len(s)].next + 1
            /\ OnPath(t) = OnPath(s)
<1> DEFINE f == [Last(s) EXCEPT !.next = @ + 1]
           u == Front(s)
           t == Append(u, f)
           m == Len(s)
<1>1. m \in Nat /\ m >= 1 /\ s[m] \in Frames /\ DOMAIN s = 1..m
  OBVIOUS
<1>2. f \in Frames /\ f.node = s[m].node /\ f.next = s[m].next + 1
  BY <1>1 DEF Last, Frames
<1>3. u \in Seq(Frames) /\ Len(u) = m - 1 /\ \A j \in 1..(m - 1) : u[j] = s[j]
  BY <1>1 DEF Front
<1> HIDE DEF f, u, m
<1>4. /\ t \in Seq(Frames) /\ Len(t) = m /\ DOMAIN t = 1..m /\ t[m] = f
      /\ \A j \in 1..(m - 1) : t[j] = s[j]
  <2>1. Len(u) + 1 = m /\ Len(u) = m - 1
    BY <1>1, <1>3
  <2>2. /\ t \in Seq(Frames) /\ Len(t) = m /\ DOMAIN t = 1..m /\ t[m] = f
        /\ \A j \in 1..(m - 1) : t[j] = u[j]
    BY <1>1, <1>2, <1>3, <2>1
  <2> QED
    BY <1>3, <2>2
<1> HIDE DEF t
<1>5. \A j \in 1..m : t[j].node = s[j].node
  <2> SUFFICES ASSUME NEW j \in 1..m PROVE t[j].node = s[j].node
    OBVIOUS
  <2>1. j = m \/ j \in 1..(m - 1)
    BY <1>1
  <2> QED
    BY <1>2, <1>4, <2>1
<1>6. OnPath(t) = OnPath(s)
  BY <1>1, <1>4, <1>5 DEF OnPath
<1> QED
  BY <1>2, <1>4, <1>6 DEF t, f, u, m

LEMMA ThroughAlso ==
  ASSUME NEW d, NEW e, NEW C, NEW L, NEW level, Through(d, C, L, level),
         \A c \in C : e.kids[c] = d.kids[c]
  PROVE  Through(e, C, L, level)
  BY DEF Through

LEMMA WalkFacts ==
  ASSUME NEW d, NEW s, NEW A, NEW L, NEW level, Walk(d, s, A, L, level)
  PROVE  /\ Typed(d) /\ d.top \in Nodes /\ s \in Seq(Frames) /\ s # <<>> /\ Len(s) \in 1..MaxLevel
         /\ MaxLevel \in Nat /\ Len(s) \in Nat /\ DOMAIN s = 1..Len(s)
         /\ L \in Below /\ level \in [Nodes -> 1..MaxLevel]
         /\ \A j \in 1..Len(s) :
              /\ s[j].node \in Nodes /\ s[j].node \in OnPath(s) /\ s[j].node \in d.visited
              /\ s[j].next \in Nat /\ s[j].next >= 1
              /\ \E X : d.kids[s[j].node] \in Seq(X)
              /\ Len(d.kids[s[j].node]) \in Nat
              /\ Done(s, j) \in Nat /\ Done(s, j) <= Len(d.kids[s[j].node])
<1>1. /\ Typed(d) /\ s \in Seq(Frames) /\ Len(s) \in 1..MaxLevel /\ MaxLevel \in Nat
      /\ s[1].node = d.top /\ OnPath(s) \subseteq d.visited /\ d.visited \subseteq Nodes
      /\ L \in Below /\ level \in [Nodes -> 1..MaxLevel]
  BY ConstantsAssumption DEF Walk, Met, Way, Through
<1>2. Len(s) \in Nat /\ s # <<>> /\ DOMAIN s = 1..Len(s) /\ 1 \in 1..Len(s)
  BY <1>1
<1>3. ASSUME NEW j \in 1..Len(s)
      PROVE  /\ s[j].node \in Nodes /\ s[j].node \in OnPath(s) /\ s[j].node \in d.visited
             /\ s[j].next \in Nat /\ s[j].next >= 1
             /\ \E X : d.kids[s[j].node] \in Seq(X)
             /\ Len(d.kids[s[j].node]) \in Nat
             /\ Done(s, j) \in Nat /\ Done(s, j) <= Len(d.kids[s[j].node])
  <2>1. s[j] \in Frames /\ s[j].node \in OnPath(s)
    BY <1>1, <1>2 DEF OnPath
  <2>2. s[j].node \in Nodes /\ s[j].node \in d.visited /\ s[j].next \in Nat /\ s[j].next >= 1
    BY <1>1, <2>1 DEF Frames
  <2>3. PICK X : d.kids[s[j].node] \in Seq(X)
    BY <1>1, <2>2 DEF Typed
  <2>4. Len(d.kids[s[j].node]) \in Nat
    BY <2>3
  <2>5. s[j].next <= Len(d.kids[s[j].node]) + 1 /\ (j # Len(s) => s[j].next > 1)
    <3>1. j # Len(s) => j \in 1..(Len(s) - 1)
      <4> DEFINE m == Len(s)
      <4>1. m \in Nat /\ j \in 1..m
        BY <1>2
      <4> HIDE DEF m
      <4>2. j # m => j \in 1..(m - 1)
        BY <4>1
      <4> QED
        BY <4>2 DEF m
    <3> QED
      BY <3>1 DEF Walk, Way
  <2>6. Done(s, j) \in Nat /\ Done(s, j) <= Len(d.kids[s[j].node])
    BY <2>2, <2>4, <2>5 DEF Done
  <2> QED
    BY <2>1, <2>2, <2>3, <2>4, <2>6
<1>4. d.top \in Nodes
  BY <1>1, <1>2, <1>3
<1> QED
  BY <1>1, <1>2, <1>3, <1>4

LEMMA WalkBegins ==
  ASSUME NEW d, Typed(d), d.pos = NoMap, d.all = <<>>, d.seen = {}, d.top \in Nodes
  PROVE  \E A, L, level : Walk([d EXCEPT !.visited = {d.top}], <<Frame(d.top)>>, A, L, level)
<1> DEFINE e == [d EXCEPT !.visited = {d.top}]
           s == <<Frame(d.top)>>
           L == [n \in Nodes |-> <<>>]
           level == [n \in Nodes |-> 1]
           A == [j \in 1..2 |-> <<>>]
           n == d.top
<1>1. /\ DOMAIN e = Fields /\ e.visited = {n} /\ e.top = n /\ e.kids = d.kids /\ e.made = d.made
      /\ e.seen = {} /\ e.all = <<>> /\ e.pos = NoMap /\ e.parent = d.parent /\ e.attr = d.attr
      /\ e.count = d.count /\ e.invalid = d.invalid /\ e.recovered = d.recovered
  BY DEF Typed, Fields
<1> HIDE DEF e
<1>2. Met(e)
  <2>1. Typed(e)
    BY <1>1 DEF Typed, Objects
  <2>2. ToSet(e.all) = {}
    BY <1>1 DEF ToSet
  <2> QED
    BY <1>1, <2>1, <2>2 DEF Met
<1>3. /\ s \in Seq(Frames) /\ Len(s) = 1 /\ DOMAIN s = {1} /\ s[1].node = n /\ s[1].next = 1
      /\ s \in Seq(Frames)
  BY DEF Frame, Frames
<1>4. Len(e.kids[n]) \in Nat /\ \E X : e.kids[n] \in Seq(X)
  <2>1. PICK X : e.kids[n] \in Seq(X)
    BY <1>1 DEF Typed
  <2> QED
    BY <2>1
<1> HIDE DEF s
<1>5. Way(e, s)
  BY <1>1, <1>3, <1>4, ConstantsAssumption DEF Way
<1>6. OnPath(s) = {n}
  BY <1>3 DEF OnPath
<1>7. L \in Below /\ level \in [Nodes -> 1..MaxLevel] /\ level[n] = 1
  BY ConstantsAssumption DEF Below
<1>8. e.visited \ OnPath(s) = {}
  BY <1>1, <1>6
<1>9. Through(e, {}, L, level)
  BY <1>7 DEF Through
<1>10. Done(s, 1) = 0
  BY <1>3 DEF Done
<1>11. Gone(e, s, {}, level)
  <2>1. \A j \in 1..Len(s) : j = 1
    BY <1>3
  <2>2. ~\E i \in 1..0 : TRUE
    OBVIOUS
  <2> QED
    BY <1>3, <1>7, <1>10, <2>1, <2>2 DEF Gone
<1>12. Adds(e, s, A, L)
  <2> HIDE DEF L
  <2>1. Joined(SubSeq(e.kids[n], 1, 0), L) = <<>>
    BY <1>4, <1>7, JoinedNone
  <2>2. A \in [1..(Len(s) + 1) -> Seq(Pages)] /\ A[1] = <<>> /\ A[2] = <<>>
    BY <1>3
  <2>3. <<>> \o <<>> = <<>>
    OBVIOUS
  <2> HIDE DEF A
  <2>4. \A j \in 1..Len(s) : j = 1
    BY <1>3
  <2> QED
    BY <1>1, <1>3, <1>10, <2>1, <2>2, <2>3, <2>4 DEF Adds
<1> HIDE DEF A, L, level
<1>13. Walk(e, s, A, L, level)
  BY <1>1, <1>2, <1>5, <1>6, <1>8, <1>9, <1>11, <1>12 DEF Walk
<1> QED
  BY <1>13 DEF e, s

(* A step of the traversal that looks at a page.                           *)
LEMMA WalkVisitsPage ==
  ASSUME NEW d, NEW s, NEW A, NEW L, NEW level, Walk(d, s, A, L, level),
         s[Len(s)].next <= Len(d.kids[s[Len(s)].node]),
         d.kids[s[Len(s)].node][s[Len(s)].next] \notin Nodes
  PROVE  LET e == Leaf(d, s[Len(s)].node, s[Len(s)].next)
             t == Append(Front(s), [Last(s) EXCEPT !.next = @ + 1])
         IN (\E B : Walk(e, t, B, L, level)) /\ 1..d.made \subseteq 1..e.made
<1> DEFINE m == Len(s)
           n == s[m].node
           k == s[m].next
           e == Leaf(d, n, k)
           t == Append(Front(s), [Last(s) EXCEPT !.next = @ + 1])
           C == d.visited \ OnPath(s)
           B == [A EXCEPT ![m + 1] = e.all]
<1>s. /\ s \in Seq(Frames) /\ s # <<>> /\ m \in Nat /\ m \in 1..MaxLevel /\ MaxLevel \in Nat
      /\ m \in 1..m /\ L \in Below
  BY WalkFacts
<1>1. /\ n \in Nodes /\ n \in OnPath(s) /\ k \in Nat /\ k >= 1 /\ k \in 1..Len(d.kids[n])
      /\ Len(d.kids[n]) \in Nat /\ d.kids[n][k] \notin Nodes
  <2>1. /\ n \in Nodes /\ n \in OnPath(s) /\ k \in Nat /\ k >= 1
        /\ Len(d.kids[n]) \in Nat
    BY <1>s, WalkFacts
  <2> QED
    BY <2>1
<1>2. /\ Met(d) /\ Way(d, s) /\ OnPath(s) \subseteq d.visited
      /\ Through(d, C, L, level) /\ Gone(d, s, C, level) /\ Adds(d, s, A, L)
  BY DEF Walk
<1> HIDE DEF n, k
<1>3. /\ Met(e) /\ e.top = d.top /\ e.visited = d.visited /\ 1..d.made \subseteq 1..e.made
      /\ \A y \in Nodes : y # n => e.kids[y] = d.kids[y]
      /\ Len(e.kids[n]) = Len(d.kids[n])
      /\ \A i \in 1..Len(d.kids[n]) : i # k => e.kids[n][i] = d.kids[n][i]
      /\ e.kids[n][k] \notin Nodes
      /\ \A b : e.all = d.all \o Piece(e.kids[n][k], b)
  <2>1. Looked(d, e, n, k)
    BY <1>1, <1>2, LeafFacts
  <2> QED
    BY <2>1 DEF Looked
<1>4. /\ t \in Seq(Frames) /\ Len(t) = m /\ \A j \in 1..(m - 1) : t[j] = s[j]
      /\ t[m].node = n /\ t[m].next = k + 1
      /\ OnPath(t) = OnPath(s)
  BY <1>s, AdvancedFacts DEF n, k
<1> HIDE DEF e, t, m
<1>5. \A j \in 1..m : j = m \/ (j \in 1..(m - 1) /\ j # m)
  BY <1>s
<1>6. \A j \in 1..(m - 1) : j \in 1..m /\ j # m /\ j + 1 \in 1..m
  BY <1>s
<1>7. ASSUME NEW j \in 1..m
      PROVE  /\ s[j].node \in Nodes /\ s[j].node \in OnPath(s) /\ s[j].next \in Nat /\ s[j].next >= 1
             /\ s[j].next <= Len(d.kids[s[j].node]) + 1
             /\ Done(s, j) \in Nat /\ Done(s, j) <= Len(d.kids[s[j].node])
             /\ t[j].node = s[j].node
             /\ j # m => s[j].node # n /\ t[j] = s[j] /\ e.kids[s[j].node] = d.kids[s[j].node]
  <2>1. /\ s[j].node \in Nodes /\ s[j].node \in OnPath(s) /\ s[j].next \in Nat /\ s[j].next >= 1
        /\ Done(s, j) \in Nat /\ Done(s, j) <= Len(d.kids[s[j].node])
    BY WalkFacts DEF m
  <2>2. s[j].next <= Len(d.kids[s[j].node]) + 1
    BY <1>2 DEF Way, m
  <2>3. j # m => s[j].node # n
    BY <1>s, <1>2 DEF Way, m, n
  <2> QED
    BY <1>3, <1>4, <1>5, <2>1, <2>2, <2>3 DEF n
<1>8. Way(e, t)
  <2>1. \A j \in 1..m : t[j].next <= Len(e.kids[t[j].node]) + 1
    <3> SUFFICES ASSUME NEW j \in 1..m PROVE t[j].next <= Len(e.kids[t[j].node]) + 1
      OBVIOUS
    <3>1. CASE j = m
      BY <1>1, <1>3, <1>4, <3>1
    <3>2. CASE j # m
      BY <1>7, <3>2
    <3> QED
      BY <3>1, <3>2
  <2>2. \A i, j \in 1..m : t[i].node = t[j].node => i = j
    BY <1>2, <1>7 DEF Way, m
  <2>3. ASSUME NEW j \in 1..(m - 1)
        PROVE  t[j].next > 1 /\ e.kids[t[j].node][t[j].next - 1] = t[j + 1].node
    <3>1. s[j].next > 1 /\ d.kids[s[j].node][s[j].next - 1] = s[j + 1].node
      BY <1>2 DEF Way, m
    <3> QED
      BY <1>6, <1>7, <3>1
  <2>4. t[1].node = e.top
    <3>1. 1 \in 1..m
      BY <1>s
    <3> QED
      BY <1>2, <1>3, <1>7, <3>1 DEF Way
  <2> QED
    BY <1>s, <1>4, <2>1, <2>2, <2>3, <2>4 DEF Way
<1>9. C = e.visited \ OnPath(t) /\ OnPath(t) \subseteq e.visited
  BY <1>2, <1>3, <1>4
<1>10. Through(e, C, L, level)
  <2>1. \A c \in C : c \in Nodes /\ c # n
    BY <1>1, <1>2 DEF Through
  <2> QED
    BY <1>2, <1>3, <2>1, ThroughAlso
<1>11. \A j \in 1..m : Done(t, j) = IF j = m THEN k ELSE Done(s, j)
  BY <1>1, <1>4, <1>5 DEF Done, m
<1>12. Done(s, m) = k - 1
  BY DEF Done, k, m
<1>13. Gone(e, t, C, level)
  <2> SUFFICES ASSUME NEW j \in 1..m
               PROVE  /\ level[t[j].node] = j
                      /\ \A i \in 1..Done(t, j) :
                           e.kids[t[j].node][i] \in Nodes =>
                             e.kids[t[j].node][i] \in C /\ level[e.kids[t[j].node][i]] = j + 1
    BY <1>4 DEF Gone
  <2>1. /\ level[s[j].node] = j
        /\ \A i \in 1..Done(s, j) :
             d.kids[s[j].node][i] \in Nodes =>
               d.kids[s[j].node][i] \in C /\ level[d.kids[s[j].node][i]] = j + 1
    BY <1>2 DEF Gone, m
  <2>2. CASE j # m
    <3> DEFINE x == s[j].node
               u == d.kids[x]
    <3>1. t[j].node = x /\ e.kids[x] = u /\ Done(t, j) = Done(s, j)
      BY <1>7, <1>11, <2>2
    <3> HIDE DEF C
    <3>2. level[x] = j /\ \A i \in 1..Done(s, j) : u[i] \in Nodes => u[i] \in C /\ level[u[i]] = j + 1
      BY <2>1
    <3> HIDE DEF x, u
    <3> QED
      BY <3>1, <3>2
  <2>3. CASE j = m
    <3>1. t[j].node = n /\ Done(t, j) = k /\ level[n] = j
      BY <1>4, <1>11, <2>1, <2>3 DEF n
    <3> SUFFICES ASSUME NEW i \in 1..k, e.kids[n][i] \in Nodes
                 PROVE  e.kids[n][i] \in C /\ level[e.kids[n][i]] = j + 1
      BY <3>1
    <3>2. i # k /\ i \in 1..(k - 1) /\ i \in 1..Len(d.kids[n])
      BY <1>1, <1>3
    <3>3. e.kids[n][i] = d.kids[n][i]
      BY <1>3, <3>2
    <3>4. i \in 1..Done(s, j) /\ s[j].node = n
      BY <1>12, <2>3, <3>2 DEF n
    <3> QED
      BY <2>1, <3>3, <3>4
  <2> QED
    BY <2>2, <2>3
<1>14. Adds(e, t, B, L)
  <2>1. /\ A \in [1..(m + 1) -> Seq(Pages)] /\ A[1] = <<>> /\ A[m + 1] = d.all
        /\ \A j \in 1..m :
             A[j + 1] = A[j] \o Joined(SubSeq(d.kids[s[j].node], 1, Done(s, j)), L)
    BY <1>2 DEF Adds, m
  <2>2. e.all \in Seq(Pages)
    BY <1>3, AllIsPages DEF Met, Typed
  <2>3. m + 1 \in 1..(m + 1) /\ 1 \in 1..(m + 1) /\ 1 # m + 1 /\ \A j \in 1..m : j \in 1..(m + 1) /\ j # m + 1
    BY <1>s
  <2>4. B \in [1..(m + 1) -> Seq(Pages)] /\ B[1] = <<>> /\ B[m + 1] = e.all /\ \A j \in 1..m : B[j] = A[j]
    BY <2>1, <2>2, <2>3
  <2> HIDE DEF B
  <2>5. ASSUME NEW j \in 1..m
        PROVE  B[j + 1] = B[j] \o Joined(SubSeq(e.kids[t[j].node], 1, Done(t, j)), L)
    <3>1. CASE j # m
      <4>1. j + 1 \in 1..m
        BY <1>5, <1>6, <3>1
      <4>2. B[j + 1] = A[j + 1] /\ B[j] = A[j]
        BY <2>4, <4>1
      <4>3. t[j].node = s[j].node /\ e.kids[s[j].node] = d.kids[s[j].node] /\ Done(t, j) = Done(s, j)
        BY <1>7, <1>11, <3>1
      <4> QED
        BY <2>1, <4>2, <4>3
    <3>2. CASE j = m
      <4> DEFINE u == e.kids[n]
                 v == d.kids[n]
      <4>1. PICK X : u \in Seq(X)
        BY <1>1, <1>3 DEF Met, Typed
      <4>2. PICK Y : v \in Seq(Y)
        BY <1>1, <1>2 DEF Met, Typed
      <4>3. k - 1 \in Nat /\ k - 1 <= Len(u) /\ k - 1 <= Len(v) /\ \A i \in 1..(k - 1) : u[i] = v[i]
        BY <1>1, <1>3
      <4>4. k \in 1..Len(u) /\ e.all = d.all \o Piece(u[k], L)
        BY <1>1, <1>3
      <4> HIDE DEF u, v
      <4>5. SubSeq(u, 1, k - 1) = SubSeq(v, 1, k - 1)
        BY <4>1, <4>2, <4>3, SamePrefix
      <4>6. Joined(SubSeq(u, 1, k), L) = Joined(SubSeq(u, 1, k - 1), L) \o Piece(u[k], L)
        BY <1>s, <4>1, <4>4, JoinedGrows
      <4> DEFINE a == A[m]
                 b == Joined(SubSeq(v, 1, k - 1), L)
                 c == Piece(u[k], L)
      <4>7. d.all = a \o b
        BY <1>s, <1>12, <2>1 DEF v, n
      <4>8. a \in Seq(Pages) /\ b \in Seq(Pages) /\ c \in Seq(Pages)
        <5>1. SubSeq(v, 1, k - 1) \in Seq(Y)
          BY <4>2, <4>3
        <5> QED
          BY <1>s, <2>1, <2>3, <5>1, JoinedAlike, PieceIsPages
      <4> HIDE DEF a, b, c
      <4>9. e.all = a \o (b \o c)
        <5>1. e.all = (a \o b) \o c
          BY <4>4, <4>7 DEF c
        <5>2. (a \o b) \o c = a \o (b \o c)
          BY ONLY <4>8
        <5> QED
          BY <5>1, <5>2
      <4>10. B[j + 1] = e.all /\ B[j] = a
        BY <1>s, <2>4, <3>2 DEF a
      <4>11. Joined(SubSeq(e.kids[t[j].node], 1, Done(t, j)), L) = b \o c
        BY <1>4, <1>11, <3>2, <4>5, <4>6 DEF b, c, u
      <4> QED
        BY <4>9, <4>10, <4>11
    <3> QED
      BY <3>1, <3>2
  <2> QED
    BY <1>4, <2>4, <2>5 DEF Adds
<1> HIDE DEF B
<1>15. Walk(e, t, B, L, level)
  BY <1>3, <1>8, <1>9, <1>10, <1>13, <1>14 DEF Walk
<1> QED
  BY <1>3, <1>15 DEF e, t, n, k, m

(* A step that enters a node.                                              *)
LEMMA WalkEntersNode ==
  ASSUME NEW d, NEW s, NEW A, NEW L, NEW level, Walk(d, s, A, L, level),
         s[Len(s)].next <= Len(d.kids[s[Len(s)].node]), Len(s) # MaxLevel,
         NEW x \in Nodes, x = d.kids[s[Len(s)].node][s[Len(s)].next], x \notin d.visited
  PROVE  LET e == [d EXCEPT !.visited = @ \cup {x}]
             t == Append(Append(Front(s), [Last(s) EXCEPT !.next = @ + 1]), Frame(x))
         IN (\E B, f : Walk(e, t, B, L, f)) /\ e.made = d.made
<1> DEFINE m == Len(s)
           n == s[m].node
           k == s[m].next
           e == [d EXCEPT !.visited = @ \cup {x}]
           u == Append(Front(s), [Last(s) EXCEPT !.next = @ + 1])
           t == Append(u, Frame(x))
           C == d.visited \ OnPath(s)
           B == [j \in 1..(m + 2) |-> IF j = m + 2 THEN d.all ELSE A[j]]
           f == [level EXCEPT ![x] = m + 1]
<1>s. /\ s \in Seq(Frames) /\ s # <<>> /\ m \in Nat /\ m \in 1..MaxLevel /\ MaxLevel \in Nat
      /\ m \in 1..m /\ L \in Below /\ level \in [Nodes -> 1..MaxLevel] /\ Typed(d)
  BY WalkFacts
<1>1. /\ n \in Nodes /\ n \in OnPath(s) /\ k \in Nat /\ k >= 1 /\ k \in 1..Len(d.kids[n])
      /\ Len(d.kids[n]) \in Nat /\ d.kids[n][k] = x
  <2>1. /\ n \in Nodes /\ n \in OnPath(s) /\ k \in Nat /\ k >= 1
        /\ Len(d.kids[n]) \in Nat
    BY <1>s, WalkFacts
  <2> QED
    BY <2>1
<1>2. /\ Met(d) /\ Way(d, s) /\ OnPath(s) \subseteq d.visited
      /\ Through(d, C, L, level) /\ Gone(d, s, C, level) /\ Adds(d, s, A, L)
  BY DEF Walk
<1> HIDE DEF n, k
<1>3. /\ DOMAIN e = Fields /\ e.visited = d.visited \cup {x} /\ e.top = d.top /\ e.kids = d.kids
      /\ e.made = d.made /\ e.seen = d.seen /\ e.all = d.all /\ e.pos = d.pos /\ e.parent = d.parent
      /\ e.attr = d.attr /\ e.count = d.count /\ e.invalid = d.invalid /\ e.recovered = d.recovered
  BY <1>s DEF Typed, Fields
<1> HIDE DEF e
<1>4. Met(e)
  <2>1. Typed(e)
    BY <1>s, <1>3 DEF Typed, Objects
  <2> QED
    BY <1>2, <1>3, <2>1 DEF Met
<1>5. /\ u \in Seq(Frames) /\ Len(u) = m /\ \A j \in 1..(m - 1) : u[j] = s[j]
      /\ u[m].node = n /\ u[m].next = k + 1
      /\ OnPath(u) = OnPath(s)
  BY <1>s, AdvancedFacts DEF n, k
<1> HIDE DEF u, m
<1>6. /\ t \in Seq(Frames) /\ Len(t) = m + 1 /\ DOMAIN t = 1..(m + 1) /\ t[m + 1].node = x
      /\ t[m + 1].next = 1 /\ \A j \in 1..m : t[j] = u[j]
  <2> DEFINE g == Frame(x)
  <2>1. g \in Frames /\ g.node = x /\ g.next = 1 /\ Frame(x) = g
    BY DEF Frame, Frames
  <2> HIDE DEF g
  <2>2. /\ t \in Seq(Frames) /\ Len(t) = m + 1 /\ DOMAIN t = 1..(m + 1) /\ t[m + 1] = g
        /\ \A j \in 1..m : t[j] = u[j]
    BY <1>s, <1>5, <2>1
  <2> QED
    BY <2>1, <2>2
<1> HIDE DEF t
<1>7. ASSUME NEW j \in 1..m
      PROVE  /\ s[j].node \in Nodes /\ s[j].node \in OnPath(s) /\ s[j].next \in Nat /\ s[j].next >= 1
             /\ s[j].next <= Len(d.kids[s[j].node]) + 1
             /\ t[j].node = s[j].node /\ s[j].node # x
             /\ t[j].next = IF j = m THEN k + 1 ELSE s[j].next
             /\ Done(t, j) = Done(s, j) /\ level[s[j].node] = j
  <2>1. /\ s[j].node \in Nodes /\ s[j].node \in OnPath(s) /\ s[j].next \in Nat /\ s[j].next >= 1
    BY WalkFacts DEF m
  <2>2. s[j].next <= Len(d.kids[s[j].node]) + 1
    BY <1>2 DEF Way, m
  <2>3. s[j].node # x
    BY <1>2, <2>1
  <2>4. j = m \/ (j \in 1..(m - 1) /\ j # m)
    BY <1>s
  <2>5. t[j].node = s[j].node /\ t[j].next = IF j = m THEN k + 1 ELSE s[j].next
    BY <1>5, <1>6, <2>4 DEF n
  <2>6. j # m + 1
    BY <1>s
  <2>7. Done(t, j) = Done(s, j)
    <3>1. Done(t, j) = t[j].next - 2
      BY <1>6, <2>6 DEF Done
    <3>2. CASE j = m
      <4>1. Done(s, j) = k - 1 /\ (k + 1) - 2 = k - 1
        BY <1>1, <3>2 DEF Done, k, m
      <4> QED
        BY <2>5, <3>1, <3>2, <4>1
    <3>3. CASE j # m
      BY <2>5, <3>1, <3>3 DEF Done, m
    <3> QED
      BY <3>2, <3>3
  <2>8. level[s[j].node] = j
    BY <1>2 DEF Gone, m
  <2> QED
    BY <2>1, <2>2, <2>3, <2>5, <2>7, <2>8
<1>8. \A j \in 1..(m + 1) : j \in 1..m \/ j = m + 1
  BY <1>s
<1>9. m + 1 \notin 1..m /\ m + 1 \in 1..(m + 1) /\ m + 1 \in 1..MaxLevel /\ 1 \in 1..m
      /\ (m + 1) - 1 = m /\ \A j \in 1..m : j \in 1..(m + 1)
  BY <1>s DEF m
<1>10. OnPath(t) = OnPath(s) \cup {x}
  <2>1. OnPath(t) = {t[j].node : j \in 1..(m + 1)}
    BY <1>6 DEF OnPath
  <2>2. OnPath(s) = {s[j].node : j \in 1..m}
    BY <1>s DEF OnPath, m
  <2>3. \A j \in 1..m : t[j].node = s[j].node
    BY <1>7
  <2>4. \A y \in OnPath(t) : y \in OnPath(s) \cup {x}
    <3>1. \A j \in 1..(m + 1) : t[j].node \in OnPath(s) \cup {x}
      BY <1>6, <1>8, <2>2, <2>3
    <3> QED
      BY <2>1, <3>1
  <2>5. \A y \in OnPath(s) : y \in OnPath(t)
    <3>1. \A j \in 1..m : t[j].node \in OnPath(t)
      BY <1>9, <2>1
    <3>2. \A j \in 1..m : s[j].node \in OnPath(t)
      BY <2>3, <3>1
    <3> QED
      BY <2>2, <3>2
  <2>6. x \in OnPath(t)
    BY <1>6, <1>9, <2>1
  <2> QED
    BY <2>4, <2>5, <2>6
<1>11. e.visited \ OnPath(t) = C /\ OnPath(t) \subseteq e.visited /\ x \notin C
  BY <1>2, <1>3, <1>10
<1> HIDE DEF C
<1>12. Way(e, t)
  <2>1. \A j \in 1..(m + 1) : t[j].next <= Len(e.kids[t[j].node]) + 1
    <3> SUFFICES ASSUME NEW j \in 1..(m + 1) PROVE t[j].next <= Len(e.kids[t[j].node]) + 1
      OBVIOUS
    <3>1. CASE j \in 1..m
      <4>1. t[j].node = s[j].node /\ e.kids = d.kids
        BY <1>3, <1>7, <3>1
      <4>2. CASE j = m
        <5>1. t[j].next = k + 1 /\ s[j].node = n /\ k + 1 <= Len(d.kids[n]) + 1
          <6>1. t[j].next = k + 1
            BY <1>7, <3>1, <4>2
          <6>2. s[j].node = n
            BY <4>2 DEF n
          <6>3. k + 1 <= Len(d.kids[n]) + 1
            BY <1>1
          <6> QED
            BY <6>1, <6>2, <6>3
        <5> QED
          BY <4>1, <5>1
      <4>3. CASE j # m
        BY <1>7, <3>1, <4>1, <4>3
      <4> QED
        BY <4>2, <4>3
    <3>2. CASE j = m + 1
      <4>1. Len(d.kids[x]) \in Nat
        <5> DEFINE v == d.kids[x]
        <5>1. PICK X : v \in Seq(X)
          BY <1>s DEF Typed
        <5> HIDE DEF v
        <5>2. Len(v) \in Nat
          BY <5>1
        <5> QED
          BY <5>2 DEF v
      <4>2. t[j].next = 1 /\ t[j].node = x /\ e.kids = d.kids
        BY <1>3, <1>6, <3>2
      <4>3. 1 <= Len(d.kids[x]) + 1
        <5> DEFINE c == Len(d.kids[x])
        <5>1. c \in Nat
          BY <4>1
        <5> HIDE DEF c
        <5>2. 1 <= c + 1
          BY ONLY <5>1
        <5> QED
          BY <5>2 DEF c
      <4> QED
        BY <4>2, <4>3
    <3> QED
      BY <1>8, <3>1, <3>2
  <2>2. \A i, j \in 1..(m + 1) : t[i].node = t[j].node => i = j
    <3>1. \A i, j \in 1..m : s[i].node = s[j].node => i = j
      BY <1>2 DEF Way, m
    <3>2. \A i, j \in 1..m : t[i].node = t[j].node => i = j
      BY <1>7, <3>1
    <3>3. \A j \in 1..m : t[j].node # x
      BY <1>7
    <3> QED
      BY <1>6, <1>8, <3>2, <3>3
  <2>3. ASSUME NEW j \in 1..m
        PROVE  t[j].next > 1 /\ e.kids[t[j].node][t[j].next - 1] = t[j + 1].node
    <3>1. CASE j = m
      <4>1. (k + 1) - 1 = k /\ k + 1 > 1
        BY <1>1
      <4> QED
        BY <1>1, <1>3, <1>6, <1>7, <3>1, <4>1 DEF n
    <3>2. CASE j # m
      <4>1. j \in 1..(m - 1) /\ j + 1 \in 1..m
        BY <1>s, <3>2
      <4>2. s[j].next > 1 /\ d.kids[s[j].node][s[j].next - 1] = s[j + 1].node
        BY <1>2, <4>1 DEF Way, m
      <4> QED
        BY <1>3, <1>7, <3>2, <4>1, <4>2
    <3> QED
      BY <3>1, <3>2
  <2>4. t[1].node = e.top
    BY <1>2, <1>3, <1>7, <1>9 DEF Way
  <2> QED
    BY <1>6, <1>9, <2>1, <2>2, <2>3, <2>4 DEF Way
<1>13. f \in [Nodes -> 1..MaxLevel] /\ f[x] = m + 1 /\ \A y \in Nodes : y # x => f[y] = level[y]
  BY <1>s, <1>9
<1> HIDE DEF f
<1>14. Through(e, C, L, f)
  <2>1. /\ C \subseteq Nodes
        /\ \A c \in C :
             /\ L[c] = Joined(d.kids[c], L)
             /\ \A i \in DOMAIN d.kids[c] :
                  d.kids[c][i] \in Nodes => d.kids[c][i] \in C /\ level[d.kids[c][i]] = level[c] + 1
    BY <1>2 DEF Through
  <2>2. \A c \in C : c \in Nodes /\ f[c] = level[c]
    <3>1. \A c \in C : c \in Nodes /\ c # x
      BY <1>11, <2>1
    <3> QED
      BY <1>13, <3>1
  <2>3. \A c \in C : \A i \in DOMAIN d.kids[c] :
          d.kids[c][i] \in Nodes => d.kids[c][i] \in C /\ f[d.kids[c][i]] = f[c] + 1
    <3> SUFFICES ASSUME NEW c \in C, NEW i \in DOMAIN d.kids[c], d.kids[c][i] \in Nodes
                 PROVE  d.kids[c][i] \in C /\ f[d.kids[c][i]] = f[c] + 1
      OBVIOUS
    <3> DEFINE y == d.kids[c][i]
    <3>1. y \in C /\ level[y] = level[c] + 1
      BY <2>1
    <3> HIDE DEF y
    <3>2. f[y] = f[c] + 1
      BY <2>2, <3>1
    <3> QED
      BY <3>1, <3>2 DEF y
  <2> QED
    <3>1. L \in Below /\ e.kids = d.kids
      BY <1>s, <1>3
    <3> QED
      BY <1>13, <2>1, <2>3, <3>1 DEF Through
<1>15. Gone(e, t, C, f)
  <2> SUFFICES ASSUME NEW j \in 1..(m + 1)
               PROVE  /\ f[t[j].node] = j
                      /\ \A i \in 1..Done(t, j) :
                           e.kids[t[j].node][i] \in Nodes =>
                             e.kids[t[j].node][i] \in C /\ f[e.kids[t[j].node][i]] = j + 1
    BY <1>6 DEF Gone
  <2>1. CASE j = m + 1
    <3>1. Done(t, j) = 0
      BY <1>6, <2>1 DEF Done
    <3>2. 1..0 = {}
      OBVIOUS
    <3> QED
      BY <1>6, <1>13, <2>1, <3>1, <3>2
  <2>2. CASE j \in 1..m
    <3> DEFINE y == s[j].node
               v == d.kids[y]
    <3>1. t[j].node = y /\ y # x /\ y \in Nodes /\ e.kids[y] = v /\ Done(t, j) = Done(s, j) /\ f[y] = j
      BY <1>3, <1>7, <1>13, <2>2
    <3>2. \A i \in 1..Done(s, j) : v[i] \in Nodes => v[i] \in C /\ level[v[i]] = j + 1
      BY <1>2, <2>2 DEF Gone, m
    <3> HIDE DEF y, v
    <3> QED
      BY <1>11, <1>13, <3>1, <3>2
  <2> QED
    BY <1>8, <2>1, <2>2
<1>16. Adds(e, t, B, L)
  <2>1. /\ A \in [1..(m + 1) -> Seq(Pages)] /\ A[1] = <<>> /\ A[m + 1] = d.all
        /\ \A j \in 1..m :
             A[j + 1] = A[j] \o Joined(SubSeq(d.kids[s[j].node], 1, Done(s, j)), L)
    BY <1>2 DEF Adds, m
  <2>2. d.all \in Seq(Pages)
    BY <1>s, AllIsPages DEF Typed
  <2>3. /\ (m + 1) + 1 = m + 2 /\ m + 2 \in 1..(m + 2) /\ 1 \in 1..(m + 1)
        /\ \A j \in 1..(m + 1) : j \in 1..(m + 2) /\ j # m + 2
        /\ \A j \in 1..(m + 2) : j = m + 2 \/ j \in 1..(m + 1)
        /\ \A j \in 1..m : j + 1 \in 1..(m + 1)
    BY <1>s, <1>9
  <2>4. B \in [1..(m + 2) -> Seq(Pages)] /\ B[m + 2] = d.all /\ \A j \in 1..(m + 1) : B[j] = A[j]
    BY <2>1, <2>2, <2>3
  <2> HIDE DEF B
  <2>5. ASSUME NEW j \in 1..(m + 1)
        PROVE  B[j + 1] = B[j] \o Joined(SubSeq(e.kids[t[j].node], 1, Done(t, j)), L)
    <3>1. CASE j \in 1..m
      BY <1>3, <1>7, <1>9, <2>1, <2>3, <2>4, <3>1
    <3>2. CASE j = m + 1
      <4>1. Done(t, j) = 0
        BY <1>6, <3>2 DEF Done
      <4>2. PICK X : d.kids[x] \in Seq(X)
        BY <1>s DEF Typed
      <4>3. Joined(SubSeq(d.kids[x], 1, 0), L) = <<>>
        BY <1>s, <4>2, JoinedNone
      <4>4. d.all \o <<>> = d.all
        BY <2>2
      <4>5. B[j + 1] = d.all /\ B[j] = d.all
        BY <1>9, <2>1, <2>3, <2>4, <3>2
      <4> QED
        BY <1>3, <1>6, <3>2, <4>1, <4>3, <4>4, <4>5
    <3> QED
      BY <1>8, <3>1, <3>2
  <2> QED
    BY <1>3, <1>6, <2>1, <2>3, <2>4, <2>5 DEF Adds
<1> HIDE DEF B
<1>17. Walk(e, t, B, L, f)
  BY <1>4, <1>11, <1>12, <1>14, <1>15, <1>16 DEF Walk
<1> QED
  BY <1>3, <1>17 DEF e, t, u

(* The last node of the path, when the traversal is through with it, is    *)
(* entered in L.                                                           *)
AtEnd(d, s, L, n, C, M) ==
  /\ n = s[Len(s)].node /\ ~(s[Len(s)].next <= Len(d.kids[n]))
  /\ C = d.visited \ OnPath(s) /\ M = [L EXCEPT ![n] = Joined(d.kids[n], L)]

AgreeOn(L, M, C) == L \in Below /\ M \in Below /\ \A c \in C : M[c] = L[c]
NodesIn(t, C) ==
  /\ \E X : t \in Seq(X)
  /\ \A i \in 1..Len(t) : t[i] \in Nodes => t[i] \in C

LEMMA JoinedThrough ==
  ASSUME NEW L, NEW M, NEW C, AgreeOn(L, M, C), NEW t, NodesIn(t, C)
  PROVE  Joined(t, M) = Joined(t, L)
<1>1. L \in Below /\ M \in Below /\ \A c \in C : M[c] = L[c]
  BY DEF AgreeOn
<1>2. PICK X : t \in Seq(X)
  BY DEF NodesIn
<1>3. \A i \in 1..Len(t) : Piece(t[i], M) = Piece(t[i], L)
  BY <1>1 DEF Piece, NodesIn
<1> QED
  BY <1>1, <1>2, <1>3, JoinedAlike

Entered(d, s, A, L, level, n, C, M) ==
  /\ Through(d, C \cup {n}, M, level) /\ n \in Nodes
  /\ AgreeOn(L, M, C)
  /\ A[Len(s)] \in Seq(Pages) /\ d.all = A[Len(s)] \o M[n]

LEMMA NodeIsThrough ==
  ASSUME NEW d, NEW s, NEW A, NEW L, NEW level, Walk(d, s, A, L, level),
         NEW n, NEW C, NEW M, AtEnd(d, s, L, n, C, M)
  PROVE  Entered(d, s, A, L, level, n, C, M)
<1> DEFINE m == Len(s)
           v == d.kids[n]
<1>0. /\ n = s[Len(s)].node /\ ~(s[Len(s)].next <= Len(d.kids[n]))
      /\ C = d.visited \ OnPath(s) /\ M = [L EXCEPT ![n] = Joined(d.kids[n], L)]
  BY DEF AtEnd
<1>1. /\ m \in Nat /\ m \in 1..m /\ L \in Below /\ level \in [Nodes -> 1..MaxLevel] /\ Typed(d)
      /\ n \in Nodes /\ n \in OnPath(s) /\ Len(v) \in Nat /\ s[m].next \in Nat
  <2>1. m \in Nat /\ m \in 1..m /\ L \in Below /\ level \in [Nodes -> 1..MaxLevel] /\ Typed(d)
    <3>1. m \in Nat /\ m >= 1 /\ L \in Below /\ level \in [Nodes -> 1..MaxLevel] /\ Typed(d)
      BY WalkFacts
    <3> HIDE DEF m
    <3> QED
      BY <3>1
  <2> QED
    BY <1>0, <2>1, WalkFacts
<1>2. PICK X : v \in Seq(X)
  BY <1>1 DEF Typed
<1>3. s[m].next = Len(v) + 1 /\ Done(s, m) = Len(v)
  <2>1. s[m].next <= Len(v) + 1
    BY <1>0, <1>1 DEF Walk, Way
  <2>2. s[m].next = Len(v) + 1
    BY <1>0, <1>1, <2>1
  <2>3. Done(s, m) = s[m].next - 1
    BY DEF Done
  <2> QED
    BY <1>1, <2>2, <2>3
<1>4. \A i \in 1..Len(v) : v[i] \in Nodes => v[i] \in C /\ level[v[i]] = m + 1
  BY <1>0, <1>1, <1>3 DEF Walk, Gone
<1>5. level[n] = m
  BY <1>0, <1>1 DEF Walk, Gone
<1>6. /\ C \subseteq Nodes /\ n \notin C
      /\ \A c \in C :
           /\ L[c] = Joined(d.kids[c], L)
           /\ \A i \in DOMAIN d.kids[c] :
                d.kids[c][i] \in Nodes => d.kids[c][i] \in C /\ level[d.kids[c][i]] = level[c] + 1
  BY <1>0, <1>1 DEF Walk, Through
<1>7. Joined(v, L) \in Seq(Pages)
  BY <1>1, <1>2, JoinedAlike
<1>8. M \in Below /\ M[n] = Joined(v, L) /\ \A c \in C : M[c] = L[c]
  BY <1>0, <1>1, <1>6, <1>7 DEF Below
<1>10. ASSUME NEW c \in C PROVE M[c] = Joined(d.kids[c], M)
  <2> DEFINE w == d.kids[c]
  <2>1. PICK Y : w \in Seq(Y)
    BY <1>1, <1>6 DEF Typed
  <2>2. \A i \in DOMAIN w : w[i] \in Nodes => w[i] \in C
    BY <1>6
  <2>3. M[c] = Joined(w, L)
    BY <1>6, <1>8
  <2> HIDE DEF w
  <2>4. \A i \in 1..Len(w) : w[i] \in Nodes => w[i] \in C
    BY <2>1, <2>2
  <2>5. Joined(w, M) = Joined(w, L)
    <3>1. AgreeOn(L, M, C) /\ NodesIn(w, C)
      BY <1>1, <1>8, <2>1, <2>4 DEF AgreeOn, NodesIn
    <3> QED
      BY <3>1, JoinedThrough
  <2> QED
    BY <2>3, <2>5 DEF w
<1>11. Joined(v, M) = Joined(v, L)
  <2> HIDE DEF v
  <2> QED
    <3>1. AgreeOn(L, M, C) /\ NodesIn(v, C)
      BY <1>1, <1>2, <1>4, <1>8 DEF AgreeOn, NodesIn
    <3> QED
      BY <3>1, JoinedThrough
<1>12. Through(d, C \cup {n}, M, level)
  <2>1. DOMAIN v = 1..Len(v)
    <3> HIDE DEF v
    <3> QED
      BY <1>2
  <2>2. \A c \in C \cup {n} : M[c] = Joined(d.kids[c], M)
    BY <1>8, <1>10, <1>11
  <2>3. \A c \in C \cup {n} : \A i \in DOMAIN d.kids[c] :
          d.kids[c][i] \in Nodes => d.kids[c][i] \in C \cup {n} /\ level[d.kids[c][i]] = level[c] + 1
    BY <1>4, <1>5, <1>6, <2>1
  <2> QED
    BY <1>1, <1>6, <1>8, <2>2, <2>3 DEF Through
<1>13. A[m] \in Seq(Pages) /\ d.all = A[m] \o M[n]
  <2>1. /\ A \in [1..(m + 1) -> Seq(Pages)] /\ A[m + 1] = d.all
        /\ A[m + 1] = A[m] \o Joined(SubSeq(v, 1, Done(s, m)), L)
    BY <1>0, <1>1 DEF Walk, Adds
  <2>2. m \in 1..(m + 1)
    <3> HIDE DEF m
    <3> QED
      BY <1>1
  <2>3. SubSeq(v, 1, Done(s, m)) = v
    <3> HIDE DEF v
    <3>1. SubSeq(v, 1, Len(v)) = v
      BY <1>2
    <3> QED
      BY <1>3, <3>1
  <2> HIDE DEF m, v
  <2> QED
    BY <1>8, <2>1, <2>2, <2>3
<1> QED
  BY <1>1, <1>8, <1>12, <1>13 DEF Entered, AgreeOn

(* A step that goes back to the node above.                                *)
LEMMA WalkLeavesNode ==
  ASSUME NEW d, NEW s, NEW A, NEW L, NEW level, Walk(d, s, A, L, level),
         ~(s[Len(s)].next <= Len(d.kids[s[Len(s)].node])), Len(s) > 1
  PROVE  \E B, M : Walk(d, Front(s), B, M, level)
<1> DEFINE m == Len(s)
           n == s[m].node
           t == Front(s)
           C == d.visited \ OnPath(s)
           E == C \cup {n}
           M == [L EXCEPT ![n] = Joined(d.kids[n], L)]
           B == [j \in 1..m |-> IF j = m THEN d.all ELSE A[j]]
<1>s. /\ s \in Seq(Frames) /\ s # <<>> /\ m \in Nat /\ m \in 1..MaxLevel /\ MaxLevel \in Nat
      /\ L \in Below /\ level \in [Nodes -> 1..MaxLevel] /\ Typed(d)
  BY WalkFacts
<1>1. /\ Met(d) /\ Way(d, s) /\ OnPath(s) \subseteq d.visited
      /\ Through(d, C, L, level) /\ Gone(d, s, C, level) /\ Adds(d, s, A, L)
  BY DEF Walk
<1>2. /\ Through(d, E, M, level) /\ n \in Nodes
      /\ AgreeOn(L, M, C)
      /\ A[m] \in Seq(Pages) /\ d.all = A[m] \o M[n]
  <2>1. AtEnd(d, s, L, n, C, M)
    BY DEF AtEnd
  <2> HIDE DEF n, C, M
  <2>2. Entered(d, s, A, L, level, n, C, M)
    BY <2>1, NodeIsThrough
  <2> QED
    BY <2>2 DEF Entered
<1>m. m > 1
  OBVIOUS
<1> HIDE DEF n, C, M
<1>3. /\ t \in Seq(Frames) /\ Len(t) = m - 1 /\ DOMAIN t = 1..(m - 1)
      /\ \A j \in 1..(m - 1) : t[j] = s[j]
  <2>1. t = SubSeq(s, 1, m - 1)
    BY DEF Front
  <2> HIDE DEF t
  <2> QED
    BY <1>s, <1>m, <2>1
<1> HIDE DEF t, m
<1>4. /\ \A j \in 1..(m - 1) : j \in 1..m /\ j # m /\ j + 1 \in 1..m
      /\ \A j \in 1..m : j = m \/ j \in 1..(m - 1)
      /\ m \in 1..m /\ m - 1 \in 1..(m - 1) /\ (m - 1) + 1 = m /\ m - 1 \in 1..MaxLevel
  BY <1>s, <1>m
<1>5. ASSUME NEW j \in 1..m
      PROVE  /\ s[j].node \in Nodes /\ s[j].node \in OnPath(s) /\ s[j].next \in Nat
             /\ Done(s, j) \in Nat /\ Done(s, j) <= Len(d.kids[s[j].node])
             /\ s[j].next <= Len(d.kids[s[j].node]) + 1 /\ Len(d.kids[s[j].node]) \in Nat
             /\ \E X : d.kids[s[j].node] \in Seq(X)
             /\ level[s[j].node] = j
             /\ \A i \in 1..Done(s, j) :
                  d.kids[s[j].node][i] \in Nodes =>
                    d.kids[s[j].node][i] \in C /\ level[d.kids[s[j].node][i]] = j + 1
             /\ j # m => s[j].node # n /\ s[j].next > 1 /\ Done(s, j) = s[j].next - 2
                         /\ d.kids[s[j].node][s[j].next - 1] = s[j + 1].node
  <2>1. /\ s[j].node \in Nodes /\ s[j].node \in OnPath(s) /\ s[j].next \in Nat
        /\ Done(s, j) \in Nat /\ Done(s, j) <= Len(d.kids[s[j].node]) /\ Len(d.kids[s[j].node]) \in Nat
        /\ \E X : d.kids[s[j].node] \in Seq(X)
    BY WalkFacts DEF m
  <2>2. s[j].next <= Len(d.kids[s[j].node]) + 1
    BY <1>1 DEF Way, m
  <2>3. /\ level[s[j].node] = j
        /\ \A i \in 1..Done(s, j) :
             d.kids[s[j].node][i] \in Nodes =>
               d.kids[s[j].node][i] \in C /\ level[d.kids[s[j].node][i]] = j + 1
    BY <1>1 DEF Gone, m
  <2>4. j # m => s[j].node # n
    BY <1>1, <1>4 DEF Way, m, n
  <2>5. j # m => s[j].next > 1 /\ d.kids[s[j].node][s[j].next - 1] = s[j + 1].node
    BY <1>1, <1>4 DEF Way, m
  <2>6. j # m => Done(s, j) = s[j].next - 2
    BY DEF Done, m
  <2> QED
    BY <2>1, <2>2, <2>3, <2>4, <2>5, <2>6
<1>6. OnPath(t) = OnPath(s) \ {n}
  <2>1. OnPath(t) = {s[j].node : j \in 1..(m - 1)}
    BY <1>3 DEF OnPath
  <2>2. OnPath(s) = {s[j].node : j \in 1..m}
    BY <1>s DEF OnPath, m
  <2>3. \A y \in OnPath(t) : y \in OnPath(s) /\ y # n
    BY <1>4, <1>5, <2>1
  <2>4. \A y \in OnPath(s) : y # n => y \in OnPath(t)
    BY <1>4, <2>1, <2>2 DEF n
  <2> QED
    BY <2>3, <2>4
<1>7. d.visited \ OnPath(t) = E /\ OnPath(t) \subseteq d.visited
  <2>1. n \in OnPath(s)
    BY <1>4, <1>5 DEF n
  <2> QED
    BY <1>1, <1>6, <2>1 DEF C
<1>8. Way(d, t)
  <2>1. \A j \in 1..(m - 1) : t[j].next <= Len(d.kids[t[j].node]) + 1
    BY <1>3, <1>4, <1>5
  <2>2. \A i, j \in 1..(m - 1) : t[i].node = t[j].node => i = j
    BY <1>1, <1>3, <1>4 DEF Way, m
  <2>3. \A j \in 1..((m - 1) - 1) :
          t[j].next > 1 /\ d.kids[t[j].node][t[j].next - 1] = t[j + 1].node
    <3> SUFFICES ASSUME NEW j \in 1..((m - 1) - 1)
                 PROVE  t[j].next > 1 /\ d.kids[t[j].node][t[j].next - 1] = t[j + 1].node
      OBVIOUS
    <3>1. j \in 1..(m - 1) /\ j + 1 \in 1..(m - 1)
      BY <1>s
    <3> QED
      BY <1>3, <1>4, <1>5, <3>1
  <2>4. t[1].node = d.top
    <3>1. 1 \in 1..(m - 1)
      BY <1>s, <1>m
    <3> QED
      BY <1>1, <1>3, <3>1 DEF Way
  <2> QED
    BY <1>3, <1>4, <2>1, <2>2, <2>3, <2>4 DEF Way
<1>9. \A j \in 1..(m - 1) : Done(t, j) = IF j = m - 1 THEN Done(s, j) + 1 ELSE Done(s, j)
  <2> SUFFICES ASSUME NEW j \in 1..(m - 1)
               PROVE  Done(t, j) = IF j = m - 1 THEN Done(s, j) + 1 ELSE Done(s, j)
    OBVIOUS
  <2>1. Done(s, j) = s[j].next - 2 /\ s[j].next \in Nat
    BY <1>4, <1>5
  <2>2. Done(t, j) = IF j = m - 1 THEN s[j].next - 1 ELSE s[j].next - 2
    BY <1>3 DEF Done
  <2> QED
    BY <2>1, <2>2
<1>10. ASSUME NEW j \in 1..(m - 1), j = m - 1
       PROVE  d.kids[s[j].node][Done(s, j) + 1] = n /\ Done(s, j) + 1 \in 1..Len(d.kids[s[j].node])
  <2>1. /\ s[j].next > 1 /\ Done(s, j) = s[j].next - 2 /\ s[j].next \in Nat
        /\ d.kids[s[j].node][s[j].next - 1] = s[j + 1].node
        /\ s[j].next <= Len(d.kids[s[j].node]) + 1 /\ Len(d.kids[s[j].node]) \in Nat
    BY <1>4, <1>5
  <2>2. s[j].next - 1 = Done(s, j) + 1 /\ j + 1 = m
    BY <1>s, <1>10, <2>1
  <2>3. s[j + 1].node = n
    BY <2>2 DEF n
  <2> DEFINE v == d.kids[s[j].node]
  <2>4. v[Done(s, j) + 1] = n
    BY <2>1, <2>2, <2>3
  <2>5. Done(s, j) + 1 \in 1..Len(v)
    <3> DEFINE a == s[j].next
               b == Done(s, j)
               c == Len(v)
    <3>1. a > 1 /\ b = a - 2 /\ a \in Nat /\ a <= c + 1 /\ c \in Nat
      BY <2>1
    <3> HIDE DEF a, b, c
    <3>2. b + 1 \in 1..c
      BY <3>1
    <3> QED
      BY <3>2 DEF b, c
  <2> QED
    BY <2>4, <2>5
<1>11. Gone(d, t, E, level)
  <2> SUFFICES ASSUME NEW j \in 1..(m - 1)
               PROVE  /\ level[t[j].node] = j
                      /\ \A i \in 1..Done(t, j) :
                           d.kids[t[j].node][i] \in Nodes =>
                             d.kids[t[j].node][i] \in E /\ level[d.kids[t[j].node][i]] = j + 1
    BY <1>3 DEF Gone
  <2> DEFINE v == d.kids[s[j].node]
  <2>1. /\ level[s[j].node] = j /\ Done(s, j) \in Nat
        /\ \A i \in 1..Done(s, j) : v[i] \in Nodes => v[i] \in C /\ level[v[i]] = j + 1
    BY <1>4, <1>5
  <2>2. t[j] = s[j] /\ d.kids[t[j].node] = v
    BY <1>3
  <2>3. j = m - 1 => v[Done(s, j) + 1] = n /\ level[n] = j + 1
    BY <1>4, <1>5, <1>10 DEF n
  <2> HIDE DEF v
  <2>4. \A i \in 1..Done(t, j) : i \in 1..Done(s, j) \/ (j = m - 1 /\ i = Done(s, j) + 1)
    BY <1>9, <2>1
  <2> QED
    BY <2>1, <2>2, <2>3, <2>4
<1>12. Adds(d, t, B, M)
  <2>1. /\ A \in [1..(m + 1) -> Seq(Pages)] /\ A[1] = <<>> /\ A[m + 1] = d.all
        /\ \A j \in 1..m :
             A[j + 1] = A[j] \o Joined(SubSeq(d.kids[s[j].node], 1, Done(s, j)), L)
    BY <1>1 DEF Adds, m
  <2>2. d.all \in Seq(Pages) /\ 1 \in 1..m /\ 1 # m /\ \A j \in 1..m : j \in 1..(m + 1)
    <3>1. d.all \in Seq(Pages)
      BY <1>s, AllIsPages DEF Typed
    <3>2. 1 \in 1..m /\ 1 # m /\ \A j \in 1..m : j \in 1..(m + 1)
      BY <1>s, <1>m
    <3> QED
      BY <3>1, <3>2
  <2>3. B \in [1..m -> Seq(Pages)] /\ B[m] = d.all /\ B[1] = <<>>
        /\ \A j \in 1..m : j # m => B[j] = A[j]
    BY <1>4, <2>1, <2>2
  <2> HIDE DEF B
  <2>4. M \in Below
    BY <1>2 DEF Through
  <2>5. ASSUME NEW j \in 1..(m - 1)
        PROVE  B[j + 1] = B[j] \o Joined(SubSeq(d.kids[t[j].node], 1, Done(t, j)), M)
    <3> DEFINE v == d.kids[s[j].node]
               k == Done(s, j)
               a == A[j]
               b == Joined(SubSeq(v, 1, k), L)
    <3>1. PICK X : v \in Seq(X)
      BY <1>4, <1>5
    <3>2. k \in Nat /\ k <= Len(v) /\ Len(v) \in Nat /\ \A i \in 1..k : v[i] \in Nodes => v[i] \in C
      BY <1>4, <1>5
    <3>3. t[j].node = s[j].node /\ B[j] = a /\ a \in Seq(Pages) /\ A[j + 1] = a \o b
      BY <1>3, <1>4, <2>1, <2>2, <2>3
    <3>4. Done(t, j) = IF j = m - 1 THEN k + 1 ELSE k
      BY <1>9
    <3>5. j = m - 1 => v[k + 1] = n /\ k + 1 \in 1..Len(v)
      BY <1>10
    <3> HIDE DEF v, k, a
    <3>6. SubSeq(v, 1, k) \in Seq(X) /\ Len(SubSeq(v, 1, k)) = k /\ \A i \in 1..k : SubSeq(v, 1, k)[i] = v[i]
      BY <3>1, <3>2
    <3>7. b \in Seq(Pages)
      BY <1>s, <3>6, JoinedAlike
    <3>8. Joined(SubSeq(v, 1, k), M) = b
      <4> DEFINE w == SubSeq(v, 1, k)
      <4>1. w \in Seq(X) /\ \A i \in 1..Len(w) : w[i] \in Nodes => w[i] \in C
        BY <3>2, <3>6
      <4> HIDE DEF w
      <4>2. Joined(w, M) = Joined(w, L)
        <5>1. NodesIn(w, C)
          BY <4>1 DEF NodesIn
        <5> QED
          BY <1>2, <5>1, JoinedThrough
      <4> QED
        BY <4>2 DEF w
    <3> HIDE DEF b
    <3>9. CASE j # m - 1
      <4>1. j + 1 \in 1..m /\ j + 1 # m
        BY <1>s, <3>9
      <4>2. B[j + 1] = A[j + 1]
        BY <2>3, <4>1
      <4> QED
        BY <3>3, <3>4, <3>8, <3>9, <4>2 DEF v
    <3>10. CASE j = m - 1
      <4>1. j + 1 = m
        BY <1>4, <3>10
      <4>2. Joined(SubSeq(v, 1, k + 1), M) = Joined(SubSeq(v, 1, (k + 1) - 1), M) \o Piece(v[k + 1], M)
        BY <2>4, <3>1, <3>5, <3>10, JoinedGrows
      <4>3. (k + 1) - 1 = k /\ Piece(v[k + 1], M) = M[n]
        BY <1>2, <3>2, <3>5, <3>10 DEF Piece
      <4>4. M[n] \in Seq(Pages)
        BY <1>2, <2>4 DEF Below
      <4>5. d.all = (a \o b) \o M[n]
        BY <1>2, <3>3, <4>1
      <4> DEFINE c == M[n]
      <4>c. c \in Seq(Pages)
        BY <4>4
      <4> HIDE DEF c
      <4>6. (a \o b) \o c = a \o (b \o c)
        BY <3>3, <3>7, <4>c
      <4>7. Joined(SubSeq(v, 1, k + 1), M) = b \o c
        BY <3>8, <4>2, <4>3 DEF c
      <4>8. B[j + 1] = d.all /\ Done(t, j) = k + 1
        BY <2>3, <3>4, <3>10, <4>1
      <4> QED
        BY <3>3, <4>5, <4>6, <4>7, <4>8 DEF v, c
    <3> QED
      BY <3>9, <3>10
  <2> QED
    BY <1>3, <1>4, <2>3, <2>5 DEF Adds
<1> HIDE DEF B, E
<1>13. Walk(d, t, B, M, level)
  BY <1>1, <1>2, <1>7, <1>8, <1>11, <1>12 DEF Walk
<1> QED
  BY <1>13 DEF t

(* At the end of the root all_pages is what the tree holds.                *)
LEMMA WalkEnds ==
  ASSUME NEW d, NEW s, NEW A, NEW L, NEW level, Walk(d, s, A, L, level),
         ~(s[Len(s)].next <= Len(d.kids[s[Len(s)].node])), Len(s) = 1
  PROVE  Sound(d) /\ d.top \in Nodes
<1> DEFINE n == s[1].node
           C == d.visited \ OnPath(s)
           M == [L EXCEPT ![n] = Joined(d.kids[n], L)]
<1>1. Typed(d) /\ d.top \in Nodes /\ d.top = n /\ d.pos = NoMap /\ A[1] = <<>> /\ level[n] = 1
  <2>1. 1 \in 1..Len(s)
    OBVIOUS
  <2>2. Typed(d) /\ d.top \in Nodes
    BY WalkFacts
  <2>3. d.pos = NoMap /\ d.top = n /\ A[1] = <<>>
    BY DEF Walk, Way, Met, Adds
  <2>4. level[n] = 1
    BY <2>1 DEF Walk, Gone
  <2> QED
    BY <2>2, <2>3, <2>4
<1>2. /\ Through(d, C \cup {n}, M, level) /\ n \in Nodes /\ d.all = A[1] \o M[n]
  <2>1. AtEnd(d, s, L, n, C, M)
    BY DEF AtEnd
  <2> HIDE DEF n, C, M
  <2>2. A[1] = A[Len(s)]
    OBVIOUS
  <2>3. Entered(d, s, A, L, level, n, C, M)
    BY <2>1, NodeIsThrough
  <2> QED
    BY <2>2, <2>3 DEF Entered
<1> HIDE DEF n, M, C
<1>3. d.all = M[n]
  <2>1. M[n] \in Seq(Pages)
    BY <1>2 DEF Through, Below
  <2>2. <<>> \o M[n] = M[n]
    BY <2>1
  <2> QED
    BY <1>1, <1>2, <2>2
<1>4. LeavesBelow(d)[n] = M[n]
  BY <1>1, <1>2, KidsAreTyped, ThroughIsLeaves
<1> QED
  BY <1>1, <1>3, <1>4 DEF Sound

-----------------------------------------------------------------------------
(* The invariant: a document is sound between calls, and on the way the    *)
(* traversal is somewhere in the tree.                                     *)
IInv ==
  \/ path = <<>> /\ Sound(doc) /\ doc.seen = {}
  \/ /\ path # <<>> /\ CallOK(call, doc.made)
     /\ \E A, L, level : Walk(doc, path, A, L, level)

LEMMA Returns ==
  ASSUME NEW c, NEW d, Sound(d), Return(c, d)
  PROVE  IInv'
<1> DEFINE e == [d EXCEPT !.visited = {}, !.seen = {}]
<1>1. e.seen = {}
  BY DEF Sound, Typed, Fields
<1>2. Sound(e)
  <2>1. Alike(d, e)
    BY SmallSteps DEF Sound
  <2> QED
    BY <2>1, AlikeIsSound
<1>3. doc' = e /\ path' = <<>>
  BY DEF Return
<1> HIDE DEF e
<1> QED
  BY <1>1, <1>2, <1>3 DEF IInv

LEMMA Caches ==
  ASSUME NEW c, NEW d, Sound(d), d.seen = {}, CallOK(c, d.made), Cache(c, d)
  PROVE  IInv'
<1>1. CASE d.all # <<>> \/ d.invalid
  <2>1. Sound(OnCached(c, d))
    BY <1>1, OnCachedIsSound DEF Sound
  <2>2. Return(c, OnCached(c, d))
    BY <1>1 DEF Cache
  <2> QED
    BY <2>1, <2>2, Returns
<1>2. CASE ~(d.all # <<>> \/ d.invalid)
  <2> DEFINE top == Climb(d)
             e == [d EXCEPT !.top = top]
  <2>1. d.all = <<>> /\ ~d.invalid /\ Typed(d) /\ (d.pos # NoMap => IsFlat(d))
    BY <1>2 DEF Sound
  <2>2. d.pos = NoMap
    <3>1. IsFlat(d) => DOMAIN d.pos = {} /\ d.pos = [p \in DOMAIN d.pos |-> d.pos[p]]
      <4>1. ToSet(d.all) = {}
        BY <2>1 DEF ToSet
      <4> QED
        BY <4>1 DEF IsFlat, IsMap
    <3>2. DOMAIN d.pos = {} /\ d.pos = [p \in DOMAIN d.pos |-> d.pos[p]] => d.pos = NoMap
      BY DEF NoMap
    <3> QED
      BY <2>1, <3>1, <3>2
  <2> HIDE DEF top
  <2>3. /\ DOMAIN e = Fields /\ e.visited = d.visited /\ e.top = top /\ e.kids = d.kids /\ e.made = d.made
        /\ e.seen = d.seen /\ e.all = d.all /\ e.pos = d.pos /\ e.parent = d.parent /\ e.attr = d.attr
        /\ e.count = d.count /\ e.invalid = d.invalid /\ e.recovered = d.recovered
    BY <2>1 DEF Typed, Fields
  <2>4. ReadTree(c, e)
    BY <1>2 DEF Cache, top
  <2> HIDE DEF e
  <2>5. Typed(e)
    BY <2>1, <2>3 DEF Typed, Objects
  <2>6. CASE e.top \notin Nodes
    <3>1. Sound(e)
      BY <2>1, <2>2, <2>3, <2>5 DEF Sound
    <3>2. Sound(Throw(e, "no kids"))
      BY <2>5, <3>1, SmallSteps, AlikeIsSound
    <3>3. Return(c, Throw(e, "no kids"))
      BY <2>4, <2>6 DEF ReadTree
    <3> QED
      BY <3>2, <3>3, Returns
  <2>7. CASE e.top \in Nodes
    <3> DEFINE g == [e EXCEPT !.visited = {e.top}]
               s == <<Frame(e.top)>>
    <3>1. doc' = g /\ call' = c /\ path' = s
      BY <2>4, <2>7 DEF ReadTree
    <3>2. \E A, L, level : Walk(g, s, A, L, level)
      BY <2>1, <2>2, <2>3, <2>5, <2>7, WalkBegins
    <3>3. g.made = e.made /\ s # <<>>
      BY <2>3 DEF Fields
    <3> HIDE DEF g, s
    <3>4. CallOK(c, g.made)
      BY <2>3, <3>3
    <3> QED
      BY <3>1, <3>2, <3>3, <3>4 DEF IInv
  <2> QED
    BY <2>6, <2>7
<1> QED
  BY <1>1, <1>2

LEMMA Flattens ==
  ASSUME NEW c, NEW d, Sound(d), d.seen = {}, CallOK(c, d.made), c[1] \in {"insert", "find", "erase"},
         Flatten(c, d)
  PROVE  IInv'
<1>1. CASE d.pos # NoMap
  <2>1. Typed(d) /\ IsFlat(d)
    BY <1>1 DEF Sound
  <2>2. Sound(OnFlat(c, d))
    BY <2>1, OnFlatIsSound
  <2>3. Return(c, OnFlat(c, d))
    BY <1>1 DEF Flatten
  <2> QED
    BY <2>2, <2>3, Returns
<1>2. CASE d.pos = NoMap
  BY <1>2, Caches DEF Flatten
<1> QED
  BY <1>1, <1>2

LEMMA InitSound == Init => IInv
<1> SUFFICES ASSUME Init PROVE IInv
  OBVIOUS
<1>1. Opened(doc) /\ path = <<>>
  BY ConstantsAssumption DEF Init
<1>2. Typed(doc)
  BY <1>1, EmptyVector DEF Opened, Typed, Fields
<1> QED
  BY <1>1, <1>2 DEF IInv, Sound, Opened

LEMMA StartSound ==
  ASSUME IInv, Bounded
  PROVE  /\ Sound(doc) /\ Sound(Start) /\ Start.seen = {} /\ Start.made = doc.made
         /\ Sound(Cleared(Start)) /\ Cleared(Start).seen = {} /\ Cleared(Start).made = doc.made
<1>1. Sound(doc) /\ doc.seen = {} /\ Typed(doc)
  BY DEF IInv, Bounded, Sound
<1>2. Alike(doc, Start) /\ Start.seen = {}
  BY <1>1, SmallSteps DEF Start, Typed, Fields
<1>3. Sound(Start) /\ Start.made = doc.made /\ Typed(Start)
  BY <1>1, <1>2, AlikeIsSound DEF Alike
<1> DEFINE d == Start
           e == Cleared(d)
<1> HIDE DEF d
<1>4. /\ DOMAIN e = Fields /\ e.visited = d.visited /\ e.top = d.top /\ e.kids = d.kids /\ e.made = d.made
      /\ e.seen = d.seen /\ e.all = <<>> /\ e.pos = NoMap /\ e.parent = d.parent /\ e.attr = d.attr
      /\ e.count = d.count /\ e.invalid = d.invalid /\ e.recovered = d.recovered
  BY <1>3 DEF Cleared, Typed, Fields, d
<1> HIDE DEF e
<1>5. Typed(e)
  BY <1>3, <1>4, EmptyVector DEF Typed, Objects, d
<1>6. Sound(e)
  BY <1>3, <1>4, <1>5 DEF Sound, d
<1> QED
  BY <1>1, <1>2, <1>3, <1>4, <1>6 DEF d, e

LEMMA CallSound ==
  ASSUME IInv, Bounded,
         \/ GetAllPages \/ UpdateCache \/ PushInherited
         \/ \E x \in (1..doc.made) \cup {Direct} :
              AddPage(x) \/ \E i \in 0..(Len(doc.all) + 1) : Insert(x, i)
         \/ \E p \in 1..doc.made : Find(p) \/ Erase(p)
  PROVE  IInv'
<1>s. /\ Sound(doc) /\ Sound(Start) /\ Start.seen = {} /\ Start.made = doc.made
      /\ Sound(Cleared(Start)) /\ Cleared(Start).seen = {} /\ Cleared(Start).made = doc.made
  BY StartSound
<1>1. CASE GetAllPages
  <2>1. CallOK(<<"get">>, Start.made)
    BY DEF CallOK
  <2> QED
    BY <1>s, <1>1, <2>1, Caches DEF GetAllPages
<1>2. CASE UpdateCache
  <2>1. CallOK(<<"update">>, Cleared(Start).made)
    BY DEF CallOK
  <2> QED
    BY <1>s, <1>2, <2>1, Caches DEF UpdateCache
<1>3. CASE PushInherited
  <2>1. CallOK(<<"push">>, Start.made)
    BY DEF CallOK
  <2> QED
    BY <1>s, <1>3, <2>1, Caches, Returns DEF PushInherited
<1>4. ASSUME NEW x \in (1..doc.made) \cup {Direct}, NEW i \in Int, Insert(x, i)
      PROVE  IInv'
  <2> DEFINE c == <<"insert", x, i>>
  <2>1. CallOK(c, Start.made) /\ c[1] \in {"insert", "find", "erase"}
    BY <1>s DEF CallOK
  <2>2. Flatten(c, Start)
    BY <1>4 DEF Insert
  <2> HIDE DEF c
  <2> QED
    BY <1>s, <2>1, <2>2, Flattens
<1>5. ASSUME NEW x \in (1..doc.made) \cup {Direct}, AddPage(x)
      PROVE  IInv'
  <2> DEFINE i == IF doc.top \in Nodes THEN doc.count[doc.top] ELSE 0
  <2>1. i \in Int
    BY <1>s DEF Sound, Typed
  <2>2. Insert(x, i)
    BY <1>5 DEF AddPage
  <2> HIDE DEF i
  <2> QED
    BY <1>4, <2>1, <2>2
<1>6. ASSUME NEW p, Find(p) \/ Erase(p)
      PROVE  IInv'
  <2>1. PICK c : c \in {<<"find", p>>, <<"erase", p>>} /\ Flatten(c, Start)
    BY <1>6 DEF Find, Erase
  <2>2. CallOK(c, Start.made) /\ c[1] \in {"insert", "find", "erase"}
    BY <2>1 DEF CallOK
  <2> QED
    BY <1>s, <2>1, <2>2, Flattens
<1>7. 0..(Len(doc.all) + 1) \subseteq Int
  OBVIOUS
<1> QED
  BY <1>1, <1>2, <1>3, <1>4, <1>5, <1>6, <1>7

LEMMA EditSound ==
  ASSUME IInv, EditAndUpdate
  PROVE  IInv'
<1> DEFINE n == doc.top
           d == [Start EXCEPT !.kids[n] = Tail(@), !.count[n] = @ - 1]
           e == Cleared(d)
           c == <<"edit">>
<1>1. Bounded /\ n \in Nodes /\ doc.kids[n] # <<>> /\ Cache(c, e)
  BY DEF EditAndUpdate
<1>2. Typed(Start) /\ Start.seen = {} /\ Start.top = n /\ Start.kids = doc.kids /\ Start.count = doc.count
  <2>1. Sound(Start) /\ Start.seen = {} /\ Sound(doc)
    BY <1>1, StartSound
  <2> QED
    BY <2>1 DEF Start, Sound, Typed, Fields
<1> DEFINE b == Start
<1> HIDE DEF b
<1>3. /\ DOMAIN e = Fields /\ e.visited = b.visited /\ e.top = b.top /\ e.made = b.made
      /\ e.kids = [b.kids EXCEPT ![n] = Tail(@)] /\ e.count = [b.count EXCEPT ![n] = @ - 1]
      /\ e.seen = b.seen /\ e.all = <<>> /\ e.pos = NoMap /\ e.parent = b.parent /\ e.attr = b.attr
      /\ e.invalid = b.invalid /\ e.recovered = b.recovered
  BY <1>2 DEF Cleared, Typed, Fields, b
<1> HIDE DEF e
<1>4. e.kids \in [Nodes -> Seq(Objects(b) \cup {Junk, Direct})]
  <2> DEFINE X == Objects(b) \cup {Junk, Direct}
  <2>1. b.kids \in [Nodes -> Seq(X)] /\ b.kids[n] # <<>>
    BY <1>1, <1>2 DEF Typed, b
  <2> HIDE DEF X, n
  <2>2. Tail(b.kids[n]) \in Seq(X)
    <3>1. b.kids[n] \in Seq(X)
      BY <1>1, <2>1
    <3> QED
      BY <2>1, <3>1
  <2> QED
    BY <1>3, <2>1, <2>2 DEF X
<1>5. e.count \in [Nodes -> Int]
  <2>1. b.count \in [Nodes -> Int]
    BY <1>2 DEF Typed, b
  <2> QED
    BY <1>1, <1>3, <2>1
<1>6. Typed(e)
  BY <1>2, <1>3, <1>4, <1>5, EmptyVector DEF Typed, Objects, b
<1>7. Sound(e) /\ e.seen = {}
  BY <1>1, <1>2, <1>3, <1>6 DEF Sound, b
<1>8. CallOK(c, e.made)
  BY DEF CallOK
<1> HIDE DEF c
<1> QED
  BY <1>1, <1>7, <1>8, Caches

LEMMA VisitSound ==
  ASSUME IInv, VisitPage \/ VisitNode
  PROVE  IInv'
<1> DEFINE m == Len(path)
           n == path[m].node
           k == path[m].next
           t == Append(Front(path), [Last(path) EXCEPT !.next = @ + 1])
<1>1. path # <<>> /\ k <= Len(doc.kids[n]) /\ Kid = doc.kids[n][k] /\ At.node = n /\ At.next = k /\ Advanced = t
  BY DEF VisitPage, VisitNode, Looking, At, Kids, Kid, Advanced, Last
<1>2. CallOK(call, doc.made) /\ \E A, L, level : Walk(doc, path, A, L, level)
  BY <1>1 DEF IInv
<1>3. PICK A, L, level : Walk(doc, path, A, L, level)
  BY <1>2
<1>4. /\ path \in Seq(Frames) /\ doc.made \in Nat /\ Typed(doc)
  BY <1>3, WalkFacts DEF Typed
<1>5. CASE VisitPage
  <2> DEFINE e == Leaf(doc, n, k)
  <2>1. doc' = e /\ path' = t /\ call' = call /\ doc.kids[n][k] \notin Nodes
    BY <1>1, <1>5 DEF VisitPage
  <2>2. (\E B : Walk(e, t, B, L, level)) /\ 1..doc.made \subseteq 1..e.made
    BY <1>1, <1>3, <2>1, WalkVisitsPage
  <2> HIDE DEF e
  <2>3. CallOK(call, e.made)
    BY <1>2, <2>2 DEF CallOK
  <2>4. t # <<>>
    BY <2>2, WalkFacts
  <2> HIDE DEF t
  <2> QED
    BY <2>1, <2>2, <2>3, <2>4 DEF IInv
<1>6. CASE VisitNode
  <2>1. CASE m = MaxLevel \/ Kid \in doc.visited
    <3>1. PICK ex : GiveUp(ex)
      BY <1>6, <2>1 DEF VisitNode
    <3> DEFINE d == [doc EXCEPT !.all = <<>>, !.invalid = FALSE]
    <3>2. /\ DOMAIN d = Fields /\ d.visited = doc.visited /\ d.top = doc.top /\ d.kids = doc.kids
          /\ d.made = doc.made /\ d.seen = doc.seen /\ d.all = <<>> /\ d.pos = doc.pos
          /\ d.parent = doc.parent /\ d.attr = doc.attr
          /\ d.count = doc.count /\ d.invalid = FALSE /\ d.recovered = doc.recovered
      BY <1>4 DEF Typed, Fields
    <3>3. Return(call, Throw(d, ex))
      BY <3>1 DEF GiveUp
    <3> HIDE DEF d
    <3>4. Typed(d)
      BY <1>4, <3>2, EmptyVector DEF Typed, Objects
    <3>5. d.pos = NoMap
      BY <1>3, <3>2 DEF Walk, Met
    <3>6. Sound(d)
      BY <3>2, <3>4, <3>5 DEF Sound
    <3>7. Alike(d, Throw(d, ex))
      BY <3>4, SmallSteps
    <3>8. Sound(Throw(d, ex))
      BY <3>6, <3>7, AlikeIsSound
    <3> QED
      BY <3>3, <3>8, Returns
  <2>2. CASE ~(m = MaxLevel \/ Kid \in doc.visited)
    <3> DEFINE x == Kid
               e == [doc EXCEPT !.visited = @ \cup {x}]
               u == Append(t, Frame(x))
    <3>1. doc' = e /\ path' = u /\ call' = call /\ x \in Nodes
      BY <1>1, <1>6, <2>2 DEF VisitNode
    <3>x. x = doc.kids[n][k]
      BY <1>1
    <3> HIDE DEF x
    <3>2. (\E B, f : Walk(e, u, B, L, f)) /\ e.made = doc.made
      BY <1>1, <1>3, <2>2, <3>1, <3>x, WalkEntersNode DEF x
    <3> HIDE DEF e
    <3>3. u # <<>>
      BY <3>2, WalkFacts
    <3> HIDE DEF u
    <3> QED
      BY <1>2, <3>1, <3>2, <3>3 DEF IInv
  <2> QED
    BY <2>1, <2>2
<1> QED
  BY <1>5, <1>6

LEMMA DoneSound ==
  ASSUME IInv, NodeDone \/ TreeDone
  PROVE  IInv'
<1>1. Len(path) >= 1 /\ (Looking <=> path # <<>> /\ path[Len(path)].next <= Len(doc.kids[path[Len(path)].node]))
      /\ ~Looking
  BY DEF NodeDone, TreeDone, Looking, At, Kids, Last
<1>2. path # <<>>
  <2> SUFFICES ASSUME path = <<>> PROVE FALSE
    OBVIOUS
  <2>1. Len(path) = 0
    OBVIOUS
  <2> QED
    BY <1>1, <2>1
<1>3. CallOK(call, doc.made) /\ \E A, L, level : Walk(doc, path, A, L, level)
  BY <1>2 DEF IInv
<1>4. PICK A, L, level : Walk(doc, path, A, L, level)
  BY <1>3
<1>5. ~(path[Len(path)].next <= Len(doc.kids[path[Len(path)].node]))
  BY <1>1, <1>2
<1>6. CASE NodeDone
  <2> DEFINE t == Front(path)
  <2>1. doc' = doc /\ call' = call /\ path' = t /\ Len(path) > 1
    BY <1>6 DEF NodeDone
  <2>2. \E B, M : Walk(doc, t, B, M, level)
    BY <1>4, <1>5, <2>1, WalkLeavesNode
  <2>3. t # <<>>
    BY <2>2, WalkFacts
  <2> HIDE DEF t
  <2> QED
    BY <1>3, <2>1, <2>2, <2>3 DEF IInv
<1>7. CASE TreeDone
  <2> DEFINE f == CacheFound(doc)
             e == IF Fails(f) THEN f ELSE OnCached(call, f)
  <2>1. Len(path) = 1 /\ Return(call, e)
    BY <1>7 DEF TreeDone, Then
  <2>2. Sound(doc) /\ doc.top \in Nodes
    BY <1>4, <1>5, <2>1, WalkEnds
  <2>3. Sound(f) /\ f.top \in Nodes /\ f.made = doc.made
    BY <2>2, CacheFoundIsSound
  <2> HIDE DEF f
  <2>4. Sound(OnCached(call, f))
    BY <1>3, <2>3, OnCachedIsSound
  <2>5. Sound(e)
    BY <2>3, <2>4
  <2> HIDE DEF e
  <2> QED
    BY <2>1, <2>5, Returns
<1> QED
  BY <1>6, <1>7

(* IInv holds always.                                                      *)
LEMMA Inductive == Spec => []IInv
<1>1. IInv /\ [Next]_vars => IInv'
  <2> SUFFICES ASSUME IInv, [Next]_vars PROVE IInv'
    OBVIOUS
  <2>1. CASE UNCHANGED vars
    BY <2>1 DEF vars, IInv
  <2>2. CASE VisitPage \/ VisitNode
    BY <2>2, VisitSound
  <2>3. CASE NodeDone \/ TreeDone
    BY <2>3, DoneSound
  <2>4. CASE EditAndUpdate
    BY <2>4, EditSound
  <2>5. CASE \/ GetAllPages \/ UpdateCache \/ PushInherited
             \/ \E x \in (1..doc.made) \cup {Direct} :
                  AddPage(x) \/ \E i \in 0..(Len(doc.all) + 1) : Insert(x, i)
             \/ \E p \in 1..doc.made : Find(p) \/ Erase(p)
    <3>1. Bounded
      BY <2>5 DEF GetAllPages, UpdateCache, PushInherited, AddPage, Insert, Find, Erase
    <3> QED
      BY <2>5, <3>1, CallSound
  <2> QED
    BY <2>1, <2>2, <2>3, <2>4, <2>5 DEF Next
<1> QED
  BY <1>1, InitSound, PTL DEF Spec

LEMMA Agrees == IInv => MapAndTreeAgree
<1> SUFFICES ASSUME IInv PROVE MapAndTreeAgree
  OBVIOUS
<1>1. CASE path = <<>>
  <2>1. Sound(doc)
    BY <1>1 DEF IInv, Walk, Way
  <2>2. IsInjective(doc.all) /\ (doc.pos # NoMap => IsFlat(doc))
    BY <2>1 DEF Sound, Typed
  <2>3. doc.all # <<>> => doc.all = LeavesBelow(doc)[doc.top]
    BY <2>1 DEF Sound
  <2> QED
    BY <2>2, <2>3 DEF MapAndTreeAgree, Consistent, FlatTree, IsFlat
<1>2. CASE path # <<>>
  <2>1. Met(doc)
    BY <1>2 DEF IInv, Walk
  <2> QED
    BY <1>2, <2>1 DEF MapAndTreeAgree, Consistent, FlatTree, Met, Typed
<1> QED
  BY <1>1, <1>2

(* After any calls on any document, all_pages lists the pages of the tree  *)
(* in order and each once, and the map and the flattened tree agree with   *)
(* it, whatever exceptions the calls ended in (QPDF_pages.cc).             *)
THEOREM MapAndTreeHold == Spec => []MapAndTreeAgree
  BY Inductive, Agrees, PTL
=============================================================================
