-------------------------- MODULE Resolver_proofs --------------------------
(***************************************************************************)
(* Whatever the objects of a file refer to, calls of resolve hold a        *)
(* recorder each and nest no deeper than there are objects; once dangling  *)
(* references are fixed nothing in the table is unresolved; and what an    *)
(* object is does not depend on what has been read before it.              *)
(***************************************************************************)
EXTENDS Resolver, SequenceTheorems, FiniteSetTheorems, TLAPS

PCs == {"start", "read", "length", "load", "unpack", "end"}
Frames == {f \in [id : Ids, pc : PCs, off : 0..MaxId] :
             f.pc \in {"load", "unpack"} => f.off \in Ids}

TypeOK ==
  /\ file \in Files
  /\ xref \in [Ids -> Entries] /\ cache \in [Ids -> Values]
  /\ resolving \subseteq Ids /\ loaded \subseteq Ids
  /\ reconstructed \in BOOLEAN /\ fixed \in BOOLEAN
  /\ stack \in Seq(Frames)
  /\ walk \in [at : 0..(MaxId + 1), may : BOOLEAN, round : 0..2]
  /\ walk = NoWalk \/ walk.at \in 1..(MaxId + 1)

-----------------------------------------------------------------------------
(* What a step does to the stack: the call on top returns, goes on, or     *)
(* calls another.                                                          *)
Popped(s, t) ==
  Len(s) = Len(t) + 1 /\ \A k \in 1..Len(t) : t[k] = s[k + 1]
Changed(s, t, x) ==
  Len(t) = Len(s) /\ t[1] = x /\ \A k \in 2..Len(s) : t[k] = s[k]
Pushed(s, t, y, x) ==
  /\ Len(t) = Len(s) + 1 /\ t[1] = y /\ t[2] = x
  /\ \A k \in 3..Len(t) : t[k] = s[k - 1]

LEMMA Shapes ==
  ASSUME NEW S, NEW s \in Seq(S), s # <<>>
  PROVE  /\ Len(s) \in Nat \ {0} /\ Head(s) = s[1] /\ s[1] \in S
         /\ Tail(s) \in Seq(S) /\ Popped(s, Tail(s))
         /\ \A x \in S : LET t == <<x>> \o Tail(s)
                         IN t \in Seq(S) /\ t # <<>> /\ Changed(s, t, x)
         /\ \A x, y \in S : LET t == <<y, x>> \o Tail(s)
                            IN t \in Seq(S) /\ t # <<>> /\ Pushed(s, t, y, x)
<1>1. /\ Tail(s) \in Seq(S) /\ Len(Tail(s)) = Len(s) - 1
      /\ \A k \in 1..Len(Tail(s)) : Tail(s)[k] = s[k + 1]
  BY HeadTailProperties
<1>2. Len(s) \in Nat \ {0} /\ Head(s) = s[1] /\ s[1] \in S
  OBVIOUS
<1>3. Popped(s, Tail(s))
  BY <1>1, <1>2 DEF Popped
<1>4. ASSUME NEW x \in S
      PROVE  LET t == <<x>> \o Tail(s) IN t \in Seq(S) /\ t # <<>> /\ Changed(s, t, x)
  <2> DEFINE t == <<x>> \o Tail(s)
  <2>1. <<x>> \in Seq(S) /\ Len(<<x>>) = 1 /\ <<x>>[1] = x
    OBVIOUS
  <2>2. t \in Seq(S) /\ Len(t) = Len(s)
        /\ \A k \in 1..Len(s) : t[k] = IF k <= 1 THEN <<x>>[k] ELSE Tail(s)[k - 1]
    BY <1>1, <1>2, <2>1, ConcatProperties
  <2> HIDE DEF t
  <2>3. t[1] = x /\ \A k \in 2..Len(s) : t[k] = s[k]
    BY <1>1, <1>2, <2>1, <2>2
  <2> QED
    BY <1>2, <2>2, <2>3 DEF Changed, t
<1>5. ASSUME NEW x \in S, NEW y \in S
      PROVE  LET t == <<y, x>> \o Tail(s) IN t \in Seq(S) /\ t # <<>> /\ Pushed(s, t, y, x)
  <2> DEFINE t == <<y, x>> \o Tail(s)
  <2>1. <<y, x>> \in Seq(S) /\ Len(<<y, x>>) = 2 /\ <<y, x>>[1] = y /\ <<y, x>>[2] = x
    OBVIOUS
  <2>2. t \in Seq(S) /\ Len(t) = Len(s) + 1
        /\ \A k \in 1..(Len(s) + 1) :
             t[k] = IF k <= 2 THEN <<y, x>>[k] ELSE Tail(s)[k - 2]
    BY <1>1, <1>2, <2>1, ConcatProperties
  <2> HIDE DEF t
  <2>3. t[1] = y /\ t[2] = x /\ \A k \in 3..Len(t) : t[k] = s[k - 1]
    BY <1>1, <1>2, <2>1, <2>2
  <2> QED
    BY <1>2, <2>2, <2>3 DEF Pushed, t
<1> QED
  BY <1>1, <1>2, <1>3, <1>4, <1>5

-----------------------------------------------------------------------------
LEMMA FileFacts ==
  ASSUME TypeOK
  PROVE  /\ IsFile(file) /\ Sound(file) /\ MaxId \in Nat \ {0}
         /\ NoEntry \in Entries /\ \A i \in Ids : Plain(i) \in Entries
         /\ \A e \in Entries :
              /\ e.at \in 0..MaxId /\ e.kind \in {"none", "plain", "packed"}
              /\ e.kind = "none" <=> e = NoEntry
              /\ e.kind = "plain" <=> e = Plain(e.at)
              /\ e.kind = "packed" <=> e = Packed(e.at)
              /\ e.kind = "packed" => e.at \in Ids
<1>1. IsFile(file) /\ Sound(file) /\ MaxId \in Nat \ {0}
  BY ConstantsAssumption DEF TypeOK
<1>2. Ids \subseteq 0..MaxId /\ 0 \in 0..MaxId
  BY <1>1 DEF Ids
<1>3. ASSUME NEW e \in Entries
      PROVE  /\ e.at \in 0..MaxId /\ e.kind \in {"none", "plain", "packed"}
             /\ e.kind = "none" <=> e = NoEntry
             /\ e.kind = "plain" <=> e = Plain(e.at)
             /\ e.kind = "packed" <=> e = Packed(e.at)
             /\ e.kind = "packed" => e.at \in Ids
  <2>1. CASE e = NoEntry
    BY <1>2, <2>1 DEF NoEntry, Plain, Packed
  <2>2. CASE \E o \in 0..MaxId : e = Plain(o)
    BY <1>2, <2>2 DEF NoEntry, Plain, Packed
  <2>3. CASE \E o \in Ids : e = Packed(o)
    BY <1>2, <2>3 DEF NoEntry, Plain, Packed
  <2> QED
    BY <2>1, <2>2, <2>3 DEF Entries
<1>4. NoEntry \in Entries /\ \A i \in Ids : Plain(i) \in Entries
  BY <1>2 DEF Entries
<1> QED
  BY <1>1, <1>3, <1>4

(* The call on top and what Goto and Call make of the stack.               *)
New(i) == [id |-> i, pc |-> "start", off |-> 0]
With(h, p) == [id |-> h.id, pc |-> p, off |-> h.off]
Nexts == {"length", "end"} \cup IF Here.pc = "load" THEN {"unpack"} ELSE {}

LEMMA Moves ==
  ASSUME TypeOK, ~Idle
  PROVE  /\ Len(stack) \in Nat \ {0} /\ Here = stack[1] /\ Here \in Frames
         /\ Tail(stack) \in Seq(Frames) /\ Popped(stack, Tail(stack))
         /\ \A p \in Nexts : Goto(p) => Changed(stack, stack', With(Here, p))
         /\ \A i \in Ids, p \in Nexts : Call(i, p) => Pushed(stack, stack', New(i), With(Here, p))
         /\ \A i \in Ids, p \in Nexts : Goto(p) \/ Call(i, p) =>
              stack' \in Seq(Frames) /\ stack' # <<>>
         /\ \A x \in Frames : stack' = <<x>> \o Tail(stack) =>
              stack' \in Seq(Frames) /\ stack' # <<>> /\ Changed(stack, stack', x)
<1>1. stack \in Seq(Frames) /\ stack # <<>>
  BY DEF TypeOK, Idle
<1>2. Here = stack[1] /\ Here \in Frames
  BY <1>1, Shapes DEF Here
<1>3. \A p \in Nexts : [Here EXCEPT !.pc = p] = With(Here, p) /\ With(Here, p) \in Frames
  BY <1>2 DEF Frames, With, PCs, Nexts
<1>4. \A i \in Ids : New(i) \in Frames
  BY FileFacts DEF Frames, PCs, New
<1>5. ASSUME NEW p \in Nexts, Goto(p)
      PROVE  Changed(stack, stack', With(Here, p)) /\ stack' \in Seq(Frames) /\ stack' # <<>>
  <2>1. stack' = <<With(Here, p)>> \o Tail(stack)
    BY <1>3, <1>5 DEF Goto
  <2> QED
    BY <1>1, <1>3, <2>1, Shapes
<1>6. ASSUME NEW i \in Ids, NEW p \in Nexts, Call(i, p)
      PROVE  Pushed(stack, stack', New(i), With(Here, p)) /\ stack' \in Seq(Frames) /\ stack' # <<>>
  <2>1. stack' = <<New(i), With(Here, p)>> \o Tail(stack)
    BY <1>3, <1>6 DEF Call, New
  <2> QED
    BY <1>1, <1>3, <1>4, <2>1, Shapes
<1>7. Len(stack) \in Nat \ {0} /\ Tail(stack) \in Seq(Frames) /\ Popped(stack, Tail(stack))
  BY <1>1, Shapes
<1>8. ASSUME NEW x \in Frames, stack' = <<x>> \o Tail(stack)
      PROVE  stack' \in Seq(Frames) /\ stack' # <<>> /\ Changed(stack, stack', x)
  BY <1>1, <1>8, Shapes
<1> QED
  BY <1>2, <1>5, <1>6, <1>7, <1>8

-----------------------------------------------------------------------------
(* Types.                                                                  *)
LEMMA TypesInitially == Init => TypeOK
<1> SUFFICES ASSUME Init PROVE TypeOK
  OBVIOUS
<1>1. file \in Files /\ IsFile(file) /\ MaxId \in Nat \ {0}
  BY ConstantsAssumption DEF Init
<1>2. xref \in [Ids -> Entries] /\ cache \in [Ids -> Values]
  BY <1>1 DEF Init, IsFile, Values
<1>3. NoWalk \in [at : 0..(MaxId + 1), may : BOOLEAN, round : 0..2]
  BY <1>1 DEF NoWalk
<1>4. stack \in Seq(Frames)
  BY DEF Init
<1> QED
  BY <1>1, <1>2, <1>3, <1>4 DEF Init, TypeOK

LEMMA TypesKept == TypeOK /\ [Next]_vars => TypeOK'
<1> SUFFICES ASSUME TypeOK, [Next]_vars PROVE TypeOK'
  OBVIOUS
<1> USE DEF TypeOK
<1>0. MaxId \in Nat \ {0} /\ {"length", "end"} \subseteq Nexts
      /\ (Here.pc = "load" => "unpack" \in Nexts)
  BY FileFacts DEF Nexts
<1>1. CASE Start
  <2>1. ~Idle
    BY <1>1 DEF Start, At
  <2> DEFINE i == Here.id
  <2>2. i \in Ids
    BY <2>1, Moves DEF Frames
  <2>3. cache' \in [Ids -> Values] /\ resolving' \subseteq Ids
    BY <1>1, <2>2 DEF Start, Values
  <2>4. stack' \in Seq(Frames)
    <3> DEFINE x == [id |-> i, off |-> xref[i].at,
                     pc |-> CASE xref[i].kind = "plain" -> "read"
                              [] xref[i].kind = "packed" -> "load"
                              [] OTHER -> "end"]
    <3>1. x \in Frames
      BY <1>0, <2>2, FileFacts DEF Frames, PCs
    <3>2. stack' = Tail(stack) \/ stack' = <<x>> \o Tail(stack)
      BY <1>1 DEF Start
    <3> QED
      BY <2>1, <3>1, <3>2, Moves
  <2> QED
    BY <1>1, <2>3, <2>4 DEF Start
<1>2. CASE End
  <2>1. ~Idle
    BY <1>2 DEF End, At
  <2> QED
    BY <1>2, <2>1, Moves DEF End, Values, Frames
<1>3. CASE Misplaced
  <2>1. ~Idle
    BY <1>3 DEF Misplaced, At
  <2>2. Rebuilt \in [Ids -> Entries]
    BY FileFacts DEF Rebuilt
  <2>3. stack' \in Seq(Frames)
    <3> DEFINE x == [Here EXCEPT !.off = Rebuilt[Here.id].at]
    <3>1. Here.id \in Ids /\ Here \in Frames
      BY <2>1, Moves DEF Frames
    <3>2. Rebuilt[Here.id].at \in 0..MaxId
      BY <2>2, <3>1, FileFacts
    <3>3. x \in Frames
      BY <1>3, <3>1, <3>2 DEF Frames, Misplaced, At
    <3>4. Goto("end") \/ stack' = <<x>> \o Tail(stack)
      BY <1>3 DEF Misplaced
    <3> QED
      BY <1>0, <2>1, <3>1, <3>3, <3>4, Moves
  <2> QED
    BY <1>3, <2>2, <2>3 DEF Misplaced
<1>4. CASE Nothing
  BY <1>0, <1>4, Moves DEF Nothing, At, Frames
<1>5. CASE Read
  BY <1>0, <1>5, Moves DEF Read, Readable, At, Frames, Values
<1>6. CASE ReadStream
  <2>1. ~Idle
    BY <1>6 DEF ReadStream, Readable, At
  <2>2. Here.off \in Ids
    BY <1>6, FileFacts DEF ReadStream, Readable, IsFile
  <2>3. \/ Goto("length")
        \/ file.length[Here.off] # 0 /\ Call(file.length[Here.off], "length")
    BY <1>6 DEF ReadStream
  <2>4. file.length[Here.off] # 0 => file.length[Here.off] \in Ids
    BY <1>0, <2>2, FileFacts DEF IsFile, Ids
  <2>5. \A n \in Ids : Goto("length") \/ Call(n, "length") => stack' \in Seq(Frames)
    BY <1>0, <2>1, Moves
  <2>6. stack' \in Seq(Frames)
    BY <1>0, <2>3, <2>4, <2>5 DEF Ids
  <2> QED
    BY <1>6, <2>6 DEF ReadStream
<1>7. CASE Length
  BY <1>0, <1>7, Moves DEF Length, At, Frames, Values
<1>8. CASE Load
  <2>1. ~Idle
    BY <1>8 DEF Load, At
  <2>2. Here.pc = "load" /\ Here.off \in Ids
    BY <1>8, <2>1, Moves DEF Load, At, Frames
  <2> QED
    BY <1>0, <1>8, <2>1, <2>2, Moves DEF Load
<1>9. CASE Unpack
  BY <1>0, <1>9, Moves DEF Unpack, At, Frames, Values
<1>10. ASSUME NEW i \in Ids, Use(i) PROVE TypeOK'
  <2>1. [id |-> i, pc |-> "start", off |-> 0] \in Frames
    BY <1>0 DEF Frames, PCs
  <2> QED
    BY <1>10, <2>1 DEF Use
<1>11. CASE FixDangling
  BY <1>0, <1>11 DEF FixDangling
<1>12. CASE Walk
  <2>1. walk.at \in 1..(MaxId + 1)
    BY <1>12 DEF Walk
  <2>2. /\ walk' \in [at : 0..(MaxId + 1), may : BOOLEAN, round : 0..2]
        /\ walk' = NoWalk \/ walk'.at \in 1..(MaxId + 1)
    <3>1. CASE walk' = NoWalk \/ walk' = [at |-> 1, may |-> FALSE, round |-> 2]
      <4>1. {0, 1} \subseteq 0..(MaxId + 1) /\ 1 \in 1..(MaxId + 1) /\ {0, 2} \subseteq 0..2
        BY <1>0
      <4>2. CASE walk' = NoWalk
        BY <4>1, <4>2 DEF NoWalk
      <4>3. CASE walk' = [at |-> 1, may |-> FALSE, round |-> 2]
        BY <4>1, <4>3
      <4> QED
        BY <3>1, <4>2, <4>3
    <3>2. CASE walk.at <= MaxId /\ walk' = [walk EXCEPT !.at = @ + 1]
      <4>1. walk.at + 1 \in 1..(MaxId + 1)
        BY <1>0, <2>1, <3>2
      <4> QED
        BY <3>2, <4>1
    <3>3. \/ walk' = NoWalk \/ walk' = [at |-> 1, may |-> FALSE, round |-> 2]
          \/ ~(walk.at > MaxId) /\ walk' = [walk EXCEPT !.at = @ + 1]
      BY <1>12 DEF Walk
    <3>4. walk.at > MaxId \/ walk.at <= MaxId
      BY <1>0, <2>1
    <3> QED
      BY <3>1, <3>2, <3>3, <3>4
  <2>3. fixed' \in BOOLEAN
    BY <1>12 DEF Walk
  <2>4. stack' \in Seq(Frames)
    <3>1. \/ stack' = stack
          \/ ~(walk.at > MaxId) /\ stack' = <<[id |-> walk.at, pc |-> "start", off |-> 0]>>
      BY <1>12 DEF Walk
    <3>2. ~(walk.at > MaxId) => [id |-> walk.at, pc |-> "start", off |-> 0] \in Frames
      BY <1>0, <2>1 DEF Frames, PCs, Ids
    <3>3. \A x \in Frames : <<x>> \in Seq(Frames)
      OBVIOUS
    <3> QED
      BY <3>1, <3>2, <3>3
  <2> QED
    BY <1>12, <2>2, <2>3, <2>4 DEF Walk
<1>13. CASE UNCHANGED vars
  BY <1>13 DEF vars
<1> QED
  BY <1>1, <1>2, <1>3, <1>4, <1>5, <1>6, <1>7, <1>8, <1>9, <1>10, <1>11, <1>12, <1>13
     DEF Next, Work, Step

-----------------------------------------------------------------------------
(* Recorders.  Only the call on top can be about anything but waiting for  *)
(* the call above it.                                                      *)
In(s) == {k \in 1..Len(s) : s[k].pc # "start"}
Matched(r, s) ==
  /\ \A k \in In(s) : s[k].id \in r
  /\ \A i \in r : \E k \in In(s) : s[k].id = i
  /\ \A j, k \in In(s) : s[j].id = s[k].id => j = k
Waiting(s) == \A k \in 2..Len(s) : s[k].pc \in {"length", "unpack"}

LEMMA MatchedPop ==
  ASSUME NEW s \in Seq(Frames), NEW t \in Seq(Frames), NEW r,
         s # <<>>, Popped(s, t), Matched(r, s), Waiting(s)
  PROVE  /\ Matched(IF s[1].pc = "start" THEN r ELSE r \ {s[1].id}, t)
         /\ Waiting(t)
<1>1. Len(s) = Len(t) + 1 /\ Len(t) \in Nat /\ \A k \in 1..Len(t) : t[k] = s[k + 1]
  BY DEF Popped
<1>2. Waiting(t)
  BY <1>1 DEF Waiting
<1>3. \A k \in In(t) : k + 1 \in In(s) /\ k + 1 # 1 /\ t[k] = s[k + 1] /\ k \in Nat
  BY <1>1 DEF In
<1>4. \A k \in In(s) : k = 1 \/ (k - 1 \in In(t) /\ t[k - 1] = s[k])
  BY <1>1 DEF In
<1>5. 1 \in In(s) <=> s[1].pc # "start"
  BY <1>1 DEF In
<1>6. \A j, k \in In(t) : t[j].id = t[k].id => j = k
  BY <1>3 DEF Matched
<1>7. ASSUME s[1].pc = "start" PROVE Matched(r, t)
  BY <1>3, <1>4, <1>5, <1>6, <1>7 DEF Matched
<1>8. ASSUME s[1].pc # "start" PROVE Matched(r \ {s[1].id}, t)
  BY <1>3, <1>4, <1>5, <1>6, <1>8 DEF Matched
<1> QED
  BY <1>2, <1>7, <1>8

LEMMA MatchedChange ==
  ASSUME NEW s \in Seq(Frames), NEW t \in Seq(Frames), NEW r, NEW x \in Frames,
         s # <<>>, Changed(s, t, x), Matched(r, s), Waiting(s),
         x.id = s[1].id, x.pc # "start", s[1].pc = "start" => x.id \notin r
  PROVE  Matched(r \cup {x.id}, t) /\ Waiting(t)
<1>1. Len(s) \in Nat \ {0} /\ Len(t) = Len(s) /\ t[1] = x /\ \A k \in 2..Len(s) : t[k] = s[k]
  BY DEF Changed
<1>2. Waiting(t)
  BY <1>1 DEF Waiting
<1>3. In(t) = In(s) \cup {1} /\ \A k \in In(s) : t[k].id = s[k].id
  BY <1>1 DEF In
<1>4. \A k \in In(s) : s[k].id = x.id => k = 1
  <2> SUFFICES ASSUME NEW k \in In(s), s[k].id = x.id PROVE k = 1
    OBVIOUS
  <2>1. s[1].pc # "start"
    BY DEF Matched
  <2>2. 1 \in In(s)
    BY <1>1, <2>1 DEF In
  <2> QED
    BY <2>2 DEF Matched
<1>5. t[1].id = x.id
  BY <1>1
<1> QED
  BY <1>2, <1>3, <1>4, <1>5 DEF Matched

LEMMA MatchedPush ==
  ASSUME NEW s \in Seq(Frames), NEW t \in Seq(Frames), NEW r,
         NEW x \in Frames, NEW y \in Frames,
         s # <<>>, Pushed(s, t, y, x), Matched(r, s), Waiting(s),
         s[1].pc # "start", x.id = s[1].id, x.pc \in {"length", "unpack"}, y.pc = "start"
  PROVE  Matched(r, t) /\ Waiting(t)
<1>1. /\ Len(s) \in Nat \ {0} /\ Len(t) = Len(s) + 1 /\ t[1] = y /\ t[2] = x
      /\ \A k \in 3..Len(t) : t[k] = s[k - 1]
  BY DEF Pushed
<1>2. Waiting(t)
  <2> SUFFICES ASSUME NEW k \in 2..Len(t) PROVE t[k].pc \in {"length", "unpack"}
    BY DEF Waiting
  <2>1. CASE k = 2
    BY <1>1, <2>1
  <2>2. CASE k \in 3..Len(t)
    BY <1>1, <2>2 DEF Waiting
  <2> QED
    BY <1>1, <2>1, <2>2
<1>3. \A k \in In(s) : k + 1 \in In(t) /\ t[k + 1].id = s[k].id /\ k \in Nat
  <2> SUFFICES ASSUME NEW k \in In(s) PROVE k + 1 \in In(t) /\ t[k + 1].id = s[k].id /\ k \in Nat
    OBVIOUS
  <2>1. CASE k = 1
    BY <1>1, <2>1 DEF In
  <2>2. CASE k > 1
    BY <1>1, <2>2 DEF In
  <2> QED
    BY <1>1, <2>1, <2>2 DEF In
<1>4. \A k \in In(t) : k - 1 \in In(s) /\ s[k - 1].id = t[k].id /\ k \in Nat
  <2> SUFFICES ASSUME NEW k \in In(t) PROVE k - 1 \in In(s) /\ s[k - 1].id = t[k].id /\ k \in Nat
    OBVIOUS
  <2>1. k \in 1..Len(t) /\ k # 1
    BY <1>1 DEF In
  <2>2. CASE k = 2
    BY <1>1, <2>2 DEF In
  <2>3. CASE k > 2
    BY <1>1, <2>1, <2>3 DEF In
  <2> QED
    BY <1>1, <2>1, <2>2, <2>3
<1>5. \A j, k \in In(t) : t[j].id = t[k].id => j = k
  BY <1>4 DEF Matched
<1> QED
  BY <1>2, <1>3, <1>4, <1>5 DEF Matched

Recorded == Matched(resolving, stack) /\ Waiting(stack)

LEMMA FreshStack ==
  ASSUME NEW i \in Ids, stack' = <<New(i)>>
  PROVE  Matched({}, stack') /\ Waiting(stack')
<1>1. Len(stack') = 1 /\ stack'[1].pc = "start"
  BY DEF New
<1>2. In(stack') = {}
  BY <1>1 DEF In
<1> QED
  BY <1>1, <1>2 DEF Matched, Waiting

LEMMA RecordedKept == TypeOK /\ Recorded /\ [Next]_vars => Recorded'
<1> SUFFICES ASSUME TypeOK, Recorded, [Next]_vars PROVE Recorded'
  OBVIOUS
<1>0. stack \in Seq(Frames) /\ stack' \in Seq(Frames) /\ TypeOK'
  BY TypesKept DEF TypeOK
<1>1. ASSUME NEW x \in Frames, ~Idle, Changed(stack, stack', x), x.id = Here.id, x.pc # "start",
             Here.pc = "start" => x.id \notin resolving,
             resolving' = resolving \cup {Here.id}
      PROVE  Recorded'
  BY <1>0, <1>1, Moves, MatchedChange DEF Recorded, Idle
<1>2. ASSUME NEW p \in Nexts, ~Idle, Goto(p), Here.pc # "start", UNCHANGED resolving
      PROVE  Recorded'
  <2>1. With(Here, p) \in Frames /\ With(Here, p).id = Here.id /\ With(Here, p).pc # "start"
    BY <1>2, Moves DEF With, Frames, Nexts, PCs
  <2>2. 1 \in In(stack) /\ Here = stack[1]
    BY <1>2, Moves DEF In
  <2>3. resolving = resolving \cup {Here.id}
    BY <2>2 DEF Recorded, Matched
  <2> QED
    BY <1>1, <1>2, <2>1, <2>3, Moves
<1>3. ASSUME NEW i \in Ids, NEW p \in Nexts \ {"end"}, ~Idle, Call(i, p), Here.pc # "start", UNCHANGED resolving
      PROVE  Recorded'
  <2>1. /\ With(Here, p) \in Frames /\ With(Here, p).id = Here.id
        /\ With(Here, p).pc \in {"length", "unpack"}
    BY <1>3, Moves DEF With, Frames, Nexts, PCs
  <2>2. New(i) \in Frames /\ New(i).pc = "start"
    BY FileFacts DEF New, Frames, PCs
  <2>3. Pushed(stack, stack', New(i), With(Here, p))
    BY <1>3, Moves
  <2> QED
    BY <1>0, <1>3, <2>1, <2>2, <2>3, Moves, MatchedPush DEF Recorded, Idle
<1>4. {"length", "end"} \subseteq Nexts
  BY DEF Nexts
<1>5. CASE Start
  <2>1. ~Idle /\ Here.pc = "start" /\ Here.id \in Ids /\ Here = stack[1]
    BY <1>5, Moves DEF Start, At, Frames
  <2>2. CASE stack' = Tail(stack) /\ UNCHANGED resolving
    BY <1>0, <2>1, <2>2, Moves, MatchedPop DEF Recorded, Idle
  <2>3. CASE ~(stack' = Tail(stack) /\ UNCHANGED resolving)
    <3> DEFINE i == Here.id
               x == [id |-> i, off |-> xref[i].at,
                     pc |-> CASE xref[i].kind = "plain" -> "read"
                              [] xref[i].kind = "packed" -> "load"
                              [] OTHER -> "end"]
    <3>1. x \in Frames /\ x.pc # "start" /\ x.id = i
      BY <2>1, FileFacts DEF Frames, PCs, TypeOK
    <3>2. i \notin resolving /\ resolving' = resolving \cup {i} /\ stack' = <<x>> \o Tail(stack)
      BY <1>5, <2>3 DEF Start, InLoop
    <3> HIDE DEF x
    <3> QED
      BY <1>1, <2>1, <3>1, <3>2, Moves
  <2> QED
    BY <2>2, <2>3
<1>6. CASE End
  <2>1. ~Idle /\ Here.pc = "end" /\ Here = stack[1]
    BY <1>6, Moves DEF End, At
  <2> QED
    BY <1>0, <1>6, <2>1, Moves, MatchedPop DEF Recorded, Idle, End
<1>7. CASE Misplaced
  <2>1. ~Idle /\ Here.pc = "read" /\ Here \in Frames
    BY <1>7, Moves DEF Misplaced, At
  <2>2. CASE Goto("end")
    BY <1>2, <1>4, <1>7, <2>1, <2>2 DEF Misplaced
  <2>3. CASE ~Goto("end")
    <3> DEFINE x == [Here EXCEPT !.off = Rebuilt[Here.id].at]
    <3>1. stack' = <<x>> \o Tail(stack)
      BY <1>7, <2>3 DEF Misplaced
    <3>2. Here.id \in Ids /\ Rebuilt \in [Ids -> Entries]
      BY <2>1, FileFacts DEF Frames, Rebuilt, TypeOK
    <3>3. x \in Frames /\ x.id = Here.id /\ x.pc # "start"
      BY <2>1, <3>2, FileFacts DEF Frames
    <3>4. 1 \in In(stack) /\ Here = stack[1]
      BY <2>1, Moves DEF In
    <3>5. resolving' = resolving \cup {Here.id}
      BY <1>7, <3>4 DEF Recorded, Matched, Misplaced
    <3> HIDE DEF x
    <3> QED
      BY <1>1, <2>1, <3>1, <3>3, <3>5, Moves
  <2> QED
    BY <2>2, <2>3
<1>8. CASE Nothing
  BY <1>2, <1>4, <1>8 DEF Nothing, At
<1>9. CASE Read
  BY <1>2, <1>4, <1>9 DEF Read, Readable, At
<1>10. CASE ReadStream
  <2>1. ~Idle /\ Here.pc = "read" /\ Here.off \in file.present /\ UNCHANGED resolving
    BY <1>10 DEF ReadStream, Readable, At
  <2>2. file.length[Here.off] \in {0} \cup Ids
    BY <2>1, FileFacts DEF IsFile, Ids
  <2>3. Goto("length") \/ (file.length[Here.off] \in Ids /\ Call(file.length[Here.off], "length"))
    BY <1>10, <2>2 DEF ReadStream
  <2> QED
    BY <1>2, <1>3, <1>4, <2>1, <2>3
<1>11. CASE Length
  BY <1>2, <1>4, <1>11 DEF Length, At
<1>12. CASE Load
  <2>1. ~Idle /\ Here.pc = "load" /\ Here.off \in Ids /\ UNCHANGED resolving
    BY <1>12, Moves DEF Load, At, Frames
  <2>2. "unpack" \in Nexts
    BY <2>1 DEF Nexts
  <2> QED
    BY <1>2, <1>3, <1>4, <1>12, <2>1, <2>2 DEF Load
<1>13. CASE Unpack
  BY <1>2, <1>4, <1>13 DEF Unpack, At
<1>14. ASSUME Idle, UNCHANGED resolving, NEW i \in Ids, stack' = <<New(i)>>
       PROVE  Recorded'
  <2>1. resolving = {}
    BY <1>14 DEF Recorded, Matched, In, Idle
  <2> QED
    BY <1>14, <2>1, FreshStack DEF Recorded
<1>15. ASSUME NEW i \in Ids, Use(i) PROVE Recorded'
  BY <1>14, <1>15 DEF Use, New
<1>16. CASE Walk
  <2>1. UNCHANGED stack \/ stack' = <<New(walk.at)>>
    BY <1>16 DEF Walk, New
  <2>2. ~(walk.at > MaxId) => walk.at \in Ids
    BY <1>16, FileFacts DEF TypeOK, Walk, Ids
  <2>3. UNCHANGED stack \/ ~(walk.at > MaxId)
    BY <1>16 DEF Walk
  <2> QED
    BY <1>14, <1>16, <2>1, <2>2, <2>3 DEF Walk, Recorded
<1>17. CASE FixDangling \/ UNCHANGED vars
  BY <1>17 DEF FixDangling, vars, Recorded
<1> QED
  BY <1>5, <1>6, <1>7, <1>8, <1>9, <1>10, <1>11, <1>12, <1>13, <1>15, <1>16, <1>17
     DEF Next, Work, Step

(* The calls that wait hold recorders for different objects, so that there *)
(* are no more of them than objects.                                       *)
LEMMA NotDeeper ==
  ASSUME TypeOK, Recorded
  PROVE  Len(stack) <= MaxId + 1
<1>1. Len(stack) \in Nat /\ MaxId \in Nat /\ Ids = 1..MaxId
  BY FileFacts DEF TypeOK, Ids
<1> DEFINE W == 2..Len(stack)
           f == [k \in W |-> stack[k].id]
<1>2. f \in [W -> Ids]
  BY <1>1 DEF TypeOK, Frames
<1>3. \A j, k \in W : j # k => f[j] # f[k]
  <2>1. W \subseteq In(stack)
    BY <1>1 DEF Recorded, Waiting, In
  <2> QED
    BY <2>1 DEF Recorded, Matched
<1>4. IsFiniteSet(W) /\ Cardinality(W) = IF 2 > Len(stack) THEN 0 ELSE Len(stack) - 1
  <2>1. \A n \in Int : /\ IsFiniteSet(2..n)
                       /\ Cardinality(2..n) = IF 2 > n THEN 0 ELSE n - 2 + 1
    BY FS_Interval
  <2> QED
    BY <1>1, <2>1
<1>5. IsFiniteSet(Ids) /\ Cardinality(Ids) = MaxId
  <2>1. IsFiniteSet(1..MaxId) /\ Cardinality(1..MaxId) = IF 1 > MaxId THEN 0 ELSE MaxId - 1 + 1
    BY <1>1, FS_Interval
  <2> QED
    BY <1>1, <2>1, FileFacts
<1>6. ~(Cardinality(Ids) < Cardinality(W))
  <2> HIDE DEF W, f
  <2> SUFFICES ASSUME Cardinality(Ids) < Cardinality(W) PROVE FALSE
    OBVIOUS
  <2>1. \E j, k \in W : j # k /\ f[j] = f[k]
    BY <1>2, <1>4, <1>5, FS_PigeonHole
  <2> QED
    BY <1>3, <2>1
<1> QED
  BY <1>1, <1>4, <1>5, <1>6

LEMMA RecordsMatch == TypeOK /\ Recorded => RecordersMatch
<1> SUFFICES ASSUME TypeOK, Recorded PROVE RecordersMatch
  OBVIOUS
<1>1. Inside = In(stack)
  BY DEF Inside, In, TypeOK
<1>2. resolving = {stack[k].id : k \in Inside}
  BY <1>1 DEF Recorded, Matched
<1> QED
  BY <1>1, <1>2, NotDeeper DEF Recorded, Matched, RecordersMatch

(* A recorder is held for exactly the calls of resolve under way, which    *)
(* never nest deeper than one for each object and one more.                *)
THEOREM CallsMatchRecorders == Spec => []RecordersMatch
<1>1. Init => TypeOK /\ Recorded
  <2>1. Init => Recorded
    BY DEF Init, Recorded, Matched, Waiting, In
  <2> QED
    BY <2>1, TypesInitially
<1>2. (TypeOK /\ Recorded) /\ [Next]_vars => (TypeOK /\ Recorded)'
  BY TypesKept, RecordedKept
<1>3. TypeOK /\ Recorded => RecordersMatch
  BY RecordsMatch
<1> QED
  BY <1>1, <1>2, <1>3, PTL DEF Spec

-----------------------------------------------------------------------------
(* A pass of resolveXRefTable leaves nothing unresolved behind it, unless  *)
(* the table has been replaced meanwhile, which the pass will find out.    *)
Bottom(s, j) == s # <<>> /\ s[Len(s)].id = j
Passes ==
  /\ walk = NoWalk \/ walk.round = 1 \/ (walk.round = 2 /\ ~walk.may)
  /\ walk = NoWalk \/ walk.may \/ reconstructed
  /\ walk # NoWalk /\ ~(walk.may /\ reconstructed) =>
       \A j \in Ids : j < walk.at /\ xref[j] # NoEntry /\ cache[j] = "unresolved" => Bottom(stack, j)
  /\ fixed => \A j \in Ids : xref[j] # NoEntry => cache[j] # "unresolved"

LEMMA BottomStays ==
  ASSUME NEW s \in Seq(Frames), NEW t \in Seq(Frames), s # <<>>, NEW j, Bottom(s, j)
  PROVE  /\ Popped(s, t) => Bottom(t, j) \/ s[1].id = j
         /\ \A x \in Frames : t # <<>> /\ Changed(s, t, x) /\ x.id = s[1].id => Bottom(t, j)
         /\ \A x, y \in Frames : t # <<>> /\ Pushed(s, t, y, x) /\ x.id = s[1].id => Bottom(t, j)
<1>1. Len(s) \in Nat \ {0} /\ Len(t) \in Nat /\ (Len(t) = 0 <=> t = <<>>) /\ s[Len(s)].id = j
  BY DEF Bottom
<1>0. \A n \in Nat \ {0} : n # 1 => n \in 2..n /\ n + 1 \in 3..(n + 1) /\ n + 1 - 1 = n
  OBVIOUS
<1>2. ASSUME Popped(s, t), s[1].id # j PROVE Bottom(t, j)
  <2>1. Len(s) # 1
    BY <1>1, <1>2
  <2>2. Len(t) \in 1..Len(t) /\ t # <<>>
    BY <1>1, <1>2, <2>1 DEF Popped
  <2>3. t[Len(t)] = s[Len(t) + 1] /\ Len(t) + 1 = Len(s)
    BY <1>2, <2>2 DEF Popped
  <2> QED
    BY <1>1, <2>2, <2>3 DEF Bottom
<1>3. ASSUME NEW x \in Frames, t # <<>>, Changed(s, t, x), x.id = s[1].id PROVE Bottom(t, j)
  <2>1. CASE Len(s) = 1
    BY <1>1, <1>3, <2>1 DEF Changed, Bottom
  <2>2. CASE Len(s) # 1
    <3>1. Len(s) \in 2..Len(s)
      BY <1>0, <1>1, <2>2
    <3>2. Len(t) = Len(s) /\ t[Len(s)] = s[Len(s)]
      BY <1>3, <3>1 DEF Changed
    <3> QED
      BY <1>1, <1>3, <3>2 DEF Bottom
  <2> QED
    BY <2>1, <2>2
<1>4. ASSUME NEW x \in Frames, NEW y \in Frames, t # <<>>, Pushed(s, t, y, x), x.id = s[1].id
      PROVE  Bottom(t, j)
  <2>1. CASE Len(s) = 1
    BY <1>1, <1>4, <2>1 DEF Pushed, Bottom
  <2>2. CASE Len(s) # 1
    <3>0. Len(t) = Len(s) + 1
      BY <1>4 DEF Pushed
    <3>1. Len(t) \in 3..Len(t) /\ Len(t) - 1 = Len(s)
      <4>1. Len(s) + 1 \in 3..(Len(s) + 1) /\ Len(s) + 1 - 1 = Len(s)
        BY <1>0, <1>1, <2>2
      <4> QED
        BY <3>0, <4>1
    <3>2. \A k \in 3..Len(t) : t[k] = s[k - 1]
      BY <1>4 DEF Pushed
    <3>3. t[Len(t)] = s[Len(t) - 1]
      BY <3>1, <3>2
    <3> QED
      BY <1>1, <1>4, <3>0, <3>1, <3>3 DEF Bottom
  <2> QED
    BY <2>1, <2>2
<1> QED
  BY <1>2, <1>3, <1>4

LEMMA PassesKept == TypeOK /\ Passes /\ [Next]_vars => Passes'
<1> SUFFICES ASSUME TypeOK, Passes, [Next]_vars PROVE Passes'
  OBVIOUS
<1>0. stack \in Seq(Frames) /\ stack' \in Seq(Frames) /\ TypeOK'
  BY TypesKept DEF TypeOK
<1>1. ASSUME UNCHANGED <<xref, walk, fixed, reconstructed>>,
             \A j \in Ids : cache[j] # "unresolved" => cache'[j] # "unresolved",
             \A j \in Ids : Bottom(stack, j) /\ cache'[j] = "unresolved" => Bottom(stack', j)
      PROVE  Passes'
  BY <1>1 DEF Passes
<1>2. ASSUME NEW p \in Nexts, NEW n \in Ids, ~Idle, Goto(p) \/ Call(n, p), NEW j, Bottom(stack, j)
      PROVE  Bottom(stack', j)
  <2>1. With(Here, p) \in Frames /\ With(Here, p).id = stack[1].id /\ New(n) \in Frames
    BY <1>2, Moves, FileFacts DEF With, New, Frames, Nexts, PCs
  <2>2. Changed(stack, stack', With(Here, p)) \/ Pushed(stack, stack', New(n), With(Here, p))
    BY <1>2, Moves
  <2>3. stack' # <<>> /\ stack # <<>>
    BY <1>2, Moves DEF Idle
  <2> QED
    BY <1>0, <1>2, <2>1, <2>2, <2>3, BottomStays
<1>3. {"length", "end"} \subseteq Nexts
  BY DEF Nexts
<1>4. ASSUME ~Idle, stack' = Tail(stack), NEW j, Bottom(stack, j), j # Here.id
      PROVE  Bottom(stack', j)
  <2>1. stack # <<>> /\ Here = stack[1] /\ Popped(stack, stack')
    BY <1>4, Moves DEF Idle
  <2> QED
    BY <1>0, <1>4, <2>1, BottomStays
<1>5. CASE Start
  <2>1. ~Idle /\ Here.id \in Ids /\ Here = stack[1] /\ stack # <<>>
    BY <1>5, Moves DEF Start, At, Frames, Idle
  <2>2. CASE stack' = Tail(stack)
    <3>1. cache'[Here.id] # "unresolved" /\ \A j \in Ids : j # Here.id => cache'[j] = cache[j]
      <4>1. CASE cache[Here.id] # "unresolved"
        BY <1>5, <4>1 DEF Start
      <4>2. CASE cache[Here.id] = "unresolved" /\ InLoop(Here.id)
        BY <1>5, <2>1, <4>2 DEF Start, TypeOK
      <4>3. CASE cache[Here.id] = "unresolved" /\ ~InLoop(Here.id)
        <5>1. \E x : stack' = <<x>> \o Tail(stack)
          BY <1>5, <4>3 DEF Start
        <5>2. FALSE
          <6> DEFINE x == [id |-> Here.id, off |-> xref[Here.id].at,
                     pc |-> CASE xref[Here.id].kind = "plain" -> "read"
                              [] xref[Here.id].kind = "packed" -> "load"
                              [] OTHER -> "end"]
          <6>1. x \in Frames
            BY <2>1, FileFacts DEF Frames, PCs, TypeOK
          <6>2. stack' = <<x>> \o Tail(stack)
            BY <1>5, <4>3 DEF Start
          <6>3. Len(stack') = Len(stack) /\ Len(stack) = Len(stack') + 1 /\ Len(stack) \in Nat
            BY <2>1, <2>2, <6>1, <6>2, Moves DEF Changed, Popped
          <6> QED
            BY <6>3
        <5> QED
          BY <5>2
      <4> QED
        BY <4>1, <4>2, <4>3
    <3> QED
      BY <1>1, <1>4, <1>5, <2>1, <2>2, <3>1 DEF Start
  <2>3. CASE stack' # Tail(stack)
    <3> DEFINE i == Here.id
               x == [id |-> i, off |-> xref[i].at,
                     pc |-> CASE xref[i].kind = "plain" -> "read"
                              [] xref[i].kind = "packed" -> "load"
                              [] OTHER -> "end"]
    <3>1. x \in Frames /\ x.id = stack[1].id
      BY <2>1, FileFacts DEF Frames, PCs, TypeOK
    <3>2. cache' = cache /\ stack' = <<x>> \o Tail(stack)
      BY <1>5, <2>3 DEF Start, InLoop
    <3> HIDE DEF x
    <3>3. \A j : Bottom(stack, j) => Bottom(stack', j)
      BY <1>0, <2>1, <3>1, <3>2, Moves, BottomStays
    <3> QED
      BY <1>1, <1>5, <3>2, <3>3 DEF Start
  <2> QED
    BY <2>2, <2>3
<1>6. CASE End
  <2>1. ~Idle /\ Here.id \in Ids /\ stack' = Tail(stack)
    BY <1>6, Moves DEF End, At, Frames
  <2>2. cache'[Here.id] # "unresolved" /\ \A j \in Ids : j # Here.id => cache'[j] = cache[j]
    BY <1>6, <2>1 DEF End, TypeOK
  <2> QED
    BY <1>1, <1>4, <1>6, <2>1, <2>2 DEF End
<1>7. CASE Misplaced
  <2>1. CASE reconstructed
    BY <1>0, <1>1, <1>2, <1>3, <1>7, <2>1, Moves DEF Misplaced, At, Frames
  <2>2. CASE ~reconstructed
    BY <1>7, <2>2 DEF Misplaced, Passes
  <2> QED
    BY <2>1, <2>2
<1>8. CASE Nothing
  BY <1>1, <1>2, <1>3, <1>8, Moves DEF Nothing, At, Frames
<1>9. CASE Read
  <2>1. \A j \in Ids : cache[j] # "unresolved" => cache'[j] # "unresolved"
    BY <1>9 DEF Read, TypeOK
  <2> QED
    BY <1>1, <1>2, <1>3, <1>9, <2>1, Moves DEF Read, Readable, At, Frames
<1>10. CASE ReadStream
  <2>1. ~Idle /\ Here.off \in file.present /\ Here.id \in Ids
    BY <1>10, Moves DEF ReadStream, Readable, At, Frames
  <2>2. file.length[Here.off] \in {0} \cup Ids
    BY <2>1, FileFacts DEF IsFile, Ids
  <2>3. \E n \in Ids : Goto("length") \/ Call(n, "length")
    BY <1>10, <2>1, <2>2 DEF ReadStream
  <2> QED
    BY <1>1, <1>2, <1>3, <1>10, <2>1, <2>3 DEF ReadStream
<1>11. CASE Length
  <2>1. \A j \in Ids : cache[j] # "unresolved" => cache'[j] # "unresolved"
    BY <1>11 DEF Length, TypeOK
  <2> QED
    BY <1>1, <1>2, <1>3, <1>11, <2>1, Moves DEF Length, At, Frames
<1>12. CASE Load
  <2>1. ~Idle /\ Here.off \in Ids /\ "unpack" \in Nexts
    BY <1>12, Moves DEF Load, At, Frames, Nexts
  <2>2. \E p \in Nexts : Goto(p) \/ Call(Here.off, p)
    BY <1>3, <1>12, <2>1 DEF Load
  <2> QED
    BY <1>1, <1>2, <1>12, <2>1, <2>2 DEF Load
<1>13. CASE Unpack
  <2>1. \A j \in Ids : cache[j] # "unresolved" => cache'[j] # "unresolved"
    BY <1>13 DEF Unpack, TypeOK
  <2> QED
    BY <1>1, <1>2, <1>3, <1>13, <2>1, Moves DEF Unpack, At, Frames
<1>14. ASSUME NEW i \in Ids, Use(i) PROVE Passes'
  BY <1>14 DEF Use, Passes
<1>15. CASE FixDangling
  <2>1. walk' # NoWalk /\ walk'.at = 1 /\ walk'.round = 1 /\ walk'.may = ~reconstructed
    BY <1>15 DEF FixDangling, NoWalk
  <2>2. \A j \in Ids : ~(j < 1)
    BY FileFacts DEF Ids
  <2> QED
    BY <1>15, <2>1, <2>2 DEF FixDangling, Passes
<1>16. CASE Walk
  <2>0. walk # NoWalk /\ stack = <<>> /\ walk.at \in 1..(MaxId + 1) /\ walk.may \in BOOLEAN /\ MaxId \in Nat
    BY <1>16, FileFacts DEF Walk, Idle, TypeOK
  <2>1. CASE Again /\ walk' = [at |-> 1, may |-> FALSE, round |-> 2]
    <3>1. walk' # NoWalk /\ walk'.at = 1 /\ walk'.round = 2 /\ walk'.may = FALSE
      BY <2>1 DEF NoWalk
    <3>2. reconstructed /\ UNCHANGED <<reconstructed, xref, cache>>
      BY <1>16, <2>1 DEF Walk, Again
    <3>3. \A j \in Ids : ~(j < 1)
      BY FileFacts DEF Ids
    <3>4. fixed' = FALSE
      <4>1. (walk.may /\ reconstructed) \/ walk.at > MaxId
        BY <2>1 DEF Again
      <4> QED
        BY <1>16, <2>1, <4>1 DEF Walk
    <3> QED
      BY <3>1, <3>2, <3>3, <3>4 DEF Passes
  <2>2. CASE ~Again /\ ((walk.may /\ reconstructed) \/ walk.at > MaxId)
    <3>1. walk' = NoWalk /\ UNCHANGED <<stack, reconstructed, xref, cache>>
      BY <1>16, <2>2 DEF Walk
    <3>2. ~(walk.may /\ reconstructed)
      BY <2>0, <2>2 DEF Again, Passes
    <3>3. \A j \in Ids : j < walk.at
      BY <2>0, <2>2, <3>2 DEF Ids
    <3>4. \A j \in Ids : xref[j] # NoEntry => cache[j] # "unresolved"
      BY <2>0, <3>2, <3>3 DEF Passes, Bottom
    <3> QED
      BY <3>1, <3>4 DEF Passes
  <2>3. CASE ~((walk.may /\ reconstructed) \/ walk.at > MaxId)
    <3>1. /\ walk'.at = walk.at + 1 /\ walk'.may = walk.may /\ walk'.round = walk.round
          /\ walk' # NoWalk /\ UNCHANGED <<fixed, xref, cache, reconstructed>>
      <4>1. walk' = [walk EXCEPT !.at = @ + 1] /\ UNCHANGED <<fixed, xref, cache, reconstructed>>
        BY <1>16, <2>3 DEF Walk
      <4>2. walk'.at = walk.at + 1 /\ walk'.may = walk.may /\ walk'.round = walk.round
        BY <4>1 DEF TypeOK
      <4>3. walk'.at # 0
        BY <2>0, <4>2
      <4> QED
        BY <4>1, <4>2, <4>3 DEF NoWalk
    <3>2. \A j \in Ids : j < walk.at + 1 => j < walk.at \/ j = walk.at
      BY <2>0 DEF Ids
    <3>3. xref[walk.at] # NoEntry /\ cache[walk.at] = "unresolved" => Bottom(stack', walk.at)
      <4> SUFFICES ASSUME xref[walk.at] # NoEntry, cache[walk.at] = "unresolved"
                   PROVE  Bottom(stack', walk.at)
        OBVIOUS
      <4>1. stack' = <<New(walk.at)>>
        BY <1>16, <2>3 DEF Walk, New
      <4> QED
        BY <4>1 DEF Bottom, New
    <3>4. \A j \in Ids : j < walk.at + 1 /\ xref[j] # NoEntry /\ cache[j] = "unresolved" => Bottom(stack', j)
      BY <2>0, <2>3, <3>2, <3>3 DEF Passes, Bottom
    <3> QED
      BY <3>1, <3>4, <2>0 DEF Passes
  <2>4. Again => walk' = [at |-> 1, may |-> FALSE, round |-> 2]
    BY <1>16 DEF Walk, Again
  <2> QED
    BY <2>1, <2>2, <2>3, <2>4
<1>17. CASE UNCHANGED vars
  BY <1>17 DEF vars, Passes
<1> QED
  BY <1>5, <1>6, <1>7, <1>8, <1>9, <1>10, <1>11, <1>12, <1>13, <1>14, <1>15, <1>16, <1>17
     DEF Next, Work, Step

(* Once the dangling references are fixed, every object in the table is    *)
(* resolved, and stays so until the table is replaced.                     *)
THEOREM FixedResolves == Spec => []FixedMeansResolved
<1>1. Init => TypeOK /\ Passes
  BY TypesInitially DEF Init, Passes
<1>2. (TypeOK /\ Passes) /\ [Next]_vars => (TypeOK /\ Passes)'
  BY TypesKept, PassesKept
<1>3. TypeOK /\ Passes => FixedMeansResolved
  BY DEF Passes, FixedMeansResolved
<1> QED
  BY <1>1, <1>2, <1>3, PTL DEF Spec

-----------------------------------------------------------------------------
(* What an object is does not depend on what was read before it.           *)

(* The table of a sound file, before and after it is reconstructed.        *)
TableOf(f, x, r) ==
  \A i \in Ids : x[i] = IF IsPacked(f, i) \/ ~r THEN f.table[i]
                        ELSE IF i \in f.present THEN Plain(i) ELSE NoEntry

(* The calls under way, and what each of them waits for.                   *)
CallOf(f, c) ==
  /\ c.pc = "read" => ~IsPacked(f, c.id)
  /\ c.pc = "length" => IsStream(f, c.id) /\ c.off = c.id
  /\ c.pc \in {"load", "unpack"} => f.table[c.id] = Packed(c.off)
CallsOf(f, s) ==
  /\ \A k \in 1..Len(s) : CallOf(f, s[k])
  /\ \A k \in 2..Len(s) :
       s[k - 1].id = IF s[k].pc = "length" THEN f.length[s[k].id] ELSE s[k].off

AtLength(s, i) == \E k \in 1..Len(s) : s[k].pc = "length" /\ s[k].id = i
Unpacking(s, o) == \E k \in 1..Len(s) : s[k].pc = "unpack" /\ s[k].off = o

(* A stream that is found in a loop is null until its own call goes on.    *)
CachedOf(f, c, s) ==
  \A i \in Ids : c[i] \in {"unresolved", Expected(f, i)} \/ (c[i] = "null" /\ AtLength(s, i))

(* What the call on top can rely on: what it has waited for is in the      *)
(* cache, and what it has to leave behind is.                              *)
TopOf(f, x, c, s) ==
  s # <<>> => LET h == s[1]
                  Known(n) == c[n] # "unresolved" \/ x[n] = NoEntry
              IN
    /\ h.pc = "read" => x[h.id] = Plain(h.off)
    /\ h.pc = "length" => f.length[h.id] = 0 \/ Known(f.length[h.id])
    /\ h.pc = "unpack" => Known(h.off)
    /\ h.pc = "end" =>
         c[h.id] = Expected(f, h.id) \/ (c[h.id] = "unresolved" /\ Expected(f, h.id) = "null")

(* An object stream that has been loaded has left all it holds, or is      *)
(* about to.                                                               *)
LoadedOf(f, c, l, s) ==
  \A o \in l :
    \/ Unpacking(s, o)
    \/ \A i \in Ids : f.table[i] = Packed(o) /\ i \in f.holds[o] => c[i] = "value"

Ordered ==
  /\ TableOf(file, xref, reconstructed) /\ CallsOf(file, stack)
  /\ CachedOf(file, cache, stack) /\ TopOf(file, xref, cache, stack)
  /\ LoadedOf(file, cache, loaded, stack)

LEMMA ExpectedFacts ==
  ASSUME NEW f, IsFile(f), NEW i \in Ids
  PROVE  /\ Expected(f, i) \in {"null", "value", "exact", "recovered"}
         /\ IsStream(f, i) => Expected(f, i) =
              IF f.length[i] = 0 \/ IsValue(f, f.length[i]) THEN "exact" ELSE "recovered"
         /\ ~IsStream(f, i) => Expected(f, i) = IF IsValue(f, i) THEN "value" ELSE "null"
         /\ IsValue(f, i) => ~IsStream(f, i)
  BY DEF Expected, IsValue, IsStream

(* Under a call that unpacks an object stream, or waits for the length of  *)
(* one, there is never one for an object that is in an object stream.      *)
LEMMA Nested ==
  ASSUME NEW f, IsFile(f), Sound(f), NEW s \in Seq(Frames), Waiting(s), CallsOf(f, s),
         NEW k \in 2..Len(s)
  PROVE  /\ s[k].pc = "length" /\ IsObjectStream(f, s[k].id) => ~IsPacked(f, s[1].id)
         /\ s[k].pc = "unpack" => ~IsPacked(f, s[1].id)
<1>0. Len(s) \in Nat /\ \A j \in 1..Len(s) : s[j] \in Frames
  OBVIOUS
<1>1. ASSUME NEW j \in 2..Len(s), s[j].pc = "length", IsObjectStream(f, s[j].id)
      PROVE  ~IsPacked(f, s[1].id)
  <2> DEFINE n == f.length[s[j].id]
  <2>1. j \in 1..Len(s) /\ j - 1 \in 1..Len(s) /\ s[j].id \in Ids /\ s[j - 1].id \in Ids
    BY <1>0 DEF Frames
  <2>2. s[j - 1].id = n
    BY <1>1 DEF CallsOf
  <2>3. n # 0
    BY <2>1, <2>2 DEF Ids
  <2>4. n \notin f.streams /\ ~IsPacked(f, n)
    BY <1>1, <2>1, <2>3 DEF Sound, IsPacked
  <2>5. CASE j = 2
    BY <2>2, <2>4, <2>5
  <2>6. CASE j # 2
    <3>1. j - 1 \in 2..Len(s)
      BY <1>0, <2>6
    <3>2. s[j - 1].pc \in {"length", "unpack"} /\ CallOf(f, s[j - 1])
      BY <2>1, <3>1 DEF Waiting, CallsOf
    <3> QED
      BY <2>2, <2>4, <3>2 DEF CallOf, IsStream, IsPacked, Packed
  <2> QED
    BY <2>5, <2>6
<1>2. ASSUME NEW j \in 2..Len(s), s[j].pc = "unpack"
      PROVE  ~IsPacked(f, s[1].id)
  <2> DEFINE o == s[j].off
  <2>1. j \in 1..Len(s) /\ j - 1 \in 1..Len(s) /\ s[j].id \in Ids /\ o \in Ids
    BY <1>0, <1>2 DEF Frames
  <2>2. s[j - 1].id = o
    BY <1>2 DEF CallsOf
  <2>3. IsObjectStream(f, o)
    BY <1>2, <2>1 DEF CallsOf, CallOf, IsObjectStream
  <2>4. ~IsPacked(f, o)
    BY <2>1, <2>3 DEF Sound, IsPacked
  <2>5. CASE j = 2
    BY <2>2, <2>4, <2>5
  <2>6. CASE j # 2
    <3>1. j - 1 \in 2..Len(s)
      BY <1>0, <2>6
    <3>2. s[j - 1].pc \in {"length", "unpack"} /\ CallOf(f, s[j - 1])
      BY <2>1, <3>1 DEF Waiting, CallsOf
    <3>3. s[j - 1].pc = "length"
      BY <2>2, <2>4, <3>2 DEF CallOf, IsPacked, Packed
    <3> QED
      BY <1>1, <2>2, <2>3, <3>1, <3>3
  <2> QED
    BY <2>5, <2>6
<1> QED
  BY <1>1, <1>2

(* What the three moves leave of the calls.                                *)
LEMMA CallsPop ==
  ASSUME NEW f, NEW s \in Seq(Frames), NEW t \in Seq(Frames),
         s # <<>>, Popped(s, t), CallsOf(f, s), Waiting(s)
  PROVE  /\ CallsOf(f, t)
         /\ \A i : AtLength(s, i) => AtLength(t, i) \/ (s[1].pc = "length" /\ s[1].id = i)
         /\ \A o : Unpacking(s, o) => Unpacking(t, o) \/ (s[1].pc = "unpack" /\ s[1].off = o)
         /\ t # <<>> => /\ t[1].pc \in {"length", "unpack"} /\ t[1] \in Frames
                       /\ s[1].id = IF t[1].pc = "length" THEN f.length[t[1].id] ELSE t[1].off
<1>1. Len(s) = Len(t) + 1 /\ Len(t) \in Nat /\ \A k \in 1..Len(t) : t[k] = s[k + 1]
  BY DEF Popped
<1>2. CallsOf(f, t)
  <2>1. \A k \in 1..Len(t) : CallOf(f, t[k])
    BY <1>1 DEF CallsOf
  <2>2. ASSUME NEW k \in 2..Len(t)
        PROVE  t[k - 1].id = IF t[k].pc = "length" THEN f.length[t[k].id] ELSE t[k].off
    <3>1. t[k] = s[k + 1] /\ t[k - 1] = s[k] /\ k + 1 \in 2..Len(s) /\ k + 1 - 1 = k
      BY <1>1
    <3> QED
      BY <3>1 DEF CallsOf
  <2> QED
    BY <2>1, <2>2 DEF CallsOf
<1>3. \A k \in 1..Len(s) : k = 1 \/ (k - 1 \in 1..Len(t) /\ t[k - 1] = s[k])
  BY <1>1
<1>4. \A i : AtLength(s, i) => AtLength(t, i) \/ (s[1].pc = "length" /\ s[1].id = i)
  BY <1>3 DEF AtLength
<1>5. \A o : Unpacking(s, o) => Unpacking(t, o) \/ (s[1].pc = "unpack" /\ s[1].off = o)
  BY <1>3 DEF Unpacking
<1>6. ASSUME t # <<>>
      PROVE  /\ t[1].pc \in {"length", "unpack"} /\ t[1] \in Frames
             /\ s[1].id = IF t[1].pc = "length" THEN f.length[t[1].id] ELSE t[1].off
  <2>1. t[1] = s[2] /\ 2 \in 2..Len(s) /\ 1 \in 1..Len(t) /\ 2 - 1 = 1
    BY <1>1, <1>6
  <2> QED
    BY <2>1 DEF CallsOf, Waiting
<1> QED
  BY <1>2, <1>4, <1>5, <1>6

LEMMA CallsChange ==
  ASSUME NEW f, NEW s \in Seq(Frames), NEW t \in Seq(Frames), NEW x \in Frames,
         s # <<>>, Changed(s, t, x), CallsOf(f, s), x.id = s[1].id, CallOf(f, x)
  PROVE  /\ CallsOf(f, t) /\ t[1] = x
         /\ \A i : AtLength(s, i) => AtLength(t, i) \/ (s[1].pc = "length" /\ s[1].id = i)
         /\ \A o : Unpacking(s, o) => Unpacking(t, o) \/ (s[1].pc = "unpack" /\ s[1].off = o)
         /\ x.pc = "unpack" => Unpacking(t, x.off)
<1>1. Len(s) \in Nat \ {0} /\ Len(t) = Len(s) /\ t[1] = x /\ \A k \in 2..Len(s) : t[k] = s[k]
  BY DEF Changed
<1>2. \A k \in 1..Len(s) : k = 1 \/ t[k] = s[k]
  BY <1>1
<1>3. CallsOf(f, t)
  <2>1. \A k \in 1..Len(t) : CallOf(f, t[k]) /\ t[k].id = s[k].id
    BY <1>1, <1>2 DEF CallsOf
  <2>2. ASSUME NEW k \in 2..Len(t)
        PROVE  t[k - 1].id = IF t[k].pc = "length" THEN f.length[t[k].id] ELSE t[k].off
    <3>1. k - 1 \in 1..Len(t) /\ k \in 2..Len(s) /\ t[k] = s[k]
      BY <1>1
    <3> QED
      BY <2>1, <3>1 DEF CallsOf
  <2> QED
    BY <2>1, <2>2 DEF CallsOf
<1>4. 1 \in 1..Len(t)
  BY <1>1
<1> QED
  BY <1>1, <1>2, <1>3, <1>4 DEF AtLength, Unpacking

LEMMA CallsPush ==
  ASSUME NEW f, NEW s \in Seq(Frames), NEW t \in Seq(Frames), NEW x \in Frames, NEW y \in Frames,
         s # <<>>, Pushed(s, t, y, x), CallsOf(f, s), x.id = s[1].id, CallOf(f, x),
         y.pc = "start", y.id = (IF x.pc = "length" THEN f.length[x.id] ELSE x.off),
         s[1].pc \notin {"length", "unpack"}
  PROVE  /\ CallsOf(f, t) /\ t[1] = y
         /\ \A i : AtLength(s, i) => AtLength(t, i)
         /\ \A o : Unpacking(s, o) => Unpacking(t, o)
         /\ x.pc = "unpack" => Unpacking(t, x.off)
<1>1. /\ Len(s) \in Nat \ {0} /\ Len(t) = Len(s) + 1 /\ t[1] = y /\ t[2] = x
      /\ \A k \in 3..Len(t) : t[k] = s[k - 1]
  BY DEF Pushed
<1>2. CallOf(f, y)
  BY DEF CallOf
<1>3. \A k \in 3..Len(t) : k - 1 \in 2..Len(s) /\ k - 1 - 1 = k - 2 /\ k - 1 \in 1..Len(s)
  BY <1>1
<1>4. \A k \in 1..Len(t) : k = 1 \/ k = 2 \/ k \in 3..Len(t)
  BY <1>1
<1>5. \A k \in 1..Len(t) : CallOf(f, t[k])
  BY <1>1, <1>2, <1>3, <1>4 DEF CallsOf
<1>6. ASSUME NEW k \in 2..Len(t)
      PROVE  t[k - 1].id = IF t[k].pc = "length" THEN f.length[t[k].id] ELSE t[k].off
  <2>1. CASE k = 2
    BY <1>1, <2>1
  <2>2. CASE k # 2
    <3>1. k \in 3..Len(t) /\ t[k] = s[k - 1]
      BY <1>1, <2>2
    <3>2. s[k - 2].id = IF t[k].pc = "length" THEN f.length[t[k].id] ELSE t[k].off
      BY <1>3, <3>1 DEF CallsOf
    <3>3. t[k - 1].id = s[k - 2].id
      <4>1. CASE k = 3
        BY <1>1, <4>1
      <4>2. CASE k # 3
        <5>1. k - 1 \in 3..Len(t)
          BY <1>1, <3>1, <4>2
        <5>2. t[k - 1] = s[k - 1 - 1]
          BY <1>1, <5>1
        <5> QED
          BY <1>3, <3>1, <5>2
      <4> QED
        BY <4>1, <4>2
    <3> QED
      BY <3>2, <3>3
  <2> QED
    BY <2>1, <2>2
<1>7. ASSUME NEW k \in 1..Len(s), s[k].pc \in {"length", "unpack"}
      PROVE  k + 1 \in 1..Len(t) /\ t[k + 1] = s[k]
  <2>1. k # 1
    BY <1>7
  <2>2. k + 1 \in 3..Len(t) /\ k + 1 - 1 = k
    BY <1>1, <2>1
  <2>3. t[k + 1] = s[k + 1 - 1]
    BY <1>1, <2>2
  <2> QED
    BY <1>1, <2>2, <2>3
<1>8. 2 \in 1..Len(t)
  BY <1>1
<1>9. CallsOf(f, t)
  BY <1>5, <1>6 DEF CallsOf
<1>10. (\A j : AtLength(s, j) => AtLength(t, j)) /\ (\A o : Unpacking(s, o) => Unpacking(t, o))
  BY <1>7 DEF AtLength, Unpacking
<1>11. x.pc = "unpack" => Unpacking(t, x.off)
  BY <1>1, <1>8 DEF Unpacking
<1> QED
  BY <1>1, <1>9, <1>10, <1>11

(* What the moves leave of the cache.                                      *)
Grows(f, c, d) == \A j \in Ids : d[j] = c[j] \/ d[j] = Expected(f, j)

LEMMA ValuesStay ==
  ASSUME NEW f, IsFile(f), NEW c, NEW d, NEW s, CachedOf(f, c, s), Grows(f, c, d), NEW j \in Ids
  PROVE  /\ c[j] = "value" => d[j] = "value"
         /\ c[j] # "unresolved" => d[j] # "unresolved"
<1>1. Expected(f, j) # "unresolved"
  BY ExpectedFacts
<1> QED
  BY <1>1 DEF CachedOf, Grows

LEMMA OrderedReturn ==
  ASSUME TypeOK, TypeOK', Recorded, Ordered, ~Idle,
         stack' = Tail(stack), Here.pc \in {"start", "end"},
         UNCHANGED <<file, xref, reconstructed, loaded>>,
         CachedOf(file, cache', stack), cache'[Here.id] # "unresolved",
         \A j \in Ids : cache[j] # "unresolved" => cache'[j] = cache[j]
  PROVE  Ordered'
<1>1. /\ stack \in Seq(Frames) /\ stack' \in Seq(Frames) /\ stack # <<>> /\ Here = stack[1]
      /\ Popped(stack, stack') /\ CallsOf(file, stack) /\ Waiting(stack)
  BY Moves DEF TypeOK, Idle, Ordered, Recorded
<1>2. /\ CallsOf(file, stack')
      /\ \A i : AtLength(stack, i) => AtLength(stack', i)
      /\ \A o : Unpacking(stack, o) => Unpacking(stack', o)
      /\ stack' # <<>> =>
           /\ stack'[1].pc \in {"length", "unpack"} /\ stack'[1] \in Frames
           /\ Here.id = IF stack'[1].pc = "length" THEN file.length[stack'[1].id] ELSE stack'[1].off
  BY <1>1, CallsPop
<1>3. CachedOf(file, cache', stack')
  BY <1>2 DEF CachedOf
<1>4. TopOf(file, xref, cache', stack')
  BY <1>2 DEF TopOf
<1>5. LoadedOf(file, cache', loaded, stack')
  BY <1>2 DEF LoadedOf, Ordered
<1> QED
  BY <1>2, <1>3, <1>4, <1>5 DEF Ordered

LEMMA OrderedGoesOn ==
  ASSUME TypeOK, TypeOK', Recorded, Ordered, ~Idle, UNCHANGED file,
         NEW x \in Frames, Changed(stack, stack', x), stack' # <<>>, x.id = Here.id,
         CallOf(file, x), TopOf(file, xref', cache', <<x>>),
         TableOf(file, xref', reconstructed'), Grows(file, cache, cache'),
         Here.pc = "length" => cache'[Here.id] = Expected(file, Here.id),
         Here.pc = "unpack" => \A i \in Ids :
           file.table[i] = Packed(Here.off) /\ i \in file.holds[Here.off] => cache'[i] = "value",
         loaded' = loaded \/ (x.pc = "unpack" /\ loaded' = loaded \cup {x.off})
  PROVE  Ordered'
<1>1. /\ stack \in Seq(Frames) /\ stack' \in Seq(Frames) /\ stack # <<>> /\ Here = stack[1]
      /\ CallsOf(file, stack) /\ IsFile(file)
  BY Moves, FileFacts DEF TypeOK, Idle, Ordered
<1>2. /\ CallsOf(file, stack') /\ stack'[1] = x
      /\ \A i : AtLength(stack, i) => AtLength(stack', i) \/ (Here.pc = "length" /\ Here.id = i)
      /\ \A o : Unpacking(stack, o) => Unpacking(stack', o) \/ (Here.pc = "unpack" /\ Here.off = o)
      /\ x.pc = "unpack" => Unpacking(stack', x.off)
  BY <1>1, CallsChange
<1>3. CachedOf(file, cache', stack')
  BY <1>2 DEF CachedOf, Grows, Ordered
<1>4. TopOf(file, xref', cache', stack')
  BY <1>2 DEF TopOf
<1>5. \A j \in Ids : cache[j] = "value" => cache'[j] = "value"
  BY <1>1, ValuesStay DEF Ordered
<1>6. LoadedOf(file, cache', loaded', stack')
  BY <1>2, <1>5 DEF LoadedOf, Ordered
<1> QED
  BY <1>2, <1>3, <1>4, <1>6 DEF Ordered

LEMMA OrderedCalls ==
  ASSUME TypeOK, TypeOK', Recorded, Ordered, ~Idle,
         UNCHANGED <<file, xref, reconstructed, cache>>,
         NEW p \in {"length", "unpack"}, NEW i \in Ids, Call(i, p), p \in Nexts,
         Here.pc \notin {"length", "unpack"}, CallOf(file, With(Here, p)),
         i = (IF p = "length" THEN file.length[Here.id] ELSE Here.off),
         loaded' = loaded \/ (p = "unpack" /\ loaded' = loaded \cup {Here.off})
  PROVE  Ordered'
<1> DEFINE x == With(Here, p)
           y == New(i)
<1>1. /\ stack \in Seq(Frames) /\ stack' \in Seq(Frames) /\ stack # <<>> /\ stack' # <<>>
      /\ Here = stack[1] /\ CallsOf(file, stack) /\ Here \in Frames
      /\ Pushed(stack, stack', y, x)
  BY Moves DEF TypeOK, Idle, Ordered
<1>2. x.id = Here.id /\ x.off = Here.off /\ x.pc = p /\ x \in Frames
  BY <1>1 DEF With, Frames, Nexts, PCs
<1>3. y.id = i /\ y.pc = "start" /\ y \in Frames
  BY FileFacts DEF New, Frames, PCs
<1> HIDE DEF x, y
<1>4. /\ CallsOf(file, stack') /\ stack'[1] = y
      /\ \A j : AtLength(stack, j) => AtLength(stack', j)
      /\ \A o : Unpacking(stack, o) => Unpacking(stack', o)
      /\ x.pc = "unpack" => Unpacking(stack', x.off)
  <2>1. CallOf(file, x)
    BY DEF x
  <2> QED
    BY <1>1, <1>2, <1>3, <2>1, CallsPush
<1>5. CachedOf(file, cache, stack')
  BY <1>4 DEF CachedOf, Ordered
<1>6. TopOf(file, xref, cache, stack')
  BY <1>3, <1>4 DEF TopOf
<1>7. LoadedOf(file, cache, loaded', stack')
  BY <1>2, <1>4 DEF LoadedOf, Ordered
<1> QED
  BY <1>4, <1>5, <1>6, <1>7 DEF Ordered

(* What is known of the object that the call on top is for.                *)
LEMMA HereFacts ==
  ASSUME TypeOK, Ordered, ~Idle
  PROVE  /\ stack # <<>> /\ Here = stack[1] /\ Here \in Frames /\ Here.id \in Ids
         /\ CallOf(file, Here) /\ TopOf(file, xref, cache, <<Here>>)
         /\ 1 \in 1..Len(stack)
<1>1. stack # <<>> /\ Here = stack[1] /\ Here \in Frames /\ Here.id \in Ids /\ 1 \in 1..Len(stack)
  BY Moves DEF Idle, Frames
<1> QED
  BY <1>1 DEF Ordered, CallsOf, TopOf

LEMMA OrderedStart ==
  ASSUME TypeOK, TypeOK', Recorded, Ordered, Start
  PROVE  Ordered'
<1> DEFINE i == Here.id
<1>1. /\ ~Idle /\ Here.pc = "start" /\ i \in Ids /\ Here = stack[1] /\ Here \in Frames
      /\ UNCHANGED <<file, xref, reconstructed, loaded>> /\ IsFile(file) /\ Sound(file)
  BY HereFacts, FileFacts DEF Start, At
<1>2. CASE cache[i] # "unresolved"
  BY <1>1, <1>2, OrderedReturn DEF Start, Ordered
<1>3. CASE cache[i] = "unresolved" /\ InLoop(i)
  <2>1. stack' = Tail(stack) /\ cache' = [cache EXCEPT ![i] = "null"]
    BY <1>3 DEF Start
  <2>2. PICK k \in In(stack) : stack[k].id = i
    BY <1>3 DEF InLoop, Recorded, Matched
  <2>3. k \in 2..Len(stack) /\ k \in 1..Len(stack) /\ stack[k].pc \in {"length", "unpack"}
    <3>1. k \in 1..Len(stack) /\ k # 1
      BY <1>1 DEF In
    <3>2. Len(stack) \in Nat
      BY DEF TypeOK
    <3>3. k \in 2..Len(stack)
      BY <3>1, <3>2
    <3> QED
      BY <3>1, <3>3 DEF Recorded, Waiting
  <2>4. stack[k].pc # "unpack"
    <3> SUFFICES ASSUME stack[k].pc = "unpack" PROVE FALSE
      OBVIOUS
    <3>1. ~IsPacked(file, i)
      BY <1>1, <2>3, Nested DEF Ordered, Recorded, TypeOK
    <3>2. file.table[i] = Packed(stack[k].off)
      BY <2>2, <2>3 DEF Ordered, CallsOf, CallOf
    <3> QED
      BY <3>1, <3>2 DEF IsPacked, Packed
  <2>5. AtLength(stack, i)
    BY <2>2, <2>3, <2>4 DEF AtLength
  <2>6. cache'[i] = "null" /\ \A j \in Ids : j # i => cache'[j] = cache[j]
    BY <1>1, <2>1 DEF TypeOK
  <2>7. CachedOf(file, cache', stack)
    BY <2>5, <2>6 DEF Ordered, CachedOf
  <2> QED
    BY <1>1, <1>3, <2>1, <2>6, <2>7, OrderedReturn
<1>4. CASE cache[i] = "unresolved" /\ ~InLoop(i)
  <2> DEFINE x == [id |-> i, off |-> xref[i].at,
                   pc |-> CASE xref[i].kind = "plain" -> "read"
                            [] xref[i].kind = "packed" -> "load"
                            [] OTHER -> "end"]
  <2>1. stack' = <<x>> \o Tail(stack) /\ UNCHANGED cache
    BY <1>4 DEF Start
  <2>2. xref[i] \in Entries
    BY <1>1 DEF TypeOK
  <2>3. x \in Frames /\ x.id = i /\ x.off = xref[i].at
    BY <1>1, <2>2, FileFacts DEF Frames, PCs
  <2>4. /\ x.pc = "read" => xref[i] = Plain(x.off)
        /\ x.pc = "load" => xref[i] = Packed(x.off)
        /\ x.pc = "end" => xref[i] = NoEntry
        /\ x.pc \in {"read", "load", "end"}
    BY <2>2, <2>3, FileFacts
  <2> HIDE DEF x
  <2>5. /\ x.pc = "read" => ~IsPacked(file, i)
        /\ x.pc = "load" => file.table[i] = Packed(x.off)
        /\ x.pc = "end" => Expected(file, i) = "null"
    <3>1. xref[i] = IF IsPacked(file, i) \/ ~reconstructed THEN file.table[i]
                    ELSE IF i \in file.present THEN Plain(i) ELSE NoEntry
      BY <1>1 DEF Ordered, TableOf
    <3>2. ASSUME x.pc = "read" PROVE ~IsPacked(file, i)
      BY <2>4, <3>1, <3>2 DEF IsPacked, Plain
    <3>3. ASSUME x.pc = "load" PROVE file.table[i] = Packed(x.off)
      BY <2>4, <3>1, <3>3 DEF Plain, Packed, NoEntry
    <3>4. ASSUME x.pc = "end" PROVE Expected(file, i) = "null"
      <4>1. ~IsPacked(file, i)
        BY <2>4, <3>1, <3>4 DEF IsPacked, NoEntry
      <4>2. i \notin file.present
        BY <1>1, <2>4, <3>1, <3>4 DEF Sound, NoEntry, Plain
      <4> QED
        BY <4>1, <4>2 DEF Expected, IsStream, IsValue
    <3> QED
      BY <3>2, <3>3, <3>4
  <2>6. CallOf(file, x) /\ TopOf(file, xref', cache', <<x>>)
    BY <1>1, <1>4, <2>1, <2>3, <2>4, <2>5 DEF CallOf, TopOf
  <2>7. Changed(stack, stack', x) /\ stack' # <<>>
    BY <1>1, <2>1, <2>3, Moves
  <2>8. Grows(file, cache, cache') /\ TableOf(file, xref', reconstructed')
    BY <1>1, <2>1 DEF Grows, Ordered
  <2> QED
    BY <1>1, <2>3, <2>6, <2>7, <2>8, OrderedGoesOn
<1> QED
  BY <1>2, <1>3, <1>4

LEMMA OrderedEnd ==
  ASSUME TypeOK, TypeOK', Recorded, Ordered, End
  PROVE  Ordered'
<1> DEFINE i == Here.id
<1>1. /\ ~Idle /\ Here.pc = "end" /\ i \in Ids /\ stack' = Tail(stack) /\ IsFile(file)
      /\ UNCHANGED <<file, xref, reconstructed, loaded>> /\ TopOf(file, xref, cache, <<Here>>)
  BY HereFacts, FileFacts DEF End, At
<1>2. cache'[i] = Expected(file, i) /\ \A j \in Ids : j # i => cache'[j] = cache[j]
  <2>1. /\ cache'[i] = IF cache[i] = "unresolved" THEN "null" ELSE cache[i]
        /\ \A j \in Ids : j # i => cache'[j] = cache[j]
    BY <1>1 DEF End, TypeOK
  <2>2. cache[i] = Expected(file, i) \/ (cache[i] = "unresolved" /\ Expected(file, i) = "null")
    BY <1>1 DEF TopOf
  <2>3. Expected(file, i) # "unresolved"
    BY <1>1, ExpectedFacts
  <2> QED
    BY <2>1, <2>2, <2>3
<1>3. cache'[i] # "unresolved" /\ (cache[i] # "unresolved" => cache'[i] = cache[i])
  BY <1>1, <1>2, ExpectedFacts DEF TopOf
<1>4. CachedOf(file, cache', stack)
  BY <1>2 DEF CachedOf, Ordered
<1> QED
  BY <1>1, <1>2, <1>3, <1>4, OrderedReturn

LEMMA GoesTo ==
  ASSUME TypeOK, ~Idle, NEW p \in Nexts, Goto(p)
  PROVE  LET x == With(Here, p)
         IN /\ x \in Frames /\ x.id = Here.id /\ x.off = Here.off /\ x.pc = p
            /\ Changed(stack, stack', x) /\ stack' # <<>>
<1>1. Changed(stack, stack', With(Here, p)) /\ stack' # <<>> /\ Here \in Frames /\ Here.id \in Ids
  BY Moves DEF Frames
<1> QED
  BY <1>1 DEF With, Frames, Nexts, PCs

(* The call leaves with the object read, or with nothing if that is right. *)
LEMMA OrderedDone ==
  ASSUME TypeOK, TypeOK', Recorded, Ordered, ~Idle, Goto("end"),
         UNCHANGED <<file, loaded>>, TableOf(file, xref', reconstructed'),
         Grows(file, cache, cache'),
         \/ cache'[Here.id] = Expected(file, Here.id)
         \/ cache'[Here.id] = "unresolved" /\ Expected(file, Here.id) = "null",
         Here.pc = "length" => cache'[Here.id] = Expected(file, Here.id),
         Here.pc = "unpack" => \A i \in Ids :
           file.table[i] = Packed(Here.off) /\ i \in file.holds[Here.off] => cache'[i] = "value"
  PROVE  Ordered'
<1> DEFINE x == With(Here, "end")
<1>1. /\ x \in Frames /\ x.id = Here.id /\ x.pc = "end"
      /\ Changed(stack, stack', x) /\ stack' # <<>>
  BY GoesTo DEF Nexts
<1> HIDE DEF x
<1>2. CallOf(file, x) /\ TopOf(file, xref', cache', <<x>>)
  BY <1>1 DEF CallOf, TopOf
<1> QED
  BY <1>1, <1>2, OrderedGoesOn

LEMMA OrderedMisplaced ==
  ASSUME TypeOK, TypeOK', Recorded, Ordered, Misplaced
  PROVE  Ordered'
<1> DEFINE i == Here.id
<1>1. /\ ~Idle /\ Here.pc = "read" /\ i \in Ids /\ Here \in Frames
      /\ Here.off \notin file.present \/ Here.off # i
      /\ ~IsPacked(file, i) /\ xref[i] = Plain(Here.off) /\ IsFile(file)
      /\ UNCHANGED <<file, cache, loaded>>
  BY HereFacts, FileFacts DEF Misplaced, At, CallOf, TopOf
<1>2. ~reconstructed
  <2>1. reconstructed => (i \in file.present /\ xref[i] = Plain(i)) \/ xref[i] = NoEntry
    BY <1>1 DEF Ordered, TableOf
  <2> QED
    BY <1>1, <2>1 DEF Plain, NoEntry
<1>3. reconstructed' = TRUE /\ xref' = Rebuilt
  BY <1>2 DEF Misplaced
<1>4. TableOf(file, xref', reconstructed')
  <2>1. \A j \in Ids : xref[j] = file.table[j]
    BY <1>2 DEF Ordered, TableOf
  <2> QED
    BY <1>3, <2>1 DEF TableOf, Rebuilt, IsPacked
<1>5. Grows(file, cache, cache')
  BY <1>1 DEF Grows
<1>6. Rebuilt[i] = IF i \in file.present THEN Plain(i) ELSE NoEntry
  BY <1>1 DEF Rebuilt, Plain
<1>7. CASE i \in file.present
  <2> DEFINE x == [Here EXCEPT !.off = Rebuilt[i].at]
  <2>1. stack' = <<x>> \o Tail(stack)
    BY <1>2, <1>6, <1>7 DEF Misplaced, Plain
  <2>2. Rebuilt[i] = Plain(i) /\ i \in 0..MaxId
    BY <1>1, <1>6, <1>7, FileFacts DEF Ids
  <2>3. x \in Frames /\ x.id = i /\ x.off = i /\ x.pc = "read"
    BY <1>1, <2>2 DEF Frames, Plain
  <2> HIDE DEF x
  <2>4. CallOf(file, x) /\ TopOf(file, xref', cache', <<x>>)
    BY <1>1, <1>3, <2>2, <2>3 DEF CallOf, TopOf
  <2>5. Changed(stack, stack', x) /\ stack' # <<>>
    BY <1>1, <2>1, <2>3, Moves
  <2> QED
    BY <1>1, <1>4, <1>5, <2>3, <2>4, <2>5, OrderedGoesOn
<1>8. CASE i \notin file.present
  <2>1. Goto("end")
    BY <1>2, <1>6, <1>8 DEF Misplaced, NoEntry
  <2>2. Expected(file, i) = "null"
    BY <1>1, <1>8 DEF Expected, IsStream, IsValue
  <2>3. cache'[i] \in {"unresolved", "null"}
    BY <1>1, <2>2 DEF Ordered, CachedOf
  <2> QED
    BY <1>1, <1>4, <1>5, <2>1, <2>2, <2>3, OrderedDone
<1> QED
  BY <1>7, <1>8

LEMMA OrderedNothing ==
  ASSUME Recovery = TRUE, TypeOK, TypeOK', Recorded, Ordered, Nothing
  PROVE  Ordered'
<1> DEFINE i == Here.id
<1>1. /\ ~Idle /\ Here.pc = "read" /\ i \in Ids /\ i # 0
      /\ ~IsPacked(file, i) /\ xref[i] = Plain(Here.off) /\ IsFile(file) /\ Sound(file)
      /\ UNCHANGED <<file, xref, reconstructed, cache, loaded>> /\ Goto("end")
  BY HereFacts, FileFacts DEF Nothing, At, CallOf, TopOf, Ids
<1>2. i \notin file.present
  <2>1. CASE Here.off = 0
    <3>1. xref[i] # Plain(i)
      BY <1>1, <2>1 DEF Plain
    <3>2. xref[i] = file.table[i] \/ i \notin file.present
      BY <1>1, <3>1 DEF Ordered, TableOf
    <3> QED
      BY <1>1, <2>1, <3>2 DEF Sound
  <2>2. CASE Here.off # 0
    BY <1>1, <2>2 DEF Nothing
  <2> QED
    BY <2>1, <2>2
<1>3. Expected(file, i) = "null"
  BY <1>1, <1>2 DEF Expected, IsStream, IsValue
<1>4. cache'[i] \in {"unresolved", "null"} /\ Grows(file, cache, cache')
  BY <1>1, <1>3 DEF Ordered, CachedOf, Grows
<1>5. TableOf(file, xref', reconstructed')
  BY <1>1 DEF Ordered
<1> QED
  BY <1>1, <1>3, <1>4, <1>5, OrderedDone

LEMMA OrderedRead ==
  ASSUME Recovery = TRUE, TypeOK, TypeOK', Recorded, Ordered, Read
  PROVE  Ordered'
<1> DEFINE i == Here.id
<1>1. /\ ~Idle /\ Here.pc = "read" /\ i \in Ids /\ Here.off = i /\ i \in file.present \ file.streams
      /\ ~IsPacked(file, i) /\ IsFile(file) /\ cache' = [cache EXCEPT ![i] = "value"]
      /\ UNCHANGED <<file, xref, reconstructed, loaded>> /\ Goto("end")
  BY HereFacts, FileFacts DEF Read, Readable, At, CallOf
<1>2. Expected(file, i) = "value"
  BY <1>1 DEF Expected, IsStream, IsValue
<1>3. cache'[i] = "value" /\ Grows(file, cache, cache')
  BY <1>1, <1>2 DEF TypeOK, Grows
<1>4. TableOf(file, xref', reconstructed')
  BY <1>1 DEF Ordered
<1> QED
  BY <1>1, <1>2, <1>3, <1>4, OrderedDone

LEMMA OrderedReadStream ==
  ASSUME Recovery = TRUE, TypeOK, TypeOK', Recorded, Ordered, ReadStream
  PROVE  Ordered'
<1> DEFINE i == Here.id
           n == file.length[i]
           x == With(Here, "length")
<1>1. /\ ~Idle /\ Here.pc = "read" /\ i \in Ids /\ Here.off = i
      /\ i \in file.present \cap file.streams /\ ~IsPacked(file, i) /\ n \in {0} \cup Ids
      /\ UNCHANGED <<file, xref, reconstructed, cache, loaded>>
  BY HereFacts, FileFacts DEF ReadStream, Readable, At, CallOf, IsFile, Ids
<1>2. x.id = i /\ x.off = i /\ x.pc = "length"
  BY <1>1 DEF With
<1>3. CallOf(file, x) /\ "length" \in Nexts
  BY <1>1, <1>2 DEF CallOf, IsStream, Nexts
<1>4. CASE n # 0 /\ (cache[n] # "unresolved" \/ xref[n] # NoEntry)
  <2>1. Call(n, "length") /\ n \in Ids
    BY <1>1, <1>4 DEF ReadStream
  <2> QED
    BY <1>1, <1>3, <2>1, OrderedCalls
<1>5. CASE ~(n # 0 /\ (cache[n] # "unresolved" \/ xref[n] # NoEntry))
  <2>1. Goto("length")
    BY <1>1, <1>5 DEF ReadStream
  <2>2. x \in Frames /\ Changed(stack, stack', x) /\ stack' # <<>>
    BY <1>1, <1>3, <2>1, GoesTo
  <2> HIDE DEF x
  <2>3. TopOf(file, xref', cache', <<x>>)
    BY <1>1, <1>2, <1>5 DEF TopOf
  <2>4. Grows(file, cache, cache') /\ TableOf(file, xref', reconstructed')
    BY <1>1 DEF Grows, Ordered
  <2> QED
    BY <1>1, <1>2, <1>3, <2>2, <2>3, <2>4, OrderedGoesOn
<1> QED
  BY <1>4, <1>5

LEMMA OrderedLength ==
  ASSUME Recovery = TRUE, TypeOK, TypeOK', Recorded, Ordered, Length
  PROVE  Ordered'
<1> DEFINE i == Here.id
           n == file.length[i]
<1>1. /\ ~Idle /\ Here.pc = "length" /\ i \in Ids /\ Here.off = i /\ IsStream(file, i)
      /\ n \in {0} \cup Ids /\ IsFile(file) /\ Sound(file)
      /\ n = 0 \/ cache[n] # "unresolved" \/ xref[n] = NoEntry
      /\ UNCHANGED <<file, xref, reconstructed, loaded>> /\ Goto("end")
  BY HereFacts, FileFacts DEF Length, At, CallOf, IsFile, Ids, TopOf
<1>2. cache' = [cache EXCEPT ![i] = IF n = 0 \/ cache[n] = "value" THEN "exact" ELSE "recovered"]
  BY <1>1 DEF Length, StreamOffset
<1>3. Expected(file, i) = IF n = 0 \/ IsValue(file, n) THEN "exact" ELSE "recovered"
  BY <1>1, ExpectedFacts
<1>4. n # 0 => (IsValue(file, n) <=> cache[n] = "value")
  <2> SUFFICES ASSUME n \in Ids PROVE IsValue(file, n) <=> cache[n] = "value"
    BY <1>1
  <2>1. /\ cache[n] = "value" => Expected(file, n) = "value"
        /\ cache[n] \in {"unresolved", Expected(file, n)} \/ (cache[n] = "null" /\ AtLength(stack, n))
    BY DEF Ordered, CachedOf
  <2>2. AtLength(stack, n) => IsStream(file, n)
    BY DEF AtLength, Ordered, CallsOf, CallOf
  <2>3. xref[n] = NoEntry => ~IsValue(file, n)
    <3> SUFFICES ASSUME xref[n] = NoEntry PROVE ~IsValue(file, n)
      OBVIOUS
    <3>1. NoEntry = IF IsPacked(file, n) \/ ~reconstructed THEN file.table[n]
                    ELSE IF n \in file.present THEN Plain(n) ELSE NoEntry
      BY DEF Ordered, TableOf
    <3>2. ~IsPacked(file, n)
      BY <3>1 DEF IsPacked, NoEntry
    <3>3. n \notin file.present
      BY <1>1, <3>1 DEF Sound, NoEntry, Plain
    <3> QED
      BY <3>2, <3>3 DEF IsValue
  <2>4. IsValue(file, n) <=> Expected(file, n) = "value"
    BY <1>1, ExpectedFacts
  <2>5. IsValue(file, n) => ~IsStream(file, n)
    BY <1>1, ExpectedFacts
  <2> QED
    BY <1>1, <2>1, <2>2, <2>3, <2>4, <2>5, FileFacts DEF Ids
<1>5. cache'[i] = Expected(file, i) /\ Grows(file, cache, cache')
  BY <1>1, <1>2, <1>3, <1>4 DEF TypeOK, Grows
<1>6. TableOf(file, xref', reconstructed')
  BY <1>1 DEF Ordered
<1> QED
  BY <1>1, <1>5, <1>6, OrderedDone

LEMMA OrderedLoad ==
  ASSUME TypeOK, TypeOK', Recorded, Ordered, Load
  PROVE  Ordered'
<1> DEFINE i == Here.id
           o == Here.off
           x == With(Here, "unpack")
<1>1. /\ ~Idle /\ Here.pc = "load" /\ i \in Ids /\ o \in Ids /\ file.table[i] = Packed(o)
      /\ IsFile(file) /\ Sound(file) /\ Here = stack[1] /\ Here \in Frames
      /\ UNCHANGED <<file, xref, reconstructed, cache>>
  BY HereFacts, FileFacts DEF Load, At, CallOf, Frames
<1>2. IsPacked(file, i)
  BY <1>1 DEF IsPacked, Packed
<1>3. Grows(file, cache, cache') /\ TableOf(file, xref', reconstructed')
  BY <1>1 DEF Grows, Ordered
<1>4. CASE o \in loaded
  <2>1. Goto("end") /\ UNCHANGED loaded
    BY <1>4 DEF Load
  <2>2. ~Unpacking(stack, o)
    <3> SUFFICES ASSUME NEW k \in 1..Len(stack), stack[k].pc = "unpack" PROVE FALSE
      BY DEF Unpacking
    <3>1. k # 1
      BY <1>1
    <3>2. Len(stack) \in Nat /\ stack \in Seq(Frames)
      BY DEF TypeOK
    <3>3. k \in 2..Len(stack)
      BY <3>1, <3>2
    <3> QED
      BY <1>1, <1>2, <3>2, <3>3, Nested DEF Ordered, Recorded
  <2>3. i \in file.holds[o] => cache[i] = "value"
    BY <1>1, <1>4, <2>2 DEF Ordered, LoadedOf
  <2>4. cache[i] = "value" => Expected(file, i) = "value"
    BY <1>1 DEF Ordered, CachedOf
  <2>5. ~AtLength(stack, i)
    BY <1>2 DEF AtLength, Ordered, CallsOf, CallOf, IsStream
  <2>6. i \notin file.holds[o] => Expected(file, i) = "null"
    BY <1>1, <1>2 DEF Expected, IsStream, IsValue, Packed
  <2>7. \/ cache[i] = Expected(file, i)
        \/ cache[i] = "unresolved" /\ Expected(file, i) = "null"
    BY <1>1, <2>3, <2>4, <2>5, <2>6 DEF Ordered, CachedOf
  <2> QED
    BY <1>1, <1>3, <2>1, <2>7, OrderedDone
<1>5. CASE o \notin loaded
  <2>1. loaded' = loaded \cup {o} /\ "unpack" \in Nexts
    BY <1>1, <1>5 DEF Load, Nexts
  <2>2. x.id = i /\ x.off = o /\ x.pc = "unpack"
    BY DEF With
  <2>3. CallOf(file, x)
    BY <1>1, <2>2 DEF CallOf
  <2>4. CASE cache[o] = "unresolved" /\ xref[o] = NoEntry
    <3>1. Goto("unpack")
      BY <1>5, <2>4 DEF Load
    <3>2. x \in Frames /\ Changed(stack, stack', x) /\ stack' # <<>>
      BY <1>1, <2>1, <3>1, GoesTo
    <3> HIDE DEF x
    <3>3. TopOf(file, xref', cache', <<x>>)
      BY <1>1, <2>2, <2>4 DEF TopOf
    <3> QED
      BY <1>1, <1>3, <2>1, <2>2, <2>3, <3>2, <3>3, OrderedGoesOn
  <2>5. CASE ~(cache[o] = "unresolved" /\ xref[o] = NoEntry)
    <3>1. Call(o, "unpack")
      BY <1>5, <2>5 DEF Load
    <3> QED
      BY <1>1, <2>1, <2>3, <3>1, OrderedCalls
  <2> QED
    BY <2>4, <2>5
<1> QED
  BY <1>4, <1>5

LEMMA OrderedUnpack ==
  ASSUME TypeOK, TypeOK', Recorded, Ordered, Unpack
  PROVE  Ordered'
<1> DEFINE i == Here.id
           o == Here.off
           Held(j) == file.table[j] = Packed(o) /\ j \in file.holds[o]
<1>1. /\ ~Idle /\ Here.pc = "unpack" /\ i \in Ids /\ o \in Ids /\ file.table[i] = Packed(o)
      /\ IsFile(file) /\ Sound(file) /\ Here = stack[1]
      /\ cache[o] # "unresolved" \/ xref[o] = NoEntry
      /\ UNCHANGED <<file, xref, reconstructed, loaded>> /\ Goto("end")
  BY HereFacts, FileFacts DEF Unpack, At, CallOf, Frames, TopOf
<1>2. \A j \in Ids : xref[j] = Packed(o) <=> file.table[j] = Packed(o)
  <2> SUFFICES ASSUME NEW j \in Ids PROVE xref[j] = Packed(o) <=> file.table[j] = Packed(o)
    OBVIOUS
  <2>1. xref[j] = IF IsPacked(file, j) \/ ~reconstructed THEN file.table[j]
                  ELSE IF j \in file.present THEN Plain(j) ELSE NoEntry
    BY DEF Ordered, TableOf
  <2>2. Packed(o).kind = "packed" /\ Plain(j) # Packed(o) /\ NoEntry # Packed(o)
    BY DEF Packed, Plain, NoEntry
  <2>3. file.table[j] = Packed(o) => IsPacked(file, j)
    BY <2>2 DEF IsPacked
  <2> QED
    BY <2>1, <2>2, <2>3
<1>3. \A j \in Ids : cache'[j] = IF cache[o] \in {"exact", "recovered"} /\ Held(j) THEN "value" ELSE cache[j]
  <2>1. \A j \in Ids : j \in Taken(o) <=> Held(j)
    BY <1>1, <1>2 DEF Taken, IsFile
  <2> QED
    BY <1>2, <2>1 DEF Unpack, TypeOK
<1>4. \A j \in Ids : Held(j) => Expected(file, j) = "value"
  BY DEF Expected, IsStream, IsValue, IsPacked, Packed
<1>5. file.holds[o] # {} => cache[o] \in {"exact", "recovered"}
  <2> SUFFICES ASSUME file.holds[o] # {} PROVE cache[o] \in {"exact", "recovered"}
    OBVIOUS
  <2>1. IsObjectStream(file, o) /\ IsStream(file, o) /\ o \in file.present
    BY <1>1 DEF IsObjectStream, Sound, IsStream, IsPacked
  <2>2. Expected(file, o) \in {"exact", "recovered"}
    BY <2>1 DEF Expected
  <2>3. xref[o] # NoEntry
    <3>1. xref[o] = IF IsPacked(file, o) \/ ~reconstructed THEN file.table[o]
                    ELSE IF o \in file.present THEN Plain(o) ELSE NoEntry
      BY <1>1 DEF Ordered, TableOf
    <3> QED
      BY <1>1, <2>1, <3>1 DEF Sound, NoEntry, Plain, IsStream
  <2>4. ~AtLength(stack, o)
    <3> SUFFICES ASSUME NEW k \in 1..Len(stack), stack[k].pc = "length", stack[k].id = o PROVE FALSE
      BY DEF AtLength
    <3>1. k # 1 /\ Len(stack) \in Nat /\ stack \in Seq(Frames)
      BY <1>1 DEF TypeOK
    <3>2. k \in 2..Len(stack)
      BY <3>1
    <3>3. ~IsPacked(file, i)
      BY <1>1, <2>1, <3>1, <3>2, Nested DEF Ordered, Recorded
    <3> QED
      BY <1>1, <3>3 DEF IsPacked, Packed
  <2> QED
    BY <1>1, <2>2, <2>3, <2>4 DEF Ordered, CachedOf
<1>6. \A j \in Ids : Held(j) => cache'[j] = "value"
  BY <1>3, <1>5
<1>7. Grows(file, cache, cache')
  BY <1>3, <1>4 DEF Grows
<1>8. \/ cache'[i] = Expected(file, i)
      \/ cache'[i] = "unresolved" /\ Expected(file, i) = "null"
  <2>1. CASE i \in file.holds[o]
    BY <1>1, <1>4, <1>6, <2>1
  <2>2. CASE i \notin file.holds[o]
    <3>1. Expected(file, i) = "null" /\ cache'[i] = cache[i]
      BY <1>1, <1>3, <2>2 DEF Expected, IsStream, IsValue, IsPacked, Packed
    <3> QED
      BY <1>1, <3>1 DEF Ordered, CachedOf
  <2> QED
    BY <2>1, <2>2
<1>9. TableOf(file, xref', reconstructed')
  BY <1>1 DEF Ordered
<1> QED
  BY <1>1, <1>6, <1>7, <1>8, <1>9, OrderedDone

LEMMA OrderedKept ==
  Recovery = TRUE /\ TypeOK /\ Recorded /\ Ordered /\ [Next]_vars => Ordered'
<1> SUFFICES ASSUME Recovery = TRUE, TypeOK, Recorded, Ordered, [Next]_vars PROVE Ordered'
  OBVIOUS
<1>1. TypeOK'
  BY TypesKept
<1>2. CASE Step
  BY <1>1, <1>2, OrderedStart, OrderedEnd, OrderedMisplaced, OrderedNothing, OrderedRead,
     OrderedReadStream, OrderedLength, OrderedLoad, OrderedUnpack DEF Step
<1>3. ASSUME Idle, NEW i, stack' = <<New(i)>>,
             UNCHANGED <<file, xref, cache, loaded, reconstructed>>
      PROVE  Ordered'
  <2>1. Len(stack') = 1 /\ stack'[1].pc = "start" /\ Len(stack) = 0
    BY <1>3 DEF New, Idle
  <2>2. \A j \in 1..1 : j = 1
    OBVIOUS
  <2>3. CallsOf(file, stack')
    BY <2>1, <2>2 DEF CallsOf, CallOf
  <2>4. CachedOf(file, cache, stack') /\ LoadedOf(file, cache, loaded, stack')
    BY <2>1 DEF Ordered, CachedOf, LoadedOf, AtLength, Unpacking
  <2>5. TopOf(file, xref, cache, stack')
    BY <2>1 DEF TopOf
  <2> QED
    BY <1>3, <2>3, <2>4, <2>5 DEF Ordered
<1>4. CASE UNCHANGED <<file, xref, cache, loaded, reconstructed, stack>>
  BY <1>4 DEF Ordered
<1>5. CASE Walk
  <2>1. UNCHANGED stack \/ stack' = <<New(walk.at)>>
    BY <1>5 DEF Walk, New
  <2> QED
    BY <1>3, <1>4, <1>5, <2>1 DEF Walk
<1>6. ASSUME NEW i \in Ids, Use(i) PROVE Ordered'
  BY <1>3, <1>6 DEF Use, New
<1>7. CASE FixDangling \/ UNCHANGED vars
  BY <1>4, <1>7 DEF FixDangling, vars
<1> QED
  BY <1>2, <1>5, <1>6, <1>7 DEF Next, Work

(* With recovery, whatever the program reads first: every object of a      *)
(* sound file is resolved to what the file has for it, and after dangling  *)
(* references are fixed nothing in the table is left.                      *)
THEOREM OrderIsIrrelevant == Recovery = TRUE /\ Spec => []ResolvedAlike
<1> SUFFICES ASSUME Recovery = TRUE PROVE Spec => []ResolvedAlike
  OBVIOUS
<1> DEFINE Inv == TypeOK /\ Recorded /\ Ordered /\ Passes
<1>1. Init => Inv
  <2> SUFFICES ASSUME Init PROVE Inv
    OBVIOUS
  <2>1. TypeOK /\ Passes
    BY TypesInitially DEF Init, Passes
  <2>2. stack = <<>> /\ Len(stack) = 0 /\ xref = file.table /\ ~reconstructed /\ loaded = {}
        /\ resolving = {} /\ cache = [i \in Ids |-> "unresolved"]
    BY DEF Init
  <2>3. Recorded
    BY <2>2 DEF Recorded, Matched, Waiting, In
  <2>4. Ordered
    BY <2>2 DEF Ordered, TableOf, CallsOf, CachedOf, TopOf, LoadedOf
  <2> QED
    BY <2>1, <2>3, <2>4
<1>2. Inv /\ [Next]_vars => Inv'
  BY TypesKept, RecordedKept, OrderedKept, PassesKept
<1>3. Inv => ResolvedAlike
  <2> SUFFICES ASSUME Inv PROVE ResolvedAlike
    OBVIOUS
  <2>1. Idle => \A i : ~AtLength(stack, i)
    BY DEF Idle, AtLength
  <2>2. OrderDoesNotMatter
    BY <2>1 DEF OrderDoesNotMatter, Ordered, CachedOf
  <2>3. FixedMeansResolved
    BY DEF Passes, FixedMeansResolved
  <2> QED
    BY <2>2, <2>3 DEF ResolvedAlike
<1> QED
  BY <1>1, <1>2, <1>3, PTL DEF Spec
=============================================================================
