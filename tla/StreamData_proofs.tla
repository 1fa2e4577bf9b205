------------------------- MODULE StreamData_proofs -------------------------
(***************************************************************************)
(* No decoder ever leaves its buffers, whatever data reaches it in         *)
(* whatever pieces, and whatever is thrown meanwhile.  Each decoder has an *)
(* invariant of its own, in StreamData; here it is proved to be kept by    *)
(* each step and by the end, with what is written to the next one.         *)
(***************************************************************************)
EXTENDS StreamData, Induction

-----------------------------------------------------------------------------
(* Powers.                                                                 *)

LEMMA PowerSteps ==
  ASSUME NEW b \in Nat
  PROVE  /\ \A n \in Nat : Power(b, n) \in Nat
         /\ Power(b, 0) = 1
         /\ \A n \in Nat : Power(b, n + 1) = b * Power(b, n)
<1> DEFINE step == [x \in Nat |-> b * x]
<1> DEFINE Rec(p) == p = [k \in Nat |-> IF k = 0 THEN 1 ELSE b * p[k - 1]]
<1>1. 1 \in Nat /\ step \in [Nat -> Nat]
  OBVIOUS
<1>2. ASSUME NEW f, f = [n \in Nat |-> IF n = 0 THEN 1 ELSE step[f[n - 1]]]
      PROVE  f \in [Nat -> Nat] /\ f[0] = 1 /\ \A n \in Nat : f[n + 1] = b * f[n]
  <2> DEFINE D == Nat
  <2>1. 1 \in D /\ step \in [D -> D]
    BY <1>1
  <2> HIDE DEF D, step
  <2>2. f \in [Nat -> D] /\ f[0] = 1 /\ \A n \in Nat : f[n + 1] = step[f[n]]
    BY <1>2, <2>1, RecursiveFunction
  <2> QED
    BY <2>2 DEF D, step
<1>3. \E p : Rec(p)
  <2>1. PICK f : f = [n \in Nat |-> IF n = 0 THEN 1 ELSE step[f[n - 1]]]
    <3> DEFINE D == Nat
    <3>1. 1 \in D /\ step \in [D -> D]
      BY <1>1
    <3> HIDE DEF D, step
    <3> QED
      BY <3>1, RecursiveFunctionExists
  <2>2. f \in [Nat -> Nat] /\ f[0] = 1 /\ \A n \in Nat : f[n + 1] = b * f[n]
    BY <1>2, <2>1
  <2>3. \A k \in Nat : f[k] = IF k = 0 THEN 1 ELSE b * f[k - 1]
    <3> SUFFICES ASSUME NEW k \in Nat, k # 0 PROVE f[k] = b * f[k - 1]
      BY <2>2
    <3>1. k - 1 \in Nat /\ (k - 1) + 1 = k
      OBVIOUS
    <3> QED
      BY <2>2, <3>1
  <2>4. f = [k \in Nat |-> f[k]]
    BY <2>2
  <2>5. f = [k \in Nat |-> IF k = 0 THEN 1 ELSE b * f[k - 1]]
    BY <2>3, <2>4, Zenon
  <2> QED
    BY <2>5
<1> DEFINE p == CHOOSE p : Rec(p)
<1>4. Rec(p)
  <2> HIDE DEF Rec
  <2> QED
    BY <1>3
<1>5. \A n \in Nat : Power(b, n) = p[n]
  BY DEF Power
<1> HIDE DEF p
<1>6. \A k \in Nat : p[k] = IF k = 0 THEN 1 ELSE b * p[k - 1]
  BY <1>4
<1> DEFINE E == {n \in Nat : p[n] \in Nat}
<1>7. 0 \in E
  BY <1>6
<1>8. ASSUME NEW n \in Nat PROVE p[n + 1] = b * p[n]
  <2>1. n + 1 \in Nat /\ n + 1 # 0 /\ (n + 1) - 1 = n
    OBVIOUS
  <2> QED
    BY <1>6, <2>1
<1>9. \A n \in Nat : n \in E
  <2>1. ASSUME NEW n \in Nat, n \in E PROVE n + 1 \in E
    BY <1>8, <2>1
  <2> HIDE DEF E
  <2> QED
    BY <1>7, <2>1, InductionOver
<1> QED
  BY <1>5, <1>6, <1>8, <1>9

LEMMA PowerPositive ==
  ASSUME NEW b \in Nat \ {0}, NEW n \in Nat
  PROVE  Power(b, n) \in Nat \ {0}
<1> DEFINE E == {k \in Nat : Power(b, k) # 0}
<1>1. 0 \in E
  BY PowerSteps
<1>2. ASSUME NEW k \in Nat, k \in E PROVE k + 1 \in E
  <2>1. Power(b, k) \in Nat \ {0} /\ Power(b, k + 1) = b * Power(b, k)
    BY <1>2, PowerSteps
  <2> DEFINE x == Power(b, k)
  <2> HIDE DEF x
  <2>2. x \in Nat \ {0} => b * x # 0
    OBVIOUS
  <2> QED
    BY <2>1, <2>2 DEF x
<1>3. n \in E
  <2> HIDE DEF E
  <2> QED
    BY <1>1, <1>2, InductionOver
<1> QED
  BY <1>3, PowerSteps

LEMMA PowerGrows ==
  ASSUME NEW m \in Nat, NEW n \in Nat
  PROVE  /\ m < n => 2 * Power(2, m) <= Power(2, n)
         /\ m <= n => Power(2, m) <= Power(2, n)
         /\ Power(2, m) < Power(2, n) => m < n
<1>1. \A k \in Nat : Power(2, k) \in Nat \ {0} /\ Power(2, k + 1) = 2 * Power(2, k)
  BY PowerSteps, PowerPositive
<1>2. ASSUME NEW a \in Nat, NEW k \in Nat PROVE Power(2, a) <= Power(2, a + k)
  <2> DEFINE E == {i \in Nat : Power(2, a) <= Power(2, a + i)}
  <2>1. 0 \in E
    BY <1>1
  <2>2. ASSUME NEW i \in Nat, i \in E PROVE i + 1 \in E
    <3>1. a + i \in Nat /\ a + (i + 1) = (a + i) + 1
      OBVIOUS
    <3>2. Power(2, a + (i + 1)) = 2 * Power(2, a + i) /\ Power(2, a + i) \in Nat /\ Power(2, a) \in Nat
      BY <1>1, <3>1
    <3> QED
      BY <2>2, <3>2
  <2>3. k \in E
    <3> HIDE DEF E
    <3> QED
      BY <2>1, <2>2, InductionOver
  <2> QED
    BY <2>3
<1>3. \A a, c \in Nat : a <= c => Power(2, a) <= Power(2, c)
  <2> SUFFICES ASSUME NEW a \in Nat, NEW c \in Nat, a <= c PROVE Power(2, a) <= Power(2, c)
    OBVIOUS
  <2>1. c - a \in Nat /\ a + (c - a) = c
    OBVIOUS
  <2> QED
    BY <1>2, <2>1
<1>4. m < n => 2 * Power(2, m) <= Power(2, n)
  <2> SUFFICES ASSUME m < n PROVE 2 * Power(2, m) <= Power(2, n)
    OBVIOUS
  <2>1. m + 1 \in Nat /\ m + 1 <= n
    OBVIOUS
  <2> QED
    BY <1>1, <1>3, <2>1
<1>5. Power(2, m) < Power(2, n) => m < n
  <2> SUFFICES ASSUME n <= m PROVE Power(2, n) <= Power(2, m)
    BY <1>1
  <2> QED
    BY <1>3
<1> QED
  BY <1>3, <1>4, <1>5

LEMMA PowerOfSum ==
  ASSUME NEW m \in Nat, NEW n \in Nat
  PROVE  Power(2, m + n) = Power(2, m) * Power(2, n)
<1>1. \A k \in Nat : Power(2, k) \in Nat /\ Power(2, k + 1) = 2 * Power(2, k)
  BY PowerSteps
<1> DEFINE E == {k \in Nat : Power(2, m + k) = Power(2, m) * Power(2, k)}
<1>2. 0 \in E
  BY <1>1, PowerSteps
<1>3. ASSUME NEW k \in Nat, k \in E PROVE k + 1 \in E
  <2> DEFINE x == Power(2, m)
             y == Power(2, k)
  <2>1. m + k \in Nat /\ m + (k + 1) = (m + k) + 1
    OBVIOUS
  <2>2. Power(2, m + (k + 1)) = 2 * (x * y) /\ Power(2, k + 1) = 2 * y
    BY <1>1, <1>3, <2>1
  <2>3. x \in Nat /\ y \in Nat
    BY <1>1
  <2> HIDE DEF x, y
  <2>4. 2 * (x * y) = x * (2 * y)
    BY <2>3
  <2> QED
    BY <2>2, <2>4 DEF x
<1>4. n \in E
  <2> HIDE DEF E
  <2> QED
    BY <1>2, <1>3, InductionOver
<1> QED
  BY <1>4

LEMMA Sizes ==
  /\ LiteralBits \in Nat /\ LiteralBits >= 2
  /\ MaxWidth \in Nat /\ LiteralBits + 1 <= MaxWidth /\ MaxWidth <= 2 * LiteralBits
  /\ Octet \in Nat /\ Octet >= 4
  /\ Nibble \in Nat /\ Nibble >= 1
  /\ MaxRun \in Nat /\ MaxRun >= 1 /\ 2 * MaxRun = Octet
  /\ Group \in Nat /\ Group >= 1 /\ Radix \in Nat /\ Radix >= 1
<1>1. /\ LiteralBits \in Nat /\ LiteralBits >= 2 /\ Radix \in Nat /\ Group \in Nat /\ Group >= 1
      /\ MaxWidth \in (LiteralBits + 1)..(2 * LiteralBits) /\ LiteralBits % 2 = 0 /\ Gt < Radix
  BY FormatsAssumption
<1>2. Octet \in Nat /\ Octet >= 4
  <2>1. 2 <= LiteralBits /\ 2 \in Nat /\ Power(2, 2) = 4
    <3>1. 2 = 1 + 1 /\ 1 = 0 + 1 /\ 0 \in Nat /\ 1 \in Nat
      OBVIOUS
    <3> QED
      BY <1>1, <3>1, PowerSteps
  <2> QED
    BY <1>1, <2>1, PowerGrows, PowerSteps DEF Octet
<1>3. Nibble \in Nat /\ Nibble >= 1
  <2>1. LiteralBits \div 2 \in Nat
    BY <1>1
  <2> QED
    BY <2>1, PowerPositive DEF Nibble
<1>4. MaxRun \in Nat /\ MaxRun >= 1 /\ 2 * MaxRun = Octet
  <2>1. LiteralBits - 1 \in Nat /\ (LiteralBits - 1) + 1 = LiteralBits
    BY <1>1
  <2>2. Octet = 2 * Power(2, LiteralBits - 1) /\ Power(2, LiteralBits - 1) \in Nat
    BY <2>1, PowerSteps DEF Octet
  <2> QED
    BY <1>2, <2>2 DEF MaxRun
<1>5. Radix >= 1
  BY <1>1, <1>3 DEF Gt
<1> QED
  BY <1>1, <1>2, <1>3, <1>4, <1>5

LEMMA TwoDigits ==
  ASSUME NEW a \in 0..(Nibble - 1), NEW b \in 0..(Nibble - 1)
  PROVE  (Nibble * a) + b \in Byte
<1> DEFINE h == LiteralBits \div 2
           x == Power(2, h)
<1>1. h \in Nat /\ h + h = LiteralBits
  BY FormatsAssumption
<1>2. Octet = x * x
  <2> HIDE DEF h
  <2> QED
    BY <1>1, PowerOfSum DEF Octet
<1>3. Nibble = x /\ x \in Nat \ {0}
  <2>1. Nibble = x
    BY DEF Nibble
  <2> HIDE DEF h
  <2> QED
    BY <1>1, <2>1, PowerPositive
<1> HIDE DEF x
<1>4. a \in Nat /\ b \in Nat /\ a <= x - 1 /\ b <= x - 1
  BY <1>3
<1>5. x * a <= x * (x - 1) /\ x * (x - 1) = (x * x) - x /\ x * a \in Nat
  BY <1>3, <1>4
<1> QED
  BY <1>2, <1>3, <1>4, <1>5 DEF Byte

(* What a step must be: data for the next one, and states that are as they *)
(* should be, also if that one throws.                                     *)
Good(did) ==
  /\ StageOK(did.s) /\ StageOK(did.during)
  /\ did.emit \in Seq(Byte) /\ did.used \in Nat /\ did.threw \in BOOLEAN

LEMMA IsStage ==
  ASSUME NEW s
  PROVE  (RunOK(s) \/ LZWOK(s) \/ Base85OK(s) \/ HexOK(s) \/ PredictorOK(s) \/ AESOK(s)) <=> StageOK(s)
  BY DEF StageOK

LEMMA Kept == ASSUME NEW s, StageOK(s) PROVE Good(Keep(s)) /\ Good(Throw(s))
  BY DEF Good, Keep, Throw, Did

LEMMA Emitted ==
  ASSUME NEW s, NEW t, StageOK(s), StageOK(t), NEW data \in Seq(Byte), NEW n \in Nat
  PROVE  Good(Did(s, data, t, n)) /\ Good(Emit(s, data))
  BY DEF Good, Emit, Did

-----------------------------------------------------------------------------
(* Run length.                                                             *)

LEMMA RunUpdate ==
  ASSUME NEW s, RunOK(s)
  PROVE  /\ \A l \in 0..MaxRun, st \in {"top", "copying", "run"} :
              (st = "copying" => l > 0) => StageOK([s EXCEPT !.length = l, !.state = st])
         /\ \A l \in 0..MaxRun, st \in {"top", "copying", "run"}, out \in Seq(Byte) :
              (st = "copying" => l > 0) => StageOK([s EXCEPT !.out = out, !.length = l, !.state = st])
         /\ \A out \in Seq(Byte) : StageOK([s EXCEPT !.out = out, !.state = "top"])
<1>1. \A l \in 0..MaxRun, st \in {"top", "copying", "run"} :
        (st = "copying" => l > 0) => RunOK([s EXCEPT !.length = l, !.state = st])
  BY DEF RunOK
<1>2. \A l \in 0..MaxRun, st \in {"top", "copying", "run"}, out \in Seq(Byte) :
        (st = "copying" => l > 0) => RunOK([s EXCEPT !.out = out, !.length = l, !.state = st])
  BY DEF RunOK
<1>3. \A out \in Seq(Byte) : RunOK([s EXCEPT !.out = out, !.state = "top"])
  BY DEF RunOK
<1> QED
  BY <1>1, <1>2, <1>3, IsStage

LEMMA RunGood ==
  ASSUME NEW s, RunOK(s), NEW ch \in Byte
  PROVE  Good(RunDecode(s, ch))
<1>1. /\ s.length \in 0..MaxRun /\ s.state \in {"top", "copying", "run"} /\ s.out \in Seq(Byte)
      /\ s.state = "copying" => s.length > 0
  BY DEF RunOK
<1>2. ch \in Nat /\ ch < Octet /\ MaxRun \in Nat /\ 2 * MaxRun = Octet
  BY Sizes DEF Byte
<1>3. StageOK(s)
  BY IsStage
<1>4. CASE s.state = "top" /\ ch < MaxRun
  <2> DEFINE l == ch + 1
  <2>1. RunDecode(s, ch) = Keep([s EXCEPT !.length = l, !.state = "copying"])
    BY <1>2, <1>4 DEF RunDecode
  <2>2. l \in 0..MaxRun /\ l > 0
    BY <1>2, <1>4
  <2> HIDE DEF l
  <2>3. StageOK([s EXCEPT !.length = l, !.state = "copying"])
    BY <2>2, RunUpdate
  <2> QED
    BY <2>1, <2>3, Kept
<1>5. CASE s.state = "top" /\ ch > MaxRun
  <2> DEFINE l == (2 * MaxRun) + 1 - ch
  <2>1. RunDecode(s, ch) = Keep([s EXCEPT !.length = l, !.state = "run"])
    BY <1>2, <1>5 DEF RunDecode
  <2>2. l \in 0..MaxRun
    BY <1>2, <1>5
  <2> HIDE DEF l
  <2>3. StageOK([s EXCEPT !.length = l, !.state = "run"])
    BY <2>2, RunUpdate
  <2> QED
    BY <2>1, <2>3, Kept
<1>6. CASE s.state = "top" /\ ch = MaxRun
  <2>1. RunDecode(s, ch) = Keep(s)
    BY <1>2, <1>6 DEF RunDecode
  <2> QED
    BY <1>3, <2>1, Kept
<1>7. CASE s.state = "copying"
  <2> DEFINE l == s.length - 1
             st == IF s.length = 1 THEN "top" ELSE s.state
             out == Append(s.out, ch)
  <2>1. RunDecode(s, ch) = Keep([s EXCEPT !.out = out, !.length = l, !.state = st])
    BY <1>7 DEF RunDecode
  <2>2. l \in 0..MaxRun /\ st \in {"top", "copying", "run"} /\ (st = "copying" => l > 0)
    BY <1>1, <1>2, <1>7
  <2>3. out \in Seq(Byte)
    BY <1>1
  <2> HIDE DEF l, st, out
  <2>4. StageOK([s EXCEPT !.out = out, !.length = l, !.state = st])
    BY <2>2, <2>3, RunUpdate
  <2> QED
    BY <2>1, <2>4, Kept
<1>8. CASE s.state = "run"
  <2> DEFINE out == s.out \o [i \in 1..s.length |-> ch]
  <2>1. RunDecode(s, ch) = Keep([s EXCEPT !.out = out, !.state = "top"])
    BY <1>8 DEF RunDecode
  <2>2. out \in Seq(Byte)
    <3>1. [i \in 1..s.length |-> ch] \in Seq(Byte)
      BY <1>1
    <3> QED
      BY <1>1, <3>1
  <2> HIDE DEF out
  <2>3. StageOK([s EXCEPT !.out = out, !.state = "top"])
    BY <2>2, RunUpdate
  <2> QED
    BY <2>1, <2>3, Kept
<1> QED
  BY <1>1, <1>2, <1>4, <1>5, <1>6, <1>7, <1>8

-----------------------------------------------------------------------------
(* Hexadecimal digits.                                                     *)

(* The same as HexOK, before two digits are flushed.                       *)
HexHeld(s) ==
  s \in [kind : {"hex"}, inbuf : [1..2 -> 0..(Nibble - 1)], pos : 0..2, eod : BOOLEAN]

LEMMA HexUpdate ==
  ASSUME NEW s, HexHeld(s)
  PROVE  /\ \A d \in [1..2 -> 0..(Nibble - 1)], p \in 0..1 : HexOK([s EXCEPT !.pos = p, !.inbuf = d])
         /\ \A d \in [1..2 -> 0..(Nibble - 1)], p \in 0..2 : HexHeld([s EXCEPT !.inbuf = d, !.pos = p])
         /\ HexHeld([s EXCEPT !.eod = TRUE])
<1>1. \A d \in [1..2 -> 0..(Nibble - 1)], p \in 0..1 : HexOK([s EXCEPT !.pos = p, !.inbuf = d])
  BY DEF HexOK, HexHeld
<1>2. \A d \in [1..2 -> 0..(Nibble - 1)], p \in 0..2 : HexHeld([s EXCEPT !.inbuf = d, !.pos = p])
  BY DEF HexHeld
<1>3. HexHeld([s EXCEPT !.eod = TRUE])
  BY DEF HexHeld
<1> QED
  BY <1>1, <1>2, <1>3

LEMMA HexSettled == ASSUME NEW s PROVE HexHeld(s) /\ s.pos # 2 <=> HexOK(s)
  BY DEF HexOK, HexHeld

LEMMA FlushHexGood ==
  ASSUME NEW s, HexHeld(s)
  PROVE  Good(FlushHex(s))
<1>1. CASE s.pos = 0
  <2>1. HexOK(s)
    BY <1>1, HexSettled
  <2> QED
    BY <1>1, <2>1, IsStage, Kept DEF FlushHex
<1>2. CASE s.pos # 0
  <2> DEFINE b == (Nibble * s.inbuf[1]) + s.inbuf[2]
             z == <<0, 0>>
             u == [s EXCEPT !.pos = 0, !.inbuf = z]
  <2>1. FlushHex(s) = Emit(u, <<b>>)
    BY <1>2 DEF FlushHex
  <2>2. b \in Byte
    <3>1. s.inbuf[1] \in 0..(Nibble - 1) /\ s.inbuf[2] \in 0..(Nibble - 1)
      BY DEF HexHeld
    <3> QED
      BY <3>1, TwoDigits
  <2>3. z \in [1..2 -> 0..(Nibble - 1)]
    BY Sizes
  <2> HIDE DEF b, z
  <2>4. HexOK(u)
    <3>1. 0 \in 0..1
      OBVIOUS
    <3> QED
      BY <2>3, <3>1, HexUpdate
  <2>5. <<b>> \in Seq(Byte)
    BY <2>2
  <2> HIDE DEF u
  <2> QED
    BY <2>1, <2>4, <2>5, Emitted, IsStage
<1> QED
  BY <1>1, <1>2

LEMMA HexGood ==
  ASSUME NEW s, HexOK(s), NEW ch \in Byte
  PROVE  Good(DecodeHex(s, ch)) /\ Good(FlushHex(s))
<1>1. HexHeld(s) /\ StageOK(s) /\ s.pos \in 0..1 /\ s.inbuf \in [1..2 -> 0..(Nibble - 1)]
  BY HexSettled, IsStage DEF HexOK
<1>2. Good(FlushHex(s)) /\ Good(FlushHex([s EXCEPT !.eod = TRUE]))
  BY <1>1, HexUpdate, FlushHexGood
<1>3. ASSUME ch < Nibble
      PROVE  Good(DigitHex(s, ch))
  <2> DEFINE p == s.pos + 1
             d == [s.inbuf EXCEPT ![s.pos + 1] = ch]
             got == [s EXCEPT !.inbuf = d, !.pos = p]
  <2>1. p \in 0..2 /\ d \in [1..2 -> 0..(Nibble - 1)]
    <3>1. ch \in 0..(Nibble - 1)
      BY <1>3, Sizes DEF Byte
    <3> QED
      BY <1>1, <3>1
  <2>2. DigitHex(s, ch) = IF got.pos = 2 THEN FlushHex(got) ELSE Keep(got)
    BY DEF DigitHex
  <2> HIDE DEF p, d
  <2>3. HexHeld(got)
    BY <1>1, <2>1, HexUpdate
  <2> HIDE DEF got
  <2>4. Good(FlushHex(got)) /\ (got.pos # 2 => StageOK(got))
    BY <2>3, FlushHexGood, HexSettled, IsStage
  <2> QED
    BY <2>2, <2>4, Kept
<1> QED
  BY <1>1, <1>2, <1>3, Kept DEF DecodeHex

-----------------------------------------------------------------------------
(* Base 85.                                                                *)

LEMMA DigitsOfNumber ==
  ASSUME NEW v \in Nat, NEW base \in Nat \ {0}, NEW n \in Nat
  PROVE  ToDigits(v, base, n) \in [1..n -> 0..(base - 1)]
<1> SUFFICES ASSUME NEW i \in 1..n PROVE (v \div Power(base, n - i)) % base \in 0..(base - 1)
  BY DEF ToDigits
<1> DEFINE q == Power(base, n - i)
<1>1. q \in Nat \ {0}
  <2>1. n - i \in Nat
    OBVIOUS
  <2> QED
    BY <2>1, PowerPositive
<1> HIDE DEF q
<1>2. v \div q \in Int
  BY <1>1
<1> DEFINE w == v \div q
<1> HIDE DEF w
<1>3. w % base \in 0..(base - 1)
  BY <1>2 DEF w
<1> QED
  BY <1>3 DEF w, q

LEMMA NumberOfDigits ==
  ASSUME NEW n \in Nat, NEW d \in [1..n -> Nat], NEW base \in Nat
  PROVE  OfDigits(d, base) \in Nat
<1> DEFINE step == [p \in (1..n) \X Nat |-> (p[2] * base) + d[p[1]]]
           Rec(f) == f = [i \in 0..Len(d) |-> IF i = 0 THEN 0 ELSE (f[i - 1] * base) + d[i]]
<1>1. \A i \in 1..n, x \in Nat : step[<<i, x>>] = (x * base) + d[i] /\ step[<<i, x>>] \in Nat
  OBVIOUS
<1>2. Len(d) = n
  OBVIOUS
<1> HIDE DEF step
<1>3. \E f : Rec(f)
  <2> DEFINE D == Nat
  <2>1. 0 \in D /\ \A i \in 1..n, x \in D : step[<<i, x>>] \in D
    BY <1>1
  <2> HIDE DEF D
  <2>2. PICK f : IsRun(f, n, D, 0, step)
    BY <2>1, RecursionTo
  <2>3. f \in [0..n -> Nat] /\ f[0] = 0 /\ \A i \in 1..n : f[i] = step[<<i, f[i - 1]>>]
    BY <2>2 DEF IsRun, D
  <2>4. \A i \in 0..n : f[i] = IF i = 0 THEN 0 ELSE (f[i - 1] * base) + d[i]
    <3> SUFFICES ASSUME NEW i \in 0..n, i # 0 PROVE f[i] = (f[i - 1] * base) + d[i]
      BY <2>3
    <3>1. i \in 1..n /\ f[i - 1] \in Nat
      BY <2>3
    <3> QED
      BY <1>1, <2>3, <3>1
  <2>5. f = [i \in 0..n |-> f[i]]
    BY <2>3
  <2>6. f = [i \in 0..n |-> IF i = 0 THEN 0 ELSE (f[i - 1] * base) + d[i]]
    BY <2>4, <2>5, Zenon
  <2> QED
    BY <1>2, <2>6
<1> DEFINE f == CHOOSE f : Rec(f)
<1>4. Rec(f)
  <2> HIDE DEF Rec
  <2> QED
    BY <1>3
<1>5. OfDigits(d, base) = f[n]
  BY <1>2 DEF OfDigits
<1> HIDE DEF f
<1>6. \A i \in 0..n : f[i] = IF i = 0 THEN 0 ELSE (f[i - 1] * base) + d[i]
  BY <1>2, <1>4
<1> DEFINE E == {i \in Nat : i <= n => f[i] \in Nat}
<1>7. 0 \in E
  BY <1>6
<1>8. ASSUME NEW i \in Nat, i \in E PROVE i + 1 \in E
  <2> SUFFICES ASSUME i + 1 <= n PROVE f[i + 1] \in Nat
    OBVIOUS
  <2>1. i + 1 \in 0..n /\ i + 1 \in 1..n /\ i + 1 # 0 /\ (i + 1) - 1 = i /\ f[i] \in Nat
    BY <1>8
  <2>2. f[i + 1] = (f[i] * base) + d[i + 1]
    BY <1>6, <2>1
  <2> DEFINE x == f[i]
             y == d[i + 1]
  <2>3. x \in Nat /\ y \in Nat
    BY <2>1
  <2> HIDE DEF x, y
  <2>4. (x * base) + y \in Nat
    BY <2>3
  <2> QED
    BY <2>2, <2>4 DEF x, y
<1>9. n \in E
  <2> HIDE DEF E
  <2> QED
    BY <1>7, <1>8, InductionOver
<1> QED
  BY <1>5, <1>9

LEMMA FillIs ==
  ASSUME NEW n \in Nat, NEW x
  PROVE  Fill(<<>>, n, x) = [i \in 1..n |-> x]
  BY DEF Fill

(* The same as Base85OK, before so many digits that they are flushed.      *)
Base85Held(s) ==
  s \in [kind : {"base85"}, inbuf : [1..(Group + 1) -> 0..(Radix - 1)], pos : 0..(Group + 1),
         eod : 0..2, error : BOOLEAN]

LEMMA Base85Settled == ASSUME NEW s PROVE Base85Held(s) /\ s.pos # Group + 1 <=> Base85OK(s)
  BY Sizes DEF Base85OK, Base85Held

LEMMA Base85Update ==
  ASSUME NEW s, Base85Held(s)
  PROVE  /\ \A d \in [1..(Group + 1) -> 0..(Radix - 1)], p \in 0..Group :
              Base85OK([s EXCEPT !.pos = p, !.inbuf = d])
         /\ \A d \in [1..(Group + 1) -> 0..(Radix - 1)], p \in 0..(Group + 1) :
              Base85Held([s EXCEPT !.inbuf = d, !.pos = p])
<1>1. \A d \in [1..(Group + 1) -> 0..(Radix - 1)], p \in 0..Group :
        Base85OK([s EXCEPT !.pos = p, !.inbuf = d])
  BY DEF Base85OK, Base85Held
<1>2. \A d \in [1..(Group + 1) -> 0..(Radix - 1)], p \in 0..(Group + 1) :
        Base85Held([s EXCEPT !.inbuf = d, !.pos = p])
  BY DEF Base85Held
<1> QED
  BY <1>1, <1>2

LEMMA Base85Ends ==
  ASSUME NEW s, Base85OK(s), NEW e \in 0..2
  PROVE  Base85OK([s EXCEPT !.eod = e]) /\ Base85OK([s EXCEPT !.error = TRUE])
  BY DEF Base85OK

LEMMA Flush85Good ==
  ASSUME NEW s, Base85Held(s)
  PROVE  Good(Flush85(s)) /\ Base85OK(Flush85(s).s)
<1>1. CASE s.pos = 0
  <2>1. Base85OK(s)
    BY <1>1, Base85Settled, Sizes
  <2>2. Keep(s).s = s
    BY DEF Keep, Did
  <2> QED
    BY <1>1, <2>1, <2>2, IsStage, Kept DEF Flush85
<1>2. CASE s.pos # 0
  <2> DEFINE p == s.pos - 1
             t == ToDigits(OfDigits(s.inbuf, Radix), Octet, Group)
             e == SubSeq(t, 1, p)
             d == Fill(<<>>, Group + 1, Radix - 1)
             u == [s EXCEPT !.pos = 0, !.inbuf = d]
  <2>1. Flush85(s) = Emit(u, e)
    BY <1>2 DEF Flush85, Decoder85
  <2>2. p \in 0..Group
    BY <1>2, Sizes DEF Base85Held
  <2>3. t \in [1..Group -> Byte]
    <3>1. s.inbuf \in [1..(Group + 1) -> Nat]
      BY Sizes DEF Base85Held
    <3>2. OfDigits(s.inbuf, Radix) \in Nat
      <4> DEFINE n == Group + 1
      <4>1. n \in Nat /\ s.inbuf \in [1..n -> Nat]
        BY <3>1, Sizes
      <4> HIDE DEF n
      <4> QED
        BY <4>1, NumberOfDigits, Sizes
    <3>3. Octet \in Nat \ {0} /\ Group \in Nat
      BY Sizes
    <3> QED
      BY <3>2, <3>3, DigitsOfNumber DEF Byte
  <2>4. d \in [1..(Group + 1) -> 0..(Radix - 1)]
    <3> DEFINE n == Group + 1
    <3>1. n \in Nat /\ Radix - 1 \in 0..(Radix - 1)
      BY Sizes
    <3> HIDE DEF n
    <3>2. Fill(<<>>, n, Radix - 1) = [i \in 1..n |-> Radix - 1]
      BY <3>1, FillIs
    <3> QED
      BY <3>1, <3>2 DEF n
  <2>5. Base85OK(u)
    <3> HIDE DEF d
    <3>1. 0 \in 0..Group
      BY Sizes
    <3> QED
      BY <2>4, <3>1, Base85Update
  <2>6. e \in Seq(Byte)
    <3> HIDE DEF t, p
    <3>1. t \in Seq(Byte) /\ Len(t) = Group
      BY <2>3, Sizes
    <3> QED
      BY <2>2, <3>1, Sizes
  <2> HIDE DEF e, u
  <2>7. Emit(u, e).s = u
    BY DEF Emit, Did
  <2> QED
    BY <2>1, <2>5, <2>6, <2>7, Emitted, IsStage
<1> QED
  BY <1>1, <1>2

LEMMA Last85Good ==
  ASSUME NEW s, Base85OK(s)
  PROVE  Good([Flush85(s) EXCEPT !.s.eod = 2])
<1> DEFINE f == Flush85(s)
           u == f.s
           x == [f EXCEPT !.s.eod = 2]
<1>1. Good(f) /\ Base85OK(u)
  BY Base85Settled, Flush85Good
<1>2. \E a, e : f = Did(a, e, a, 1)
  BY DEF Flush85, Keep, Emit
<1>3. /\ x.s = [u EXCEPT !.eod = 2]
      /\ x.emit = f.emit /\ x.during = f.during /\ x.used = f.used /\ x.threw = f.threw
  <2> HIDE DEF f
  <2>1. PICK a, e : f = Did(a, e, a, 1)
    BY <1>2
  <2> QED
    BY <2>1 DEF Did
<1> HIDE DEF f, u, x
<1>4. StageOK([u EXCEPT !.eod = 2])
  <2>1. 2 \in 0..2
    OBVIOUS
  <2> QED
    BY <1>1, <2>1, Base85Ends, IsStage
<1>5. Good(x)
  BY <1>1, <1>3, <1>4 DEF Good
<1> QED
  BY <1>5 DEF x, f

LEMMA Base85Good ==
  ASSUME NEW s, Base85OK(s), NEW ch \in Byte
  PROVE  Good(Decode85(s, ch)) /\ Good(Flush85(s))
<1>1. /\ Base85Held(s) /\ StageOK(s) /\ s.pos \in 0..Group
      /\ s.inbuf \in [1..(Group + 1) -> 0..(Radix - 1)]
  BY Base85Settled, IsStage DEF Base85OK
<1>2. Good(Flush85(s)) /\ Good([Flush85(s) EXCEPT !.s.eod = 2])
  BY <1>1, Flush85Good, Last85Good
<1>3. Good(Keep(s)) /\ Good(Throw(s)) /\ Good(Keep([s EXCEPT !.eod = 1]))
      /\ Good(Throw([s EXCEPT !.error = TRUE]))
  <2>1. 1 \in 0..2
    OBVIOUS
  <2>2. StageOK([s EXCEPT !.eod = 1]) /\ StageOK([s EXCEPT !.error = TRUE])
    BY <2>1, Base85Ends, IsStage
  <2> QED
    BY <1>1, <2>2, Kept
<1>4. Good(Emit(s, Fill(<<>>, Group, 0)))
  <2>1. Fill(<<>>, Group, 0) = [i \in 1..Group |-> 0]
    BY Sizes, FillIs
  <2>2. [i \in 1..Group |-> 0] \in Seq(Byte)
    BY Sizes DEF Byte
  <2> QED
    BY <1>1, <2>1, <2>2, Emitted
<1>5. ASSUME ch < Radix
      PROVE  Good(Digit85(s, ch))
  <2> DEFINE p == s.pos + 1
             d == [s.inbuf EXCEPT ![s.pos + 1] = ch]
             got == [s EXCEPT !.inbuf = d, !.pos = p]
  <2>1. p \in 0..(Group + 1) /\ d \in [1..(Group + 1) -> 0..(Radix - 1)]
    <3>1. ch \in 0..(Radix - 1)
      BY <1>5, Sizes DEF Byte
    <3>2. p \in 0..(Group + 1)
      BY <1>1, Sizes
    <3> QED
      BY <1>1, <3>1, <3>2
  <2>2. Digit85(s, ch) = IF got.pos = Group + 1 THEN Flush85(got) ELSE Keep(got)
    BY DEF Digit85
  <2> HIDE DEF p, d
  <2>3. Base85Held(got)
    BY <1>1, <2>1, Base85Update
  <2> HIDE DEF got
  <2>4. Good(Flush85(got)) /\ (got.pos # Group + 1 => StageOK(got))
    BY <2>3, Flush85Good, Base85Settled, IsStage
  <2> QED
    BY <2>2, <2>4, Kept
<1> QED
  BY <1>2, <1>3, <1>4, <1>5 DEF Decode85

-----------------------------------------------------------------------------
(* AES.                                                                    *)

LEMMA LeastOfTwo ==
  ASSUME NEW a \in Nat, NEW b \in Nat
  PROVE  Min({a, b}) = IF a <= b THEN a ELSE b
<1> DEFINE m == IF a <= b THEN a ELSE b
<1>1. m \in {a, b} /\ \A y \in {a, b} : m <= y
  OBVIOUS
<1>2. \A x \in {a, b} : (\A y \in {a, b} : x <= y) => x = m
  OBVIOUS
<1> HIDE DEF m
<1>3. (CHOOSE x \in {a, b} : \A y \in {a, b} : x <= y) = m
  BY <1>1, <1>2
<1> QED
  BY <1>3 DEF Min, m

LEMMA BlockFacts ==
  /\ Block \in Nat /\ Block >= 2 /\ Vector \in [1..Block -> Byte]
  /\ Row \in Nat /\ Row >= 1 /\ Pixel \in Nat /\ Pixel >= 1
  BY FiltersAssumption, Sizes

LEMMA AESUpdate ==
  ASSUME NEW s, AESOK(s)
  PROVE  /\ \A b \in Seq(Byte) : Len(b) <= Block => AESOK([s EXCEPT !.inbuf = b])
         /\ \A b \in Seq(Byte), c \in [1..Block -> Byte] :
              Len(b) <= Block => AESOK([s EXCEPT !.inbuf = b, !.first = FALSE, !.cbc = c])
<1>1. \A b \in Seq(Byte) : Len(b) <= Block => AESOK([s EXCEPT !.inbuf = b])
  BY DEF AESOK
<1>2. \A b \in Seq(Byte), c \in [1..Block -> Byte] :
        Len(b) <= Block => AESOK([s EXCEPT !.inbuf = b, !.first = FALSE, !.cbc = c])
  BY DEF AESOK
<1> QED
  BY <1>1, <1>2

LEMMA PlainIsBytes ==
  ASSUME NEW b \in [1..Block -> Byte], NEW c \in [1..Block -> Byte]
  PROVE  /\ Unchained(Decipher(b), c) \in [1..Block -> Byte]
         /\ StripPadding(Unchained(Decipher(b), c)) \in Seq(Byte)
<1> DEFINE p == Unchained(Decipher(b), c)
<1>1. Block \in Nat /\ Octet \in Nat \ {0} /\ Byte = 0..(Octet - 1)
  BY BlockFacts, Sizes DEF Byte
<1>2. Len(b) = Block /\ DOMAIN b = 1..Block
  BY <1>1
<1>3. Decipher(b) = [i \in 1..Block |-> (b[Block + 1 - i] - (3 * (Block + 1 - i))) % Octet]
  BY <1>2 DEF Decipher
<1>4. Decipher(b) \in [1..Block -> Byte]
  <2> SUFFICES ASSUME NEW i \in 1..Block
               PROVE  (b[Block + 1 - i] - (3 * (Block + 1 - i))) % Octet \in Byte
    BY <1>3
  <2>1. Block + 1 - i \in 1..Block
    BY <1>1
  <2>2. b[Block + 1 - i] \in Int
    BY <1>1, <2>1
  <2> QED
    BY <1>1, <2>1, <2>2
<1>5. p \in [1..Block -> Byte]
  <2> DEFINE e == Decipher(b)
  <2> HIDE DEF e
  <2>1. e \in [1..Block -> Byte]
    BY <1>4 DEF e
  <2>2. Unchained(e, c) = [i \in 1..Block |-> (e[i] - c[i]) % Octet]
    BY <2>1 DEF Unchained
  <2>3. \A i \in 1..Block : (e[i] - c[i]) % Octet \in Byte
    <3> SUFFICES ASSUME NEW i \in 1..Block PROVE (e[i] - c[i]) % Octet \in Byte
      OBVIOUS
    <3>1. e[i] \in Int /\ c[i] \in Int
      BY <1>1, <2>1
    <3> DEFINE x == e[i] - c[i]
    <3>2. x \in Int
      BY <3>1
    <3> HIDE DEF x
    <3>3. x % Octet \in 0..(Octet - 1)
      BY <1>1, <3>2
    <3> QED
      BY <1>1, <3>3 DEF x
  <2> QED
    BY <2>2, <2>3 DEF e
<1> HIDE DEF p
<1>6. StripPadding(p) \in Seq(Byte)
  <2>1. p \in Seq(Byte) /\ Len(p) = Block
    BY <1>1, <1>5
  <2>2. p[Block] \in Nat
    BY <1>1, <1>5, BlockFacts
  <2>3. \A n \in 0..Block : SubSeq(p, 1, n) \in Seq(Byte)
    BY <1>1, <2>1
  <2>4. p[Block] <= Block => Block - p[Block] \in 0..Block
    BY <1>1, <2>2
  <2> QED
    BY <2>1, <2>3, <2>4 DEF StripPadding
<1> QED
  BY <1>5, <1>6 DEF p

(* Only a whole block is flushed.                                          *)
LEMMA FlushAESGood ==
  ASSUME NEW s, AESOK(s), Len(s.inbuf) = Block, NEW strip \in BOOLEAN
  PROVE  /\ Good(FlushAES(s, strip))
         /\ \E t, e : FlushAES(s, strip) = Did(t, e, t, 1)
<1>1. s.inbuf \in Seq(Byte) /\ s.first \in BOOLEAN /\ s.encrypt = FALSE /\ s.cbc \in [1..Block -> Byte]
  BY DEF AESOK
<1>2. s.inbuf \in [1..Block -> Byte]
  BY <1>1
<1> DEFINE none == <<>>
           t == [s EXCEPT !.inbuf = none, !.first = FALSE, !.cbc = s.inbuf]
           plain == Unchained(Decipher(s.inbuf), s.cbc)
           e == IF strip THEN StripPadding(plain) ELSE plain
<1>3. none \in Seq(Byte) /\ Len(none) <= Block
  BY BlockFacts
<1>4. FlushAES(s, strip) = IF s.first THEN Keep(t) ELSE Emit(t, e)
  BY <1>1 DEF FlushAES
<1>5. e \in Seq(Byte)
  BY <1>1, <1>2, PlainIsBytes, BlockFacts
<1> HIDE DEF none, e
<1>6. AESOK(t)
  BY <1>2, <1>3, AESUpdate
<1> HIDE DEF t
<1>7. Good(Keep(t)) /\ Good(Emit(t, e))
  BY <1>5, <1>6, Kept, Emitted, IsStage
<1> QED
  BY <1>4, <1>7 DEF Keep, Emit

(* What is changed of a step that has been seen to be good.                *)
LEMMA UsedGood ==
  ASSUME NEW did, Good(did), \E s, t, e : did = Did(s, e, t, 1), NEW n \in Nat
  PROVE  Good([did EXCEPT !.used = n])
<1>1. PICK s, t, e : did = Did(s, e, t, 1)
  OBVIOUS
<1> DEFINE x == [did EXCEPT !.used = n]
<1>2. x.s = did.s /\ x.during = did.during /\ x.emit = did.emit /\ x.used = n /\ x.threw = did.threw
  BY <1>1 DEF Did
<1> HIDE DEF x
<1>3. Good(x)
  BY <1>2 DEF Good
<1> QED
  BY <1>3 DEF x

LEMMA EmitGood ==
  ASSUME NEW did, Good(did), \E s, t, e : did = Did(s, e, t, 1), NEW data \in Seq(Byte)
  PROVE  Good([did EXCEPT !.emit = data])
<1>1. PICK s, t, e : did = Did(s, e, t, 1)
  OBVIOUS
<1> DEFINE x == [did EXCEPT !.emit = data]
<1>2. x.s = did.s /\ x.during = did.during /\ x.emit = data /\ x.used = did.used /\ x.threw = did.threw
  BY <1>1 DEF Did
<1> HIDE DEF x
<1>3. Good(x)
  BY <1>2 DEF Good
<1> QED
  BY <1>3 DEF x

LEMMA AESWriteGood ==
  ASSUME NEW s, AESOK(s), NEW data \in Seq(Byte), data # <<>>
  PROVE  Good(AESWrite(s, data))
<1> DEFINE n == Min({Block - Len(s.inbuf), Len(data)})
<1>1. s.inbuf \in Seq(Byte) /\ Len(s.inbuf) \in 0..Block /\ Len(data) \in Nat \ {0} /\ Block \in Nat
  BY BlockFacts DEF AESOK
<1>2. /\ n \in Nat /\ n <= Len(data) /\ Len(s.inbuf) + n <= Block
      /\ n = 0 => Len(s.inbuf) = Block
  <2>1. Block - Len(s.inbuf) \in Nat /\ Len(data) \in Nat
    BY <1>1
  <2>2. n = IF Block - Len(s.inbuf) <= Len(data) THEN Block - Len(s.inbuf) ELSE Len(data)
    BY <2>1, LeastOfTwo
  <2> DEFINE l == Len(s.inbuf)
             k == Len(data)
  <2>3. l \in Nat /\ l <= Block /\ k \in Nat /\ k # 0 /\ Block \in Nat
    BY <1>1
  <2>4. n = IF Block - l <= k THEN Block - l ELSE k
    BY <2>2
  <2> HIDE DEF n, l, k
  <2>5. n \in Nat /\ n <= k /\ l + n <= Block /\ (n = 0 => l = Block)
    BY <2>3, <2>4
  <2> QED
    BY <2>5 DEF l, k
<1> HIDE DEF n
<1>3. CASE n = 0
  <2>1. AESWrite(s, data) = [FlushAES(s, FALSE) EXCEPT !.used = 0]
    BY <1>3 DEF AESWrite, n
  <2>2. Good(FlushAES(s, FALSE)) /\ \E t, e : FlushAES(s, FALSE) = Did(t, e, t, 1)
    BY <1>2, <1>3, FlushAESGood
  <2> DEFINE f == FlushAES(s, FALSE)
  <2> HIDE DEF f
  <2>3. Good([f EXCEPT !.used = 0])
    <3>1. Good(f) /\ (\E u, t, e : f = Did(u, e, t, 1)) /\ 0 \in Nat
      BY <2>2 DEF f
    <3> QED
      BY <3>1, UsedGood
  <2> QED
    BY <2>1, <2>3 DEF f
<1>4. CASE n # 0
  <2> DEFINE b == s.inbuf \o SubSeq(data, 1, n)
             t == [s EXCEPT !.inbuf = b]
  <2>1. AESWrite(s, data) = [Keep(t) EXCEPT !.used = n]
    BY <1>4 DEF AESWrite, n
  <2>2. b \in Seq(Byte) /\ Len(b) <= Block
    <3>1. SubSeq(data, 1, n) \in Seq(Byte) /\ Len(SubSeq(data, 1, n)) = n
      BY <1>1, <1>2
    <3> DEFINE c == SubSeq(data, 1, n)
    <3> HIDE DEF c
    <3>2. s.inbuf \o c \in Seq(Byte) /\ Len(s.inbuf \o c) = Len(s.inbuf) + n
      BY <1>1, <3>1 DEF c
    <3> QED
      BY <1>1, <1>2, <3>2 DEF c
  <2> HIDE DEF b
  <2>3. StageOK(t)
    BY <2>2, AESUpdate, IsStage
  <2> HIDE DEF t
  <2>4. Good(Keep(t)) /\ \E u, v, e : Keep(t) = Did(u, e, v, 1)
    BY <2>3, Kept DEF Keep
  <2> QED
    BY <1>2, <2>1, <2>4, UsedGood
<1> QED
  BY <1>3, <1>4

LEMMA AESFinishGood ==
  ASSUME NEW s, AESOK(s)
  PROVE  Good(AESFinish(s))
<1>1. s.inbuf \in Seq(Byte) /\ Len(s.inbuf) <= Block /\ s.encrypt = FALSE /\ Block \in Nat
  BY BlockFacts DEF AESOK
<1> DEFINE none == <<>>
           full == Emit(s, none)
           b == Fill(s.inbuf, Block, 0)
           t == [s EXCEPT !.inbuf = b]
           last == FlushAES(t, TRUE)
<1>2. full.s = s /\ full.emit = none
  BY DEF Emit, Did
<1>3. b \in Seq(Byte) /\ Len(b) = Block
  <2>1. b = [i \in 1..Block |-> IF i <= Len(s.inbuf) THEN s.inbuf[i] ELSE 0]
    BY DEF Fill
  <2>2. \A i \in 1..Block : (IF i <= Len(s.inbuf) THEN s.inbuf[i] ELSE 0) \in Byte
    BY <1>1, Sizes DEF Byte
  <2> HIDE DEF b
  <2> QED
    BY <1>1, <2>1, <2>2
<1>4. AESFinish(s) = [last EXCEPT !.emit = none \o last.emit]
  <2>1. AESFinish(s) = [FlushAES([full.s EXCEPT !.inbuf = Fill(full.s.inbuf, Block, 0)], TRUE)
                          EXCEPT !.emit = full.emit \o @]
    BY <1>1 DEF AESFinish
  <2> HIDE DEF full
  <2> QED
    BY <1>2, <2>1
<1> HIDE DEF b
<1>5. AESOK(t) /\ Len(t.inbuf) = Block
  <2>1. t.inbuf = b
    BY DEF AESOK
  <2>2. Len(b) <= Block
    BY <1>1, <1>3
  <2>3. AESOK(t)
    BY <1>3, <2>2, AESUpdate
  <2> QED
    BY <1>3, <2>1, <2>3
<1> HIDE DEF t
<1>6. Good(last) /\ \E u, e : last = Did(u, e, u, 1)
  BY <1>5, FlushAESGood
<1> HIDE DEF last
<1>7. none \o last.emit \in Seq(Byte)
  <2>1. last.emit \in Seq(Byte)
    BY <1>6 DEF Good
  <2> QED
    BY <2>1
<1> HIDE DEF none
<1> QED
  BY <1>4, <1>6, <1>7, EmitGood

-----------------------------------------------------------------------------
(* The predictors.  A row is made byte by byte, each from those before.    *)

LEMMA RowExists ==
  ASSUME NEW m \in Nat, NEW next \in [(1..m) \X Seq(Byte) -> Byte]
  PROVE  \E f : /\ f = [i \in 0..m |-> IF i = 0 THEN <<>> ELSE Append(f[i - 1], next[<<i, f[i - 1]>>])]
                /\ \A i \in 0..m : f[i] \in Seq(Byte) /\ Len(f[i]) = i
<1> DEFINE D == Seq(Byte)
           none == <<>>
           step == [p \in (1..m) \X D |-> Append(p[2], next[p])]
<1>1. \A i \in 1..m, b \in D :
        /\ step[<<i, b>>] = Append(b, next[<<i, b>>])
        /\ step[<<i, b>>] \in D /\ Len(step[<<i, b>>]) = Len(b) + 1
  OBVIOUS
<1>2. none \in D /\ Len(none) = 0
  OBVIOUS
<1> HIDE DEF step, none, D
<1>3. PICK f : IsRun(f, m, D, none, step)
  BY <1>1, <1>2, RecursionTo
<1>4. f \in [0..m -> D] /\ f[0] = none /\ \A i \in 1..m : f[i] = step[<<i, f[i - 1]>>]
  BY <1>3 DEF IsRun
<1>5. \A i \in 1..m : i - 1 \in 0..m /\ f[i - 1] \in D
  BY <1>4
<1>6. \A i \in 0..m : f[i] = IF i = 0 THEN none ELSE Append(f[i - 1], next[<<i, f[i - 1]>>])
  <2> SUFFICES ASSUME NEW i \in 0..m, i # 0 PROVE f[i] = Append(f[i - 1], next[<<i, f[i - 1]>>])
    BY <1>4
  <2>1. i \in 1..m
    OBVIOUS
  <2> QED
    BY <1>1, <1>4, <1>5, <2>1
<1>7. f = [i \in 0..m |-> IF i = 0 THEN none ELSE Append(f[i - 1], next[<<i, f[i - 1]>>])]
  <2>1. f = [i \in 0..m |-> f[i]]
    BY <1>4
  <2> QED
    BY <1>6, <2>1, Zenon
<1> DEFINE E == {i \in Nat : i <= m => Len(f[i]) = i}
<1>8. 0 \in E
  BY <1>2, <1>4
<1>9. ASSUME NEW i \in Nat, i \in E PROVE i + 1 \in E
  <2> SUFFICES ASSUME i + 1 <= m PROVE Len(f[i + 1]) = i + 1
    OBVIOUS
  <2>1. i + 1 \in 1..m /\ (i + 1) - 1 = i /\ Len(f[i]) = i
    BY <1>9
  <2>2. f[i + 1] = step[<<i + 1, f[i]>>] /\ f[i] \in D
    BY <1>4, <1>5, <2>1
  <2> QED
    BY <1>1, <2>1, <2>2
<1>10. \A i \in Nat : i \in E
  <2> HIDE DEF E
  <2> QED
    BY <1>8, <1>9, InductionOver
<1>11. \A i \in 0..m : f[i] \in D /\ Len(f[i]) = i
  BY <1>4, <1>10
<1> QED
  BY <1>7, <1>11 DEF D, none

IsRow(g, m, next) ==
  /\ next \in [(1..m) \X Seq(Byte) -> Byte]
  /\ g[0] = <<>>
  /\ \A i \in 1..m : g[i - 1] \in Seq(Byte) /\ Len(g[i - 1]) = i - 1
                       => g[i] = Append(g[i - 1], next[<<i, g[i - 1]>>])

LEMMA RowIsBytes ==
  ASSUME NEW m \in Nat, NEW next, NEW g, IsRow(g, m, next)
  PROVE  g[m] \in Seq(Byte) /\ Len(g[m]) = m
<1> DEFINE E == {i \in Nat : i <= m => g[i] \in Seq(Byte) /\ Len(g[i]) = i}
<1>1. 0 \in E
  <2> DEFINE none == <<>>
  <2>1. none \in Seq(Byte) /\ Len(none) = 0 /\ g[0] = none
    BY DEF IsRow
  <2> HIDE DEF none
  <2> QED
    BY <2>1
<1>2. ASSUME NEW i \in Nat, i \in E PROVE i + 1 \in E
  <2> SUFFICES ASSUME i + 1 <= m PROVE g[i + 1] \in Seq(Byte) /\ Len(g[i + 1]) = i + 1
    OBVIOUS
  <2> DEFINE b == g[i]
             x == next[<<i + 1, b>>]
  <2>1. i + 1 \in 1..m /\ (i + 1) - 1 = i /\ b \in Seq(Byte) /\ Len(b) = i
    BY <1>2
  <2>2. g[i + 1] = Append(b, x)
    BY <2>1 DEF IsRow
  <2>3. x \in Byte
    BY <2>1 DEF IsRow
  <2> HIDE DEF b, x
  <2>4. Append(b, x) \in Seq(Byte) /\ Len(Append(b, x)) = i + 1
    BY <2>1, <2>3
  <2> QED
    BY <2>2, <2>4
<1>3. m \in E
  <2> HIDE DEF E
  <2> QED
    BY <1>1, <1>2, InductionOver
<1> QED
  BY <1>3

LEMMA DecodeRowFacts ==
  ASSUME NEW row \in [1..(Row + 1) -> Byte], NEW prev \in [1..(Row + 1) -> Byte]
  PROVE  DecodeRow(row, prev) \in Seq(Byte) /\ Len(DecodeRow(row, prev)) = Row
<1> DEFINE back(b, i) == IF i > Pixel THEN b[i - Pixel] ELSE 0
           above == Tail(prev)
           guess(b, i) ==
             CASE row[1] = 1 -> back(b, i)
               [] row[1] = 2 -> above[i]
               [] row[1] = 3 -> (back(b, i) + above[i]) \div 2
               [] row[1] = 4 -> Paeth(back(b, i), above[i], back(above, i))
               [] OTHER -> 0
           new(b, i) == Wrap(row[i + 1] + guess(b, i))
           Rec(f) == f = [i \in 0..Row |-> IF i = 0 THEN <<>> ELSE Append(f[i - 1], new(f[i - 1], i))]
<1>1. Row \in Nat /\ Row >= 1 /\ Pixel \in Nat /\ Pixel >= 1 /\ Octet \in Nat \ {0}
      /\ Byte = 0..(Octet - 1)
  BY BlockFacts, Sizes DEF Byte
<1>2. ASSUME NEW i \in 1..Row, NEW b \in Seq(Byte), Len(b) = i - 1 PROVE new(b, i) \in Byte
  <2>1. above \in [1..Row -> Byte]
    <3>1. prev \in Seq(Byte) /\ Len(prev) = Row + 1 /\ prev # <<>>
      BY <1>1
    <3>2. above \in Seq(Byte) /\ Len(above) = Row
      BY <1>1, <3>1
    <3>3. Row \in Nat
      BY <1>1
    <3> HIDE DEF above
    <3> QED
      BY <3>2, <3>3
  <2>2. above[i] \in Int /\ row[i + 1] \in Int
    <3>1. i + 1 \in 1..(Row + 1)
      BY <1>1
    <3> HIDE DEF above
    <3> QED
      BY <1>1, <2>1, <3>1
  <2>3. back(b, i) \in Int
    <3>1. i > Pixel => i - Pixel \in 1..Len(b)
      BY <1>1, <1>2
    <3> QED
      BY <1>1, <3>1
  <2>4. back(above, i) \in Int
    <3>1. i > Pixel => i - Pixel \in 1..Row
      BY <1>1
    <3> HIDE DEF above
    <3> QED
      BY <1>1, <2>1, <3>1
  <2> DEFINE x == back(b, i)
             y == above[i]
             z == back(above, i)
  <2>5. Paeth(x, y, z) \in {x, y, z}
    BY DEF Paeth
  <2> HIDE DEF x, y, z
  <2>6. (x + y) \div 2 \in Int
    <3>1. x \in Int /\ y \in Int
      BY <2>2, <2>3 DEF x, y
    <3> QED
      BY <3>1
  <2>7. guess(b, i) = CASE row[1] = 1 -> x
                        [] row[1] = 2 -> y
                        [] row[1] = 3 -> (x + y) \div 2
                        [] row[1] = 4 -> Paeth(x, y, z)
                        [] OTHER -> 0
    BY DEF x, y, z
  <2> HIDE DEF guess
  <2>8. guess(b, i) \in Int
    <3>1. x \in Int /\ y \in Int /\ z \in Int
      BY <2>2, <2>3, <2>4 DEF x, y, z
    <3>2. Paeth(x, y, z) \in Int
      BY <2>5, <3>1
    <3> QED
      BY <2>6, <2>7, <3>1, <3>2
  <2> DEFINE v == row[i + 1] + guess(b, i)
  <2>9. v \in Int
    BY <2>2, <2>8
  <2> HIDE DEF v
  <2>10. v % Octet \in 0..(Octet - 1)
    BY <1>1, <2>9
  <2> QED
    BY <1>1, <2>10 DEF v, Wrap
<1> HIDE DEF new
<1> DEFINE next == [p \in (1..Row) \X Seq(Byte) |-> IF Len(p[2]) = p[1] - 1 THEN new(p[2], p[1]) ELSE 0]
<1>3. next \in [(1..Row) \X Seq(Byte) -> Byte]
  <2> SUFFICES ASSUME NEW p \in (1..Row) \X Seq(Byte)
               PROVE  (IF Len(p[2]) = p[1] - 1 THEN new(p[2], p[1]) ELSE 0) \in Byte
    OBVIOUS
  <2>1. p[1] \in 1..Row /\ p[2] \in Seq(Byte) /\ 0 \in Byte
    BY <1>1
  <2> QED
    BY <1>2, <2>1
<1>4. \A i \in 1..Row, b \in Seq(Byte) : Len(b) = i - 1 => next[<<i, b>>] = new(b, i)
  <2> SUFFICES ASSUME NEW i \in 1..Row, NEW b \in Seq(Byte), Len(b) = i - 1
               PROVE  next[<<i, b>>] = new(b, i)
    OBVIOUS
  <2> DEFINE p == <<i, b>>
  <2>1. p \in (1..Row) \X Seq(Byte) /\ p[1] = i /\ p[2] = b
    OBVIOUS
  <2> HIDE DEF p
  <2>2. next[p] = new(b, i)
    BY <2>1
  <2> QED
    BY <2>2 DEF p
<1> HIDE DEF next
<1>5. PICK f : /\ f = [i \in 0..Row |-> IF i = 0 THEN <<>> ELSE Append(f[i - 1], next[<<i, f[i - 1]>>])]
               /\ \A i \in 0..Row : f[i] \in Seq(Byte) /\ Len(f[i]) = i
  <2>1. Row \in Nat
    BY <1>1
  <2> QED
    BY <1>3, <2>1, RowExists, Zenon
<1>6. \A i \in 0..Row : f[i] = IF i = 0 THEN <<>> ELSE Append(f[i - 1], new(f[i - 1], i))
  <2> SUFFICES ASSUME NEW i \in 0..Row PROVE f[i] = IF i = 0 THEN <<>> ELSE Append(f[i - 1], new(f[i - 1], i))
    OBVIOUS
  <2>1. f[i] = IF i = 0 THEN <<>> ELSE Append(f[i - 1], next[<<i, f[i - 1]>>])
    BY <1>5, Zenon
  <2>2. i # 0 => i \in 1..Row /\ i - 1 \in 0..Row
    BY <1>1
  <2>3. i # 0 => next[<<i, f[i - 1]>>] = new(f[i - 1], i)
    BY <1>4, <1>5, <2>2
  <2> QED
    BY <2>1, <2>3, Zenon
<1>7. Rec(f)
  <2>1. f = [i \in 0..Row |-> f[i]]
    BY <1>5
  <2> QED
    BY <1>6, <2>1, Zenon
<1> DEFINE g == CHOOSE g : Rec(g)
<1>8. Rec(g)
  <2> HIDE DEF Rec
  <2> QED
    BY <1>7
<1>9. DecodeRow(row, prev) = g[Row]
  BY DEF DecodeRow, new
<1> HIDE DEF g
<1>10. \A i \in 0..Row : g[i] = IF i = 0 THEN <<>> ELSE Append(g[i - 1], new(g[i - 1], i))
  BY <1>8, Zenon
<1>11. g[0] = <<>>
  BY <1>1, <1>10
<1>12. ASSUME NEW i \in 1..Row, g[i - 1] \in Seq(Byte), Len(g[i - 1]) = i - 1
       PROVE  g[i] = Append(g[i - 1], next[<<i, g[i - 1]>>])
  <2>1. i \in 0..Row /\ i # 0
    BY <1>1
  <2>2. next[<<i, g[i - 1]>>] = new(g[i - 1], i)
    BY <1>4, <1>12
  <2> QED
    BY <1>10, <2>1, <2>2
<1>13. IsRow(g, Row, next)
  BY <1>3, <1>11, <1>12 DEF IsRow
<1> QED
  BY <1>1, <1>9, <1>13, RowIsBytes

LEMMA TIFFRowFacts ==
  ASSUME NEW row \in [1..(Row + 1) -> Byte]
  PROVE  TIFFRow(row, FALSE) \in Seq(Byte) /\ Len(TIFFRow(row, FALSE)) = Row
<1> DEFINE new(b, i) == IF i <= Pixel THEN row[i]
                        ELSE IF FALSE THEN Wrap(row[i] - row[i - Pixel]) ELSE Wrap(row[i] + b[i - Pixel])
           Rec(f) == f = [i \in 0..Row |-> IF i = 0 THEN <<>> ELSE Append(f[i - 1], new(f[i - 1], i))]
<1>1. Row \in Nat /\ Row >= 1 /\ Pixel \in Nat /\ Pixel >= 1 /\ Octet \in Nat \ {0}
      /\ Byte = 0..(Octet - 1)
  BY BlockFacts, Sizes DEF Byte
<1>2. ASSUME NEW i \in 1..Row, NEW b \in Seq(Byte), Len(b) = i - 1 PROVE new(b, i) \in Byte
  <2>1. row[i] \in Byte
    BY <1>1
  <2>2. CASE i > Pixel
    <3>1. i - Pixel \in 1..Len(b)
      BY <1>1, <1>2, <2>2
    <3> DEFINE v == row[i] + b[i - Pixel]
    <3>2. v \in Int
      BY <1>1, <2>1, <3>1
    <3>3. new(b, i) = v % Octet
      BY <1>1, <2>2 DEF Wrap
    <3> HIDE DEF v, new
    <3>4. v % Octet \in 0..(Octet - 1)
      BY <1>1, <3>2
    <3> QED
      BY <1>1, <3>3, <3>4
  <2> QED
    BY <1>1, <2>1, <2>2
<1> HIDE DEF new
<1> DEFINE next == [p \in (1..Row) \X Seq(Byte) |-> IF Len(p[2]) = p[1] - 1 THEN new(p[2], p[1]) ELSE 0]
<1>3. next \in [(1..Row) \X Seq(Byte) -> Byte]
  <2> SUFFICES ASSUME NEW p \in (1..Row) \X Seq(Byte)
               PROVE  (IF Len(p[2]) = p[1] - 1 THEN new(p[2], p[1]) ELSE 0) \in Byte
    OBVIOUS
  <2>1. p[1] \in 1..Row /\ p[2] \in Seq(Byte) /\ 0 \in Byte
    BY <1>1
  <2> QED
    BY <1>2, <2>1
<1>4. \A i \in 1..Row, b \in Seq(Byte) : Len(b) = i - 1 => next[<<i, b>>] = new(b, i)
  <2> SUFFICES ASSUME NEW i \in 1..Row, NEW b \in Seq(Byte), Len(b) = i - 1
               PROVE  next[<<i, b>>] = new(b, i)
    OBVIOUS
  <2> DEFINE p == <<i, b>>
  <2>1. p \in (1..Row) \X Seq(Byte) /\ p[1] = i /\ p[2] = b
    OBVIOUS
  <2> HIDE DEF p
  <2>2. next[p] = new(b, i)
    BY <2>1
  <2> QED
    BY <2>2 DEF p
<1> HIDE DEF next
<1>5. PICK f : /\ f = [i \in 0..Row |-> IF i = 0 THEN <<>> ELSE Append(f[i - 1], next[<<i, f[i - 1]>>])]
               /\ \A i \in 0..Row : f[i] \in Seq(Byte) /\ Len(f[i]) = i
  <2>1. Row \in Nat
    BY <1>1
  <2> QED
    BY <1>3, <2>1, RowExists, Zenon
<1>6. \A i \in 0..Row : f[i] = IF i = 0 THEN <<>> ELSE Append(f[i - 1], new(f[i - 1], i))
  <2> SUFFICES ASSUME NEW i \in 0..Row PROVE f[i] = IF i = 0 THEN <<>> ELSE Append(f[i - 1], new(f[i - 1], i))
    OBVIOUS
  <2>1. f[i] = IF i = 0 THEN <<>> ELSE Append(f[i - 1], next[<<i, f[i - 1]>>])
    BY <1>5, Zenon
  <2>2. i # 0 => i \in 1..Row /\ i - 1 \in 0..Row
    BY <1>1
  <2>3. i # 0 => next[<<i, f[i - 1]>>] = new(f[i - 1], i)
    BY <1>4, <1>5, <2>2
  <2> QED
    BY <2>1, <2>3, Zenon
<1>7. Rec(f)
  <2>1. f = [i \in 0..Row |-> f[i]]
    BY <1>5
  <2> QED
    BY <1>6, <2>1, Zenon
<1> DEFINE g == CHOOSE g : Rec(g)
<1>8. Rec(g)
  <2> HIDE DEF Rec
  <2> QED
    BY <1>7
<1>9. TIFFRow(row, FALSE) = g[Row]
  BY DEF TIFFRow, new
<1> HIDE DEF g
<1>10. \A i \in 0..Row : g[i] = IF i = 0 THEN <<>> ELSE Append(g[i - 1], new(g[i - 1], i))
  BY <1>8, Zenon
<1>11. g[0] = <<>>
  BY <1>1, <1>10
<1>12. ASSUME NEW i \in 1..Row, g[i - 1] \in Seq(Byte), Len(g[i - 1]) = i - 1
       PROVE  g[i] = Append(g[i - 1], next[<<i, g[i - 1]>>])
  <2>1. i \in 0..Row /\ i # 0
    BY <1>1
  <2>2. next[<<i, g[i - 1]>>] = new(g[i - 1], i)
    BY <1>4, <1>12
  <2> QED
    BY <1>10, <2>1, <2>2
<1>13. IsRow(g, Row, next)
  BY <1>3, <1>11, <1>12 DEF IsRow
<1> QED
  BY <1>1, <1>9, <1>13, RowIsBytes

LEMMA PredictorUpdate ==
  ASSUME NEW s, PredictorOK(s)
  PROVE  /\ \A r, v \in [1..(Row + 1) -> Byte], n \in 0..Row :
              PredictorOK([s EXCEPT !.prev = v, !.row = r, !.pos = n])
         /\ \A r \in [1..(Row + 1) -> Byte] : PredictorOK([s EXCEPT !.row = r])
         /\ \A n \in 0..Row : PredictorOK([s EXCEPT !.pos = n])
<1>1. \A r, v \in [1..(Row + 1) -> Byte], n \in 0..Row :
        PredictorOK([s EXCEPT !.prev = v, !.row = r, !.pos = n])
  BY DEF PredictorOK
<1>2. \A r \in [1..(Row + 1) -> Byte] : PredictorOK([s EXCEPT !.row = r])
  BY DEF PredictorOK
<1>3. \A n \in 0..Row : PredictorOK([s EXCEPT !.pos = n])
  BY DEF PredictorOK
<1> QED
  BY <1>1, <1>2, <1>3

LEMMA ProcessRowGood ==
  ASSUME NEW s, PredictorOK(s)
  PROVE  /\ Good(ProcessRow(s)) /\ PredictorOK(ProcessRow(s).during)
         /\ \E t, e, d : ProcessRow(s) = Did(t, e, d, 0)
<1>1. /\ s.row \in [1..(Row + 1) -> Byte] /\ s.prev \in [1..(Row + 1) -> Byte] /\ s.encode = FALSE
      /\ s.kind \in {"png", "tiff"}
  BY DEF PredictorOK
<1> DEFINE out == IF s.kind = "tiff" THEN TIFFRow(s.row, FALSE) ELSE DecodeRow(s.row, s.prev)
           r == <<s.row[1]>> \o out
           during == IF s.kind = "png" THEN [s EXCEPT !.row = r] ELSE s
           v == during.row
           z == Fill(<<>>, Row + 1, 0)
           t == [during EXCEPT !.prev = v, !.row = z, !.pos = 0]
<1>2. ProcessRow(s) = Did(t, out, during, 0)
  BY <1>1 DEF ProcessRow, SendRow
<1>3. out \in Seq(Byte) /\ Len(out) = Row
  BY <1>1, DecodeRowFacts, TIFFRowFacts
<1> HIDE DEF out
<1>4. r \in [1..(Row + 1) -> Byte]
  <2>1. s.row[1] \in Byte /\ Row \in Nat
    BY <1>1, BlockFacts
  <2> DEFINE b == s.row[1]
  <2> HIDE DEF b
  <2>2. <<b>> \in Seq(Byte) /\ Len(<<b>>) = 1
    BY <2>1 DEF b
  <2> DEFINE c == <<b>>
  <2> HIDE DEF c
  <2>3. c \o out \in Seq(Byte) /\ Len(c \o out) = Row + 1
    BY <1>3, <2>1, <2>2 DEF c
  <2> DEFINE e == c \o out
  <2>4. e \in Seq(Byte) /\ Len(e) = Row + 1
    BY <2>3
  <2> HIDE DEF e
  <2>5. e \in [1..(Row + 1) -> Byte]
    BY <2>1, <2>4
  <2> QED
    BY <2>5 DEF e, c, b
<1> HIDE DEF r
<1>5. PredictorOK(during)
  BY <1>4, PredictorUpdate
<1> HIDE DEF during
<1>6. v \in [1..(Row + 1) -> Byte]
  BY <1>5 DEF PredictorOK
<1>7. z \in [1..(Row + 1) -> Byte]
  <2> DEFINE n == Row + 1
  <2>1. n \in Nat /\ 0 \in Byte
    BY BlockFacts, Sizes DEF Byte
  <2> HIDE DEF n
  <2>2. Fill(<<>>, n, 0) = [i \in 1..n |-> 0]
    BY <2>1, FillIs
  <2> QED
    BY <2>1, <2>2 DEF n
<1> HIDE DEF v, z
<1>8. PredictorOK(t)
  <2>1. 0 \in 0..Row
    BY BlockFacts
  <2> QED
    BY <1>5, <1>6, <1>7, <2>1, PredictorUpdate
<1> HIDE DEF t
<1>9. Good(Did(t, out, during, 0))
  <2>1. 0 \in Nat
    OBVIOUS
  <2> QED
    BY <1>3, <1>5, <1>8, <2>1, Emitted, IsStage
<1>10. Did(t, out, during, 0).during = during
  BY DEF Did
<1> QED
  BY <1>2, <1>5, <1>9, <1>10

LEMMA PredictorGood ==
  ASSUME NEW s, PredictorOK(s), NEW data \in Seq(Byte)
  PROVE  Good(PredictorWrite(s, data))
<1> DEFINE left == Incoming(s) - s.pos
           n == Min({left, Len(data)})
           row == [i \in DOMAIN s.row |-> IF i \in (s.pos + 1)..(s.pos + n) THEN data[i - s.pos] ELSE s.row[i]]
           got == [s EXCEPT !.row = row]
<1>1. /\ s.row \in [1..(Row + 1) -> Byte] /\ s.encode = FALSE /\ s.pos \in 0..Row
      /\ s.kind \in {"png", "tiff"} /\ Row \in Nat
  BY BlockFacts DEF PredictorOK
<1>2. left \in Nat /\ s.pos + left <= Row + 1 /\ Len(data) \in Nat
      /\ (n # left => s.pos + n \in 0..Row) /\ n \in Nat /\ n <= Len(data)
  <2>1. left \in Nat /\ s.pos + left <= Row + 1
    BY <1>1 DEF Incoming
  <2> HIDE DEF left
  <2>2. n = IF left <= Len(data) THEN left ELSE Len(data)
    BY <2>1, LeastOfTwo
  <2> DEFINE k == Len(data)
             p == s.pos
  <2>3. k \in Nat /\ p \in Nat /\ n = IF left <= k THEN left ELSE k
    BY <1>1, <2>2
  <2> HIDE DEF k, p, n
  <2>4. p + left <= Row + 1
    BY <2>1 DEF p
  <2>5. n \in Nat /\ n <= k /\ (n # left => p + n \in 0..Row)
    BY <1>1, <2>1, <2>3, <2>4
  <2> QED
    BY <2>1, <2>3, <2>5 DEF k, p
<1> HIDE DEF left, n
<1>3. row \in [1..(Row + 1) -> Byte]
  <2> SUFFICES ASSUME NEW i \in 1..(Row + 1)
               PROVE  (IF i \in (s.pos + 1)..(s.pos + n) THEN data[i - s.pos] ELSE s.row[i]) \in Byte
    BY <1>1
  <2>1. i \in (s.pos + 1)..(s.pos + n) => i - s.pos \in 1..Len(data)
    BY <1>1, <1>2
  <2> QED
    BY <1>1, <2>1
<1> HIDE DEF row
<1>4. PredictorOK(got)
  BY <1>3, PredictorUpdate
<1>5. got.pos = s.pos /\ got.kind = s.kind
  BY DEF PredictorOK
<1> HIDE DEF got
<1>6. CASE n = left
  <2> DEFINE f == ProcessRow(got)
             x == [f EXCEPT !.used = n, !.during.pos = IF s.kind = "tiff" THEN Row ELSE f.during.pos]
  <2>1. PredictorWrite(s, data) = x
    BY <1>6 DEF PredictorWrite, left, n, row, got
  <2>2. Good(f) /\ PredictorOK(f.during) /\ \E t, e, d : f = Did(t, e, d, 0)
    BY <1>4, ProcessRowGood
  <2> HIDE DEF f
  <2> DEFINE q == IF s.kind = "tiff" THEN Row ELSE f.during.pos
             d == [f.during EXCEPT !.pos = q]
  <2>3. x.s = f.s /\ x.emit = f.emit /\ x.used = n /\ x.threw = f.threw /\ x.during = d
    <3>1. PICK t, e, u : f = Did(t, e, u, 0)
      BY <2>2
    <3> QED
      BY <3>1 DEF Did
  <2>4. q \in 0..Row
    <3>1. f.during.pos \in 0..Row
      BY <2>2 DEF PredictorOK
    <3>2. Row \in 0..Row
      BY <1>1
    <3> QED
      BY <3>1, <3>2
  <2> HIDE DEF x, q
  <2>5. StageOK(d)
    BY <2>2, <2>4, PredictorUpdate, IsStage
  <2> HIDE DEF d
  <2> QED
    BY <1>2, <2>1, <2>2, <2>3, <2>5 DEF Good
<1>7. CASE n # left
  <2> DEFINE p == s.pos + n
             t == [got EXCEPT !.pos = p]
             none == <<>>
  <2>1. PredictorWrite(s, data) = Did(t, none, got, n)
    BY <1>5, <1>7 DEF PredictorWrite, left, n, row, got
  <2>2. p \in 0..Row /\ none \in Seq(Byte)
    BY <1>2, <1>7
  <2> HIDE DEF p, none
  <2>3. StageOK(t) /\ StageOK(got)
    BY <1>4, <2>2, PredictorUpdate, IsStage
  <2> QED
    BY <1>2, <2>1, <2>2, <2>3, Emitted
<1> QED
  BY <1>6, <1>7

-----------------------------------------------------------------------------
(* LZW.                                                                    *)

Strings == Seq(Byte) \ {<<>>}

Filled(s, t, c, a) ==
  /\ t \in LZWStage /\ t.nextChar = c /\ t.available = a
  /\ t.bytePos = s.bytePos /\ t.bitPos = s.bitPos /\ t.codeSize = s.codeSize
  /\ t.early = s.early /\ t.eod = s.eod /\ t.table = s.table /\ t.lastCode = s.lastCode

LEMMA RingUpdate ==
  ASSUME NEW s \in LZWStage, NEW b \in [1..3 -> Byte], NEW c \in 0..2, NEW a \in Nat
  PROVE  Filled(s, [s EXCEPT !.buf = b, !.nextChar = c, !.available = a], c, a)
  BY DEF LZWStage, Filled

Moved(s, t, b, c, a) ==
  /\ t \in LZWStage /\ t.bytePos = b /\ t.bitPos = c /\ t.available = a
  /\ t.nextChar = s.nextChar /\ t.codeSize = s.codeSize
  /\ t.early = s.early /\ t.eod = s.eod /\ t.table = s.table /\ t.lastCode = s.lastCode

LEMMA ReadUpdate ==
  ASSUME NEW s \in LZWStage, NEW b \in 0..2, NEW c \in 0..(LiteralBits - 1), NEW a \in Nat
  PROVE  Moved(s, [s EXCEPT !.bytePos = b, !.bitPos = c, !.available = a], b, c, a)
  BY DEF LZWStage, Moved

Resized(s, t, table, w) ==
  /\ t \in LZWStage /\ t.table = table /\ t.codeSize = w
  /\ t.nextChar = s.nextChar /\ t.bytePos = s.bytePos /\ t.bitPos = s.bitPos
  /\ t.available = s.available /\ t.early = s.early /\ t.eod = s.eod /\ t.lastCode = s.lastCode

LEMMA TableUpdate ==
  ASSUME NEW s \in LZWStage, NEW b \in Seq(Strings), NEW c \in (LiteralBits + 1)..MaxWidth
  PROVE  Resized(s, [s EXCEPT !.table = b, !.codeSize = c], b, c)
  BY DEF LZWStage, Strings, Resized

LEMMA CodeUpdate ==
  ASSUME NEW s \in LZWStage, NEW a \in Nat
  PROVE  LET t == [s EXCEPT !.lastCode = a]
         IN /\ t \in LZWStage /\ t.lastCode = a
            /\ t.nextChar = s.nextChar /\ t.bytePos = s.bytePos /\ t.bitPos = s.bitPos
            /\ t.available = s.available /\ t.early = s.early /\ t.eod = s.eod
            /\ t.table = s.table /\ t.codeSize = s.codeSize
  BY DEF LZWStage

LEMMA EndUpdate ==
  ASSUME NEW s \in LZWStage, NEW a \in Nat
  PROVE  LET t == [s EXCEPT !.eod = TRUE, !.lastCode = a]
         IN /\ t \in LZWStage /\ t.eod
            /\ t.nextChar = s.nextChar /\ t.bytePos = s.bytePos /\ t.bitPos = s.bitPos
            /\ t.available = s.available /\ t.early = s.early
            /\ t.table = s.table /\ t.codeSize = s.codeSize
  BY DEF LZWStage

(* The code size grows when the table does, and is never behind it.        *)
SizeIs(next, w) ==
  /\ w < MaxWidth => next < Power(2, w)
  /\ w > LiteralBits + 1 => next >= Power(2, w - 1)

LEMMA SizeGrows ==
  ASSUME NEW c \in Nat, NEW w \in (LiteralBits + 1)..MaxWidth, SizeIs(c, w)
  PROVE  LET v == IF \E u \in (LiteralBits + 1)..(MaxWidth - 1) : c = Power(2, u) - 1 THEN w + 1 ELSE w
         IN v \in (LiteralBits + 1)..MaxWidth /\ SizeIs(c + 1, v)
<1>1. /\ LiteralBits \in Nat /\ MaxWidth \in Nat
      /\ \A u \in Nat : Power(2, u) \in Nat \ {0} /\ Power(2, u + 1) = 2 * Power(2, u)
  <2>1. LiteralBits \in Nat /\ MaxWidth \in Nat
    BY Sizes
  <2>2. 2 \in Nat /\ 2 \in Nat \ {0}
    OBVIOUS
  <2> QED
    BY <2>1, <2>2, PowerSteps, PowerPositive
<1>2. ASSUME NEW u \in (LiteralBits + 1)..(MaxWidth - 1), c = Power(2, u) - 1
      PROVE  w = u
  <2>1. u \in Nat /\ w \in Nat /\ Power(2, u) \in Nat \ {0} /\ Power(2, w) \in Nat \ {0}
    BY <1>1
  <2>2. CASE w < u
    <3>1. c < Power(2, w)
      BY <1>1, <2>2 DEF SizeIs
    <3>2. 2 * Power(2, w) <= Power(2, u)
      BY <2>1, <2>2, PowerGrows
    <3> DEFINE x == Power(2, u)
               y == Power(2, w)
    <3>3. x \in Nat /\ y \in Nat \ {0} /\ 2 * y <= x /\ c = x - 1 /\ c < y
      BY <1>2, <2>1, <3>1, <3>2
    <3> HIDE DEF x, y
    <3> QED
      BY <3>3
  <2>3. CASE w > u
    <3>1. w - 1 \in Nat /\ u <= w - 1 /\ w > LiteralBits + 1
      BY <1>1, <2>1, <2>3
    <3>2. c >= Power(2, w - 1)
      BY <3>1 DEF SizeIs
    <3>3. Power(2, u) <= Power(2, w - 1)
      BY <2>1, <3>1, PowerGrows
    <3> DEFINE x == Power(2, u)
               y == Power(2, w - 1)
    <3>4. x \in Nat /\ y \in Nat /\ x <= y /\ c = x - 1 /\ c >= y
      BY <1>1, <1>2, <2>1, <3>1, <3>2, <3>3
    <3> HIDE DEF x, y
    <3> QED
      BY <3>4
  <2> QED
    BY <2>1, <2>2, <2>3
<1>3. CASE \E u \in (LiteralBits + 1)..(MaxWidth - 1) : c = Power(2, u) - 1
  <2>1. w \in (LiteralBits + 1)..(MaxWidth - 1) /\ c = Power(2, w) - 1
    BY <1>2, <1>3
  <2>2. w \in Nat /\ w + 1 \in (LiteralBits + 1)..MaxWidth /\ (w + 1) - 1 = w
    BY <1>1, <2>1
  <2> DEFINE x == Power(2, w)
  <2>3. x \in Nat \ {0} /\ Power(2, w + 1) = 2 * x /\ c = x - 1
    BY <1>1, <2>1, <2>2
  <2> HIDE DEF x
  <2>4. c + 1 < Power(2, w + 1) /\ c + 1 >= x
    BY <2>3
  <2>5. SizeIs(c + 1, w + 1)
    BY <2>2, <2>4 DEF SizeIs, x
  <2> QED
    BY <1>3, <2>2, <2>5
<1>4. CASE ~\E u \in (LiteralBits + 1)..(MaxWidth - 1) : c = Power(2, u) - 1
  <2>1. ASSUME w < MaxWidth PROVE c + 1 < Power(2, w)
    <3>1. w \in (LiteralBits + 1)..(MaxWidth - 1) /\ c < Power(2, w) /\ Power(2, w) \in Nat
      BY <1>1, <2>1 DEF SizeIs
    <3>2. c # Power(2, w) - 1
      BY <1>4, <3>1
    <3> QED
      BY <3>1, <3>2
  <2>2. ASSUME w > LiteralBits + 1 PROVE c + 1 >= Power(2, w - 1)
    <3>1. w - 1 \in Nat /\ c >= Power(2, w - 1)
      BY <1>1, <2>2 DEF SizeIs
    <3>2. Power(2, w - 1) \in Nat
      BY <1>1, <3>1
    <3> QED
      BY <3>1, <3>2
  <2>3. SizeIs(c + 1, w)
    BY <2>1, <2>2 DEF SizeIs
  <2> QED
    BY <1>4, <2>3
<1> QED
  BY <1>3, <1>4

(* What the ring holds, after a byte has come and after a code has gone.   *)
Ring(p, a, k, next, b) == p + a = k * LiteralBits /\ next = (b + k) % 3

LEMMA ByteComes ==
  ASSUME NEW p \in 0..(LiteralBits - 1), NEW a \in Nat, NEW w \in (LiteralBits + 1)..MaxWidth,
         NEW next \in 0..2, NEW b \in 0..2,
         a < w, NEW k \in 0..2, Ring(p, a, k, next, b)
  PROVE  /\ Ring(p, a + LiteralBits, k + 1, (next + 1) % 3, b)
         /\ a + LiteralBits < w => k + 1 \in 0..2
<1>1. LiteralBits \in Nat /\ LiteralBits >= 2 /\ w <= 2 * LiteralBits /\ w \in Nat
  BY Sizes
<1>2. k = 0 \/ k = 1 \/ k = 2
  OBVIOUS
<1>3. (k + 1) * LiteralBits = (k * LiteralBits) + LiteralBits
  BY <1>1, <1>2
<1>4. (next + 1) % 3 = (b + (k + 1)) % 3
  <2>1. next = (b + k) % 3
    BY DEF Ring
  <2>2. b = 0 \/ b = 1 \/ b = 2
    OBVIOUS
  <2> QED
    BY <1>2, <2>1, <2>2
<1>5. p + (a + LiteralBits) = (k + 1) * LiteralBits
  <2>1. p + a = k * LiteralBits
    BY DEF Ring
  <2> QED
    BY <1>1, <1>2, <1>3, <2>1
<1>6. a + LiteralBits < w => k # 2
  <2> SUFFICES ASSUME k = 2, a + LiteralBits < w PROVE FALSE
    OBVIOUS
  <2>1. p + a = 2 * LiteralBits
    BY DEF Ring
  <2> QED
    BY <1>1, <2>1
<1> QED
  BY <1>2, <1>4, <1>5, <1>6 DEF Ring

Takes(p, a, k, next, b, w, high, med, low, x, y) ==
  /\ p \in 0..(LiteralBits - 1) /\ a \in Nat /\ w \in (LiteralBits + 1)..MaxWidth
  /\ next \in 0..2 /\ b \in 0..2 /\ w <= a /\ k \in 1..3 /\ Ring(p, a, k, next, b)
  /\ high = LiteralBits - p /\ med = Min({w - high, LiteralBits}) /\ low = w - high - med
  /\ x = (IF low = 0 THEN b + 1 ELSE b + 2)
  /\ y = (IF low = 0 THEN med ELSE low)

Leaves(L, a, next, w, high, med, low, x, y) ==
  /\ high \in Nat /\ med \in Nat /\ low \in Nat /\ med <= L /\ low <= L
  /\ (x + (y \div L)) % 3 \in 0..2 /\ y % L \in 0..(L - 1)
  /\ a - w \in Nat
  /\ \E m \in 0..2 : Ring(y % L, a - w, m, next, (x + (y \div L)) % 3)

LEMMA CodeGoes ==
  ASSUME NEW p, NEW a, NEW k, NEW next, NEW b, NEW w, NEW high, NEW med, NEW low, NEW x, NEW y,
         Takes(p, a, k, next, b, w, high, med, low, x, y)
  PROVE  Leaves(LiteralBits, a, next, w, high, med, low, x, y)
<1> DEFINE L == LiteralBits
<1> HIDE DEF L
<1>0. L = LiteralBits
  BY DEF L
<1>t. /\ p \in 0..(L - 1) /\ a \in Nat /\ w \in (L + 1)..MaxWidth /\ next \in 0..2 /\ b \in 0..2
      /\ w <= a /\ k \in 1..3 /\ Ring(p, a, k, next, b)
      /\ high = L - p /\ med = Min({w - high, L}) /\ low = w - high - med
      /\ x = (IF low = 0 THEN b + 1 ELSE b + 2)
      /\ y = (IF low = 0 THEN med ELSE low)
  BY <1>0 DEF Takes
<1> USE <1>t
<1>1. L \in Nat /\ L >= 2 /\ w \in Nat /\ L < w /\ w <= 2 * L /\ p \in 0..(L - 1) /\ a - w \in Nat
  BY <1>0, Sizes
<1>2. high \in Nat /\ high >= 1 /\ high <= L /\ w - high \in Nat /\ w - high >= 1
  BY <1>1
<1>3. med = IF w - high <= L THEN w - high ELSE L
  BY <1>1, <1>2, LeastOfTwo
<1>4. p + a = k * L /\ next = (b + k) % 3
  BY <1>0 DEF Ring
<1>5. k = 1 \/ k = 2 \/ k = 3
  OBVIOUS
<1>6. b = 0 \/ b = 1 \/ b = 2
  OBVIOUS
<1> DEFINE n == w - high
<1>7. n \in Nat /\ n >= 1 /\ p + w = L + n /\ med = IF n <= L THEN n ELSE L
  BY <1>1, <1>2, <1>3
<1>8. low = n - med
  OBVIOUS
<1> HIDE DEF n
<1> DEFINE c == (x + (y \div L)) % 3
           r == y % L
<1> SUFFICES /\ med \in Nat /\ low \in Nat /\ med <= L /\ low <= L
             /\ c \in 0..2 /\ r \in 0..(L - 1)
             /\ \E m \in 0..2 : r + (a - w) = m * L /\ next = (c + m) % 3
  BY <1>0, <1>1, <1>2 DEF Ring, Leaves
<1>9. CASE n < L
  <2>1. med = n /\ low = 0
    BY <1>1, <1>7, <1>8, <1>9
  <2>2. x = b + 1 /\ y = n
    BY <2>1
  <2>3. y \div L = 0 /\ r = n
    BY <1>1, <1>7, <1>9, <2>2
  <2>4. c = (b + 1) % 3
    BY <1>6, <2>2, <2>3
  <2> HIDE DEF c, r
  <2>5. k - 1 \in 0..2 /\ next = (c + (k - 1)) % 3 /\ c \in 0..2
    BY <1>4, <1>5, <1>6, <2>4
  <2>6. r + (a - w) = (k - 1) * L
    BY <1>1, <1>4, <1>5, <1>7, <2>3
  <2>7. r \in 0..(L - 1) /\ med \in Nat /\ low \in Nat /\ med <= L /\ low <= L
    BY <1>1, <1>7, <1>9, <2>1, <2>3
  <2> QED
    BY <2>5, <2>6, <2>7
<1>10. CASE n = L
  <2>1. med = L /\ low = 0
    BY <1>1, <1>7, <1>8, <1>10
  <2>2. x = b + 1 /\ y = L
    BY <2>1
  <2>3. y \div L = 1 /\ r = 0
    BY <1>1, <2>2
  <2>4. c = (b + 2) % 3
    BY <1>6, <2>2, <2>3
  <2> HIDE DEF c, r
  <2>5. k # 1
    BY <1>1, <1>4, <1>7, <1>10
  <2>6. k - 2 \in 0..2 /\ next = (c + (k - 2)) % 3 /\ c \in 0..2
    BY <1>4, <1>5, <1>6, <2>4, <2>5
  <2>7. r + (a - w) = (k - 2) * L
    BY <1>1, <1>4, <1>5, <1>7, <1>10, <2>3, <2>5
  <2>8. r \in 0..(L - 1) /\ med \in Nat /\ low \in Nat /\ med <= L /\ low <= L
    BY <1>1, <2>1, <2>3
  <2> QED
    BY <2>6, <2>7, <2>8
<1>11. CASE n > L
  <2>1. med = L /\ low = n - L /\ low \in Nat /\ low # 0 /\ low < L
    BY <1>1, <1>2, <1>7, <1>8, <1>11
  <2>2. x = b + 2 /\ y = n - L
    BY <2>1
  <2>3. y \div L = 0 /\ r = n - L
    BY <1>1, <2>1, <2>2
  <2>4. c = (b + 2) % 3
    BY <1>6, <2>2, <2>3
  <2> HIDE DEF c, r
  <2>5. k # 1
    BY <1>1, <1>4, <1>7, <1>11
  <2>6. k - 2 \in 0..2 /\ next = (c + (k - 2)) % 3 /\ c \in 0..2
    BY <1>4, <1>5, <1>6, <2>4, <2>5
  <2>7. r + (a - w) = (k - 2) * L
    BY <1>1, <1>4, <1>5, <1>7, <2>3, <2>5
  <2>8. r \in 0..(L - 1) /\ med \in Nat /\ med <= L /\ low <= L
    BY <1>1, <2>1, <2>3
  <2> QED
    BY <2>1, <2>6, <2>7, <2>8
<1>12. n < L \/ n = L \/ n > L
  <2> HIDE <1>t
  <2> QED
    BY <1>1, <1>7
<1> HIDE <1>t
<1> QED
  BY <1>9, <1>10, <1>11, <1>12, Zenon

(* The decoder between two codes.                                          *)
Fits(s) ==
  /\ s \in LZWStage /\ s.available < LiteralBits
  /\ RingOK(s) /\ CodeSizeOK(s) /\ TableOK(s)

LEMMA FitsIsStage == ASSUME NEW s, Fits(s) PROVE StageOK(s)
<1>1. s.available < s.codeSize
  <2>1. LiteralBits \in Nat /\ s.available \in Nat /\ s.codeSize \in (LiteralBits + 1)..MaxWidth
    BY Sizes DEF Fits, LZWStage
  <2> QED
    BY <2>1, Sizes DEF Fits
<1> QED
  BY <1>1, IsStage DEF Fits, LZWOK

(* A code that stands for a string.                                        *)
Stands(table, code) == code \in 0..(Clear - 1) \/ code - FirstFree \in 0..(Len(table) - 1)

LEMMA StringIs ==
  ASSUME NEW table \in Seq(Strings), NEW code \in Nat, Stands(table, code)
  PROVE  StringOf(table, code) \in Strings /\ StringOf(table, code)[1] \in Byte
<1>1. Clear \in Nat /\ FirstFree = Clear + 2 /\ Clear = Octet
  BY Sizes DEF Clear, FirstFree
<1>2. CASE code < Clear
  <2>1. code \in Byte /\ StringOf(table, code) = <<code>>
    BY <1>1, <1>2 DEF StringOf, Byte
  <2> QED
    BY <2>1 DEF Strings
<1>3. CASE ~(code < Clear)
  <2> DEFINE i == code - FirstFree + 1
             t == table[i]
  <2>1. i \in 1..Len(table) /\ StringOf(table, code) = t
    BY <1>1, <1>3 DEF StringOf, Stands
  <2>2. t \in Strings
    BY <2>1
  <2> HIDE DEF t
  <2>3. t[1] \in Byte
    BY <2>2 DEF Strings
  <2> QED
    BY <2>1, <2>2, <2>3
<1> QED
  BY <1>2, <1>3

LEMMA FitsAfter ==
  ASSUME NEW s, Fits(s), NEW t \in LZWStage,
         t.nextChar = s.nextChar, t.bytePos = s.bytePos, t.bitPos = s.bitPos, t.available = s.available
  PROVE  CodeSizeOK(t) /\ TableOK(t) => Fits(t)
  BY DEF Fits, RingOK

LEMMA SizeOf ==
  ASSUME NEW s
  PROVE  CodeSizeOK(s) <=> SizeIs(FirstFree + Len(s.table) + s.early, s.codeSize)
  BY DEF CodeSizeOK, SizeIs

(* What AddToTable leaves for the code it has been called for.             *)
Added(did) == did.threw \in BOOLEAN /\ Fits(did.s) /\ did.s.eod = FALSE

LEMMA AddToTableFits ==
  ASSUME NEW s, Fits(s), s.eod = FALSE, s.lastCode # Clear,
         NEW code \in Nat, code # Clear, code # EndOfData
  PROVE  Added(AddToTable(s, code))
<1> DEFINE new == Len(s.table)
           idx == code - FirstFree
           c == IF code < Clear THEN code
                ELSE IF idx = new THEN StringOf(s.table, s.lastCode)[1] ELSE s.table[idx + 1][1]
           change == FirstFree + new + s.early
           table == Append(s.table, Append(StringOf(s.table, s.lastCode), c))
           size == IF \E w \in (LiteralBits + 1)..(MaxWidth - 1) : change = Power(2, w) - 1
                   THEN s.codeSize + 1 ELSE s.codeSize
           t == [s EXCEPT !.table = table, !.codeSize = size]
<1>1. AddToTable(s, code) = IF idx > new \/ FirstFree + new = Power(2, MaxWidth) THEN Throw(s) ELSE Keep(t)
  BY DEF AddToTable
<1>2. /\ s \in LZWStage /\ s.table \in Seq(Strings) /\ s.lastCode \in Nat /\ s.early \in 0..1
      /\ s.codeSize \in (LiteralBits + 1)..MaxWidth
  BY DEF Fits, LZWStage, Strings
<1>3. /\ Clear \in Nat /\ Clear = Octet /\ EndOfData = Clear + 1 /\ FirstFree = Clear + 2
      /\ FirstFree \in Nat /\ new \in Nat
  BY <1>2, Sizes DEF Clear, FirstFree, EndOfData
<1> HIDE DEF new
<1>4. CASE idx > new \/ FirstFree + new = Power(2, MaxWidth)
  <2>1. AddToTable(s, code).threw = TRUE /\ AddToTable(s, code).s = s
    BY <1>1, <1>4 DEF Throw, Keep, Did
  <2> QED
    BY <2>1 DEF Added
<1>5. CASE ~(idx > new \/ FirstFree + new = Power(2, MaxWidth))
  <2>1. Stands(s.table, s.lastCode)
    BY <1>2, <1>3 DEF Fits, TableOK, Stands, new
  <2> DEFINE last == StringOf(s.table, s.lastCode)
  <2>2. last \in Strings /\ last[1] \in Byte
    BY <1>2, <2>1, StringIs
  <2>3. c \in Byte
    <3>1. CASE code < Clear
      BY <1>3, <3>1 DEF Byte
    <3>2. CASE ~(code < Clear) /\ idx = new
      BY <2>2, <3>2
    <3>3. CASE ~(code < Clear) /\ idx # new
      <4>1. idx \in 0..(new - 1)
        BY <1>3, <1>5, <3>3
      <4> DEFINE u == s.table[idx + 1]
      <4>2. idx + 1 \in 1..new /\ c = u[1]
        BY <1>3, <3>3, <4>1
      <4>3. u \in Strings
        BY <1>2, <4>2 DEF new
      <4> HIDE DEF u
      <4>4. u[1] \in Byte
        BY <4>3 DEF Strings
      <4> QED
        BY <4>2, <4>4
    <3> QED
      BY <3>1, <3>2, <3>3
  <2> HIDE DEF c, last
  <2> DEFINE entry == Append(last, c)
  <2>4. entry \in Strings
    BY <2>2, <2>3 DEF Strings
  <2>5. table = Append(s.table, entry)
    BY DEF last
  <2> HIDE DEF entry
  <2>6. table \in Seq(Strings) /\ Len(table) = new + 1
    BY <1>2, <2>4, <2>5 DEF new
  <2>7. change \in Nat /\ SizeIs(change, s.codeSize)
    <3>1. SizeIs(change, s.codeSize)
      BY SizeOf DEF Fits, new
    <3> QED
      BY <1>2, <1>3, <3>1
  <2>8. size \in (LiteralBits + 1)..MaxWidth /\ SizeIs(change + 1, size)
    <3> HIDE DEF change
    <3> QED
      BY <1>2, <2>7, SizeGrows
  <2> HIDE DEF table, size
  <2>9. FirstFree + Len(table) + s.early = change + 1
    BY <1>2, <1>3, <2>6
  <2> HIDE DEF change
  <2>10. /\ t \in LZWStage /\ t.table = table /\ t.codeSize = size
         /\ t.nextChar = s.nextChar /\ t.bytePos = s.bytePos /\ t.bitPos = s.bitPos
         /\ t.available = s.available /\ t.early = s.early /\ t.eod = s.eod /\ t.lastCode = s.lastCode
    <3>1. Resized(s, t, table, size)
      BY <1>2, <2>6, <2>8, TableUpdate
    <3> QED
      BY <3>1 DEF Resized
  <2> HIDE DEF t
  <2>11. CodeSizeOK(t)
    BY <2>8, <2>9, <2>10, SizeOf
  <2>12. TableOK(t)
    <3>1. FirstFree + Len(t.table) <= Power(2, MaxWidth)
      <4>1. FirstFree + new <= Power(2, MaxWidth) /\ Power(2, MaxWidth) \in Nat
        BY Sizes, PowerSteps DEF Fits, TableOK, new
      <4> QED
        BY <1>3, <1>5, <2>6, <2>10, <4>1
    <3>2. t.lastCode \in 0..Clear \/ t.lastCode - FirstFree \in 0..(Len(t.table) - 1)
      <4>1. s.lastCode \in 0..(Clear - 1) \/ s.lastCode - FirstFree \in 0..(new - 1)
        BY <2>1 DEF Stands, new
      <4> QED
        BY <1>2, <1>3, <2>6, <2>10, <4>1
    <3> QED
      BY <3>1, <3>2 DEF TableOK
  <2>13. Fits(t)
    BY <2>10, <2>11, <2>12, FitsAfter
  <2>14. AddToTable(s, code).threw = FALSE /\ AddToTable(s, code).s = t
    BY <1>1, <1>5 DEF Keep, Did
  <2> QED
    BY <2>10, <2>13, <2>14 DEF Added
<1> QED
  BY <1>4, <1>5

LEMMA DecodeGood ==
  ASSUME NEW added, Added(added), NEW code \in Nat, code # Clear, code # EndOfData
  PROVE  Good(Decode(added, code))
<1> DEFINE s == added.s
           t == [s EXCEPT !.lastCode = code]
           data == StringOf(s.table, code)
<1>1. Fits(s) /\ StageOK(s)
  BY FitsIsStage DEF Added
<1>2. CASE added.threw \/ code - FirstFree >= Len(s.table)
  <2>1. Decode(added, code) = Throw(s)
    BY <1>2 DEF Decode
  <2> HIDE DEF s
  <2> QED
    BY <1>1, <2>1, Kept
<1>3. CASE ~(added.threw \/ code - FirstFree >= Len(s.table))
  <2>1. Decode(added, code) = Did(t, data, s, 1)
    BY <1>3 DEF Decode
  <2> HIDE DEF s
  <2>2. s \in LZWStage /\ s.table \in Seq(Strings)
    BY <1>1 DEF Fits, LZWStage, Strings
  <2>3. Len(s.table) \in Nat /\ Clear \in Nat /\ FirstFree = Clear + 2 /\ EndOfData = Clear + 1
    BY <2>2, Sizes DEF Clear, FirstFree, EndOfData
  <2>4. Stands(s.table, code)
    BY <1>3, <2>3 DEF Stands
  <2>5. data \in Strings
    BY <2>2, <2>4, StringIs
  <2>6. data \in Seq(Byte)
    BY <2>5 DEF Strings
  <2>7. /\ t \in LZWStage /\ t.lastCode = code
        /\ t.nextChar = s.nextChar /\ t.bytePos = s.bytePos /\ t.bitPos = s.bitPos
        /\ t.available = s.available /\ t.early = s.early /\ t.eod = s.eod
        /\ t.table = s.table /\ t.codeSize = s.codeSize
    BY <2>2, CodeUpdate
  <2> HIDE DEF t, data
  <2>8. CodeSizeOK(t)
    BY <1>1, <2>7, SizeOf DEF Fits
  <2>9. TableOK(t)
    <3>1. code \in 0..Clear \/ code - FirstFree \in 0..(Len(s.table) - 1)
      BY <2>3, <2>4 DEF Stands
    <3> QED
      BY <1>1, <2>7, <3>1 DEF Fits, TableOK
  <2>10. StageOK(t)
    BY <1>1, <2>7, <2>8, <2>9, FitsAfter, FitsIsStage
  <2> QED
    BY <1>1, <2>1, <2>6, <2>10, Emitted
<1> QED
  BY <1>2, <1>3

LEMMA HandleCodeGood ==
  ASSUME NEW s, Fits(s), NEW code \in Nat
  PROVE  Good(HandleCode(s, code))
<1>1. /\ s \in LZWStage /\ StageOK(s) /\ s.eod \in BOOLEAN /\ s.early \in 0..1
  BY FitsIsStage DEF Fits, LZWStage
<1>2. Clear \in Nat /\ FirstFree = Clear + 2 /\ EndOfData = Clear + 1 /\ Clear = Octet /\ Octet >= 4
  BY Sizes DEF Clear, FirstFree, EndOfData
<1>3. CASE s.eod
  <2>1. HandleCode(s, code) = Keep(s)
    BY <1>3 DEF HandleCode
  <2> QED
    BY <1>1, <2>1, Kept
<1>4. CASE ~s.eod /\ code = Clear
  <2> DEFINE none == <<>>
             w == LiteralBits + 1
             t == [s EXCEPT !.table = none, !.codeSize = w]
             u == [t EXCEPT !.lastCode = code]
  <2>1. HandleCode(s, code) = Keep(u)
    <3>1. u = [s EXCEPT !.table = none, !.codeSize = w, !.lastCode = code]
      BY <1>1 DEF LZWStage
    <3> QED
      BY <1>4, <3>1 DEF HandleCode
  <2>2. none \in Seq(Strings) /\ Len(none) = 0
    OBVIOUS
  <2>3. LiteralBits \in Nat /\ w \in Nat /\ w \in (LiteralBits + 1)..MaxWidth /\ w <= MaxWidth /\ MaxWidth \in Nat
    BY Sizes
  <2>4. Power(2, w) = 2 * Octet /\ Power(2, w) <= Power(2, MaxWidth) /\ Power(2, MaxWidth) \in Nat
    <3>1. Power(2, w) = 2 * Octet
      BY <2>3, PowerSteps DEF Octet
    <3> HIDE DEF w
    <3> QED
      BY <2>3, <3>1, PowerSteps, PowerGrows
  <2>5. ~(w > LiteralBits + 1)
    BY <2>3
  <2> HIDE DEF none, w
  <2>6. /\ t \in LZWStage /\ t.table = none /\ t.codeSize = w
        /\ t.nextChar = s.nextChar /\ t.bytePos = s.bytePos /\ t.bitPos = s.bitPos
        /\ t.available = s.available /\ t.early = s.early
    <3>1. Resized(s, t, none, w)
      BY <1>1, <2>2, <2>3, TableUpdate
    <3> QED
      BY <3>1 DEF Resized
  <2> HIDE DEF t
  <2>7. /\ u \in LZWStage /\ u.lastCode = code /\ u.table = none /\ u.codeSize = w
        /\ u.nextChar = s.nextChar /\ u.bytePos = s.bytePos /\ u.bitPos = s.bitPos
        /\ u.available = s.available /\ u.early = s.early
    BY <2>6, CodeUpdate
  <2> HIDE DEF u
  <2>8. CodeSizeOK(u)
    <3>1. FirstFree + Len(u.table) + u.early < Power(2, w)
      BY <1>1, <1>2, <2>2, <2>4, <2>7
    <3> QED
      BY <2>5, <2>7, <3>1 DEF CodeSizeOK
  <2>9. TableOK(u)
    <3>1. FirstFree + Len(u.table) <= Power(2, MaxWidth)
      BY <1>2, <2>2, <2>4, <2>7
    <3>2. u.lastCode \in 0..Clear
      BY <1>2, <1>4, <2>7
    <3> QED
      BY <3>1, <3>2 DEF TableOK
  <2> QED
    BY <2>1, <2>7, <2>8, <2>9, FitsAfter, FitsIsStage, Kept
<1>5. CASE ~s.eod /\ code = EndOfData
  <2> DEFINE t == [s EXCEPT !.eod = TRUE, !.lastCode = code]
  <2>1. HandleCode(s, code) = Keep(t)
    BY <1>2, <1>5 DEF HandleCode
  <2>2. /\ t \in LZWStage /\ t.eod
        /\ t.nextChar = s.nextChar /\ t.bytePos = s.bytePos /\ t.bitPos = s.bitPos
        /\ t.available = s.available /\ t.early = s.early
        /\ t.table = s.table /\ t.codeSize = s.codeSize
    BY <1>1, EndUpdate
  <2> HIDE DEF t
  <2>3. CodeSizeOK(t)
    BY <2>2, SizeOf DEF Fits
  <2>4. TableOK(t)
    BY <2>2 DEF Fits, TableOK
  <2> QED
    BY <2>1, <2>2, <2>3, <2>4, FitsAfter, FitsIsStage, Kept
<1>6. CASE ~s.eod /\ code # Clear /\ code # EndOfData
  <2> DEFINE added == IF s.lastCode = Clear THEN Keep(s) ELSE AddToTable(s, code)
  <2>1. HandleCode(s, code) = Decode(added, code)
    BY <1>6 DEF HandleCode
  <2>2. s.eod = FALSE
    BY <1>1, <1>6
  <2>3. Added(added)
    <3>1. Added(Keep(s))
      BY <2>2 DEF Added, Keep, Did
    <3>2. s.lastCode # Clear => Added(AddToTable(s, code))
      BY <1>6, <2>2, AddToTableFits
    <3> QED
      BY <3>1, <3>2
  <2> HIDE DEF added
  <2> QED
    BY <1>6, <2>1, <2>3, DecodeGood
<1> QED
  BY <1>3, <1>4, <1>5, <1>6

(* The bits of a code, from up to three bytes.                             *)
LEMMA CodeIs ==
  ASSUME NEW x \in Nat, NEW y \in Nat, NEW z \in Nat,
         NEW high \in Nat, NEW med \in Nat, NEW low \in Nat, NEW m \in Nat, NEW l \in Nat
  PROVE  LET upper == ((x % Power(2, high)) * Power(2, med)) + (y \div Power(2, m))
         IN upper \in Nat /\ (upper * Power(2, low)) + (z \div Power(2, l)) \in Nat
<1>1. \A n \in Nat : Power(2, n) \in Nat \ {0}
  <2>1. 2 \in Nat \ {0}
    OBVIOUS
  <2> QED
    BY <2>1, PowerPositive
<1> DEFINE a == Power(2, high)
           b == Power(2, med)
           c == Power(2, m)
           d == Power(2, low)
           e == Power(2, l)
<1>2. a \in Nat \ {0} /\ b \in Nat \ {0} /\ c \in Nat \ {0} /\ d \in Nat \ {0} /\ e \in Nat \ {0}
  BY <1>1
<1> HIDE DEF a, b, c, d, e
<1> DEFINE f == x % a
           g == y \div c
           h == z \div e
<1>3. f \in Nat /\ g \in Nat /\ h \in Nat
  BY <1>2
<1> HIDE DEF f, g, h
<1>4. (f * b) + g \in Nat
  BY <1>2, <1>3
<1> DEFINE upper == (f * b) + g
<1> HIDE DEF upper
<1>5. upper \in Nat
  BY <1>4 DEF upper
<1>6. (upper * d) + h \in Nat
  BY <1>2, <1>3, <1>5
<1> QED
  BY <1>4, <1>6 DEF upper, a, b, c, d, e, f, g, h

LEMMA SendNextCodeGood ==
  ASSUME NEW s \in LZWStage, CodeSizeOK(s), TableOK(s),
         s.codeSize <= s.available, s.available - s.codeSize < LiteralBits,
         NEW k \in 1..3, Ring(s.bitPos, s.available, k, s.nextChar, s.bytePos)
  PROVE  Good(SendNextCode(s))
<1> DEFINE L == LiteralBits
           w == s.codeSize
           a == s.available
           byte(i) == s.buf[((s.bytePos + i) % 3) + 1]
           high == L - s.bitPos
           med == Min({w - high, L})
           low == w - high - med
           x == IF low = 0 THEN s.bytePos + 1 ELSE s.bytePos + 2
           y == IF low = 0 THEN med ELSE low
           upper == ((byte(0) % Power(2, high)) * Power(2, med)) + (byte(1) \div Power(2, L - med))
           long == (upper * Power(2, low)) + (byte(2) \div Power(2, L - low))
           code == IF low = 0 THEN upper ELSE long
           b == (x + (y \div L)) % 3
           c == y % L
           d == a - w
           t == [s EXCEPT !.bytePos = b, !.bitPos = c, !.available = d]
<1>1. SendNextCode(s) = HandleCode(t, code)
  <2>1. x = (IF low = 0 THEN <<s.bytePos + 1, med>> ELSE <<s.bytePos + 2, low>>)[1]
    OBVIOUS
  <2>2. y = (IF low = 0 THEN <<s.bytePos + 1, med>> ELSE <<s.bytePos + 2, low>>)[2]
    OBVIOUS
  <2> HIDE DEF x, y
  <2> QED
    BY <2>1, <2>2 DEF SendNextCode
<1>2. /\ L \in Nat /\ s.bitPos \in 0..(L - 1) /\ a \in Nat /\ w \in (L + 1)..MaxWidth /\ w \in Nat
      /\ s.nextChar \in 0..2 /\ s.bytePos \in 0..2 /\ s.buf \in [1..3 -> Byte]
  <2>1. L \in Nat /\ w \in (L + 1)..MaxWidth
    BY Sizes DEF LZWStage
  <2> QED
    BY <2>1 DEF LZWStage
<1>3. /\ high \in Nat /\ med \in Nat /\ low \in Nat /\ med <= L /\ low <= L
      /\ b \in 0..2 /\ c \in 0..(L - 1) /\ d \in Nat
      /\ \E m \in 0..2 : Ring(c, d, m, s.nextChar, b)
  <2> HIDE DEF high, med, low, x, y
  <2>1. /\ high = L - s.bitPos /\ med = Min({w - high, L}) /\ low = w - high - med
        /\ x = (IF low = 0 THEN s.bytePos + 1 ELSE s.bytePos + 2)
        /\ y = (IF low = 0 THEN med ELSE low)
    BY DEF high, med, low, x, y
  <2>2. Takes(s.bitPos, a, k, s.nextChar, s.bytePos, w, high, med, low, x, y)
    BY <1>2, <2>1 DEF Takes
  <2>3. Leaves(L, a, s.nextChar, w, high, med, low, x, y)
    BY <2>2, CodeGoes
  <2> QED
    BY <2>3 DEF Leaves
<1>4. code \in Nat
  <2>1. ASSUME NEW i \in 0..2 PROVE byte(i) \in Nat
    <3> DEFINE n == ((s.bytePos + i) % 3) + 1
    <3>1. n \in 1..3
      BY <1>2
    <3> HIDE DEF n
    <3>2. s.buf[n] \in Byte
      BY <1>2, <3>1
    <3> QED
      BY <3>2, Sizes DEF Byte, n
  <2>2. byte(0) \in Nat /\ byte(1) \in Nat /\ byte(2) \in Nat
    <3>1. 0 \in 0..2 /\ 1 \in 0..2 /\ 2 \in 0..2
      OBVIOUS
    <3> HIDE DEF byte
    <3> QED
      BY <2>1, <3>1
  <2> DEFINE e == L - med
             f == L - low
  <2>3. e \in Nat /\ f \in Nat
    BY <1>2, <1>3
  <2> HIDE DEF byte, high, med, low, e, f
  <2>4. /\ ((byte(0) % Power(2, high)) * Power(2, med)) + (byte(1) \div Power(2, e)) \in Nat
        /\ ((((byte(0) % Power(2, high)) * Power(2, med)) + (byte(1) \div Power(2, e))) * Power(2, low))
             + (byte(2) \div Power(2, f)) \in Nat
    BY <1>3, <2>2, <2>3, CodeIs
  <2>5. upper \in Nat /\ long \in Nat
    BY <2>4 DEF e, f
  <2> HIDE DEF upper, long
  <2> QED
    BY <2>5
<1> HIDE DEF code, b, c, d
<1>5. /\ t \in LZWStage /\ t.bytePos = b /\ t.bitPos = c /\ t.available = d
      /\ t.nextChar = s.nextChar /\ t.codeSize = s.codeSize
      /\ t.early = s.early /\ t.eod = s.eod /\ t.table = s.table /\ t.lastCode = s.lastCode
  <2>1. Moved(s, t, b, c, d)
    BY <1>2, <1>3, ReadUpdate
  <2> QED
    BY <2>1 DEF Moved
<1> HIDE DEF t
<1>6. Fits(t)
  <2>1. RingOK(t)
    BY <1>3, <1>5 DEF RingOK, Ring
  <2>2. CodeSizeOK(t)
    BY <1>5, SizeOf
  <2>3. TableOK(t)
    BY <1>5 DEF TableOK
  <2>4. t.available < LiteralBits
    BY <1>5 DEF d
  <2> QED
    BY <1>5, <2>1, <2>2, <2>3, <2>4 DEF Fits
<1> QED
  BY <1>1, <1>4, <1>6, HandleCodeGood

LEMMA LZWGood ==
  ASSUME NEW s, LZWOK(s), NEW ch \in Byte
  PROVE  Good(LZWDecode(s, ch))
<1> DEFINE i == s.nextChar + 1
           buf == [s.buf EXCEPT ![i] = ch]
           c == (s.nextChar + 1) % 3
           a == s.available + LiteralBits
           t == [s EXCEPT !.buf = buf, !.nextChar = c, !.available = a]
<1>1. LZWDecode(s, ch) = IF t.available >= t.codeSize THEN SendNextCode(t) ELSE Keep(t)
  <2>1. t = [s EXCEPT !.buf[s.nextChar + 1] = ch, !.nextChar = (@ + 1) % 3, !.available = @ + LiteralBits]
    BY DEF LZWOK, LZWStage
  <2> HIDE DEF t
  <2> QED
    BY <2>1 DEF LZWDecode
<1>2. /\ s \in LZWStage /\ LiteralBits \in Nat /\ s.bitPos \in 0..(LiteralBits - 1) /\ s.available \in Nat
      /\ s.codeSize \in (LiteralBits + 1)..MaxWidth /\ s.codeSize \in Nat
      /\ s.nextChar \in 0..2 /\ s.bytePos \in 0..2 /\ s.buf \in [1..3 -> Byte] /\ s.available < s.codeSize
  <2>1. LiteralBits \in Nat /\ s.codeSize \in (LiteralBits + 1)..MaxWidth
    BY Sizes DEF LZWOK, LZWStage
  <2> QED
    BY <2>1 DEF LZWOK, LZWStage
<1>3. PICK k \in 0..2 : Ring(s.bitPos, s.available, k, s.nextChar, s.bytePos)
  BY DEF LZWOK, RingOK, Ring
<1>4. /\ Ring(s.bitPos, a, k + 1, c, s.bytePos)
      /\ a < s.codeSize => k + 1 \in 0..2
  BY <1>2, <1>3, ByteComes
<1>5. buf \in [1..3 -> Byte] /\ c \in 0..2 /\ a \in Nat /\ a - s.codeSize < LiteralBits
  BY <1>2
<1> HIDE DEF buf, c, a
<1>6. /\ t \in LZWStage /\ t.nextChar = c /\ t.available = a
      /\ t.bytePos = s.bytePos /\ t.bitPos = s.bitPos /\ t.codeSize = s.codeSize
      /\ t.early = s.early /\ t.eod = s.eod /\ t.table = s.table /\ t.lastCode = s.lastCode
  <2>1. Filled(s, t, c, a)
    BY <1>2, <1>5, RingUpdate
  <2> QED
    BY <2>1 DEF Filled
<1> HIDE DEF t
<1>7. CodeSizeOK(t)
  BY <1>6, SizeOf DEF LZWOK
<1>8. TableOK(t)
  BY <1>6 DEF LZWOK, TableOK
<1>9. CASE a >= s.codeSize
  <2>1. k + 1 \in 1..3
    OBVIOUS
  <2> DEFINE m == k + 1
  <2>2. m \in 1..3 /\ Ring(t.bitPos, t.available, m, t.nextChar, t.bytePos)
    BY <1>4, <1>6, <2>1
  <2> HIDE DEF m
  <2>3. t.codeSize <= t.available /\ t.available - t.codeSize < LiteralBits
    BY <1>2, <1>5, <1>6, <1>9
  <2>4. Good(SendNextCode(t))
    BY <1>6, <1>7, <1>8, <2>2, <2>3, SendNextCodeGood
  <2> QED
    BY <1>1, <1>6, <1>9, <2>4
<1>10. CASE ~(a >= s.codeSize)
  <2>1. a < s.codeSize
    BY <1>2, <1>5, <1>10
  <2>2. RingOK(t)
    <3>1. k + 1 \in 0..2
      BY <1>4, <2>1
    <3> QED
      BY <1>4, <1>6, <3>1 DEF Ring, RingOK
  <2>3. StageOK(t)
    BY <1>6, <1>7, <1>8, <2>1, <2>2, IsStage DEF LZWOK
  <2> QED
    BY <1>1, <1>6, <1>10, <2>3, Kept
<1> QED
  BY <1>9, <1>10

-----------------------------------------------------------------------------
(* Any decoder.                                                            *)

LEMMA KindOf ==
  ASSUME NEW s
  PROVE  /\ RunOK(s) => s.kind = "run"
         /\ LZWOK(s) => s.kind = "lzw"
         /\ Base85OK(s) => s.kind = "base85"
         /\ HexOK(s) => s.kind = "hex"
         /\ PredictorOK(s) => s.kind \in {"png", "tiff"}
         /\ AESOK(s) => s.kind = "aes"
<1>1. RunOK(s) => s.kind = "run"
  BY DEF RunOK
<1>2. LZWOK(s) => s.kind = "lzw"
  BY DEF LZWOK, LZWStage
<1>3. Base85OK(s) => s.kind = "base85"
  BY DEF Base85OK
<1>4. HexOK(s) => s.kind = "hex"
  BY DEF HexOK
<1>5. PredictorOK(s) => s.kind \in {"png", "tiff"}
  BY DEF PredictorOK
<1>6. AESOK(s) => s.kind = "aes"
  BY DEF AESOK
<1> QED
  BY <1>1, <1>2, <1>3, <1>4, <1>5, <1>6

LEMMA StepGood ==
  ASSUME NEW s, StageOK(s), NEW data \in Seq(Byte), data # <<>>
  PROVE  Good(Step(s, data))
<1> DEFINE ch == data[1]
<1>1. ch \in Byte
  OBVIOUS
<1> HIDE DEF ch
<1>2. CASE RunOK(s)
  <2>1. Step(s, data) = RunDecode(s, ch)
    BY <1>2, KindOf DEF Step, ch
  <2> QED
    BY <1>1, <1>2, <2>1, RunGood
<1>3. CASE LZWOK(s)
  <2>1. Step(s, data) = LZWDecode(s, ch)
    BY <1>3, KindOf DEF Step, ch
  <2> QED
    BY <1>1, <1>3, <2>1, LZWGood
<1>4. CASE Base85OK(s)
  <2>1. Step(s, data) = Decode85(s, ch)
    BY <1>4, KindOf DEF Step, ch
  <2> QED
    BY <1>1, <1>4, <2>1, Base85Good
<1>5. CASE HexOK(s)
  <2>1. Step(s, data) = DecodeHex(s, ch)
    BY <1>5, KindOf DEF Step, ch
  <2> QED
    BY <1>1, <1>5, <2>1, HexGood
<1>6. CASE PredictorOK(s)
  <2>1. Step(s, data) = PredictorWrite(s, data)
    BY <1>6, KindOf DEF Step
  <2> QED
    BY <1>6, <2>1, PredictorGood
<1>7. CASE AESOK(s)
  <2>1. Step(s, data) = AESWrite(s, data)
    BY <1>7, KindOf DEF Step
  <2> QED
    BY <1>7, <2>1, AESWriteGood
<1> QED
  BY <1>2, <1>3, <1>4, <1>5, <1>6, <1>7 DEF StageOK

LEMMA AtEndGood ==
  ASSUME NEW s, StageOK(s)
  PROVE  Good(AtEnd(s))
<1>1. Good(Keep(s))
  BY Kept
<1>2. CASE RunOK(s)
  <2>1. AtEnd(s) = Emit(s, s.out)
    BY <1>2, KindOf DEF AtEnd
  <2>2. s.out \in Seq(Byte) /\ 0 \in Nat
    BY <1>2 DEF RunOK
  <2> QED
    BY <2>1, <2>2, Emitted
<1>3. CASE LZWOK(s)
  <2>1. AtEnd(s) = Keep(s)
    BY <1>3, KindOf DEF AtEnd
  <2> QED
    BY <1>1, <2>1
<1>4. CASE Base85OK(s)
  <2>1. AtEnd(s) = IF s.error THEN Keep(s) ELSE Flush85(s)
    BY <1>4, KindOf DEF AtEnd
  <2>2. 0 \in Byte
    BY Sizes DEF Byte
  <2>3. Good(Flush85(s))
    BY <1>4, <2>2, Base85Good
  <2> QED
    BY <1>1, <2>1, <2>3
<1>5. CASE HexOK(s)
  <2>1. AtEnd(s) = FlushHex(s)
    BY <1>5, KindOf DEF AtEnd
  <2>2. 0 \in Byte
    BY Sizes DEF Byte
  <2> QED
    BY <1>5, <2>1, <2>2, HexGood
<1>6. CASE PredictorOK(s)
  <2>1. AtEnd(s) = IF s.pos > 0 THEN ProcessRow(s) ELSE Keep(s)
    BY <1>6, KindOf DEF AtEnd
  <2> QED
    BY <1>1, <1>6, <2>1, ProcessRowGood
<1>7. CASE AESOK(s)
  <2>1. AtEnd(s) = AESFinish(s)
    BY <1>7, KindOf DEF AtEnd
  <2> QED
    BY <1>7, <2>1, AESFinishGood
<1> QED
  BY <1>2, <1>3, <1>4, <1>5, <1>6, <1>7 DEF StageOK

(* Every decoder starts as it should be.                                   *)
Kinds == {"run", "lzw early", "lzw", "base85", "hex", "png", "tiff", "aes"}

LEMMA LZWStarts ==
  ASSUME NEW early \in 0..1
  PROVE  StageOK(LZWDecoder(early))
<1> DEFINE s == LZWDecoder(early)
           none == <<>>
           ring == <<0, 0, 0>>
           w == LiteralBits + 1
<1>1. s = [kind |-> "lzw", buf |-> ring, nextChar |-> 0, bytePos |-> 0, bitPos |-> 0, available |-> 0,
           codeSize |-> w, early |-> early, eod |-> FALSE, table |-> none, lastCode |-> Clear]
  BY DEF LZWDecoder
<1>2. ring \in [1..3 -> Byte]
  <2>1. ring \in Seq(Byte) /\ Len(ring) = 3
    BY Sizes DEF Byte
  <2> HIDE DEF ring
  <2> QED
    BY <2>1
<1>3. /\ LiteralBits \in Nat /\ LiteralBits >= 2 /\ w \in Nat /\ w \in (LiteralBits + 1)..MaxWidth
      /\ 0 \in 0..(LiteralBits - 1) /\ MaxWidth \in Nat /\ w <= MaxWidth /\ ~(w > LiteralBits + 1)
  BY Sizes
<1>4. none \in Seq(Seq(Byte) \ {<<>>}) /\ Len(none) = 0
  OBVIOUS
<1>5. Clear \in Nat /\ Octet = Clear /\ Clear >= 4 /\ FirstFree = Clear + 2
  BY Sizes DEF Clear, FirstFree
<1>6. Power(2, w) = 2 * Clear /\ Power(2, w) <= Power(2, MaxWidth) /\ Power(2, MaxWidth) \in Nat
  <2>1. Power(2, w) = 2 * Octet
    BY <1>3, PowerSteps DEF Octet
  <2> HIDE DEF w
  <2> QED
    BY <1>3, <1>5, <2>1, PowerSteps, PowerGrows
<1> HIDE DEF s, none, ring, w
<1>7. s \in LZWStage
  BY <1>1, <1>2, <1>3, <1>4, <1>5 DEF LZWStage
<1>8. RingOK(s)
  <2>1. 0 \in 0..2 /\ 0 + 0 = 0 * LiteralBits /\ 0 = (0 + 0) % 3
    BY <1>3
  <2>2. s.bitPos = 0 /\ s.available = 0 /\ s.nextChar = 0 /\ s.bytePos = 0
    BY <1>1
  <2> QED
    BY <2>1, <2>2 DEF RingOK
<1>9. CodeSizeOK(s)
  <2>1. FirstFree + Len(s.table) + s.early < Power(2, w) /\ s.codeSize = w
    BY <1>1, <1>4, <1>5, <1>6
  <2> QED
    BY <1>3, <2>1 DEF CodeSizeOK
<1>10. TableOK(s)
  <2>1. FirstFree + Len(s.table) <= Power(2, MaxWidth) /\ s.lastCode \in 0..Clear
    BY <1>1, <1>4, <1>5, <1>6
  <2> QED
    BY <2>1 DEF TableOK
<1>11. s.available < LiteralBits
  BY <1>1, <1>3
<1> QED
  BY <1>7, <1>8, <1>9, <1>10, <1>11, FitsIsStage DEF Fits, s

LEMMA DecoderStarts ==
  ASSUME NEW kind \in Kinds
  PROVE  StageOK(Decoder(kind))
<1>1. 0 \in Byte
  BY Sizes DEF Byte
<1>2. CASE kind = "run"
  <2>1. Decoder(kind) = RunDecoder
    BY <1>2 DEF Decoder
  <2>2. RunOK(RunDecoder)
    BY Sizes DEF RunOK, RunDecoder
  <2> QED
    BY <2>1, <2>2, IsStage
<1>3. CASE kind = "lzw early"
  <2>1. Decoder(kind) = LZWDecoder(1)
    BY <1>3, Zenon DEF Decoder
  <2>2. 1 \in 0..1
    OBVIOUS
  <2> QED
    BY <2>1, <2>2, LZWStarts
<1>4. CASE kind = "lzw"
  <2>1. Decoder(kind) = LZWDecoder(0)
    BY <1>4, Zenon DEF Decoder
  <2>2. 0 \in 0..1
    OBVIOUS
  <2> QED
    BY <2>1, <2>2, LZWStarts
<1>5. CASE kind = "base85"
  <2>1. Decoder(kind) = Decoder85
    BY <1>5 DEF Decoder
  <2> DEFINE d == Fill(<<>>, Group + 1, Radix - 1)
  <2>2. d \in [1..(Group + 1) -> 0..(Radix - 1)]
    <3>1. Group + 1 \in Nat /\ Radix - 1 \in 0..(Radix - 1)
      BY Sizes
    <3>2. d = [i \in 1..(Group + 1) |-> Radix - 1]
      BY <3>1, FillIs
    <3> QED
      BY <3>1, <3>2
  <2> HIDE DEF d
  <2>3. Decoder85 = [kind |-> "base85", inbuf |-> d, pos |-> 0, eod |-> 0, error |-> FALSE]
    BY DEF Decoder85, d
  <2>4. Base85OK(Decoder85)
    BY <2>2, <2>3, Sizes DEF Base85OK
  <2> QED
    BY <2>1, <2>4, IsStage
<1>6. CASE kind = "hex"
  <2>1. Decoder(kind) = HexDecoder
    BY <1>6 DEF Decoder
  <2> DEFINE d == <<0, 0>>
  <2>2. d \in [1..2 -> 0..(Nibble - 1)]
    BY Sizes
  <2> HIDE DEF d
  <2>3. HexDecoder = [kind |-> "hex", inbuf |-> d, pos |-> 0, eod |-> FALSE]
    BY DEF HexDecoder, d
  <2>4. HexOK(HexDecoder)
    BY <2>2, <2>3 DEF HexOK
  <2> QED
    BY <2>1, <2>4, IsStage
<1>7. CASE kind \in {"png", "tiff"}
  <2> DEFINE s == Predictor(kind, FALSE)
             row == Fill(<<>>, Row + 1, 0)
  <2>1. Decoder(kind) = s
    BY <1>7 DEF Decoder
  <2>2. row \in [1..(Row + 1) -> Byte]
    <3>1. Row + 1 \in Nat
      BY BlockFacts
    <3>2. row = [i \in 1..(Row + 1) |-> 0]
      BY <3>1, FillIs
    <3> QED
      BY <1>1, <3>2
  <2> HIDE DEF row
  <2>3. s = [kind |-> kind, encode |-> FALSE, row |-> row, prev |-> row, pos |-> 0]
    BY DEF Predictor, row
  <2> HIDE DEF s
  <2>4. PredictorOK(s)
    BY <1>7, <2>2, <2>3, BlockFacts DEF PredictorOK
  <2> QED
    BY <2>1, <2>4, IsStage
<1>8. CASE kind = "aes"
  <2> DEFINE s == AES(FALSE)
             none == <<>>
  <2>1. Decoder(kind) = s
    BY <1>8 DEF Decoder
  <2>2. s = [kind |-> "aes", encrypt |-> FALSE, inbuf |-> none, first |-> TRUE, cbc |-> Vector]
    BY DEF AES
  <2>3. none \in Seq(Byte) /\ Len(none) = 0
    OBVIOUS
  <2> HIDE DEF s, none
  <2>4. AESOK(s)
    BY <2>2, <2>3, BlockFacts DEF AESOK
  <2> QED
    BY <2>1, <2>4, IsStage
<1> QED
  BY <1>2, <1>3, <1>4, <1>5, <1>6, <1>7, <1>8 DEF Kinds

-----------------------------------------------------------------------------
(* The chain of them.  The states in it, and those that the calls under    *)
(* way will leave, are all as they should be.                              *)

Chains(S) == [stages : Seq(S), out : Seq(Byte), ready : BOOLEAN, threw : BOOLEAN]
Calls(S, n) ==
  {w \in [at : 1..(n + 1), data : Seq(Byte), back : S \cup {Idle}] : w.back # Idle => w.at > 1}

HeldIn(S) ==
  /\ \A s \in S : StageOK(s)
  /\ chain \in Chains(S) /\ writes \in Seq(Calls(S, Len(chain.stages)))
Held == \E S : HeldIn(S)

Typed ==
  /\ stream \in Streams
  /\ pc \in {"attempt", "writing", "providing", "finishing", "recovering",
             "succeeded", "failed", "threw", "done", "error"}
  /\ attempt \in 1..2 /\ filter \in BOOLEAN /\ filtered \in BOOLEAN
  /\ rest \in Seq(Byte) /\ ending \in Nat \ {0}
  /\ Writing => pc \in {"writing", "providing", "finishing", "recovering"}

IInv == Typed /\ Held

LEMMA SeqIn ==
  ASSUME NEW A, NEW B, NEW q \in Seq(A), \A i \in DOMAIN q : q[i] \in B
  PROVE  q \in Seq(B)
  OBVIOUS

LEMMA FrontAndLast ==
  ASSUME NEW T, NEW w \in Seq(T), w # <<>>
  PROVE  Last(w) \in T /\ Front(w) \in Seq(T)
<1>1. Len(w) \in Nat /\ Len(w) # 0
  OBVIOUS
<1>2. Last(w) \in T
  BY <1>1 DEF Last
<1>3. Front(w) \in Seq(T)
  BY <1>1 DEF Front
<1> QED
  BY <1>2, <1>3

LEMMA MoreStates ==
  ASSUME NEW S, NEW T, S \subseteq T, NEW n \in Nat
  PROVE  Seq(S) \subseteq Seq(T) /\ Chains(S) \subseteq Chains(T)
         /\ Calls(S, n) \subseteq Calls(T, n) /\ Seq(Calls(S, n)) \subseteq Seq(Calls(T, n))
<1>1. Seq(S) \subseteq Seq(T)
  BY SeqIn
<1>2. Chains(S) \subseteq Chains(T)
  BY <1>1 DEF Chains
<1>3. Calls(S, n) \subseteq Calls(T, n)
  BY DEF Calls
<1>4. Seq(Calls(S, n)) \subseteq Seq(Calls(T, n))
  BY <1>3, SeqIn
<1> QED
  BY <1>1, <1>2, <1>3, <1>4

LEMMA ChainUpdate ==
  ASSUME NEW S, NEW c \in Chains(S)
  PROVE  /\ \A o \in Seq(Byte) : [c EXCEPT !.out = o] \in Chains(S) /\ [c EXCEPT !.out = o].stages = c.stages
         /\ \A o \in Seq(Byte) : /\ [c EXCEPT !.out = o, !.ready = FALSE] \in Chains(S)
                                 /\ [c EXCEPT !.out = o, !.ready = FALSE].stages = c.stages
         /\ \A b \in BOOLEAN : [c EXCEPT !.ready = b] \in Chains(S) /\ [c EXCEPT !.ready = b].stages = c.stages
         /\ \A b \in BOOLEAN : [c EXCEPT !.threw = b] \in Chains(S) /\ [c EXCEPT !.threw = b].stages = c.stages
  BY DEF Chains

ChainOf(T, c, q) == c \in Chains(T) /\ c.stages = q

LEMMA StagesUpdate ==
  ASSUME NEW S, NEW T, NEW c \in Chains(S), NEW q \in Seq(T)
  PROVE  /\ ChainOf(T, [c EXCEPT !.stages = q], q)
         /\ ChainOf(T, [c EXCEPT !.stages = q, !.threw = FALSE], q)
  BY DEF Chains, ChainOf

LEMMA WithIs ==
  ASSUME NEW S, chain \in Chains(S), NEW i \in 1..Len(chain.stages), NEW s \in S
  PROVE  With(i, s) \in Chains(S) /\ Len(With(i, s).stages) = Len(chain.stages)
<1> DEFINE q == [chain.stages EXCEPT ![i] = s]
<1>1. chain.stages \in Seq(S)
  BY DEF Chains
<1>2. q \in Seq(S) /\ Len(q) = Len(chain.stages)
  BY <1>1
<1>3. With(i, s) = [chain EXCEPT !.stages = q]
  BY DEF With
<1> HIDE DEF q
<1>4. ChainOf(S, With(i, s), q)
  <2>1. ChainOf(S, [chain EXCEPT !.stages = q], q)
    BY <1>2, StagesUpdate
  <2> QED
    BY <1>3, <2>1, Zenon
<1> QED
  BY <1>2, <1>4 DEF ChainOf

LEMMA WriteToIs ==
  ASSUME NEW S, NEW n \in Nat, NEW i \in 1..(n + 1), NEW data \in Seq(Byte)
  PROVE  WriteTo(i, data) \in Seq(Calls(S, n))
<1>1. Call(i, data, Idle) \in Calls(S, n)
  BY DEF Call, Calls
<1> QED
  BY <1>1 DEF WriteTo

LEMMA StreamIs ==
  ASSUME NEW st \in Streams
  PROVE  st.before \in Seq({"aes"}) /\ st.filters \in Seq(STRING) /\ st.text \in Seq(Byte)
  BY StreamsAssumption

FirstStates == {Decoder(k) : k \in Kinds}

LEMMA StagesStart ==
  ASSUME NEW st \in Streams, NEW f \in BOOLEAN, f => Filterable(st)
  PROVE  Stages(st, f) \in Seq(FirstStates)
<1> DEFINE later == IF f THEN st.filters ELSE <<>>
           kinds == st.before \o later
<1>1. st.before \in Seq(Kinds)
  <2>1. "aes" \in Kinds
    BY Zenon DEF Kinds
  <2>2. st.before \in Seq({"aes"})
    BY StreamIs
  <2> QED
    BY <2>1, <2>2
<1>2. later \in Seq(Kinds)
  <2>1. CASE f
    <3>1. st.filters \in Seq(STRING) /\ Filterable(st)
      BY <2>1, StreamIs
    <3>2. \A i \in DOMAIN st.filters : st.filters[i] \in Kinds
      BY <3>1 DEF Filterable, ToSet, Kinds
    <3>3. st.filters \in Seq(Kinds)
      BY <3>1, <3>2, SeqIn
    <3> QED
      BY <2>1, <3>3
  <2>2. CASE ~f
    BY <2>2
  <2> QED
    BY <2>1, <2>2
<1> HIDE DEF later
<1>3. kinds \in Seq(Kinds)
  BY <1>1, <1>2
<1>4. Stages(st, f) = Decoders(kinds)
  BY DEF Stages, later
<1> HIDE DEF kinds
<1>5. Decoders(kinds) \in Seq(FirstStates)
  <2>1. \A i \in DOMAIN kinds : Decoder(kinds[i]) \in FirstStates
    BY <1>3 DEF FirstStates
  <2> QED
    BY <1>3, <2>1 DEF Decoders
<1> QED
  BY <1>4, <1>5

LEMMA InitIInv == Init => IInv
<1> SUFFICES ASSUME Init PROVE IInv
  OBVIOUS
<1>1. Typed
  <2>1. /\ stream \in Streams /\ pc = "attempt" /\ attempt = 1 /\ filter \in BOOLEAN
        /\ rest = <<>> /\ writes = <<>> /\ ending = 1
    BY DEF Init
  <2>2. filtered \in BOOLEAN
    BY Zenon DEF Init
  <2>3. rest \in Seq(Byte) /\ ~Writing
    BY <2>1 DEF Writing
  <2>4. attempt \in 1..2 /\ ending \in Nat \ {0}
    BY <2>1
  <2> QED
    BY <2>1, <2>2, <2>3, <2>4 DEF Typed
<1>2. HeldIn({})
  BY DEF Init, HeldIn, Chains, Chain
<1> QED
  BY <1>1, <1>2 DEF IInv, Held

(* An attempt begins with new decoders, and with no call under way.        *)
LEMMA BeginHolds ==
  ASSUME IInv, NEW how \in {"writing", "providing", "recovering"}, Begin(how),
         writes' = writes \/ writes' = WriteTo(1, stream.text),
         rest' \in Seq(Byte), how = "recovering" => writes' = writes
  PROVE  IInv'
<1>1. stream \in Streams /\ filter \in BOOLEAN /\ pc = "attempt" /\ writes = <<>> /\ attempt \in 1..2
  BY DEF IInv, Typed, Begin, Writing
<1>2. stream.text \in Seq(Byte)
  BY <1>1, StreamIs
<1> DEFINE f == Filters(filter)
           q == Stages(stream, f)
<1>3. f \in BOOLEAN /\ (f => Filterable(stream))
  BY DEF Filters
<1>4. /\ chain' = [chain EXCEPT !.stages = q, !.threw = FALSE]
      /\ pc' = how /\ filtered' = f /\ ending' = 1
      /\ stream' = stream /\ filter' = filter /\ attempt' = attempt
  BY DEF Begin, Ready, asked
<1> HIDE DEF f
<1>5. q \in Seq(FirstStates)
  BY <1>1, <1>3, StagesStart
<1> HIDE DEF q
<1>6. chain' \in Chains(FirstStates) /\ chain'.stages = q
  <2>1. PICK S : chain \in Chains(S)
    BY DEF IInv, Held, HeldIn
  <2>2. ChainOf(FirstStates, chain', q)
    BY <1>4, <1>5, <2>1, StagesUpdate
  <2> QED
    BY <2>2 DEF ChainOf
<1>7. writes' \in Seq(Calls(FirstStates, Len(q)))
  <2>1. Len(q) \in Nat /\ 1 \in 1..(Len(q) + 1)
    BY <1>5
  <2> DEFINE n == Len(q)
  <2> HIDE DEF n
  <2>2. WriteTo(1, stream.text) \in Seq(Calls(FirstStates, n))
    BY <1>2, <2>1, WriteToIs DEF n
  <2> DEFINE C == Calls(FirstStates, n)
  <2> HIDE DEF C
  <2>3. <<>> \in Seq(C)
    OBVIOUS
  <2>4. writes' \in Seq(C)
    BY <1>1, <2>2, <2>3 DEF C
  <2> QED
    BY <2>4 DEF C, n
<1>8. \A s \in FirstStates : StageOK(s)
  BY DecoderStarts DEF FirstStates
<1>9. Held'
  BY <1>6, <1>7, <1>8 DEF Held, HeldIn
<1>10. Typed'
  BY <1>1, <1>3, <1>4 DEF Typed, Writing
<1> QED
  BY <1>9, <1>10 DEF IInv

LEMMA PipesHold == ASSUME IInv, PipeFile \/ PipeBuffer \/ PipeProvider PROVE IInv'
<1>1. stream \in Streams /\ rest \in Seq(Byte)
  BY DEF IInv, Typed
<1>2. stream.text \in Seq(Byte)
  BY <1>1, StreamIs
<1>3. CASE PipeFile
  <2>1. CASE Begin("writing") /\ writes' = WriteTo(1, stream.text) /\ rest' = rest
    BY <1>1, <2>1, BeginHolds
  <2>2. CASE Begin("recovering") /\ writes' = writes /\ rest' = rest
    BY <1>1, <2>2, BeginHolds
  <2> QED
    BY <1>3, <2>1, <2>2 DEF PipeFile
<1>4. CASE PipeBuffer
  <2>1. Begin("writing") /\ writes' = WriteTo(1, stream.text) /\ rest' = rest
    BY <1>4 DEF PipeBuffer
  <2> QED
    BY <1>1, <2>1, BeginHolds
<1>5. CASE PipeProvider
  <2>1. Begin("providing") /\ writes' = writes /\ rest' = stream.text
    BY <1>5 DEF PipeProvider
  <2> QED
    BY <1>2, <2>1, BeginHolds
<1> QED
  BY <1>3, <1>4, <1>5

(* What was said of the innermost call holds of the ones that remain.      *)
LEMMA InnermostIs ==
  ASSUME NEW S, HeldIn(S), Writing
  PROVE  /\ Innermost.at \in 1..(Len(chain.stages) + 1) /\ Innermost.data \in Seq(Byte)
         /\ Innermost.back # Idle => Innermost.back \in S /\ Innermost.at > 1
         /\ Front(writes) \in Seq(Calls(S, Len(chain.stages)))
         /\ Len(chain.stages) \in Nat /\ chain.stages \in Seq(S) /\ chain.out \in Seq(Byte)
<1>1. chain.stages \in Seq(S) /\ chain.out \in Seq(Byte)
  BY DEF HeldIn, Chains
<1> DEFINE n == Len(chain.stages)
<1>2. n \in Nat
  BY <1>1
<1> HIDE DEF n
<1> DEFINE C == Calls(S, n)
<1>3. writes \in Seq(C) /\ writes # <<>>
  BY DEF HeldIn, Writing, n
<1> HIDE DEF C
<1>4. Innermost \in C /\ Front(writes) \in Seq(C)
  BY <1>3, FrontAndLast DEF Innermost
<1>5. /\ Innermost.at \in 1..(n + 1) /\ Innermost.data \in Seq(Byte)
      /\ Innermost.back # Idle => Innermost.back \in S /\ Innermost.at > 1
  BY <1>4 DEF C, Calls
<1> QED
  BY <1>1, <1>2, <1>4, <1>5 DEF n, C

LEMMA WriteReturnsHolds == ASSUME IInv, WriteReturns PROVE IInv'
<1>1. PICK S : HeldIn(S)
  BY DEF IInv, Held
<1> DEFINE w == Innermost
           resumed == IF w.back = Idle THEN chain ELSE With(w.at - 1, w.back)
           out == resumed.out \o w.data
<1>2. /\ Writing /\ writes' = Front(writes)
      /\ chain' = IF AtTheEnd(w) THEN [resumed EXCEPT !.out = out, !.ready = FALSE] ELSE resumed
      /\ UNCHANGED <<asked, trying, pc, rest, ending>>
  BY DEF WriteReturns
<1>3. /\ w.at \in 1..(Len(chain.stages) + 1) /\ w.data \in Seq(Byte)
      /\ w.back # Idle => w.back \in S /\ w.at > 1
      /\ Front(writes) \in Seq(Calls(S, Len(chain.stages)))
      /\ Len(chain.stages) \in Nat
  BY <1>1, <1>2, InnermostIs
<1> HIDE DEF w
<1>4. resumed \in Chains(S) /\ Len(resumed.stages) = Len(chain.stages)
  <2>1. chain \in Chains(S)
    BY <1>1 DEF HeldIn
  <2>2. CASE w.back = Idle
    BY <2>1, <2>2
  <2>3. CASE w.back # Idle
    <3> DEFINE i == w.at - 1
               b == w.back
    <3>1. i \in 1..Len(chain.stages) /\ b \in S
      BY <1>3, <2>3
    <3> HIDE DEF i, b
    <3>2. With(i, b) \in Chains(S) /\ Len(With(i, b).stages) = Len(chain.stages)
      BY <2>1, <3>1, WithIs
    <3> QED
      BY <2>3, <3>2 DEF i, b
  <2> QED
    BY <2>2, <2>3
<1> HIDE DEF resumed
<1>5. out \in Seq(Byte)
  BY <1>3, <1>4 DEF Chains
<1> HIDE DEF out
<1>6. chain' \in Chains(S) /\ Len(chain'.stages) = Len(chain.stages)
  <2>1. /\ [resumed EXCEPT !.out = out, !.ready = FALSE] \in Chains(S)
        /\ [resumed EXCEPT !.out = out, !.ready = FALSE].stages = resumed.stages
    BY <1>4, <1>5, ChainUpdate
  <2> QED
    BY <1>2, <1>4, <2>1
<1>7. HeldIn(S)'
  <2>1. \A s \in S : StageOK(s)
    BY <1>1 DEF HeldIn
  <2> QED
    BY <1>2, <1>3, <1>6, <2>1 DEF HeldIn
<1>8. Typed'
  <2>1. pc \in {"writing", "providing", "finishing", "recovering"}
    BY <1>2 DEF IInv, Typed
  <2> QED
    BY <1>2, <2>1 DEF IInv, Typed, asked, trying, Writing
<1> QED
  BY <1>7, <1>8 DEF IInv, Held

LEMMA WriteGoesOnHolds == ASSUME IInv, WriteGoesOn PROVE IInv'
<1>1. PICK S : HeldIn(S)
  BY DEF IInv, Held
<1> DEFINE w == Innermost
           n == Len(chain.stages)
           s == chain.stages[w.at]
           did == Step(s, w.data)
           more == SubSeq(w.data, did.used + 1, Len(w.data))
           left == [w EXCEPT !.data = more]
           taken == Append(Front(writes), left)
           T == S \cup {did.s, did.during}
<1>2. /\ Writing /\ ~AtTheEnd(w) /\ w.data # <<>>
      /\ UNCHANGED <<asked, trying, pc, rest, ending>>
  BY DEF WriteGoesOn
<1>3. /\ \/ did.threw /\ chain' = [With(w.at, did.s) EXCEPT !.threw = TRUE] /\ writes' = <<>>
         \/ chain' = With(w.at, did.s) /\ writes' = taken
         \/ chain' = With(w.at, did.during) /\ writes' = Append(taken, Call(w.at + 1, did.emit, did.s))
  BY DEF WriteGoesOn
<1>4. /\ w.at \in 1..(n + 1) /\ w.data \in Seq(Byte)
      /\ w.back # Idle => w.back \in S /\ w.at > 1
      /\ Front(writes) \in Seq(Calls(S, n))
      /\ n \in Nat /\ chain.stages \in Seq(S)
  BY <1>1, <1>2, InnermostIs
<1>5. w.at \in 1..n
  BY <1>2, <1>4 DEF AtTheEnd
<1>6. StageOK(s)
  <2>1. s \in S
    BY <1>4, <1>5
  <2> HIDE DEF s
  <2> QED
    BY <1>1, <2>1 DEF HeldIn
<1>w. w \in Calls(S, n)
  <2> DEFINE C == Calls(S, n)
  <2>1. writes \in Seq(C) /\ writes # <<>>
    BY <1>1, <1>2 DEF HeldIn, Writing
  <2> HIDE DEF C
  <2>2. w \in C
    BY <2>1, FrontAndLast DEF Innermost
  <2> QED
    BY <2>2 DEF C
<1> HIDE DEF w, s
<1>7. Good(did)
  BY <1>2, <1>4, <1>6, StepGood
<1> HIDE DEF did
<1>8. /\ StageOK(did.s) /\ StageOK(did.during)
      /\ did.emit \in Seq(Byte) /\ did.used \in Nat
  BY <1>7 DEF Good
<1>9. /\ \A t \in T : StageOK(t)
      /\ did.s \in T /\ did.during \in T /\ S \subseteq T
  BY <1>1, <1>8 DEF HeldIn
<1> HIDE DEF T, n
<1>10. chain \in Chains(T) /\ Front(writes) \in Seq(Calls(T, n)) /\ w \in Calls(T, n)
  <2>1. Chains(S) \subseteq Chains(T) /\ Calls(S, n) \subseteq Calls(T, n) /\ Seq(Calls(S, n)) \subseteq Seq(Calls(T, n))
    BY <1>4, <1>9, MoreStates
  <2> QED
    BY <1>1, <1>4, <1>w, <2>1 DEF HeldIn
<1>11. left \in Calls(T, n)
  <2>1. more \in Seq(Byte)
    BY <1>4, <1>8
  <2> HIDE DEF more
  <2> QED
    BY <1>10, <2>1 DEF Calls
<1>12. Call(w.at + 1, did.emit, did.s) \in Calls(T, n)
  BY <1>4, <1>5, <1>8, <1>9 DEF Call, Calls
<1>13. /\ With(w.at, did.s) \in Chains(T) /\ Len(With(w.at, did.s).stages) = n
       /\ With(w.at, did.during) \in Chains(T) /\ Len(With(w.at, did.during).stages) = n
  BY <1>5, <1>9, <1>10, WithIs DEF n
<1> DEFINE C == Calls(T, n)
<1> HIDE DEF left, C
<1>14. taken \in Seq(C) /\ Append(taken, Call(w.at + 1, did.emit, did.s)) \in Seq(C) /\ <<>> \in Seq(C)
  <2>1. taken \in Seq(C)
    BY <1>10, <1>11 DEF C
  <2> HIDE DEF taken
  <2> QED
    BY <1>12, <2>1 DEF C
<1> DEFINE again == With(w.at, did.s)
<1>15. [again EXCEPT !.threw = TRUE] \in Chains(T) /\ [again EXCEPT !.threw = TRUE].stages = again.stages
  <2> HIDE DEF again
  <2> QED
    BY <1>13, ChainUpdate DEF again
<1> HIDE DEF taken
<1>16. chain' \in Chains(T) /\ Len(chain'.stages) = n /\ writes' \in Seq(C)
  BY <1>3, <1>13, <1>14, <1>15
<1>17. Held'
  BY <1>9, <1>16 DEF Held, HeldIn, C
<1>18. Typed'
  <2>1. pc \in {"writing", "providing", "finishing", "recovering"}
    BY <1>2 DEF IInv, Typed
  <2> QED
    BY <1>2, <2>1 DEF IInv, Typed, asked, trying, Writing
<1> QED
  BY <1>17, <1>18 DEF IInv

LEMMA ProviderWritesHolds == ASSUME IInv, ProviderWrites PROVE IInv'
<1>1. PICK S : HeldIn(S)
  BY DEF IInv, Held
<1>2. PICK k \in 1..Len(rest) :
        /\ writes' = WriteTo(1, SubSeq(rest, 1, k))
        /\ rest' = SubSeq(rest, k + 1, Len(rest))
  BY DEF ProviderWrites
<1>3. pc = "providing" /\ UNCHANGED <<asked, trying, pc, chain, ending>>
  BY DEF ProviderWrites
<1>4. rest \in Seq(Byte)
  BY DEF IInv, Typed
<1> DEFINE n == Len(chain.stages)
           data == SubSeq(rest, 1, k)
<1>5. data \in Seq(Byte) /\ rest' \in Seq(Byte)
  BY <1>2, <1>4
<1>6. n \in Nat /\ 1 \in 1..(n + 1)
  <2>1. chain.stages \in Seq(S)
    BY <1>1 DEF HeldIn, Chains
  <2> QED
    BY <2>1
<1> HIDE DEF n, data
<1>7. WriteTo(1, data) \in Seq(Calls(S, n))
  BY <1>5, <1>6, WriteToIs
<1>8. HeldIn(S)'
  BY <1>1, <1>2, <1>3, <1>7 DEF HeldIn, n, data
<1>9. Typed'
  BY <1>3, <1>5 DEF IInv, Typed, asked, trying
<1> QED
  BY <1>8, <1>9 DEF IInv, Held

(* When no call is under way, what is said of the calls says nothing.      *)
LEMMA NoCalls ==
  ASSUME NEW S, HeldIn(S), chain' \in Chains(S), chain'.stages = chain.stages, writes' = writes
  PROVE  Held'
  BY DEF Held, HeldIn

LEMMA WrittenHolds == ASSUME IInv, Written PROVE IInv'
<1>1. PICK S : HeldIn(S)
  BY DEF IInv, Held
<1>2. /\ ~Writing /\ UNCHANGED <<asked, trying, rest, writes, ending>>
      /\ pc' \in {"finishing", "recovering", "threw"}
      /\ chain' = [chain EXCEPT !.threw = FALSE] \/ chain' = chain
  BY DEF Written
<1>3. chain' \in Chains(S) /\ chain'.stages = chain.stages
  <2>1. chain \in Chains(S) /\ FALSE \in BOOLEAN
    BY <1>1 DEF HeldIn
  <2> QED
    BY <1>2, <2>1, ChainUpdate
<1>4. Held'
  BY <1>1, <1>2, <1>3, NoCalls
<1>5. Typed'
  BY <1>2 DEF IInv, Typed, asked, trying, Writing
<1> QED
  BY <1>4, <1>5 DEF IInv

LEMMA FinishNextHolds == ASSUME IInv, FinishNext PROVE IInv'
<1>1. PICK S : HeldIn(S)
  BY DEF IInv, Held
<1> DEFINE n == Len(chain.stages)
           s == chain.stages[ending]
           end == AtEnd(s)
           T == S \cup {end.s}
           next == ending + 1
<1>2. /\ pc \in {"finishing", "recovering"} /\ UNCHANGED <<asked, trying, pc, rest>>
      /\ chain' = With(ending, end.s) /\ writes' = WriteTo(next, end.emit) /\ ending' = next
      /\ ending <= n
  BY DEF FinishNext, MoreToFinish
<1>3. chain.stages \in Seq(S) /\ n \in Nat /\ ending \in 1..n /\ next \in 1..(n + 1) /\ next \in Nat \ {0}
  <2>1. chain.stages \in Seq(S)
    BY <1>1 DEF HeldIn, Chains
  <2>2. ending \in Nat \ {0}
    BY DEF IInv, Typed
  <2> QED
    BY <1>2, <2>1, <2>2
<1>4. StageOK(s)
  <2>1. s \in S
    BY <1>3
  <2> HIDE DEF s
  <2> QED
    BY <1>1, <2>1 DEF HeldIn
<1> HIDE DEF s, next
<1>5. Good(end)
  BY <1>4, AtEndGood
<1> HIDE DEF end
<1>6. StageOK(end.s) /\ end.emit \in Seq(Byte)
  BY <1>5 DEF Good
<1>7. (\A t \in T : StageOK(t)) /\ end.s \in T /\ S \subseteq T
  BY <1>1, <1>6 DEF HeldIn
<1> HIDE DEF T, n
<1>8. chain \in Chains(T)
  BY <1>1, <1>3, <1>7, MoreStates DEF HeldIn
<1>9. chain' \in Chains(T) /\ Len(chain'.stages) = n
  BY <1>2, <1>3, <1>7, <1>8, WithIs DEF n
<1>10. writes' \in Seq(Calls(T, n))
  BY <1>2, <1>3, <1>6, WriteToIs
<1>11. Held'
  BY <1>7, <1>9, <1>10 DEF Held, HeldIn
<1>12. Typed'
  BY <1>2, <1>3 DEF IInv, Typed, asked, trying
<1> QED
  BY <1>11, <1>12 DEF IInv

LEMMA FinishReturnsHolds == ASSUME IInv, FinishReturns PROVE IInv'
<1>1. PICK S : HeldIn(S)
  BY DEF IInv, Held
<1> DEFINE ready == chain.ready \/ (~chain.threw /\ ending > Len(chain.stages))
           did == filtered /\ pc' # "failed"
<1>2. /\ ~Writing /\ UNCHANGED <<asked, filter, attempt, rest, writes, ending>>
      /\ pc' \in {"failed", "threw", "succeeded"}
      /\ chain' = [chain EXCEPT !.ready = ready] /\ filtered' = did
  BY DEF FinishReturns
<1>3. chain \in Chains(S)
  BY <1>1 DEF HeldIn
<1>4. ready \in BOOLEAN /\ did \in BOOLEAN
  OBVIOUS
<1> HIDE DEF ready, did
<1>5. chain' \in Chains(S) /\ chain'.stages = chain.stages
  BY <1>2, <1>3, <1>4, ChainUpdate
<1>6. Held'
  BY <1>1, <1>2, <1>5, NoCalls
<1>7. Typed'
  BY <1>2, <1>4 DEF IInv, Typed, asked, Writing
<1> QED
  BY <1>6, <1>7 DEF IInv

LEMMA CallersHold == ASSUME IInv, WriterGoesOn \/ JSONGoesOn PROVE IInv'
<1>1. PICK S : HeldIn(S)
  BY DEF IInv, Held
<1>2. chain \in Chains(S) /\ <<>> \in Seq(Byte)
  BY <1>1 DEF HeldIn
<1>3. /\ pc \in {"succeeded", "failed", "threw"} /\ UNCHANGED <<asked, filtered, writes, ending>>
      /\ Again \/ End("done") \/ End("error")
  BY DEF WriterGoesOn, JSONGoesOn
<1>4. ~Writing
  BY <1>3 DEF IInv, Typed
<1>5. CASE Again
  <2>1. /\ filter' = FALSE /\ attempt' = 2 /\ pc' = "attempt" /\ rest' = <<>>
        /\ chain' = [chain EXCEPT !.out = <<>>]
    BY <1>5 DEF Again
  <2>2. chain' \in Chains(S) /\ chain'.stages = chain.stages
    BY <1>2, <2>1, ChainUpdate
  <2>3. Held'
    BY <1>1, <1>3, <2>2, NoCalls
  <2>4. filter' \in BOOLEAN /\ rest' \in Seq(Byte) /\ attempt' \in 1..2
    <3>1. filter' \in BOOLEAN
      BY <2>1, Zenon
    <3> QED
      BY <2>1, <3>1
  <2>5. Typed'
    BY <1>3, <1>4, <2>1, <2>4 DEF IInv, Typed, asked, Writing
  <2> QED
    BY <2>3, <2>5 DEF IInv
<1>6. CASE End("done") \/ End("error")
  <2>1. pc' \in {"done", "error"} /\ UNCHANGED <<filter, attempt, rest, chain>>
    BY <1>6 DEF End
  <2>2. Held'
    BY <1>1, <1>2, <1>3, <2>1, NoCalls
  <2>3. Typed'
    BY <1>3, <1>4, <2>1 DEF IInv, Typed, asked, Writing
  <2> QED
    BY <2>2, <2>3 DEF IInv
<1> QED
  BY <1>3, <1>5, <1>6

LEMMA StepIInv == IInv /\ [Next]_vars => IInv'
<1> SUFFICES ASSUME IInv, [Next]_vars PROVE IInv'
  OBVIOUS
<1>1. CASE PipeFile \/ PipeBuffer \/ PipeProvider
  BY <1>1, PipesHold
<1>2. CASE ProviderWrites
  BY <1>2, ProviderWritesHolds
<1>3. CASE WriteReturns
  BY <1>3, WriteReturnsHolds
<1>4. CASE WriteGoesOn
  BY <1>4, WriteGoesOnHolds
<1>5. CASE Written
  BY <1>5, WrittenHolds
<1>6. CASE FinishNext
  BY <1>6, FinishNextHolds
<1>7. CASE FinishReturns
  BY <1>7, FinishReturnsHolds
<1>8. CASE WriterGoesOn \/ JSONGoesOn
  BY <1>8, CallersHold
<1>9. CASE Finished \/ UNCHANGED vars
  <2>1. UNCHANGED vars
    BY <1>9 DEF Finished
  <2> QED
    BY <2>1 DEF IInv, Typed, Held, HeldIn, Writing, vars, asked, trying
<1> QED
  BY <1>1, <1>2, <1>3, <1>4, <1>5, <1>6, <1>7, <1>8, <1>9 DEF Next

(* No decoder writes or reads outside its buffers, and each has the state  *)
(* that its code relies on: for data of any length, right or damaged, in   *)
(* pieces of any size, through any filters; at the end of the data; and    *)
(* after an exception of a later one has cut its write short.              *)
THEOREM DecodersStayInBuffers == Spec => []StaysInBuffers
<1>1. IInv => StaysInBuffers
  <2> SUFFICES ASSUME IInv PROVE StaysInBuffers
    OBVIOUS
  <2>1. PICK S : HeldIn(S)
    BY DEF IInv, Held
  <2>2. chain.stages \in Seq(S) /\ chain.out \in Seq(Byte)
    BY <2>1 DEF HeldIn, Chains
  <2>3. \A i \in DOMAIN chain.stages : StageOK(chain.stages[i])
    <3>1. \A i \in DOMAIN chain.stages : chain.stages[i] \in S
      BY <2>2
    <3> QED
      BY <2>1, <3>1 DEF HeldIn
  <2> QED
    BY <2>2, <2>3 DEF IInv, Typed, StaysInBuffers
<1> QED
  BY <1>1, InitIInv, StepIInv, PTL DEF Spec
=============================================================================
