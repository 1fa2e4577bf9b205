------------------------------ MODULE Formats ------------------------------
(***************************************************************************)
(* What the encodings of streams are, for encodings that qpdf only reads   *)
(* (PDF 32000-1, 7.4): encoders against which its decoders are checked.    *)
(* Sizes are parameters, so that tables and words that fill up do so soon. *)
(* A byte is a number below Octet, and so is a character: what the bytes   *)
(* mean as characters is the alphabet of the encoding.                     *)
(***************************************************************************)
EXTENDS Integers, Sequences, SequencesExt

CONSTANTS
  LiteralBits,  \* bits of a byte: 8
  Radix,        \* the radix of base 85: 85
  Group,        \* how many bytes are a group of base 85: 4
  MaxWidth      \* bits of the longest code of LZW: 12

(* A recursive function, which can be reasoned about.                      *)
Power(base, n) == LET p[k \in Nat] == IF k = 0 THEN 1 ELSE base * p[k - 1] IN p[n]

Octet == Power(2, LiteralBits)
Byte == 0..(Octet - 1)
Nibble == Power(2, LiteralBits \div 2)   \* the radix of a hexadecimal digit: 16

(* Digits are the characters from 0 on; > is a digit of base 85 too.       *)
Gt == Nibble + 1
Space == Octet - 1     \* any whitespace
Tilde == Octet - 2
Zee == Octet - 3       \* z, for a group of zeros

ASSUME FormatsAssumption ==
  /\ LiteralBits \in Nat \ {0, 1} /\ LiteralBits % 2 = 0 /\ Group \in Nat \ {0}
  /\ Radix \in Nat /\ Gt < Radix /\ Radix < Zee /\ Power(Radix, Group + 1) >= Power(Octet, Group)
  /\ MaxWidth \in (LiteralBits + 1)..(2 * LiteralBits)

(* Digits of a number, most significant first, and back.                   *)
ToDigits(v, base, n) == [i \in 1..n |-> (v \div Power(base, n - i)) % base]
OfDigits(d, base) ==
  LET v[i \in 0..Len(d)] == IF i = 0 THEN 0 ELSE (v[i - 1] * base) + d[i] IN v[Len(d)]

(* The groups of n of a sequence, the last one maybe shorter.              *)
Groups(s, n) == [i \in 1..((Len(s) + n - 1) \div n) |-> SubSeq(s, ((i - 1) * n) + 1, Min({i * n, Len(s)}))]
Fill(s, n, x) == [i \in 1..n |-> IF i <= Len(s) THEN s[i] ELSE x]

Hex(x) == FlattenSeq([i \in DOMAIN x |-> ToDigits(x[i], Nibble, 2)])

Base85(x) ==
  LET word(g) == SubSeq(ToDigits(OfDigits(Fill(g, Group, 0), Octet), Radix, Group + 1), 1, Len(g) + 1)
      zero(g) == Len(g) = Group /\ ToSet(g) = {0}
      groups == Groups(x, Group)
  IN FlattenSeq([i \in DOMAIN groups |-> IF zero(groups[i]) THEN <<Zee>> ELSE word(groups[i])])

(* LZW: the codes for the longest strings in a table that grows with each  *)
(* code and is cleared when it is full; code number j since then has the   *)
(* width that the entry before needs, one code early or not.               *)
Clear == Octet
EndOfData == Octet + 1
FirstFree == Octet + 2

CodeOf(w, table) ==
  IF Len(w) = 1 THEN w[1]
  ELSE FirstFree - 1 + CHOOSE i \in DOMAIN table : table[i] = w

Width(j, early) ==
  LiteralBits + 1 + Cardinality({v \in (LiteralBits + 1)..(MaxWidth - 1) :
                                    j > 1 /\ FirstFree + j - 2 >= Power(2, v) - early})

LZWCodes(x, early) ==
  LET put(e, c) == [e EXCEPT !.codes = Append(@, <<c, Width(e.j, early)>>),
                             !.j = IF c = Clear THEN 1 ELSE @ + 1]
      emit(e) == IF e.w = <<>> THEN e ELSE put(e, CodeOf(e.w, e.table))
      grow(e, b) == [e EXCEPT !.table = Append(@, Append(e.w, b)), !.w = <<b>>]
      full(e) == IF FirstFree + Len(e.table) = Power(2, MaxWidth) THEN [put(e, Clear) EXCEPT !.table = <<>>] ELSE e
      step(e, b) == IF e.w = <<>> \/ Append(e.w, b) \in ToSet(e.table)
                    THEN [e EXCEPT !.w = Append(@, b)]
                    ELSE full(grow(emit(e), b))
      start == [w |-> <<>>, table |-> <<>>, j |-> 1, codes |-> <<>>]
  IN put(emit(FoldLeft(step, put(start, Clear), x)), EndOfData).codes

LZW(x, early) ==
  LET codes == LZWCodes(x, early)
      bits == FlattenSeq([i \in DOMAIN codes |-> ToDigits(codes[i][1], 2, codes[i][2])])
      bytes == Groups(bits, LiteralBits)
  IN [i \in DOMAIN bytes |-> OfDigits(Fill(bytes[i], LiteralBits, 0), 2)]

(* A block cipher and its inverse, and the chaining of blocks (a sum here, *)
(* an exclusive or there).                                                 *)
Encipher(b) == [i \in DOMAIN b |-> (b[Len(b) + 1 - i] + (3 * i)) % Octet]
Decipher(b) == [i \in DOMAIN b |-> (b[Len(b) + 1 - i] - (3 * (Len(b) + 1 - i))) % Octet]
Chained(b, c) == [i \in DOMAIN b |-> (b[i] + c[i]) % Octet]
Unchained(b, c) == [i \in DOMAIN b |-> (b[i] - c[i]) % Octet]
=============================================================================
