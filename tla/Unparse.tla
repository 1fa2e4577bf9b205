------------------------------ MODULE Unparse ------------------------------
(***************************************************************************)
(* How objects are written (QPDF_String.cc, QPDFObjectHandle.cc), in the   *)
(* terms of Parser: the text that BaseHandle::unparse makes of an object.  *)
(***************************************************************************)
EXTENDS Parser

HexDigit(n) == IF n < 10 THEN 48 + n ELSE 87 + n
HexOf(c) == <<HexDigit(c \div 16), HexDigit(c % 16)>>
Digits(n) ==
  LET width == CHOOSE w \in 1..10 : n < 10^w /\ \A v \in 1..(w - 1) : n >= 10^v
  IN [i \in 1..width |-> 48 + ((n \div 10^(width - i)) % 10)]
UnparseInt(n) == IF n < 0 THEN <<Minus>> \o Digits(-n) ELSE Digits(n)

(* Hexadecimal if there are control characters, or more than a fifth of    *)
(* the characters are not of ASCII.                                        *)
Named == {LF, CR, HT, 8, FF}
UseHexString(v) ==
  \/ \E i \in DOMAIN v : v[i] < 24 /\ v[i] \notin Named
  \/ 5 * Cardinality({i \in DOMAIN v : v[i] > 126 \/ v[i] \in 24..31}) > Len(v)

Escaped(c) ==
  CASE c \in Named -> <<Backslash, CHOOSE e \in DOMAIN Escapes : Escapes[e] = c>>
    [] c \in {LParen, RParen, Backslash} -> <<Backslash, c>>
    [] c \in (32..126) \ {LParen, RParen, Backslash} \/ c >= 160 -> <<c>>
    [] OTHER -> <<Backslash, 48 + (c \div 64), 48 + ((c \div 8) % 8), 48 + (c % 8)>>

UnparseString(v) ==
  IF UseHexString(v)
  THEN <<Lt>> \o FlattenSeq([i \in DOMAIN v |-> HexOf(v[i])]) \o <<Gt>>
  ELSE <<LParen>> \o FlattenSeq([i \in DOMAIN v |-> Escaped(v[i])]) \o <<RParen>>

(* Name::normalize; a null stands for a # that is no escape.               *)
NormalizeName(v) ==
  LET coded(c) == IF c = NUL THEN <<Hash>>
                  ELSE IF c < 33 \/ c > 126 \/ c = Hash \/ c \in Delimiter THEN <<Hash>> \o HexOf(c)
                  ELSE <<c>>
  IN <<v[1]>> \o FlattenSeq([i \in 1..(Len(v) - 1) |-> coded(v[i + 1])])

(* A value of null is left out of a dictionary.                            *)
Spaced(words) == FlattenSeq([i \in DOMAIN words |-> words[i] \o <<SP>>])
RECURSIVE UnparseObject(_)
UnparseObject(o) ==
  LET present == SetToSeq({n \in DOMAIN o.map : o.map[n] # Null})
      entry(n) == NormalizeName(n) \o <<SP>> \o UnparseObject(o.map[n])
  IN CASE o.type = "null" -> Word.null
       [] o.type \in {"bool", "real", "operator", "image"} -> o.v
       [] o.type = "integer" -> UnparseInt(o.v[1])
       [] o.type = "reference" -> Digits(o.v[1]) \o <<SP>> \o Digits(o.v[2]) \o <<SP>> \o WordR
       [] o.type = "string" -> UnparseString(o.v)
       [] o.type = "name" -> NormalizeName(o.v)
       [] o.type = "array" -> <<LBracket, SP>> \o Spaced([i \in DOMAIN o.kids |-> UnparseObject(o.kids[i])]) \o <<RBracket>>
       [] o.type = "dictionary" -> <<Lt, Lt, SP>> \o Spaced([i \in DOMAIN present |-> entry(present[i])]) \o <<Gt, Gt>>
=============================================================================
