----------------------------- MODULE Tokenizer -----------------------------
(***************************************************************************)
(* The tokenizer of QPDFTokenizer.cc: a machine that is fed a character at *)
(* a time, the loop that feeds it from an input source, and the search for *)
(* the end of an inline image, which runs further tokenizers over what     *)
(* follows.  A character is its code; a text is a sequence of them, and    *)
(* the position in it is the number of characters before.                  *)
(***************************************************************************)
EXTENDS Integers, Sequences, SequencesExt, FiniteSetsExt

NUL == 0   HT == 9   LF == 10   VT == 11   FF == 12   CR == 13   SP == 32
Hash == 35   Percent == 37   LParen == 40   RParen == 41   Star == 42
Plus == 43   Minus == 45   Dot == 46   Slash == 47   Lt == 60   Gt == 62
LBracket == 91   Backslash == 92   RBracket == 93   LBrace == 123   RBrace == 125

Space == {NUL, HT, LF, VT, FF, CR, SP}
Delimiter == Space \cup {Slash, LParen, RParen, LBrace, RBrace, Lt, Gt, LBracket, RBracket, Percent}
Digit == 48..57
Octal == 48..55
Letter == (65..90) \cup (97..122)
Nibbles == Digit \cup (65..70) \cup (97..102)
NibbleOf(c) == IF c \in Digit THEN c - 48 ELSE IF c < 97 THEN c - 55 ELSE c - 87

Word == [eye |-> <<69, 73>>, id |-> <<73, 68>>, true |-> <<116, 114, 117, 101>>,
         false |-> <<102, 97, 108, 115, 101>>, null |-> <<110, 117, 108, 108>>]

(* The tokenizer: before says that nothing of a token has been seen, in    *)
(* that the character at hand belongs to it; neither means that it has to  *)
(* be put back.  image is the length of an inline image, 0 if unknown.     *)
Reset(t) ==
  [t EXCEPT !.state = "before_token", !.type = "bad", !.val = <<>>, !.raw = <<>>, !.error = FALSE,
            !.before = TRUE, !.in = FALSE, !.image = 0, !.depth = 0, !.bad = FALSE]

NewTokenizer(allowEOF, ignorable) ==
  [allowEOF |-> allowEOF, ignorable |-> ignorable, state |-> "before_token", type |-> "bad",
   val |-> <<>>, raw |-> <<>>, error |-> FALSE, before |-> TRUE, in |-> FALSE, image |-> 0,
   depth |-> 0, bad |-> FALSE, code |-> 0, digits |-> 0, hex |-> 0]

To(t, state) == [t EXCEPT !.state = state]
Ready(t, type) == [t EXCEPT !.state = "token_ready", !.type = type]
Wrong(t) == [Ready(t, "bad") EXCEPT !.error = TRUE]
PutBack(t) == [t EXCEPT !.in = FALSE]
Add(t, c) == [t EXCEPT !.val = Append(@, c)]

InTop(t, c) ==
  CASE c = LParen -> [To(t, "in_string") EXCEPT !.depth = 1]
    [] c = Lt -> To(t, "lt")
    [] c = Gt -> To(t, "gt")
    [] c = RParen -> Wrong(t)
    [] c = LBracket -> Ready(t, "array_open")
    [] c = RBracket -> Ready(t, "array_close")
    [] c = LBrace -> Ready(t, "brace_open")
    [] c = RBrace -> Ready(t, "brace_close")
    [] c = Slash -> Add(To(t, "name"), c)
    [] c \in Digit -> To(t, "number")
    [] c \in {Plus, Minus} -> To(t, "sign")
    [] c = Dot -> To(t, "decimal")
    [] OTHER -> To(t, "literal")

InBeforeToken(t, c) ==
  LET ignored == [t EXCEPT !.before = ~t.ignorable, !.in = t.ignorable]
  IN CASE c \in Space -> IF t.ignorable THEN To(ignored, "in_space") ELSE ignored
       [] c = Percent -> To(ignored, "in_comment")
       [] OTHER -> InTop([t EXCEPT !.before = FALSE, !.in = TRUE], c)

InSpace(t, c) == IF c \in Space THEN t ELSE PutBack(Ready(t, "space"))

InComment(t, c) ==
  IF c \notin {CR, LF} THEN t
  ELSE IF t.ignorable THEN PutBack(Ready(t, "comment")) ELSE To(t, "before_token")

InString(t, c) ==
  CASE c = Backslash -> To(t, "string_escape")
    [] c = LParen -> Add([t EXCEPT !.depth = @ + 1], c)
    [] c = RParen /\ t.depth = 1 -> [Ready(t, "string") EXCEPT !.depth = 0]
    [] c = RParen /\ t.depth # 1 -> Add([t EXCEPT !.depth = @ - 1], c)
    [] c = CR -> Add(To(t, "string_after_cr"), LF)
    [] OTHER -> Add(t, c)

Coded(t) == Add(To(t, "in_string"), t.code % 256)
CodeDigit(t) == IF t.digits < 3 THEN t ELSE Coded(t)
InCharCode(t, c) ==
  IF c \in Octal THEN CodeDigit([t EXCEPT !.code = 8 * @ + (c - 48), !.digits = @ + 1])
  ELSE InString(Coded(t), c)

Escapes == [c \in {110, 114, 116, 98, 102} |->
              CASE c = 110 -> LF [] c = 114 -> CR [] c = 116 -> HT [] c = 98 -> 8 [] c = 102 -> FF]

InStringEscape(t, c) ==
  CASE c \in Octal -> CodeDigit([To(t, "char_code") EXCEPT !.code = c - 48, !.digits = 1])
    [] c \in DOMAIN Escapes -> Add(To(t, "in_string"), Escapes[c])
    [] c = LF -> To(t, "in_string")
    [] c = CR -> To(t, "string_after_cr")
    [] OTHER -> Add(To(t, "in_string"), c)

InStringAfterCR(t, c) ==
  IF c = LF THEN To(t, "in_string") ELSE InString(To(t, "in_string"), c)

InName(t, c) ==
  CASE c \in Delimiter -> PutBack(Ready(t, IF t.bad THEN "bad" ELSE "name"))
    [] c = Hash -> [To(t, "name_hex1") EXCEPT !.code = 0]
    [] OTHER -> Add(t, c)

(* A # that is no escape is kept as a null, which Name::normalize undoes.  *)
InNameHex1(t, c) ==
  IF c \in Nibbles THEN [To(t, "name_hex2") EXCEPT !.hex = c, !.code = 16 * NibbleOf(c)]
  ELSE InName(Add([To(t, "name") EXCEPT !.hex = c, !.error = TRUE], NUL), c)

InNameHex2(t, c) ==
  CASE c \notin Nibbles -> InName([To(t, "name") EXCEPT !.error = TRUE, !.val = @ \o <<NUL, t.hex>>], c)
    [] c \in Nibbles /\ t.code + NibbleOf(c) = 0 ->
         [To(t, "name") EXCEPT !.error = TRUE, !.bad = TRUE, !.val = @ \o <<Hash, 48, 48>>]
    [] OTHER -> Add(To(t, "name"), t.code + NibbleOf(c))

InLiteral(t, c) ==
  IF c \notin Delimiter THEN t
  ELSE PutBack(Ready(t, CASE t.raw \in {Word.true, Word.false} -> "bool"
                          [] t.raw = Word.null -> "null"
                          [] OTHER -> "word"))

InSign(t, c) ==
  CASE c \in Digit -> To(t, "number")
    [] c = Dot -> To(t, "decimal")
    [] OTHER -> InLiteral(To(t, "literal"), c)

InDecimal(t, c) == IF c \in Digit THEN To(t, "real") ELSE InLiteral(To(t, "literal"), c)

InNumber(t, c) ==
  CASE c \in Digit -> t
    [] c = Dot -> To(t, "real")
    [] c \in Delimiter -> PutBack(Ready(t, "integer"))
    [] OTHER -> To(t, "literal")

InReal(t, c) ==
  CASE c \in Digit -> t
    [] c \in Delimiter -> PutBack(Ready(t, "real"))
    [] OTHER -> To(t, "literal")

InHexstring(t, c) ==
  CASE c \in Nibbles -> [To(t, "in_hexstring_2nd") EXCEPT !.code = 16 * NibbleOf(c)]
    [] c = Gt -> Ready(t, "string")
    [] c \in Space -> t
    [] OTHER -> Wrong(t)

InHexstring2nd(t, c) ==
  CASE c \in Nibbles -> Add(To(t, "in_hexstring"), t.code + NibbleOf(c))
    [] c = Gt -> Ready(Add(t, t.code), "string")
    [] c \in Space -> t
    [] OTHER -> Wrong(t)

InLt(t, c) == IF c = Lt THEN Ready(t, "dict_open") ELSE InHexstring(To(t, "in_hexstring"), c)
InGt(t, c) == IF c = Gt THEN Ready(t, "dict_close") ELSE PutBack(Wrong(t))

InInlineImage(t) ==
  IF Len(t.raw) + 1 = t.image THEN [Ready(t, "inline_image") EXCEPT !.image = 0] ELSE t

HandleCharacter(t, c) ==
  CASE t.state = "before_token" -> InBeforeToken(t, c)
    [] t.state = "in_space" -> InSpace(t, c)
    [] t.state = "in_comment" -> InComment(t, c)
    [] t.state = "lt" -> InLt(t, c)
    [] t.state = "gt" -> InGt(t, c)
    [] t.state = "in_string" -> InString(t, c)
    [] t.state = "name" -> InName(t, c)
    [] t.state = "number" -> InNumber(t, c)
    [] t.state = "real" -> InReal(t, c)
    [] t.state = "string_after_cr" -> InStringAfterCR(t, c)
    [] t.state = "string_escape" -> InStringEscape(t, c)
    [] t.state = "char_code" -> InCharCode(t, c)
    [] t.state = "literal" -> InLiteral(t, c)
    [] t.state = "inline_image" -> InInlineImage(t)
    [] t.state = "in_hexstring" -> InHexstring(t, c)
    [] t.state = "in_hexstring_2nd" -> InHexstring2nd(t, c)
    [] t.state = "name_hex1" -> InNameHex1(t, c)
    [] t.state = "name_hex2" -> InNameHex2(t, c)
    [] t.state = "sign" -> InSign(t, c)
    [] t.state = "decimal" -> InDecimal(t, c)

Keep(t, c) == IF t.in THEN [t EXCEPT !.raw = Append(@, c)] ELSE t
PresentCharacter(t, c) == Keep(HandleCharacter(t, c), c)

(* At the end, a token that a delimiter would end is ended by one.         *)
Appendable == {"name", "name_hex1", "name_hex2", "number", "real", "sign", "decimal", "literal"}
PresentEOF(t) ==
  To(CASE t.state \in Appendable -> [PresentCharacter(t, FF) EXCEPT !.in = TRUE]
       [] t.state = "before_token" -> [t EXCEPT !.type = "eof"]
       [] t.state = "in_space" -> [t EXCEPT !.type = "space"]
       [] t.state = "in_comment" -> [t EXCEPT !.type = IF t.ignorable THEN "comment" ELSE "bad"]
       [] OTHER -> Wrong(t),
     "token_ready")

(* Mutants: the character that ended a token is lost, and what belongs to  *)
(* the token is put back as well.                                          *)
Finished_Taken(t, pos, offset) == [tok |-> t, at |-> offset, pos |-> pos]
Finished_Back(t, pos, offset) == [tok |-> t, at |-> offset, pos |-> IF t.before THEN pos ELSE pos - 1]

(* nextToken: max bounds the length of a token, 0 if nothing does.         *)
Finished(t, pos, offset) ==
  [tok |-> t, at |-> offset, pos |-> IF t.in \/ t.before THEN pos ELSE pos - 1]

AtEnd(t, pos, offset) ==
  IF t.type = "eof" THEN Finished(IF t.allowEOF THEN t ELSE Wrong(t), pos, pos) ELSE Finished(t, pos, offset)
TooLong(t, max) == max > 0 /\ Len(t.raw) >= max /\ t.state # "token_ready"

RECURSIVE Feed(_, _, _, _, _)
Fed(t, text, pos, offset, max) ==
  Feed(IF TooLong(t, max) THEN Wrong(t) ELSE t, text, pos, IF t.before THEN offset + 1 ELSE offset, max)
Feed(t, text, pos, offset, max) ==
  CASE t.state = "token_ready" -> Finished(t, pos, offset)
    [] t.state # "token_ready" /\ pos >= Len(text) -> AtEnd(PresentEOF(t), pos, offset)
    [] OTHER -> Fed(PresentCharacter(t, text[pos + 1]), text, pos + 1, offset, max)

NextToken(t, text, pos, max) ==
  Feed(IF t.state = "inline_image" THEN t ELSE Reset(t), text, pos, pos, max)

ValueOf(t) == IF t.type \in {"name", "string"} THEN t.val ELSE t.raw

(* findEI.  EI at position p counts if a token EI begins there; it ends    *)
(* the image if none of the ten tokens after it looks suspicious.          *)
IsEI(text, p, n) ==
  /\ SubSeq(text, p + 1, p + 2) = Word.eye
  /\ n.tok.type = "word" /\ n.tok.raw = Word.eye
  /\ n.pos < Len(text) => text[n.pos + 1] \in Delimiter
EIs(text, from) ==
  {p \in from..(Len(text) - 2) : IsEI(text, p, NextToken(NewTokenizer(FALSE, FALSE), text, p, 4))}

Alpha == Letter \cup {Star}
Unprintable == ((0..31) \cup (128..255)) \ Space
Suspicious(t) ==
  \/ t.type = "bad"
  \/ t.type = "word" /\ (\/ ToSet(t.raw) \cap Unprintable # {}
                         \/ ToSet(t.raw) \cap Alpha # {} /\ ~(ToSet(t.raw) \subseteq Alpha))

(* The tokens after an EI, and where looking at them ended; the end of the *)
(* text is a bad token to this tokenizer, which was not told to allow it.  *)
RECURSIVE LookAhead(_, _, _)
Looked(text, next, n) ==
  IF Suspicious(next.tok) THEN [okay |-> FALSE, pos |-> next.pos] ELSE LookAhead(text, next.pos, n - 1)
LookAhead(text, pos, n) ==
  IF n = 0 THEN [okay |-> TRUE, pos |-> pos]
  ELSE Looked(text, NextToken(NewTokenizer(FALSE, FALSE), text, pos, 0), n)

CONSTANT Checked   \* how many tokens after an EI are looked at: 10

(* The length of the image at pos: up to the first EI that passes, or else *)
(* the last that was found, 0 if none was.  The search goes on after the   *)
(* token that made the last one fail.                                      *)
FindNext_First(text, pos, length, ahead) == length   \* mutant: any EI ends the image
RECURSIVE FindEI(_, _, _, _)
FindNext(text, pos, length, ahead) == IF ahead.okay THEN length ELSE FindEI(text, pos, ahead.pos, length)
FindFirst(text, pos, length, found) ==
  IF found = {} THEN length
  ELSE FindNext(text, pos, Min(found) - pos, LookAhead(text, Min(found) + 2, Checked))
FindEI(text, pos, from, length) == FindFirst(text, pos, length, EIs(text, from))

ExpectInlineImage(t, text, pos) ==
  [Reset(t) EXCEPT !.image = FindEI(text, pos, pos, 0), !.before = FALSE, !.in = TRUE, !.state = "inline_image"]
=============================================================================
