------------------------------ MODULE JSONText -----------------------------
(***************************************************************************)
(* The parser of JSON (libqpdf/JSON.cc): getToken, a machine over          *)
(* characters, and handleToken, a machine over tokens with a stack of      *)
(* containers, which tells a reactor of each item, each beginning and each *)
(* end.  A character is a string: itself, its name if it is a control      *)
(* character, or a word where what it is made of does not matter.          *)
(***************************************************************************)
EXTENDS Integers, Sequences, SequencesExt, TLC

CONSTANT MaxDepth   \* how deep containers may be nested: 500

Quote == "\""
Backslash == "\\"
Blank == {"TAB", "LF", "CR"}      \* legal whitespace, but not in strings
Control == {"NUL", "BS", "FF"}
Nonzero == {"1", "2", "3", "4", "5", "6", "7", "8", "9"}
Digit == Nonzero \cup {"0"}
Small == {"a", "b", "c", "d", "e", "f", "l", "n", "r", "s", "t", "u", "j", "o"}

(* The tokens of one character.                                            *)
Mark == [c \in {",", ":", "{", "}", "[", "]"} |->
           CASE c = "," -> "comma" [] c = ":" -> "colon"
             [] c = "{" -> "begin_dict" [] c = "}" -> "end_dict"
             [] c = "[" -> "begin_array" [] c = "]" -> "end_array"]

NewLexer ==
  [state |-> "top", token |-> <<>>, start |-> 0, at |-> 0, got |-> FALSE, done |-> FALSE, wrong |-> FALSE,
   digits |-> 0, code |-> 0, high |-> 0, highAt |-> 0]

Ignore(x, state) == [x EXCEPT !.state = state, !.at = @ + 1]
Add(x, state, c) == [Ignore(x, state) EXCEPT !.token = Append(@, c)]
Got(x) == [x EXCEPT !.got = TRUE]
Wrong(x) == [Got(x) EXCEPT !.wrong = TRUE]

(* What comes next does not belong to the token.                           *)
Complete == {"leading_zero", "before_point", "after_point", "number"}
Stop(x) ==
  CASE x.token = <<>> \/ x.state = "alpha" -> Got(x)
    [] x.token # <<>> /\ x.state \in Complete -> Got([x EXCEPT !.state = "number"])
    [] OTHER -> Wrong(x)

InDelimiter(x, c) ==
  CASE x.state = "top" /\ c \in DOMAIN Mark ->
         Got([Ignore(x, Mark[c]) EXCEPT !.start = IF c \in {"{", "["} THEN x.at ELSE @])
    [] x.state = "top" /\ c \notin DOMAIN Mark -> Ignore(x, "top")
    [] x.state = "string" /\ c \notin Blank -> Add(x, "string", c)
    [] OTHER -> Stop(x)

(* Numbers: which state a character of a class leads to.                   *)
Classes(c) ==
  (IF c \in Digit THEN {"digit"} ELSE {}) \cup (IF c \in Nonzero THEN {"nonzero"} ELSE {})
    \cup (IF c = "0" THEN {"zero"} ELSE {}) \cup (IF c \in {"e", "E"} THEN {"exponent"} ELSE {})
    \cup (IF c \in {"+", "-"} THEN {"sign"} ELSE {}) \cup (IF c = "." THEN {"point"} ELSE {})

NumberSteps ==
  {<<"minus", "nonzero", "before_point">>, <<"minus", "zero", "leading_zero">>,
   <<"leading_zero", "point", "point">>, <<"leading_zero", "exponent", "e">>,
   <<"before_point", "digit", "before_point">>, <<"before_point", "point", "point">>,
   <<"before_point", "exponent", "e">>, <<"point", "digit", "after_point">>,
   <<"after_point", "digit", "after_point">>, <<"after_point", "exponent", "e">>,
   <<"e", "digit", "number">>, <<"e", "sign", "e_sign">>, <<"e_sign", "digit", "number">>,
   <<"number", "digit", "number">>}
InNumber(x, c) ==
  LET steps == {s \in NumberSteps : s[1] = x.state /\ s[2] \in Classes(c)}
  IN IF steps = {} THEN Wrong(x) ELSE Add(x, (CHOOSE s \in steps : TRUE)[3], c)

InTop(x, c) ==
  LET s == [x EXCEPT !.start = x.at]
  IN CASE c = Quote -> Ignore(s, "string")
       [] c \in Small -> Add(s, "alpha", c)
       [] c = "-" -> Add(s, "minus", c)
       [] c \in Nonzero -> Add(s, "before_point", c)
       [] c = "0" -> Add(s, "leading_zero", c)
       [] OTHER -> Wrong(s)

(* Strings.                                                                *)
InString(x, c) ==
  CASE c = Quote /\ x.highAt # 0 -> Wrong(x)
    [] c = Quote /\ x.highAt = 0 -> Got(Ignore(x, "after_string"))
    [] c = Backslash -> Ignore(x, "backslash")
    [] OTHER -> Add(x, "string", c)

Escapes == (Backslash :> Backslash) @@ (Quote :> Quote) @@ ("/" :> "/") @@ ("b" :> "BS") @@ ("f" :> "FF")
             @@ ("n" :> "LF") @@ ("r" :> "CR") @@ ("t" :> "TAB")
InBackslash(x, c) ==
  CASE c \in DOMAIN Escapes -> Add(x, "string", Escapes[c])
    [] c = "u" -> [Ignore(x, "u4") EXCEPT !.digits = 0, !.code = 0]
    [] OTHER -> Wrong(x)

HexDigits == <<"0", "1", "2", "3", "4", "5", "6", "7", "8", "9", "a", "b", "c", "d", "e", "f">>
HexValue == [c \in ToSet(HexDigits) |-> (CHOOSE i \in DOMAIN HexDigits : HexDigits[i] = c) - 1]
              @@ ("A" :> 10) @@ ("B" :> 11) @@ ("C" :> 12) @@ ("D" :> 13) @@ ("E" :> 14) @@ ("F" :> 15)
Codes == ("NUL" :> 0) @@ ("BS" :> 8) @@ ("TAB" :> 9) @@ ("LF" :> 10) @@ ("FF" :> 12) @@ ("CR" :> 13) @@ (" " :> 32)
           @@ (Quote :> 34) @@ ("#" :> 35) @@ ("/" :> 47) @@ (":" :> 58) @@ (Backslash :> 92) @@ ("u" :> 117) @@ ("x" :> 120)
CharOf(code) == IF code \in {Codes[c] : c \in DOMAIN Codes} THEN CHOOSE c \in DOMAIN Codes : Codes[c] = code
                ELSE "U+" \o ToString(code)

(* handle_u_code; offset is where the escape begins.  0 is for no high     *)
(* surrogate.                                                              *)
HandleCode(x, code, offset) ==
  LET surrogate == code \div 1024
      pair == 65536 + ((x.high % 1024) * 1024) + (code % 1024)
  IN CASE surrogate = 54 /\ x.highAt # 0 -> Wrong(x)
       [] surrogate = 54 /\ x.highAt = 0 -> [Ignore(x, "string") EXCEPT !.high = code, !.highAt = offset]
       [] surrogate = 55 /\ offset # x.highAt + 6 -> Wrong(x)
       [] surrogate = 55 /\ offset = x.highAt + 6 -> [Add(x, "string", CharOf(pair)) EXCEPT !.highAt = 0]
       [] OTHER -> Add(x, "string", CharOf(code))

InU4(x, c) ==
  LET code == (16 * x.code) + HexValue[c]
  IN CASE c \notin DOMAIN HexValue -> Wrong(x)
       [] c \in DOMAIN HexValue /\ x.digits < 3 -> [Ignore(x, "u4") EXCEPT !.digits = @ + 1, !.code = code]
       [] OTHER -> HandleCode(x, code, x.at - 5)

LexCharacter(x, c) ==
  CASE c \in Control -> Wrong(x)
    [] c \in Blank \cup {" "} \cup DOMAIN Mark -> InDelimiter(x, c)
    [] OTHER ->
         CASE x.state = "top" -> InTop(x, c)
           [] x.state = "alpha" -> IF c \in Small THEN Add(x, "alpha", c) ELSE Wrong(x)
           [] x.state = "string" -> InString(x, c)
           [] x.state = "backslash" -> InBackslash(x, c)
           [] x.state = "u4" -> InU4(x, c)
           [] OTHER -> InNumber(x, c)

RECURSIVE Scan(_, _)
Scan(x, text) ==
  CASE x.got -> x
    [] ~x.got /\ x.at = Len(text) -> [Stop(x) EXCEPT !.done = TRUE]
    [] OTHER -> Scan(LexCharacter(x, text[x.at + 1]), text)
GetToken(x, text) == Scan([x EXCEPT !.token = <<>>, !.got = FALSE, !.high = 0, !.highAt = 0], text)

-----------------------------------------------------------------------------
(* The parser: its state, the containers that are open, with the state     *)
(* that their end leads to, and what the reactor has to be told.           *)
NewParser ==
  [lex |-> NewLexer, state |-> "top", stack |-> <<>>, key |-> <<>>, events |-> <<>>, wrong |-> FALSE]

Fail(q) == [q EXCEPT !.wrong = TRUE]
Item(type, q) == [type |-> type, v |-> q.lex.token, start |-> q.lex.start, end |-> q.lex.at]
Event(call, q, item) == [call |-> call, key |-> q.key, item |-> item]
Tell(q, call, item) == [q EXCEPT !.events = Append(@, Event(call, q, item))]

HandleColon(q) == IF q.state = "dict_after_key" THEN [q EXCEPT !.state = "dict_after_colon"] ELSE Fail(q)
HandleComma(q) ==
  CASE q.state = "dict_after_item" -> [q EXCEPT !.state = "dict_after_comma"]
    [] q.state = "array_after_item" -> [q EXCEPT !.state = "array_after_comma"]
    [] OTHER -> Fail(q)

(* The outermost container stays on the stack.                             *)
HandleEnd_Comma(q, states) ==   \* mutant: an item may be missing after a comma
  LET f == Last(q.stack)
      closed == Tell([q EXCEPT !.state = f.state], "end", [f.item EXCEPT !.end = q.lex.at])
  IN IF q.state \notin states \cup {"array_after_comma"} THEN Fail(q)
     ELSE IF f.state = "done" THEN closed ELSE [closed EXCEPT !.stack = Front(@)]
HandleEnd(q, states) ==
  LET f == Last(q.stack)
      closed == Tell([q EXCEPT !.state = f.state], "end", [f.item EXCEPT !.end = q.lex.at])
  IN IF q.state \notin states THEN Fail(q)
     ELSE IF f.state = "done" THEN closed ELSE [closed EXCEPT !.stack = Front(@)]

Words == (<<"t", "r", "u", "e">> :> "true") @@ (<<"f", "a", "l", "s", "e">> :> "false")
           @@ (<<"n", "u", "l", "l">> :> "null")

Open(q, item) ==
  LET opened == Tell([q EXCEPT !.stack = Append(@, [state |-> q.state, item |-> item])], item.type \o "Start", item)
      begun == [opened EXCEPT !.state = item.type \o "_begin"]
  IN IF Len(begun.stack) > MaxDepth THEN Fail(begun) ELSE begun
IsContainer(item) == item.type \in {"dict", "array"}
OpenIf(q, item) == IF IsContainer(item) /\ ~q.wrong THEN Open(q, item) ELSE q

HandleItem(q, item) ==
  CASE q.state = "dict_after_colon" -> OpenIf(Tell([q EXCEPT !.state = "dict_after_item"], "dictItem", item), item)
    [] q.state \in {"array_begin", "array_after_comma"} ->
         OpenIf(Tell([q EXCEPT !.state = "array_after_item"], "arrayItem", item), item)
    [] q.state = "top" ->
         IF IsContainer(item) THEN Open([q EXCEPT !.state = "done"], item)
         ELSE [q EXCEPT !.state = "done", !.stack = <<[state |-> "done", item |-> item]>>]
    [] OTHER -> Fail(q)

HandleString(q) ==
  IF q.state \in {"dict_begin", "dict_after_comma"} THEN [q EXCEPT !.key = q.lex.token, !.state = "dict_after_key"]
  ELSE HandleItem(q, Item("string", q))

HandleToken(q) ==
  LET ls == q.lex.state
      r == [q EXCEPT !.lex.state = "top", !.events = <<>>]
  IN CASE q.lex.wrong -> Fail(r)
       [] ls = "top" /\ ~q.lex.wrong -> r
       [] OTHER ->
            CASE q.state = "done" -> Fail(r)
              [] ls = "colon" -> HandleColon(r)
              [] ls = "comma" -> HandleComma(r)
              [] ls = "end_array" -> HandleEnd(r, {"array_begin", "array_after_item"})
              [] ls = "end_dict" -> HandleEnd(r, {"dict_begin", "dict_after_item"})
              [] ls = "begin_dict" -> HandleItem(r, Item("dict", r))
              [] ls = "begin_array" -> HandleItem(r, Item("array", r))
              [] ls = "number" -> HandleItem(r, Item("number", r))
              [] ls = "after_string" -> HandleString(r)
              [] ls = "alpha" /\ q.lex.token \in DOMAIN Words -> HandleItem(r, Item(Words[q.lex.token], r))
              [] OTHER -> Fail(r)

(* The end of parse().                                                     *)
EndOfText(q) ==
  IF q.state # "done" THEN Fail(q)
  ELSE IF IsContainer(Last(q.stack).item) THEN q ELSE Tell(q, "topLevelScalar", Last(q.stack).item)
ParseToken(q, text) ==
  LET r == HandleToken([q EXCEPT !.lex = GetToken(@, text)])
  IN IF r.lex.done /\ ~r.wrong THEN EndOfText(r) ELSE r
=============================================================================
