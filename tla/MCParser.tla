------------------------------ MODULE MCParser -----------------------------
(***************************************************************************)
(* Texts for Parser: objects as the library writes them and in other       *)
(* spellings, content streams with inline images, every short sequence of  *)
(* tokens, and long ones with errors at every distance.                    *)
(***************************************************************************)
EXTENDS Unparse

C(n) == 96 + n                       \* the n-th letter
NameOf(n) == Slashed(<<64 + n>>)     \* /A, /B, ...
StrOf(n) == <<LParen, C(n), RParen>>

Sample(mode, t, plain, end) ==
  [mode |-> mode, text |-> t, plain |-> plain, end |-> end, context |-> TRUE, sanity |-> FALSE,
   decrypt |-> FALSE, allowEOF |-> TRUE, marks |-> {}, endobj |-> Len(t)]

-----------------------------------------------------------------------------
(* Objects and the text that the library makes of them.                    *)
Str(v) == Scalar("string", v)
Nam(v) == Scalar("name", v)
Strings == SeqOf({LParen, RParen, Backslash, CR, 49, 97, 200}, 3) \cup {<<0>>, <<1, 49>>, <<97, 98, 99, 100, 101, 30>>,
             <<97, 98, 99, 100, 127>>, <<LF, HT, 8, FF>>, <<97, 98, 99, 100, 101, 200, 49>>, <<254, 255, 0, 65>>}
Names == {Slashed(v) : v \in SeqOf({65, Hash, SP, 52, RParen, 200}, 2)}
Simple == {Null, Scalar("bool", Word.true), Scalar("bool", Word.false), IntObj(0), IntObj(-12), IntObj(9999),
           Scalar("real", <<Dot, 53>>), Scalar("real", <<Minus, 49, Dot>>), Scalar("real", <<Plus, 49, Dot, 53>>)}
            \cup {Str(v) : v \in Strings} \cup {Nam(v) : v \in Names}
Few == {IntObj(1), IntObj(2), Ref(1, 0), Nam(NameOf(1)), Str(<<C(1)>>), Null}
Arrays == {ArrayObj(s) : s \in SeqOf(Few, 4)}
Dicts == {DictObj([n \in {NameOf(i) : i \in 1..Len(s)} |-> s[n[2] - 64]]) :
            s \in SeqOf(Few \ {Null}, 2) \cup {<<ArrayObj(<<a>>)>> : a \in Few}}
Nested == {ArrayObj(<<IntObj(1), o, IntObj(0)>>) : o \in Dicts} \cup {ArrayObj(<<ArrayObj(<<o>>), IntObj(3)>>) : o \in Dicts \cup Few}

Written(o, before, after) ==
  LET t == UnparseObject(o) IN Sample("object", before \o t \o after, o, Len(before \o t))
Befores == {<<>>, <<SP, CR>>, <<Percent, Lt, LF>>}
Afters == {<<LF>> \o EndObj, <<Slash>>, <<>>}
(* Without a document there are no references.                             *)
RECURSIVE HasRef(_)
HasRef(o) == o.type = "reference" \/ (\E i \in DOMAIN o.kids : HasRef(o.kids[i])) \/ (\E n \in DOMAIN o.map : HasRef(o.map[n]))

Unparsed == <<
  {Written(o, b, a) : o \in Simple, b \in Befores, a \in Afters},
  {[Written(o, <<>>, <<>>) EXCEPT !.context = c, !.allowEOF = e, !.sanity = b] :
     o \in {n \in UNION {Nested, Simple} : ~HasRef(n)}, c, e, b \in BOOLEAN},
  {[Written(o, <<>>, <<>>) EXCEPT !.sanity = b] : o \in {n \in Nested : HasRef(n)}, b \in BOOLEAN},
  {Written(o, <<LF>>, a) : o \in UNION {Arrays, Dicts}, a \in Afters}>>

(* Other spellings: of strings, of names, and with no space to spare.      *)
Spell(t, o) == Sample("object", t, o, Len(t))
Spellings ==
  {Spell(<<Lt, 52, SP, 49, 52, Gt>>, Str(<<65, 64>>)), Spell(<<Lt, 52, 97, LF, 52, 65, Gt>>, Str(<<74, 74>>)),
   Spell(<<LParen, Backslash, 49, 48, 49, 49, RParen>>, Str(<<65, 49>>)),
   Spell(<<LParen, Backslash, 53, 56, RParen>>, Str(<<5, 56>>)), Spell(<<LParen, Backslash, 55, RParen>>, Str(<<7>>)),
   Spell(<<LParen, Backslash, 55, 55, 55, RParen>>, Str(<<255>>)),
   Spell(<<LParen, 97, Backslash, CR, LF, 98, RParen>>, Str(<<97, 98>>)),
   Spell(<<LParen, 97, Backslash, LF, LF, 98, RParen>>, Str(<<97, LF, 98>>)),
   Spell(<<LParen, CR, LF, CR, RParen>>, Str(<<LF, LF>>)), Spell(<<LParen, Backslash, 120, RParen>>, Str(<<120>>)),
   Spell(<<LParen, LParen, 97, RParen, LParen, RParen, RParen>>, Str(<<LParen, 97, RParen, LParen, RParen>>)),
   Spell(<<LParen, CR, RParen>>, Str(<<LF>>)), Spell(<<LParen, Backslash, CR, 40, 41, RParen>>, Str(<<40, 41>>)),
   Spell(<<Slash, Hash, 52, 49, Hash, 50, 70>>, Nam(<<Slash, 65, 47>>)),
   Spell(<<LBracket, 49, SP, 48, Percent, 82, LF, 82, Slash, 65, LParen, RParen, 50, RBracket>>,
         ArrayObj(<<Ref(1, 0), Nam(NameOf(1)), Str(<<>>), IntObj(2)>>)),
   Spell(<<Lt, Lt, Slash, 65, Lt, Lt, Gt, Gt, Slash, 66, LBracket, Lt, Gt, RBracket, Gt, Gt>>,
         DictObj(NameOf(1) :> DictObj(EmptyMap) @@ NameOf(2) :> ArrayObj(<<Str(<<>>)>>)))}

(* What a signature holds is not decrypted; everything else is.            *)
Signature(type) ==
  LET d(c, x) == Key.type :> Nam(type) @@ Key.contents :> Str(c) @@ Key.byteRange :> ArrayObj(<<IntObj(1)>>)
                   @@ NameOf(24) :> Str(x)
      clear == IF type = Key.sig THEN <<C(1)>> ELSE <<0, C(1)>>
  IN [Written(DictObj(d(<<C(1)>>, <<C(2)>>)), <<>>, <<>>) EXCEPT
        !.decrypt = TRUE, !.plain = DictObj(d(clear, <<0, C(2)>>))]

-----------------------------------------------------------------------------
(* Content: operators with operands, then an image and what follows it.    *)
Op(v) == Scalar("operator", v)
ImageOf(v) == Scalar("image", v)
Content(objects, spaces) ==
  LET piece(o) == IF o.type = "image" THEN o.v
                  ELSE UnparseObject(o) \o (IF o = Op(Word.id) THEN <<SP>> ELSE spaces)
  IN Sample("content", FlattenSeq([i \in DOMAIN objects |-> piece(objects[i])]), objects, 0)
Start == <<Op(<<66, 73>>), Nam(NameOf(23)), IntObj(1), Op(Word.id)>>     \* BI /W 1 ID
EI == Op(Word.eye)
Show == <<Str(<<C(1), LParen>>), Op(<<84, Star>>)>>
Pixels == {<<97, SP>>, <<200, 1, LF>>, <<69, 73, 97, SP>>, <<SP, 69, 73, SP, 3, 69, 73, SP>>, <<40, SP>>}
Contents ==
  {Content(Start \o <<ImageOf(x), EI>> \o after, s) :
     x \in Pixels, after \in {<<>>, Show, FlattenSeq([i \in 1..6 |-> Show]), Start \o <<ImageOf(<<97, 98, SP>>), EI>> \o Show}, s \in {<<SP>>, <<LF, SP>>}}
  \cup {Content(<<IntObj(1), IntObj(0), IntObj(3)>> \o Show \o <<ArrayObj(<<IntObj(1), IntObj(2), Op(WordR)>>)>>, <<SP>>)}

-----------------------------------------------------------------------------
(* Any tokens: names and strings are each there once, to be found again.   *)
Tokens == {"[", "]", "<<", ">>", "name", "key", "string", "int", "R", "}", ")", "endobj"}
TextOf(k, i) ==
  CASE k = "[" -> <<LBracket>> [] k = "]" -> <<RBracket>> [] k = "<<" -> <<Lt, Lt>> [] k = ">>" -> <<Gt, Gt>>
    [] k = "name" -> NameOf(i) [] k = "key" -> Fake(1) [] k = "string" -> StrOf(i) [] k = "int" -> <<49>>
    [] k = "R" -> WordR [] k = "}" -> <<RBrace>> [] k = ")" -> <<RParen>> [] k = "endobj" -> EndObj
    [] k = "big" -> <<57, 57, 57, 57, 57>> [] k = "comment" -> <<Percent>> [] k = "long" -> <<57, 57, 57, 57>>
Valued(k, i) == CASE k = "name" -> NameOf(i) [] k = "string" -> <<C(i)>>

AnyText(s, context, sanity, allowEOF) ==
  LET t(i) == TextOf(s[i], i) \o <<SP>>
      upto(i) == FlattenSeq([j \in 1..i |-> t(j)])
      ends == {Len(upto(i)) : i \in {j \in DOMAIN s : s[j] = "endobj"}}
      whole == upto(Len(s))
  IN [Sample("object", whole, Unknown, 0) EXCEPT
        !.context = context, !.sanity = sanity, !.allowEOF = allowEOF,
        !.marks = IF Cardinality({i \in DOMAIN s : s[i] = "key"}) > 1 THEN {}
                  ELSE {[v |-> Valued(s[i], i), end |-> Len(upto(i))] : i \in {j \in DOMAIN s : s[j] \in {"name", "string"}}},
        !.endobj = IF ends = {} THEN Len(whole) ELSE CHOOSE e \in ends : \A f \in ends : e <= f]

Opened == {<<"[">>, <<"<<">>}
Anything == <<
  {AnyText(o \o s, TRUE, b, TRUE) : o \in Opened, s \in SeqOf(Tokens, 3), b \in BOOLEAN},
  {AnyText(<<"<<">> \o s \o <<">>">>, TRUE, b, FALSE) :
     s \in SeqOf({"[", "]", "<<", ">>", "name", "key", "string", "int", "R"}, 3), b \in BOOLEAN},
  {AnyText(s, c, FALSE, c) : s \in SeqOf(Tokens \cup {"comment", "big"}, 2), c \in BOOLEAN},
  {AnyText(o \o s, FALSE, FALSE, TRUE) : o \in Opened, s \in SeqOf({"int", "R", "}", "string", "]"}, 2)}>>

Times(n, k) == [i \in 1..n |-> k]
Errors == <<
  {AnyText(o \o Times(b, "}") \o Times(g, k) \o Times(c, ")") \o <<k>> \o e, TRUE, FALSE, eof) :
     o \in Opened, b \in 0..6, g \in {0, 3, 4, 5}, c \in {0, 1, 5}, k \in {"int", "name", "string"},
     e \in {<<"]">>, <<>>, <<">>">>}, eof \in BOOLEAN},
  {AnyText(<<"[">> \o Times(n, "[") \o <<k>>, TRUE, FALSE, TRUE) : n \in 1..5, k \in {"]", "big", "long"}},
  {AnyText(s, TRUE, FALSE, TRUE) : s \in {<<"[", "long", "int", "R">>, <<"[", "int", "big", "R", "]">>}}>>

(* The same as content, and given to a token filter.                       *)
Damage(s) == [s EXCEPT !.mode = "content", !.marks = {}]
Filtered(s) == [s EXCEPT !.mode = "filter", !.plain = Unknown, !.marks = {}]
Truncated(s, i) == [s EXCEPT !.text = SubSeq(@, 1, IF i < Len(@) THEN i ELSE Len(@)), !.plain = Unknown, !.marks = {<<>>}]
Cut == {Truncated(c, i) : c \in Contents, i \in 1..64}

MCSamples == Unparsed \o Anything \o Errors \o <<
  Spellings, {Signature(t) : t \in {Key.sig, NameOf(9)}}, Contents, Cut,
  {Damage(AnyText(t, TRUE, FALSE, TRUE)) : t \in SeqOf(Tokens, 3)},
  {Filtered(s) : s \in Contents}, {Filtered(s) : s \in Spellings}, {Filtered(s) : s \in Cut},
  {Filtered(AnyText(t, TRUE, FALSE, TRUE)) : t \in SeqOf(Tokens \cup {"comment"}, 3)}>>
=============================================================================
