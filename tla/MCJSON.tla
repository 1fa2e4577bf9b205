------------------------------- MODULE MCJSON ------------------------------
(***************************************************************************)
(* Texts for JSONImport, with what they have to mean: short sequences of   *)
(* characters and of tokens, documents in every order, spelling and state  *)
(* of repair, and what writeJSON makes of documents.                       *)
(***************************************************************************)
EXTENDS JSONImport, FiniteSets
Out == INSTANCE JSONOutput

RECURSIVE SeqsOf(_, _)
SeqsOf(S, n) == IF n = 0 THEN {<<>>} ELSE {<<>>} \cup {<<x>> \o s : x \in S, s \in SeqsOf(S, n - 1)}

(* A sample: the text, whether it is JSON, what it is if that is a string; *)
(* the document there was, the cells it is in, the document that is meant, *)
(* and whether there is anything wrong.                                    *)
NoDoc == [cells |-> <<>>, table |-> <<>>, trailer |-> NoCell, version |-> <<>>, complete |-> TRUE]
NoObjects == [objects |-> <<>>, trailer |-> <<"null">>, version |-> <<>>, calls |-> {}]
Text(t, valid) ==
  [mode |-> "text", text |-> t, valid |-> valid, string |-> <<"no">>, doc |-> NoDoc, old |-> NoObjects,
   meant |-> NoObjects, named |-> {}, sound |-> valid, files |-> <<>>]

-----------------------------------------------------------------------------
(* The grammar of JSON (RFC 8259), on characters and on tokens.            *)
IsDigits(s) == s # <<>> /\ Range(s) \subseteq Digit
IsInteger(s) == IsDigits(s) /\ (Len(s) = 1 \/ s[1] # "0")
Prefixed(s, signs) == IF s # <<>> /\ s[1] \in signs THEN Tail(s) ELSE s
Splits(s) == {<<SubSeq(s, 1, i), SubSeq(s, i + 1, Len(s))>> : i \in 0..Len(s)}
IsFraction(s) == s = <<>> \/ (s[1] = "." /\ IsDigits(Tail(s)))
IsExponent(s) == s = <<>> \/ (s[1] \in {"e", "E"} /\ IsDigits(Prefixed(Tail(s), {"+", "-"})))
IsNumber(s) ==
  \E p \in Splits(Prefixed(s, {"-"})) : IsInteger(p[1]) /\ \E q \in Splits(p[2]) : IsFraction(q[1]) /\ IsExponent(q[2])

Numbers == {Text(s, IsNumber(s)) : s \in SeqsOf({"-", "0", "1", ".", "e", "+"}, 5) \ {<<>>}}

(* Strings by their parts, each with the characters it stands for, or none *)
(* if it may not be there.                                                 *)
Bad == {}
Part(t, means) == [text |-> t, means |-> means]
U(a, b, c, d) == <<Backslash, "u", a, b, c, d>>
High == U("D", "8", "3", "e")
Low == U("d", "D", "5", "4")
Parts ==
  {Part(<<c>>, {<<c>>}) : c \in {"x", "0", ":", " ", "{", "]", "u", "/"}}
    \cup {Part(<<c>>, Bad) : c \in {"LF", "TAB", "NUL", Backslash}}
    \cup {Part(<<Backslash, "n">>, {<<"LF">>}), Part(<<Backslash, Quote>>, {<<Quote>>}), Part(<<Backslash, "x">>, Bad),
          Part(<<Backslash, Backslash>>, {<<Backslash>>}), Part(<<Backslash, "/">>, {<<"/">>}),
          Part(U("0", "0", "7", "8"), {<<"x">>}), Part(U("0", "0", "0", "a"), {<<"LF">>}), Part(U("2", "0", "a", "c"), {<<"U+8364">>}),
          Part(High \o Low, {<<"U+129364">>}), Part(High, Bad), Part(<<"x">> \o Low, Bad), Part(U("0", "0", "g", "0"), Bad),
          Part(<<Backslash, "u", "0", "0">>, Bad)}
(* A lone backslash may make an escape with what follows, and a high       *)
(* surrogate a pair: these end their string.                               *)
Joins(p) == p.text \in {<<Backslash>>, High, <<Backslash, "u", "0", "0">>}
StringOf(parts) ==
  LET s == Out!Quoted(FlattenSeq([i \in DOMAIN parts |-> parts[i].text]))
      valid == \A i \in DOMAIN parts : parts[i].means # Bad
  IN [Text(s, valid) EXCEPT !.string = IF valid THEN FlattenSeq([i \in DOMAIN parts |-> CHOOSE m \in parts[i].means : TRUE])
                                       ELSE <<"no">>]
Strings == {StringOf(<<Part(<<"x">>, {<<"x">>}), p, q>>) : p \in {r \in Parts : ~Joins(r)}, q \in Parts}
             \cup {StringOf(<<p>>) : p \in {r \in Parts : r.means # Bad}} \cup {StringOf(<<>>)}

TokenText == [t \in {"{", "}", "[", "]", ",", ":"} |-> <<t>>]
               @@ ("k" :> <<Quote, "k", Quote>>) @@ ("0" :> <<"0">>) @@ ("t" :> <<"t", "r", "u", "e">>)
RECURSIVE IsValue(_), IsMembers(_), IsElements(_)
IsValue(s) ==
  \/ s \in {<<"k">>, <<"0">>, <<"t">>, <<"{", "}">>, <<"[", "]">>}
  \/ Len(s) > 2 /\ s[1] = "{" /\ Last(s) = "}" /\ IsMembers(Tail(Front(s)))
  \/ Len(s) > 2 /\ s[1] = "[" /\ Last(s) = "]" /\ IsElements(Tail(Front(s)))
IsElements(s) == IsValue(s) \/ \E p \in Splits(s) : Last(<<"">> \o p[1]) = "," /\ IsValue(Front(p[1])) /\ IsElements(p[2])
IsMember(s) == Len(s) > 2 /\ s[1] = "k" /\ s[2] = ":" /\ IsValue(Tail(Tail(s)))
IsMembers(s) == IsMember(s) \/ \E p \in Splits(s) : Last(<<"">> \o p[1]) = "," /\ IsMember(Front(p[1])) /\ IsMembers(p[2])

Deep(s) ==   \* how deep containers are opened
  LET depth(i) == Cardinality({j \in 1..i : s[j] \in {"{", "["}}) - Cardinality({j \in 1..i : s[j] \in {"}", "]"}})
  IN \E i \in DOMAIN s : depth(i) > MaxDepth
TokensText(s, between) ==
  Text(FlattenSeq([i \in DOMAIN s |-> TokenText[s[i]] \o between]), IsValue(s) /\ ~Deep(s))
Changed(s) ==
  {SubSeq(s, 1, i) : i \in 0..Len(s)} \cup {[s EXCEPT ![i] = t] : i \in DOMAIN s, t \in DOMAIN TokenText}
    \cup {SubSeq(s, 1, i - 1) \o SubSeq(s, i + 1, Len(s)) : i \in DOMAIN s}
    \cup {SubSeq(s, 1, i) \o <<t>> \o SubSeq(s, i + 1, Len(s)) : i \in DOMAIN s, t \in DOMAIN TokenText}
Long == {<<"[", "{", "k", ":", "[", "]", ",", "k", ":", "0", "}", ",", "t", "]">>,
         <<"{", "k", ":", "{", "k", ":", "[", "t", ",", "k", "]", "}", ",", "k", ":", "t", "}">>,
         <<"[", "[", "[", "]", ",", "{", "}", "]", ",", "0", "]">>}
TokenTexts ==
  {TokensText(s, <<>>) : s \in {r \in SeqsOf(DOMAIN TokenText, 4) : \A i \in 1..Len(r) - 1 : {r[i], r[i + 1]} \cap {"0", "t"} = {}}}
    \cup {TokensText(s, <<" ">>) : s \in SeqsOf(DOMAIN TokenText, 4)}
    \cup UNION {{TokensText(c, <<"LF">>) : c \in Changed(s)} : s \in Long}
    \cup {TokensText([i \in 1..2 * n |-> IF i <= n THEN "[" ELSE "]"], <<>>) : n \in MaxDepth..MaxDepth + 1}

-----------------------------------------------------------------------------
(* Documents.  A tree is a leaf, with its text and the value it stands for *)
(* (<<"bad">> if it is no value), an array of trees, or a dictionary: of   *)
(* members, each with the text of its key, what the key names, and a tree. *)
Leaf(text, means) == [kind |-> "leaf", text |-> text, means |-> means, sub |-> <<>>]
Arr(trees) == [kind |-> "array", text |-> <<>>, means |-> <<"bad">>, sub |-> trees]
Dct(members) == [kind |-> "dict", text |-> <<>>, means |-> <<"bad">>, sub |-> members]
Mem(text, name, tree) == [text |-> text, name |-> name, tree |-> tree]

Word(x) == Leaf(Out!WordOf[x], <<x>>)
Num(v) == Leaf(v, <<"number", v>>)
Str(s, means) == Leaf(Out!Quoted(s), means)
NoValue(s) == Str(s, <<"bad">>)
KeyedBy(word, tree) == Mem(<<word>>, <<word>>, tree)

RECURSIVE Spell(_, _)
Spell(t, between) ==
  LET list(open, parts, close) ==
        <<open>> \o between \o Out!Joined([i \in DOMAIN parts |-> between \o parts[i] \o between]) \o <<close>>
      member(m) == Out!Quoted(m.text) \o between \o <<":">> \o between \o Spell(m.tree, between)
  IN CASE t.kind = "leaf" -> t.text
       [] t.kind = "array" -> list("[", [i \in DOMAIN t.sub |-> Spell(t.sub[i], between)], "]")
       [] t.kind = "dict" -> list("{", [i \in DOMAIN t.sub |-> member(t.sub[i])], "}")

(* The last of the members with a name counts; null is as good as nothing. *)
Trees(t, name) ==
  LET ms == IF t.kind = "dict" THEN SelectSeq(t.sub, LAMBDA m : m.name = name) ELSE <<>>
  IN [i \in DOMAIN ms |-> ms[i].tree]
Has(t, name) == Trees(t, name) # <<>>
Names(t) == {t.sub[i].name : i \in DOMAIN t.sub}
RECURSIVE Denotes(_), IsGood(_)
Denotes(t) ==
  CASE t.kind = "leaf" -> t.means
    [] t.kind = "array" -> <<"array", [i \in DOMAIN t.sub |-> Denotes(t.sub[i])]>>
    [] t.kind = "dict" ->
         <<"dict", [n \in {m \in Names(t) : Denotes(Last(Trees(t, m))) # <<"null">>} |-> Denotes(Last(Trees(t, n)))]>>
IsGood(t) ==
  CASE t.kind = "leaf" -> t.means # <<"bad">>
    [] t.kind = "array" -> \A i \in DOMAIN t.sub : IsGood(t.sub[i])
    [] t.kind = "dict" -> \A i \in DOMAIN t.sub : t.sub[i].name # <<"bad">> /\ IsGood(t.sub[i].tree)

IsText(t) == t.kind = "leaf" /\ t.text[1] = Quote
AllTrees(t, name, Test(_)) == \A i \in DOMAIN Trees(t, name) : Test(Trees(t, name)[i])
IsGoodDict(t) == t.kind = "dict" /\ IsGood(t)

(* An entry of the dictionary of objects; old is what there is already.    *)
SoundStream(old, s) ==
  /\ s.kind = "dict" /\ Has(s, <<"dict">>) /\ AllTrees(s, <<"dict">>, IsGoodDict)
  /\ AllTrees(s, <<"data">>, IsText) /\ AllTrees(s, <<"datafile">>, IsText)
  /\ ~(Has(s, <<"data">>) /\ Has(s, <<"datafile">>))
  /\ old[1] = "stream" \/ Has(s, <<"data">>) \/ Has(s, <<"datafile">>)
SoundEntry(old, e) ==
  /\ e.kind = "dict"
  /\ Has(e, <<"value">>) # Has(e, <<"stream">>)
  /\ \A i \in DOMAIN Trees(e, <<"value">>) : LET v == Trees(e, <<"value">>)[i] IN IsGood(v) /\ v.means[1] # "ref"
  /\ AllTrees(e, <<"stream">>, LAMBDA s : SoundStream(old, s))
StreamMeans(old, s) ==
  <<"stream", Denotes(Last(Trees(s, <<"dict">>)))[2],
    IF Has(s, <<"data">>) THEN <<"data", Tail(Front(Last(Trees(s, <<"data">>)).text))>>
    ELSE IF Has(s, <<"datafile">>) THEN <<"datafile", Tail(Front(Last(Trees(s, <<"datafile">>)).text))>>
    ELSE old[3]>>
EntryMeans(old, e) ==
  IF Has(e, <<"value">>) THEN Denotes(Last(Trees(e, <<"value">>))) ELSE StreamMeans(old, Last(Trees(e, <<"stream">>)))
SoundTrailer(e) == e.kind = "dict" /\ Has(e, <<"value">>) /\ AllTrees(e, <<"value">>, IsGoodDict) /\ ~Has(e, <<"stream">>)

(* The dictionary of objects, entry by entry.                              *)
Lookup(objects, og) == IF og \in DOMAIN objects THEN objects[og] ELSE <<"null">>
Entry(acc, m) ==
  CASE m.name = <<"trailer">> ->
         IF SoundTrailer(m.tree) THEN [acc EXCEPT !.trailer = Denotes(Last(Trees(m.tree, <<"value">>)))]
         ELSE [acc EXCEPT !.sound = FALSE]
    [] m.name[1] = "og" ->
         LET og == Tail(m.name)
             old == Lookup(acc.objects, og)
         IN IF SoundEntry(old, m.tree)
            THEN [acc EXCEPT !.objects = (og :> EntryMeans(old, m.tree)) @@ @]
            ELSE [acc EXCEPT !.sound = FALSE]
    [] OTHER -> [acc EXCEPT !.sound = FALSE]

SoundMeta(t, complete) ==
  /\ t.kind = "dict"
  /\ Has(t, <<"jsonversion">>) /\ AllTrees(t, <<"jsonversion">>, LAMBDA v : v.means = <<"number", <<"2">>>>)
  /\ complete => Has(t, <<"pdfversion">>)
  /\ AllTrees(t, <<"pdfversion">>, LAMBDA v : v.means[1] = "version")
  /\ \A n \in {"pushedinheritedpageresources", "calledgetallpages"} : AllTrees(t, <<n>>, LAMBDA v : v.means[1] \in {"true", "false"})
CallsMeant(t, complete) ==
  {n \in {"pushedinheritedpageresources", "calledgetallpages"} :
     ~complete /\ \E i \in DOMAIN Trees(t, <<n>>) : Trees(t, <<n>>)[i].means = <<"true">>}

Understood(tree, old, complete) ==
  LET qpdf == Trees(tree, <<"qpdf">>)
      meta == qpdf[1].sub[1]
      objects == qpdf[1].sub[2]
      start == [sound |-> TRUE] @@ old
      read == FoldLeft(Entry, start, objects.sub)
      sound == /\ tree.kind = "dict" /\ Len(qpdf) = 1 /\ qpdf[1].kind = "array" /\ Len(qpdf[1].sub) = 2
               /\ SoundMeta(meta, complete)
               /\ objects.kind = "dict" /\ read.sound
               /\ complete => Has(objects, <<"trailer">>)
  IN IF ~sound THEN [start EXCEPT !.sound = FALSE]
     ELSE [read EXCEPT !.version = IF Has(meta, <<"pdfversion">>) THEN Last(Trees(meta, <<"pdfversion">>)).means[2] ELSE @,
                       !.calls = CallsMeant(meta, complete)]

(* A document in cells.                                                    *)
RECURSIVE Build(_, _)
Build(r, v) ==
  CASE v[1] = "ref" -> GetObjectForJSON(r, v[2])
    [] v[1] = "array" ->
         LET b == FoldLeft(LAMBDA acc, x : LET n == Build(acc[1], x) IN <<n, Append(acc[2], n.made)>>, <<r, <<>>>>, v[2])
         IN New(b[1], [Cell("array", <<>>) EXCEPT !.items = b[2]])
    [] v[1] = "dict" ->
         LET b == FoldLeft(LAMBDA acc, k : LET n == Build(acc[1], v[2][k]) IN <<n, (k :> n.made) @@ acc[2]>>, <<r, <<>>>>,
                           SetToSeq(DOMAIN v[2]))
         IN New(b[1], [Cell("dict", <<>>) EXCEPT !.map = b[2]])
    [] v[1] = "stream" ->
         LET d == Build(r, <<"dict", v[2]>>) IN New(d, [Cell("stream", <<>>) EXCEPT !.dict = d.made, !.data = v[3]])
    [] OTHER -> New(r, Cell(v[1], IF Len(v) = 2 THEN v[2] ELSE <<>>))
BuildObject(r, og, v) ==
  LET g == GetObjectForJSON(r, og)
      b == Build(g, v)
  IN [b EXCEPT !.cells[g.made] = [b.cells[b.made] EXCEPT !.og = og]]
InCells(old, complete) ==
  LET empty == [NoDoc EXCEPT !.version = old.version, !.complete = complete] @@ [made |-> NoCell]
      objects == FoldLeft(LAMBDA r, og : BuildObject(r, og, old.objects[og]), empty, SetToSeq(DOMAIN old.objects))
      t == Build(objects, old.trailer)
  IN [f \in DOMAIN NoDoc |-> IF f = "trailer" THEN t.made ELSE t[f]]

(* What is there before: of createFromJSON, and of updateFromJSON.         *)
Fresh == [objects |-> <<>>, trailer |-> <<"dict", <<"/", "Size">> :> <<"number", <<"1">>>>>>, version |-> <<"1", ".", "3">>,
          calls |-> {}]
NameN == <<"/", "N">>
NameM == <<"/", "M">>
Two == <<2, 0>>
Given ==
  [objects |-> (<<1, 0>> :> <<"dict", (NameN :> <<"ref", Two>>) @@ (NameM :> <<"array", <<<<"true">>, <<"ref", <<3, 0>>>>>>>>)>>)
                 @@ (Two :> <<"stream", (NameM :> <<"ref", <<1, 0>>>>), <<"file">>>>) @@ (<<3, 0>> :> <<"name", NameN>>),
   trailer |-> <<"dict", NameN :> <<"ref", <<1, 0>>>>>>, version |-> <<"1", ".", "4">>, calls |-> {}]

RECURSIVE Mentioned(_)
Mentioned(t) ==
  CASE t.kind = "leaf" -> {}
    [] t.kind = "array" -> UNION {Mentioned(t.sub[i]) : i \in DOMAIN t.sub}
    [] t.kind = "dict" ->
         {Tail(t.sub[i].name) : i \in {j \in DOMAIN t.sub : t.sub[j].name[1] = "og"}} \cup UNION {Mentioned(t.sub[i].tree) : i \in DOMAIN t.sub}

Document(text, old, complete, sound, meant, named, files) ==
  [mode |-> "document", text |-> text, valid |-> TRUE, string |-> <<"no">>, doc |-> InCells(old, complete), old |-> old,
   meant |-> meant, named |-> named, sound |-> sound, files |-> files]
Sample(tree, between, complete) ==
  LET old == IF complete THEN Fresh ELSE Given
      u == Understood(tree, old, complete)
  IN Document(Spell(tree, between), old, complete, u.sound, u, Mentioned(tree), <<>>)
(* What has been cut off is not JSON.                                      *)
Cut(s, i) == [s EXCEPT !.text = SubSeq(@, 1, i), !.valid = FALSE, !.sound = FALSE]

-----------------------------------------------------------------------------
(* Values, good and bad.                                                   *)
Ref(id) == Str(<<ToString(id), " ", "0", " ", "R">>, <<"ref", <<id, 0>>>>)
Txt(s, means) == Str(<<"u", ":">> \o s, <<"string", means>>)
BadSpelling == {<<"N", " ", "x">>, <<"N", "/", "M">>, <<"#", "0", "0">>, <<"N", "#">>, <<"#", "4", "#">>, U("0", "0", "0", "0")}
Leaves ==
  {Word("null"), Word("true"), Word("false"), Num(<<"1", "2">>), Num(<<"-", "0", ".", "5">>), Num(<<"1", ".">> \o <<"0">>),
   Txt(<<>>, <<>>), Txt(<<"x">>, <<"x">>), Txt(<<Backslash, Quote, "1">>, <<Quote, "1">>), Txt(<<"1", " ", "0", " ", "R">>, <<"1", " ", "0", " ", "R">>),
   Str(U("0", "0", "7", "5") \o <<":", "x">>, <<"string", <<"x">>>>),
   Str(<<"b", ":", "7", "8", "0", "A">>, <<"string", <<"x", "LF">>>>), Str(<<"b", ":">>, <<"string", <<>>>>),
   Str(NameN, <<"name", NameN>>), Str(<<"n", ":", "/", "N", "#", "2", "0">>, <<"name", <<"/", "N", " ">>>>),
   Str(<<Backslash>> \o NameN, <<"name", NameN>>), Str(<<"/", "#", "2", "0">>, <<"name", <<"/", "#", "2", "0">>>>),
   Str(<<"n", ":", "/", "#", "8", "0">>, <<"name", <<"/", "byte 128">>>>), Str(<<"n", ":", "/", "N", " ", Backslash, "n">>, <<"name", NameN>>),
   Ref(1), Ref(2), Ref(8), Str(<<"1", "1", " ", " ", "2", " ", " ", "R">>, <<"ref", <<11, 2>>>>),
   NoValue(<<"0", " ", "0", " ", "R">>), NoValue(<<"1", " ", "0", " ", "R", "x">>), NoValue(<<"1", " ", "0", "R">>),
   NoValue(<<" ", "1", " ", "0", " ", "R">>), NoValue(<<>>), NoValue(<<"x">>), NoValue(<<"b", ":", "7">>),
   NoValue(<<"b", ":", "7", "x">>), NoValue(<<"n", ":", "x">>)}
    \cup {NoValue(<<"n", ":", "/">> \o s) : s \in BadSpelling}
Trees1 ==
  {Arr(<<>>), Dct(<<>>)} \cup {Arr(<<a, Num(<<"1">>)>>) : a \in Leaves} \cup {Dct(<<Mem(NameN, NameN, a)>>) : a \in Leaves}
Inner == Dct(<<Mem(NameN, NameN, Ref(2))>>)
Trees2 ==
  {Dct(<<Mem(NameN, NameN, Inner), Mem(NameM, NameM, Arr(<<Inner, Arr(<<Ref(8)>>), Word("null")>>))>>),
   Dct(<<Mem(NameN, NameN, Inner), Mem(NameN, NameN, Num(<<"3">>))>>), Dct(<<Mem(NameN, NameN, Num(<<"3">>)), Mem(NameN, NameN, Word("null"))>>),
   Dct(<<Mem(<<"n", ":", "/", "N", "#", "2", "0">>, <<"/", "N", " ">>, Inner), Mem(NameM, NameM, Dct(<<>>)), Mem(NameN, NameN, Ref(1))>>),
   Arr(<<Arr(<<Inner>>), Inner, Num(<<"1">>)>>)}
    \cup {Dct(<<Mem(NameM, NameM, Ref(1)), Mem(<<"n", ":", "/">> \o s, <<"bad">>, Ref(8))>>) : s \in BadSpelling}

K(word, tree) == KeyedBy(word, tree)
Value1(t) == Dct(<<K("value", t)>>)
Simple == Dct(<<Mem(NameM, NameM, Ref(1))>>)
Data(s) == K("data", NoValue(s))
TheDict(t) == K("dict", t)
File1 == K("datafile", NoValue(<<"f">>))
Junk == K("junk", Dct(<<K("value", Ref(1)), Mem(<<"1">>, <<"1">>, Arr(<<Simple>>))>>))
StreamTrees ==
  {Dct(ms) : ms \in
     {<<TheDict(Simple), Data(<<"x", "0">>)>>, <<Data(<<"x", "0">>), TheDict(Simple)>>, <<TheDict(Simple)>>, <<Data(<<>>)>>, <<>>,
      <<TheDict(Simple), File1>>, <<File1, TheDict(Simple)>>, <<TheDict(Simple), File1, Data(<<"0">>)>>,
      <<Data(<<"0">>), File1>>, <<TheDict(Word("true")), Data(<<"0">>)>>, <<TheDict(Arr(<<>>)), Data(<<"0">>)>>,
      <<TheDict(Simple), K("data", Num(<<"1">>))>>, <<K("datafile", Arr(<<Simple>>)), TheDict(Simple)>>,
      <<TheDict(Dct(<<Mem(NameN, NameN, NoValue(<<"x">>))>>)), Data(<<"0">>)>>,
      <<TheDict(Inner), Junk, TheDict(Dct(<<>>)), Data(<<"0">>), Data(<<"1">>)>>,
      <<Junk, Data(<<"x">>), TheDict(CHOOSE t \in Trees2 : TRUE)>>}}
Stream1(t) == Dct(<<K("stream", t)>>)
StreamOf(ms) == Stream1(Dct(ms))
GoodStream == StreamOf(<<Data(<<"x", "0">>), TheDict(Simple)>>)
Entries ==
  {Value1(t) : t \in UNION {Leaves, Trees1, Trees2}} \cup {Stream1(t) : t \in StreamTrees}
    \cup {Dct(<<>>), Word("null"), Num(<<"5">>), Arr(<<>>), Dct(<<Junk>>), Stream1(Num(<<"1">>)), Stream1(Arr(<<Simple>>)),
          Dct(<<Junk, K("value", Simple), Junk>>), Dct(<<K("value", Num(<<"1">>)), Junk>>),
          Dct(<<K("value", Simple), K("value", Num(<<"2">>))>>), Dct(<<K("value", Num(<<"2">>)), K("value", Arr(<<Ref(2)>>))>>),
          Dct(<<K("value", Simple), GoodStream.sub[1]>>), Dct(<<GoodStream.sub[1], K("value", Num(<<"1">>))>>)}

Object(id, e) == Mem(<<"o", "b", "j", ":", ToString(id), " ", "0", " ", "R">>, <<"og", id, 0>>, e)
Trailer(t) == K("trailer", Value1(t))
Root == Dct(<<Mem(NameN, NameN, Ref(1))>>)
V17 == K("pdfversion", Str(<<"1", ".", "7">>, <<"version", <<"1", ".", "7">>>>))
J2 == K("jsonversion", Num(<<"2">>))
Called == K("calledgetallpages", Word("true"))
Pushed(x) == K("pushedinheritedpageresources", Word(x))
Meta == Dct(<<J2, V17, Called, Pushed("false"), K("maxobjectid", Num(<<"9">>))>>)
Qpdf(parts) == Dct(<<K("qpdf", Arr(parts))>>)
With(members) == Qpdf(<<Meta, Dct(members)>>)

Metas ==
  {Dct(ms) : ms \in
     {<<>>, <<J2>>, <<V17>>, <<V17, J2, Pushed("true")>>, <<J2, V17, K("junk", Dct(<<J2>>))>>,
      <<K("jsonversion", Num(<<"3">>)), V17>>, <<K("jsonversion", NoValue(<<"2">>)), V17>>, <<K("jsonversion", Num(<<"1", "2">>)), V17>>,
      <<J2, K("pdfversion", NoValue(<<"1">>))>>, <<J2, K("pdfversion", NoValue(<<"1", ".">>))>>, <<J2, K("pdfversion", Num(<<"1", ".", "7">>))>>,
      <<J2, K("pdfversion", NoValue(<<"1", ".", "7", "x">>))>>, <<J2, K("pdfversion", Dct(<<V17>>)), V17>>,
      <<J2, V17, K("calledgetallpages", Num(<<"1">>))>>, <<J2, V17, K("pushedinheritedpageresources", Word("null"))>>,
      <<J2, V17, Called, K("calledgetallpages", Word("false"))>>}} \cup {Arr(<<>>), Word("null")}
Tops ==
  {Dct(<<>>), Arr(<<Meta>>), Word("true"), Str(<<"x">>, <<"bad">>), Dct(<<K("other", Dct(<<K("qpdf", Arr(<<>>))>>))>>),
   Dct(<<K("qpdf", Meta)>>), Dct(<<K("qpdf", Num(<<"1">>))>>), Qpdf(<<>>), Qpdf(<<Meta>>), Qpdf(<<Meta, Dct(<<>>)>>),
   Qpdf(<<Meta, Dct(<<Trailer(Root)>>), Dct(<<>>)>>), Qpdf(<<Meta, Dct(<<Trailer(Root)>>), Num(<<"1">>)>>),
   Qpdf(<<Meta, Arr(<<Trailer(Root).tree>>)>>), Qpdf(<<Dct(<<Trailer(Root)>>), Meta>>),
   Dct(<<K("other", Arr(<<Simple>>)), K("qpdf", Arr(<<Meta, Dct(<<Trailer(Root), Object(1, Value1(Simple))>>)>>)), K("last", Simple)>>)}
Trailers ==
  {Dct(<<>>), Num(<<"1">>), Value1(Num(<<"1">>)), Value1(Arr(<<>>)), Value1(Dct(<<>>)), Dct(<<Junk>>), Dct(<<Junk, K("value", Simple)>>),
   GoodStream, Dct(<<K("value", Simple), K("stream", Num(<<"1">>))>>), Dct(<<K("value", Inner), K("value", Simple)>>),
   Value1(Dct(<<Mem(NameN, NameN, NoValue(<<"x">>))>>))}
BadKeys == {<<"o", "b", "j", ":", "0", " ", "0", " ", "R">>, <<"1", " ", "0", " ", "R">>, <<"o", "b", "j", ":", "1", " ", "R">>, <<"x">>}

Several == {Value1(Simple), Value1(Num(<<"4">>)), Value1(Arr(<<Ref(2), Inner>>)), Value1(Word("null")), Value1(NoValue(<<"x">>)), GoodStream,
            StreamOf(<<TheDict(Inner)>>), StreamOf(<<TheDict(Simple), File1>>), Num(<<"5">>)}
Trees3 ==
  {With(<<Object(id, e), Trailer(Root)>>) : id \in {1, 7}, e \in Entries}
    \cup {With(<<Object(2, e), Trailer(Root)>>) : e \in Entries \ {Value1(Ref(2))}}     \* a stream that is to be itself
    \cup {With(<<Object(p[1], d), Object(p[2], e), Trailer(Root)>>) : p \in {<<1, 2>>, <<2, 1>>, <<2, 2>>, <<7, 2>>, <<7, 7>>}, d, e \in Several}
    \cup {Qpdf(<<m, Dct(<<Object(1, Value1(Simple)), Trailer(Root)>>)>>) : m \in Metas} \cup Tops
    \cup {With(<<Object(1, Value1(Num(<<"4">>))), K("trailer", t), Object(7, GoodStream)>>) : t \in Trailers}
    \cup {With(<<Object(7, GoodStream), Object(2, StreamOf(<<TheDict(Inner)>>))>>)}
    \cup {With(<<Mem(k, <<"bad">>, Value1(Simple)), Trailer(Root)>>) : k \in BadKeys}
Whole == With(<<Object(2, StreamOf(<<TheDict(Simple), Data(<<"0">>)>>)), Object(7, Value1(CHOOSE t \in Trees2 : t.kind = "dict")), Trailer(Root)>>)
Documents ==
  {Sample(t, <<>>, complete) : t \in Trees3, complete \in BOOLEAN}
    \cup {Sample(t, b, complete) : t \in {Whole, Qpdf(<<Meta>>)}, b \in {<<" ">>, <<"LF", "TAB">>}, complete \in BOOLEAN}
CutDocuments == LET s == Sample(Whole, <<>>, FALSE) IN {Cut(s, i) : i \in 0..Len(s.text) - 1}

-----------------------------------------------------------------------------
(* Documents as writeJSON writes them.                                     *)
Stray == <<"/", "byte 255", "NUL">>
Calls == {{}, {"calledgetallpages"}, {"calledgetallpages", "pushedinheritedpageresources"}}     \* the second calls the first
NewDocs ==
  {[objects |-> (<<1, 0>> :> v) @@ (Two :> <<"stream", (NameM :> <<"ref", <<1, 0>>>>) @@ (Length :> <<"number", <<"3">>>>) @@ f, <<"data", <<"Z", "a", "b">>>>>>)
                  @@ (<<3, 0>> :> <<"null">>) @@ (<<4, 0>> :> <<"name", NameN>>),
    trailer |-> <<"dict", (NameN :> <<"ref", <<1, 0>>>>) @@ (NameM :> <<"ref", <<3, 0>>>>)>>, version |-> <<"1", ".", "4">>, calls |-> {},
    ever |-> ever] :
     f \in {<<>>, Filter :> <<"name", <<"/", "Fl">>>>, Filter :> <<"name", <<"/", "X">>>>}, ever \in Calls,
     v \in {<<"dict", n :> x>> : n \in {NameN, <<"/", "#", "2", "0", " ">>, <<"/", "byte 128", "#", "/", Quote>>, <<"/", Backslash, "NUL">>},
                x \in {<<"ref", <<3, 0>>>>, <<"ref", Two>>, <<"true">>}}
           \cup {<<"array", <<x, <<"ref", <<3, 0>>>>, <<"null">>>>>> :
                x \in {<<"string", s>> : s \in SeqsOf({"x", Quote, Backslash, "NUL", "LF", "byte 255"}, 2)}
                        \cup {<<"string", <<"1", " ", "0", " ", "R">>>>, <<"string", <<"u", ":">>>>, <<"string", NameN>>}
                        \cup {<<"name", n>> : n \in {<<"/">>, <<"/", "byte 255", " ">>, Stray, <<"/", "R", "#", "8", "0">>}}
                        \cup {<<"number", n>> : n \in {<<".", "5">>, <<"-", ".", "5">>, <<"5", ".">>, <<"-", "0", ".">>, <<"0", "0", ".", "2", "0">>,
                                                       <<"0", "7", ".", "1">>, <<"0", "0">>, <<"-", "3">>, <<"1", "0">>, <<".">>}}
                        \cup {<<"array", <<>>>>, <<"dict", NameN :> <<"array", <<<<"dict", NameM :> <<"ref", Two>>>>>>>>>>}}}

(* A null character stands for a # that begins nothing: such a name can be *)
(* read back from JSON, but not if it is spelled as PDF spells it.         *)
(* Written with all objects, with some, with data or without, and read as  *)
(* a new document or into the one it is of.                                *)
WrittenSample(doc, wanted, kind, decode, complete) ==
  LET named == IF wanted = {} THEN DOMAIN doc.objects ELSE wanted \cap DOMAIN doc.objects
      data == LET v == doc.objects[Two] IN IF Out!Filtered(v[2], decode) THEN Out!Decoded(v[3][2]) ELSE v[3][2]
      meant == [doc EXCEPT !.calls = IF complete THEN {} ELSE doc.ever]
      v == doc.objects[<<1, 0>>]
  IN Document(Out!WriteJSON(doc, wanted, kind, decode), IF complete THEN Fresh ELSE doc, complete,
              ~(complete /\ kind = "none") /\ ~(v[1] = "array" /\ v[2][1] = <<"name", Stray>>), meant, named, <<"file-", "2">> :> data)
Written ==
  {WrittenSample(d, {}, "inline", TRUE, TRUE) : d \in NewDocs}
    \cup {WrittenSample(d, {}, k, decode, complete) : d \in {n \in NewDocs : n.objects[<<1, 0>>][1] = "dict"}, k \in {"none", "inline", "file"},
            decode, complete \in BOOLEAN}
    \cup {WrittenSample(d, x, k, FALSE, FALSE) : d \in {n \in NewDocs : n.objects[<<1, 0>>][1] = "dict"}, k \in {"none", "file"},
            x \in {{Two}, {<<1, 0>>, <<"trailer">>}, {<<9, 0>>}}}

MCSamples == <<Numbers, Strings, TokenTexts, Documents, CutDocuments, Written>>
=============================================================================
