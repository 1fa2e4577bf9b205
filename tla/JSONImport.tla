----------------------------- MODULE JSONImport ----------------------------
(***************************************************************************)
(* importJSON (libqpdf/QPDF_json.cc): the reactor that builds a document,  *)
(* or changes one, while its JSON is parsed, token by token.               *)
(*                                                                         *)
(* Objects are cells, and a handle is the index of one: an object of the   *)
(* document keeps the cell that the table has for it, whatever it is       *)
(* replaced by.  Every object of the file has been resolved.               *)
(***************************************************************************)
EXTENDS JSONText

CONSTANT Samples     \* records [text, mode, doc]: see MCJSON

VARIABLES
    sample,
    parser,
    w           \* the reactor and the document
vars == <<sample, parser, w>>

Direct == <<0, 0>>
NoCell == 0
Cell(type, v) ==
  [type |-> type, v |-> v, items |-> <<>>, map |-> <<>>, dict |-> NoCell, data |-> <<"none">>, og |-> Direct]
New(r, cell) == [r EXCEPT !.cells = Append(@, cell), !.made = Len(r.cells) + 1]

NewReactor(doc) ==
  [saw |-> {}, stack |-> <<>>, next |-> NoCell, nextState |-> "top", needsData |-> FALSE, errors |-> FALSE,
   threw |-> FALSE, made |-> NoCell, calls |-> {}] @@ doc
Error(r) == [r EXCEPT !.errors = TRUE]
ErrorIf(r, condition) == [r EXCEPT !.errors = @ \/ condition]
See(r, key) == [r EXCEPT !.saw = @ \cup {key}]
Throw(r) == [r EXCEPT !.threw = TRUE]

-----------------------------------------------------------------------------
(* What strings mean.                                                      *)
After(s, i, chars) ==
  CHOOSE j \in i..Len(s) + 1 : (\A k \in i..j - 1 : s[k] \in chars) /\ (j > Len(s) \/ s[j] \notin chars)
NumberOf(s) == FoldLeft(LAMBDA n, c : 10 * n + HexValue[c], 0, s)

IndirectObject(s) ==   \* "n n R", or Direct
  LET a == After(s, 1, Digit)
      b == After(s, a, {" "})
      c == After(s, b, Digit)
      d == After(s, c, {" "})
  IN IF a > 1 /\ b > a /\ c > b /\ d > c /\ d = Len(s) /\ s[d] = "R" /\ NumberOf(SubSeq(s, 1, a - 1)) > 0
     THEN <<NumberOf(SubSeq(s, 1, a - 1)), NumberOf(SubSeq(s, b, c - 1))>> ELSE Direct
ObjPrefix == <<"o", "b", "j", ":">>
ObjKey(s) == IF IsPrefix(ObjPrefix, s) THEN IndirectObject(SubSeq(s, 5, Len(s))) ELSE Direct

AfterColon(s) == SubSeq(s, 3, Len(s))
IsUnicode(s) == IsPrefix(<<"u", ":">>, s)
IsBinary(s) == IsPrefix(<<"b", ":">>, s) /\ Len(s) % 2 = 0 /\ Range(AfterColon(s)) \subseteq DOMAIN HexValue
IsName(s) == IsPrefix(<<"/">>, s)
IsPdfName(s) == IsPrefix(<<"n", ":", "/">>, s)

ByteOf(code) == IF code < 128 THEN CharOf(code) ELSE "byte " \o ToString(code)
ByteAt(s, i) == ByteOf(16 * HexValue[s[i]] + HexValue[s[i + 1]])
HexDecode(s) == [i \in 1..Len(s) \div 2 |-> ByteAt(s, (2 * i) - 1)]
(* A name as PDF spells it is read as an object by itself: it throws if    *)
(* anything but space comes after the name, as it does with a delimiter in *)
(* it, and if a # is not followed by the code of a character.              *)
Spaces == {" ", "LF", "CR", "TAB", "FF"}
Delimiters == Spaces \cup {"NUL", "/", "(", ")", "{", "}", "<", ">", "[", "]", "%"}
NameIn(s) == SubSeq(s, 1, Min({i \in 2..Len(s) : s[i] \in Delimiters} \cup {Len(s) + 1}) - 1)
IsParsed(s) ==
  LET name == NameIn(s)
      code(i) == SubSeq(name, i + 1, Min({i + 2, Len(name)}))
  IN /\ \A i \in DOMAIN name : name[i] = "#" => Len(code(i)) = 2 /\ Range(code(i)) \subseteq DOMAIN HexValue /\ code(i) # <<"0", "0">>
     /\ \A i \in Len(name) + 1..Len(s) : s[i] \in Spaces
RECURSIVE Decode(_)
Decode(s) ==
  CASE s = <<>> -> <<>>
    [] s # <<>> /\ s[1] # "#" -> <<s[1]>> \o Decode(Tail(s))
    [] s # <<>> /\ s[1] = "#" -> <<ByteAt(s, 2)>> \o Decode(SubSeq(s, 4, Len(s)))
ParseName(s) == Decode(NameIn(s))
KeyThrows(key) == IsPdfName(key) /\ ~IsParsed(AfterColon(key))
KeyName(key) == IF IsPdfName(key) THEN ParseName(AfterColon(key)) ELSE key

ValidPDFVersion(s) ==
  LET a == After(s, 1, Digit) IN a > 1 /\ a < Len(s) /\ s[a] = "." /\ After(s, a + 1, Digit) = Len(s) + 1
IsTwo(s) == After(s, 1, Digit) > 1 /\ NumberOf(SubSeq(s, 1, After(s, 1, Digit) - 1)) = 2

-----------------------------------------------------------------------------
GetObjectForJSON(r, og) ==
  IF og \in DOMAIN r.table THEN [r EXCEPT !.made = r.table[og]]
  ELSE LET n == New(r, [Cell("null", <<>>) EXCEPT !.og = og]) IN [n EXCEPT !.table = (og :> n.made) @@ @]

MakeString(r, s) ==
  CASE IndirectObject(s) # Direct -> GetObjectForJSON(r, IndirectObject(s))
    [] IndirectObject(s) = Direct /\ IsUnicode(s) -> New(r, Cell("string", AfterColon(s)))
    [] IndirectObject(s) = Direct /\ IsBinary(s) -> New(r, Cell("string", HexDecode(AfterColon(s))))
    [] IsName(s) -> New(r, Cell("name", s))
    [] IsPdfName(s) /\ IsParsed(AfterColon(s)) -> New(r, Cell("name", ParseName(AfterColon(s))))
    [] IsPdfName(s) /\ ~IsParsed(AfterColon(s)) -> Throw(r)
    [] OTHER -> New(Error(r), Cell("null", <<>>))

MakeObject(r, item) ==
  CASE IsContainer(item) ->
         LET n == New(r, Cell(item.type, <<>>)) IN [n EXCEPT !.next = n.made, !.nextState = "object"]
    [] item.type = "string" -> MakeString(r, item.v)
    [] OTHER -> New(r, Cell(item.type, IF item.type = "number" THEN item.v ELSE <<>>))

(* The object that has been made becomes the one at the top of the stack,  *)
(* in the cell of that; its own cell refers there.                         *)
Top(r) == Last(r.stack)
ReplaceObject_Made(r) ==   \* mutant: go on with the object that was made
  LET og == r.cells[Top(r).cell].og
      from == r.cells[r.made]
      to == r.table[og]
  IN IF from.og # Direct /\ ~(from.type = "stream" /\ from.og = og) THEN Error(r)
     ELSE [r EXCEPT !.cells[to] = [from EXCEPT !.og = og]]
ReplaceObject(r) ==
  LET og == r.cells[Top(r).cell].og
      from == r.cells[r.made]
      to == r.table[og]
  IN IF from.og # Direct /\ ~(from.type = "stream" /\ from.og = og) THEN Error(r)
     ELSE [r EXCEPT !.cells[to] = [from EXCEPT !.og = og],
                    !.cells[r.made] = [Cell("reference", <<>>) EXCEPT !.og = og], !.next = to]

ReplaceKey(r, dict, key) ==
  LET value == r.cells[r.made]
      rest == [k \in DOMAIN r.cells[dict].map \ {key} |-> r.cells[dict].map[k]]
  IN [r EXCEPT !.cells[dict].map = IF value.type = "null" /\ value.og = Direct THEN rest ELSE (key :> r.made) @@ rest]

Length == <<"/", "Length">>
ReplaceStreamData(r, data) ==
  LET c == Top(r).cell
      dict == r.cells[c].dict
  IN [r EXCEPT !.cells[c].data = data, !.cells[dict].map = [k \in DOMAIN @ \ {Length} |-> @[k]]]

-----------------------------------------------------------------------------
(* The events.                                                             *)
ContainerStart(r) ==
  [r EXCEPT !.stack = Append(@, [state |-> r.nextState, cell |-> r.next]), !.next = NoCell]
ArrayStart(r) == IF r.stack = <<>> THEN Throw(r) ELSE ContainerStart(r)

SetNextStateIfDictionary(r, item, state) ==
  IF item.type = "dict" THEN [r EXCEPT !.nextState = state] ELSE Error(r)

TopEndIsWrong(r) ==
  \/ "qpdf" \notin r.saw
  \/ "jsonversion" \notin r.saw
  \/ "objects" \notin r.saw
  \/ r.complete /\ ("pdfversion" \notin r.saw \/ "trailer" \notin r.saw)
ObjectEndIsWrong(r) ==
  \/ "value" \in r.saw <=> "stream" \in r.saw
  \/ "stream" \in r.saw /\ "dict" \notin r.saw
  \/ "stream" \in r.saw /\ "data" \in r.saw /\ "datafile" \in r.saw
  \/ "stream" \in r.saw /\ r.needsData /\ {"data", "datafile"} \cap r.saw = {}
OfObject == {"dict", "data", "datafile", "value", "stream"}
EndIsWrong(r, stack) ==
  CASE stack = <<>> -> TopEndIsWrong(r)
    [] stack # <<>> /\ Top(r).state = "trailer" -> "value" \notin r.saw
    [] stack # <<>> /\ Top(r).state = "object_top" -> ObjectEndIsWrong(r)
    [] OTHER -> FALSE
ContainerEnd_Keep(r) ==   \* mutant: what one object has is taken for the next one's
  [ErrorIf(r, EndIsWrong(r, Front(r.stack))) EXCEPT !.stack = Front(@)]
ContainerEnd(r) ==
  LET p == [ErrorIf(r, EndIsWrong(r, Front(r.stack))) EXCEPT !.stack = Front(@)]
      back == p.stack # <<>> /\ Top(p).state = "objects"
  IN [p EXCEPT !.saw = IF back THEN @ \ OfObject ELSE @]

(* What pushInheritedAttributesToPage and getAllPages do to pages is that  *)
(* of PagesTree, and nothing where there is nothing to repair or to push;  *)
(* here it is only recorded that they are called, before any object of the *)
(* text is there.                                                          *)
MetaItem(r, key, item) ==
  LET called == item.type = "true" /\ ~r.complete
      boolean == item.type \in {"true", "false"}
  IN CASE key = "pdfversion" ->
            IF item.type = "string" /\ ValidPDFVersion(item.v) THEN [See(r, key) EXCEPT !.version = item.v]
            ELSE Error(See(r, key))
       [] key = "jsonversion" -> ErrorIf(See(r, key), ~(item.type = "number" /\ IsTwo(item.v)))
       [] key \in {"pushedinheritedpageresources", "calledgetallpages"} -> ErrorIf([r EXCEPT !.calls = IF called THEN @ \cup {key} ELSE @], ~boolean)
       [] OTHER -> r

ObjectsItem(r, key, name, item) ==
  CASE key = "trailer" -> SetNextStateIfDictionary(See(r, "trailer"), item, "trailer")
    [] ObjKey(name) # Direct ->
         LET s == SetNextStateIfDictionary(r, item, "object_top")
             g == GetObjectForJSON(s, ObjKey(name))
         IN IF item.type = "dict" THEN [g EXCEPT !.next = g.made] ELSE s
    [] OTHER -> Error(r)

NewStream(r) ==
  LET n == New(r, Cell("dict", <<>>))
  IN New(n, [Cell("stream", <<>>) EXCEPT !.dict = n.made, !.og = r.cells[Top(r).cell].og])
ObjectItem(r, key, item) ==
  CASE key = "value" -> [ReplaceObject(MakeObject(See(r, "value"), item)) EXCEPT !.nextState = "object"]
    [] key = "stream" ->
         LET s == SetNextStateIfDictionary(See(r, "stream"), item, "stream")
             needs == r.cells[Top(r).cell].type # "stream"
             made == IF needs THEN ReplaceObject(NewStream(s)) ELSE s
         IN IF item.type # "dict" THEN s ELSE [made EXCEPT !.needsData = needs, !.next = Top(r).cell]
    [] OTHER -> r

TrailerItem(r, key, item) ==
  CASE key = "value" ->
         LET s == SetNextStateIfDictionary(See(r, "value"), item, "object")
             m == MakeObject(s, item)
         IN IF item.type = "dict" THEN [m EXCEPT !.trailer = m.made] ELSE s
    [] key = "stream" -> Error(r)
    [] OTHER -> r

StreamItem(r, key, item, text) ==
  LET s == See(r, key)
      raw == SubSeq(text, item.start + 2, item.end - 1)     \* what is between the quotes
  IN CASE key = "dict" ->
            LET d == SetNextStateIfDictionary(s, item, "object")
                m == MakeObject(d, item)
            IN IF item.type = "dict" THEN [m EXCEPT !.cells[Top(r).cell].dict = m.made] ELSE d
       [] key \in {"data", "datafile"} /\ item.type # "string" -> ReplaceStreamData(Error(s), <<"data", <<>>>>)
       [] key = "data" /\ item.type = "string" -> ReplaceStreamData(s, <<"data", raw>>)
       [] key = "datafile" /\ item.type = "string" -> ReplaceStreamData(s, <<"datafile", item.v>>)
       [] OTHER -> r

DictionaryItem(r0, name, item, text) ==
  LET r == [r0 EXCEPT !.nextState = "ignore"]
      key == IF Len(name) = 1 THEN name[1] ELSE "other"     \* a word
      dict == IF r.cells[Top(r).cell].type = "stream" THEN r.cells[Top(r).cell].dict ELSE Top(r).cell
  IN CASE Top(r).state = "top" /\ key = "qpdf" ->
            IF item.type = "array" THEN [See(r, key) EXCEPT !.nextState = "qpdf"] ELSE Error(See(r, key))
       [] Top(r).state = "qpdf_meta" -> MetaItem(r, key, item)
       [] Top(r).state = "objects" -> ObjectsItem(r, key, name, item)
       [] Top(r).state = "object_top" -> ObjectItem(r, key, item)
       [] Top(r).state = "trailer" -> TrailerItem(r, key, item)
       [] Top(r).state = "stream" -> StreamItem(r, key, item, text)
       [] Top(r).state = "object" /\ KeyThrows(name) -> Throw(r)
       [] Top(r).state = "object" /\ ~KeyThrows(name) -> ReplaceKey(MakeObject(r, item), dict, KeyName(name))
       [] OTHER -> r

ArrayItem(r0, item) ==
  LET r == [r0 EXCEPT !.nextState = "ignore"]
      m == MakeObject(r, item)
  IN CASE Top(r).state = "qpdf" /\ "meta" \notin r.saw -> SetNextStateIfDictionary(See(r, "meta"), item, "qpdf_meta")
       [] Top(r).state = "qpdf" /\ "meta" \in r.saw /\ "objects" \notin r.saw ->
            SetNextStateIfDictionary(See(r, "objects"), item, "objects")
       [] Top(r).state = "qpdf" /\ "meta" \in r.saw /\ "objects" \in r.saw -> Error(r)
       [] Top(r).state = "object" -> [m EXCEPT !.cells[Top(r).cell].items = Append(@, m.made)]
       [] OTHER -> r

Callback(r, event, text) ==
  CASE event.call = "dictStart" -> ContainerStart(r)
    [] event.call = "arrayStart" -> ArrayStart(r)
    [] event.call = "end" -> ContainerEnd(r)
    [] event.call = "dictItem" -> DictionaryItem(r, event.key, event.item, text)
    [] event.call = "arrayItem" -> ArrayItem(r, event.item)
    [] event.call = "topLevelScalar" -> Throw(r)
React(r, event, text) ==   \* an exception leaves what is done after it undone
  LET n == Callback(r, event, text)
  IN IF r.threw THEN r ELSE IF n.threw THEN Throw(r) ELSE n

-----------------------------------------------------------------------------
Done == parser.wrong \/ parser.lex.done \/ w.threw
(* JSON is read, by itself or as a document; importJSON also fails if      *)
(* there were errors.                                                      *)
Failed == parser.wrong \/ w.threw \/ w.errors

Init ==
  /\ \E i \in DOMAIN Samples : sample \in Samples[i]
  /\ parser = NewParser
  /\ w = NewReactor(sample.doc)
Next ==
  /\ ~Done
  /\ parser' = ParseToken(parser, sample.text)
  /\ w' = IF sample.mode = "text" THEN w
          ELSE FoldLeft(LAMBDA r, e : React(r, e, sample.text), w, parser'.events)
  /\ UNCHANGED sample
Spec == Init /\ [][Next]_vars

-----------------------------------------------------------------------------
(* What there is in cells, and what it amounts to: numbers by their value, *)
(* strings of data by what they decode to, and nothing for null.           *)
RECURSIVE Value(_, _), Content(_, _)
Value(r, c) == IF r.cells[c].og # Direct THEN <<"ref", r.cells[c].og>> ELSE Content(r, c)
Content(r, c) ==
  LET x == r.cells[c]
  IN CASE x.type = "array" -> <<"array", [i \in DOMAIN x.items |-> Value(r, x.items[i])]>>
       [] x.type = "dict" -> <<"dict", [k \in DOMAIN x.map |-> Value(r, x.map[k])]>>
       [] x.type = "stream" -> <<"stream", Content(r, x.dict)[2], x.data>>
       [] x.type \in {"number", "string", "name"} -> <<x.type, x.v>>
       [] OTHER -> <<x.type>>

Stripped(s) == SubSeq(s, After(s, 1, {"0"}), Len(s))      \* of leading zeros
Amount(v) ==
  LET u == IF v[1] = "-" THEN Tail(v) ELSE v
      p == After(u, 1, Digit)
  IN <<IF u = v THEN "+" ELSE "-", Stripped(SubSeq(u, 1, p - 1)), Reverse(Stripped(Reverse(SubSeq(u, p + 1, Len(u)))))>>

Filter == <<"/", "Filter">>
Fetched(data, files) == IF data[1] = "datafile" /\ data[2] \in DOMAIN files THEN <<"data", files[data[2]]>> ELSE data
RECURSIVE Plain(_, _, _)
Plain(v, objects, files) ==
  LET map(m, without) ==
        [k \in {n \in DOMAIN m \ without : ~(m[n][1] = "ref" /\ m[n][2] \notin DOMAIN objects)} |-> Plain(m[k], objects, files)]
  IN CASE v[1] = "number" -> <<"number", Amount(v[2])>>
       [] v[1] = "array" -> <<"array", [i \in DOMAIN v[2] |-> Plain(v[2][i], objects, files)]>>
       [] v[1] = "dict" -> <<"dict", map(v[2], {})>>
       [] v[1] = "stream" ->
            LET data == Fetched(v[3], files)
                coded == Filter \in DOMAIN v[2] /\ v[2][Filter] = <<"name", <<"/", "Fl">>>>
            IN IF coded THEN <<"stream", map(v[2], {Length, Filter}), <<"data", Tail(data[2])>>>>
               ELSE <<"stream", map(v[2], {Length}), data>>
       [] OTHER -> v
Objects(r) == [og \in DOMAIN r.table |-> Content(r, r.table[og])]
PlainDocument(objects, trailer, files) ==
  LET some == [og \in {o \in DOMAIN objects : objects[o] # <<"null">>} |-> objects[og]]
  IN <<[og \in DOMAIN some |-> Plain(some[og], some, files)], Plain(trailer, some, files)>>

-----------------------------------------------------------------------------
(* A text is taken if and only if it is JSON and not too deeply nested,    *)
(* and a string stands for its characters, escaped or not.                 *)
ReadsJSON ==
  Done => /\ sample.valid => ~parser.wrong
          /\ ~sample.valid => parser.wrong \/ w.threw
          /\ sample.valid /\ sample.string # <<"no">> => Last(parser.stack).item.v = sample.string
(* A document that is taken is what its JSON means, in whatever order it   *)
(* is given; one that is not taken has left alone what it does not name.   *)
ImportedIsMeant ==
  Done /\ sample.mode = "document" =>
    IF ~Failed
    THEN /\ PlainDocument(Objects(w), Content(w, w.trailer), sample.files) =
              PlainDocument(sample.meant.objects, sample.meant.trailer, sample.files)
         /\ w.version = sample.meant.version
         /\ w.calls = sample.meant.calls
    ELSE \A og \in DOMAIN sample.old.objects \ sample.named :
           og \in DOMAIN w.table /\ Content(w, w.table[og]) = sample.old.objects[og]
(* An import ends without an exception if and only if nothing is wrong.    *)
ErrorsAreFound == Done /\ sample.mode = "document" => (Failed <=> ~sample.sound)
=============================================================================
