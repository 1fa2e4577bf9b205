----------------------------- MODULE JSONOutput ----------------------------
(***************************************************************************)
(* writeJSON (libqpdf/QPDF_json.cc) and what it writes of objects, without *)
(* the layout.                                                             *)
(*                                                                         *)
(* A value is <<type>>, <<"number" | "string" | "name", characters>>,      *)
(* <<"array", values>>, <<"dict", values by name>>, <<"ref", og>>, or      *)
(* <<"stream", values by name, data>>; a document has objects, by og, a    *)
(* trailer, which is a "dict", a version, and what has ever been called.   *)
(***************************************************************************)
EXTENDS JSONText

Short == (Backslash :> Backslash) @@ (Quote :> Quote) @@ ("BS" :> "b") @@ ("FF" :> "f") @@ ("LF" :> "n")
           @@ ("CR" :> "r") @@ ("TAB" :> "t")
EncodeChar(c) ==
  CASE c \in DOMAIN Short -> <<Backslash, Short[c]>>
    [] c = "NUL" -> <<Backslash, "u", "0", "0", "0", "0">>
    [] OTHER -> <<c>>
EncodeString(s) == FlattenSeq([i \in DOMAIN s |-> EncodeChar(s[i])])
Quoted(s) == <<Quote>> \o s \o <<Quote>>

Bytes == Codes @@ ("byte 128" :> 128) @@ ("byte 255" :> 255)
HexEncodeChar(c) == <<HexDigits[(Bytes[c] \div 16) + 1], HexDigits[(Bytes[c] % 16) + 1]>>
HexEncode(s) == FlattenSeq([i \in DOMAIN s |-> HexEncodeChar(s[i])])
IsByte(c) == c \in {"byte 128", "byte 255"}     \* not text in UTF-8

(* Strings: as text, unless characters are not printable.                  *)
UseHexString(s) == \E i \in DOMAIN s : s[i] = "NUL" \/ IsByte(s[i])
WriteString(s) ==
  Quoted(IF UseHexString(s) THEN <<"b", ":">> \o HexEncode(s) ELSE <<"u", ":">> \o EncodeString(s))

(* Names: as they are, or as PDF spells them.                              *)
NormalizeChar(c) ==
  CASE c = "NUL" -> <<"#">>
    [] c \in {"LF", " ", "#", "/"} \/ IsByte(c) -> <<"#">> \o HexEncodeChar(c)
    [] OTHER -> <<c>>
Normalize(name) == <<name[1]>> \o FlattenSeq([i \in 1..Len(name) - 1 |-> NormalizeChar(name[i + 1])])
WriteName(name) ==
  Quoted(IF \E i \in DOMAIN name : IsByte(name[i]) THEN <<"n", ":">> \o EncodeString(Normalize(name))
         ELSE EncodeString(name))

(* Numbers: JSON wants a digit on either side of a point.                  *)
WriteNumber(v) ==
  LET nonzero == {i \in DOMAIN v : v[i] # "0"}
      first == CHOOSE i \in nonzero : \A j \in nonzero : i <= j
      start == CASE v[1] = "." -> <<"0">> \o v
                 [] Len(v) > 1 /\ v[1] = "-" /\ v[2] = "." -> <<"-", "0">> \o Tail(v)
                 [] v[1] = "0" /\ nonzero = {} -> <<"0">>
                 [] v[1] = "0" /\ nonzero # {} /\ v[first] = "." -> <<"0">> \o SubSeq(v, first, Len(v))
                 [] v[1] = "0" /\ nonzero # {} /\ v[first] # "." -> SubSeq(v, first, Len(v))
                 [] OTHER -> v
  IN IF Last(v) = "." THEN Append(start, "0") ELSE start

WordOf == [x \in {"null", "true", "false"} |-> CHOOSE s \in DOMAIN Words : Words[s] = x]
RefText(og) == <<ToString(og[1]), " ", ToString(og[2]), " ", "R">>

Joined(parts) ==
  FlattenSeq([i \in DOMAIN parts |-> IF i = 1 THEN parts[i] ELSE <<",">> \o parts[i]])
Member(key, text) == Quoted(key) \o <<":">> \o text
InBraces(parts) == <<"{">> \o Joined(parts) \o <<"}">>

(* Members that are null, or refer to what is null, are left out.          *)
IsNull(objects, v) == v = <<"null">> \/ (v[1] = "ref" /\ objects[v[2]] = <<"null">>)
KeysWritten(objects, map) == SetToSeq({k \in DOMAIN map : ~IsNull(objects, map[k])})
RECURSIVE WriteValue(_, _)
WriteValue(objects, v) ==
  CASE v[1] \in {"null", "true", "false"} -> WordOf[v[1]]
    [] v[1] = "number" -> WriteNumber(v[2])
    [] v[1] = "string" -> WriteString(v[2])
    [] v[1] = "name" -> WriteName(v[2])
    [] v[1] = "ref" -> Quoted(RefText(v[2]))
    [] v[1] = "array" -> <<"[">> \o Joined([i \in DOMAIN v[2] |-> WriteValue(objects, v[2][i])]) \o <<"]">>
    [] v[1] = "dict" ->
         LET keys == KeysWritten(objects, v[2])
         IN InBraces([i \in DOMAIN keys |-> WriteName(keys[i]) \o <<":">> \o WriteValue(objects, v[2][keys[i]])])

(* Streams: their data not at all, inline or in a file, and decoded if it  *)
(* is asked for and can be done.                                           *)
Filter == <<"/", "Filter">>
Length == <<"/", "Length">>
Without(map, keys) == [k \in DOMAIN map \ keys |-> map[k]]
Filtered(map, decode) == decode /\ Filter \in DOMAIN map /\ map[Filter] = <<"name", <<"/", "Fl">>>>
Decoded(data) == Tail(data)            \* what the filter does
WrittenData(v, decode) == IF Filtered(v[2], decode) THEN Decoded(v[3][2]) ELSE v[3][2]
WriteStreamJSON(objects, og, v, kind, decode) ==
  LET gone == IF Filtered(v[2], decode) THEN {Length, Filter} ELSE {Length}
      map == IF kind = "none" THEN v[2] ELSE Without(v[2], gone)
      dict == Member(<<"dict">>, WriteValue(objects, <<"dict", map>>))
      data == CASE kind = "none" -> <<>>
                [] kind = "inline" -> <<Member(<<"data">>, Quoted(WrittenData(v, decode)))>>
                [] kind = "file" -> <<Member(<<"datafile">>, Quoted(<<"file-", ToString(og[1])>>))>>
  IN InBraces(Append(data, dict))

WriteObject(objects, og, kind, decode) ==
  LET v == objects[og]
  IN Member(<<"o", "b", "j", ":">> \o RefText(og),
            InBraces(<<IF v[1] = "stream" THEN Member(<<"stream">>, WriteStreamJSON(objects, og, v, kind, decode))
                       ELSE Member(<<"value">>, WriteValue(objects, v))>>))

(* wanted: which objects, and "trailer"; all if there are none.            *)
WriteJSON(doc, wanted, kind, decode) ==
  LET all == wanted = {}
      ids == SetToSortSeq({og \in DOMAIN doc.objects : all \/ og \in wanted}, LAMBDA a, b : a[1] < b[1])
      entries == [i \in DOMAIN ids |-> WriteObject(doc.objects, ids[i], kind, decode)]
      trailer == IF all \/ <<"trailer">> \in wanted
                 THEN <<Member(<<"trailer">>, InBraces(<<Member(<<"value">>, WriteValue(doc.objects, doc.trailer))>>))>>
                 ELSE <<>>
      ever(call) == Member(call, WordOf[IF call[1] \in doc.ever THEN "true" ELSE "false"])
      meta == InBraces(<<Member(<<"jsonversion">>, <<"2">>), Member(<<"pdfversion">>, Quoted(doc.version)),
                         ever(<<"pushedinheritedpageresources">>), ever(<<"calledgetallpages">>),
                         Member(<<"maxobjectid">>, <<"9">>)>>)
  IN InBraces(<<Member(<<"qpdf">>, <<"[">> \o meta \o <<",">> \o InBraces(entries \o trailer) \o <<"]">>)>>)
=============================================================================
