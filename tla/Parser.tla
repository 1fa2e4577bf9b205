------------------------------- MODULE Parser ------------------------------
(***************************************************************************)
(* The parser of QPDFParser.cc and what is read with it: an object, the    *)
(* objects of a content stream (QPDFObjectHandle.cc), and the tokens that  *)
(* a token filter is given (Pl_QPDFTokenizer.cc).  Each step reads one     *)
(* token.  A parser is a record; its methods are operators on it, as they  *)
(* call each other, and over says how it came to an end.                   *)
(***************************************************************************)
EXTENDS Tokenizer, FiniteSets, TLC

CONSTANTS
  Samples,           \* texts, how they are read and what they stand for
  Unknown,           \* of a text that stands for nothing in particular
  MaxLong,           \* the largest long long
  MaxInt,            \* the largest int
  MaxNesting,        \* Limits::parser_max_nesting
  MaxErrors,         \* Limits::parser_max_errors, 0 if there is no limit
  MaxSize,           \* Limits::parser_max_container_size of sound objects
  MaxDamaged         \* and of damaged ones

Near == 5   \* errors in close proximity that are accepted

(* Objects.  A dictionary maps names to objects.                           *)
EmptyMap == [n \in {} |-> Unknown]
Obj(type, v, kids, map) == [type |-> type, v |-> v, kids |-> kids, map |-> map]
Scalar(type, v) == Obj(type, v, <<>>, EmptyMap)
Null == Scalar("null", <<>>)
IntObj(n) == Scalar("integer", <<n>>)
Ref(id, gen) == Scalar("reference", <<id, gen>>)
ArrayObj(kids) == Obj("array", <<>>, kids, EmptyMap)
DictObj(map) == Obj("dictionary", <<>>, <<>>, map)

Slashed(w) == <<Slash>> \o w
Key == [contents |-> Slashed(<<67>>), type |-> Slashed(<<84>>), sig |-> Slashed(<<83>>),
        byteRange |-> Slashed(<<66>>)]             \* /Contents /Type /Sig /ByteRange
Fake(n) == Slashed(<<81, 48 + n>>)                 \* /QPDFFake<n>
EndObj == <<101, 110, 100, 111>>                   \* endobj
EndStream == <<101, 110, 100, 115>>                \* endstream
WordR == <<82>>

VARIABLES
  sample,    \* the text, and how it is read
  phase,     \* what is read next
  pos,       \* input.tell()
  last,      \* the last token: tok, at (getLastOffset) and pos after it
  p,         \* the parser
  offset,    \* content: where the object begins
  errors,    \* content: max_bad_count
  out        \* content: what the callbacks got; filter: what was written

vars == <<sample, phase, pos, last, p, offset, errors, out>>
tok == last.tok
text == sample.text
inContent == sample.mode = "content"

Frame(state) == [state |-> state, olist |-> <<>>, dict |-> EmptyMap, key |-> <<>>, contents |-> <<>>]
NewParser ==
  [stack |-> <<>>, held |-> <<>>, bad |-> 0, good |-> 0, budget |-> MaxErrors, isContents |-> FALSE,
   empty |-> FALSE, warned |-> FALSE, over |-> "no", object |-> Null]

Top(q) == q.stack[Len(q.stack)]
SetTop(q, f) == [q EXCEPT !.stack = [@ EXCEPT ![Len(q.stack)] = f]]
Running(q) == q.over = "no"
Over(q, how) == IF Running(q) THEN [q EXCEPT !.over = how] ELSE q
Return(q, o) == IF Running(q) THEN [q EXCEPT !.over = "object", !.object = o] ELSE q

(* Without a document to warn about, a warning is thrown to the caller.    *)
Warn(q) ==
  IF ~Running(q) THEN q
  ELSE IF sample.context THEN [q EXCEPT !.warned = TRUE] ELSE [q EXCEPT !.over = "thrown"]
GiveUp(q) == Over(Warn(q), "given up")

Limit(q) == IF q.bad > 0 \/ sample.sanity THEN MaxDamaged ELSE MaxSize
Full(q) == Len(Top(q).olist) >= Limit(q) \/ Cardinality(DOMAIN Top(q).dict) >= Limit(q)

Counted(q) ==
  CASE q.good > 4 -> [q EXCEPT !.bad = 1, !.good = 0]
    [] q.good <= 4 /\ (q.bad + 1 > Near \/ (Top(q).state # "array" /\ q.budget < Len(Top(q).olist))) -> GiveUp(q)
    [] OTHER -> [q EXCEPT !.bad = @ + 1, !.good = 0]
CheckTooManyBadTokens(q) ==
  CASE ~Running(q) -> q
    [] Running(q) /\ (Full(q) \/ q.budget = 1) -> GiveUp(q)
    [] OTHER -> Counted([q EXCEPT !.budget = IF @ = 0 THEN 0 ELSE @ - 1])

(* The value of a key, or an item; values that have no key wait in olist.  *)
Assigned(q, o) == SetTop(q, [Top(q) EXCEPT !.dict = (Top(q).key :> o) @@ @])
NextKey(q) == IF Running(q) THEN SetTop(q, [Top(q) EXCEPT !.state = "key"]) ELSE q
AddObject(q, o) ==
  CASE ~Running(q) -> q
    [] Running(q) /\ Top(q).state # "value" -> SetTop(q, [Top(q) EXCEPT !.olist = Append(@, o)])
    [] Running(q) /\ Top(q).state = "value" /\ Top(q).key \notin DOMAIN Top(q).dict -> NextKey(Assigned(q, o))
    [] OTHER -> NextKey(CheckTooManyBadTokens(Warn(Assigned(q, o))))

AddBadNull(q) == AddObject(CheckTooManyBadTokens(Warn(q)), Null)
AddScalar(q, o) == IF Running(q) /\ Full(q) THEN GiveUp(q) ELSE AddObject(q, o)

(* string_to_ll, which throws if the number does not fit.                  *)
Magnitude(raw) == FoldLeft(LAMBDA n, c : IF c \in Digit THEN (10 * n) + (c - 48) ELSE n, 0, raw)
IntOf(raw) == IF raw[1] = Minus THEN -Magnitude(raw) ELSE Magnitude(raw)
Fits(raw) == Magnitude(raw) <= MaxLong

(* Integers are held back until it is known whether they are a reference;  *)
(* of three in a row the first is none.                                    *)
Hold(q, raw) ==
  CASE ~Fits(raw) -> GiveUp(q)
    [] Fits(raw) /\ Running(q) -> [q EXCEPT !.held = Append(@, IntOf(raw))]
    [] OTHER -> q
HoldInt(q, raw) ==
  Hold(IF Len(q.held) < 2 THEN q ELSE AddObject([q EXCEPT !.held = Tail(@)], IntObj(Head(q.held))), raw)
Release(q) == FoldLeft(LAMBDA r, n : AddObject(r, IntObj(n)), [q EXCEPT !.held = <<>>], q.held)

AddRef(q, id, gen) ==
  CASE ~sample.context -> Over(q, "thrown")
    [] sample.context /\ (id > MaxInt \/ gen > MaxInt) -> GiveUp(q)
    [] sample.context /\ id \in 1..MaxInt /\ gen \in 0..65534 -> AddObject(q, Ref(id, gen))
    [] OTHER -> AddBadNull(q)
AddReference(q) == AddRef([q EXCEPT !.held = <<>>], q.held[1], q.held[2])

Decrypted(v) == IF sample.decrypt THEN <<0>> \o v ELSE v
ScalarOf(t) ==
  IF t.type = "string" THEN Scalar("string", Decrypted(t.val))
  ELSE IF t.type = "integer" THEN IntObj(IntOf(t.raw))
  ELSE IF t.type = "null" THEN Null
  ELSE IF t.type = "word" THEN Scalar(IF inContent THEN "operator" ELSE "string", t.raw)
  ELSE Scalar(t.type, ValueOf(t))

(* Values without a key get one that is not in use.                        *)
FreeFake_Next(taken, n) == n   \* mutant: whether the key is in use or not
FreeFake(taken, n) == CHOOSE m \in n..(n + Cardinality(taken)) :
                        Fake(m) \notin taken /\ \A k \in n..(m - 1) : Fake(k) \in taken
AddFake(s, o, m) == [dict |-> (Fake(m) :> o) @@ s.dict, next |-> m + 1]
FixMissingKeys(f, names) ==
  FoldLeft(LAMBDA s, o : AddFake(s, o, FreeFake(DOMAIN s.dict \cup names, s.next)),
           [dict |-> f.dict, next |-> 1], f.olist).dict
NamesIn(f) == {f.olist[i].v : i \in {j \in DOMAIN f.olist : f.olist[j].type = "name"}}

(* The contents of a signature are not decrypted.                          *)
Signed(f, d) ==
  IF /\ f.contents # <<>> /\ {Key.type, Key.byteRange, Key.contents} \subseteq DOMAIN d
     /\ d[Key.type] = Scalar("name", Key.sig) /\ d[Key.contents].type = "string"
  THEN [d EXCEPT ![Key.contents] = Scalar("string", f.contents)] ELSE d

Close(q, o) ==
  IF Len(q.stack) <= 1 THEN Return(q, o) ELSE AddObject([q EXCEPT !.stack = Front(@)], o)

CloseArray(q) == Close(q, ArrayObj(Top(q).olist))
LastValue(f) == IF f.state = "value" THEN [f EXCEPT !.dict = (f.key :> Null) @@ @] ELSE f
Repaired(f) == IF f.olist = <<>> \/ sample.sanity THEN f.dict ELSE FixMissingKeys(f, NamesIn(f))
EndDict(q, f) == IF Running(q) THEN Close(q, DictObj(Signed(f, Repaired(f)))) ELSE q
CloseDict(q) ==
  EndDict(IF Top(q).state = "value" \/ Top(q).olist # <<>> THEN Warn(q) ELSE q, LastValue(Top(q)))

CloseOrNot(q, closes, result) ==
  CASE ~Running(q) -> q
    [] Running(q) /\ closes -> result
    [] OTHER -> IF sample.sanity THEN GiveUp(q) ELSE AddBadNull(q)

Open(q, t) ==
  IF Len(q.stack) > MaxNesting THEN GiveUp(q)
  ELSE IF Running(q)
  THEN [q EXCEPT !.stack = Append(@, Frame(IF t.type = "array_open" THEN "array" ELSE "key")), !.isContents = FALSE]
  ELSE q

AddName(q, t) ==
  IF Running(q) /\ Top(q).state = "key"
  THEN [SetTop(q, [Top(q) EXCEPT !.key = t.val, !.state = "value"])
          EXCEPT !.isContents = sample.decrypt /\ t.val = Key.contents]
  ELSE AddScalar(q, ScalarOf(t))

AddWord(q, t) ==
  CASE inContent -> AddScalar(q, ScalarOf(t))
    [] ~inContent /\ ~sample.sanity -> AddScalar(CheckTooManyBadTokens(Warn(q)), ScalarOf(t))
    [] ~inContent /\ sample.sanity /\ t.raw \notin {EndObj, EndStream} -> AddBadNull(q)
    [] OTHER -> GiveUp(q)

NotedContents(q, t) ==
  IF Running(q) /\ q.isContents
  THEN [SetTop(q, [Top(q) EXCEPT !.contents = t.val]) EXCEPT !.isContents = FALSE] ELSE q

AddInteger(q, t) ==
  CASE ~Fits(t.raw) -> GiveUp(q)
    [] Fits(t.raw) /\ inContent -> AddScalar(q, ScalarOf(t))
    [] OTHER -> Hold(q, t.raw)

(* The body of the loop of parse_remainder, for a token that is no part of *)
(* a reference.                                                            *)
Take(q, t) ==
  CASE t.type = "eof" -> GiveUp(q)
    [] t.type = "bad" -> AddObject(CheckTooManyBadTokens(q), Null)
    [] t.type \in {"brace_open", "brace_close"} -> AddBadNull(q)
    [] t.type = "array_close" -> CloseOrNot(q, Top(q).state = "array", CloseArray(q))
    [] t.type = "dict_close" -> CloseOrNot(q, Top(q).state # "array", CloseDict(q))
    [] t.type \in {"array_open", "dict_open"} -> Open(q, t)
    [] t.type \in {"bool", "real"} -> AddScalar(q, ScalarOf(t))
    [] t.type = "null" -> AddObject(q, Null)
    [] t.type = "integer" -> AddInteger(q, t)
    [] t.type = "name" -> AddName(q, t)
    [] t.type = "word" -> AddWord(q, t)
    [] t.type = "string" -> AddScalar(NotedContents(q, t), ScalarOf(t))
    [] OTHER -> AddBadNull(q)

Warned(q, t) == IF t.error THEN Warn(q) ELSE q

Proceed(q, t) ==
  CASE ~Running(q) -> q
    [] Running(q) /\ q.held # <<>> /\ t.type = "integer" -> HoldInt(q, t.raw)
    [] Running(q) /\ Len(q.held) = 2 /\ t.type = "word" /\ t.raw = WordR -> AddReference(q)
    [] OTHER -> Take(Release(q), t)
Remainder(q, t) == Proceed([Warned(q, t) EXCEPT !.good = @ + 1], t)

First(q, t) ==
  CASE t.type = "eof" /\ inContent -> Over([q EXCEPT !.empty = TRUE], "given up")
    [] t.type = "bad" -> Over(q, "given up")
    [] t.type \in {"array_open", "dict_open"} -> Open(q, t)
    [] t.type = "word" /\ ~inContent /\ t.raw = EndObj -> GiveUp([q EXCEPT !.empty = TRUE])
    [] t.type = "word" /\ ~inContent /\ t.raw # EndObj -> Return(Warn(q), ScalarOf(t))
    [] \/ t.type \in {"bool", "null", "real", "name", "string"} \/ (t.type = "integer" /\ Fits(t.raw))
       \/ t.type = "word" /\ inContent -> Return(q, ScalarOf(t))
    [] OTHER -> GiveUp(q)
-----------------------------------------------------------------------------
Init ==
  /\ \E i \in DOMAIN Samples : sample \in Samples[i]
  /\ phase = IF sample.mode = "object" THEN "first" ELSE IF inContent THEN "scan" ELSE "filter"
  /\ pos = 0 /\ offset = 0 /\ errors = MaxErrors /\ out = <<>>
  /\ last = [tok |-> NewTokenizer(sample.allowEOF, sample.mode = "filter"), at |-> 0, pos |-> 0]
  /\ p = NewParser

ReadToken == last' = NextToken(tok, text, pos, 0)

(* What follows a parse: for a content stream the object is delivered.     *)
Parsed == p'.over = "object"
Stop == ~inContent \/ p'.over = "thrown" \/ p'.empty \/ (~Parsed /\ errors = 1)
Deliver(object) ==
  /\ errors' = IF Parsed \/ errors = 0 THEN errors ELSE errors - 1
  /\ out' = Append(out, [object |-> object, offset |-> offset, length |-> pos' - offset])
  /\ phase' = IF object = Scalar("operator", Word.id) THEN "image" ELSE "scan"
Conclude ==
  \/ Running(p') /\ phase' = "remainder" /\ UNCHANGED <<errors, out>>
  \/ ~Running(p') /\ Stop /\ phase' = "done" /\ UNCHANGED <<errors, out>>
  \/ ~Running(p') /\ ~Stop /\ Deliver(IF Parsed THEN p'.object ELSE Null)

(* parse_first and its single objects; endobj is left in the text.         *)
ParseFirst ==
  /\ phase = "first"
  /\ ReadToken
  /\ pos' = IF ~inContent /\ last'.tok.type = "word" /\ last'.tok.raw = EndObj THEN last'.at ELSE last'.pos
  /\ p' = First(Warned(NewParser, last'.tok), last'.tok)
  /\ Conclude
  /\ UNCHANGED <<sample, offset>>

(* The rest of a container, one token of it.                               *)
ParseRemainder ==
  /\ phase = "remainder"
  /\ ReadToken /\ pos' = last'.pos
  /\ p' = Remainder(p, last'.tok)
  /\ Conclude
  /\ UNCHANGED <<sample, offset>>

(* parseContentStream_data finds out where the next object begins.         *)
SkipIgnorable ==
  /\ phase = "scan" /\ pos < Len(text)
  /\ last' = NextToken(tok, text, pos, 1)
  /\ pos' = last'.at /\ offset' = last'.at
  /\ phase' = "first"
  /\ UNCHANGED <<sample, p, errors, out>>

EndContent ==
  phase = "scan" /\ pos >= Len(text) /\ phase' = "done" /\ UNCHANGED <<sample, pos, last, p, offset, errors, out>>

(* The character after ID is dropped, what follows is the image.           *)
AfterNext(at) == IF at < Len(text) THEN at + 1 ELSE at
Image(n) == [object |-> Scalar("image", n.tok.raw), offset |-> n.at, length |-> n.pos - n.at]
ReadImage ==
  /\ phase = "image"
  /\ last' = NextToken(ExpectInlineImage(tok, text, AfterNext(pos)), text, AfterNext(pos), 0)
  /\ pos' = last'.pos /\ offset' = last'.at
  /\ out' = IF last'.tok.type = "bad" THEN out ELSE Append(out, Image(last'))
  /\ phase' = "scan"
  /\ UNCHANGED <<sample, p, errors>>

(* Pl_QPDFTokenizer::finish with a filter that writes what it is given.    *)
IsID(t) == t.type = "word" /\ t.raw = Word.id
Expecting(n) == [n EXCEPT !.tok = ExpectInlineImage(@, text, AfterNext(n.pos))]
Passed(n) == IF n.pos < Len(text) THEN text[n.pos + 1] ELSE SP
PassOn(n) ==
  IF IsID(n.tok)
  THEN last' = Expecting(n) /\ pos' = AfterNext(n.pos) /\ out' = out \o n.tok.raw \o <<Passed(n)>>
  ELSE last' = n /\ pos' = n.pos /\ out' = out \o n.tok.raw
FilterToken ==
  /\ phase = "filter"
  /\ PassOn(NextToken(tok, text, pos, 0))
  /\ phase' = IF last'.tok.type = "eof" THEN "done" ELSE "filter"
  /\ UNCHANGED <<sample, p, offset, errors>>

Ended == phase = "done" /\ UNCHANGED vars

Next == ParseFirst \/ ParseRemainder \/ SkipIgnorable \/ EndContent \/ ReadImage \/ FilterToken \/ Ended
Spec == Init /\ [][Next]_vars
-----------------------------------------------------------------------------
(* A text is covered by what is read of it.  The text from the last offset *)
(* to the position after a token is its raw value (QPDFTokenizer.hh).  A   *)
(* filter that writes the tokens it gets has written what was read, images *)
(* and damage included (after an ID at the end also the space that is      *)
(* missing there).  And the callbacks of a content stream get all of it,   *)
(* in order: only space is between one thing and the next.                 *)
TokensAreText ==
  /\ tok.state = "token_ready" /\ tok.type # "eof" => tok.raw = SubSeq(text, last.at + 1, last.pos)
  /\ sample.mode = "filter" => out \in {SubSeq(text, 1, pos), text \o <<SP>>}
  /\ inContent /\ phase = "done" /\ sample.marks = {} =>
       \A i \in 2..Len(out) :
         LET from == out[i - 1].offset + out[i - 1].length
         IN out[i].offset >= from /\ ToSet(SubSeq(text, from + 1, out[i].offset)) \subseteq Space

(* What is written is read again: however an object is spelled, the parser *)
(* returns it without a warning, and the input is left right behind it; a  *)
(* content stream is read as the operands, operators and images it has.    *)
ParsedIsWritten ==
  phase = "done" /\ sample.plain # Unknown =>
    IF inContent THEN [i \in DOMAIN out |-> out[i].object] = sample.plain /\ ~p.warned
    ELSE p.over = "object" /\ ~p.warned /\ p.object = sample.plain /\ pos = sample.end

RECURSIVE Within(_)
Within(o) ==
  UNION {Within(o.kids[i]) : i \in DOMAIN o.kids} \cup UNION {Within(o.map[n]) \cup {n} : n \in DOMAIN o.map}
    \cup {o.v}

(* Of a damaged object that is accepted nothing is lost: every name and    *)
(* every string that has been read is in it, under some key, unless a key  *)
(* is given twice.  And when the document is being recovered, no object    *)
(* takes in what is behind the next endobj.                                *)
RecoveryKeeps ==
  ~Running(p) /\ sample.mode = "object" =>
    /\ p.over = "object" /\ ~sample.sanity =>
         \A m \in sample.marks : m.end <= pos => m.v \in Within(p.object)
    /\ sample.sanity => pos <= sample.endobj

(* Whatever the text, reading it ends: a step gets further in the text, is *)
(* the last, or comes before such a one, as an image that is not there is  *)
(* looked for once; and at the end of the text, where a tokenizer that has *)
(* not been told to allow it finds a bad token for ever, errors are        *)
(* counted until there are too many.                                       *)
Advances ==
  [][\/ pos' > pos \/ phase' = "done"
     \/ pos' = pos /\ <<phase, phase'>> \in {<<"scan", "first">>, <<"image", "scan">>, <<"remainder", "scan">>}
     \/ pos' = pos /\ tok.state = "inline_image" /\ tok'.state = "token_ready"
     \/ pos' = pos /\ phase' = "remainder" /\ p'.bad > p.bad /\ p'.bad <= Near]_vars
=============================================================================
