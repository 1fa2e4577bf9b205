------------------------------ MODULE StreamData ---------------------------
(***************************************************************************)
(* How the data of a stream is had: Stream::pipeStreamData builds a chain  *)
(* of filters, and writes the data into it from the file                   *)
(* (QPDF::pipeStreamData, which catches what the filters throw), from a    *)
(* buffer, or from a provider that writes pieces of any size.  Its callers *)
(* try twice, the second time without filters: Writer::will_filter_stream, *)
(* which collects in a string, and Stream::writeStreamJSON, which collects *)
(* in a Pl_Buffer that must have been finished since it was written to.    *)
(*                                                                         *)
(* Left out: compression and normalization on the way out, warnings, and   *)
(* providers that support retry, other than copies of the file's streams,  *)
(* which are as the file.                                                  *)
(***************************************************************************)
EXTENDS Filters

CONSTANTS
  Streams      \* records: before (decryption), filters, text, and plain: the decoded data, or Unknown

CONSTANT Unknown
ASSUME StreamsAssumption ==
  \A st \in Streams : /\ st.before \in Seq({"aes"}) /\ st.filters \in Seq(STRING)
                      /\ st.text \in Seq(Byte)
                      /\ st.plain = Unknown \/ st.plain.data \in Seq(Byte)

VARIABLES
  stream,    \* which stream
  source,    \* where its data comes from; "short" is a file that ends within it
  caller,    \* who wants it
  filter,    \* the caller's filter: decode
  attempt,   \* 1 or 2
  filtered,  \* *filterp of pipeStreamData
  pc,        \* what goes on
  rest,      \* what a provider has yet to write
  chain,     \* the pipelines, with the data the caller has collected
  writes,    \* the calls of write() under way, the innermost last
  ending     \* the next pipeline to finish

asked == <<stream, source, caller>>
trying == <<filter, attempt, filtered>>
vars == <<asked, trying, pc, rest, chain, writes, ending>>

Sources == {"file", "short", "buffer", "provider"}
Decoder(kind) ==
  CASE kind = "run" -> RunDecoder
    [] kind = "lzw early" -> LZWDecoder(1)
    [] kind = "lzw" -> LZWDecoder(0)
    [] kind = "base85" -> Decoder85
    [] kind = "hex" -> HexDecoder
    [] kind \in {"png", "tiff"} -> Predictor(kind, FALSE)
    [] kind = "aes" -> AES(FALSE)
Decoders(kinds) == [i \in DOMAIN kinds |-> Decoder(kinds[i])]

(* Stream::filterable, for a stream with its filters or one not supported. *)
Filterable(st) == ToSet(st.filters) \subseteq {"run", "lzw early", "lzw", "base85", "hex", "png", "tiff"}
Stages(st, f) == Decoders(st.before \o (IF f THEN st.filters ELSE <<>>))
Ready(st, f, sink) == [sink EXCEPT !.stages = Stages(st, f), !.threw = FALSE]

Init ==
  /\ stream \in Streams
  /\ source \in IF stream.before = <<>> THEN Sources ELSE {"file", "short"}
  /\ source = "short" => stream.text # <<>>
  /\ caller \in {"writer", "json"}
  /\ filter \in BOOLEAN
  /\ attempt = 1 /\ filtered = FALSE /\ pc = "attempt" /\ rest = <<>> /\ chain = Chain(<<>>)
  /\ writes = <<>> /\ ending = 1

-----------------------------------------------------------------------------
(* A write to a pipeline: what is left of the data, and the state in which *)
(* the pipeline before is when the call returns.                           *)
Idle == [kind |-> "idle"]
Call(at, data, back) == [at |-> at, data |-> data, back |-> back]
WriteTo(i, data) == IF data = <<>> THEN <<>> ELSE <<Call(i, data, Idle)>>

Innermost == Last(writes)
Writing == writes # <<>>
AtTheEnd(w) == w.at > Len(chain.stages)
With(i, s) == [chain EXCEPT !.stages[i] = s]

(* It has taken all it was given; at the end of the chain it is collected. *)
WriteReturns ==
  /\ Writing /\ (AtTheEnd(Innermost) \/ Innermost.data = <<>>)
  /\ LET w == Innermost
         resumed == IF w.back = Idle THEN chain ELSE With(w.at - 1, w.back)
     IN chain' = IF AtTheEnd(w) THEN [resumed EXCEPT !.out = @ \o w.data, !.ready = FALSE] ELSE resumed
  /\ writes' = Front(writes)
  /\ UNCHANGED <<asked, trying, pc, rest, ending>>

(* It takes some more, and writes to the next one, if at all.  What it     *)
(* throws, none of those before it catches.                                *)
WriteGoesOn ==
  /\ Writing /\ ~AtTheEnd(Innermost) /\ Innermost.data # <<>>
  /\ \E did \in {Step(chain.stages[Innermost.at], Innermost.data)} :
       LET w == Innermost
           taken == Append(Front(writes), [w EXCEPT !.data = SubSeq(@, did.used + 1, Len(@))])
       IN \/ /\ did.threw
             /\ chain' = [With(w.at, did.s) EXCEPT !.threw = TRUE]
             /\ writes' = <<>>
          \/ /\ ~did.threw /\ did.emit = <<>>
             /\ chain' = With(w.at, did.s)
             /\ writes' = taken
          \/ /\ ~did.threw /\ did.emit # <<>>
             /\ chain' = With(w.at, did.during)
             /\ writes' = Append(taken, Call(w.at + 1, did.emit, did.s))
  /\ UNCHANGED <<asked, trying, pc, rest, ending>>

-----------------------------------------------------------------------------
(* Stream::pipeStreamData.  Data of no length is always filtered, if that  *)
(* is known before it comes.                                               *)
Filters(f) == (f \/ (source # "provider" /\ stream.text = <<>>)) /\ Filterable(stream)

Begin(how) ==
  /\ pc = "attempt" /\ pc' = how
  /\ filtered' = Filters(filter)
  /\ chain' = Ready(stream, Filters(filter), chain)
  /\ ending' = 1
  /\ UNCHANGED <<asked, filter, attempt>>

(* A short file writes nothing.                                            *)
PipeFile ==
  \/ /\ source = "file" /\ Begin("writing")
     /\ writes' = WriteTo(1, stream.text)
     /\ UNCHANGED rest
  \/ /\ source = "short" /\ Begin("recovering")
     /\ UNCHANGED <<rest, writes>>

PipeBuffer ==
  /\ source = "buffer" /\ Begin("writing")
  /\ writes' = WriteTo(1, stream.text)
  /\ UNCHANGED rest

PipeProvider ==
  /\ source = "provider" /\ Begin("providing")
  /\ rest' = stream.text
  /\ UNCHANGED writes

(* A provider writes some more, and finishes.                              *)
ProviderWrites ==
  /\ pc = "providing" /\ ~Writing /\ ~chain.threw
  /\ \E n \in 1..Len(rest) :
       /\ writes' = WriteTo(1, SubSeq(rest, 1, n))
       /\ rest' = SubSeq(rest, n + 1, Len(rest))
  /\ UNCHANGED <<asked, trying, pc, chain, ending>>

(* What has been written is finished, unless something was thrown: then    *)
(* QPDF::pipeStreamData finishes all the same, and others do not.          *)
Written ==
  /\ ~Writing
  /\ pc = "writing" \/ (pc = "providing" /\ (rest = <<>> \/ chain.threw))
  /\ pc' = IF ~chain.threw THEN "finishing" ELSE IF source = "file" THEN "recovering" ELSE "threw"
  /\ chain' = IF source = "file" THEN [chain EXCEPT !.threw = FALSE] ELSE chain
  /\ UNCHANGED <<asked, trying, rest, writes, ending>>

(* A pipeline writes what it still has, and finishes the next one.         *)
MoreToFinish == ~chain.threw /\ ending <= Len(chain.stages) /\ PassesFinish(chain.stages[ending])

FinishNext ==
  /\ pc \in {"finishing", "recovering"} /\ ~Writing /\ MoreToFinish
  /\ \E end \in {AtEnd(chain.stages[ending])} :
       /\ chain' = With(ending, end.s)
       /\ writes' = WriteTo(ending + 1, end.emit)
  /\ ending' = ending + 1
  /\ UNCHANGED <<asked, trying, pc, rest>>

FinishReturns ==
  /\ pc \in {"finishing", "recovering"} /\ ~Writing /\ ~MoreToFinish
  /\ chain' = [chain EXCEPT !.ready = @ \/ (~chain.threw /\ ending > Len(chain.stages))]
  /\ pc' = IF pc = "recovering" \/ (chain.threw /\ source = "file") THEN "failed"
           ELSE IF chain.threw THEN "threw" ELSE "succeeded"
  /\ filtered' = (filtered /\ pc' # "failed")
  /\ UNCHANGED <<asked, filter, attempt, rest, writes, ending>>

-----------------------------------------------------------------------------
(* The callers.  Both begin again without filters and with nothing         *)
(* collected.                                                              *)

End(how) == pc' = how /\ UNCHANGED <<filter, attempt, rest, chain>>

(* A slip: what the first attempt has collected stays.                     *)
Again_Keep ==
  /\ filter' = FALSE /\ attempt' = 2 /\ pc' = "attempt" /\ rest' = <<>>
  /\ chain' = chain

Again ==
  /\ filter' = FALSE /\ attempt' = 2 /\ pc' = "attempt" /\ rest' = <<>>
  /\ chain' = [chain EXCEPT !.out = <<>>]

(* Writer::will_filter_stream, where pipeStreamData returns whether it has *)
(* filtered.                                                               *)
WriterGoesOn ==
  /\ caller = "writer" /\ pc \in {"succeeded", "failed", "threw"}
  /\ IF pc = "threw" THEN (IF filter /\ attempt = 1 THEN Again ELSE End("error"))
     ELSE IF filtered \/ ~filter THEN End("done")
     ELSE Again
  /\ UNCHANGED <<asked, filtered, writes, ending>>

(* Stream::writeStreamJSON.                                                *)
JSONGoesOn ==
  /\ caller = "json" /\ pc \in {"succeeded", "failed", "threw"}
  /\ IF pc = "succeeded" /\ ~(filter /\ ~filtered) THEN End("done")
     ELSE IF pc = "threw" \/ ~chain.ready \/ attempt = 2 THEN End("error")
     ELSE Again
  /\ UNCHANGED <<asked, filtered, writes, ending>>

Finished == pc \in {"done", "error"} /\ UNCHANGED vars

Next ==
  \/ PipeFile \/ PipeBuffer \/ PipeProvider \/ ProviderWrites
  \/ WriteReturns \/ WriteGoesOn \/ Written \/ FinishNext \/ FinishReturns
  \/ WriterGoesOn \/ JSONGoesOn \/ Finished

Spec == Init /\ [][Next]_vars

-----------------------------------------------------------------------------
(* What a decoder keeps, wherever it is in its data.                       *)
RunOK(s) ==
  /\ s \in [kind : {"run"}, length : 0..MaxRun, state : {"top", "copying", "run"}, out : Seq(Byte)]
  /\ s.state = "copying" => s.length > 0

(* The bits not yet used are those between bitPos and nextChar, and leave  *)
(* room for a byte; codes are as long as the table needs, one early or not.*)
RingOK(s) ==
  \E k \in 0..2 : /\ s.bitPos + s.available = k * LiteralBits
                  /\ s.nextChar = (s.bytePos + k) % 3
CodeSizeOK(s) ==
  LET next == FirstFree + Len(s.table) + s.early
  IN /\ s.codeSize < MaxWidth => next < Power(2, s.codeSize)
     /\ s.codeSize > LiteralBits + 1 => next >= Power(2, s.codeSize - 1)
TableOK(s) ==
  /\ FirstFree + Len(s.table) <= Power(2, MaxWidth)
  /\ \/ s.eod \/ s.lastCode \in 0..Clear
     \/ s.lastCode - FirstFree \in 0..(Len(s.table) - 1)
LZWStage ==
  [kind : {"lzw"}, buf : [1..3 -> Byte], nextChar : 0..2, bytePos : 0..2,
   bitPos : 0..(LiteralBits - 1), available : Nat, codeSize : (LiteralBits + 1)..MaxWidth,
   early : 0..1, eod : BOOLEAN, table : Seq(Seq(Byte) \ {<<>>}), lastCode : Nat]
LZWOK(s) ==
  /\ s \in LZWStage /\ s.available < s.codeSize
  /\ RingOK(s) /\ CodeSizeOK(s) /\ TableOK(s)

Base85OK(s) ==
  s \in [kind : {"base85"}, inbuf : [1..(Group + 1) -> 0..(Radix - 1)], pos : 0..Group,
         eod : 0..2, error : BOOLEAN]
HexOK(s) ==
  s \in [kind : {"hex"}, inbuf : [1..2 -> 0..(Nibble - 1)], pos : 0..1, eod : BOOLEAN]

PredictorOK(s) ==
  s \in [kind : {"png", "tiff"}, encode : {FALSE}, row : [1..(Row + 1) -> Byte],
         prev : [1..(Row + 1) -> Byte], pos : 0..Row]
AESOK(s) ==
  /\ s \in [kind : {"aes"}, encrypt : {FALSE}, inbuf : Seq(Byte), first : BOOLEAN, cbc : [1..Block -> Byte]]
  /\ Len(s.inbuf) <= Block

StageOK(s) ==
  \/ RunOK(s) \/ LZWOK(s) \/ Base85OK(s) \/ HexOK(s) \/ PredictorOK(s) \/ AESOK(s)

(* Every write and read of a decoder's buffer is within it, after any      *)
(* data, in any pieces, and when what comes after it has thrown.           *)
StaysInBuffers ==
  /\ pc \in {"attempt", "writing", "providing", "finishing", "recovering",
             "succeeded", "failed", "threw", "done", "error"}
  /\ attempt \in 1..2 /\ filter \in BOOLEAN /\ filtered \in BOOLEAN
  /\ rest \in Seq(Byte) /\ chain.out \in Seq(Byte)
  /\ \A i \in DOMAIN chain.stages : StageOK(chain.stages[i])

(* Whole rows come out of a predictor: the last one is filled with zeros.  *)
Rows(x) == Fill(x, Row * ((Len(x) + Row - 1) \div Row), 0)
Original(st) == IF st.plain.rows THEN Rows(st.plain.data) ELSE st.plain.data

(* What is decoded is what was encoded, through whatever chain of filters, *)
(* whoever encoded it, and in whatever pieces it came.                     *)
DecodedIsOriginal ==
  pc = "done" /\ filtered /\ stream.plain # Unknown => chain.out = Original(stream)
=============================================================================
