------------------------------- MODULE Filters -----------------------------
(***************************************************************************)
(* The pipelines that encode and decode the data of streams: Pl_RunLength, *)
(* Pl_LZWDecoder, Pl_ASCII85Decoder, Pl_ASCIIHexDecoder, Pl_PNGFilter,     *)
(* Pl_TIFFPredictor and Pl_AES_PDF, each by itself.  Data comes to a       *)
(* pipeline in writes of any size; what it has to keep between two writes  *)
(* is its state.  A pipeline writes to the next one while it is written    *)
(* to: StreamData has the calls one by one, StreamsAtOnce all at once.     *)
(*                                                                         *)
(* Left out: memory limits, samples of other than 8 bits in the TIFF       *)
(* predictor, the cipher itself, and its uses without padding (for keys).  *)
(***************************************************************************)
EXTENDS Formats

CONSTANTS
  Block,       \* buf_size of Pl_AES_PDF: 16
  Vector,      \* the initialization vector, which is random
  Row,         \* bytes_per_row of the predictors
  Pixel        \* bytes_per_pixel, samples_per_pixel

ASSUME FiltersAssumption ==
  /\ Block \in 2..(Octet - 1) /\ Vector \in [1..Block -> Byte]
  /\ Row \in Nat \ {0} /\ Pixel \in Nat \ {0}

(* What a step of a pipeline s does: how many bytes it used, its state     *)
(* then, what it writes to the next pipeline, and its state meanwhile,     *)
(* which is what stays if the next one throws.                             *)
Did(s, emit, during, used) == [s |-> s, emit |-> emit, during |-> during, used |-> used, threw |-> FALSE]
Keep(s) == Did(s, <<>>, s, 1)
Emit(s, data) == Did(s, data, s, 1)
Throw(s) == [Keep(s) EXCEPT !.threw = TRUE]

-----------------------------------------------------------------------------
(* Pl_RunLength: the bytes kept are a copy or a run, of at most MaxRun.    *)

MaxRun == Octet \div 2   \* 128

RunEncoder == [kind |-> "runEncoder", buf |-> <<>>, state |-> "top"]

FlushEncode(s) ==
  LET n == Len(s.buf)
      data == IF s.state = "run" THEN <<(2 * MaxRun) + 1 - n, s.buf[1]>>
              ELSE IF n > 0 THEN <<n - 1>> \o s.buf ELSE <<>>
  IN Did([s EXCEPT !.buf = <<>>, !.state = "top"], data, s, 1)

RunEncode(s, ch) ==
  LET n == Len(s.buf)
      again == n > 0 /\ (s.state = "copying" \/ n < MaxRun) /\ ch = s.buf[n]
      flushed == CASE again /\ s.state = "copying" -> [FlushEncode([s EXCEPT !.buf = Front(@)]) EXCEPT !.s.buf = <<ch>>]
                   [] ~again /\ (n = MaxRun \/ s.state = "run") -> FlushEncode(s)
                   [] OTHER -> Keep(s)
      state == IF again THEN "run" ELSE IF n > 0 /\ flushed.emit = <<>> THEN "copying" ELSE flushed.s.state
  IN IF (s.state = "top") # (n <= 1) THEN Throw(s)
     ELSE [flushed EXCEPT !.s.buf = Append(@, ch), !.s.state = state]

RunDecoder == [kind |-> "run", length |-> 0, state |-> "top", out |-> <<>>]

RunDecode(s, ch) ==
  CASE s.state = "top" /\ ch < MaxRun -> Keep([s EXCEPT !.length = ch + 1, !.state = "copying"])
    [] s.state = "top" /\ ch > MaxRun -> Keep([s EXCEPT !.length = (2 * MaxRun) + 1 - ch, !.state = "run"])
    [] s.state = "top" /\ ch = MaxRun -> Keep(s)
    [] s.state = "copying" -> Keep([s EXCEPT !.out = Append(@, ch), !.length = @ - 1,
                                             !.state = IF s.length = 1 THEN "top" ELSE @])
    [] s.state = "run" -> Keep([s EXCEPT !.out = @ \o [i \in 1..s.length |-> ch], !.state = "top"])

-----------------------------------------------------------------------------
(* Pl_LZWDecoder: codes are taken from a ring of three bytes.              *)

LZWDecoder(early) ==
  [kind |-> "lzw", buf |-> <<0, 0, 0>>, nextChar |-> 0, bytePos |-> 0, bitPos |-> 0, available |-> 0,
   codeSize |-> LiteralBits + 1, early |-> early, eod |-> FALSE, table |-> <<>>, lastCode |-> Clear]

StringOf(table, code) == IF code < Clear THEN <<code>> ELSE table[code - FirstFree + 1]

(* The entry that the last code and the one just read make.                *)
(* A slip: EarlyChange is ignored.                                         *)
AddToTable_Late(s, code) ==
  LET new == Len(s.table)
      c == IF code < Clear THEN code
           ELSE IF code - FirstFree = new THEN StringOf(s.table, s.lastCode)[1] ELSE s.table[code - FirstFree + 1][1]
  IN IF code - FirstFree > new \/ FirstFree + new = Power(2, MaxWidth) THEN Throw(s)
     ELSE Keep([s EXCEPT !.table = Append(@, Append(StringOf(s.table, s.lastCode), c)),
                         !.codeSize = IF \E w \in (LiteralBits + 1)..(MaxWidth - 1) : FirstFree + new = Power(2, w) - 1
                                      THEN @ + 1 ELSE @])

AddToTable(s, code) ==
  LET new == Len(s.table)
      idx == code - FirstFree
      c == IF code < Clear THEN code
           ELSE IF idx = new THEN StringOf(s.table, s.lastCode)[1] ELSE s.table[idx + 1][1]
      change == FirstFree + new + s.early
  IN IF idx > new \/ FirstFree + new = Power(2, MaxWidth) THEN Throw(s)
     ELSE Keep([s EXCEPT !.table = Append(@, Append(StringOf(s.table, s.lastCode), c)),
                         !.codeSize = IF \E w \in (LiteralBits + 1)..(MaxWidth - 1) : change = Power(2, w) - 1
                                      THEN @ + 1 ELSE @])

(* The code becomes the last one when its string has been written.         *)
Decode(added, code) ==
  IF added.threw \/ code - FirstFree >= Len(added.s.table) THEN Throw(added.s)
  ELSE Did([added.s EXCEPT !.lastCode = code], StringOf(added.s.table, code), added.s, 1)

HandleCode(s, code) ==
  IF s.eod THEN Keep(s)
  ELSE IF code = Clear
  THEN Keep([s EXCEPT !.table = <<>>, !.codeSize = LiteralBits + 1, !.lastCode = code])
  ELSE IF code = EndOfData THEN Keep([s EXCEPT !.eod = TRUE, !.lastCode = code])
  ELSE Decode(IF s.lastCode = Clear THEN Keep(s) ELSE AddToTable(s, code), code)

SendNextCode(s) ==
  LET byte(i) == s.buf[((s.bytePos + i) % 3) + 1]
      high == LiteralBits - s.bitPos
      med == Min({s.codeSize - high, LiteralBits})
      low == s.codeSize - high - med
      upper == ((byte(0) % Power(2, high)) * Power(2, med)) + (byte(1) \div Power(2, LiteralBits - med))
      code == IF low = 0 THEN upper ELSE (upper * Power(2, low)) + (byte(2) \div Power(2, LiteralBits - low))
      at == IF low = 0 THEN <<s.bytePos + 1, med>> ELSE <<s.bytePos + 2, low>>
  IN HandleCode([s EXCEPT !.bytePos = (at[1] + (at[2] \div LiteralBits)) % 3,
                          !.bitPos = at[2] % LiteralBits,
                          !.available = @ - s.codeSize], code)

LZWDecode(s, ch) ==
  LET got == [s EXCEPT !.buf[s.nextChar + 1] = ch,
                       !.nextChar = (@ + 1) % 3,
                       !.available = @ + LiteralBits]
  IN IF got.available >= got.codeSize THEN SendNextCode(got) ELSE Keep(got)

-----------------------------------------------------------------------------
(* Pl_ASCII85Decoder and Pl_ASCIIHexDecoder.  The places of digits not yet *)
(* read hold the highest digit, or the lowest.                             *)

Decoder85 == [kind |-> "base85", inbuf |-> Fill(<<>>, Group + 1, Radix - 1), pos |-> 0, eod |-> 0, error |-> FALSE]

Flush85(s) ==
  IF s.pos = 0 THEN Keep(s)
  ELSE Emit([s EXCEPT !.pos = 0, !.inbuf = Decoder85.inbuf],
            SubSeq(ToDigits(OfDigits(s.inbuf, Radix), Octet, Group), 1, s.pos - 1))

Digit85(s, ch) ==
  LET got == [s EXCEPT !.inbuf[s.pos + 1] = ch, !.pos = @ + 1]
  IN IF got.pos = Group + 1 THEN Flush85(got) ELSE Keep(got)

Decode85(s, ch) ==
  IF ch = Space \/ s.eod = 2 THEN Keep(s)
  ELSE IF s.eod = 1 THEN (IF ch = Gt THEN [Flush85(s) EXCEPT !.s.eod = 2] ELSE Throw(s))
  ELSE IF ch = Tilde THEN Keep([s EXCEPT !.eod = 1])
  ELSE IF ch = Zee THEN (IF s.pos = 0 THEN Emit(s, Fill(<<>>, Group, 0)) ELSE Throw(s))
  ELSE IF ch < Radix THEN Digit85(s, ch)
  ELSE Throw([s EXCEPT !.error = TRUE])

HexDecoder == [kind |-> "hex", inbuf |-> <<0, 0>>, pos |-> 0, eod |-> FALSE]

(* A slip: the position stays.                                             *)
FlushHex_Stay(s) ==
  IF s.pos = 0 THEN Keep(s)
  ELSE Emit([s EXCEPT !.inbuf = <<0, 0>>], <<(Nibble * s.inbuf[1]) + s.inbuf[2]>>)

FlushHex(s) ==
  IF s.pos = 0 THEN Keep(s)
  ELSE Emit([s EXCEPT !.pos = 0, !.inbuf = <<0, 0>>], <<(Nibble * s.inbuf[1]) + s.inbuf[2]>>)

DigitHex(s, ch) ==
  LET got == [s EXCEPT !.inbuf[s.pos + 1] = ch, !.pos = @ + 1]
  IN IF got.pos = 2 THEN FlushHex(got) ELSE Keep(got)

DecodeHex(s, ch) ==
  IF s.eod \/ ch = Space THEN Keep(s)
  ELSE IF ch = Gt THEN FlushHex([s EXCEPT !.eod = TRUE])
  ELSE IF ch < Nibble THEN DigitHex(s, ch)
  ELSE Throw(s)

-----------------------------------------------------------------------------
(* The predictors work on rows, and take as much of a write as the row     *)
(* lacks.  A row of PNG comes with a byte that names its filter.           *)

Predictor(kind, encode) ==
  [kind |-> kind, encode |-> encode, row |-> Fill(<<>>, Row + 1, 0), prev |-> Fill(<<>>, Row + 1, 0), pos |-> 0]

Incoming(s) == IF s.kind = "png" /\ ~s.encode THEN Row + 1 ELSE Row
Wrap(n) == n % Octet
Distance(a, b) == IF a > b THEN a - b ELSE b - a

Paeth(a, b, c) ==
  LET p == a + b - c
      pa == Distance(p, a)
      pb == Distance(p, b)
      pc == Distance(p, c)
  IN IF pa <= pb /\ pa <= pc THEN a ELSE IF pb <= pc THEN b ELSE c

(* The bytes of a row, each from those to the left, already decoded, and   *)
(* those above; prev_row is there until the first finish.                  *)
DecodeRow(row, prev) ==
  LET back(b, i) == IF i > Pixel THEN b[i - Pixel] ELSE 0
      above == Tail(prev)
      guess(b, i) ==
        CASE row[1] = 1 -> back(b, i)
          [] row[1] = 2 -> above[i]
          [] row[1] = 3 -> (back(b, i) + above[i]) \div 2
          [] row[1] = 4 -> Paeth(back(b, i), above[i], back(above, i))
          [] OTHER -> 0
      decoded[i \in 0..Row] ==
        IF i = 0 THEN <<>>
        ELSE LET b == decoded[i - 1] IN Append(b, Wrap(row[i + 1] + guess(b, i)))
  IN decoded[Row]

EncodeRow(row, prev) == <<2>> \o [i \in 1..Row |-> Wrap(row[i] - prev[i])]

TIFFRow(row, encode) ==
  LET next(b, i) == IF i <= Pixel THEN row[i]
                    ELSE IF encode THEN Wrap(row[i] - row[i - Pixel]) ELSE Wrap(row[i] + b[i - Pixel])
      done[i \in 0..Row] ==
        IF i = 0 THEN <<>> ELSE LET b == done[i - 1] IN Append(b, next(b, i))
  IN done[Row]

(* Pl_PNGFilter::decodeRow works in place: the row holds what it wrote.    *)
SendRow(s, out) ==
  LET during == IF s.kind = "png" /\ ~s.encode THEN [s EXCEPT !.row = <<s.row[1]>> \o out] ELSE s
  IN Did([during EXCEPT !.prev = during.row, !.row = Fill(<<>>, Row + 1, 0), !.pos = 0], out, during, 0)

ProcessRow(s) ==
  SendRow(s, IF s.kind = "tiff" THEN TIFFRow(s.row, s.encode)
             ELSE IF s.encode THEN EncodeRow(s.row, s.prev) ELSE DecodeRow(s.row, s.prev))

(* A slip: pos = len, where it is pos += len.                              *)
PredictorWrite_Set(s, data) ==
  LET left == Incoming(s) - s.pos
      n == Min({left, Len(data)})
      got == [s EXCEPT !.row = [i \in DOMAIN @ |-> IF i \in (s.pos + 1)..(s.pos + n) THEN data[i - s.pos] ELSE @[i]]]
  IN IF n = left THEN [ProcessRow(got) EXCEPT !.used = n]
     ELSE Did([got EXCEPT !.pos = n], <<>>, got, n)

PredictorWrite(s, data) ==
  LET left == Incoming(s) - s.pos
      n == Min({left, Len(data)})
      got == [s EXCEPT !.row = [i \in DOMAIN @ |-> IF i \in (s.pos + 1)..(s.pos + n) THEN data[i - s.pos] ELSE @[i]]]
  IN IF n = left THEN [ProcessRow(got) EXCEPT !.used = n, !.during.pos = IF s.kind = "tiff" THEN Row ELSE @]
     ELSE Did([got EXCEPT !.pos = @ + n], <<>>, got, n)

-----------------------------------------------------------------------------
(* Pl_AES_PDF: a full block is kept until more comes, as the last one has  *)
(* the padding.  The first block that is decrypted is the vector.          *)

AES(encrypt) == [kind |-> "aes", encrypt |-> encrypt, inbuf |-> <<>>, first |-> TRUE, cbc |-> Vector]

StripPadding(b) ==
  LET last == b[Block]
  IN IF last <= Block /\ \A i \in 1..last : b[Block + 1 - i] = last THEN SubSeq(b, 1, Block - last) ELSE b

FlushAES(s, strip) ==
  LET done == [s EXCEPT !.inbuf = <<>>, !.first = FALSE]
      cipher == Encipher(Chained(s.inbuf, s.cbc))
      plain == Unchained(Decipher(s.inbuf), s.cbc)
  IN IF s.encrypt THEN Emit([done EXCEPT !.cbc = cipher], (IF s.first THEN Vector ELSE <<>>) \o cipher)
     ELSE IF s.first THEN Keep([done EXCEPT !.cbc = s.inbuf])
     ELSE Emit([done EXCEPT !.cbc = s.inbuf], IF strip THEN StripPadding(plain) ELSE plain)

AESWrite(s, data) ==
  LET n == Min({Block - Len(s.inbuf), Len(data)})
  IN IF n = 0 THEN [FlushAES(s, FALSE) EXCEPT !.used = 0]
     ELSE [Keep([s EXCEPT !.inbuf = @ \o SubSeq(data, 1, n)]) EXCEPT !.used = n]

AESFinish(s) ==
  LET full == IF s.encrypt /\ Len(s.inbuf) = Block THEN FlushAES(s, FALSE) ELSE Emit(s, <<>>)
      pad == IF s.encrypt THEN Block - Len(full.s.inbuf) ELSE 0
      last == FlushAES([full.s EXCEPT !.inbuf = Fill(@, Block, pad)], TRUE)
  IN [last EXCEPT !.emit = full.emit \o @]

-----------------------------------------------------------------------------
(* A chain: its pipelines, what has reached its end, whether the end was   *)
(* finished since, and whether an exception is on its way out of it.       *)

Chain(stages) == [stages |-> stages, out |-> <<>>, ready |-> TRUE, threw |-> FALSE]

Step(s, data) ==
  CASE s.kind = "runEncoder" -> RunEncode(s, data[1])
    [] s.kind = "run" -> RunDecode(s, data[1])
    [] s.kind = "lzw" -> LZWDecode(s, data[1])
    [] s.kind = "base85" -> Decode85(s, data[1])
    [] s.kind = "hex" -> DecodeHex(s, data[1])
    [] s.kind \in {"png", "tiff"} -> PredictorWrite(s, data)
    [] s.kind = "aes" -> AESWrite(s, data)

(* What a pipeline writes in its finish(), before that of the next one.    *)
AtEnd(s) ==
  CASE s.kind = "runEncoder" -> [FlushEncode(s) EXCEPT !.emit = Append(@, MaxRun)]
    [] s.kind = "run" -> Emit(s, s.out)
    [] s.kind = "lzw" -> Keep(s)
    [] s.kind = "base85" -> IF s.error THEN Keep(s) ELSE Flush85(s)
    [] s.kind = "hex" -> FlushHex(s)
    [] s.kind \in {"png", "tiff"} -> IF s.pos > 0 THEN ProcessRow(s) ELSE Keep(s)
    [] s.kind = "aes" -> AESFinish(s)

(* Pl_ASCII85Decoder does not finish the next one after such an error.     *)
PassesFinish(s) == ~(s.kind = "base85" /\ s.error)
=============================================================================
