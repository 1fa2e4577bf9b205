---------------------------- MODULE MCStreamData ---------------------------
(***************************************************************************)
(* Streams for StreamData: what qpdf's encoders and those of Formats make  *)
(* of short data, and of data long enough to fill the table of LZW; the    *)
(* same, damaged; and anything at all.  Bytes have 4 bits.                 *)
(***************************************************************************)
EXTENDS StreamsAtOnce

MCVector == [i \in 1..Block |-> (5 * i) % Octet]
Symbols == {0, 2, 5}
Short == SeqOf(Symbols, 3)
Repeats(n) == [i \in 1..n |-> 3]
Mixed(n) == [i \in 1..n |-> (i * i) % 6]
Long == {Repeats(10), Mixed(11), Repeats(4) \o Mixed(3) \o Repeats(3)}
Table == {[i \in 1..68 |-> (((i * i * i) % 23) + i) % 6]}   \* more codes than the table has

Encoder(kind) ==
  CASE kind = "run" -> RunEncoder
    [] kind \in {"png", "tiff"} -> Predictor(kind, TRUE)
    [] kind = "aes" -> AES(TRUE)
Encoded(kind, x) ==
  CASE kind = "hex" -> Hex(x)
    [] kind = "base85" -> Base85(x)
    [] kind = "lzw early" -> LZW(x, 1)
    [] kind = "lzw" -> LZW(x, 0)
    [] OTHER -> Through(<<Encoder(kind)>>, x).out
Encode(kinds, x) == FoldRight(Encoded, kinds, x)

End85 == <<Tilde, Gt>>
(* Ways to write the same: space within, an end, and what follows it.      *)
Variants(kinds, x) ==
  IF kinds = <<>> \/ kinds[1] \notin {"hex", "base85"} THEN {x}
  ELSE LET end == IF kinds[1] = "hex" THEN <<Gt>> ELSE End85
       IN {x, x \o end, x \o end \o <<1, Zee>>}
          \cup {SubSeq(x, 1, i) \o <<Space>> \o SubSeq(x, i + 1, Len(x)) \o end : i \in {1} \cap DOMAIN x}

St(before, filters, text, plain) == [before |-> before, filters |-> filters, text |-> text, plain |-> plain]

Plain(kinds, x) ==
  [data |-> x, rows |-> ToSet(kinds) \cap {"png", "tiff"} # {}]
Of(before, filters, data) ==
  UNION {{St(before, filters, Encode(before, v), Plain(filters, x)) : v \in Variants(filters, Encode(filters, x))}
           : x \in data}

(* One byte of the encoding replaced.                                      *)
Damaged(before, filters, x) ==
  LET whole == Encode(before \o filters, x)
  IN {St(before, filters, [whole EXCEPT ![i] = b], Unknown) : i \in DOMAIN whole, b \in {Zee, Tilde, 9}}

Single == {<<"hex">>, <<"base85">>, <<"lzw">>, <<"lzw early">>, <<"run">>, <<"png">>, <<"tiff">>}
Double == {<<"base85", "lzw">>, <<"hex", "run">>, <<"lzw early", "png">>, <<"hex", "base85">>, <<"lzw", "tiff">>}

MCStreams ==
  UNION {Of(<<>>, f, Short \cup Long) : f \in Single}
  \cup UNION {Of(<<"aes">>, f, Short \cup Long) : f \in {<<>>, <<"run">>, <<"base85">>}}
  \cup UNION {Of(<<>>, f, SeqOf(Symbols, 2) \cup Long) : f \in Double}
  \cup UNION {Of(<<>>, f, Table) : f \in {<<"lzw">>, <<"lzw early">>}}
  \cup UNION {Damaged(<<>>, f, Mixed(4)) : f \in Single \cup Double}
  \cup Damaged(<<"aes">>, <<"base85">>, Mixed(4))
  \cup {St(<<>>, f, t, Unknown) : f \in {<<"base85">>, <<"hex">>, <<"png">>, <<"hex", "base85">>},
                                  t \in SeqOf({0, 4, Gt, Space, Tilde, Zee}, 3)}
  \cup {St(<<>>, <<"dct">>, t, Unknown) : t \in {<<>>, <<1, 2>>}}
=============================================================================
