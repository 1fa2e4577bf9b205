---------------------------- MODULE StreamsAtOnce ----------------------------
(***************************************************************************)
(* What a chain of filters makes of data that is written to it all at      *)
(* once, and what StreamData, where the calls of write() go one by one,    *)
(* must make of it too.                                                    *)
(***************************************************************************)
EXTENDS StreamData

RECURSIVE Write(_, _, _)
GoOn(c, i, data, did) ==
  LET sent == Write([c EXCEPT !.stages[i] = did.during], i + 1, did.emit)
  IN CASE did.threw -> [c EXCEPT !.stages[i] = did.s, !.threw = TRUE]
       [] ~did.threw /\ sent.threw -> sent
       [] OTHER -> Write([sent EXCEPT !.stages[i] = did.s], i, SubSeq(data, did.used + 1, Len(data)))
Write(c, i, data) ==
  CASE i > Len(c.stages) /\ data # <<>> -> [c EXCEPT !.out = @ \o data, !.ready = FALSE]
    [] data = <<>> -> c
    [] OTHER -> GoOn(c, i, data, Step(c.stages[i], data))

RECURSIVE Finish(_, _)
SendEnd(c, i, end) == Write([c EXCEPT !.stages[i] = end.s], i + 1, end.emit)
FinishRest(sent, i) == IF sent.threw THEN sent ELSE Finish(sent, i + 1)
Finish(c, i) ==
  IF i > Len(c.stages) THEN [c EXCEPT !.ready = TRUE]
  ELSE IF ~PassesFinish(c.stages[i]) THEN c
  ELSE FinishRest(SendEnd(c, i, AtEnd(c.stages[i])), i)

(* Everything through a chain at once.                                     *)
Through(stages, data) == Finish(Write(Chain(stages), 1, data), 1)

-----------------------------------------------------------------------------
(* What comes out of a filter does not depend on where one write ends and  *)
(* the next one begins, and nor does the state that it is left in.         *)
PiecesDoNotMatter ==
  pc = "providing" /\ ~Writing /\ ~chain.threw =>
    LET once == Write(Chain(Stages(stream, filtered)), 1, SubSeq(stream.text, 1, Len(stream.text) - Len(rest)))
    IN chain.out = once.out /\ chain.stages = once.stages

(* A stream that was not decoded is whole and as it was, with nothing of   *)
(* a first attempt that failed; and damage to a stream of the file keeps   *)
(* neither the file nor its JSON from being written, which are             *)
(* "re-processed without filtering to avoid data loss" (QPDF.cc), but for  *)
(* one thing: with a base 85 filter the JSON may end with an exception.    *)
DamageIsContained ==
  /\ pc = "done" /\ ~filtered /\ source # "short" =>
       chain.out = Through(Stages(stream, FALSE), stream.text).out
  /\ pc = "error" /\ (source = "file" \/ (source = "short" /\ caller = "writer")) =>
       caller = "json" /\ "base85" \in ToSet(stream.filters)
=============================================================================
