------------------------------ MODULE MCXRef ------------------------------
(* Small files for XRef: those whose sections can be read one after the    *)
(* other, those in which the table or an object may be unreadable, and     *)
(* files that show one case each.                                          *)
EXTENDS XRef

Entry(kinds, gens, k) ==
  [id : {1, 2}, gen : gens, kind : kinds \ {"packed", "bad"}, at : {k}]
    \cup [id : {1, 2}, gen : {0}, kind : kinds \cap {"packed"}, at : {2, 3}]
    \cup [id : {1}, gen : {0}, kind : kinds \cap {"bad"}, at : {0}]

SeqsUpTo(S, n) == UNION {[1..m -> S] : m \in 0..n}

Section(kinds, selfs, entries, prevs, stms, sizes) ==
  [kind : kinds, self : selfs, entries : entries, prev : prevs, stm : stms, size : sizes]

(* A hybrid section, an older one and the oldest; /Prev of the oldest may  *)
(* lead back or nowhere.                                                   *)
ChainFiles ==
  {[sections |-> <<s1, s2, s3, s4>>, start |-> 1, late |-> 0,
    objects |-> <<>>, trailers |-> <<>>] :
     s1 \in Section({"table"}, {0}, SeqsUpTo(Entry({"free", "plain"}, {0, 1}, 1), 1), {2}, {0, 3}, {3}),
     s2 \in Section({"table", "stream"}, {2},
                    SeqsUpTo(Entry({"free", "plain"}, {0, 1}, 2), 1), {4}, {0}, {3}),
     s3 \in Section({"stream"}, {3}, SeqsUpTo(Entry({"free", "packed"}, {0}, 3), 1), {0}, {0}, {3}),
     s4 \in Section({"table"}, {0}, SeqsUpTo(Entry({"plain", "bad"}, {0}, 4), 1), {0, 2}, {0}, {3})}

(* A table with a stream behind it, either of which may fail, in a file    *)
(* with up to three objects.                                               *)
Objects ==
  [id : {1, 4}, gen : {0}, xref : {0}] \cup [id : {1}, gen : {1}, xref : {0}]
    \cup [id : {3}, gen : {0}, xref : {2}]

Tables ==
  Section({"table"}, {0}, SeqsUpTo(Entry({"free", "plain", "packed", "bad"}, {0}, 1), 1),
          {2}, {0}, {3})
    \cup Section({"table"}, {0}, SeqsUpTo(Entry({"plain"}, {0}, 1), 1), {2}, {0}, {-1})
Streams ==
  Section({"stream"}, {3}, SeqsUpTo(Entry({"plain", "packed"}, {0}, 3), 1), {0, 1, -1}, {0}, {4})
    \cup Section({"junk"}, {0}, {<<>>}, {0}, {0}, {0})

DamagedFiles ==
  {f \in {[sections |-> <<t, s>>, start |-> st, late |-> 1, objects |-> o, trailers |-> tr] :
            t \in Tables, s \in Streams, st \in {0, 1},
            o \in SeqsUpTo(Objects, 2) \cup [1..3 -> [id : {1}, gen : {0}, xref : {0}]],
            tr \in {<<>>, <<"root", "noroot">>}} :
     f.trailers = <<>> \/ Len(f.objects) < 2}

(* A hybrid section over an older one, with objects that may be elsewhere. *)
ResumedFiles ==
  {[sections |-> <<s1, s2, s3>>, start |-> 1, late |-> 0, objects |-> o, trailers |-> <<>>] :
     s1 \in Section({"table"}, {0}, [1..2 -> Entry({"free", "plain"}, {0}, 1)], {2}, {3}, {3}),
     s2 \in Section({"table"}, {0}, [1..1 -> Entry({"plain"}, {0}, 2)], {0}, {0}, {3}),
     s3 \in Section({"stream"}, {3}, SeqsUpTo(Entry({"plain", "packed"}, {0}, 3), 1),
                    {0}, {0}, {3, -1}),
     o \in SeqsUpTo([id : {1, 2}, gen : {0}, xref : {0}], 2)}

(* The startxref is lost: two cross-reference streams, one of which may    *)
(* lead to a table.                                                        *)
StreamFiles ==
  {[sections |-> <<s1, s2, s3>>, start |-> 0, late |-> 0,
    objects |-> <<[id |-> 2, gen |-> 0, xref |-> 1], [id |-> 1, gen |-> 0, xref |-> 2]>>,
    trailers |-> <<>>] :
     s1 \in Section({"stream"}, {2}, {<<>>}, {0, 3}, {0}, {3, -1}),
     s2 \in Section({"stream"}, {1}, {<<>>}, {0, 3}, {0}, {3, -1}),
     s3 \in Section({"table"}, {0},
                    [1..1 -> [id : {1, 3}, gen : {0}, kind : {"plain"}, at : {3}]], {0}, {0}, {3})}

(* A table whose /Size counts one object more than it lists.               *)
ShortFiles ==
  {[sections |-> <<s1>>, start |-> 1, late |-> 0,
    objects |-> <<[id |-> 1, gen |-> 0, xref |-> 0], [id |-> 2, gen |-> 0, xref |-> 0]>>,
    trailers |-> <<>>] :
     s1 \in Section({"table"}, {0}, [1..1 -> Entry({"plain"}, {0}, 1)], {0}, {0}, {3})}

MCFiles ==
  ChainFiles \cup DamagedFiles \cup ResumedFiles \cup StreamFiles \cup ShortFiles
=============================================================================
