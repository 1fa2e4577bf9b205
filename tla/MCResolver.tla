----------------------------- MODULE MCResolver -----------------------------
(* Documents of four objects.  Any of them may be a stream whose /Length   *)
(* is any object; 4 may be an object stream that has 1, 2 or both.         *)
EXTENDS Resolver

(* What is no stream has no length.                                        *)
HasLengths(f) == \A i \in Ids \ f.streams : f.length[i] = 0

Tables ==
  {<<e1, e2, e3, e4>> : e1 \in {Plain(1), Plain(3), Packed(4)},
                        e2 \in {Plain(2), Packed(4)},
                        e3 \in {Plain(3), Plain(4), NoEntry},
                        e4 \in {Plain(4), Plain(0), Plain(1)}}
MCFiles ==
  {f \in [present : {{1, 2, 3, 4}, {3, 4}, {2, 4}, {1, 3}}, streams : {{4}, {3, 4}, {2, 3, 4}},
          length : {<<0, l2, l3, l4>> : l2 \in {0, 1, 3}, l3 \in {0, 1, 2, 3}, l4 \in 0..3},
          holds : {[i \in Ids |-> IF i = 4 THEN h ELSE {}] : h \in {{}, {1, 2}}},
          table : Tables] : HasLengths(f) /\ Sound(f)}
=============================================================================
