--------------------------- MODULE MCObjectCache ---------------------------
(* Instances of ObjectCache for TLC.  The file of the small instance has   *)
(* an object stream, 1, that holds 2 and should hold 3 but does not.       *)
EXTENDS ObjectCache, TLC

CONSTANTS Text, Stm

MCData == {Text, Stm}
MCStreams == {Stm}
MCInFile == 1..3
MCFileVal == 1 :> Stm @@ 2 :> Text @@ 3 :> Null
MCStreamOf == 1 :> 0 @@ 2 :> 1 @@ 3 :> 1
=============================================================================
