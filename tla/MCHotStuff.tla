----------------------------- MODULE MCHotStuff -----------------------------
(* Instances of HotStuff for TLC. *)
EXTENDS HotStuff

CONSTANTS v1, v2, v3, v4

MCOrder2 == <<v1, v2>>
MCOrder4 == <<v1, v2, v3, v4>>

\* Of two validators with three each, both are a quorum; of four with one each,
\* two are.
MCStakeOne == [v \in Validators |-> 1]
MCStakeThree == [v \in Validators |-> 3]

MCAllLinks == Validators \X Validators

\* A partition in two halves.
MCHalves == ({v1, v3} \X {v1, v3}) \cup ({v2, v4} \X {v2, v4})

=============================================================================
