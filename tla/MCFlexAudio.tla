---------------------------- MODULE MCFlexAudio ----------------------------
(* Instances of FlexAudio for TLC.                                         *)
EXTENDS FlexAudio, TLC

CONSTANTS c1, c2, d1, d2, i1, i2

Symmetry == Permutations(Starts) \cup Permutations(Stops) \cup Permutations(Ids)
=============================================================================
