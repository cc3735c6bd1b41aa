---------------------------- MODULE MCFlexState ----------------------------
(* Instances of FlexState for TLC.                                         *)
EXTENDS FlexState, TLC

CONSTANTS i1, i2, s1, s2

TheStatuses ==
  { "freq" :> 7, "mode" :> "USB", "mode" :> "DRM", "agc" :> "fast",
    "rit_on" :> TRUE, "rit_on" :> TRUE @@ "rit_hz" :> 5,
    "rit_hz" :> 5, "rit_on" :> FALSE @@ "rit_hz" :> 0,
    "mode" :> "CW" @@ "other" :> 1 }

Full == [k \in Keys |-> IF k = "mode" THEN "CW" ELSE IF k = "freq" THEN 14 ELSE Default[k]]

Symmetry == Permutations(MeterIds) \cup Permutations(MeterNames)
=============================================================================
