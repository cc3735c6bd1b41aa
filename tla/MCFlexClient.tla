---------------------------- MODULE MCFlexClient ----------------------------
(* Instance of FlexClient for TLC.                                         *)
EXTENDS FlexClient

CONSTANTS c1, c2, d1

\* What a radio says first, with another service or another order among it.
Version == <<"V", 1, 4, 0, 0>>
Handle  == <<"H", 5>>
MCGreetings == {<<Version, Handle>>, <<Handle, Version>>, <<Version>>,
                <<Version, <<"H", Codec!Bad>>>>, <<<<"?">>>>}
=============================================================================
