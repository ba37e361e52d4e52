--------------------------- MODULE MCHQEqualizer ---------------------------
(* HQEqualizer with two settings of all bands. *)
EXTENDS HQEqualizer
MCSettings == {Flat, [b \in Bands |-> IF b >= 2 THEN 100 ELSE 0]}
=============================================================================
