------------------------------ MODULE OnePassMC ------------------------------
(***************************************************************************)
(* Small images for OnePassProps.                                          *)
(***************************************************************************)
EXTENDS OnePassProps

Texture(n) == 215 + ((7 * n * n + 13 * n) % 40)

OnePadded == {[n \in 0 .. PadSize - 1 |-> Texture(n)]}
OnePlain == {[n \in 0 .. PictureSize - 1 |-> Texture(n)]}

Surroundings ==
  {[o \in OutsideOffsets |-> 0], [o \in OutsideOffsets |-> IF o = -2 THEN 255 ELSE 0]}
=============================================================================
