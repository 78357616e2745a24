------------------------------ MODULE DiagonalMC ------------------------------
(***************************************************************************)
(* A small image for DiagonalProps.                                        *)
(***************************************************************************)
EXTENDS DiagonalProps

\* The longest diagonal of the largest square is cut into chunks of two pixels.
PairsInFour(items) == (IF items = 4 * Channels THEN 2 ELSE 1) * Channels

\* Bright, so that the sum of five pixels over four is no byte.
Gradient == [p \in Pixels |-> 215 + ((97 * p[1] + 61 * p[2] + 149 * p[3]) % 41)]

OneImage == {Gradient}
=============================================================================
