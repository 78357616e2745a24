----------------------------- MODULE RedBlackMC -----------------------------
(***************************************************************************)
(* Small images for RedBlackProps.                                         *)
(***************************************************************************)
EXTENDS RedBlackProps

\* A tile is one element of the policy.
OneElement(items) == 1

\* The brightest image, a single bright pixel, and a gradient that wraps
\* around the byte range.
White == [p \in Pixels |-> 255]
Spike == [p \in Pixels |-> IF p = <<0, 0, 0>> THEN 255 ELSE 0]
Gradient == [p \in Pixels |-> (97 * p[1] + 61 * p[2] + 149 * p[3] + 50) % 256]

AllImages == {White, Spike, Gradient}
GradientOnly == {Gradient}
=============================================================================
