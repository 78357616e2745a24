------------------------------ MODULE InPlaceMC ------------------------------
(***************************************************************************)
(* Small images and surroundings for InPlaceProps.                         *)
(***************************************************************************)
EXTENDS InPlaceProps

OnlyJacobi == {"iterative_jacobi"}
OnlyGaussSeidel == {"iterative_gauss_seidel"}
Both == OnlyJacobi \cup OnlyGaussSeidel

Textured(seed) ==
  [n \in 0 .. PadSize - 1 |-> (seed * (n + 3) * (n + 7) + 29 * seed) % 256]

Textures == {Textured(seed) : seed \in {5, 11, 37}}

\* What a read in front of the buffer may find: black, or a white pixel in one
\* of the places next to it.
Lit(offsets) == [o \in OutsideOffsets |-> IF o \in offsets THEN 255 ELSE 0]

InFront == {Lit({}), Lit((-Channels) .. -1), Lit({-Stride})}
NothingInFront == {Lit({})}
=============================================================================
