------------------------------- MODULE JacobiMC -------------------------------
(***************************************************************************)
(* Small images and surroundings for JacobiProps.                          *)
(***************************************************************************)
EXTENDS JacobiProps

\* A tile is one pixel, with all of its channels.
OnePixel(items) == Channels

\* A bright texture whose border is noised like the rest of it.
Texture ==
  [n \in 0 .. PadSize - 1 |->
     LET c == CellAt(n)
     IN  215 + ((7 * c[1] * c[1] + 13 * c[2] * c[2] * c[1] + 31 * c[2] + 19 * c[3]) % 40)]

OneMat == {Texture}

\* What a read before or behind the allocation may find: black, or a white
\* element two places from its beginning or its end.
Lit(offsets) == [o \in OutsideOffsets |-> IF o \in offsets THEN 255 ELSE 0]

Surroundings == {Lit({}), Lit({-2, ViewSize + 1})}
=============================================================================
