--------------------------- MODULE JacobiProgramMC ---------------------------
(***************************************************************************)
(* Pictures, noise and surroundings for JacobiProgram.  The second draw    *)
(* exceeds the byte range in both directions.                              *)
(***************************************************************************)
EXTENDS JacobiProgram

\* A tile is one pixel, with all of its channels.
OnePixel(items) == Channels

Texture ==
  [p \in Pixels |->
     215 + ((7 * p[1] * p[1] + 13 * p[2] * p[2] * p[1] + 31 * p[2] + 19 * p[3])
              % 40)]

OnePicture == {Texture}

Field(base, slope) == [c \in Cells |-> base + slope * (c[1] + c[2] + c[3])]

TwoDraws == {Field(9, 3), Field(-700, 301)}

Remains == {[c \in Cells |-> 205]}

NoMats == {}

\* What a read before or behind the allocation may find: black, or a white
\* element two places from its beginning or its end.
Lit(offsets) == [o \in OutsideOffsets |-> IF o \in offsets THEN 255 ELSE 0]

Surroundings == {Lit({}), Lit({-2, ViewSize + 1})}
=============================================================================
