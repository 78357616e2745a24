-------------------------- MODULE RedBlackProgramMC --------------------------
(***************************************************************************)
(* Pictures and noise for RedBlackProgram.  One draw exceeds the byte      *)
(* range in both directions.                                               *)
(***************************************************************************)
EXTENDS RedBlackProgram

\* A tile is one element of the policy.
OneElement(items) == 1

\* The filter starts from what the noise stage hands over.
NoStart == {}

Checks == [p \in Pixels |-> IF (p[1] + p[2]) % 2 = 0 THEN 10 ELSE 240]
Ramp == [p \in Pixels |-> 40 * p[1] + 25 * p[2] + 7 * p[3]]

TwoPictures == {Checks, Ramp}

Field(base, slope) == [c \in Cells |-> base + slope * (c[1] + c[2] + c[3])]

TwoDraws == {Field(-30, 17), Field(-700, 301)}

Remains == {[c \in Cells |-> 205]}
=============================================================================
