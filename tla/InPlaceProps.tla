----------------------------- MODULE InPlaceProps -----------------------------
(***************************************************************************)
(* What the sequential programs compute, and what their comments say that  *)
(* they do not.                                                            *)
(***************************************************************************)
EXTENDS InPlaceSweep

VARIABLES
  before  \* history: the buffer when the latest sweep visited its first pixel

AtFirst == row = Start /\ col = Start

InitBefore == Init /\ before = pixels

NextBefore ==
  /\ Next
  /\ before' = IF pc = "sweep" /\ AtFirst /\ pc' # "crashed"
                  THEN pixels ELSE before

SpecBefore ==
  /\ InitBefore
  /\ [][NextBefore]_<<inPlaceVars, before>>
  /\ WF_inPlaceVars(Next)

\* Every variable has its type, and the loop variables stay in their ranges.
TypeOK ==
  /\ program \in Programs
  /\ pc \in {"sweep", "write", "done", "crashed"}
  /\ iter \in 0 .. Sweeps
  /\ row \in Start .. LastIndex(Rows)
  /\ col \in Start .. LastIndex(Cols)
  /\ pixels \in Mats
  /\ written \subseteq [Pixels -> Byte]

\* Bytes below this one have their value of the latest sweep.
Frontier ==
  IF ~ AtFirst THEN Flat(row, col, 0)
  ELSE IF iter = 0 THEN Flat(Start, Start, 0)
  ELSE Flat(LastIndex(Rows), LastIndex(Cols), Channels)

Old(n, outside) == IF n \in Buffer THEN before[n] ELSE outside[n]

\* The sweep is a Gauss-Seidel sweep of the array: each byte behind the sweep
\* is the mean of itself, right and down as the sweep found them and of left and
\* up as the sweep left them; the bytes it has not reached are untouched.
GaussSeidelEquations ==
  \A n \in Visited :
    IF n < Frontier
      THEN \E outside \in OutsideContents :
             pixels[n] =
               (Old(n, outside) + Old(n + Channels, outside)
                  + Old(n + Stride, outside) + At(n - Channels, outside)
                  + At(n - Stride, outside)) \div 5
      ELSE pixels[n] = before[n] \/ AtFirst

\* iterative_gauss_seidel.cpp stays inside image_pad: the wrong row length makes
\* its rows too short, never too long, so no operand is outside the buffer.
ReadsInBuffer ==
  program = "iterative_gauss_seidel" /\ pc = "sweep" =>
    \A n \in PixelBytes : Operands(n) \subseteq Buffer

\* main returns or a read in front of the buffer ends the program.
SweepsEnd == <>(pc \in {"done", "crashed"})

-----------------------------------------------------------------------------
\* What iterative_jacobi.cpp calls itself: a Jacobi sweep computes every pixel
\* from the image the sweep started with.
JacobiEquations ==
  pc = "write" =>
    \A n \in Visited :
      Operands(n) \subseteq Buffer =>
        pixels[n] = (before[n] + before[n - Channels] + before[n + Channels]
                       + before[n - Stride] + before[n + Stride]) \div 5

\* What the comments of iterative_gauss_seidel.cpp say of the operands: the up
\* pixel is the one above the current pixel of image_pad.
UpIsAbove ==
  pc = "sweep" =>
    \A n \in PixelBytes :
      CellAt(n - Stride) = <<CellAt(n)[1] - 1, CellAt(n)[2], CellAt(n)[3]>>
=============================================================================
