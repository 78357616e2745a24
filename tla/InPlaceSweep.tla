----------------------------- MODULE InPlaceSweep -----------------------------
(***************************************************************************)
(* iterative_jacobi.cpp and iterative_gauss_seidel.cpp from the noised     *)
(* image with its border to the written result: one thread, one buffer,    *)
(* each pixel replaced by the mean as soon as it is computed.              *)
(*                                                                         *)
(* Both programs address image_pad with rows of img.cols pixels, although  *)
(* its rows have img.cols + 2: the buffer is swept as a plain array.       *)
(***************************************************************************)
EXTENDS Grid

CONSTANTS
  Programs,        \* the programs that may run
  ITERATIONS,      \* of iterative_jacobi.cpp, 15 there
  NoisedMats,      \* what the noise loop may leave in image_pad
  OutsideContents  \* what the memory in front of the buffer may hold

VARIABLES
  program,  \* the program that runs
  pc,       \* where main is
  iter,     \* the counter of the iteration loop
  row,      \* the loop variables i ...
  col,      \* ... and j
  pixels,   \* the bytes pixelPtr points at
  written   \* the images imwrite has written

inPlaceVars == <<program, pc, iter, row, col, pixels, written>>

\* The first row and column, and the number of sweeps.
Start == IF program = "iterative_jacobi" THEN 0 ELSE 1

Sweeps == IF program = "iterative_jacobi" THEN ITERATIONS ELSE 1

\* The distance of two rows, in bytes.
Stride == Cols * Channels

\* The bytes of the pixel the code calls (i, j), and of all it visits.
Flat(i, j, k) == i * Stride + j * Channels + k

\* Mutant of LastIndex: the last index is counted from 1.
LastIndexBehind(length) == Start + length

LastIndex(length) == Start + length - 1

Visited ==
  Flat(Start, Start, 0) .. Flat(LastIndex(Rows), LastIndex(Cols), Channels - 1)

Buffer == 0 .. PadSize - 1

\* The sweep that starts at 0 reads up to a row in front of the buffer.
OutsideOffsets == (-Stride) .. -1

ASSUME InPlaceAssumption ==
  /\ Programs \subseteq {"iterative_jacobi", "iterative_gauss_seidel"}
  /\ ITERATIONS \in Nat \ {0}
  /\ NoisedMats \subseteq Mats
  /\ OutsideContents \subseteq [OutsideOffsets -> Byte]
  /\ OutsideContents # {}

\* The five operands of a byte: itself, left, right, up and down.
Operands(n) == {n, n - Channels, n + Channels, n - Stride, n + Stride}

At(n, outside) == IF n \in Buffer THEN pixels[n] ELSE outside[n]

\* Mutant of Average: the up pixel is the one below.
DownTwice(n, outside) ==
  (At(n, outside) + At(n - Channels, outside) + At(n + Channels, outside)
     + At(n + Stride, outside) + At(n + Stride, outside)) \div 5

Average(n, outside) ==
  (At(n, outside) + At(n - Channels, outside) + At(n + Channels, outside)
     + At(n - Stride, outside) + At(n + Stride, outside)) \div 5

PixelBytes == {Flat(row, col, k) : k \in 0 .. Channels - 1}

-----------------------------------------------------------------------------
(* The three loops, innermost first.                                       *)

\* Mutants of Advance: the column starts from 0 in each row, and the column is
\* not advanced.
AdvanceFromZero ==
  IF col < LastIndex(Cols)
    THEN col' = col + 1 /\ UNCHANGED <<pc, iter, row>>
    ELSE /\ col' = 0
         /\ IF row < LastIndex(Rows)
              THEN row' = row + 1 /\ UNCHANGED <<pc, iter>>
              ELSE /\ row' = Start
                   /\ iter' = iter + 1
                   /\ pc' = IF iter + 1 < Sweeps THEN "sweep" ELSE "write"

AdvanceSameColumn ==
  IF col < LastIndex(Cols)
    THEN UNCHANGED <<pc, iter, row, col>>
    ELSE /\ col' = Start
         /\ IF row < LastIndex(Rows)
              THEN row' = row + 1 /\ UNCHANGED <<pc, iter>>
              ELSE /\ row' = Start
                   /\ iter' = iter + 1
                   /\ pc' = IF iter + 1 < Sweeps THEN "sweep" ELSE "write"

Advance ==
  IF col < LastIndex(Cols)
    THEN col' = col + 1 /\ UNCHANGED <<pc, iter, row>>
    ELSE /\ col' = Start
         /\ IF row < LastIndex(Rows)
              THEN row' = row + 1 /\ UNCHANGED <<pc, iter>>
              ELSE /\ row' = Start
                   /\ iter' = iter + 1
                   /\ pc' = IF iter + 1 < Sweeps THEN "sweep" ELSE "write"

\* All channels of a pixel are read and averaged before the first is stored.
VisitPixel ==
  /\ pc = "sweep"
  /\ \E outside \in OutsideContents :
       pixels' = [n \in Buffer |-> IF n \in PixelBytes THEN Average(n, outside)
                                                       ELSE pixels[n]]
  /\ Advance
  /\ UNCHANGED <<program, written>>

\* A read in front of the buffer may end the program instead.
FaultingRead ==
  /\ pc = "sweep" /\ pc' = "crashed"
  /\ \E n \in PixelBytes : ~ Operands(n) \subseteq Buffer
  /\ UNCHANGED <<program, iter, row, col, pixels, written>>

\* The crop to image_no_pad and its imwrite.
WriteImage ==
  /\ pc = "write" /\ pc' = "done"
  /\ written' = written \cup {Crop(pixels)}
  /\ UNCHANGED <<program, iter, row, col, pixels>>

-----------------------------------------------------------------------------
Init ==
  /\ program \in Programs
  /\ pc = "sweep"
  /\ iter = 0
  /\ row = Start
  /\ col = Start
  /\ pixels \in NoisedMats
  /\ written = {}

Done == pc \in {"done", "crashed"} /\ UNCHANGED inPlaceVars

Next == VisitPixel \/ FaultingRead \/ WriteImage \/ Done

Spec == Init /\ [][Next]_inPlaceVars /\ WF_inPlaceVars(Next)
=============================================================================
