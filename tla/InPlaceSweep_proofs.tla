-------------------------- MODULE InPlaceSweep_proofs --------------------------
(***************************************************************************)
(* The types of InPlaceSweep, and why the Gauss-Seidel program stays in    *)
(* its buffer in spite of the wrong row length.                            *)
(***************************************************************************)
EXTENDS InPlaceProps, Grid_proofs

\* The constants of the sweep.
LEMMA SweepSizes ==
  /\ Rows \in Nat \ {0} /\ Cols \in Nat \ {0} /\ Channels \in Nat \ {0}
  /\ PadSize = (Rows + 2) * (Cols + 2) * Channels
  /\ Start \in {0, 1}
  /\ Sweeps \in Nat \ {0}
BY GridAssumption, InPlaceAssumption
  DEF PadSize, PadRows, PadCols, PADDING, Start, Sweeps

LEMMA MeanOfBytes ==
  \A a, b, c, d, e \in Byte : (a + b + c + d + e) \div 5 \in Byte
BY SMT DEF Byte

\* The arithmetic of a sweep over r x c pixels of d bytes in a buffer for
\* (r + 2) x (c + 2): the last operand is less than (r + 2) * c + 2 pixels from
\* its beginning, the first one at most a row in front of it, and in front of it
\* only in the first row and column.
LEMMA OperandBounds ==
  ASSUME NEW r \in Nat \ {0}, NEW c \in Nat \ {0}, NEW d \in Nat \ {0},
         NEW i \in 0 .. r, NEW j \in 0 .. c, NEW k \in 0 .. d - 1
  PROVE  /\ i * (c * d) + j * d + k \in Nat
         /\ i * (c * d) + j * d + k + c * d < (r + 2) * (c + 2) * d
         /\ c * d \in Nat /\ d <= c * d
         /\ i >= 1 => i * (c * d) + j * d + k >= c * d
<1>1. c * d >= d /\ (i >= 1 => i * (c * d) >= c * d)
  OBVIOUS
<1>2. i * (c * d) <= r * (c * d) /\ j * d <= c * d
  OBVIOUS
<1>3. (r + 2) * (c + 2) * d = r * (c * d) + 2 * (r * d) + 2 * (c * d) + 4 * d
  OBVIOUS
<1>4. /\ i * (c * d) \in Nat /\ j * d \in Nat /\ c * d \in Nat
      /\ r * (c * d) \in Nat /\ r * d \in Nat /\ k \in Nat /\ d \in Nat
      /\ (r + 2) * (c + 2) * d \in Nat /\ k < d
  OBVIOUS
<1> QED
  BY <1>1, <1>2, <1>3, <1>4

-----------------------------------------------------------------------------
\* The loop variables stay in their ranges.
LoopRanges ==
  /\ row \in Start .. LastIndex(Rows)
  /\ col \in Start .. LastIndex(Cols)
  /\ pc \in {"sweep", "write", "done", "crashed"}
  /\ iter \in 0 .. Sweeps
  /\ pc = "sweep" => iter < Sweeps
  /\ program \in Programs

SweepTyping ==
  /\ LoopRanges
  /\ pixels \in Mats
  /\ written \subseteq [Pixels -> Byte]

LEMMA AdvanceInRange ==
  ASSUME LoopRanges, pc = "sweep", Advance, UNCHANGED program
  PROVE  LoopRanges'
BY SweepSizes DEF LoopRanges, Advance, LastIndex, Start, Sweeps

\* Where the bytes of the current pixel and their operands can lie.
LEMMA OperandPlaces ==
  ASSUME LoopRanges, NEW n \in PixelBytes
  PROVE  /\ n \in Buffer
         /\ \A m \in Operands(n) : m \in Buffer \/ m \in OutsideOffsets
         /\ program = "iterative_gauss_seidel" => Operands(n) \subseteq Buffer
<1>1. PICK k \in 0 .. Channels - 1 : n = Flat(row, col, k)
  BY DEF PixelBytes
<1>2. /\ row \in 0 .. Rows
      /\ col \in 0 .. Cols
      /\ (program = "iterative_gauss_seidel" => row >= 1)
  BY SweepSizes DEF LoopRanges, LastIndex, Start
<1>3. n = row * (Cols * Channels) + col * Channels + k
  BY <1>1 DEF Flat, Stride
<1>4. /\ n \in Nat
      /\ n + Stride < PadSize
      /\ Stride \in Nat /\ Channels <= Stride
      /\ row >= 1 => n >= Stride
  BY <1>2, <1>3, SweepSizes, OperandBounds DEF Stride
<1>5. PadSize \in Nat /\ Channels \in Nat
  BY SweepSizes, <1>4, GridTypes DEF PadSize
<1> QED
  BY <1>2, <1>4, <1>5 DEF Operands, Buffer, OutsideOffsets

LEMMA AverageIsByte ==
  ASSUME SweepTyping, NEW n \in PixelBytes, NEW outside \in OutsideContents
  PROVE  Average(n, outside) \in Byte
<1>1. \A m \in Buffer : pixels[m] \in Byte
  BY DEF SweepTyping, Mats, Buffer
<1>2. \A m \in OutsideOffsets : outside[m] \in Byte
  BY InPlaceAssumption
<1>3. \A m \in Operands(n) : At(m, outside) \in Byte
  BY <1>1, <1>2, OperandPlaces DEF SweepTyping, At
<1> QED
  BY <1>3, MeanOfBytes DEF Average, Operands

LEMMA InitTyping == Init => SweepTyping
BY SweepSizes, InPlaceAssumption
  DEF Init, SweepTyping, LoopRanges, LastIndex

LEMMA NextTyping == SweepTyping /\ [Next]_inPlaceVars => SweepTyping'
<1> SUFFICES ASSUME SweepTyping, [Next]_inPlaceVars
             PROVE  SweepTyping'
  OBVIOUS
<1>1. CASE VisitPixel
  <2>1. LoopRanges'
    BY <1>1, AdvanceInRange DEF VisitPixel, SweepTyping
  <2>2. PICK outside \in OutsideContents :
          pixels' = [n \in Buffer |-> IF n \in PixelBytes
                                        THEN Average(n, outside) ELSE pixels[n]]
    BY <1>1 DEF VisitPixel
  <2>3. \A n \in Buffer : pixels[n] \in Byte
    BY DEF SweepTyping, Mats, Buffer
  <2>4. pixels' \in [Buffer -> Byte]
    BY <2>2, <2>3, AverageIsByte
  <2> QED
    BY <1>1, <2>1, <2>4 DEF VisitPixel, SweepTyping, Mats, Buffer
<1>2. CASE FaultingRead
  BY <1>2 DEF FaultingRead, SweepTyping, LoopRanges, Start, Sweeps, LastIndex
<1>3. CASE WriteImage
  BY <1>3, CropOfMat DEF WriteImage, SweepTyping, LoopRanges, Start, Sweeps, LastIndex
<1>4. CASE UNCHANGED inPlaceVars
  BY <1>4 DEF inPlaceVars, SweepTyping, LoopRanges, Start, Sweeps, LastIndex
<1> QED
  BY <1>1, <1>2, <1>3, <1>4 DEF Next, Done

LEMMA SweepTypingInvariance == Spec => []SweepTyping
BY InitTyping, NextTyping, PTL DEF Spec

-----------------------------------------------------------------------------
\* The loop variables, the bytes and the written image have their types.
THEOREM SequentialTyping == Spec => []TypeOK
<1>1. SweepTyping => TypeOK
  BY DEF SweepTyping, LoopRanges, TypeOK
<1> QED
  BY <1>1, SweepTypingInvariance, PTL

\* iterative_gauss_seidel.cpp reads inside image_pad, for every image.
THEOREM GaussSeidelBounds == Spec => []ReadsInBuffer
<1>1. SweepTyping => ReadsInBuffer
  BY OperandPlaces DEF SweepTyping, ReadsInBuffer
<1> QED
  BY <1>1, SweepTypingInvariance, PTL

-----------------------------------------------------------------------------
(***************************************************************************)
(* The equations of a sweep.  The bytes the loops visit follow one another *)
(* without a gap, so the sweep is known from the offset it has reached.    *)
(***************************************************************************)
Here == Flat(row, col, 0)

EquationAt(n) ==
  \E outside \in OutsideContents :
    pixels[n] =
      (Old(n, outside) + Old(n + Channels, outside)
         + Old(n + Stride, outside) + At(n - Channels, outside)
         + At(n - Stride, outside)) \div 5

\* What is ahead of a sweep under way is as the sweep found it; what is behind
\* it satisfies its equation.
SweepInv ==
  /\ SweepTyping
  /\ before \in Mats
  /\ ~ AtFirst => \A n \in Buffer : n >= Frontier => pixels[n] = before[n]
  /\ \A n \in Buffer :
       Flat(Start, Start, 0) <= n /\ n < Frontier => EquationAt(n)

\* The numbers the sweep counts with.
LEMMA Offsets ==
  ASSUME LoopRanges
  PROVE  /\ Channels \in Nat \ {0} /\ Stride \in Nat
         /\ Channels <= Stride
         /\ Here \in Nat
         /\ PixelBytes = Here .. Here + Channels - 1
         /\ Flat(Start, Start, 0) \in Nat
         /\ Flat(Start, Start, 0) <= Here
         /\ Here + Channels <= PadSize
<1>1. /\ row \in 0 .. Rows /\ Start <= row /\ Start \in {0, 1}
      /\ col \in 0 .. Cols /\ Start <= col
  BY SweepSizes DEF LoopRanges, LastIndex, Start
<1>2. Stride = Cols * Channels /\ Stride \in Nat /\ Channels <= Stride
  BY SweepSizes DEF Stride
<1>3. /\ row * Stride \in Nat /\ col * Channels \in Nat
      /\ Start * Stride \in Nat /\ Start * Channels \in Nat
  BY <1>1, <1>2, SweepSizes
<1>4. Start * Stride <= row * Stride /\ Start * Channels <= col * Channels
  <2>1. CASE Start = 0
    BY <2>1, <1>1, <1>2, <1>3, SweepSizes
  <2>2. CASE Start = 1
    <3>1. \A a, b \in Nat : a >= 1 => a * b >= b
      OBVIOUS
    <3> QED
      BY <2>2, <3>1, <1>1, <1>2, SweepSizes
  <2> QED
    BY <2>1, <2>2, <1>1
<1>5. Here = row * Stride + col * Channels
  BY <1>3, SweepSizes DEF Here, Flat
<1>6. PixelBytes = Here .. Here + Channels - 1
  <2>1. \A k \in 0 .. Channels - 1 : Flat(row, col, k) = Here + k
    BY <1>3, <1>5, SweepSizes DEF Flat
  <2>2. \A n \in Here .. Here + Channels - 1 :
          n - Here \in 0 .. Channels - 1 /\ n = Here + (n - Here)
    BY <1>3, <1>5, SweepSizes
  <2> QED
    BY <2>1, <2>2, <1>3, <1>5, SweepSizes DEF PixelBytes
<1>7. Here + Channels - 1 \in Buffer
  BY <1>6, <1>3, <1>5, OperandPlaces, SweepSizes
<1>8. PadSize \in Nat
  BY GridTypes DEF PadSize
<1> QED
  BY <1>2, <1>3, <1>4, <1>5, <1>6, <1>7, <1>8, SweepSizes DEF Flat, Buffer

\* Each visit moves the sweep by one pixel, also from row to row and behind the
\* last one.
LEMMA FrontierStep ==
  ASSUME LoopRanges, pc = "sweep", Advance, UNCHANGED program
  PROVE  Frontier' = Here + Channels
<1> USE SweepSizes
<1>1. /\ row \in Nat /\ col \in Nat /\ Start \in Nat /\ Stride \in Nat
      /\ Start' = Start
      /\ \A n \in Nat : LastIndex(n) = Start + n - 1
      /\ \A n \in Nat : LastIndex(n)' = Start + n - 1
      /\ row >= Start /\ col >= Start /\ iter \in Nat
      /\ Stride = Cols * Channels
  BY DEF LoopRanges, LastIndex, Start, Stride
<1>2. \A i, j, k \in Nat : Flat(i, j, k) = i * Stride + j * Channels + k
  BY DEF Flat
<1>3. \A j \in Nat : (j + 1) * Channels = j * Channels + Channels
  OBVIOUS
<1>4. \A i \in Nat : (i + 1) * Stride = i * Stride + Stride
  BY <1>1
<1>5. (Start + Cols - 1) * Channels + Channels = Start * Channels + Stride
  BY <1>1
<1>6. /\ \A i \in Nat : i * Stride \in Nat
      /\ \A i \in Nat : i * Channels \in Nat
  BY <1>1
<1>7. CASE col < LastIndex(Cols)
  <2>1. col' = col + 1 /\ row' = row
    BY <1>7 DEF Advance
  <2>2. ~ AtFirst'
    BY <2>1, <1>1 DEF AtFirst
  <2>3. Frontier' = Flat(row, col + 1, 0)
    BY <2>1, <2>2 DEF Frontier, Flat, Stride
  <2> QED
    BY <2>3, <1>1, <1>2, <1>3, <1>6 DEF Here
<1>8. CASE ~ (col < LastIndex(Cols)) /\ row < LastIndex(Rows)
  <2>1. col' = Start /\ row' = row + 1
    BY <1>8 DEF Advance
  <2>2. ~ AtFirst'
    BY <2>1, <1>1 DEF AtFirst
  <2>3. Frontier' = Flat(row + 1, Start, 0)
    BY <2>1, <2>2 DEF Frontier, Flat, Stride
  <2>4. col = Start + Cols - 1
    BY <1>8, <1>1 DEF LoopRanges
  <2> QED
    BY <2>3, <2>4, <1>1, <1>2, <1>4, <1>5, <1>6 DEF Here
<1>9. CASE ~ (col < LastIndex(Cols)) /\ ~ (row < LastIndex(Rows))
  <2>1. col' = Start /\ row' = Start /\ iter' = iter + 1
    BY <1>9 DEF Advance
  <2>2. AtFirst' /\ iter' # 0
    BY <2>1, <1>1 DEF AtFirst
  <2>3. col = LastIndex(Cols) /\ row = LastIndex(Rows)
    BY <1>9, <1>1 DEF LoopRanges
  <2>4. Frontier' = Flat(row, col, Channels)
    BY <2>2, <2>3, <1>1 DEF Frontier, Flat, Stride
  <2> QED
    BY <2>4, <1>1, <1>2, <1>6 DEF Here
<1> QED
  BY <1>7, <1>8, <1>9

\* The bytes the loops visit, and how far the sweep can come.
LEMMA VisitedInBuffer ==
  ASSUME LoopRanges, NEW n \in Visited
  PROVE  n \in Buffer /\ Flat(Start, Start, 0) <= n
<1> DEFINE i == LastIndex(Rows)
           j == LastIndex(Cols)
<1>1. i \in 0 .. Rows /\ j \in 0 .. Cols /\ Channels - 1 \in 0 .. Channels - 1
  BY SweepSizes DEF LastIndex
<1>2. /\ i * (Cols * Channels) + j * Channels + (Channels - 1) \in Nat
      /\ Cols * Channels \in Nat
      /\ i * (Cols * Channels) + j * Channels + (Channels - 1) + Cols * Channels
           < PadSize
  BY <1>1, SweepSizes, OperandBounds
<1>3. Flat(i, j, Channels - 1) =
        i * (Cols * Channels) + j * Channels + (Channels - 1)
  BY DEF Flat, Stride
<1>4. Flat(Start, Start, 0) \in Nat /\ PadSize \in Nat
  BY Offsets, GridTypes DEF PadSize
<1> QED
  BY <1>2, <1>3, <1>4 DEF Visited, Buffer

LEMMA FrontierIsNumber ==
  ASSUME LoopRanges
  PROVE  Frontier \in Int
BY SweepSizes DEF Frontier, Flat, Stride, LastIndex, LoopRanges, Start

LEMMA InitSweep == InitBefore => SweepInv
<1> SUFFICES ASSUME InitBefore
             PROVE  SweepInv
  OBVIOUS
<1>1. SweepTyping /\ LoopRanges
  BY InitTyping DEF InitBefore, SweepTyping
<1>2. before \in Mats
  BY <1>1 DEF InitBefore, SweepTyping
<1>3. AtFirst /\ iter = 0 /\ Frontier = Flat(Start, Start, 0)
  BY DEF InitBefore, Init, AtFirst, Frontier
<1>4. Flat(Start, Start, 0) \in Nat
  BY <1>1, Offsets
<1>5. PadSize \in Nat
  BY GridTypes DEF PadSize
<1> QED
  BY <1>1, <1>2, <1>3, <1>4, <1>5 DEF SweepInv, Buffer

\* The bytes a visit reads are those the equations name, and the bytes it stores
\* are the equations' left sides.
LEMMA VisitSweep ==
  ASSUME SweepInv, VisitPixel,
         before' = IF AtFirst THEN pixels ELSE before
  PROVE  SweepInv'
<1>1. SweepTyping /\ LoopRanges /\ pc = "sweep" /\ Advance /\ UNCHANGED program
  BY DEF SweepInv, SweepTyping, VisitPixel
<1>2. SweepTyping' /\ LoopRanges'
  BY <1>1, NextTyping DEF Next, SweepTyping
<1>3. before' \in Mats
  BY <1>1 DEF SweepInv, SweepTyping
<1>4. /\ Channels \in Nat \ {0} /\ Stride \in Nat /\ Channels <= Stride
      /\ Here \in Nat /\ PixelBytes = Here .. Here + Channels - 1
      /\ Flat(Start, Start, 0) \in Nat /\ Flat(Start, Start, 0) <= Here
      /\ PadSize \in Nat
  BY <1>1, Offsets, GridTypes DEF PadSize
<1>5. Frontier' = Here + Channels
  BY <1>1, FrontierStep
<1>6. Flat(Start, Start, 0)' = Flat(Start, Start, 0)
  BY <1>1 DEF Flat, Start, Stride
<1>7. PICK outside \in OutsideContents :
        pixels' = [n \in Buffer |-> IF n \in PixelBytes
                                      THEN Average(n, outside) ELSE pixels[n]]
  BY DEF VisitPixel
\* What the sweep has not reached is as the current sweep found it.
<1>8. \A n \in Buffer : n >= Here => pixels[n] = before'[n]
  <2>1. CASE AtFirst
    BY <2>1
  <2>2. CASE ~ AtFirst
    BY <2>2, <1>4 DEF SweepInv, Frontier, Here
  <2> QED
    BY <2>1, <2>2
\* What it has left behind keeps its value.
<1>9. \A n \in Buffer : n \notin PixelBytes => pixels'[n] = pixels[n]
  BY <1>7
<1>10. \A n \in Buffer : n >= Frontier' => pixels'[n] = before'[n]
  BY <1>4, <1>5, <1>8, <1>9 DEF Buffer
<1>11. ASSUME NEW n \in Buffer, Flat(Start, Start, 0) <= n, n < Frontier'
       PROVE  EquationAt(n)'
  <2>1. CASE n \in PixelBytes
    <3>1. pixels'[n] = Average(n, outside)
      BY <1>7, <2>1
    <3>2. /\ At(n, outside) = Old(n, outside)'
          /\ At(n + Channels, outside) = Old(n + Channels, outside)'
          /\ At(n + Stride, outside) = Old(n + Stride, outside)'
      BY <1>4, <1>8, <2>1 DEF At, Old, Buffer
    <3>3. /\ At(n - Channels, outside) = At(n - Channels, outside)'
          /\ At(n - Stride, outside) = At(n - Stride, outside)'
      BY <1>4, <1>9, <2>1 DEF At, Buffer
    <3>4. /\ Old(n, outside)' \in Int
          /\ Old(n + Channels, outside)' \in Int
          /\ Old(n + Stride, outside)' \in Int
          /\ At(n - Channels, outside)' \in Int
          /\ At(n - Stride, outside)' \in Int
      <4>1. \A m \in Operands(n) : m \in Buffer \/ m \in OutsideOffsets
        BY <1>1, <2>1, OperandPlaces
      <4>2. /\ \A m \in Buffer : pixels'[m] \in Int /\ before'[m] \in Int
            /\ \A m \in OutsideOffsets : outside[m] \in Int
        <5>1. \A m \in Buffer : pixels'[m] \in Byte /\ before'[m] \in Byte
          BY <1>2, <1>3 DEF SweepTyping, Mats, Buffer
        <5>2. \A m \in OutsideOffsets : outside[m] \in Byte
          BY InPlaceAssumption
        <5> QED
          BY <5>1, <5>2 DEF Byte
      <4> QED
        BY <4>1, <4>2 DEF Operands, Old, At
    <3>5. pixels'[n] = (Old(n, outside) + Old(n + Channels, outside)
                          + Old(n + Stride, outside) + At(n - Channels, outside)
                          + At(n - Stride, outside))' \div 5
      BY <3>1, <3>2, <3>3, <3>4 DEF Average
    <3> QED
      BY <3>5, <1>7 DEF EquationAt
  <2>2. CASE n \notin PixelBytes
    <3>1. n < Here
      BY <1>11, <2>2, <1>4, <1>5 DEF Buffer
    <3>2. ~ AtFirst
      BY <1>11, <3>1, <1>4 DEF AtFirst, Here, Buffer
    <3>3. before' = before /\ n < Frontier
      BY <3>1, <3>2 DEF Frontier, Here
    <3>4. PICK out \in OutsideContents :
            pixels[n] =
              (Old(n, out) + Old(n + Channels, out)
                 + Old(n + Stride, out) + At(n - Channels, out)
                 + At(n - Stride, out)) \div 5
      BY <1>11, <3>3 DEF SweepInv, EquationAt
    <3>5. /\ Old(n, out)' = Old(n, out)
          /\ Old(n + Channels, out)' = Old(n + Channels, out)
          /\ Old(n + Stride, out)' = Old(n + Stride, out)
      BY <3>3 DEF Old
    <3>6. /\ At(n - Channels, out)' = At(n - Channels, out)
          /\ At(n - Stride, out)' = At(n - Stride, out)
      BY <3>1, <1>4, <1>9 DEF At, Buffer
    <3>7. pixels'[n] = pixels[n]
      BY <2>2, <1>9
    <3> QED
      BY <3>4, <3>5, <3>6, <3>7 DEF EquationAt
  <2> QED
    BY <2>1, <2>2
<1> QED
  BY <1>2, <1>3, <1>6, <1>10, <1>11 DEF SweepInv

LEMMA NextSweep ==
  SweepInv /\ [NextBefore]_<<inPlaceVars, before>> => SweepInv'
<1> SUFFICES ASSUME SweepInv, [NextBefore]_<<inPlaceVars, before>>
             PROVE  SweepInv'
  OBVIOUS
<1>1. CASE VisitPixel /\ NextBefore
  <2>1. pc = "sweep" /\ pc' # "crashed"
    <3>1. pc' \in {"sweep", "write"} \/ pc' = pc
      BY <1>1 DEF VisitPixel, Advance
    <3> QED
      BY <1>1, <3>1 DEF VisitPixel
  <2> QED
    BY <1>1, <2>1, VisitSweep DEF NextBefore
<1>2. CASE /\ UNCHANGED <<program, iter, row, col, pixels, before>>
           /\ SweepTyping'
  BY <1>2 DEF SweepInv, Frontier, AtFirst, EquationAt, Old, At, Flat, Start,
              LastIndex, Stride
<1>3. CASE FaultingRead /\ NextBefore
  BY <1>2, <1>3, NextTyping DEF FaultingRead, NextBefore, SweepInv
<1>4. CASE WriteImage /\ NextBefore
  BY <1>2, <1>4, NextTyping DEF WriteImage, NextBefore, SweepInv
<1>5. CASE Done /\ NextBefore
  BY <1>2, <1>5, NextTyping DEF Done, inPlaceVars, NextBefore, SweepInv
<1>6. CASE UNCHANGED <<inPlaceVars, before>>
  BY <1>2, <1>6, NextTyping DEF inPlaceVars, SweepInv
<1> QED
  BY <1>1, <1>3, <1>4, <1>5, <1>6 DEF Next, NextBefore

\* Both sequential programs perform Gauss-Seidel sweeps of their array, for every
\* image, size and number of iterations, and whatever lies in front of it.
THEOREM GaussSeidelSweeps == SpecBefore => []GaussSeidelEquations
<1>1. SweepInv => GaussSeidelEquations
  <2> SUFFICES ASSUME SweepInv, NEW n \in Visited
               PROVE  IF n < Frontier THEN EquationAt(n)
                                      ELSE pixels[n] = before[n] \/ AtFirst
    BY DEF GaussSeidelEquations, EquationAt
  <2>1. LoopRanges
    BY DEF SweepInv, SweepTyping
  <2>2. n \in Buffer /\ Flat(Start, Start, 0) <= n
    BY <2>1, VisitedInBuffer
  <2>3. Frontier \in Int
    BY <2>1, FrontierIsNumber
  <2> QED
    BY <2>2, <2>3 DEF SweepInv, Buffer
<1> QED
  BY <1>1, InitSweep, NextSweep, PTL DEF SpecBefore
=============================================================================
