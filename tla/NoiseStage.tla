------------------------------ MODULE NoiseStage ------------------------------
(***************************************************************************)
(* The beginning of main in the two Kokkos filters: imread, the loop of    *)
(* AddGaussianNoise and the border, up to the pixelPtr the filter works    *)
(* on, and the imwrite of the noised image behind the filter.  The loop    *)
(* avoids copies: it exchanges the data pointers of its two images.        *)
(* RedBlackProgram and JacobiProgram compose it with their filters, and    *)
(* state the types of its constants.                                       *)
(*                                                                         *)
(* parallel_gauss_seidel.cpp noises img and adds the border afterwards;    *)
(* parallel_jacobi.cpp adds the border first and noises all of image_pad.  *)
(***************************************************************************)
EXTENDS Grid

CONSTANTS
  PadFirst,     \* TRUE in parallel_jacobi.cpp
  NOISE_ITER,
  Pictures,     \* what imread may return, the empty Mat left aside
  NoiseFields,  \* what randn may leave in mGaussian_noise, over Cells
  Garbage       \* what the memory of a new Mat may hold, over Cells

VARIABLES
  pc,        \* where main is
  i,         \* the counter of the noise loop
  buffers,   \* the memory of the two images of the loop
  data,      \* image.data and mColorNoise.data: the buffer each points at
  handed,    \* the padded image the filter is given, or NoImage
  saved      \* the noised image imwrite has written, or NoImage

noiseVars == <<pc, i, buffers, data, handed, saved>>

\* A Mat without data.
NoImage == <<>>

\* image is img or image_pad, whichever the loop noises.
Headers == {"image", "mColorNoise"}
Buffers == {"image_memory", "noise_memory"}

\* The elements the loop noises: img.size() or image_pad.size().  The pixels
\* of img keep the coordinates they have in the padded image.
Extent == IF PadFirst THEN Cells ELSE Inner

On(domain, field) == [c \in domain |-> field[c]]

\* Mutant of WithBorder: the border is white.
WithWhiteBorder(img) == [c \in Cells |-> IF c \in Inner THEN img[c] ELSE 255]

WithBorder(img) == [c \in Cells |-> IF c \in Inner THEN img[c] ELSE 0]

InPadded(picture) == [c \in Inner |-> picture[Shifted(c)]]

Source == buffers[data["image"]]
Destination == buffers[data["mColorNoise"]]

LoopHead(n) == IF n < NOISE_ITER THEN "noise" ELSE "pad"

\* Mutant of Clamp: no lower bound.
ClampAbove(n) == IF n > 255 THEN 255 ELSE n

Clamp(n) ==
  LET low == IF n > 255 THEN 255 ELSE n
  IN  IF low < 0 THEN 0 ELSE low

-----------------------------------------------------------------------------
\* getcwd fails, or imread returns an empty Mat: main returns 1.
Refuse ==
  /\ pc = "load" /\ pc' = "failed"
  /\ UNCHANGED <<i, buffers, data, handed, saved>>

\* imread, in parallel_jacobi.cpp copyMakeBorder, and the new mColorNoise.
Load ==
  /\ pc = "load" /\ pc' = LoopHead(0)
  /\ \E picture \in Pictures, garbage \in Garbage :
       buffers' =
         [image_memory |-> IF PadFirst THEN WithBorder(InPadded(picture))
                                       ELSE InPadded(picture),
          noise_memory |-> On(Extent, garbage)]
  /\ UNCHANGED <<i, data, handed, saved>>

\* AddGaussianNoise(image, mColorNoise, 0, 30.0).
AddGaussianNoise ==
  /\ pc = "noise" /\ pc' = "swap"
  /\ \E noise \in NoiseFields :
       buffers' = [buffers EXCEPT
                     ![data["mColorNoise"]] =
                       [c \in Extent |-> Clamp(Source[c] + noise[c])]]
  /\ UNCHANGED <<i, data, handed, saved>>

\* Mutant of Exchanged: the first pointer is overwritten before it is read.
ExchangedWithoutTmp ==
  [image |-> data["mColorNoise"], mColorNoise |-> data["mColorNoise"]]

Exchanged == [image |-> data["mColorNoise"], mColorNoise |-> data["image"]]

\* Mutants of SwapPointers: also after the last pass, and one pass too few.
SwapAlways ==
  /\ pc = "swap" /\ pc' = LoopHead(i + 1)
  /\ data' = Exchanged
  /\ i' = i + 1
  /\ UNCHANGED <<buffers, handed, saved>>

SwapTooEarly ==
  /\ pc = "swap" /\ pc' = LoopHead(i + 1)
  /\ data' = IF i < NOISE_ITER - 2 THEN Exchanged ELSE data
  /\ i' = i + 1
  /\ UNCHANGED <<buffers, handed, saved>>

\* The rest of the loop body: the pointers change places except in the last
\* pass.
SwapPointers ==
  /\ pc = "swap" /\ pc' = LoopHead(i + 1)
  /\ data' = IF i < NOISE_ITER - 1 THEN Exchanged ELSE data
  /\ i' = i + 1
  /\ UNCHANGED <<buffers, handed, saved>>

\* pixelPtr = image_pad.data, after copyMakeBorder in parallel_gauss_seidel.cpp.
TakePixelPtr ==
  /\ pc = "pad" /\ pc' = "filter"
  /\ handed' = IF PadFirst THEN Source ELSE WithBorder(Source)
  /\ UNCHANGED <<i, buffers, data, saved>>

\* The filter has returned.
FilterReturned ==
  /\ pc = "filter" /\ pc' = "write"
  /\ UNCHANGED <<i, buffers, data, handed, saved>>

\* imwrite(..., mColorNoise) and return 0.
WriteNoised ==
  /\ pc = "write" /\ pc' = "done"
  /\ saved' = Destination
  /\ UNCHANGED <<i, buffers, data, handed>>

-----------------------------------------------------------------------------
Init ==
  /\ pc = "load"
  /\ i = 0
  /\ buffers = [b \in Buffers |-> [c \in Extent |-> 0]]
  /\ data = [image |-> "image_memory", mColorNoise |-> "noise_memory"]
  /\ handed = NoImage
  /\ saved = NoImage

\* The part of main before pixelPtr is taken, and the one behind the filter.
Prepare == Refuse \/ Load \/ AddGaussianNoise \/ SwapPointers

Conclude == FilterReturned \/ WriteNoised
=============================================================================
