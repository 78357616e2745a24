--------------------------- MODULE RedBlackProgram ---------------------------
(***************************************************************************)
(* main of parallel_gauss_seidel.cpp: the noise stage, the red-black       *)
(* filter on a copy of its image, and the two pictures it writes.          *)
(***************************************************************************)
EXTENDS RedBlackProps

CONSTANTS NOISE_ITER, Pictures, NoiseFields, Garbage  \* of NoiseStage

ASSUME RedBlackProgramAssumption ==
  /\ NOISE_ITER \in Nat \ {0}
  /\ Pictures \subseteq [Pixels -> Byte]
  /\ NoiseFields \subseteq [Cells -> Short]
  /\ Garbage \subseteq [Cells -> Byte]

VARIABLES
  stage,  \* where main is outside the filter
  i, buffers, data, handed, saved

stageVars == <<stage, i, buffers, data, handed, saved>>

programVars == <<vars, stageVars>>

Stage == INSTANCE NoiseStage WITH pc <- stage, PadFirst <- FALSE

\* A Mat as the function on its byte offsets.
Bytes(img) == [n \in 0 .. PadSize - 1 |-> img[CellAt(n)]]

-----------------------------------------------------------------------------
ProgramInit ==
  /\ Stage!Init
  /\ HostInit({[n \in 0 .. PadSize - 1 |-> 0]})

\* image_pad has memory of its own: copyMakeBorder allocates it.
HandOver ==
  /\ Stage!TakePixelPtr
  /\ pixelPtr' = Bytes(handed')
  /\ UNCHANGED <<pc, iter, written, execVars>>

Main ==
  \/ Stage!Prepare /\ UNCHANGED vars
  \/ HandOver
  \/ stage = "filter" /\ Host /\ UNCHANGED stageVars
  \/ Returned /\ Stage!Conclude /\ UNCHANGED vars

Pool(w) == Worker(w) /\ UNCHANGED stageVars

Join == EndKernel /\ UNCHANGED stageVars

\* main has returned, with 0 or with 1.
ProgramDone == stage \in {"done", "failed"} /\ UNCHANGED programVars

ProgramNext == Main \/ Join \/ ProgramDone \/ \E w \in Workers : Pool(w)

ProgramSpec ==
  /\ ProgramInit
  /\ [][ProgramNext]_programVars
  /\ WF_programVars(Main)
  /\ WF_programVars(Join)
  /\ \A w \in Workers : WF_programVars(Pool(w))

-----------------------------------------------------------------------------
\* Every variable of the noise stage has its type: a noised channel is still a
\* byte, however far the noise has carried the sum out of range.
StageTypeOK ==
  /\ stage \in {"load", "noise", "swap", "pad", "filter", "write", "done",
                "failed"}
  /\ i \in 0 .. NOISE_ITER
  /\ buffers \in [Stage!Buffers -> [Inner -> Byte]]
  /\ data \in [Stage!Headers -> Stage!Buffers]
  /\ handed \in [Cells -> Byte] \cup {Stage!NoImage}
  /\ saved \in [Inner -> Byte] \cup {Stage!NoImage}

\* Where the noise loop has its two images: before a pass image holds the
\* latest one, behind it mColorNoise, until the pointers are exchanged.
Newest ==
  IF stage \in {"load", "failed"} THEN Stage!NoImage
  ELSE IF stage = "noise" THEN Stage!Source
  ELSE Stage!Destination

PassesMade == IF stage = "swap" THEN i + 1 ELSE i

Previous ==
  IF PassesMade = 0 THEN Stage!NoImage
  ELSE IF stage = "noise" THEN Stage!Destination
  ELSE Stage!Source

Smoothed ==
  IF written = {} THEN Stage!NoImage
  ELSE CHOOSE img \in {[c \in Inner |-> w[Shifted(c)]] : w \in written} : TRUE

Filtered == IF handed = Stage!NoImage THEN Stage!NoImage ELSE CurrentImage

Whole ==
  INSTANCE Denoising
    WITH StartImages <- {Stage!InPadded(picture) : picture \in Pictures},
         Passes <- NOISE_ITER, Iterations <- ITERATIONS,
         latest <- Newest, previous <- Previous, passes <- PassesMade,
         noised <- saved, sweeps <- iter, smoothed <- Smoothed,
         image <- Filtered

\* The program as a whole denoises: the exchange of the pointers loses no pass
\* and mixes up no image, whatever the parity of NOISE_ITER; the sweep starts
\* from the image before the last pass inside a black border; the smoothed and
\* the noised picture are written, each once and in this order.
Denoises == Whole!DenoisingSpec

\* main returns: refused, or with both pictures written.
Returns ==
  <>(\/ stage = "failed"
     \/ stage = "done" /\ written # {} /\ saved # Stage!NoImage)
=============================================================================
