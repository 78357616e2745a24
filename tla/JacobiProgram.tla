---------------------------- MODULE JacobiProgram ----------------------------
(***************************************************************************)
(* main of parallel_jacobi.cpp: the noise stage over the bordered image,   *)
(* the Jacobi filter, which writes its result back into the memory of one  *)
(* of the stage's two images, and the two pictures the program writes.     *)
(***************************************************************************)
EXTENDS JacobiProps

CONSTANTS NOISE_ITER, Pictures, NoiseFields, Garbage  \* of NoiseStage

ASSUME JacobiProgramAssumption ==
  /\ NOISE_ITER \in Nat \ {0}
  /\ Pictures \subseteq [Pixels -> Byte]
  /\ NoiseFields \subseteq [Cells -> Short]
  /\ Garbage \subseteq [Cells -> Byte]

VARIABLES
  stage,  \* where main is outside the filter
  i, buffers, data, handed, saved

stageVars == <<stage, i, buffers, data, handed, saved>>

programVars == <<vars, ideal, stageVars>>

Stage == INSTANCE NoiseStage WITH pc <- stage, PadFirst <- TRUE

\* A Mat as the function on its byte offsets, and as one on its cells.
Bytes(img) == [n \in 0 .. PadSize - 1 |-> img[CellAt(n)]]

Image(mat) == [c \in Cells |-> mat[Index(c)]]

-----------------------------------------------------------------------------
ProgramInit ==
  /\ Stage!Init
  /\ HostInit({[n \in 0 .. PadSize - 1 |-> 0]})
  /\ ideal = Ideal([c \in Cells |-> 0])

\* pixelPtr is the data pointer of image_pad.
HandOver ==
  /\ Stage!TakePixelPtr
  /\ pixelPtr' = Bytes(handed')
  /\ ideal' = Ideal(handed')
  /\ UNCHANGED <<pc, iter, written, execVars>>

\* Mutant of Shared: the result is written into the other image.
SharedWithNoise == [buffers EXCEPT ![data["mColorNoise"]] = Image(pixelPtr')]

\* The buffers of the noise loop after a step of the filter: it shares the
\* memory of image_pad.
Shared == [buffers EXCEPT ![data["image"]] = Image(pixelPtr')]

Filtering(step) ==
  /\ stage = "filter"
  /\ step
  /\ NextIdeal
  /\ buffers' = IF pixelPtr' = pixelPtr THEN buffers ELSE Shared
  /\ UNCHANGED <<stage, i, data, handed, saved>>

Main ==
  \/ Stage!Prepare /\ UNCHANGED <<vars, ideal>>
  \/ HandOver
  \/ Filtering(Host)
  \/ Returned /\ Stage!Conclude /\ UNCHANGED <<vars, ideal>>

Pool(w) == Filtering(Worker(w))

Join == Filtering(EndKernel)

\* main has returned, or the process is gone.
ProgramDone ==
  /\ stage \in {"done", "failed"} \/ pc = "crashed"
  /\ UNCHANGED programVars

ProgramNext == Main \/ Join \/ ProgramDone \/ \E w \in Workers : Pool(w)

ProgramSpec ==
  /\ ProgramInit
  /\ [][ProgramNext]_programVars
  /\ WF_programVars(Main)
  /\ WF_programVars(Join)
  /\ \A w \in Workers : WF_programVars(Pool(w))

-----------------------------------------------------------------------------
\* Where the noise loop has its two images: before a pass image holds the
\* latest one, behind it mColorNoise, until the pointers are exchanged.
Latest ==
  IF stage \in {"load", "failed"} THEN Stage!NoImage
  ELSE IF stage = "noise" THEN Stage!Source
  ELSE Stage!Destination

PassesMade == IF stage = "swap" THEN i + 1 ELSE i

Previous ==
  IF PassesMade = 0 THEN Stage!NoImage
  ELSE IF stage = "noise" THEN Stage!Destination
  ELSE IF stage \in {"swap", "pad"} THEN Stage!Source
  ELSE handed

Noise ==
  INSTANCE Noising
    WITH StartImages <- {Stage!WithBorder(Stage!InPadded(picture)) :
                           picture \in Pictures},
         Passes <- NOISE_ITER, latest <- Latest, previous <- Previous,
         passes <- PassesMade, noised <- saved

\* The exchange of the pointers loses no pass, whatever the parity of
\* NOISE_ITER, and the noised image that is saved behind the filter is the one
\* of the last pass: the filter's write-back, into one of the two buffers of the
\* loop, does not reach it.
NoisesAndSaves == Noise!Spec

\* main returns with both pictures written, refuses, or a read outside the view
\* ends the program: no wait is without end.
Ends ==
  <>(\/ stage = "done" /\ written # {} /\ saved # Stage!NoImage
     \/ stage = "failed"
     \/ pc = "crashed")
=============================================================================
