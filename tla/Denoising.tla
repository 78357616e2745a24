------------------------------ MODULE Denoising ------------------------------
(***************************************************************************)
(* What parallel_gauss_seidel.cpp promises as a whole, without pointers,   *)
(* views or threads: the image before the last noise pass is smoothed      *)
(* inside a black border and delivered, and then the noised one is saved.  *)
(***************************************************************************)
EXTENDS Noising, Grid

CONSTANT Iterations  \* sweeps

VARIABLES
  image,    \* the image that is smoothed, with its border
  sweeps,   \* sweeps made
  smoothed  \* the image delivered

denoisingVars == <<noisingVars, image, sweeps, smoothed>>

Smooth(img) == [c \in Cells |-> IF c \in Inner THEN Mean5(img, c) ELSE img[c]]

Bordered(img) == [c \in Cells |-> IF c \in Inner THEN img[c] ELSE 0]

DenoisingInit == Init /\ image = Nothing /\ sweeps = 0 /\ smoothed = Nothing

Begin ==
  /\ passes = Passes /\ image = Nothing
  /\ image' = Bordered(previous)
  /\ UNCHANGED <<noisingVars, sweeps, smoothed>>

Sweep ==
  /\ image # Nothing /\ sweeps < Iterations
  /\ image' = Smooth(image)
  /\ sweeps' = sweeps + 1
  /\ UNCHANGED <<noisingVars, smoothed>>

Deliver ==
  /\ sweeps = Iterations /\ smoothed = Nothing
  /\ smoothed' = [c \in Inner |-> image[c]]
  /\ UNCHANGED <<noisingVars, image, sweeps>>

DenoisingNext ==
  \/ (Read \/ AddNoise) /\ UNCHANGED <<image, sweeps, smoothed>>
  \/ Begin \/ Sweep \/ Deliver
  \/ smoothed # Nothing /\ Save /\ UNCHANGED <<image, sweeps, smoothed>>

DenoisingSpec == DenoisingInit /\ [][DenoisingNext]_denoisingVars
=============================================================================
