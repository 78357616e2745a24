------------------------------ MODULE Smoothing ------------------------------
(***************************************************************************)
(* What a filter of the repository promises, whatever the number of        *)
(* threads and the order in which they run: the image inside a fixed       *)
(* border is replaced Iterations times by its 5-point mean, all pixels at  *)
(* once, and the result is delivered without the border.                   *)
(***************************************************************************)
EXTENDS Grid

CONSTANTS
  Images,      \* the images a run may start from, without border
  Iterations

VARIABLES
  image,    \* the current image, with its border
  sweeps,   \* sweeps made so far
  written   \* the images delivered

smoothVars == <<image, sweeps, written>>

Bordered(img) == [c \in Cells |-> IF c \in Inner THEN img[Shifted(c)] ELSE 0]

Smooth(img) == [c \in Cells |-> IF c \in Inner THEN Mean5(img, c) ELSE img[c]]

WithoutBorder(img) ==
  [p \in Pixels |-> img[<<p[1] + PADDING, p[2] + PADDING, p[3]>>]]

Init ==
  /\ image \in {Bordered(img) : img \in Images}
  /\ sweeps = 0
  /\ written = {}

Sweep ==
  /\ sweeps < Iterations
  /\ image' = Smooth(image)
  /\ sweeps' = sweeps + 1
  /\ UNCHANGED written

Deliver ==
  /\ sweeps = Iterations
  /\ written = {}
  /\ written' = {WithoutBorder(image)}
  /\ UNCHANGED <<image, sweeps>>

Next == Sweep \/ Deliver

Spec == Init /\ [][Next]_smoothVars
=============================================================================
