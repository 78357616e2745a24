------------------------------- MODULE Noising -------------------------------
(***************************************************************************)
(* What the noise loop of a filter promises, without its two buffers: the  *)
(* image is noised pass after pass, the image before the last pass is the  *)
(* one to be filtered, and the image after the last pass is saved.         *)
(***************************************************************************)
EXTENDS Integers

CONSTANTS
  StartImages,  \* the images the loop may begin with
  NoiseFields,  \* the draws of noise
  Passes        \* noise passes

VARIABLES
  latest,    \* the image with the noise so far
  previous,  \* the image one pass earlier
  passes,    \* passes made
  noised     \* the image saved

noisingVars == <<latest, previous, passes, noised>>

Nothing == <<>>

Limited(n) == IF n > 255 THEN 255 ELSE IF n < 0 THEN 0 ELSE n

Init ==
  /\ latest = Nothing
  /\ previous = Nothing
  /\ passes = 0
  /\ noised = Nothing

Read ==
  /\ latest = Nothing
  /\ latest' \in StartImages
  /\ UNCHANGED <<previous, passes, noised>>

AddNoise ==
  /\ latest # Nothing /\ passes < Passes
  /\ \E noise \in NoiseFields :
       latest' = [c \in DOMAIN latest |-> Limited(latest[c] + noise[c])]
  /\ previous' = latest
  /\ passes' = passes + 1
  /\ UNCHANGED noised

Save ==
  /\ passes = Passes /\ noised = Nothing
  /\ noised' = latest
  /\ UNCHANGED <<latest, previous, passes>>

Next == Read \/ AddNoise \/ Save

Spec == Init /\ [][Next]_noisingVars
=============================================================================
