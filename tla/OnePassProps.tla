----------------------------- MODULE OnePassProps -----------------------------
(***************************************************************************)
(* What the programs of OnePass deliver.                                   *)
(***************************************************************************)
EXTENDS OnePass

VARIABLES
  start  \* history: the noised image the program began with

InitStart == Init /\ start = mat

SpecStart ==
  /\ InitStart
  /\ [][Next /\ UNCHANGED start]_<<onePassVars, start>>
  /\ Fairness

\* Every variable has its type; a stored mean is a byte also where an operand
\* comes from in front of the view, and A_new holds at most 5 * 255 fifths.
TypeOK ==
  /\ program \in {"cpu_parallel_jacobi", "test_jacobi"}
  /\ mat \in [DOMAIN start -> Byte]
  /\ viewIn \in [DOMAIN start -> Byte]
  /\ viewOut \in [DOMAIN start -> IF Flat THEN Byte ELSE 0 .. 5 * 255]
  /\ queue \in Seq({"init_image", "apply_jacobi", "output_image"})
  /\ done \in [Workers -> Nat]

Inside(o) == \A n \in DOMAIN Operands(o) : Operands(o)[n] \in DOMAIN start

MeanOfStart(o) ==
  LET n == Operands(o)
  IN  (start[n[1]] + start[n[2]] + start[n[3]] + start[n[4]] + start[n[5]]) \div 5

\* The image that is written is a function of the noised one, for all orders of
\* the workers and although test/jacobi.cpp leaves two of its kernels without a
\* fence: cpu_parallel_jacobi.cpp replaces the elements whose operands lie in the
\* view by their mean and leaves the tail of image_pad, behind the first
\* rows * cols pixels, as it was noised; test/jacobi.cpp replaces the inner
\* pixels by their mean and the outermost by black.
Delivered ==
  \A img \in written : \A o \in DOMAIN img :
    IF Flat
      THEN /\ o < PictureSize /\ Inside(o) => img[o] = MeanOfStart(o)
           /\ o >= PictureSize => img[o] = start[o]
      ELSE LET i == o \div RowLength
               j == (o \div Channels) % Cols
           IN  img[o] = IF i \in 1 .. Rows - 2 /\ j \in 1 .. Cols - 2
                          THEN MeanOfStart(o) ELSE 0

\* No element is read behind a view, and in front of it at most one row of img:
\* test/jacobi.cpp does not leave its view at all.
ReadsNearView ==
  \A w \in Workers :
    Working(w) /\ Head(queue) = "apply_jacobi" /\ ~ Skipped(Item(w)) =>
      \A n \in DOMAIN Operands(0) :
        Operands(Item(w))[n] \in
          (IF Flat THEN OutsideOffsets ELSE {}) \cup DOMAIN start

\* Nobody smooths an image that is not complete: from the first mean on, the view
\* it is computed from is the noised image, although test/jacobi.cpp launches the
\* kernels one behind the other.
SmoothsComplete ==
  (~ Drained /\ Head(queue) # "init_image") => viewIn = start

\* main returns, or a read in front of the view ends the program.
ProgramsEnd == <>(pc = "crashed" \/ (pc = "done" /\ written # {}))

-----------------------------------------------------------------------------
(***************************************************************************)
(* Why it holds: the inductive invariant.  A kernel begins when the one in *)
(* front of it has left a good value in every element; a value a worker    *)
(* holds for an element is good, and stays so because nobody writes what   *)
(* the kernel reads.                                                       *)
(***************************************************************************)
SumOfStart(o) ==
  LET n == Operands(o)
  IN  start[n[1]] + start[n[2]] + start[n[3]] + start[n[4]] + start[n[5]]

Outermost(o) ==
  \/ o \div RowLength \in {0, Rows - 1}
  \/ (o \div Channels) % Cols \in {0, Cols - 1}

\* What a kernel may leave in an element, and where.
Good(kernel, o, v) ==
  CASE kernel = "init_image" -> v = start[o]
    [] kernel # "init_image" /\ Flat -> Inside(o) => v = MeanOfStart(o)
    [] kernel = "apply_jacobi" /\ ~ Flat ->
         v = IF Outermost(o) THEN 0 ELSE SumOfStart(o)
    [] OTHER -> v = IF Outermost(o) THEN 0 ELSE MeanOfStart(o)

Stored(kernel, o) ==
  IF kernel = "init_image" THEN viewIn[o]
  ELSE IF kernel = "apply_jacobi" THEN viewOut[o] ELSE mat[o]

Complete(kernel) ==
  \A o \in 0 .. ItemCount(kernel) - 1 : Good(kernel, o, Stored(kernel, o))

ProgramShape ==
  /\ program \in {"cpu_parallel_jacobi", "test_jacobi"}
  /\ start \in IF Flat THEN Mats ELSE [0 .. PictureSize - 1 -> Byte]
  /\ reg \in [Workers -> {NoValue} \cup 0 .. 5 * 255]
  /\ pc # "done" => written = {}

QueueShape ==
  \/ Drained
  \/ queue = <<"init_image">> /\ pc = IF Flat THEN "fence_init" ELSE "jacobi"
  \/ queue = <<"init_image", "apply_jacobi">> /\ ~ Flat /\ pc = "fence_jacobi"
  \/ queue = <<"apply_jacobi">> /\ pc = "fence_jacobi"
  \/ queue = <<"output_image">> /\ pc = IF Flat THEN "fence_output" ELSE "finalize"

WorkersIdle == Drained /\ pc # "crashed" => \A w \in Workers : done[w] = 0

Held ==
  pc # "crashed" =>
    \A w \in Workers :
      reg[w] # NoValue =>
        /\ Working(w) /\ ~ Skipped(Item(w))
        /\ Flat \/ Head(queue) # "apply_jacobi" => reg[w] \in Byte
        /\ Good(Head(queue), Item(w), reg[w])

ItemsDone ==
  ~ Drained =>
    \A w \in Workers, o \in 0 .. ItemCount(Head(queue)) - 1 :
      First(w, Head(queue)) <= o /\ o < Item(w)
        => Good(Head(queue), o, Stored(Head(queue), o))

\* The view is filled before anything is smoothed ...
Filled ==
  (IF Drained THEN pc # "init" ELSE Head(queue) # "init_image")
    => viewIn = start

\* ... and smoothed before anything is written back.
Smoothed ==
  \/ pc \in {"output", "fence_output", "finalize", "write", "done"}
  \/ pc = "fence_jacobi" /\ Drained
  => Complete("apply_jacobi")

WrittenBack ==
  pc \in {"fence_output", "finalize", "write", "done"} /\ Drained
    => Complete("output_image")

Kept ==
  /\ pc \notin {"fence_output", "finalize", "write", "done"} => mat = start
  /\ \A o \in DOMAIN start : o >= PictureSize => mat[o] = start[o]
  /\ ~ Flat => \A o \in DOMAIN start : Outermost(o) => viewOut[o] = 0

OnePassInv ==
  /\ TypeOK
  /\ ProgramShape
  /\ QueueShape
  /\ WorkersIdle
  /\ Held
  /\ ItemsDone
  /\ Filled
  /\ Smoothed
  /\ WrittenBack
  /\ Kept
  /\ Delivered
=============================================================================
