---------------------------- MODULE RedBlackProps ----------------------------
(***************************************************************************)
(* What RedBlackSweep must guarantee.                                      *)
(***************************************************************************)
EXTENDS RedBlackSweep

HostPoints ==
  {"fill", "upload_in", "upload_out", "loop", "fence_red", "black",
   "fence_black", "feed_back", "download", "write_back", "finalize",
   "write", "done"}

Kernels == {"apply_gauss_red", "apply_gauss_black"}

\* Every variable has its type: in particular what a worker computes and what
\* it stores in a uint8_t fits in a byte, and no index leaves its range.
TypeOK ==
  /\ pc \in HostPoints
  /\ iter \in 0 .. ITERATIONS
  /\ pixelPtr \in Mats
  /\ written \subseteq [Pixels -> Byte]
  /\ queue \in Seq(Kernels)
  /\ ExecTypeOK

\* The border copyMakeBorder adds stays black in both views from the upload
\* to the end: the pixels next to it are averaged with 0 in every iteration.
BorderBlack ==
  pc \notin {"fill", "upload_in"} =>
    \A c \in Ring : mem["img_in"][c] = 0 /\ mem["img_out"][c] = 0

\* While a kernel is launched and not complete nobody writes the view it
\* reads: the fences and the one inside deep_copy order the host's copies
\* after the last worker.
KernelInputStable ==
  [][queue # <<>> => mem'["img_in"] = mem["img_in"]]_vars

\* No two workers hold a value for the same pixel: the blocks set_work_partition
\* hands out are disjoint, so no element of img_out is written twice at once.
OneWriter ==
  \A w1, w2 \in Workers :
    w1 # w2 /\ reg[w1] # NoValue /\ reg[w2] # NoValue
      => Target(Current(w1)) # Target(Current(w2))

\* The image the filter works on: image_pad until it is in img_in.
CurrentImage ==
  IF pc \in {"fill", "upload_in"}
    THEN [c \in Cells |-> pixelPtr[Index(c)]]
    ELSE mem["img_in"]

Abstract == INSTANCE Smoothing
              WITH image <- CurrentImage, sweeps <- iter,
                   Iterations <- ITERATIONS

\* The program smooths the whole image ITERATIONS times and writes the result
\* once, whatever the workers' order: the two kernels of an iteration together
\* are one simultaneous 5-point mean of the image inside the black border.
SmoothsWholeImage == Abstract!Spec

\* What sujet_projet.pdf (section 3.3.3) says of a red-black iteration: each of
\* its two loops works on the most recent data, so the second one on the pixels
\* the first has just computed.  When an iteration is fed back, each black
\* pixel is then the mean of itself in img_in and its red neighbours in img_out.
Latest(c) == IF Colour(c) = RED THEN mem["img_out"][c] ELSE mem["img_in"][c]

BlackUsesFreshRed ==
  pc = "feed_back" =>
    \A c \in Inner :
      Colour(c) = BLACK =>
        mem["img_out"][c] =
          Mean5([d \in Cells |-> IF d \in Inner THEN Latest(d)
                                                ELSE mem["img_in"][d]], c)

-----------------------------------------------------------------------------
(***************************************************************************)
(* Why it holds: the inductive invariant.  A finished item has left the    *)
(* mean of the unchanged img_in in img_out; a complete kernel has done so  *)
(* for all the pixels of its colour; outside the loop the image is where   *)
(* the next copy expects it.                                               *)
(***************************************************************************)
Correct(c) == mem["img_out"][c] = Mean5(mem["img_in"], c)

QueueShape ==
  /\ queue \in {<<>>, <<"apply_gauss_red">>, <<"apply_gauss_black">>}
  /\ queue = <<"apply_gauss_red">> => pc = "fence_red"
  /\ queue = <<"apply_gauss_black">> => pc = "fence_black"

WorkersIdle ==
  Drained => \A w \in Workers : done[w] = 0

Computed ==
  \A w \in Workers :
    reg[w] # NoValue =>
      /\ Working(w, ItemCount)
      /\ Active(Current(w))
      /\ reg[w] = Mean5(mem["img_in"], Target(Current(w)))

ItemsDone ==
  ~ Drained =>
    \A w \in Workers, n \in 0 .. ItemCount - 1 :
      First(w, ItemCount) <= n /\ n < Current(w) /\ Active(n)
        => Correct(Target(n))

ColourDone(colour) == \A c \in Inner : Colour(c) = colour => Correct(c)

RedDone ==
  \/ pc \in {"black", "fence_black", "feed_back"}
  \/ pc = "fence_red" /\ Drained
  => ColourDone(RED)

BlackDone ==
  \/ pc = "feed_back"
  \/ pc = "fence_black" /\ Drained
  => ColourDone(BLACK)

InLoop ==
  {"loop", "fence_red", "black", "fence_black", "feed_back"}

AfterLoop == {"download", "write_back", "finalize", "write", "done"}

LoopCounter ==
  /\ pc \in {"fill", "upload_in", "upload_out"} => iter = 0
  /\ pc \in InLoop => iter < ITERATIONS
  /\ pc \in AfterLoop => iter = ITERATIONS

ZeroView == [c \in Cells |-> 0]

PaddedImage == [c \in Cells |-> pixelPtr[Index(c)]]

BeforeLoop ==
  /\ pc \in {"fill", "upload_in", "upload_out"} =>
       \A c \in Ring : pixelPtr[Index(c)] = 0
  /\ pc = "fill" => mem["img_out"] = ZeroView
  /\ pc = "upload_in" =>
       /\ mem[Alloc("host_img_in")] = PaddedImage
       /\ mem["img_out"] = ZeroView
  /\ pc = "upload_out" => mem["img_in"] = PaddedImage
  /\ pc \in {"upload_in", "upload_out"} =>
       mem[Alloc("host_img_out")] = ZeroView

Delivery ==
  /\ pc \in AfterLoop => mem["img_out"] = mem["img_in"]
  /\ pc = "write_back" => mem[Alloc("host_img_out")] = mem["img_in"]
  /\ pc \in {"finalize", "write"} =>
       pixelPtr = [n \in 0 .. PadSize - 1 |-> mem["img_in"][CellAt(n)]]
  /\ pc # "done" => written = {}

IInv ==
  /\ TypeOK
  /\ QueueShape
  /\ WorkersIdle
  /\ Computed
  /\ ItemsDone
  /\ RedDone
  /\ BlackDone
  /\ LoopCounter
  /\ BeforeLoop
  /\ BorderBlack
  /\ Delivery
=============================================================================
