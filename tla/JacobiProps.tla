----------------------------- MODULE JacobiProps -----------------------------
(***************************************************************************)
(* What JacobiSweep guarantees in spite of the reads at the border, and    *)
(* what its comments say that it does not.                                 *)
(***************************************************************************)
EXTENDS JacobiSweep

VARIABLES
  ideal  \* history: the images that iter sweeps with a fixed border give

HostPoints ==
  {"fill", "upload_in", "upload_out", "loop", "fence", "feed_back",
   "download", "write_back", "finalize", "write", "done", "crashed"}

\* The types: in particular what the kernel stores is a byte also where it
\* averages bytes from outside the view.
TypeOK ==
  /\ pc \in HostPoints
  /\ iter \in 0 .. ITERATIONS
  /\ pixelPtr \in Mats
  /\ written \subseteq [Pixels -> Byte]
  /\ queue \in Seq({"apply_jacobi"})
  /\ ExecTypeOK

-----------------------------------------------------------------------------
(***************************************************************************)
(* The references: simultaneous sweeps of the same image with a border     *)
(* that nothing changes, the noised one it has and the black one it had.   *)
(* A sweep ends with the step that counts it.                              *)
(***************************************************************************)
Smooth(img) == [c \in Cells |-> IF c \in Inner THEN Mean5(img, c) ELSE img[c]]

Ideal(img) ==
  [noised |-> img, black |-> [c \in Cells |-> IF c \in Inner THEN img[c] ELSE 0]]

NextIdeal ==
  ideal' = IF iter' # iter
             THEN [noised |-> Smooth(ideal.noised), black |-> Smooth(ideal.black)]
             ELSE ideal

SpecIdeal ==
  /\ Init /\ ideal = Ideal([c \in Cells |-> pixelPtr[Index(c)]])
  /\ [][Next /\ NextIdeal]_<<vars, ideal>>
  /\ Fairness

\* Distance of a pixel from the edge of the padded image.
Depth(c) ==
  LET d == {c[1], c[2], PadRows - 1 - c[1], PadCols - 1 - c[2]}
  IN  CHOOSE x \in d : \A y \in d : x <= y

\* What lies outside the view reaches one pixel further in each sweep and no
\* faster: after iter sweeps the pixels at depth iter and more are exactly
\* those of the reference, and those deeper than iter do not even depend on the
\* noise in the border, which is added before AddGaussianNoise.
LightCone ==
  pc \notin {"fill", "upload_in"} =>
    \A c \in Cells :
      /\ Depth(c) >= iter => mem["img_in"][c] = ideal.noised[c]
      /\ Depth(c) > iter => mem["img_in"][c] = ideal.black[c]

\* ... and so the image main writes is the smoothed one except for a frame of
\* ITERATIONS - 1 pixels of the picture.
DeliveredCore ==
  \A img \in written : \A p \in Pixels :
    LET c == <<p[1] + PADDING, p[2] + PADDING, p[3]>>
    IN  Depth(c) >= ITERATIONS => img[p] = ideal.noised[c]

\* The functor loops over the channels of its pixel, and the pool divides whole
\* pixels: no two workers are in the same pixel, in any of its channels.
WholePixels ==
  \A v, w \in Workers :
    v # w /\ reg[v] # NoValue /\ reg[w] # NoValue =>
      LET c == Target(Current(v))
          d == Target(Current(w))
      IN  <<c[1], c[2]>> # <<d[1], d[2]>>

-----------------------------------------------------------------------------
(***************************************************************************)
(* Why it holds: the inductive invariant.  A finished item inside the      *)
(* border has left the mean of the unchanged img_in in img_out, whatever   *)
(* the items of the border have left there; a complete kernel has done so  *)
(* for the whole picture; outside the loop the image is where the next     *)
(* copy expects it.                                                        *)
(***************************************************************************)
PaddedImage == [c \in Cells |-> pixelPtr[Index(c)]]

Correct(c) == mem["img_out"][c] = Mean5(mem["img_in"], c)

QueueShape ==
  /\ queue \in {<<>>, <<"apply_jacobi">>}
  /\ queue # <<>> => pc = "fence"

WorkersIdle ==
  Drained /\ pc # "crashed" =>
    \A w \in Workers : done[w] = 0 /\ reg[w] = NoValue

InBlock ==
  \A w \in Workers : reg[w] # NoValue => Current(w) < End(w, ItemCount)

Computed ==
  \A w \in Workers :
    reg[w] # NoValue /\ Target(Current(w)) \in Inner =>
      reg[w] = Mean5(mem["img_in"], Target(Current(w)))

ItemsDone ==
  ~ Drained =>
    \A w \in Workers, n \in 0 .. ItemCount - 1 :
      First(w, ItemCount) <= n /\ n < Current(w) /\ Target(n) \in Inner
        => Correct(Target(n))

KernelDone ==
  \/ pc = "feed_back"
  \/ pc = "fence" /\ Drained
  => \A c \in Inner : Correct(c)

AfterLoop == {"download", "write_back", "finalize", "write", "done"}

LoopCounter ==
  /\ pc \in {"fill", "upload_in", "upload_out"} => iter = 0
  /\ pc \in {"loop", "fence", "feed_back"} => iter < ITERATIONS
  /\ pc \in AfterLoop => iter = ITERATIONS

BeforeLoop ==
  /\ pc \in {"fill", "upload_in"} => ideal = Ideal(PaddedImage)
  /\ pc = "upload_in" => mem[Alloc("host_img_in")] = PaddedImage

Delivery ==
  /\ pc \in AfterLoop => mem["img_out"] = mem["img_in"]
  /\ pc = "write_back" => mem[Alloc("host_img_out")] = mem["img_in"]
  /\ pc \in {"finalize", "write"} =>
       pixelPtr = [n \in 0 .. PadSize - 1 |-> mem["img_in"][CellAt(n)]]
  /\ pc # "done" => written = {}

JacobiInv ==
  /\ TypeOK
  /\ QueueShape
  /\ WorkersIdle
  /\ InBlock
  /\ Computed
  /\ ItemsDone
  /\ KernelDone
  /\ LoopCounter
  /\ BeforeLoop
  /\ LightCone
  /\ Delivery
  /\ DeliveredCore

-----------------------------------------------------------------------------
\* The comments of the functor call its operands the left, right, up and down
\* pixel of the current one: every pixel a worker reads is one of the view.
Neighbours(c) ==
  {<<c[1], c[2] - 1, c[3]>>, <<c[1], c[2] + 1, c[3]>>,
   <<c[1] - 1, c[2], c[3]>>, <<c[1] + 1, c[2], c[3]>>}

NeighboursArePixels ==
  [][\A w \in Workers :
       reg[w] = NoValue /\ reg'[w] # NoValue =>
         Neighbours(Target(Current(w))) \subseteq Cells]_vars
=============================================================================
