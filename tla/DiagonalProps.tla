---------------------------- MODULE DiagonalProps ----------------------------
(***************************************************************************)
(* What DiagonalSweep computes.                                            *)
(***************************************************************************)
EXTENDS DiagonalSweep

VARIABLES
  ideal  \* history: the image that iter simultaneous sweeps of the square give

Square == (1 .. n) \X (1 .. n) \X (0 .. Channels - 1)

\* The square by its mean; the rest of img_out is black and stays so.
SweepSquare(img) ==
  [c \in Cells |-> IF c \in Square THEN Mean5(img, c) ELSE 0]

InitIdeal == Init /\ ideal = [c \in Cells |-> pixelPtr[Index(c)]]

NextIdeal == ideal' = IF iter' # iter THEN SweepSquare(ideal) ELSE ideal

SpecIdeal ==
  /\ InitIdeal
  /\ [][Next /\ NextIdeal]_<<vars, ideal>>
  /\ Fairness

\* Every variable has its type; what a worker computes is a byte.
TypeOK ==
  /\ n \in SquareSizes
  /\ k \in 1 .. 2 * n
  /\ iter \in 0 .. ITERATIONS
  /\ pixelPtr \in Mats
  /\ queue \in Seq(1 .. 2 * n - 1)
  /\ ExecTypeOK

\* Although nothing fences the diagonals from each other, an iteration is one
\* simultaneous mean of the square: the diagonals cover it, and each reads only
\* img_in.  What is outside the square is black from the first iteration on.
FeedsBackSquare ==
  pc \notin {"fill", "upload_in"} => mem["img_in"] = ideal

\* ... and that is the picture main writes.
DeliversSquare ==
  \A img \in written : \A p \in Pixels :
    img[p] = ideal[<<p[1] + PADDING, p[2] + PADDING, p[3]>>]

\* No step changes img_in while a diagonal is in the queue: one fence behind all
\* of them is enough.
DiagonalInputStable ==
  [][queue # <<>> => mem'["img_in"] = mem["img_in"]]_vars

\* main returns with its picture written: no fence waits for a diagonal that has
\* fewer pixels than the pool has threads.
Returns == <>(pc = "done" /\ written # {})

-----------------------------------------------------------------------------
(***************************************************************************)
(* Why it holds: the inductive invariant.  The queue holds consecutive     *)
(* diagonals; those before its head are done, and of the head what the     *)
(* workers have behind them.  Outside the loop the image is where the next *)
(* copy expects it.                                                        *)
(***************************************************************************)
Correct(c) == mem["img_out"][c] = Mean5(mem["img_in"], c)

Diagonal(c) == c[1] + c[2] - 1

\* The diagonal at the head of the queue, or the next one to be launched.
Oldest == k - Len(queue)

QueueInOrder ==
  /\ Len(queue) < k
  /\ \A q \in DOMAIN queue : queue[q] = Oldest + q - 1
  /\ pc = "loop" => k <= Diagonals
  /\ pc \in {"fence", "feed_back"} => k = 2 * n
  /\ pc \notin {"loop", "fence", "feed_back"} => k = 1
  /\ pc = "feed_back" => Drained

WorkersIdle == Drained => \A w \in Workers : done[w] = 0

Computed ==
  \A w \in Workers :
    reg[w] # NoValue =>
      /\ Working(w, ItemCount)
      /\ Active(Current(w))
      /\ reg[w] = Mean5(mem["img_in"], Target(Current(w)))

ItemsDone ==
  ~ Drained =>
    \A w \in Workers, item \in 0 .. ItemCount - 1 :
      First(w, ItemCount) <= item /\ item < Current(w) /\ Active(item)
        => Correct(Target(item))

DiagonalsDone ==
  pc \in {"loop", "fence", "feed_back"} =>
    \A c \in Square : Diagonal(c) < Oldest => Correct(c)

OutsideBlack == \A c \in Cells \ Square : mem["img_out"][c] = 0

BeforeLoop ==
  LET black == [c \in Cells |-> 0]
  IN  /\ pc = "fill" => ideal = [c \in Cells |-> pixelPtr[Index(c)]]
      /\ pc = "upload_in" => mem[Alloc("host_img_in")] = ideal
      /\ pc \in {"fill", "upload_in"} => mem["img_out"] = black
      /\ pc \in {"upload_in", "upload_out"} =>
           mem[Alloc("host_img_out")] = black

LoopCounter ==
  /\ pc \in {"fill", "upload_in", "upload_out"} => iter = 0
  /\ pc \in {"loop", "fence", "feed_back"} => iter < ITERATIONS

Delivery ==
  LET bytes == [o \in 0 .. PadSize - 1 |-> ideal[CellAt(o)]]
  IN  /\ pc = "download" => mem["img_out"] = ideal
      /\ pc = "write_back" => mem[Alloc("host_img_out")] = ideal
      /\ pc \in {"finalize", "write"} => pixelPtr = bytes
      /\ pc # "done" => written = {}

WavefrontInv ==
  /\ TypeOK
  /\ QueueInOrder
  /\ WorkersIdle
  /\ Computed
  /\ ItemsDone
  /\ DiagonalsDone
  /\ OutsideBlack
  /\ BeforeLoop
  /\ LoopCounter
  /\ FeedsBackSquare
  /\ Delivery
  /\ DeliversSquare
=============================================================================
