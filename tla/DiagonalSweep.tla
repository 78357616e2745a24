---------------------------- MODULE DiagonalSweep ----------------------------
(***************************************************************************)
(* parallel_wave_gauss_seidel.cpp from the bordered image to the written   *)
(* result: each iteration launches a kernel for each of the diagonals of a *)
(* square of n x n pixels, with one fence behind the last, and feeds       *)
(* img_out back to img_in.  The file uses n without declaring it and does  *)
(* not compile; here n is any size of a square in the image.               *)
(***************************************************************************)
EXTENDS FilterHost

CONSTANT Images  \* the noised images AddGaussianNoise may leave in img

SquareSizes == {s \in 1 .. Rows : s <= Cols}

\* A chunk of a RangePolicy is some pixels, each with all of its channels: as many
\* as set_auto_chunk_size finds good for the length of the diagonal.
ASSUME DiagonalAssumption ==
  /\ Images \subseteq [Pixels -> Byte]
  /\ \A length \in SquareSizes :
       /\ TileWork(length * Channels) \in Nat \ {0}
       /\ TileWork(length * Channels) % Channels = 0

VARIABLES
  n,  \* the side of the square
  k   \* the diagonal launched next

vars == <<n, k, pc, iter, pixelPtr, written, mem, queue, done, reg>>

\* Mutant of Diagonals: one too few.
DiagonalsExclusive == 2 * n - 2

Diagonals == 2 * n - 1

\* A kernel in the queue is the number of its diagonal.
Length(kernel) == IF kernel < n THEN kernel ELSE n

\* Of the kernel at the head of the queue.
ItemCount == Length(Head(queue)) * Channels

Current(w) == Item(w, ItemCount)

Row(kernel, idx) == IF kernel <= n THEN 1 + idx ELSE kernel - n + 1 + idx

Target(item) ==
  LET i == Row(Head(queue), item \div Channels)
  IN  <<i, Head(queue) + 1 - i, item % Channels>>

\* Mutant of Active: the kernel has no guard.
NoGuard(item) == TRUE

\* The guard of the kernel's body.
Active(item) == Target(item)[1] <= n

-----------------------------------------------------------------------------
LaunchDiagonal ==
  /\ pc = "loop"
  /\ ParallelFor(k)
  /\ k' = k + 1
  /\ pc' = IF k < Diagonals THEN "loop" ELSE "fence"
  /\ UNCHANGED <<n, iter, pixelPtr, written>>

FenceDiagonals ==
  /\ Step("fence", "feed_back")
  /\ Fence
  /\ UNCHANGED <<n, k, iter, pixelPtr, written>>

Iterate ==
  \/ LaunchDiagonal
  \/ FenceDiagonals
  \/ FeedBack /\ k' = 1 /\ UNCHANGED n

Host ==
  \/ Iterate
  \/ (Upload \/ Deliver) /\ UNCHANGED <<n, k>>

LoadPixel(w) ==
  /\ Working(w, ItemCount)
  /\ Active(Current(w))
  /\ Load(w, ItemCount, Mean5(mem["img_in"], Target(Current(w))))
  /\ UNCHANGED <<n, k, hostVars>>

StorePixel(w) ==
  /\ Store(w, ItemCount, Target(Current(w)))
  /\ UNCHANGED <<n, k, hostVars>>

SkipPixel(w) ==
  /\ Working(w, ItemCount)
  /\ ~ Active(Current(w))
  /\ Skip(w, ItemCount)
  /\ UNCHANGED <<n, k, hostVars>>

Worker(w) == LoadPixel(w) \/ StorePixel(w) \/ SkipPixel(w)

EndKernel == Retire(ItemCount) /\ UNCHANGED <<n, k, hostVars>>

-----------------------------------------------------------------------------
Init ==
  /\ n \in SquareSizes
  /\ k = 1
  /\ HostInit({MakeBorder(img) : img \in Images})

Done == Returned /\ UNCHANGED vars

Next == Host \/ EndKernel \/ Done \/ \E w \in Workers : Worker(w)

Fairness ==
  /\ WF_vars(Host)
  /\ WF_vars(EndKernel)
  /\ \A w \in Workers : WF_vars(Worker(w))

Spec == Init /\ [][Next]_vars /\ Fairness
=============================================================================
