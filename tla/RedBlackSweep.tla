---------------------------- MODULE RedBlackSweep ----------------------------
(***************************************************************************)
(* parallel_gauss_seidel.cpp from the bordered image to the written        *)
(* result: each iteration launches the red and the black kernel, with a    *)
(* fence behind each, and feeds img_out back to img_in.                    *)
(***************************************************************************)
EXTENDS FilterHost

CONSTANT Images  \* the noised images AddGaussianNoise may leave in img

vars == <<pc, iter, pixelPtr, written, mem, queue, done, reg>>

RED == 1
BLACK == 0

\* gauss_original_image: {1, 1, 0} to {image_pad.rows - 1, image_pad.cols - 1,
\* cn} in tiles of one element.
ItemCount == Rows * Cols * Channels

ASSUME RedBlackAssumption ==
  /\ Images \subseteq [Pixels -> Byte]
  /\ TileWork(ItemCount) = 1

PolicyLower == <<1, 1, 0>>

Current(w) == Item(w, ItemCount)

Target(n) == TileOffset(n, Rows, Cols, Channels, PolicyLower)

Colour(c) == (c[1] + c[2]) % 2

\* Mutant of ColourOf: the second kernel is a copy of the first.
OnlyRed(kernel) == RED

ColourOf(kernel) == IF kernel = "apply_gauss_red" THEN RED ELSE BLACK

\* The guard of the running kernel's body.
Active(n) == Colour(Target(n)) = ColourOf(Head(queue))

-----------------------------------------------------------------------------
(* The main thread.                                                        *)

LaunchRed ==
  /\ Step("loop", "fence_red")
  /\ ParallelFor("apply_gauss_red")
  /\ UNCHANGED <<iter, pixelPtr, written>>

FenceRed ==
  /\ Step("fence_red", "black")
  /\ Fence
  /\ UNCHANGED <<iter, pixelPtr, written>>

LaunchBlack ==
  /\ Step("black", "fence_black")
  /\ ParallelFor("apply_gauss_black")
  /\ UNCHANGED <<iter, pixelPtr, written>>

FenceBlack ==
  /\ Step("fence_black", "feed_back")
  /\ Fence
  /\ UNCHANGED <<iter, pixelPtr, written>>

Iterate == LaunchRed \/ FenceRed \/ LaunchBlack \/ FenceBlack \/ FeedBack

Host == Upload \/ Iterate \/ Deliver

-----------------------------------------------------------------------------
(* The workers.                                                            *)

LoadPixel(w) ==
  /\ Working(w, ItemCount)
  /\ Active(Current(w))
  /\ Load(w, ItemCount, Mean5(mem["img_in"], Target(Current(w))))
  /\ UNCHANGED hostVars

StorePixel(w) ==
  /\ Store(w, ItemCount, Target(Current(w)))
  /\ UNCHANGED hostVars

SkipPixel(w) ==
  /\ Working(w, ItemCount)
  /\ ~ Active(Current(w))
  /\ Skip(w, ItemCount)
  /\ UNCHANGED hostVars

Worker(w) == LoadPixel(w) \/ StorePixel(w) \/ SkipPixel(w)

EndKernel == Retire(ItemCount) /\ UNCHANGED hostVars

-----------------------------------------------------------------------------
Init == HostInit({MakeBorder(img) : img \in Images})

Done == Returned /\ UNCHANGED vars

Next == Host \/ EndKernel \/ Done \/ \E w \in Workers : Worker(w)

\* The main thread and the threads of the pool are scheduled by the operating
\* system, or by the device, and each keeps running while it has work.
Fairness ==
  /\ WF_vars(Host)
  /\ WF_vars(EndKernel)
  /\ \A w \in Workers : WF_vars(Worker(w))

Spec == Init /\ [][Next]_vars /\ Fairness
=============================================================================
