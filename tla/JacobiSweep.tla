----------------------------- MODULE JacobiSweep -----------------------------
(***************************************************************************)
(* parallel_jacobi.cpp from the noised image with its border to the        *)
(* written result.  The kernel visits every pixel of the padded image, the *)
(* border included, so that the neighbours of a border pixel lie outside   *)
(* the view: in another column or channel of it, or outside its memory.    *)
(***************************************************************************)
EXTENDS FilterHost

CONSTANTS
  NoisedMats,      \* what the noise loop may leave in image_pad
  OutsideContents  \* what the memory around the allocation may hold

\* stencil_image has a tile for each pixel, and the functor loops over the
\* channels of its pixel.
ItemCount == PadRows * PadCols * Channels

Current(w) == Item(w, ItemCount)

Target(n) == TileOffset(n, PadRows, PadCols, Channels, <<0, 0, 0>>)

(***************************************************************************)
(* LayoutLeft: where an element lies in the allocation of a view.  Without *)
(* bounds checks the same sum is used for indices outside the extents.     *)
(***************************************************************************)
ViewSize == PadRows * PadCols * Channels

Offset(i, j, k) == i + PadRows * (j + PadCols * k)

ElementAt(o) == <<o % PadRows, (o \div PadRows) % PadCols,
                  o \div (PadRows * PadCols)>>

InView(i, j, k) == Offset(i, j, k) \in 0 .. ViewSize - 1

\* One row of elements before the allocation and one behind it is as far as
\* the functor reads.
OutsideOffsets == (-PadRows .. -1) \cup (ViewSize .. ViewSize + PadRows - 1)

ASSUME JacobiAssumption ==
  /\ NoisedMats \subseteq Mats
  /\ OutsideContents \subseteq [OutsideOffsets -> Byte]
  /\ OutsideContents # {}
  /\ TileWork(ItemCount) = Channels

vars == <<pc, iter, pixelPtr, written, mem, queue, done, reg>>

Element(i, j, k, outside) ==
  IF InView(i, j, k) THEN mem["img_in"][ElementAt(Offset(i, j, k))]
                     ELSE outside[Offset(i, j, k)]

\* Mutants of StencilValue: a wrong divisor, and the left pixel twice.
QuarterStencil(c, outside) ==
  LET i == c[1]
      j == c[2]
      k == c[3]
      At(x, y) == Element(x, y, k, outside)
  IN  (At(i, j) + At(i, j - 1) + At(i, j + 1) + At(i - 1, j) + At(i + 1, j))
        \div 4

LeftTwice(c, outside) ==
  LET i == c[1]
      j == c[2]
      k == c[3]
      At(x, y) == Element(x, y, k, outside)
  IN  (At(i, j) + At(i, j - 1) + At(i, j - 1) + At(i - 1, j) + At(i + 1, j))
        \div 5

\* pixel(k) + left(k) + right(k) + up(k) + down(k), times 0.2.
StencilValue(c, outside) ==
  LET i == c[1]
      j == c[2]
      k == c[3]
      At(x, y) == Element(x, y, k, outside)
  IN  (At(i, j) + At(i, j - 1) + At(i, j + 1) + At(i - 1, j) + At(i + 1, j))
        \div 5

ReadsOutside(c) ==
  \/ ~ InView(c[1], c[2] - 1, c[3])
  \/ ~ InView(c[1], c[2] + 1, c[3])
  \/ ~ InView(c[1] - 1, c[2], c[3])
  \/ ~ InView(c[1] + 1, c[2], c[3])

-----------------------------------------------------------------------------
(* The main thread.                                                        *)

LaunchJacobi ==
  /\ Step("loop", "fence")
  /\ ParallelFor("apply_jacobi")
  /\ UNCHANGED <<iter, pixelPtr, written>>

FenceJacobi ==
  /\ Step("fence", "feed_back")
  /\ Fence
  /\ UNCHANGED <<iter, pixelPtr, written>>

Iterate == LaunchJacobi \/ FenceJacobi \/ FeedBack

Host == Upload \/ Iterate \/ Deliver

-----------------------------------------------------------------------------
(* The workers.  The memory around the view belongs to others, who may     *)
(* write it at any time: each read of it may find any of its contents.     *)

LoadPixel(w) ==
  /\ Working(w, ItemCount)
  /\ \E outside \in OutsideContents :
       Load(w, ItemCount, StencilValue(Target(Current(w)), outside))
  /\ UNCHANGED hostVars

StorePixel(w) ==
  /\ Store(w, ItemCount, Target(Current(w)))
  /\ UNCHANGED hostVars

\* The memory outside the allocation need not be mapped: a read of it may end
\* the program instead.
FaultingRead(w) ==
  /\ Working(w, ItemCount)
  /\ reg[w] = NoValue
  /\ ReadsOutside(Target(Current(w)))
  /\ pc' = "crashed"
  /\ queue' = <<>>
  /\ UNCHANGED <<iter, pixelPtr, written, mem, done, reg>>

Worker(w) == LoadPixel(w) \/ StorePixel(w) \/ FaultingRead(w)

EndKernel == Retire(ItemCount) /\ UNCHANGED hostVars

-----------------------------------------------------------------------------
Init == HostInit(NoisedMats)

\* main has returned, or the process is gone.
Done == (Returned \/ pc = "crashed") /\ UNCHANGED vars

Next == Host \/ EndKernel \/ Done \/ \E w \in Workers : Worker(w)

Fairness ==
  /\ WF_vars(Host)
  /\ WF_vars(EndKernel)
  /\ \A w \in Workers : WF_vars(Worker(w))

Spec == Init /\ [][Next]_vars /\ Fairness
=============================================================================
