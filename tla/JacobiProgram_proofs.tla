------------------------- MODULE JacobiProgram_proofs -------------------------
(***************************************************************************)
(* parallel_jacobi.cpp, for every picture, noise, pool and number of       *)
(* iterations: what the reads outside the views find stays in a frame of   *)
(* the image, and the two pictures are written from the right memory.      *)
(***************************************************************************)
EXTENDS JacobiProgram, Grid_proofs

-----------------------------------------------------------------------------
(* The work items and their cells.                                         *)

LEMMA ConfigTypes ==
  /\ ITERATIONS \in Nat \ {0}
  /\ PoolSize \in Nat \ {0}
  /\ Channels \in Nat \ {0} /\ TileWork(ItemCount) = Channels
  /\ OutsideContents \subseteq [OutsideOffsets -> Byte]
  BY IterationsAssumption, ExecAssumption, JacobiAssumption, GridTypes

LEMMA ItemTypes ==
  /\ ItemCount \in Nat
  /\ \A w \in Workers :
       /\ First(w, ItemCount) \in Nat
       /\ End(w, ItemCount) \in Nat
       /\ End(w, ItemCount) <= ItemCount
<1>1. ItemCount \in Nat
  BY GridTypes, SMT DEF ItemCount
<1> QED
  BY <1>1, ConfigTypes, PartTypes DEF Workers, First, End

\* The item a worker is at, and the next one.
LEMMA CurrentTypes ==
  ASSUME done \in [Workers -> Nat], NEW w \in Workers
  PROVE  /\ Current(w) \in Nat
         /\ First(w, ItemCount) <= Current(w)
         /\ done[w] = 0 => Current(w) = First(w, ItemCount)
<1>1. done[w] \in Nat /\ Current(w) = First(w, ItemCount) + done[w]
  BY DEF Current, Item
<1> QED
  BY <1>1, ItemTypes

LEMMA ItemsKept ==
  \A w \in Workers : done'[w] = done[w] => Current(w)' = Current(w)
  BY DEF Current, Item

LEMMA ItemAfter ==
  ASSUME done \in [Workers -> Nat], NEW w \in Workers,
         done' = [done EXCEPT ![w] = @ + 1]
  PROVE  /\ Current(w)' = Current(w) + 1
         /\ \A v \in Workers : v # w => Current(v)' = Current(v)
<1>1. First(w, ItemCount) \in Nat /\ done[w] \in Nat
  BY ItemTypes
<1>2. /\ Current(w) = First(w, ItemCount) + done[w]
      /\ Current(w)' = First(w, ItemCount) + (done[w] + 1)
  BY DEF Current, Item
<1>3. \A v \in Workers : v # w => Current(v)' = Current(v)
  BY ItemsKept
<1> QED
  BY <1>1, <1>2, <1>3

LEMMA PolicyIsCells ==
  /\ Elements(PadRows, PadCols, Channels, <<0, 0, 0>>) = Cells
  /\ <<0, 0, 0>> \in Int \X Int \X Int
<1>1. 0 + PadRows - 1 = PadRows - 1 /\ 0 + PadCols - 1 = PadCols - 1
      /\ 0 + Channels - 1 = Channels - 1
  BY GridTypes
<1> QED
  BY <1>1 DEF Elements, Cells

LEMMA TargetIsCell ==
  ASSUME NEW n \in 0 .. ItemCount - 1
  PROVE  Target(n) \in Cells
  BY PolicyIsCells, PadTypes, TileOffsetCoordinates DEF Target, ItemCount

LEMMA CellIsTarget ==
  ASSUME NEW c \in Cells
  PROVE  \E n \in 0 .. ItemCount - 1 : Target(n) = c
  BY PolicyIsCells, PadTypes, TileNumberDecode DEF Target, ItemCount

LEMMA ItemsCovered ==
  ASSUME NEW n \in 0 .. ItemCount - 1
  PROVE  \E w \in Workers : First(w, ItemCount) <= n /\ n < End(w, ItemCount)
<1>1. \E rank \in 0 .. PoolSize - 1 :
        /\ PartFirst(ItemCount, Channels, PoolSize, rank) <= n
        /\ n < PartEnd(ItemCount, Channels, PoolSize, rank)
  BY ItemTypes, ConfigTypes, PartitionCovers
<1> QED
  BY <1>1, ConfigTypes DEF Workers, First, End

LEMMA WorkingItem ==
  ASSUME TypeOK, NEW w \in Workers, Working(w, ItemCount)
  PROVE  Current(w) \in 0 .. ItemCount - 1 /\ Target(Current(w)) \in Cells
<1>1. Current(w) \in Nat /\ Current(w) < End(w, ItemCount)
  BY CurrentTypes DEF TypeOK, ExecTypeOK, Working, Current
<1>2. Current(w) \in 0 .. ItemCount - 1
  BY <1>1, ItemTypes
<1> QED
  BY <1>2, TargetIsCell

-----------------------------------------------------------------------------
(* The addressing of the views.                                            *)

LEMMA ViewTypes ==
  /\ PadCols * Channels \in Nat \ {0}
  /\ ViewSize \in Nat \ {0}
  /\ ViewSize = PadRows * (PadCols * Channels)
  /\ ViewSize = (PadCols * Channels) * PadRows
  /\ PadRows * PadCols \in Nat \ {0}
<1>1. \A a, b, d \in Nat \ {0} :
        /\ b * d \in Nat \ {0} /\ a * b \in Nat \ {0}
        /\ a * b * d \in Nat \ {0}
        /\ a * b * d = a * (b * d) /\ a * b * d = (b * d) * a
  BY SMT
<1> QED
  BY <1>1, PadTypes DEF ViewSize

\* Inside the view LayoutLeft is a bijection: an index of the view is where
\* its offset says.
LEMMA LayoutLeftDecode ==
  ASSUME NEW x \in 0 .. PadRows - 1, NEW y \in 0 .. PadCols - 1,
         NEW z \in 0 .. Channels - 1
  PROVE  InView(x, y, z) /\ ElementAt(Offset(x, y, z)) = <<x, y, z>>
<1> DEFINE q == z * PadCols + y
           o == q * PadRows + x
<1>1. /\ PadRows \in Nat \ {0} /\ PadCols \in Nat \ {0}
      /\ Channels \in Nat \ {0}
  BY PadTypes
<1>2. q \in 0 .. Channels * PadCols - 1 /\ q \in Nat
  BY <1>1, RowMajorLess
<1>3. q % PadCols = y /\ q \div PadCols = z
  BY <1>1, DivModUnique
<1>4. Channels * PadCols = PadCols * Channels
  BY <1>1, SMT
<1>5. Offset(x, y, z) = o
  BY <1>1, SMT DEF Offset
<1>6. y * PadRows + x \in 0 .. PadRows * PadCols - 1
  <2>1. y * PadRows + x \in 0 .. PadCols * PadRows - 1
    BY <1>1, RowMajorLess
  <2>2. PadCols * PadRows = PadRows * PadCols
    BY <1>1, SMT
  <2> QED
    BY <2>1, <2>2
<1>7. o = z * (PadRows * PadCols) + (y * PadRows + x)
  BY <1>1, SMT
<1>8. o \div (PadRows * PadCols) = z
  BY <1>1, <1>6, <1>7, ViewTypes, DivModUnique
<1> HIDE DEF q
<1>9. o % PadRows = x /\ o \div PadRows = q
  BY <1>1, <1>2, DivModUnique
<1>10. o \in 0 .. ViewSize - 1
  <2>1. PadCols * Channels \in Nat \ {0} /\ q \in 0 .. PadCols * Channels - 1
    BY <1>2, <1>4, ViewTypes
  <2>2. o \in 0 .. (PadCols * Channels) * PadRows - 1
    BY <1>1, <2>1, RowMajorLess
  <2> QED
    BY <2>2, ViewTypes
<1> HIDE DEF o
<1> QED
  BY <1>3, <1>5, <1>8, <1>9, <1>10 DEF InView, ElementAt

\* Every offset inside the allocation is one of an element.
LEMMA ElementIsCell ==
  ASSUME NEW o \in 0 .. ViewSize - 1
  PROVE  ElementAt(o) \in Cells
<1>1. /\ PadRows \in Nat \ {0} /\ PadCols \in Nat \ {0}
      /\ Channels \in Nat \ {0} /\ o \in Nat
  BY PadTypes, ViewTypes
<1>2. o % PadRows \in 0 .. PadRows - 1 /\ o \div PadRows \in Nat
  BY <1>1, DivModDef
<1>3. (o \div PadRows) % PadCols \in 0 .. PadCols - 1
  BY <1>1, <1>2, DivModDef
<1>4. o \div (PadRows * PadCols) \in Nat
  BY <1>1, ViewTypes, DivModDef
<1>5. o \div (PadRows * PadCols) < Channels
  <2>1. ViewSize = Channels * (PadRows * PadCols)
    BY <1>1, SMT DEF ViewSize
  <2>2. o < Channels * (PadRows * PadCols)
    BY <2>1, ViewTypes
  <2> QED
    BY <1>1, <2>2, ViewTypes, DivLess
<1> QED
  BY <1>1, <1>2, <1>3, <1>4, <1>5 DEF ElementAt, Cells

\* The offsets the functor reads are those of the view or of one row of
\* elements in front of it or behind it.
LEMMA OffsetRange ==
  ASSUME NEW x \in -1 .. PadRows, NEW y \in -1 .. PadCols,
         NEW z \in 0 .. Channels - 1,
         x \in 0 .. PadRows - 1 \/ y \in 0 .. PadCols - 1
  PROVE  InView(x, y, z) \/ Offset(x, y, z) \in OutsideOffsets
<1> DEFINE P == PadCols * Channels
           q == y + PadCols * z
<1>1. /\ PadRows \in Nat \ {0} /\ PadCols \in Nat \ {0}
      /\ Channels \in Nat \ {0} /\ P \in Nat \ {0}
      /\ ViewSize = PadRows * P /\ ViewSize \in Nat
  BY PadTypes, ViewTypes
<1>2. PadCols * z >= 0 /\ PadCols * z + PadCols <= P /\ PadCols * z \in Nat
  BY <1>1, SMT
<1>3. q \in -1 .. P /\ (y \in 0 .. PadCols - 1 => q \in 0 .. P - 1)
  BY <1>1, <1>2
<1>4. Offset(x, y, z) = x + PadRows * q
  BY DEF Offset
<1> HIDE DEF P, q
<1>5. /\ q = -1 => PadRows * q = -PadRows
      /\ q = P => PadRows * q = ViewSize
      /\ q \in 0 .. P - 1 =>
           /\ PadRows * q \in 0 .. ViewSize - PadRows
  BY <1>1, <1>3, SMT
<1>6. x + PadRows * q \in -PadRows .. ViewSize + PadRows - 1
  BY <1>1, <1>3, <1>5
<1> QED
  BY <1>1, <1>4, <1>6 DEF InView, OutsideOffsets

LEMMA ElementIsByte ==
  ASSUME TypeOK,
         NEW x \in -1 .. PadRows, NEW y \in -1 .. PadCols,
         NEW z \in 0 .. Channels - 1,
         x \in 0 .. PadRows - 1 \/ y \in 0 .. PadCols - 1,
         NEW outside \in OutsideContents
  PROVE  Element(x, y, z, outside) \in Byte
<1>1. mem["img_in"] \in Views
  BY DEF TypeOK, ExecTypeOK, Device, Mirrors
<1>2. CASE InView(x, y, z)
  BY <1>1, <1>2, ElementIsCell DEF InView, Element, Views
<1>3. CASE ~ InView(x, y, z)
  BY <1>3, OffsetRange, ConfigTypes DEF Element
<1> QED
  BY <1>2, <1>3

\* What is stored is a byte, whatever the functor reads ...
LEMMA StencilIsByte ==
  ASSUME TypeOK, NEW c \in Cells, NEW outside \in OutsideContents
  PROVE  StencilValue(c, outside) \in Byte
<1>1. /\ c[1] \in 0 .. PadRows - 1 /\ c[2] \in 0 .. PadCols - 1
      /\ c[3] \in 0 .. Channels - 1
  BY CellIsTriple
<1>2. /\ PadRows \in Nat /\ PadCols \in Nat
      /\ c[1] \in -1 .. PadRows /\ c[2] \in -1 .. PadCols
      /\ c[1] - 1 \in -1 .. PadRows /\ c[1] + 1 \in -1 .. PadRows
      /\ c[2] - 1 \in -1 .. PadCols /\ c[2] + 1 \in -1 .. PadCols
  BY <1>1, PadTypes
<1>3. /\ Element(c[1], c[2], c[3], outside) \in Byte
      /\ Element(c[1], c[2] - 1, c[3], outside) \in Byte
      /\ Element(c[1], c[2] + 1, c[3], outside) \in Byte
      /\ Element(c[1] - 1, c[2], c[3], outside) \in Byte
      /\ Element(c[1] + 1, c[2], c[3], outside) \in Byte
  BY <1>1, <1>2, ElementIsByte
<1>4. \A a, b, d, e, f \in Byte : (a + b + d + e + f) \div 5 \in Byte
  BY SMT DEF Byte
<1> QED
  BY <1>3, <1>4 DEF StencilValue

\* ... and inside the border it is the mean of five pixels of the image.
LEMMA StencilInside ==
  ASSUME NEW c \in Inner, NEW outside
  PROVE  StencilValue(c, outside) = Mean5(mem["img_in"], c)
<1>1. /\ c[1] \in 0 .. PadRows - 1 /\ c[2] \in 0 .. PadCols - 1
      /\ c[1] - 1 \in 0 .. PadRows - 1 /\ c[1] + 1 \in 0 .. PadRows - 1
      /\ c[2] - 1 \in 0 .. PadCols - 1 /\ c[2] + 1 \in 0 .. PadCols - 1
      /\ c[3] \in 0 .. Channels - 1
  BY GridTypes DEF Inner, PADDING
<1>2. \A x \in 0 .. PadRows - 1, y \in 0 .. PadCols - 1 :
        Element(x, y, c[3], outside) = mem["img_in"][<<x, y, c[3]>>]
  BY <1>1, LayoutLeftDecode DEF Element
<1> QED
  BY <1>1, <1>2 DEF StencilValue, Mean5

-----------------------------------------------------------------------------
(* Distance from the edge.                                                 *)

LEMMA DepthFacts ==
  ASSUME NEW c \in Cells, NEW n \in Nat
  PROVE  Depth(c) >= n <=>
           /\ c[1] >= n /\ PadRows - 1 - c[1] >= n
           /\ c[2] >= n /\ PadCols - 1 - c[2] >= n
<1> DEFINE d == {c[1], c[2], PadRows - 1 - c[1], PadCols - 1 - c[2]}
<1>1. c[1] \in Int /\ c[2] \in Int /\ PadRows \in Int /\ PadCols \in Int
  BY CellIsTriple, PadTypes
<1>2. \E x \in d : \A y \in d : x <= y
  <2>1. \A s, t, u, v \in Int :
          \E x \in {s, t, u, v} : \A y \in {s, t, u, v} : x <= y
    BY SMT
  <2>2. PadRows - 1 - c[1] \in Int /\ PadCols - 1 - c[2] \in Int
    BY <1>1
  <2> QED
    BY <1>1, <2>1, <2>2
<1>3. Depth(c) \in d /\ \A y \in d : Depth(c) <= y
  BY <1>2 DEF Depth
<1> QED
  BY <1>1, <1>3

LEMMA DepthTypes ==
  ASSUME NEW c \in Cells
  PROVE  /\ Depth(c) \in Nat
         /\ \A n \in Nat : Depth(c) > n <=> Depth(c) >= n + 1
         /\ Depth(c) >= 1 <=> c \in Inner
<1>1. /\ c[1] \in 0 .. PadRows - 1 /\ c[2] \in 0 .. PadCols - 1
      /\ c[3] \in 0 .. Channels - 1 /\ c = <<c[1], c[2], c[3]>>
  BY CellIsTriple
<1>2. Depth(c) \in {c[1], c[2], PadRows - 1 - c[1], PadCols - 1 - c[2]}
  <2>1. Depth(c) >= 0
    BY <1>1, DepthFacts, PadTypes
  <2> DEFINE d == {c[1], c[2], PadRows - 1 - c[1], PadCols - 1 - c[2]}
  <2>2. \A s, t, u, v \in Int :
          \E x \in {s, t, u, v} : \A y \in {s, t, u, v} : x <= y
    BY SMT
  <2>3. \E x \in d : \A y \in d : x <= y
    BY <1>1, <2>2, PadTypes
  <2> QED
    BY <2>3 DEF Depth
<1>3. Depth(c) \in Nat
  BY <1>1, <1>2, PadTypes
<1>4. Depth(c) >= 1 <=> c \in Inner
  <2>1. Depth(c) >= 1 <=>
          /\ c[1] >= 1 /\ PadRows - 1 - c[1] >= 1
          /\ c[2] >= 1 /\ PadCols - 1 - c[2] >= 1
    BY DepthFacts
  <2>2. c \in Inner <=> c[1] \in 1 .. Rows /\ c[2] \in 1 .. Cols
    BY <1>1 DEF Inner, PADDING
  <2> QED
    BY <1>1, <2>1, <2>2, GridTypes
<1> QED
  BY <1>3, <1>4

\* The neighbours of a cell are at most one pixel nearer to the edge.
LEMMA NeighbourDepth ==
  ASSUME NEW c \in Inner, NEW n \in Nat, Depth(c) >= n + 1
  PROVE  /\ Depth(<<c[1], c[2], c[3]>>) >= n
         /\ Depth(<<c[1], c[2] - 1, c[3]>>) >= n
         /\ Depth(<<c[1], c[2] + 1, c[3]>>) >= n
         /\ Depth(<<c[1] - 1, c[2], c[3]>>) >= n
         /\ Depth(<<c[1] + 1, c[2], c[3]>>) >= n
<1>1. /\ c[1] >= n + 1 /\ PadRows - 1 - c[1] >= n + 1
      /\ c[2] >= n + 1 /\ PadCols - 1 - c[2] >= n + 1
      /\ c \in Cells /\ n + 1 \in Nat
  BY DepthFacts, InnerIsCell
<1>2. c[1] \in Int /\ c[2] \in Int
  BY <1>1, CellIsTriple
<1>3. ASSUME NEW x \in Int, NEW y \in Int, <<x, y, c[3]>> \in Cells,
             x >= n, PadRows - 1 - x >= n, y >= n, PadCols - 1 - y >= n
      PROVE  Depth(<<x, y, c[3]>>) >= n
  <2> DEFINE d == <<x, y, c[3]>>
  <2>1. d \in Cells /\ d[1] = x /\ d[2] = y
    BY <1>3
  <2> HIDE DEF d
  <2>2. Depth(d) >= n
    BY <1>3, <2>1, DepthFacts
  <2> QED
    BY <2>2 DEF d
<1>4. /\ c[1] - 1 \in Int /\ c[1] + 1 \in Int
      /\ c[2] - 1 \in Int /\ c[2] + 1 \in Int
      /\ c[1] >= n /\ c[1] - 1 >= n /\ c[1] + 1 >= n
      /\ c[2] >= n /\ c[2] - 1 >= n /\ c[2] + 1 >= n
      /\ PadRows - 1 - c[1] >= n /\ PadRows - 1 - (c[1] - 1) >= n
      /\ PadRows - 1 - (c[1] + 1) >= n
      /\ PadCols - 1 - c[2] >= n /\ PadCols - 1 - (c[2] - 1) >= n
      /\ PadCols - 1 - (c[2] + 1) >= n
  BY <1>1, <1>2, PadTypes
<1>5. /\ Depth(<<c[1], c[2], c[3]>>) >= n
      /\ Depth(<<c[1], c[2] - 1, c[3]>>) >= n
  BY <1>2, <1>3, <1>4, NeighboursAreCells
<1>6. /\ Depth(<<c[1], c[2] + 1, c[3]>>) >= n
      /\ Depth(<<c[1] - 1, c[2], c[3]>>) >= n
      /\ Depth(<<c[1] + 1, c[2], c[3]>>) >= n
  BY <1>2, <1>3, <1>4, NeighboursAreCells
<1> QED
  BY <1>5, <1>6

\* The mean of a cell depends on its neighbours only.
LEMMA MeanInCone ==
  ASSUME NEW c \in Inner, NEW n \in Nat, Depth(c) >= n + 1,
         NEW img, NEW ref,
         \A d \in Cells : Depth(d) >= n => img[d] = ref[d]
  PROVE  Mean5(img, c) = Mean5(ref, c)
  BY NeighboursAreCells, NeighbourDepth DEF Mean5

-----------------------------------------------------------------------------
(* The invariant holds initially.                                          *)

LEMMA AllocFacts ==
  /\ Alloc("img_in") = "img_in"
  /\ Alloc("img_out") = "img_out"
  /\ Alloc("host_img_in") \in {"img_in", "host_img_in"}
  /\ Alloc("host_img_out") \in {"img_out", "host_img_out"}
  BY DEF Alloc, Mirrors, MirrorOf

LEMMA MemTypes ==
  ASSUME TypeOK
  PROVE  /\ mem \in [Device \cup Mirrors -> Views]
         /\ DOMAIN mem = {"img_in", "img_out", "host_img_in", "host_img_out"}
         /\ mem["img_in"] \in Views
         /\ mem["img_out"] \in Views
         /\ mem[Alloc("host_img_in")] \in Views
         /\ mem[Alloc("host_img_out")] \in Views
  BY AllocFacts DEF TypeOK, ExecTypeOK, Device, Mirrors

\* The image and the references agree before the first sweep.
LEMMA ConeOfStart ==
  ASSUME NEW img
  PROVE  \A c \in Cells :
           /\ img[c] = Ideal(img).noised[c]
           /\ Depth(c) > 0 => img[c] = Ideal(img).black[c]
  BY DepthTypes DEF Ideal

LEMMA StartInv ==
  ASSUME NEW m \in Mats, HostInit({m}), ideal = Ideal(PaddedImage)
  PROVE  JacobiInv
<1> USE DEF HostInit, ExecInit
<1>1. mem \in [Device \cup Mirrors -> Views]
  BY ImageConversions
<1>2. reg \in [Workers -> Byte \cup {NoValue}] /\ done \in [Workers -> Nat]
  BY ItemTypes
<1>3. iter \in 0 .. ITERATIONS
  BY ConfigTypes
<1>4. TypeOK
  BY <1>1, <1>2, <1>3 DEF TypeOK, ExecTypeOK, HostPoints
<1>5. QueueShape /\ WorkersIdle /\ Computed /\ ItemsDone
  BY DEF QueueShape, WorkersIdle, Computed, ItemsDone, Drained
<1>6. InBlock
  BY DEF InBlock
<1>7. KernelDone /\ LoopCounter /\ BeforeLoop /\ LightCone /\ Delivery
  BY DEF KernelDone, LoopCounter, BeforeLoop, LightCone, Delivery, AfterLoop
<1>8. DeliveredCore
  BY DEF DeliveredCore
<1> QED
  BY <1>4, <1>5, <1>6, <1>7, <1>8 DEF JacobiInv

-----------------------------------------------------------------------------
(* The host's steps.                                                       *)

LEMMA HostAtRest ==
  ASSUME JacobiInv, pc # "fence"
  PROVE  Drained
  BY DEF JacobiInv, QueueShape, Drained

\* A step of the host that launches nothing leaves the workers idle.
LEMMA WorkersStayIdle ==
  ASSUME JacobiInv, Drained, pc # "crashed", UNCHANGED <<queue, done, reg>>
  PROVE  QueueShape' /\ WorkersIdle' /\ InBlock' /\ Computed' /\ ItemsDone'
<1>1. queue' = <<>> /\ Drained'
  BY DEF Drained
<1>2. \A w \in Workers : reg'[w] = NoValue /\ done'[w] = 0
  BY DEF JacobiInv, WorkersIdle
<1> QED
  BY <1>1, <1>2 DEF JacobiInv, QueueShape, WorkersIdle, InBlock, Computed,
     ItemsDone

\* ... and one that counts no sweep and leaves img_in alone leaves the cone.
LEMMA ConeStays ==
  ASSUME JacobiInv, NextIdeal, iter' = iter, mem'["img_in"] = mem["img_in"],
         pc \notin {"fill", "upload_in"}
  PROVE  LightCone' /\ ideal' = ideal
<1>1. ideal' = ideal
  BY DEF NextIdeal
<1> QED
  BY <1>1 DEF JacobiInv, LightCone

LEMMA DeliveryStays ==
  ASSUME JacobiInv, ideal' = ideal, written' = written
  PROVE  DeliveredCore'
  BY DEF JacobiInv, DeliveredCore

LEMMA FillMirrorsInv ==
  ASSUME JacobiInv, FillMirrors, NextIdeal
  PROVE  JacobiInv'
<1>1. /\ pc = "fill" /\ pc' = "upload_in"
      /\ UNCHANGED <<iter, pixelPtr, written, queue, done, reg>>
      /\ mem' = [mem EXCEPT ![Alloc("host_img_in")] = PaddedImage,
                            ![Alloc("host_img_out")] = [c \in Cells |-> 0]]
      /\ ideal' = ideal
  BY DEF FillMirrors, Step, PaddedImage, NextIdeal
<1>2. QueueShape' /\ WorkersIdle' /\ InBlock' /\ Computed' /\ ItemsDone'
  BY <1>1, HostAtRest, WorkersStayIdle
<1>3. TypeOK
  BY DEF JacobiInv
<1>4. PaddedImage \in Views /\ [c \in Cells |-> 0] \in Views
  BY <1>3, ImageConversions DEF TypeOK, PaddedImage
<1>5. TypeOK'
  BY <1>1, <1>3, <1>4, MemTypes DEF TypeOK, ExecTypeOK, HostPoints
<1>6. mem'[Alloc("host_img_in")] = PaddedImage
  BY <1>1, <1>3, MemTypes, AllocFacts
<1>7. BeforeLoop'
  BY <1>1, <1>6 DEF JacobiInv, BeforeLoop, PaddedImage, Alloc, Mirrors, MirrorOf
<1>8. KernelDone' /\ LoopCounter' /\ Delivery' /\ LightCone'
  BY <1>1 DEF JacobiInv, KernelDone, LoopCounter, Delivery, AfterLoop, LightCone
<1>9. DeliveredCore'
  BY <1>1, DeliveryStays
<1> QED
  BY <1>2, <1>5, <1>7, <1>8, <1>9 DEF JacobiInv

LEMMA UploadInInv ==
  ASSUME JacobiInv, UploadIn, NextIdeal
  PROVE  JacobiInv'
<1>1. /\ pc = "upload_in" /\ pc' = "upload_out"
      /\ UNCHANGED <<iter, pixelPtr, written, queue, done, reg>>
      /\ mem' = [mem EXCEPT !["img_in"] = mem[Alloc("host_img_in")]]
      /\ ideal' = ideal
  BY AllocFacts DEF UploadIn, Step, DeepCopy, NextIdeal
<1>2. QueueShape' /\ WorkersIdle' /\ InBlock' /\ Computed' /\ ItemsDone'
  BY <1>1, HostAtRest, WorkersStayIdle
<1>3. TypeOK
  BY DEF JacobiInv
<1>4. TypeOK'
  BY <1>1, <1>3, MemTypes DEF TypeOK, ExecTypeOK, HostPoints
<1>5. mem'["img_in"] = PaddedImage
  BY <1>1, <1>3, MemTypes DEF JacobiInv, BeforeLoop
<1>6. KernelDone' /\ LoopCounter' /\ Delivery' /\ BeforeLoop'
  BY <1>1 DEF JacobiInv, KernelDone, LoopCounter, Delivery, AfterLoop,
     BeforeLoop
<1>7. LightCone'
  <2>1. ideal = Ideal(PaddedImage) /\ iter' = 0
    BY <1>1 DEF JacobiInv, BeforeLoop, LoopCounter
  <2> QED
    BY <1>1, <1>5, <2>1, ConeOfStart DEF LightCone
<1>8. DeliveredCore'
  BY <1>1, DeliveryStays
<1> QED
  BY <1>2, <1>4, <1>6, <1>7, <1>8 DEF JacobiInv

LEMMA UploadOutInv ==
  ASSUME JacobiInv, UploadOut, NextIdeal
  PROVE  JacobiInv'
<1>1. /\ pc = "upload_out" /\ pc' = LoopHead(iter)
      /\ UNCHANGED <<iter, pixelPtr, written, queue, done, reg>>
      /\ mem' = [mem EXCEPT !["img_out"] = mem[Alloc("host_img_out")]]
  BY AllocFacts DEF UploadOut, DeepCopy
<1>2. iter = 0 /\ iter < ITERATIONS /\ pc' = "loop"
  BY <1>1, ConfigTypes DEF JacobiInv, LoopCounter, LoopHead
<1>3. QueueShape' /\ WorkersIdle' /\ InBlock' /\ Computed' /\ ItemsDone'
  BY <1>1, HostAtRest, WorkersStayIdle
<1>4. TypeOK
  BY DEF JacobiInv
<1>5. TypeOK'
  BY <1>1, <1>2, <1>4, MemTypes DEF TypeOK, ExecTypeOK, HostPoints
<1>6. mem'["img_in"] = mem["img_in"]
  BY <1>1, <1>4, MemTypes
<1>7. KernelDone' /\ LoopCounter' /\ Delivery' /\ BeforeLoop'
  BY <1>1, <1>2 DEF JacobiInv, KernelDone, LoopCounter, Delivery, AfterLoop,
                    BeforeLoop
<1>8. LightCone' /\ ideal' = ideal
  BY <1>1, <1>6, ConeStays
<1>9. DeliveredCore'
  BY <1>1, <1>8, DeliveryStays
<1> QED
  BY <1>3, <1>5, <1>7, <1>8, <1>9 DEF JacobiInv

LEMMA LaunchInv ==
  ASSUME JacobiInv, LaunchJacobi, NextIdeal
  PROVE  JacobiInv'
<1>1. /\ pc = "loop" /\ pc' = "fence"
      /\ queue' = Append(queue, "apply_jacobi")
      /\ UNCHANGED <<iter, pixelPtr, written, mem, done, reg>>
  BY DEF LaunchJacobi, Step, ParallelFor
<1>2. Drained /\ queue' = <<"apply_jacobi">> /\ ~ Drained'
  BY <1>1, HostAtRest DEF Drained
<1>3. TypeOK'
  <2>1. queue' \in Seq({"apply_jacobi"})
    BY <1>2
  <2> QED
    BY <1>1, <2>1 DEF JacobiInv, TypeOK, ExecTypeOK, HostPoints
<1>4. \A w \in Workers : done[w] = 0 /\ reg[w] = NoValue
  BY <1>1, <1>2 DEF JacobiInv, WorkersIdle
<1>5. QueueShape' /\ WorkersIdle' /\ InBlock' /\ Computed'
  BY <1>1, <1>2, <1>4 DEF JacobiInv, QueueShape, WorkersIdle, InBlock, Computed
<1>6. ItemsDone'
  <2>1. \A w \in Workers : Current(w)' = First(w, ItemCount)
    BY <1>1, <1>4, CurrentTypes, ItemsKept DEF JacobiInv, TypeOK, ExecTypeOK
  <2>2. \A w \in Workers, n \in 0 .. ItemCount - 1 :
          ~ (First(w, ItemCount) <= n /\ n < Current(w)')
    BY <2>1, ItemTypes
  <2> QED
    BY <2>2 DEF ItemsDone
<1>7. KernelDone' /\ LoopCounter' /\ Delivery' /\ BeforeLoop'
  BY <1>1, <1>2 DEF JacobiInv, KernelDone, LoopCounter, Delivery, AfterLoop,
                    BeforeLoop
<1>8. LightCone' /\ ideal' = ideal
  BY <1>1, ConeStays
<1>9. DeliveredCore'
  BY <1>1, <1>8, DeliveryStays
<1> QED
  BY <1>3, <1>5, <1>6, <1>7, <1>8, <1>9 DEF JacobiInv

LEMMA FenceInv ==
  ASSUME JacobiInv, FenceJacobi, NextIdeal
  PROVE  JacobiInv'
<1>1. /\ pc = "fence" /\ pc' = "feed_back"
      /\ Drained
      /\ UNCHANGED <<iter, pixelPtr, written, mem, queue, done, reg>>
  BY DEF FenceJacobi, Step, Fence, execVars
<1>2. QueueShape' /\ WorkersIdle' /\ InBlock' /\ Computed' /\ ItemsDone'
  BY <1>1, WorkersStayIdle
<1>3. TypeOK'
  BY <1>1 DEF JacobiInv, TypeOK, ExecTypeOK, HostPoints
<1>4. KernelDone'
  BY <1>1 DEF JacobiInv, KernelDone, Correct
<1>5. LoopCounter' /\ Delivery' /\ BeforeLoop'
  BY <1>1 DEF JacobiInv, LoopCounter, Delivery, AfterLoop, BeforeLoop
<1>6. LightCone' /\ ideal' = ideal
  BY <1>1, ConeStays
<1>7. DeliveredCore'
  BY <1>1, <1>6, DeliveryStays
<1> QED
  BY <1>2, <1>3, <1>4, <1>5, <1>6, <1>7 DEF JacobiInv

\* A sweep that was exact from depth iter on is exact from depth iter + 1 on.
LEMMA ConeGrows ==
  ASSUME JacobiInv, pc = "feed_back", NEW c \in Cells
  PROVE  /\ Depth(c) >= iter + 1 =>
              mem["img_out"][c] = Smooth(ideal.noised)[c]
         /\ Depth(c) > iter + 1 =>
              mem["img_out"][c] = Smooth(ideal.black)[c]
<1>1. iter \in Nat /\ iter + 1 \in Nat
  BY DEF JacobiInv, TypeOK
<1>2. /\ \A d \in Cells : Depth(d) >= iter =>
           mem["img_in"][d] = ideal.noised[d]
      /\ \A d \in Cells : Depth(d) >= iter + 1 =>
           mem["img_in"][d] = ideal.black[d]
  BY <1>1, DepthTypes DEF JacobiInv, LightCone
<1>3. \A d \in Inner : mem["img_out"][d] = Mean5(mem["img_in"], d)
  BY DEF JacobiInv, KernelDone, Correct
<1>4. ASSUME Depth(c) >= iter + 1
      PROVE  mem["img_out"][c] = Smooth(ideal.noised)[c]
  <2>1. c \in Inner
    BY <1>1, <1>4, DepthTypes
  <2>2. Mean5(mem["img_in"], c) = Mean5(ideal.noised, c)
    BY <1>1, <1>2, <1>4, <2>1, MeanInCone
  <2> QED
    BY <1>3, <2>1, <2>2 DEF Smooth
<1>5. ASSUME Depth(c) > iter + 1
      PROVE  mem["img_out"][c] = Smooth(ideal.black)[c]
  <2>1. c \in Inner /\ Depth(c) >= (iter + 1) + 1
    BY <1>1, <1>5, DepthTypes
  <2>2. Mean5(mem["img_in"], c) = Mean5(ideal.black, c)
    BY <1>1, <1>2, <2>1, MeanInCone
  <2> QED
    BY <1>3, <2>1, <2>2 DEF Smooth
<1> QED
  BY <1>4, <1>5

LEMMA FeedBackInv ==
  ASSUME JacobiInv, FeedBack, NextIdeal
  PROVE  JacobiInv'
<1>1. /\ pc = "feed_back" /\ pc' = LoopHead(iter + 1) /\ iter' = iter + 1
      /\ UNCHANGED <<pixelPtr, written, queue, done, reg>>
      /\ mem' = [mem EXCEPT !["img_in"] = mem["img_out"]]
  BY AllocFacts DEF FeedBack, DeepCopy
<1>2. QueueShape' /\ WorkersIdle' /\ InBlock' /\ Computed' /\ ItemsDone'
  BY <1>1, HostAtRest, WorkersStayIdle
<1>3. /\ TypeOK /\ iter \in Nat /\ iter < ITERATIONS
      /\ iter + 1 \in 0 .. ITERATIONS
  BY <1>1, ConfigTypes DEF JacobiInv, TypeOK, LoopCounter
<1>4. \/ pc' = "loop" /\ iter' < ITERATIONS
      \/ pc' = "download" /\ iter' = ITERATIONS
  BY <1>1, <1>3, ConfigTypes DEF LoopHead
<1>5. TypeOK'
  BY <1>1, <1>3, <1>4, MemTypes DEF TypeOK, ExecTypeOK, HostPoints
<1>6. /\ mem'["img_in"] = mem["img_out"]
      /\ mem'["img_out"] = mem["img_out"]
  BY <1>1, <1>3, MemTypes
<1>7. written' = {}
  BY <1>1 DEF JacobiInv, Delivery
<1>8. KernelDone' /\ LoopCounter' /\ BeforeLoop' /\ Delivery' /\ DeliveredCore'
  BY <1>4, <1>6, <1>7 DEF KernelDone, LoopCounter, BeforeLoop, Delivery,
     AfterLoop, DeliveredCore
<1>9. LightCone'
  <2>1. /\ ideal'.noised = Smooth(ideal.noised)
        /\ ideal'.black = Smooth(ideal.black)
    BY <1>1, <1>3 DEF NextIdeal
  <2> QED
    BY <1>1, <1>6, <2>1, ConeGrows DEF LightCone
<1> QED
  BY <1>2, <1>5, <1>8, <1>9 DEF JacobiInv

LEMMA DownloadInv ==
  ASSUME JacobiInv, Download, NextIdeal
  PROVE  JacobiInv'
<1>1. /\ pc = "download" /\ pc' = "write_back"
      /\ UNCHANGED <<iter, pixelPtr, written, queue, done, reg>>
      /\ mem' = [mem EXCEPT ![Alloc("host_img_out")] = mem["img_out"]]
  BY AllocFacts DEF Download, Step, DeepCopy
<1>2. QueueShape' /\ WorkersIdle' /\ InBlock' /\ Computed' /\ ItemsDone'
  BY <1>1, HostAtRest, WorkersStayIdle
<1>3. TypeOK
  BY DEF JacobiInv
<1>4. TypeOK'
  BY <1>1, <1>3, MemTypes DEF TypeOK, ExecTypeOK, HostPoints
<1>5. /\ mem'["img_in"] = mem["img_in"]
      /\ mem'["img_out"] = mem["img_out"]
      /\ mem'[Alloc("host_img_out")] = mem["img_out"]
  BY <1>1, <1>3, MemTypes, AllocFacts
<1>6. mem["img_out"] = mem["img_in"] /\ iter = ITERATIONS
  BY <1>1 DEF JacobiInv, Delivery, AfterLoop, LoopCounter
<1>7. KernelDone' /\ LoopCounter' /\ BeforeLoop'
  BY <1>1, <1>6 DEF KernelDone, LoopCounter, BeforeLoop, AfterLoop
<1>8. Delivery'
  BY <1>1, <1>5, <1>6 DEF JacobiInv, Delivery, AfterLoop, Alloc, Mirrors,
     MirrorOf
<1>9. LightCone' /\ ideal' = ideal
  BY <1>1, <1>5, ConeStays
<1>10. DeliveredCore'
  BY <1>1, <1>9, DeliveryStays
<1> QED
  BY <1>2, <1>4, <1>7, <1>8, <1>9, <1>10 DEF JacobiInv

LEMMA WriteBackInv ==
  ASSUME JacobiInv, WriteBack, NextIdeal
  PROVE  JacobiInv'
<1>1. /\ pc = "write_back" /\ pc' = "finalize"
      /\ pixelPtr' = [n \in 0 .. PadSize - 1 |->
                        mem[Alloc("host_img_out")][CellAt(n)]]
      /\ UNCHANGED <<iter, written, mem, queue, done, reg>>
  BY DEF WriteBack, Step, execVars
<1>2. QueueShape' /\ WorkersIdle' /\ InBlock' /\ Computed' /\ ItemsDone'
  BY <1>1, HostAtRest, WorkersStayIdle
<1>3. pixelPtr' \in Mats
  BY <1>1, MemTypes, ImageConversions DEF JacobiInv
<1>4. TypeOK'
  BY <1>1, <1>3 DEF JacobiInv, TypeOK, ExecTypeOK, HostPoints
<1>5. KernelDone' /\ LoopCounter' /\ BeforeLoop'
  BY <1>1 DEF JacobiInv, KernelDone, LoopCounter, BeforeLoop, AfterLoop
<1>6. Delivery'
  BY <1>1 DEF JacobiInv, Delivery, AfterLoop
<1>7. LightCone' /\ ideal' = ideal
  BY <1>1, ConeStays
<1>8. DeliveredCore'
  BY <1>1, <1>7, DeliveryStays
<1> QED
  BY <1>2, <1>4, <1>5, <1>6, <1>7, <1>8 DEF JacobiInv

LEMMA FinalizeInv ==
  ASSUME JacobiInv, Finalize, NextIdeal
  PROVE  JacobiInv'
<1>1. /\ pc = "finalize" /\ pc' = "write"
      /\ UNCHANGED <<iter, pixelPtr, written, mem, queue, done, reg>>
  BY DEF Finalize, Step, Fence, execVars
<1>2. QueueShape' /\ WorkersIdle' /\ InBlock' /\ Computed' /\ ItemsDone'
  BY <1>1, HostAtRest, WorkersStayIdle
<1>3. TypeOK'
  BY <1>1 DEF JacobiInv, TypeOK, ExecTypeOK, HostPoints
<1>4. KernelDone' /\ LoopCounter' /\ BeforeLoop' /\ Delivery'
  BY <1>1 DEF JacobiInv, KernelDone, LoopCounter, BeforeLoop, Delivery,
     AfterLoop
<1>5. LightCone' /\ ideal' = ideal
  BY <1>1, ConeStays
<1>6. DeliveredCore'
  BY <1>1, <1>5, DeliveryStays
<1> QED
  BY <1>2, <1>3, <1>4, <1>5, <1>6 DEF JacobiInv

LEMMA WriteImageInv ==
  ASSUME JacobiInv, WriteImage, NextIdeal
  PROVE  JacobiInv'
<1>1. /\ pc = "write" /\ pc' = "done"
      /\ written' = written \cup {Crop(pixelPtr)}
      /\ UNCHANGED <<iter, pixelPtr, mem, queue, done, reg>>
  BY DEF WriteImage, Step, execVars
<1>2. QueueShape' /\ WorkersIdle' /\ InBlock' /\ Computed' /\ ItemsDone'
  BY <1>1, HostAtRest, WorkersStayIdle
<1>3. written' \subseteq [Pixels -> Byte]
  BY <1>1, CropOfMat DEF JacobiInv, TypeOK
<1>4. TypeOK'
  BY <1>1, <1>3 DEF JacobiInv, TypeOK, ExecTypeOK, HostPoints
<1>5. KernelDone' /\ LoopCounter' /\ BeforeLoop' /\ Delivery'
  BY <1>1 DEF JacobiInv, KernelDone, LoopCounter, BeforeLoop, Delivery,
     AfterLoop
<1>6. LightCone' /\ ideal' = ideal
  BY <1>1, ConeStays
<1>7. DeliveredCore'
  <2>1. /\ written' = {Crop(pixelPtr)} /\ iter = ITERATIONS
        /\ pixelPtr = [n \in 0 .. PadSize - 1 |-> mem["img_in"][CellAt(n)]]
    BY <1>1 DEF JacobiInv, Delivery, LoopCounter, AfterLoop
  <2>2. \A c \in Cells : Depth(c) >= ITERATIONS =>
          mem["img_in"][c] = ideal.noised[c]
    BY <1>1, <2>1 DEF JacobiInv, LightCone
  <2>3. ASSUME NEW p \in Pixels
        PROVE  LET c == <<p[1] + PADDING, p[2] + PADDING, p[3]>>
               IN  Depth(c) >= ITERATIONS => Crop(pixelPtr)[p] = ideal.noised[c]
    <3> DEFINE c == <<p[1] + PADDING, p[2] + PADDING, p[3]>>
    <3>1. c \in Cells
      BY PixelIsCell
    <3>2. Crop(pixelPtr)[p] = pixelPtr[Index(c)]
      BY DEF Crop
    <3> HIDE DEF c
    <3>3. Crop(pixelPtr)[p] = mem["img_in"][c]
      BY <2>1, <3>1, <3>2, CellAtIndex
    <3>4. Depth(c) >= ITERATIONS => Crop(pixelPtr)[p] = ideal.noised[c]
      BY <2>2, <3>1, <3>3
    <3> QED
      BY <3>4 DEF c
  <2> QED
    BY <1>6, <2>1, <2>3 DEF DeliveredCore
<1> QED
  BY <1>2, <1>4, <1>5, <1>6, <1>7 DEF JacobiInv

-----------------------------------------------------------------------------
(* The workers' steps.                                                     *)

LEMMA KernelRunning ==
  ASSUME JacobiInv, queue # <<>>
  PROVE  pc = "fence" /\ queue = <<"apply_jacobi">> /\ ~ Drained
  BY DEF JacobiInv, QueueShape, Drained

LEMMA HostKept ==
  ASSUME JacobiInv, NextIdeal, UNCHANGED <<pc, iter, pixelPtr, written, mem>>
  PROVE  /\ LoopCounter' /\ BeforeLoop' /\ Delivery'
         /\ LightCone' /\ DeliveredCore'
<1>1. ideal' = ideal /\ PaddedImage' = PaddedImage
  BY DEF NextIdeal, PaddedImage
<1>2. LoopCounter' /\ Delivery' /\ LightCone' /\ DeliveredCore'
  BY <1>1 DEF JacobiInv, LoopCounter, Delivery, LightCone, DeliveredCore
<1>3. BeforeLoop'
  BY <1>1 DEF JacobiInv, BeforeLoop
<1> QED
  BY <1>2, <1>3

LEMMA LoadPixelInv ==
  ASSUME JacobiInv, NEW w \in Workers, LoadPixel(w), NextIdeal
  PROVE  JacobiInv'
<1>1. PICK outside \in OutsideContents :
        Load(w, ItemCount, StencilValue(Target(Current(w)), outside))
  BY DEF LoadPixel
<1> DEFINE m == StencilValue(Target(Current(w)), outside)
<1>2. /\ Working(w, ItemCount)
      /\ reg' = [reg EXCEPT ![w] = m]
      /\ UNCHANGED <<pc, iter, pixelPtr, written, mem, queue, done>>
      /\ \A v \in Workers : Current(v)' = Current(v)
  BY <1>1, ItemsKept DEF LoadPixel, Load, hostVars
<1>3. TypeOK /\ Target(Current(w)) \in Cells
  BY <1>2, WorkingItem DEF JacobiInv
<1>4. /\ m \in Byte
      /\ Target(Current(w)) \in Inner => m = Mean5(mem["img_in"], Target(Current(w)))
  BY <1>3, StencilIsByte, StencilInside
<1>5. reg \in [Workers -> Byte \cup {NoValue}]
  BY <1>3 DEF TypeOK, ExecTypeOK
<1> HIDE DEF m
<1>6. TypeOK'
  BY <1>2, <1>3, <1>4, <1>5 DEF TypeOK, ExecTypeOK
<1>7. InBlock'
  <2>1. Current(w) < End(w, ItemCount)
    BY <1>2 DEF Working, Current
  <2> QED
    BY <1>2, <1>5, <2>1 DEF JacobiInv, InBlock
<1>8. Computed'
  BY <1>2, <1>4, <1>5 DEF JacobiInv, Computed
<1>9. QueueShape' /\ WorkersIdle' /\ ItemsDone' /\ KernelDone'
  <2>1. queue # <<>>
    BY <1>2 DEF Working
  <2> QED
    BY <1>2, <2>1 DEF JacobiInv, QueueShape, WorkersIdle, ItemsDone, KernelDone,
       Correct, Drained
<1>10. LoopCounter' /\ BeforeLoop' /\ Delivery' /\ LightCone' /\ DeliveredCore'
  BY <1>2, HostKept
<1> QED
  BY <1>6, <1>7, <1>8, <1>9, <1>10 DEF JacobiInv

LEMMA StorePixelInv ==
  ASSUME JacobiInv, NEW w \in Workers, StorePixel(w), NextIdeal
  PROVE  JacobiInv'
<1> DEFINE t == Target(Current(w))
<1>1. /\ Working(w, ItemCount) /\ reg[w] # NoValue
      /\ mem' = [mem EXCEPT !["img_out"][t] = reg[w]]
      /\ reg' = [reg EXCEPT ![w] = NoValue]
      /\ done' = [done EXCEPT ![w] = @ + 1]
      /\ UNCHANGED <<pc, iter, pixelPtr, written, queue>>
  BY DEF StorePixel, Store, hostVars
<1>2. TypeOK
  BY DEF JacobiInv
<1>3. /\ done \in [Workers -> Nat]
      /\ reg \in [Workers -> Byte \cup {NoValue}]
      /\ reg[w] \in Byte
  BY <1>1, <1>2 DEF TypeOK, ExecTypeOK
<1>4. t \in Cells /\ Current(w) \in 0 .. ItemCount - 1
  BY <1>1, <1>2, WorkingItem
<1>5. t \in Inner => reg[w] = Mean5(mem["img_in"], t)
  BY <1>1 DEF JacobiInv, Computed
<1>6. pc = "fence" /\ ~ Drained /\ ~ Drained' /\ queue = <<"apply_jacobi">>
  BY <1>1, KernelRunning DEF Working, Drained
<1> HIDE DEF t
<1>7. /\ mem'["img_in"] = mem["img_in"]
      /\ mem' \in [Device \cup Mirrors -> Views]
      /\ \A c \in Cells : mem'["img_out"][c] =
           (IF c = t THEN reg[w] ELSE mem["img_out"][c])
  BY <1>1, <1>2, <1>3, <1>4, MemTypes DEF Views
<1>8. \A c \in Inner : Correct(c) \/ c = t => Correct(c)'
  <2>1. \A c \in Inner : Mean5(mem["img_in"], c)' = Mean5(mem["img_in"], c)
    BY <1>7
  <2> QED
    BY <1>5, <1>7, <2>1, InnerIsCell DEF Correct
<1>9. TypeOK'
  BY <1>1, <1>2, <1>3, <1>7 DEF TypeOK, ExecTypeOK
<1>10. InBlock' /\ Computed'
  <2> SUFFICES ASSUME NEW v \in Workers, reg'[v] # NoValue
               PROVE  /\ Current(v)' < End(v, ItemCount)
                      /\ Target(Current(v))' \in Inner =>
                           reg'[v] = Mean5(mem["img_in"], Target(Current(v)))'
    BY DEF InBlock, Computed
  <2>1. v # w /\ Current(v)' = Current(v) /\ reg'[v] = reg[v]
    BY <1>1, <1>3, ItemAfter
  <2>2. Mean5(mem["img_in"], Target(Current(v)))'
          = Mean5(mem["img_in"], Target(Current(v)))
    BY <1>7, <2>1
  <2> QED
    BY <2>1, <2>2 DEF JacobiInv, InBlock, Computed
<1>11. ItemsDone'
  <2> SUFFICES ASSUME NEW v \in Workers, NEW n \in 0 .. ItemCount - 1,
                      First(v, ItemCount) <= n, n < Current(v)',
                      Target(n) \in Inner
               PROVE  Correct(Target(n))'
    BY DEF ItemsDone
  <2>1. CASE n < Current(v)
    BY <1>6, <1>8, <2>1 DEF JacobiInv, ItemsDone
  <2>2. CASE ~ (n < Current(v))
    <3>1. v = w /\ n < Current(w) + 1
      BY <1>1, <1>3, <2>2, ItemAfter
    <3>2. n = Current(w)
      BY <1>4, <2>2, <3>1
    <3> QED
      BY <1>8, <3>1, <3>2 DEF t
  <2> QED
    BY <2>1, <2>2
<1>12. QueueShape' /\ WorkersIdle' /\ KernelDone' /\ LoopCounter'
         /\ BeforeLoop' /\ Delivery'
  BY <1>1, <1>6 DEF JacobiInv, QueueShape, WorkersIdle, KernelDone, LoopCounter,
                    BeforeLoop, Delivery, AfterLoop
<1>13. LightCone' /\ ideal' = ideal
  BY <1>1, <1>6, <1>7, ConeStays
<1>14. DeliveredCore'
  BY <1>1, <1>13, DeliveryStays
<1> QED
  BY <1>9, <1>10, <1>11, <1>12, <1>13, <1>14 DEF JacobiInv

\* The read that ends the program changes nothing but where it is.
LEMMA FaultingReadInv ==
  ASSUME JacobiInv, NEW w \in Workers, FaultingRead(w), NextIdeal
  PROVE  JacobiInv'
<1>1. /\ queue # <<>>
      /\ pc' = "crashed" /\ queue' = <<>>
      /\ UNCHANGED <<iter, pixelPtr, written, mem, done, reg>>
  BY DEF FaultingRead, Working
<1>2. pc = "fence" /\ Drained'
  BY <1>1, KernelRunning DEF Drained
<1>3. TypeOK'
  BY <1>1 DEF JacobiInv, TypeOK, ExecTypeOK, HostPoints
<1>4. QueueShape' /\ WorkersIdle' /\ ItemsDone' /\ KernelDone'
  BY <1>1, <1>2 DEF QueueShape, WorkersIdle, ItemsDone, KernelDone
<1>5. InBlock' /\ Computed'
  BY <1>1, ItemsKept DEF JacobiInv, InBlock, Computed
<1>6. LoopCounter' /\ BeforeLoop' /\ Delivery'
  BY <1>1, <1>2 DEF JacobiInv, LoopCounter, BeforeLoop, Delivery, AfterLoop
<1>7. LightCone' /\ ideal' = ideal
  BY <1>1, <1>2, ConeStays
<1>8. DeliveredCore'
  BY <1>1, <1>7, DeliveryStays
<1> QED
  BY <1>3, <1>4, <1>5, <1>6, <1>7, <1>8 DEF JacobiInv

\* When all workers have reached the end of their blocks, every pixel of the
\* picture is done.
LEMMA CompleteKernel ==
  ASSUME JacobiInv, queue # <<>>,
         \A w \in Workers : Current(w) >= End(w, ItemCount)
  PROVE  \A c \in Inner : Correct(c)
<1> SUFFICES ASSUME NEW c \in Inner
             PROVE  Correct(c)
  OBVIOUS
<1>1. PICK n \in 0 .. ItemCount - 1 : Target(n) = c
  BY CellIsTarget, InnerIsCell
<1>2. PICK w \in Workers : First(w, ItemCount) <= n /\ n < End(w, ItemCount)
  BY ItemsCovered
<1>3. Current(w) \in Nat /\ End(w, ItemCount) \in Nat
  BY ItemTypes, CurrentTypes DEF JacobiInv, TypeOK, ExecTypeOK
<1>4. n < Current(w)
  BY <1>2, <1>3
<1> QED
  BY <1>1, <1>2, <1>4, KernelRunning DEF JacobiInv, ItemsDone

LEMMA EndKernelInv ==
  ASSUME JacobiInv, EndKernel, NextIdeal
  PROVE  JacobiInv'
<1>1. /\ queue # <<>>
      /\ \A w \in Workers : Current(w) >= End(w, ItemCount)
      /\ queue' = Tail(queue)
      /\ done' = [w \in Workers |-> 0]
      /\ UNCHANGED <<pc, iter, pixelPtr, written, mem, reg>>
  BY DEF EndKernel, Retire, Current, hostVars
<1>2. pc = "fence" /\ queue = <<"apply_jacobi">>
  BY <1>1, KernelRunning
<1>3. queue' = <<>> /\ Drained'
  <2>1. \A k : Tail(<<k>>) = <<>>
    OBVIOUS
  <2> QED
    BY <1>1, <1>2, <2>1 DEF Drained
<1>4. TypeOK'
  BY <1>1, <1>3, ItemTypes DEF JacobiInv, TypeOK, ExecTypeOK
<1>5. \A w \in Workers : reg[w] = NoValue
  <2> SUFFICES ASSUME NEW w \in Workers, reg[w] # NoValue
               PROVE  FALSE
    OBVIOUS
  <2>1. Current(w) < End(w, ItemCount) /\ Current(w) \in Nat
    BY CurrentTypes DEF JacobiInv, InBlock, TypeOK, ExecTypeOK
  <2> QED
    BY <1>1, <2>1, ItemTypes
<1>6. QueueShape' /\ WorkersIdle' /\ Computed' /\ ItemsDone'
  BY <1>1, <1>3, <1>5 DEF QueueShape, WorkersIdle, Computed, ItemsDone
<1>7. InBlock'
  BY <1>1, <1>5 DEF InBlock
<1>8. KernelDone'
  BY <1>1, CompleteKernel DEF KernelDone, Correct
<1>9. LoopCounter' /\ BeforeLoop' /\ Delivery' /\ LightCone' /\ DeliveredCore'
  BY <1>1, HostKept
<1> QED
  BY <1>4, <1>6, <1>7, <1>8, <1>9 DEF JacobiInv

\* Every step of the filter keeps the invariant.
LEMMA FilterInv ==
  ASSUME JacobiInv, NextIdeal, Host \/ EndKernel \/ \E w \in Workers : Worker(w)
  PROVE  JacobiInv'
<1>1. CASE Host
  BY <1>1, FillMirrorsInv, UploadInInv, UploadOutInv, LaunchInv, FenceInv,
     FeedBackInv, DownloadInv, WriteBackInv, FinalizeInv, WriteImageInv
     DEF Host, Upload, Iterate, Deliver
<1>2. CASE EndKernel
  BY <1>2, EndKernelInv
<1>3. ASSUME NEW w \in Workers, Worker(w)
      PROVE  JacobiInv'
  BY <1>3, LoadPixelInv, StorePixelInv, FaultingReadInv DEF Worker
<1> QED
  BY <1>1, <1>2, <1>3

-----------------------------------------------------------------------------
(***************************************************************************)
(* The whole program.  The two headers of the noise loop never share a     *)
(* buffer, so that the filter's write-back, through one of them, cannot    *)
(* reach the picture the other one holds.                                  *)
(***************************************************************************)
StageTypes ==
  /\ stage \in {"load", "noise", "swap", "pad", "filter", "write", "done",
                "failed"}
  /\ i \in 0 .. NOISE_ITER
  /\ buffers \in [Stage!Buffers -> [Cells -> Byte]]
  /\ data \in [Stage!Headers -> Stage!Buffers]
  /\ data["image"] # data["mColorNoise"]

StageOrder ==
  /\ stage = "load" =>
       i = 0 /\ data["image"] = "image_memory" /\ handed = Stage!NoImage
  /\ stage = "failed" => i = 0
  /\ stage \in {"noise", "swap"} => i < NOISE_ITER
  /\ stage \in {"pad", "filter", "write", "done"} => i = NOISE_ITER
  /\ stage # "done" => saved = Stage!NoImage

FilterWaits ==
  stage \in {"load", "noise", "swap", "pad", "failed"} => pc = "fill"

StageInv == StageTypes /\ StageOrder /\ FilterWaits

ProgramInv == JacobiInv /\ StageInv

LEMMA StageGrid ==
  /\ Stage!Cells = Cells
  /\ Stage!Inner = Inner
  /\ Stage!Pixels = Pixels
  /\ Stage!Byte = Byte
  /\ Stage!Extent = Cells
  /\ \A c : Stage!Shifted(c) = Shifted(c)
<1>1. Stage!PADDING = PADDING
  BY DEF Stage!PADDING, PADDING
<1>2. Stage!PadRows = PadRows /\ Stage!PadCols = PadCols
  BY <1>1 DEF Stage!PadRows, Stage!PadCols, PadRows, PadCols
<1>3. Stage!Cells = Cells /\ Stage!Inner = Inner
  BY <1>1, <1>2 DEF Stage!Cells, Stage!Inner, Cells, Inner
<1>4. Stage!Extent = Cells
  BY <1>3 DEF Stage!Extent
<1>5. Stage!Pixels = Pixels /\ Stage!Byte = Byte
  BY DEF Stage!Pixels, Pixels, Stage!Byte, Byte
<1>6. \A c : Stage!Shifted(c) = Shifted(c)
  BY <1>1 DEF Stage!Shifted, Shifted
<1> QED
  BY <1>3, <1>4, <1>5, <1>6

\* The noise loop's arithmetic stays in a byte, as its specification says.
LEMMA ClampIsByte ==
  ASSUME NEW n \in Int
  PROVE  Stage!Clamp(n) \in Byte /\ Stage!Clamp(n) = Noise!Limited(n)
  BY DEF Stage!Clamp, Noise!Limited, Byte

LEMMA LoadedIsImage ==
  ASSUME NEW picture \in Pictures
  PROVE  Stage!WithBorder(Stage!InPadded(picture)) \in [Cells -> Byte]
<1>1. picture \in [Pixels -> Byte]
  BY JacobiProgramAssumption
<1>2. \A c \in Inner : picture[Shifted(c)] \in Byte
  BY <1>1, ShiftedIsPixel
<1> QED
  BY <1>2, StageGrid DEF Stage!WithBorder, Stage!InPadded, Byte

LEMMA NoisedIsImage ==
  ASSUME NEW img \in [Cells -> Byte], NEW noise \in NoiseFields
  PROVE  /\ [c \in Cells |-> Stage!Clamp(img[c] + noise[c])] \in [Cells -> Byte]
         /\ [c \in Cells |-> Stage!Clamp(img[c] + noise[c])]
              = [c \in DOMAIN img |-> Noise!Limited(img[c] + noise[c])]
<1>1. noise \in [Cells -> Short]
  BY JacobiProgramAssumption
<1>2. ASSUME NEW c \in Cells
      PROVE  img[c] + noise[c] \in Int
  <2>1. img[c] \in Byte /\ noise[c] \in Short
    BY <1>1
  <2>2. Byte \subseteq Int /\ Short \subseteq Int
    BY DEF Byte, Short
  <2>3. \A x, y \in Int : x + y \in Int
    OBVIOUS
  <2> QED
    BY <2>1, <2>2, <2>3, Zenon
<1> QED
  BY <1>2, ClampIsByte

LEMMA BytesIsMat ==
  ASSUME NEW img \in [Cells -> Byte]
  PROVE  Bytes(img) \in Mats
  BY CellAtIsCell DEF Bytes, Mats

\* Before the hand-over the filter's variables are those of a start from the
\* image that is handed over.
LEMMA FillState ==
  ASSUME JacobiInv, pc = "fill"
  PROVE  /\ queue = <<>> /\ iter = 0 /\ written = {}
         /\ Drained
  BY HostAtRest DEF JacobiInv, LoopCounter, Delivery, Drained

LEMMA HandOverInv ==
  ASSUME ProgramInv, HandOver
  PROVE  ProgramInv'
<1>1. /\ stage = "pad" /\ stage' = "filter"
      /\ handed' = buffers[data["image"]]
      /\ pixelPtr' = Bytes(handed') /\ ideal' = Ideal(handed')
      /\ UNCHANGED <<pc, iter, written, mem, queue, done, reg, i, buffers,
                     data, saved>>
  BY DEF HandOver, Stage!TakePixelPtr, Stage!Source, execVars
<1>2. handed' \in [Cells -> Byte]
  BY <1>1 DEF ProgramInv, StageInv, StageTypes, Stage!Headers
<1>3. pixelPtr' \in Mats
  BY <1>1, <1>2, BytesIsMat
<1>4. JacobiInv /\ pc = "fill"
  BY <1>1 DEF ProgramInv, StageInv, FilterWaits
<1>5. queue = <<>> /\ iter = 0 /\ written = {} /\ Drained
  BY <1>4, FillState
<1>6. TypeOK'
  BY <1>1, <1>3, <1>4 DEF JacobiInv, TypeOK, ExecTypeOK
<1>7. PaddedImage' = handed'
  BY <1>1, <1>2, CellAtIndex DEF PaddedImage, Bytes
<1>8. QueueShape' /\ WorkersIdle' /\ InBlock' /\ Computed' /\ ItemsDone'
  BY <1>1, <1>4, <1>5, WorkersStayIdle
<1>9. KernelDone' /\ LoopCounter' /\ BeforeLoop' /\ LightCone' /\ Delivery'
        /\ DeliveredCore'
  BY <1>1, <1>4, <1>5, <1>7 DEF KernelDone, LoopCounter, BeforeLoop,
     LightCone, Delivery, AfterLoop, DeliveredCore
<1>10. JacobiInv'
  BY <1>6, <1>8, <1>9 DEF JacobiInv
<1>11. StageInv'
  BY <1>1 DEF ProgramInv, StageInv, StageTypes, StageOrder, FilterWaits
<1> QED
  BY <1>10, <1>11 DEF ProgramInv

\* The invariant of the filter does not speak of the stage.
LEMMA FilterUntouched ==
  ASSUME JacobiInv, UNCHANGED <<vars, ideal>>
  PROVE  JacobiInv'
<1>1. /\ UNCHANGED <<pc, iter, pixelPtr, written, mem, ideal>>
      /\ UNCHANGED <<queue, done, reg>>
  BY DEF vars
<1>2. iter' = iter /\ NextIdeal
  BY <1>1 DEF NextIdeal
<1>3. LoopCounter' /\ BeforeLoop' /\ Delivery' /\ LightCone' /\ DeliveredCore'
  BY <1>1, <1>2, HostKept
<1>4. TypeOK'
  BY <1>1 DEF JacobiInv, TypeOK, ExecTypeOK
<1>5. InBlock' /\ Computed' /\ ItemsDone'
  BY <1>1, ItemsKept DEF JacobiInv, InBlock, Computed, ItemsDone, Correct,
     Drained
<1>6. QueueShape' /\ WorkersIdle' /\ KernelDone'
  BY <1>1 DEF JacobiInv, QueueShape, WorkersIdle, KernelDone, Correct, Drained
<1> QED
  BY <1>3, <1>4, <1>5, <1>6 DEF JacobiInv

\* What the other steps of main leave as it is, the filter included.
LEMMA NoiseIterTypes == NOISE_ITER \in Nat /\ 0 < NOISE_ITER
  BY JacobiProgramAssumption

LEMMA StageFacts ==
  ASSUME StageInv
  PROVE  /\ i \in 0 .. NOISE_ITER
         /\ buffers \in [Stage!Buffers -> [Cells -> Byte]]
         /\ data["image"] \in Stage!Buffers
         /\ data["mColorNoise"] \in Stage!Buffers
         /\ data["image"] # data["mColorNoise"]
         /\ Stage!Source \in [Cells -> Byte]
         /\ Stage!Destination \in [Cells -> Byte]
  BY DEF StageInv, StageTypes, Stage!Headers, Stage!Source, Stage!Destination

LEMMA RefuseInv ==
  ASSUME StageInv, Stage!Refuse, pc' = pc
  PROVE  StageInv'
  BY DEF Stage!Refuse, StageInv, StageTypes, StageOrder, FilterWaits

LEMMA LoadInv ==
  ASSUME StageInv, Stage!Load, pc' = pc
  PROVE  StageInv'
<1>1. PICK picture \in Pictures, garbage \in Garbage :
        buffers' =
          [image_memory |-> Stage!WithBorder(Stage!InPadded(picture)),
           noise_memory |-> Stage!On(Stage!Extent, garbage)]
  BY DEF Stage!Load
<1>2. Stage!On(Stage!Extent, garbage) \in [Cells -> Byte]
  <2>1. garbage \in [Cells -> Byte]
    BY JacobiProgramAssumption
  <2> QED
    BY <2>1, StageGrid DEF Stage!On
<1>3. buffers' \in [Stage!Buffers -> [Cells -> Byte]]
  BY <1>1, <1>2, LoadedIsImage DEF Stage!Buffers
<1>4. stage = "load" /\ UNCHANGED <<i, data, handed, saved>>
  BY DEF Stage!Load
<1>5. stage' = "noise"
  BY NoiseIterTypes DEF Stage!Load, Stage!LoopHead
<1> QED
  BY <1>3, <1>4, <1>5, NoiseIterTypes
     DEF StageInv, StageTypes, StageOrder, FilterWaits

\* What a noise pass leaves in the buffers.
LEMMA NoisedBuffers ==
  ASSUME StageInv, Stage!AddGaussianNoise
  PROVE  /\ stage = "noise" /\ stage' = "swap"
         /\ UNCHANGED <<i, data, handed, saved>>
         /\ buffers' \in [Stage!Buffers -> [Cells -> Byte]]
         /\ Stage!Source' = Stage!Source
         /\ \E noise \in NoiseFields :
              Stage!Destination' =
                [c \in DOMAIN Stage!Source |->
                   Noise!Limited(Stage!Source[c] + noise[c])]
<1>1. PICK noise \in NoiseFields :
        buffers' = [buffers EXCEPT ![data["mColorNoise"]] =
                      [c \in Cells |-> Stage!Clamp(Stage!Source[c] + noise[c])]]
  BY StageGrid DEF Stage!AddGaussianNoise
<1>2. /\ stage = "noise" /\ stage' = "swap"
      /\ UNCHANGED <<i, data, handed, saved>>
  BY DEF Stage!AddGaussianNoise
<1> DEFINE after == [c \in Cells |-> Stage!Clamp(Stage!Source[c] + noise[c])]
<1>3. /\ after \in [Cells -> Byte]
      /\ after = [c \in DOMAIN Stage!Source |->
                    Noise!Limited(Stage!Source[c] + noise[c])]
  BY StageFacts, NoisedIsImage
<1>4. buffers' = [buffers EXCEPT ![data["mColorNoise"]] = after]
  BY <1>1
<1> HIDE DEF after
<1>5. buffers' \in [Stage!Buffers -> [Cells -> Byte]]
  BY <1>3, <1>4, StageFacts
<1>6. Stage!Source' = Stage!Source /\ Stage!Destination' = after
  BY <1>2, <1>4, StageFacts DEF Stage!Source, Stage!Destination
<1> QED
  BY <1>2, <1>3, <1>5, <1>6

LEMMA AddGaussianNoiseInv ==
  ASSUME StageInv, Stage!AddGaussianNoise, pc' = pc
  PROVE  StageInv'
  BY NoisedBuffers DEF StageInv, StageTypes, StageOrder, FilterWaits

\* The exchange of the pointers, by whether another pass follows.
LEMMA SwappedPointers ==
  ASSUME StageInv, Stage!SwapPointers
  PROVE  /\ stage = "swap"
         /\ i' = i + 1 /\ i' \in 0 .. NOISE_ITER
         /\ UNCHANGED <<buffers, handed, saved>>
         /\ \/ /\ stage' = "noise" /\ i' < NOISE_ITER
               /\ data' = Stage!Exchanged
            \/ stage' = "pad" /\ i' = NOISE_ITER /\ data' = data
<1>1. /\ stage = "swap" /\ stage' = Stage!LoopHead(i + 1) /\ i' = i + 1
      /\ data' = (IF i < NOISE_ITER - 1 THEN Stage!Exchanged ELSE data)
      /\ UNCHANGED <<buffers, handed, saved>>
  BY DEF Stage!SwapPointers
<1>2. i \in Nat /\ i < NOISE_ITER
  BY <1>1, StageFacts, NoiseIterTypes DEF StageInv, StageOrder
<1>3. i + 1 \in 0 .. NOISE_ITER
  BY <1>2, NoiseIterTypes
<1>4. CASE i + 1 < NOISE_ITER
  BY <1>1, <1>2, <1>3, <1>4, NoiseIterTypes DEF Stage!LoopHead
<1>5. CASE ~ (i + 1 < NOISE_ITER)
  <2>1. i + 1 = NOISE_ITER /\ ~ (i < NOISE_ITER - 1)
    BY <1>2, <1>5, NoiseIterTypes
  <2> QED
    BY <1>1, <1>3, <1>5, <2>1 DEF Stage!LoopHead
<1> QED
  BY <1>4, <1>5

LEMMA SwapPointersInv ==
  ASSUME StageInv, Stage!SwapPointers, pc' = pc
  PROVE  StageInv'
<1>1. /\ data' \in [Stage!Headers -> Stage!Buffers]
      /\ data'["image"] # data'["mColorNoise"]
  <2>1. /\ Stage!Exchanged \in [Stage!Headers -> Stage!Buffers]
        /\ Stage!Exchanged["image"] # Stage!Exchanged["mColorNoise"]
    BY StageFacts DEF Stage!Exchanged, Stage!Headers
  <2> QED
    BY <2>1, SwappedPointers DEF StageInv, StageTypes
<1> QED
  BY <1>1, SwappedPointers DEF StageInv, StageTypes, StageOrder, FilterWaits

LEMMA PrepareInv ==
  ASSUME ProgramInv, Stage!Prepare, UNCHANGED <<vars, ideal>>
  PROVE  ProgramInv'
<1>1. pc' = pc
  BY DEF vars
<1>2. JacobiInv'
  BY FilterUntouched DEF ProgramInv
<1>3. StageInv'
  BY <1>1, RefuseInv, LoadInv, AddGaussianNoiseInv, SwapPointersInv
     DEF ProgramInv, Stage!Prepare
<1> QED
  BY <1>2, <1>3 DEF ProgramInv

LEMMA ConcludeInv ==
  ASSUME ProgramInv, Stage!Conclude, UNCHANGED <<vars, ideal>>
  PROVE  ProgramInv'
<1>1. pc' = pc
  BY DEF vars
<1>2. JacobiInv'
  BY FilterUntouched DEF ProgramInv
<1>3. StageInv'
  <2>1. /\ \/ stage = "filter" /\ stage' = "write" /\ saved' = saved
           \/ stage = "write" /\ stage' = "done"
        /\ UNCHANGED <<i, buffers, data, handed>>
    BY DEF Stage!Conclude, Stage!FilterReturned, Stage!WriteNoised
  <2> QED
    BY <1>1, <2>1 DEF ProgramInv, StageInv, StageTypes, StageOrder, FilterWaits
<1> QED
  BY <1>2, <1>3 DEF ProgramInv

\* A step of the filter may write the buffer behind image, and only that one.
LEMMA FilteringInv ==
  ASSUME ProgramInv, NEW w \in Workers,
         \/ Filtering(Host) \/ Filtering(EndKernel) \/ Filtering(Worker(w))
  PROVE  ProgramInv' /\ Stage!Destination' = Stage!Destination
<1>1. /\ stage = "filter"
      /\ Host \/ EndKernel \/ Worker(w)
      /\ NextIdeal
      /\ buffers' = buffers \/ buffers' = Shared
      /\ UNCHANGED <<stage, i, data, handed, saved>>
  BY DEF Filtering
<1>2. JacobiInv'
  BY <1>1, FilterInv DEF ProgramInv
<1>3. Image(pixelPtr') \in [Cells -> Byte]
  <2>1. pixelPtr' \in Mats
    BY <1>2 DEF JacobiInv, TypeOK
  <2> QED
    BY <2>1, ImageConversions DEF Image, Views
<1>4. /\ buffers' \in [Stage!Buffers -> [Cells -> Byte]]
      /\ buffers'[data["mColorNoise"]] = buffers[data["mColorNoise"]]
  BY <1>1, <1>3, StageFacts DEF ProgramInv, Shared
<1>5. StageInv'
  BY <1>1, <1>4 DEF ProgramInv, StageInv, StageTypes, StageOrder, FilterWaits
<1> QED
  BY <1>1, <1>2, <1>4, <1>5 DEF ProgramInv, Stage!Destination

LEMMA ProgramStart == ProgramInit => ProgramInv
<1> SUFFICES ASSUME ProgramInit
             PROVE  ProgramInv
  OBVIOUS
<1> DEFINE zero == [n \in 0 .. PadSize - 1 |-> 0]
<1>1. zero \in Mats
  BY DEF Mats, Byte
<1>2. HostInit({zero}) /\ ideal = Ideal([c \in Cells |-> 0])
  BY DEF ProgramInit
<1>3. pixelPtr = zero
  BY <1>2 DEF HostInit
<1>4. PaddedImage = [c \in Cells |-> 0]
  BY <1>3, CellAtIndex DEF PaddedImage
<1>5. JacobiInv
  BY <1>1, <1>2, <1>4, StartInv
<1>6. [c \in Stage!Extent |-> 0] \in [Cells -> Byte]
  BY StageGrid DEF Byte
<1>7. StageInv
  BY <1>2, <1>6, NoiseIterTypes
     DEF ProgramInit, HostInit, StageInv, StageTypes, StageOrder, FilterWaits,
         Stage!Init, Stage!Headers, Stage!Buffers
<1> QED
  BY <1>5, <1>7 DEF ProgramInv

LEMMA ProgramStep == ProgramInv /\ [ProgramNext]_programVars => ProgramInv'
<1> SUFFICES ASSUME ProgramInv, [ProgramNext]_programVars
             PROVE  ProgramInv'
  OBVIOUS
<1>1. 0 \in Workers
  BY ConfigTypes DEF Workers
<1>2. CASE Stage!Prepare /\ UNCHANGED <<vars, ideal>>
  BY <1>2, PrepareInv
<1>3. CASE HandOver
  BY <1>3, HandOverInv
<1>4. CASE Filtering(Host) \/ Join
  BY <1>1, <1>4, FilteringInv DEF Join
<1>5. CASE Stage!Conclude /\ UNCHANGED <<vars, ideal>>
  BY <1>5, ConcludeInv
<1>6. ASSUME NEW w \in Workers, Pool(w)
      PROVE  ProgramInv'
  BY <1>6, FilteringInv DEF Pool
<1>7. CASE UNCHANGED programVars
  <2>1. UNCHANGED <<vars, ideal>> /\ UNCHANGED <<stage, i, buffers, data>>
          /\ UNCHANGED <<handed, saved>> /\ pc' = pc
    BY <1>7 DEF programVars, stageVars, vars
  <2>2. JacobiInv'
    BY <2>1, FilterUntouched DEF ProgramInv
  <2>3. StageInv'
    BY <2>1 DEF ProgramInv, StageInv, StageTypes, StageOrder, FilterWaits
  <2> QED
    BY <2>2, <2>3 DEF ProgramInv
<1> QED
  BY <1>2, <1>3, <1>4, <1>5, <1>6, <1>7 DEF ProgramNext, Main, ProgramDone

\* The invariant of the whole program: what the filter keeps, in every state
\* of main (JacobiProps, and the noise loop in front of it).
THEOREM ProgramInvariant == ProgramSpec => []ProgramInv
  BY ProgramStart, ProgramStep, PTL DEF ProgramSpec

\* The inductive invariant the runs check.
THEOREM JacobiInvariant == ProgramSpec => []JacobiInv
  BY ProgramInvariant, PTL DEF ProgramInv

\* Every variable of the filter keeps its type: the kernel stores bytes
\* whatever it finds outside the view.
THEOREM JacobiTypes == ProgramSpec => []TypeOK
  BY JacobiInvariant, PTL DEF JacobiInv

\* What the kernel reads outside the view moves inwards by one pixel in each
\* sweep of the iteration loop and no faster.
THEOREM OutsideStaysInTheFrame == ProgramSpec => []LightCone
  BY JacobiInvariant, PTL DEF JacobiInv

\* The picture imwrite is given is the smoothed one, but for a frame of
\* ITERATIONS - 1 pixels.
THEOREM CoreIsDelivered == ProgramSpec => []DeliveredCore
  BY JacobiInvariant, PTL DEF JacobiInv

-----------------------------------------------------------------------------
(* The blocks of the pool hold whole pixels.                               *)

\* The number of the pixel of an item, from the item and from its cell.
LEMMA PixelNumber ==
  ASSUME NEW n \in 0 .. ItemCount - 1
  PROVE  n \div Channels = Target(n)[1] * PadCols + Target(n)[2]
<1> DEFINE q == n \div Channels
<1>1. /\ q \div PadCols \in 0 .. PadRows - 1
      /\ q % PadCols \in 0 .. PadCols - 1
  BY PadTypes, RowMajorEncode DEF ItemCount
<1>2. q = (q \div PadCols) * PadCols + (q % PadCols)
  <2>1. n \in Nat
    BY ItemTypes
  <2>2. q \in Nat
    BY <2>1, PadTypes, DivModDef
  <2> QED
    BY <2>2, PadTypes, DivModDef
<1>3. /\ Target(n)[1] = ((q \div PadCols) % PadRows) + 0
      /\ Target(n)[2] = (q % PadCols) + 0
  BY DEF Target, TileOffset
<1> HIDE DEF q
<1>4. (q \div PadCols) % PadRows = q \div PadCols
  BY <1>1, PadTypes, SMT
<1>5. Target(n)[1] = q \div PadCols /\ Target(n)[2] = q % PadCols
  BY <1>1, <1>3, <1>4
<1> QED
  BY <1>2, <1>5 DEF q

\* Every item of a block has a smaller pixel than every item of a later one.
LEMMA BlocksApart ==
  ASSUME NEW v \in Workers, NEW w \in Workers, v < w,
         NEW a \in Nat, NEW b \in Nat,
         a < End(v, ItemCount), First(w, ItemCount) <= b
  PROVE  a \div Channels < b \div Channels
<1> DEFINE P == PartSize(ItemCount, Channels, PoolSize)
<1>1. P \in Nat /\ v \in Nat /\ w \in Nat
  <2>1. v \in 0 .. PoolSize - 1 /\ w \in 0 .. PoolSize - 1
    BY DEF Workers
  <2>2. P \in Nat
    BY <2>1, ConfigTypes, ItemTypes, PartTypes
  <2> QED
    BY <2>1, <2>2, ConfigTypes
<1>2. a < (P * v + P) * Channels /\ P * w * Channels <= b
  <2>1. (P * v + P) * Channels \in Nat
    BY <1>1, ConfigTypes, SMT
  <2> QED
    BY <2>1, ItemTypes, ConfigTypes DEF First, End, PartFirst, PartEnd
<1> HIDE DEF P
<1>3. P * v + P \in Nat /\ P * w \in Nat /\ P * v + P <= P * w
  <2>1. (v + 1) * P <= w * P
    BY <1>1, MultMono
  <2> QED
    BY <1>1, <2>1, SMT
<1>4. a \div Channels < P * v + P
  BY <1>2, <1>3, PadTypes, DivLess
<1>5. P * w <= b \div Channels
  <2>1. /\ b \div Channels \in Nat
        /\ b < ((b \div Channels) + 1) * Channels
    BY PadTypes, DivModDef
  <2>2. ASSUME b \div Channels < P * w
        PROVE  FALSE
    <3>1. ((b \div Channels) + 1) * Channels <= P * w * Channels
      BY <1>3, <2>1, <2>2, PadTypes, MultMono
    <3>2. /\ ((b \div Channels) + 1) * Channels \in Nat
          /\ P * w * Channels \in Nat
      BY <1>3, <2>1, PadTypes, SMT
    <3> QED
      BY <1>2, <2>1, <3>1, <3>2
  <2> QED
    BY <1>3, <2>1, <2>2
<1>6. a \div Channels \in Nat /\ b \div Channels \in Nat
  BY PadTypes, DivModDef
<1> QED
  BY <1>3, <1>4, <1>5, <1>6

\* No two workers are in the same pixel.
THEOREM PixelsAreWhole == ProgramSpec => []WholePixels
<1>1. JacobiInv => WholePixels
  <2> SUFFICES ASSUME JacobiInv, NEW v \in Workers, NEW w \in Workers, v # w,
                      reg[v] # NoValue, reg[w] # NoValue
               PROVE  <<Target(Current(v))[1], Target(Current(v))[2]>>
                        # <<Target(Current(w))[1], Target(Current(w))[2]>>
    BY DEF WholePixels
  <2>1. /\ Current(v) \in Nat /\ Current(w) \in Nat
        /\ First(v, ItemCount) <= Current(v) /\ Current(v) < End(v, ItemCount)
        /\ First(w, ItemCount) <= Current(w) /\ Current(w) < End(w, ItemCount)
    BY CurrentTypes DEF JacobiInv, InBlock, TypeOK, ExecTypeOK
  <2>2. Current(v) \in 0 .. ItemCount - 1 /\ Current(w) \in 0 .. ItemCount - 1
    BY <2>1, ItemTypes
  <2>3. v < w \/ w < v
    BY ConfigTypes DEF Workers
  <2>4. Current(v) \div Channels # Current(w) \div Channels
    <3>1. /\ Current(v) \div Channels \in Nat
          /\ Current(w) \div Channels \in Nat
      BY <2>1, PadTypes, DivModDef
    <3>2. CASE v < w
      BY <2>1, <3>1, <3>2, BlocksApart
    <3>3. CASE w < v
      BY <2>1, <3>1, <3>3, BlocksApart
    <3> QED
      BY <2>3, <3>2, <3>3
  <2> QED
    BY <2>2, <2>4, PixelNumber
<1> QED
  BY <1>1, JacobiInvariant, PTL

-----------------------------------------------------------------------------
(* The noise loop with its two buffers implements the one without.         *)

\* A picture is not the Mat without data.
LEMMA ImageIsSomething ==
  ASSUME NEW img \in [Cells -> Byte]
  PROVE  img # Stage!NoImage
<1>1. <<0, 0, 0>> \in Cells
  BY GridTypes DEF Cells
<1>2. DOMAIN img = Cells /\ DOMAIN Stage!NoImage = {}
  BY DEF Stage!NoImage
<1> QED
  BY <1>1, <1>2

LEMMA NoisingStart == ProgramInit => Noise!Init
  BY DEF ProgramInit, Stage!Init, Noise!Init, Noise!Nothing, Stage!NoImage,
     Latest, Previous, PassesMade

LEMMA LoadIsRead ==
  ASSUME StageInv, Stage!Load
  PROVE  Noise!Read
<1>1. /\ stage = "load" /\ stage' = "noise" /\ i = 0 /\ i' = 0
      /\ data["image"] = "image_memory" /\ data' = data /\ saved' = saved
  BY NoiseIterTypes DEF Stage!Load, Stage!LoopHead, StageInv, StageOrder
<1>2. buffers'["image_memory"] \in
        {Stage!WithBorder(Stage!InPadded(picture)) : picture \in Pictures}
  BY DEF Stage!Load
<1>3. /\ Latest = Stage!NoImage
      /\ Latest' = buffers'["image_memory"]
      /\ PassesMade = 0 /\ PassesMade' = 0
      /\ Previous = Stage!NoImage /\ Previous' = Stage!NoImage
  BY <1>1 DEF Latest, Previous, PassesMade, Stage!Source
<1> QED
  BY <1>1, <1>2, <1>3 DEF Noise!Read, Noise!Nothing, Stage!NoImage

LEMMA AddGaussianNoiseIsAddNoise ==
  ASSUME StageInv, Stage!AddGaussianNoise
  PROVE  Noise!AddNoise
<1>1. i < NOISE_ITER /\ i \in Nat
  BY NoisedBuffers, StageFacts, NoiseIterTypes DEF StageInv, StageOrder
<1>2. /\ Latest = Stage!Source /\ PassesMade = i
      /\ Latest' = Stage!Destination' /\ PassesMade' = i + 1
  BY NoisedBuffers DEF Latest, PassesMade
<1>3. Previous' = Stage!Source
  BY <1>1, <1>2, NoisedBuffers DEF Previous
<1>4. Latest # Stage!NoImage
  BY <1>2, StageFacts, ImageIsSomething
<1> QED
  BY <1>1, <1>2, <1>3, <1>4, NoisedBuffers
     DEF Noise!AddNoise, Noise!Nothing, Stage!NoImage

LEMMA SwapIsStutter ==
  ASSUME StageInv, Stage!SwapPointers
  PROVE  UNCHANGED Noise!noisingVars
<1>1. i \in Nat
  BY StageFacts, NoiseIterTypes
<1>2. CASE stage' = "noise" /\ data' = Stage!Exchanged
  <2>1. Stage!Source' = Stage!Destination /\ Stage!Destination' = Stage!Source
    BY <1>2, SwappedPointers
       DEF Stage!Exchanged, Stage!Source, Stage!Destination
  <2> QED
    BY <1>1, <1>2, <2>1, SwappedPointers
       DEF Noise!noisingVars, Latest, Previous, PassesMade
<1>3. CASE stage' = "pad" /\ data' = data
  <2>1. Stage!Source' = Stage!Source /\ Stage!Destination' = Stage!Destination
    BY <1>3, SwappedPointers DEF Stage!Source, Stage!Destination
  <2> QED
    BY <1>1, <1>3, <2>1, SwappedPointers
       DEF Noise!noisingVars, Latest, Previous, PassesMade
<1> QED
  BY <1>2, <1>3, SwappedPointers

LEMMA HandOverIsStutter ==
  ASSUME StageInv, Stage!TakePixelPtr
  PROVE  UNCHANGED Noise!noisingVars
<1>1. /\ stage = "pad" /\ stage' = "filter" /\ handed' = Stage!Source
      /\ UNCHANGED <<i, buffers, data, saved>>
  BY DEF Stage!TakePixelPtr
<1>2. Stage!Destination' = Stage!Destination
  BY <1>1 DEF Stage!Destination
<1> QED
  BY <1>1, <1>2 DEF Noise!noisingVars, Latest, Previous, PassesMade

LEMMA ConcludeIsSave ==
  ASSUME StageInv, Stage!Conclude
  PROVE  Noise!Save \/ UNCHANGED Noise!noisingVars
<1>1. /\ stage \in {"filter", "write"} /\ stage' \in {"write", "done"}
      /\ UNCHANGED <<i, buffers, data, handed>>
      /\ \/ saved' = saved
         \/ stage = "write" /\ saved' = Stage!Destination
  BY DEF Stage!Conclude, Stage!FilterReturned, Stage!WriteNoised
<1>2. Stage!Destination' = Stage!Destination
  BY <1>1 DEF Stage!Destination
<1>3. /\ UNCHANGED <<Latest, Previous, PassesMade>>
      /\ Latest = Stage!Destination /\ PassesMade = NOISE_ITER
      /\ saved = Stage!NoImage
  BY <1>1, <1>2 DEF StageInv, StageOrder, Latest, Previous, PassesMade
<1> QED
  BY <1>1, <1>3 DEF Noise!Save, Noise!noisingVars, Noise!Nothing, Stage!NoImage

LEMMA FilteringIsStutter ==
  ASSUME ProgramInv, NEW w \in Workers,
         \/ Filtering(Host) \/ Filtering(EndKernel) \/ Filtering(Worker(w))
  PROVE  UNCHANGED Noise!noisingVars
<1>1. stage = "filter" /\ UNCHANGED <<stage, i, handed, saved>>
  BY DEF Filtering
<1> QED
  BY <1>1, FilteringInv DEF Noise!noisingVars, Latest, Previous, PassesMade

LEMMA NoisingStep ==
  ProgramInv /\ [ProgramNext]_programVars => [Noise!Next]_(Noise!noisingVars)
<1> SUFFICES ASSUME ProgramInv, [ProgramNext]_programVars
             PROVE  Noise!Next \/ UNCHANGED Noise!noisingVars
  OBVIOUS
<1>1. StageInv /\ 0 \in Workers
  BY ConfigTypes DEF ProgramInv, Workers
<1>2. CASE Stage!Refuse
  <2>1. /\ stage = "load" /\ stage' = "failed" /\ i = 0 /\ i' = 0
        /\ saved' = saved
    BY <1>1, <1>2 DEF Stage!Refuse, StageInv, StageOrder
  <2> QED
    BY <2>1 DEF Noise!noisingVars, Latest, Previous, PassesMade
<1>3. CASE Stage!Load \/ Stage!AddGaussianNoise
  BY <1>1, <1>3, LoadIsRead, AddGaussianNoiseIsAddNoise DEF Noise!Next
<1>4. CASE Stage!SwapPointers \/ HandOver
  BY <1>1, <1>4, SwapIsStutter, HandOverIsStutter DEF HandOver
<1>5. CASE Stage!Conclude
  BY <1>1, <1>5, ConcludeIsSave DEF Noise!Next
<1>6. CASE Filtering(Host) \/ Join
  BY <1>1, <1>6, FilteringIsStutter DEF Join
<1>7. ASSUME NEW w \in Workers, Pool(w)
      PROVE  UNCHANGED Noise!noisingVars
  BY <1>7, FilteringIsStutter DEF Pool
<1>8. CASE UNCHANGED programVars
  BY <1>8 DEF programVars, stageVars, Noise!noisingVars, Latest, Previous,
     PassesMade, Stage!Source, Stage!Destination
<1> QED
  BY <1>2, <1>3, <1>4, <1>5, <1>6, <1>7, <1>8
     DEF ProgramNext, Main, ProgramDone, Stage!Prepare

\* Whatever NOISE_ITER, the pictures and the noise: the exchange of the two
\* pointers loses no pass, and the filter's write-back into one of the two
\* buffers does not reach the noised picture that is saved behind it.
THEOREM NoiseIsKept == ProgramSpec => NoisesAndSaves
<1>1. ProgramInit => Noise!Init
  BY NoisingStart
<1> QED
  BY <1>1, NoisingStep, ProgramInvariant, PTL
     DEF ProgramSpec, NoisesAndSaves, Noise!Spec
=============================================================================
