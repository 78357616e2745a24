------------------------- MODULE DiagonalSweep_proofs -------------------------
(***************************************************************************)
(* parallel_wave_gauss_seidel.cpp, for every image, square, pool, chunk of *)
(* whole pixels and number of iterations, with or without aliasing         *)
(* mirrors: the diagonals of an iteration, with no fence between them, are *)
(* one simultaneous mean of the square.                                    *)
(***************************************************************************)
EXTENDS DiagonalProps, Grid_proofs

-----------------------------------------------------------------------------
(* The diagonals, their items and their pixels.                            *)

LEMMA ConfigTypes ==
  /\ ITERATIONS \in Nat \ {0}
  /\ PoolSize \in Nat \ {0}
  /\ Images \subseteq [Pixels -> Byte]
  BY IterationsAssumption, ExecAssumption, DiagonalAssumption

LEMMA SizeTypes ==
  ASSUME n \in SquareSizes
  PROVE  /\ n \in Nat \ {0}
         /\ n <= Rows /\ n <= Cols
         /\ Diagonals = 2 * n - 1
  BY GridTypes DEF SquareSizes, Diagonals

LEMMA SquareIsInner ==
  ASSUME n \in SquareSizes
  PROVE  Square \subseteq Inner /\ Square \subseteq Cells
<1>1. Square \subseteq Inner
  BY SizeTypes, GridTypes DEF Square, Inner, PADDING
<1> QED
  BY <1>1, InnerIsCell

\* Where a worker's block of a diagonal begins and ends.
LEMMA BlockTypes ==
  ASSUME NEW length \in SquareSizes, NEW w \in Workers
  PROVE  /\ length * Channels \in Nat
         /\ TileWork(length * Channels) \in Nat \ {0}
         /\ First(w, length * Channels) \in Nat
         /\ End(w, length * Channels) \in Nat
         /\ End(w, length * Channels) <= length * Channels
<1>1. length * Channels \in Nat
  BY GridTypes, SMT DEF SquareSizes
<1>2. TileWork(length * Channels) \in Nat \ {0}
  BY DiagonalAssumption
<1> QED
  BY <1>1, <1>2, ConfigTypes, PartTypes DEF Workers, First, End

\* The kernel in front of the queue, and what it has to do.
LEMMA HeadTypes ==
  ASSUME TypeOK, queue # <<>>
  PROVE  /\ Head(queue) \in 1 .. 2 * n - 1
         /\ Length(Head(queue)) \in 1 .. n
         /\ Length(Head(queue)) \in SquareSizes
         /\ ItemCount = Length(Head(queue)) * Channels
<1>1. n \in Nat \ {0} /\ n <= Rows /\ n <= Cols
  BY SizeTypes DEF TypeOK
<1>2. Head(queue) \in 1 .. 2 * n - 1
  BY <1>1 DEF TypeOK
<1>3. Length(Head(queue)) \in 1 .. n
  BY <1>1, <1>2 DEF Length
<1>4. Length(Head(queue)) \in SquareSizes
  BY <1>1, <1>3, GridTypes DEF SquareSizes
<1> QED
  BY <1>2, <1>3, <1>4 DEF ItemCount

\* The block a worker executes of the running diagonal, and where it is.
LEMMA CurrentTypes ==
  ASSUME TypeOK, queue # <<>>, NEW w \in Workers
  PROVE  /\ ItemCount \in Nat
         /\ TileWork(ItemCount) \in Nat \ {0}
         /\ First(w, ItemCount) \in Nat
         /\ End(w, ItemCount) \in Nat
         /\ End(w, ItemCount) <= ItemCount
         /\ Current(w) = First(w, ItemCount) + done[w]
         /\ Current(w) \in Nat
<1>1. /\ ItemCount \in Nat
      /\ TileWork(ItemCount) \in Nat \ {0}
      /\ First(w, ItemCount) \in Nat
      /\ End(w, ItemCount) \in Nat
      /\ End(w, ItemCount) <= ItemCount
  BY HeadTypes, BlockTypes
<1>2. done[w] \in Nat /\ Current(w) = First(w, ItemCount) + done[w]
  BY DEF TypeOK, ExecTypeOK, Current, Item
<1> QED
  BY <1>1, <1>2

\* The pixel and the channel of a work item.
LEMMA ItemDecode ==
  ASSUME NEW len \in Nat \ {0}, NEW item \in 0 .. len * Channels - 1
  PROVE  /\ item \div Channels \in 0 .. len - 1
         /\ item % Channels \in 0 .. Channels - 1
<1>1. Channels \in Nat \ {0}
  BY GridTypes
<1>2. len * Channels \in Nat
  BY <1>1, SMT
<1>3. item \in Nat /\ item < len * Channels
  BY <1>2
<1>4. item \div Channels \in Nat /\ item % Channels \in 0 .. Channels - 1
  BY <1>1, <1>3, DivModDef
<1>5. item \div Channels < len
  BY <1>1, <1>3, DivLess
<1> QED
  BY <1>4, <1>5

\* What the guard lets through is a pixel of the square on the kernel's diagonal.
LEMMA TargetInSquare ==
  ASSUME TypeOK, queue # <<>>, NEW item \in 0 .. ItemCount - 1, Active(item)
  PROVE  /\ Target(item) \in Square
         /\ Target(item) \in Inner /\ Target(item) \in Cells
         /\ Diagonal(Target(item)) = Head(queue)
<1> DEFINE h == Head(queue)
           idx == item \div Channels
           ch == item % Channels
           i == Row(h, idx)
<1>1. n \in Nat \ {0} /\ h \in 1 .. 2 * n - 1 /\ Length(h) \in 1 .. n
  BY HeadTypes, SizeTypes DEF TypeOK
<1>2. idx \in 0 .. Length(h) - 1 /\ ch \in 0 .. Channels - 1
  BY <1>1, HeadTypes, ItemDecode
<1>3. Target(item) = <<i, h + 1 - i, ch>>
  BY DEF Target
<1>4. i <= n
  BY <1>3 DEF Active
<1> HIDE DEF h, idx, ch
<1>5. i \in 1 .. n /\ h + 1 - i \in 1 .. n
  <2>1. CASE h <= n
    BY <1>1, <1>2, <1>4, <2>1 DEF Row, Length
  <2>2. CASE h > n
    BY <1>1, <1>2, <1>4, <2>2 DEF Row, Length
  <2> QED
    BY <1>1, <2>1, <2>2
<1> HIDE DEF i
<1>6. Target(item) \in Square
  BY <1>2, <1>3, <1>5 DEF Square
<1>7. Diagonal(Target(item)) = h
  BY <1>1, <1>3, <1>5 DEF Diagonal
<1> QED
  BY <1>6, <1>7, SquareIsInner DEF TypeOK, h

\* Every pixel of the square on the kernel's diagonal is in a worker's block.
LEMMA SquareIsTarget ==
  ASSUME TypeOK, queue # <<>>, NEW c \in Square, Diagonal(c) = Head(queue)
  PROVE  \E w \in Workers : \E item \in 0 .. ItemCount - 1 :
           /\ First(w, ItemCount) <= item /\ item < End(w, ItemCount)
           /\ Active(item)
           /\ Target(item) = c
<1> DEFINE h == Head(queue)
<1>1. PICK i \in 1 .. n, j \in 1 .. n, ch \in 0 .. Channels - 1 :
        c = <<i, j, ch>> /\ c[1] = i /\ c[2] = j /\ c[3] = ch
  BY DEF Square
<1>2. /\ n \in Nat \ {0} /\ h \in 1 .. 2 * n - 1
      /\ Length(h) \in 1 .. n
      /\ Channels \in Nat \ {0}
  BY HeadTypes, SizeTypes, GridTypes, ConfigTypes DEF TypeOK
<1>3. j = h + 1 - i
  BY <1>1, <1>2 DEF Diagonal
<1> DEFINE idx == IF h <= n THEN i - 1 ELSE i - h + n - 1
           item == idx * Channels + ch
<1> HIDE DEF h
<1>4. idx \in 0 .. Length(h) - 1 /\ Row(h, idx) = i
  BY <1>1, <1>2, <1>3 DEF Length, Row
<1> HIDE DEF idx
<1>5. item \div Channels = idx /\ item % Channels = ch
  <2>1. idx \in Nat /\ ch \in 0 .. Channels - 1 /\ Channels \in Nat \ {0}
    BY <1>1, <1>2, <1>4
  <2> QED
    BY <2>1, DivModUnique
<1>6. item \in 0 .. Length(h) * Channels - 1
  <2>1. Length(h) \in Nat /\ Channels \in Nat \ {0}
    BY <1>2
  <2> QED
    BY <2>1, <1>4, <1>1, RowMajorLess
<1> HIDE DEF item
<1>7. Target(item) = c
  BY <1>1, <1>3, <1>4, <1>5 DEF Target, h
<1>8. Active(item)
  BY <1>1, <1>2, <1>7 DEF Active
<1>9. item \in 0 .. ItemCount - 1
  BY <1>6, HeadTypes DEF h
<1>10. \E w \in Workers :
         First(w, ItemCount) <= item /\ item < End(w, ItemCount)
  <2>1. 0 \in Workers
    BY ConfigTypes DEF Workers
  <2>2. ItemCount \in Nat /\ TileWork(ItemCount) \in Nat \ {0}
    BY <2>1, CurrentTypes
  <2> QED
    BY <1>9, <2>2, ConfigTypes, PartitionCovers DEF Workers, First, End
<1> QED
  BY <1>7, <1>8, <1>9, <1>10

\* The item a working worker is at belongs to the kernel.
LEMMA WorkingItem ==
  ASSUME TypeOK, NEW w \in Workers, Working(w, ItemCount)
  PROVE  queue # <<>> /\ Current(w) \in 0 .. ItemCount - 1
<1>1. queue # <<>> /\ Current(w) < End(w, ItemCount)
  BY DEF Working, Current
<1> QED
  BY <1>1, CurrentTypes

LEMMA AllocFacts ==
  /\ Alloc("img_in") = "img_in"
  /\ Alloc("img_out") = "img_out"
  /\ Alloc("host_img_in") \in {"img_in", "host_img_in"}
  /\ Alloc("host_img_out") \in {"img_out", "host_img_out"}
  BY DEF Alloc, Mirrors, MirrorOf

LEMMA MemTypes ==
  ASSUME TypeOK
  PROVE  /\ mem \in [Device \cup Mirrors -> Views]
         /\ DOMAIN mem = {"img_in", "img_out", "host_img_in", "host_img_out"}
         /\ mem["img_in"] \in Views
         /\ mem["img_out"] \in Views
         /\ mem[Alloc("host_img_in")] \in Views
         /\ mem[Alloc("host_img_out")] \in Views
  BY AllocFacts DEF TypeOK, ExecTypeOK, Device, Mirrors

-----------------------------------------------------------------------------
(* The invariant holds initially.                                          *)

LEMMA BorderIsMat ==
  ASSUME NEW img \in Images
  PROVE  MakeBorder(img) \in Mats
<1>1. img \in [Pixels -> Byte]
  BY ConfigTypes
<1>2. \A o \in 0 .. PadSize - 1 :
        (IF CellAt(o) \in Inner THEN img[Shifted(CellAt(o))] ELSE 0) \in Byte
  BY <1>1, ShiftedIsPixel DEF Byte
<1> QED
  BY <1>2 DEF MakeBorder, Mats

LEMMA InitInv == InitIdeal => WavefrontInv
<1> SUFFICES ASSUME InitIdeal
             PROVE  WavefrontInv
  OBVIOUS
<1> USE DEF InitIdeal, Init, HostInit, ExecInit
<1>1. PICK img \in Images : pixelPtr = MakeBorder(img)
  OBVIOUS
<1>2. n \in Nat \ {0} /\ Diagonals = 2 * n - 1 /\ ITERATIONS \in Nat \ {0}
  BY SizeTypes, ConfigTypes
<1>3. TypeOK
  <2>1. mem \in [Device \cup Mirrors -> Views]
    BY ImageConversions
  <2>2. done \in [Workers -> Nat] /\ reg \in [Workers -> Byte \cup {NoValue}]
    OBVIOUS
  <2>3. queue \in Seq(1 .. 2 * n - 1)
    OBVIOUS
  <2> QED
    BY <1>1, <1>2, <2>1, <2>2, <2>3, BorderIsMat DEF TypeOK, ExecTypeOK
<1>4. QueueInOrder
  BY <1>2 DEF QueueInOrder, Drained
<1>5. WorkersIdle /\ Computed /\ ItemsDone
  BY DEF WorkersIdle, Computed, ItemsDone, Drained
<1>6. DiagonalsDone /\ LoopCounter /\ FeedsBackSquare /\ Delivery /\ DeliversSquare
  BY DEF DiagonalsDone, LoopCounter, FeedsBackSquare, Delivery, DeliversSquare
<1>7. mem["img_out"] = [c \in Cells |-> 0]
  BY DEF Device
<1>8. OutsideBlack /\ BeforeLoop
  BY <1>7 DEF OutsideBlack, BeforeLoop
<1> QED
  BY <1>3, <1>4, <1>5, <1>6, <1>8 DEF WavefrontInv

-----------------------------------------------------------------------------
(* The host's steps.                                                       *)

LEMMA HostAtRest ==
  ASSUME WavefrontInv
  PROVE  /\ pc \notin {"loop", "fence"} => Drained
         /\ Drained => \A w \in Workers : reg[w] = NoValue
         /\ Drained => \A w \in Workers : done[w] = 0
<1>1. queue \in Seq(1 .. 2 * n - 1)
  BY DEF WavefrontInv, TypeOK
<1>2. pc \notin {"loop", "fence", "feed_back"} => Len(queue) < 1
  BY DEF WavefrontInv, QueueInOrder
<1>3. Len(queue) < 1 => Drained
  BY <1>1 DEF Drained
<1>4. pc \notin {"loop", "fence"} => Drained
  BY <1>2, <1>3 DEF WavefrontInv, QueueInOrder
<1>5. Drained => \A w \in Workers : reg[w] = NoValue
  BY DEF WavefrontInv, Computed, Working, Drained
<1>6. Drained => \A w \in Workers : done[w] = 0
  BY DEF WavefrontInv, WorkersIdle
<1> QED
  BY <1>4, <1>5, <1>6

\* A step of the host that launches nothing leaves the workers idle.
LEMMA WorkersStayIdle ==
  ASSUME WavefrontInv, Drained, UNCHANGED <<queue, done, reg>>
  PROVE  Drained' /\ WorkersIdle' /\ Computed' /\ ItemsDone'
  BY HostAtRest DEF Drained, WorkersIdle, Computed, ItemsDone

\* Outside the loop the queue is empty and the first diagonal comes next.
LEMMA QueueStaysEmpty ==
  ASSUME WavefrontInv, Drained, UNCHANGED <<n, queue>>, k' = 1, pc' # "fence",
         pc' # "feed_back"
  PROVE  QueueInOrder'
<1>1. queue' = <<>> /\ Len(queue') = 0
  BY DEF Drained
<1>2. n' \in Nat \ {0} /\ Diagonals' = 2 * n - 1 /\ n' = n
  BY SizeTypes DEF WavefrontInv, TypeOK, Diagonals
<1> QED
  BY <1>1, <1>2 DEF QueueInOrder

LEMMA FillMirrorsInv ==
  ASSUME WavefrontInv, FillMirrors, UNCHANGED <<n, k, ideal>>
  PROVE  WavefrontInv'
<1> DEFINE black == [c \in Cells |-> 0]
<1>1. /\ pc = "fill" /\ pc' = "upload_in"
      /\ UNCHANGED <<iter, pixelPtr, written, queue, done, reg>>
      /\ ideal = [c \in Cells |-> pixelPtr[Index(c)]]
      /\ mem' = [mem EXCEPT ![Alloc("host_img_in")] = ideal,
                            ![Alloc("host_img_out")] = black]
  BY DEF FillMirrors, Step, WavefrontInv, BeforeLoop
<1>2. TypeOK /\ Drained /\ k = 1
  BY <1>1, HostAtRest DEF WavefrontInv, QueueInOrder
<1>3. WorkersIdle' /\ Computed' /\ ItemsDone' /\ QueueInOrder'
  BY <1>1, <1>2, WorkersStayIdle, QueueStaysEmpty
<1>4. ideal \in Views /\ black \in Views
  BY <1>1, <1>2, ImageConversions DEF TypeOK
<1>5. /\ mem' \in [Device \cup Mirrors -> Views]
      /\ mem'[Alloc("host_img_in")] = ideal
      /\ mem'[Alloc("host_img_out")] = black
      /\ mem'["img_out"] = black
  <2>1. mem["img_out"] = black
    BY <1>1 DEF WavefrontInv, BeforeLoop
  <2> HIDE DEF black
  <2> QED
    BY <1>1, <1>2, <1>4, <2>1, MemTypes, AllocFacts
<1>6. TypeOK'
  BY <1>1, <1>2, <1>5 DEF TypeOK, ExecTypeOK
<1>7. DiagonalsDone' /\ LoopCounter' /\ FeedsBackSquare' /\ Delivery'
      /\ DeliversSquare'
  BY <1>1 DEF WavefrontInv, DiagonalsDone, LoopCounter, FeedsBackSquare,
     Delivery,
              DeliversSquare
<1>8. OutsideBlack'
  BY <1>5 DEF OutsideBlack
<1>9. BeforeLoop'
  BY <1>1, <1>5 DEF BeforeLoop, Alloc
<1> QED
  BY <1>3, <1>6, <1>7, <1>8, <1>9 DEF WavefrontInv

LEMMA UploadInInv ==
  ASSUME WavefrontInv, UploadIn, UNCHANGED <<n, k, ideal>>
  PROVE  WavefrontInv'
<1> DEFINE black == [c \in Cells |-> 0]
<1>1. /\ pc = "upload_in" /\ pc' = "upload_out"
      /\ Drained
      /\ UNCHANGED <<iter, pixelPtr, written, queue, done, reg>>
      /\ mem' = [mem EXCEPT !["img_in"] = mem[Alloc("host_img_in")]]
  BY AllocFacts DEF UploadIn, Step, DeepCopy
<1>2. TypeOK /\ k = 1
  BY <1>1 DEF WavefrontInv, QueueInOrder
<1>3. WorkersIdle' /\ Computed' /\ ItemsDone' /\ QueueInOrder'
  BY <1>1, <1>2, WorkersStayIdle, QueueStaysEmpty
<1>4. /\ mem' \in [Device \cup Mirrors -> Views]
      /\ mem'["img_in"] = ideal
      /\ mem'["img_out"] = mem["img_out"]
      /\ mem'[Alloc("host_img_out")] = black
  BY <1>1, <1>2, MemTypes, AllocFacts DEF WavefrontInv, BeforeLoop
<1>5. TypeOK'
  BY <1>1, <1>2, <1>4 DEF TypeOK, ExecTypeOK
<1>6. DiagonalsDone' /\ LoopCounter' /\ FeedsBackSquare' /\ Delivery'
      /\ DeliversSquare'
  BY <1>1, <1>4 DEF WavefrontInv, DiagonalsDone, LoopCounter, FeedsBackSquare,
     Delivery,
              DeliversSquare
<1>7. OutsideBlack'
  BY <1>4 DEF WavefrontInv, OutsideBlack, Square
<1>8. BeforeLoop'
  BY <1>1, <1>4 DEF BeforeLoop, Alloc
<1> QED
  BY <1>3, <1>5, <1>6, <1>7, <1>8 DEF WavefrontInv

LEMMA LoopHeadFacts ==
  ASSUME NEW m \in 0 .. ITERATIONS
  PROVE  \/ LoopHead(m) = "loop" /\ m < ITERATIONS
         \/ LoopHead(m) = "download" /\ m = ITERATIONS
  BY ConfigTypes DEF LoopHead

\* The loop is entered with its first diagonal still to be launched.
LEMMA NothingDone ==
  ASSUME WavefrontInv, Drained', k' = 1, n' = n
  PROVE  DiagonalsDone'
<1>1. Len(queue') = 0
  BY DEF Drained
<1>2. \A c \in Square' : ~ (Diagonal(c) < 1)
  BY SizeTypes DEF WavefrontInv, TypeOK, Square, Diagonal
<1> QED
  BY <1>1, <1>2 DEF DiagonalsDone, Oldest, Diagonal

LEMMA UploadOutInv ==
  ASSUME WavefrontInv, UploadOut, UNCHANGED <<n, k, ideal>>
  PROVE  WavefrontInv'
<1> DEFINE black == [c \in Cells |-> 0]
<1>1. /\ pc = "upload_out" /\ pc' = LoopHead(iter)
      /\ Drained
      /\ UNCHANGED <<iter, pixelPtr, written, queue, done, reg>>
      /\ mem' = [mem EXCEPT !["img_out"] = mem[Alloc("host_img_out")]]
  BY AllocFacts DEF UploadOut, DeepCopy
<1>2. TypeOK /\ k = 1 /\ iter = 0 /\ pc' = "loop"
  BY <1>1, ConfigTypes DEF WavefrontInv, QueueInOrder, LoopCounter, LoopHead
<1>3. WorkersIdle' /\ Computed' /\ ItemsDone' /\ QueueInOrder' /\ Drained'
  BY <1>1, <1>2, WorkersStayIdle, QueueStaysEmpty
<1>4. /\ mem' \in [Device \cup Mirrors -> Views]
      /\ mem'["img_in"] = mem["img_in"]
      /\ mem'["img_out"] = black
  BY <1>1, <1>2, MemTypes, AllocFacts DEF WavefrontInv, BeforeLoop
<1>5. TypeOK'
  BY <1>1, <1>2, <1>4 DEF TypeOK, ExecTypeOK
<1>6. DiagonalsDone'
  BY <1>2, <1>3, NothingDone
<1>7. LoopCounter' /\ FeedsBackSquare' /\ Delivery' /\ DeliversSquare'
  BY <1>1, <1>2, <1>4, ConfigTypes DEF WavefrontInv, LoopCounter,
     FeedsBackSquare,
     Delivery, DeliversSquare
<1>8. OutsideBlack' /\ BeforeLoop'
  BY <1>2, <1>4 DEF OutsideBlack, BeforeLoop
<1> QED
  BY <1>3, <1>5, <1>6, <1>7, <1>8 DEF WavefrontInv

\* A worker that has nothing behind it owes nothing to the diagonal it begins.
LEMMA NothingBehind ==
  ASSUME n \in SquareSizes, n' = n, queue' \in Seq(1 .. 2 * n - 1),
         \A w \in Workers : done'[w] = 0
  PROVE  ItemsDone'
<1> SUFFICES ASSUME queue' # <<>>, NEW w \in Workers
             PROVE  Current(w)' = First(w, ItemCount)'
                    /\ First(w, ItemCount)' \in Nat
  BY DEF ItemsDone, Drained
<1> DEFINE length == Length(Head(queue))'
<1>1. n \in Nat \ {0} /\ n <= Rows /\ n <= Cols
  BY SizeTypes
<1>2. Head(queue') \in 1 .. 2 * n - 1
  BY <1>1
<1>3. length \in 1 .. n
  BY <1>1, <1>2 DEF Length
<1>4. ItemCount' = length * Channels
  BY DEF ItemCount
<1> HIDE DEF length
<1>5. length \in SquareSizes
  BY <1>1, <1>3, GridTypes DEF SquareSizes
<1>6. First(w, ItemCount)' = First(w, length * Channels)
  BY <1>4 DEF First
<1>7. First(w, length * Channels) \in Nat
  BY <1>5, BlockTypes
<1>8. Current(w)' = First(w, length * Channels) + 0
  BY <1>4 DEF Current, Item, First
<1> QED
  BY <1>6, <1>7, <1>8

\* The diagonal goes behind those in the queue; the running one is not touched.
LEMMA LaunchDiagonalInv ==
  ASSUME WavefrontInv, LaunchDiagonal, UNCHANGED ideal
  PROVE  WavefrontInv'
<1>1. /\ pc = "loop" /\ queue' = Append(queue, k) /\ k' = k + 1
      /\ pc' = IF k < Diagonals THEN "loop" ELSE "fence"
      /\ UNCHANGED <<n, iter, pixelPtr, written, mem, done, reg>>
  BY DEF LaunchDiagonal, ParallelFor
<1>2. /\ TypeOK
      /\ n \in Nat \ {0} /\ Diagonals = 2 * n - 1
      /\ k \in 1 .. 2 * n - 1
      /\ queue \in Seq(1 .. 2 * n - 1)
  BY <1>1, SizeTypes DEF WavefrontInv, TypeOK, QueueInOrder
<1>3. /\ queue' \in Seq(1 .. 2 * n - 1)
      /\ queue' # <<>>
      /\ Len(queue') = Len(queue) + 1
      /\ \A q \in DOMAIN queue' :
           queue'[q] = IF q = Len(queue) + 1 THEN k ELSE queue[q]
      /\ queue # <<>> => Head(queue') = Head(queue)
  BY <1>1, <1>2
<1>4. TypeOK'
  BY <1>1, <1>2, <1>3 DEF TypeOK, ExecTypeOK
<1>5. Oldest' = Oldest /\ Len(queue) \in Nat
  BY <1>1, <1>2, <1>3 DEF Oldest
<1>6. QueueInOrder'
  <2>1. Len(queue') < k'
    BY <1>1, <1>2, <1>3 DEF WavefrontInv, QueueInOrder
  <2>2. \A q \in DOMAIN queue' : queue'[q] = Oldest' + q - 1
    <3> SUFFICES ASSUME NEW q \in DOMAIN queue'
                 PROVE  queue'[q] = Oldest + q - 1
      BY <1>5
    <3>1. q \in 1 .. Len(queue) + 1
      BY <1>3
    <3>2. CASE q = Len(queue) + 1
      BY <1>2, <1>3, <1>5, <3>2 DEF Oldest
    <3>3. CASE q # Len(queue) + 1
      <4>1. q \in DOMAIN queue
        BY <1>2, <1>5, <3>1, <3>3
      <4> QED
        BY <1>3, <3>3, <4>1 DEF WavefrontInv, QueueInOrder
    <3> QED
      BY <3>2, <3>3
  <2>3. Diagonals' = 2 * n - 1
    BY <1>1, <1>2 DEF Diagonals
  <2> QED
    BY <1>1, <1>2, <2>1, <2>2, <2>3 DEF QueueInOrder
<1>7. WorkersIdle'
  BY <1>3 DEF WorkersIdle, Drained
<1>8. queue # <<>> =>
        /\ ItemCount' = ItemCount
        /\ \A w : Current(w)' = Current(w)
        /\ \A item : Target(item)' = Target(item) /\ Active(item)' = Active(item)
  BY <1>1, <1>3 DEF ItemCount, Length, Target, Active, Row, Current, Item, First
<1>9. Computed'
  <2>1. CASE queue = <<>>
    BY <1>1, <2>1, HostAtRest DEF Computed, Drained
  <2>2. CASE queue # <<>>
    <3> SUFFICES ASSUME NEW w \in Workers, reg'[w] # NoValue
                 PROVE  /\ Working(w, ItemCount)'
                        /\ Active(Current(w))'
                        /\ reg'[w] = Mean5(mem["img_in"], Target(Current(w)))'
      BY DEF Computed
    <3>1. /\ Working(w, ItemCount) /\ Active(Current(w))
          /\ reg[w] = Mean5(mem["img_in"], Target(Current(w)))
      BY <1>1 DEF WavefrontInv, Computed
    <3> QED
      BY <1>1, <1>3, <1>8, <2>2, <3>1 DEF Working, Item, First, End
  <2> QED
    BY <2>1, <2>2
<1>10. ItemsDone'
  <2>1. CASE queue = <<>>
    BY <1>1, <1>2, <1>3, <2>1, HostAtRest, NothingBehind DEF Drained, TypeOK
  <2>2. CASE queue # <<>>
    BY <1>1, <1>8, <2>2 DEF WavefrontInv, ItemsDone, Drained, Correct, First
  <2> QED
    BY <2>1, <2>2
<1>11. DiagonalsDone'
  BY <1>1, <1>5 DEF WavefrontInv, DiagonalsDone, Square, Correct, Diagonal
<1>12. OutsideBlack' /\ BeforeLoop' /\ LoopCounter' /\ FeedsBackSquare'
       /\ Delivery' /\ DeliversSquare'
  BY <1>1 DEF WavefrontInv, OutsideBlack, BeforeLoop, LoopCounter,
     FeedsBackSquare,
     Delivery, DeliversSquare, Square
<1> QED
  BY <1>4, <1>6, <1>7, <1>9, <1>10, <1>11, <1>12 DEF WavefrontInv

LEMMA FenceDiagonalsInv ==
  ASSUME WavefrontInv, FenceDiagonals, UNCHANGED ideal
  PROVE  WavefrontInv'
<1>1. /\ pc = "fence" /\ pc' = "feed_back" /\ Drained
      /\ UNCHANGED <<n, k, iter, pixelPtr, written, mem, queue, done, reg>>
  BY DEF FenceDiagonals, Step, Fence, execVars
<1>2. WorkersIdle' /\ Computed' /\ ItemsDone' /\ Drained'
  BY <1>1, WorkersStayIdle
<1>3. TypeOK'
  BY <1>1 DEF WavefrontInv, TypeOK, ExecTypeOK
<1>4. QueueInOrder'
  BY <1>1, <1>2 DEF WavefrontInv, QueueInOrder, Oldest
<1>5. DiagonalsDone'
  BY <1>1 DEF WavefrontInv, DiagonalsDone, Square, Correct, Diagonal, Oldest
<1>6. OutsideBlack' /\ BeforeLoop' /\ LoopCounter' /\ FeedsBackSquare'
       /\ Delivery' /\ DeliversSquare'
  BY <1>1 DEF WavefrontInv, OutsideBlack, BeforeLoop, LoopCounter,
     FeedsBackSquare,
     Delivery, DeliversSquare, Square
<1> QED
  BY <1>2, <1>3, <1>4, <1>5, <1>6 DEF WavefrontInv

\* With the queue empty behind the last diagonal the whole square is done.
LEMMA SquareDone ==
  ASSUME WavefrontInv, pc = "feed_back"
  PROVE  mem["img_out"] = SweepSquare(ideal)
<1>1. /\ n \in Nat \ {0} /\ k = 2 * n /\ Len(queue) = 0
      /\ mem["img_in"] = ideal
      /\ mem["img_out"] \in Views
  BY MemTypes, SizeTypes DEF WavefrontInv, TypeOK, QueueInOrder,
     FeedsBackSquare, Drained
<1>2. \A c \in Square : Diagonal(c) < 2 * n
  BY <1>1 DEF Square, Diagonal
<1>3. \A c \in Square : mem["img_out"][c] = Mean5(ideal, c)
  BY <1>1, <1>2 DEF WavefrontInv, DiagonalsDone, Oldest, Correct
<1>4. \A c \in Cells : c \notin Square => mem["img_out"][c] = 0
  BY DEF WavefrontInv, OutsideBlack
<1> QED
  BY <1>1, <1>3, <1>4 DEF SweepSquare, Views

LEMMA FeedBackInv ==
  ASSUME WavefrontInv, FeedBack, k' = 1, UNCHANGED n, NextIdeal
  PROVE  WavefrontInv'
<1>1. /\ pc = "feed_back" /\ pc' = LoopHead(iter + 1)
      /\ iter' = iter + 1
      /\ Drained
      /\ UNCHANGED <<pixelPtr, written, queue, done, reg>>
      /\ mem' = [mem EXCEPT !["img_in"] = mem["img_out"]]
  BY AllocFacts DEF FeedBack, DeepCopy
<1>2. /\ TypeOK
      /\ iter \in 0 .. ITERATIONS /\ iter < ITERATIONS
      /\ ITERATIONS \in Nat
      /\ written = {}
  BY <1>1, ConfigTypes DEF WavefrontInv, LoopCounter, Delivery, TypeOK
<1>3. ideal' = SweepSquare(ideal)
  BY <1>1, <1>2 DEF NextIdeal
<1>4. /\ mem' \in [Device \cup Mirrors -> Views]
      /\ mem'["img_in"] = ideal'
      /\ mem'["img_out"] = ideal'
      /\ mem'["img_out"] = mem["img_out"]
  <2>1. mem["img_out"] = ideal'
    BY <1>1, <1>3, SquareDone
  <2> QED
    BY <1>1, <1>2, <2>1, MemTypes
<1>5. iter' \in 0 .. ITERATIONS
      /\ \/ pc' = "loop" /\ iter' < ITERATIONS
         \/ pc' = "download"
  BY <1>1, <1>2, LoopHeadFacts
<1>6. WorkersIdle' /\ Computed' /\ ItemsDone' /\ Drained' /\ QueueInOrder'
  BY <1>1, <1>5, WorkersStayIdle, QueueStaysEmpty
<1>7. TypeOK'
  BY <1>1, <1>2, <1>4, <1>5, SizeTypes DEF TypeOK, ExecTypeOK
<1>8. DiagonalsDone'
  BY <1>6, NothingDone
<1>9. OutsideBlack'
  BY <1>4 DEF WavefrontInv, OutsideBlack, Square
<1>10. BeforeLoop' /\ LoopCounter' /\ FeedsBackSquare' /\ Delivery'
       /\ DeliversSquare'
  BY <1>1, <1>2, <1>4, <1>5 DEF BeforeLoop, LoopCounter, FeedsBackSquare,
     Delivery, DeliversSquare
<1> QED
  BY <1>6, <1>7, <1>8, <1>9, <1>10 DEF WavefrontInv

LEMMA DownloadInv ==
  ASSUME WavefrontInv, Download, UNCHANGED <<n, k, ideal>>
  PROVE  WavefrontInv'
<1>1. /\ pc = "download" /\ pc' = "write_back"
      /\ Drained
      /\ UNCHANGED <<iter, pixelPtr, written, queue, done, reg>>
      /\ mem' = [mem EXCEPT ![Alloc("host_img_out")] = mem["img_out"]]
  BY AllocFacts DEF Download, Step, DeepCopy
<1>2. TypeOK /\ k = 1
  BY <1>1 DEF WavefrontInv, QueueInOrder
<1>3. WorkersIdle' /\ Computed' /\ ItemsDone' /\ QueueInOrder'
  BY <1>1, <1>2, WorkersStayIdle, QueueStaysEmpty
<1>4. /\ mem' \in [Device \cup Mirrors -> Views]
      /\ mem'["img_in"] = mem["img_in"]
      /\ mem'["img_out"] = mem["img_out"]
      /\ mem'[Alloc("host_img_out")] = ideal
  BY <1>1, <1>2, MemTypes, AllocFacts DEF WavefrontInv, Delivery
<1>5. TypeOK'
  BY <1>1, <1>2, <1>4 DEF TypeOK, ExecTypeOK
<1>6. DiagonalsDone' /\ BeforeLoop' /\ LoopCounter' /\ FeedsBackSquare'
      /\ DeliversSquare'
  BY <1>1, <1>4 DEF WavefrontInv, DiagonalsDone, BeforeLoop, LoopCounter,
     FeedsBackSquare, DeliversSquare
<1>7. Delivery'
  BY <1>1, <1>4 DEF WavefrontInv, Delivery, Alloc
<1>8. OutsideBlack'
  BY <1>4 DEF WavefrontInv, OutsideBlack, Square
<1> QED
  BY <1>3, <1>5, <1>6, <1>7, <1>8 DEF WavefrontInv

LEMMA WriteBackInv ==
  ASSUME WavefrontInv, WriteBack, UNCHANGED <<n, k, ideal>>
  PROVE  WavefrontInv'
<1>1. /\ pc = "write_back" /\ pc' = "finalize"
      /\ pixelPtr' = [o \in 0 .. PadSize - 1 |->
                        mem[Alloc("host_img_out")][CellAt(o)]]
      /\ UNCHANGED <<iter, written, mem, queue, done, reg>>
  BY DEF WriteBack, Step, execVars
<1>2. TypeOK /\ k = 1 /\ Drained
  BY <1>1, HostAtRest DEF WavefrontInv, QueueInOrder
<1>3. WorkersIdle' /\ Computed' /\ ItemsDone' /\ QueueInOrder'
  BY <1>1, <1>2, WorkersStayIdle, QueueStaysEmpty
<1>4. pixelPtr' \in Mats
  BY <1>1, <1>2, MemTypes, ImageConversions
<1>5. TypeOK'
  BY <1>1, <1>2, <1>4 DEF TypeOK, ExecTypeOK
<1>6. pixelPtr' = [o \in 0 .. PadSize - 1 |-> ideal[CellAt(o)]]
  BY <1>1 DEF WavefrontInv, Delivery
<1>7. OutsideBlack' /\ DiagonalsDone' /\ BeforeLoop' /\ LoopCounter'
      /\ FeedsBackSquare' /\ DeliversSquare'
  BY <1>1 DEF WavefrontInv, OutsideBlack, DiagonalsDone, BeforeLoop,
     LoopCounter,
     FeedsBackSquare, DeliversSquare, Square
<1>8. Delivery'
  BY <1>1, <1>6 DEF WavefrontInv, Delivery
<1> QED
  BY <1>3, <1>5, <1>7, <1>8 DEF WavefrontInv

LEMMA FinishInv ==
  ASSUME WavefrontInv, Finalize \/ WriteImage, UNCHANGED <<n, k, ideal>>
  PROVE  WavefrontInv'
<1>1. /\ \/ pc = "finalize" /\ pc' = "write" /\ written' = written
         \/ /\ pc = "write" /\ pc' = "done"
            /\ written' = written \cup {Crop(pixelPtr)}
      /\ UNCHANGED <<iter, pixelPtr, mem, queue, done, reg>>
  BY DEF Finalize, WriteImage, Step, Fence, execVars
<1>2. TypeOK /\ k = 1 /\ Drained
  BY <1>1, HostAtRest DEF WavefrontInv, QueueInOrder
<1>3. WorkersIdle' /\ Computed' /\ ItemsDone' /\ QueueInOrder'
  BY <1>1, <1>2, WorkersStayIdle, QueueStaysEmpty
<1>4. TypeOK'
  BY <1>1, <1>2 DEF TypeOK, ExecTypeOK
<1>5. OutsideBlack' /\ DiagonalsDone' /\ BeforeLoop' /\ LoopCounter'
      /\ FeedsBackSquare' /\ Delivery'
  BY <1>1 DEF WavefrontInv, OutsideBlack, DiagonalsDone, BeforeLoop,
     LoopCounter,
     FeedsBackSquare, Delivery, Square
<1>6. DeliversSquare'
  <2>1. CASE written' = written
    BY <2>1 DEF WavefrontInv, DeliversSquare
  <2>2. CASE written' = written \cup {Crop(pixelPtr)} /\ pc = "write"
    <3>1. written = {} /\ pixelPtr = [o \in 0 .. PadSize - 1 |-> ideal[CellAt(o)]]
      BY <2>2 DEF WavefrontInv, Delivery
    <3>2. \A p \in Pixels : Crop(pixelPtr)[p]
            = ideal[<<p[1] + PADDING, p[2] + PADDING, p[3]>>]
      BY <3>1, PixelIsCell, CellAtIndex DEF Crop
    <3> QED
      BY <2>2, <3>1, <3>2 DEF DeliversSquare
  <2> QED
    BY <1>1, <2>1, <2>2
<1> QED
  BY <1>3, <1>4, <1>5, <1>6 DEF WavefrontInv

-----------------------------------------------------------------------------
(* The workers' steps.                                                     *)

LEMMA KernelRunning ==
  ASSUME WavefrontInv, queue # <<>>
  PROVE  /\ ~ Drained
         /\ pc \in {"loop", "fence"}
         /\ Head(queue) = Oldest
<1>1. ~ Drained /\ pc \in {"loop", "fence"}
  BY HostAtRest DEF Drained
<1>2. /\ n \in Nat \ {0} /\ k \in 1 .. 2 * n
      /\ queue \in Seq(1 .. 2 * n - 1) /\ 1 \in DOMAIN queue
      /\ Len(queue) \in Nat
  BY SizeTypes DEF WavefrontInv, TypeOK
<1>3. Head(queue) = Oldest + 1 - 1
  BY <1>2 DEF WavefrontInv, QueueInOrder
<1> QED
  BY <1>1, <1>2, <1>3 DEF Oldest

LEMMA HostKept ==
  ASSUME WavefrontInv,
         UNCHANGED <<n, k, pc, iter, pixelPtr, written, mem, queue, ideal>>
  PROVE  /\ QueueInOrder' /\ DiagonalsDone' /\ OutsideBlack' /\ BeforeLoop'
         /\ LoopCounter' /\ FeedsBackSquare' /\ Delivery' /\ DeliversSquare'
<1>1. QueueInOrder' /\ DiagonalsDone'
  BY DEF WavefrontInv, QueueInOrder, Oldest, Diagonals, Drained,
     DiagonalsDone, Square,
         Correct, Diagonal
<1>2. OutsideBlack' /\ BeforeLoop' /\ LoopCounter' /\ FeedsBackSquare'
      /\ Delivery' /\ DeliversSquare'
  BY DEF WavefrontInv, OutsideBlack, Square, BeforeLoop, LoopCounter,
     FeedsBackSquare,
         Delivery, DeliversSquare
<1> QED
  BY <1>1, <1>2

\* What a work item is depends on the head of the queue only.
LEMMA ItemsKept ==
  ASSUME UNCHANGED <<n, queue>>
  PROVE  /\ ItemCount' = ItemCount
         /\ \A item : Target(item)' = Target(item) /\ Active(item)' = Active(item)
         /\ \A w : First(w, ItemCount)' = First(w, ItemCount)
         /\ \A w : End(w, ItemCount)' = End(w, ItemCount)
         /\ \A w : done'[w] = done[w] => Current(w)' = Current(w)
  BY DEF ItemCount, Length, Target, Active, Row, First, End, Current, Item

\* A worker that has one more item behind it is at the next item of its block.
LEMMA ItemAfter ==
  ASSUME TypeOK, queue # <<>>, UNCHANGED <<n, queue>>, NEW w \in Workers,
         done' = [done EXCEPT ![w] = @ + 1]
  PROVE  /\ Current(w)' = Current(w) + 1
         /\ \A v \in Workers : v # w => Current(v)' = Current(v)
<1>1. /\ done \in [Workers -> Nat]
      /\ First(w, ItemCount) \in Nat
      /\ Current(w) = First(w, ItemCount) + done[w]
  BY CurrentTypes DEF TypeOK, ExecTypeOK
<1>2. Current(w)' = First(w, ItemCount) + (done[w] + 1)
  BY <1>1, ItemsKept DEF Current, Item
<1>3. \A v \in Workers : v # w => Current(v)' = Current(v)
  BY <1>1, ItemsKept
<1> QED
  BY <1>1, <1>2, <1>3

LEMMA LoadPixelInv ==
  ASSUME WavefrontInv, NEW w \in Workers, LoadPixel(w), UNCHANGED ideal
  PROVE  WavefrontInv'
<1> DEFINE m == Mean5(mem["img_in"], Target(Current(w)))
<1>1. /\ Working(w, ItemCount) /\ Active(Current(w))
      /\ reg' = [reg EXCEPT ![w] = m]
      /\ UNCHANGED <<n, k, pc, iter, pixelPtr, written, mem, queue, done>>
  BY DEF LoadPixel, Load, hostVars
<1>2. /\ TypeOK /\ mem["img_in"] \in Views
      /\ reg \in [Workers -> Byte \cup {NoValue}]
  BY MemTypes DEF WavefrontInv, TypeOK, ExecTypeOK
<1>3. m \in Byte
  BY <1>1, <1>2, WorkingItem, TargetInSquare, MeanIsByte
<1> HIDE DEF m
<1>4. TypeOK'
  BY <1>1, <1>2, <1>3 DEF TypeOK, ExecTypeOK
<1>5. Computed'
  <2> SUFFICES ASSUME NEW v \in Workers, reg'[v] # NoValue
               PROVE  /\ Working(v, ItemCount)'
                      /\ Active(Current(v))'
                      /\ reg'[v] = Mean5(mem["img_in"], Target(Current(v)))'
    BY DEF Computed
  <2>1. Working(v, ItemCount)' = Working(v, ItemCount)
        /\ Active(Current(v))' = Active(Current(v))
        /\ Mean5(mem["img_in"], Target(Current(v)))'
             = Mean5(mem["img_in"], Target(Current(v)))
    BY <1>1, ItemsKept DEF Working, Current
  <2>2. CASE v = w
    BY <1>1, <1>2, <2>1, <2>2 DEF m
  <2>3. CASE v # w
    BY <1>1, <1>2, <2>1, <2>3 DEF WavefrontInv, Computed
  <2> QED
    BY <2>2, <2>3
<1>6. WorkersIdle' /\ ItemsDone'
  BY <1>1, ItemsKept DEF WavefrontInv, WorkersIdle, ItemsDone, Drained, Correct
<1>7. /\ QueueInOrder' /\ DiagonalsDone' /\ OutsideBlack' /\ BeforeLoop'
      /\ LoopCounter' /\ FeedsBackSquare' /\ Delivery' /\ DeliversSquare'
  BY <1>1, HostKept
<1> QED
  BY <1>4, <1>5, <1>6, <1>7 DEF WavefrontInv

LEMMA StorePixelInv ==
  ASSUME WavefrontInv, NEW w \in Workers, StorePixel(w), UNCHANGED ideal
  PROVE  WavefrontInv'
<1> DEFINE t == Target(Current(w))
<1>1. /\ Working(w, ItemCount) /\ reg[w] # NoValue
      /\ mem' = [mem EXCEPT !["img_out"][t] = reg[w]]
      /\ reg' = [reg EXCEPT ![w] = NoValue]
      /\ done' = [done EXCEPT ![w] = @ + 1]
      /\ UNCHANGED <<n, k, pc, iter, pixelPtr, written, queue>>
  BY DEF StorePixel, Store, hostVars
<1>2. /\ TypeOK /\ queue # <<>>
      /\ done \in [Workers -> Nat]
      /\ reg \in [Workers -> Byte \cup {NoValue}]
      /\ reg[w] \in Byte
  BY <1>1 DEF WavefrontInv, TypeOK, ExecTypeOK, Working
<1>3. Active(Current(w)) /\ reg[w] = Mean5(mem["img_in"], t)
  BY <1>1 DEF WavefrontInv, Computed
<1>4. t \in Square /\ t \in Cells /\ Current(w) \in 0 .. ItemCount - 1
  BY <1>1, <1>2, <1>3, WorkingItem, TargetInSquare
<1>5. pc \in {"loop", "fence"} /\ ~ Drained /\ ~ Drained'
  BY <1>1, <1>2, KernelRunning DEF Drained
<1> HIDE DEF t
<1>6. /\ mem'["img_in"] = mem["img_in"]
      /\ mem' \in [Device \cup Mirrors -> Views]
      /\ \A c \in Cells : mem'["img_out"][c] =
           (IF c = t THEN reg[w] ELSE mem["img_out"][c])
  BY <1>1, <1>2, <1>4, MemTypes DEF Views
<1>7. \A c \in Cells : Correct(c) \/ c = t => Correct(c)'
  <2>1. \A c \in Cells : Mean5(mem["img_in"], c)' = Mean5(mem["img_in"], c)
    BY <1>6
  <2> QED
    BY <1>3, <1>6, <2>1 DEF Correct
<1>8. TypeOK'
  BY <1>1, <1>2, <1>6 DEF TypeOK, ExecTypeOK
<1>9. Computed'
  <2> SUFFICES ASSUME NEW v \in Workers, reg'[v] # NoValue
               PROVE  /\ Working(v, ItemCount)'
                      /\ Active(Current(v))'
                      /\ reg'[v] = Mean5(mem["img_in"], Target(Current(v)))'
    BY DEF Computed
  <2>1. v # w /\ done'[v] = done[v] /\ reg'[v] = reg[v]
        /\ Current(v)' = Current(v)
    BY <1>1, <1>2, ItemsKept
  <2>2. Working(v, ItemCount)' = Working(v, ItemCount)
        /\ Active(Current(v))' = Active(Current(v))
        /\ Mean5(mem["img_in"], Target(Current(v)))'
             = Mean5(mem["img_in"], Target(Current(v)))
    BY <1>1, <1>6, <2>1, ItemsKept DEF Working, Current
  <2> QED
    BY <2>1, <2>2 DEF WavefrontInv, Computed
<1>10. ItemsDone'
  <2> SUFFICES ASSUME NEW v \in Workers, NEW item \in 0 .. ItemCount - 1,
                      First(v, ItemCount) <= item, item < Current(v)',
                      Active(item)
               PROVE  Correct(Target(item))'
    BY <1>1, ItemsKept DEF ItemsDone
  <2>1. Target(item) \in Cells /\ Target(item)' = Target(item)
    BY <1>1, <1>2, TargetInSquare, ItemsKept
  <2>2. CASE item < Current(v)
    <3>1. Correct(Target(item))
      BY <1>5, <2>2 DEF WavefrontInv, ItemsDone
    <3> QED
      BY <1>7, <2>1, <3>1 DEF Correct
  <2>3. CASE ~ (item < Current(v))
    <3>1. v = w /\ item < Current(w) + 1
      BY <1>1, <1>2, <2>3, ItemAfter
    <3>2. item = Current(w)
      BY <1>2, <2>3, <3>1, CurrentTypes
    <3> QED
      BY <1>7, <2>1, <3>1, <3>2 DEF t, Correct
  <2> QED
    BY <2>2, <2>3
<1>11. DiagonalsDone'
  <2>1. Square' = Square /\ Oldest' = Oldest
    BY <1>1 DEF Square, Oldest
  <2> SUFFICES ASSUME NEW c \in Square, Diagonal(c) < Oldest
               PROVE  Correct(c)'
    BY <2>1 DEF DiagonalsDone, Diagonal
  <2>2. Correct(c)
    BY <1>5 DEF WavefrontInv, DiagonalsDone
  <2> QED
    BY <1>2, <1>7, <2>2, SquareIsInner DEF TypeOK
<1>12. OutsideBlack'
  BY <1>1, <1>4, <1>6 DEF WavefrontInv, OutsideBlack, Square
<1>13. WorkersIdle' /\ QueueInOrder' /\ BeforeLoop' /\ LoopCounter'
       /\ FeedsBackSquare' /\ Delivery' /\ DeliversSquare'
  BY <1>1, <1>5, <1>6 DEF WavefrontInv, WorkersIdle, QueueInOrder, Oldest,
     Diagonals,
     BeforeLoop, LoopCounter, FeedsBackSquare, Delivery, DeliversSquare
<1> QED
  BY <1>8, <1>9, <1>10, <1>11, <1>12, <1>13 DEF WavefrontInv

LEMMA SkipPixelInv ==
  ASSUME WavefrontInv, NEW w \in Workers, SkipPixel(w), UNCHANGED ideal
  PROVE  WavefrontInv'
<1>1. /\ Working(w, ItemCount) /\ ~ Active(Current(w))
      /\ reg[w] = NoValue
      /\ done' = [done EXCEPT ![w] = @ + 1]
      /\ UNCHANGED <<n, k, pc, iter, pixelPtr, written, mem, queue, reg>>
  BY DEF SkipPixel, Skip, hostVars
<1>2. TypeOK /\ done \in [Workers -> Nat]
  BY DEF WavefrontInv, TypeOK, ExecTypeOK
<1>3. ~ Drained /\ ~ Drained'
  BY <1>1 DEF Working, Drained
<1>4. TypeOK'
  BY <1>1, <1>2 DEF TypeOK, ExecTypeOK
<1>5. Computed'
  <2> SUFFICES ASSUME NEW v \in Workers, reg'[v] # NoValue
               PROVE  /\ Working(v, ItemCount)'
                      /\ Active(Current(v))'
                      /\ reg'[v] = Mean5(mem["img_in"], Target(Current(v)))'
    BY DEF Computed
  <2>1. v # w /\ done'[v] = done[v] /\ reg'[v] = reg[v]
        /\ Current(v)' = Current(v)
    BY <1>1, <1>2, ItemsKept
  <2>2. Working(v, ItemCount)' = Working(v, ItemCount)
        /\ Active(Current(v))' = Active(Current(v))
        /\ Mean5(mem["img_in"], Target(Current(v)))'
             = Mean5(mem["img_in"], Target(Current(v)))
    BY <1>1, <2>1, ItemsKept DEF Working, Current
  <2> QED
    BY <2>1, <2>2 DEF WavefrontInv, Computed
<1>6. ItemsDone'
  <2> SUFFICES ASSUME NEW v \in Workers, NEW item \in 0 .. ItemCount - 1,
                      First(v, ItemCount) <= item, item < Current(v)',
                      Active(item)
               PROVE  Correct(Target(item))
    BY <1>1, ItemsKept DEF ItemsDone, Correct
  <2>1. Current(w) \in Nat /\ Current(w)' = Current(w) + 1
    BY <1>1, <1>2, <1>3, CurrentTypes, ItemAfter DEF Drained
  <2>2. v # w => Current(v)' = Current(v)
    BY <1>1, <1>2, <1>3, ItemAfter DEF Drained
  <2>3. v # w \/ item # Current(w)
    BY <1>1
  <2>4. item < Current(v)
    BY <2>1, <2>2, <2>3
  <2> QED
    BY <1>3, <2>4 DEF WavefrontInv, ItemsDone
<1>7. WorkersIdle'
  BY <1>3 DEF WorkersIdle
<1>8. /\ QueueInOrder' /\ DiagonalsDone' /\ OutsideBlack' /\ BeforeLoop'
      /\ LoopCounter' /\ FeedsBackSquare' /\ Delivery' /\ DeliversSquare'
  BY <1>1, HostKept
<1> QED
  BY <1>4, <1>5, <1>6, <1>7, <1>8 DEF WavefrontInv

\* When all workers have reached the end of their blocks, the pixels of the
\* running diagonal are done.
LEMMA CompleteDiagonal ==
  ASSUME WavefrontInv, queue # <<>>,
         \A w \in Workers : Current(w) >= End(w, ItemCount),
         NEW c \in Square, Diagonal(c) = Head(queue)
  PROVE  Correct(c)
<1>1. TypeOK
  BY DEF WavefrontInv
<1>2. PICK w \in Workers, item \in 0 .. ItemCount - 1 :
        /\ First(w, ItemCount) <= item /\ item < End(w, ItemCount)
        /\ Active(item)
        /\ Target(item) = c
  BY <1>1, SquareIsTarget
<1>3. item < Current(w)
  BY <1>1, <1>2, CurrentTypes
<1> QED
  BY <1>2, <1>3, KernelRunning DEF WavefrontInv, ItemsDone

LEMMA EndKernelInv ==
  ASSUME WavefrontInv, EndKernel, UNCHANGED ideal
  PROVE  WavefrontInv'
<1>1. /\ queue # <<>>
      /\ \A w \in Workers : Current(w) >= End(w, ItemCount)
      /\ queue' = Tail(queue)
      /\ done' = [w \in Workers |-> 0]
      /\ UNCHANGED <<n, k, pc, iter, pixelPtr, written, mem, reg>>
  BY DEF EndKernel, Retire, Current, hostVars
<1>2. /\ TypeOK
      /\ n \in Nat \ {0} /\ Diagonals = 2 * n - 1
      /\ k \in 1 .. 2 * n
      /\ queue \in Seq(1 .. 2 * n - 1)
      /\ done \in [Workers -> Nat]
  BY SizeTypes DEF WavefrontInv, TypeOK, ExecTypeOK
<1>3. /\ queue' \in Seq(1 .. 2 * n - 1)
      /\ Len(queue) \in Nat /\ Len(queue) >= 1
      /\ Len(queue') = Len(queue) - 1
      /\ DOMAIN queue = 1 .. Len(queue)
      /\ DOMAIN queue' = 1 .. Len(queue) - 1
      /\ \A q \in DOMAIN queue' : queue'[q] = queue[q + 1]
  BY <1>1, <1>2
<1>4. Oldest' = Oldest + 1 /\ Oldest \in Int
  BY <1>1, <1>2, <1>3 DEF Oldest
<1>5. TypeOK'
  BY <1>1, <1>2, <1>3 DEF TypeOK, ExecTypeOK
<1>6. QueueInOrder'
  <2>1. \A q \in DOMAIN queue' : queue'[q] = Oldest' + q - 1
    BY <1>3, <1>4 DEF WavefrontInv, QueueInOrder
  <2>2. Diagonals' = Diagonals /\ pc \in {"loop", "fence"}
    BY <1>1, KernelRunning DEF Diagonals
  <2> QED
    BY <1>1, <1>2, <1>3, <2>1, <2>2 DEF WavefrontInv, QueueInOrder
<1>7. \A w \in Workers : reg[w] = NoValue
  BY <1>1, <1>2, CurrentTypes DEF WavefrontInv, Computed, Working, Current
<1>8. WorkersIdle' /\ Computed' /\ ItemsDone'
  <2>1. WorkersIdle' /\ Computed'
    BY <1>1, <1>7 DEF WorkersIdle, Computed
  <2>2. ItemsDone'
    BY <1>1, <1>2, <1>3, NothingBehind DEF TypeOK
  <2> QED
    BY <2>1, <2>2
<1>9. DiagonalsDone'
  <2> SUFFICES ASSUME NEW c \in Square, Diagonal(c) < Oldest + 1
               PROVE  Correct(c)
    BY <1>1, <1>4 DEF DiagonalsDone, Square, Diagonal, Correct
  <2>1. Diagonal(c) \in Int
    BY <1>2 DEF Square, Diagonal
  <2>2. CASE Diagonal(c) < Oldest
    BY <1>1, <2>2, KernelRunning DEF WavefrontInv, DiagonalsDone
  <2>3. CASE Diagonal(c) = Oldest
    BY <1>1, <2>3, KernelRunning, CompleteDiagonal
  <2> QED
    BY <1>4, <2>1, <2>2, <2>3
<1>10. OutsideBlack' /\ BeforeLoop' /\ LoopCounter' /\ FeedsBackSquare'
       /\ Delivery' /\ DeliversSquare'
  BY <1>1 DEF WavefrontInv, OutsideBlack, Square, BeforeLoop, LoopCounter,
     FeedsBackSquare, Delivery, DeliversSquare
<1> QED
  BY <1>5, <1>6, <1>8, <1>9, <1>10 DEF WavefrontInv

-----------------------------------------------------------------------------
(* The theorems.                                                           *)

LEMMA NextInv ==
  WavefrontInv /\ [Next /\ NextIdeal]_<<vars, ideal>> => WavefrontInv'
<1> SUFFICES ASSUME WavefrontInv, [Next /\ NextIdeal]_<<vars, ideal>>
             PROVE  WavefrontInv'
  OBVIOUS
<1>1. CASE UNCHANGED <<vars, ideal>>
  <2>1. UNCHANGED <<n, k, pc, iter, pixelPtr, written, mem, queue, ideal>>
        /\ UNCHANGED <<done, reg>>
    BY <1>1 DEF vars
  <2>2. TypeOK'
    BY <2>1 DEF WavefrontInv, TypeOK, ExecTypeOK
  <2>3. WorkersIdle' /\ Computed' /\ ItemsDone'
    BY <2>1, ItemsKept DEF WavefrontInv, WorkersIdle, Computed, ItemsDone,
       Working,
       Current, Correct, Drained
  <2> QED
    BY <2>1, <2>2, <2>3, HostKept DEF WavefrontInv
<1>2. CASE FeedBack /\ k' = 1 /\ UNCHANGED n /\ NextIdeal
  BY <1>2, FeedBackInv
<1>3. ASSUME NextIdeal, UNCHANGED iter
      PROVE  ideal' = ideal
  BY <1>3 DEF NextIdeal
<1>4. CASE LaunchDiagonal /\ NextIdeal
  BY <1>3, <1>4, LaunchDiagonalInv DEF LaunchDiagonal
<1>5. CASE FenceDiagonals /\ NextIdeal
  BY <1>3, <1>5, FenceDiagonalsInv DEF FenceDiagonals
<1>6. CASE Upload /\ UNCHANGED <<n, k>> /\ NextIdeal
  <2>1. ideal' = ideal
    BY <1>3, <1>6 DEF Upload, FillMirrors, UploadIn, UploadOut
  <2> QED
    BY <1>6, <2>1, FillMirrorsInv, UploadInInv, UploadOutInv DEF Upload
<1>7. CASE Deliver /\ UNCHANGED <<n, k>> /\ NextIdeal
  <2>1. ideal' = ideal
    BY <1>3, <1>7 DEF Deliver, Download, WriteBack, Finalize, WriteImage
  <2> QED
    BY <1>7, <2>1, DownloadInv, WriteBackInv, FinishInv DEF Deliver
<1>8. CASE EndKernel /\ NextIdeal
  BY <1>3, <1>8, EndKernelInv DEF EndKernel, hostVars
<1>9. ASSUME NEW w \in Workers, Worker(w), NextIdeal
      PROVE  WavefrontInv'
  <2>1. ideal' = ideal
    BY <1>3, <1>9 DEF Worker, LoadPixel, StorePixel, SkipPixel, hostVars
  <2> QED
    BY <1>9, <2>1, LoadPixelInv, StorePixelInv, SkipPixelInv DEF Worker
<1>10. CASE Done /\ NextIdeal
  <2>1. UNCHANGED <<vars, ideal>>
    BY <1>3, <1>10 DEF Done, vars
  <2> QED
    BY <1>1, <2>1
<1> QED
  BY <1>1, <1>2, <1>4, <1>5, <1>6, <1>7, <1>8, <1>9, <1>10
    DEF Next, Host, Iterate

\* The diagonals in the queue are consecutive, those before it are done, and
\* what the workers have behind them holds the mean of the unchanged img_in.
THEOREM DiagonalInvariant == SpecIdeal => []WavefrontInv
  BY InitInv, NextInv, PTL DEF SpecIdeal

\* Every stored mean is a byte, and the queue never holds a number that is no
\* diagonal of the square.
THEOREM DiagonalTypes == SpecIdeal => []TypeOK
<1>1. WavefrontInv => TypeOK
  BY DEF WavefrontInv
<1> QED
  BY <1>1, DiagonalInvariant, PTL

\* What is fed back is the simultaneous mean of the square, although nothing
\* fences the diagonals from each other.
THEOREM SquareIsFedBack == SpecIdeal => []FeedsBackSquare
<1>1. WavefrontInv => FeedsBackSquare
  BY DEF WavefrontInv
<1> QED
  BY <1>1, DiagonalInvariant, PTL

\* The picture main writes is ITERATIONS such means.
THEOREM SquareIsDelivered == SpecIdeal => []DeliversSquare
<1>1. WavefrontInv => DeliversSquare
  BY DEF WavefrontInv
<1> QED
  BY <1>1, DiagonalInvariant, PTL

\* No step changes img_in while a diagonal is in the queue.
THEOREM DiagonalsReadStableInput == SpecIdeal => DiagonalInputStable
<1>1. WavefrontInv /\ [Next /\ NextIdeal]_<<vars, ideal>>
        => [queue # <<>> => mem'["img_in"] = mem["img_in"]]_vars
  <2> SUFFICES ASSUME WavefrontInv, Next, queue # <<>>
               PROVE  mem'["img_in"] = mem["img_in"]
    BY DEF vars
  <2>1. pc \in {"loop", "fence"}
    BY KernelRunning
  <2>2. CASE Host
    BY <2>1, <2>2 DEF Host, Upload, Iterate, Deliver, FillMirrors, UploadIn,
       UploadOut, LaunchDiagonal, FenceDiagonals, FeedBack, Download, WriteBack,
       Finalize, WriteImage, Step, Fence, ParallelFor, execVars
  <2>3. CASE EndKernel
    BY <2>3 DEF EndKernel, Retire
  <2>4. ASSUME NEW w \in Workers, Worker(w)
        PROVE  mem'["img_in"] = mem["img_in"]
    <3>1. \/ mem' = mem
          \/ mem' = [mem EXCEPT !["img_out"][Target(Current(w))] = reg[w]]
      BY <2>4 DEF Worker, LoadPixel, StorePixel, SkipPixel, Load, Store, Skip
    <3> QED
      BY <3>1, MemTypes DEF WavefrontInv
  <2>5. CASE Done
    BY <2>5 DEF Done, vars
  <2> QED
    BY <2>2, <2>3, <2>4, <2>5 DEF Next
<1> QED
  BY <1>1, DiagonalInvariant, PTL DEF SpecIdeal, DiagonalInputStable
=============================================================================
