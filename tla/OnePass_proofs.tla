---------------------------- MODULE OnePass_proofs ----------------------------
(***************************************************************************)
(* cpu_parallel_jacobi.cpp and test/jacobi.cpp, for every image, pool of   *)
(* workers and contents of the memory in front of the view: what is        *)
(* written is a function of the noised image alone.                        *)
(***************************************************************************)
EXTENDS OnePassProps, Grid_proofs

-----------------------------------------------------------------------------
(* Sizes, items and operands.                                              *)

LEMMA PaddedIsLarger ==
  ASSUME NEW r \in Nat \ {0}, NEW c \in Nat \ {0}, NEW h \in Nat \ {0}
  PROVE  /\ r * c * h \in Nat /\ c * h \in Nat \ {0} /\ h <= c * h
         /\ r * c * h = r * (c * h)
         /\ (r + 2) * (c + 2) * h \in Nat
         /\ r * c * h + c * h <= (r + 2) * (c + 2) * h
<1>1. c * h \in Nat \ {0} /\ r * c \in Nat /\ r * h \in Nat /\ h <= c * h
  BY SMT
<1>2. r * c * h \in Nat /\ r * c * h = r * (c * h)
  BY SMT
<1>3. (r + 2) * (c + 2) * h = r * c * h + 2 * (r * h) + 2 * (c * h) + 4 * h
  BY SMT
<1> QED
  BY <1>1, <1>2, <1>3

LEMMA Sizes ==
  /\ Channels \in Nat \ {0} /\ Cols \in Nat \ {0} /\ Rows \in Nat \ {0}
  /\ PoolSize \in Nat \ {0}
  /\ RowLength \in Nat \ {0} /\ Channels <= RowLength
  /\ PictureSize \in Nat /\ PictureSize = Rows * RowLength
  /\ PadSize \in Nat /\ PictureSize + RowLength <= PadSize
<1>1. /\ Channels \in Nat \ {0} /\ Cols \in Nat \ {0} /\ Rows \in Nat \ {0}
      /\ PadRows = Rows + 2 /\ PadCols = Cols + 2
      /\ PoolSize \in Nat \ {0}
  BY GridTypes, OnePassAssumption
<1> QED
  BY <1>1, PaddedIsLarger DEF RowLength, PictureSize, PadSize

\* The domain of the views, and what a kernel writes of it.
LEMMA Domains ==
  ASSUME ProgramShape
  PROVE  /\ DOMAIN start = 0 .. (IF Flat THEN PadSize ELSE PictureSize) - 1
         /\ 0 .. PictureSize - 1 \subseteq DOMAIN start
         /\ \A kernel : /\ ItemCount(kernel) \in Nat
                        /\ 0 .. ItemCount(kernel) - 1 \subseteq DOMAIN start
         /\ \A o \in DOMAIN start : o \in Nat /\ start[o] \in Byte
<1>1. DOMAIN start = 0 .. (IF Flat THEN PadSize ELSE PictureSize) - 1
      /\ \A o \in DOMAIN start : start[o] \in Byte
  BY DEF ProgramShape, Mats
<1> QED
  BY <1>1, Sizes DEF ItemCount

LEMMA BlockTypes ==
  ASSUME ProgramShape, NEW w \in Workers, NEW kernel
  PROVE  /\ First(w, kernel) \in Nat
         /\ End(w, kernel) \in Nat
         /\ End(w, kernel) <= ItemCount(kernel)
<1>1. ItemCount(kernel) \in Nat
  BY Domains
<1> QED
  BY <1>1, Sizes, PartTypes DEF First, End, Workers

LEMMA ItemsCovered ==
  ASSUME ProgramShape, NEW kernel, NEW o \in 0 .. ItemCount(kernel) - 1
  PROVE  \E w \in Workers : First(w, kernel) <= o /\ o < End(w, kernel)
<1>1. ItemCount(kernel) \in Nat
  BY Domains
<1>2. \E rank \in 0 .. PoolSize - 1 :
        /\ PartFirst(ItemCount(kernel), Channels, PoolSize, rank) <= o
        /\ o < PartEnd(ItemCount(kernel), Channels, PoolSize, rank)
  BY <1>1, Sizes, PartitionCovers
<1> QED
  BY <1>2 DEF Workers, First, End

\* The item a working worker is at is an element of the kernel.
LEMMA WorkingItem ==
  ASSUME TypeOK, ProgramShape, NEW w \in Workers, Working(w)
  PROVE  /\ queue # <<>>
         /\ Item(w) \in 0 .. ItemCount(Head(queue)) - 1
         /\ Item(w) \in DOMAIN start
<1>1. queue # <<>> /\ Item(w) < End(w, Head(queue))
  BY DEF Working, Drained
<1>2. First(w, Head(queue)) \in Nat /\ done[w] \in Nat
  BY BlockTypes DEF TypeOK
<1>3. Item(w) \in Nat
  BY <1>2 DEF Item
<1>4. /\ End(w, Head(queue)) \in Nat /\ ItemCount(Head(queue)) \in Nat
      /\ End(w, Head(queue)) <= ItemCount(Head(queue))
  BY BlockTypes, Domains
<1>5. Item(w) \in 0 .. ItemCount(Head(queue)) - 1
  BY <1>1, <1>3, <1>4
<1> QED
  BY <1>1, <1>5, Domains

LEMMA OperandList ==
  ASSUME NEW o
  PROVE  /\ DOMAIN Operands(o) = {1, 2, 3, 4, 5}
         /\ Operands(o)[1] = o
         /\ Operands(o)[2] = o - Channels
         /\ Operands(o)[3] = o + Channels
         /\ Operands(o)[4] = o - RowLength
         /\ Operands(o)[5] = o + RowLength
<1>1. DOMAIN Operands(o) = 1 .. 5
  BY DEF Operands
<1> QED
  BY <1>1 DEF Operands

\* An operand of the smoothing is at most a row in front of the view, and never
\* behind it.
LEMMA OperandsNear ==
  ASSUME ProgramShape, Flat, NEW o \in 0 .. PictureSize - 1
  PROVE  \A m \in DOMAIN Operands(o) :
           Operands(o)[m] \in OutsideOffsets \cup DOMAIN start
<1>1. DOMAIN start = 0 .. PadSize - 1 /\ OutsideOffsets = -RowLength .. -1
  BY Domains DEF OutsideOffsets
<1>2. \A x \in Int : -RowLength <= x /\ x < PadSize =>
        x \in OutsideOffsets \cup DOMAIN start
  BY <1>1, Sizes
<1> QED
  BY <1>2, Sizes, OperandList

LEMMA RowOf ==
  ASSUME NEW o \in 0 .. PictureSize - 1
  PROVE  /\ o \div RowLength \in 0 .. Rows - 1
         /\ (o \div RowLength) * RowLength <= o
         /\ o < (o \div RowLength) * RowLength + RowLength
         /\ (o \div Channels) % Cols \in 0 .. Cols - 1
<1>1. /\ o \in Nat /\ RowLength \in Nat \ {0} /\ Rows \in Nat /\ o < Rows * RowLength
      /\ Channels \in Nat \ {0} /\ Cols \in Nat \ {0}
  BY Sizes
<1>2. /\ o \div RowLength \in Nat
      /\ (o \div RowLength) * RowLength <= o
      /\ o < ((o \div RowLength) + 1) * RowLength
  BY <1>1, DivModDef
<1>3. o \div RowLength < Rows
  BY <1>1, DivLess
<1>4. ((o \div RowLength) + 1) * RowLength = (o \div RowLength) * RowLength + RowLength
  BY <1>1, <1>2, SMT
<1>5. o \div Channels \in Nat
  BY <1>1, DivModDef
<1>6. (o \div Channels) % Cols \in 0 .. Cols - 1
  BY <1>1, <1>5, DivModDef
<1> QED
  BY <1>1, <1>2, <1>3, <1>4, <1>6

\* The guard of test/jacobi.cpp keeps the operands in the view.
LEMMA InnerOperands ==
  ASSUME NEW o \in 0 .. PictureSize - 1, ~ Outermost(o)
  PROVE  \A m \in DOMAIN Operands(o) :
           Operands(o)[m] \in 0 .. PictureSize - 1
<1> DEFINE i == o \div RowLength
           R == i * RowLength
<1>1. i \in 0 .. Rows - 1 /\ i # 0 /\ i # Rows - 1
  BY RowOf DEF Outermost
<1>2. R \in Int /\ R <= o /\ o < R + RowLength
  BY <1>1, RowOf, Sizes, SMT
<1>3. i \in Nat /\ 1 <= i /\ i + 2 <= Rows
  BY <1>1, Sizes
<1> HIDE DEF i
<1>4. 1 * RowLength <= R
  BY <1>3, Sizes, MultMono
<1>5. (i + 2) * RowLength <= Rows * RowLength
  BY <1>3, Sizes, MultMono
<1>6. (i + 2) * RowLength = R + RowLength + RowLength /\ 1 * RowLength = RowLength
  BY <1>3, Sizes, SMT
<1> HIDE DEF R
<1>7. RowLength <= R /\ R + RowLength + RowLength <= PictureSize
  BY <1>4, <1>5, <1>6, Sizes
<1> QED
  BY <1>2, <1>7, Sizes, OperandList

LEMMA MeanOfBytes ==
  /\ \A a, b, c, d, e \in Byte :
       /\ a + b + c + d + e \in 0 .. 5 * 255
       /\ (a + b + c + d + e) \div 5 \in Byte
  /\ \A s \in 0 .. 5 * 255 : s \div 5 \in Byte
  /\ 0 \div 5 = 0
<1>1. \A s \in 0 .. 5 * 255 : s \div 5 \in Byte
  BY SMT DEF Byte
<1>2. \A a, b, c, d, e \in Byte : a + b + c + d + e \in 0 .. 5 * 255
  BY SMT DEF Byte
<1>3. 0 \div 5 = 0
  BY SMT
<1> QED
  BY <1>1, <1>2, <1>3

\* What is good for an element, and the blocks of the workers, do not change.
LEMMA Unmoved ==
  ASSUME UNCHANGED <<program, start>>
  PROVE  /\ Flat' = Flat
         /\ \A kernel, o, v : Good(kernel, o, v)' <=> Good(kernel, o, v)
         /\ \A kernel : ItemCount(kernel)' = ItemCount(kernel)
         /\ \A kernel, w : /\ First(w, kernel)' = First(w, kernel)
                           /\ End(w, kernel)' = End(w, kernel)
<1>1. Flat' = Flat
  BY DEF Flat
<1>2. \A o : Inside(o)' = Inside(o) /\ MeanOfStart(o)' = MeanOfStart(o)
             /\ SumOfStart(o)' = SumOfStart(o)
  BY DEF Inside, MeanOfStart, SumOfStart
<1>3. \A kernel, o, v : Good(kernel, o, v)' <=> Good(kernel, o, v)
  BY <1>1, <1>2 DEF Good
<1>4. \A kernel : ItemCount(kernel)' = ItemCount(kernel)
  BY <1>1 DEF ItemCount
<1>5. \A kernel, w : /\ First(w, kernel)' = First(w, kernel)
                    /\ End(w, kernel)' = End(w, kernel)
  BY <1>4 DEF First, End
<1> QED
  BY <1>1, <1>3, <1>4, <1>5

-----------------------------------------------------------------------------
(* The invariant holds initially.                                          *)

LEMMA InitInv == InitStart => OnePassInv
<1> SUFFICES ASSUME InitStart
             PROVE  OnePassInv
  OBVIOUS
<1> USE DEF InitStart, Init
<1>1. \/ Flat /\ mat \in Mats
      \/ ~ Flat /\ mat \in [0 .. PictureSize - 1 -> Byte]
  BY OnePassAssumption DEF Flat
<1>2. ProgramShape
  BY <1>1 DEF ProgramShape
<1>3. TypeOK
  <2>1. mat \in [DOMAIN start -> Byte]
    BY <1>1 DEF Mats
  <2>2. viewIn \in [DOMAIN start -> Byte]
    BY DEF Byte
  <2>3. viewOut \in [DOMAIN start -> IF Flat THEN Byte ELSE 0 .. 5 * 255]
    BY DEF Byte
  <2> QED
    BY <2>1, <2>2, <2>3 DEF TypeOK
<1>4. QueueShape /\ WorkersIdle /\ Held /\ ItemsDone
  BY DEF QueueShape, WorkersIdle, Held, ItemsDone, Drained
<1>5. Filled /\ Smoothed /\ WrittenBack /\ Kept
  <2>1. \A o \in DOMAIN start : mat[o] = start[o] /\ viewOut[o] = 0
    OBVIOUS
  <2> QED
    BY <2>1 DEF Filled, Smoothed, WrittenBack, Kept, Drained
<1>6. Delivered
  BY DEF Delivered
<1> QED
  BY <1>2, <1>3, <1>4, <1>5, <1>6 DEF OnePassInv

-----------------------------------------------------------------------------
(* The main thread.                                                        *)

LEMMA AtRest ==
  ASSUME OnePassInv, Drained, pc # "crashed"
  PROVE  \A w \in Workers : done[w] = 0 /\ reg[w] = NoValue
  BY DEF OnePassInv, WorkersIdle, Held, Working

LEMMA TypesKept ==
  ASSUME OnePassInv, UNCHANGED <<program, mat, viewIn, viewOut, done, reg, start>>,
         queue' \in Seq({"init_image", "apply_jacobi", "output_image"}),
         pc' # "done" => written' = {}
  PROVE  TypeOK' /\ ProgramShape'
  BY DEF OnePassInv, TypeOK, ProgramShape, Flat

\* A kernel that is launched with nothing in front of it finds the workers idle.
LEMMA LaunchIdle ==
  ASSUME OnePassInv, Drained, pc # "crashed", queue' # <<>>,
         UNCHANGED <<program, start, done, reg>>
  PROVE  WorkersIdle' /\ Held' /\ ItemsDone'
<1>1. \A w \in Workers : done'[w] = 0 /\ reg'[w] = NoValue
  BY AtRest
<1>2. WorkersIdle' /\ Held'
  BY <1>1 DEF WorkersIdle, Held
<1>3. ItemsDone'
  <2>1. ASSUME NEW w \in Workers
        PROVE  Item(w)' = First(w, Head(queue))' /\ First(w, Head(queue))' \in Nat
    <3>1. First(w, Head(queue))' \in Nat
      BY Unmoved, BlockTypes DEF OnePassInv
    <3> QED
      BY <1>1, <3>1 DEF Item
  <2>2. \A o \in (0 .. ItemCount(Head(queue)) - 1)' : o \in Int
    OBVIOUS
  <2> QED
    BY <2>1, <2>2 DEF ItemsDone
<1> QED
  BY <1>2, <1>3

LEMMA MemoryKept ==
  ASSUME UNCHANGED <<program, start, mat, viewIn, viewOut>>
  PROVE  /\ \A kernel, o : Stored(kernel, o)' = Stored(kernel, o)
         /\ \A kernel : Complete(kernel)' <=> Complete(kernel)
<1>1. \A kernel, o : Stored(kernel, o)' = Stored(kernel, o)
  BY DEF Stored
<1> QED
  BY <1>1, Unmoved DEF Complete

\* The last kernel stays the last kernel when a launch goes behind it.
LEMMA HeadKept ==
  ASSUME OnePassInv, queue # <<>>, queue' # <<>>, Head(queue') = Head(queue),
         UNCHANGED <<program, start, mat, viewIn, viewOut, done, reg>>,
         pc # "crashed", pc' # "crashed"
  PROVE  WorkersIdle' /\ Held' /\ ItemsDone'
<1>1. ~ Drained /\ ~ Drained'
  BY DEF Drained
<1>2. WorkersIdle'
  BY <1>1 DEF WorkersIdle
<1>3. \A w : /\ Item(w)' = Item(w) /\ Working(w)' = Working(w)
             /\ Skipped(Item(w))' = Skipped(Item(w))
  BY <1>1, Unmoved DEF Item, Working, Skipped
<1>4. Held'
  BY <1>3, Unmoved DEF OnePassInv, Held
<1>5. ItemsDone'
  BY <1>1, <1>3, Unmoved, MemoryKept DEF OnePassInv, ItemsDone
<1> QED
  BY <1>2, <1>4, <1>5

LEMMA QuietMain ==
  ASSUME OnePassInv, Drained, pc # "crashed", pc' # "crashed",
         UNCHANGED <<program, start, mat, viewIn, viewOut, queue, done, reg>>
  PROVE  /\ Drained' /\ WorkersIdle' /\ Held' /\ ItemsDone'
         /\ QueueShape'
<1>1. Drained' /\ queue' = <<>>
  BY DEF Drained
<1>2. WorkersIdle' /\ Held' /\ ItemsDone'
  BY <1>1, AtRest DEF WorkersIdle, Held, ItemsDone
<1> QED
  BY <1>1, <1>2 DEF QueueShape

LEMMA LaunchInitInv ==
  ASSUME OnePassInv, LaunchInit, UNCHANGED start
  PROVE  OnePassInv'
<1>1. /\ pc = "init" /\ pc' = (IF Flat THEN "fence_init" ELSE "jacobi")
      /\ queue' = Append(queue, "init_image")
      /\ UNCHANGED <<program, mat, viewIn, viewOut, done, reg, written>>
  BY DEF LaunchInit, Launch, Step, memoryVars
<1>2. Drained
  BY <1>1 DEF OnePassInv, QueueShape
<1>3. queue' = <<"init_image">> /\ Head(queue') = "init_image" /\ queue' # <<>>
  BY <1>1, <1>2 DEF Drained
<1>4. TypeOK' /\ ProgramShape'
  <2>1. queue' \in Seq({"init_image", "apply_jacobi", "output_image"})
    BY <1>3
  <2> QED
    BY <1>1, <2>1, TypesKept DEF OnePassInv, ProgramShape
<1>5. QueueShape'
  BY <1>1, <1>3 DEF QueueShape, Flat
<1>6. WorkersIdle' /\ Held' /\ ItemsDone'
  BY <1>1, <1>2, <1>3, LaunchIdle
<1>7. Filled' /\ Smoothed' /\ WrittenBack'
  BY <1>1, <1>3 DEF Filled, Smoothed, WrittenBack, Drained
<1>8. Kept'
  BY <1>1 DEF OnePassInv, Kept, Flat
<1>9. Delivered'
  BY <1>1 DEF OnePassInv, ProgramShape, Delivered
<1> QED
  BY <1>4, <1>5, <1>6, <1>7, <1>8, <1>9 DEF OnePassInv

LEMMA Pair ==
  ASSUME NEW a, NEW b
  PROVE  /\ Append(<<a>>, b) = <<a, b>>
         /\ Tail(<<a, b>>) = <<b>>
         /\ Head(<<a, b>>) = a
         /\ <<a, b>> \in Seq({a, b}) /\ <<a, b>> # <<>> /\ <<a, b>> # <<b>>
<1>1. Append(<<a>>, b) = <<a, b>>
  <2>1. Append(<<a>>, b) = [q \in 1 .. 2 |-> IF q = 2 THEN b ELSE a]
    OBVIOUS
  <2>2. <<a, b>> = [q \in 1 .. 2 |-> IF q = 2 THEN b ELSE a]
    OBVIOUS
  <2> QED
    BY <2>1, <2>2
<1>2. Tail(<<a, b>>) = <<b>>
  OBVIOUS
<1>3. Len(<<a, b>>) = 2 /\ Len(<<b>>) = 1
  OBVIOUS
<1>4. <<a, b>> \in Seq({a, b}) /\ <<a, b>> # <<>> /\ Head(<<a, b>>) = a
  OBVIOUS
<1> QED
  BY <1>1, <1>2, <1>3, <1>4

LEMMA LaunchJacobiInv ==
  ASSUME OnePassInv, LaunchJacobi, UNCHANGED start
  PROVE  OnePassInv'
<1>1. /\ pc = "jacobi" /\ pc' = "fence_jacobi"
      /\ queue' = Append(queue, "apply_jacobi")
      /\ UNCHANGED <<program, mat, viewIn, viewOut, done, reg, written>>
  BY DEF LaunchJacobi, Launch, Step, memoryVars
<1>2. \/ queue = <<>> /\ Drained
      \/ queue = <<"init_image">> /\ ~ Flat
  BY <1>1 DEF OnePassInv, QueueShape, Drained
<1>3. \/ queue = <<>> /\ Drained /\ queue' = <<"apply_jacobi">>
      \/ queue = <<"init_image">> /\ ~ Flat
         /\ queue' = <<"init_image", "apply_jacobi">>
  <2>1. CASE queue = <<>> /\ Drained
    <3>1. queue' = <<"apply_jacobi">>
      BY <1>1, <2>1
    <3> QED
      BY <2>1, <3>1
  <2>2. CASE queue = <<"init_image">> /\ ~ Flat
    <3>1. Append(<<"init_image">>, "apply_jacobi")
            = <<"init_image", "apply_jacobi">>
      BY Pair
    <3> QED
      BY <1>1, <2>2, <3>1
  <2> QED
    BY <1>2, <2>1, <2>2
<1>4. TypeOK' /\ ProgramShape' /\ queue' # <<>>
  <2>1. queue' \in Seq({"init_image", "apply_jacobi", "output_image"})
        /\ queue' # <<>>
    <3>1. \A S : \A e \in S : <<e>> \in Seq(S) /\ <<e>> # <<>>
      OBVIOUS
    <3>2. <<"init_image", "apply_jacobi">>
            \in Seq({"init_image", "apply_jacobi", "output_image"})
      OBVIOUS
    <3> QED
      BY <1>3, <3>1, <3>2, Pair
  <2> QED
    BY <1>1, <2>1, TypesKept DEF OnePassInv, ProgramShape
<1>5. QueueShape'
  BY <1>1, <1>3 DEF QueueShape, Flat
<1>6. WorkersIdle' /\ Held' /\ ItemsDone'
  <2>1. CASE Drained
    BY <1>1, <1>4, <2>1, LaunchIdle
  <2>2. CASE queue = <<"init_image">> /\ queue' = <<"init_image", "apply_jacobi">>
    <3>1. queue # <<>> /\ Head(queue') = Head(queue)
      BY <2>2
    <3> QED
      BY <1>1, <1>4, <3>1, HeadKept
  <2> QED
    BY <1>3, <2>1, <2>2
<1>7. Filled'
  <2>1. CASE Drained
    BY <1>1, <2>1 DEF OnePassInv, Filled
  <2>2. CASE queue' = <<"init_image", "apply_jacobi">>
    BY <1>4, <2>2 DEF Filled, Drained
  <2> QED
    BY <1>3, <2>1, <2>2
<1>8. Smoothed' /\ WrittenBack'
  BY <1>1, <1>4 DEF Smoothed, WrittenBack, Drained
<1>9. Kept'
  BY <1>1 DEF OnePassInv, Kept, Flat
<1>10. Delivered'
  BY <1>1 DEF OnePassInv, ProgramShape, Delivered
<1> QED
  BY <1>4, <1>5, <1>6, <1>7, <1>8, <1>9, <1>10 DEF OnePassInv

LEMMA LaunchOutputInv ==
  ASSUME OnePassInv, LaunchOutput, UNCHANGED start
  PROVE  OnePassInv'
<1>1. /\ pc = "output" /\ pc' = (IF Flat THEN "fence_output" ELSE "finalize")
      /\ queue' = Append(queue, "output_image")
      /\ UNCHANGED <<program, mat, viewIn, viewOut, done, reg, written>>
  BY DEF LaunchOutput, Launch, Step, memoryVars
<1>2. Drained
  BY <1>1 DEF OnePassInv, QueueShape
<1>3. queue' = <<"output_image">> /\ Head(queue') = "output_image" /\ queue' # <<>>
  BY <1>1, <1>2 DEF Drained
<1>4. TypeOK' /\ ProgramShape'
  <2>1. queue' \in Seq({"init_image", "apply_jacobi", "output_image"})
    BY <1>3
  <2> QED
    BY <1>1, <2>1, TypesKept DEF OnePassInv, ProgramShape
<1>5. QueueShape'
  BY <1>1, <1>3 DEF QueueShape, Flat
<1>6. WorkersIdle' /\ Held' /\ ItemsDone'
  BY <1>1, <1>2, <1>3, LaunchIdle
<1>7. Filled' /\ WrittenBack'
  BY <1>1, <1>2, <1>3 DEF OnePassInv, Filled, WrittenBack, Drained
<1>8. Smoothed'
  BY <1>1, MemoryKept DEF OnePassInv, Smoothed
<1>9. Kept'
  BY <1>1 DEF OnePassInv, Kept, Flat
<1>10. Delivered'
  BY <1>1 DEF OnePassInv, ProgramShape, Delivered
<1> QED
  BY <1>4, <1>5, <1>6, <1>7, <1>8, <1>9, <1>10 DEF OnePassInv

\* What the guard of test/jacobi.cpp asks for.
LEMMA InnerElements ==
  ASSUME NEW o \in 0 .. PictureSize - 1
  PROVE  ~ Outermost(o) <=> /\ o \div RowLength \in 1 .. Rows - 2
                            /\ (o \div Channels) % Cols \in 1 .. Cols - 2
<1>1. /\ o \div RowLength \in 0 .. Rows - 1
      /\ (o \div Channels) % Cols \in 0 .. Cols - 1
  BY RowOf
<1>2. Rows \in Nat \ {0} /\ Cols \in Nat \ {0}
  BY Sizes
<1> QED
  BY <1>1, <1>2 DEF Outermost

\* The complete image is what Delivered says.
LEMMA CompleteImage ==
  ASSUME OnePassInv, Complete("output_image")
  PROVE  \A o \in DOMAIN mat :
           IF Flat
             THEN /\ o < PictureSize /\ Inside(o) => mat[o] = MeanOfStart(o)
                  /\ o >= PictureSize => mat[o] = start[o]
             ELSE LET i == o \div RowLength
                      j == (o \div Channels) % Cols
                  IN  mat[o] = IF i \in 1 .. Rows - 2 /\ j \in 1 .. Cols - 2
                                 THEN MeanOfStart(o) ELSE 0
<1>1. /\ DOMAIN mat = DOMAIN start
      /\ DOMAIN start = 0 .. (IF Flat THEN PadSize ELSE PictureSize) - 1
      /\ PictureSize \in Nat /\ PadSize \in Nat
  BY Domains, Sizes DEF OnePassInv, TypeOK
<1>2. \A o \in 0 .. PictureSize - 1 : Good("output_image", o, mat[o])
  BY DEF Complete, Stored, ItemCount
<1>3. CASE Flat
  <2>1. \A o \in DOMAIN start : o >= PictureSize => mat[o] = start[o]
    BY DEF OnePassInv, Kept
  <2>2. \A o \in 0 .. PictureSize - 1 : Inside(o) => mat[o] = MeanOfStart(o)
    BY <1>2, <1>3 DEF Good
  <2> QED
    BY <1>1, <1>3, <2>1, <2>2
<1>4. CASE ~ Flat
  <2>1. \A o \in 0 .. PictureSize - 1 :
          mat[o] = IF Outermost(o) THEN 0 ELSE MeanOfStart(o)
    BY <1>2, <1>4 DEF Good
  <2> QED
    BY <1>1, <1>4, <2>1, InnerElements
<1> QED
  BY <1>3, <1>4

LEMMA WaitInv ==
  ASSUME OnePassInv, FenceInit \/ FenceJacobi \/ FenceOutput \/ Finalize,
         UNCHANGED start
  PROVE  OnePassInv'
<1>1. /\ \/ pc = "fence_init" /\ pc' = "jacobi"
         \/ pc = "fence_jacobi" /\ pc' = "output"
         \/ pc = "fence_output" /\ pc' = "finalize"
         \/ pc = "finalize" /\ pc' = "write"
      /\ Drained
      /\ UNCHANGED <<program, mat, viewIn, viewOut, queue, done, reg, written>>
  BY DEF FenceInit, FenceJacobi, FenceOutput, Finalize, Fence, Step, memoryVars
<1>2. /\ Drained' /\ WorkersIdle' /\ Held' /\ ItemsDone' /\ QueueShape'
  BY <1>1, QuietMain
<1>3. TypeOK' /\ ProgramShape'
  BY <1>1 DEF OnePassInv, TypeOK, ProgramShape, Flat
<1>4. Filled'
  BY <1>1, <1>2 DEF OnePassInv, Filled
<1>5. Smoothed' /\ WrittenBack'
  BY <1>1, <1>2, MemoryKept DEF OnePassInv, Smoothed, WrittenBack
<1>6. Kept'
  BY <1>1 DEF OnePassInv, Kept, Flat
<1>7. Delivered'
  BY <1>1 DEF OnePassInv, ProgramShape, Delivered
<1> QED
  BY <1>2, <1>3, <1>4, <1>5, <1>6, <1>7 DEF OnePassInv

LEMMA WriteImageInv ==
  ASSUME OnePassInv, WriteImage, UNCHANGED start
  PROVE  OnePassInv'
<1>1. /\ pc = "write" /\ pc' = "done"
      /\ written' = written \cup {mat}
      /\ UNCHANGED <<program, mat, viewIn, viewOut, queue, done, reg>>
  BY DEF WriteImage, Step, memoryVars
<1>2. Drained /\ written = {}
  BY <1>1 DEF OnePassInv, QueueShape, ProgramShape
<1>3. /\ Drained' /\ WorkersIdle' /\ Held' /\ ItemsDone' /\ QueueShape'
  BY <1>1, <1>2, QuietMain
<1>4. TypeOK' /\ ProgramShape'
  BY <1>1 DEF OnePassInv, TypeOK, ProgramShape, Flat
<1>5. Filled'
  BY <1>1, <1>2, <1>3 DEF OnePassInv, Filled
<1>6. Smoothed' /\ WrittenBack'
  BY <1>1, <1>2, <1>3, MemoryKept DEF OnePassInv, Smoothed, WrittenBack
<1>7. Kept'
  BY <1>1 DEF OnePassInv, Kept, Flat
<1>8. Delivered'
  <2>1. Complete("output_image")
    BY <1>1, <1>2 DEF OnePassInv, WrittenBack
  <2>2. written' = {mat}
    BY <1>1, <1>2
  <2> QED
    BY <1>1, <2>1, <2>2, CompleteImage DEF Delivered, Flat, Inside, MeanOfStart
<1> QED
  BY <1>3, <1>4, <1>5, <1>6, <1>7, <1>8 DEF OnePassInv

-----------------------------------------------------------------------------
(* The workers.                                                            *)

\* What a kernel can rely on while it runs.
LEMMA Running ==
  ASSUME OnePassInv, queue # <<>>
  PROVE  /\ ~ Drained
         /\ pc \in {"fence_init", "jacobi", "fence_jacobi", "fence_output",
                   "finalize"}
         /\ \/ /\ Head(queue) = "init_image"
               /\ pc \in {"fence_init", "jacobi", "fence_jacobi"}
               /\ mat = start
            \/ /\ Head(queue) = "apply_jacobi"
               /\ pc = "fence_jacobi" /\ viewIn = start
            \/ /\ Head(queue) = "output_image"
               /\ pc \in {"fence_output", "finalize"}
               /\ Complete("apply_jacobi")
<1>1. ~ Drained
  BY DEF Drained
<1>2. \/ queue = <<"init_image">> /\ pc \in {"fence_init", "jacobi"}
      \/ queue = <<"init_image", "apply_jacobi">> /\ pc = "fence_jacobi"
      \/ queue = <<"apply_jacobi">> /\ pc = "fence_jacobi"
      \/ queue = <<"output_image">> /\ pc \in {"fence_output", "finalize"}
  BY <1>1 DEF OnePassInv, QueueShape
<1>3. \/ Head(queue) = "init_image" /\ pc \in {"fence_init", "jacobi", "fence_jacobi"}
      \/ Head(queue) = "apply_jacobi" /\ pc = "fence_jacobi"
      \/ Head(queue) = "output_image" /\ pc \in {"fence_output", "finalize"}
  BY <1>2, Pair
<1> QED
  BY <1>1, <1>3 DEF OnePassInv, Kept, Filled, Smoothed

LEMMA GuardIsOutermost ==
  ASSUME NEW o
  PROVE  Skipped(o) <=> ~ Flat /\ Head(queue) = "apply_jacobi" /\ Outermost(o)
  BY DEF Skipped, Outermost

\* Every operand of a smoothing is a byte, and with all operands inside the view
\* they are those of the noised image.
LEMMA OperandValues ==
  ASSUME OnePassInv, queue # <<>>, Head(queue) = "apply_jacobi",
         NEW o \in 0 .. PictureSize - 1, ~ Skipped(o),
         NEW outside \in OutsideContents
  PROVE  /\ Sum(o, outside) \in 0 .. 5 * 255
         /\ Sum(o, outside) \div 5 \in Byte
         /\ Inside(o) => /\ Sum(o, outside) = SumOfStart(o)
                        /\ Sum(o, outside) \div 5 = MeanOfStart(o)
         /\ ~ Flat => Inside(o)
<1>1. viewIn = start
  BY Running
<1>2. outside \in [OutsideOffsets -> Byte]
  BY OnePassAssumption
<1>3. \A m \in DOMAIN Operands(o) :
        Operands(o)[m] \in OutsideOffsets \cup DOMAIN start
  <2>1. CASE Flat
    BY <2>1, OperandsNear DEF OnePassInv
  <2>2. CASE ~ Flat
    <3>1. ~ Outermost(o)
      BY <2>2, GuardIsOutermost
    <3>2. 0 .. PictureSize - 1 \subseteq DOMAIN start
      BY Domains DEF OnePassInv
    <3> QED
      BY <3>1, <3>2, InnerOperands
  <2> QED
    BY <2>1, <2>2
<1>4. \A x \in OutsideOffsets \cup DOMAIN start : At(x, outside) \in Byte
  BY <1>1, <1>2, Domains DEF OnePassInv, At
<1>5. \A x \in DOMAIN start : At(x, outside) = start[x]
  BY <1>1 DEF At
<1> DEFINE p == Operands(o)
<1>6. /\ At(p[1], outside) \in Byte /\ At(p[2], outside) \in Byte
      /\ At(p[3], outside) \in Byte /\ At(p[4], outside) \in Byte
      /\ At(p[5], outside) \in Byte
  BY <1>3, <1>4, OperandList
<1>7. Inside(o) => /\ At(p[1], outside) = start[p[1]]
                   /\ At(p[2], outside) = start[p[2]]
                   /\ At(p[3], outside) = start[p[3]]
                   /\ At(p[4], outside) = start[p[4]]
                   /\ At(p[5], outside) = start[p[5]]
  <2>1. DOMAIN p = {1, 2, 3, 4, 5}
    BY OperandList
  <2> HIDE DEF p
  <2> QED
    BY <1>5, <2>1 DEF Inside, p
<1>8. ~ Flat => Inside(o)
  <2> SUFFICES ASSUME ~ Flat
               PROVE  Inside(o)
    OBVIOUS
  <2>1. ~ Outermost(o)
    BY GuardIsOutermost
  <2>2. 0 .. PictureSize - 1 \subseteq DOMAIN start
    BY Domains DEF OnePassInv
  <2> QED
    BY <2>1, <2>2, InnerOperands DEF Inside
<1>9. Sum(o, outside) = At(p[1], outside) + At(p[2], outside)
        + At(p[3], outside) + At(p[4], outside) + At(p[5], outside)
  BY DEF Sum
<1>10. /\ SumOfStart(o) = start[p[1]] + start[p[2]] + start[p[3]]
                            + start[p[4]] + start[p[5]]
       /\ MeanOfStart(o) = SumOfStart(o) \div 5
  BY DEF SumOfStart, MeanOfStart
<1> HIDE DEF p
<1>11. Sum(o, outside) \in 0 .. 5 * 255
  <2> DEFINE a == At(p[1], outside)
             b == At(p[2], outside)
             c == At(p[3], outside)
             d == At(p[4], outside)
             e == At(p[5], outside)
  <2>1. a \in Byte /\ b \in Byte /\ c \in Byte /\ d \in Byte /\ e \in Byte
    BY <1>6
  <2>2. Sum(o, outside) = a + b + c + d + e
    BY <1>9
  <2> HIDE DEF a, b, c, d, e
  <2> QED
    BY <2>1, <2>2, SMT DEF Byte
<1>12. Inside(o) => Sum(o, outside) = SumOfStart(o)
  BY <1>7, <1>9, <1>10
<1> QED
  BY <1>8, <1>10, <1>11, <1>12, MeanOfBytes

\* What a worker computes is good for its element.
LEMMA ComputedIsGood ==
  ASSUME OnePassInv, NEW w \in Workers, Working(w), ~ Skipped(Item(w)),
         NEW outside \in OutsideContents
  PROVE  /\ Computed(Item(w), outside) \in 0 .. 5 * 255
         /\ Flat \/ Head(queue) # "apply_jacobi" =>
              Computed(Item(w), outside) \in Byte
         /\ Good(Head(queue), Item(w), Computed(Item(w), outside))
<1> DEFINE o == Item(w)
           v == Computed(o, outside)
<1>1. /\ queue # <<>>
      /\ o \in 0 .. ItemCount(Head(queue)) - 1 /\ o \in DOMAIN start
  BY WorkingItem DEF OnePassInv
<1>2. start[o] \in Byte /\ Byte \subseteq 0 .. 5 * 255
  BY <1>1, Domains DEF OnePassInv, Byte
<1> HIDE DEF o
<1>3. CASE Head(queue) = "init_image"
  <2>1. v = start[o]
    BY <1>1, <1>3, Running DEF Computed
  <2>2. Good(Head(queue), o, v)
    BY <1>3, <2>1 DEF Good
  <2> HIDE DEF v
  <2> QED
    BY <1>2, <2>1, <2>2 DEF v, o
<1>4. CASE Head(queue) = "apply_jacobi"
  <2>1. o \in 0 .. PictureSize - 1
    BY <1>1, <1>4 DEF ItemCount
  <2>2. /\ Sum(o, outside) \in 0 .. 5 * 255
        /\ Sum(o, outside) \div 5 \in Byte
        /\ Inside(o) => /\ Sum(o, outside) = SumOfStart(o)
                       /\ Sum(o, outside) \div 5 = MeanOfStart(o)
        /\ ~ Flat => Inside(o)
    BY <1>1, <1>4, <2>1, OperandValues DEF o
  <2>3. v = IF Flat THEN Sum(o, outside) \div 5 ELSE Sum(o, outside)
    BY <1>4 DEF Computed
  <2>4. ~ Flat => ~ Outermost(o)
    BY <1>4, GuardIsOutermost DEF o
  <2>5. Good(Head(queue), o, v)
    BY <1>4, <2>2, <2>3, <2>4 DEF Good
  <2> HIDE DEF v
  <2> QED
    BY <1>2, <1>4, <2>2, <2>3, <2>5 DEF v, o
<1>5. CASE Head(queue) = "output_image"
  <2>1. o \in 0 .. PictureSize - 1
    BY <1>1, <1>5 DEF ItemCount
  <2>2. v = IF Flat THEN viewOut[o] ELSE viewOut[o] \div 5
    BY <1>5 DEF Computed
  <2>3. viewOut[o] \in IF Flat THEN Byte ELSE 0 .. 5 * 255
    BY <1>1 DEF OnePassInv, TypeOK
  <2>4. Good("apply_jacobi", o, viewOut[o])
    BY <1>1, <1>5, <2>1, Running DEF Complete, Stored, ItemCount
  <2>5. v \in Byte
    BY <2>2, <2>3, MeanOfBytes
  <2>6. Good(Head(queue), o, v)
    <3>1. CASE Flat
      BY <1>5, <2>2, <2>4, <3>1 DEF Good
    <3>2. CASE ~ Flat
      <4>1. viewOut[o] = IF Outermost(o) THEN 0 ELSE SumOfStart(o)
        BY <2>4, <3>2 DEF Good
      <4>2. MeanOfStart(o) = SumOfStart(o) \div 5
        BY DEF MeanOfStart, SumOfStart
      <4>3. v = IF Outermost(o) THEN 0 ELSE MeanOfStart(o)
        BY <2>2, <3>2, <4>1, <4>2, MeanOfBytes
      <4> HIDE DEF v
      <4> QED
        BY <1>5, <3>2, <4>3 DEF Good
    <3> QED
      BY <3>1, <3>2
  <2> HIDE DEF v
  <2> QED
    BY <1>2, <2>5, <2>6 DEF v, o
<1> QED
  BY <1>1, <1>3, <1>4, <1>5, Running

LEMMA LoadInv ==
  ASSUME OnePassInv, NEW w \in Workers, Load(w), UNCHANGED start
  PROVE  OnePassInv'
<1>1. PICK outside \in OutsideContents :
        reg' = [reg EXCEPT ![w] = Computed(Item(w), outside)]
  BY DEF Load
<1> DEFINE v == Computed(Item(w), outside)
<1>2. /\ Working(w) /\ ~ Skipped(Item(w))
      /\ UNCHANGED <<program, pc, mat, viewIn, viewOut, queue, done, written>>
  BY DEF Load, memoryVars
<1>3. /\ v \in 0 .. 5 * 255
      /\ Flat \/ Head(queue) # "apply_jacobi" => v \in Byte
      /\ Good(Head(queue), Item(w), v)
  BY <1>2, ComputedIsGood
<1>4. reg \in [Workers -> {NoValue} \cup 0 .. 5 * 255]
  BY DEF OnePassInv, ProgramShape
<1> HIDE DEF v
<1>5. /\ reg' \in [Workers -> {NoValue} \cup 0 .. 5 * 255]
      /\ \A u \in Workers : reg'[u] = IF u = w THEN v ELSE reg[u]
  BY <1>1, <1>3, <1>4 DEF v
<1>6. TypeOK' /\ ProgramShape'
  BY <1>2, <1>5 DEF OnePassInv, TypeOK, ProgramShape, Flat
<1>7. \A u : /\ Item(u)' = Item(u) /\ Working(u)' = Working(u)
             /\ Skipped(Item(u))' = Skipped(Item(u))
  BY <1>2, Unmoved DEF Item, Working, Skipped, Drained
<1>8. Held'
  <2> SUFFICES ASSUME NEW u \in Workers, reg'[u] # NoValue, pc' # "crashed"
               PROVE  /\ Working(u)' /\ ~ Skipped(Item(u))'
                      /\ (Flat \/ Head(queue) # "apply_jacobi")' => reg'[u] \in Byte
                      /\ Good(Head(queue), Item(u), reg[u])'
    BY DEF Held
  <2>1. CASE u = w
    BY <1>2, <1>3, <1>5, <1>7, <2>1, Unmoved
  <2>2. CASE u # w
    BY <1>2, <1>5, <1>7, <2>2, Unmoved DEF OnePassInv, Held
  <2> QED
    BY <2>1, <2>2
<1>9. ItemsDone'
  BY <1>2, <1>7, Unmoved, MemoryKept DEF OnePassInv, ItemsDone, Drained
<1>10. QueueShape' /\ WorkersIdle' /\ Filled' /\ Kept'
  BY <1>2 DEF OnePassInv, QueueShape, WorkersIdle, Filled, Kept, Flat, Drained
<1>11. Smoothed' /\ WrittenBack'
  BY <1>2, MemoryKept DEF OnePassInv, Smoothed, WrittenBack, Drained
<1>12. Delivered'
  BY <1>2, Unmoved DEF OnePassInv, Delivered, Inside, MeanOfStart
<1> QED
  BY <1>6, <1>8, <1>9, <1>10, <1>11, <1>12 DEF OnePassInv

LEMMA SkipInv ==
  ASSUME OnePassInv, NEW w \in Workers, Skip(w), UNCHANGED start
  PROVE  OnePassInv'
<1>1. /\ Working(w) /\ Skipped(Item(w))
      /\ done' = [done EXCEPT ![w] = @ + 1]
      /\ UNCHANGED <<program, pc, mat, viewIn, viewOut, queue, reg, written>>
  BY DEF Skip, memoryVars
<1>2. done \in [Workers -> Nat]
  BY DEF OnePassInv, TypeOK
<1>3. /\ done' \in [Workers -> Nat]
      /\ \A u \in Workers : done'[u] = IF u = w THEN done[u] + 1 ELSE done[u]
  BY <1>1, <1>2
<1>4. queue # <<>> /\ Item(w) \in DOMAIN start
  BY <1>1, WorkingItem DEF OnePassInv
<1>5. pc # "crashed" /\ ~ Drained /\ ~ Drained'
  BY <1>1, <1>4, Running DEF Drained
<1>6. TypeOK' /\ ProgramShape'
  BY <1>1, <1>3 DEF OnePassInv, TypeOK, ProgramShape, Flat
<1>7. Held'
  <2> SUFFICES ASSUME NEW u \in Workers, reg'[u] # NoValue
               PROVE  /\ Working(u)' /\ ~ Skipped(Item(u))'
                      /\ (Flat \/ Head(queue) # "apply_jacobi")' => reg'[u] \in Byte
                      /\ Good(Head(queue), Item(u), reg[u])'
    BY DEF Held
  <2>1. /\ Working(u) /\ ~ Skipped(Item(u))
        /\ Flat \/ Head(queue) # "apply_jacobi" => reg[u] \in Byte
        /\ Good(Head(queue), Item(u), reg[u])
    BY <1>1, <1>5 DEF OnePassInv, Held
  <2>2. u # w
    BY <1>1, <2>1
  <2>3. Item(u)' = Item(u) /\ Working(u)' = Working(u)
        /\ Skipped(Item(u))' = Skipped(Item(u))
    BY <1>1, <1>3, <2>2, Unmoved DEF Item, Working, Skipped, Drained
  <2> QED
    BY <1>1, <2>1, <2>3, Unmoved
<1>8. ItemsDone'
  <2> SUFFICES ASSUME NEW u \in Workers,
                      NEW o \in 0 .. ItemCount(Head(queue)) - 1,
                      First(u, Head(queue)) <= o, o < Item(u)'
               PROVE  Good(Head(queue), o, Stored(Head(queue), o))
    BY <1>1, Unmoved, MemoryKept DEF ItemsDone
  <2>1. First(u, Head(queue)) \in Nat
    BY BlockTypes DEF OnePassInv
  <2>2. Item(u)' = First(u, Head(queue)) + done'[u]
    BY <1>1, Unmoved DEF Item
  <2>3. CASE o < Item(u)
    BY <1>5, <2>3 DEF OnePassInv, ItemsDone
  <2>4. CASE ~ (o < Item(u))
    <3>1. u = w /\ o = Item(w)
      BY <1>2, <1>3, <2>1, <2>2, <2>4 DEF Item
    <3>2. ~ Flat /\ Head(queue) = "apply_jacobi" /\ Outermost(o)
      BY <1>1, <3>1, GuardIsOutermost
    <3>3. viewOut[o] = 0
      BY <1>4, <3>1, <3>2 DEF OnePassInv, Kept
    <3> QED
      BY <3>2, <3>3 DEF Good, Stored
  <2> QED
    BY <2>3, <2>4
<1>9. WorkersIdle'
  BY <1>5 DEF WorkersIdle
<1>10. QueueShape' /\ Filled' /\ Kept'
  BY <1>1 DEF OnePassInv, QueueShape, Filled, Kept, Flat, Drained
<1>11. Smoothed' /\ WrittenBack'
  BY <1>1, MemoryKept DEF OnePassInv, Smoothed, WrittenBack, Drained
<1>12. Delivered'
  BY <1>1, Unmoved DEF OnePassInv, Delivered, Inside, MeanOfStart
<1> QED
  BY <1>6, <1>7, <1>8, <1>9, <1>10, <1>11, <1>12 DEF OnePassInv

LEMMA StoreInv ==
  ASSUME OnePassInv, NEW w \in Workers, Store(w), UNCHANGED start
  PROVE  OnePassInv'
<1> DEFINE o == Item(w)
           v == reg[w]
           h == Head(queue)
<1>1. /\ Working(w) /\ v # NoValue
      /\ viewIn' = IF h = "init_image" THEN [viewIn EXCEPT ![o] = v] ELSE viewIn
      /\ viewOut' = CASE h = "init_image" -> [viewOut EXCEPT ![o] = 0]
                      [] h = "apply_jacobi" -> [viewOut EXCEPT ![o] = v]
                      [] OTHER -> viewOut
      /\ mat' = IF h = "output_image" THEN [mat EXCEPT ![o] = v] ELSE mat
      /\ reg' = [reg EXCEPT ![w] = NoValue]
      /\ done' = [done EXCEPT ![w] = @ + 1]
      /\ UNCHANGED <<program, pc, queue, written>>
  BY DEF Store
<1>2. /\ queue # <<>>
      /\ o \in 0 .. ItemCount(h) - 1 /\ o \in DOMAIN start
  BY <1>1, WorkingItem DEF OnePassInv
<1>3. /\ ~ Drained /\ ~ Drained' /\ pc # "crashed" /\ pc # "done"
      /\ \/ h = "init_image" /\ pc \in {"fence_init", "jacobi", "fence_jacobi"}
         \/ h = "apply_jacobi" /\ pc = "fence_jacobi"
         \/ h = "output_image" /\ pc \in {"fence_output", "finalize"}
            /\ Complete("apply_jacobi")
  BY <1>1, <1>2, Running DEF Drained
<1>4. /\ ~ Skipped(o)
      /\ Flat \/ h # "apply_jacobi" => v \in Byte
      /\ Good(h, o, v)
      /\ v \in 0 .. 5 * 255
  <2>1. v \in {NoValue} \cup 0 .. 5 * 255
    BY DEF OnePassInv, ProgramShape
  <2> QED
    BY <1>1, <1>3, <2>1 DEF OnePassInv, Held
<1>5. /\ mat \in [DOMAIN start -> Byte]
      /\ viewIn \in [DOMAIN start -> Byte]
      /\ viewOut \in [DOMAIN start -> IF Flat THEN Byte ELSE 0 .. 5 * 255]
      /\ done \in [Workers -> Nat]
      /\ reg \in [Workers -> {NoValue} \cup 0 .. 5 * 255]
  BY DEF OnePassInv, TypeOK, ProgramShape
<1> HIDE DEF o, v, h
<1>6. /\ reg' \in [Workers -> {NoValue} \cup 0 .. 5 * 255]
      /\ done' \in [Workers -> Nat]
      /\ \A u \in Workers :
           /\ done'[u] = IF u = w THEN done[u] + 1 ELSE done[u]
           /\ reg'[u] = IF u = w THEN NoValue ELSE reg[u]
  BY <1>1, <1>5
<1>7. \A x \in DOMAIN start :
        /\ viewIn'[x] = IF h = "init_image" /\ x = o THEN v ELSE viewIn[x]
        /\ viewOut'[x] = IF h = "init_image" /\ x = o THEN 0
                         ELSE IF h = "apply_jacobi" /\ x = o THEN v
                         ELSE viewOut[x]
        /\ mat'[x] = IF h = "output_image" /\ x = o THEN v ELSE mat[x]
  <2>1. CASE h = "init_image"
    BY <1>1, <1>5, <2>1
  <2>2. CASE h = "apply_jacobi"
    BY <1>1, <1>5, <2>2
  <2>3. CASE h = "output_image"
    BY <1>1, <1>5, <2>3
  <2> QED
    BY <1>3, <2>1, <2>2, <2>3
<1>8. /\ mat' \in [DOMAIN start -> Byte]
      /\ viewIn' \in [DOMAIN start -> Byte]
      /\ viewOut' \in [DOMAIN start -> IF Flat THEN Byte ELSE 0 .. 5 * 255]
  <2>1. 0 \in Byte /\ 0 \in 0 .. 5 * 255
    BY DEF Byte
  <2>2. CASE h = "init_image"
    BY <1>1, <1>2, <1>4, <1>5, <2>1, <2>2
  <2>3. CASE h = "apply_jacobi"
    BY <1>1, <1>2, <1>4, <1>5, <2>3
  <2>4. CASE h = "output_image"
    BY <1>1, <1>2, <1>4, <1>5, <2>4
  <2> QED
    BY <1>3, <2>2, <2>3, <2>4
<1>9. TypeOK' /\ ProgramShape'
  <2>1. TypeOK'
    BY <1>1, <1>6, <1>8 DEF OnePassInv, TypeOK, Flat
  <2>2. ProgramShape'
    BY <1>1, <1>6 DEF OnePassInv, ProgramShape, Flat
  <2> QED
    BY <2>1, <2>2
<1>10. h' = h
  BY <1>1 DEF h
<1>11. \A x \in DOMAIN start :
         Stored(h, x)' = IF x = o THEN v ELSE Stored(h, x)
  BY <1>3, <1>7, <1>10 DEF Stored
<1>12. Held'
  <2> SUFFICES ASSUME NEW u \in Workers, reg'[u] # NoValue
               PROVE  /\ Working(u)' /\ ~ Skipped(Item(u))'
                      /\ (Flat \/ Head(queue) # "apply_jacobi")' => reg'[u] \in Byte
                      /\ Good(Head(queue), Item(u), reg[u])'
    BY DEF Held
  <2>1. u # w /\ reg'[u] = reg[u] /\ done'[u] = done[u]
    BY <1>6
  <2>2. Item(u)' = Item(u) /\ Working(u)' = Working(u)
        /\ Skipped(Item(u))' = Skipped(Item(u))
    BY <1>1, <2>1, Unmoved DEF Item, Working, Skipped, Drained
  <2> QED
    BY <1>1, <1>3, <2>1, <2>2, Unmoved DEF OnePassInv, Held
<1>13. ItemsDone'
  <2> SUFFICES ASSUME NEW u \in Workers, NEW x \in 0 .. ItemCount(h) - 1,
                      First(u, h) <= x, x < Item(u)'
               PROVE  Good(h, x, Stored(h, x)')
    BY <1>1, <1>10, Unmoved DEF ItemsDone, h
  <2>1. First(u, h) \in Nat /\ x \in DOMAIN start
    BY BlockTypes, Domains DEF OnePassInv
  <2>2. Item(u)' = First(u, h) + done'[u]
    BY <1>1, Unmoved DEF Item, h
  <2>3. CASE x = o
    BY <1>4, <1>11, <2>1, <2>3
  <2>4. CASE x # o
    <3>1. x < Item(u)
      <4>1. Item(u) = First(u, h) + done[u] /\ done[u] \in Nat
        BY <1>5 DEF Item, h
      <4>2. CASE u = w
        <5>1. Item(u)' = First(u, h) + (done[u] + 1) /\ x # Item(u)
          BY <1>6, <2>2, <2>4, <4>2 DEF o
        <5> QED
          BY <2>1, <4>1, <5>1
      <4>3. CASE u # w
        BY <1>6, <2>2, <4>1, <4>3
      <4> QED
        BY <4>2, <4>3
    <3>2. Good(h, x, Stored(h, x))
      BY <1>3, <3>1 DEF OnePassInv, ItemsDone, h
    <3> QED
      BY <1>11, <2>1, <2>4, <3>2
  <2> QED
    BY <2>3, <2>4
<1>14. QueueShape' /\ WorkersIdle' /\ WrittenBack'
  BY <1>1, <1>3, Unmoved DEF OnePassInv, QueueShape, WorkersIdle, WrittenBack, Drained
<1>15. Filled'
  BY <1>1, <1>2, <1>3 DEF OnePassInv, Filled, Drained, h
<1>16. Smoothed'
  <2>1. CASE h # "output_image"
    BY <1>1, <1>3, <2>1 DEF Smoothed
  <2>2. CASE h = "output_image"
    <3>1. viewOut' = viewOut
      BY <1>1, <2>2
    <3>2. \A x : Stored("apply_jacobi", x)' = Stored("apply_jacobi", x)
      BY <3>1 DEF Stored
    <3>3. Complete("apply_jacobi")'
      BY <1>1, <1>3, <2>2, <3>2, Unmoved DEF Complete
    <3> QED
      BY <3>3 DEF Smoothed
  <2> QED
    BY <2>1, <2>2
<1>17. Kept'
  <2>1. pc' \notin {"fence_output", "finalize", "write", "done"} => mat' = start
    BY <1>1, <1>3 DEF OnePassInv, Kept
  <2>2. \A x \in DOMAIN start : x >= PictureSize => mat'[x] = start[x]
    <3>1. h = "output_image" => o \in Int /\ o < PictureSize
      BY <1>2, Sizes DEF ItemCount
    <3> QED
      BY <1>7, <3>1, Sizes DEF OnePassInv, Kept
  <2>3. ~ Flat => \A x \in DOMAIN start : Outermost(x) => viewOut'[x] = 0
    <3>1. ~ Flat /\ h = "apply_jacobi" => ~ Outermost(o)
      BY <1>4, GuardIsOutermost DEF h
    <3> QED
      BY <1>7, <3>1 DEF OnePassInv, Kept
  <2> QED
    BY <1>1, <2>1, <2>2, <2>3, Unmoved DEF Kept
<1>18. Delivered'
  BY <1>1, <1>3 DEF OnePassInv, ProgramShape, Delivered
<1> QED
  BY <1>9, <1>12, <1>13, <1>14, <1>15, <1>16, <1>17, <1>18 DEF OnePassInv

\* The program has stopped; nothing is promised of the workers any more.
LEMMA FaultingReadInv ==
  ASSUME OnePassInv, NEW w \in Workers, FaultingRead(w), UNCHANGED start
  PROVE  OnePassInv'
<1>1. /\ queue # <<>> /\ Head(queue) = "apply_jacobi"
      /\ pc' = "crashed" /\ queue' = <<>>
      /\ UNCHANGED <<program, mat, viewIn, viewOut, done, reg, written>>
  BY DEF FaultingRead, Working, Drained, memoryVars
<1>2. pc = "fence_jacobi" /\ viewIn = start /\ Drained'
  BY <1>1, Running DEF Drained
<1>3. TypeOK' /\ ProgramShape'
  <2>1. queue' \in Seq({"init_image", "apply_jacobi", "output_image"})
    BY <1>1
  <2>2. written' = {}
    BY <1>1, <1>2 DEF OnePassInv, ProgramShape
  <2> QED
    BY <1>1, <2>1, <2>2, TypesKept
<1>4. /\ QueueShape' /\ WorkersIdle' /\ Held' /\ ItemsDone' /\ Filled'
      /\ Smoothed' /\ WrittenBack'
  BY <1>1, <1>2 DEF QueueShape, WorkersIdle, Held, ItemsDone, Filled, Smoothed,
     WrittenBack
<1>5. Kept'
  BY <1>1, <1>2 DEF OnePassInv, Kept, Flat
<1>6. Delivered'
  BY <1>1, <1>2 DEF OnePassInv, ProgramShape, Delivered
<1> QED
  BY <1>3, <1>4, <1>5, <1>6 DEF OnePassInv

\* The join finds every element of the kernel behind one of the workers.
LEMMA KernelCompletes ==
  ASSUME OnePassInv, queue # <<>>, \A w \in Workers : ~ Working(w)
  PROVE  Complete(Head(queue))
<1> DEFINE h == Head(queue)
<1>1. ~ Drained
  BY DEF Drained
<1> SUFFICES ASSUME NEW o \in 0 .. ItemCount(h) - 1
             PROVE  Good(h, o, Stored(h, o))
  BY DEF Complete
<1>2. PICK w \in Workers : First(w, h) <= o /\ o < End(w, h)
  BY ItemsCovered DEF OnePassInv
<1>3. ~ (Item(w) < End(w, h))
  BY <1>1 DEF Working
<1>4. /\ First(w, h) \in Nat /\ End(w, h) \in Nat /\ done[w] \in Nat
      /\ o \in Int
  BY BlockTypes DEF OnePassInv, TypeOK
<1>5. Item(w) \in Nat
  BY <1>4 DEF Item
<1>6. o < Item(w)
  BY <1>2, <1>3, <1>4, <1>5
<1> QED
  BY <1>1, <1>2, <1>6 DEF OnePassInv, ItemsDone

\* The kernels that can be behind the one that ends.
LEMMA TailOfQueue ==
  ASSUME OnePassInv, queue # <<>>
  PROVE  \/ /\ queue = <<"init_image">> /\ Tail(queue) = <<>>
            /\ Head(queue) = "init_image" /\ pc \in {"fence_init", "jacobi"}
         \/ /\ Tail(queue) = <<"apply_jacobi">>
            /\ Head(queue) = "init_image" /\ pc = "fence_jacobi" /\ ~ Flat
         \/ /\ queue = <<"apply_jacobi">> /\ Tail(queue) = <<>>
            /\ Head(queue) = "apply_jacobi" /\ pc = "fence_jacobi"
         \/ /\ queue = <<"output_image">> /\ Tail(queue) = <<>>
            /\ Head(queue) = "output_image" /\ pc \in {"fence_output", "finalize"}
<1>1. \/ queue = <<"init_image">> /\ pc \in {"fence_init", "jacobi"}
      \/ queue = <<"init_image", "apply_jacobi">> /\ pc = "fence_jacobi" /\ ~ Flat
      \/ queue = <<"apply_jacobi">> /\ pc = "fence_jacobi"
      \/ queue = <<"output_image">> /\ pc \in {"fence_output", "finalize"}
  BY DEF OnePassInv, QueueShape, Drained
<1>2. \A k : Tail(<<k>>) = <<>> /\ Head(<<k>>) = k
  OBVIOUS
<1> QED
  BY <1>1, <1>2, Pair

LEMMA EndKernelInv ==
  ASSUME OnePassInv, EndKernel, UNCHANGED start
  PROVE  OnePassInv'
<1>1. /\ queue # <<>> /\ \A w \in Workers : ~ Working(w)
      /\ queue' = Tail(queue)
      /\ done' = [w \in Workers |-> 0]
      /\ UNCHANGED <<program, pc, mat, viewIn, viewOut, reg, written>>
  BY DEF EndKernel, Drained, memoryVars
<1>2. Complete(Head(queue))
  BY <1>1, KernelCompletes
<1>3. /\ ~ Drained /\ pc \notin {"crashed", "done"}
  BY <1>1, Running
<1>4. \A w \in Workers : reg[w] = NoValue
  BY <1>1, <1>3 DEF OnePassInv, Held
<1>5. /\ Tail(queue) \in {<<>>, <<"apply_jacobi">>}
      /\ Tail(queue) # <<>> => pc = "fence_jacobi" /\ Head(queue) = "init_image"
                               /\ Tail(queue) = <<"apply_jacobi">>
  BY <1>1, TailOfQueue
<1>6. TypeOK' /\ ProgramShape'
  <2>1. queue' \in Seq({"init_image", "apply_jacobi", "output_image"})
    <3>1. \A S : <<>> \in Seq(S) /\ \A e \in S : <<e>> \in Seq(S)
      OBVIOUS
    <3> QED
      BY <1>1, <1>5, <3>1
  <2>2. done' \in [Workers -> Nat]
    BY <1>1
  <2>3. TypeOK'
    BY <1>1, <2>1, <2>2 DEF OnePassInv, TypeOK, Flat
  <2>4. ProgramShape'
    BY <1>1 DEF OnePassInv, ProgramShape, Flat
  <2> QED
    BY <2>3, <2>4
<1>7. QueueShape'
  BY <1>1, <1>5 DEF QueueShape, Drained
<1>8. WorkersIdle' /\ Held'
  BY <1>1, <1>4 DEF WorkersIdle, Held
<1>9. ItemsDone'
  <2>1. ASSUME NEW w \in Workers
        PROVE  Item(w)' = First(w, Head(queue))' /\ First(w, Head(queue))' \in Nat
    <3>1. First(w, Head(queue))' \in Nat
      BY <1>1, <1>6, Unmoved, BlockTypes DEF OnePassInv
    <3>2. done'[w] = 0
      BY <1>1
    <3>3. Item(w)' = First(w, Head(queue))' + done'[w]
      BY DEF Item
    <3> QED
      BY <3>1, <3>2, <3>3
  <2>2. \A o \in (0 .. ItemCount(Head(queue)) - 1)' : o \in Int
    OBVIOUS
  <2> QED
    BY <2>1, <2>2 DEF ItemsDone
<1>10. viewIn = start
  <2>1. CASE Head(queue) = "init_image"
    <3>1. \A o \in 0 .. ItemCount("init_image") - 1 : viewIn[o] = start[o]
      BY <1>2, <2>1 DEF Complete, Good, Stored
    <3>2. 0 .. ItemCount("init_image") - 1 = DOMAIN start
      BY Domains DEF OnePassInv, ItemCount
    <3> DEFINE D == DOMAIN start
    <3>3. viewIn \in [D -> Byte]
      BY DEF OnePassInv, TypeOK
    <3>4. start = [o \in D |-> start[o]]
      BY DEF OnePassInv, ProgramShape, Mats
    <3>5. \A o \in D : viewIn[o] = start[o]
      BY <3>1, <3>2
    <3> HIDE DEF D
    <3> QED
      BY <3>3, <3>4, <3>5
  <2>2. CASE Head(queue) # "init_image"
    BY <1>3, <2>2 DEF OnePassInv, Filled
  <2> QED
    BY <2>1, <2>2
<1>11. Filled'
  BY <1>1, <1>10 DEF Filled
<1>12. Smoothed'
  <2>1. CASE Head(queue) = "apply_jacobi"
    BY <1>1, <1>2, <2>1, MemoryKept DEF Smoothed
  <2>2. CASE Head(queue) = "init_image"
    <3> DEFINE t == Tail(queue)
    <3>1. <<"apply_jacobi">> # <<>>
      OBVIOUS
    <3>2. \/ pc \in {"fence_init", "jacobi"}
          \/ t = <<"apply_jacobi">> /\ pc = "fence_jacobi"
      BY <1>1, <2>2, TailOfQueue
    <3>3. queue' = t
      BY <1>1
    <3> HIDE DEF t
    <3>4. \/ pc \in {"fence_init", "jacobi"}
          \/ queue' # <<>> /\ pc = "fence_jacobi"
      BY <3>1, <3>2, <3>3
    <3> QED
      BY <1>1, <3>4 DEF Smoothed, Drained
  <2>3. CASE Head(queue) = "output_image"
    BY <1>1, <2>3, Running, MemoryKept DEF Smoothed
  <2> QED
    BY <1>1, <2>1, <2>2, <2>3, Running
<1>13. WrittenBack'
  <2>1. CASE Head(queue) = "output_image"
    BY <1>1, <1>2, <2>1, MemoryKept DEF WrittenBack
  <2>2. CASE Head(queue) # "output_image"
    BY <1>1, <2>2, Running DEF WrittenBack
  <2> QED
    BY <2>1, <2>2
<1>14. Kept'
  BY <1>1 DEF OnePassInv, Kept, Flat
<1>15. Delivered'
  BY <1>1, <1>3 DEF OnePassInv, ProgramShape, Delivered
<1> QED
  BY <1>6, <1>7, <1>8, <1>9, <1>11, <1>12, <1>13, <1>14, <1>15 DEF OnePassInv

LEMMA StutterInv ==
  ASSUME OnePassInv, UNCHANGED <<onePassVars, start>>
  PROVE  OnePassInv'
<1>1. UNCHANGED <<program, pc, mat, viewIn, viewOut, queue, done, reg, written,
                  start>>
  BY DEF onePassVars, memoryVars
<1>2. TypeOK' /\ ProgramShape'
  BY <1>1 DEF OnePassInv, TypeOK, ProgramShape, Flat
<1>3. QueueShape' /\ WorkersIdle' /\ Filled' /\ Kept'
  BY <1>1 DEF OnePassInv, QueueShape, WorkersIdle, Filled, Kept, Flat, Drained
<1>4. \A w : /\ Item(w)' = Item(w) /\ Working(w)' = Working(w)
             /\ Skipped(Item(w))' = Skipped(Item(w))
  BY <1>1, Unmoved DEF Item, Working, Skipped, Drained
<1>5. Held'
  BY <1>1, <1>4, Unmoved DEF OnePassInv, Held
<1>6. ItemsDone'
  BY <1>1, <1>4, Unmoved, MemoryKept DEF OnePassInv, ItemsDone, Drained
<1>7. Smoothed' /\ WrittenBack'
  BY <1>1, MemoryKept DEF OnePassInv, Smoothed, WrittenBack, Drained
<1>8. Delivered'
  BY <1>1, Unmoved DEF OnePassInv, Delivered, Inside, MeanOfStart
<1> QED
  BY <1>2, <1>3, <1>5, <1>6, <1>7, <1>8 DEF OnePassInv

LEMMA NextInv ==
  OnePassInv /\ [Next /\ UNCHANGED start]_<<onePassVars, start>> => OnePassInv'
<1> SUFFICES ASSUME OnePassInv, [Next /\ UNCHANGED start]_<<onePassVars, start>>
             PROVE  OnePassInv'
  OBVIOUS
<1>1. CASE Main /\ UNCHANGED start
  BY <1>1, LaunchInitInv, LaunchJacobiInv, LaunchOutputInv, WaitInv,
     WriteImageInv DEF Main
<1>2. CASE EndKernel /\ UNCHANGED start
  BY <1>2, EndKernelInv
<1>3. ASSUME NEW w \in Workers, Worker(w), UNCHANGED start
      PROVE  OnePassInv'
  BY <1>3, LoadInv, StoreInv, SkipInv, FaultingReadInv DEF Worker
<1>4. CASE Done /\ UNCHANGED start
  BY <1>4, StutterInv DEF Done
<1>5. CASE UNCHANGED <<onePassVars, start>>
  BY <1>5, StutterInv
<1> QED
  BY <1>1, <1>2, <1>3, <1>4, <1>5 DEF Next

\* A kernel finds what the one in front of it leaves complete, and every value a
\* worker holds or has stored is a function of the noised image.
THEOREM OnePassInvariant == SpecStart => []OnePassInv
  BY InitInv, NextInv, PTL DEF SpecStart

\* Every stored mean is a byte, also where an operand comes from in front of the
\* view, and the fifths in A_new stay below 5 * 256.
THEOREM OnePassTypes == SpecStart => []TypeOK
<1>1. OnePassInv => TypeOK
  BY DEF OnePassInv
<1> QED
  BY <1>1, OnePassInvariant, PTL

\* The image each program writes is a function of the noised one: the same means
\* for all orders of the workers and all contents of the memory in front of the
\* view, although test/jacobi.cpp fences only the smoothing.
THEOREM ImageIsDelivered == SpecStart => []Delivered
<1>1. OnePassInv => Delivered
  BY DEF OnePassInv
<1> QED
  BY <1>1, OnePassInvariant, PTL

\* Nobody smooths an image that is not complete.
THEOREM CompleteImageIsSmoothed == SpecStart => []SmoothsComplete
<1>1. OnePassInv => SmoothsComplete
  BY DEF OnePassInv, Filled, SmoothsComplete
<1> QED
  BY <1>1, OnePassInvariant, PTL

\* No element is read behind a view, in front of it at most one row, and by
\* test/jacobi.cpp none outside of it.
THEOREM ReadsStayNear == SpecStart => []ReadsNearView
<1>1. OnePassInv => ReadsNearView
  <2> SUFFICES ASSUME OnePassInv, NEW w \in Workers, Working(w),
                      Head(queue) = "apply_jacobi", ~ Skipped(Item(w))
               PROVE  \A n \in DOMAIN Operands(0) :
                        Operands(Item(w))[n] \in
                          (IF Flat THEN OutsideOffsets ELSE {}) \cup DOMAIN start
    BY DEF ReadsNearView
  <2>1. Item(w) \in 0 .. PictureSize - 1
    BY WorkingItem DEF OnePassInv, ItemCount
  <2>2. DOMAIN Operands(0) = DOMAIN Operands(Item(w))
    BY OperandList
  <2>3. CASE Flat
    BY <2>1, <2>2, <2>3, OperandsNear DEF OnePassInv
  <2>4. CASE ~ Flat
    <3>1. ~ Outermost(Item(w))
      BY <2>4, GuardIsOutermost
    <3>2. 0 .. PictureSize - 1 \subseteq DOMAIN start
      BY Domains DEF OnePassInv
    <3> QED
      BY <2>1, <2>2, <2>4, <3>1, <3>2, InnerOperands
  <2> QED
    BY <2>3, <2>4
<1> QED
  BY <1>1, OnePassInvariant, PTL
=============================================================================
