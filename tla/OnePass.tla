------------------------------- MODULE OnePass -------------------------------
(***************************************************************************)
(* The two programs that smooth an image once, from the noised image to    *)
(* the written one: cpu_parallel_jacobi.cpp, with one-dimensional views of *)
(* image_pad, and test/jacobi.cpp, with views of double and no border.     *)
(* Both fill the views, smooth and write back in kernels of their own;     *)
(* only the first fences behind each of them.                              *)
(*                                                                         *)
(* The memory is addressed as the data of a cv::Mat is.  A block of work   *)
(* items belongs to a worker; where the blocks are cut does not matter to  *)
(* what the programs compute.                                              *)
(***************************************************************************)
EXTENDS Grid, HostTiles, Sequences

CONSTANTS
  PoolSize,        \* threads that execute a kernel
  PaddedMats,      \* what the noise loop may leave in image_pad, ...
  PlainMats,       \* ... or in img
  OutsideContents  \* what the memory in front of img_in may hold

PictureSize == Rows * Cols * Channels

\* The length of a row, and the elements from one pixel to the next.
RowLength == Cols * Channels

OutsideOffsets == -RowLength .. -1

ASSUME OnePassAssumption ==
  /\ PoolSize \in Nat \ {0}
  /\ PaddedMats \subseteq Mats
  /\ PlainMats \subseteq [0 .. PictureSize - 1 -> Byte]
  /\ OutsideContents \subseteq [OutsideOffsets -> Byte]
  /\ OutsideContents # {}

VARIABLES
  program,  \* the file whose main runs
  pc,       \* where main is
  mat,      \* the bytes of image_pad, or of img
  viewIn,   \* img_in, or A
  viewOut,  \* img_out in bytes, or A_new in fifths
  queue,    \* kernels launched and not yet complete
  done,     \* items of the oldest kernel each worker has behind it
  reg,      \* what a worker has computed and not yet stored
  written   \* the images written

memoryVars == <<mat, viewIn, viewOut>>
onePassVars == <<program, pc, memoryVars, queue, done, reg, written>>

Workers == 0 .. PoolSize - 1

NoValue == -1

Flat == program = "cpu_parallel_jacobi"

Drained == queue = <<>>

-----------------------------------------------------------------------------
(* The work items of a kernel, one for each element.                       *)

ItemCount(kernel) ==
  IF Flat /\ kernel = "init_image" THEN PadSize ELSE PictureSize

First(w, kernel) == PartFirst(ItemCount(kernel), Channels, PoolSize, w)
End(w, kernel) == PartEnd(ItemCount(kernel), Channels, PoolSize, w)

Item(w) == First(w, Head(queue)) + done[w]

Working(w) == ~ Drained /\ Item(w) < End(w, Head(queue))

\* The pixel, left, right, up and down, for the element at offset o: both
\* programs use the length of the rows of img, which is not that of image_pad.
Operands(o) ==
  << o, o - Channels, o + Channels, o - RowLength, o + RowLength >>

At(o, outside) == IF o \in DOMAIN viewIn THEN viewIn[o] ELSE outside[o]

Sum(o, outside) ==
  LET n == Operands(o)
  IN  At(n[1], outside) + At(n[2], outside) + At(n[3], outside)
        + At(n[4], outside) + At(n[5], outside)

\* Mutant of Skipped: no guard.
NeverSkipped(o) == FALSE

\* The guard of test/jacobi.cpp: 0 < i < N - 1 and 0 < j < M - 1.
Skipped(o) ==
  /\ ~ Flat /\ Head(queue) = "apply_jacobi"
  /\ \/ o \div RowLength \in {0, Rows - 1}
     \/ (o \div Channels) % Cols \in {0, Cols - 1}

\* Mutant of Computed: the sum is stored undivided in both programs.
Undivided(o, outside) ==
  IF Head(queue) = "init_image" THEN mat[o]
  ELSE IF Head(queue) = "apply_jacobi" THEN Sum(o, outside)
  ELSE IF Flat THEN viewOut[o] ELSE viewOut[o] \div 5

Computed(o, outside) ==
  IF Head(queue) = "init_image" THEN mat[o]
  ELSE IF Head(queue) = "apply_jacobi"
    THEN IF Flat THEN Sum(o, outside) \div 5 ELSE Sum(o, outside)
  ELSE IF Flat THEN viewOut[o] ELSE viewOut[o] \div 5

-----------------------------------------------------------------------------
(* The workers.                                                            *)

Load(w) ==
  /\ Working(w) /\ reg[w] = NoValue
  /\ ~ Skipped(Item(w))
  /\ \E outside \in OutsideContents :
       reg' = [reg EXCEPT ![w] = Computed(Item(w), outside)]
  /\ UNCHANGED <<program, pc, memoryVars, queue, done, written>>

Store(w) ==
  /\ Working(w) /\ reg[w] # NoValue
  /\ LET kernel == Head(queue)
         o == Item(w)
     IN  /\ viewIn' = IF kernel = "init_image"
                        THEN [viewIn EXCEPT ![o] = reg[w]] ELSE viewIn
         /\ viewOut' = CASE kernel = "init_image" -> [viewOut EXCEPT ![o] = 0]
                         [] kernel = "apply_jacobi" ->
                              [viewOut EXCEPT ![o] = reg[w]]
                         [] OTHER -> viewOut
         /\ mat' = IF kernel = "output_image"
                     THEN [mat EXCEPT ![o] = reg[w]] ELSE mat
  /\ reg' = [reg EXCEPT ![w] = NoValue]
  /\ done' = [done EXCEPT ![w] = @ + 1]
  /\ UNCHANGED <<program, pc, queue, written>>

Skip(w) ==
  /\ Working(w)
  /\ Skipped(Item(w))
  /\ done' = [done EXCEPT ![w] = @ + 1]
  /\ UNCHANGED <<program, pc, memoryVars, queue, reg, written>>

\* The memory in front of the view need not be mapped.
FaultingRead(w) ==
  /\ Working(w) /\ reg[w] = NoValue
  /\ Head(queue) = "apply_jacobi" /\ ~ Skipped(Item(w))
  /\ \E n \in DOMAIN Operands(0) : Operands(Item(w))[n] < 0
  /\ pc' = "crashed"
  /\ queue' = <<>>
  /\ UNCHANGED <<program, memoryVars, done, reg, written>>

Worker(w) == Load(w) \/ Store(w) \/ Skip(w) \/ FaultingRead(w)

\* Mutants of EndKernel: the kernel ends with its first worker, or each worker has
\* to be behind its last item.
EndWithFirst ==
  /\ ~ Drained
  /\ \E w \in Workers : ~ Working(w)
  /\ queue' = Tail(queue)
  /\ done' = [w \in Workers |-> 0]
  /\ reg' = [w \in Workers |-> NoValue]
  /\ UNCHANGED <<program, pc, memoryVars, written>>

EndBehind ==
  /\ ~ Drained
  /\ \A w \in Workers : Item(w) > End(w, Head(queue))
  /\ queue' = Tail(queue)
  /\ done' = [w \in Workers |-> 0]
  /\ UNCHANGED <<program, pc, memoryVars, reg, written>>

\* The join of the workers.
EndKernel ==
  /\ ~ Drained
  /\ \A w \in Workers : ~ Working(w)
  /\ queue' = Tail(queue)
  /\ done' = [w \in Workers |-> 0]
  /\ UNCHANGED <<program, pc, memoryVars, reg, written>>

-----------------------------------------------------------------------------
(* The main thread.                                                        *)

Step(from, to) == pc = from /\ pc' = to

Launch(from, kernel, to) ==
  /\ Step(from, to)
  /\ queue' = Append(queue, kernel)
  /\ UNCHANGED <<program, memoryVars, done, reg, written>>

Fence(from, to) ==
  /\ Step(from, to)
  /\ Drained
  /\ UNCHANGED <<program, memoryVars, queue, done, reg, written>>

LaunchInit ==
  Launch("init", "init_image", IF Flat THEN "fence_init" ELSE "jacobi")

FenceInit == Fence("fence_init", "jacobi")

LaunchJacobi == Launch("jacobi", "apply_jacobi", "fence_jacobi")

FenceJacobi == Fence("fence_jacobi", "output")

LaunchOutput ==
  Launch("output", "output_image", IF Flat THEN "fence_output" ELSE "finalize")

FenceOutput == Fence("fence_output", "finalize")

\* Mutant of Finalize: what is in the queue is given up.
FinalizeAtOnce ==
  /\ Step("finalize", "write")
  /\ queue' = <<>>
  /\ UNCHANGED <<program, memoryVars, done, reg, written>>

\* Kokkos::finalize waits for what was launched.
Finalize == Fence("finalize", "write")

\* imwrite(..., image_pad), border and all, or imwrite(..., img).
WriteImage ==
  /\ Step("write", "done")
  /\ written' = written \cup {mat}
  /\ UNCHANGED <<program, memoryVars, queue, done, reg>>

Main ==
  \/ LaunchInit \/ FenceInit \/ LaunchJacobi \/ FenceJacobi
  \/ LaunchOutput \/ FenceOutput \/ Finalize \/ WriteImage

-----------------------------------------------------------------------------
Init ==
  /\ \/ program = "cpu_parallel_jacobi" /\ mat \in PaddedMats
     \/ program = "test_jacobi" /\ mat \in PlainMats
  /\ pc = "init"
  /\ viewIn = [o \in DOMAIN mat |-> 0]
  /\ viewOut = [o \in DOMAIN mat |-> 0]
  /\ queue = <<>>
  /\ done = [w \in Workers |-> 0]
  /\ reg = [w \in Workers |-> NoValue]
  /\ written = {}

Done == pc \in {"done", "crashed"} /\ UNCHANGED onePassVars

Next == Main \/ EndKernel \/ Done \/ \E w \in Workers : Worker(w)

Fairness ==
  /\ WF_onePassVars(Main)
  /\ WF_onePassVars(EndKernel)
  /\ \A w \in Workers : WF_onePassVars(Worker(w))

Spec == Init /\ [][Next]_onePassVars /\ Fairness
=============================================================================
