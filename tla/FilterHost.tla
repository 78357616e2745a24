------------------------------ MODULE FilterHost ------------------------------
(***************************************************************************)
(* The main thread of the two Kokkos filters around their iteration loop.  *)
(* Both programs fill the views through the host mirrors, loop, download   *)
(* the result into image_pad, and write image_pad without its border.      *)
(***************************************************************************)
EXTENDS KokkosExec

CONSTANT ITERATIONS

ASSUME IterationsAssumption == ITERATIONS \in Nat \ {0}

VARIABLES
  pc,        \* where the main thread is
  iter,      \* the loop counter
  pixelPtr,  \* the bytes of image_pad
  written    \* the images imwrite has written

hostVars == <<pc, iter, pixelPtr, written>>

Step(from, to) == pc = from /\ pc' = to

\* Mutant of LoopHead: one iteration too many.
LoopHeadInclusive(n) == IF n <= ITERATIONS THEN "loop" ELSE "download"

\* The condition of the iteration loop.
LoopHead(n) == IF n < ITERATIONS THEN "loop" ELSE "download"

HostInit(mats) ==
  /\ pc = "fill"
  /\ iter = 0
  /\ pixelPtr \in mats
  /\ written = {}
  /\ ExecInit

\* The loop over host_img_in and host_img_out.
FillMirrors ==
  /\ Step("fill", "upload_in")
  /\ mem' = [mem EXCEPT
               ![Alloc("host_img_in")] = [c \in Cells |-> pixelPtr[Index(c)]],
               ![Alloc("host_img_out")] = [c \in Cells |-> 0]]
  /\ UNCHANGED <<iter, pixelPtr, written, queue, done, reg>>

UploadIn ==
  /\ Step("upload_in", "upload_out")
  /\ DeepCopy("img_in", "host_img_in")
  /\ UNCHANGED <<iter, pixelPtr, written>>

UploadOut ==
  /\ pc = "upload_out"
  /\ pc' = LoopHead(iter)
  /\ DeepCopy("img_out", "host_img_out")
  /\ UNCHANGED <<iter, pixelPtr, written>>

\* Mutant of FeedBack: the copy in the other direction.
FeedBackReversed ==
  /\ pc = "feed_back"
  /\ pc' = LoopHead(iter + 1)
  /\ iter' = iter + 1
  /\ DeepCopy("img_out", "img_in")
  /\ UNCHANGED <<pixelPtr, written>>

\* The last statement of the loop body: the result is the next input.
FeedBack ==
  /\ pc = "feed_back"
  /\ pc' = LoopHead(iter + 1)
  /\ iter' = iter + 1
  /\ DeepCopy("img_in", "img_out")
  /\ UNCHANGED <<pixelPtr, written>>

Download ==
  /\ Step("download", "write_back")
  /\ DeepCopy("host_img_out", "img_out")
  /\ UNCHANGED <<iter, pixelPtr, written>>

WriteBack ==
  /\ Step("write_back", "finalize")
  /\ pixelPtr' = [n \in 0 .. PadSize - 1 |->
                    mem[Alloc("host_img_out")][CellAt(n)]]
  /\ UNCHANGED <<iter, written, execVars>>

\* Kokkos::finalize waits for what was launched and frees the views.
Finalize ==
  /\ Step("finalize", "write")
  /\ Fence
  /\ UNCHANGED <<iter, pixelPtr, written>>

\* The crop to image_no_pad and its imwrite.
WriteImage ==
  /\ Step("write", "done")
  /\ written' = written \cup {Crop(pixelPtr)}
  /\ UNCHANGED <<iter, pixelPtr, execVars>>

\* What is before the loop, and what is behind it.
Upload == FillMirrors \/ UploadIn \/ UploadOut
Deliver == Download \/ WriteBack \/ Finalize \/ WriteImage

\* main has returned.
Returned == pc = "done"
=============================================================================
