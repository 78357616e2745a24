------------------------ MODULE RedBlackProgram_proofs ------------------------
(***************************************************************************)
(* parallel_gauss_seidel.cpp, for every picture, noise, number of noise    *)
(* passes and sweeps, pool and memory.  The filter smooths the whole image *)
(* with or without aliasing mirrors; main, where the noise loop hands it   *)
(* an image that satisfies the filter's invariant, implements Denoising.   *)
(***************************************************************************)
EXTENDS RedBlackProgram, Grid_proofs

-----------------------------------------------------------------------------
(* The work items and their pixels.                                        *)

LEMMA ItemTypes ==
  /\ ItemCount \in Nat
  /\ PoolSize \in Nat \ {0}
  /\ \A w \in Workers :
       /\ First(w, ItemCount) \in Nat
       /\ End(w, ItemCount) \in Nat
       /\ End(w, ItemCount) <= ItemCount
<1>1. ItemCount \in Nat
  BY GridTypes, SMT DEF ItemCount
<1>2. PoolSize \in Nat \ {0} /\ TileWork(ItemCount) \in Nat \ {0}
  BY ExecAssumption, RedBlackAssumption
<1> QED
  BY <1>1, <1>2, PartTypes DEF Workers, First, End

\* The item a worker is at, and the next one.
LEMMA CurrentTypes ==
  ASSUME done \in [Workers -> Nat], NEW w \in Workers
  PROVE  /\ Current(w) \in Nat
         /\ First(w, ItemCount) <= Current(w)
         /\ done[w] = 0 => Current(w) = First(w, ItemCount)
<1>1. done[w] \in Nat /\ Current(w) = First(w, ItemCount) + done[w]
  BY DEF Current, Item
<1> QED
  BY <1>1, ItemTypes

LEMMA ItemsKept ==
  \A w \in Workers : done'[w] = done[w] => Current(w)' = Current(w)
  BY DEF Current, Item

LEMMA ItemAfter ==
  ASSUME done \in [Workers -> Nat], NEW w \in Workers,
         done' = [done EXCEPT ![w] = @ + 1]
  PROVE  /\ Current(w)' = Current(w) + 1
         /\ \A v \in Workers : v # w => Current(v)' = Current(v)
<1>1. First(w, ItemCount) \in Nat /\ done[w] \in Nat
  BY ItemTypes
<1>2. /\ Current(w) = First(w, ItemCount) + done[w]
      /\ Current(w)' = First(w, ItemCount) + (done[w] + 1)
  BY DEF Current, Item
<1>3. \A v \in Workers : v # w => Current(v)' = Current(v)
  BY ItemsKept
<1> QED
  BY <1>1, <1>2, <1>3

\* The policy of the two kernels covers the image inside the border, and
\* nothing of the border.
LEMMA PolicyIsInner ==
  /\ Elements(Rows, Cols, Channels, PolicyLower) = Inner
  /\ PolicyLower \in Int \X Int \X Int
<1>1. PolicyLower[1] = 1 /\ PolicyLower[2] = 1 /\ PolicyLower[3] = 0
  BY DEF PolicyLower
<1>2. 1 + Rows - 1 = Rows /\ 1 + Cols - 1 = Cols
      /\ 0 + Channels - 1 = Channels - 1
  BY GridTypes
<1>3. Elements(Rows, Cols, Channels, PolicyLower) = Inner
  BY <1>1, <1>2 DEF Elements, Inner, PADDING
<1> QED
  BY <1>3 DEF PolicyLower

LEMMA TargetIsInner ==
  ASSUME NEW n \in 0 .. ItemCount - 1
  PROVE  Target(n) \in Inner
  BY PolicyIsInner, GridTypes, TileOffsetCoordinates DEF Target, ItemCount

LEMMA InnerIsTarget ==
  ASSUME NEW c \in Inner
  PROVE  \E n \in 0 .. ItemCount - 1 : Target(n) = c
  BY PolicyIsInner, GridTypes, TileNumberDecode DEF Target, ItemCount

LEMMA ItemsCovered ==
  ASSUME NEW n \in 0 .. ItemCount - 1
  PROVE  \E w \in Workers : First(w, ItemCount) <= n /\ n < End(w, ItemCount)
<1> DEFINE chunk == TileWork(ItemCount)
<1>1. ItemCount \in Nat /\ PoolSize \in Nat \ {0} /\ chunk \in Nat \ {0}
  BY ItemTypes, RedBlackAssumption
<1>2. \E rank \in 0 .. PoolSize - 1 :
        /\ PartFirst(ItemCount, chunk, PoolSize, rank) <= n
        /\ n < PartEnd(ItemCount, chunk, PoolSize, rank)
  BY <1>1, PartitionCovers
<1> QED
  BY <1>2 DEF Workers, First, End

LEMMA ColourCases ==
  ASSUME NEW c \in Inner
  PROVE  Colour(c) = RED \/ Colour(c) = BLACK
<1>1. c[1] \in Nat /\ c[2] \in Nat
  BY GridTypes DEF Inner, PADDING
<1>2. \A a, b \in Nat : (a + b) % 2 = 1 \/ (a + b) % 2 = 0
  BY SMT
<1> QED
  BY <1>1, <1>2 DEF Colour, RED, BLACK

\* The item a working worker is at belongs to the policy.
LEMMA WorkingItem ==
  ASSUME TypeOK, NEW w \in Workers, Working(w, ItemCount)
  PROVE  /\ Current(w) \in 0 .. ItemCount - 1
         /\ Target(Current(w)) \in Inner
<1>1. Current(w) \in Nat /\ Current(w) < End(w, ItemCount)
  BY CurrentTypes DEF TypeOK, ExecTypeOK, Working, Current
<1>2. Current(w) \in 0 .. ItemCount - 1
  BY <1>1, ItemTypes
<1> QED
  BY <1>2, TargetIsInner

LEMMA AllocFacts ==
  /\ Alloc("img_in") = "img_in"
  /\ Alloc("img_out") = "img_out"
  /\ Alloc("host_img_in") \in {"img_in", "host_img_in"}
  /\ Alloc("host_img_out") \in {"img_out", "host_img_out"}
  BY DEF Alloc, Mirrors, MirrorOf

LEMMA MemTypes ==
  ASSUME TypeOK
  PROVE  /\ mem \in [Device \cup Mirrors -> Views]
         /\ DOMAIN mem = {"img_in", "img_out", "host_img_in", "host_img_out"}
         /\ mem["img_in"] \in Views
         /\ mem["img_out"] \in Views
         /\ mem[Alloc("host_img_in")] \in Views
         /\ mem[Alloc("host_img_out")] \in Views
  BY AllocFacts DEF TypeOK, ExecTypeOK, Device, Mirrors

LEMMA ImageTypes ==
  /\ ZeroView \in Views
  /\ \A p \in Mats : [c \in Cells |-> p[Index(c)]] \in Views
  /\ \A v \in Views : [n \in 0 .. PadSize - 1 |-> v[CellAt(n)]] \in Mats
  /\ \A p \in Mats : Crop(p) \in [Pixels -> Byte]
  BY ImageConversions, CropOfMat DEF ZeroView

LEMMA ConfigTypes ==
  ITERATIONS \in Nat \ {0} /\ Images \subseteq [Pixels -> Byte]
  BY IterationsAssumption, RedBlackAssumption

-----------------------------------------------------------------------------
(* The invariant holds initially.                                          *)

LEMMA BorderedImage ==
  ASSUME NEW img \in Images
  PROVE  /\ MakeBorder(img) \in Mats
         /\ \A c \in Ring : MakeBorder(img)[Index(c)] = 0
         /\ [c \in Cells |-> MakeBorder(img)[Index(c)]]
              = [c \in Cells |-> IF c \in Inner THEN img[Shifted(c)] ELSE 0]
<1>1. img \in [Pixels -> Byte]
  BY ConfigTypes
<1>2. \A n \in 0 .. PadSize - 1 :
        (IF CellAt(n) \in Inner THEN img[Shifted(CellAt(n))] ELSE 0) \in Byte
  BY <1>1, ShiftedIsPixel DEF Byte
<1>3. MakeBorder(img) \in Mats
  BY <1>2 DEF MakeBorder, Mats
<1>4. \A c \in Cells : MakeBorder(img)[Index(c)]
        = (IF c \in Inner THEN img[Shifted(c)] ELSE 0)
  BY CellAtIndex DEF MakeBorder
<1>5. \A c \in Ring : c \in Cells /\ c \notin Inner
  BY DEF Ring
<1> QED
  BY <1>3, <1>4, <1>5

LEMMA InitInv == Init => IInv
<1> SUFFICES ASSUME Init
             PROVE  IInv
  OBVIOUS
<1> USE DEF Init, HostInit, ExecInit
<1>1. PICK img \in Images : pixelPtr = MakeBorder(img)
  OBVIOUS
<1>2. mem \in [Device \cup Mirrors -> Views]
  BY ImageTypes DEF ZeroView
<1>3. reg \in [Workers -> Byte \cup {NoValue}] /\ done \in [Workers -> Nat]
  BY ItemTypes
<1>4. TypeOK
  <2>1. iter \in 0 .. ITERATIONS
    BY ConfigTypes
  <2>2. queue \in Seq(Kernels)
    OBVIOUS
  <2> QED
    BY <1>1, <1>2, <1>3, <2>1, <2>2, BorderedImage
      DEF TypeOK, ExecTypeOK, HostPoints
<1>5. QueueShape /\ WorkersIdle /\ Computed /\ ItemsDone
  BY DEF QueueShape, WorkersIdle, Computed, ItemsDone, Drained
<1>6. RedDone /\ BlackDone /\ LoopCounter /\ BorderBlack
  BY DEF RedDone, BlackDone, LoopCounter, BorderBlack, InLoop, AfterLoop
<1>7. BeforeLoop
  BY <1>1, BorderedImage DEF BeforeLoop, ZeroView, Device
<1>8. Delivery
  BY DEF Delivery, AfterLoop
<1> QED
  BY <1>4, <1>5, <1>6, <1>7, <1>8 DEF IInv

-----------------------------------------------------------------------------
(* The host's steps.                                                       *)

LEMMA HostAtRest ==
  ASSUME IInv
  PROVE  /\ pc \notin {"fence_red", "fence_black"} => Drained
         /\ Drained => \A w \in Workers : reg[w] = NoValue
<1>1. pc \notin {"fence_red", "fence_black"} => Drained
  BY DEF IInv, QueueShape, Drained
<1>2. Drained => \A w \in Workers : reg[w] = NoValue
  BY DEF IInv, Computed, Working, Drained
<1> QED
  BY <1>1, <1>2

\* A step of the host that launches nothing leaves the workers idle.
LEMMA WorkersStayIdle ==
  ASSUME IInv, Drained, UNCHANGED <<queue, done, reg>>
  PROVE  QueueShape' /\ WorkersIdle' /\ Computed' /\ ItemsDone'
<1>1. queue' = <<>> /\ Drained'
  BY DEF Drained
<1>2. QueueShape'
  BY <1>1 DEF QueueShape
<1>3. WorkersIdle'
  BY DEF IInv, WorkersIdle, Drained
<1>4. Computed'
  BY HostAtRest DEF Computed
<1>5. ItemsDone'
  BY <1>1 DEF ItemsDone
<1> QED
  BY <1>2, <1>3, <1>4, <1>5

LEMMA FillMirrorsInv ==
  ASSUME IInv, FillMirrors
  PROVE  IInv'
<1>1. /\ pc = "fill" /\ pc' = "upload_in"
      /\ UNCHANGED <<iter, pixelPtr, written, queue, done, reg>>
      /\ mem' = [mem EXCEPT ![Alloc("host_img_in")] = PaddedImage,
                            ![Alloc("host_img_out")] = ZeroView]
  BY DEF FillMirrors, Step, PaddedImage, ZeroView
<1>2. Drained
  BY <1>1, HostAtRest
<1>3. QueueShape' /\ WorkersIdle' /\ Computed' /\ ItemsDone'
  BY <1>1, <1>2, WorkersStayIdle
<1>4. TypeOK
  BY DEF IInv
<1>5. PaddedImage \in Views /\ ZeroView \in Views
  BY <1>4, ImageTypes DEF TypeOK, PaddedImage
<1>6. TypeOK'
  BY <1>1, <1>4, <1>5, MemTypes DEF TypeOK, ExecTypeOK, HostPoints
<1>7. /\ mem'[Alloc("host_img_in")] = PaddedImage
      /\ mem'[Alloc("host_img_out")] = ZeroView
      /\ mem'["img_out"] = ZeroView
  <2>1. mem["img_out"] = ZeroView
    BY <1>1 DEF IInv, BeforeLoop
  <2> QED
    BY <1>1, <1>4, <2>1, MemTypes, AllocFacts
<1>8. RedDone' /\ BlackDone' /\ LoopCounter' /\ BorderBlack' /\ Delivery'
  BY <1>1 DEF IInv, RedDone, BlackDone, LoopCounter, BorderBlack, Delivery,
              InLoop, AfterLoop
<1>9. BeforeLoop'
  BY <1>1, <1>7 DEF IInv, BeforeLoop, PaddedImage, ZeroView, Alloc, Mirrors,
     MirrorOf
<1> QED
  BY <1>3, <1>6, <1>8, <1>9 DEF IInv

LEMMA UploadInInv ==
  ASSUME IInv, UploadIn
  PROVE  IInv'
<1>1. /\ pc = "upload_in" /\ pc' = "upload_out"
      /\ Drained
      /\ UNCHANGED <<iter, pixelPtr, written, queue, done, reg>>
      /\ mem' = [mem EXCEPT !["img_in"] = mem[Alloc("host_img_in")]]
  BY AllocFacts DEF UploadIn, Step, DeepCopy
<1>2. QueueShape' /\ WorkersIdle' /\ Computed' /\ ItemsDone'
  BY <1>1, WorkersStayIdle
<1>3. TypeOK
  BY DEF IInv
<1>4. TypeOK'
  BY <1>1, <1>3, MemTypes DEF TypeOK, ExecTypeOK, HostPoints
<1>5. /\ mem'["img_in"] = PaddedImage
      /\ mem'["img_out"] = ZeroView
      /\ mem'[Alloc("host_img_out")] = ZeroView
  BY <1>1, <1>3, MemTypes, AllocFacts DEF IInv, BeforeLoop
<1>6. RedDone' /\ BlackDone' /\ LoopCounter' /\ Delivery'
  BY <1>1 DEF IInv, RedDone, BlackDone, LoopCounter, Delivery,
              InLoop, AfterLoop
<1>7. \A c \in Ring : c \in Cells /\ pixelPtr[Index(c)] = 0
  BY <1>1 DEF IInv, BeforeLoop, Ring
<1>8. BeforeLoop'
  BY <1>1, <1>5, <1>7 DEF BeforeLoop, PaddedImage, ZeroView, Alloc, Mirrors,
     MirrorOf
<1>9. BorderBlack'
  BY <1>5, <1>7 DEF BorderBlack, PaddedImage, ZeroView
<1> QED
  BY <1>2, <1>4, <1>6, <1>8, <1>9 DEF IInv

LEMMA LoopHeadFacts ==
  ASSUME NEW n \in 0 .. ITERATIONS
  PROVE  \/ LoopHead(n) = "loop" /\ n < ITERATIONS
         \/ LoopHead(n) = "download" /\ n = ITERATIONS
  BY ConfigTypes DEF LoopHead

LEMMA UploadOutInv ==
  ASSUME IInv, UploadOut
  PROVE  IInv'
<1>1. /\ pc = "upload_out" /\ pc' = LoopHead(iter)
      /\ Drained
      /\ UNCHANGED <<iter, pixelPtr, written, queue, done, reg>>
      /\ mem' = [mem EXCEPT !["img_out"] = mem[Alloc("host_img_out")]]
  BY AllocFacts DEF UploadOut, DeepCopy
<1>2. iter = 0 /\ iter < ITERATIONS /\ pc' = "loop"
  BY <1>1, ConfigTypes DEF IInv, LoopCounter, LoopHead
<1>3. QueueShape' /\ WorkersIdle' /\ Computed' /\ ItemsDone'
  BY <1>1, WorkersStayIdle
<1>4. TypeOK
  BY DEF IInv
<1>5. TypeOK'
  BY <1>1, <1>2, <1>4, MemTypes DEF TypeOK, ExecTypeOK, HostPoints
<1>6. mem'["img_in"] = PaddedImage /\ mem'["img_out"] = ZeroView
  BY <1>1, <1>4, MemTypes, AllocFacts DEF IInv, BeforeLoop
<1>7. RedDone' /\ BlackDone' /\ LoopCounter' /\ BeforeLoop' /\ Delivery'
  BY <1>1, <1>2 DEF IInv, RedDone, BlackDone, LoopCounter, BeforeLoop,
                    Delivery, InLoop, AfterLoop
<1>8. \A c \in Ring : c \in Cells /\ pixelPtr[Index(c)] = 0
  BY <1>1 DEF IInv, BeforeLoop, Ring
<1>9. BorderBlack'
  BY <1>6, <1>8 DEF BorderBlack, PaddedImage, ZeroView
<1> QED
  BY <1>3, <1>5, <1>7, <1>9 DEF IInv

LEMMA LaunchInv ==
  ASSUME IInv, LaunchRed \/ LaunchBlack
  PROVE  IInv'
<1>1. /\ \/ pc = "loop" /\ pc' = "fence_red"
            /\ queue' = Append(queue, "apply_gauss_red")
         \/ pc = "black" /\ pc' = "fence_black"
            /\ queue' = Append(queue, "apply_gauss_black")
      /\ UNCHANGED <<iter, pixelPtr, written, mem, done, reg>>
  BY DEF LaunchRed, LaunchBlack, Step, ParallelFor
<1>2. Drained
  BY <1>1, HostAtRest
<1>3. \/ /\ pc = "loop" /\ pc' = "fence_red"
         /\ queue' = <<"apply_gauss_red">>
      \/ /\ pc = "black" /\ pc' = "fence_black"
         /\ queue' = <<"apply_gauss_black">>
  BY <1>1, <1>2 DEF Drained
<1>4. ~ Drained' /\ queue' \in Seq(Kernels)
  <2>1. \A k \in Kernels : <<k>> # <<>> /\ <<k>> \in Seq(Kernels)
    OBVIOUS
  <2>2. "apply_gauss_red" \in Kernels /\ "apply_gauss_black" \in Kernels
    BY DEF Kernels
  <2> QED
    BY <1>3, <2>1, <2>2 DEF Drained
<1>5. TypeOK'
  BY <1>1, <1>3, <1>4 DEF IInv, TypeOK, ExecTypeOK, HostPoints
<1>6. QueueShape'
  <2>1. "apply_gauss_red" # "apply_gauss_black"
    OBVIOUS
  <2>2. <<"apply_gauss_red">> # <<"apply_gauss_black">>
    BY <2>1
  <2> QED
    BY <1>3, <2>2 DEF QueueShape
<1>7. WorkersIdle'
  BY <1>4 DEF WorkersIdle
<1>8. Computed'
  BY <1>1, <1>2, HostAtRest DEF Computed
<1>9. ItemsDone'
  <2>1. \A w \in Workers : Current(w)' = First(w, ItemCount)
    BY <1>1, <1>2, CurrentTypes, ItemsKept DEF IInv, TypeOK, ExecTypeOK,
       WorkersIdle
  <2>2. \A w \in Workers : First(w, ItemCount) \in Nat
    BY ItemTypes
  <2> QED
    BY <1>1, <2>1, <2>2 DEF ItemsDone
<1>10. RedDone' /\ BlackDone'
  BY <1>1, <1>3, <1>4 DEF IInv, RedDone, BlackDone, ColourDone, Correct
<1>11. LoopCounter' /\ BeforeLoop' /\ BorderBlack' /\ Delivery'
  BY <1>1, <1>3 DEF IInv, LoopCounter, BeforeLoop, BorderBlack, Delivery,
                    InLoop, AfterLoop
<1> QED
  BY <1>5, <1>6, <1>7, <1>8, <1>9, <1>10, <1>11 DEF IInv

LEMMA FenceInv ==
  ASSUME IInv, FenceRed \/ FenceBlack
  PROVE  IInv'
<1>1. /\ \/ pc = "fence_red" /\ pc' = "black"
         \/ pc = "fence_black" /\ pc' = "feed_back"
      /\ Drained
      /\ UNCHANGED <<iter, pixelPtr, written, mem, queue, done, reg>>
  BY DEF FenceRed, FenceBlack, Step, Fence, execVars
<1>2. QueueShape' /\ WorkersIdle' /\ Computed' /\ ItemsDone'
  BY <1>1, WorkersStayIdle
<1>3. TypeOK'
  BY <1>1 DEF IInv, TypeOK, ExecTypeOK, HostPoints
<1>4. RedDone' /\ BlackDone'
  BY <1>1 DEF IInv, RedDone, BlackDone, ColourDone, Correct
<1>5. LoopCounter' /\ BeforeLoop' /\ BorderBlack' /\ Delivery'
  BY <1>1 DEF IInv, LoopCounter, BeforeLoop, BorderBlack, Delivery,
              InLoop, AfterLoop
<1> QED
  BY <1>2, <1>3, <1>4, <1>5 DEF IInv

LEMMA FeedBackFacts ==
  ASSUME IInv, FeedBack
  PROVE  /\ pc = "feed_back" /\ pc' = LoopHead(iter + 1)
         /\ iter' = iter + 1 /\ iter < ITERATIONS /\ iter' \in 0 .. ITERATIONS
         /\ Drained
         /\ UNCHANGED <<pixelPtr, written, queue, done, reg>>
         /\ mem' = [mem EXCEPT !["img_in"] = mem["img_out"]]
         /\ mem'["img_in"] = mem["img_out"]
         /\ mem'["img_out"] = mem["img_out"]
<1>1. /\ pc = "feed_back" /\ pc' = LoopHead(iter + 1)
      /\ iter' = iter + 1
      /\ Drained
      /\ UNCHANGED <<pixelPtr, written, queue, done, reg>>
      /\ mem' = [mem EXCEPT !["img_in"] = mem["img_out"]]
  BY AllocFacts DEF FeedBack, DeepCopy
<1>2. iter < ITERATIONS /\ iter \in 0 .. ITERATIONS
  BY <1>1 DEF IInv, LoopCounter, InLoop, TypeOK
<1>3. mem'["img_in"] = mem["img_out"] /\ mem'["img_out"] = mem["img_out"]
  BY <1>1, MemTypes DEF IInv
<1> QED
  BY <1>1, <1>2, <1>3, ConfigTypes

LEMMA FeedBackInv ==
  ASSUME IInv, FeedBack
  PROVE  IInv'
<1>1. /\ pc = "feed_back"
      /\ iter' \in 0 .. ITERATIONS
      /\ Drained
      /\ UNCHANGED <<pixelPtr, written, queue, done, reg>>
      /\ mem'["img_in"] = mem["img_out"]
      /\ mem'["img_out"] = mem["img_out"]
      /\ \/ pc' = "loop" /\ iter' < ITERATIONS
         \/ pc' = "download" /\ iter' = ITERATIONS
  BY FeedBackFacts, LoopHeadFacts
<1>2. QueueShape' /\ WorkersIdle' /\ Computed' /\ ItemsDone'
  BY <1>1, WorkersStayIdle
<1>3. TypeOK'
  <2>1. mem' \in [Device \cup Mirrors -> Views]
    BY FeedBackFacts, MemTypes DEF IInv
  <2> QED
    BY <1>1, <2>1 DEF IInv, TypeOK, ExecTypeOK, HostPoints
<1>4. RedDone' /\ BlackDone' /\ LoopCounter' /\ BeforeLoop' /\ Delivery'
  BY <1>1 DEF IInv, RedDone, BlackDone, LoopCounter, BeforeLoop, Delivery,
              InLoop, AfterLoop
<1>5. BorderBlack'
  BY <1>1 DEF IInv, BorderBlack
<1> QED
  BY <1>2, <1>3, <1>4, <1>5 DEF IInv

LEMMA DownloadInv ==
  ASSUME IInv, Download
  PROVE  IInv'
<1>1. /\ pc = "download" /\ pc' = "write_back"
      /\ Drained
      /\ UNCHANGED <<iter, pixelPtr, written, queue, done, reg>>
      /\ mem' = [mem EXCEPT ![Alloc("host_img_out")] = mem["img_out"]]
  BY AllocFacts DEF Download, Step, DeepCopy
<1>2. QueueShape' /\ WorkersIdle' /\ Computed' /\ ItemsDone'
  BY <1>1, WorkersStayIdle
<1>3. TypeOK
  BY DEF IInv
<1>4. TypeOK'
  BY <1>1, <1>3, MemTypes DEF TypeOK, ExecTypeOK, HostPoints
<1>5. /\ mem'["img_in"] = mem["img_in"]
      /\ mem'["img_out"] = mem["img_out"]
      /\ mem'[Alloc("host_img_out")] = mem["img_out"]
  BY <1>1, <1>3, MemTypes, AllocFacts
<1>6. mem["img_out"] = mem["img_in"]
  BY <1>1 DEF IInv, Delivery, AfterLoop
<1>7. RedDone' /\ BlackDone' /\ LoopCounter' /\ BeforeLoop' /\ BorderBlack'
  BY <1>1, <1>5 DEF IInv, RedDone, BlackDone, LoopCounter, BeforeLoop,
                    BorderBlack, InLoop, AfterLoop
<1>8. Delivery'
  BY <1>1, <1>5, <1>6 DEF IInv, Delivery, AfterLoop, Alloc, Mirrors, MirrorOf
<1> QED
  BY <1>2, <1>4, <1>7, <1>8 DEF IInv

LEMMA WriteBackInv ==
  ASSUME IInv, WriteBack
  PROVE  IInv'
<1>1. /\ pc = "write_back" /\ pc' = "finalize"
      /\ pixelPtr' = [n \in 0 .. PadSize - 1 |->
                        mem[Alloc("host_img_out")][CellAt(n)]]
      /\ UNCHANGED <<iter, written, mem, queue, done, reg>>
  BY DEF WriteBack, Step, execVars
<1>2. QueueShape' /\ WorkersIdle' /\ Computed' /\ ItemsDone'
  BY <1>1, HostAtRest, WorkersStayIdle
<1>3. pixelPtr' \in Mats
  BY <1>1, MemTypes, ImageTypes DEF IInv
<1>4. TypeOK'
  BY <1>1, <1>3 DEF IInv, TypeOK, ExecTypeOK, HostPoints
<1>5. RedDone' /\ BlackDone' /\ LoopCounter' /\ BeforeLoop' /\ BorderBlack'
  BY <1>1 DEF IInv, RedDone, BlackDone, LoopCounter, BeforeLoop,
              BorderBlack, InLoop, AfterLoop
<1>6. Delivery'
  BY <1>1 DEF IInv, Delivery, AfterLoop
<1> QED
  BY <1>2, <1>4, <1>5, <1>6 DEF IInv

LEMMA FinishInv ==
  ASSUME IInv, Finalize \/ WriteImage
  PROVE  IInv'
<1>1. /\ \/ pc = "finalize" /\ pc' = "write" /\ written' = written
         \/ /\ pc = "write" /\ pc' = "done"
            /\ written' = written \cup {Crop(pixelPtr)}
      /\ UNCHANGED <<iter, pixelPtr, mem, queue, done, reg>>
  BY DEF Finalize, WriteImage, Step, Fence, execVars
<1>2. QueueShape' /\ WorkersIdle' /\ Computed' /\ ItemsDone'
  BY <1>1, HostAtRest, WorkersStayIdle
<1>3. written' \subseteq [Pixels -> Byte]
  BY <1>1, ImageTypes DEF IInv, TypeOK
<1>4. TypeOK'
  BY <1>1, <1>3 DEF IInv, TypeOK, ExecTypeOK, HostPoints
<1>5. RedDone' /\ BlackDone' /\ LoopCounter' /\ BeforeLoop' /\ BorderBlack'
  BY <1>1 DEF IInv, RedDone, BlackDone, LoopCounter, BeforeLoop,
              BorderBlack, InLoop, AfterLoop
<1>6. Delivery'
  BY <1>1 DEF IInv, Delivery, AfterLoop
<1> QED
  BY <1>2, <1>4, <1>5, <1>6 DEF IInv

-----------------------------------------------------------------------------
(* The workers' steps.                                                     *)

LEMMA KernelRunning ==
  ASSUME IInv, queue # <<>>
  PROVE  /\ ~ Drained
         /\ \/ pc = "fence_red" /\ queue = <<"apply_gauss_red">>
            \/ pc = "fence_black" /\ queue = <<"apply_gauss_black">>
  BY DEF IInv, QueueShape, Drained

LEMMA HostKept ==
  ASSUME IInv, UNCHANGED <<pc, iter, pixelPtr, written, mem>>
  PROVE  LoopCounter' /\ BeforeLoop' /\ BorderBlack' /\ Delivery'
<1>1. PaddedImage' = PaddedImage
  BY DEF PaddedImage
<1>2. LoopCounter' /\ BorderBlack' /\ Delivery'
  BY DEF IInv, LoopCounter, BorderBlack, Delivery
<1>3. BeforeLoop'
  BY <1>1 DEF IInv, BeforeLoop
<1> QED
  BY <1>2, <1>3

LEMMA LoadPixelInv ==
  ASSUME IInv, NEW w \in Workers, LoadPixel(w)
  PROVE  IInv'
<1> DEFINE m == Mean5(mem["img_in"], Target(Current(w)))
<1>1. /\ Working(w, ItemCount) /\ Active(Current(w))
      /\ reg' = [reg EXCEPT ![w] = m]
      /\ UNCHANGED <<pc, iter, pixelPtr, written, mem, queue, done>>
  BY DEF LoadPixel, Load, hostVars
<1>2. TypeOK /\ mem["img_in"] \in Views
  BY MemTypes DEF IInv
<1>3. m \in Byte
  BY <1>1, <1>2, WorkingItem, MeanIsByte
<1>4. reg \in [Workers -> Byte \cup {NoValue}]
  BY <1>2 DEF TypeOK, ExecTypeOK
<1> HIDE DEF m
<1>5. TypeOK'
  BY <1>1, <1>2, <1>3, <1>4 DEF TypeOK, ExecTypeOK
<1>6. Computed'
  <2> SUFFICES ASSUME NEW v \in Workers, reg'[v] # NoValue
               PROVE  /\ Working(v, ItemCount)'
                      /\ Active(Current(v))'
                      /\ reg'[v] = Mean5(mem["img_in"], Target(Current(v)))'
    BY DEF Computed
  <2>1. Working(v, ItemCount)' = Working(v, ItemCount)
        /\ Active(Current(v))' = Active(Current(v))
        /\ Current(v)' = Current(v)
    BY <1>1, ItemsKept DEF Working, Active, Current
  <2>2. CASE v = w
    BY <1>1, <1>4, <2>1, <2>2 DEF m
  <2>3. CASE v # w
    BY <1>1, <1>4, <2>1, <2>3 DEF IInv, Computed
  <2> QED
    BY <2>2, <2>3
<1>7. QueueShape' /\ WorkersIdle' /\ ItemsDone' /\ RedDone' /\ BlackDone'
  BY <1>1, ItemsKept DEF IInv, QueueShape, WorkersIdle, ItemsDone, RedDone,
     BlackDone, ColourDone, Correct, Drained, Active
<1>8. LoopCounter' /\ BeforeLoop' /\ BorderBlack' /\ Delivery'
  BY <1>1, HostKept
<1> QED
  BY <1>5, <1>6, <1>7, <1>8 DEF IInv

LEMMA StorePixelInv ==
  ASSUME IInv, NEW w \in Workers, StorePixel(w)
  PROVE  IInv'
<1> DEFINE t == Target(Current(w))
<1>1. /\ Working(w, ItemCount) /\ reg[w] # NoValue
      /\ mem' = [mem EXCEPT !["img_out"][t] = reg[w]]
      /\ reg' = [reg EXCEPT ![w] = NoValue]
      /\ done' = [done EXCEPT ![w] = @ + 1]
      /\ UNCHANGED <<pc, iter, pixelPtr, written, queue>>
  BY DEF StorePixel, Store, hostVars
<1>2. TypeOK
  BY DEF IInv
<1>3. /\ done \in [Workers -> Nat]
      /\ reg \in [Workers -> Byte \cup {NoValue}]
      /\ reg[w] \in Byte
  BY <1>1, <1>2 DEF TypeOK, ExecTypeOK
<1>4. /\ t \in Inner /\ t \in Cells /\ t \notin Ring
      /\ Current(w) \in 0 .. ItemCount - 1
  BY <1>1, <1>2, WorkingItem, InnerIsCell DEF Ring
<1>5. reg[w] = Mean5(mem["img_in"], t)
  BY <1>1 DEF IInv, Computed
<1>6. /\ \/ pc = "fence_red" /\ queue = <<"apply_gauss_red">>
         \/ pc = "fence_black" /\ queue = <<"apply_gauss_black">>
      /\ ~ Drained /\ ~ Drained'
  BY <1>1, KernelRunning DEF Working, Drained
<1> HIDE DEF t
<1>7. /\ mem'["img_in"] = mem["img_in"]
      /\ mem' \in [Device \cup Mirrors -> Views]
      /\ \A c \in Cells : mem'["img_out"][c] =
           (IF c = t THEN reg[w] ELSE mem["img_out"][c])
  BY <1>1, <1>2, <1>3, <1>4, MemTypes DEF Views
<1>8. \A c \in Inner : Correct(c) \/ c = t => Correct(c)'
  <2>1. \A c \in Inner : Mean5(mem["img_in"], c)' = Mean5(mem["img_in"], c)
    BY <1>7
  <2> QED
    BY <1>5, <1>7, <2>1, InnerIsCell DEF Correct
<1>9. TypeOK'
  BY <1>1, <1>2, <1>3, <1>7 DEF TypeOK, ExecTypeOK
<1>10. Computed'
  <2> SUFFICES ASSUME NEW v \in Workers, reg'[v] # NoValue
               PROVE  /\ Working(v, ItemCount)'
                      /\ Active(Current(v))'
                      /\ reg'[v] = Mean5(mem["img_in"], Target(Current(v)))'
    BY DEF Computed
  <2>1. v # w /\ Current(v)' = Current(v) /\ reg'[v] = reg[v]
    BY <1>1, <1>3, ItemAfter
  <2>2. Working(v, ItemCount)' = Working(v, ItemCount)
        /\ Active(Current(v))' = Active(Current(v))
    BY <1>1, <2>1 DEF Working, Active, Current
  <2>3. Mean5(mem["img_in"], Target(Current(v)))'
          = Mean5(mem["img_in"], Target(Current(v)))
    BY <1>7, <2>1
  <2> QED
    BY <2>1, <2>2, <2>3 DEF IInv, Computed
<1>11. ItemsDone'
  <2> SUFFICES ASSUME NEW v \in Workers, NEW n \in 0 .. ItemCount - 1,
                      First(v, ItemCount) <= n, n < Current(v)', Active(n)'
               PROVE  Correct(Target(n))'
    BY DEF ItemsDone
  <2>1. Active(n) /\ Target(n) \in Inner
    BY <1>1, TargetIsInner DEF Active
  <2>2. CASE n < Current(v)
    BY <1>6, <1>8, <2>1, <2>2 DEF IInv, ItemsDone
  <2>3. CASE ~ (n < Current(v))
    <3>1. v = w /\ n < Current(w) + 1
      BY <1>1, <1>3, <2>3, ItemAfter
    <3>2. n = Current(w)
      BY <1>4, <2>3, <3>1
    <3> QED
      BY <1>8, <2>1, <3>1, <3>2 DEF t
  <2> QED
    BY <2>2, <2>3
<1>12. RedDone' /\ BlackDone'
  BY <1>1, <1>6, <1>8 DEF IInv, RedDone, BlackDone, ColourDone
<1>13. BorderBlack'
  BY <1>1, <1>4, <1>7 DEF IInv, BorderBlack, Ring
<1>14. QueueShape' /\ WorkersIdle' /\ LoopCounter' /\ BeforeLoop' /\ Delivery'
  BY <1>1, <1>6 DEF IInv, QueueShape, WorkersIdle, LoopCounter, BeforeLoop,
                    Delivery, InLoop, AfterLoop
<1> QED
  BY <1>9, <1>10, <1>11, <1>12, <1>13, <1>14 DEF IInv

LEMMA SkipPixelInv ==
  ASSUME IInv, NEW w \in Workers, SkipPixel(w)
  PROVE  IInv'
<1>1. /\ Working(w, ItemCount) /\ ~ Active(Current(w))
      /\ reg[w] = NoValue
      /\ done' = [done EXCEPT ![w] = @ + 1]
      /\ UNCHANGED <<pc, iter, pixelPtr, written, mem, queue, reg>>
  BY DEF SkipPixel, Skip, hostVars
<1>2. TypeOK /\ done \in [Workers -> Nat]
  BY DEF IInv, TypeOK, ExecTypeOK
<1>3. ~ Drained /\ ~ Drained'
  BY <1>1 DEF Working, Drained
<1>4. TypeOK'
  BY <1>1, <1>2 DEF TypeOK, ExecTypeOK
<1>5. Computed'
  <2> SUFFICES ASSUME NEW v \in Workers, reg'[v] # NoValue
               PROVE  /\ Working(v, ItemCount)'
                      /\ Active(Current(v))'
                      /\ reg'[v] = Mean5(mem["img_in"], Target(Current(v)))'
    BY DEF Computed
  <2>1. v # w /\ Current(v)' = Current(v) /\ reg'[v] = reg[v]
    BY <1>1, <1>2, ItemAfter
  <2>2. Working(v, ItemCount)' = Working(v, ItemCount)
        /\ Active(Current(v))' = Active(Current(v))
    BY <1>1, <2>1 DEF Working, Active, Current
  <2> QED
    BY <1>1, <2>1, <2>2 DEF IInv, Computed
<1>6. ItemsDone'
  <2> SUFFICES ASSUME NEW v \in Workers, NEW n \in 0 .. ItemCount - 1,
                      First(v, ItemCount) <= n, n < Current(v)', Active(n)'
               PROVE  Correct(Target(n))'
    BY DEF ItemsDone
  <2>1. Active(n)
    BY <1>1 DEF Active
  <2>2. n < Current(v)
    <3>1. /\ Current(w) \in Nat /\ Current(w)' = Current(w) + 1
          /\ v # w => Current(v)' = Current(v)
      BY <1>1, <1>2, CurrentTypes, ItemAfter
    <3>2. v # w \/ n # Current(w)
      BY <1>1, <2>1
    <3> QED
      BY <3>1, <3>2
  <2>3. Correct(Target(n))
    BY <1>3, <2>1, <2>2 DEF IInv, ItemsDone
  <2> QED
    BY <1>1, <2>3 DEF Correct
<1>7. QueueShape' /\ WorkersIdle' /\ RedDone' /\ BlackDone'
  BY <1>1, <1>3 DEF IInv, QueueShape, WorkersIdle, RedDone, BlackDone,
                    ColourDone, Correct
<1>8. LoopCounter' /\ BeforeLoop' /\ BorderBlack' /\ Delivery'
  BY <1>1, HostKept
<1> QED
  BY <1>4, <1>5, <1>6, <1>7, <1>8 DEF IInv

\* When all workers have reached the end of their blocks, every pixel of the
\* kernel's colour is done.
LEMMA CompleteKernel ==
  ASSUME IInv, queue # <<>>,
         \A w \in Workers : Current(w) >= End(w, ItemCount)
  PROVE  ColourDone(ColourOf(Head(queue)))
<1> SUFFICES ASSUME NEW c \in Inner, Colour(c) = ColourOf(Head(queue))
             PROVE  Correct(c)
  BY DEF ColourDone
<1>1. PICK n \in 0 .. ItemCount - 1 : Target(n) = c
  BY InnerIsTarget
<1>2. PICK w \in Workers : First(w, ItemCount) <= n /\ n < End(w, ItemCount)
  BY ItemsCovered
<1>3. Current(w) \in Nat /\ End(w, ItemCount) \in Nat
  BY ItemTypes, CurrentTypes DEF IInv, TypeOK, ExecTypeOK
<1>4. n < Current(w)
  BY <1>2, <1>3
<1>5. Active(n)
  BY <1>1 DEF Active
<1> QED
  BY <1>1, <1>2, <1>4, <1>5, KernelRunning DEF IInv, ItemsDone

LEMMA EndKernelInv ==
  ASSUME IInv, EndKernel
  PROVE  IInv'
<1>1. /\ queue # <<>>
      /\ \A w \in Workers : Current(w) >= End(w, ItemCount)
      /\ queue' = Tail(queue)
      /\ done' = [w \in Workers |-> 0]
      /\ UNCHANGED <<pc, iter, pixelPtr, written, mem, reg>>
  BY DEF EndKernel, Retire, Current, hostVars
<1>2. \/ pc = "fence_red" /\ queue = <<"apply_gauss_red">>
      \/ pc = "fence_black" /\ queue = <<"apply_gauss_black">>
  BY <1>1, KernelRunning
<1>3. queue' = <<>> /\ Drained'
  <2>1. \A k : Tail(<<k>>) = <<>>
    OBVIOUS
  <2> QED
    BY <1>1, <1>2, <2>1 DEF Drained
<1>4. ColourDone(ColourOf(Head(queue)))
  BY <1>1, CompleteKernel
<1>5. TypeOK'
  BY <1>1, <1>3, ItemTypes DEF IInv, TypeOK, ExecTypeOK
<1>6. Computed'
  <2>1. \A w \in Workers : reg[w] = NoValue
    <3> SUFFICES ASSUME NEW w \in Workers, reg[w] # NoValue
                 PROVE  FALSE
      OBVIOUS
    <3>1. Current(w) < End(w, ItemCount) /\ Current(w) \in Nat
      BY CurrentTypes DEF IInv, Computed, Working, TypeOK, ExecTypeOK, Current
    <3> QED
      BY <1>1, <3>1, ItemTypes
  <2> QED
    BY <1>1, <2>1 DEF Computed
<1>7. QueueShape' /\ WorkersIdle' /\ ItemsDone'
  BY <1>1, <1>3 DEF QueueShape, WorkersIdle, ItemsDone
<1>8. RedDone' /\ BlackDone'
  <2>1. \A colour \in {RED, BLACK} : ColourDone(colour) => ColourDone(colour)'
    BY <1>1 DEF ColourDone, Correct
  <2>2. CASE pc = "fence_red" /\ queue = <<"apply_gauss_red">>
    <3>1. ColourOf(Head(queue)) = RED
      BY <2>2 DEF ColourOf
    <3> QED
      BY <1>1, <1>4, <2>1, <2>2, <3>1 DEF RedDone, BlackDone
  <2>3. CASE pc = "fence_black" /\ queue = <<"apply_gauss_black">>
    <3>1. ColourOf(Head(queue)) = BLACK
      BY <2>3 DEF ColourOf
    <3> QED
      BY <1>1, <1>4, <2>1, <2>3, <3>1 DEF IInv, RedDone, BlackDone
  <2> QED
    BY <1>2, <2>2, <2>3
<1>9. LoopCounter' /\ BeforeLoop' /\ BorderBlack' /\ Delivery'
  BY <1>1, HostKept
<1> QED
  BY <1>5, <1>6, <1>7, <1>8, <1>9 DEF IInv

-----------------------------------------------------------------------------
(* The theorems about invariants.                                          *)

LEMMA NextInv == IInv /\ [Next]_vars => IInv'
<1> SUFFICES ASSUME IInv, [Next]_vars
             PROVE  IInv'
  OBVIOUS
<1>1. CASE Host
  BY <1>1, FillMirrorsInv, UploadInInv, UploadOutInv, LaunchInv, FenceInv,
     FeedBackInv, DownloadInv, WriteBackInv, FinishInv DEF Host,
     Upload, Iterate, Deliver
<1>2. CASE EndKernel
  BY <1>2, EndKernelInv
<1>3. ASSUME NEW w \in Workers, Worker(w)
      PROVE  IInv'
  BY <1>3, LoadPixelInv, StorePixelInv, SkipPixelInv DEF Worker
<1>4. CASE UNCHANGED vars
  <2>1. /\ UNCHANGED <<pc, iter, pixelPtr, written, mem>>
        /\ UNCHANGED <<queue, done, reg>>
    BY <1>4 DEF vars
  <2>2. LoopCounter' /\ BeforeLoop' /\ BorderBlack' /\ Delivery'
    BY <2>1, HostKept
  <2>3. TypeOK'
    BY <2>1 DEF IInv, TypeOK, ExecTypeOK
  <2>4. Computed' /\ ItemsDone'
    BY <2>1, ItemsKept DEF IInv, Computed, ItemsDone, Working, Active, Correct,
       Drained, Current
  <2>5. QueueShape' /\ WorkersIdle' /\ RedDone' /\ BlackDone'
    BY <2>1 DEF IInv, QueueShape, WorkersIdle, RedDone, BlackDone,
                ColourDone, Correct, Drained
  <2> QED
    BY <2>2, <2>3, <2>4, <2>5 DEF IInv
<1> QED
  BY <1>1, <1>2, <1>3, <1>4 DEF Next, Done

THEOREM Invariance == Spec => []IInv
  BY InitInv, NextInv, PTL DEF Spec

\* What a worker stores in an element of a view is a byte, and no index of the
\* program leaves its array.
THEOREM Typing == Spec => []TypeOK
<1>1. IInv => TypeOK
  BY DEF IInv
<1> QED
  BY <1>1, Invariance, PTL

\* The border of the image stays black in every iteration.
THEOREM BorderStaysBlack == Spec => []BorderBlack
<1>1. IInv => BorderBlack
  BY DEF IInv
<1> QED
  BY <1>1, Invariance, PTL

\* No step writes img_in while a kernel that reads it is not complete.
THEOREM InputStable == Spec => KernelInputStable
<1>1. IInv /\ [Next]_vars => [queue # <<>> => mem'["img_in"] = mem["img_in"]]_vars
  <2> SUFFICES ASSUME IInv, Next, queue # <<>>
               PROVE  mem'["img_in"] = mem["img_in"]
    BY DEF vars
  <2>1. pc \in {"fence_red", "fence_black"}
    BY KernelRunning
  <2>2. CASE Host
    BY <2>1, <2>2 DEF Host, Upload, Iterate, Deliver, FillMirrors, UploadIn,
       UploadOut, LaunchRed,
       FenceRed, LaunchBlack, FenceBlack, FeedBack, Download, WriteBack,
       Finalize, WriteImage, Step, Fence, execVars
  <2>3. CASE EndKernel
    BY <2>3 DEF EndKernel, Retire
  <2>4. ASSUME NEW w \in Workers, Worker(w)
        PROVE  mem'["img_in"] = mem["img_in"]
    <3>1. \/ mem' = mem
          \/ mem' = [mem EXCEPT !["img_out"][Target(Current(w))] = reg[w]]
      BY <2>4 DEF Worker, LoadPixel, StorePixel, SkipPixel, Load, Store, Skip
    <3> QED
      BY <3>1, MemTypes DEF IInv
  <2>5. CASE Done
    BY <2>5 DEF Done, vars
  <2> QED
    BY <2>2, <2>3, <2>4, <2>5 DEF Next
<1> QED
  BY <1>1, Invariance, PTL DEF Spec, KernelInputStable

\* Two workers never compute the same pixel at the same time.
THEOREM NoDoubleWrite == Spec => []OneWriter
<1>1. IInv => OneWriter
  <2> SUFFICES ASSUME IInv, NEW v \in Workers, NEW w \in Workers,
                      v # w, reg[v] # NoValue, reg[w] # NoValue,
                      Target(Current(v)) = Target(Current(w))
               PROVE  FALSE
    BY DEF OneWriter
  <2>1. Working(v, ItemCount) /\ Working(w, ItemCount)
    BY DEF IInv, Computed
  <2>2. Current(v) \in 0 .. ItemCount - 1 /\ Current(w) \in 0 .. ItemCount - 1
    BY <2>1, WorkingItem DEF IInv
  <2>3. Current(v) = Current(w)
    <3>1. /\ TileNumber(Target(Current(v)), Cols, Channels, PolicyLower) = Current(v)
          /\ TileNumber(Target(Current(w)), Cols, Channels, PolicyLower) = Current(w)
      BY <2>2, PolicyIsInner, GridTypes, TileOffsetCoordinates
        DEF Target, ItemCount
    <3> QED
      BY <3>1
  <2> DEFINE chunk == TileWork(ItemCount)
  <2>4. /\ ItemCount \in Nat /\ PoolSize \in Nat \ {0} /\ chunk \in Nat \ {0}
        /\ v \in 0 .. PoolSize - 1 /\ w \in 0 .. PoolSize - 1
    BY ItemTypes, RedBlackAssumption DEF Workers
  <2>5. /\ PartFirst(ItemCount, chunk, PoolSize, v) <= Current(v)
        /\ Current(v) < PartEnd(ItemCount, chunk, PoolSize, v)
        /\ PartFirst(ItemCount, chunk, PoolSize, w) <= Current(v)
        /\ Current(v) < PartEnd(ItemCount, chunk, PoolSize, w)
    BY <2>1, <2>3, CurrentTypes DEF IInv, TypeOK, ExecTypeOK, Working, Current,
       First, End
  <2> QED
    BY <2>2, <2>4, <2>5, PartitionDisjoint
<1> QED
  BY <1>1, Invariance, PTL

-----------------------------------------------------------------------------
(* The program implements Smoothing.                                       *)

LEMMA AbstractGrid ==
  /\ Abstract!Cells = Cells
  /\ Abstract!Inner = Inner
  /\ Abstract!Pixels = Pixels
  /\ Abstract!PADDING = PADDING
  /\ \A img, c : Abstract!Mean5(img, c) = Mean5(img, c)
  /\ \A c : Abstract!Shifted(c) = Shifted(c)
<1>1. Abstract!PADDING = PADDING
  BY DEF Abstract!PADDING, PADDING
<1>2. Abstract!PadRows = PadRows /\ Abstract!PadCols = PadCols
  BY <1>1 DEF Abstract!PadRows, Abstract!PadCols, PadRows, PadCols
<1>3. Abstract!Cells = Cells /\ Abstract!Inner = Inner
  BY <1>1, <1>2 DEF Abstract!Cells, Abstract!Inner, Cells, Inner
<1>4. Abstract!Pixels = Pixels
  BY DEF Abstract!Pixels, Pixels
<1>5. \A img, c : Abstract!Mean5(img, c) = Mean5(img, c)
  BY DEF Abstract!Mean5, Mean5
<1>6. \A c : Abstract!Shifted(c) = Shifted(c)
  BY <1>1 DEF Abstract!Shifted, Shifted
<1> QED
  BY <1>1, <1>3, <1>4, <1>5, <1>6

LEMMA InitRefines == Init => Abstract!Init
<1> SUFFICES ASSUME Init
             PROVE  Abstract!Init
  OBVIOUS
<1>1. PICK img \in Images : pixelPtr = MakeBorder(img)
  BY DEF Init, HostInit
<1>2. CurrentImage = Abstract!Bordered(img)
  BY <1>1, BorderedImage, AbstractGrid
    DEF Init, HostInit, CurrentImage, Abstract!Bordered
<1> QED
  BY <1>2 DEF Init, HostInit, Abstract!Init

LEMMA FeedBackRefines ==
  ASSUME IInv, FeedBack
  PROVE  Abstract!Sweep
<1> DEFINE in == mem["img_in"]
           out == mem["img_out"]
<1>1. /\ CurrentImage = in /\ CurrentImage' = out
      /\ iter < ITERATIONS /\ iter' = iter + 1 /\ written' = written
  <2>1. pc' # "fill" /\ pc' # "upload_in"
    BY FeedBackFacts DEF LoopHead
  <2> QED
    BY <2>1, FeedBackFacts DEF CurrentImage
<1>2. ColourDone(RED) /\ ColourDone(BLACK)
  BY FeedBackFacts DEF IInv, RedDone, BlackDone
<1>3. \A c \in Inner : out[c] = Mean5(in, c)
  BY <1>2, ColourCases DEF ColourDone, Correct
<1>4. \A c \in Ring : out[c] = in[c]
  BY FeedBackFacts DEF IInv, BorderBlack
<1>5. in \in Views /\ out \in Views
  BY MemTypes DEF IInv
<1> HIDE DEF in, out
<1>6. out = [c \in Cells |-> IF c \in Inner THEN Mean5(in, c) ELSE in[c]]
  <2>1. \A c \in Cells : out[c] = IF c \in Inner THEN Mean5(in, c) ELSE in[c]
    BY <1>3, <1>4, InnerIsCell DEF Ring
  <2> QED
    BY <1>5, <2>1 DEF Views
<1>7. out = Abstract!Smooth(in)
  BY <1>6, AbstractGrid DEF Abstract!Smooth
<1> QED
  BY <1>1, <1>7 DEF Abstract!Sweep

LEMMA WriteImageRefines ==
  ASSUME IInv, WriteImage
  PROVE  Abstract!Deliver
<1> DEFINE in == mem["img_in"]
<1>1. /\ pc = "write" /\ pc' = "done"
      /\ written' = written \cup {Crop(pixelPtr)}
      /\ UNCHANGED <<iter, mem>>
  BY DEF WriteImage, Step, execVars
<1>2. CurrentImage = in /\ CurrentImage' = in
  BY <1>1 DEF CurrentImage
<1>3. /\ written = {} /\ iter = ITERATIONS
      /\ pixelPtr = [n \in 0 .. PadSize - 1 |-> in[CellAt(n)]]
  BY <1>1 DEF IInv, Delivery, LoopCounter, AfterLoop
<1> HIDE DEF in
<1>4. \A p \in Pixels :
        pixelPtr[Index(<<p[1] + PADDING, p[2] + PADDING, p[3]>>)]
          = in[<<p[1] + PADDING, p[2] + PADDING, p[3]>>]
  BY <1>3, PixelIsCell, CellAtIndex
<1>5. Crop(pixelPtr) = Abstract!WithoutBorder(in)
  BY <1>4, AbstractGrid DEF Crop, Abstract!WithoutBorder
<1> QED
  BY <1>1, <1>2, <1>3, <1>5 DEF Abstract!Deliver

\* Every other step leaves the image, the sweep count and the result alone.
LEMMA OtherStepsStutter ==
  ASSUME IInv, [Next]_vars, ~ FeedBack, ~ WriteImage
  PROVE  UNCHANGED <<CurrentImage, iter, written>>
<1>1. CASE FillMirrors
  BY <1>1 DEF FillMirrors, Step, CurrentImage
<1>2. CASE UploadIn
  <2>1. mem'["img_in"] = PaddedImage
    BY <1>2, MemTypes, AllocFacts
      DEF IInv, BeforeLoop, UploadIn, Step, DeepCopy
  <2> QED
    BY <1>2, <2>1 DEF UploadIn, Step, CurrentImage, PaddedImage
<1>3. CASE UploadOut \/ Download
  <2>1. mem'["img_in"] = mem["img_in"]
    BY <1>3, MemTypes, AllocFacts
      DEF IInv, UploadOut, Download, DeepCopy
  <2>2. /\ pc \notin {"fill", "upload_in"} /\ pc' \notin {"fill", "upload_in"}
        /\ UNCHANGED <<iter, written>>
    BY <1>3 DEF UploadOut, Download, Step, LoopHead
  <2> QED
    BY <2>1, <2>2 DEF CurrentImage
<1>4. CASE LaunchRed \/ FenceRed \/ LaunchBlack \/ FenceBlack
             \/ WriteBack \/ Finalize
  <2>1. /\ pc \notin {"fill", "upload_in"} /\ pc' \notin {"fill", "upload_in"}
        /\ UNCHANGED <<mem, iter, written>>
    BY <1>4 DEF LaunchRed, FenceRed, LaunchBlack, FenceBlack, WriteBack,
       Finalize, Step, Fence, ParallelFor, execVars
  <2> QED
    BY <2>1 DEF CurrentImage
<1>5. CASE EndKernel \/ \E w \in Workers : Worker(w)
  <2>1. queue # <<>> /\ UNCHANGED hostVars
    BY <1>5 DEF EndKernel, Retire, Worker, LoadPixel, StorePixel, SkipPixel,
       Store, Working
  <2>2. pc \in {"fence_red", "fence_black"}
    BY <2>1, KernelRunning
  <2>3. mem'["img_in"] = mem["img_in"]
    <3>1. \/ mem' = mem
          \/ \E w \in Workers :
               mem' = [mem EXCEPT !["img_out"][Target(Current(w))] = reg[w]]
      BY <1>5 DEF EndKernel, Retire, Worker, LoadPixel, StorePixel,
         SkipPixel, Load, Store, Skip
    <3> QED
      BY <3>1, MemTypes DEF IInv
  <2> QED
    BY <2>1, <2>2, <2>3 DEF CurrentImage, hostVars
<1>6. CASE UNCHANGED vars
  BY <1>6 DEF vars, CurrentImage
<1> QED
  BY <1>1, <1>2, <1>3, <1>4, <1>5, <1>6 DEF Next, Host, Upload,
     Iterate, Deliver, Done

\* The red-black program smooths the whole image ITERATIONS times and then
\* writes it, once: every step is a sweep, the delivery or invisible.
THEOREM Refinement == Spec => SmoothsWholeImage
<1>1. IInv /\ [Next]_vars => [Abstract!Next]_(Abstract!smoothVars)
  <2> SUFFICES ASSUME IInv, [Next]_vars
               PROVE  [Abstract!Next]_(Abstract!smoothVars)
    OBVIOUS
  <2>1. CASE FeedBack
    BY <2>1, FeedBackRefines DEF Abstract!Next
  <2>2. CASE WriteImage
    BY <2>2, WriteImageRefines DEF Abstract!Next
  <2>3. CASE ~ FeedBack /\ ~ WriteImage
    BY <2>3, OtherStepsStutter DEF Abstract!smoothVars
  <2> QED
    BY <2>1, <2>2, <2>3
<1> QED
  BY <1>1, InitRefines, Invariance, PTL
    DEF Spec, SmoothsWholeImage, Abstract!Spec

-----------------------------------------------------------------------------
(* The program around the filter.                                          *)

\* Where the loop is when, and with what.
StageOrder ==
  /\ stage = "load" =>
       i = 0 /\ data["image"] = "image_memory"
  /\ stage = "failed" => i = 0
  /\ stage \in {"noise", "swap"} => i < NOISE_ITER
  /\ stage \in {"pad", "filter", "write", "done"} => i = NOISE_ITER
  /\ data["image"] # data["mColorNoise"]
  /\ stage # "done" => saved = Stage!NoImage

\* The filter begins with the hand-over, and main goes on when it has written
\* its picture.
FilterOrder ==
  /\ stage \in {"load", "noise", "swap", "pad", "failed"} =>
       pc = "fill" /\ handed = Stage!NoImage
  /\ stage \in {"filter", "write", "done"} => handed \in [Cells -> Byte]
  /\ stage \in {"write", "done"} => pc = "done"
  /\ pc = "done" => written # {}

StageInv == StageTypeOK /\ StageOrder /\ FilterOrder

ProgramInv == IInv /\ StageInv

-----------------------------------------------------------------------------
(* The images of the noise loop.                                           *)

LEMMA StageGrid ==
  /\ Stage!Cells = Cells
  /\ Stage!Inner = Inner
  /\ Stage!Extent = Inner
  /\ \A c : Stage!Shifted(c) = Shifted(c)
<1>1. Stage!PADDING = PADDING
  BY DEF Stage!PADDING, PADDING
<1>2. Stage!PadRows = PadRows /\ Stage!PadCols = PadCols
  BY <1>1 DEF Stage!PadRows, Stage!PadCols, PadRows, PadCols
<1>3. Stage!Cells = Cells /\ Stage!Inner = Inner
  BY <1>1, <1>2 DEF Stage!Cells, Stage!Inner, Cells, Inner
<1>4. Stage!Extent = Inner
  BY <1>3 DEF Stage!Extent
<1>5. \A c : Stage!Shifted(c) = Shifted(c)
  BY <1>1 DEF Stage!Shifted, Shifted
<1> QED
  BY <1>3, <1>4, <1>5

LEMMA NoiseIterTypes == NOISE_ITER \in Nat /\ 0 < NOISE_ITER
  BY RedBlackProgramAssumption

LEMMA ClampIsByte ==
  ASSUME NEW n \in Int
  PROVE  Stage!Clamp(n) \in Byte /\ Stage!Clamp(n) = Whole!Limited(n)
  BY DEF Stage!Clamp, Whole!Limited, Byte

LEMMA NoisedIsImage ==
  ASSUME NEW img \in [Inner -> Byte], NEW noise \in NoiseFields
  PROVE  /\ [c \in Inner |-> Stage!Clamp(img[c] + noise[c])] \in [Inner -> Byte]
         /\ [c \in Inner |-> Stage!Clamp(img[c] + noise[c])]
              = [c \in DOMAIN img |-> Whole!Limited(img[c] + noise[c])]
<1>1. noise \in [Cells -> Short]
  BY RedBlackProgramAssumption
<1>2. ASSUME NEW c \in Inner
      PROVE  img[c] + noise[c] \in Int
  <2>1. img[c] \in Byte /\ noise[c] \in Short
    BY <1>1, InnerIsCell
  <2>2. Byte \subseteq Int /\ Short \subseteq Int
    BY DEF Byte, Short
  <2>3. \A x, y \in Int : x + y \in Int
    OBVIOUS
  <2> QED
    BY <2>1, <2>2, <2>3, Zenon
<1> QED
  BY <1>2, ClampIsByte

\* A picture is not the Mat without data, with or without its border.
LEMMA ImageIsSomething ==
  /\ \A img \in [Cells -> Byte] : img # Stage!NoImage
  /\ \A img : [c \in Inner |-> img[c]] # Stage!NoImage
<1>1. <<1, 1, 0>> \in Inner /\ <<1, 1, 0>> \in Cells
  BY GridTypes DEF Inner, Cells, PADDING
<1>2. DOMAIN Stage!NoImage = {}
  BY DEF Stage!NoImage
<1> QED
  BY <1>1, <1>2

LEMMA StageFacts ==
  ASSUME StageInv
  PROVE  /\ i \in 0 .. NOISE_ITER
         /\ data["image"] \in Stage!Buffers
         /\ data["mColorNoise"] \in Stage!Buffers
         /\ data["image"] # data["mColorNoise"]
         /\ Stage!Source \in [Inner -> Byte]
         /\ Stage!Destination \in [Inner -> Byte]
  BY DEF StageInv, StageTypeOK, StageOrder, Stage!Headers, Stage!Source,
     Stage!Destination

-----------------------------------------------------------------------------
(* The steps of the noise loop keep the invariant.                         *)

LEMMA RefuseInv ==
  ASSUME StageInv, Stage!Refuse, UNCHANGED vars
  PROVE  StageInv'
  BY DEF Stage!Refuse, StageInv, StageTypeOK, StageOrder, FilterOrder, vars

LEMMA LoadedBuffers ==
  ASSUME StageInv, Stage!Load
  PROVE  /\ stage = "load" /\ stage' = "noise" /\ i = 0
         /\ UNCHANGED <<i, data, handed, saved>>
         /\ buffers' \in [Stage!Buffers -> [Inner -> Byte]]
         /\ Stage!Source' \in {Stage!InPadded(picture) : picture \in Pictures}
<1>1. PICK picture \in Pictures, garbage \in Garbage :
        buffers' = [image_memory |-> Stage!InPadded(picture),
                    noise_memory |-> Stage!On(Stage!Extent, garbage)]
  BY DEF Stage!Load
<1>2. Stage!On(Stage!Extent, garbage) \in [Inner -> Byte]
  <2>1. garbage \in [Cells -> Byte]
    BY RedBlackProgramAssumption
  <2> QED
    BY <2>1, StageGrid, InnerIsCell DEF Stage!On
<1>3. Stage!InPadded(picture) \in [Inner -> Byte]
  <2>1. picture \in [Pixels -> Byte]
    BY RedBlackProgramAssumption
  <2> QED
    BY <2>1, StageGrid, ShiftedIsPixel DEF Stage!InPadded
<1>4. buffers' \in [Stage!Buffers -> [Inner -> Byte]]
  BY <1>1, <1>2, <1>3 DEF Stage!Buffers
<1>5. /\ stage = "load" /\ UNCHANGED <<i, data, handed, saved>>
      /\ i = 0 /\ data["image"] = "image_memory"
  BY DEF Stage!Load, StageInv, StageOrder
<1>6. stage' = "noise"
  BY NoiseIterTypes DEF Stage!Load, Stage!LoopHead
<1>7. Stage!Source' = Stage!InPadded(picture)
  BY <1>1, <1>5 DEF Stage!Source
<1> QED
  BY <1>4, <1>5, <1>6, <1>7

LEMMA LoadInv ==
  ASSUME StageInv, Stage!Load, UNCHANGED vars
  PROVE  StageInv'
  BY LoadedBuffers, NoiseIterTypes
     DEF StageInv, StageTypeOK, StageOrder, FilterOrder, vars

LEMMA NoisedBuffers ==
  ASSUME StageInv, Stage!AddGaussianNoise
  PROVE  /\ stage = "noise" /\ stage' = "swap"
         /\ UNCHANGED <<i, data, handed, saved>>
         /\ buffers' \in [Stage!Buffers -> [Inner -> Byte]]
         /\ Stage!Source' = Stage!Source
         /\ \E noise \in NoiseFields :
              Stage!Destination' =
                [c \in DOMAIN Stage!Source |->
                   Whole!Limited(Stage!Source[c] + noise[c])]
<1>1. PICK noise \in NoiseFields :
        buffers' = [buffers EXCEPT ![data["mColorNoise"]] =
                      [c \in Inner |-> Stage!Clamp(Stage!Source[c] + noise[c])]]
  BY StageGrid DEF Stage!AddGaussianNoise
<1>2. /\ stage = "noise" /\ stage' = "swap"
      /\ UNCHANGED <<i, data, handed, saved>>
  BY DEF Stage!AddGaussianNoise
<1> DEFINE after == [c \in Inner |-> Stage!Clamp(Stage!Source[c] + noise[c])]
<1>3. /\ after \in [Inner -> Byte]
      /\ after = [c \in DOMAIN Stage!Source |->
                    Whole!Limited(Stage!Source[c] + noise[c])]
  BY StageFacts, NoisedIsImage
<1>4. buffers' = [buffers EXCEPT ![data["mColorNoise"]] = after]
  BY <1>1
<1> HIDE DEF after
<1>5. buffers' \in [Stage!Buffers -> [Inner -> Byte]]
  BY <1>3, <1>4, StageFacts DEF StageInv, StageTypeOK
<1>6. Stage!Source' = Stage!Source /\ Stage!Destination' = after
  BY <1>2, <1>4, StageFacts
     DEF StageInv, StageTypeOK, Stage!Source, Stage!Destination
<1> QED
  BY <1>2, <1>3, <1>5, <1>6

LEMMA AddGaussianNoiseInv ==
  ASSUME StageInv, Stage!AddGaussianNoise, UNCHANGED vars
  PROVE  StageInv'
  BY NoisedBuffers DEF StageInv, StageTypeOK, StageOrder, FilterOrder, vars

LEMMA SwappedPointers ==
  ASSUME StageInv, Stage!SwapPointers
  PROVE  /\ stage = "swap"
         /\ i' = i + 1 /\ i' \in 0 .. NOISE_ITER
         /\ UNCHANGED <<buffers, handed, saved>>
         /\ \/ /\ stage' = "noise" /\ i' < NOISE_ITER
               /\ data' = Stage!Exchanged
            \/ stage' = "pad" /\ i' = NOISE_ITER /\ data' = data
<1>1. /\ stage = "swap" /\ stage' = Stage!LoopHead(i + 1) /\ i' = i + 1
      /\ data' = (IF i < NOISE_ITER - 1 THEN Stage!Exchanged ELSE data)
      /\ UNCHANGED <<buffers, handed, saved>>
  BY DEF Stage!SwapPointers
<1>2. i \in Nat /\ i < NOISE_ITER
  BY <1>1, StageFacts, NoiseIterTypes DEF StageInv, StageOrder
<1>3. i + 1 \in 0 .. NOISE_ITER
  BY <1>2, NoiseIterTypes
<1>4. CASE i + 1 < NOISE_ITER
  BY <1>1, <1>2, <1>3, <1>4, NoiseIterTypes DEF Stage!LoopHead
<1>5. CASE ~ (i + 1 < NOISE_ITER)
  <2>1. i + 1 = NOISE_ITER /\ ~ (i < NOISE_ITER - 1)
    BY <1>2, <1>5, NoiseIterTypes
  <2> QED
    BY <1>1, <1>3, <1>5, <2>1 DEF Stage!LoopHead
<1> QED
  BY <1>4, <1>5

LEMMA SwapPointersInv ==
  ASSUME StageInv, Stage!SwapPointers, UNCHANGED vars
  PROVE  StageInv'
<1>1. /\ data' \in [Stage!Headers -> Stage!Buffers]
      /\ data'["image"] # data'["mColorNoise"]
  <2>1. /\ Stage!Exchanged \in [Stage!Headers -> Stage!Buffers]
        /\ Stage!Exchanged["image"] # Stage!Exchanged["mColorNoise"]
    BY StageFacts DEF Stage!Exchanged, Stage!Headers
  <2> QED
    BY <2>1, SwappedPointers DEF StageInv, StageTypeOK, StageOrder
<1> QED
  BY <1>1, SwappedPointers
     DEF StageInv, StageTypeOK, StageOrder, FilterOrder, vars

LEMMA PrepareInv ==
  ASSUME ProgramInv, Stage!Prepare, UNCHANGED vars
  PROVE  ProgramInv'
<1>1. IInv'
  BY NextInv DEF ProgramInv
<1>2. StageInv'
  BY RefuseInv, LoadInv, AddGaussianNoiseInv, SwapPointersInv
     DEF ProgramInv, Stage!Prepare
<1> QED
  BY <1>1, <1>2 DEF ProgramInv

-----------------------------------------------------------------------------
(* The hand-over: image_pad is the image before the last pass, with a      *)
(* black border, and the filter may start from it.                         *)

LEMMA HandedImage ==
  ASSUME StageInv, HandOver
  PROVE  /\ stage = "pad" /\ stage' = "filter" /\ pc = "fill"
         /\ handed = Stage!NoImage
         /\ handed' = Whole!Bordered(Stage!Source)
         /\ handed' \in [Cells -> Byte]
         /\ \A c \in Ring : handed'[c] = 0
         /\ pixelPtr' = Bytes(handed')
         /\ UNCHANGED <<pc, iter, written, mem, queue, done, reg>>
         /\ UNCHANGED <<i, buffers, data, saved>>
<1>1. /\ stage = "pad" /\ stage' = "filter"
      /\ handed' = Stage!WithBorder(Stage!Source)
      /\ pixelPtr' = Bytes(handed')
      /\ UNCHANGED <<pc, iter, written, mem, queue, done, reg>>
      /\ UNCHANGED <<i, buffers, data, saved>>
  BY DEF HandOver, Stage!TakePixelPtr, execVars
<1>2. pc = "fill" /\ handed = Stage!NoImage
  BY <1>1 DEF StageInv, FilterOrder
<1>3. /\ Whole!Cells = Cells /\ Whole!Inner = Inner
  <2>1. Whole!PADDING = PADDING
    BY DEF Whole!PADDING, PADDING
  <2>2. Whole!PadRows = PadRows /\ Whole!PadCols = PadCols
    BY <2>1 DEF Whole!PadRows, Whole!PadCols, PadRows, PadCols
  <2> QED
    BY <2>1, <2>2 DEF Whole!Cells, Whole!Inner, Cells, Inner
<1>4. handed' = [c \in Cells |-> IF c \in Inner THEN Stage!Source[c] ELSE 0]
  BY <1>1, StageGrid DEF Stage!WithBorder
<1>5. handed' = Whole!Bordered(Stage!Source)
  BY <1>3, <1>4 DEF Whole!Bordered
<1>6. handed' \in [Cells -> Byte] /\ \A c \in Ring : handed'[c] = 0
  <2>1. 0 \in Byte
    BY DEF Byte
  <2> QED
    BY <1>4, <2>1, StageFacts DEF Ring
<1> QED
  BY <1>1, <1>2, <1>5, <1>6

\* The bytes of an image, and the image of its bytes.
LEMMA BytesOfImage ==
  ASSUME NEW img \in [Cells -> Byte]
  PROVE  /\ Bytes(img) \in Mats
         /\ [c \in Cells |-> Bytes(img)[Index(c)]] = img
<1>1. Bytes(img) \in Mats
  BY CellAtIsCell DEF Bytes, Mats
<1>2. \A c \in Cells : Bytes(img)[Index(c)] = img[c]
  BY CellAtIndex DEF Bytes
<1> QED
  BY <1>1, <1>2

LEMMA HandOverInv ==
  ASSUME ProgramInv, HandOver
  PROVE  ProgramInv'
<1>1. IInv /\ StageInv /\ Drained
  BY HandedImage, HostAtRest DEF ProgramInv
<1>2. pixelPtr' \in Mats /\ \A c \in Ring : pixelPtr'[Index(c)] = 0
  <2>1. \A c \in Ring : c \in Cells
    BY DEF Ring
  <2>2. \A c \in Cells : pixelPtr'[Index(c)] = handed'[c]
    BY <1>1, HandedImage, CellAtIndex DEF Bytes
  <2> QED
    BY <1>1, <2>1, <2>2, HandedImage, BytesOfImage
<1>3. TypeOK'
  BY <1>1, <1>2, HandedImage DEF IInv, TypeOK, ExecTypeOK
<1>4. QueueShape' /\ WorkersIdle' /\ Computed' /\ ItemsDone'
  BY <1>1, HandedImage, WorkersStayIdle
<1>5. RedDone' /\ BlackDone' /\ LoopCounter' /\ BeforeLoop' /\ BorderBlack'
        /\ Delivery'
  BY <1>1, <1>2, HandedImage DEF IInv, RedDone, BlackDone, LoopCounter, InLoop,
     AfterLoop, BeforeLoop, BorderBlack, Delivery
<1>6. IInv'
  BY <1>3, <1>4, <1>5 DEF IInv
<1>7. StageInv'
  BY <1>1, HandedImage DEF StageInv, StageTypeOK, StageOrder, FilterOrder
<1> QED
  BY <1>6, <1>7 DEF ProgramInv

-----------------------------------------------------------------------------
(* The filter's steps, and what follows them.                              *)

\* The filter is done when it has written its picture.
LEMMA WrittenWhenDone ==
  ASSUME IInv, pc = "done" => written # {}, [Next]_vars
  PROVE  pc' = "done" => written' # {}
<1>1. CASE WriteImage
  BY <1>1 DEF WriteImage
<1>2. CASE UploadOut \/ FeedBack
  BY <1>2 DEF UploadOut, FeedBack, LoopHead
<1>3. CASE \/ FillMirrors \/ UploadIn \/ Download \/ WriteBack \/ Finalize
           \/ LaunchRed \/ FenceRed \/ LaunchBlack \/ FenceBlack
  <2>1. pc' \in {"upload_in", "upload_out", "write_back", "finalize", "write",
                 "fence_red", "black", "fence_black", "feed_back"}
    BY <1>3 DEF FillMirrors, UploadIn, LaunchRed, FenceRed, LaunchBlack,
       FenceBlack, Download, WriteBack, Finalize, Step
  <2> QED
    BY <2>1
<1>4. CASE ~ Host
  BY <1>4 DEF Next, EndKernel, Done, Worker, LoadPixel, StorePixel, SkipPixel,
     hostVars, vars
<1> QED
  BY <1>1, <1>2, <1>3, <1>4 DEF Host, Upload, Iterate, Deliver

\* Nothing happens to the filter any more once it is done.
LEMMA DoneIsDone ==
  ASSUME IInv, [Next]_vars
  PROVE  /\ pc = "done" => pc' = "done"
         /\ EndKernel \/ (\E w \in Workers : Worker(w)) => pc' = pc
<1>1. Upload => pc \in {"fill", "upload_in", "upload_out"}
  BY DEF Upload, FillMirrors, UploadIn, UploadOut, Step
<1>2. Iterate => pc \in InLoop
  BY DEF Iterate, InLoop, LaunchRed, FenceRed, LaunchBlack, FenceBlack,
     FeedBack, Step
<1>3. Deliver => pc \in {"download", "write_back", "finalize", "write"}
  BY DEF Deliver, Download, WriteBack, Finalize, WriteImage, Step
<1>4. Host => pc # "done"
  BY <1>1, <1>2, <1>3 DEF Host, InLoop
<1>5. CASE ~ Host
  BY <1>5 DEF Next, EndKernel, Done, Worker, LoadPixel, StorePixel, SkipPixel,
     hostVars, vars
<1>6. EndKernel \/ (\E w \in Workers : Worker(w)) => pc' = pc
  BY DEF EndKernel, Worker, LoadPixel, StorePixel, SkipPixel, hostVars
<1> QED
  BY <1>4, <1>5, <1>6

LEMMA FilterInv ==
  ASSUME ProgramInv, UNCHANGED stageVars,
         \/ stage = "filter" /\ Host
         \/ EndKernel
         \/ \E w \in Workers : Worker(w)
  PROVE  ProgramInv'
<1>1. IInv /\ StageInv /\ [Next]_vars
  BY DEF ProgramInv, Next
<1>2. IInv'
  BY <1>1, NextInv
<1>3. pc' = "done" => written' # {}
  BY <1>1, WrittenWhenDone DEF StageInv, FilterOrder
<1>4. /\ stage # "filter" => pc' = pc
      /\ UNCHANGED <<stage, i, buffers, data, handed, saved>>
  BY <1>1, DoneIsDone DEF stageVars
<1>5. StageInv'
  BY <1>1, <1>3, <1>4 DEF StageInv, StageTypeOK, StageOrder, FilterOrder
<1> QED
  BY <1>2, <1>5 DEF ProgramInv

LEMMA ConcludeInv ==
  ASSUME ProgramInv, Returned, Stage!Conclude, UNCHANGED vars
  PROVE  ProgramInv'
<1>1. IInv'
  BY NextInv DEF ProgramInv
<1>2. /\ stage \in {"filter", "write"} /\ pc = "done" /\ pc' = "done"
      /\ \/ stage' = "write" /\ saved' = saved
         \/ stage' = "done" /\ saved' = Stage!Destination
      /\ written' = written
      /\ UNCHANGED <<i, buffers, data, handed>>
  BY DEF Stage!Conclude, Stage!FilterReturned, Stage!WriteNoised, Returned, vars
<1>3. StageInv'
  BY <1>2, StageFacts
     DEF ProgramInv, StageInv, StageTypeOK, StageOrder, FilterOrder
<1> QED
  BY <1>1, <1>3 DEF ProgramInv

LEMMA ProgramStart == ProgramInit => ProgramInv
<1> SUFFICES ASSUME ProgramInit
             PROVE  ProgramInv
  OBVIOUS
<1>1. StageInv
  <2>1. [c \in Stage!Extent |-> 0] \in [Inner -> Byte]
    BY StageGrid DEF Byte
  <2> QED
    BY <2>1, NoiseIterTypes
       DEF ProgramInit, HostInit, StageInv, StageTypeOK, StageOrder, FilterOrder,
           Stage!Init, Stage!Headers, Stage!Buffers
<1>2. /\ pc = "fill" /\ iter = 0 /\ written = {} /\ queue = <<>>
      /\ pixelPtr = [n \in 0 .. PadSize - 1 |-> 0]
      /\ mem = [v \in Device \cup Mirrors |-> [c \in Cells |-> 0]]
      /\ done = [w \in Workers |-> 0]
      /\ reg = [w \in Workers |-> NoValue]
  BY DEF ProgramInit, HostInit, ExecInit
<1>3. TypeOK
  <2>1. mem \in [Device \cup Mirrors -> Views]
    BY <1>2, ImageTypes DEF ZeroView
  <2>2. pixelPtr \in Mats
    BY <1>2 DEF Mats, Byte
  <2>3. done \in [Workers -> Nat] /\ iter \in 0 .. ITERATIONS
    BY <1>2, ItemTypes, ConfigTypes
  <2> QED
    BY <1>2, <2>1, <2>2, <2>3 DEF TypeOK, ExecTypeOK, HostPoints
<1>4. QueueShape /\ WorkersIdle /\ Computed /\ ItemsDone
  BY <1>2 DEF QueueShape, WorkersIdle, Computed, ItemsDone, Drained
<1>5. BeforeLoop
  <2>1. \A c \in Ring : pixelPtr[Index(c)] = 0
    BY <1>2, CellAtIndex DEF Ring
  <2> QED
    BY <1>2, <2>1 DEF BeforeLoop, ZeroView, Device
<1>6. RedDone /\ BlackDone /\ LoopCounter /\ BorderBlack /\ Delivery
  BY <1>2 DEF RedDone, BlackDone, LoopCounter, InLoop, AfterLoop, BorderBlack,
     Delivery
<1> QED
  BY <1>1, <1>3, <1>4, <1>5, <1>6 DEF ProgramInv, IInv

LEMMA ProgramStep == ProgramInv /\ [ProgramNext]_programVars => ProgramInv'
<1> SUFFICES ASSUME ProgramInv, [ProgramNext]_programVars
             PROVE  ProgramInv'
  OBVIOUS
<1>1. CASE Stage!Prepare /\ UNCHANGED vars
  BY <1>1, PrepareInv
<1>2. CASE HandOver
  BY <1>2, HandOverInv
<1>3. CASE UNCHANGED stageVars /\ ((stage = "filter" /\ Host) \/ EndKernel)
  BY <1>3, FilterInv
<1>4. CASE Returned /\ Stage!Conclude /\ UNCHANGED vars
  BY <1>4, ConcludeInv
<1>5. ASSUME NEW w \in Workers, Pool(w)
      PROVE  ProgramInv'
  BY <1>5, FilterInv DEF Pool
<1>6. CASE UNCHANGED programVars
  <2>1. IInv'
    BY <1>6, NextInv DEF ProgramInv, programVars
  <2>2. StageInv'
    BY <1>6 DEF programVars, vars, stageVars, ProgramInv, StageInv,
       StageTypeOK, StageOrder, FilterOrder
  <2> QED
    BY <2>1, <2>2 DEF ProgramInv
<1> QED
  BY <1>1, <1>2, <1>3, <1>4, <1>5, <1>6
     DEF ProgramNext, Main, Join, ProgramDone

\* The invariant of the whole program.
THEOREM ProgramInvariant == ProgramSpec => []ProgramInv
  BY ProgramStart, ProgramStep, PTL DEF ProgramSpec

\* What the noise loop hands over is an image the filter's invariant allows:
\* the invariant holds in every state of main.
THEOREM FilterInvariant == ProgramSpec => []IInv
  BY ProgramInvariant, PTL DEF ProgramInv

\* The images of the noise loop hold bytes, whatever the noise.
THEOREM NoiseTyping == ProgramSpec => []StageTypeOK
  BY ProgramInvariant, PTL DEF ProgramInv, StageInv

-----------------------------------------------------------------------------
(* Denoising: what each step of main is in the abstract program.           *)

LEMMA WholeStart == ProgramInit => Whole!DenoisingInit
  BY DEF ProgramInit, HostInit, Stage!Init, Whole!DenoisingInit, Whole!Init,
     Whole!Nothing, Stage!NoImage, Newest, Previous, PassesMade, Filtered,
     Smoothed

\* Before the hand-over there is no image to be filtered, and no step of the
\* noise loop is seen by the filter.
LEMMA FilterHidden ==
  ASSUME handed' = handed, UNCHANGED vars
  PROVE  UNCHANGED <<Filtered, iter, Smoothed>>
  BY DEF Filtered, CurrentImage, Smoothed, vars

LEMMA LoadIsRead ==
  ASSUME StageInv, Stage!Load, UNCHANGED vars
  PROVE  Whole!DenoisingNext
<1>1. /\ Newest = Stage!NoImage /\ Newest' = Stage!Source'
      /\ PassesMade = 0 /\ PassesMade' = 0
      /\ Previous = Stage!NoImage /\ Previous' = Stage!NoImage
  BY LoadedBuffers DEF Newest, Previous, PassesMade
<1>2. Whole!Read
  BY <1>1, LoadedBuffers DEF Whole!Read, Whole!Nothing, Stage!NoImage
<1> QED
  BY <1>2, LoadedBuffers, FilterHidden DEF Whole!DenoisingNext

LEMMA AddGaussianNoiseIsAddNoise ==
  ASSUME StageInv, Stage!AddGaussianNoise, UNCHANGED vars
  PROVE  Whole!DenoisingNext
<1>1. i < NOISE_ITER /\ i \in Nat
  BY NoisedBuffers, StageFacts, NoiseIterTypes DEF StageInv, StageOrder
<1>2. /\ Newest = Stage!Source /\ PassesMade = i
      /\ Newest' = Stage!Destination' /\ PassesMade' = i + 1
  BY NoisedBuffers DEF Newest, PassesMade
<1>3. Previous' = Stage!Source
  BY <1>1, <1>2, NoisedBuffers DEF Previous
<1>4. Newest # Stage!NoImage
  <2>1. Stage!Source = [c \in Inner |-> Stage!Source[c]]
    BY StageFacts
  <2> QED
    BY <1>2, <2>1, ImageIsSomething
<1>5. Whole!AddNoise
  BY <1>1, <1>2, <1>3, <1>4, NoisedBuffers
     DEF Whole!AddNoise, Whole!Nothing, Stage!NoImage
<1> QED
  BY <1>5, NoisedBuffers, FilterHidden DEF Whole!DenoisingNext

LEMMA SwapIsStutter ==
  ASSUME StageInv, Stage!SwapPointers, UNCHANGED vars
  PROVE  UNCHANGED Whole!denoisingVars
<1>1. i \in Nat
  BY StageFacts, NoiseIterTypes
<1>2. UNCHANGED Whole!noisingVars
  <2>1. CASE stage' = "noise" /\ data' = Stage!Exchanged
    <3>1. Stage!Source' = Stage!Destination /\ Stage!Destination' = Stage!Source
      BY <2>1, SwappedPointers
         DEF Stage!Exchanged, Stage!Source, Stage!Destination
    <3> QED
      BY <1>1, <2>1, <3>1, SwappedPointers
         DEF Whole!noisingVars, Newest, Previous, PassesMade
  <2>2. CASE stage' = "pad" /\ data' = data
    <3>1. Stage!Source' = Stage!Source /\ Stage!Destination' = Stage!Destination
      BY <2>2, SwappedPointers DEF Stage!Source, Stage!Destination
    <3> QED
      BY <1>1, <2>2, <3>1, SwappedPointers
         DEF Whole!noisingVars, Newest, Previous, PassesMade
  <2> QED
    BY <2>1, <2>2, SwappedPointers
<1> QED
  BY <1>2, SwappedPointers, FilterHidden DEF Whole!denoisingVars

LEMMA PrepareRefines ==
  ASSUME StageInv, Stage!Prepare, UNCHANGED vars
  PROVE  [Whole!DenoisingNext]_(Whole!denoisingVars)
<1>1. CASE Stage!Refuse
  <2>1. /\ stage = "load" /\ stage' = "failed" /\ i = 0 /\ i' = 0
        /\ saved' = saved /\ handed' = handed
    BY <1>1 DEF Stage!Refuse, StageInv, StageOrder
  <2>2. UNCHANGED Whole!noisingVars
    BY <2>1 DEF Whole!noisingVars, Newest, Previous, PassesMade
  <2> QED
    BY <2>1, <2>2, FilterHidden DEF Whole!denoisingVars
<1> QED
  BY <1>1, LoadIsRead, AddGaussianNoiseIsAddNoise, SwapIsStutter
     DEF Stage!Prepare

\* The image that is handed over is the one before the last pass.
LEMMA HandOverIsBegin ==
  ASSUME ProgramInv, HandOver
  PROVE  Whole!DenoisingNext
<1>1. IInv /\ StageInv
  BY DEF ProgramInv
<1>2. /\ Newest' = Newest /\ Previous' = Previous /\ PassesMade' = PassesMade
      /\ PassesMade = NOISE_ITER /\ Previous = Stage!Source
  <2>1. i = NOISE_ITER /\ i # 0 /\ i' = i
    BY <1>1, HandedImage, NoiseIterTypes DEF StageInv, StageOrder
  <2>2. Stage!Source' = Stage!Source /\ Stage!Destination' = Stage!Destination
    BY <1>1, HandedImage DEF Stage!Source, Stage!Destination
  <2> QED
    BY <1>1, <2>1, <2>2, HandedImage DEF Newest, Previous, PassesMade
<1>3. Filtered = Stage!NoImage
  BY <1>1, HandedImage DEF Filtered
<1>4. Filtered' = Whole!Bordered(Stage!Source)
  <2>1. handed' # Stage!NoImage
    BY <1>1, HandedImage, ImageIsSomething
  <2>2. CurrentImage' = [c \in Cells |-> Bytes(handed')[Index(c)]]
    BY <1>1, HandedImage DEF CurrentImage
  <2>3. CurrentImage' = handed'
    BY <1>1, <2>2, HandedImage, BytesOfImage
  <2> QED
    BY <1>1, <2>1, <2>3, HandedImage DEF Filtered
<1>5. /\ UNCHANGED Whole!noisingVars
      /\ iter' = iter /\ Smoothed' = Smoothed
  BY <1>1, <1>2, HandedImage DEF Whole!noisingVars, Smoothed
<1>6. Whole!Begin
  BY <1>2, <1>3, <1>4, <1>5 DEF Whole!Begin, Whole!Nothing, Stage!NoImage
<1> QED
  BY <1>6 DEF Whole!DenoisingNext

LEMMA WholeGrid ==
  /\ Whole!Cells = Cells
  /\ Whole!Inner = Inner
  /\ \A img, c : Whole!Mean5(img, c) = Mean5(img, c)
<1>1. Whole!PADDING = PADDING
  BY DEF Whole!PADDING, PADDING
<1>2. Whole!PadRows = PadRows /\ Whole!PadCols = PadCols
  BY <1>1 DEF Whole!PadRows, Whole!PadCols, PadRows, PadCols
<1>3. \A img, c : Whole!Mean5(img, c) = Mean5(img, c)
  BY DEF Whole!Mean5, Mean5
<1> QED
  BY <1>1, <1>2, <1>3 DEF Whole!Cells, Whole!Inner, Cells, Inner

\* While the filter runs, the noise loop's images stay as they are.
LEMMA NoiseStays ==
  ASSUME UNCHANGED stageVars
  PROVE  UNCHANGED Whole!noisingVars
  BY DEF stageVars, Whole!noisingVars, Newest, Previous, PassesMade,
     Stage!Source, Stage!Destination

LEMMA FeedBackIsSweep ==
  ASSUME ProgramInv, stage = "filter", FeedBack, UNCHANGED stageVars
  PROVE  Whole!DenoisingNext
<1>1. IInv /\ StageInv
  BY DEF ProgramInv
<1>2. Abstract!Sweep
  BY <1>1, FeedBackRefines
<1>3. /\ iter < ITERATIONS /\ iter' = iter + 1 /\ written' = written
      /\ CurrentImage' = Abstract!Smooth(CurrentImage)
  BY <1>2 DEF Abstract!Sweep
<1>4. Abstract!Smooth(CurrentImage) = Whole!Smooth(CurrentImage)
  BY AbstractGrid, WholeGrid DEF Abstract!Smooth, Whole!Smooth
<1>5. handed # Stage!NoImage /\ handed' = handed
  BY <1>1, ImageIsSomething DEF StageInv, FilterOrder, stageVars
<1>6. Filtered = CurrentImage /\ Filtered' = CurrentImage'
  BY <1>5 DEF Filtered
<1>7. CurrentImage # Stage!NoImage
  <2>1. CurrentImage \in Views
    BY <1>1, MemTypes, ImageTypes DEF CurrentImage, IInv, TypeOK
  <2> QED
    BY <2>1, ImageIsSomething DEF Views
<1>8. Whole!Sweep
  BY <1>3, <1>4, <1>6, <1>7, NoiseStays
     DEF Whole!Sweep, Whole!Nothing, Stage!NoImage, Smoothed
<1> QED
  BY <1>8 DEF Whole!DenoisingNext

LEMMA WriteImageIsDeliver ==
  ASSUME ProgramInv, stage = "filter", WriteImage, UNCHANGED stageVars
  PROVE  Whole!DenoisingNext
<1>1. IInv /\ StageInv
  BY DEF ProgramInv
<1> DEFINE img == Abstract!WithoutBorder(CurrentImage)
<1>2. /\ iter = ITERATIONS /\ iter' = iter
      /\ written = {} /\ written' = {img}
      /\ CurrentImage' = CurrentImage
  BY <1>1, WriteImageRefines DEF Abstract!Deliver
<1>3. handed # Stage!NoImage /\ handed' = handed
  BY <1>1, ImageIsSomething DEF StageInv, FilterOrder, stageVars
<1>4. Filtered = CurrentImage /\ Filtered' = CurrentImage
  BY <1>2, <1>3 DEF Filtered
<1>5. [c \in Inner |-> img[Shifted(c)]] = [c \in Inner |-> CurrentImage[c]]
  <2> SUFFICES ASSUME NEW c \in Inner
               PROVE  img[Shifted(c)] = CurrentImage[c]
    OBVIOUS
  <2> DEFINE p == Shifted(c)
  <2>1. p \in Pixels /\ <<p[1] + PADDING, p[2] + PADDING, p[3]>> = c
    BY GridTypes, ShiftedIsPixel DEF Shifted, Inner, PADDING
  <2> HIDE DEF p
  <2>2. img[p] = CurrentImage[c]
    BY <2>1, AbstractGrid DEF Abstract!WithoutBorder
  <2> QED
    BY <2>2 DEF p
<1> HIDE DEF img
<1>6. Smoothed = Stage!NoImage
  BY <1>2 DEF Smoothed
<1>7. Smoothed' = [c \in Inner |-> CurrentImage[c]]
  <2>1. Smoothed' = [c \in Inner |-> img[Shifted(c)]]
    BY <1>2 DEF Smoothed
  <2> QED
    BY <1>5, <2>1
<1>8. Whole!Deliver
  BY <1>2, <1>4, <1>6, <1>7, NoiseStays, WholeGrid
     DEF Whole!Deliver, Whole!Nothing, Stage!NoImage
<1> QED
  BY <1>8 DEF Whole!DenoisingNext

LEMMA FilterRefines ==
  ASSUME ProgramInv, UNCHANGED stageVars,
         \/ stage = "filter" /\ Host
         \/ EndKernel
         \/ \E w \in Workers : Worker(w)
  PROVE  [Whole!DenoisingNext]_(Whole!denoisingVars)
<1>1. IInv /\ [Next]_vars
  BY DEF ProgramInv, Next
<1>2. CASE stage = "filter" /\ (FeedBack \/ WriteImage)
  BY <1>2, FeedBackIsSweep, WriteImageIsDeliver
<1>3. CASE ~ FeedBack /\ ~ WriteImage
  <2>1. UNCHANGED <<CurrentImage, iter, written>>
    BY <1>1, <1>3, OtherStepsStutter
  <2> QED
    BY <2>1, NoiseStays DEF Whole!denoisingVars, Filtered, Smoothed, stageVars
<1>4. CASE ~ (stage = "filter" /\ Host)
  <2>1. EndKernel \/ \E w \in Workers : Worker(w)
    BY <1>4
  <2>2. UNCHANGED hostVars
    BY <2>1 DEF EndKernel, Worker, LoadPixel, StorePixel, SkipPixel
  <2>3. ~ FeedBack /\ ~ WriteImage
    <3>1. pc' = pc
      BY <2>2 DEF hostVars
    <3> QED
      BY <3>1 DEF FeedBack, WriteImage, Step, LoopHead
  <2> QED
    BY <1>3, <2>3
<1> QED
  BY <1>2, <1>3, <1>4

LEMMA ConcludeRefines ==
  ASSUME ProgramInv, Returned, Stage!Conclude, UNCHANGED vars
  PROVE  [Whole!DenoisingNext]_(Whole!denoisingVars)
<1>1. /\ stage \in {"filter", "write"} /\ stage' \in {"write", "done"}
      /\ UNCHANGED <<i, buffers, data, handed>>
      /\ \/ saved' = saved
         \/ stage = "write" /\ saved' = Stage!Destination
  BY DEF Stage!Conclude, Stage!FilterReturned, Stage!WriteNoised
<1>2. Stage!Destination' = Stage!Destination /\ Stage!Source' = Stage!Source
  BY <1>1 DEF Stage!Destination, Stage!Source
<1>3. /\ UNCHANGED <<Newest, Previous, PassesMade>>
      /\ Newest = Stage!Destination /\ PassesMade = NOISE_ITER
      /\ saved = Stage!NoImage
  BY <1>1, <1>2 DEF ProgramInv, StageInv, StageOrder, Newest, Previous,
     PassesMade
<1>4. UNCHANGED <<Filtered, iter, Smoothed>>
  BY <1>1, FilterHidden
<1>5. CASE saved' = saved
  BY <1>3, <1>4, <1>5 DEF Whole!denoisingVars, Whole!noisingVars
<1>6. CASE stage = "write" /\ saved' = Stage!Destination
  <2>1. written # {}
    BY <1>6 DEF ProgramInv, StageInv, FilterOrder
  <2>2. Smoothed # Stage!NoImage
    <3>1. Smoothed \in {[c \in Inner |-> w[Shifted(c)]] : w \in written}
      BY <2>1 DEF Smoothed
    <3>2. PICK w \in written : Smoothed = [c \in Inner |-> w[Shifted(c)]]
      BY <3>1
    <3> DEFINE m == [c \in Inner |-> w[Shifted(c)]]
    <3>3. m = [c \in Inner |-> m[c]]
      OBVIOUS
    <3> HIDE DEF m
    <3> QED
      BY <3>2, <3>3, ImageIsSomething DEF m
  <2>3. Whole!Save
    BY <1>3, <1>6 DEF Whole!Save, Whole!Nothing, Stage!NoImage
  <2> QED
    BY <1>4, <2>2, <2>3
       DEF Whole!DenoisingNext, Whole!Nothing, Stage!NoImage
<1> QED
  BY <1>1, <1>5, <1>6

LEMMA WholeStep ==
  ProgramInv /\ [ProgramNext]_programVars
    => [Whole!DenoisingNext]_(Whole!denoisingVars)
<1> SUFFICES ASSUME ProgramInv, [ProgramNext]_programVars
             PROVE  [Whole!DenoisingNext]_(Whole!denoisingVars)
  OBVIOUS
<1>1. CASE Stage!Prepare /\ UNCHANGED vars
  BY <1>1, PrepareRefines DEF ProgramInv
<1>2. CASE HandOver
  BY <1>2, HandOverIsBegin
<1>3. CASE UNCHANGED stageVars /\ ((stage = "filter" /\ Host) \/ EndKernel)
  BY <1>3, FilterRefines
<1>4. CASE Returned /\ Stage!Conclude /\ UNCHANGED vars
  BY <1>4, ConcludeRefines
<1>5. ASSUME NEW w \in Workers, Pool(w)
      PROVE  [Whole!DenoisingNext]_(Whole!denoisingVars)
  BY <1>5, FilterRefines DEF Pool
<1>6. CASE UNCHANGED programVars
  BY <1>6, FilterHidden, NoiseStays
     DEF programVars, stageVars, Whole!denoisingVars
<1> QED
  BY <1>1, <1>2, <1>3, <1>4, <1>5, <1>6
     DEF ProgramNext, Main, Join, ProgramDone

\* main of parallel_gauss_seidel.cpp implements the noise passes, the sweeps of
\* the image before the last pass inside a black border, and the two pictures
\* written, for every order of its threads.
THEOREM WholeRefinement == ProgramSpec => Denoises
  BY WholeStart, WholeStep, ProgramInvariant, PTL
     DEF ProgramSpec, Denoises, Whole!DenoisingSpec
=============================================================================
