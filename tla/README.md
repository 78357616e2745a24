# Verification of the image denoising programs

The repository denoises a colour image: it adds Gaussian noise to a picture and
smooths it with repeated 5-point means, sequentially and in parallel with
Kokkos. This directory models the programs, and the part of Kokkos that executes
them, in TLA+; TLC checks small instances, and TLAPS proves the main results for
every image size, thread pool, number of iterations and number of noise passes.

## The system

| Part | Code | State | Operations |
| --- | --- | --- | --- |
| Red-black filter | `kokkos/parallel/gauss_seidel/parallel_gauss_seidel.cpp` | `img_in`, `img_out` and their host mirrors, `image_pad`, loop counter | fill, upload, red kernel, fence, black kernel, fence, feed back, download, write-back, finalize, crop and save |
| Jacobi filter | `kokkos/parallel/jacobi/parallel_jacobi.cpp` | the same | the same with one kernel over the whole padded image |
| Noise stage | beginning of every `main`, `gaussianNoise.cpp` | two images and the data pointers of their headers | read (or refuse), add border, noise pass, exchange of pointers, save |
| Kokkos, as the filters use it | `kokkos/dep/Kokkos/core/src` | kernel queue, worker blocks, view allocations | `parallel_for`, `fence`, `deep_copy`, `create_mirror_view`, partition and decoding of tiles, `LayoutLeft` |
| OpenMP thread pool | `impl/Kokkos_HostThreadTeam.*`, `impl/Kokkos_HostBarrier.hpp`, `OpenMP/` in the same tree | barriers, step counters, work ranges, victims of each thread | organise teams, partition, take or steal a chunk, share it in a team, execute, rendezvous, resize |
| Sequential filters | `kokkos/iterative_jacobi.cpp`, `kokkos/iterative_gauss_seidel.cpp` | one buffer and the loop variables | in-place sweep over a flat array |
| Flat-view Jacobi | `kokkos/CPU/jacobi/cpu_parallel_jacobi.cpp` | one-dimensional views | init, one pass, output kernel, each with a fence |
| Double-precision experiment | `kokkos/parallel/test/jacobi.cpp` | two views of doubles | the same three kernels, two of them without a fence |
| Wavefront filter | `kokkos/parallel/gauss_seidel/parallel_wave_gauss_seidel.cpp` | as the red-black filter | a kernel for each diagonal of a square, one fence |
| Greyscale examples | `opencv_simple.cpp` (two copies) | one image | one conversion of each pixel |
| Scripts | `*.sh`, `*.job`, Makefiles, `CMakeLists.txt` | none | build and run |

The parts interact in one direction inside each `main`: the noise stage hands a
pointer to the padded image to the filter, the filter works on the views through
Kokkos, and the saved files are its result and the last noised image. In
`parallel_jacobi.cpp` there is one way back: the filter writes its result into
the memory of one of the two images of the noise loop, before the other is
saved. The hard behaviour is in the kernels: their elements run in any order
and in parallel with each other, and with the host thread until a fence; the
memory they read is overwritten by the host between kernels; some programs read
outside of it; and below them the pool's threads steal work from each other and
meet at barriers they use again at once.

What makes each part correct:

* red-black filter: the two kernels of an iteration together are one
  simultaneous mean of the picture, independent of the schedule; the host never
  overwrites what a running kernel reads; the border stays black; the program
  ends and delivers its picture;
* Jacobi filter: what is read outside of the view must not spread faster than
  one pixel an iteration, and its write-back must not reach the noised picture;
* noise stage: values are clamped to bytes, the exchange of pointers loses no
  pass for either parity, and the filter gets the image before the last pass;
* Kokkos: each element of a policy is executed once, by one worker or team, and
  each launch returns;
* sequential filters: the sweep obeys the Gauss-Seidel equations and stays in
  its buffer;
* one-pass programs and the wavefront: the written image is a function of the
  noised one, whatever the order of the threads.

## Modules

| Module | What it is |
| --- | --- |
| `Grid` | image geometry: padded cells, byte offsets, border, crop, the 5-point mean |
| `HostTiles` | partition of tiles among ranks, decoding of tile numbers |
| `TileDispatch` | enumerates policies, chunks and pools for the two functions above |
| `HostTeam`, `HostTeamProps`, `HostTeamMC` | the thread pool: one step for each access to memory other threads use |
| `KokkosExec` | views, mirrors, kernel queue, workers; one action for each library call and each part of a worker's item |
| `FilterHost` | what the Kokkos filters share around their loop (extends `KokkosExec`) |
| `RedBlackSweep`, `RedBlackProps`, `RedBlackMC` | the red-black filter on a given image |
| `JacobiSweep`, `JacobiProps`, `JacobiMC` | the Jacobi filter on a given image |
| `DiagonalSweep`, `DiagonalProps`, `DiagonalMC` | the wavefront filter, on the same `FilterHost` |
| `NoiseStage` | reading, noise loop, border and final save, for both orders of border and noise (`PadFirst`) |
| `RedBlackProgram`, `RedBlackProgramMC` | the whole `main` of `parallel_gauss_seidel.cpp`: `NoiseStage` composed with `RedBlackProps` |
| `JacobiProgram`, `JacobiProgramMC` | the whole `main` of `parallel_jacobi.cpp`: `NoiseStage` composed with `JacobiProps`, sharing memory |
| `OnePass`, `OnePassProps`, `OnePassMC` | `cpu_parallel_jacobi.cpp` and `test/jacobi.cpp`, which smooth once |
| `InPlaceSweep`, `InPlaceProps`, `InPlaceMC` | the two sequential filters |
| `Smoothing` | abstract: a number of simultaneous means, one delivery |
| `Noising` | abstract: noise passes on one image, one of them remembered, one save |
| `Denoising` | abstract: `Noising`, then sweeps of the remembered image in a black border, then two pictures written in order |
| `*_proofs` | theorems, see below |

A `Props` module holds the properties of a component with the history variables
they need; an `MC` module gives TLC its images, draws of noise and surroundings.

Three refinements connect them: `RedBlackSweep` implements `Smoothing`
(`SmoothsWholeImage`), `RedBlackProgram` implements `Denoising` (`Denoises`), and
`JacobiProgram` implements `Noising` (`NoisesAndSaves`).

### State and code

* `mem[v]` is the contents of a view, a function on the cells `<<i, j, k>>`.
  `Alloc` says which allocation a mirror names: on the host its view's own.
* `queue` holds the kernels that are launched and not complete. A kernel is
  executed by `PoolSize` workers; worker `w` executes the items `First(w, items)`
  to `End(w, items) - 1` in order, as `HostThreadTeamData` divides them, where
  `items` is the size of the kernel at the head of the queue; `done[w]` counts
  those it has behind it, and the join sets it back. The blocks therefore follow
  the kernels when these have different sizes, as the diagonals have, and a pool
  may be larger or smaller than a kernel (a rank without work has
  `First >= End`). An item is one
  assignment to `img_out`; it is two steps, the reads with the computation
  (`LoadPixel`, the result waits in `reg[w]`) and the assignment (`StorePixel`),
  so that another worker may write between them. On a device the pool is the
  set of threads; a pool with one worker for each item allows every order.
* `fence` and `deep_copy` wait for an empty queue. On the host the launch itself
  waits and `fence` has nothing to do. The red-black and the Jacobi program
  fence directly behind each launch and touch nothing in between, so the two
  cases have the same steps. `DiagonalSweep` and `OnePass` keep several kernels
  in the queue; a queue is executed in order, one kernel after the other, which
  is what an execution space instance promises.
* The functor's five reads are one step. In these programs no kernel writes
  what it reads, and `KernelInputStable` shows that nobody else does while it
  runs, so no read can differ for being made earlier or later.
* `pc` of `FilterHost` is the statement of the filter the main thread is at;
  `stage` is where main is outside of it; `pixelPtr` is the data of `image_pad`;
  `written` is the set of result images saved.
* In `JacobiSweep` an index outside the extents is folded by the `LayoutLeft`
  formula. If the offset lies in the allocation another cell is read; if not, a
  read returns any value the constant `OutsideContents` offers, each time anew,
  or ends the program (`FaultingRead`). `OnePass` and `InPlaceSweep` treat what
  lies in front of their arrays in the same way.
* `NoiseStage` keeps the two buffers apart from the two headers, as the code
  does: `data` maps a header to the buffer its pointer names, and the loop
  exchanges the pointers in every pass but the last. The hand-over gives the
  filter `image.data`; in `JacobiProgram` that buffer and `pixelPtr` stay the
  same memory (`Shared`), in `RedBlackProgram` `copyMakeBorder` has made a copy.
* `InPlaceSweep` has `Start = 0` for `iterative_jacobi.cpp` and `Start = 1` for
  `iterative_gauss_seidel.cpp`. A pixel is one step: the code reads all fifteen
  operands before its first store, and there is one thread.
* `DiagonalSweep` leaves `n`, which the file does not declare, to be the side of
  any square that fits the picture.
* `HostTeam` gives each thread a location (`at`), which is a label or a
  rendezvous of the pool or of its team together with the label behind it.
  `barrier` holds one `HostBarrier` for the pool and one in the memory of each
  thread, used by the team whose first thread it is. `Arrive` to `Release` are
  the steps of `split_arrive`, `split_master_wait`, `split_release` and `wait`;
  `TryOwn`, `TakeOwn` and `StealFromOther` are the turns of `get_work_stealing`
  with their compare-and-exchange. An access to the thread's own fields happens
  with the access to shared memory next to it.

History variables (`ideal`, `before`, `start`, `executed`) only record; they do
not restrict the system.

Left out: timing, messages, command line, file formats, `perror`. The five
operands times 0.2 in double precision, converted to `uint8_t`, equal the
integer quotient by 5 for each of the 1276 possible sums, which is how `Mean5`
states it; `OnePass` keeps the view of doubles in fifths for the same reason.

## Runs

| Run | Instance | Shows |
| --- | --- | --- |
| `dispatch` | extents and chunks to 3, pools to 7 | `EachTileOnce`, `TilesAreElements`: the partition and the decoding, with pools larger than the work |
| `red_black_device` | 3x3, 1 channel, 9 workers, own mirrors, 2 iterations | refinement of `Smoothing` under every order of the pixels, `IInv`, `OneWriter`, `BorderBlack`, `KernelInputStable` |
| `red_black_program` | 2x2, 2 channels, 6 workers, aliasing mirrors, 2 iterations, 3 noise passes over two pictures with two draws | `Denoises` from picture to the two files, `IInv`, `StageTypeOK`, `Returns` |
| `red_black_fresh` | 2x2, 1 iteration | counterexample to `BlackUsesFreshRed` |
| `jacobi_program` | 3x3 (5x5 with border), 2 channels, 2 workers, 2 iterations, 2 noise passes | `LightCone`, `DeliveredCore`, `WholePixels`, `JacobiInv`, `NoisesAndSaves`, `Ends` for any result of the reads outside |
| `jacobi_neighbours` | 1x1 | counterexample to `NeighboursArePixels` |
| `sequential` | 2x7, 2 channels, both programs, 2 iterations of the first, 3 images, 3 surroundings | `GaussSeidelEquations`, `ReadsInBuffer`, `SweepsEnd` |
| `sequential_simultaneous`, `sequential_rows` | 2x2 | counterexamples to `JacobiEquations` and `UpIsAbove` |
| `host_team` | 4 threads, three programs of two launches: static and dynamic, flat, teams of two and of three | `AtMostOnce`, `AllExecuted`, `NoLapping`, `NobodyStealsEarly`, `BarrierReusable`, the invariant behind them (`TeamInv`), `LaunchesReturn` |
| `one_pass` | 3x3, 2 channels, 3 workers, both programs, two surroundings | `Delivered`, `SmoothsComplete`, `ReadsNearView`, `OnePassInv`, `ProgramsEnd` |
| `wavefront` | 4x5, 2 channels, 3 workers, squares of side 1 to 4, chunks of one pixel and, in the longest diagonal, of two, 2 iterations | `FeedsBackSquare`, `DeliversSquare`, `DiagonalInputStable`, `WavefrontInv`, `Returns` |

Bounds. Two iterations are the least in which a result is fed back and used; the
code's 15 add no new kind of step, and the theorems hold for every number. A 3x3
picture has pixels of both colours with neighbours in all directions, a corner,
an edge and a centre that does not touch the border. An odd and an even number
of noise passes (3 and 2) leave `image_pad` in different buffers. The squares of
`wavefront` have diagonals shorter than the pool, as long as it and longer; in
the first a rank has no work, in the last a rank has several pixels. The wide image
of `sequential` is the one in which a row too many leaves the buffer. Images are
a few that tell positions apart: textures over the byte range, and bright ones
for which a sum over four is no byte; one of the two draws of noise leaves the
byte range in both directions. Outside memory is varied at one place before and
one behind the allocation, which is enough for a value to come in at either end
and differ between two reads of the same place.

In `host_team`, four threads make two teams of two, or one team of three with a
thread left over; a block of three chunks for two teams is used up by one of
them and stolen from by the other; the static policy with nine iterations needs
chunks of more than one because `IntMax` is 8; and a second launch finds the
barriers of the first, or new ones. The run names programs instead of all
sequences of policies to keep the state space small.

`CHECK_DEADLOCK FALSE` is used for `TileDispatch`, an enumeration that ends at
its bounds, and for `HostTeam`, which stops when all launches are made. All
other specifications have a `Done` step.

Fairness. `WF` of the main thread, of each worker and of the completion of a
kernel: each is a thread of the operating system or of the device that keeps
running while it has work, and nothing in the programs makes one wait for
anything but the queue. In `HostTeam` it is `WF` of each thread of the pool, so
of whatever step the thread is at: a spinning thread is one whose step is not
enabled, and a thread that finds its compare-and-exchange failed has taken a
step. The sequential programs have `WF` of their only thread.

## What the models found

* The black kernel reads red neighbours from `img_in`, which the red kernel does
  not write. One iteration of the "Gauss-Seidel" program is therefore exactly
  one Jacobi sweep: this is what `SmoothsWholeImage` states and what is proved.
  The project's subject (section 3.3.3) asks each half to use the most recent
  data.
* `parallel_jacobi.cpp` iterates over the border, so its stencil leaves the
  view; the result is right only at depth 15 and more of the padded picture
  (`LightCone` with 15 iterations).
* `iterative_jacobi.cpp` is a Gauss-Seidel sweep: it stores into what it reads.
* Both sequential programs address the padded image with the row length of the
  image without border, so "up" and "down" are not above and below. The same
  length is used by `cpu_parallel_jacobi.cpp`, which also leaves the last rows
  of the padded picture unfiltered (`Delivered` states what it writes).

## Proofs

Assumptions are those the modules state: sizes, pool and iteration counts are
positive, images and pictures consist of bytes, noise of 16-bit integers, a work
item of the red-black program is a tile of one element and one of the Jacobi
program a pixel; a chunk of a diagonal is any number of whole pixels, which may
differ from diagonal to diagonal, as `set_auto_chunk_size` chooses it
(`Kokkos_ExecPolicy.hpp:212`); in `HostTeam`, a program is a sequence of
launches with at least one, and the first iteration of a stolen chunk fits an
`int`. The pool has any size of one and more, in every program.

* `RedBlackProgram_proofs`, the filter. `Invariance`: `IInv` is inductive. Type
  correctness and the black border alone are not: to know that a completed
  kernel has left the mean of `img_in` in all pixels of its colour one needs,
  during the kernel, that the items a worker has passed are done (`ItemsDone`),
  that a value in `reg` is the mean of its pixel (`Computed`), and that every
  pixel belongs to some worker's block (from `Grid_proofs`); after it, `RedDone`
  has to survive the black kernel, which holds because that one stores means of
  the same `img_in`. `Delivery` and `BeforeLoop` follow the image through the
  uploads and downloads with and without aliasing. `Typing`, `BorderStaysBlack`
  and `InputStable` are consequences; `NoDoubleWrite` follows from the
  disjointness of the blocks and the injectivity of the tile decoding.
  `Refinement`: `FeedBack` is the abstract `Sweep`, `WriteImage` is `Deliver`,
  every other step leaves the mapped image alone.
* `RedBlackProgram_proofs`, all of `main`. `FilterInvariant` carries `IInv`
  through the whole `main`: `StageInv` says which buffer holds what while the
  filter waits, and the hand-over establishes the first state of the filter.
  `NoiseTyping` is the clamping. `WholeRefinement` maps the program to
  `Denoising`: a noise pass is `AddNoise`, the exchange of pointers a stutter,
  because the mapping reads the newest image through `data`; the two headers
  never name the same buffer.
* `JacobiProgram_proofs`. Here the invariant holds only inside the border, since
  what the border's items store is unknown: `ItemsDone` and `KernelDone` speak
  of the inner pixels, and `LightCone` is itself the part that carries the
  result from one iteration to the next: the mean of a pixel at depth d needs
  its neighbours at depth d - 1 and more. `OutsideStaysInTheFrame`,
  `CoreIsDelivered`, `PixelsAreWhole` and `JacobiTypes` follow. `NoiseIsKept`
  shows the refinement of `Noising` although the filter overwrites one of the
  loop's buffers: at that time the mapping no longer looks at it.
* `TileDispatch_proofs`: the blocks are a partition of the tiles, and decoding
  is a bijection onto the policy, for all sizes.
* `HostTeam_proofs`. `PoolInv` is about the barrier the whole pool meets at. A
  thread that has arrived at a rendezvous is one step ahead of `wait` until the
  master's release (`Rounds`); `arrive` is the number of those threads
  (`Counted`), and `master` is ahead when all have arrived and the last one has
  said so (`Signalled`). Because a thread may be released and run on while
  others are still spinning, this alone does not say that two threads outside
  the barrier are in the same part of the launch: `InStep` adds that the
  rendezvous a thread has made and those it still has to make are the same sum
  for all. `StealingIsLate` and `BarrierIsReusable` follow. Every action that is
  not of the pool's barrier is shown to be `Quiet`, which is enough for all
  parts.
* `HostTeam_proofs`, the teams. `TeamRounds` says the same of the barrier of
  each team, which lies in the memory of its master: `Round` is stated for any
  set of threads, so one proof of `Arrive` to `Release` serves all teams. A
  thread that organises its team resets its barrier and its steps; until all
  have done so (`Organized`) nobody is past the pool's rendezvous, and those
  that have are at the beginning of the first round. A stealing master holds his
  team up from its arrival to the release ("held" in `TeamPart`). `SameRound`
  then gives each thread the iterations it had when the round began
  (`RoundRange`), which is what members of a team have in common while some have
  taken their turn and some have not; `Stopped` excepts the members that read
  "no chunk" while others have left already, and `StopTogether` says that a team
  stops as a whole. `NobodyLaps` follows.
* `HostTeam_proofs`, the work. `EveryChunk` is the account: a chunk that is in
  the block of a master is untouched; any other is the business of one team,
  whose members have executed each of its iterations once or will, as far as
  `Behind` says. An exchange moves one chunk, the first or the last of a block,
  to a team and nothing else, because a compare-and-exchange succeeds only on
  the value the thread has read, and because a block stays inside the one its
  master was given (`Blocks`). That nothing is lost needs more: a thief gives up
  after one turn through the masters, so all the blocks it has passed must be
  empty and stay so (`Passed`, `Thieves`), and when any team has given up, all
  blocks are empty (`NothingLeft`). With the static schedule a thread has
  executed its block up to its iteration (`StaticAccount`). Launching begins a
  new account from blocks that divide the chunks (`LaunchAccount`, with the
  partition of `Grid_proofs`). `ExecutedAtMostOnce` and `EverythingIsExecuted`
  follow; `TeamInvariant` collects all parts with the types, and the run checks
  them as `TeamInv`.
* `InPlaceSweep_proofs`: `GaussSeidelSweeps` (the equations hold behind the
  sweep and `pixels` is unchanged ahead of it; the addressing is monotone along
  the sweep, which makes the frontier one number), `GaussSeidelBounds` (the
  reads of `iterative_gauss_seidel.cpp` are in the buffer for every image),
  types.
* `DiagonalSweep_proofs`. Any number of diagonals may be in the queue, so the
  invariant says that they are consecutive and end with the one launched last
  (`QueueInOrder`), and that all before the oldest of them are complete
  (`DiagonalsDone`); of the oldest, what the workers have behind them
  (`ItemsDone`). What the elements outside the square hold in `img_out` is black
  and stays so (`OutsideBlack`). A pixel of the square lies on exactly one
  diagonal, at a position the guard lets through, and its item is in some
  worker's block of that diagonal, whatever the size of the pool and of the
  chunks (`PartitionCovers`); so behind the fence the whole square is done
  (`SquareIsFedBack`). `DiagonalsReadStableInput` is why none of
  the diagonals needs a fence of its own.
* `OnePass_proofs`. Without fences the kernels of `test/jacobi.cpp` overlap with
  the main thread, and only the order of the queue separates them: `QueueShape`
  lists which kernels can be behind one another at which statement. `Good` says
  what a kernel may leave in an element, `Held` and `ItemsDone` carry it through
  a kernel, and `Filled`, `Smoothed` and `WrittenBack` hand it to the next one.
  For the flat view an element is constrained only where its operands lie in the
  view: what comes from in front of it is any byte, at every read, and the proof
  shows that it stays where it is (`ImageIsDelivered`). `ReadsStayNear` bounds
  the operands for all sizes.
* `Grid_proofs` holds the lemmas about offsets, cells and the division of work.

Only model-checked:

* termination (`Returns`, `Ends`, `SweepsEnd`, `ProgramsEnd`, `LaunchesReturn`),
  which rests on fairness and is out of reach of the prover. For
  `LaunchesReturn` the proofs say what does not happen (a thread left behind at
  a barrier, a chunk nobody has), but not that the waiting and the stealing end.

Every invariant and every refinement the runs check is also the statement of a
theorem, or part of an invariant that is.

## Not modelled

* The greyscale examples convert each pixel for itself and have no state beyond
  it; the scripts are straight-line commands; two source files are empty.
* `AddGaussianNoise_Opencv` is never called.
* The noise stage of the one-pass and wavefront programs is the text modelled in
  `NoiseStage` and is not composed with them a second time. That of
  `test/jacobi.cpp` works on the image without a border and is left out.
* `parallel_reduce`, `parallel_scan`, scratch memory, other back ends, and the
  rest of the vendored library, with its tests, GoogleTest and the artefacts
  CMake has left in the build directories: none of it is executed by the
  programs. It makes up almost all of the lines under `src/`, so the share of
  lines the modules stand for is small although every program of the repository
  that filters an image is modelled.

One hazard has no property. The first iteration of a stolen chunk is a product
of two `int`s (`Kokkos_HostThreadTeam.hpp:403`): beyond the range the behaviour
is undefined, and `TeamAssumption` excludes it, as the images the programs can
hold do.
