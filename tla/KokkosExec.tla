----------------------------- MODULE KokkosExec -----------------------------
(***************************************************************************)
(* The Kokkos execution and memory model the filter programs run on.       *)
(*                                                                         *)
(* A parallel_for puts a kernel in the queue of the execution space; the   *)
(* kernels of the queue execute one after the other, the elements of one   *)
(* kernel on a pool of workers with no order between workers.  On a        *)
(* device the launch returns at once and fence or deep_copy wait for the   *)
(* queue to drain.  On the host the launch itself waits and fence has      *)
(* nothing to do, which is one of the orders of the queue; and on the host *)
(* create_mirror_view returns the view itself.                             *)
(***************************************************************************)
EXTENDS Grid, HostTiles, Sequences

CONSTANTS
  PoolSize,      \* number of workers that execute a kernel
  TileWork(_),   \* elements of img_out the functor assigns for one tile of a
                 \* kernel, or for one chunk, which assigns so many in all
  MirrorAliases  \* TRUE when the views live in HostSpace

ASSUME ExecAssumption ==
  /\ PoolSize \in Nat \ {0}
  /\ MirrorAliases \in BOOLEAN

VARIABLES
  mem,    \* the contents of each allocated view
  queue,  \* kernels launched and not yet complete, the oldest first
  done,   \* the work items of the oldest kernel each worker has behind it
  reg     \* the value a worker has computed and not yet stored

execVars == <<mem, queue, done, reg>>

Workers == 0 .. PoolSize - 1

NoValue == -1

Device == {"img_in", "img_out"}
Mirrors == {"host_img_in", "host_img_out"}

\* create_mirror_view: a view of its own in host memory, or src itself.
MirrorOf == [host_img_in |-> "img_in", host_img_out |-> "img_out"]

Alloc(view) ==
  IF MirrorAliases /\ view \in Mirrors THEN MirrorOf[view] ELSE view

\* Mutant of First: the blocks are cut between elements.
FirstByElement(w, items) == PartFirst(items, 1, PoolSize, w)

\* The block of work items of a worker: an item is one element of img_out, and
\* the items of a tile stay together.
First(w, items) == PartFirst(items, TileWork(items), PoolSize, w)
End(w, items) == PartEnd(items, TileWork(items), PoolSize, w)

\* The item a worker is at.
Item(w, items) == First(w, items) + done[w]

\* A view is filled with zeros when it is allocated.
ExecInit ==
  /\ mem = [v \in Device \cup Mirrors |-> [c \in Cells |-> 0]]
  /\ queue = <<>>
  /\ done = [w \in Workers |-> 0]
  /\ reg = [w \in Workers |-> NoValue]

-----------------------------------------------------------------------------

\* Mutant of Drained: nobody waits.
NeverWaits == TRUE

(* What the host thread calls.                                             *)
Drained == queue = <<>>

\* Kokkos::parallel_for: the launch of a kernel.
ParallelFor(kernel) ==
  /\ queue' = Append(queue, kernel)
  /\ UNCHANGED <<mem, done, reg>>

\* Kokkos::fence.
Fence ==
  /\ Drained
  /\ UNCHANGED execVars

\* Kokkos::deep_copy of views with the same layout: a fence, a byte copy
\* and a fence; with the same allocation on both sides only the fence.
DeepCopy(dst, src) ==
  /\ Drained
  /\ mem' = [mem EXCEPT ![Alloc(dst)] = mem[Alloc(src)]]
  /\ UNCHANGED <<queue, done, reg>>

-----------------------------------------------------------------------------
(* What a worker does for the oldest kernel of the queue.                  *)

Working(w, items) ==
  /\ queue # <<>>
  /\ Item(w, items) < End(w, items)

\* The functor reads its operands and computes a value ...
Load(w, items, value) ==
  /\ Working(w, items)
  /\ reg[w] = NoValue
  /\ reg' = [reg EXCEPT ![w] = value]
  /\ UNCHANGED <<mem, queue, done>>

\* ... and assigns it to its element of img_out.
Store(w, items, c) ==
  /\ Working(w, items)
  /\ reg[w] # NoValue
  /\ mem' = [mem EXCEPT !["img_out"][c] = reg[w]]
  /\ reg' = [reg EXCEPT ![w] = NoValue]
  /\ done' = [done EXCEPT ![w] = @ + 1]
  /\ UNCHANGED queue

\* The functor does nothing for this item.
Skip(w, items) ==
  /\ Working(w, items)
  /\ reg[w] = NoValue
  /\ done' = [done EXCEPT ![w] = @ + 1]
  /\ UNCHANGED <<mem, queue, reg>>

\* Mutants of Retire: the join expects each worker exactly at its end, or
\* behind it.
RetireExact(items) ==
  /\ queue # <<>>
  /\ \A w \in Workers : Item(w, items) = End(w, items)
  /\ queue' = Tail(queue)
  /\ done' = [w \in Workers |-> 0]
  /\ UNCHANGED <<mem, reg>>

\* The join of the workers: the kernel is complete.
RetireBehind(items) ==
  /\ queue # <<>>
  /\ \A w \in Workers : Item(w, items) > End(w, items)
  /\ queue' = Tail(queue)
  /\ done' = [w \in Workers |-> 0]
  /\ UNCHANGED <<mem, reg>>

Retire(items) ==
  /\ queue # <<>>
  /\ \A w \in Workers : Item(w, items) >= End(w, items)
  /\ queue' = Tail(queue)
  /\ done' = [w \in Workers |-> 0]
  /\ UNCHANGED <<mem, reg>>

ExecTypeOK ==
  /\ mem \in [Device \cup Mirrors -> Views]
  /\ done \in [Workers -> Nat]
  /\ reg \in [Workers -> Byte \cup {NoValue}]
=============================================================================
