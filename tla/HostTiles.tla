------------------------------ MODULE HostTiles ------------------------------
(***************************************************************************)
(* How Kokkos divides the iteration space of a parallel_for.               *)
(*                                                                         *)
(* An MDRangePolicy is cut into tiles, numbered from 0; the numbers are    *)
(* divided among the threads of the pool in contiguous blocks, and each    *)
(* thread turns a number back into the coordinates of its tile.            *)
(***************************************************************************)
EXTENDS Integers

\* Mutant of CeilDiv: the quotient is rounded down.
FloorDiv(a, b) == a \div b

CeilDiv(a, b) == (a + b - 1) \div b

(***************************************************************************)
(* HostThreadTeamData::set_work_partition and get_work_partition: the half *)
(* open interval [PartFirst, PartEnd) of work the given rank executes.     *)
(* The blocks have the same size, rounded up, so a trailing rank may start *)
(* after the end of the work; its loop then has nothing to do.             *)
(***************************************************************************)
PartSize(length, chunk, pool) == CeilDiv(CeilDiv(length, chunk), pool)

PartFirst(length, chunk, pool, rank) ==
  PartSize(length, chunk, pool) * rank * chunk

\* Mutant of PartEnd: the interval is closed.
PartEndIncluded(length, chunk, pool, rank) ==
  LET second == (PartSize(length, chunk, pool) * rank
                   + PartSize(length, chunk, pool)) * chunk + 1
  IN  IF second < length THEN second ELSE length

PartEnd(length, chunk, pool, rank) ==
  LET second == (PartSize(length, chunk, pool) * rank
                   + PartSize(length, chunk, pool)) * chunk
  IN  IF second < length THEN second ELSE length

\* Mutant of TileOffset: the quotients are taken in the order of the extents.
TileOffsetSwapped(tile, rows, cols, depth, lower) ==
  << (((tile \div depth) \div rows) % rows) + lower[1],
     ((tile \div depth) % cols) + lower[2],
     (tile % depth) + lower[3] >>

(***************************************************************************)
(* HostIterateTile::operator(): the coordinates of a tile of a policy with *)
(* rows x cols x depth tiles of one element, the last index fastest, above *)
(* the policy's lower bounds, and the box of elements the policy spans.    *)
(***************************************************************************)
TileOffset(tile, rows, cols, depth, lower) ==
  << (((tile \div depth) \div cols) % rows) + lower[1],
     ((tile \div depth) % cols) + lower[2],
     (tile % depth) + lower[3] >>

Elements(rows, cols, depth, lower) ==
  (lower[1] .. lower[1] + rows - 1)
    \X (lower[2] .. lower[2] + cols - 1)
    \X (lower[3] .. lower[3] + depth - 1)
=============================================================================
