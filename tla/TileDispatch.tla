----------------------------- MODULE TileDispatch -----------------------------
(***************************************************************************)
(* The policies a program may launch, over every size of the iteration     *)
(* space, chunk and thread pool up to the bounds: each state is one        *)
(* dispatch, each step the next larger one in one dimension.               *)
(***************************************************************************)
EXTENDS HostTiles

CONSTANTS MaxExtent, MaxChunk, MaxPool

ASSUME DispatchAssumption ==
  /\ MaxExtent \in Nat \ {0}
  /\ MaxChunk \in Nat \ {0}
  /\ MaxPool \in Nat \ {0}

VARIABLES
  rows, cols, depth,  \* extents of an MDRangePolicy with tiles of one element
  chunk,              \* chunk size of the policy over its tiles
  pool                \* threads in the pool

dispatchVars == <<rows, cols, depth, chunk, pool>>

\* m_num_tiles, the length of the policy over the tiles.
TileCount == rows * cols * depth

Tiles == 0 .. TileCount - 1
Ranks == 0 .. pool - 1

\* The lower bounds of gauss_original_image.
Lower == <<1, 1, 0>>

Runs(rank, tile) ==
  /\ PartFirst(TileCount, chunk, pool, rank) <= tile
  /\ tile < PartEnd(TileCount, chunk, pool, rank)

Element(tile) == TileOffset(tile, rows, cols, depth, Lower)

Init ==
  /\ rows = 1 /\ cols = 1 /\ depth = 1
  /\ chunk = 1
  /\ pool = 1

Taller ==
  /\ rows < MaxExtent /\ rows' = rows + 1
  /\ UNCHANGED <<cols, depth, chunk, pool>>

Wider ==
  /\ cols < MaxExtent /\ cols' = cols + 1
  /\ UNCHANGED <<rows, depth, chunk, pool>>

Deeper ==
  /\ depth < MaxExtent /\ depth' = depth + 1
  /\ UNCHANGED <<rows, cols, chunk, pool>>

Coarser ==
  /\ chunk < MaxChunk /\ chunk' = chunk + 1
  /\ UNCHANGED <<rows, cols, depth, pool>>

MoreThreads ==
  /\ pool < MaxPool /\ pool' = pool + 1
  /\ UNCHANGED <<rows, cols, depth, chunk>>

Next == Taller \/ Wider \/ Deeper \/ Coarser \/ MoreThreads

Spec == Init /\ [][Next]_dispatchVars

DispatchTypeOK ==
  /\ rows \in Nat \ {0} /\ cols \in Nat \ {0} /\ depth \in Nat \ {0}
  /\ chunk \in Nat \ {0}
  /\ pool \in Nat \ {0}

\* Every tile is executed, and by one thread only, although the blocks are
\* rounded up and the last ranks may start behind the end of the work.
EachTileOnce ==
  /\ \A tile \in Tiles : \E rank \in Ranks : Runs(rank, tile)
  /\ \A tile \in Tiles : \A r1, r2 \in Ranks :
       Runs(r1, tile) /\ Runs(r2, tile) => r1 = r2

\* The decoding of tile numbers reaches every element of the policy exactly
\* once and nothing outside its bounds.
TilesAreElements ==
  /\ \A tile \in Tiles : Element(tile) \in Elements(rows, cols, depth, Lower)
  /\ \A e \in Elements(rows, cols, depth, Lower) :
       \E tile \in Tiles : Element(tile) = e
  /\ \A t1, t2 \in Tiles : Element(t1) = Element(t2) => t1 = t2
=============================================================================
