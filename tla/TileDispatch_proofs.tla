------------------------- MODULE TileDispatch_proofs -------------------------
(***************************************************************************)
(* Every dispatch gives each tile to exactly one thread, and the tiles are *)
(* the elements of the policy: for every size, chunk and pool.             *)
(***************************************************************************)
EXTENDS TileDispatch, Grid_proofs

\* The extents, the chunk and the pool are positive in every dispatch.
THEOREM DispatchTyping == Spec => []DispatchTypeOK
<1>1. Init => DispatchTypeOK
  BY DEF Init, DispatchTypeOK
<1>2. DispatchTypeOK /\ [Next]_dispatchVars => DispatchTypeOK'
  BY DEF DispatchTypeOK, Next, Taller, Wider, Deeper, Coarser, MoreThreads,
         dispatchVars
<1> QED
  BY <1>1, <1>2, PTL DEF Spec

LEMMA TileCountType ==
  ASSUME DispatchTypeOK
  PROVE  TileCount \in Nat
  BY SMT DEF DispatchTypeOK, TileCount

\* set_work_partition loses no tile and hands none to two threads.
THEOREM DispatchPartition == Spec => []EachTileOnce
<1>1. DispatchTypeOK => EachTileOnce
  <2> SUFFICES ASSUME DispatchTypeOK
               PROVE  EachTileOnce
    OBVIOUS
  <2>1. TileCount \in Nat /\ chunk \in Nat \ {0} /\ pool \in Nat \ {0}
    BY TileCountType DEF DispatchTypeOK
  <2>2. \A tile \in Tiles : \E rank \in Ranks : Runs(rank, tile)
    BY <2>1, PartitionCovers DEF Tiles, Ranks, Runs
  <2>3. \A tile \in Tiles : \A r1, r2 \in Ranks :
          Runs(r1, tile) /\ Runs(r2, tile) => r1 = r2
    BY <2>1, PartitionDisjoint DEF Tiles, Ranks, Runs
  <2> QED
    BY <2>2, <2>3 DEF EachTileOnce
<1> QED
  BY <1>1, DispatchTyping, PTL

\* HostIterateTile turns the tile numbers into the elements of the policy, one
\* to one and onto.
THEOREM DispatchDecoding == Spec => []TilesAreElements
<1>1. DispatchTypeOK => TilesAreElements
  <2> SUFFICES ASSUME DispatchTypeOK
               PROVE  TilesAreElements
    OBVIOUS
  <2>1. rows \in Nat \ {0} /\ cols \in Nat \ {0} /\ depth \in Nat \ {0}
    BY DEF DispatchTypeOK
  <2>2. Tiles = 0 .. rows * cols * depth - 1
    BY DEF Tiles, TileCount
  <2>3. Lower \in Int \X Int \X Int
    BY DEF Lower
  <2>4. \A tile \in Tiles :
          /\ Element(tile) \in Elements(rows, cols, depth, Lower)
          /\ TileNumber(Element(tile), cols, depth, Lower) = tile
    BY <2>1, <2>2, <2>3, TileOffsetCoordinates DEF Element
  <2>5. \A e \in Elements(rows, cols, depth, Lower) :
          /\ TileNumber(e, cols, depth, Lower) \in Tiles
          /\ Element(TileNumber(e, cols, depth, Lower)) = e
    BY <2>1, <2>2, <2>3, TileNumberDecode DEF Element
  <2> QED
    BY <2>4, <2>5 DEF TilesAreElements
<1> QED
  BY <1>1, DispatchTyping, PTL
=============================================================================
