----------------------------- MODULE MCGpuLevel -----------------------------
(***************************************************************************)
(* What a GPU keeps of the tree being grown, for TLC: the cache of the     *)
(* level's histograms (SplitCache) and the arena of row spans (RowArena).  *)
(* They share no state, so a behaviour moves one of them, in one of two    *)
(* sizes.                                                                  *)
(***************************************************************************)
EXTENDS SplitCache, RowArena

VARIABLE scenario

cache_vars == vars

----------------------------------------------------------------------------
\* SplitCache: with an odd capacity, that of the configuration, a pair of siblings
\* may be kept half on the device.

EvenCache == INSTANCE SplitCache WITH Cap <- 4, NTrees <- 1

----------------------------------------------------------------------------
\* RowArena: four rows, three features; the last lies in a block that is not resident.

MCBlockOf == << 1, 1, 2 >>

\* Splits that interleave the rows or leave one side empty.
Interleaved == {<< {2, 4}, {1, 4}, {2, 3} >>}
OneSided == {<< {2, 4}, l, {1, 3} >> : l \in {{}, {1, 3}}}

\* RowArena with two trees, one after the other, and smaller limits.
TwoTrees == INSTANCE RowArena WITH
  MaxLevels <- 2, Builds <- 2, MaxLevelNodes <- 2, LeftChoices <- OneSided

ASSUME TwoTrees!ArenaParams
ASSUME EvenCache!CacheParams

----------------------------------------------------------------------------
GpuInit ==
  /\ scenario \in {"deep tree", "two trees", "even", "odd"}
  /\ IF scenario = "two trees" THEN TwoTrees!ArenaInit ELSE ArenaInit
  /\ IF scenario = "even" THEN EvenCache!Init ELSE Init

PartitionRows ==
  /\ \/ scenario = "deep tree" /\ ArenaNext
     \/ scenario = "two trees" /\ TwoTrees!ArenaNext
  /\ UNCHANGED << scenario, cache_vars >>

SearchSplits ==
  /\ \/ scenario = "even" /\ EvenCache!Next
     \/ scenario = "odd" /\ Next
  /\ UNCHANGED << scenario, arena_vars >>

GpuSpec == GpuInit /\ [][PartitionRows \/ SearchSplits]_<< scenario, arena_vars, cache_vars >>
=============================================================================
