----------------------------- MODULE VectorApi -----------------------------
(***************************************************************************)
(* The vector allocators together.  They share no state, so a client that  *)
(* uses one of them at a time sees all there is: the choice is made again  *)
(* whenever the one in use is back in its initial state.                   *)
(***************************************************************************)
EXTENDS PomaiArena, VecArena, VecPool, VectorBatch

vectorVars == <<pomaiVars, vecVars, poolVars, batchVars>>

VectorInit == PomaiInit /\ VecInit /\ PoolInit /\ BatchInit

NoPomaiArena == ~PomaiCreated
NoVecArena == ~VecCreated
NoVecPool == ~pool.created
NoBatch == bfree = BatchBlocks /\ \A t \in Threads : bth[t] = BatchIdle

VectorNext ==
  \/ NoVecArena /\ NoVecPool /\ NoBatch /\ PomaiNext /\ UNCHANGED <<vecVars, poolVars, batchVars>>
  \/ NoPomaiArena /\ NoVecPool /\ NoBatch /\ VecNext /\ UNCHANGED <<pomaiVars, poolVars, batchVars>>
  \/ NoPomaiArena /\ NoVecArena /\ NoBatch /\ PoolNext /\ UNCHANGED <<pomaiVars, vecVars, batchVars>>
  \/ NoPomaiArena /\ NoVecArena /\ NoVecPool /\ BatchNext /\ UNCHANGED <<pomaiVars, vecVars, poolVars>>

VectorSpec == VectorInit /\ [][VectorNext]_vectorVars

\* The memory of a vector is its own and can be used: no two vectors handed
\* out since the last reset overlap, each is aligned, within the capacity and
\* the bump pointer, and in memory the OS has committed - with threads bumping,
\* committing and rolling back at the same time, after failed commits, after
\* resets and clears; and the slots of a pool are taken once, and counted.
VectorsUsable ==
  /\ \A v, w \in pomai_live : v # w => Extent(v[1], v[2]) \cap Extent(w[1], w[2]) = {}
  /\ \A v, w \in vec_live : v # w => Extent(v[1], v[2]) \cap Extent(w[1], w[2]) = {}
  /\ \A o, x \in pool_live : o # x /\ o[1] = x[1] => Run(o[2], o[3]) \cap Run(x[2], x[3]) = {}
  /\ PomaiUsable
  /\ VecUsable
  /\ PoolExact
=============================================================================
