------------------------------- MODULE VecPool -------------------------------
(***************************************************************************)
(* pa_vec_pool_t of palloc_vector.c: slots of one size in slabs of SLOTS   *)
(* slots, a bitmap and a count of the free slots per slab, and a cursor to *)
(* the slab that is used first.  One thread uses a pool.                   *)
(***************************************************************************)
EXTENDS Integers, FiniteSets, SequencesExt, FiniteSetsExt

CONSTANTS
  SLOTS,         \* PA_VEC_SLAB_SLOTS
  Slabs,         \* the slabs the heap has memory for
  NoSlab

ASSUME PoolAssumption == SLOTS \in Nat \ {0} /\ IsFiniteSet(Slabs) /\ NoSlab \notin Slabs

VARIABLES
  pool,        \* the slabs, newest first, and the cursor; or NoPool
  slab,        \* bitmap and free_count of each slab
  pool_live    \* what the client has: <<slab, first slot, count>>

poolVars == <<pool, slab, pool_live>>

NoPool == [slabs |-> <<>>, active |-> NoSlab, created |-> FALSE]
EmptySlab == [bitmap |-> {}, free_count |-> SLOTS]
Slots == 0 .. SLOTS - 1
Run(i, n) == i .. i + n - 1
PoolSlabs == {pool.slabs[k] : k \in 1 .. Len(pool.slabs)}

PoolInit ==
  /\ pool = NoPool
  /\ slab = [s \in Slabs |-> EmptySlab]
  /\ pool_live = {}

\* pa_vec_pool_create with its first slabs, newest first (the heap may run out
\* of memory for them, which is not an error).
PoolCreate(initial) ==
  /\ ~pool.created
  /\ pool' = [slabs |-> initial, active |-> IF initial = <<>> THEN NoSlab ELSE initial[1], created |-> TRUE]
  /\ UNCHANGED <<slab, pool_live>>

Take(s, i, n) == [slab EXCEPT ![s].bitmap = @ \cup Run(i, n), ![s].free_count = @ - n]

\* The slab pa_vec_pool_alloc takes: the cursor's, or the first that is not
\* full, or a new one.
FirstNotFull ==
  LET K == {k \in 1 .. Len(pool.slabs) : slab[pool.slabs[k]].free_count > 0}
  IN IF K = {} THEN NoSlab ELSE pool.slabs[Min(K)]

PoolAlloc ==
  LET s == IF pool.active # NoSlab /\ slab[pool.active].free_count > 0 THEN pool.active ELSE FirstNotFull
      slot == Min(Slots \ slab[s].bitmap)
  IN /\ pool.created /\ s # NoSlab
     /\ pool' = [pool EXCEPT !.active = s]
     /\ slab' = Take(s, slot, 1)
     /\ pool_live' = pool_live \cup {<<s, slot, 1>>}

PoolAllocGrows(s) ==
  /\ pool.created /\ FirstNotFull = NoSlab /\ s \notin PoolSlabs
  /\ pool' = [pool EXCEPT !.slabs = <<s>> \o @, !.active = s]
  /\ slab' = Take(s, 0, 1)
  /\ pool_live' = pool_live \cup {<<s, 0, 1>>}

\* pa_vec_pool_free
PoolFree(o) ==
  /\ o[3] = 1
  /\ slab' = [slab EXCEPT ![o[1]].bitmap = @ \ {o[2]}, ![o[1]].free_count = @ + 1]
  /\ pool' = [pool EXCEPT !.active = o[1]]
  /\ pool_live' = pool_live \ {o}

\* pa_slab_find_contiguous: shifting the mask onto itself k - 1 times leaves
\* the first bits of runs of k.
FindContiguous(mask, k) ==
  LET run[i \in 1 .. SLOTS] ==
        IF i = 1 THEN mask ELSE {b \in run[i - 1] : b + 1 \in run[i - 1]}
  IN IF run[k] = {} THEN -1 ELSE Min(run[k])

\* pa_vec_pool_alloc_contiguous: the first slab with a long enough run; the
\* cursor stays.
Roomy(n) ==
  {k \in 1 .. Len(pool.slabs) :
     /\ slab[pool.slabs[k]].free_count >= n
     /\ FindContiguous(Slots \ slab[pool.slabs[k]].bitmap, n) >= 0}

PoolAllocContiguous(n) ==
  LET s == pool.slabs[Min(Roomy(n))]
      slot == FindContiguous(Slots \ slab[s].bitmap, n)
  IN /\ pool.created /\ Roomy(n) # {}
     /\ slab' = Take(s, slot, n)
     /\ pool_live' = pool_live \cup {<<s, slot, n>>}
     /\ UNCHANGED pool

PoolContiguousGrows(s, n) ==
  /\ pool.created /\ Roomy(n) = {} /\ s \notin PoolSlabs
  /\ pool' = [pool EXCEPT !.slabs = <<s>> \o @]
  /\ slab' = Take(s, 0, n)
  /\ pool_live' = pool_live \cup {<<s, 0, n>>}

\* pa_vec_pool_free_contiguous
PoolFreeContiguous(o) ==
  /\ slab' = [slab EXCEPT ![o[1]].bitmap = @ \ Run(o[2], o[3]), ![o[1]].free_count = @ + o[3]]
  /\ pool_live' = pool_live \ {o}
  /\ UNCHANGED pool

\* pa_vec_pool_destroy: all slabs, whatever the client still has in them.
PoolDestroy ==
  /\ pool.created
  /\ pool' = NoPool
  /\ slab' = [s \in Slabs |-> EmptySlab]
  /\ pool_live' = {}

PoolNext ==
  \/ \E S \in SUBSET Slabs : \E initial \in SetToSeqs(S) : PoolCreate(initial)
  \/ PoolAlloc \/ PoolDestroy
  \/ \E s \in Slabs : PoolAllocGrows(s)
  \/ \E n \in 1 .. SLOTS : PoolAllocContiguous(n) \/ \E s \in Slabs : PoolContiguousGrows(s, n)
  \/ \E o \in pool_live : PoolFree(o) \/ PoolFreeContiguous(o)

\* Part of VectorsUsable: the bits that are set are the slots the client has,
\* each once, and the counts say how many are left.
PoolExact ==
  \A s \in Slabs :
    LET mine == {o \in pool_live : o[1] = s}
    IN /\ slab[s].bitmap = UNION {Run(o[2], o[3]) : o \in mine}
       /\ slab[s].free_count = SLOTS - Cardinality(slab[s].bitmap)
       /\ mine # {} => s \in PoolSlabs
=============================================================================
