------------------------------ MODULE VecArena ------------------------------
(***************************************************************************)
(* pa_vec_arena_t of palloc_vector.c: a reservation of the OS with a bump  *)
(* pointer, for one thread.  The memory is committed slab by slab; a reset *)
(* decommits all of it, a clear keeps it committed.                        *)
(***************************************************************************)
EXTENDS VectorParams

CONSTANTS
  VecSizes,       \* sizes the client asks for
  VecAligns,      \* alignments (powers of two)
  VecCounts,      \* lengths of a batch
  VecStarts,      \* where the OS may put a reservation
  VecCommitFails  \* commits that may fail: of "create" and of "alloc"

ASSUME VecAssumption ==
  /\ VecSizes \cup VecAligns \cup VecCounts \cup VecStarts \subseteq 0 .. SIZE_MAX
  /\ \A s \in VecStarts : s % PAGE = 0
  /\ \A a \in VecAligns : a > 0 /\ (SIZE_MAX + 1) % a = 0 /\ (a <= PAGE => PAGE % a = 0)
  /\ VecCommitFails \subseteq {"create", "alloc"}

VARIABLES
  vec,        \* the arena, or NoVec
  vec_os,     \* the addresses the OS has committed
  vec_live    \* the vectors of the client, <<address, size>>

vecVars == <<vec, vec_os, vec_live>>

NoVec == [os_block |-> -1]
VecCreated == vec # NoVec

VecInit == vec = NoVec /\ vec_os = {} /\ vec_live = {}

VecFails(what) == {TRUE} \cup (IF what \in VecCommitFails THEN {FALSE} ELSE {})

-----------------------------------------------------------------------------
\* pa_vec_arena_create_ex.  The OS treats the alignment as a hint, and more is
\* reserved when it is larger than a page.  The result of the first commit is
\* not looked at.
VecCreate(size, alignment, os_block, can_reserve, ok) ==
  LET capacity == RoundUp(size, PAGE)
      extra == IF alignment > PAGE THEN alignment ELSE 0
      base == IF extra > 0 THEN RoundUp(os_block, alignment) ELSE os_block
      final == Smaller(capacity + extra - (base - os_block), capacity)
      first == Smaller(GRAIN, final)
  IN /\ ~VecCreated
     /\ size # 0 /\ size <= SIZE_MAX - PAGE /\ extra <= SIZE_MAX - capacity
     /\ os_block + capacity + extra <= SIZE_MAX
     /\ vec' = [os_block |-> os_block, os_block_size |-> capacity + extra, base |-> base,
                alignment |-> alignment, capacity |-> final, used |-> 0,
                committed |-> IF can_reserve THEN first ELSE final,
                max_size |-> 0, use_os_reserve |-> can_reserve]
     /\ vec_os' = IF ~can_reserve THEN Extent(os_block, capacity + extra)
                  ELSE IF ok THEN Extent(base, first) ELSE {}
     /\ UNCHANGED vec_live

\* Commit of the slabs up to `new`, in VecAlloc and VecAllocBatch.
VecNeed(new) == Smaller(RoundUp(new, GRAIN), vec.capacity)

VecBump(new, ok) ==
  /\ new <= vec.capacity
  /\ vec.max_size # 0 => new <= vec.max_size
  /\ IF new > vec.committed
       THEN /\ RoundUp(new, GRAIN) >= new
            /\ (vec.base + vec.committed) % PAGE = 0 /\ ok
            /\ vec_os' = vec_os \cup Extent(vec.base + vec.committed, VecNeed(new) - vec.committed)
            /\ vec' = [vec EXCEPT !.used = new, !.committed = VecNeed(new)]
       ELSE /\ vec' = [vec EXCEPT !.used = new]
            /\ UNCHANGED vec_os

\* pa_vec_arena_alloc
VecAlloc(size, ok) ==
  LET aligned == RoundUp(size, vec.alignment)
  IN /\ VecCreated /\ size # 0 /\ aligned >= size
     /\ VecBump(vec.used + aligned, ok)
     /\ vec_live' = vec_live \cup {<<vec.base + vec.used, size>>}

\* pa_vec_materialize_ptrs: both kernels store the addresses one step apart.
MaterializePtrs(base, step, count) == [i \in 1 .. count |-> base + (i - 1) * step]

\* pa_vec_arena_alloc_batch: all vectors or none.
VecAllocBatch(count, size, ok) ==
  LET aligned == RoundUp(size, vec.alignment)
      ptrs == MaterializePtrs(vec.base + vec.used, aligned, count)
  IN /\ VecCreated /\ count # 0 /\ size # 0 /\ aligned >= size
     /\ count * aligned <= SIZE_MAX - vec.used
     /\ VecBump(vec.used + count * aligned, ok)
     /\ vec_live' = vec_live \cup {<<ptrs[i], size>> : i \in 1 .. count}

\* pa_vec_arena_reset
VecReset ==
  /\ VecCreated
  /\ LET decommits == vec.committed > 0 /\ vec.use_os_reserve
     IN /\ vec' = [vec EXCEPT !.used = 0, !.committed = IF decommits THEN 0 ELSE @]
        /\ vec_os' = IF decommits THEN vec_os \ Extent(vec.base, vec.committed) ELSE vec_os
  /\ vec_live' = {}

\* pa_vec_arena_clear
VecClear ==
  /\ VecCreated
  /\ vec' = [vec EXCEPT !.used = 0]
  /\ vec_live' = {}
  /\ UNCHANGED vec_os

\* pa_vec_arena_destroy
VecDestroy ==
  /\ VecCreated
  /\ vec' = NoVec /\ vec_os' = {} /\ vec_live' = {}

\* pa_vec_arena_set_max_size, which may be below what is in use.
VecSetMaxSize(max) ==
  /\ VecCreated
  /\ vec' = [vec EXCEPT !.max_size = max]
  /\ UNCHANGED <<vec_os, vec_live>>

VecNext ==
  \/ \E size \in VecSizes :
       \/ \E a \in VecAligns, os_block \in VecStarts, can_reserve \in BOOLEAN, ok \in VecFails("create") :
            VecCreate(size, a, os_block, can_reserve, ok)
       \/ \E ok \in VecFails("alloc") :
            VecAlloc(size, ok) \/ \E count \in VecCounts : VecAllocBatch(count, size, ok)
       \/ VecSetMaxSize(size)
  \/ VecReset \/ VecClear \/ VecDestroy

\* Part of VectorsUsable.
VecUsable ==
  \A v \in vec_live :
    /\ v[1] % vec.alignment = 0
    /\ Extent(v[1], v[2]) \subseteq Extent(vec.base, vec.used)
    /\ Extent(v[1], v[2]) \subseteq Extent(vec.os_block, vec.os_block_size)
    /\ Extent(v[1], v[2]) \subseteq vec_os
=============================================================================
