---------------------------- MODULE VectorParams ----------------------------
(***************************************************************************)
(* What the vector allocators have in common: the sizes of the OS, and the *)
(* arithmetic of size_t, whose largest value is SIZE_MAX.                  *)
(***************************************************************************)
EXTENDS Integers, FiniteSets

CONSTANTS
  Threads,
  PAGE,         \* OS page size
  GRAIN,        \* commit slab: PA_ARENA_COMMIT_GRAIN, PA_VEC_COMMIT_GRAIN
  SIZE_MAX      \* 2^w - 1

ASSUME ParamAssumption ==
  /\ {PAGE, GRAIN, SIZE_MAX} \subseteq Nat \ {0}
  /\ GRAIN % PAGE = 0 /\ (SIZE_MAX + 1) % GRAIN = 0

\* _pa_align_up and PA_VEC_ALIGN_UP, which may wrap.
RoundUp(n, a) == (((n + a - 1) \div a) * a) % (SIZE_MAX + 1)

Extent(from, size) == from .. from + size - 1
Smaller(a, b) == IF a < b THEN a ELSE b
=============================================================================
