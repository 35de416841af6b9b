----------------------------- MODULE MCSegments -----------------------------
(* Instances of Segments for TLC.                                           *)
EXTENDS Segments, TLC

CONSTANTS s1, s2, t1, t2

\* A small page, a medium page of two blocks, a large page of one block.
Sizes == {<<1, 1>>, <<2, 1>>, <<2, 2>>}

\* Reserved memory fresh from the OS, and an arena range that was used.
Memory == {<<FALSE, TRUE>>, <<TRUE, FALSE>>}

\* Threads are interchangeable.
ThreadSymmetry == Permutations({t1, t2})
=============================================================================
