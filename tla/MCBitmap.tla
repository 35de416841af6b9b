------------------------------ MODULE MCBitmap ------------------------------
(* Instances of Bitmap for TLC.                                             *)
EXTENDS Bitmap, TLC

CONSTANTS t1, t2

\* Threads are interchangeable.
Symmetry == Permutations(Threads)
=============================================================================
