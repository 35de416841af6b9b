---------------------------- MODULE MCPageBlocks ----------------------------
(* Instances of PageBlocks for TLC.                                         *)
EXTENDS PageBlocks, TLC

CONSTANTS b1, b2, b3, b4, p1, p2, h1, h2, t1, t2, t3

\* A page with three blocks and one with a single block; one page with two.
TwoPages == [b \in {b1, b2, b3, b4} |-> IF b = b4 THEN p2 ELSE p1]
SmallPage == [b \in {b1, b2} |-> p1]

\* Freeing threads are interchangeable, and so are the blocks of one page.
TwoPagesSymmetry == Permutations({b1, b2, b3}) \cup Permutations({t1, t2})
=============================================================================
