------------------------------ MODULE BlockPool ------------------------------
(***************************************************************************)
(* What palloc promises its clients about blocks, whatever threads free    *)
(* them and whatever happens to pages and heaps: a block is given out only *)
(* while it is reusable, it is the client's until it is freed (or its heap *)
(* is destroyed), it becomes reusable only after that, and then stays so   *)
(* until it is given out again.                                            *)
(***************************************************************************)
CONSTANT Blocks
VARIABLES owned, reusable

poolVars == <<owned, reusable>>

Init == owned = {} /\ reusable = Blocks

\* pa_malloc.
Alloc(b) ==
  /\ b \in reusable
  /\ owned' = owned \cup {b}
  /\ reusable' = reusable \ {b}

\* Freed blocks are made reusable, as late as the allocator likes.
Recycle == reusable \subseteq reusable' /\ reusable' \subseteq Blocks \ owned'

\* pa_free.
Free(b) == b \in owned /\ owned' = owned \ {b} /\ Recycle

\* pa_heap_destroy.
Destroy(S) == S \subseteq owned /\ owned' = owned \ S /\ Recycle

Next ==
  \/ \E b \in Blocks : Alloc(b) \/ Free(b)
  \/ \E S \in SUBSET Blocks : Destroy(S)
  \/ owned' = owned /\ Recycle

Spec == Init /\ [][Next]_poolVars
=============================================================================
