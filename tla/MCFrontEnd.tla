----------------------------- MODULE MCFrontEnd -----------------------------
EXTENDS FrontEnd

\* The client uses the heap, or the tables, queues and size arithmetic the heap
\* is built on are probed; the two change no state of each other, so that their
\* interleavings add nothing.
VARIABLE part
vars == <<part, sizeVars, frontVars>>

PlainBuild ==
  [padding |-> FALSE, guarded |-> FALSE, max |-> 0, calls |-> 3, sizes |-> {5},
   counts |-> {<<32, 9>>}, aligned |-> {<<3, 8, 2>>, <<8, 8, 0>>, <<5, 32, 0>>},
   newsizes |-> {6, 14}, newaligns |-> {0, 8}]
PaddedBuild ==
  [padding |-> TRUE, guarded |-> FALSE, max |-> 40, calls |-> 3, sizes |-> {5, 254},
   counts |-> {}, aligned |-> {<<0, 16, 0>>, <<5, 32, 0>>}, newsizes |-> {14}, newaligns |-> {0}]
GuardedBuild ==
  [padding |-> FALSE, guarded |-> TRUE, max |-> 0, calls |-> 2, sizes |-> {5},
   counts |-> {<<3, 4>>}, aligned |-> {<<3, 8, 0>>, <<3, 8, 2>>, <<5, 32, 2>>, <<5, 3, 0>>}, newsizes |-> {0, 14}, newaligns |-> {0}]
SomeBuilds == {PlainBuild, PaddedBuild, GuardedBuild}

Init ==
  /\ SizesInit /\ FrontInit
  /\ part \in {"sizes", "front"}
  /\ part = "sizes" => build = PlainBuild

Next ==
  \/ part = "sizes" /\ SizesNext /\ UNCHANGED <<part, frontVars>>
  \/ part = "front" /\ FrontNext /\ UNCHANGED <<part, sizeVars>>

Spec == Init /\ [][Next]_vars
=============================================================================
