---------------------------- MODULE MCOsMemory ------------------------------
(* Instances of OsMemory and Arenas for TLC.                                *)
EXTENDS OsMemory, Arenas, TLC

CONSTANTS t1, t2

\* Two programs: one uses the OS layer, one the table of arenas, whose OS memory
\* is abstract; they change no state of each other.
VARIABLE part
vars == <<part, osVars, arenasVars>>

Init == OsInit /\ ArenasInit /\ part \in {"os", "arenas"}

Next ==
  \/ part = "os" /\ OsNext /\ UNCHANGED <<part, arenasVars>>
  \/ part = "arenas" /\ ArenasNext /\ UNCHANGED <<part, osVars>>

Spec == Init /\ [][Next]_vars

\* Memory of the program that is not aligned, for all and for those who ask
SomeGiven ==
  {[start |-> 102, size |-> 11, exclusive |-> FALSE, large |-> FALSE, node |-> 1],
   [start |-> 121, size |-> 8, exclusive |-> TRUE, large |-> TRUE, node |-> 0]}
Request(blocks, req, large, node) == [blocks |-> blocks, req |-> req, large |-> large, node |-> node]
SomeRequests == {Request(2, 0, FALSE, 0), Request(3, 0, TRUE, -1), Request(1, 1, TRUE, -1)}
SomeReservations == {[size |-> 7, exclusive |-> TRUE, large |-> FALSE]}

ThreadSymmetry == Permutations({t1, t2})
=============================================================================
