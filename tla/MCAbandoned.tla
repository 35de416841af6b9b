---------------------------- MODULE MCAbandoned -----------------------------
(* Instances of Abandoned for TLC.                                          *)
EXTENDS Abandoned

CONSTANTS t1, t2, os1, os2, os3, d1, d2, p1, p2

\* Two programs.  One has an arena segment and an OS segment, does all there is
\* to do with them, and always gets the part of the map.  The other has OS
\* segments only, one of them beyond the map, and may not get the part; its
\* threads start no walk and join no sub-process.
VARIABLE program
mcVars == <<program, vars>>

OnlySegments(S) == \A s \in Segments \ S : ~seg'[s].live

MCInit == Init /\ program \in {"walk", "map"}

MCNext ==
  /\ Next
  /\ program = "walk" => OnlySegments(ArenaSegments \cup {os1}) /\ map'[Nobody] = {}
  /\ program = "map" => /\ OnlySegments(OsSegments)
                        /\ \A t \in Threads : th'[t].cur.kind = "none" /\ th'[t].proc = DefaultSubproc
  /\ UNCHANGED program

MCSpec == MCInit /\ [][MCNext]_mcVars

Symmetry == Permutations({t1, t2}) \cup Permutations({d1, d2})
=============================================================================
