------------------------------ MODULE MCClient ------------------------------
EXTENDS VectorApi, Process, Messages, TLC
CONSTANTS t1, t2, t3, s1, s2, p1, p2, b1, b2, b3, m1, m2

\* One of the two options is set to something that is not a value of it.
BadVerbose == [verbose |-> "bogus", show_errors |-> "on"]
SomeEnvironments == {BadVerbose, [verbose |-> "none", show_errors |-> "bogus"]}
WhoSays == (m1 :> {"message"}) @@ (m2 :> {"error", "verbose"})

\* The vector allocators, the process with its threads, and the options with
\* their messages: they change no state of each other, so that each is explored
\* by itself.
VARIABLE part
vars == <<part, vectorVars, processVars, messageVars>>

Init ==
  /\ VectorInit /\ ProcessInit /\ MessagesInit
  /\ part \in {"vectors", "process", "messages"}
  /\ part # "process" => ~loading /\ ~background /\ ~destroy
  /\ part # "messages" => env = BadVerbose

Next ==
  \/ part = "vectors" /\ VectorNext /\ UNCHANGED <<part, processVars, messageVars>>
  \/ part = "process" /\ ProcessNext /\ UNCHANGED <<part, vectorVars, messageVars>>
  \/ part = "messages" /\ MessagesNext /\ UNCHANGED <<part, vectorVars, processVars>>

Spec == Init /\ [][Next]_vars

\* Vectors of one and two units of alignment, one that is too long for size_t
\* and one that the rounding wraps.
SomeRequests == {<<1, 2>>, <<3, 1>>, <<31, 3>>, <<63, 1>>, <<0, 2>>}
PageOfBlock == (b1 :> p1) @@ (b2 :> p1) @@ (b3 :> p2)
OneOwner == (p1 :> t1) @@ (p2 :> t1)
OneBucket == (p1 :> 0) @@ (p2 :> 0)
VectorSymmetry == Permutations({t2, t3}) \cup Permutations({s1, s2}) \cup Permutations({b1, b2})
=============================================================================
