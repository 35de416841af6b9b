------------------------------- MODULE MCArena -------------------------------
(* Instances of Arena for TLC.                                              *)
EXTENDS Arena, TLC

CONSTANTS t1, t2

\* Threads are interchangeable.
Symmetry == Permutations(Threads)

Delays(delays) ==
  [delay : delays, decommits : {TRUE}, recommit : {TRUE}, eager : {FALSE}]

\* Delayed purging with each effect a purge may have, purging at once, and none.
AllOptions ==
  Delays({-1, 0, 1}) \cup [delay : {1}, decommits : BOOLEAN, recommit : {FALSE}, eager : {TRUE}]

Delayed == Delays({1})
=============================================================================
