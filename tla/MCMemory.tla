------------------------------ MODULE MCMemory ------------------------------
(* An instance of Memory for TLC: two memories are there, a third may be   *)
(* stored; two callers race.                                               *)
EXTENDS Memory, TLC

CONSTANTS m1, m2, m3, c1, c2

\* What matches no pattern: an observation, unless a type is given.
SomeContents == {{}}

SomeLinks == {<<m1, m2>>}

\* A search for one fact, and one with a minimum importance.
SomeRequests == {ToolRequest(1, "fact"), EndpointRequest(1, None, TRUE, 1)}

Symmetry == Permutations(Callers)
=============================================================================
