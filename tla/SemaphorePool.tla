--------------------------- MODULE SemaphorePool ---------------------------
(***************************************************************************)
(* What the concurrency limit of one kind of agent promises: at most Size  *)
(* clients are inside, and they enter in the order in which they asked.    *)
(* It has no counter: whether there is room is a matter of who is inside.  *)
(***************************************************************************)
EXTENDS Naturals, Sequences, FiniteSets

CONSTANTS
  Clients,  \* who may use the pool
  Size      \* how many may be inside at once

VARIABLES
  queue,    \* the clients that asked and have not entered, oldest first
  inside    \* the clients that entered and have not left

poolVars == <<queue, inside>>

Init == queue = <<>> /\ inside = {}

Request(c) ==
  /\ c \notin inside
  /\ queue' = Append(queue, c)
  /\ UNCHANGED inside

Enter(c) ==
  /\ queue # <<>> /\ Head(queue) = c
  /\ Cardinality(inside) < Size
  /\ queue' = Tail(queue)
  /\ inside' = inside \cup {c}

Leave(c) ==
  /\ c \in inside
  /\ inside' = inside \ {c}
  /\ UNCHANGED queue

Next == \E c \in Clients : Request(c) \/ Enter(c) \/ Leave(c)

Spec == Init /\ [][Next]_poolVars
=============================================================================
