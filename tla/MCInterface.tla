---------------------------- MODULE MCInterface ----------------------------
(* Instances of Interface for TLC: two batches of one channel and one of   *)
(* another.                                                                *)
EXTENDS Interface, TLC

CONSTANTS c1, c2, m1, m2, m3

TwoChannels == m1 :> c1 @@ m2 :> c1 @@ m3 :> c2
OneChannel  == [b \in Messages |-> c1]
=============================================================================
