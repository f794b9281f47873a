---------------------------- MODULE MCNodeLink -----------------------------
(* NodeLink for TLC: model values for one node, one code and two            *)
(* connections, so that an old connection of a node outlives its successor's *)
(* registration.                                                             *)
EXTENDS NodeLink
=============================================================================
