---------------------------- MODULE MCMessageBase ----------------------------
(* Two nodes and wwivutil, an area of two posts, texts of one and two       *)
(* blocks; three posts, a delete and a crash, but not all of them.          *)
EXTENDS MessageBase, TLC

CONSTANTS n1, n2

MCNodes == {n1, n2}
MCSizes == {1, 2}
MaxEvents == 4
Bound == Unspoiled /\ posts + deletes + crashes <= MaxEvents
Symmetry == Permutations(MCNodes)
=============================================================================
