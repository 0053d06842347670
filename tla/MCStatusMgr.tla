----------------------------- MODULE MCStatusMgr -----------------------------
(* Two instances, two users and a change flag of two values, so that it    *)
(* comes round to its old value after two changes.                         *)
EXTENDS StatusMgr, TLC

CONSTANTS i1, i2, u1, u2

MCInstances == {i1, i2}
MCUsers == {u1, u2}
MCFirstUsers == {u1}
\* One exceptional event is followed to its end, a second one is not.
OneMishap == Cardinality(spoiled) <= 1
Symmetry == Permutations(MCInstances)
=============================================================================
