-------------------------- MODULE MCRefreshRotation --------------------------
(***************************************************************************)
(* Instances of RefreshRotation small enough for TLC.                      *)
(***************************************************************************)
EXTENDS RefreshRotation

CONSTANTS c1, c2, c3, t1, t2

\* Two calls in one tab, one in another.
TwoAndOne == [c \in {c1, c2, c3} |-> IF c = c3 THEN t2 ELSE t1]
=============================================================================
