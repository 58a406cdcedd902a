--------------------------- MODULE MCVideoPipeline ---------------------------
(***************************************************************************)
(* Instances of VideoPipeline small enough for TLC.                        *)
(***************************************************************************)
EXTENDS VideoPipeline, TLC

\* A source of 720 to 1079 lines.
TwoRungs == [v \in Videos |-> {"360p", "720p"}]

\* A source below 720 lines: no incremental update, unless its height is unknown.
OneRung == [v \in Videos |-> {"360p"}]

Symmetry == Permutations(Workers) \cup Permutations(MsgIds)
====
