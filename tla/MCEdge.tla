------------------------------- MODULE MCEdge -------------------------------
(***************************************************************************)
(* Instances of Edge small enough for TLC.                                 *)
(***************************************************************************)
EXTENDS Edge, TLC

Symmetry == Permutations(Clients) \cup Permutations(Proxies) \cup Permutations(Handlers)
=============================================================================
