----------------------------- MODULE MCPlayback -----------------------------
(***************************************************************************)
(* Instances of Playback small enough for TLC.                             *)
(***************************************************************************)
EXTENDS Playback, TLC

Symmetry == Permutations(Videos) \cup Permutations(Handlers)
=============================================================================
