----------------------------- MODULE MCRawUpload -----------------------------
(***************************************************************************)
(* Instances of RawUpload small enough for TLC.                            *)
(***************************************************************************)
EXTENDS RawUpload, TLC

Symmetry == Permutations(Tabs) \cup Permutations(Chunks)
=============================================================================
