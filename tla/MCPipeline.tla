----------------------------- MODULE MCPipeline -----------------------------
(* Instances of Pipeline for TLC: the constants are given in the .cfg files. *)
EXTENDS Pipeline, TLC

Symmetry == Permutations(Workers)
=============================================================================
