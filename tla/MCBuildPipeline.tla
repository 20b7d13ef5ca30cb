-------------------------- MODULE MCBuildPipeline --------------------------
(* Small instance of BuildPipeline for TLC.                                *)
EXTENDS BuildPipeline, TLC

(* Workers are interchangeable, and so are operators.                      *)
Symmetry == Permutations(Workers) \cup Permutations(Operators)
=============================================================================
