-------------------------- MODULE MCDeploymentOps --------------------------
(* Small instance of DeploymentOps for TLC.                                *)
EXTENDS DeploymentOps, TLC

(* Calls are interchangeable, and so are sweepers.                         *)
Symmetry == Permutations(Calls) \cup Permutations(Sweepers)
=============================================================================
