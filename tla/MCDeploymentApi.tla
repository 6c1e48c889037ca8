--------------------------- MODULE MCDeploymentApi ---------------------------
(* Small instances of DeploymentApi for TLC. *)
EXTENDS DeploymentApi, TLC

\* The workers are alike.
ClientSymmetry == Permutations(Client)
=============================================================================
