---------------------------- MODULE MCDeployment ----------------------------
(***************************************************************************)
(* DeploymentLifecycle for TLC.  Requests, nodes and deployments are       *)
(* interchangeable: no definition tells one from another, so the safety    *)
(* runs may identify states that differ by a permutation of them.          *)
(***************************************************************************)
EXTENDS DeploymentLifecycle, TLC

Symmetry == Permutations(Req) \cup Permutations(Node) \cup Permutations(Depl)
=============================================================================
