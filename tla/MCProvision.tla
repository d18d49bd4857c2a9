---------------------------- MODULE MCProvision ----------------------------
(***************************************************************************)
(* ProvisionLifecycle for TLC.  Requests, instances and node ids are       *)
(* interchangeable; provisions are not, the worker takes them in the order *)
(* of their ids.                                                           *)
(***************************************************************************)
EXTENDS ProvisionLifecycle, TLC

Symmetry == Permutations(Req) \cup Permutations(Instance) \cup Permutations(NodeId)
=============================================================================
