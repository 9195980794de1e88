-------------------------- MODULE MCTopologyManager --------------------------
(* Small instances of TopologyManager for TLC.  Nodes is not a symmetry set: *)
(* idle tasks keep the node AnyNode chooses.                                 *)
EXTENDS TopologyManager, TLC

Symmetry == Permutations(Users) \cup Permutations(Creds)
=============================================================================
