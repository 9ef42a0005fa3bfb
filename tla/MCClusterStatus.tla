-------------------------- MODULE MCClusterStatus ---------------------------
(* Instances of ClusterStatus for TLC; the constants are in the cfg files. *)
EXTENDS ClusterStatus
=============================================================================
