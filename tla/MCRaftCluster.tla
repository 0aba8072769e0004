--------------------------- MODULE MCRaftCluster ---------------------------
(***************************************************************************)
(* RaftCluster with the timeouts of the crate's tests:                     *)
(* Cluster::new(vec![1, 2, 3], 10, 3).                                     *)
(***************************************************************************)
EXTENDS RaftCluster

Timeouts == [i \in Node |-> 10 + i]
=============================================================================
