------------------------- MODULE MCClusterPartition -------------------------
(* Three nodes; the first write puts a body, the second puts another or    *)
(* deletes it; the first leader's node may leave the replicas and return.  *)
EXTENDS ClusterPartition

MCNode == 0..2
MCValue == {1, 2, -2}
MCTargets == [old \in SUBSET MCNode |-> {{1, 2}, {0, 1, 2}} \ {old}]
=============================================================================
