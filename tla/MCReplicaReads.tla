---------------------------- MODULE MCReplicaReads ----------------------------
(* ReplicaReads on small instances. *)
EXTENDS ReplicaReads, TLC

\* All hosts in one group of the map of clients, the case with most contention.
OneGroup == [n \in Nodes |-> CHOOSE g \in Groups : TRUE]

\* A list that is not set, and one with all hosts, the node itself among them.
All == CHOOSE list \in [1..Cardinality(Nodes) -> Nodes] : Range(list) = Nodes
UnsetOrFull == {<<>>, All}

\* No tombstones at first ...
LiveFiles == {table \in Table : \A k \in Keys : table[k] = None \/ IsLive(table[k])}

\* ... and nothing of version 0: what matters of these is written by the clients.
NewFiles == {table \in LiveFiles : \A k \in Keys : table[k] = None \/ table[k].version # 0}

RequestSymmetry == Permutations(Requests)
=============================================================================
