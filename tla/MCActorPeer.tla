---------------------------- MODULE MCActorPeer ----------------------------
(* Instances of ActorPeer for TLC.  Every node may create one peer and       *)
(* serves one connection; a busy node may create a second peer after the     *)
(* first and serves a second connection.                                     *)
EXTENDS ActorPeer, TLC

CONSTANT Busy

ASSUME BusyAssumption == Busy \subseteq Nodes

MCPeers == (Nodes \X {1}) \cup (Busy \X {2})
MCConns == (Nodes \X {11}) \cup (Busy \X {12})
MCNodeOf == [p \in MCPeers |-> p[1]]
MCConnNode == [c \in MCConns |-> c[1]]

NodeSymmetry == Permutations(Nodes \ Busy) \cup Permutations(Busy)
=============================================================================
