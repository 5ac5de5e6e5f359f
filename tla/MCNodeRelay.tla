---------------------------- MODULE MCNodeRelay ----------------------------
(* An instance of NodeRelay for TLC: the connections looked at are all on one *)
(* node; the busy node gains and loses references of others at will.          *)
EXTENDS NodeRelay

CONSTANT Front

MCHome == [c \in Conns |-> Front]
=============================================================================
