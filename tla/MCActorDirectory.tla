-------------------------- MODULE MCActorDirectory --------------------------
(* An instance of ActorDirectory for TLC: a client with a stream, one with a  *)
(* socket or a message, and an action of a client that may create nothing or  *)
(* of the inline client, which is not asked.                                  *)
EXTENDS ActorDirectory, TLC

CONSTANTS r1, r2, r3, k1, k2, k3

MCServes ==
    r1 :> {"sse"} @@ r2 :> {"websocket", "message", "resolve"}
    @@ r3 :> {"action", "inline", "inline-resolve"}

MCAsks == r1 :> {k1} @@ r2 :> {k1, k2} @@ r3 :> {k1, k3}

MCGrants == r1 :> Intents @@ r2 :> Intents @@ r3 :> Intents \ {"create"}
=============================================================================
