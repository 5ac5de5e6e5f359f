SPECIFICATION SocketsSpec
CONSTANTS
    Paths = {"ws", "ws-blobs", "sse", "inline-ws", "inline-sse", "worker", "inline-worker",
             "rivet", "test"}
    MaxSent = 3
INVARIANTS DeliveredInOrder
PROPERTIES SentIsHandled ClosedIsForgotten
CHECK_DEADLOCK FALSE
