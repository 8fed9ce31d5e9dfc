SPECIFICATION SocketsSpec
CONSTANTS
    Kinds = {"Stream"}
    Ports = {1}
    Ephemeral = {2}
    Remotes = {r1}
    None = None
    MaxSockets = 3
    MaxDatagrams = 0
INVARIANT ListenerReachable
CHECK_DEADLOCK FALSE
