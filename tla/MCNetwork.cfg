SPECIFICATION MCSpec
CONSTANTS
    Kinds = {"Stream", "Dgram"}
    Remotes = {r1, r2}
    Ports = {1}
    Ephemeral = {2}
    None = None
    MaxSockets = 4
    MaxDatagrams = 3
    r1 = r1
    r2 = r2
    Roles = {"active", "passive"}
    SeqMod = 8
    RemoteIsns = {0, 6, 7}
    MaxBytes = 3
    MaxSegments = 6
    MaxSends = 2
    SendLens = {1, 6}
    ReadLens = {1, 3}
    Senders = {s1, s2}
    Hosts = {gateway, host}
    Far = {far}
    Gateway = gateway
    Me = me
    RETRY = 2
    RX_BUF_LEN = 32
    Lens = {8, 13}
    TxSlots = 2
    MaxQueue = 1
INVARIANTS
    PortMapsSound
    StreamExact
    
PROPERTIES
    OneSocketPerSyn
    CallsReturn
CHECK_DEADLOCK FALSE
