SPECIFICATION Spec
CONSTANTS
    MaxLen = 3
    MaxU64 = 2
    Peers <- MCPeers
    Sends <- MCSends
    None = None
INVARIANTS
    AlwaysDirectlyReceived
    NameKeeps
    JoinContained
    SendArrives
CHECK_DEADLOCK FALSE
