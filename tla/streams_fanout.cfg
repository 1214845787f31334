CONSTANTS
    d1 = d1
    d2 = d2
    c1 = c1
    Devices <- MCDevices
    Conns <- MCOneConn
    Scenes <- MCFanout
    BufferMax = 1
    PendingMax = 1
    OutboxMax = 2
    DirectReserve = 2
SPECIFICATION Spec
INVARIANTS
    TypeOK
    
    SameSeqSameFrame
CHECK_DEADLOCK FALSE
