CONSTANTS
    d1 = d1
    d2 = d2
    c1 = c1
    Devices <- MCDevices
    Conns <- MCOneConn
    Scenes <- MCLoop
    BufferMax = 1
    PendingMax = 1
    OutboxMax = 2
    DirectReserve = 2
SPECIFICATION Spec
CONSTRAINT MCSubscribing
ACTION_CONSTRAINT MCOneByOne
INVARIANTS
    EpochSettles
CHECK_DEADLOCK FALSE
