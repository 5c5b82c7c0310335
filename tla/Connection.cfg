SPECIFICATION LiveSpec
CONSTANTS
    Out = "out"
    In = "in"
    PipeSize = 1
    Chunk = 1
    SendBufferSize = 2
    ReceiveFloodSize = 1
    BlockSize = 2
    MaxAsk <- MCMaxAsk
    PingInterval = 0
    Timeout = 1
INVARIANTS
    NothingLost
    BuffersBounded
PROPERTIES
    OnlyJamsExpire
    AnsweredOrClosed
CHECK_DEADLOCK FALSE
