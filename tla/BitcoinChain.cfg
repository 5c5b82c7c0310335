CHECK_DEADLOCK FALSE
SPECIFICATION SyncSpec
CONSTANTS
    Headers <- MCHeaders
    Start = "s"
    Prev <- MCPrev
    Chain <- MCChain
    Height <- MCHeight
    Work <- MCWork
    None = "none"
    MaxCrash = 1
    MaxHeaders = 2
    Elsewhere = {"b2"}
INVARIANTS
    DiskClosed
    SessionBest
PROPERTY HeadersArrive
