SPECIFICATION LiveSpec
CONSTANTS
    Blocks <- MCBlocks
    Genesis = "g"
    Prev <- MCPrev
    Chain <- MCChain
    Height <- MCHeight
    Work <- MCWork
    Signed = {"a1", "a2"}
    Threads = {"msg", "miner"}
    None = "none"
    Crashes = FALSE
    nMaxStarts = 1
INVARIANTS
    PassesCheckpoints
PROPERTY
    LockReturned
