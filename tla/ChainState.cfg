SPECIFICATION Spec
CONSTANTS
    Txids <- MCTxids
    Outs <- MCOuts
    Ins <- MCIns
    Blocks <- MCBlocks
    Root = "root"
    Prev <- MCPrev
    Chain <- MCChain
    Height <- MCHeight
    Vtx <- MCVtx
    L <- MCL
    MaxFile = 2
    MaxFailures = 2
    InitialDownload = TRUE
    Miss = Miss
INVARIANTS
    CoinsExact
    ChainOnDisk
PROPERTY Implements
CHECK_DEADLOCK FALSE
