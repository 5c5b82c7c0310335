SPECIFICATION MinerSpec
CONSTANTS
    Txs <- MCTxs
    Coinbases = {"m", "r"}
    Outpoints <- MCOutpoints
    Of <- MCOf
    Ins <- MCIns
    NonStandard = {"n"}
    Unpaid = {"h"}
    BadScript = {"k"}
    Blocks <- MCBlocks
    Root = "root"
    Prev <- MCPrev
    Chain <- MCChain
    Vtx <- MCVtx
    Threads = {"msg"}
    Message = "msg"
    None = "none"
    MAX_ORPHAN_TRANSACTIONS = 2
INVARIANTS
    PoolConsistent
    NoShadow
    TemplateConnects
    NoneForgotten
PROPERTY
    OrphansFollow
