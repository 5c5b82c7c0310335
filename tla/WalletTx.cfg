SPECIFICATION TxSpec
CONSTANTS
    Txs <- MCTxs
    Coinbases = {"r", "k"}
    Own = {"s", "d"}
    Outpoints <- MCOutpoints
    Of <- MCOf
    Ins <- MCIns
    Value <- MCValue
    Mine = {"k0", "q0", "p0", "s1", "d0"}
    Account <- MCAccount
    FromAccount <- MCFromAccount
    Accounts = {"", "A"}
    NonStandard = {"q"}
    Blocks <- MCBlocks
    Root = "root"
    Prev <- MCPrev
    Chain <- MCChain
    Vtx <- MCVtx
    COINBASE_MATURITY = 1
    bSpendZeroConfChange = TRUE
    InitialDownload = TRUE
    MaxDeaths = 2
    Null = "none"
INVARIANTS
    ChainSeen
    CreditsExact
    LedgerBalance
    BalancesAgree
PROPERTY CommitAccepted
CHECK_DEADLOCK FALSE
