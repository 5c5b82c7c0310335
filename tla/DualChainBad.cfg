SPECIFICATION LiveSpec
CONSTANTS
    Blocks <- BadBlocks
    Genesis = "g"
    Prev <- BadPrev
    Chain <- BadChain
    Height <- BadHeight
    Work <- BadHeight
    Embeds <- BadEmbeds
    LottoKey <- BadLottoKey
    Malformed = {"f2"}
    BadHeader = {"e1"}
    BadTx = {"c1"}
    BadPool = {}
    BtcBlocks <- OneBtcBlocks
    BtcStart = "s"
    BtcPrev <- OneBtcPrev
    BtcChain <- OneBtcChain
    BtcHeight <- OneBtcHeight
    BtcWork <- OneBtcHeight
    Keys = {}
    NoKey = "nokey"
    nRecheck = 2
    nMaxOrphan = 1
INVARIANTS
    FailedStayOut
    OrphansWait
PROPERTY
    ActivationReturns
