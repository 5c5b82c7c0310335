SPECIFICATION LiveSpec
CONSTANTS
    Blocks <- DirtyBlocks
    Genesis = "g"
    Prev <- DirtyPrev
    Chain <- DirtyChain
    Height <- DirtyHeight
    Work <- DirtyHeight
    Embeds <- DirtyEmbeds
    LottoKey <- DirtyLottoKey
    Malformed = {}
    BadHeader = {}
    BadTx = {}
    BadPool = {"c1"}
    BtcBlocks <- MCBtcBlocks
    BtcStart = "s"
    BtcPrev <- MCBtcPrev
    BtcChain <- MCBtcChain
    BtcHeight <- MCBtcHeight
    BtcWork <- MCBtcHeight
    Keys = {}
    NoKey = "nokey"
    nRecheck = 2
    nMaxOrphan = 0
PROPERTY
    ActivationReturns
