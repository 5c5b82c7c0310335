SPECIFICATION Spec
CONSTANTS
    Blocks <- MainBlocks
    Genesis = "g"
    Prev <- MainPrev
    Chain <- MainChain
    Height <- MainHeight
    Work <- MainHeight
    Embeds <- MainEmbeds
    LottoKey <- MainLottoKey
    Malformed = {}
    BadHeader = {}
    BadTx = {}
    BadPool = {}
    BtcBlocks <- MCBtcBlocks
    BtcStart = "s"
    BtcPrev <- MCBtcPrev
    BtcChain <- MCBtcChain
    BtcHeight <- MCBtcHeight
    BtcWork <- MCBtcHeight
    Keys = {"k"}
    NoKey = "nokey"
    nRecheck = 2
    nMaxOrphan = 0
INVARIANTS
    AgreesWithBitcoin
    NothingMissed
PROPERTY
    MinerBuildsOnAgreed
