SPECIFICATION LotterySpec
CONSTANTS
    nIntervalLottery = 2
    nLottoStep = 6
    nMinBet = 1
    nUnchecked = 5
    nGenesisPool = 1000
    nMaxMoney = 65000
    nExact = 65536
    nInt64 = 524288
    Double <- MCDouble
    BetLists <- MCBetLists
    Hashes = {"x", "y"}
    Bytes <- MCBytes
    MaxHeight = 8
INVARIANTS
    CountsExact
    Solvent
    HashAfterBets
    KeyKept
    AcceptedForGood
