SPECIFICATION Spec
CONSTANTS
    Holders = {"miner", "getwork"}
    Getwork = "getwork"
    Passphrases = {"p", "q"}
    KeyPoolSize = 1
    MaxKeys = 6
    MaxCrashes = 1
    None = "none"
INVARIANTS
    Recoverable
    OneUse
    PoolReadable
CHECK_DEADLOCK FALSE
