----------------------------- MODULE WalletKeys -----------------------------
(***************************************************************************)
(* The keys of the wallet: key store, encryption, key pool, reserved keys, *)
(* and the records of wallet.dat, under crashes.                           *)
(*                                                                         *)
(* Every wallet command runs under cs_main and cs_wallet, a reservation by *)
(* a miner under cs_wallet: pc, then, limit and newKey are the state of    *)
(* the one call that holds cs_wallet.  Three things happen beside it: the  *)
(* timer that locks the wallet, which takes neither lock, a miner that     *)
(* keeps its key, which takes cs_main, and a crash, after any write.       *)
(* A key is the number of its creation; key 0 and index 0 stand for none.  *)
(***************************************************************************)
EXTENDS Naturals, FiniteSets

CONSTANTS
    Holders,      \* CReserveKey objects that live on between calls: one per miner and getwork's
    Getwork,      \* the holder whose calls hold cs_main
    Passphrases,
    KeyPoolSize,  \* -keypool
    MaxKeys, MaxCrashes,  \* bounds of the model
    None

ASSUME WalletKeysAssumption ==
    /\ Getwork \in Holders /\ None \notin Passphrases
    /\ Holders \cap {"none", "give", "default", "change", "arm", "encrypt"} = {}
    /\ KeyPoolSize \in Nat /\ MaxKeys \in Nat /\ MaxCrashes \in Nat

Keys == 1..MaxKeys

VARIABLES
    key, ckey,    \* on disk: the keys with a plain and with an encrypted record,
    mkey,         \*   the passphrase of the master key's record, or None,
    pool,         \*   the key of each pool record,
    defaultkey,
    mapKeys, mapCryptedKeys,  \* in memory: the plain and the encrypted keys
    fUseCrypto,
    mapMasterKeys,    \* the passphrase of the master key, or None
    unlocked,         \* vMasterKey is not empty
    setKeyPool,       \* the indices of the pool
    vchDefaultKey,
    reserve,          \* nIndex and vchPubKey of every CReserveKey
    timer,            \* lockwallet is scheduled
    pc, then, limit, newKey, fWasLocked, newPass,  \* the call in progress
    nextKey, crashes,
    given,            \* the keys an address, a change output or a block has used
    restarted         \* an index held by a CReserveKey has been given to a new key

disk == <<key, ckey, mkey, pool, defaultkey>>
store == <<mapKeys, mapCryptedKeys, fUseCrypto, mapMasterKeys>>
call == <<then, limit, newKey, fWasLocked, newPass>>
vars == <<disk, store, unlocked, setKeyPool, vchDefaultKey, reserve, timer, pc, call,
          nextKey, crashes, given, restarted>>

Unreserved == [index |-> 0, key |-> 0]
IsLocked == fUseCrypto /\ ~unlocked
Have == mapKeys \cup mapCryptedKeys

\* The call returns, or throws, and its variables are gone.
Idle ==
    /\ pc' = "idle" /\ then' = "none" /\ limit' = 0
    /\ newKey' = 0 /\ fWasLocked' = FALSE /\ newPass' = None

\* What the call does after TopUpKeyPool.
GoOn ==
    CASE then = "none" -> Idle
      [] then = "arm" -> pc' = "arm" /\ UNCHANGED call
      [] then = "encrypt" -> pc' = "encrypted" /\ UNCHANGED call
      [] OTHER -> pc' = "take" /\ UNCHANGED call

\* LoadWallet from what is on disk.  On the first run a default key is taken.
Load ==
    /\ mapKeys' = key /\ mapCryptedKeys' = ckey
    /\ fUseCrypto' = (ckey # {})
    /\ mapMasterKeys' = mkey
    /\ unlocked' = FALSE
    /\ setKeyPool' = {i \in Keys : pool[i] # 0}
    /\ vchDefaultKey' = defaultkey
    /\ reserve' = [h \in Holders |-> Unreserved]
    /\ timer' = FALSE
    /\ IF defaultkey # 0
       THEN Idle
       ELSE /\ pc' = "topup" /\ then' = "default" /\ limit' = KeyPoolSize + 1
            /\ newKey' = 0 /\ fWasLocked' = FALSE /\ newPass' = None

Init ==
    /\ key = {} /\ ckey = {} /\ mkey = None /\ pool = [i \in Keys |-> 0] /\ defaultkey = 0
    /\ mapKeys = {} /\ mapCryptedKeys = {} /\ fUseCrypto = FALSE /\ mapMasterKeys = None
    /\ unlocked = FALSE /\ setKeyPool = {} /\ vchDefaultKey = 0
    /\ reserve = [h \in Holders |-> Unreserved] /\ timer = FALSE
    /\ pc = "topup" /\ then = "default" /\ limit = KeyPoolSize + 1
    /\ newKey = 0 /\ fWasLocked = FALSE /\ newPass = None
    /\ nextKey = 1 /\ crashes = 0 /\ given = {} /\ restarted = FALSE

\* The process is killed between two writes to wallet.dat, and started again.
Crash ==
    /\ crashes < MaxCrashes
    /\ crashes' = crashes + 1
    /\ Load
    /\ UNCHANGED <<disk, nextKey, given, restarted>>
-----------------------------------------------------------------------------
(* Commands that need a key: a call of TopUpKeyPool, and what follows it.   *)

\* A caller enters TopUpKeyPool with cs_wallet, to go on with n afterwards.
TopUpThen(n, size) ==
    /\ pc = "idle"
    /\ pc' = "topup" /\ then' = n /\ limit' = size + 1
    /\ UNCHANGED <<newKey, fWasLocked, newPass>>

unchangedByCall == <<disk, store, setKeyPool, vchDefaultKey, reserve, timer,
                     nextKey, crashes, given, restarted>>

getnewaddress == TopUpThen("give", KeyPoolSize) /\ UNCHANGED <<unchangedByCall, unlocked>>

\* getrawchangeaddress; the commands that send also demand an unlocked wallet.
getrawchangeaddress == TopUpThen("change", KeyPoolSize) /\ UNCHANGED <<unchangedByCall, unlocked>>

keypoolrefill(size) ==
    /\ ~IsLocked
    /\ TopUpThen("none", size)
    /\ UNCHANGED <<unchangedByCall, unlocked>>

\* CreateNewBlockWithKey, in a miner or getwork.  A key already held is used again.
GetReservedKey(h) ==
    /\ reserve[h].index = 0
    /\ TopUpThen(h, KeyPoolSize)
    /\ UNCHANGED <<unchangedByCall, unlocked>>

\* A wrong passphrase throws and changes nothing.
walletpassphrase ==
    /\ fUseCrypto
    /\ TopUpThen("arm", KeyPoolSize)
    /\ unlocked' = TRUE
    /\ UNCHANGED unchangedByCall

\* TopUpKeyPool gives up at once when the wallet is locked.
TopUpKeyPool ==
    /\ pc = "topup"
    /\ IF IsLocked THEN GoOn ELSE pc' = "fill" /\ UNCHANGED call
    /\ UNCHANGED <<unchangedByCall, unlocked>>

\* AddKeyPubKey: the store and its record, encrypted in an encrypted wallet.
WriteKey(k) ==
    \/ /\ ~fUseCrypto
       /\ mapKeys' = mapKeys \cup {k} /\ key' = key \cup {k}
       /\ UNCHANGED <<mapCryptedKeys, ckey>>
    \/ /\ fUseCrypto
       /\ mapCryptedKeys' = mapCryptedKeys \cup {k} /\ ckey' = ckey \cup {k}
       /\ UNCHANGED <<mapKeys, key>>

GenerateNewKey ==
    /\ nextKey \in Keys
    /\ WriteKey(nextKey)
    /\ nextKey' = nextKey + 1
    /\ UNCHANGED <<mkey, pool, defaultkey, fUseCrypto, mapMasterKeys>>

Fill ==
    /\ pc = "fill" /\ Cardinality(setKeyPool) < limit /\ ~IsLocked
    /\ GenerateNewKey
    /\ newKey' = nextKey
    /\ pc' = "store"
    /\ UNCHANGED <<unlocked, setKeyPool, vchDefaultKey, reserve, timer, then, limit, fWasLocked,
                   newPass, crashes, given, restarted>>

\* The timer has locked the wallet: AddKeyPubKey fails and the command throws.
FillThrows ==
    /\ pc = "fill" /\ Cardinality(setKeyPool) < limit /\ IsLocked
    /\ Idle
    /\ UNCHANGED <<unchangedByCall, unlocked>>

\* One above the highest index in the pool, or 1.
NextIndex(i) ==
    \/ setKeyPool = {} /\ i = 1
    \/ i - 1 \in setKeyPool /\ \A j \in setKeyPool : j < i

WritePool ==
    /\ pc = "store"
    /\ \E i \in Keys :
         /\ NextIndex(i)
         /\ pool' = [pool EXCEPT ![i] = newKey]
         /\ setKeyPool' = setKeyPool \cup {i}
         /\ restarted' = (restarted \/ \E h \in Holders : reserve[h].index = i)
    /\ newKey' = 0
    /\ pc' = "fill"
    /\ UNCHANGED <<key, ckey, mkey, defaultkey, store, unlocked, vchDefaultKey, reserve, timer,
                   then, limit, fWasLocked, newPass, nextKey, crashes, given>>

Filled ==
    /\ pc = "fill" /\ Cardinality(setKeyPool) >= limit
    /\ GoOn
    /\ UNCHANGED <<unchangedByCall, unlocked>>

Oldest(i) == i \in setKeyPool /\ \A j \in setKeyPool : i <= j

\* mutant: ErasePool left to the next start.
ErasePoolLater(i) == UNCHANGED pool

ErasePool(i) == pool' = [pool EXCEPT ![i] = 0]

\* The caller gets the key: an address, change, or the default key to be set.
HandOut(k) ==
    /\ given' = given \cup {k}
    /\ IF then = "default"
       THEN pc' = "default" /\ newKey' = k /\ UNCHANGED <<then, limit, fWasLocked, newPass>>
       ELSE Idle

\* ReserveKeyFromKeyPool and KeepKey, for an address, the default key or change.
TakeKey ==
    /\ pc = "take" /\ then \in {"give", "default", "change"}
    /\ \E i \in Keys :
         /\ Oldest(i) /\ pool[i] \in Have
         /\ setKeyPool' = setKeyPool \ {i}
         /\ ErasePool(i)
         /\ HandOut(pool[i])
    /\ UNCHANGED <<key, ckey, mkey, defaultkey, store, unlocked, vchDefaultKey, reserve, timer,
                   nextKey, crashes, restarted>>

\* CreateTransaction fails after it has reserved a key, or needs no change: the
\* destructor returns the key under the same locks.
TakeAndReturn ==
    /\ pc = "take" /\ then = "change" /\ \E i \in setKeyPool : pool[i] \in Have
    /\ Idle
    /\ UNCHANGED <<unchangedByCall, unlocked>>

\* mutant: the record erased at once, as for an address.
ReserveKeyErasing ==
    /\ pc = "take" /\ then \in Holders
    /\ \E i \in Keys :
         /\ Oldest(i) /\ pool[i] \in Have
         /\ setKeyPool' = setKeyPool \ {i}
         /\ ErasePool(i)
         /\ reserve' = [reserve EXCEPT ![then] = [index |-> i, key |-> pool[i]]]
    /\ Idle
    /\ UNCHANGED <<key, ckey, mkey, defaultkey, store, unlocked, vchDefaultKey, timer,
                   nextKey, crashes, given, restarted>>

\* A CReserveKey keeps the index; the record stays on disk.
ReserveKey ==
    /\ pc = "take" /\ then \in Holders
    /\ \E i \in Keys :
         /\ Oldest(i) /\ pool[i] \in Have
         /\ setKeyPool' = setKeyPool \ {i}
         /\ reserve' = [reserve EXCEPT ![then] = [index |-> i, key |-> pool[i]]]
    /\ Idle
    /\ UNCHANGED <<disk, store, unlocked, vchDefaultKey, timer, nextKey, crashes, given, restarted>>

\* "read failed": the index has left the pool, the exception ends the command.
ReadFailed ==
    /\ pc = "take"
    /\ \E i \in Keys : /\ Oldest(i) /\ pool[i] \notin Have
                       /\ setKeyPool' = setKeyPool \ {i}
    /\ Idle
    /\ UNCHANGED <<disk, store, unlocked, vchDefaultKey, reserve, timer,
                   nextKey, crashes, given, restarted>>

\* The pool is empty: a locked wallet fails, or uses its default key for change
\* and for blocks; an unlocked one makes a key on the spot for an address.
TakeFromEmpty ==
    /\ pc = "take" /\ setKeyPool = {}
    /\ IF IsLocked \/ then \in Holders \cup {"change"}
       THEN Idle /\ UNCHANGED <<disk, store, nextKey, given>>
       ELSE /\ GenerateNewKey
            /\ HandOut(nextKey)
    /\ UNCHANGED <<unlocked, setKeyPool, vchDefaultKey, reserve, timer, crashes, restarted>>

SetDefaultKey ==
    /\ pc = "default"
    /\ defaultkey' = newKey /\ vchDefaultKey' = newKey
    /\ Idle
    /\ UNCHANGED <<key, ckey, mkey, pool, store, unlocked, setKeyPool, reserve, timer,
                   nextKey, crashes, given, restarted>>

\* CheckWork keeps the key under cs_main before it processes the block: no
\* command runs, but another miner may be filling the pool.
KeepKey(h) ==
    /\ reserve[h].index # 0
    /\ pc = "idle" \/ (h # Getwork /\ then \in Holders \ {Getwork})
    /\ ErasePool(reserve[h].index)
    /\ given' = given \cup {reserve[h].key}
    /\ reserve' = [reserve EXCEPT ![h] = Unreserved]
    /\ UNCHANGED <<key, ckey, mkey, defaultkey, store, unlocked, setKeyPool, vchDefaultKey, timer,
                   pc, call, nextKey, crashes, restarted>>

\* A miner is stopped.
ReturnKey(h) ==
    /\ pc = "idle" /\ reserve[h].index # 0
    /\ setKeyPool' = setKeyPool \cup {reserve[h].index}
    /\ reserve' = [reserve EXCEPT ![h] = Unreserved]
    /\ UNCHANGED <<disk, store, unlocked, vchDefaultKey, timer, pc, call,
                   nextKey, crashes, given, restarted>>

\* The key of somebody else, given by the user.
importprivkey ==
    /\ pc = "idle" /\ ~IsLocked
    /\ GenerateNewKey
    /\ given' = given \cup {nextKey}
    /\ UNCHANGED <<unlocked, setKeyPool, vchDefaultKey, reserve, timer, pc, call, crashes, restarted>>
-----------------------------------------------------------------------------
(* Encryption and the lock of the wallet.                                   *)

\* mutant: the records written outside a transaction, the master key last.
CommitKeysOnly(p) == ckey' = key /\ key' = {} /\ UNCHANGED mkey

\* The one transaction of EncryptWallet: master key, encrypted keys, no plain keys.
Commit(p) == ckey' = key /\ key' = {} /\ mkey' = p

encryptwallet(p) ==
    /\ pc = "idle" /\ ~fUseCrypto
    /\ mapCryptedKeys' = mapKeys /\ mapKeys' = {} /\ fUseCrypto' = TRUE
    /\ mapMasterKeys' = p
    /\ Commit(p)
    /\ unlocked' = TRUE
    /\ pc' = "newpool" /\ then' = "encrypt" /\ limit' = KeyPoolSize
    /\ UNCHANGED <<pool, defaultkey, setKeyPool, vchDefaultKey, reserve, timer,
                   newKey, fWasLocked, newPass, nextKey, crashes, given, restarted>>

\* NewKeyPool erases every record of the pool and fills it again.
EraseOld ==
    /\ pc = "newpool"
    /\ \E i \in Keys : Oldest(i) /\ ErasePool(i) /\ setKeyPool' = setKeyPool \ {i}
    /\ UNCHANGED <<key, ckey, mkey, defaultkey, store, unlocked, vchDefaultKey, reserve, timer,
                   pc, call, nextKey, crashes, given, restarted>>

NewKeyPool ==
    /\ pc = "newpool" /\ setKeyPool = {}
    /\ pc' = IF IsLocked THEN "encrypted" ELSE "fill"
    /\ UNCHANGED <<unchangedByCall, unlocked, call>>

\* Lock and Rewrite; the server will stop.
Encrypted ==
    /\ pc = "encrypted"
    /\ unlocked' = FALSE
    /\ Idle
    /\ UNCHANGED unchangedByCall

\* The end of walletpassphrase: RPCRunLater replaces a timer that is running.
RPCRunLater ==
    /\ pc = "arm"
    /\ timer' = TRUE
    /\ Idle
    /\ UNCHANGED <<disk, store, unlocked, setKeyPool, vchDefaultKey, reserve,
                   nextKey, crashes, given, restarted>>

\* The timer: it takes the lock of the key store only.
LockWallet ==
    /\ timer
    /\ timer' = FALSE /\ unlocked' = FALSE
    /\ UNCHANGED <<disk, store, setKeyPool, vchDefaultKey, reserve, pc, call,
                   nextKey, crashes, given, restarted>>

walletlock ==
    /\ pc = "idle" /\ fUseCrypto
    /\ unlocked' = FALSE
    /\ UNCHANGED <<unchangedByCall, pc, call>>

\* ChangeWalletPassphrase locks the wallet before it looks at the old passphrase.
walletpassphrasechange(old, new) ==
    /\ pc = "idle" /\ fUseCrypto
    /\ unlocked' = FALSE
    /\ IF old # mapMasterKeys
       THEN Idle
       ELSE pc' = "change" /\ fWasLocked' = IsLocked /\ newPass' = new
            /\ UNCHANGED <<then, limit, newKey>>
    /\ UNCHANGED unchangedByCall

ChangeWalletPassphrase ==
    /\ pc = "change"
    /\ mapMasterKeys' = newPass /\ mkey' = newPass
    /\ unlocked' = ~fWasLocked
    /\ Idle
    /\ UNCHANGED <<key, ckey, pool, defaultkey, mapKeys, mapCryptedKeys, fUseCrypto, setKeyPool,
                   vchDefaultKey, reserve, timer, nextKey, crashes, given, restarted>>
-----------------------------------------------------------------------------
Next ==
    \/ getnewaddress \/ getrawchangeaddress
    \/ \E n \in {KeyPoolSize, KeyPoolSize + 1} : keypoolrefill(n)
    \/ \E h \in Holders : GetReservedKey(h) \/ KeepKey(h) \/ ReturnKey(h)
    \/ walletpassphrase \/ walletlock \/ importprivkey
    \/ TopUpKeyPool \/ Fill \/ FillThrows \/ WritePool \/ Filled
    \/ TakeKey \/ TakeAndReturn \/ ReserveKey \/ ReadFailed \/ TakeFromEmpty \/ SetDefaultKey
    \/ \E p \in Passphrases : encryptwallet(p)
    \/ EraseOld \/ NewKeyPool \/ Encrypted \/ RPCRunLater \/ LockWallet
    \/ \E p, q \in Passphrases : walletpassphrasechange(p, q)
    \/ ChangeWalletPassphrase \/ Crash

Spec == Init /\ [][Next]_vars
-----------------------------------------------------------------------------
Steps == {"idle", "topup", "fill", "store", "take", "default", "newpool", "encrypted", "arm", "change"}

TypeOK ==
    /\ key \subseteq Keys /\ ckey \subseteq Keys /\ mkey \in Passphrases \cup {None}
    /\ pool \in [Keys -> Keys \cup {0}] /\ defaultkey \in Keys \cup {0}
    /\ mapKeys \subseteq Keys /\ mapCryptedKeys \subseteq Keys /\ fUseCrypto \in BOOLEAN
    /\ mapMasterKeys \in Passphrases \cup {None}
    /\ unlocked \in BOOLEAN /\ setKeyPool \subseteq Keys /\ vchDefaultKey \in Keys \cup {0}
    /\ reserve \in [Holders -> [index : Keys \cup {0}, key : Keys \cup {0}]]
    /\ timer \in BOOLEAN /\ pc \in Steps
    /\ then \in Holders \cup {"none", "give", "default", "change", "arm", "encrypt"}
    /\ limit \in Nat /\ newKey \in Keys \cup {0}
    /\ fWasLocked \in BOOLEAN /\ newPass \in Passphrases \cup {None}
    /\ nextKey \in 1..(MaxKeys + 1) /\ crashes \in 0..MaxCrashes
    /\ given \subseteq Keys /\ restarted \in BOOLEAN
    \* no write ever leaves the key store and the disk apart
    /\ mapKeys = key /\ mapCryptedKeys = ckey /\ mapMasterKeys = mkey /\ vchDefaultKey = defaultkey

\* The records a CReserveKey has taken out of the pool in memory.
Reserved == {h \in Holders : reserve[h].index # 0}

\* Whenever the process dies, wallet.dat can be loaded and nothing is lost: keys
\* are either all plain or all encrypted, there is a master key for encrypted
\* ones, and every key that an address, a change output, a block, a CReserveKey
\* or the pool has is among them.
Recoverable ==
    /\ key = {} \/ ckey = {}
    /\ ckey # {} => mkey # None
    /\ given \cup {reserve[h].key : h \in Reserved} \subseteq key \cup ckey
    /\ \A i \in Keys : pool[i] # 0 => pool[i] \in key \cup ckey

\* A key has one use: a key handed out is never in the pool again, not even after
\* a crash, and no two records, nor two CReserveKey objects, share one.  That is
\* so as long as no index is given to a new key while a CReserveKey holds it.
OneUse ==
    ~restarted =>
        /\ \A i \in Keys : pool[i] \notin given
        /\ \A h \in Reserved : reserve[h].key \notin given
        /\ \A i, j \in Keys : pool[i] = pool[j] /\ pool[i] # 0 => i = j
        /\ \A g, h \in Reserved : reserve[g].key = reserve[h].key => g = h

\* Nor can a reservation fail: every index of the pool has a record with a key of
\* the wallet, unless an index was given twice.  ("read failed" and "unknown key
\* in key pool", wallet.cpp:1663.)
PoolReadable == ~restarted => \A i \in setKeyPool : pool[i] \in Have
=============================================================================
