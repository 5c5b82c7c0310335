----------------------------- MODULE Wallet_proofs -----------------------------
(***************************************************************************)
(* For every number of keys, miners, passphrases and crashes and for every *)
(* size of the pool: wallet.dat can be loaded whenever the process dies,   *)
(* no key that is in use is lost, none is used twice, and no reservation   *)
(* fails to read its record.  For every set of transactions and every tree *)
(* of blocks: the wallet misses nothing of ours on the chain, no credit it *)
(* caches is wrong but for what the pool drops in silence, what it sends   *)
(* the pool accepts, its balance is the ledger's, and its computations of  *)
(* the balance agree.                                                      *)
(***************************************************************************)
EXTENDS WalletKeys, WalletTx, FiniteSetTheorems, SequenceTheorems, WellFoundedInduction, TLAPS

-----------------------------------------------------------------------------
(* The inductive invariant *)

\* An encrypted wallet has no plain keys and a master key, a plain one no
\* encrypted keys; a new passphrase is one.
Crypto ==
    /\ fUseCrypto => key = {} /\ mkey # None
    /\ ~fUseCrypto => ckey = {}
    /\ pc = "change" => newPass # None

\* Keys are numbered as they are made.  The one about to be written to the pool
\* is nowhere else yet.
Fresh ==
    /\ \A k \in key \cup ckey : k < nextKey
    /\ newKey # 0 => newKey \in key \cup ckey
    /\ pc = "store" =>
         /\ newKey # 0 /\ newKey \notin given
         /\ \A i \in Keys : pool[i] # newKey
         /\ \A h \in Reserved : reserve[h].key # newKey

\* A key that a CReserveKey holds still has its record on disk, and its index is
\* in the pool no more, as long as no index was given twice.
Held ==
    ~restarted =>
        /\ \A h \in Reserved : /\ reserve[h].index \notin setKeyPool
                               /\ pool[reserve[h].index] = reserve[h].key
        /\ \A g, h \in Reserved : reserve[g].index = reserve[h].index => g = h

\* No record is of a key in use, and no two are of one key.
Records ==
    ~restarted =>
        /\ \A i \in Keys : pool[i] \notin given
        /\ \A i, j \in Keys : pool[i] = pool[j] /\ pool[i] # 0 => i = j

IInv == TypeOK /\ Crypto /\ Recoverable /\ Fresh /\ Held /\ Records /\ PoolReadable

\* What a CReserveKey holds is a key of the wallet with an index.
LEMMA ReservedFacts ==
    ASSUME TypeOK, Recoverable, NEW h \in Reserved
    PROVE  /\ h \in Holders /\ reserve[h].index \in Keys
           /\ reserve[h].key \in key \cup ckey /\ reserve[h].key \in Keys
BY DEF TypeOK, Recoverable, Reserved

\* The invariant implies OneUse: the keys held by CReserveKey objects are those
\* of records, which are of different keys.
LEMMA HeldOnce ==
    ASSUME IInv PROVE OneUse
<1> SUFFICES ASSUME ~restarted
             PROVE  /\ \A h \in Reserved : reserve[h].key \notin given
                    /\ \A g, h \in Reserved : reserve[g].key = reserve[h].key => g = h
  BY DEF IInv, Records, OneUse
<1>1. \A h \in Reserved : /\ reserve[h].index \in Keys /\ pool[reserve[h].index] = reserve[h].key
                          /\ reserve[h].key \in Keys
  BY ReservedFacts DEF IInv, Held
<1>2. \A k \in Keys : k # 0
  BY WalletKeysAssumption DEF Keys
<1>3. QED
  BY <1>1, <1>2 DEF IInv, Held, Records

LEMMA IInvInit == Init => IInv
<1> SUFFICES ASSUME Init PROVE IInv
  OBVIOUS
<1> USE WalletKeysAssumption
<1>1. TypeOK
  <2>1. reserve \in [Holders -> [index : Keys \cup {0}, key : Keys \cup {0}]]
    BY DEF Init, Unreserved
  <2>2. nextKey \in 1..(MaxKeys + 1) /\ crashes \in 0..MaxCrashes /\ limit \in Nat
    BY DEF Init
  <2>3. /\ fUseCrypto \in BOOLEAN /\ unlocked \in BOOLEAN /\ timer \in BOOLEAN
        /\ fWasLocked \in BOOLEAN /\ restarted \in BOOLEAN
    BY DEF Init
  <2>4. QED
    BY <2>1, <2>2, <2>3 DEF Init, TypeOK, Steps
<1>2. Reserved = {}
  BY DEF Init, Reserved, Unreserved
<1>3. Crypto /\ Recoverable /\ Fresh /\ Held /\ Records /\ PoolReadable
  BY <1>2 DEF Init, Crypto, Recoverable, Fresh, Held, Records, PoolReadable
<1>4. QED
  BY <1>1, <1>3 DEF IInv
-----------------------------------------------------------------------------
(* Steps that leave keys and pool alone *)

\* The step changes no key, no record and no reservation.
Calm ==
    /\ UNCHANGED <<key, ckey, pool, mapKeys, mapCryptedKeys, fUseCrypto, setKeyPool, reserve,
                   given, nextKey, restarted>>
    /\ mkey # None => mkey' # None
    /\ newKey' \in {newKey, 0}
    /\ pc' = "store" => pc = "store" /\ newKey' = newKey
    /\ pc' = "change" => newPass' # None

\* Such a step keeps everything but, perhaps, the types.
LEMMA CalmInv ==
    ASSUME IInv, Calm, TypeOK'
    PROVE  IInv'
<1>1. Reserved' = Reserved
  BY DEF Calm, Reserved
<1>2. Crypto' /\ Recoverable'
  BY <1>1 DEF IInv, Calm, Crypto, Recoverable
<1>3. Fresh'
  BY <1>1 DEF IInv, Calm, Fresh
<1>4. Held' /\ Records' /\ PoolReadable'
  BY <1>1 DEF IInv, Calm, Held, Records, PoolReadable, Have
<1>5. QED
  BY <1>2, <1>3, <1>4 DEF IInv

\* The variables of a call keep their types when it ends or goes on.
CallOK ==
    /\ pc \in Steps /\ limit \in Nat /\ newKey \in Keys \cup {0}
    /\ then \in Holders \cup {"none", "give", "default", "change", "arm", "encrypt"}
    /\ fWasLocked \in BOOLEAN /\ newPass \in Passphrases \cup {None}

\* After TopUpKeyPool a call ends, arms the timer, locks, or takes a key.
LEMMA GoOnCalm ==
    ASSUME TypeOK, GoOn \/ Idle
    PROVE  CallOK' /\ newKey' \in {newKey, 0} /\ pc' \notin {"store", "change"}
<1>1. CASE Idle
  BY <1>1, WalletKeysAssumption DEF TypeOK, Idle, CallOK, Steps
<1>2. CASE GoOn /\ then = "none"
  BY <1>1, <1>2 DEF GoOn
<1>3. CASE GoOn /\ then # "none"
  <2>1. UNCHANGED call /\ pc' \in {"arm", "encrypted", "take"}
    BY <1>3 DEF GoOn
  <2>2. QED
    BY <2>1 DEF TypeOK, call, CallOK, Steps
<1>4. QED
  BY <1>1, <1>2, <1>3

-----------------------------------------------------------------------------
(* One lemma for each action *)

\* A call begins.
LEMMA getnewaddressInv ==
    ASSUME IInv, getnewaddress
    PROVE  IInv'
<1>8. TypeOK'
  BY WalletKeysAssumption
    DEF IInv, TypeOK, Steps, getnewaddress, disk, store, call, unchangedByCall, TopUpThen
<1>9. Calm
  BY WalletKeysAssumption
    DEF IInv, TypeOK, Calm, Crypto, getnewaddress, disk, store, call, unchangedByCall,
        TopUpThen
<1> QED  BY <1>8, <1>9, CalmInv

\* A call begins.
LEMMA getrawchangeaddressInv ==
    ASSUME IInv, getrawchangeaddress
    PROVE  IInv'
<1>8. TypeOK'
  BY WalletKeysAssumption
    DEF IInv, TypeOK, Steps, getrawchangeaddress, disk, store, call, unchangedByCall, TopUpThen
<1>9. Calm
  BY WalletKeysAssumption
    DEF IInv, TypeOK, Calm, Crypto, getrawchangeaddress, disk, store, call, unchangedByCall,
        TopUpThen
<1> QED  BY <1>8, <1>9, CalmInv

\* A call begins.
LEMMA keypoolrefillInv ==
    ASSUME IInv, NEW n \in Nat, keypoolrefill(n)
    PROVE  IInv'
<1>8. TypeOK'
  BY WalletKeysAssumption
    DEF IInv, TypeOK, Steps, keypoolrefill, disk, store, call, unchangedByCall, TopUpThen
<1>9. Calm
  BY WalletKeysAssumption
    DEF IInv, TypeOK, Calm, Crypto, keypoolrefill, disk, store, call, unchangedByCall,
        TopUpThen
<1> QED  BY <1>8, <1>9, CalmInv

\* A call begins.
LEMMA GetReservedKeyInv ==
    ASSUME IInv, NEW h \in Holders, GetReservedKey(h)
    PROVE  IInv'
<1>8. TypeOK'
  BY WalletKeysAssumption
    DEF IInv, TypeOK, Steps, GetReservedKey, disk, store, call, unchangedByCall, TopUpThen
<1>9. Calm
  BY WalletKeysAssumption
    DEF IInv, TypeOK, Calm, Crypto, GetReservedKey, disk, store, call, unchangedByCall,
        TopUpThen
<1> QED  BY <1>8, <1>9, CalmInv

\* A call begins, with the wallet unlocked.
LEMMA walletpassphraseInv ==
    ASSUME IInv, walletpassphrase
    PROVE  IInv'
<1>8. TypeOK'
  BY WalletKeysAssumption
    DEF IInv, TypeOK, Steps, walletpassphrase, disk, store, call, unchangedByCall, TopUpThen
<1>9. Calm
  BY WalletKeysAssumption
    DEF IInv, TypeOK, Calm, Crypto, walletpassphrase, disk, store, call, unchangedByCall,
        TopUpThen
<1> QED  BY <1>8, <1>9, CalmInv

\* A locked wallet goes on at once.
LEMMA TopUpKeyPoolInv ==
    ASSUME IInv, TopUpKeyPool
    PROVE  IInv'
<1>1. CASE IsLocked
  <2>1. CallOK' /\ newKey' \in {newKey, 0} /\ pc' \notin {"store", "change"}
    BY <1>1, GoOnCalm DEF IInv, TopUpKeyPool
  <2>2. TypeOK'
    BY <2>1 DEF IInv, TypeOK, CallOK, TopUpKeyPool, unchangedByCall, disk, store
  <2>3. Calm
    BY <2>1 DEF Calm, TopUpKeyPool, unchangedByCall, disk, store
  <2> QED  BY <2>2, <2>3, CalmInv
<1>2. CASE ~IsLocked
  <2>1. TypeOK'
    BY <1>2 DEF IInv, TypeOK, Steps, TopUpKeyPool, unchangedByCall, disk, store, call
  <2>2. Calm
    BY <1>2 DEF Calm, TopUpKeyPool, unchangedByCall, disk, store, call
  <2> QED  BY <2>1, <2>2, CalmInv
<1> QED  BY <1>1, <1>2

\* The command ends with an exception.
LEMMA FillThrowsInv ==
    ASSUME IInv, FillThrows
    PROVE  IInv'
<1>1. CallOK' /\ newKey' \in {newKey, 0} /\ pc' \notin {"store", "change"}
  BY GoOnCalm DEF IInv, FillThrows
<1>8. TypeOK'
  BY <1>1, WalletKeysAssumption
    DEF IInv, TypeOK, Steps, FillThrows, disk, store, call, unchangedByCall, CallOK
<1>9. Calm
  BY <1>1, WalletKeysAssumption
    DEF IInv, TypeOK, Calm, Crypto, FillThrows, disk, store, call, unchangedByCall, CallOK
<1> QED  BY <1>8, <1>9, CalmInv

\* The pool is full and the call goes on.
LEMMA FilledInv ==
    ASSUME IInv, Filled
    PROVE  IInv'
<1>1. CallOK' /\ newKey' \in {newKey, 0} /\ pc' \notin {"store", "change"}
  BY GoOnCalm DEF IInv, Filled
<1>8. TypeOK'
  BY <1>1, WalletKeysAssumption
    DEF IInv, TypeOK, Steps, Filled, disk, store, call, unchangedByCall, CallOK
<1>9. Calm
  BY <1>1, WalletKeysAssumption
    DEF IInv, TypeOK, Calm, Crypto, Filled, disk, store, call, unchangedByCall, CallOK
<1> QED  BY <1>8, <1>9, CalmInv

\* The key goes back to where it was.
LEMMA TakeAndReturnInv ==
    ASSUME IInv, TakeAndReturn
    PROVE  IInv'
<1>1. CallOK' /\ newKey' \in {newKey, 0} /\ pc' \notin {"store", "change"}
  BY GoOnCalm DEF IInv, TakeAndReturn
<1>8. TypeOK'
  BY <1>1, WalletKeysAssumption
    DEF IInv, TypeOK, Steps, TakeAndReturn, disk, store, call, unchangedByCall, CallOK
<1>9. Calm
  BY <1>1, WalletKeysAssumption
    DEF IInv, TypeOK, Calm, Crypto, TakeAndReturn, disk, store, call, unchangedByCall, CallOK
<1> QED  BY <1>8, <1>9, CalmInv

\* The old records are gone.
LEMMA NewKeyPoolInv ==
    ASSUME IInv, NewKeyPool
    PROVE  IInv'
<1>8. TypeOK'
  BY WalletKeysAssumption
    DEF IInv, TypeOK, Steps, NewKeyPool, disk, store, call, unchangedByCall
<1>9. Calm
  BY WalletKeysAssumption
    DEF IInv, TypeOK, Calm, Crypto, NewKeyPool, disk, store, call, unchangedByCall
<1> QED  BY <1>8, <1>9, CalmInv

\* The wallet is locked again.
LEMMA EncryptedInv ==
    ASSUME IInv, Encrypted
    PROVE  IInv'
<1>1. CallOK' /\ newKey' \in {newKey, 0} /\ pc' \notin {"store", "change"}
  BY GoOnCalm DEF IInv, Encrypted
<1>8. TypeOK'
  BY <1>1, WalletKeysAssumption
    DEF IInv, TypeOK, Steps, Encrypted, disk, store, call, unchangedByCall, CallOK
<1>9. Calm
  BY <1>1, WalletKeysAssumption
    DEF IInv, TypeOK, Calm, Crypto, Encrypted, disk, store, call, unchangedByCall, CallOK
<1> QED  BY <1>8, <1>9, CalmInv

\* The timer is set.
LEMMA RPCRunLaterInv ==
    ASSUME IInv, RPCRunLater
    PROVE  IInv'
<1>1. CallOK' /\ newKey' \in {newKey, 0} /\ pc' \notin {"store", "change"}
  BY GoOnCalm DEF IInv, RPCRunLater
<1>8. TypeOK'
  BY <1>1, WalletKeysAssumption
    DEF IInv, TypeOK, Steps, RPCRunLater, disk, store, call, unchangedByCall, CallOK
<1>9. Calm
  BY <1>1, WalletKeysAssumption
    DEF IInv, TypeOK, Calm, Crypto, RPCRunLater, disk, store, call, unchangedByCall, CallOK
<1> QED  BY <1>8, <1>9, CalmInv

\* The timer locks the wallet, whatever the call is doing.
LEMMA LockWalletInv ==
    ASSUME IInv, LockWallet
    PROVE  IInv'
<1>1. TypeOK'
  BY ZenonT(60) DEF IInv, TypeOK, LockWallet, disk, store, call
<1>2. Calm
  BY DEF IInv, Crypto, Calm, LockWallet, disk, store, call
<1> QED  BY <1>1, <1>2, CalmInv

\* The wallet is locked.
LEMMA walletlockInv ==
    ASSUME IInv, walletlock
    PROVE  IInv'
<1>8. TypeOK'
  BY WalletKeysAssumption, ZenonT(60)
    DEF IInv, TypeOK, Steps, walletlock, disk, store, call, unchangedByCall
<1>9. Calm
  BY WalletKeysAssumption
    DEF IInv, TypeOK, Calm, Crypto, walletlock, disk, store, call, unchangedByCall
<1> QED  BY <1>8, <1>9, CalmInv

\* The wallet is locked before the old passphrase is looked at.
LEMMA walletpassphrasechangeInv ==
    ASSUME IInv, NEW p \in Passphrases, NEW q \in Passphrases, walletpassphrasechange(p, q)
    PROVE  IInv'
<1>1. CallOK' /\ newKey' \in {newKey, 0} /\ pc' # "store" /\ (pc' = "change" => newPass' # None)
  <2>1. CASE p # mapMasterKeys
    BY <2>1, GoOnCalm DEF IInv, walletpassphrasechange
  <2>2. CASE p = mapMasterKeys
    BY <2>2, WalletKeysAssumption
      DEF IInv, TypeOK, CallOK, Steps, IsLocked, walletpassphrasechange
  <2> QED  BY <2>1, <2>2
<1>2. TypeOK'
  BY <1>1 DEF IInv, TypeOK, CallOK, walletpassphrasechange, unchangedByCall, disk, store
<1>3. Calm
  BY <1>1 DEF Calm, walletpassphrasechange, unchangedByCall, disk, store
<1> QED  BY <1>2, <1>3, CalmInv

\* There is a master key before and after.
LEMMA ChangeWalletPassphraseInv ==
    ASSUME IInv, ChangeWalletPassphrase
    PROVE  IInv'
<1>1. CallOK' /\ newKey' \in {newKey, 0} /\ pc' \notin {"store", "change"}
  BY GoOnCalm DEF IInv, ChangeWalletPassphrase
<1>2. newPass # None
  BY DEF IInv, Crypto, ChangeWalletPassphrase
<1>3. TypeOK'
  BY <1>1 DEF IInv, TypeOK, CallOK, ChangeWalletPassphrase
<1>4. Calm
  BY <1>1, <1>2 DEF Calm, ChangeWalletPassphrase
<1> QED  BY <1>3, <1>4, CalmInv

\* The default key is a key that was handed out.
LEMMA SetDefaultKeyInv ==
    ASSUME IInv, SetDefaultKey
    PROVE  IInv'
<1>1. CallOK' /\ newKey' \in {newKey, 0} /\ pc' \notin {"store", "change"}
  BY GoOnCalm DEF IInv, SetDefaultKey
<1>8. TypeOK'
  BY <1>1, WalletKeysAssumption
    DEF IInv, TypeOK, Steps, SetDefaultKey, disk, store, call, unchangedByCall, CallOK
<1>9. Calm
  BY <1>1, WalletKeysAssumption
    DEF IInv, TypeOK, Calm, Crypto, SetDefaultKey, disk, store, call, unchangedByCall, CallOK
<1> QED  BY <1>8, <1>9, CalmInv

-----------------------------------------------------------------------------
(* Steps that make, hand out or hold keys *)

\* A new key is nowhere yet; writing it leaves all keys plain or all encrypted.
LEMMA NewKeyFacts ==
    ASSUME IInv, GenerateNewKey
    PROVE  /\ nextKey \in Keys /\ nextKey # 0 /\ nextKey \notin given
           /\ \A i \in Keys : pool[i] # nextKey
           /\ \A h \in Reserved : reserve[h].key # nextKey
           /\ nextKey' = nextKey + 1 /\ nextKey' \in 1..(MaxKeys + 1)
           /\ key' \cup ckey' = key \cup ckey \cup {nextKey}
           /\ key' \subseteq Keys /\ ckey' \subseteq Keys
           /\ mapKeys' = key' /\ mapCryptedKeys' = ckey'
           /\ fUseCrypto => key' = {} /\ mkey # None
           /\ ~fUseCrypto => ckey' = {}
           /\ \A k \in key' \cup ckey' : k < nextKey'
           /\ UNCHANGED <<mkey, pool, defaultkey, fUseCrypto, mapMasterKeys>>
<1>1. nextKey \in Keys /\ nextKey' = nextKey + 1 /\ WriteKey(nextKey)
  BY DEF GenerateNewKey
<1>2. nextKey \in Nat \ {0} /\ nextKey' \in 1..(MaxKeys + 1) /\ Keys \subseteq Nat
  BY <1>1, WalletKeysAssumption DEF Keys
<1>3. nextKey \notin key \cup ckey
  BY <1>2 DEF IInv, Fresh
<1>4. nextKey \notin given /\ \A i \in Keys : pool[i] # nextKey
  BY <1>2, <1>3 DEF IInv, Recoverable
<1>5. \A h \in Reserved : reserve[h].key # nextKey
  BY <1>3, ReservedFacts DEF IInv
<1>6. /\ key' \cup ckey' = key \cup ckey \cup {nextKey}
      /\ key' \subseteq Keys /\ ckey' \subseteq Keys
      /\ mapKeys' = key' /\ mapCryptedKeys' = ckey'
      /\ fUseCrypto => key' = {} /\ mkey # None
      /\ ~fUseCrypto => ckey' = {}
  <2>1. CASE fUseCrypto
    BY <1>1, <2>1 DEF WriteKey, IInv, TypeOK, Crypto
  <2>2. CASE ~fUseCrypto
    BY <1>1, <2>2 DEF WriteKey, IInv, TypeOK, Crypto
  <2> QED  BY <2>1, <2>2
<1>7. \A k \in key' \cup ckey' : k < nextKey'
  <2>1. \A k \in key \cup ckey : k < nextKey /\ k \in Nat
    BY <1>2 DEF IInv, Fresh, TypeOK
  <2> QED  BY <1>1, <1>2, <1>6, <2>1
<1> QED  BY <1>1, <1>2, <1>4, <1>5, <1>6, <1>7 DEF GenerateNewKey

\* The call returns with a key in use: nothing refers to it any more.
LEMMA HandOutFacts ==
    ASSUME IInv, NEW k \in Keys, HandOut(k)
    PROVE  /\ CallOK' /\ newKey' \in {k, 0} /\ pc' \notin {"store", "change"}
           /\ given' = given \cup {k}
<1>1. given' = given \cup {k}
  BY DEF HandOut
<1>2. CASE then = "default"
  <2>1. pc' = "default" /\ newKey' = k /\ UNCHANGED <<then, limit, fWasLocked, newPass>>
    BY <1>2 DEF HandOut
  <2> QED  BY <1>1, <2>1 DEF IInv, TypeOK, CallOK, Steps
<1>3. CASE then # "default"
  <2>1. Idle
    BY <1>3 DEF HandOut
  <2>2. CallOK' /\ pc' \notin {"store", "change"}
    BY <2>1, GoOnCalm DEF IInv
  <2>3. newKey' = 0
    BY <2>1 DEF Idle
  <2> QED  BY <1>1, <2>2, <2>3
<1> QED  BY <1>2, <1>3

\* The key is written before its record in the pool.
LEMMA FillInv ==
    ASSUME IInv, Fill
    PROVE  IInv'
<1>1. UNCHANGED <<reserve, setKeyPool, given, restarted>> /\ newKey' = nextKey /\ pc' = "store"
  BY DEF Fill
<1> USE NewKeyFacts DEF Fill
<1>2. Reserved' = Reserved
  BY <1>1 DEF Reserved
<1>3. TypeOK'
  <2>1. newKey' \in Keys \cup {0} /\ pc' \in Steps
    BY <1>1 DEF Steps
  <2>2. /\ key' \subseteq Keys /\ ckey' \subseteq Keys /\ mapKeys' = key' /\ mapCryptedKeys' = ckey'
        /\ nextKey' \in 1..(MaxKeys + 1)
        /\ UNCHANGED <<mkey, pool, defaultkey, fUseCrypto, mapMasterKeys>>
    OBVIOUS
  <2>3. UNCHANGED <<unlocked, vchDefaultKey, timer, then, limit, fWasLocked, newPass, crashes>>
    OBVIOUS
  <2> HIDE DEF Fill
  <2> QED  BY ONLY <1>1, <2>1, <2>2, <2>3, IInv DEF IInv, TypeOK
<1>4. Crypto' /\ Recoverable'
  BY <1>1, <1>2 DEF IInv, Crypto, Recoverable
<1>5. Fresh'
  BY <1>1, <1>2 DEF IInv, Fresh
<1>6. Held' /\ Records' /\ PoolReadable'
  BY <1>1, <1>2 DEF IInv, TypeOK, Held, Records, PoolReadable, Have
<1> QED  BY <1>3, <1>4, <1>5, <1>6 DEF IInv

\* The index is held by nobody, or restarted says so; the key is in no other record.
LEMMA WritePoolInv ==
    ASSUME IInv, WritePool
    PROVE  IInv'
<1>1. PICK i \in Keys : /\ pool' = [pool EXCEPT ![i] = newKey]
                        /\ setKeyPool' = setKeyPool \cup {i}
                        /\ restarted' = (restarted \/ \E h \in Holders : reserve[h].index = i)
  BY DEF WritePool
<1>2. /\ newKey \in key \cup ckey /\ newKey \in Keys /\ newKey \notin given /\ newKey # 0
      /\ \A j \in Keys : pool[j] # newKey
  BY DEF IInv, Fresh, WritePool, TypeOK
<1>3. Reserved' = Reserved /\ UNCHANGED <<reserve, given, key, ckey, nextKey, mapKeys, mapCryptedKeys>>
  BY DEF Reserved, WritePool, store
<1>4. TypeOK'
  BY <1>1, <1>2 DEF IInv, TypeOK, Steps, WritePool, store
<1>5. \A j \in Keys : pool'[j] = IF j = i THEN newKey ELSE pool[j]
  BY <1>1 DEF IInv, TypeOK
<1>6. Crypto' /\ Recoverable'
  BY <1>2, <1>3, <1>5 DEF IInv, Crypto, Recoverable, WritePool, store
<1>7. Fresh'
  BY <1>3 DEF IInv, Fresh, WritePool
<1>8. Held'
  <2> SUFFICES ASSUME ~restarted' PROVE Held'
    BY DEF Held
  <2>1. ~restarted /\ \A h \in Reserved : reserve[h].index # i /\ reserve[h].index \in Keys
    BY <1>1, ReservedFacts DEF IInv
  <2> QED  BY <1>1, <1>3, <1>5, <2>1 DEF IInv, Held
<1>9. Records' /\ PoolReadable'
  BY <1>1, <1>2, <1>3, <1>5 DEF IInv, TypeOK, Records, PoolReadable, Have
<1> QED  BY <1>4, <1>6, <1>7, <1>8, <1>9 DEF IInv

\* A record erased in a step that leaves the keys alone.
Erased(i) ==
    /\ pool' = [pool EXCEPT ![i] = 0]
    /\ UNCHANGED <<key, ckey, mkey, mapKeys, mapCryptedKeys, fUseCrypto, nextKey, restarted>>

\* Records, and with them the keys of wallet.dat, stay what they were.
LEMMA ErasedFacts ==
    ASSUME IInv, NEW i \in Keys, Erased(i)
    PROVE  /\ pool' \in [Keys -> Keys \cup {0}]
           /\ \A j \in Keys : pool'[j] = IF j = i THEN 0 ELSE pool[j]
           /\ \A j \in Keys : pool'[j] # 0 => pool'[j] \in key \cup ckey
           /\ 0 \notin Keys
<1>1. 0 \notin Keys
  BY WalletKeysAssumption DEF Keys
<1> QED  BY <1>1 DEF IInv, TypeOK, Recoverable, Erased

\* The key in use has no record any more.
LEMMA TakeKeyInv ==
    ASSUME IInv, TakeKey
    PROVE  IInv'
<1>1. PICK i \in Keys : /\ i \in setKeyPool /\ pool[i] \in Have
                        /\ setKeyPool' = setKeyPool \ {i} /\ Erased(i) /\ HandOut(pool[i])
  BY DEF TakeKey, Oldest, ErasePool, Erased, store
<1>2. /\ pool[i] \in Keys /\ pool[i] \in key \cup ckey
      /\ Reserved' = Reserved /\ UNCHANGED reserve
  BY <1>1 DEF IInv, TypeOK, Have, TakeKey, Reserved
<1>3. /\ CallOK' /\ newKey' \in {pool[i], 0} /\ pc' \notin {"store", "change"}
      /\ given' = given \cup {pool[i]}
  BY <1>1, <1>2, HandOutFacts
<1>4. /\ pool' \in [Keys -> Keys \cup {0}]
      /\ \A j \in Keys : pool'[j] = IF j = i THEN 0 ELSE pool[j]
      /\ \A j \in Keys : pool'[j] # 0 => pool'[j] \in key \cup ckey
      /\ 0 \notin Keys
  BY <1>1, ErasedFacts
<1>5. TypeOK'
  BY <1>1, <1>2, <1>3, <1>4 DEF IInv, TypeOK, CallOK, TakeKey, store
<1>6. Crypto' /\ Recoverable'
  BY <1>1, <1>2, <1>3, <1>4 DEF IInv, Crypto, Recoverable, Erased
<1>7. Fresh'
  BY <1>1, <1>2, <1>3, <1>4 DEF IInv, Fresh, Erased
<1>8. Held'
  BY <1>1, <1>2, <1>4, ReservedFacts DEF IInv, Held, Erased
<1>9. Records' /\ PoolReadable'
  <2>1. \A j \in Keys : pool'[j] \in given' /\ ~restarted => FALSE
    BY <1>2, <1>3, <1>4 DEF IInv, Records, TypeOK
  <2> QED  BY <1>1, <1>2, <1>4, <2>1 DEF IInv, Records, PoolReadable, Erased, Have
<1> QED  BY <1>5, <1>6, <1>7, <1>8, <1>9 DEF IInv

\* The holder's index leaves the pool, its record stays.
LEMMA ReserveKeyInv ==
    ASSUME IInv, ReserveKey
    PROVE  IInv'
<1>1. PICK i \in Keys : /\ i \in setKeyPool /\ pool[i] \in Have
                        /\ setKeyPool' = setKeyPool \ {i}
                        /\ reserve' = [reserve EXCEPT ![then] = [index |-> i, key |-> pool[i]]]
  BY DEF ReserveKey, Oldest
<1>2. then \in Holders /\ pool[i] \in Keys /\ pool[i] \in key \cup ckey /\ 0 \notin Keys
  BY <1>1, WalletKeysAssumption DEF IInv, TypeOK, Have, ReserveKey, Keys
<1>3. CallOK' /\ newKey' \in {newKey, 0} /\ pc' \notin {"store", "change"}
  BY GoOnCalm DEF IInv, ReserveKey
<1>4. /\ reserve' \in [Holders -> [index : Keys \cup {0}, key : Keys \cup {0}]]
      /\ \A h \in Holders : reserve'[h] = IF h = then THEN [index |-> i, key |-> pool[i]]
                                          ELSE reserve[h]
      /\ Reserved' = Reserved \cup {then}
  BY <1>1, <1>2 DEF IInv, TypeOK, Reserved
<1>5. TypeOK'
  BY <1>1, <1>3, <1>4 DEF IInv, TypeOK, CallOK, ReserveKey, disk, store
<1>6. Crypto' /\ Recoverable'
  BY <1>2, <1>3, <1>4, ReservedFacts DEF IInv, Crypto, Recoverable, ReserveKey, disk, store
<1>7. Fresh'
  BY <1>3 DEF IInv, Fresh, ReserveKey, disk
<1>8. Held'
  <2> SUFFICES ASSUME ~restarted PROVE Held'
    BY DEF Held, ReserveKey
  <2>1. \A h \in Reserved : /\ h \in Holders /\ reserve[h].index \notin setKeyPool
                            /\ pool[reserve[h].index] = reserve[h].key
    BY ReservedFacts DEF IInv, Held
  <2> QED  BY <1>1, <1>2, <1>4, <2>1 DEF IInv, Held, ReserveKey, disk
<1>9. Records' /\ PoolReadable'
  BY <1>1 DEF IInv, Records, PoolReadable, ReserveKey, disk, store, Have
<1> QED  BY <1>5, <1>6, <1>7, <1>8, <1>9 DEF IInv

\* The index leaves the pool and nothing else changes.
LEMMA ReadFailedInv ==
    ASSUME IInv, ReadFailed
    PROVE  IInv'
<1>1. PICK i \in Keys : setKeyPool' = setKeyPool \ {i}
  BY DEF ReadFailed
<1>2. CallOK' /\ newKey' \in {newKey, 0} /\ pc' \notin {"store", "change"} /\ Reserved' = Reserved
  BY GoOnCalm DEF IInv, ReadFailed, Reserved
<1>3. TypeOK'
  BY <1>1, <1>2 DEF IInv, TypeOK, CallOK, ReadFailed, disk, store
<1>4. Crypto' /\ Recoverable' /\ Fresh'
  BY <1>2 DEF IInv, Crypto, Recoverable, Fresh, ReadFailed, disk, store
<1>5. Held' /\ Records' /\ PoolReadable'
  BY <1>1, <1>2 DEF IInv, Held, Records, PoolReadable, Have, ReadFailed, disk, store
<1> QED  BY <1>3, <1>4, <1>5 DEF IInv

\* A new key that is used at once.
LEMMA NewKeyUsed ==
    ASSUME IInv, GenerateNewKey, given' = given \cup {nextKey}, TypeOK',
           UNCHANGED <<reserve, setKeyPool, restarted>>,
           newKey' \in {newKey, nextKey, 0}, pc' \notin {"store", "change"}
    PROVE  IInv'
<1>1. Reserved' = Reserved
  BY DEF Reserved
<1> USE NewKeyFacts
<1>2. Crypto' /\ Recoverable'
  BY <1>1 DEF IInv, Crypto, Recoverable
<1>3. Fresh'
  BY <1>1 DEF IInv, Fresh
<1>4. Held' /\ Records' /\ PoolReadable'
  BY <1>1 DEF IInv, TypeOK, Held, Records, PoolReadable, Have
<1> QED  BY <1>2, <1>3, <1>4 DEF IInv

\* Nothing happens, or a new key is used at once.
LEMMA TakeFromEmptyInv ==
    ASSUME IInv, TakeFromEmpty
    PROVE  IInv'
<1>1. CASE IsLocked \/ then \in Holders \cup {"change"}
  <2>1. CallOK' /\ newKey' \in {newKey, 0} /\ pc' \notin {"store", "change"}
    BY <1>1, GoOnCalm DEF IInv, TakeFromEmpty
  <2>2. TypeOK'
    BY <1>1, <2>1 DEF IInv, TypeOK, CallOK, TakeFromEmpty, disk, store
  <2>3. Calm
    BY <1>1, <2>1 DEF Calm, TakeFromEmpty, disk, store
  <2> QED  BY <2>2, <2>3, CalmInv
<1>2. CASE ~(IsLocked \/ then \in Holders \cup {"change"})
  <2>1. GenerateNewKey /\ HandOut(nextKey)
    BY <1>2 DEF TakeFromEmpty
  <2>2. /\ CallOK' /\ newKey' \in {nextKey, 0} /\ pc' \notin {"store", "change"}
        /\ given' = given \cup {nextKey}
    BY <2>1, NewKeyFacts, HandOutFacts
  <2>3. TypeOK'
    BY <2>1, <2>2, NewKeyFacts DEF IInv, TypeOK, CallOK, TakeFromEmpty
  <2> QED  BY <2>1, <2>2, <2>3, NewKeyUsed DEF TakeFromEmpty
<1> QED  BY <1>1, <1>2

\* A key of somebody else is used at once.
LEMMA importprivkeyInv ==
    ASSUME IInv, importprivkey
    PROVE  IInv'
<1>1. TypeOK'
  BY NewKeyFacts DEF IInv, TypeOK, importprivkey, call
<1> QED  BY <1>1, NewKeyUsed DEF importprivkey, call

\* The record of the holder's key is erased, unless its index was given twice.
LEMMA KeepKeyInv ==
    ASSUME IInv, NEW h \in Holders, KeepKey(h)
    PROVE  IInv'
<1>1. /\ h \in Reserved /\ reserve[h].index \in Keys /\ reserve[h].key \in Keys
      /\ reserve[h].key \in key \cup ckey
  <2>1. h \in Reserved
    BY DEF KeepKey, Reserved
  <2> QED  BY <2>1, ReservedFacts DEF IInv
<1>2. PICK i \in Keys : i = reserve[h].index /\ Erased(i)
  BY <1>1 DEF KeepKey, ErasePool, Erased, store
<1>3. /\ pool' \in [Keys -> Keys \cup {0}]
      /\ \A j \in Keys : pool'[j] = IF j = i THEN 0 ELSE pool[j]
      /\ \A j \in Keys : pool'[j] # 0 => pool'[j] \in key \cup ckey
      /\ 0 \notin Keys
  BY <1>2, ErasedFacts
<1>4. /\ reserve' = [reserve EXCEPT ![h] = Unreserved]
      /\ given' = given \cup {reserve[h].key} /\ UNCHANGED <<setKeyPool, pc, newKey, newPass>>
  BY DEF KeepKey, call
<1>5. /\ reserve' \in [Holders -> [index : Keys \cup {0}, key : Keys \cup {0}]]
      /\ Reserved' = Reserved \ {h}
      /\ \A g \in Reserved \ {h} : reserve'[g] = reserve[g]
  BY <1>4 DEF IInv, TypeOK, Reserved, Unreserved
<1>6. TypeOK'
  BY <1>1, <1>3, <1>4, <1>5 DEF IInv, TypeOK, KeepKey, store, call
<1>7. Crypto' /\ Recoverable'
  BY <1>1, <1>2, <1>3, <1>4, <1>5, ReservedFacts DEF IInv, Crypto, Recoverable, Erased
<1>8. Fresh'
  BY <1>1, <1>2, <1>3, <1>4, <1>5 DEF IInv, Fresh, Erased
<1>9. Held' /\ Records' /\ PoolReadable'
  <2> SUFFICES ASSUME ~restarted PROVE Held' /\ Records' /\ PoolReadable'
    BY <1>2 DEF Held, Records, PoolReadable, Erased
  <2>1. /\ i \notin setKeyPool /\ pool[i] = reserve[h].key
        /\ \A g \in Reserved \ {h} : reserve[g].index # i /\ reserve[g].index \in Keys
    BY <1>1, <1>2, ReservedFacts DEF IInv, Held
  <2>2. Held'
    BY <1>2, <1>3, <1>4, <1>5, <2>1 DEF IInv, Held, Erased
  <2>3. \A j \in Keys : pool'[j] \notin given'
    BY <1>1, <1>3, <1>4, <2>1 DEF IInv, Records, TypeOK
  <2>4. Records' /\ PoolReadable'
    BY <1>2, <1>3, <1>4, <2>1, <2>3 DEF IInv, TypeOK, Records, PoolReadable, Erased, Have
  <2> QED  BY <2>2, <2>4
<1> QED  BY <1>6, <1>7, <1>8, <1>9 DEF IInv

\* The index comes back to its record, unless it was given twice.
LEMMA ReturnKeyInv ==
    ASSUME IInv, NEW h \in Holders, ReturnKey(h)
    PROVE  IInv'
<1>1. /\ h \in Reserved /\ reserve[h].index \in Keys
      /\ reserve[h].key \in key \cup ckey
  <2>1. h \in Reserved
    BY DEF ReturnKey, Reserved
  <2> QED  BY <2>1, ReservedFacts DEF IInv
<1>2. /\ reserve' = [reserve EXCEPT ![h] = Unreserved]
      /\ setKeyPool' = setKeyPool \cup {reserve[h].index}
      /\ UNCHANGED <<key, ckey, mkey, pool, mapKeys, mapCryptedKeys, fUseCrypto, pc, newKey,
                     newPass, nextKey, given, restarted>>
  BY DEF ReturnKey, call, disk, store
<1>3. /\ reserve' \in [Holders -> [index : Keys \cup {0}, key : Keys \cup {0}]]
      /\ Reserved' = Reserved \ {h}
      /\ \A g \in Reserved \ {h} : reserve'[g] = reserve[g]
  BY <1>2 DEF IInv, TypeOK, Reserved, Unreserved
<1>4. TypeOK'
  BY <1>1, <1>2, <1>3 DEF IInv, TypeOK, ReturnKey, disk, store, call
<1>5. Crypto' /\ Recoverable' /\ Fresh'
  BY <1>2, <1>3 DEF IInv, Crypto, Recoverable, Fresh
<1>6. Held' /\ PoolReadable'
  BY <1>1, <1>2, <1>3 DEF IInv, TypeOK, Held, PoolReadable, Have
<1>7. Records'
  BY <1>2 DEF IInv, Records
<1> QED  BY <1>4, <1>5, <1>6, <1>7 DEF IInv

\* The keys change their place in one transaction.
LEMMA encryptwalletInv ==
    ASSUME IInv, NEW p \in Passphrases, encryptwallet(p)
    PROVE  IInv'
<1>1. /\ ckey' = key /\ key' = {} /\ mkey' = p /\ fUseCrypto' = TRUE /\ p # None
      /\ mapKeys' = {} /\ mapCryptedKeys' = mapKeys /\ ckey = {}
  BY WalletKeysAssumption DEF encryptwallet, Commit, IInv, Crypto
<1>2. Reserved' = Reserved /\ key' \cup ckey' = key \cup ckey
  BY <1>1 DEF Reserved, encryptwallet
<1>3. TypeOK'
  BY <1>1, WalletKeysAssumption DEF IInv, TypeOK, Steps, encryptwallet
<1>4. Crypto' /\ Recoverable'
  BY <1>1, <1>2 DEF IInv, Crypto, Recoverable, encryptwallet
<1>5. Fresh'
  BY <1>1, <1>2 DEF IInv, Fresh, encryptwallet
<1>6. Held' /\ Records' /\ PoolReadable'
  BY <1>1, <1>2 DEF IInv, TypeOK, Held, Records, PoolReadable, Have, encryptwallet
<1> QED  BY <1>3, <1>4, <1>5, <1>6 DEF IInv

\* The record and the index go together.
LEMMA EraseOldInv ==
    ASSUME IInv, EraseOld
    PROVE  IInv'
<1>1. PICK i \in Keys : i \in setKeyPool /\ Erased(i) /\ setKeyPool' = setKeyPool \ {i}
  BY DEF EraseOld, Oldest, ErasePool, Erased, store
<1>2. /\ pool' \in [Keys -> Keys \cup {0}]
      /\ \A j \in Keys : pool'[j] = IF j = i THEN 0 ELSE pool[j]
      /\ \A j \in Keys : pool'[j] # 0 => pool'[j] \in key \cup ckey
      /\ 0 \notin Keys
  BY <1>1, ErasedFacts
<1>3. Reserved' = Reserved /\ UNCHANGED <<reserve, given, pc, newKey, newPass>> /\ pc = "newpool"
  BY DEF EraseOld, Reserved, call
<1>4. TypeOK'
  BY <1>1, <1>2 DEF IInv, TypeOK, EraseOld, store, call
<1>5. Crypto' /\ Recoverable' /\ Fresh'
  BY <1>1, <1>2, <1>3 DEF IInv, Crypto, Recoverable, Fresh, Erased
<1>6. Held'
  BY <1>1, <1>2, <1>3, ReservedFacts DEF IInv, Held, Erased
<1>7. Records' /\ PoolReadable'
  BY <1>1, <1>2, <1>3 DEF IInv, TypeOK, Records, PoolReadable, Erased, Have
<1> QED  BY <1>4, <1>5, <1>6, <1>7 DEF IInv

\* What is loaded is what was written; nothing is held.
LEMMA CrashInv ==
    ASSUME IInv, Crash
    PROVE  IInv'
<1>1. /\ mapKeys' = key /\ mapCryptedKeys' = ckey /\ fUseCrypto' = (ckey # {})
      /\ mapMasterKeys' = mkey /\ setKeyPool' = {i \in Keys : pool[i] # 0}
      /\ UNCHANGED <<key, ckey, mkey, pool, nextKey, given, restarted>>
      /\ crashes' = crashes + 1 /\ crashes < MaxCrashes
      /\ reserve' = [h \in Holders |-> Unreserved]
  BY DEF Crash, Load, disk
<1>2. CallOK' /\ newKey' = 0 /\ pc' \in {"idle", "topup"}
  <2>1. CASE defaultkey # 0
    <3>1. Idle
      BY <2>1 DEF Crash, Load
    <3>2. CallOK'
      BY <3>1, GoOnCalm DEF IInv
    <3> QED  BY <3>1, <3>2 DEF Idle
  <2>2. CASE defaultkey = 0
    <3>1. /\ pc' = "topup" /\ then' = "default" /\ limit' = KeyPoolSize + 1
          /\ newKey' = 0 /\ fWasLocked' = FALSE /\ newPass' = None
      BY <2>2 DEF Crash, Load
    <3>2. limit' \in Nat
      BY <3>1, WalletKeysAssumption
    <3> QED  BY <3>1, <3>2 DEF CallOK, Steps
  <2> QED  BY <2>1, <2>2
<1>3. Reserved' = {} /\ reserve' \in [Holders -> [index : Keys \cup {0}, key : Keys \cup {0}]]
  BY <1>1 DEF Reserved, Unreserved
<1>4. crashes' \in 0..MaxCrashes
  BY <1>1, WalletKeysAssumption DEF IInv, TypeOK
<1>5. TypeOK'
  BY <1>1, <1>2, <1>3, <1>4 DEF IInv, TypeOK, CallOK, Crash, Load, disk
<1>6. Crypto' /\ Recoverable'
  BY <1>1, <1>2, <1>3 DEF IInv, Crypto, Recoverable
<1>7. Fresh' /\ Held' /\ Records' /\ PoolReadable'
  BY <1>1, <1>2, <1>3 DEF IInv, Fresh, Held, Records, PoolReadable, Have, Recoverable
<1> QED  BY <1>5, <1>6, <1>7 DEF IInv

-----------------------------------------------------------------------------
(* The theorems *)

LEMMA IInvNext ==
    ASSUME IInv, [Next]_vars PROVE IInv'
<1>1. CASE UNCHANGED vars
  <2>1. TypeOK'
    BY <1>1 DEF IInv, TypeOK, vars, disk, store, call
  <2>2. Calm
    BY <1>1 DEF IInv, Crypto, Calm, vars, disk, store, call
  <2> QED  BY <2>1, <2>2, CalmInv
<1>2. CASE Next
  BY <1>2, WalletKeysAssumption, getnewaddressInv, getrawchangeaddressInv, keypoolrefillInv, GetReservedKeyInv,
     walletpassphraseInv, TopUpKeyPoolInv, FillThrowsInv, FilledInv,
     TakeAndReturnInv, NewKeyPoolInv, EncryptedInv, RPCRunLaterInv,
     LockWalletInv, walletlockInv, walletpassphrasechangeInv, ChangeWalletPassphraseInv,
     SetDefaultKeyInv, FillInv, WritePoolInv, TakeKeyInv,
     ReserveKeyInv, ReadFailedInv, TakeFromEmptyInv, importprivkeyInv,
     KeepKeyInv, ReturnKeyInv, encryptwalletInv, EraseOldInv,
     CrashInv
     DEF Next
<1> QED  BY <1>1, <1>2

\* For every number of keys, holders, passphrases, pool size and crashes, whenever
\* the process dies wallet.dat can be loaded and no key in use is lost, no key has
\* two uses, and every index of the pool can be read: LoadWallet, TopUpKeyPool,
\* CReserveKey and EncryptWallet keep records and memory in step.
THEOREM WalletSafe == Spec => [](TypeOK /\ Recoverable /\ OneUse /\ PoolReadable)
<1>1. IInv /\ [Next]_vars => IInv'
  BY IInvNext
<1>2. IInv => TypeOK /\ Recoverable /\ OneUse /\ PoolReadable
  BY HeldOnce DEF IInv
<1>3. QED
  BY <1>1, <1>2, IInvInit, PTL DEF Spec

-----------------------------------------------------------------------------
(* Blocks and their order *)

\* The chain of a block holds it and the chains of the blocks before it; heights
\* grow along it by one.
LEMMA ChainRule ==
    ASSUME NEW b \in Blocks
    PROVE  /\ b \in Chain[b] /\ Root \in Chain[b] /\ Chain[b] \subseteq Blocks
           /\ Height[b] \in Nat /\ Height[Root] = 0
           /\ \A c \in Chain[b] : Chain[c] \subseteq Chain[b]
           /\ b # Root => /\ Prev[b] \in Blocks /\ Prev[b] \in Chain[b]
                          /\ Chain[b] = Chain[Prev[b]] \cup {b}
                          /\ b \notin Chain[Prev[b]]
                          /\ Height[b] = Height[Prev[b]] + 1
<1>1. ASSUME NEW c \in Blocks
      PROVE  /\ c \in Chain[c] /\ Height[c] = Cardinality(Chain[c]) - 1
             /\ IsFiniteSet(Chain[c]) /\ Cardinality(Chain[c]) \in Nat /\ Height[c] \in Nat
  <2>1. c \in Chain[c] /\ IsFiniteSet(Chain[c])
    BY BlocksAssumption
  <2>2. Height[c] = Cardinality(Chain[c]) - 1
    BY DEF Height
  <2>3. Cardinality(Chain[c]) \in Nat /\ Cardinality(Chain[c]) # 0
    BY <2>1, FS_CardinalityType, FS_EmptySet
  <2> QED  BY <2>1, <2>2, <2>3
<1>2. Height[Root] = 0
  <2>1. Cardinality(Chain[Root]) = 1
    BY BlocksAssumption, FS_Singleton
  <2>2. Root \in Blocks
    BY BlocksAssumption
  <2>3. Height[Root] = Cardinality(Chain[Root]) - 1
    BY <1>1, <2>2
  <2> QED  BY <2>1, <2>3
<1>3. ASSUME b # Root
      PROVE  /\ Prev[b] \in Blocks /\ Prev[b] \in Chain[b]
             /\ Chain[b] = Chain[Prev[b]] \cup {b} /\ b \notin Chain[Prev[b]]
             /\ Height[b] = Height[Prev[b]] + 1
  <2>1. Prev[b] \in Blocks /\ Chain[b] = Chain[Prev[b]] \cup {b} /\ b \notin Chain[Prev[b]]
    BY <1>3, BlocksAssumption
  <2>2. Cardinality(Chain[Prev[b]] \cup {b}) = Cardinality(Chain[Prev[b]]) + 1
    BY <1>1, <2>1, FS_AddElement
  <2>3. /\ Height[b] = Cardinality(Chain[b]) - 1 /\ Prev[b] \in Chain[Prev[b]]
        /\ Height[Prev[b]] = Cardinality(Chain[Prev[b]]) - 1 /\ Cardinality(Chain[Prev[b]]) \in Nat
    BY <1>1, <2>1
  <2>4. Height[b] = Height[Prev[b]] + 1
    BY <2>1, <2>2, <2>3
  <2> QED  BY <2>1, <2>3, <2>4
<1>4. QED
  BY <1>1, <1>2, <1>3, BlocksAssumption

\* No block of a chain is higher than its tip.
LEMMA HeightOn ==
    ASSUME NEW b \in Blocks, NEW c \in Chain[b]
    PROVE  c \in Blocks /\ Height[c] \in Nat /\ Height[b] \in Nat /\ Height[c] <= Height[b]
<1>1. c \in Blocks /\ Height[c] \in Nat /\ Height[b] \in Nat /\ Chain[c] \subseteq Chain[b]
  BY ChainRule
<1>2. Cardinality(Chain[c]) <= Cardinality(Chain[b])
  BY <1>1, BlocksAssumption, FS_Subset
<1>3. Height[c] = Cardinality(Chain[c]) - 1 /\ Height[b] = Cardinality(Chain[b]) - 1
  BY <1>1 DEF Height
<1>4. Cardinality(Chain[c]) \in Nat /\ Cardinality(Chain[b]) \in Nat
  BY <1>1, BlocksAssumption, FS_CardinalityType
<1> QED  BY <1>1, <1>2, <1>3, <1>4

\* A non-empty set of numbers has a least one ...
LEMMA Least ==
    ASSUME NEW T, T \subseteq Nat, T # {}
    PROVE  \E x \in T : \A y \in T : x <= y
<1> DEFINE R == {ss \in Nat \X Nat : ss[1] < ss[2]}
<1>1. IsWellFoundedOn(R, Nat)
  BY NatLessThanWellFounded, Zenon DEF OpToRel
<1> HIDE DEF R
<1>2. PICK x \in T : \A y \in T : ~(<<y, x>> \in R)
  BY <1>1, WFMin, Zenon
<1>3. ASSUME NEW y \in T PROVE x <= y
  <2>1. ~(<<y, x>> \in R)
    BY <1>2
  <2> QED  BY <2>1 DEF R
<1> QED  BY <1>2, <1>3

\* ... so what holds of 0 and of each successor holds of all, said of the set S
\* of those it holds of.
LEMMA InductionOn ==
    ASSUME NEW S, 0 \in S, \A n \in Nat : n \in S => n + 1 \in S
    PROVE  \A n \in Nat : n \in S
<1> DEFINE T == Nat \ S
<1>1. SUFFICES ASSUME T # {} PROVE FALSE
  OBVIOUS
<1>2. PICK x \in T : \A y \in T : x <= y
  BY <1>1, Least
<1>3. x \in Nat /\ x # 0 /\ x - 1 \in Nat /\ x - 1 \in S
  BY <1>2
<1>4. (x - 1) + 1 \in S
  BY <1>3
<1> QED  BY <1>2, <1>3, <1>4

\* A chain has a block at every height up to its tip's.
LEMMA BlockAtRule ==
    ASSUME NEW b \in Blocks, NEW h \in 0..Height[b]
    PROVE  BlockAt(b, h) \in Chain[b]
<1> DEFINE S == {n \in Nat : \A c \in Blocks : Height[c] = n =>
                    \A i \in 0..n : \E d \in Chain[c] : Height[d] = i}
<1>1. 0 \in S
  BY ChainRule
<1>2. ASSUME NEW n \in Nat, n \in S PROVE n + 1 \in S
  <2> SUFFICES ASSUME NEW c \in Blocks, Height[c] = n + 1, NEW i \in 0..(n + 1)
               PROVE  \E d \in Chain[c] : Height[d] = i
    OBVIOUS
  <2>1. c # Root /\ c \in Chain[c] /\ Chain[c] = Chain[Prev[c]] \cup {c} /\ Prev[c] \in Blocks
        /\ Height[c] = Height[Prev[c]] + 1 /\ Height[Prev[c]] \in Nat
    BY ChainRule
  <2>2. CASE i = n + 1
    BY <2>1, <2>2
  <2>3. CASE i # n + 1
    <3>1. Height[Prev[c]] = n /\ i \in 0..n
      BY <2>1, <2>3
    <3>2. \E d \in Chain[Prev[c]] : Height[d] = i
      BY <1>2, <2>1, <3>1
    <3> QED  BY <2>1, <3>2
  <2> QED  BY <2>2, <2>3
<1>3. \A n \in Nat : n \in S
  <2> HIDE DEF S
  <2> QED  BY <1>1, <1>2, InductionOn
<1>4. Height[b] \in Nat
  BY ChainRule
<1>5. \E d \in Chain[b] : Height[d] = h
  BY <1>3, <1>4
<1> QED  BY <1>5 DEF BlockAt

\* The fork of two chains is on both.
LEMMA ForkRule ==
    ASSUME NEW b \in Blocks, NEW c \in Blocks
    PROVE  FindFork(b, c) \in Chain[b] \cap Chain[c]
<1> DEFINE B == Chain[b] \cap Chain[c]
           T == {Height[b] - Height[f] : f \in B}
<1>1. Root \in B /\ \A f \in B : Height[f] \in Nat /\ Height[f] <= Height[b]
  BY ChainRule, HeightOn
<1>2. Height[b] \in Nat
  BY ChainRule
<1>3. T \subseteq Nat /\ T # {}
  BY <1>1, <1>2
<1>4. PICK x \in T : \A y \in T : x <= y
  BY <1>3, Least
<1>5. PICK f \in B : x = Height[b] - Height[f]
  BY <1>4
<1>6. ASSUME NEW g \in B PROVE Height[g] <= Height[f]
  <2>1. Height[b] - Height[f] <= Height[b] - Height[g]
    BY <1>4, <1>5
  <2> QED  BY <1>1, <1>2, <2>1
<1>7. \E z \in B : \A g \in B : Height[g] <= Height[z]
  BY <1>6
<1> QED  BY <1>7 DEF FindFork

-----------------------------------------------------------------------------
(* What the wallet is told *)

\* The pairs of a transaction and a block of the chain of b that holds it, and the
\* transactions told without a block.
Notes(b) == {e \in Txs \X (Blocks \cup {Null}) :
               e[2] # Null => e[2] \in Chain[b] /\ e[1] \in TxsOf(e[2])}

LEMMA VtxRule ==
    ASSUME NEW b \in Blocks
    PROVE  /\ Vtx[b] \in Seq(Txs) /\ TxsOf(b) \subseteq Txs
           /\ \A i \in DOMAIN Vtx[b] : Vtx[b][i] \in TxsOf(b)
           /\ \A t \in TxsOf(b) : \E i \in DOMAIN Vtx[b] : Vtx[b][i] = t
<1>1. Vtx[b] \in Seq(Txs)
  BY BlocksAssumption
<1> QED  BY <1>1 DEF TxsOf, ToSet

LEMMA TellRule ==
    ASSUME NEW ts \in Seq(Txs), NEW b
    PROVE  /\ Len(Tell(ts, b)) = Len(ts) /\ DOMAIN Tell(ts, b) = 1..Len(ts)
           /\ \A i \in 1..Len(ts) : Tell(ts, b)[i] = <<ts[i], b>>
           /\ b = Null => \A c \in Blocks : Tell(ts, b) \in Seq(Notes(c))
           /\ \A c \in Blocks : b \in Chain[c] /\ (\A i \in 1..Len(ts) : ts[i] \in TxsOf(b))
                 => Tell(ts, b) \in Seq(Notes(c))
<1>1. Tell(ts, b) = [i \in 1..Len(ts) |-> <<ts[i], b>>] /\ Len(ts) \in Nat
  BY DEF Tell
<1>2. ASSUME NEW c \in Blocks, b = Null PROVE Tell(ts, b) \in Seq(Notes(c))
  BY <1>1, <1>2 DEF Notes
<1>3. ASSUME NEW c \in Blocks, b \in Chain[c], \A i \in 1..Len(ts) : ts[i] \in TxsOf(b)
      PROVE  Tell(ts, b) \in Seq(Notes(c))
  <2>1. b \in Blocks
    BY <1>3, ChainRule
  <2> QED  BY <1>1, <1>3, <2>1 DEF Notes
<1> QED  BY <1>1, <1>2, <1>3

\* A finite set as a sequence of its elements.
LEMMA SetToSeqRule ==
    ASSUME NEW S, IsFiniteSet(S)
    PROVE  SetToSeq(S) \in Seq(S) /\ \A x \in S : \E i \in 1..Len(SetToSeq(S)) : SetToSeq(S)[i] = x
<1> DEFINE n == Cardinality(S)  f == SetToSeq(S)
<1>1. n \in Nat /\ ExistsBijection(1..n, S)
  BY FS_CardinalityType
<1>2. \E g \in [1..n -> S] : IsInjective(g)
  <2>1. PICK g : g \in Bijection(1..n, S)
    BY <1>1 DEF ExistsBijection
  <2>2. g \in [1..n -> S] /\ \A x, y \in 1..n : g[x] = g[y] => x = y
    BY <2>1 DEF Bijection, Injection, IsInjective
  <2> QED  BY <2>2 DEF IsInjective
<1>3. f \in [1..n -> S] /\ IsInjective(f)
  BY <1>2 DEF SetToSeq
<1> HIDE DEF f
<1>4. f \in Injection(1..n, S)
  BY <1>3 DEF IsInjective, Injection
<1>5. IsFiniteSet(1..n) /\ Cardinality(1..n) = n
  <2>1. 1 \in Int /\ n \in Int
    BY <1>1
  <2> QED  BY <1>1, <2>1, FS_Interval
<1>6. f \in Surjection(1..n, S)
  BY <1>4, <1>5, FS_Injection
<1>7. \A x \in S : \E i \in 1..n : f[i] = x
  BY <1>6 DEF Surjection
<1>8. f \in Seq(S) /\ Len(f) = n
  BY <1>1, <1>3
<1> QED  BY <1>7, <1>8 DEF f

\* A function defined by recursion from its value at 1.
Recurs(g, V, a, F, n) == g \in [1..n -> V] /\ g[1] = a /\ \A i \in 2..n : g[i] = F[i][g[i - 1]]

LEMMA Recursion ==
    ASSUME NEW V, NEW a \in V, NEW F \in [Nat -> [V -> V]], NEW n \in Nat
    PROVE  \E g : Recurs(g, V, a, F, n + 1)
<1> USE DEF Recurs
<1> DEFINE Good(m, g) == Recurs(g, V, a, F, m + 1)
           S == {m \in Nat : \E g : Good(m, g)}
<1>1. 0 \in S
  <2> DEFINE g == [i \in 1..1 |-> a]
  <2>1. Good(0, g)
    OBVIOUS
  <2> QED  BY <2>1
<1>2. ASSUME NEW m \in Nat, m \in S PROVE m + 1 \in S
  <2>1. PICK g : Good(m, g)
    BY <1>2
  <2> DEFINE f == [i \in 1..(m + 2) |-> IF i = m + 2 THEN F[i][g[m + 1]] ELSE g[i]]
  <2>2. f \in [1..(m + 2) -> V]
    <3>1. ASSUME NEW i \in 1..(m + 2) PROVE (IF i = m + 2 THEN F[i][g[m + 1]] ELSE g[i]) \in V
      <4>1. CASE i = m + 2
        BY <2>1, <4>1
      <4>2. CASE i # m + 2
        BY <2>1, <4>2
      <4> QED  BY <4>1, <4>2
    <3> QED  BY <3>1
  <2>3. f[1] = a
    BY <2>1
  <2>4. ASSUME NEW i \in 2..(m + 2) PROVE f[i] = F[i][f[i - 1]]
    <3>1. CASE i = m + 2
      BY <2>1, <3>1
    <3>2. CASE i # m + 2
      BY <2>1, <3>2
    <3> QED  BY <3>1, <3>2
  <2> HIDE DEF f
  <2>5. Good(m + 1, f)
    <3>1. (m + 1) + 1 = m + 2
      OBVIOUS
    <3> QED  BY <2>2, <2>3, <2>4, <3>1
  <2>6. m + 1 \in Nat
    OBVIOUS
  <2> QED  BY <2>5, <2>6, Zenon
<1> HIDE DEF S
<1>3. n \in S
  BY <1>1, <1>2, InductionOn
<1>4. PICK g : Good(n, g)
  BY <1>3 DEF S
<1> QED  BY <1>4

\* What is in one of the sequences is all there is in their concatenation.
LEMMA FlattenRule ==
    ASSUME NEW V, NEW s \in Seq(Seq(V)), Len(s) # 0
    PROVE  FlattenSeq(s) \in Seq(V)
<1> DEFINE n == Len(s)
           F == [i \in Nat |-> [x \in Seq(V) |-> IF i \in 1..n THEN x \o s[i] ELSE x]]
           fl == CHOOSE g : g = [i \in 1..n |-> IF i = 1 THEN s[i] ELSE g[i - 1] \o s[i]]
<1>1. n \in Nat /\ n - 1 \in Nat /\ (n - 1) + 1 = n /\ \A i \in 1..n : s[i] \in Seq(V)
  OBVIOUS
<1>2. F \in [Nat -> [Seq(V) -> Seq(V)]]
  <2>1. ASSUME NEW i \in Nat, NEW x \in Seq(V)
        PROVE  (IF i \in 1..n THEN x \o s[i] ELSE x) \in Seq(V)
    <3>1. CASE i \in 1..n
      BY <1>1, <3>1
    <3>2. CASE i \notin 1..n
      BY <3>2
    <3> QED  BY <3>1, <3>2
  <2> QED  BY <2>1
<1>3. s[1] \in Seq(V)
  BY <1>1
<1> HIDE DEF F
<1>4. PICK g : Recurs(g, Seq(V), s[1], F, n)
  <2>1. \E g : Recurs(g, Seq(V), s[1], F, (n - 1) + 1)
    BY <1>1, <1>2, <1>3, Recursion, Zenon
  <2> QED  BY <1>1, <2>1
<1>5. g \in [1..n -> Seq(V)] /\ g[1] = s[1] /\ \A i \in 2..n : g[i] = F[i][g[i - 1]]
  BY <1>4 DEF Recurs
<1>6. ASSUME NEW i \in 1..n PROVE g[i] = IF i = 1 THEN s[i] ELSE g[i - 1] \o s[i]
  <2>1. CASE i = 1
    BY <1>5, <2>1
  <2>2. CASE i # 1
    <3>1. i \in 2..n /\ i - 1 \in 1..n /\ i \in Nat /\ i \in 1..n
      BY <1>1, <2>2
    <3>2. g[i - 1] \in Seq(V) /\ g[i] = F[i][g[i - 1]]
      BY <1>5, <3>1
    <3>3. F[i][g[i - 1]] = g[i - 1] \o s[i]
      BY <3>1, <3>2 DEF F
    <3> QED  BY <2>2, <3>2, <3>3
  <2> QED  BY <2>1, <2>2
<1>7. g = [i \in 1..n |-> IF i = 1 THEN s[i] ELSE g[i - 1] \o s[i]]
  <2>1. g = [i \in 1..n |-> g[i]]
    BY <1>5
  <2> QED  BY <1>6, <2>1, Zenon
<1>8. fl = [i \in 1..n |-> IF i = 1 THEN s[i] ELSE fl[i - 1] \o s[i]]
  BY <1>7, Zenon
<1>9. FlattenSeq(s) = fl[n]
  BY Zenon DEF FlattenSeq
<1> HIDE DEF fl
<1>10. \A i \in 1..n : fl[i] = IF i = 1 THEN s[i] ELSE fl[i - 1] \o s[i]
  BY <1>8, Zenon
<1> DEFINE S == {m \in Nat : m + 1 <= n => fl[m + 1] \in Seq(V)}
<1>11. 0 \in S
  BY <1>1, <1>10
<1>12. ASSUME NEW m \in Nat, m \in S PROVE m + 1 \in S
  <2> SUFFICES ASSUME m + 2 <= n PROVE fl[m + 2] \in Seq(V)
    OBVIOUS
  <2>1. m + 2 \in 1..n /\ m + 2 # 1 /\ (m + 2) - 1 = m + 1 /\ fl[m + 1] \in Seq(V)
    BY <1>1, <1>12
  <2>2. fl[m + 2] = fl[m + 1] \o s[m + 2]
    BY <1>10, <2>1
  <2>3. s[m + 2] \in Seq(V)
    BY <1>1, <2>1
  <2> QED  BY <2>1, <2>2, <2>3
<1>13. n - 1 \in S
  <2> HIDE DEF S
  <2> QED  BY <1>1, <1>11, <1>12, InductionOn
<1> QED  BY <1>1, <1>9, <1>13

\* The rescan tells of transactions in the blocks of the chain only.
LEMMA RescanRule ==
    ASSUME NEW loc \in Blocks, NEW b \in Blocks
    PROVE  Rescan[loc][b] \in Seq(Notes(b))
<1> DEFINE fork == FindFork(loc, b)
           n == Height[b] - Height[fork] + 1
           s == [i \in 1..n |-> Tell(Vtx[BlockAt(b, Height[fork] + i - 1)],
                                     BlockAt(b, Height[fork] + i - 1))]
<1>1. Rescan[loc][b] = IF fork = b THEN <<>> ELSE FlattenSeq(s)
  BY Zenon DEF Rescan
<1>2. CASE fork = b
  BY <1>1, <1>2
<1>3. CASE fork # b
  <2>1. fork \in Chain[b] /\ Height[fork] \in Nat /\ Height[b] \in Nat /\ Height[fork] <= Height[b]
    BY ForkRule, HeightOn
  <2> HIDE DEF fork
  <2>2. n \in Nat /\ n # 0
    BY <2>1
  <2>3. ASSUME NEW i \in 1..n
        PROVE  Tell(Vtx[BlockAt(b, Height[fork] + i - 1)], BlockAt(b, Height[fork] + i - 1))
                  \in Seq(Notes(b))
    <3> DEFINE c == BlockAt(b, Height[fork] + i - 1)
    <3>1. Height[fork] + i - 1 \in 0..Height[b]
      BY <2>1
    <3>2. c \in Chain[b]
      BY <3>1, BlockAtRule
    <3> HIDE DEF c
    <3>3. c \in Blocks
      BY <3>2, ChainRule
    <3>4. Vtx[c] \in Seq(Txs) /\ \A i_1 \in 1..Len(Vtx[c]) : Vtx[c][i_1] \in TxsOf(c)
      BY <3>3, VtxRule
    <3>5. Tell(Vtx[c], c) \in Seq(Notes(b))
      BY <3>2, <3>4, TellRule
    <3> QED  BY <3>5 DEF c
  <2>4. s \in Seq(Seq(Notes(b))) /\ Len(s) = n
    <3> HIDE DEF n
    <3> QED  BY <2>2, <2>3
  <2>5. FlattenSeq(s) \in Seq(Notes(b))
    <3> HIDE DEF s
    <3> QED  BY <2>2, <2>4, FlattenRule
  <2> QED  BY <1>1, <1>3, <2>5
<1> QED  BY <1>2, <1>3

-----------------------------------------------------------------------------
(* The inductive invariant *)

\* A transaction that pays us, or spends what is ours.
Ours(t) == (\E o \in Mine : Of[o] = t) \/ \E o \in Ins[t] \cap Mine : Value[o] > 0

\* The block up to which the wallet is being told.
Scope == IF phase = "connect" THEN coins ELSE tip

Typed ==
    /\ tip \in Blocks /\ coins \in Blocks /\ diskTip \in Blocks /\ bestblock \in Blocks
    /\ mempool \subseteq Txs
    /\ mapWallet \in [Txs -> Blocks \cup {Null, Absent}]
    /\ avail = [t \in Txs |-> avail[t]]
    /\ phase \in {"idle", "connect", "connected", "disconnect", "resurrect", "start", "reaccept"}
    /\ undo \in {"saved", "unsaved", "lost"}
    /\ todo \in Seq(Notes(Scope))

\* Where the coins are relative to the tip, and transactions to their blocks.
Places ==
    /\ phase \in {"idle", "start", "reaccept"} => coins = tip
    /\ phase \in {"connect", "connected"} => coins # Root /\ Prev[coins] = tip
    /\ phase \in {"disconnect", "resurrect"} => tip # Root /\ coins = Prev[tip]
    /\ \A t \in Txs : mapWallet[t] \in Blocks => t \in TxsOf(mapWallet[t])

\* Telling the wallet of x makes it forget the credit of t.
Dirties(x, t) == mapWallet[x] # Absent /\ (t = x \/ \E o \in Ins[x] : Of[o] = t)

\* A cached credit is right, or the wallet is about to be told what changed it.
Cached ==
    /\ phase = "start" => \A t \in Txs : avail[t] = -1
    /\ \A t \in Wallet \ Bereft :
         \/ avail[t] >= 0 => avail[t] = Credit(t)
         \/ phase = "idle" /\ \E i \in DOMAIN todo : Dirties(todo[i][1], t)

\* No transaction is in two blocks of the chain of b.
Once(b) == \A c, d \in Chain[b] : TxsOf(c) \cap TxsOf(d) # {} => c = d

\* Every transaction of ours on the chain of b is recorded with its block.
SeenAt(b) == \A c \in Chain[b] : \A t \in TxsOf(c) : Ours(t) => mapWallet[t] = c

\* The block being connected: what it spends comes before, and what has been told
\* of it is recorded.
Telling ==
    LET n == Len(Vtx[coins]) - Len(todo) IN
    /\ n \in Nat
    /\ \A i \in 1..Len(todo) : todo[i] = <<Vtx[coins][n + i], coins>>
    /\ \A j \in 1..n : Ours(Vtx[coins][j]) => mapWallet[Vtx[coins][j]] = coins
    /\ \A i \in 1..Len(Vtx[coins]) : \A o \in Ins[Vtx[coins][i]] :
         Of[o] \in ChainTxs[tip] \/ \E j \in 1..(i - 1) : Vtx[coins][j] = Of[o]

\* What the wallet knows of the chain and of the pool.  What is on disk is on the
\* chain unless a disconnection is not on disk.
Known ==
    /\ \A t \in Wallet : Ours(t)
    /\ Once(tip) /\ Once(coins) /\ Once(diskTip)
    /\ undo = "saved" => diskTip \in Chain[coins] /\ (phase = "connect" => diskTip \in Chain[tip])
    /\ undo # "lost" =>
         /\ SeenAt(tip)
         /\ phase = "connected" => SeenAt(coins)
         /\ phase = "connect" => Telling
         /\ \A t \in mempool : Ours(t) => t \in Wallet

TxInv == Typed /\ Places /\ Cached /\ Known

LEMMA TxInitInv == TxInit => TxInv
<1> SUFFICES ASSUME TxInit PROVE TxInv
  OBVIOUS
<1> USE DEF TxInit
<1>1. Root \in Blocks /\ Absent \notin Blocks /\ Null # Absent
  BY BlocksAssumption DEF Absent
<1>2. Typed
  BY <1>1 DEF Typed, Scope
<1>3. Places
  BY <1>1 DEF Places
<1>4. Cached
  BY <1>1 DEF Cached, Wallet
<1>5. Once(Root)
  BY BlocksAssumption DEF Once
<1>6. SeenAt(Root)
  <2> SUFFICES ASSUME NEW t \in TxsOf(Root) PROVE ~Ours(t)
    BY BlocksAssumption DEF SeenAt
  <2>1. t \in Coinbases /\ \A o \in Mine : Of[o] # t
    BY BlocksAssumption DEF TxsOf
  <2>2. Ins[t] = {}
    BY <2>1, WalletTxAssumption
  <2> QED  BY <2>1, <2>2 DEF Ours
<1>7. Known
  BY <1>1, <1>5, <1>6, ChainRule DEF Known, Wallet
<1> QED  BY <1>2, <1>3, <1>4, <1>7 DEF TxInv

\* What SyncTransaction does to the records.
LEMMA AddedRule ==
    ASSUME Typed, NEW x \in Txs, NEW b \in Blocks \cup {Null}
    PROVE  /\ Added(x, b) \in [Txs -> Blocks \cup {Null, Absent}]
           /\ \A y \in Txs \ {x} : Added(x, b)[y] = mapWallet[y]
           /\ ~Involved(x) => mapWallet[x] = Absent /\ Added(x, b)[x] = Absent
           /\ Involved(x) => /\ Added(x, b)[x] # Absent
                             /\ b # Null => Added(x, b)[x] = b
                             /\ b = Null => Added(x, b)[x] = IF mapWallet[x] = Absent THEN Null
                                                             ELSE mapWallet[x]
<1>1. Null # Absent /\ b # Absent
  BY BlocksAssumption DEF Absent
<1>2. mapWallet \in [Txs -> Blocks \cup {Null, Absent}]
  BY DEF Typed
<1>3. mapWallet[x] # Absent => Involved(x)
  BY DEF Involved
<1> QED  BY <1>1, <1>2, <1>3 DEF Added

-----------------------------------------------------------------------------
(* Types and places *)

\* SyncTransaction and the scan keep records well placed.
LEMMA AddedPlaces ==
    ASSUME Typed, Places, NEW x \in Txs, NEW b \in Blocks \cup {Null},
           b # Null => x \in TxsOf(b), mapWallet' = Added(x, b)
    PROVE  /\ mapWallet' \in [Txs -> Blocks \cup {Null, Absent}]
           /\ \A t \in Txs : mapWallet'[t] \in Blocks => t \in TxsOf(mapWallet'[t])
<1>1. Null \notin Blocks /\ Absent \notin Blocks
  BY BlocksAssumption DEF Absent
<1>2. \A t \in Txs : mapWallet[t] \in Blocks => t \in TxsOf(mapWallet[t])
  BY DEF Places
<1>3. ASSUME NEW t \in Txs, mapWallet'[t] \in Blocks PROVE t \in TxsOf(mapWallet'[t])
  <2>1. CASE t # x
    <3>1. mapWallet'[t] = mapWallet[t]
      BY <2>1, AddedRule
    <3> QED  BY <1>2, <1>3, <3>1
  <2>2. CASE t = x
    <3>1. Involved(x)
      BY <1>1, <1>3, <2>2, AddedRule
    <3>2. mapWallet'[x] = b \/ mapWallet'[x] = Null \/ mapWallet'[x] = mapWallet[x]
      BY <3>1, AddedRule
    <3> QED  BY <1>1, <1>2, <1>3, <2>2, <3>2
  <2> QED  BY <2>1, <2>2
<1> QED  BY <1>3, AddedRule

\* The transaction told next, and what is left to tell.
LEMMA TodoRule ==
    ASSUME NEW b \in Blocks, NEW s \in Seq(Notes(b)), s # <<>>
    PROVE  /\ s[1][1] \in Txs /\ s[1][2] \in Blocks \cup {Null}
           /\ s[1][2] # Null => s[1][2] \in Chain[b] /\ s[1][1] \in TxsOf(s[1][2])
           /\ Tail(s) \in Seq(Notes(b)) /\ Len(s) \in Nat /\ Len(s) # 0
           /\ Len(Tail(s)) = Len(s) - 1
           /\ \A i \in 1..(Len(s) - 1) : Tail(s)[i] = s[i + 1]
<1>1. s[1] \in Notes(b)
  OBVIOUS
<1> QED  BY <1>1 DEF Notes

LEMMA CleanRule ==
    ASSUME NEW c, NEW S
    PROVE  /\ Clean(c, S) = [t \in Txs |-> Clean(c, S)[t]]
           /\ \A t \in Txs : Clean(c, S)[t] = IF t \in S THEN -1 ELSE c[t]
BY DEF Clean

LEMMA TypedNext ==
    ASSUME Typed, Places, TxNext
    PROVE  Typed' /\ Places'
<1> USE DEF Typed, Places, Scope, node, wallet
<1>0. /\ \A b \in Blocks : <<>> \in Seq(Notes(b)) /\ b \in Chain[b]
      /\ Null \notin Blocks /\ Absent \notin Blocks /\ Null # Absent
  BY ChainRule, BlocksAssumption DEF Absent
<1>1. CASE getbalance
  BY <1>1 DEF getbalance
<1>2. ASSUME NEW t \in (Txs \ Own) \cup Wallet, ReceiveTx(t) PROVE Typed' /\ Places'
  <2>1. t \in Txs
    BY <1>2 DEF Wallet
  <2>2. mapWallet' = Added(t, Null) /\ avail' = Clean(avail, Dirty(t))
    BY <1>2 DEF ReceiveTx, SyncTransaction
  <2>3. /\ mapWallet' \in [Txs -> Blocks \cup {Null, Absent}]
        /\ \A x \in Txs : mapWallet'[x] \in Blocks => x \in TxsOf(mapWallet'[x])
    BY <2>1, <2>2, AddedPlaces
  <2>4. avail' = [x \in Txs |-> avail'[x]]
    BY <2>2, CleanRule
  <2> QED  BY <1>2, <2>1, <2>3, <2>4 DEF ReceiveTx
<1>3. ASSUME NEW t \in Own, CommitTransaction(t) PROVE Typed' /\ Places'
  <2>1. t \in Txs
    BY WalletTxAssumption
  <2>2. avail' = [x \in Txs |-> avail'[x]]
    BY <1>3, CleanRule DEF CommitTransaction
  <2> QED  BY <1>0, <1>3, <2>1, <2>2 DEF CommitTransaction
<1>4. ASSUME NEW b \in Blocks \ {Root}, ConnectBlock(b) PROVE Typed' /\ Places'
  <2>1. Vtx[b] \in Seq(Txs) /\ \A i \in 1..Len(Vtx[b]) : Vtx[b][i] \in TxsOf(b)
    BY VtxRule
  <2>2. Tell(Vtx[b], b) \in Seq(Notes(b))
    BY <1>0, <2>1, TellRule
  <2> QED  BY <1>4, <2>2 DEF ConnectBlock, Watch, Connectable, Quiet
<1>5. CASE FlushConnected
  BY <1>0, <1>5 DEF FlushConnected, Flush
<1>6. CASE ConnectTip
  <2>1. coins \in Blocks /\ IsFiniteSet(Conflicted(coins)) /\ Conflicted(coins) \subseteq Txs
    BY WalletTxAssumption, FS_Subset DEF Conflicted
  <2>2. SetToSeq(Conflicted(coins)) \in Seq(Txs)
    <3>1. SetToSeq(Conflicted(coins)) \in Seq(Conflicted(coins))
      BY <2>1, SetToSeqRule
    <3> QED  BY <2>1, <3>1
  <2>3. Tell(SetToSeq(Conflicted(coins)), Null) \in Seq(Notes(coins))
    BY <2>2, TellRule
  <2>4. Vtx[coins] \in Seq(Txs) /\ \A i \in 1..Len(Vtx[coins]) : Vtx[coins][i] \in TxsOf(coins)
    BY VtxRule
  <2>5. Tell(Vtx[coins], coins) \in Seq(Notes(coins))
    BY <1>0, <2>4, TellRule
  <2>6. todo' \in Seq(Notes(coins))
    BY <1>6, <2>3, <2>5 DEF ConnectTip
  <2> QED  BY <1>6, <2>6 DEF ConnectTip, UpdateTip
<1>7. CASE DisconnectBlock
  <2>1. Prev[tip] \in Blocks
    BY <1>7, ChainRule DEF DisconnectBlock
  <2> QED  BY <1>7, <2>1 DEF DisconnectBlock, Quiet
<1>8. CASE FlushDisconnected
  <2>1. Tell(Vtx[tip], Null) \in Seq(Notes(tip))
    BY VtxRule, TellRule
  <2> QED  BY <1>8, <2>1 DEF FlushDisconnected, Flush
<1>9. CASE Resurrect
  <2>1. todo[1][1] \in Txs /\ Tail(todo) \in Seq(Notes(tip))
    BY <1>9, TodoRule DEF Resurrect
  <2>2. CASE UNCHANGED wallet /\ mempool' \subseteq mempool
    BY <1>9, <2>1, <2>2 DEF Resurrect
  <2>3. CASE mempool' = mempool \cup {todo[1][1]} /\ SyncTransaction(todo[1][1], Null)
    <3>1. mapWallet' = Added(todo[1][1], Null) /\ avail' = Clean(avail, Dirty(todo[1][1]))
      BY <2>3 DEF SyncTransaction
    <3>2. /\ mapWallet' \in [Txs -> Blocks \cup {Null, Absent}]
          /\ \A x \in Txs : mapWallet'[x] \in Blocks => x \in TxsOf(mapWallet'[x])
      BY <2>1, <3>1, AddedPlaces
    <3>3. avail' = [x \in Txs |-> avail'[x]]
      BY <3>1, CleanRule
    <3> QED  BY <1>9, <2>1, <2>3, <3>2, <3>3 DEF Resurrect
  <2> QED  BY <1>9, <2>2, <2>3 DEF Resurrect
<1>10. CASE DisconnectTip
  <2>1. Tell(Vtx[tip], Null) \in Seq(Notes(coins))
    BY VtxRule, TellRule
  <2> QED  BY <1>10, <2>1 DEF DisconnectTip, UpdateTip
<1>11. CASE SyncWithWallets
  <2>1. /\ todo[1][1] \in Txs /\ todo[1][2] \in Blocks \cup {Null}
        /\ todo[1][2] # Null => todo[1][1] \in TxsOf(todo[1][2])
        /\ Tail(todo) \in Seq(Notes(Scope))
    BY <1>11, TodoRule DEF SyncWithWallets
  <2>2. mapWallet' = Added(todo[1][1], todo[1][2]) /\ avail' = Clean(avail, Dirty(todo[1][1]))
    BY <1>11 DEF SyncWithWallets, SyncTransaction
  <2>3. /\ mapWallet' \in [Txs -> Blocks \cup {Null, Absent}]
        /\ \A x \in Txs : mapWallet'[x] \in Blocks => x \in TxsOf(mapWallet'[x])
    BY <2>1, <2>2, AddedPlaces
  <2>4. avail' = [x \in Txs |-> avail'[x]]
    BY <2>2, CleanRule
  <2> QED  BY <1>11, <2>1, <2>3, <2>4 DEF SyncWithWallets
<1>12. CASE Die
  <2>1. Rescan[bestblock][diskTip] \in Seq(Notes(diskTip))
    BY RescanRule
  <2> QED  BY <1>12, <2>1 DEF Die
<1>13. CASE ScanForWalletTransactions
  <2>1. /\ todo[1][1] \in Txs /\ todo[1][2] \in Blocks \cup {Null}
        /\ todo[1][2] # Null => todo[1][1] \in TxsOf(todo[1][2])
        /\ Tail(todo) \in Seq(Notes(Scope))
    BY <1>13, TodoRule DEF ScanForWalletTransactions
  <2>2. mapWallet' = Added(todo[1][1], todo[1][2])
    BY <1>13 DEF ScanForWalletTransactions
  <2>3. /\ mapWallet' \in [Txs -> Blocks \cup {Null, Absent}]
        /\ \A x \in Txs : mapWallet'[x] \in Blocks => x \in TxsOf(mapWallet'[x])
    BY <2>1, <2>2, AddedPlaces
  <2> QED  BY <1>13, <2>1, <2>3 DEF ScanForWalletTransactions
<1>14. CASE EndScan
  <2> DEFINE S == {t \in Wallet \ Coinbases : Depth(t) < 0}
  <2>1. S \subseteq Txs /\ IsFiniteSet(S)
    BY WalletTxAssumption, FS_Subset DEF Wallet
  <2>2. todo' = Tell(SetToSeq(S), Null)
    BY <1>14 DEF EndScan
  <2> HIDE DEF S
  <2>3. SetToSeq(S) \in Seq(Txs)
    <3>1. SetToSeq(S) \in Seq(S)
      BY <2>1, SetToSeqRule
    <3> QED  BY <2>1, <3>1
  <2>4. todo' \in Seq(Notes(tip))
    BY <2>2, <2>3, TellRule
  <2> QED  BY <1>14, <2>4 DEF EndScan
<1>15. CASE ReacceptWalletTransactions
  <2>1. CASE todo = <<>> /\ phase' = "idle" /\ UNCHANGED <<mempool, wallet, todo>>
    BY <1>15, <2>1 DEF ReacceptWalletTransactions
  <2>2. ASSUME NEW i \in DOMAIN todo, todo' = RemoveAt(todo, i), UNCHANGED phase,
               IF Acceptable(todo[i][1])
               THEN mempool' = mempool \cup {todo[i][1]} /\ SyncTransaction(todo[i][1], Null)
               ELSE UNCHANGED <<mempool, wallet>>
        PROVE  Typed' /\ Places'
    <3>1. todo \in Seq(Notes(tip)) /\ phase = "reaccept"
      BY <1>15 DEF ReacceptWalletTransactions
    <3>2. todo[i] \in Notes(tip)
      BY <3>1
    <3>3. todo[i][1] \in Txs
      BY <3>2 DEF Notes
    <3>4. todo' \in Seq(Notes(tip))
      <4>1. SubSeq(todo, 1, i - 1) \in Seq(Notes(tip)) /\ SubSeq(todo, i + 1, Len(todo)) \in Seq(Notes(tip))
        BY <3>1
      <4> QED  BY <2>2, <4>1 DEF RemoveAt
    <3>5. CASE UNCHANGED <<mempool, wallet>>
      BY <1>15, <2>2, <3>1, <3>4, <3>5 DEF ReacceptWalletTransactions
    <3>6. CASE mempool' = mempool \cup {todo[i][1]} /\ SyncTransaction(todo[i][1], Null)
      <4>1. mapWallet' = Added(todo[i][1], Null) /\ avail' = Clean(avail, Dirty(todo[i][1]))
        BY <3>6 DEF SyncTransaction
      <4>2. /\ mapWallet' \in [Txs -> Blocks \cup {Null, Absent}]
            /\ \A x \in Txs : mapWallet'[x] \in Blocks => x \in TxsOf(mapWallet'[x])
        BY <3>3, <4>1, AddedPlaces
      <4>3. avail' = [x \in Txs |-> avail'[x]]
        BY <4>1, CleanRule
      <4> QED  BY <1>15, <2>2, <3>1, <3>3, <3>4, <3>6, <4>2, <4>3 DEF ReacceptWalletTransactions
    <3> QED  BY <2>2, <3>5, <3>6
  <2> QED  BY <1>15, <2>1, <2>2 DEF ReacceptWalletTransactions
<1> QED  BY <1>1, <1>2, <1>3, <1>4, <1>5, <1>6, <1>7, <1>8, <1>9, <1>10, <1>11, <1>12, <1>13,
            <1>14, <1>15 DEF TxNext

-----------------------------------------------------------------------------
(* Cached credits *)

\* A recorded transaction of the chain or of the pool: what it spends is spent.
Live(x) == mapWallet[x] # Absent /\ (mapWallet[x] \in Chain[tip] \/ x \in mempool)

\* A depth of at least 0 is that of a transaction of the chain or of the pool.
LEMMA DepthLive ==
    ASSUME Typed
    PROVE  /\ \A x \in Txs : mapWallet[x] # Absent => (Depth(x) >= 0 <=> Live(x))
           /\ \A o : IsSpent(o) <=> \E x \in Txs : o \in Ins[x] /\ Live(x)
<1>1. ASSUME NEW x \in Txs, mapWallet[x] # Absent PROVE Depth(x) >= 0 <=> Live(x)
  <2>1. CASE mapWallet[x] \in Chain[tip]
    <3>1. /\ Height[mapWallet[x]] \in Nat /\ Height[tip] \in Nat
          /\ Height[mapWallet[x]] <= Height[tip]
      BY <2>1, HeightOn DEF Typed
    <3> QED  BY <1>1, <2>1, <3>1 DEF Depth, Live
  <2>2. CASE mapWallet[x] \notin Chain[tip]
    BY <1>1, <2>2 DEF Depth, Live
  <2> QED  BY <2>1, <2>2
<1>2. ASSUME NEW o PROVE IsSpent(o) <=> \E x \in Txs : o \in Ins[x] /\ Live(x)
  BY <1>1 DEF IsSpent, Live
<1> QED  BY <1>1, <1>2

\* The same after a step.
LEMMA DepthLiveNext ==
    ASSUME Typed'
    PROVE  \A o : IsSpent(o)' <=> \E x \in Txs : o \in Ins[x] /\ Live(x)'
<1>1. ASSUME NEW x \in Txs, mapWallet'[x] # Absent PROVE Depth(x)' >= 0 <=> Live(x)'
  <2>1. CASE mapWallet'[x] \in Chain[tip']
    <3>1. /\ Height[mapWallet'[x]] \in Nat /\ Height[tip'] \in Nat
          /\ Height[mapWallet'[x]] <= Height[tip']
      BY <2>1, HeightOn DEF Typed
    <3> QED  BY <1>1, <2>1, <3>1 DEF Depth, Live
  <2>2. CASE mapWallet'[x] \notin Chain[tip']
    BY <1>1, <2>2 DEF Depth, Live
  <2> QED  BY <2>1, <2>2
<1>2. ASSUME NEW o PROVE IsSpent(o)' <=> \E x \in Txs : o \in Ins[x] /\ Live(x)'
  BY <1>1 DEF IsSpent, Live
<1> QED  BY <1>2

\* The credit of t changes only with the transactions that spend from it.
LEMMA CreditSame ==
    ASSUME Typed, Typed', NEW t \in Txs,
           \A x \in Txs : (\E o \in Ins[x] : Of[o] = t) => (Live(x) <=> Live(x)')
    PROVE  Credit(t)' = Credit(t)
<1>1. ASSUME NEW o \in Outs[t] PROVE IsSpent(o) <=> IsSpent(o)'
  <2>1. Of[o] = t
    BY DEF Outs
  <2> QED  BY <2>1, DepthLive, DepthLiveNext
<1> DEFINE S == {o \in Outs[t] \cap Mine : ~IsSpent(o)}
<1>2. S' = S
  BY <1>1
<1>3. Credit(t) = Worth(S) /\ Credit(t)' = Worth(S')
  BY DEF Credit
<1> HIDE DEF S
<1> QED  BY <1>2, <1>3

\* SyncTransaction makes the wallet forget every credit it changes.
LEMMA SyncCredits ==
    ASSUME Typed, Typed', NEW x \in Txs, NEW b \in Blocks \cup {Null}, SyncTransaction(x, b),
           UNCHANGED tip, mempool' = mempool \/ mempool' = mempool \cup {x}
    PROVE  /\ \A t \in Wallet' : \/ avail'[t] = -1
                                 \/ /\ t \in Wallet /\ avail'[t] = avail[t]
                                    /\ Credit(t)' = Credit(t) /\ ~Dirties(x, t)
           /\ Wallet \subseteq Wallet'
           /\ \A y, t \in Txs : Dirties(y, t) => Dirties(y, t)'
<1>1. mapWallet' = Added(x, b) /\ avail' = Clean(avail, Dirty(x))
  BY DEF SyncTransaction
<1>2. /\ \A y \in Txs \ {x} : mapWallet'[y] = mapWallet[y]
      /\ ~Involved(x) => mapWallet[x] = Absent /\ mapWallet'[x] = Absent
      /\ Involved(x) => mapWallet'[x] # Absent
  BY <1>1, AddedRule
<1>3. ASSUME NEW y \in Txs, mapWallet[y] # Absent PROVE mapWallet'[y] # Absent
  BY <1>2, <1>3
<1>4. ASSUME NEW t \in Wallet', avail'[t] # -1
      PROVE  t \in Wallet /\ avail'[t] = avail[t] /\ Credit(t)' = Credit(t) /\ ~Dirties(x, t)
  <2>1. t \in Txs
    BY DEF Wallet
  <2>2. t \notin Dirty(x) /\ avail'[t] = avail[t]
    BY <1>1, <1>4, <2>1, CleanRule
  <2>3. CASE Involved(x)
    <3>1. t # x /\ ~\E o \in Ins[x] : Of[o] = t
      BY <2>2, <2>3 DEF Dirty
    <3>2. t \in Wallet
      BY <1>2, <2>1, <3>1 DEF Wallet
    <3>3. \A y \in Txs : (\E o \in Ins[y] : Of[o] = t) => (Live(y) <=> Live(y)')
      BY <1>2, <3>1 DEF Live
    <3>4. Credit(t)' = Credit(t)
      BY <2>1, <3>3, CreditSame
    <3> QED  BY <2>2, <3>1, <3>2, <3>4 DEF Dirties
  <2>4. CASE ~Involved(x)
    <3>1. mapWallet[x] = Absent /\ mapWallet'[x] = Absent
      BY <1>2, <2>4
    <3>2. t \in Wallet
      BY <1>2, <2>1, <3>1 DEF Wallet
    <3>3. \A y \in Txs : (\E o \in Ins[y] : Of[o] = t) => (Live(y) <=> Live(y)')
      BY <1>2, <3>1 DEF Live
    <3>4. Credit(t)' = Credit(t)
      BY <2>1, <3>3, CreditSame
    <3> QED  BY <2>2, <3>1, <3>2, <3>4 DEF Dirties
  <2> QED  BY <2>3, <2>4
<1> QED  BY <1>3, <1>4 DEF Wallet, Dirties

\* The same for a step that changes no record and no transaction's life.
LEMMA QuietCredits ==
    ASSUME Typed, Typed', UNCHANGED <<mapWallet, tip, mempool>>
    PROVE  Wallet' = Wallet /\ \A t \in Txs : Credit(t)' = Credit(t)
<1>1. ASSUME NEW t \in Txs PROVE Credit(t)' = Credit(t)
  <2>1. \A x \in Txs : Live(x) <=> Live(x)'
    BY DEF Live
  <2> QED  BY <2>1, CreditSame
<1> QED  BY <1>1 DEF Wallet

\* Cached for one transaction.
Right(t) == (avail[t] >= 0 => avail[t] = Credit(t))

\* A step that tells the wallet of x when nothing else waits to be told.
LEMMA SyncCached ==
    ASSUME Typed, Typed', Cached, NEW x \in Txs, NEW b \in Blocks \cup {Null}, SyncTransaction(x, b),
           UNCHANGED tip, mempool' = mempool \/ mempool' = mempool \cup {x},
           Bereft \subseteq Bereft', phase # "idle" \/ todo = <<>>, phase' # "start"
    PROVE  Cached'
<1> SUFFICES ASSUME NEW t \in Wallet', t \notin Bereft' PROVE Right(t)'
  BY DEF Cached, Right
<1>1. CASE avail'[t] = -1
  BY <1>1 DEF Right
<1>2. CASE t \in Wallet /\ avail'[t] = avail[t] /\ Credit(t)' = Credit(t)
  <2>1. Right(t)
    BY <1>2 DEF Cached, Right
  <2> QED  BY <1>2, <2>1 DEF Right
<1> QED  BY <1>1, <1>2, SyncCredits

\* A step that leaves the credits and what waits to be told alone.
LEMMA QuietCached ==
    ASSUME Typed, Typed', Cached, UNCHANGED <<mapWallet, tip, mempool, avail, dropped>>,
           phase = "idle" => todo = <<>>, phase' # "start"
    PROVE  Cached'
<1>1. Wallet' = Wallet /\ Bereft' = Bereft /\ \A t \in Txs : Credit(t)' = Credit(t)
  BY QuietCredits DEF Bereft, SpentBy
<1> SUFFICES ASSUME NEW t \in Wallet, t \notin Bereft PROVE Right(t)'
  BY <1>1 DEF Cached, Right
<1>2. Right(t) /\ t \in Txs
  BY DEF Cached, Right, Wallet
<1> QED  BY <1>1, <1>2 DEF Right

LEMMA CachedNext ==
    ASSUME Typed, Places, Cached, Typed', TxNext
    PROVE  Cached'
<1> USE DEF node, wallet
<1>0. Null \notin Blocks /\ Absent \notin Blocks /\ Null # Absent /\ Null \in Blocks \cup {Null}
  BY BlocksAssumption DEF Absent
<1>1. CASE getbalance
  <2>1. Wallet' = Wallet /\ Bereft' = Bereft /\ phase # "start" /\ UNCHANGED <<phase, todo, mapWallet>>
        /\ \A t \in Txs : Credit(t)' = Credit(t)
    BY <1>1, QuietCredits DEF getbalance, Bereft, SpentBy
  <2> SUFFICES ASSUME NEW t \in Wallet, t \notin Bereft
               PROVE  \/ Right(t)'
                      \/ phase = "idle" /\ \E i \in DOMAIN todo : Dirties(todo[i][1], t)
    BY <2>1 DEF Cached, Right, Dirties
  <2>2. t \in Txs
        /\ (avail'[t] = avail[t] \/ (avail'[t] = GetAvailableCredit(t) /\ ~BlocksToMaturity(t)))
    BY <1>1 DEF getbalance, Wallet
  <2>3. avail'[t] = avail[t] \/ avail'[t] = Credit(t)
    BY <2>2 DEF GetAvailableCredit
  <2> QED  BY <2>1, <2>2, <2>3 DEF Cached, Right
<1>2. ASSUME NEW t \in (Txs \ Own) \cup Wallet, ReceiveTx(t) PROVE Cached'
  <2>1. t \in Txs /\ Bereft' = Bereft
    BY <1>2 DEF Wallet, ReceiveTx, Bereft, SpentBy
  <2>2. /\ SyncTransaction(t, Null) /\ UNCHANGED tip /\ mempool' = mempool \cup {t}
        /\ todo = <<>> /\ phase' # "start"
    BY <1>2 DEF ReceiveTx, Quiet
  <2> QED  BY <1>0, <2>1, <2>2, SyncCached
<1>3. ASSUME NEW t \in Own, CommitTransaction(t) PROVE Cached'
  <2> SUFFICES ASSUME NEW x \in Wallet', x \notin Bereft', avail'[x] # -1
               PROVE  \/ Right(x)'
                      \/ (phase = "idle" /\ \E i \in DOMAIN todo : Dirties(todo[i][1], x))'
    BY <1>3 DEF Cached, Right, CommitTransaction
  <2>1. t \in Txs /\ x \in Txs /\ Bereft' = Bereft
    BY <1>3, WalletTxAssumption DEF Wallet, CommitTransaction, Bereft, SpentBy
  <2>2. x # t /\ (~\E o \in Ins[t] : Of[o] = x) /\ avail'[x] = avail[x]
    BY <1>3, <2>1, CleanRule DEF CommitTransaction
  <2>3. /\ \A y \in Txs \ {t} : mapWallet'[y] = mapWallet[y] /\ (y \in mempool' <=> y \in mempool)
        /\ mapWallet'[t] # Absent /\ UNCHANGED <<tip, phase, todo>>
    BY <1>0, <1>3, <2>1 DEF CommitTransaction, Typed
  <2>4. x \in Wallet
    BY <2>1, <2>2, <2>3 DEF Wallet
  <2>5. \A y \in Txs : (\E o \in Ins[y] : Of[o] = x) => (Live(y) <=> Live(y)')
    BY <2>2, <2>3 DEF Live
  <2>6. Credit(x)' = Credit(x)
    BY <2>1, <2>5, CreditSame
  <2>7. CASE Right(x)
    BY <2>2, <2>6, <2>7 DEF Right
  <2>8. CASE phase = "idle" /\ \E i \in DOMAIN todo : Dirties(todo[i][1], x)
    <3>1. PICK i \in DOMAIN todo : Dirties(todo[i][1], x)
      BY <2>8
    <3>2. todo[i][1] \in Txs
      BY <3>1 DEF Typed, Notes
    <3>3. mapWallet'[todo[i][1]] # Absent /\ (x = todo[i][1] \/ \E o \in Ins[todo[i][1]] : Of[o] = x)
      BY <2>3, <3>1, <3>2 DEF Dirties
    <3> QED  BY <2>3, <2>8, <3>1, <3>3 DEF Dirties
  <2> QED  BY <2>1, <2>4, <2>7, <2>8 DEF Cached, Right
<1>4. ASSUME NEW b \in Blocks \ {Root}, ConnectBlock(b) PROVE Cached'
  BY <1>4, QuietCached DEF ConnectBlock, Quiet
<1>5. CASE FlushConnected
  BY <1>5, QuietCached DEF FlushConnected, Flush
<1>6. CASE ConnectTip
  <2>1. /\ phase = "connected" /\ phase' = "idle" /\ tip' = coins /\ UNCHANGED <<mapWallet, avail, dropped>>
        /\ mempool' = mempool \ Removed(coins)
        /\ todo' = Tell(SetToSeq(Conflicted(coins)), Null) \o Tell(Vtx[coins], coins)
    BY <1>6 DEF ConnectTip, UpdateTip
  <2>2. coins \in Blocks /\ coins # Root /\ Prev[coins] = tip /\ Chain[coins] = Chain[tip] \cup {coins}
    BY <2>1, ChainRule DEF Typed, Places
  <2>3. /\ IsFiniteSet(Conflicted(coins)) /\ Conflicted(coins) \subseteq Txs
    BY WalletTxAssumption, FS_Subset DEF Conflicted, Typed
  <2>4. ASSUME NEW x \in Removed(coins) PROVE \E i \in DOMAIN todo' : todo'[i][1] = x
    <3> DEFINE s == SetToSeq(Conflicted(coins))  u == Tell(s, Null)  v == Tell(Vtx[coins], coins)
    <3>1. s \in Seq(Conflicted(coins)) /\ \A y \in Conflicted(coins) : \E i \in 1..Len(s) : s[i] = y
      BY <2>3, SetToSeqRule
    <3> HIDE DEF s
    <3>2. s \in Seq(Txs) /\ Vtx[coins] \in Seq(Txs)
      BY <2>2, <2>3, <3>1, VtxRule
    <3>3. /\ u \in Seq(Notes(coins)) /\ Len(u) = Len(s) /\ \A i \in 1..Len(s) : u[i] = <<s[i], Null>>
          /\ Len(v) = Len(Vtx[coins]) /\ \A i \in 1..Len(v) : v[i] = <<Vtx[coins][i], coins>>
      BY <2>2, <3>2, TellRule
    <3>4. v \in Seq(Notes(coins))
      BY <2>2, <3>2, VtxRule, TellRule, ChainRule
    <3> HIDE DEF u, v
    <3>5. /\ Len(todo') = Len(u) + Len(v) /\ DOMAIN todo' = 1..(Len(u) + Len(v))
          /\ \A i \in 1..Len(u) : todo'[i] = u[i]
          /\ \A i \in 1..Len(v) : todo'[Len(u) + i] = v[i]
      <4>1. todo' = u \o v
        BY <2>1 DEF s, u, v
      <4>0. u \in Seq(Notes(coins)) /\ v \in Seq(Notes(coins))
        BY <3>3, <3>4
      <4>2. /\ u \o v \in Seq(Notes(coins)) /\ Len(u \o v) = Len(u) + Len(v)
            /\ Len(u) \in Nat /\ Len(v) \in Nat
            /\ \A i \in 1..(Len(u) + Len(v)) : (u \o v)[i] = IF i <= Len(u) THEN u[i] ELSE v[i - Len(u)]
        BY <4>0, ConcatProperties, LenProperties
      <4>3. ASSUME NEW i \in 1..Len(u) PROVE (u \o v)[i] = u[i]
        BY <4>2
      <4>4. ASSUME NEW i \in 1..Len(v) PROVE (u \o v)[Len(u) + i] = v[i]
        <5>1. Len(u) + i \in 1..(Len(u) + Len(v)) /\ ~(Len(u) + i <= Len(u)) /\ (Len(u) + i) - Len(u) = i
          BY <4>2
        <5> QED  BY <4>2, <5>1
      <4>5. DOMAIN (u \o v) = 1..(Len(u) + Len(v))
        BY <4>2
      <4> QED  BY <4>1, <4>2, <4>3, <4>4, <4>5
    <3>6. CASE x \in Conflicted(coins)
      <4>1. PICK i \in 1..Len(s) : s[i] = x
        BY <3>1, <3>6
      <4>2. i \in DOMAIN todo' /\ todo'[i][1] = x
        BY <3>3, <3>4, <3>5, <4>1
      <4> QED  BY <4>2
    <3>7. CASE x \in TxsOf(coins)
      <4>1. PICK i \in 1..Len(Vtx[coins]) : Vtx[coins][i] = x
        BY <2>2, <3>2, <3>7, VtxRule
      <4>2. Len(u) + i \in DOMAIN todo' /\ todo'[Len(u) + i][1] = x
        BY <3>2, <3>3, <3>4, <3>5, <4>1
      <4> QED  BY <4>2
    <3> QED  BY <3>6, <3>7 DEF Removed
  <2> SUFFICES ASSUME NEW t \in Wallet, t \notin Bereft, ~Right(t)'
               PROVE  \E i \in DOMAIN todo' : Dirties(todo'[i][1], t)
    BY <2>1 DEF Cached, Right, Wallet, Bereft, SpentBy, Dirties
  <2>5. t \in Txs /\ Right(t) /\ avail' = avail
    BY <2>1 DEF Cached, Right, Wallet
  <2>6. PICK x \in Txs : (\E o \in Ins[x] : Of[o] = t) /\ ~(Live(x) <=> Live(x)')
    <3>1. Credit(t)' # Credit(t)
      BY <2>5 DEF Right
    <3> QED  BY <2>5, <3>1, CreditSame
  <2>7. x \in Removed(coins) /\ mapWallet[x] # Absent
    <3>1. CASE mapWallet[x] = coins
      BY <1>0, <2>2, <3>1 DEF Places, Removed
    <3>2. CASE mapWallet[x] # coins
      BY <2>1, <2>2, <2>6, <3>2 DEF Live
    <3> QED  BY <3>1, <3>2
  <2>8. PICK i \in DOMAIN todo' : todo'[i][1] = x
    BY <2>4, <2>7
  <2>9. Dirties(x, t)
    BY <2>6, <2>7 DEF Dirties
  <2> QED  BY <2>8, <2>9
<1>7. CASE DisconnectBlock
  BY <1>7, QuietCached DEF DisconnectBlock, Quiet
<1>8. CASE FlushDisconnected
  BY <1>8, QuietCached DEF FlushDisconnected, Flush
<1>9. CASE Resurrect
  <2>1. /\ todo[1][1] \in Txs /\ phase = "resurrect" /\ UNCHANGED <<phase, tip>>
        /\ dropped \subseteq dropped' /\ mempool \ mempool' \subseteq dropped'
    BY <1>9, TodoRule DEF Resurrect, Typed, Scope
  <2>2. Bereft \subseteq Bereft'
    BY <2>1 DEF Bereft, SpentBy
  <2>3. CASE mempool' = mempool \cup {todo[1][1]} /\ SyncTransaction(todo[1][1], Null)
    BY <1>0, <2>1, <2>2, <2>3, SyncCached
  <2>4. CASE UNCHANGED wallet /\ mempool' \subseteq mempool
    <3> SUFFICES ASSUME NEW t \in Wallet, t \notin Bereft', ~Right(t)' PROVE FALSE
      BY <2>1, <2>4 DEF Cached, Right, Wallet
    <3>1. t \in Txs /\ Right(t) /\ avail' = avail
      BY <2>1, <2>2, <2>4 DEF Cached, Right, Wallet
    <3>2. PICK x \in Txs : (\E o \in Ins[x] : Of[o] = t) /\ ~(Live(x) <=> Live(x)')
      <4>1. Credit(t)' # Credit(t)
        BY <3>1 DEF Right
      <4> QED  BY <3>1, <4>1, CreditSame
    <3>3. x \in mempool \ mempool'
      BY <2>1, <2>4, <3>2 DEF Live
    <3>4. t \in Bereft'
      BY <2>1, <3>2, <3>3 DEF Bereft, SpentBy
    <3> QED  BY <3>4
  <2> QED  BY <1>9, <2>3, <2>4 DEF Resurrect
<1>10. CASE DisconnectTip
  <2>1. /\ phase = "resurrect" /\ phase' = "idle" /\ tip' = coins /\ UNCHANGED <<mapWallet, avail, dropped, mempool>>
        /\ todo' = Tell(Vtx[tip], Null)
    BY <1>10 DEF DisconnectTip, UpdateTip
  <2>2. tip \in Blocks /\ tip # Root /\ Prev[tip] = coins /\ Chain[tip] = Chain[coins] \cup {tip}
    BY <2>1, ChainRule DEF Typed, Places
  <2>3. ASSUME NEW x \in TxsOf(tip) PROVE \E i \in DOMAIN todo' : todo'[i][1] = x
    <3>1. PICK i \in 1..Len(Vtx[tip]) : Vtx[tip][i] = x
      BY <2>2, VtxRule
    <3>2. Vtx[tip] \in Seq(Txs)
      BY <2>2, VtxRule
    <3>3. i \in DOMAIN todo' /\ todo'[i] = <<x, Null>>
      BY <2>1, <3>1, <3>2, TellRule
    <3> QED  BY <3>3
  <2> SUFFICES ASSUME NEW t \in Wallet, t \notin Bereft, ~Right(t)'
               PROVE  \E i \in DOMAIN todo' : Dirties(todo'[i][1], t)
    BY <2>1 DEF Cached, Right, Wallet, Bereft, SpentBy, Dirties
  <2>5. t \in Txs /\ Right(t) /\ avail' = avail
    BY <2>1 DEF Cached, Right, Wallet
  <2>6. PICK x \in Txs : (\E o \in Ins[x] : Of[o] = t) /\ ~(Live(x) <=> Live(x)')
    <3>1. Credit(t)' # Credit(t)
      BY <2>5 DEF Right
    <3> QED  BY <2>5, <3>1, CreditSame
  <2>7. x \in TxsOf(tip) /\ mapWallet[x] # Absent
    <3>1. CASE mapWallet[x] = tip
      BY <1>0, <2>2, <3>1 DEF Places
    <3>2. CASE mapWallet[x] # tip
      BY <2>1, <2>2, <2>6, <3>2 DEF Live
    <3> QED  BY <3>1, <3>2
  <2>8. PICK i \in DOMAIN todo' : todo'[i][1] = x
    BY <2>3, <2>7
  <2>9. Dirties(x, t)
    BY <2>6, <2>7 DEF Dirties
  <2> QED  BY <2>8, <2>9
<1>11. CASE SyncWithWallets
  <2> DEFINE x == todo[1][1]  b == todo[1][2]
  <2>1. /\ x \in Txs /\ b \in Blocks \cup {Null} /\ Len(todo) \in Nat /\ Len(todo) # 0
        /\ Len(Tail(todo)) = Len(todo) - 1 /\ Tail(todo) \in Seq(Notes(Scope))
        /\ \A i \in 1..(Len(todo) - 1) : Tail(todo)[i] = todo[i + 1]
    BY <1>11, TodoRule DEF SyncWithWallets, Typed, Scope
  <2>2. /\ SyncTransaction(x, b) /\ UNCHANGED <<tip, mempool, phase, dropped>> /\ todo' = Tail(todo)
        /\ phase # "start"
    BY <1>11 DEF SyncWithWallets
  <2> HIDE DEF x, b
  <2>3. Bereft' = Bereft
    BY <2>2 DEF Bereft, SpentBy
  <2> SUFFICES ASSUME NEW t \in Wallet', t \notin Bereft, ~Right(t)'
               PROVE  phase = "idle" /\ \E i \in DOMAIN todo' :
                        LET y == todo'[i][1]
                        IN  mapWallet'[y] # Absent /\ (t = y \/ \E o \in Ins[y] : Of[o] = t)
    BY <2>2, <2>3 DEF Cached, Right, Dirties
  <2>4. /\ t \in Wallet /\ avail'[t] = avail[t] /\ Credit(t)' = Credit(t) /\ ~Dirties(x, t)
        /\ \A y, z \in Txs : Dirties(y, z) => Dirties(y, z)'
    <3>1. avail'[t] # -1
      BY DEF Right
    <3> QED  BY <2>1, <2>2, <3>1, SyncCredits
  <2>5. ~Right(t) /\ t \in Txs
    BY <2>4 DEF Right, Wallet
  <2>6. phase = "idle" /\ \E i \in DOMAIN todo : Dirties(todo[i][1], t)
    BY <2>4, <2>5 DEF Cached, Right
  <2>7. PICK i \in 1..Len(todo) : Dirties(todo[i][1], t)
    BY <2>6 DEF Typed
  <2>8. i # 1 /\ i - 1 \in DOMAIN Tail(todo) /\ Tail(todo)[i - 1] = todo[i]
    BY <2>1, <2>4, <2>7 DEF x
  <2>9. todo[i][1] \in Txs
    <3>1. todo[i] \in Notes(Scope)
      BY <2>7 DEF Typed
    <3> QED  BY <3>1 DEF Notes
  <2>10. /\ mapWallet'[todo[i][1]] # Absent
         /\ t = todo[i][1] \/ \E o \in Ins[todo[i][1]] : Of[o] = t
    BY <2>4, <2>5, <2>7, <2>9 DEF Dirties
  <2> QED  BY <2>2, <2>6, <2>8, <2>10
<1>12. CASE Die
  BY <1>12 DEF Die, Cached, Wallet
<1>13. CASE ScanForWalletTransactions
  BY <1>13 DEF ScanForWalletTransactions, Cached, Wallet
<1>14. CASE EndScan
  BY <1>14, QuietCached DEF EndScan
<1>15. CASE ReacceptWalletTransactions
  <2>1. CASE todo = <<>> /\ phase' = "idle" /\ UNCHANGED <<mempool, wallet, todo>>
    BY <1>15, <2>1, QuietCached DEF ReacceptWalletTransactions
  <2>2. ASSUME NEW i \in DOMAIN todo, UNCHANGED phase,
               IF Acceptable(todo[i][1])
               THEN mempool' = mempool \cup {todo[i][1]} /\ SyncTransaction(todo[i][1], Null)
               ELSE UNCHANGED <<mempool, wallet>>
        PROVE  Cached'
    <3>1. phase = "reaccept" /\ UNCHANGED <<tip, dropped>> /\ Bereft' = Bereft
      BY <1>15 DEF ReacceptWalletTransactions, Bereft, SpentBy
    <3>2. todo[i][1] \in Txs
      <4>1. todo[i] \in Notes(Scope)
        BY DEF Typed
      <4> QED  BY <4>1 DEF Notes
    <3>3. CASE UNCHANGED <<mempool, wallet>>
      BY <2>2, <3>1, <3>3, QuietCached
    <3>4. CASE mempool' = mempool \cup {todo[i][1]} /\ SyncTransaction(todo[i][1], Null)
      BY <1>0, <2>2, <3>1, <3>2, <3>4, SyncCached
    <3> QED  BY <2>2, <3>3, <3>4
  <2> QED  BY <1>15, <2>1, <2>2 DEF ReacceptWalletTransactions
<1> QED  BY <1>1, <1>2, <1>3, <1>4, <1>5, <1>6, <1>7, <1>8, <1>9, <1>10, <1>11, <1>12, <1>13,
            <1>14, <1>15 DEF TxNext

-----------------------------------------------------------------------------
(* Transactions of the chain and of the pool *)

LEMMA OnceBelow ==
    ASSUME NEW b \in Blocks, Once(b), NEW c \in Chain[b]
    PROVE  Once(c)
BY ChainRule DEF Once

LEMMA SeenBelow ==
    ASSUME NEW b \in Blocks, SeenAt(b), NEW c \in Chain[b]
    PROVE  SeenAt(c)
BY ChainRule DEF SeenAt

\* A block that can be connected holds nothing that is on the chain.
LEMMA OnceAbove ==
    ASSUME NEW b \in Blocks \ {Root}, Connectable(b), coins \in Blocks, Once(coins)
    PROVE  Once(b)
<1>1. Prev[b] = coins /\ Chain[b] = Chain[coins] \cup {b} /\ b \in Chain[b]
  BY ChainRule DEF Connectable
<1>2. ASSUME NEW d \in Chain[coins], NEW t \in TxsOf(b) \cap TxsOf(d) PROVE b = d
  <2>1. t \in Txs /\ t \in ChainTxs[coins]
    BY <1>2, VtxRule DEF ChainTxs
  <2>2. CASE t \in Coinbases
    <3>1. d \in Chain[b] /\ t \in ToSet(Vtx[b]) \cap ToSet(Vtx[d])
      BY <1>1, <1>2 DEF TxsOf
    <3> QED  BY <1>1, <2>2, <3>1, BlocksAssumption
  <2>3. CASE t \notin Coinbases
    <3>1. PICK o \in Ins[t] : TRUE
      BY <2>1, <2>3, WalletTxAssumption
    <3>2. PICK i \in DOMAIN Vtx[b] : Vtx[b][i] = t
      BY <1>2, VtxRule
    <3> DEFINE before == ChainTxs[coins] \cup {Vtx[b][j] : j \in 1..(i - 1)}
    <3>3. Ins[t] \cap SpentBy(before) = {}
      BY <3>2 DEF Connectable
    <3>4. o \in SpentBy(before)
      BY <2>1, <3>1 DEF SpentBy
    <3> QED  BY <3>1, <3>3, <3>4
  <2> QED  BY <2>2, <2>3
<1> SUFFICES ASSUME NEW c \in Chain[b], NEW d \in Chain[b], NEW t \in TxsOf(c) \cap TxsOf(d)
             PROVE  c = d
  BY DEF Once
<1>3. CASE c \in Chain[coins] /\ d \in Chain[coins]
  BY <1>3 DEF Once
<1>4. CASE c = b /\ d \in Chain[coins]
  BY <1>2, <1>4
<1>5. CASE d = b /\ c \in Chain[coins]
  BY <1>2, <1>5
<1> QED  BY <1>1, <1>3, <1>4, <1>5

\* What the chain holds of ours is in the wallet.
LEMMA SeenWallet ==
    ASSUME NEW b \in Blocks, SeenAt(b), NEW t \in ChainTxs[b], Ours(t)
    PROVE  t \in Wallet
<1>1. PICK c \in Chain[b] : t \in TxsOf(c)
  BY DEF ChainTxs
<1>2. c \in Blocks /\ c # Absent /\ mapWallet[t] = c /\ t \in Txs
  BY <1>1, ChainRule, VtxRule, BlocksAssumption DEF SeenAt, Absent
<1> QED  BY <1>2 DEF Wallet

\* Whoever spends what is ours involves us once what it spends is in the wallet.
LEMMA OursInvolved ==
    ASSUME NEW x \in Txs, Ours(x), \A o \in Ins[x] \cap Mine : Of[o] \in Wallet
    PROVE  Involved(x)
<1>1. CASE \E o \in Mine : Of[o] = x
  BY <1>1, WalletTxAssumption DEF Involved, Outs
<1>2. CASE \E o \in Ins[x] \cap Mine : Value[o] > 0
  BY <1>2 DEF Involved, IsFromMe, Wallet
<1> QED  BY <1>1, <1>2 DEF Ours

LEMMA InvolvedOurs ==
    ASSUME NEW x \in Txs, Involved(x), x \notin Wallet
    PROVE  Ours(x)
<1>1. CASE Outs[x] \cap Mine # {}
  BY <1>1 DEF Outs, Ours
<1>2. CASE IsFromMe(x)
  BY <1>2 DEF IsFromMe, Ours
<1> QED  BY <1>1, <1>2 DEF Involved, Wallet

\* Telling the wallet of x keeps what it knows of the chain of b, as long as x is
\* told with its block of a chain that goes on from there.
LEMMA AddedSeen ==
    ASSUME Typed, NEW x \in Txs, NEW c \in Blocks \cup {Null}, mapWallet' = Added(x, c),
           \A t \in Wallet : Ours(t)
    PROVE  /\ \A t \in Wallet' : Ours(t)
           /\ Wallet \subseteq Wallet'
           /\ \A b, e \in Blocks : /\ SeenAt(b) /\ b \in Chain[e] /\ Once(e)
                                   /\ c # Null => c \in Chain[e] /\ x \in TxsOf(c)
                                   => SeenAt(b)'
<1>1. /\ \A y \in Txs \ {x} : mapWallet'[y] = mapWallet[y]
      /\ ~Involved(x) => mapWallet[x] = Absent /\ mapWallet'[x] = Absent
      /\ Involved(x) => /\ mapWallet'[x] # Absent
                        /\ c # Null => mapWallet'[x] = c
                        /\ c = Null => mapWallet'[x] = IF mapWallet[x] = Absent THEN Null
                                                       ELSE mapWallet[x]
  BY AddedRule
<1>2. ASSUME NEW t \in Wallet' PROVE Ours(t)
  <2>1. t \in Txs /\ mapWallet'[t] # Absent
    BY DEF Wallet
  <2>2. CASE t \in Wallet
    BY <2>2
  <2>3. CASE t \notin Wallet
    <3>1. t = x /\ Involved(x)
      BY <1>1, <2>1, <2>3 DEF Wallet
    <3> QED  BY <2>3, <3>1, InvolvedOurs
  <2> QED  BY <2>2, <2>3
<1>3. Wallet \subseteq Wallet'
  BY <1>1 DEF Wallet
<1>4. ASSUME NEW b \in Blocks, NEW e \in Blocks, SeenAt(b), b \in Chain[e], Once(e),
             c # Null => c \in Chain[e] /\ x \in TxsOf(c)
      PROVE  SeenAt(b)'
  <2> SUFFICES ASSUME NEW d \in Chain[b], NEW t \in TxsOf(d), Ours(t) PROVE mapWallet'[t] = d
    BY DEF SeenAt
  <2>1. d \in Blocks /\ d # Absent /\ t \in Txs /\ mapWallet[t] = d /\ d \in Chain[e]
    BY <1>4, ChainRule, VtxRule, BlocksAssumption DEF SeenAt, Absent
  <2>2. CASE t # x
    BY <1>1, <2>1, <2>2
  <2>3. CASE t = x /\ c = Null
    BY <1>1, <2>1, <2>3
  <2>4. CASE t = x /\ c # Null
    <3>1. mapWallet'[x] = c
      BY <1>1, <2>1, <2>4
    <3>2. x \in TxsOf(c) \cap TxsOf(d) /\ c \in Chain[e]
      BY <1>4, <2>4
    <3>3. c = d
      BY <1>4, <2>1, <3>2 DEF Once
    <3> QED  BY <2>4, <3>1, <3>3
  <2> QED  BY <2>2, <2>3, <2>4
<1> QED  BY <1>2, <1>3, <1>4

\* What the pool accepts and is ours involves us.
LEMMA AcceptedInvolved ==
    ASSUME Typed, NEW x \in Txs, Acceptable(x), Ours(x),
           pcoinsTip \in Blocks, SeenAt(pcoinsTip),
           \A t \in mempool : Ours(t) => t \in Wallet
    PROVE  Involved(x)
<1>1. ASSUME NEW o \in Ins[x] \cap Mine PROVE Of[o] \in Wallet
  <2>1. Ours(Of[o])
    BY DEF Ours
  <2>2. Of[o] \in mempool \/ Of[o] \in ChainTxs[pcoinsTip]
    BY DEF Acceptable
  <2> QED  BY <2>1, <2>2, SeenWallet
<1> QED  BY <1>1, OursInvolved

\* The pool accepts what the wallet makes from coins it takes for unspent.
LEMMA CommitGood ==
    ASSUME Typed, Places, Known, pcoinsTip = tip, undo # "lost",
           NEW t \in Own, t \notin Wallet, Ins[t] \subseteq AvailableCoins
    PROVE  Acceptable(t) /\ Ours(t)
<1>1. t \in Txs /\ t \notin Coinbases /\ t \notin NonStandard /\ Ins[t] # {}
  BY WalletTxAssumption
<1>2. /\ pcoinsTip = tip /\ tip \in Blocks /\ SeenAt(tip) /\ Once(tip)
      /\ \A x \in mempool : Ours(x) => x \in Wallet
  BY DEF Typed, Known
<1>3. ASSUME NEW o \in Ins[t]
      PROVE  /\ o \in Mine /\ Value[o] > 0 /\ ~IsSpent(o)
             /\ Of[o] \in Txs /\ mapWallet[Of[o]] # Absent /\ IsTrusted(Of[o]) /\ ~BlocksToMaturity(Of[o])
  BY DEF AvailableCoins, Wallet
<1>4. Ours(t)
  BY <1>1, <1>3 DEF Ours
<1>5. t \notin mempool /\ t \notin ChainTxs[pcoinsTip]
  BY <1>2, <1>4, SeenWallet
<1>6. ASSUME NEW o \in Ins[t], NEW x \in mempool \cup ChainTxs[pcoinsTip], o \in Ins[x] PROVE FALSE
  <2>1. Ours(x)
    BY <1>3, <1>6 DEF Ours
  <2>2. x \in Wallet
    BY <1>2, <2>1, SeenWallet
  <2>3. x \in Txs /\ mapWallet[x] # Absent
    BY <2>2 DEF Wallet
  <2>4. Live(x)
    <3>1. CASE x \in mempool
      BY <2>3, <3>1 DEF Live
    <3>2. CASE x \in ChainTxs[pcoinsTip]
      <4>1. PICK c \in Chain[tip] : x \in TxsOf(c)
        BY <1>2, <3>2 DEF ChainTxs
      <4>2. mapWallet[x] = c
        BY <1>2, <2>1, <4>1 DEF SeenAt
      <4> QED  BY <2>3, <4>1, <4>2 DEF Live
    <3> QED  BY <3>1, <3>2
  <2>5. IsSpent(o)
    BY <1>6, <2>3, <2>4, DepthLive
  <2> QED  BY <1>3, <2>5
<1>7. ASSUME NEW o \in Ins[t], Of[o] \notin mempool
      PROVE  Of[o] \in ChainTxs[pcoinsTip] /\ Mature(Of[o], pcoinsTip)
  <2> DEFINE x == Of[o]
  <2>1. x \in Txs /\ mapWallet[x] # Absent /\ Depth(x) >= 0 /\ ~BlocksToMaturity(x)
    <3>1. x \in Txs /\ mapWallet[x] # Absent /\ IsTrusted(x) /\ ~BlocksToMaturity(x)
      BY <1>3
    <3>2. CASE mapWallet[x] \in Chain[tip]
      <4>1. Live(x)
        BY <3>1, <3>2 DEF Live
      <4> QED  BY <3>1, <4>1, DepthLive
    <3>3. CASE mapWallet[x] \notin Chain[tip]
      <4>1. Depth(x) \in {0, -1}
        BY <3>3 DEF Depth
      <4> QED  BY <3>1, <4>1 DEF IsTrusted
    <3> QED  BY <3>1, <3>2, <3>3
  <2> HIDE DEF x
  <2>2. x \notin mempool
    BY <1>7 DEF x
  <2>3. mapWallet[x] \in Chain[tip] /\ Depth(x) = Height[tip] - Height[mapWallet[x]] + 1
    BY <2>1, <2>2, DepthLive DEF Live, Depth
  <2>4. mapWallet[x] \in Blocks /\ x \in TxsOf(mapWallet[x])
    BY <1>2, <2>1, <2>3, ChainRule DEF Places
  <2>5. x \in ChainTxs[pcoinsTip]
    BY <1>2, <2>3, <2>4 DEF ChainTxs
  <2>6. BlockOf(x, pcoinsTip) = mapWallet[x]
    <3>1. BlockOf(x, pcoinsTip) \in Chain[pcoinsTip] /\ x \in TxsOf(BlockOf(x, pcoinsTip))
      BY <1>2, <2>3, <2>4 DEF BlockOf
    <3> QED  BY <1>2, <2>3, <2>4, <3>1 DEF Once
  <2>7. Mature(x, pcoinsTip)
    <3>1. Height[mapWallet[x]] \in Nat /\ Height[tip] \in Nat /\ COINBASE_MATURITY \in Nat
      BY <1>2, <2>3, HeightOn, WalletTxAssumption
    <3>2. x \in Coinbases => Depth(x) >= COINBASE_MATURITY + 1
      BY <2>1, <2>3, <3>1 DEF BlocksToMaturity
    <3> QED  BY <1>2, <2>3, <2>6, <3>1, <3>2 DEF Mature
  <2> QED  BY <2>5, <2>7 DEF x
<1>8. Ins[t] \cap SpentBy(mempool \cup ChainTxs[pcoinsTip]) = {}
  BY <1>6 DEF SpentBy
<1>9. Acceptable(t)
  BY <1>1, <1>5, <1>7, <1>8 DEF Acceptable
<1> QED  BY <1>4, <1>9

\* A step that tells the wallet of x, which the pool accepts.
LEMMA AcceptedKnown ==
    ASSUME Typed, Places, Known, NEW x \in Txs, Acceptable(x), SyncTransaction(x, Null),
           mempool' = mempool \cup {x}, UNCHANGED <<tip, coins, diskTip, phase, undo, refused>>,
           phase \in {"idle", "resurrect", "reaccept"}
    PROVE  Known'
<1>1. mapWallet' = Added(x, Null) /\ Null \in Blocks \cup {Null}
  BY DEF SyncTransaction
<1>2. /\ \A t \in Wallet' : Ours(t)
      /\ Wallet \subseteq Wallet'
      /\ \A b, e \in Blocks : SeenAt(b) /\ b \in Chain[e] /\ Once(e) => SeenAt(b)'
  BY <1>1, AddedSeen DEF Known
<1>3. tip \in Blocks /\ tip \in Chain[tip] /\ coins \in Chain[tip]
  BY ChainRule DEF Typed, Places
<1>4. ASSUME undo # "lost" PROVE SeenAt(tip)' /\ \A t \in mempool' : Ours(t) => t \in Wallet'
  <2>1. SeenAt(tip) /\ Once(tip) /\ \A t \in mempool : Ours(t) => t \in Wallet
    BY <1>4 DEF Known
  <2>2. pcoinsTip = coins /\ coins \in Blocks /\ SeenAt(coins)
    BY <1>3, <2>1, SeenBelow DEF pcoinsTip, Typed
  <2>3. Ours(x) => x \in Wallet'
    <3>1. Ours(x) => Involved(x)
      BY <2>1, <2>2, AcceptedInvolved
    <3>2. Involved(x) => mapWallet'[x] # Absent
      BY <1>1, AddedRule
    <3> QED  BY <3>1, <3>2 DEF Wallet
  <2>4. \A c \in Chain[tip] : \A t \in TxsOf(c) : Ours(t) => mapWallet'[t] = c
    BY <1>2, <1>3, <2>1 DEF SeenAt
  <2> QED  BY <1>2, <2>1, <2>3, <2>4 DEF SeenAt
<1> QED  BY <1>2, <1>4 DEF Known

LEMMA KnownNext ==
    ASSUME Typed, Places, Known, TxNext
    PROVE  Known'
<1> USE DEF node, wallet
<1>0. /\ Null \notin Blocks /\ Absent \notin Blocks /\ Null # Absent /\ Null \in Blocks \cup {Null}
      /\ tip \in Blocks /\ coins \in Blocks /\ diskTip \in Blocks
      /\ \A b \in Blocks : b \in Chain[b] /\ \A c \in Chain[b] : c \in Blocks
  BY ChainRule, BlocksAssumption DEF Absent, Typed
<1>1. CASE getbalance
  <2>1. UNCHANGED <<tip, coins, diskTip, mempool, mapWallet, phase, todo, undo, refused>>
    BY <1>1 DEF getbalance
  <2> QED  BY <2>1 DEF Known, Wallet, SeenAt, Telling
<1>2. ASSUME NEW t \in (Txs \ Own) \cup Wallet, ReceiveTx(t) PROVE Known'
  <2>1. t \in Txs
    BY <1>2 DEF Wallet
  <2> QED  BY <1>2, <2>1, AcceptedKnown DEF ReceiveTx, Quiet
<1>3. ASSUME NEW t \in Own, CommitTransaction(t) PROVE Known'
  <2>1. /\ t \notin Wallet /\ t \in Txs /\ UNCHANGED <<tip, coins, diskTip, phase, todo, undo>>
        /\ mapWallet' = [mapWallet EXCEPT ![t] = Null] /\ mempool' \subseteq mempool \cup {t}
    BY <1>3, WalletTxAssumption DEF CommitTransaction
  <2>2. Ours(t)
    BY <1>3, WalletTxAssumption DEF CommitTransaction, AvailableCoins, Ours
  <2>3. Wallet' = Wallet \cup {t}
    BY <1>0, <2>1 DEF Wallet, Typed
  <2>4. ASSUME NEW x \in Txs, NEW c \in Blocks, mapWallet[x] = c PROVE mapWallet'[x] = c
    BY <1>0, <2>1, <2>4 DEF Wallet, Typed
  <2>5. ASSUME NEW b \in Blocks, SeenAt(b)
        PROVE  \A c \in Chain[b] : \A x \in TxsOf(c) : Ours(x) => mapWallet'[x] = c
    BY <1>0, <2>4, <2>5, VtxRule DEF SeenAt
  <2>6. Telling => Telling'
    <3>1. \A j \in 1..Len(Vtx[coins]) : Vtx[coins][j] \in Txs
      BY <1>0, VtxRule
    <3> SUFFICES ASSUME Telling PROVE Telling'
      OBVIOUS
    <3> DEFINE n == Len(Vtx[coins]) - Len(todo)
    <3>2. n \in Nat /\ \A j \in 1..n : j \in 1..Len(Vtx[coins])
      BY <1>0, VtxRule DEF Telling, Typed
    <3>3. \A j \in 1..n : Ours(Vtx[coins][j]) => mapWallet'[Vtx[coins][j]] = coins
      BY <1>0, <2>4, <3>1, <3>2 DEF Telling
    <3>4. UNCHANGED <<tip, coins, todo>>
      BY <2>1
    <3> QED  BY <3>2, <3>3, <3>4 DEF Telling
  <2>7. ASSUME undo # "lost" PROVE \A x \in mempool' : Ours(x) => x \in Wallet'
    BY <2>1, <2>3, <2>7 DEF Known
  <2> QED  BY <1>0, <2>1, <2>2, <2>3, <2>5, <2>6, <2>7 DEF Known, SeenAt
<1>4. ASSUME NEW b \in Blocks \ {Root}, ConnectBlock(b) PROVE Known'
  <2>1. /\ Quiet /\ tip = coins /\ Connectable(b) /\ phase' = "connect" /\ coins' = b
        /\ todo' = Tell(Vtx[b], b) /\ UNCHANGED <<tip, mempool, diskTip, mapWallet, undo, refused>>
    BY <1>4 DEF ConnectBlock, Watch
  <2>2. Once(b)
    BY <1>0, <2>1, OnceAbove DEF Known
  <2>3. Chain[b] = Chain[tip] \cup {b}
    BY <2>1, ChainRule DEF Connectable
  <2>4. Telling'
    <3>1. Vtx[b] \in Seq(Txs)
      BY VtxRule
    <3>2. /\ Len(todo') = Len(Vtx[b]) /\ Len(Vtx[b]) \in Nat /\ DOMAIN Vtx[b] = 1..Len(Vtx[b])
          /\ \A i \in 1..Len(Vtx[b]) : todo'[i] = <<Vtx[b][i], b>>
      BY <2>1, <3>1, TellRule
    <3>3. ASSUME NEW i \in 1..Len(Vtx[b]), NEW o \in Ins[Vtx[b][i]]
          PROVE  Of[o] \in ChainTxs[tip] \/ \E j \in 1..(i - 1) : Vtx[b][j] = Of[o]
      BY <2>1, <3>2 DEF Connectable
    <3>4. Len(Vtx[b]) - Len(todo') = 0
      BY <3>2
    <3> QED  BY <2>1, <3>2, <3>3, <3>4 DEF Telling
  <2> QED  BY <2>1, <2>2, <2>3, <2>4 DEF Known, Wallet, SeenAt
<1>5. CASE FlushConnected
  <2>1. /\ phase = "connect" /\ todo = <<>> /\ phase' = "connected"
        /\ UNCHANGED <<tip, coins, mempool, mapWallet, refused>>
        /\ \/ diskTip' = coins /\ undo' = IF undo = "unsaved" THEN "saved" ELSE undo
           \/ UNCHANGED <<diskTip, undo>>
    BY <1>5 DEF FlushConnected, Flush
  <2>2. coins # Root /\ Prev[coins] = tip /\ Chain[coins] = Chain[tip] \cup {coins}
    BY <1>0, <2>1, ChainRule DEF Places
  <2>3. ASSUME undo # "lost" PROVE SeenAt(coins)
    <3>1. SeenAt(tip) /\ Telling
      BY <2>1, <2>3 DEF Known
    <3>2. Vtx[coins] \in Seq(Txs) /\ \A t \in TxsOf(coins) : \E j \in DOMAIN Vtx[coins] : Vtx[coins][j] = t
      BY <1>0, VtxRule
    <3>3. \A j \in 1..Len(Vtx[coins]) : Ours(Vtx[coins][j]) => mapWallet[Vtx[coins][j]] = coins
      BY <2>1, <3>1, <3>2 DEF Telling
    <3>4. \A t \in TxsOf(coins) : Ours(t) => mapWallet[t] = coins
      BY <3>2, <3>3
    <3> QED  BY <2>2, <3>1, <3>4 DEF SeenAt
  <2>4. undo' = "saved" => diskTip' \in Chain[coins]
    BY <1>0, <2>1, <2>2 DEF Known
  <2>5. (undo' # "lost") => undo # "lost"
    BY <2>1
  <2> QED  BY <1>0, <2>1, <2>3, <2>4, <2>5 DEF Known, Wallet, SeenAt
<1>6. CASE ConnectTip
  <2>1. /\ phase = "connected" /\ phase' = "idle" /\ tip' = coins /\ mempool' \subseteq mempool
        /\ UNCHANGED <<coins, diskTip, mapWallet, undo, refused>>
    BY <1>6 DEF ConnectTip, UpdateTip
  <2> QED  BY <2>1 DEF Known, Wallet, SeenAt
<1>7. CASE DisconnectBlock
  <2>1. /\ tip # Root /\ coins' = Prev[tip] /\ phase' = "disconnect" /\ undo' # "saved"
        /\ (undo' = "lost" <=> undo = "lost")
        /\ UNCHANGED <<tip, mempool, diskTip, mapWallet, refused>>
    BY <1>7 DEF DisconnectBlock, Typed
  <2>2. Once(Prev[tip])
    BY <1>0, <2>1, ChainRule, OnceBelow DEF Known
  <2> QED  BY <2>1, <2>2 DEF Known, Wallet, SeenAt
<1>8. CASE FlushDisconnected
  <2>1. /\ phase = "disconnect" /\ phase' = "resurrect"
        /\ UNCHANGED <<tip, coins, mempool, mapWallet, refused>>
        /\ \/ diskTip' = coins /\ undo' = IF undo = "unsaved" THEN "saved" ELSE undo
           \/ UNCHANGED <<diskTip, undo>>
    BY <1>8 DEF FlushDisconnected, Flush
  <2>2. undo' = "saved" => diskTip' \in Chain[coins]
    BY <1>0, <2>1 DEF Known
  <2>3. undo' # "lost" => undo # "lost"
    BY <2>1
  <2>4. Once(diskTip')
    BY <2>1 DEF Known
  <2> QED  BY <2>1, <2>2, <2>3, <2>4 DEF Known, Wallet, SeenAt
<1>9. CASE Resurrect
  <2>1. /\ todo[1][1] \in Txs /\ phase = "resurrect"
        /\ UNCHANGED <<tip, coins, diskTip, phase, undo, refused>>
    BY <1>9, TodoRule DEF Resurrect, Typed, Scope
  <2>2. CASE Acceptable(todo[1][1]) /\ mempool' = mempool \cup {todo[1][1]} /\ SyncTransaction(todo[1][1], Null)
    BY <2>1, <2>2, AcceptedKnown
  <2>3. CASE UNCHANGED wallet /\ mempool' \subseteq mempool
    BY <2>1, <2>3 DEF Known, Wallet, SeenAt
  <2> QED  BY <1>9, <2>2, <2>3 DEF Resurrect
<1>10. CASE DisconnectTip
  <2>1. /\ phase = "resurrect" /\ phase' = "idle" /\ tip' = coins
        /\ UNCHANGED <<coins, diskTip, mempool, mapWallet, undo, refused>>
    BY <1>10 DEF DisconnectTip, UpdateTip
  <2>2. coins \in Chain[tip]
    BY <1>0, <2>1, ChainRule DEF Places
  <2>3. SeenAt(tip) => SeenAt(coins)
    BY <1>0, <2>2, SeenBelow
  <2> QED  BY <2>1, <2>3 DEF Known, Wallet, SeenAt
<1>11. CASE SyncWithWallets
  <2> DEFINE x == todo[1][1]  b == todo[1][2]
  <2>1. /\ x \in Txs /\ b \in Blocks \cup {Null} /\ Len(todo) \in Nat /\ Len(todo) # 0
        /\ b # Null => b \in Chain[Scope] /\ x \in TxsOf(b)
        /\ Len(Tail(todo)) = Len(todo) - 1 /\ Tail(todo) \in Seq(Notes(Scope))
        /\ \A i \in 1..(Len(todo) - 1) : Tail(todo)[i] = todo[i + 1]
    BY <1>11, TodoRule DEF SyncWithWallets, Typed, Scope
  <2>2. /\ mapWallet' = Added(x, b) /\ todo' = Tail(todo) /\ phase \in {"idle", "connect"}
        /\ UNCHANGED <<tip, coins, diskTip, mempool, phase, undo, refused>>
    BY <1>11 DEF SyncWithWallets, SyncTransaction
  <2>3. Scope \in Blocks /\ Once(Scope) /\ tip \in Chain[Scope]
    <3>1. phase = "connect" => tip \in Chain[coins]
      BY <1>0, ChainRule DEF Places
    <3> QED  BY <1>0, <3>1 DEF Scope, Known
  <2> HIDE DEF x, b
  <2>4. /\ \A t \in Wallet' : Ours(t)
        /\ Wallet \subseteq Wallet'
        /\ \A d, e \in Blocks : /\ SeenAt(d) /\ d \in Chain[e] /\ Once(e)
                                /\ b # Null => b \in Chain[e] /\ x \in TxsOf(b)
                                => SeenAt(d)'
    BY <2>1, <2>2, AddedSeen DEF Known
  <2>5. ASSUME undo # "lost" PROVE \A c \in Chain[tip] : \A t \in TxsOf(c) : Ours(t) => mapWallet'[t] = c
    <3>1. SeenAt(tip)
      BY <2>5 DEF Known
    <3> QED  BY <1>0, <2>1, <2>3, <2>4, <3>1 DEF SeenAt
  <2>6. ASSUME undo # "lost", phase = "connect" PROVE Telling'
    <3> DEFINE n == Len(Vtx[coins]) - Len(todo)
               B == Vtx[coins]
    <3>1. /\ n \in Nat /\ SeenAt(tip)
          /\ \A i \in 1..Len(todo) : todo[i] = <<B[n + i], coins>>
          /\ \A j \in 1..n : Ours(B[j]) => mapWallet[B[j]] = coins
          /\ \A i \in 1..Len(B) : \A o \in Ins[B[i]] :
               Of[o] \in ChainTxs[tip] \/ \E j \in 1..(i - 1) : B[j] = Of[o]
      BY <2>6 DEF Known, Telling
    <3>2. Len(B) \in Nat /\ Len(B) = n + Len(todo) /\ B \in Seq(Txs)
      BY <1>0, <2>1, <3>1, VtxRule
    <3> HIDE DEF n
    <3>3. x = B[n + 1] /\ b = coins /\ n + 1 \in 1..Len(B)
      BY <2>1, <3>1, <3>2 DEF x, b
    <3>4. ASSUME Ours(x) PROVE mapWallet'[x] = coins
      <4>1. ASSUME NEW o \in Ins[x] \cap Mine PROVE Of[o] \in Wallet
        <5>1. Ours(Of[o])
          BY DEF Ours
        <5>2. CASE Of[o] \in ChainTxs[tip]
          BY <1>0, <3>1, <5>1, <5>2, SeenWallet
        <5>3. CASE \E j \in 1..n : B[j] = Of[o]
          <6>1. mapWallet[Of[o]] = coins
            BY <3>1, <5>1, <5>3
          <6>2. Of[o] \in Txs
            BY <3>2, <5>3, WalletTxAssumption
          <6> QED  BY <1>0, <6>1, <6>2 DEF Wallet
        <5>4. (n + 1) - 1 = n
          BY <3>1
        <5> QED  BY <3>1, <3>3, <5>2, <5>3, <5>4
      <4>2. Involved(x)
        BY <2>1, <3>4, <4>1, OursInvolved
      <4> QED  BY <1>0, <2>1, <2>2, <3>3, <4>2, AddedRule
    <3>5. Len(B) - Len(todo') = n + 1
      BY <2>1, <2>2, <3>1, <3>2
    <3>6. ASSUME NEW j \in 1..(n + 1), Ours(B[j]) PROVE mapWallet'[B[j]] = coins
      <4>1. CASE B[j] = x
        BY <3>4, <3>6, <4>1
      <4>2. CASE B[j] # x
        <5>1. j \in 1..n
          BY <3>1, <3>3, <4>2
        <5>2. B[j] \in Txs
          BY <2>1, <3>1, <3>2, <5>1
        <5>3. mapWallet'[B[j]] = mapWallet[B[j]]
          BY <2>1, <2>2, <4>2, <5>2, AddedRule
        <5> QED  BY <3>1, <3>6, <5>1, <5>3
      <4> QED  BY <4>1, <4>2
    <3>7. ASSUME NEW i \in 1..Len(todo') PROVE todo'[i] = <<B[(n + 1) + i], coins>>
      <4>1. i + 1 \in 1..Len(todo) /\ todo'[i] = todo[i + 1] /\ n + (i + 1) = (n + 1) + i
        <5>1. i \in 1..(Len(todo) - 1)
          BY <2>1, <2>2
        <5> QED  BY <2>1, <2>2, <3>1, <5>1
      <4> QED  BY <3>1, <4>1
    <3> DEFINE m == Len(Vtx[coins]) - Len(todo')
    <3>8. m = n + 1 /\ m \in Nat
      BY <3>1, <3>5
    <3>9. \A i \in 1..Len(todo') : todo'[i] = <<Vtx[coins][m + i], coins>>
      BY <3>7, <3>8
    <3>10. \A j \in 1..m : Ours(Vtx[coins][j]) => mapWallet'[Vtx[coins][j]] = coins
      BY <3>6, <3>8
    <3> HIDE DEF B
    <3>11. \A i \in 1..Len(Vtx[coins]) : \A o \in Ins[Vtx[coins][i]] :
             Of[o] \in ChainTxs[tip] \/ \E j \in 1..(i - 1) : Vtx[coins][j] = Of[o]
      BY <3>1, Zenon DEF B
    <3>12. coins' = coins /\ tip' = tip
      BY <2>2
    <3>13. /\ m \in Nat
           /\ \A i \in 1..Len(todo') : todo'[i] = <<Vtx[coins'][m + i], coins'>>
           /\ \A j \in 1..m : Ours(Vtx[coins'][j]) => mapWallet'[Vtx[coins'][j]] = coins'
           /\ \A i \in 1..Len(Vtx[coins']) : \A o \in Ins[Vtx[coins'][i]] :
                Of[o] \in ChainTxs[tip'] \/ \E j \in 1..(i - 1) : Vtx[coins'][j] = Of[o]
      <4> HIDE DEF m
      <4>1. \A i \in 1..Len(todo') : todo'[i] = <<Vtx[coins'][m + i], coins'>>
        BY <3>9, <3>12
      <4>2. \A j \in 1..m : Ours(Vtx[coins'][j]) => mapWallet'[Vtx[coins'][j]] = coins'
        BY <3>10, <3>12
      <4>3. \A i \in 1..Len(Vtx[coins']) : \A o \in Ins[Vtx[coins'][i]] :
              Of[o] \in ChainTxs[tip'] \/ \E j \in 1..(i - 1) : Vtx[coins'][j] = Of[o]
        BY <3>11, <3>12
      <4> QED  BY <3>8, <4>1, <4>2, <4>3, Zenon
    <3>14. m = Len(Vtx[coins']) - Len(todo')
      BY <3>12
    <3> HIDE DEF m
    <3> QED  BY <3>13, <3>14, Zenon DEF Telling
  <2> QED  BY <2>2, <2>4, <2>5, <2>6 DEF Known, SeenAt
<1>12. CASE Die
  <2>1. /\ tip' = diskTip /\ coins' = diskTip /\ mempool' = {} /\ phase' = "start"
        /\ UNCHANGED <<diskTip, mapWallet, refused>> /\ (undo' # "lost" => undo = "saved")
        /\ undo' # "unsaved"
    BY <1>12 DEF Die, Typed
  <2>2. ASSUME undo = "saved" PROVE SeenAt(diskTip)
    <3>1. diskTip \in Chain[coins] /\ SeenAt(tip) /\ (phase = "connect" => diskTip \in Chain[tip])
          /\ (phase = "connected" => SeenAt(coins))
      BY <2>2 DEF Known
    <3>2. CASE phase = "connect"
      BY <1>0, <3>1, <3>2, SeenBelow
    <3>3. CASE phase = "connected"
      BY <1>0, <3>1, <3>3, SeenBelow
    <3>4. CASE phase \notin {"connect", "connected"}
      <4>1. coins \in Chain[tip]
        BY <1>0, <3>4, ChainRule DEF Places, Typed
      <4>2. SeenAt(coins)
        BY <1>0, <3>1, <4>1, SeenBelow
      <4> QED  BY <1>0, <3>1, <4>2, SeenBelow
    <3> QED  BY <3>2, <3>3, <3>4
  <2> QED  BY <1>0, <2>1, <2>2 DEF Known, Wallet, SeenAt
<1>13. CASE ScanForWalletTransactions
  <2> DEFINE x == todo[1][1]  b == todo[1][2]
  <2>1. /\ x \in Txs /\ b \in Blocks \cup {Null}
        /\ b # Null => b \in Chain[tip] /\ x \in TxsOf(b)
    BY <1>13, TodoRule DEF ScanForWalletTransactions, Typed, Scope
  <2>2. /\ mapWallet' = Added(x, b) /\ phase = "start"
        /\ UNCHANGED <<tip, coins, diskTip, mempool, phase, undo, refused>>
    BY <1>13 DEF ScanForWalletTransactions
  <2> HIDE DEF x, b
  <2>4. /\ \A t \in Wallet' : Ours(t)
        /\ Wallet \subseteq Wallet'
        /\ \A d, e \in Blocks : /\ SeenAt(d) /\ d \in Chain[e] /\ Once(e)
                                /\ b # Null => b \in Chain[e] /\ x \in TxsOf(b)
                                => SeenAt(d)'
    BY <2>1, <2>2, AddedSeen DEF Known
  <2>5. ASSUME undo # "lost" PROVE \A c \in Chain[tip] : \A t \in TxsOf(c) : Ours(t) => mapWallet'[t] = c
    <3>1. SeenAt(tip) /\ Once(tip)
      BY <2>5 DEF Known
    <3> QED  BY <1>0, <2>1, <2>4, <3>1 DEF SeenAt
  <2> QED  BY <2>2, <2>4, <2>5 DEF Known, SeenAt
<1>14. CASE EndScan
  BY <1>14 DEF EndScan, Known, Wallet, SeenAt
<1>15. CASE ReacceptWalletTransactions
  <2>1. CASE UNCHANGED <<mempool, wallet>> /\ phase' \in {"idle", "reaccept"}
    BY <1>15, <2>1 DEF ReacceptWalletTransactions, Known, Wallet, SeenAt
  <2>2. ASSUME NEW i \in DOMAIN todo, UNCHANGED phase, Acceptable(todo[i][1]),
               mempool' = mempool \cup {todo[i][1]}, SyncTransaction(todo[i][1], Null)
        PROVE  Known'
    <3>1. phase = "reaccept" /\ UNCHANGED <<tip, coins, diskTip, undo, refused>>
      BY <1>15 DEF ReacceptWalletTransactions
    <3>2. todo[i][1] \in Txs
      <4>1. todo[i] \in Notes(Scope)
        BY DEF Typed
      <4> QED  BY <4>1 DEF Notes
    <3> QED  BY <2>2, <3>1, <3>2, AcceptedKnown
  <2> QED  BY <1>15, <2>1, <2>2 DEF ReacceptWalletTransactions
<1> QED  BY <1>1, <1>2, <1>3, <1>4, <1>5, <1>6, <1>7, <1>8, <1>9, <1>10, <1>11, <1>12, <1>13,
            <1>14, <1>15 DEF TxNext

-----------------------------------------------------------------------------
(* The theorems *)

LEMMA TxInvNext == TxInv /\ [TxNext]_txVars => TxInv'
<1> SUFFICES ASSUME TxInv, [TxNext]_txVars PROVE TxInv'
  OBVIOUS
<1>1. CASE TxNext
  <2>1. Typed' /\ Places'
    BY <1>1, TypedNext DEF TxInv
  <2> QED  BY <1>1, <2>1, CachedNext, KnownNext DEF TxInv
<1>2. CASE UNCHANGED txVars
  <2> USE <1>2 DEF txVars, node, wallet
  <2>1. Typed' /\ Places'
    BY DEF TxInv, Typed, Places, Scope
  <2>2. Known'
    BY DEF TxInv, Known, Wallet, SeenAt, Telling
  <2>3. Cached'
    <3>1. Typed /\ Cached /\ Wallet' = Wallet /\ Bereft' = Bereft /\ \A t \in Txs : Credit(t)' = Credit(t)
      BY <2>1, QuietCredits DEF TxInv, Bereft, SpentBy
    <3>2. \A t \in Wallet : t \in Txs
      BY DEF Wallet
    <3> QED  BY <3>1, <3>2 DEF Cached, Dirties
  <2> QED  BY <2>1, <2>2, <2>3 DEF TxInv
<1> QED  BY <1>1, <1>2

LEMMA TxInvAlways == TxSpec => []TxInv
BY TxInitInv, TxInvNext, PTL DEF TxSpec

\* For every set of transactions and every tree of blocks: whatever is connected,
\* disconnected, sent or killed when, the wallet misses nothing of ours on the chain
\* (AddToWalletIfInvolvingMe, called from ConnectBlock before the coins are flushed).
THEOREM WalletSeesChain == TxSpec => []ChainSeen
<1>1. TxInv => ChainSeen
  <2> SUFFICES ASSUME TxInv, Quiet, undo # "lost", NEW t \in ChainTxs[tip], Involved(t)
               PROVE  mapWallet[t] = BlockOf(t, tip)
    BY DEF ChainSeen
  <2>1. tip \in Blocks /\ SeenAt(tip) /\ Once(tip) /\ \A x \in Wallet : Ours(x)
    BY DEF TxInv, Typed, Known
  <2>2. PICK c \in Chain[tip] : t \in TxsOf(c)
    BY <2>1 DEF ChainTxs
  <2>3. t \in Txs
    BY <2>1, <2>2, ChainRule, VtxRule
  <2>4. Ours(t)
    BY <2>1, <2>3, InvolvedOurs
  <2>5. mapWallet[t] = c
    BY <2>1, <2>2, <2>4 DEF SeenAt
  <2>6. BlockOf(t, tip) \in Chain[tip] /\ t \in TxsOf(BlockOf(t, tip))
    BY <2>2 DEF BlockOf
  <2> QED  BY <2>1, <2>2, <2>5, <2>6 DEF Once
<1> QED  BY <1>1, TxInvAlways, PTL

\* Likewise: no cached credit outlives a change of what is spent, but for what
\* DisconnectTip drops from the pool without a word to the wallet (SyncTransaction).
THEOREM CachesExact == TxSpec => []CreditsExact
<1>1. TxInv => CreditsExact
  BY DEF TxInv, Cached, CreditsExact, Quiet
<1> QED  BY <1>1, TxInvAlways, PTL

\* Likewise: whatever else is going on, the pool accepts the transaction that
\* CommitTransaction has recorded, unless ActivateBestChain has moved pcoinsTip and
\* not yet the tip, or a crash has undone a disconnection.
THEOREM CommitsAccepted == TxSpec => CommitAccepted
<1>1. TxInv /\ [TxNext]_txVars => [pcoinsTip = tip /\ undo # "lost" => UNCHANGED refused]_txVars
  <2> SUFFICES ASSUME TxInv, TxNext, pcoinsTip = tip, undo # "lost" PROVE UNCHANGED refused
    OBVIOUS
  <2>1. ASSUME NEW t \in Own, CommitTransaction(t) PROVE UNCHANGED refused
    <3>1. Acceptable(t)
      BY <2>1, CommitGood DEF TxInv, CommitTransaction
    <3> QED  BY <2>1, <3>1 DEF CommitTransaction
  <2>2. CASE \E t \in (Txs \ Own) \cup Wallet : ReceiveTx(t)
    BY <2>2 DEF ReceiveTx
  <2>3. CASE \E b \in Blocks \ {Root} : ConnectBlock(b)
    BY <2>3 DEF ConnectBlock
  <2> QED  BY <2>1, <2>2, <2>3 DEF TxNext, getbalance, FlushConnected, FlushDisconnected, Flush,
             ConnectTip, DisconnectBlock, Resurrect, DisconnectTip, SyncWithWallets, Die,
             ScanForWalletTransactions, EndScan, ReacceptWalletTransactions
<1> QED  BY <1>1, TxInvAlways, PTL DEF TxSpec, CommitAccepted


-----------------------------------------------------------------------------
(* Sums *)

\* What holds of a subset when it holds of all smaller ones holds of all.
LEMMA SetInduction ==
    ASSUME NEW S, IsFiniteSet(S), NEW C,
           \A T \in SUBSET S : (\A U \in SUBSET T : U # T => U \in C) => T \in C
    PROVE  \A T \in SUBSET S : T \in C
<1> DEFINE bad == {T \in SUBSET S : T \notin C}
           sizes == {Cardinality(T) : T \in bad}
<1>1. SUFFICES ASSUME bad # {} PROVE FALSE
  OBVIOUS
<1>2. \A T \in SUBSET S : IsFiniteSet(T) /\ Cardinality(T) \in Nat
  BY FS_Subset, FS_CardinalityType
<1>3. sizes \subseteq Nat /\ sizes # {}
  BY <1>1, <1>2
<1>4. PICK n \in sizes : \A m \in sizes : n <= m
  <2> HIDE DEF sizes
  <2> QED  BY <1>3, Least
<1>5. PICK T \in bad : n = Cardinality(T)
  BY <1>4
<1>6. ASSUME NEW U \in SUBSET T, U # T PROVE U \in C
  <2>1. U \in SUBSET S /\ IsFiniteSet(T)
    BY <1>2, <1>5
  <2>2. Cardinality(U) <= Cardinality(T) /\ Cardinality(U) # Cardinality(T)
    BY <1>6, <2>1, FS_Subset
  <2>3. Cardinality(U) \in Nat /\ Cardinality(T) \in Nat
    BY <1>2, <1>5, <2>1
  <2>4. Cardinality(U) \notin sizes
    BY <1>4, <1>5, <2>2, <2>3
  <2> QED  BY <2>1, <2>4
<1> QED  BY <1>5, <1>6

Some(s) == CHOOSE x \in s : TRUE

\* h is the table of the sums of f over the subsets of S that MapThenSumSet makes.
Sums(h, f, S) ==
    h = [s \in SUBSET S |-> IF s = {} THEN 0 ELSE f[Some(s)] + h[s \ {Some(s)}]]

Table(h, f, S) ==
    /\ IsFiniteSet(S) /\ (\A x \in S : f[x] \in Int)
    /\ h \in [SUBSET S -> Int] /\ Sums(h, f, S)

LEMMA SomeRule ==
    ASSUME NEW s, s # {} PROVE Some(s) \in s
BY DEF Some

LEMMA SumsExist ==
    ASSUME NEW S, IsFiniteSet(S), NEW f, \A x \in S : f[x] \in Int
    PROVE  \E h \in [SUBSET S -> Int] : Sums(h, f, S)
<1> DEFINE V == [SUBSET S -> Int]
           step(g) == [s \in SUBSET S |-> IF s = {} THEN 0 ELSE f[Some(s)] + g[s \ {Some(s)}]]
           F == [i \in Nat |-> [g \in V |-> step(g)]]
           a == [s \in SUBSET S |-> 0]
           n == Cardinality(S)
<1>1. a \in V /\ n \in Nat /\ n + 1 \in Nat
  BY FS_CardinalityType
<1>2. ASSUME NEW g \in V PROVE step(g) \in V
  <2>1. ASSUME NEW s \in SUBSET S
        PROVE  (IF s = {} THEN 0 ELSE f[Some(s)] + g[s \ {Some(s)}]) \in Int
    <3>1. CASE s = {}
      BY <3>1
    <3>2. CASE s # {}
      <4>1. Some(s) \in S /\ s \ {Some(s)} \in SUBSET S
        BY <3>2, SomeRule
      <4>2. f[Some(s)] \in Int /\ g[s \ {Some(s)}] \in Int
        BY <4>1
      <4> QED  BY <3>2, <4>2
    <3> QED  BY <3>1, <3>2
  <2> QED  BY <2>1
<1>3. F \in [Nat -> [V -> V]]
  <2> HIDE DEF V, step
  <2> QED  BY <1>2
<1>4. \A i \in Nat : \A g \in V : F[i][g] = step(g)
  <2> HIDE DEF V, step
  <2> QED  OBVIOUS
<1> HIDE DEF F, a, V
<1>5. PICK r : Recurs(r, V, a, F, (n + 1) + 1)
  BY <1>1, <1>3, Recursion, Zenon
<1> DEFINE G == [i \in 0..(n + 1) |-> r[i + 1]]
<1>6. G[0] = a /\ \A i \in 0..(n + 1) : G[i] \in V
  <2> HIDE DEF n
  <2> QED  BY <1>1, <1>5 DEF Recurs
<1>7. ASSUME NEW i \in 1..(n + 1) PROVE G[i] = step(G[i - 1])
  <2> HIDE DEF n
  <2>1. /\ i + 1 \in 2..((n + 1) + 1) /\ (i + 1) - 1 = i /\ (i - 1) + 1 = i
        /\ i \in 0..(n + 1) /\ i - 1 \in 0..(n + 1) /\ i + 1 \in Nat
    BY <1>1
  <2>2. r[i + 1] = F[i + 1][r[(i + 1) - 1]]
    BY <1>5, <2>1 DEF Recurs
  <2>3. G[i - 1] \in V /\ G[i] = r[i + 1] /\ G[i - 1] = r[i]
    BY <1>6, <2>1
  <2> HIDE DEF step, G
  <2>4. r[i + 1] = F[i + 1][G[i - 1]]
    BY <2>1, <2>2, <2>3
  <2> QED  BY <1>4, <2>1, <2>3, <2>4
<1> HIDE DEF G
<1> DEFINE P == {i \in Nat : i <= n => \A s \in SUBSET S : Cardinality(s) <= i => G[i][s] = G[i + 1][s]}
<1>8. 0 \in P
  <2> SUFFICES ASSUME NEW s \in SUBSET S, Cardinality(s) <= 0 PROVE G[0][s] = G[1][s]
    OBVIOUS
  <2>1. s = {}
    BY FS_Subset, FS_CardinalityType, FS_EmptySet
  <2>2. G[1] = step(G[0])
    <3> HIDE DEF step
    <3>1. 1 \in 1..(n + 1) /\ 1 - 1 = 0
      BY <1>1
    <3>2. G[1] = step(G[1 - 1])
      BY <1>7, <3>1
    <3> QED  BY <3>1, <3>2
  <2> QED  BY <1>6, <2>1, <2>2 DEF a
<1>9. ASSUME NEW i \in Nat, i \in P PROVE i + 1 \in P
  <2> SUFFICES ASSUME i + 1 <= n, NEW s \in SUBSET S, Cardinality(s) <= i + 1
               PROVE  G[i + 1][s] = G[i + 1 + 1][s]
    OBVIOUS
  <2> HIDE DEF n
  <2>1. i + 1 \in 1..(n + 1) /\ i + 1 + 1 \in 1..(n + 1) /\ (i + 1) - 1 = i /\ (i + 1 + 1) - 1 = i + 1
    BY <1>1
  <2>2. G[i + 1] = step(G[i])
    <3> HIDE DEF step
    <3>1. G[i + 1] = step(G[(i + 1) - 1])
      BY <1>7, <2>1
    <3> QED  BY <2>1, <3>1
  <2>3. G[i + 1 + 1] = step(G[i + 1])
    <3> HIDE DEF step
    <3>1. G[i + 1 + 1] = step(G[(i + 1 + 1) - 1])
      BY <1>7, <2>1
    <3> QED  BY <2>1, <3>1
  <2>4. CASE s = {}
    BY <2>2, <2>3, <2>4
  <2>5. CASE s # {}
    <3> DEFINE u == s \ {Some(s)}
    <3>1. Some(s) \in s /\ u \in SUBSET S /\ IsFiniteSet(s)
      BY <2>5, SomeRule, FS_Subset
    <3>2. Cardinality(u) = Cardinality(s) - 1 /\ Cardinality(s) \in Nat
      BY <3>1, FS_RemoveElement, FS_CardinalityType
    <3>3. Cardinality(u) <= i /\ i <= n
      BY <3>2, <1>1
    <3>4. G[i][u] = G[i + 1][u]
      BY <1>9, <3>1, <3>3
    <3>5. G[i + 1][s] = f[Some(s)] + G[i][u] /\ G[i + 1 + 1][s] = f[Some(s)] + G[i + 1][u]
      BY <2>2, <2>3, <2>5
    <3> QED  BY <3>4, <3>5
  <2> QED  BY <2>4, <2>5
<1>10. n \in P
  <2> HIDE DEF P
  <2>1. \A i \in Nat : i \in P
    BY <1>8, <1>9, InductionOn
  <2> QED  BY <1>1, <2>1
<1>11. \A s \in SUBSET S : G[n][s] = G[n + 1][s]
  <2> TAKE s \in SUBSET S
  <2>1. Cardinality(s) <= n
    BY FS_Subset
  <2> HIDE DEF n
  <2>2. n <= n
    BY <1>1
  <2> QED  BY <1>10, <2>1, <2>2
<1>12. G[n + 1] = step(G[n])
  <2> HIDE DEF step, n
  <2>1. n + 1 \in 1..(n + 1) /\ (n + 1) - 1 = n
    BY <1>1
  <2>2. G[n + 1] = step(G[(n + 1) - 1])
    BY <1>7, <2>1
  <2> QED  BY <2>1, <2>2
<1>13. G[n] \in V
  <2> HIDE DEF n
  <2> QED  BY <1>1, <1>6
<1>14. G[n] = step(G[n])
  <2> HIDE DEF n
  <2>1. \A s \in SUBSET S : G[n][s] = step(G[n])[s]
    <3> HIDE DEF step
    <3> QED  BY <1>11, <1>12
  <2>2. G[n] = [s \in SUBSET S |-> G[n][s]]
    BY <1>13 DEF V
  <2>3. step(G[n]) = [s \in SUBSET S |-> step(G[n])[s]]
    OBVIOUS
  <2> HIDE DEF step
  <2> QED  BY <2>1, <2>2, <2>3, Zenon
<1>15. Sums(G[n], f, S)
  <2> HIDE DEF n
  <2> QED  BY <1>14 DEF Sums
<1> QED  BY <1>13, <1>15 DEF V

\* In such a table any element may be taken out first.
LEMMA SumsTake ==
    ASSUME NEW S, NEW f, NEW h, Table(h, f, S)
    PROVE  /\ h[{}] = 0
           /\ \A s \in SUBSET S : \A x \in s : h[s] = f[x] + h[s \ {x}]
<1> USE DEF Table
<1>1. \A s \in SUBSET S : h[s] = IF s = {} THEN 0 ELSE f[Some(s)] + h[s \ {Some(s)}]
  <2> DEFINE k == [s \in SUBSET S |-> IF s = {} THEN 0 ELSE f[Some(s)] + h[s \ {Some(s)}]]
  <2>1. h = k
    BY DEF Sums
  <2>2. \A s \in SUBSET S : k[s] = IF s = {} THEN 0 ELSE f[Some(s)] + h[s \ {Some(s)}]
    OBVIOUS
  <2> HIDE DEF k
  <2> QED  BY <2>1, <2>2, Zenon
<1> DEFINE C == {s \in SUBSET S : \A x \in s : h[s] = f[x] + h[s \ {x}]}
<1>2. ASSUME NEW s \in SUBSET S, \A u \in SUBSET s : u # s => u \in C PROVE s \in C
  <2> SUFFICES ASSUME NEW x \in s PROVE h[s] = f[x] + h[s \ {x}]
    OBVIOUS
  <2> DEFINE y == Some(s)
  <2>1. y \in s
    BY SomeRule
  <2>2. h[s] = f[y] + h[s \ {y}]
    BY <1>1
  <2> HIDE DEF y
  <2>3. CASE x = y
    BY <2>2, <2>3
  <2>4. CASE x # y
    <3> DEFINE w == s \ {x, y}
    <3>1. s \ {y} \in C /\ x \in s \ {y} /\ s \ {x} \in C /\ y \in s \ {x}
      BY <1>2, <2>1, <2>4
    <3>2. (s \ {y}) \ {x} = w /\ (s \ {x}) \ {y} = w
      OBVIOUS
    <3>3. h[s \ {y}] = f[x] + h[(s \ {y}) \ {x}] /\ h[s \ {x}] = f[y] + h[(s \ {x}) \ {y}]
      BY <3>1
    <3>4. f[x] \in Int /\ f[y] \in Int /\ h[w] \in Int
      BY <2>1
    <3> HIDE DEF w
    <3>5. h[s \ {y}] = f[x] + h[w] /\ h[s \ {x}] = f[y] + h[w]
      BY <3>2, <3>3
    <3> QED  BY <2>2, <3>4, <3>5
  <2> QED  BY <2>3, <2>4
<1>3. \A s \in SUBSET S : s \in C
  <2> HIDE DEF C
  <2> QED  BY <1>2, SetInduction
<1> QED  BY <1>1, <1>3

\* Two tables, for numbers that are the same on a set, agree on it.
LEMMA SumsAgree ==
    ASSUME NEW S, NEW f, NEW h, Table(h, f, S), NEW T, NEW g, NEW k, Table(k, g, T),
           NEW U \in SUBSET (S \cap T), \A x \in U : f[x] = g[x]
    PROVE  h[U] = k[U]
<1> DEFINE C == {s \in SUBSET U : h[s] = k[s]}
<1>1. /\ h[{}] = 0 /\ \A s \in SUBSET S : \A x \in s : h[s] = f[x] + h[s \ {x}]
      /\ k[{}] = 0 /\ \A s \in SUBSET T : \A x \in s : k[s] = g[x] + k[s \ {x}]
  <2>1. h[{}] = 0 /\ \A s \in SUBSET S : \A x \in s : h[s] = f[x] + h[s \ {x}]
    BY SumsTake
  <2>2. k[{}] = 0 /\ \A s \in SUBSET T : \A x \in s : k[s] = g[x] + k[s \ {x}]
    BY SumsTake
  <2> QED  BY <2>1, <2>2, Zenon
<1>2. ASSUME NEW s \in SUBSET U, \A u \in SUBSET s : u # s => u \in C PROVE s \in C
  <2>1. CASE s = {}
    BY <1>1, <2>1
  <2>2. CASE s # {}
    <3>1. PICK x \in s : TRUE
      BY <2>2
    <3>2. s \ {x} \in C /\ f[x] = g[x]
      BY <1>2, <3>1
    <3>3. h[s] = f[x] + h[s \ {x}] /\ k[s] = g[x] + k[s \ {x}]
      BY <1>1, <3>1
    <3> QED  BY <3>2, <3>3
  <2> QED  BY <2>1, <2>2
<1>3. IsFiniteSet(U)
  BY FS_Subset DEF Table
<1>4. \A s \in SUBSET U : s \in C
  <2> HIDE DEF C
  <2> QED  BY <1>2, <1>3, SetInduction
<1> QED  BY <1>4

\* What Sum computes.
LEMMA SumIs ==
    ASSUME NEW S, IsFiniteSet(S), NEW f, \A x \in S : f[x] \in Int
    PROVE  \E h : Table(h, f, S) /\ Sum(f, S) = h[S]
<1> DEFINE k == CHOOSE h : h = [s \in SUBSET S |->
                   IF s = {} THEN 0
                   ELSE f[CHOOSE x \in s : TRUE] + h[s \ {CHOOSE x \in s : TRUE}]]
<1>1. Sum(f, S) = k[S]
  BY DEF Sum, MapThenSumSet, MapThenFoldSet
<1>2. PICK g \in [SUBSET S -> Int] : Sums(g, f, S)
  BY SumsExist
<1>3. g = [s \in SUBSET S |->
             IF s = {} THEN 0 ELSE f[CHOOSE x \in s : TRUE] + g[s \ {CHOOSE x \in s : TRUE}]]
  BY <1>2, Zenon DEF Sums, Some
<1>4. k = [s \in SUBSET S |->
             IF s = {} THEN 0 ELSE f[CHOOSE x \in s : TRUE] + k[s \ {CHOOSE x \in s : TRUE}]]
  BY <1>3, Zenon
<1> HIDE DEF k
<1>5. Sums(k, f, S)
  BY <1>4, Zenon DEF Sums, Some
<1>6. \A s \in SUBSET S : k[s] = IF s = {} THEN 0 ELSE f[Some(s)] + k[s \ {Some(s)}]
  <2> DEFINE q == [s \in SUBSET S |-> IF s = {} THEN 0 ELSE f[Some(s)] + k[s \ {Some(s)}]]
  <2>1. k = q
    BY <1>5 DEF Sums
  <2>2. \A s \in SUBSET S : q[s] = IF s = {} THEN 0 ELSE f[Some(s)] + k[s \ {Some(s)}]
    OBVIOUS
  <2> HIDE DEF q
  <2> QED  BY <2>1, <2>2, Zenon
<1> DEFINE C == {s \in SUBSET S : k[s] \in Int}
<1>7. ASSUME NEW s \in SUBSET S, \A u \in SUBSET s : u # s => u \in C PROVE s \in C
  <2>1. CASE s = {}
    <3>1. k[s] = 0
      BY <1>6, <2>1
    <3> QED  BY <3>1
  <2>2. CASE s # {}
    <3>1. Some(s) \in s
      BY <2>2, SomeRule
    <3>2. s \ {Some(s)} \in C /\ f[Some(s)] \in Int
      BY <1>7, <3>1
    <3>3. k[s] = f[Some(s)] + k[s \ {Some(s)}]
      BY <1>6, <2>2
    <3> QED  BY <3>2, <3>3
  <2> QED  BY <2>1, <2>2
<1>8. \A s \in SUBSET S : k[s] \in Int
  <2>1. \A s \in SUBSET S : s \in C
    <3> HIDE DEF C
    <3> QED  BY <1>7, SetInduction
  <2> QED  BY <2>1
<1>9. k = [s \in SUBSET S |-> k[s]]
  <2> DEFINE e(s) == IF s = {} THEN 0 ELSE f[CHOOSE x \in s : TRUE] + k[s \ {CHOOSE x \in s : TRUE}]
             q == [s \in SUBSET S |-> e(s)]
  <2>1. k = q
    BY <1>4
  <2>2. q = [s \in SUBSET S |-> q[s]]
    OBVIOUS
  <2> HIDE DEF q
  <2> QED  BY <2>1, <2>2
<1>10. k \in [SUBSET S -> Int]
  BY <1>8, <1>9
<1> QED  BY <1>1, <1>5, <1>10 DEF Table

\* Sums of integers: ...
LEMMA SumRule ==
    ASSUME NEW S, IsFiniteSet(S), NEW f, \A x \in S : f[x] \in Int
    PROVE  /\ Sum(f, S) \in Int /\ (S = {} => Sum(f, S) = 0)
           /\ \A x \in S : Sum(f, S) = f[x] + Sum(f, S \ {x}) /\ Sum(f, S \ {x}) \in Int
<1>1. PICK h : Table(h, f, S) /\ Sum(f, S) = h[S]
  BY SumIs
<1>2. h[{}] = 0 /\ \A s \in SUBSET S : \A x \in s : h[s] = f[x] + h[s \ {x}]
  BY <1>1, SumsTake
<1>3. ASSUME NEW x \in S PROVE Sum(f, S) = f[x] + Sum(f, S \ {x}) /\ Sum(f, S \ {x}) \in Int
  <2> DEFINE T == S \ {x}
  <2>1. IsFiniteSet(T) /\ T \in SUBSET S /\ T \in SUBSET (S \cap T)
    BY FS_Subset
  <2> HIDE DEF T
  <2>2. PICK k : Table(k, f, T) /\ Sum(f, T) = k[T]
    BY <2>1, SumIs
  <2>3. h[T] = k[T]
    BY <1>1, <2>1, <2>2, SumsAgree
  <2>4. h[S] = f[x] + h[T]
    BY <1>2 DEF T
  <2>5. k[T] \in Int
    BY <2>2 DEF Table
  <2> QED  BY <1>1, <2>2, <2>3, <2>4, <2>5 DEF T
<1>4. h[S] \in Int
  BY <1>1 DEF Table
<1> QED  BY <1>1, <1>2, <1>3, <1>4

\* ... the same numbers have the same sum, ...
LEMMA SumSame ==
    ASSUME NEW S, IsFiniteSet(S), NEW f, NEW g, \A x \in S : f[x] \in Int /\ g[x] = f[x]
    PROVE  Sum(f, S) = Sum(g, S)
<1>1. (\A x \in S : f[x] \in Int) /\ (\A x \in S : g[x] \in Int) /\ (\A x \in S : f[x] = g[x])
  OBVIOUS
<1>2. PICK h : Table(h, f, S) /\ Sum(f, S) = h[S]
  BY <1>1, SumIs
<1>3. PICK k : Table(k, g, S) /\ Sum(g, S) = k[S]
  BY <1>1, SumIs
<1>4. h[S] = k[S]
  <2>1. S \in SUBSET (S \cap S)
    OBVIOUS
  <2> QED  BY <1>1, <1>2, <1>3, <2>1, SumsAgree
<1> QED  BY <1>2, <1>3, <1>4

\* ... a sum of sums is a sum, ...
LEMMA SumPlus ==
    ASSUME NEW S, IsFiniteSet(S), NEW f, NEW g, NEW h,
           \A x \in S : f[x] \in Int /\ g[x] \in Int /\ h[x] = f[x] + g[x]
    PROVE  Sum(h, S) = Sum(f, S) + Sum(g, S)
<1> DEFINE C == {T \in SUBSET S : Sum(h, T) = Sum(f, T) + Sum(g, T)}
<1>1. ASSUME NEW T \in SUBSET S, \A U \in SUBSET T : U # T => U \in C PROVE T \in C
  <2>0. /\ IsFiniteSet(T) /\ (\A x \in T : f[x] \in Int) /\ (\A x \in T : g[x] \in Int)
        /\ (\A x \in T : h[x] \in Int)
    BY FS_Subset
  <2>1. CASE T = {}
    <3>1. Sum(f, T) = 0 /\ Sum(g, T) = 0 /\ Sum(h, T) = 0
      BY <2>0, <2>1, SumRule
    <3> QED  BY <3>1
  <2>2. CASE T # {}
    <3>1. PICK x \in T : TRUE
      BY <2>2
    <3>2. T \ {x} \in C
      BY <1>1, <3>1
    <3>3. /\ Sum(f, T) = f[x] + Sum(f, T \ {x}) /\ Sum(f, T \ {x}) \in Int
          /\ Sum(g, T) = g[x] + Sum(g, T \ {x}) /\ Sum(g, T \ {x}) \in Int
          /\ Sum(h, T) = h[x] + Sum(h, T \ {x}) /\ Sum(h, T \ {x}) \in Int
      BY <2>0, <3>1, SumRule
    <3>4. Sum(h, T \ {x}) = Sum(f, T \ {x}) + Sum(g, T \ {x})
      BY <3>2
    <3>5. f[x] \in Int /\ g[x] \in Int /\ h[x] = f[x] + g[x]
      BY <3>1
    <3>6. Sum(h, T) = Sum(f, T) + Sum(g, T)
      BY <3>3, <3>4, <3>5
    <3> QED  BY <3>6
  <2> QED  BY <2>1, <2>2
<1>2. \A T \in SUBSET S : T \in C
  <2> HIDE DEF C
  <2> QED  BY <1>1, SetInduction
<1> QED  BY <1>2

\* ... the sum over two sets is that of their sums, ...
LEMMA SumUnion ==
    ASSUME NEW S, IsFiniteSet(S), NEW T, IsFiniteSet(T), S \cap T = {},
           NEW f, \A x \in S \cup T : f[x] \in Int
    PROVE  Sum(f, S \cup T) = Sum(f, S) + Sum(f, T)
<1> DEFINE C == {U \in SUBSET S : Sum(f, U \cup T) = Sum(f, U) + Sum(f, T)}
<1>0. Sum(f, T) \in Int
  BY SumRule
<1>1. ASSUME NEW U \in SUBSET S, \A W \in SUBSET U : W # U => W \in C PROVE U \in C
  <2>0. /\ IsFiniteSet(U) /\ IsFiniteSet(U \cup T)
        /\ (\A x \in U : f[x] \in Int) /\ (\A x \in U \cup T : f[x] \in Int)
    BY FS_Subset, FS_Union
  <2>1. CASE U = {}
    <3>1. Sum(f, U) = 0 /\ U \cup T = T
      BY <2>0, <2>1, SumRule
    <3>2. Sum(f, U \cup T) = Sum(f, T)
      BY <3>1
    <3>3. Sum(f, U \cup T) = Sum(f, U) + Sum(f, T)
      BY <1>0, <3>1, <3>2
    <3> QED  BY <3>3
  <2>2. CASE U # {}
    <3>1. PICK x \in U : TRUE
      BY <2>2
    <3>2. U \ {x} \in C
      BY <1>1, <3>1
    <3>3. Sum(f, U) = f[x] + Sum(f, U \ {x}) /\ Sum(f, U \ {x}) \in Int
      BY <2>0, <3>1, SumRule
    <3>4. Sum(f, U \cup T) = f[x] + Sum(f, (U \cup T) \ {x})
      BY <2>0, <3>1, SumRule
    <3>5. (U \cup T) \ {x} = (U \ {x}) \cup T
      BY <3>1
    <3>6. Sum(f, (U \ {x}) \cup T) = Sum(f, U \ {x}) + Sum(f, T) /\ f[x] \in Int
      BY <3>2, <3>1
    <3>7. Sum(f, U \cup T) = f[x] + Sum(f, (U \ {x}) \cup T)
      BY <3>4, <3>5
    <3>8. Sum(f, U \cup T) = Sum(f, U) + Sum(f, T)
      BY <1>0, <3>3, <3>6, <3>7
    <3> QED  BY <3>8
  <2> QED  BY <2>1, <2>2
<1>2. \A U \in SUBSET S : U \in C
  <2> HIDE DEF C
  <2> QED  BY <1>1, SetInduction
<1> QED  BY <1>2

\* ... natural numbers have a natural sum, positive if one of them is, ...
LEMMA SumNat ==
    ASSUME NEW S, IsFiniteSet(S), NEW f, \A x \in S : f[x] \in Nat
    PROVE  Sum(f, S) \in Nat /\ (Sum(f, S) > 0 <=> \E x \in S : f[x] > 0)
<1> DEFINE P(T) == Sum(f, T) \in Nat /\ (Sum(f, T) > 0 <=> \E x \in T : f[x] > 0)
           C == {T \in SUBSET S : P(T)}
<1>1. ASSUME NEW T \in SUBSET S, \A U \in SUBSET T : U # T => U \in C PROVE T \in C
  <2>0. IsFiniteSet(T) /\ (\A x \in T : f[x] \in Int)
    BY FS_Subset
  <2>1. CASE T = {}
    <3>1. Sum(f, T) = 0
      BY <2>0, <2>1, SumRule
    <3> QED  BY <2>1, <3>1
  <2>2. CASE T # {}
    <3>1. PICK x \in T : TRUE
      BY <2>2
    <3>2. P(T \ {x})
      BY <1>1, <3>1
    <3>3. Sum(f, T) = f[x] + Sum(f, T \ {x})
      BY <2>0, <3>1, SumRule
    <3>4. f[x] \in Nat
      BY <3>1
    <3>5. Sum(f, T) \in Nat /\ (Sum(f, T) > 0 <=> f[x] > 0 \/ Sum(f, T \ {x}) > 0)
      BY <3>2, <3>3, <3>4
    <3>6. P(T)
      BY <3>2, <3>5
    <3> QED  BY <3>6
  <2> QED  BY <2>1, <2>2
<1>2. \A T \in SUBSET S : T \in C
  <2> HIDE DEF C
  <2> QED  BY <1>1, SetInduction
<1> QED  BY <1>2

\* ... zeros may be left out, ...
LEMMA SumPart ==
    ASSUME NEW S, IsFiniteSet(S), NEW T \in SUBSET S,
           NEW f, \A x \in T : f[x] \in Int, \A x \in S \ T : f[x] = 0
    PROVE  Sum(f, S) = Sum(f, T)
<1>1. IsFiniteSet(T) /\ IsFiniteSet(S \ T) /\ T \cap (S \ T) = {} /\ T \cup (S \ T) = S
  BY FS_Subset
<1>2. \A x \in T \cup (S \ T) : f[x] \in Int
  OBVIOUS
<1>3. Sum(f, T \cup (S \ T)) = Sum(f, T) + Sum(f, S \ T)
  BY <1>1, <1>2, SumUnion
<1>4. \A x \in S \ T : f[x] \in Nat
  OBVIOUS
<1>5. Sum(f, S \ T) \in Nat /\ (Sum(f, S \ T) > 0 <=> \E x \in S \ T : f[x] > 0)
  BY <1>1, <1>4, SumNat
<1>6. Sum(f, S \ T) = 0
  BY <1>5
<1>7. Sum(f, T) \in Int
  BY <1>1, SumRule
<1>8. Sum(f, T \cup (S \ T)) = Sum(f, S)
  BY <1>1
<1> QED  BY <1>3, <1>6, <1>7, <1>8

\* ... the sums over disjoint sets add up to the sum over their union, ...
LEMMA SumParts ==
    ASSUME NEW T, IsFiniteSet(T), NEW O, IsFiniteSet(O),
           NEW f, \A o \in O : f[o] \in Int,
           NEW P, \A t \in T : P[t] \in SUBSET O,
           \A t, u \in T : t # u => P[t] \cap P[u] = {},
           NEW h, \A t \in T : h[t] = Sum(f, P[t])
    PROVE  Sum(h, T) = Sum(f, UNION {P[t] : t \in T})
<1> DEFINE all(U) == UNION {P[t] : t \in U}
           C == {U \in SUBSET T : Sum(h, U) = Sum(f, all(U))}
<1>0. \A s \in SUBSET O : IsFiniteSet(s) /\ (\A o \in s : f[o] \in Int) /\ Sum(f, s) \in Int
  <2> TAKE s \in SUBSET O
  <2>1. IsFiniteSet(s) /\ (\A o \in s : f[o] \in Int)
    BY FS_Subset
  <2> QED  BY <2>1, SumRule
<1>1. ASSUME NEW U \in SUBSET T, \A W \in SUBSET U : W # U => W \in C PROVE U \in C
  <2>0. IsFiniteSet(U) /\ \A x \in U : h[x] \in Int
    BY <1>0, FS_Subset
  <2>1. CASE U = {}
    <3>1. Sum(h, U) = 0
      BY <2>0, <2>1, SumRule
    <3>2. all(U) = {}
      BY <2>1
    <3>3. Sum(f, all(U)) = 0
      <4>1. {} \in SUBSET O
        OBVIOUS
      <4>2. Sum(f, {}) = 0
        BY <1>0, <4>1, SumRule
      <4> QED  BY <3>2, <4>2
    <3> QED  BY <3>1, <3>3
  <2>2. CASE U # {}
    <3>1. PICK t \in U : TRUE
      BY <2>2
    <3> DEFINE W == U \ {t}
    <3>2. W \in C /\ t \in T
      BY <1>1, <3>1
    <3>3. Sum(h, U) = h[t] + Sum(h, W) /\ h[t] = Sum(f, P[t])
      BY <2>0, <3>1, SumRule
    <3>4. all(U) = P[t] \cup all(W) /\ P[t] \cap all(W) = {} /\ P[t] \in SUBSET O /\ all(W) \in SUBSET O
      <4>1. \A u \in W : u \in T /\ u # t /\ P[u] \in SUBSET O /\ P[t] \cap P[u] = {}
        BY <3>1
      <4>2. U = W \cup {t} /\ P[t] \in SUBSET O
        BY <3>1
      <4> HIDE DEF W
      <4> QED  BY <4>1, <4>2
    <3>5. Sum(f, P[t] \cup all(W)) = Sum(f, P[t]) + Sum(f, all(W))
      <4>1. \A o \in P[t] \cup all(W) : f[o] \in Int
        BY <1>0, <3>4
      <4>2. IsFiniteSet(P[t]) /\ IsFiniteSet(all(W))
        BY <1>0, <3>4
      <4> HIDE DEF all, W
      <4> QED  BY <3>4, <4>1, <4>2, SumUnion
    <3>6. Sum(h, W) = Sum(f, all(W))
      BY <3>2
    <3>7. Sum(h, U) = Sum(f, all(U))
      <4> HIDE DEF all, W
      <4> QED  BY <3>3, <3>4, <3>5, <3>6
    <3> QED  BY <3>7
  <2> QED  BY <2>1, <2>2
<1>2. \A U \in SUBSET T : U \in C
  <2> HIDE DEF C
  <2> QED  BY <1>1, SetInduction
<1> QED  BY <1>2

\* ... and the columns of a table m add up to what its rows, the columns of k, do.
Crossed(m, r, k, c, A, T) ==
    /\ IsFiniteSet(A) /\ IsFiniteSet(T)
    /\ \A a \in A : \A t \in T : m[a][t] \in Int /\ k[t][a] = m[a][t]
    /\ (\A a \in A : r[a] = Sum(m[a], T)) /\ \A t \in T : c[t] = Sum(k[t], A)

LEMMA SumSwap ==
    ASSUME NEW m, NEW r, NEW k, NEW c, NEW A, NEW T, Crossed(m, r, k, c, A, T)
    PROVE  Sum(r, A) = Sum(c, T)
<1> USE DEF Crossed
<1> DEFINE row(B) == [t \in T |-> Sum(k[t], B)]
           C == {B \in SUBSET A : Sum(r, B) = Sum(row(B), T)}
<1>1. ASSUME NEW B \in SUBSET A, \A W \in SUBSET B : W # B => W \in C PROVE B \in C
  <2>0. IsFiniteSet(B) /\ (\A a \in B : r[a] \in Int)
    <3>1. \A a \in A : Sum(m[a], T) \in Int
      BY SumRule
    <3> QED  BY <3>1, FS_Subset
  <2>1. CASE B = {}
    <3>1. Sum(r, B) = 0
      BY <2>0, <2>1, SumRule
    <3>2. \A t \in T : row(B)[t] = 0
      <4> TAKE t \in T
      <4>1. Sum(k[t], B) = 0
        BY <2>0, <2>1, SumRule
      <4> QED  BY <4>1
    <3>3. Sum(row(B), T) = 0
      <4> HIDE DEF row
      <4>1. \A t \in T : row(B)[t] \in Nat
        BY <3>2
      <4>2. Sum(row(B), T) \in Nat /\ (Sum(row(B), T) > 0 <=> \E t \in T : row(B)[t] > 0)
        BY <4>1, SumNat
      <4> QED  BY <3>2, <4>2
    <3> QED  BY <3>1, <3>3
  <2>2. CASE B # {}
    <3>1. PICK a \in B : TRUE
      BY <2>2
    <3> DEFINE W == B \ {a}
    <3>2. W \in C
      BY <1>1, <3>1
    <3>3. Sum(r, B) = r[a] + Sum(r, W) /\ r[a] = Sum(m[a], T)
      BY <2>0, <3>1, SumRule
    <3>4. \A t \in T : m[a][t] \in Int /\ row(W)[t] \in Int /\ row(B)[t] = m[a][t] + row(W)[t]
      <4> TAKE t \in T
      <4> DEFINE f == k[t]
      <4>1. (\A b \in B : f[b] \in Int) /\ f[a] = m[a][t]
        BY <3>1
      <4>2. row(B)[t] = Sum(f, B) /\ row(W)[t] = Sum(f, W)
        OBVIOUS
      <4> HIDE DEF f, row
      <4>3. Sum(f, B) = f[a] + Sum(f, W) /\ Sum(f, W) \in Int
        BY <2>0, <3>1, <4>1, SumRule
      <4>4. m[a][t] \in Int
        BY <3>1
      <4> QED  BY <4>1, <4>2, <4>3, <4>4
    <3>5. Sum(row(B), T) = Sum(m[a], T) + Sum(row(W), T)
      <4> HIDE DEF row, W
      <4> QED  BY <3>4, SumPlus
    <3>6. Sum(r, W) = Sum(row(W), T)
      BY <3>2
    <3>7. Sum(r, B) = Sum(row(B), T)
      <4> HIDE DEF row, W
      <4> QED  BY <3>3, <3>5, <3>6
    <3> QED  BY <3>7
  <2> QED  BY <2>1, <2>2
<1>2. \A B \in SUBSET A : B \in C
  <2> HIDE DEF C
  <2> QED  BY <1>1, SetInduction
<1>3. Sum(r, A) = Sum(row(A), T)
  BY <1>2
<1>4. \A t \in T : row(A)[t] \in Int /\ c[t] = row(A)[t]
  <2> TAKE t \in T
  <2> DEFINE f == k[t]
  <2>1. \A b \in A : f[b] \in Int
    OBVIOUS
  <2>2. row(A)[t] = Sum(f, A) /\ c[t] = Sum(f, A)
    OBVIOUS
  <2> HIDE DEF f, row
  <2>3. Sum(f, A) \in Int
    BY <2>1, SumRule
  <2> QED  BY <2>2, <2>3
<1>5. Sum(row(A), T) = Sum(c, T)
  <2> HIDE DEF row
  <2> QED  BY <1>4, SumSame
<1> QED  BY <1>3, <1>5

-----------------------------------------------------------------------------
(* The balance of the ledger *)

LEMMA WorthRule ==
    ASSUME NEW S \in SUBSET Outpoints
    PROVE  /\ IsFiniteSet(S) /\ (\A o \in S : Value[o] \in Nat /\ Value[o] \in Int)
           /\ Worth(S) = Sum(Value, S) /\ Worth(S) \in Nat
           /\ Worth(S) > 0 <=> \E o \in S : Value[o] > 0
<1>1. IsFiniteSet(S) /\ \A o \in S : Value[o] \in Nat
  BY WalletTxAssumption, FS_Subset
<1> QED  BY <1>1, SumNat DEF Worth

\* What GetBalance adds up.
Unspent == {o \in Mine : /\ Of[o] \in Wallet /\ IsTrusted(Of[o]) /\ ~BlocksToMaturity(Of[o])
                         /\ ~IsSpent(o)}

LEMMA BalanceIs ==
    ASSUME TxInv, Quiet, dropped = {}
    PROVE  GetBalance = Worth(Unspent)
<1> DEFINE T == {t \in Wallet : IsTrusted(t)}
           P == [t \in Txs |-> IF BlocksToMaturity(t) THEN {} ELSE {o \in Outs[t] \cap Mine : ~IsSpent(o)}]
           h == [t \in Txs |-> GetAvailableCredit(t)]
<1>1. IsFiniteSet(T) /\ T \subseteq Txs /\ T \subseteq Wallet /\ IsFiniteSet(Outpoints)
  BY WalletTxAssumption, FS_Subset DEF Wallet
<1>2. Bereft = {}
  BY DEF Bereft, SpentBy
<1>3. ASSUME NEW t \in T PROVE h[t] = Sum(Value, P[t])
  <2>1. t \in Txs /\ t \in Wallet \ Bereft
    BY <1>1, <1>2
  <2>2. avail[t] >= 0 => avail[t] = Credit(t)
    BY <2>1 DEF TxInv, Cached, Quiet
  <2>3. CASE BlocksToMaturity(t)
    <3>1. h[t] = 0 /\ P[t] = {}
      BY <2>1, <2>3 DEF GetAvailableCredit
    <3>2. Sum(Value, {}) = 0
      BY FS_EmptySet, SumRule
    <3> QED  BY <3>1, <3>2
  <2>4. CASE ~BlocksToMaturity(t)
    <3>1. h[t] = Credit(t)
      BY <2>1, <2>2, <2>4 DEF GetAvailableCredit
    <3>2. P[t] = {o \in Outs[t] \cap Mine : ~IsSpent(o)}
      BY <2>1, <2>4
    <3> QED  BY <3>1, <3>2 DEF Credit, Worth
  <2> QED  BY <2>3, <2>4
<1>4. ASSUME NEW t \in T PROVE P[t] \in SUBSET Outpoints /\ \A o \in P[t] : Of[o] = t
  <2>1. t \in Txs
    BY <1>1
  <2> QED  BY <2>1 DEF Outs
<1>5. \A t, u \in T : t # u => P[t] \cap P[u] = {}
  BY <1>4
<1>6. \A o \in Outpoints : Value[o] \in Int
  BY WorthRule
<1>7. UNION {P[t] : t \in T} = Unspent
  <2>1. ASSUME NEW o \in Unspent PROVE Of[o] \in T /\ o \in P[Of[o]]
    <3>1. Of[o] \in T /\ Of[o] \in Txs /\ o \in Outpoints
      BY <1>1, WalletTxAssumption DEF Unspent
    <3> QED  BY <3>1 DEF Unspent, Outs
  <2>2. ASSUME NEW t \in T, NEW o \in P[t] PROVE o \in Unspent
    <3>1. Of[o] = t /\ t \in Txs
      BY <1>1, <1>4
    <3> QED  BY <3>1 DEF Unspent
  <2> HIDE DEF P, T
  <2> QED  BY <2>1, <2>2
<1>8. GetBalance = Sum(h, T)
  BY DEF GetBalance
<1>9. Sum(h, T) = Sum(Value, UNION {P[t] : t \in T})
  <2> HIDE DEF h, T, P
  <2>1. \A t \in T : P[t] \in SUBSET Outpoints
    BY <1>4
  <2>2. \A t \in T : h[t] = Sum(Value, P[t])
    BY <1>3
  <2> QED  BY <1>1, <1>5, <1>6, <2>1, <2>2, SumParts
<1> QED  BY <1>7, <1>8, <1>9 DEF Worth

\* A recorded transaction is confirmed when its block is on the chain.
LEMMA DepthRule ==
    ASSUME Typed, NEW t \in Wallet
    PROVE  /\ t \in Txs /\ Depth(t) \in Int
           /\ Depth(t) >= 1 <=> mapWallet[t] \in Chain[tip]
           /\ Depth(t) = 0 <=> mapWallet[t] \notin Chain[tip] /\ t \in mempool
<1>1. CASE mapWallet[t] \in Chain[tip]
  <2>1. /\ Height[mapWallet[t]] \in Nat /\ Height[tip] \in Nat
        /\ Height[mapWallet[t]] <= Height[tip]
    BY <1>1, HeightOn DEF Typed
  <2>2. Depth(t) = Height[tip] - Height[mapWallet[t]] + 1
    BY <1>1 DEF Depth
  <2> QED  BY <1>1, <2>1, <2>2 DEF Wallet
<1>2. CASE mapWallet[t] \notin Chain[tip]
  <2>1. Depth(t) = IF t \in mempool THEN 0 ELSE -1
    BY <1>2 DEF Depth
  <2> QED  BY <1>2, <2>1 DEF Wallet
<1> QED  BY <1>1, <1>2

\* The wallet's account of the chain: ours on the chain are the confirmed ones.
LEMMA Confirmed ==
    ASSUME TxInv, undo # "lost", NEW t \in Txs, Ours(t)
    PROVE  t \in ChainTxs[tip] <=> mapWallet[t] \in Chain[tip]
<1>1. tip \in Blocks /\ SeenAt(tip) /\ Chain[tip] \subseteq Blocks
  BY ChainRule DEF TxInv, Typed, Known
<1>2. mapWallet[t] \in Chain[tip] => t \in TxsOf(mapWallet[t])
  BY <1>1 DEF TxInv, Places
<1>3. t \in ChainTxs[tip] <=> \E c \in Chain[tip] : t \in TxsOf(c)
  BY <1>1 DEF ChainTxs
<1> QED  BY <1>1, <1>2, <1>3 DEF SeenAt

\* For every set of transactions and every tree of blocks: with nothing pending
\* GetBalance is the value of our unspent and mature outputs on the active chain.
THEOREM BalanceIsLedgers == TxSpec => []LedgerBalance
<1>1. TxInv => LedgerBalance
  <2> SUFFICES ASSUME TxInv, Quiet, mempool = {}, undo # "lost", dropped = {}
               PROVE  GetBalance = Worth({o \in Mine : /\ Of[o] \in ChainTxs[tip] \ Immature
                                                       /\ o \notin SpentBy(ChainTxs[tip])})
    BY DEF LedgerBalance
  <2> DEFINE Y == {o \in Mine : /\ Of[o] \in ChainTxs[tip] \ Immature
                                /\ o \notin SpentBy(ChainTxs[tip])}
  <2>1. Typed /\ tip \in Blocks /\ ChainTxs[tip] \subseteq Txs /\ Absent \notin Chain[tip]
    <3>1. Typed /\ tip \in Blocks /\ Chain[tip] \subseteq Blocks
      BY ChainRule DEF TxInv, Typed
    <3>2. Absent \notin Chain[tip]
      BY <3>1, BlocksAssumption DEF Absent
    <3>3. \A c \in Chain[tip] : TxsOf(c) \subseteq Txs
      BY <3>1, VtxRule
    <3> QED  BY <3>1, <3>2, <3>3 DEF ChainTxs
  <2>2. ASSUME NEW o \in Mine
        PROVE  /\ o \in Outpoints /\ Of[o] \in Txs /\ Ours(Of[o])
               /\ Of[o] \in ChainTxs[tip] <=> mapWallet[Of[o]] \in Chain[tip]
    <3>1. o \in Outpoints /\ Of[o] \in Txs /\ Ours(Of[o])
      BY WalletTxAssumption DEF Ours
    <3> QED  BY <3>1, Confirmed
  <2>3. ASSUME NEW t \in Txs
        PROVE  /\ t \in Wallet => (IsTrusted(t) <=> mapWallet[t] \in Chain[tip])
               /\ Live(t) <=> mapWallet[t] \in Chain[tip]
    BY <2>1, DepthRule DEF IsTrusted, Live
  <2>4. Y \subseteq Unspent
    <3> SUFFICES ASSUME NEW o \in Y PROVE o \in Unspent
      OBVIOUS
    <3>1. o \in Mine /\ Of[o] \in Txs /\ Of[o] \in ChainTxs[tip] /\ mapWallet[Of[o]] \in Chain[tip]
      BY <2>2
    <3>2. Of[o] \in Wallet /\ IsTrusted(Of[o])
      BY <2>1, <2>3, <3>1 DEF Wallet
    <3>3. ~BlocksToMaturity(Of[o])
      BY <3>2 DEF Immature, BlocksToMaturity
    <3>4. ASSUME IsSpent(o) PROVE FALSE
      <4>1. PICK x \in Txs : o \in Ins[x] /\ Live(x)
        BY <2>1, <3>4, DepthLive
      <4>2. mapWallet[x] \in Chain[tip] /\ x \in Wallet
        BY <2>3, <4>1 DEF Live, Wallet
      <4>3. x \in ChainTxs[tip]
        BY <4>2, Confirmed DEF TxInv, Known
      <4> QED  BY <4>1, <4>3 DEF SpentBy
    <3> QED  BY <3>1, <3>2, <3>3, <3>4 DEF Unspent
  <2>5. ASSUME NEW o \in Unspent \ Y PROVE Value[o] = 0
    <3>1. o \in Mine /\ Of[o] \in Txs /\ Of[o] \in Wallet /\ mapWallet[Of[o]] \in Chain[tip]
      BY <2>2, <2>3 DEF Unspent
    <3>2. Of[o] \in ChainTxs[tip] \ Immature
      BY <2>2, <3>1 DEF Unspent, Immature
    <3>3. PICK x \in ChainTxs[tip] : o \in Ins[x]
      BY <3>1, <3>2 DEF SpentBy
    <3>4. x \in Txs /\ ~Live(x)
      BY <2>1, <3>3, DepthLive DEF Unspent
    <3>5. ASSUME Value[o] > 0 PROVE FALSE
      <4>1. Ours(x)
        BY <3>1, <3>3, <3>5 DEF Ours
      <4>2. mapWallet[x] \in Chain[tip]
        BY <3>3, <3>4, <4>1, Confirmed
      <4> QED  BY <2>3, <3>4, <4>2
    <3>6. Value[o] \in Nat
      BY <2>2, <3>1, WalletTxAssumption
    <3> QED  BY <3>5, <3>6
  <2>6. Unspent \in SUBSET Outpoints /\ Y \in SUBSET Outpoints
    BY <2>2 DEF Unspent
  <2>7. Worth(Unspent) = Worth(Y)
    <3>1. /\ IsFiniteSet(Unspent) /\ Worth(Unspent) = Sum(Value, Unspent)
          /\ Worth(Y) = Sum(Value, Y) /\ \A o \in Y : Value[o] \in Int
      BY <2>6, WorthRule
    <3> HIDE DEF Y
    <3>2. Sum(Value, Unspent) = Sum(Value, Y)
      BY <2>4, <2>5, <3>1, SumPart
    <3> QED  BY <3>1, <3>2
  <2> QED  BY <2>7, BalanceIs
<1> QED  BY <1>1, TxInvAlways, PTL

\* Every input on the chain of b spends an output that is there, and of a coinbase a
\* mature one; ...
Backed(b) ==
    \A c \in Chain[b] : \A t \in TxsOf(c) : \A o \in Ins[t] :
        \E d \in Chain[c] : /\ Of[o] \in TxsOf(d)
                            /\ Of[o] \in Coinbases => Height[c] - Height[d] >= COINBASE_MATURITY

\* ... none is spent twice.
Single(S) == \A t, u \in S : t # u => Ins[t] \cap Ins[u] = {}

\* The block the pool is in step with.
Base == IF phase \in {"connect", "connected"} THEN tip ELSE coins

Ledgered ==
    /\ \A b \in {tip, coins, diskTip} : Backed(b) /\ Single(ChainTxs[b])
    /\ Single(mempool) /\ SpentBy(mempool) \cap SpentBy(ChainTxs[Base]) = {}

LEMMA ChainTxsRule ==
    ASSUME NEW b \in Blocks
    PROVE  /\ ChainTxs[b] \subseteq Txs
           /\ \A t : t \in ChainTxs[b] <=> \E c \in Chain[b] : t \in TxsOf(c)
           /\ \A c \in Chain[b] : ChainTxs[c] \subseteq ChainTxs[b]
           /\ b # Root => ChainTxs[b] = ChainTxs[Prev[b]] \cup TxsOf(b)
<1>1. \A c \in Blocks : \A t : t \in ChainTxs[c] <=> \E d \in Chain[c] : t \in TxsOf(d)
  BY DEF ChainTxs
<1>2. \A c \in Chain[b] : c \in Blocks /\ Chain[c] \subseteq Chain[b]
  BY ChainRule
<1>3. \A c \in Blocks : TxsOf(c) \subseteq Txs
  BY VtxRule
<1>4. ChainTxs[b] \subseteq Txs
  BY <1>1, <1>2, <1>3
<1>5. \A c \in Chain[b] : ChainTxs[c] \subseteq ChainTxs[b]
  BY <1>1, <1>2
<1>6. ASSUME b # Root PROVE ChainTxs[b] = ChainTxs[Prev[b]] \cup TxsOf(b)
  <2>1. Prev[b] \in Blocks /\ Chain[b] = Chain[Prev[b]] \cup {b}
    BY <1>6, ChainRule
  <2> QED  BY <1>1, <2>1
<1> QED  BY <1>1, <1>4, <1>5, <1>6

LEMMA BackedBelow ==
    ASSUME NEW b \in Blocks, Backed(b), Single(ChainTxs[b]), NEW c \in Chain[b]
    PROVE  Backed(c) /\ Single(ChainTxs[c])
<1>1. Chain[c] \subseteq Chain[b] /\ ChainTxs[c] \subseteq ChainTxs[b]
  BY ChainRule, ChainTxsRule
<1> QED  BY <1>1 DEF Backed, Single

\* What ConnectBlock lets through is backed.
LEMMA BackedAbove ==
    ASSUME NEW b \in Blocks \ {Root}, Connectable(b), coins \in Blocks,
           Backed(coins), Single(ChainTxs[coins])
    PROVE  Backed(b) /\ Single(ChainTxs[b])
<1>1. /\ Prev[b] = coins /\ Chain[b] = Chain[coins] \cup {b} /\ b \in Chain[b]
      /\ Height[b] = Height[coins] + 1 /\ Height[coins] \in Nat
      /\ ChainTxs[b] = ChainTxs[coins] \cup TxsOf(b)
  BY ChainRule, ChainTxsRule DEF Connectable
<1>2. ASSUME NEW t \in TxsOf(b), NEW o \in Ins[t]
      PROVE  \E d \in Chain[b] : /\ Of[o] \in TxsOf(d)
                                 /\ Of[o] \in Coinbases => Height[b] - Height[d] >= COINBASE_MATURITY
  <2>1. PICK i \in DOMAIN Vtx[b] : Vtx[b][i] = t
    BY VtxRule
  <2> DEFINE before == ChainTxs[coins] \cup {Vtx[b][j] : j \in 1..(i - 1)}
  <2>2. \/ Of[o] \in ChainTxs[coins] /\ Mature(Of[o], coins)
        \/ Of[o] \in before \ (ChainTxs[coins] \cup Coinbases)
    BY <2>1 DEF Connectable
  <2>3. CASE Of[o] \in ChainTxs[coins] /\ Mature(Of[o], coins)
    <3> DEFINE d == BlockOf(Of[o], coins)
    <3>1. \E c \in Chain[coins] : Of[o] \in TxsOf(c)
      BY <2>3, ChainTxsRule
    <3>2. d \in Chain[coins] /\ Of[o] \in TxsOf(d)
      BY <3>1 DEF BlockOf
    <3>3. d \in Chain[b] /\ Height[d] \in Nat
      BY <1>1, <3>2, HeightOn
    <3>4. Of[o] \in Coinbases => Height[coins] + 1 - Height[d] >= COINBASE_MATURITY
      BY <2>3 DEF Mature
    <3> HIDE DEF d
    <3>5. Of[o] \in Coinbases => Height[b] - Height[d] >= COINBASE_MATURITY
      <4>1. Height[b] - Height[d] = Height[coins] + 1 - Height[d]
        BY <1>1, <3>3
      <4> QED  BY <3>4, <4>1, Zenon
    <3> QED  BY <3>2, <3>3, <3>5
  <2>4. CASE Of[o] \in before \ (ChainTxs[coins] \cup Coinbases)
    <3>1. PICK j \in 1..(i - 1) : Of[o] = Vtx[b][j]
      BY <2>4
    <3>2. j \in DOMAIN Vtx[b]
      <4>1. Vtx[b] \in Seq(Txs)
        BY VtxRule
      <4> QED  BY <2>1, <3>1, <4>1
    <3>3. Of[o] \in TxsOf(b)
      BY <3>1, <3>2, VtxRule
    <3> QED  BY <1>1, <2>4, <3>3
  <2> QED  BY <2>2, <2>3, <2>4
<1>3. Backed(b)
  <2> SUFFICES ASSUME NEW c \in Chain[b], NEW t \in TxsOf(c), NEW o \in Ins[t]
               PROVE  \E d \in Chain[c] : /\ Of[o] \in TxsOf(d)
                                          /\ Of[o] \in Coinbases => Height[c] - Height[d] >= COINBASE_MATURITY
    BY DEF Backed
  <2>1. CASE c = b
    BY <1>2, <2>1
  <2>2. CASE c \in Chain[coins]
    BY <2>2 DEF Backed
  <2> QED  BY <1>1, <2>1, <2>2
<1>4. ASSUME NEW i \in DOMAIN Vtx[b], NEW u \in ChainTxs[coins] PROVE Ins[Vtx[b][i]] \cap Ins[u] = {}
  <2> DEFINE before == ChainTxs[coins] \cup {Vtx[b][j] : j \in 1..(i - 1)}
  <2>1. Ins[Vtx[b][i]] \cap SpentBy(before) = {}
    BY DEF Connectable
  <2> QED  BY <2>1 DEF SpentBy
<1>5. ASSUME NEW i \in DOMAIN Vtx[b], NEW j \in 1..(i - 1) PROVE Ins[Vtx[b][i]] \cap Ins[Vtx[b][j]] = {}
  <2> DEFINE before == ChainTxs[coins] \cup {Vtx[b][k] : k \in 1..(i - 1)}
  <2>1. Ins[Vtx[b][i]] \cap SpentBy(before) = {}
    BY DEF Connectable
  <2> QED  BY <2>1 DEF SpentBy
<1>6. Single(ChainTxs[b])
  <2> SUFFICES ASSUME NEW t \in ChainTxs[b], NEW u \in ChainTxs[b], t # u PROVE Ins[t] \cap Ins[u] = {}
    BY DEF Single
  <2>1. CASE t \in ChainTxs[coins] /\ u \in ChainTxs[coins]
    BY <2>1 DEF Single
  <2>2. CASE t \in TxsOf(b) /\ u \in ChainTxs[coins]
    <3>1. PICK i \in DOMAIN Vtx[b] : Vtx[b][i] = t
      BY <2>2, VtxRule
    <3> QED  BY <1>4, <2>2, <3>1
  <2>3. CASE u \in TxsOf(b) /\ t \in ChainTxs[coins]
    <3>1. PICK i \in DOMAIN Vtx[b] : Vtx[b][i] = u
      BY <2>3, VtxRule
    <3> QED  BY <1>4, <2>3, <3>1
  <2>4. CASE t \in TxsOf(b) /\ u \in TxsOf(b)
    <3>1. PICK i \in DOMAIN Vtx[b] : Vtx[b][i] = t
      BY <2>4, VtxRule
    <3>2. PICK j \in DOMAIN Vtx[b] : Vtx[b][j] = u
      BY <2>4, VtxRule
    <3>3. i \in 1..(j - 1) \/ j \in 1..(i - 1)
      <4>1. Vtx[b] \in Seq(Txs) /\ i # j
        BY <3>1, <3>2, VtxRule
      <4> QED  BY <4>1
    <3> QED  BY <1>5, <3>1, <3>2, <3>3
  <2> QED  BY <1>1, <2>1, <2>2, <2>3, <2>4
<1> QED  BY <1>3, <1>6

\* Descendants holds what it starts from.
LEMMA DescendantsHold ==
    ASSUME NEW S \in SUBSET Txs, mempool \subseteq Txs
    PROVE  S \subseteq Descendants(S)
<1> DEFINE V == SUBSET Txs
           more(X) == X \cup {t \in mempool : \E o \in Ins[t] : Of[o] \in X}
           F == [i \in Nat |-> [X \in V |-> more(X)]]
           N == Cardinality(Txs)
           k == CHOOSE g : g = [n \in 0..N |-> IF n = 0 THEN S ELSE more(g[n - 1])]
<1>1. N \in Nat /\ N + 1 \in Nat /\ S \in V
  <2>1. IsFiniteSet(Txs)
    BY WalletTxAssumption
  <2>2. N \in Nat
    BY <2>1, FS_CardinalityType
  <2> HIDE DEF N
  <2> QED  BY <2>2
<1>2. Descendants(S) = k[N]
  BY DEF Descendants
<1>3. \A X \in V : more(X) \in V
  OBVIOUS
<1>4. F \in [Nat -> [V -> V]] /\ \A i \in Nat : \A X \in V : F[i][X] = more(X)
  <2> HIDE DEF V, more
  <2> QED  BY <1>3
<1> HIDE DEF F, V, N
<1>5. PICK r : Recurs(r, V, S, F, N + 1)
  BY <1>1, <1>4, Recursion, Zenon
<1> DEFINE G == [n \in 0..N |-> r[n + 1]]
<1>6. \A n \in 0..N : G[n] = IF n = 0 THEN S ELSE more(G[n - 1])
  <2> TAKE n \in 0..N
  <2>1. CASE n = 0
    BY <1>1, <1>5, <2>1 DEF Recurs
  <2>2. CASE n # 0
    <3>1. /\ n + 1 \in 2..(N + 1) /\ (n + 1) - 1 = n /\ n + 1 \in Nat
          /\ n - 1 \in 0..N /\ (n - 1) + 1 = n /\ n \in 1..(N + 1)
      BY <1>1, <2>2
    <3>2. r[n + 1] = F[n + 1][r[(n + 1) - 1]] /\ r[n] \in V
      BY <1>5, <3>1 DEF Recurs
    <3>3. G[n] = r[n + 1] /\ G[n - 1] = r[n]
      BY <3>1
    <3> HIDE DEF more, G
    <3>4. r[n + 1] = more(r[n])
      BY <1>4, <3>1, <3>2
    <3> QED  BY <2>2, <3>3, <3>4
  <2> QED  BY <2>1, <2>2
<1>7. G = [n \in 0..N |-> IF n = 0 THEN S ELSE more(G[n - 1])]
  <2>1. G = [n \in 0..N |-> G[n]]
    OBVIOUS
  <2> HIDE DEF G, more
  <2> QED  BY <1>6, <2>1, Zenon
<1> HIDE DEF G
<1>8. k = [n \in 0..N |-> IF n = 0 THEN S ELSE more(k[n - 1])]
  <2> HIDE DEF more
  <2> QED  BY <1>7, Zenon
<1> HIDE DEF k
<1>9. \A n \in 0..N : k[n] = IF n = 0 THEN S ELSE more(k[n - 1])
  <2> DEFINE q == [n \in 0..N |-> IF n = 0 THEN S ELSE more(k[n - 1])]
  <2>1. \A n \in 0..N : q[n] = IF n = 0 THEN S ELSE more(k[n - 1])
    OBVIOUS
  <2> HIDE DEF q, more
  <2>2. k = q
    BY <1>8 DEF q
  <2> QED  BY <2>1, <2>2
<1> DEFINE I == {n \in Nat : n <= N => S \subseteq k[n]}
<1>10. 0 \in I
  <2>1. 0 \in 0..N
    BY <1>1
  <2>2. k[0] = S
    <3> HIDE DEF more
    <3> QED  BY <1>9, <2>1
  <2> QED  BY <2>2
<1>11. ASSUME NEW n \in Nat, n \in I PROVE n + 1 \in I
  <2> SUFFICES ASSUME n + 1 <= N PROVE S \subseteq k[n + 1]
    OBVIOUS
  <2>1. n <= N /\ n + 1 \in 0..N /\ n + 1 # 0 /\ (n + 1) - 1 = n
    BY <1>1
  <2>2. k[n + 1] = more(k[n])
    <3> HIDE DEF more
    <3>1. k[n + 1] = more(k[(n + 1) - 1])
      BY <1>9, <2>1
    <3> QED  BY <2>1, <3>1
  <2> QED  BY <1>11, <2>1, <2>2
<1>12. N \in I
  <2> HIDE DEF I
  <2>1. \A n \in Nat : n \in I
    BY <1>10, <1>11, InductionOn
  <2> QED  BY <1>1, <2>1
<1> QED  BY <1>1, <1>2, <1>12

\* A step that moves to blocks below and adds nothing to the pool.
LEMMA LedgeredBelow ==
    ASSUME Typed, Ledgered, mempool' \subseteq mempool,
           \A b \in {tip', coins', diskTip'} : \E c \in {tip, coins, diskTip} : b \in Chain[c],
           mempool' = {} \/ Base' \in Chain[Base]
    PROVE  Ledgered'
<1>0. \A c \in {tip, coins, diskTip} : c \in Blocks /\ Backed(c) /\ Single(ChainTxs[c])
  BY DEF Typed, Ledgered
<1>1. ASSUME NEW b \in {tip', coins', diskTip'} PROVE Backed(b) /\ Single(ChainTxs[b])
  <2>1. PICK c \in {tip, coins, diskTip} : b \in Chain[c]
    OBVIOUS
  <2> QED  BY <1>0, <2>1, BackedBelow
<1>2. Single(mempool')
  BY DEF Ledgered, Single
<1>3. SpentBy(mempool') \cap SpentBy(ChainTxs[Base']) = {}
  <2>1. CASE mempool' = {}
    BY <2>1 DEF SpentBy
  <2>2. CASE Base' \in Chain[Base]
    <3>1. ChainTxs[Base'] \subseteq ChainTxs[Base]
      BY <1>0, <2>2, ChainTxsRule DEF Base
    <3>2. SpentBy(mempool) \cap SpentBy(ChainTxs[Base]) = {}
      BY DEF Ledgered
    <3>3. /\ SpentBy(mempool') \subseteq SpentBy(mempool)
          /\ SpentBy(ChainTxs[Base']) \subseteq SpentBy(ChainTxs[Base])
      BY <3>1 DEF SpentBy
    <3> QED  BY <3>2, <3>3
  <2> QED  BY <2>1, <2>2
<1>4. /\ \A b \in {tip', coins', diskTip'} : Backed(b) /\ Single(ChainTxs[b])
      /\ Single(mempool') /\ SpentBy(mempool') \cap SpentBy(ChainTxs[Base']) = {}
  BY <1>1, <1>2, <1>3
<1> QED  BY <1>4 DEF Ledgered

\* A transaction that the pool accepts.
LEMMA LedgeredAccept ==
    ASSUME Typed, Places, Ledgered, NEW t \in Txs, Acceptable(t), mempool' = mempool \cup {t},
           UNCHANGED <<tip, coins, diskTip, phase>>
    PROVE  Ledgered'
<1>1. Base \in Blocks /\ pcoinsTip \in Blocks /\ Base' = Base
  BY DEF Base, pcoinsTip, Typed
<1>2. Base \in Chain[pcoinsTip]
  BY ChainRule DEF Base, pcoinsTip, Typed, Places
<1>3. Ins[t] \cap SpentBy(mempool \cup ChainTxs[pcoinsTip]) = {}
  BY DEF Acceptable
<1>4. ChainTxs[Base] \subseteq ChainTxs[pcoinsTip]
  BY <1>1, <1>2, ChainTxsRule
<1>5. \A u \in mempool \cup ChainTxs[Base] : Ins[t] \cap Ins[u] = {}
  BY <1>3, <1>4 DEF SpentBy
<1>6. Single(mempool')
  BY <1>5 DEF Ledgered, Single
<1>7. SpentBy(mempool') \cap SpentBy(ChainTxs[Base]) = {}
  <2>1. SpentBy(mempool') = SpentBy(mempool) \cup Ins[t]
    BY DEF SpentBy
  <2>2. Ins[t] \cap SpentBy(ChainTxs[Base]) = {}
    BY <1>5 DEF SpentBy
  <2>3. SpentBy(mempool) \cap SpentBy(ChainTxs[Base]) = {}
    BY DEF Ledgered
  <2> QED  BY <2>1, <2>2, <2>3
<1>8. /\ \A b \in {tip', coins', diskTip'} : Backed(b) /\ Single(ChainTxs[b])
      /\ Single(mempool') /\ SpentBy(mempool') \cap SpentBy(ChainTxs[Base']) = {}
  BY <1>1, <1>6, <1>7 DEF Ledgered
<1> QED  BY <1>8 DEF Ledgered

LEMMA LedgeredNext ==
    ASSUME Typed, Places, Ledgered, TxNext
    PROVE  Ledgered'
<1> USE DEF node
<1>0. /\ tip \in Blocks /\ coins \in Blocks /\ diskTip \in Blocks
      /\ tip \in Chain[tip] /\ coins \in Chain[coins] /\ diskTip \in Chain[diskTip]
      /\ Base \in {tip, coins} /\ Base \in Chain[Base]
  BY ChainRule DEF Typed, Base
<1>1. ASSUME UNCHANGED node, phase' = phase PROVE Ledgered'
  <2>1. Base' = Base
    BY <1>1 DEF Base
  <2> QED  BY <1>0, <1>1, <2>1, LedgeredBelow
<1>2. CASE getbalance \/ SyncWithWallets \/ ScanForWalletTransactions
  BY <1>1, <1>2 DEF getbalance, SyncWithWallets, ScanForWalletTransactions
<1>3. ASSUME NEW t \in (Txs \ Own) \cup Wallet, ReceiveTx(t) PROVE Ledgered'
  <2>1. t \in Txs
    BY <1>3 DEF Wallet
  <2> QED  BY <1>3, <2>1, LedgeredAccept DEF ReceiveTx, Quiet
<1>4. ASSUME NEW t \in Own, CommitTransaction(t) PROVE Ledgered'
  <2>1. t \in Txs /\ UNCHANGED <<tip, coins, diskTip, phase>>
    BY <1>4, WalletTxAssumption DEF CommitTransaction
  <2>2. CASE Acceptable(t)
    BY <1>4, <2>1, <2>2, LedgeredAccept DEF CommitTransaction
  <2>3. CASE ~Acceptable(t)
    BY <1>1, <1>4, <2>1, <2>3 DEF CommitTransaction
  <2> QED  BY <2>2, <2>3
<1>5. ASSUME NEW b \in Blocks \ {Root}, ConnectBlock(b) PROVE Ledgered'
  <2>1. /\ tip = coins /\ phase = "idle" /\ phase' = "connect" /\ coins' = b
        /\ UNCHANGED <<tip, mempool, diskTip>>
    BY <1>5 DEF ConnectBlock, Quiet
  <2>2. Backed(b) /\ Single(ChainTxs[b])
    BY <1>0, <1>5, BackedAbove DEF ConnectBlock, Ledgered
  <2>3. Base' = tip /\ Base = tip
    BY <2>1 DEF Base
  <2>4. /\ \A c \in {tip', coins', diskTip'} : Backed(c) /\ Single(ChainTxs[c])
        /\ Single(mempool') /\ SpentBy(mempool') \cap SpentBy(ChainTxs[Base']) = {}
    BY <2>1, <2>2, <2>3 DEF Ledgered
  <2> QED  BY <2>4 DEF Ledgered
<1>6. CASE FlushConnected
  <2>1. /\ phase = "connect" /\ phase' = "connected" /\ UNCHANGED <<tip, coins, mempool>>
        /\ diskTip' \in {diskTip, coins}
    BY <1>6 DEF FlushConnected, Flush
  <2>2. Base' = Base
    BY <2>1 DEF Base
  <2> QED  BY <1>0, <2>1, <2>2, LedgeredBelow
<1>7. CASE ConnectTip
  <2>1. phase = "connected" /\ phase' = "idle" /\ tip' = coins /\ UNCHANGED <<coins, diskTip>>
        /\ mempool' = mempool \ Removed(coins)
    BY <1>7 DEF ConnectTip, UpdateTip
  <2>2. coins # Root /\ Prev[coins] = tip
    BY <2>1 DEF Places
  <2>3. Base = tip /\ Base' = coins
    BY <2>1 DEF Base
  <2>4. ChainTxs[coins] = ChainTxs[tip] \cup TxsOf(coins)
    BY <1>0, <2>2, ChainTxsRule
  <2>5. ASSUME NEW t \in mempool', NEW o \in Ins[t], o \in SpentBy(TxsOf(coins)) PROVE FALSE
    <3> DEFINE S == {x \in mempool \ TxsOf(coins) : Ins[x] \cap SpentBy(TxsOf(coins)) # {}}
    <3>1. t \in mempool /\ t \notin TxsOf(coins) /\ t \notin Conflicted(coins)
      BY <2>1, <2>5 DEF Removed
    <3>2. t \in S
      BY <2>5, <3>1
    <3>3. S \subseteq Descendants(S)
      <4>1. mempool \subseteq Txs
        BY DEF Typed
      <4>2. S \in SUBSET Txs
        BY <4>1
      <4> HIDE DEF S
      <4> QED  BY <4>1, <4>2, DescendantsHold
    <3>4. Conflicted(coins) = Descendants(S) \cap mempool
      BY DEF Conflicted
    <3> QED  BY <3>1, <3>2, <3>3, <3>4
  <2>6. SpentBy(mempool') \cap SpentBy(ChainTxs[coins]) = {}
    <3>1. SpentBy(ChainTxs[coins]) = SpentBy(ChainTxs[tip]) \cup SpentBy(TxsOf(coins))
      BY <2>4 DEF SpentBy
    <3>2. SpentBy(mempool') \subseteq SpentBy(mempool)
      BY <2>1 DEF SpentBy
    <3>3. SpentBy(mempool) \cap SpentBy(ChainTxs[tip]) = {}
      BY <2>3 DEF Ledgered
    <3>4. SpentBy(mempool') \cap SpentBy(TxsOf(coins)) = {}
      BY <2>5 DEF SpentBy
    <3> QED  BY <3>1, <3>2, <3>3, <3>4
  <2>7. Single(mempool')
    BY <2>1 DEF Ledgered, Single
  <2>8. /\ \A c \in {tip', coins', diskTip'} : Backed(c) /\ Single(ChainTxs[c])
        /\ Single(mempool') /\ SpentBy(mempool') \cap SpentBy(ChainTxs[Base']) = {}
    BY <2>1, <2>3, <2>6, <2>7 DEF Ledgered
  <2> QED  BY <2>8 DEF Ledgered
<1>8. CASE DisconnectBlock
  <2>1. /\ tip = coins /\ tip # Root /\ coins' = Prev[tip]
        /\ phase = "idle" /\ phase' = "disconnect" /\ UNCHANGED <<tip, mempool, diskTip>>
    BY <1>8 DEF DisconnectBlock, Quiet
  <2>2. Prev[tip] \in Chain[tip]
    BY <1>0, <2>1, ChainRule
  <2>3. Base' \in Chain[Base]
    BY <2>1, <2>2 DEF Base
  <2> QED  BY <1>0, <2>1, <2>2, <2>3, LedgeredBelow
<1>9. CASE FlushDisconnected
  <2>1. /\ phase = "disconnect" /\ phase' = "resurrect" /\ UNCHANGED <<tip, coins, mempool>>
        /\ diskTip' \in {diskTip, coins}
    BY <1>9 DEF FlushDisconnected, Flush
  <2>2. Base' = Base
    BY <2>1 DEF Base
  <2> QED  BY <1>0, <2>1, <2>2, LedgeredBelow
<1>10. CASE Resurrect
  <2> DEFINE t == todo[1][1]
  <2>1. /\ phase = "resurrect" /\ UNCHANGED <<tip, coins, diskTip, phase>> /\ todo # <<>>
        /\ \/ mempool' = mempool
           \/ Acceptable(t) /\ mempool' = mempool \cup {t}
           \/ mempool' = mempool \ Descendants({t})
    BY <1>10 DEF Resurrect, wallet
  <2>2. t \in Txs
    <3>1. Scope = tip /\ todo \in Seq(Notes(tip))
      BY <2>1 DEF Scope, Typed
    <3> QED  BY <1>0, <2>1, <3>1, TodoRule
  <2>3. Base' = Base
    BY <2>1 DEF Base
  <2> HIDE DEF t
  <2>4. CASE mempool' \subseteq mempool
    BY <1>0, <2>1, <2>3, <2>4, LedgeredBelow
  <2>5. CASE Acceptable(t) /\ mempool' = mempool \cup {t}
    BY <2>1, <2>2, <2>5, LedgeredAccept
  <2> QED  BY <2>1, <2>4, <2>5
<1>11. CASE DisconnectTip
  <2>1. phase = "resurrect" /\ phase' = "idle" /\ tip' = coins /\ UNCHANGED <<coins, mempool, diskTip>>
    BY <1>11 DEF DisconnectTip, UpdateTip
  <2>2. Base' = Base
    BY <2>1 DEF Base
  <2> QED  BY <1>0, <2>1, <2>2, LedgeredBelow
<1>12. CASE Die
  BY <1>0, <1>12, LedgeredBelow DEF Die
<1>13. CASE EndScan
  <2>1. phase = "start" /\ phase' = "reaccept" /\ UNCHANGED node
    BY <1>13 DEF EndScan
  <2>2. Base' = Base
    BY <2>1 DEF Base
  <2> QED  BY <1>0, <2>1, <2>2, LedgeredBelow
<1>14. CASE ReacceptWalletTransactions
  <2>1. phase = "reaccept" /\ UNCHANGED <<tip, coins, diskTip>>
    BY <1>14 DEF ReacceptWalletTransactions
  <2>2. CASE mempool' = mempool
    <3>1. phase' \in {"reaccept", "idle"}
      BY <1>14, <2>1 DEF ReacceptWalletTransactions
    <3>2. Base' = Base
      BY <2>1, <3>1 DEF Base
    <3> QED  BY <1>0, <2>1, <2>2, <3>2, LedgeredBelow
  <2>3. CASE mempool' # mempool
    <3>1. PICK i \in DOMAIN todo : /\ Acceptable(todo[i][1]) /\ phase' = phase
                                   /\ mempool' = mempool \cup {todo[i][1]}
      BY <1>14, <2>3 DEF ReacceptWalletTransactions, wallet
    <3>2. todo[i][1] \in Txs
      BY <3>1 DEF Typed, Notes
    <3> QED  BY <2>1, <3>1, <3>2, LedgeredAccept
  <2> QED  BY <2>2, <2>3
<1> QED  BY <1>2, <1>3, <1>4, <1>5, <1>6, <1>7, <1>8, <1>9, <1>10, <1>11, <1>12, <1>13, <1>14 DEF TxNext

LEMMA LedgeredAlways == TxSpec => []Ledgered
<1>1. TxInit => Ledgered
  <2> SUFFICES ASSUME TxInit PROVE Ledgered
    OBVIOUS
  <2>1. /\ tip = Root /\ coins = Root /\ diskTip = Root /\ mempool = {}
    BY DEF TxInit
  <2>2. Root \in Blocks /\ Chain[Root] = {Root} /\ \A t \in TxsOf(Root) : t \in Coinbases
    BY BlocksAssumption DEF TxsOf
  <2>3. \A t \in TxsOf(Root) : Ins[t] = {}
    BY <2>2, WalletTxAssumption
  <2>4. ChainTxs[Root] = TxsOf(Root)
    BY <2>2, ChainTxsRule
  <2>5. Backed(Root) /\ Single(ChainTxs[Root]) /\ Single({}) /\ SpentBy({}) = {}
    BY <2>2, <2>3, <2>4 DEF Backed, Single, SpentBy
  <2> QED  BY <2>1, <2>5 DEF Ledgered
<1>2. TxInv /\ Ledgered /\ [TxNext]_txVars => Ledgered'
  <2> SUFFICES ASSUME TxInv, Ledgered, [TxNext]_txVars PROVE Ledgered'
    OBVIOUS
  <2>1. CASE TxNext
    BY <2>1, LedgeredNext DEF TxInv
  <2>2. CASE UNCHANGED txVars
    BY <2>2 DEF Ledgered, Base, txVars, node
  <2> QED  BY <2>1, <2>2
<1> QED  BY <1>1, <1>2, TxInvAlways, PTL DEF TxSpec

-----------------------------------------------------------------------------
(* The two computations of the balance *)

LEMMA WorthUnion ==
    ASSUME NEW S \in SUBSET Outpoints, NEW T \in SUBSET Outpoints, S \cap T = {}
    PROVE  Worth(S \cup T) = Worth(S) + Worth(T)
<1>1. IsFiniteSet(S) /\ IsFiniteSet(T)
  BY WorthRule
<1>2. \A o \in S \cup T : Value[o] \in Int
  BY WorthRule
<1> QED  BY <1>1, <1>2, SumUnion DEF Worth

\* A debit is what comes from us.
LEMMA DebitRule ==
    ASSUME NEW t \in Txs
    PROVE  GetDebit(t) \in Nat /\ (GetDebit(t) > 0 <=> IsFromMe(t))
<1> DEFINE S == {o \in Ins[t] \cap Mine : mapWallet[Of[o]] # Absent}
<1>1. S \in SUBSET Outpoints
  BY WalletTxAssumption
<1>2. GetDebit(t) = Worth(S)
  BY DEF GetDebit
<1>3. IsFromMe(t) <=> \E o \in S : Value[o] > 0
  BY DEF IsFromMe
<1> HIDE DEF S
<1> QED  BY <1>1, <1>2, <1>3, WorthRule

LEMMA AmountRule ==
    ASSUME NEW t \in Txs
    PROVE  /\ Worth(Received(t)) \in Nat /\ Worth(Sent(t)) \in Nat /\ Fee(t) \in Int
           /\ Received(t) \in SUBSET Outpoints
           /\ ~IsFromMe(t) => Worth(Sent(t)) = 0 /\ Fee(t) = 0
           /\ Worth(Outs[t] \cap Mine) \in Nat
           /\ Worth(Received(t)) - Worth(Sent(t)) - Fee(t) = Worth(Outs[t] \cap Mine) - GetDebit(t)
<1> DEFINE change == {o \in Outs[t] : IsChange(o)}
           kept == {o \in Outs[t] \cap Mine : ~IsChange(o)}
           other == {o \in Outs[t] : ~IsChange(o)}
<1>1. Outs[t] \in SUBSET Outpoints /\ Received(t) \in SUBSET Outpoints /\ Sent(t) \in SUBSET Outpoints
  BY DEF Outs, Received, Sent
<1>2. change \in SUBSET Outpoints /\ kept \in SUBSET Outpoints /\ other \in SUBSET Outpoints
      /\ Outs[t] \cap Mine \in SUBSET Outpoints
  BY <1>1
<1>3. Outs[t] \cap Mine = kept \cup change /\ kept \cap change = {}
  BY DEF IsChange
<1>4. Outs[t] = other \cup change /\ other \cap change = {}
  OBVIOUS
<1>5. GetDebit(t) \in Nat /\ (GetDebit(t) > 0 <=> IsFromMe(t))
  BY DebitRule
<1>6. CASE GetDebit(t) > 0
  <2>1. Received(t) = kept /\ Sent(t) = other /\ Fee(t) = GetDebit(t) - Worth(Outs[t])
    BY <1>6 DEF Received, Sent, Fee
  <2> HIDE DEF change, kept, other
  <2>2. Worth(Outs[t] \cap Mine) = Worth(kept) + Worth(change) /\ Worth(Outs[t]) = Worth(other) + Worth(change)
    BY <1>2, <1>3, <1>4, WorthUnion
  <2>3. Worth(kept) \in Nat /\ Worth(change) \in Nat /\ Worth(other) \in Nat
    BY <1>2, WorthRule
  <2>4. /\ Worth(Received(t)) = Worth(kept) /\ Worth(Sent(t)) = Worth(other)
        /\ Fee(t) = GetDebit(t) - (Worth(other) + Worth(change))
    BY <2>1, <2>2
  <2> QED  BY <1>1, <1>5, <1>6, <2>2, <2>3, <2>4
<1>7. CASE ~(GetDebit(t) > 0)
  <2>1. Received(t) = Outs[t] \cap Mine /\ Sent(t) = {} /\ Fee(t) = 0
    BY <1>7 DEF Received, Sent, Fee
  <2>2. Worth(Sent(t)) = 0
    <3>1. Worth({}) \in Nat /\ (Worth({}) > 0 <=> \E o \in {} : Value[o] > 0)
      BY WorthRule
    <3> QED  BY <2>1, <3>1
  <2>3. GetDebit(t) = 0 /\ Worth(Outs[t] \cap Mine) \in Nat /\ Worth(Received(t)) = Worth(Outs[t] \cap Mine)
    BY <1>2, <1>5, <1>7, <2>1, WorthRule
  <2> QED  BY <1>1, <2>1, <2>2, <2>3
<1> QED  BY <1>6, <1>7

\* What t adds to the balance of "*", and to that of an account.
Amount(t, minDepth) ==
    (IF Depth(t) >= minDepth THEN Worth(Received(t)) ELSE 0) - Worth(Sent(t)) - Fee(t)
AmountOf(a, t, minDepth) ==
    (IF Depth(t) >= minDepth THEN Worth({o \in Received(t) : Label(o) = a}) ELSE 0)
      - (IF strFromAccount(t) = a THEN Worth(Sent(t)) + Fee(t) ELSE 0)

LEMMA SumOne ==
    ASSUME NEW x, NEW f, f[x] \in Int
    PROVE  Sum(f, {x}) = f[x]
<1>1. IsFiniteSet({x}) /\ {x} \ {x} = {} /\ IsFiniteSet({})
  BY FS_Singleton, FS_EmptySet
<1>2. Sum(f, {x}) = f[x] + Sum(f, {x} \ {x})
  BY <1>1, SumRule
<1>3. Sum(f, {}) = 0
  BY <1>1, SumRule
<1>4. Sum(f, {x} \ {x}) = 0
  BY <1>1, <1>3
<1> QED  BY <1>2, <1>4

\* The accounts share the amount of a transaction.
LEMMA AmountShared ==
    ASSUME NEW t \in Txs, NEW m \in Nat
    PROVE  /\ Amount(t, m) \in Int /\ \A a \in Accounts : AmountOf(a, t, m) \in Int
           /\ Sum([a \in Accounts |-> AmountOf(a, t, m)], Accounts) = Amount(t, m)
<1> DEFINE P == [a \in Accounts |-> {o \in Received(t) : Label(o) = a}]
           in == [a \in Accounts |-> Worth(P[a])]
           got == [a \in Accounts |-> IF Depth(t) >= m THEN Worth(P[a]) ELSE 0]
           out == [a \in Accounts |-> IF strFromAccount(t) = a THEN Worth(Sent(t)) + Fee(t) ELSE 0]
           net == [a \in Accounts |-> AmountOf(a, t, m)]
           total == IF Depth(t) >= m THEN Worth(Received(t)) ELSE 0
           s == strFromAccount(t)
<1>1. /\ Worth(Received(t)) \in Nat /\ Worth(Sent(t)) \in Nat /\ Fee(t) \in Int
      /\ Received(t) \in SUBSET Outpoints
  BY AmountRule
<1>2. IsFiniteSet(Accounts) /\ s \in Accounts /\ \A o \in Outpoints : Label(o) \in Accounts
  BY WalletTxAssumption DEF strFromAccount, Label
<1>3. \A a \in Accounts : P[a] \in SUBSET Outpoints /\ P[a] \in SUBSET Received(t) /\ Worth(P[a]) \in Nat
  <2> TAKE a \in Accounts
  <2>1. P[a] \in SUBSET Outpoints /\ P[a] \in SUBSET Received(t)
    BY <1>1
  <2> QED  BY <2>1, WorthRule
<1>4. Sum(in, Accounts) = Worth(Received(t))
  <2>1. UNION {P[a] : a \in Accounts} = Received(t)
    <3>1. \A o \in Received(t) : Label(o) \in Accounts /\ o \in P[Label(o)]
      BY <1>1, <1>2
    <3> QED  BY <1>3, <3>1
  <2>2. \A a, b \in Accounts : a # b => P[a] \cap P[b] = {}
    OBVIOUS
  <2>3. \A a \in Accounts : in[a] = Sum(Value, P[a])
    BY DEF Worth
  <2>4. IsFiniteSet(Received(t)) /\ \A o \in Received(t) : Value[o] \in Int
    BY <1>1, WorthRule
  <2> HIDE DEF P, in
  <2>5. \A a \in Accounts : P[a] \in SUBSET Received(t)
    BY <1>3
  <2>6. Sum(in, Accounts) = Sum(Value, UNION {P[a] : a \in Accounts})
    BY <1>2, <2>2, <2>3, <2>4, <2>5, SumParts
  <2> QED  BY <2>1, <2>6 DEF Worth
<1>5. Sum(got, Accounts) = total /\ \A a \in Accounts : got[a] \in Nat
  <2>1. CASE Depth(t) >= m
    <3>1. \A a \in Accounts : in[a] \in Int /\ got[a] = in[a] /\ got[a] \in Nat
      BY <1>3, <2>1
    <3>2. total = Worth(Received(t))
      BY <2>1
    <3> HIDE DEF in, got, total
    <3>3. Sum(in, Accounts) = Sum(got, Accounts)
      BY <1>2, <3>1, SumSame
    <3> QED  BY <1>4, <3>1, <3>2, <3>3
  <2>2. CASE ~(Depth(t) >= m)
    <3>1. (\A a \in Accounts : got[a] = 0 /\ got[a] \in Nat) /\ total = 0
      BY <2>2
    <3> HIDE DEF got, total
    <3>2. Sum(got, Accounts) \in Nat /\ (Sum(got, Accounts) > 0 <=> \E a \in Accounts : got[a] > 0)
      BY <1>2, <3>1, SumNat
    <3> QED  BY <3>1, <3>2
  <2> QED  BY <2>1, <2>2
<1>6. Sum(out, Accounts) = Worth(Sent(t)) + Fee(t) /\ \A a \in Accounts : out[a] \in Int
  <2>1. /\ out[s] = Worth(Sent(t)) + Fee(t) /\ (\A a \in Accounts : out[a] \in Int)
        /\ \A a \in Accounts \ {s} : out[a] = 0
    BY <1>1, <1>2
  <2> HIDE DEF out, s
  <2>2. {s} \in SUBSET Accounts /\ \A x \in {s} : out[x] \in Int
    BY <1>2, <2>1
  <2>3. Sum(out, Accounts) = Sum(out, {s})
    BY <1>2, <2>1, <2>2, SumPart
  <2>4. Sum(out, {s}) = out[s]
    BY <2>2, SumOne
  <2> QED  BY <2>1, <2>3, <2>4
<1>7. \A a \in Accounts : net[a] = got[a] - out[a] /\ net[a] = AmountOf(a, t, m)
  BY DEF AmountOf
<1>8. \A a \in Accounts : net[a] \in Int /\ out[a] \in Int /\ got[a] = net[a] + out[a]
  <2> HIDE DEF net, got, out
  <2> QED  BY <1>5, <1>6, <1>7
<1>9. Sum(got, Accounts) = Sum(net, Accounts) + Sum(out, Accounts) /\ Sum(net, Accounts) \in Int
  <2> HIDE DEF net, got, out
  <2>1. \A a \in Accounts : net[a] \in Int
    BY <1>8
  <2> QED  BY <1>2, <1>8, <2>1, SumPlus, SumRule
<1>10. Amount(t, m) = total - Worth(Sent(t)) - Fee(t) /\ total \in Nat
  BY <1>1 DEF Amount
<1>11. Amount(t, m) \in Int /\ Sum(net, Accounts) = Amount(t, m)
  <2> DEFINE x == Worth(Sent(t))
             n == Sum(net, Accounts)
             g == Sum(got, Accounts)
             p == Sum(out, Accounts)
  <2>1. /\ x \in Nat /\ Fee(t) \in Int /\ g = total /\ p = x + Fee(t)
        /\ g = n + p /\ n \in Int /\ total \in Nat /\ Amount(t, m) = total - x - Fee(t)
    <3> HIDE DEF net, got, out, total
    <3> QED  BY <1>1, <1>5, <1>6, <1>9, <1>10
  <2> HIDE DEF net, got, out, total, x, n, g, p
  <2>2. g \in Int /\ p \in Int /\ n = g - p /\ g - p = total - x - Fee(t)
    BY <2>1
  <2>3. Amount(t, m) \in Int /\ n = Amount(t, m)
    BY <2>1, <2>2
  <2> QED  BY <2>3 DEF n
<1> QED  BY <1>7, <1>8, <1>11

\* The balances of the accounts add up.
LEMMA AccountsAddUp ==
    ASSUME Typed, PendingTrusted
    PROVE  Sum([a \in Accounts |-> AccountBalance(a, 1)], Accounts) = BalanceAll(1)
<1> DEFINE T == {t \in Wallet : IsTrusted(t) /\ ~BlocksToMaturity(t)}
           U == {t \in Wallet : ~BlocksToMaturity(t) /\ Depth(t) >= 0}
           m == [a \in Accounts |-> [t \in Txs |-> AmountOf(a, t, 1)]]
           r == [a \in Accounts |-> AccountBalance(a, 1)]
           c == [t \in Txs |-> Amount(t, 1)]
<1>1. BalanceAll(1) = Sum(c, T)
  BY DEF BalanceAll, Amount
<1>2. \A a \in Accounts : AccountBalance(a, 1) = Sum(m[a], U)
  BY DEF AccountBalance, AmountOf
<1>3. /\ IsFiniteSet(U) /\ IsFiniteSet(Accounts) /\ U \subseteq Txs /\ T \subseteq Txs
      /\ \A t \in T : t \in Wallet
  BY WalletTxAssumption, FS_Subset DEF Wallet
<1>4. \A a \in Accounts : \A t \in U : m[a][t] = AmountOf(a, t, 1) /\ m[a][t] \in Int
  BY <1>3, AmountShared
<1>5. ASSUME NEW t \in U PROVE c[t] = Sum([a \in Accounts |-> m[a][t]], Accounts) /\ c[t] \in Int
  <2>1. t \in Txs /\ c[t] = Amount(t, 1)
    BY <1>3
  <2>2. [a \in Accounts |-> m[a][t]] = [a \in Accounts |-> AmountOf(a, t, 1)]
    BY <1>4
  <2>3. Sum([a \in Accounts |-> AmountOf(a, t, 1)], Accounts) = Amount(t, 1) /\ Amount(t, 1) \in Int
    BY <2>1, AmountShared
  <2> HIDE DEF c, m
  <2> QED  BY <2>1, <2>2, <2>3
<1>6. Sum(r, Accounts) = Sum(c, U)
  <2>1. \A a \in Accounts : r[a] = Sum(m[a], U)
    BY <1>2
  <2>2. \A a \in Accounts : \A t \in U : m[a][t] \in Int
    BY <1>4
  <2> DEFINE k == [t \in U |-> [a \in Accounts |-> m[a][t]]]
  <2>3. \A t \in U : c[t] = Sum(k[t], Accounts)
    <3> HIDE DEF c, m
    <3> QED  BY <1>5
  <2>4. \A t \in U : \A a \in Accounts : k[t][a] = m[a][t]
    OBVIOUS
  <2> HIDE DEF r, c, U, T, m, k
  <2>5. Crossed(m, r, k, c, Accounts, U)
    BY <1>3, <2>1, <2>2, <2>3, <2>4 DEF Crossed
  <2> QED  BY <2>5, SumSwap
<1>7. T \in SUBSET U
  <2> SUFFICES ASSUME NEW t \in T PROVE Depth(t) >= 0
    OBVIOUS
  <2>1. t \in Wallet /\ Depth(t) \in Int
    BY <1>3, DepthRule
  <2> QED  BY <2>1 DEF IsTrusted
<1>8. ASSUME NEW t \in U \ T PROVE c[t] = 0
  <2>1. t \in Txs /\ t \in Wallet /\ ~IsTrusted(t) /\ Depth(t) >= 0
    BY <1>3
  <2>2. Depth(t) = 0 /\ t \in mempool
    <3>1. Depth(t) \in Int
      BY <2>1, DepthRule
    <3>2. ~(Depth(t) >= 1)
      BY <2>1 DEF IsTrusted
    <3>3. Depth(t) = 0
      BY <2>1, <3>1, <3>2
    <3> QED  BY <2>1, <3>3, DepthRule
  <2>3. ~IsFromMe(t)
    BY <2>1, <2>2 DEF PendingTrusted
  <2>4. Worth(Sent(t)) = 0 /\ Fee(t) = 0
    BY <2>1, <2>3, AmountRule
  <2> QED  BY <2>1, <2>2, <2>4 DEF Amount
<1>9. Sum(c, U) = Sum(c, T)
  <2>1. \A t \in T : c[t] \in Int
    BY <1>5, <1>7
  <2> HIDE DEF c, U, T
  <2> QED  BY <1>3, <1>7, <1>8, <2>1, SumPart
<1> QED  BY <1>1, <1>6, <1>9

\* What is spent on the chain counts as confirmed and mature.
LEMMA SpentCounts ==
    ASSUME TxInv, Ledgered, undo # "lost", NEW t \in Txs, mapWallet[t] \in Chain[tip],
           NEW o \in Ins[t] \cap Mine
    PROVE  Of[o] \in Wallet /\ IsTrusted(Of[o]) /\ ~BlocksToMaturity(Of[o])
<1> DEFINE c == mapWallet[t]
           x == Of[o]
           e == mapWallet[x]
<1>1. Typed /\ tip \in Blocks /\ Once(tip) /\ Chain[tip] \subseteq Blocks /\ Absent \notin Chain[tip]
  BY ChainRule, BlocksAssumption DEF TxInv, Typed, Known, Absent
<1>2. c \in Blocks /\ t \in TxsOf(c) /\ Chain[c] \subseteq Chain[tip] /\ Backed(tip)
  BY <1>1, ChainRule DEF TxInv, Places, Ledgered
<1>3. PICK d \in Chain[c] : /\ x \in TxsOf(d)
                            /\ x \in Coinbases => Height[c] - Height[d] >= COINBASE_MATURITY
  BY <1>2 DEF Backed
<1>4. x \in Txs /\ Ours(x) /\ d \in Chain[tip]
  BY <1>2, <1>3, WalletTxAssumption DEF Ours
<1>5. x \in ChainTxs[tip] /\ e \in Chain[tip]
  BY <1>1, <1>3, <1>4, ChainTxsRule, Confirmed
<1>6. e = d
  BY <1>1, <1>3, <1>4, <1>5 DEF Once, TxInv, Places
<1>7. x \in Wallet /\ IsTrusted(x)
  <2>1. x \in Wallet
    BY <1>1, <1>4, <1>5 DEF Wallet
  <2>2. Depth(x) >= 1
    BY <1>1, <1>5, <2>1, DepthRule
  <2> QED  BY <2>1, <2>2 DEF IsTrusted
<1>8. ASSUME BlocksToMaturity(x) PROVE FALSE
  <2>1. x \in Coinbases /\ Depth(x) < COINBASE_MATURITY + 1
    BY <1>8 DEF BlocksToMaturity
  <2>2. Depth(x) = Height[tip] - Height[d] + 1
    BY <1>5, <1>6 DEF Depth
  <2>3. Height[tip] \in Nat /\ Height[c] \in Nat /\ Height[d] \in Nat /\ Height[c] <= Height[tip]
    BY <1>1, <1>2, <1>4, HeightOn
  <2>4. COINBASE_MATURITY \in Nat
    BY WalletTxAssumption
  <2> HIDE DEF c, x
  <2> QED  BY <1>3, <2>1, <2>2, <2>3, <2>4
<1> QED  BY <1>7, <1>8

\* GetBalance is getbalance "*" with depth 0.
LEMMA BalancesSame ==
    ASSUME TxInv, Ledgered, Quiet, undo # "lost", dropped = {}, PendingTrusted, PendingCounts
    PROVE  GetBalance = BalanceAll(0)
<1> DEFINE T == {t \in Wallet : IsTrusted(t) /\ ~BlocksToMaturity(t)}
           all == [t \in Txs |-> Amount(t, 0)]
           paid == [t \in Txs |-> GetDebit(t)]
           come == [t \in Txs |-> Worth(Outs[t] \cap Mine)]
           P == [t \in Txs |-> Outs[t] \cap Mine]
           D == [t \in Txs |-> {o \in Ins[t] \cap Mine : mapWallet[Of[o]] # Absent}]
           In == {o \in Mine : Of[o] \in T}
           Gone == UNION {D[t] : t \in T}
           Spent == {o \in In : IsSpent(o)}
<1>0. Typed /\ tip \in Blocks /\ tip = coins /\ Base = tip /\ mempool \subseteq Txs
  BY DEF TxInv, Typed, Places, Quiet, Base
<1>1. BalanceAll(0) = Sum(all, T)
  BY DEF BalanceAll, Amount
<1>2. /\ IsFiniteSet(T) /\ IsFiniteSet(Outpoints) /\ Mine \subseteq Outpoints
      /\ \A t \in T : t \in Txs /\ t \in Wallet /\ IsTrusted(t) /\ ~BlocksToMaturity(t)
  BY WalletTxAssumption, FS_Subset DEF Wallet
<1>3. ASSUME NEW t \in T PROVE mapWallet[t] \in Chain[tip] \/ t \in mempool
  <2>1. t \in Wallet /\ IsTrusted(t)
    BY <1>2
  <2> QED  BY <1>0, <2>1, DepthRule DEF IsTrusted
<1>4. ASSUME NEW t \in T
      PROVE  all[t] \in Int /\ paid[t] \in Int /\ come[t] \in Int /\ come[t] = all[t] + paid[t]
  <2>1. t \in Txs /\ t \in Wallet
    BY <1>2
  <2>2. Depth(t) >= 0
    <3>1. Depth(t) \in Int
      BY <1>0, <2>1, DepthRule
    <3>2. Depth(t) >= 1 \/ Depth(t) = 0
      BY <1>2 DEF IsTrusted
    <3> QED  BY <3>1, <3>2
  <2>3. all[t] = Worth(Received(t)) - Worth(Sent(t)) - Fee(t)
    BY <2>1, <2>2 DEF Amount
  <2>4. all[t] = Worth(Outs[t] \cap Mine) - GetDebit(t) /\ Worth(Outs[t] \cap Mine) \in Nat /\ GetDebit(t) \in Nat
    BY <2>1, <2>3, AmountRule, DebitRule
  <2>5. paid[t] = GetDebit(t) /\ come[t] = Worth(Outs[t] \cap Mine)
    BY <2>1
  <2> HIDE DEF all, paid, come
  <2> QED  BY <2>4, <2>5
<1>5. Sum(come, T) = Sum(all, T) + Sum(paid, T) /\ Sum(all, T) \in Int
  <2> HIDE DEF T, all, paid, come
  <2>1. \A t \in T : all[t] \in Int
    BY <1>4
  <2> QED  BY <1>2, <1>4, <2>1, SumPlus, SumRule
<1>6. \A o \in Outpoints : Value[o] \in Int
  BY WorthRule
<1>7. Sum(come, T) = Worth(In)
  <2>1. \A t \in T : P[t] \in SUBSET Outpoints /\ P[t] = {o \in Mine : Of[o] = t}
    BY <1>2 DEF Outs
  <2>2. \A t \in T : come[t] = Sum(Value, P[t])
    BY <1>2 DEF Worth
  <2>3. \A t, u \in T : t # u => P[t] \cap P[u] = {}
    BY <2>1
  <2>4. UNION {P[t] : t \in T} = In
    <3> HIDE DEF P, T
    <3> QED  BY <2>1
  <2> HIDE DEF P, T, In, come
  <2>5. \A t \in T : P[t] \in SUBSET Outpoints
    BY <2>1
  <2>6. Sum(come, T) = Sum(Value, UNION {P[t] : t \in T})
    BY <1>2, <1>6, <2>2, <2>3, <2>5, SumParts
  <2> QED  BY <2>4, <2>6 DEF Worth
<1>8. ASSUME NEW t \in T, NEW u \in T, t # u PROVE Ins[t] \cap Ins[u] = {}
  <2>1. /\ Single(ChainTxs[tip]) /\ Single(mempool)
        /\ SpentBy(mempool) \cap SpentBy(ChainTxs[tip]) = {}
    BY <1>0 DEF Ledgered
  <2>2. \A x \in T : x \in ChainTxs[tip] \/ x \in mempool
    <3> SUFFICES ASSUME NEW x \in T, mapWallet[x] \in Chain[tip] PROVE x \in ChainTxs[tip]
      BY <1>3
    <3>1. x \in Txs /\ x \in Wallet
      BY <1>2
    <3> QED  BY <3>1, Confirmed DEF TxInv, Known
  <2>3. \A x \in mempool : \A y \in ChainTxs[tip] : Ins[x] \cap Ins[y] = {}
    BY <2>1 DEF SpentBy
  <2> HIDE DEF T
  <2> QED  BY <1>8, <2>1, <2>2, <2>3 DEF Single
<1>9. Sum(paid, T) = Worth(Gone)
  <2>1. \A t \in T : D[t] \in SUBSET Outpoints /\ D[t] \subseteq Ins[t]
    BY <1>2
  <2>2. \A t \in T : paid[t] = Sum(Value, D[t])
    BY <1>2 DEF Worth, GetDebit
  <2> HIDE DEF D, T, paid
  <2>3. \A t, u \in T : t # u => D[t] \cap D[u] = {}
    BY <1>8, <2>1
  <2>4. \A t \in T : D[t] \in SUBSET Outpoints
    BY <2>1
  <2>5. Sum(paid, T) = Sum(Value, UNION {D[t] : t \in T})
    BY <1>2, <1>6, <2>2, <2>3, <2>4, SumParts
  <2> QED  BY <2>5 DEF Worth
<1>10. Gone \subseteq Spent
  <2> SUFFICES ASSUME NEW t \in T, NEW o \in D[t] PROVE o \in Spent
    OBVIOUS
  <2>1. t \in Txs /\ t \in Wallet
    BY <1>2
  <2>2. o \in Ins[t] \cap Mine
    BY <2>1
  <2>3. Of[o] \in Wallet
    BY <2>1, <2>2, WalletTxAssumption DEF Wallet
  <2>4. IsTrusted(Of[o]) /\ ~BlocksToMaturity(Of[o])
    <3>1. CASE mapWallet[t] \in Chain[tip]
      BY <2>1, <2>2, <3>1, SpentCounts
    <3>2. CASE t \in mempool
      BY <2>1, <2>2, <3>2 DEF PendingCounts
    <3> QED  BY <1>3, <3>1, <3>2
  <2>5. IsSpent(o)
    <3>1. Live(t)
      BY <1>3, <2>1 DEF Live, Wallet
    <3> QED  BY <1>0, <2>1, <2>2, <3>1, DepthLive
  <2> QED  BY <2>2, <2>3, <2>4, <2>5
<1>11. ASSUME NEW o \in Spent \ Gone PROVE Value[o] = 0
  <2>1. o \in Mine /\ Of[o] \in T /\ IsSpent(o)
    OBVIOUS
  <2>2. PICK x \in Txs : o \in Ins[x] /\ Live(x)
    BY <1>0, <2>1, DepthLive
  <2>3. x \in Wallet /\ (mapWallet[x] \in Chain[tip] \/ x \in mempool)
    BY <2>2 DEF Live, Wallet
  <2>4. mapWallet[Of[o]] # Absent
    BY <1>2, <2>1 DEF Wallet
  <2>5. ASSUME Value[o] > 0 PROVE FALSE
    <3>1. IsFromMe(x)
      BY <2>1, <2>2, <2>4, <2>5 DEF IsFromMe
    <3>2. IsTrusted(x)
      <4>1. CASE mapWallet[x] \in Chain[tip]
        BY <1>0, <2>3, <4>1, DepthRule DEF IsTrusted
      <4>2. CASE x \in mempool
        BY <2>3, <3>1, <4>2 DEF PendingTrusted
      <4> QED  BY <2>3, <4>1, <4>2
    <3>3. ~BlocksToMaturity(x)
      BY <2>2, WalletTxAssumption DEF BlocksToMaturity
    <3>4. x \in T /\ o \in D[x]
      BY <2>1, <2>2, <2>3, <2>4, <3>2, <3>3
    <3> QED  BY <3>4
  <2>6. Value[o] \in Nat
    BY <1>2, <2>1, WorthRule
  <2> QED  BY <2>5, <2>6
<1>12. Worth(Spent) = Worth(Gone)
  <2>1. Spent \in SUBSET Outpoints /\ Gone \in SUBSET Spent /\ Gone \in SUBSET Outpoints
    BY <1>2, <1>10
  <2> HIDE DEF Spent, Gone
  <2>2. IsFiniteSet(Spent) /\ \A o \in Gone : Value[o] \in Int
    BY <2>1, WorthRule
  <2> QED  BY <1>11, <2>1, <2>2, SumPart DEF Worth
<1>13. Worth(In) = Worth(Unspent) + Worth(Spent) /\ Worth(Unspent) \in Nat /\ Worth(Spent) \in Nat
  <2>1. /\ In = Unspent \cup Spent /\ Unspent \cap Spent = {}
        /\ Unspent \in SUBSET Outpoints /\ Spent \in SUBSET Outpoints
    BY <1>2 DEF Unspent
  <2> HIDE DEF In, Spent
  <2>2. Worth(Unspent \cup Spent) = Worth(Unspent) + Worth(Spent)
    BY <2>1, WorthUnion
  <2> QED  BY <2>1, <2>2, WorthRule
<1>14. GetBalance = Worth(Unspent)
  BY BalanceIs
<1> HIDE DEF T, all, paid, come, In, Gone, Spent
<1> QED  BY <1>1, <1>5, <1>7, <1>9, <1>12, <1>13, <1>14

\* For every set of transactions and every tree of blocks: the two computations of
\* the balance agree (getbalance), as long as what we have pending counts, and the
\* accounts add up to the whole (GetAccountBalance).
THEOREM BalancesAlwaysAgree == TxSpec => []BalancesAgree
<1>1. TxInv /\ Ledgered => BalancesAgree
  BY AccountsAddUp, BalancesSame DEF BalancesAgree, TxInv
<1> QED  BY <1>1, TxInvAlways, LedgeredAlways, PTL
=============================================================================
