------------------------------ MODULE WalletTx ------------------------------
(***************************************************************************)
(* The transactions of the wallet: what mapWallet holds, what the wallet   *)
(* believes is spent, the credits it caches, and the balances it reports,  *)
(* while blocks come and go, transactions conflict and the process dies.   *)
(*                                                                         *)
(* Every record of mapWallet is written to wallet.dat before the call that *)
(* changes it returns, so mapWallet stands for both.  mapTxSpends follows  *)
(* from mapWallet: AddToSpends runs when a record is inserted or loaded,   *)
(* and no record is erased.  The cached debit is left out: a transaction   *)
(* is recorded before those that spend from it, and importing a key, the   *)
(* exception, marks everything dirty.  Blocks and transactions are what    *)
(* MemPool and DualChain let through; a transaction of others enters the   *)
(* pool between blocks.  getbalance and CommitTransaction may run between  *)
(* any two steps of a reorganisation, which need not hold cs_main: the     *)
(* Bitcoin thread holds only cs_bestChain.                                 *)
(***************************************************************************)
EXTENDS Integers, Sequences, FiniteSets, FiniteSetsExt, SequencesExt

CONSTANTS
    Txs, Coinbases, Own,     \* transactions; coinbases; those the wallet creates
    Outpoints, Of, Ins,      \* outputs; the transaction of one; what each spends
    Value, Mine, Account,    \* of outputs: the amount; ours; the label of an address, Null for change
    FromAccount,             \* the account a transaction is sent from
    Accounts,
    NonStandard,             \* transactions only a block may bring
    Blocks, Root, Prev, Chain, Vtx,
    COINBASE_MATURITY, bSpendZeroConfChange,
    InitialDownload,         \* may IsInitialBlockDownload be true when a block is (dis)connected?
    MaxDeaths,
    Null

ASSUME WalletTxAssumption ==
    /\ IsFiniteSet(Txs) /\ IsFiniteSet(Outpoints) /\ IsFiniteSet(Accounts)
    /\ Coinbases \subseteq Txs
    /\ Own \subseteq Txs \ (Coinbases \cup NonStandard) /\ NonStandard \subseteq Txs
    /\ Of \in [Outpoints -> Txs] /\ Ins \in [Txs -> SUBSET Outpoints]
    /\ \A t \in Txs : Ins[t] = {} <=> t \in Coinbases
    /\ Value \in [Outpoints -> Nat] /\ Mine \subseteq Outpoints
    /\ Account \in [Outpoints -> Accounts \cup {Null}] /\ FromAccount \in [Txs -> Accounts]
    /\ "" \in Accounts /\ Null \notin Accounts
    /\ COINBASE_MATURITY \in Nat \ {0} /\ {bSpendZeroConfChange, InitialDownload} \subseteq BOOLEAN
    /\ MaxDeaths \in Nat

\* Blocks are a tree.  A coinbase names the height of its block, so no chain has
\* it twice.  The first block pays nobody we know.
ASSUME BlocksAssumption ==
    /\ Root \in Blocks /\ Prev \in [Blocks \ {Root} -> Blocks]
    /\ Null \notin Blocks \cup {"-"} /\ "-" \notin Blocks
    /\ Chain \in [Blocks -> SUBSET Blocks] /\ Chain[Root] = {Root}
    /\ \A b \in Blocks \ {Root} : /\ Chain[b] = Chain[Prev[b]] \cup {b}
                                 /\ b \notin Chain[Prev[b]]
    /\ \A b \in Blocks : /\ IsFiniteSet(Chain[b]) /\ Root \in Chain[b]
                         /\ \A c \in Chain[b] : Chain[c] \subseteq Chain[b]
    /\ Vtx \in [Blocks -> Seq(Txs)]
    /\ \A b \in Blocks : \A c, d \in Chain[b] : \A t \in Coinbases :
         t \in ToSet(Vtx[c]) \cap ToSet(Vtx[d]) => c = d
    /\ \A t \in ToSet(Vtx[Root]) : t \in Coinbases /\ \A o \in Mine : Of[o] # t

VARIABLES
    tip,        \* chainActive.Tip
    coins,      \* the best block of pcoinsTip, or of ConnectBlock's view before it is flushed into it
    mempool,
    mapWallet,  \* hashBlock of every transaction of the wallet: Null when it is 0, "-" when it is not there
    avail,      \* nAvailableCreditCached, -1 when it is not cached
    phase, todo,         \* the (dis)connection or start in progress and the transactions it has still to do
    diskTip, bestblock,  \* on disk: the best block of the coins; the wallet's locator
    deaths,
    undo,       \* of disconnections: "saved" to disk, not yet, or "lost" by a crash before that
    sent,       \* the transactions CommitTransaction has recorded, with their strFromAccount
    refused,    \* the transactions of CommitTransaction that the pool has refused
    dropped     \* the transactions that left the pool and no wallet was told

node == <<tip, coins, mempool, diskTip>>
wallet == <<mapWallet, avail>>
txVars == <<node, wallet, phase, todo, bestblock, deaths, undo, sent, refused, dropped>>

Absent == "-"
Wallet == {t \in Txs : mapWallet[t] # Absent}
Sum(f, S) == MapThenSumSet(LAMBDA x : f[x], S)
Worth(S) == Sum(Value, S)
Outs == [t \in Txs |-> {o \in Outpoints : Of[o] = t}]
TxsOf(b) == ToSet(Vtx[b])
Height == [b \in Blocks |-> Cardinality(Chain[b]) - 1]
-----------------------------------------------------------------------------
(* The node.                                                                *)

ChainTxs == [b \in Blocks |-> UNION {TxsOf(c) : c \in Chain[b]}]
BlockOf(t, b) == CHOOSE c \in Chain[b] : t \in TxsOf(c)
SpentBy(S) == UNION {Ins[t] : t \in S}
Mature(t, b) == t \in Coinbases => Height[b] + 1 - Height[BlockOf(t, b)] >= COINBASE_MATURITY

\* The best block of pcoinsTip: ConnectBlock works on a view of its own, which is
\* flushed once the wallet has been told.
pcoinsTip == IF phase = "connect" THEN tip ELSE coins

\* AcceptToMemoryPool, over the coins of the moment.
Acceptable(t) ==
    /\ t \notin mempool \cup ChainTxs[pcoinsTip] \cup Coinbases \cup NonStandard
    /\ Ins[t] \cap SpentBy(mempool \cup ChainTxs[pcoinsTip]) = {}
    /\ \A o \in Ins[t] : \/ Of[o] \in mempool
                         \/ Of[o] \in ChainTxs[pcoinsTip] /\ Mature(Of[o], pcoinsTip)

\* The transactions of S and all that spend their outputs, directly or not.
Descendants(S) ==
    LET grow[n \in 0..Cardinality(Txs)] ==
          IF n = 0 THEN S
          ELSE LET found == grow[n - 1]
               IN  found \cup {t \in mempool : \E o \in Ins[t] : Of[o] \in found}
    IN  grow[Cardinality(Txs)]

\* removeConflicts: what spends the inputs of the block, and its descendants.
Conflicted(b) ==
    Descendants({t \in mempool \ TxsOf(b) : Ins[t] \cap SpentBy(TxsOf(b)) # {}}) \cap mempool

\* What leaves the pool when b is connected.
Removed(b) == TxsOf(b) \cup Conflicted(b)

Connectable(b) ==
    /\ Prev[b] = coins
    /\ \A i \in DOMAIN Vtx[b] :
         LET before == ChainTxs[coins] \cup {Vtx[b][j] : j \in 1..(i - 1)}
         IN  /\ Ins[Vtx[b][i]] \cap SpentBy(before) = {}
             /\ \A o \in Ins[Vtx[b][i]] :
                  \/ Of[o] \in ChainTxs[coins] /\ Mature(Of[o], coins)
                  \/ Of[o] \in before \ (ChainTxs[coins] \cup Coinbases)
-----------------------------------------------------------------------------
(* CWalletTx.                                                               *)

\* GetDepthInMainChain: -1 for neither in the chain nor in the pool.
Depth(t) ==
    IF mapWallet[t] \in Chain[tip] THEN Height[tip] - Height[mapWallet[t]] + 1
    ELSE IF t \in mempool THEN 0 ELSE -1

\* GetBlocksToMaturity() > 0
BlocksToMaturity(t) == t \in Coinbases /\ Depth(t) < COINBASE_MATURITY + 1

\* mutant: only confirmed transactions spend.
IsSpentConfirmed(o) == \E t \in Txs : o \in Ins[t] /\ mapWallet[t] # Absent /\ Depth(t) > 0

IsSpent(o) == \E t \in Txs : o \in Ins[t] /\ mapWallet[t] # Absent /\ Depth(t) >= 0

IsFromMe(t) == \E o \in Ins[t] \cap Mine : mapWallet[Of[o]] # Absent /\ Value[o] > 0

GetDebit(t) == Worth({o \in Ins[t] \cap Mine : mapWallet[Of[o]] # Absent})

\* GetAvailableCredit, without its cache and with it.
Credit(t) == Worth({o \in Outs[t] \cap Mine : ~IsSpent(o)})

GetAvailableCredit(t) ==
    IF BlocksToMaturity(t) THEN 0 ELSE IF avail[t] >= 0 THEN avail[t] ELSE Credit(t)

IsTrusted(t) ==
    \/ Depth(t) >= 1
    \/ /\ Depth(t) = 0 /\ bSpendZeroConfChange /\ IsFromMe(t)
       /\ \A o \in Ins[t] : Of[o] \in Wallet /\ o \in Mine

\* GetAmounts: the outputs received and sent, and the fee.
IsChange(o) == o \in Mine /\ Account[o] = Null
Received(t) == {o \in Outs[t] \cap Mine : GetDebit(t) > 0 => ~IsChange(o)}
Sent(t) == IF GetDebit(t) > 0 THEN {o \in Outs[t] : ~IsChange(o)} ELSE {}

\* mutant: the fee of what others pay us counted as well.
FeeAlways(t) == GetDebit(t) - Worth(Outs[t])

Fee(t) == IF GetDebit(t) > 0 THEN GetDebit(t) - Worth(Outs[t]) ELSE 0

GetBalance == Sum([t \in Txs |-> GetAvailableCredit(t)], {t \in Wallet : IsTrusted(t)})

\* getbalance "*": what was received, minus what was sent and paid.
BalanceAll(minDepth) ==
    LET amount(t) == (IF Depth(t) >= minDepth THEN Worth(Received(t)) ELSE 0)
                       - Worth(Sent(t)) - Fee(t)
    IN  Sum([t \in Txs |-> amount(t)], {t \in Wallet : IsTrusted(t) /\ ~BlocksToMaturity(t)})

\* The account credited by an output: "" for one that is not in the address book.
Label(o) == IF Account[o] = Null THEN "" ELSE Account[o]

strFromAccount(t) == IF t \in sent THEN FromAccount[t] ELSE ""

\* GetAccountBalance, without the entries of the move command.
AccountBalance(a, minDepth) ==
    LET amount(t) ==
          (IF Depth(t) >= minDepth THEN Worth({o \in Received(t) : Label(o) = a}) ELSE 0)
            - (IF strFromAccount(t) = a THEN Worth(Sent(t)) + Fee(t) ELSE 0)
    IN  Sum([t \in Txs |-> amount(t)], {t \in Wallet : ~BlocksToMaturity(t) /\ Depth(t) >= 0})

\* AvailableCoins with fOnlyConfirmed.
AvailableCoins ==
    {o \in Mine : /\ Of[o] \in Wallet /\ IsTrusted(Of[o]) /\ ~BlocksToMaturity(Of[o])
                  /\ ~IsSpent(o) /\ Value[o] > 0}
-----------------------------------------------------------------------------
(* CWallet.                                                                 *)

Clean(cache, S) == [t \in Txs |-> IF t \in S THEN -1 ELSE cache[t]]

Involved(t) == mapWallet[t] # Absent \/ Outs[t] \cap Mine # {} \/ IsFromMe(t)

\* mutant: the first block a transaction is seen in stays its block.
AddedOnce(t, b) ==
    [mapWallet EXCEPT ![t] = IF Involved(t) /\ @ \in {Absent, Null} THEN b ELSE @]

\* AddToWalletIfInvolvingMe: a new record, or the merge with the one that is there.
Added(t, b) ==
    [mapWallet EXCEPT ![t] = IF ~Involved(t) THEN @
                             ELSE IF b # Null THEN b
                             ELSE IF @ = Absent THEN Null ELSE @]

\* mutant: only the transaction itself is marked dirty.
DirtySelf(t) == {t}

\* What SyncTransaction marks dirty: the transaction and those it spends from.
Dirty(t) == IF Involved(t) THEN {t} \cup {Of[o] : o \in Ins[t]} ELSE {}

SyncTransaction(t, b) ==
    /\ mapWallet' = Added(t, b)
    /\ avail' = Clean(avail, Dirty(t))

Quiet == phase = "idle" /\ todo = <<>>

\* getbalance: fills the caches it looks at.
getbalance ==
    /\ phase # "start"
    /\ avail' = [t \in Txs |-> IF t \in Wallet /\ IsTrusted(t) THEN
                                   IF BlocksToMaturity(t) THEN avail[t] ELSE GetAvailableCredit(t)
                               ELSE avail[t]]
    /\ UNCHANGED <<node, mapWallet, phase, todo, bestblock, deaths, undo, sent, refused, dropped>>

\* A transaction from a peer, or one made with a copy of the wallet.
ReceiveTx(t) ==
    /\ Quiet /\ Acceptable(t)
    /\ mempool' = mempool \cup {t}
    /\ SyncTransaction(t, Null)
    /\ UNCHANGED <<tip, coins, diskTip, phase, todo, bestblock, deaths, undo, sent, refused, dropped>>

\* CreateTransaction and CommitTransaction, under cs_main and cs_wallet, which the
\* thread that connects or disconnects a block need not hold.
CommitTransaction(t) ==
    /\ phase \notin {"start", "reaccept"} /\ t \notin Wallet
    /\ Ins[t] \subseteq AvailableCoins
    /\ sent' = sent \cup {t}
    /\ mapWallet' = [mapWallet EXCEPT ![t] = Null]
    /\ LET dirty == {t} \cup {Of[o] : o \in Ins[t]}
       IN  avail' = Clean(avail, dirty)
    /\ IF Acceptable(t) THEN mempool' = mempool \cup {t} /\ UNCHANGED refused
       ELSE refused' = refused \cup {t} /\ UNCHANGED mempool
    /\ UNCHANGED <<tip, coins, diskTip, phase, todo, bestblock, deaths, undo, dropped>>
-----------------------------------------------------------------------------
(* Blocks.                                                                  *)

Tell(ts, b) == [i \in DOMAIN ts |-> <<ts[i], b>>]

\* mutant: ConnectBlock that leaves the wallet to ConnectTip.
WatchLater(b) == <<>>

\* The end of ConnectBlock: "Watch for transactions paying to me".
Watch(b) == Tell(Vtx[b], b)

ConnectBlock(b) ==
    /\ Quiet /\ tip = coins /\ Connectable(b)
    /\ phase' = "connect" /\ todo' = Watch(b)
    /\ coins' = b
    /\ UNCHANGED <<tip, mempool, diskTip, wallet, bestblock, deaths, undo, sent, refused, dropped>>

\* WriteChainState flushes the coins, always once the download is over.
Flush(next) ==
    /\ \/ diskTip' = coins /\ undo' = IF undo = "unsaved" THEN "saved" ELSE undo
       \/ InitialDownload /\ UNCHANGED <<diskTip, undo>>
    /\ phase' = next
    /\ UNCHANGED <<tip, coins, mempool, wallet, bestblock, deaths, sent, refused, dropped>>

FlushConnected == phase = "connect" /\ todo = <<>> /\ Flush("connected") /\ UNCHANGED todo

\* UpdateTip, after the pool has given up the block's transactions and their
\* conflicts: every 144 blocks the wallet's locator is written.
UpdateTip == tip' = coins /\ bestblock' \in {bestblock, coins}

ConnectTip ==
    /\ phase = "connected"
    /\ UpdateTip
    /\ mempool' = mempool \ Removed(coins)
    /\ todo' = Tell(SetToSeq(Conflicted(coins)), Null) \o Tell(Vtx[coins], coins)
    /\ phase' = "idle"
    /\ UNCHANGED <<coins, diskTip, wallet, deaths, undo, sent, refused, dropped>>

DisconnectBlock ==
    /\ Quiet /\ tip = coins /\ tip # Root
    /\ coins' = Prev[tip]
    /\ phase' = "disconnect"
    /\ undo' = IF undo = "saved" THEN "unsaved" ELSE undo
    /\ UNCHANGED <<tip, mempool, diskTip, todo, wallet, bestblock, deaths, sent, refused, dropped>>

FlushDisconnected ==
    /\ phase = "disconnect"
    /\ Flush("resurrect")
    /\ todo' = Tell(Vtx[tip], Null)

\* DisconnectTip offers the block's transactions to the pool; what is refused
\* takes its descendants out of the pool.
Resurrect ==
    /\ phase = "resurrect" /\ todo # <<>>
    /\ LET t == todo[1][1] IN
         IF t \in Coinbases THEN UNCHANGED <<mempool, wallet>>
         ELSE IF Acceptable(t) THEN mempool' = mempool \cup {t} /\ SyncTransaction(t, Null)
         ELSE mempool' = mempool \ Descendants({t}) /\ UNCHANGED wallet
    /\ dropped' = dropped \cup (mempool \ mempool')
    /\ todo' = Tail(todo)
    /\ UNCHANGED <<tip, coins, diskTip, phase, bestblock, deaths, undo, sent, refused>>

DisconnectTip ==
    /\ phase = "resurrect" /\ todo = <<>>
    /\ UpdateTip
    /\ todo' = Tell(Vtx[tip], Null)
    /\ phase' = "idle"
    /\ UNCHANGED <<coins, mempool, diskTip, wallet, deaths, undo, sent, refused, dropped>>

SyncWithWallets ==
    /\ phase \in {"idle", "connect"} /\ todo # <<>>
    /\ SyncTransaction(todo[1][1], todo[1][2])
    /\ todo' = Tail(todo)
    /\ UNCHANGED <<node, phase, bestblock, deaths, undo, sent, refused, dropped>>
-----------------------------------------------------------------------------
(* A crash, and the start after it.                                         *)

\* FindFork: the highest block of the locator on the chain.
FindFork(b, c) == CHOOSE f \in Chain[b] \cap Chain[c] :
                     \A g \in Chain[b] \cap Chain[c] : Height[g] <= Height[f]

BlockAt(b, h) == CHOOSE c \in Chain[b] : Height[c] = h

\* AppInit2 scans the blocks the locator loc has not seen, from the fork on, when the
\* tip is b.
Rescan == [loc \in Blocks |-> [b \in Blocks |->
    LET fork == FindFork(loc, b)
        told(c) == Tell(Vtx[c], c)
    IN  IF fork = b THEN <<>>
        ELSE FlattenSeq([i \in 1..(Height[b] - Height[fork] + 1) |->
                           told(BlockAt(b, Height[fork] + i - 1))])]]

Die ==
    /\ deaths < MaxDeaths /\ deaths' = deaths + 1
    /\ tip' = diskTip /\ coins' = diskTip /\ mempool' = {}
    /\ avail' = [t \in Txs |-> -1]
    /\ undo' = IF undo = "unsaved" THEN "lost" ELSE undo
    /\ phase' = "start" /\ todo' = Rescan[bestblock][diskTip]
    /\ UNCHANGED <<diskTip, mapWallet, bestblock, sent, refused, dropped>>

ScanForWalletTransactions ==
    /\ phase = "start" /\ todo # <<>>
    /\ mapWallet' = Added(todo[1][1], todo[1][2])
    /\ todo' = Tail(todo)
    /\ UNCHANGED <<node, avail, phase, bestblock, deaths, undo, sent, refused, dropped>>

\* SetBestChain when blocks were scanned; the pool is then offered what is not in
\* a block, in the order of the hashes: any order.
EndScan ==
    /\ phase = "start" /\ todo = <<>>
    /\ bestblock' = IF FindFork(bestblock, tip) = tip THEN bestblock ELSE tip
    /\ todo' = Tell(SetToSeq({t \in Wallet \ Coinbases : Depth(t) < 0}), Null)
    /\ phase' = "reaccept"
    /\ UNCHANGED <<node, wallet, deaths, undo, sent, refused, dropped>>

ReacceptWalletTransactions ==
    /\ phase = "reaccept"
    /\ \/ /\ todo = <<>>
          /\ phase' = "idle"
          /\ UNCHANGED <<mempool, wallet, todo>>
       \/ \E i \in DOMAIN todo :
            /\ IF Acceptable(todo[i][1])
               THEN mempool' = mempool \cup {todo[i][1]} /\ SyncTransaction(todo[i][1], Null)
               ELSE UNCHANGED <<mempool, wallet>>
            /\ todo' = RemoveAt(todo, i)
            /\ UNCHANGED phase
    /\ UNCHANGED <<tip, coins, diskTip, bestblock, deaths, undo, sent, refused, dropped>>
-----------------------------------------------------------------------------
\* A first start on a chain that holds nothing of ours.
TxInit ==
    /\ tip = Root /\ coins = Root /\ diskTip = Root /\ bestblock = Root
    /\ mempool = {} /\ mapWallet = [t \in Txs |-> Absent]
    /\ avail = [t \in Txs |-> -1]
    /\ phase = "idle" /\ todo = <<>> /\ deaths = 0 /\ undo = "saved" /\ sent = {} /\ refused = {} /\ dropped = {}

TxNext ==
    \/ getbalance
    \/ \E t \in (Txs \ Own) \cup Wallet : ReceiveTx(t)
    \/ \E t \in Own : CommitTransaction(t)
    \/ \E b \in Blocks \ {Root} : ConnectBlock(b)
    \/ FlushConnected \/ ConnectTip \/ DisconnectBlock \/ FlushDisconnected \/ Resurrect
    \/ DisconnectTip \/ SyncWithWallets
    \/ Die \/ ScanForWalletTransactions \/ EndScan \/ ReacceptWalletTransactions

TxSpec == TxInit /\ [][TxNext]_txVars
-----------------------------------------------------------------------------
\* Nothing of ours on the chain is missed: whatever died when, once the wallet has
\* caught up every transaction of the active chain that pays us or spends from us
\* is in the wallet, with the block it is in.  The exception is a crash that undoes a
\* disconnection: the wallet may by then have seen the transaction in another block,
\* and the locator says there is nothing to scan.
ChainSeen ==
    Quiet /\ undo # "lost" => \A t \in ChainTxs[tip] :
                Involved(t) => mapWallet[t] = BlockOf(t, tip)

\* The transactions from which a dropped one spends.
Bereft == {Of[o] : o \in SpentBy(dropped)}

\* A cached credit is the credit: no cache has outlived a change of what is spent.
\* The exception is what DisconnectTip drops from the pool because it spends from a
\* transaction the pool does not take back: no wallet hears of that.
CreditsExact ==
    Quiet => \A t \in Wallet \ Bereft : avail[t] >= 0 => avail[t] = Credit(t)

\* Coinbases that are not mature for the wallet yet.
Immature == {t \in Coinbases \cap Wallet : BlocksToMaturity(t)}

\* With nothing pending the balance is the ledger's: the value of our outputs that
\* the active chain holds unspent and mature, whatever reorganisations, conflicts
\* and crashes the caches and records have been through.
LedgerBalance ==
    Quiet /\ mempool = {} /\ undo # "lost" /\ dropped = {} =>
        GetBalance = Worth({o \in Mine : /\ Of[o] \in ChainTxs[tip] \ Immature
                                            /\ o \notin SpentBy(ChainTxs[tip])})

\* What we spend in pending transactions counts: the transactions, ...
PendingTrusted == \A t \in Wallet \cap mempool : IsFromMe(t) => IsTrusted(t)

\* ... and what they spend.
PendingCounts ==
    \A t \in Wallet \cap mempool, o \in Mine :
        o \in Ins[t] => IsTrusted(Of[o]) /\ ~BlocksToMaturity(Of[o])

\* "getbalance and getbalance '*' 0 should return the same number"
\* (rpcwallet.cpp:1246): the sum of unspent outputs is what came in minus what
\* went out, as long as pending transactions of ours count, and so does what they
\* spend.  And the accounts divide the wallet: their balances add up to that of "*".
BalancesAgree ==
    Quiet /\ PendingTrusted =>
        /\ undo # "lost" /\ dropped = {} /\ PendingCounts => GetBalance = BalanceAll(0)
        /\ Sum([a \in Accounts |-> AccountBalance(a, 1)], Accounts) = BalanceAll(1)

\* "This must not fail. The transaction has already been signed and recorded."
\* (wallet.cpp:1421): the coins the wallet selects are coins the pool accepts.
\* It does fail while another thread, which holds cs_bestChain alone, has flushed a
\* block into or out of pcoinsTip and not yet moved the tip, by which the wallet
\* selects; and after a disconnection that a crash has undone.  At no other time, when
\* no step of such a thread comes between the selection and the offer, here one step.
CommitAccepted == [][pcoinsTip = tip /\ undo # "lost" => UNCHANGED refused]_txVars
=============================================================================
