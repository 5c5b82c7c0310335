# DSValue in TLA+

TLA+ models of the DSPay node (`src/src`), a Bitcoin 0.9 derivative whose
blocks embed the hashes of Bitcoin blocks and whose draw blocks pay a lottery
decided by those hashes and by keys that an authority publishes.

## The system

| Part | State | Operations | Talks to | What makes it correct |
|---|---|---|---|---|
| Script check queue (`checkqueue.h`) | `queue`, `nIdle`, `nTotal`, `nTodo`, `fAllOk`, `fQuit`, two condition variables | `Add`, `Wait`, `Loop` | `ConnectBlock` | the verdict covers exactly the checks of the block; `Wait` returns; the queue is clean for the next block |
| Block tree and active chain (`main.cpp`) | `mapBlockIndex`, `setBlockIndexValid`, `chainMostWork`, `chainActive`, failure marks | `ProcessBlock`, `AcceptBlock`, `AddToBlockIndex`, `FindMostWorkChain`, `ActivateBestChain`, `CheckLastBlockState` | everything | no failed block on the chain; the best chain that can be judged is the active one; the chain agrees with Bitcoin |
| Orphan blocks (`main.cpp`) | `mapOrphanBlocks` | hold, prune, accept | block tree | bounded; resolved when the parent comes |
| Bitcoin header chain (`bitcoinnet/CChainManager`) | header index, `chainMostWorkBitcoin`, `chainActiveBitcoin`, database | `AddBitcoinHeader`, `ProcessBitcoinHeader`, `ConnectBestBlock`, load | block tree (`ActivateBestChain`, `CheckLottoResult`) | follows most work; a restart resumes it |
| Bitcoin network (`bitcoinnet/CBitcoinServer`, `CBitcoinNode`, `CNodeManager`) | sockets, handshake state, the last request to each node | connect, parse, request headers, drop silent nodes | header chain | a better chain of a connected node arrives, whatever was asked before |
| Lottery keys and checkpoints (`CSyncDataDb`, `checkpoints.cpp`) | database and a map in memory | `lotterykey`, `checkpoint`, `getcheck` messages, RPC | block tree (`CheckActiveChain`) | memory and database agree; the chain passes every checkpoint |
| Lottery (`lotto/`, `miner.cpp`) | none (pure) | `DrawLottery` and the bets | `CheckLottoResult`, miner | never pays more than the pool |
| Miner (`miner.cpp`, `rpcmining.cpp`) | block template | `CreateNewBlock`, `CheckWork` | block tree, check queue | builds on a chain that agrees with Bitcoin; the block connects, and nothing that could be in it is forgotten |
| Memory pool, orphan transactions (`txmempool.cpp`, `main.cpp`) | `mapTx`, `mapNextTx`, orphan maps | accept, remove, reorganise | block tree, wallet | no conflict, no missing input |
| Coins and block databases (`coins.cpp`, `txdb.cpp`) | cache layers, LevelDB | `Flush`, `WriteChainState` | block tree | a crash leaves a loadable state |
| Wallet (`wallet.cpp`, `walletdb.cpp`) | keys, key pool, transactions | reserve, keep, return, sync | block tree, mempool | no key handed out twice or lost; balances follow the chain |
| Network (`net.cpp`, `addrman.cpp`, `alert.cpp`) | `vNodes`, buffers, addresses | socket and message threads | `ProcessMessage` | nothing lost or reordered, buffers bounded, no two nodes waiting on each other for ever |

Threads: the message thread (`ProcessMessages`), the Bitcoin thread, the miner,
the RPC threads and the script check workers. `cs_main` protects block
processing; `cs_bestChain` protects `ActivateBestChain`, `CheckLastBlockState`
and `CheckActiveChain`. The Bitcoin thread and the `lotterykey` handler call
`ActivateBestChain` **without** `cs_main`, which is what makes the block tree
concurrent in this code base and not in its ancestor.

The hard behaviours (`hazards` in `PROJECT.json` places each at its line): a
block, a Bitcoin header or a key that arrives while another thread is inside
`ActivateBestChain`; a Bitcoin chain that moves between the judgement of a block
and its connection; the loops of `ActivateBestChain`, which end only if every
round makes progress; two masters of one check queue; and everything a restart
forgets.

## Modules

### CheckQueue

One master or several and a set of workers around the mutex of `CCheckQueue`.
Every action is one critical section of `Loop`, `Add` or the control object:
`Open` (constructor), `Add`, `Wait`, `Enter` (the top of the loop: the results of
the last batch, `nTotal++` on the first round), `Return`, `Sleep`, `Wake`,
`Take` and `Execute` (outside the mutex). `SpuriousWakeup` and `Interrupt` are
what Boost does. A check is a pair of a master and a number; whether it succeeds
is a constant.

### DualChain

The block tree, the Bitcoin header chain and the lottery keys, with three
threads. Blocks and Bitcoin headers are the nodes of two constant trees; the
variables say which are known, which are candidates, which have failed, and
where the tips are.

| Code | Actions |
|---|---|
| `ProcessBlock` | `ProcessBlock` (duplicate test), `RecheckBlock` (`CheckLastBlockState`), `HoldOrphan`, `RejectBlock`, `AddToBlockIndex`, `AcceptOrphan`, `EndProcessBlock`, all holding `cs_main` |
| `ActivateBestChain` | `Lock`, then one action per loop iteration: `SkipFailed`, `DropContradicted`, `DropFailedPath`, `SetMostWork` (`FindMostWorkChain`), `DisconnectTip`, `ConnectTip`, `ConnectInvalid`, `ConnectDirty`, then `Unlock` |
| `CreateNewBlock` | `RecheckTip` |
| `lotterykey` message | `LotteryKey` |
| `CChainManager::AddBitcoinHeader` | `AddBitcoinHeader`, `ProcessBitcoinHeader`, `DisconnectBitcoinTip`, `ConnectBitcoinTip`, `EndBitcoinHeaders` |

`CheckLottoResult` is translated test by test, because their order decides
whether a block is dirty (rejected with `REJECT_DIRTY_BLOCK`) or has to wait
(`REJECT_INVALID_LOTTO`).

Abstractions:

- the transactions of a block are the verdict of `ConnectBlock` on them
  (`BadTx`), its pool and payouts the verdict of `CheckLottoResult` (`BadPool`),
  its header the verdict of `AcceptBlock` (`BadHeader`) and of `CheckBlock`
  (`Malformed`);
- `LottoKey[b]` is the key of a block above the first two lottery intervals;
- `CheckLastBlockState` holds `cs_bestChain` to its end and is one step;
- `setBlockIndexValid.insert` without `cs_bestChain` is a data race on a
  `std::set`. The model takes the insertion as atomic, so what it shows is what
  holds when the race itself does no harm;
- disk and database errors are left out; locals that are dead (`pblock`,
  `nHeightBefore` outside their functions) are set back to a fixed value to keep
  the state space small.

### BitcoinChain

`Bitcoin::CChainManager` with its LevelDB database. `DualChain` takes Bitcoin's
chain as it is in memory; this module adds the two writes of `ConnectTip`, a
crash at any point (which may also lose the last writes, since none is
synchronous), and the constructor that loads what is left.

| Code | Actions |
|---|---|
| constructor | `LoadBitcoinBlockIndex` or, on an empty database, `InitBlockIndex` |
| `ProcessBitcoinHeader`, `AcceptBlock`, `AddToBlockIndex`, `FindMostWorkChain` | `ProcessBitcoinHeader` |
| the loops of `ConnectBestBlock` | `DisconnectTip`, `ConnectTip`, `ConnectBestBlock` (its end) |

`disk` is what was written last and `older` everything the disk may hold instead.
A header that fails the difficulty, time or version rules is not in `Headers`:
it leaves no trace. The rules about Bitcoin checkpoints never apply, since the
last of them is below the start block. Headers never fail after they were
accepted, so the branches of `FindMostWorkChain` for failed ones are dead. The
debugging command `setbtchashtip` is left out.

### HeaderSync

Where the headers of `BitcoinChain` come from: the loop of
`CBitcoinServer::BitcoinNetMaintain`, composed with `BitcoinChain` in one
specification. One Bitcoin node is followed in full; the others are what they do
to it: they bring headers (`OtherNode`), and `startSync` may ask one of them.

| Code | Actions |
|---|---|
| `openNetworkConnection`, `createNode`, `PushVersion` | `Connect` |
| `sockectSelect`, `parseMessage` | `Receive` (`version`, `inv`, `headers`), `Ping`, `Disconnected` |
| `AddBitcoinHeader` | `AddBitcoinHeader`, one header at a time |
| `clearDisconnectNodes`, `checkStatus` | `checkStatus` |
| `startSync`, `pushGetHeaders` | `startSync` |
| the Bitcoin node and the network (external) | `NewTip`, `Answer`, `Cut`, `SyncCrash` |

`startSync` picks the node with the latest `nLastRecv`, in seconds. The node
followed is picked for certain when it was the only one heard from in its second
(`alone`); otherwise it may be. Abstractions: the addresses, one-shot
connections, bytes (`Connection` has the assembly of messages for the code this
one was copied from), and locators, which have all blocks of a short chain.

### MemPool

`CTxMemPool`, the orphan transactions and the coins they are judged by. The
constants are a set of transactions with what they spend and a tree of blocks;
any block that `ConnectBlock` accepts may be connected, and the tip disconnected,
since which chain wins is the matter of `DualChain`.

| Code | Actions |
|---|---|
| `AcceptToMemoryPool` | `CheckConflicts`, `LookUpInputs`, `Add`: its three critical sections |
| `tx` message, `sendrawtransaction` | `ReceiveTx`, then `Done`, `KeepOrphan` (`AddOrphanTx`, `LimitOrphanTxSize`) or `Resolved`, `TryOrphan`, `EraseOrphans` |
| `ConnectTip` | `ConnectTip` (up to the flush), `RemoveConnected` for each transaction (`remove`, `removeConflicts`) |
| `DisconnectTip` | `DisconnectTip` (up to the flush), then `Skip`, `Resurrect`, `Resurrected` for each transaction |

The recursion of `remove` is the least set closed under spending. The cache
`pcoinsTip` keeps entries whose outputs are all spent (`pruned`), and `HaveCoins`
counts them; whether `WriteChainState` flushes it depends on the clock and is a
free choice. The test for a transaction already in the pool and the test for
conflicts are two critical sections in a row and one step here: whatever joins
the pool in between marks the inputs that the second one looks at.

Abstractions: the fee, script and standardness rules are constant sets; a
transaction too large for the orphan map behaves as if it had never come; the
buried part of the chain is one block `Root`, deeper than any reorganisation and
than `COINBASE_MATURITY`; the index of an input, priorities and
`nTransactionsUpdated` are left out. `Threads` says who reorganises: the message
thread alone holds `cs_main`; a second thread, as the Bitcoin thread, does not.

### Miner

`CreateNewBlock` beside `MemPool`, composed with it. `StartBlock` takes the locks
and sorts the pool into the heap `vecPriority` and the `COrphan` objects with what
they wait for (`setDependsOn`); `Collect` and `PassOver` are one iteration of the
loop over the heap, `EndBlock` its end. The block is then searched for while
`MemPool` goes on; `Stale` is the test of `CheckWork`, `Rebuild` the return to the
top of `BitcoinMiner`.

Abstractions: priorities and fees order the heap in some way (any member may be
next); the limits of size, signature operations and fees may pass over any
transaction (`left`); all transactions are final; reorganisations hold `cs_main`,
as in the proofs of `MemPool`.

### CheckpointChain

A checkpoint that an authority has signed, from its arrival to the chain that
passes it. Blocks are the nodes of a constant tree again, and the Bitcoin side is
left to `DualChain`; what is new are the checkpoints on disk and in memory, the
last one whose block is known, and a second thread that moves the chain.

| Code | Actions |
|---|---|
| `AcceptBlock`, `AddToBlockIndex` | `AcceptBlock` (its look at the checkpoints), `AddToBlockIndex` |
| `ActivateBestChain` | `Lock`, `SkipFailed`, `DropFailedPath`, `SetMostWork`, `DisconnectTip`, `ConnectTip`, `ConnectInvalid`, `EndActivate` |
| `checkpoint` message, `sendcheckpoint`, `sendcheckpointchain` | `WriteCheckpoint`, `AddCheckpoint`, then `CheckActiveChain` |
| `CheckActiveChain` | `ChainPasses`, or `CheckActiveChain`, `PruneCandidate` for each iteration, `Enforce`, the loops of `DisconnectTip` and `ConnectTip`, `EndCheck` |
| `LoadCheckpoint`, `LoadBlockIndexDB`, `AppInit2` | `Restart`, `Lock` and what follows, `Startup`, `ChainPasses` or `CheckActiveChain` |

Abstractions: the authority signs one checkpoint per height, all on one branch,
each with the height of its block; no two blocks have the same work (`DualChain`
has the ties); checkpoints are enabled, and since genesis is one of them there is
always a checkpoint whose block is known, which makes the other branch of
`CheckActiveChain` dead; the rule of `ProcessBlock` about a block's time leaves
no trace and is left out, as are orphans; the insertion into the candidates is
atomic, as in `DualChain`. A crash keeps what was written: the checkpoints, the
block index with its `BLOCK_FAILED_VALID` marks (`BLOCK_FAILED_CHILD` is never
written) and the chain state, which outside the initial download is flushed with
every block.

### WalletKeys

The keys of the wallet and the records of `wallet.dat`. The call that holds
`cs_wallet` runs write by write; beside it run the timer of `walletpassphrase`,
which takes neither lock, a miner that keeps its reserved key under `cs_main`
alone, and a crash after any write.

| Code | Actions |
|---|---|
| `LoadWallet`, `AppInit2` | `Init` and `Crash` (`Load`), then `SetDefaultKey` |
| `getnewaddress`, `getrawchangeaddress`, `keypoolrefill`, `importprivkey` | the actions of these names; `TakeKey`, `TakeAndReturn`, `ReadFailed`, `TakeFromEmpty` are `ReserveKeyFromKeyPool` and what each caller does with its result |
| `TopUpKeyPool`, `NewKeyPool` | `TopUpKeyPool`, `Fill`, `FillThrows`, `WritePool`, `Filled`; `EraseOld`, `NewKeyPool` |
| `CReserveKey` | `GetReservedKey`, `ReserveKey`, `KeepKey`, `ReturnKey` |
| `encryptwallet`, `EncryptWallet` | `encryptwallet`, `Encrypted` |
| `walletpassphrase`, `walletlock`, `walletpassphrasechange` | the actions of these names, `RPCRunLater`, `LockWallet`, `ChangeWalletPassphrase` |

Abstractions: a key is the number of its creation, a passphrase a model value, a
write that was issued is on disk (a power failure, which `DB_TXN_WRITE_NOSYNC`
exposes to, is not modelled), there is one master key, accounts and labels are
left out. `restarted` is a history variable: it says that a held index was given
to a new key, which happens when the pool ran empty while a miner held its key.

### WalletTx

What the wallet believes about its transactions. The node below it is the part
of `MemPool` that the wallet can tell apart: coins, pool, acceptance, conflicts.

| Code | Actions |
|---|---|
| `SyncTransaction` with `AddToWalletIfInvolvingMe` | part of `ReceiveTx`, `Resurrect`, `SyncWithWallets`, `ReacceptWalletTransactions` |
| `CreateTransaction`, `CommitTransaction` | `CommitTransaction` |
| `ConnectTip`: `ConnectBlock`, `WriteChainState`, `UpdateTip` | `ConnectBlock`, `SyncWithWallets`, `FlushConnected`, `ConnectTip` |
| `DisconnectTip` | `DisconnectBlock`, `FlushDisconnected`, `Resurrect`, `DisconnectTip`, `SyncWithWallets` |
| `getbalance`, `GetAvailableCredit` | `getbalance`, which fills the caches |
| `AppInit2`: rescan and reaccept | `Die`, `ScanForWalletTransactions`, `EndScan`, `ReacceptWalletTransactions` |

`getbalance`, `getbalance "*"` and `GetAccountBalance` are translated as three
separate computations, and the properties compare them. Abstractions: coin
selection is any set of available coins, made in one step with the offer to the pool
(a step of the Bitcoin thread between the two has the effect of the window below), fees are what the values leave over, the
`move` command and the cached debit are left out (the module's header says why),
and two history variables say what the properties except: `undo` the disconnections a
crash has undone, `dropped` what left the pool without a word to the wallet.

### ChainState and Ledger

`ChainState` has the coins in their three layers (view, `pcoinsTip`, database),
the block and undo files, the block index, and the order in which
`WriteChainState` brings them to disk. `Ledger` is the abstract specification: a
block is connected or disconnected at once or not at all, and a failure brings
back a best block that was saved, with exactly its coins. `Implements` is the
refinement, with `best <- Best`, `coins <- Coin` and `saved` the best blocks of
every state the database may come back to.

| Code | Actions |
|---|---|
| `AcceptBlock`, `FindBlockPos`, `AddToBlockIndex` | `AcceptBlock`, `Rotate` |
| `ConnectTip`, `ConnectBlock`, `UpdateCoins` | `StartConnect`, `ConnectTx`, `ConnectFails`, `EndConnect` |
| `DisconnectTip`, `DisconnectBlock` | `StartDisconnect`, `DisconnectTx`, `EndDisconnect` |
| `WriteChainState` | `SkipWrite` or `FlushBlockFile`, `Sync`, `Flush` |
| `LoadBlockIndexDB` after a failure | `Crash`, `PowerFailure` |

A power failure loses any uncommitted part of the files and any suffix of the
unsynced writes to either database. Abstractions: values and scripts of outputs,
the positions inside a file, and entries that `FetchCoins` copies upwards
without a change. `unsafe` names the blocks whose undo data was written during
the download to a file that no `FileCommit` followed.

### Connection

The two `CNode` objects of one connection, in two nodes that run this program,
with the socket thread and the message thread of each, and the network between
them, which holds a few units in each direction and may be cut.

| Code | Actions |
|---|---|
| `ThreadMessageHandler`, `ProcessMessages`, `ProcessGetData`, `ProcessMessage` | `Answer`, `ProcessMessages` |
| `SendMessages` | `Ping`, `Ask` |
| `ThreadSocketHandler` | `Disconnect`, `Select`, then `ServiceSend`, `ServiceRecv` or `Idle`, with the inactivity check |
| `EndMessage`, `SocketSendData` | part of every action that sends |
| time | `Tick`, when neither thread has anything to do: they need milliseconds, the timeouts minutes |

Between `Select` and the service of the socket the message thread may have sent,
or closed the connection. Abstractions: of the messages only handshake, ping and
blocks by number are kept; a message is a run of units whose first stands for the
header; `TRY_LOCK` that fails is an action not taken.

### Lottery

Pure functions from `lotto/`, `miner.cpp` and `CheckLottoResult`, over a chain of
blocks with bets: `ConnectBlock` (`CreateNewBlock` by a miner that has the key of its
draw or not, whether or not we have it, then `CheckTransaction` of the prizes and
`CheckLottoResult` with our keys), `DisconnectBlock` and `Publish` (`sendlottokey` or the
`lotterykey` message). `CountsExact` compares the products of binomial
coefficients with a reference that enumerates the tickets.

A block may hold any bets: `IsTransactionValid` is asked by pool, miner and wallet, not
of blocks. `ValidBets` is the filter of `GetLottoTxOutType`, which takes a bet for valid
whatever it is while the tip is not above 4380 (`nUnchecked`), so that `Hit` counts a
number that is repeated each time. `BetAssumption` wants of such a bet at most 20 numbers
of each colour, for which `MselectN` does not overflow, and a stake per ticket that is not
zero: one without tickets makes `CreateRewardMap` divide by zero.

Prizes are paid in 64-bit integers and added up in doubles that go back to integers
after each bet. `Int64` wraps; `Real` rounds as the constant `Double` says, of which
`ArithmeticAssumption` wants that it is exact up to `nExact` (2^53) and not below it
beyond; `ToInt64` gives the least integer for a double out of range. In C++ the first
and the last are undefined; these are the outcomes of the x86-64 build. Amounts are
small numbers and the widths are scaled with them. Other abstractions: the hash
of the drawing is a stream of bytes per Bitcoin hash and draw, and the loops of
`CreateLuckyStarMap`, which hash again until they have enough numbers, end at the first
position where they are found (`Found`, `Ends`, `Pick`); `BytesAssumption` says that the
three loops do end, without which the code would not return; serialisation of
bets and the file of secrets are left out; `VerifyDB` at level 4, which asks
`GetLottoTxOutType` about old blocks under the real tip, is not modelled.
`CountsExact` is about valid bets of at most 20 reds and `Solvent` about draws whose
sums stay in 64 bits: see Known divergences.

## Runs

| Run | Expect | Shows |
|---|---|---|
| `checkqueue` | pass | one master, two workers: `TodoExact`, `WaitSound`, `QueueReusable`, and `Wait` returns (`WaitReturns`) |
| `dualchain` | pass | two branches following two Bitcoin branches, one draw block, three threads: `AgreesWithBitcoin`, `NothingMissed`, `MinerBuildsOnAgreed` |
| `dualchain_bad` | pass | invalid, dirty, malformed and orphan blocks: `FailedStayOut`, `OrphansWait`, and `ActivateBestChain` returns as long as a dirty block has no descendant (`ActivationReturns`) |
| `dualchain_dirty` | violation | with a descendant it does not |
| `bitcoinchain` | pass | `HeaderSync` with `BitcoinChain`: a Bitcoin node with one branch, another node with the other, connections closed or cut, a crash: `DiskClosed`, `SessionBest`, and a better chain of a connected node arrives (`HeadersArrive`) |
| `mempool` | pass | two branches spending one coin, unconfirmed chains and orphans, a miner: `PoolConsistent`, `NoShadow`, `OrphansFollow`, `TemplateConnects`, `NoneForgotten` |
| `checkpoint` | pass | two threads, two checkpoints before or after their blocks, three branches, a restart: `PassesCheckpoints`, `LockReturned` |
| `walletkeys` | pass | a miner, getwork, the commands and the timer, one crash: no key is lost (`Recoverable`) or used twice (`OneUse`), no reservation fails (`PoolReadable`) |
| `wallettx` | pass | payments, change, a double spend, two branches, two crashes: `ChainSeen`, `CreditsExact`, `LedgerBalance`, `BalancesAgree`, `CommitAccepted` |
| `chainstate` | pass | two blocks, two files, two failures: `CoinsExact`, `ChainOnDisk`, and the refinement `Implements` |
| `connection` | pass | two nodes, a cut, timeouts: `NothingLost`, `BuffersBounded`, `OnlyJamsExpire`, `AnsweredOrClosed` |
| `lottery` | pass | up to eight blocks, two hashes, five lists of bets: `CountsExact`, `Solvent`, `HashAfterBets`, `KeyKept`, and a connected block stays acceptable whatever keys arrive (`AcceptedForGood`) |

Bounds. Two DSPay branches of two blocks and two Bitcoin branches are the least
in which each chain reorganises, a block waits for a header, and the other
branch overtakes it. `nRecheck` (5 in the code) is 2, so that the walk both
stops before genesis and reaches it; `nMaxOrphan` (750) is 0 or 1, so that
pruning happens. Two workers and batches of one and two checks let a worker and
the master finish in either order. Twelve transactions (`MCMemPool` draws them)
are the least that give a conflict between two branches, a chain of three in the
pool, a parent confirmed but refused by the pool, a spent coinbase, and more
orphans than the limit of 2 (10,000 in the code); one of them spends two others,
so that the miner's heap has to wait for both. `MCBitcoinChain` has a branch of
three headers and one that forks from its first, with `MaxHeaders` 2 (2,000 on the
Bitcoin network): two messages from the start block to the tip, one from the fork.
That much is needed: a branch that had no more work than the active one within one
message after the fork would not be followed, as the same request is not sent
again. One crash is enough for a restart with a header ahead of the best hash; the
proof has any number. The tree of `MCCheckpointChain`
has a fork below the first checkpoint, one between the two and a block above
them, with the most work on the wrong branches; one start (`nMaxStarts`) is
enough to load what a run or a crash has left.
`WalletKeys` has a pool of two or three keys and six keys in all: enough to
encrypt, to run the pool empty while a key is held, and to start again.
`MCWalletTx` draws its seven transactions: the least with a coinbase, a payment,
change that is spent unconfirmed, a double spend confirmed on the other branch, and
one that only a block may bring, with a descendant that the pool then has to drop. `MCChainState` has a coin spent in two steps inside one block, which is
what undo data has to get right; two files, so that one is not the last; two
failures, so that one follows the recovery from another. In `Connection` a block
does not fit into the socket and fills the send buffer, so that both nodes can
wait for each other; `PingInterval` is 0 and `Timeout` 1 tick, which keeps the
order of 30 and 90 minutes. `Lottery` has intervals of two blocks (`nLottoStep`
then reaches past the interval, as the code allows), so that eight blocks hold two
draws that overlap. Bets are drawn unchecked up to height 5, so that one draw is below
the limit and one above it. Doubles have 16 bits (`nExact` = 65536) and integers 20
(`nInt64` = 524288), with `nMaxMoney` = 65000 below both as `MAX_MONEY` is below 2^53: the
first prize of a stake of 2 is more than any pool, and that of 5 leaves the integers. The `MaxKeys`, `MaxCrashes`, `MaxDeaths` and `MaxFailures` of these modules
make the model stop where the program would go on, and a closed connection has no
more steps: their runs do not check deadlock.

Fairness. `CheckQueue` assumes that the operating system runs every runnable
thread (weak fairness of the steps that hold the mutex or work outside it) and
that a mutex released over and over is granted to every thread that keeps asking
(strong fairness of the steps that take it). `DualChain`'s `LiveSpec` assumes it
only of the thread inside `ActivateBestChain`, whose steps are always enabled,
and `CheckpointChain`'s of the thread that holds `cs_bestChain`.
`Connection`'s `LiveSpec` assumes that both threads of both nodes and the clock
go on; nothing is assumed of the network, which may be cut at any time.
`HeaderSync`'s `SyncSpec` assumes that the one thread goes round its loop and that
`select` leaves no socket out (strong fairness of `Receive`, `checkStatus` and
`startSync`, which other nodes' headers may delay again and again), and that a
Bitcoin node answers and now and then sends a ping in a second of its own.

### Known divergences

`dualchain_dirty` is the one run that expects a violation. The other places where
code and documentation part, met while modelling, are reached by changing a
constant of a passing run:

- two masters of the check queue (`Masters = {m1, m2}`): `WaitSound` fails. The
  queue assumes one master (`checkqueue.h:22`), but the miner under `cs_main` and
  the Bitcoin thread under `cs_bestChain` can both be in `ConnectBlock`;
- the Bitcoin thread beside the message thread (`Threads = {"msg", "btc"}` in
  `MemPool`): `PoolConsistent` fails. A block is connected without `cs_main`
  between the look at the inputs and `addUnchecked`;
- a crash anywhere (`Crashes = TRUE` in `CheckpointChain`): `PassesCheckpoints`
  fails. A checkpoint was written but not enforced, its block is not known, and
  `AppInit2` enforces only the last one whose block is;
- after a restart no loaded Bitcoin header is a candidate, so that the first
  header of a weaker branch takes the chain over (`CChainManager.cpp:654` says
  "Check whether it's actually an improvement."); `SessionBest` speaks of one
  session for that reason;
- "The maximum number of orphan blocks kept in memory" (`main.h:50`) is 750, but 751
  are kept: `PruneOrphanBlocks` runs before the insertion and does nothing until the
  pool is over the limit (`main.cpp:1060`). `OrphansWait` bounds the pool by
  `nMaxOrphan + 1`;
- a crash between the two writes of the very first Bitcoin `ConnectTip`
  (`CChainManager.cpp:711` and `714`) leaves the start block without a best hash.
  `LoadBitcoinBlockIndex` then loads no tip, `InitBlockIndex` returns because the start
  block is known, and line 51 dereferences the NULL tip: the program cannot start from
  this database (`FirstWrite`, the exception in `DiskClosed`). No later crash does it;
- `CheckBTCHashValid` looks a height up twice (`main.cpp:2117`), and the second
  answer, which it dereferences, is NULL if the Bitcoin thread has taken a
  `DisconnectTip` in between;
- a Bitcoin node whose connection is cut before its first message, or in the middle
  of one, is never dropped (`CBitcoinNode.cpp:74`: `nLastRecv &&` and
  `m_recvBitcoinMsg.empty()`) and holds one of four places: `Stuck` in
  `HeadersArrive`;
- `getbalance` and `getbalance "*" 0` "should return the same number"
  (`rpcwallet.cpp:1246`). They do under the conditions of `BalancesAgree`. A pending
  transaction that spends an output which does not itself count (a payment of somebody
  else that is not confirmed) makes them differ (`PendingCounts`), and so does one of
  ours that is not trusted, because some of its inputs are not ours or
  `-spendzeroconfchange` is off (`PendingTrusted`): `GetBalance` takes what it spends for
  spent, the other computation skips it. The balances of the accounts, which do not ask
  for trust, then do not add up to that of `"*"` either;
- `DisconnectTip` drops from the pool what spends from a transaction the pool does not
  take back, and tells no wallet (`main.cpp:1933`: `removed` is not read). The credit
  of what the dropped transactions spend from stays cached too low until something else
  marks it dirty: `Bereft` in `CreditsExact`;
- a crash that undoes a disconnection brings back a block whose transactions the wallet
  may by then know from another one, and the locator says there is nothing to scan.
  `ChainSeen`, `LedgerBalance` and `CommitAccepted` fail after it: `undo = "lost"`;
- "This must not fail. The transaction has already been signed and recorded."
  (`wallet.cpp:1421`) fails without any crash too. `CommitTransaction` holds `cs_main` and
  `cs_wallet`, but the Bitcoin thread (dis)connects blocks under `cs_bestChain` alone:
  between `view.Flush` and `UpdateTip` (`main.cpp:1919` to `1937`, and `1965` to `1981`)
  the pool looks at the coins of one block and the wallet, when it selects, at another.
  The condition `pcoinsTip = tip` in `CommitAccepted` is that window; without it TLC shows
  the refusal after one `DisconnectBlock`;
- undo data written during the download to a file that is no longer the last is
  lost with a power failure and never written again (`main.cpp:1809`): `unsafe`
  in `ChainOnDisk`;
- a prize level whose share is too small divides before it multiplies
  (`CLotto.cpp:303`), which pays its winners nothing (`ShortLevel`);
- from a stake of about 439,000 coins on the first level of a `mulilt` bet (`MAX_MONEY` is
  52,000,000) 210000 * stake leaves the 64-bit integers. The sum of the prizes
  (`CLotto.cpp:277`) turns negative, the level counts as covered, and what is paid is the
  product as it wraps (`CLotto.cpp:84`), which may be more than the pool: without `Fits` in
  `Solvent`, TLC shows a pool of 1005 that pays 1424. An output that is negative or
  above `MAX_MONEY` is refused by `CheckTransaction`, and then no block with the key can be
  built at that height;
- while the tip is not above 4380 a bet that is not valid is drawn as if it were
  (`core.cpp:95`), and one with a repeated number wins on tickets that do not exist:
  without `IsValid` in `CountsExact`, TLC shows it. The one without tickets that
  `BetAssumption` leaves out ends the process with a division by zero;
- the hash that decides a draw stands in a later block than the bets (`HashAfterBets`),
  but need not be newer: a block repeats the last Bitcoin hash of its parent when
  no other has arrived (`miner.cpp:440`);
- `CBetMulity::IsValid` says "20 select 5  and 10 select 2" (`CBetMulity.cpp:42`) but
  accepts reds up to 21 and blues up to 11. `MselectN` of 21 overflows to a negative
  number, so that a bet on 21 reds has a negative number of tickets.

## Proofs

`CheckQueue_proofs` proves `CheckQueueSafe` for one master, any finite set of
workers, any number of checks and any batch size. The inductive invariant adds
to `TodoExact` an account of every check: in the queue, in some worker's batch,
or reported.

`DualChain_proofs` proves for all trees:

- `ChainSafe`: `TypeOK`, `FailedStayOut` and `AgreesWithBitcoin`. The inductive
  invariant `IInv` adds that the block index is closed under parents (`Closed`),
  that a thread's local block is what its place in the code says (`Processing`),
  and that genesis is a candidate and everything hangs from it (`Rooted`);
- `RestIsSettled`: `NothingMissed`. `Settled` adds what is owed while threads
  are on their way: if the best candidate is not on `chainMostWork` some thread
  is still to search, and if the active chain could move some thread is still to
  move it. It is the statement that the missing `cs_main` does no harm;
- `OrphansBounded`: `OrphansWait`;
- `MinerOnAgreed`: `MinerBuildsOnAgreed`. The walk of `CheckLastBlockState` stops at
  the first block that embeds nothing recent, so the invariant `Rising` says that the
  Bitcoin heights never fall along the active chain. The hypothesis `NoneStartsOver`
  is needed: `CheckLottoResult` exempts a block whose first height is that of the
  start block from the test that it goes on where its parent ended, and a block that
  made use of it high up would hide those below it from the walk. The trees of
  `MCDualChain` satisfy it.

`BitcoinLottery_proofs` has the proofs about the Bitcoin headers and about the draws
that take their hashes from them. It proves `BitcoinChainSafe`: `DiskClosed`, `ActiveStored` and
`SessionBest` for all header trees and any number of crashes. The inductive
invariant adds that the headers in memory reach down to the start block, that
every candidate is at most as good as `chainMostWorkBitcoin`, and where the tips
may be NULL. `HeaderSyncSafe` carries `DiskClosed` and `SessionBest` over to the
composition with `HeaderSync`: every step of it is a step of `BitcoinChain` or
leaves it alone (`SyncStep`), since what the messages hold are headers (`Wire`).
Of `Lottery` it proves `KeysKept` (`KeyKept` for every interval; `Keyed` adds which
blocks have the placeholder key) and `HashAfter` (`HashAfterBets`). The latter needs an
interval of at least two blocks and a step that is not 0: with `-btcheightstep=0` the
last block of an interval draws bets with the hash of their own block.

`PoolSolvent` (`Solvent`) holds for any number of bets, valid or drawn unchecked, any
winning numbers, any pool up to `MAX_MONEY` and any rounding that `ArithmeticAssumption`
allows, provided no bet has all 21 red numbers (`FewReds`), whose tickets `MselectN`
miscounts. The argument: a bet has a ticket and each ticket is worth something
(`TicketValue`), so nothing is divided by zero. A sum of prizes that never turned negative
tracks the exact sum (`Tracks`): it is equal to it, or it is at least `nExact`, more
than any pool (`Rounded`, `Added`, `TotalOfLevel`). So a level that counts as covered is
added up exactly and pays what it says, and one that is short pays nothing, since what
it may take, divided by the stakes, is less than what was won (`ShortLevel`): either way a
level pays no more than it may take (`LevelBound`). What the levels may take is four
fifths of the pool, since each is offered what those before it left (`SharesRule`), with
no overflow below `MAX_MONEY`; and the outputs, summed by bet, are what the levels pay,
summed by level (`FiveColumns`). `Total`, `Keep`, `RewardSum` and `MselectN` are recursive
functions; their laws are proved by induction from `WFMin` (`InductionOn`, `Recursion`).

`ConnectedForGood` proves `AcceptedForGood` for any bets and keys. It is inductive together
with `Placed`, which says which bets and hashes are at which height and that only keys of
draws are known: a check that succeeded succeeds with more keys (`MoreKeys`), because a
block without a key is not asked for it and the key a block carries was known, and the
chain below a block does not change while the block is on it (`Prefix`). `PoolSolvent`
uses the same invariant: what a block of the chain pays is what `DrawLottery` computes.

`TicketsCounted` proves `CountsExact` for every valid bet of at most 20 reds, every draw
and every history of blocks. `factorial(m) / factorial(n) / factorial(m - n)` is shown to
be the number of subsets of n members of a set of m: the subsets with one member more
obey Pascal's rule (`OneMore`), from which follows the ratio of neighbours (`Ratio`) and
that both divisions are exact (`Divides`, `SelectCounts`). A ticket is split into its
lucky and its other numbers (`SplitSubsets`), so that the tickets of a level are counted
by products (`ChosenCount`, `OnCount`); a level is a disjoint union of rows of one number
of reds and blues (`LevelRow`, `MixedCount`, `FifteenCount`). That `MselectN` is only asked
for numbers in its range follows from the sizes of the lucky numbers (`LuckSizes`, from
`BytesAssumption`) and from `IsValid`, which also makes the numbers of a bet distinct, so
that `Hit` counts numbers (`HitDistinct`, `BetRanges`). The invariant is `Placed`.

`Miner_proofs` proves `MemPoolSafe` for all transactions and block trees, when
one thread does everything, as `cs_main` would have it. `PoolConsistent` is
false in the middle of a reorganisation, so the invariant `IInv` says what is
owed there: while a block is connected, an input of the pool may be one that the
rest of the block spends (`Inputs`), and an output of the rest is available or
spent further on (`Order`); while one is disconnected, an input may be an output
of the rest. `ChainPart` relates coins and chain; from it follows that a
transaction about to be added is not on the chain, without which `NoShadow`
would not be inductive (`AddedIsFresh`).

It also proves `MinerSafe`: `TemplateConnects` and `NoneForgotten` (and the
properties of `MemPoolSafe` beside a miner). What survives the search for the block
is that its transactions connect to the coins of its parent, so `Node` adds that
`pcoinsTip` is a function of its best block (`CoinsAt`), which `IInv` does not need.
`Heap` says where every transaction of the pool is while the block is put together
and that it waits for exactly those parents that are not collected; from it follows
that what leaves the heap always has its inputs (`Collectable`).

`OrphansResolved` proves `OrphansFollow` of the same specification, for every limit and
every order in which orphans are tried and evicted. Beside `IInv` the invariant `OInv`
follows the orphans through the loop over `vWorkQueue`: an orphan of something accepted
is done with, queued, being tried, about to be queued, or misses another parent
(`Following`). Two facts carry it. A transaction that has just been added has no spender
in the pool (`Childless`), for the input of such a spender would not have existed; so
what is queued or refused is in the pool only if the loop has dealt with it (`Untried`),
and a refusal loses no followers. And an orphan that ceases to miss a parent spends what
was just added (`AcceptingStep`). Both need that no block comes in between: it is
`cs_main`, held for the whole handler, that makes the property hold.

`ChainState_proofs` proves `ChainStateSafe` (`CoinsExact`, `ChainOnDisk`) and
`ChainStateImplements` (the refinement `Implements`) for all block trees, file
layouts and failures. The invariant has one part per place where coins and blocks
are: `Chains`, that memory and every state the disk may come back to hold the coins
of their best block, up to entries without outputs; `Working`, what the view is in
the middle of a block; `Records`, that undo data in a file is exactly what its block
spent; `Index`, `Files` and `OnDisk`, that the block index names only what was
written, in the order in which a power failure can take it back. The heart is
`UndoInverse`: undoing a transaction with its record gives the coins before it.
Under the mapping `EndConnect` is `Connect`, `EndDisconnect` is `Disconnect`,
`Flush` is `Save`, `Crash` and `PowerFailure` are `Restart`; all else stutters.

`CheckpointChain_proofs` proves `CheckpointSafe`: `PassesCheckpoints` for all
block trees, checkpoints and threads, if the process stops only at rest
(see Known divergences). No lock orders the arrival of a checkpoint and
the connection of a block, so the invariant says who owes what (`Enforced`):
every checkpoint in memory is passed, or some thread is still to move the chain
to it. A passed checkpoint stays passed whoever moves the tip, because
`ConnectBlock` asks again (`PassedConnect`); the chain that `CheckActiveChain`
moves to ends below its checkpoint or passes it (`Goal`), however the candidates
were pruned.

`Wallet_proofs` proves `WalletSafe`: `Recoverable`, `OneUse` and `PoolReadable`
for any number of keys, reservations, passphrases and crashes and any size of the
pool. None is inductive alone. `Fresh` adds that keys are numbered as they are
made and that the one between its two writes is nowhere else; `Held` that a
reserved key still has its record while its index is out of the pool, which is
why a crash brings it back unused and why `KeepKey` erases the right record;
`Records` that records and keys in use are disjoint; `Crypto` that memory and
disk are both plain or both encrypted. `Held`, `Records` and `PoolReadable` hold
until an index that is reserved is given to a new key (`restarted`). Most steps
only move the call on: `CalmInv` deals with them at once.

Of `WalletTx` the same module proves `WalletSeesChain` (`ChainSeen`), `CachesExact`
(`CreditsExact`) and `CommitsAccepted` (`CommitAccepted`) for every tree of blocks, any
finite set of transactions and any number of reorganisations and crashes. The
assumptions say what the node guarantees: blocks are a tree, a coinbase is in one block
of a chain, the wallet makes standard transactions, and the first block pays nobody we
know; outputs and accounts are finitely many. `TxInv` adds to the three:

- `Typed`: the types; what the wallet is still told is of the chain it is told about;
- `Places`: where tip and coins are in each phase, and that a recorded block holds the
  transaction it is recorded for;
- `Cached`: a cached credit is right, or the wallet is still to be told of a transaction
  that marks it dirty, or `Bereft` excepts it. It holds between any two steps, where
  `getbalance` may run, while `CreditsExact` speaks of the rest;
- `Known`: no chain has a transaction twice (`Once`), the wallet has what the chain has
  (`SeenAt`) but for the rest of the block it is being told of (`Telling`), and it knows
  what is ours in the pool. The block on disk is on the chain unless a disconnection is
  not saved, which is why a crash brings back a chain whose transactions are recorded.

`CommitsAccepted` follows from `Known`: a spender of one of our coins is ours, so that
the wallet knows it, and `IsSpent` counts it while it is in the pool or on the chain of
the tip, which is the chain of `pcoinsTip` outside the window.

`BalanceIsLedgers` (`LedgerBalance`) and `BalancesAlwaysAgree` (`BalancesAgree`) are about
the balances. They need sums over sets: `SumsExist` shows that the recursion of
`MapThenSumSet` has a solution, `SumsTake` that the order of the elements does not
matter, and from these follow the laws of sums (`SumPlus`, `SumUnion`, `SumParts`,
`SumSwap`). `BalanceIs` then says that `GetBalance` is the worth of our `Unspent`
outputs. The ledger's side is a second invariant, `Ledgered`: every input on the chain
spends an output of the chain, mature if it is a coinbase's, and nothing is spent twice
on the chain, in the pool, or by both. So the debits of the transactions that count are
the worth of what they spend, each once, and unspent is what came in minus what went out.

`Connection_proofs` proves `BlocksArrive` (`NothingLost`), `QueuesBounded`
(`BuffersBounded`) and `LiveStaysOpen` (`OnlyJamsExpire`) for every size of sockets,
buffers and blocks, any number of requests and every timeout of more than two ping
intervals. They rest on one inductive invariant:

- `Frames`: what a node has pushed and the other not processed, `Stream`, is a run of
  whole messages, wherever sends and receives have cut it;
- `Greeting`: a version comes first, so that nothing is dropped for want of one;
- `Blocks`: `NothingLost` over the streams, which sends and receives leave alone;
- `Buffered`: the bounds, with one unit per request (`Asks`), and that a socket chosen
  for reading had room when it was chosen;
- `Shut`: a closed socket holds no data;
- `Course`: while the network works the connection is `Healthy` (everything sent is on
  its way or was heard of within a ping interval), `Frozen` (both queues full, for
  good) or `Over`. It is what `OnlyJamsExpire` needs: at a tick nothing is on its way
  unless both nodes wait for each other (`AtRest`), so that the ages of the last send
  and receive stay below the timeout.

Each action of the message thread is shown to be one step `Serves` (some messages
pushed, at most one taken, and the socket possibly lost), from which the invariant
follows once for all (`ServesIInv`). What the sequences carry is defined with
`FlattenSeq`; that it distributes over concatenation is proved by induction over the
length (`FlattenConcat`), through `WFMin` of `WellFoundedInduction`, which has no
operator as a parameter.

Checked by TLC only: the liveness properties `WaitReturns`, `ActivationReturns`,
`HeadersArrive`, `LockReturned` and `AnsweredOrClosed`, which need fairness and `ENABLED`,
out of reach of the prover, and the counterexample of `dualchain_dirty`. Every invariant and
every other action property of the passing runs is stated by a theorem.

## Not modelled

- Third-party code: the hash functions of `blockhash/` (a fifth of the lines under
  `src/src`), JSON, LevelDB. Together with the script interpreter, serialisation,
  big numbers, cryptography and the formatting of some hundred RPC commands, which
  are functions of bytes without control of their own, they are most of the
  code: the modules cover the part that keeps state across steps.
- The address manager (random tables; what it promises is a matter of
  probabilities), alerts, bloom filters, UPnP, DNS and the RPC server's HTTP.
- Of `Bitcoin::CBitcoinServer`: the database of addresses, DNS seeds and one-shot
  connections.
- The lock order of the whole program: each module has the locks of its
  operations. The cycle between `cs_wallet` and `cs_bestChain` is a hazard without
  a property.
- Reference counts of `CNode`, relay of inventory, misbehaviour scores.

## Plan

1. `CheckQueue`, `DualChain`, `BitcoinChain`, `MemPool`, `CheckpointChain`,
   `WalletKeys`, `WalletTx`, `ChainState` with `Ledger`, `Miner`, `HeaderSync`, `Connection`
   and the lottery: modelled, checked and proved, but for liveness.
2. `SyncGossip`: the `checkpoint`, `getcheck`, `lotterykey` and `getlottokey`
   messages between nodes.
3. `LockOrder`: `cs_main`, `cs_wallet`, `cs_bestChain`, `mempool.cs`.
