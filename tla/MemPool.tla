------------------------------ MODULE MemPool ------------------------------
(***************************************************************************)
(* The memory pool (CTxMemPool), the orphan transactions and the coins     *)
(* (pcoinsTip) under a chain that grows and reorganises.                   *)
(*                                                                         *)
(* AcceptToMemoryPool takes the lock of the pool three times: for the test *)
(* for conflicts, for the test of the inputs, and to add.  cs_main keeps   *)
(* its callers apart: the tx message, RPC and wallet commands, and blocks. *)
(* A reorganisation that the Bitcoin thread starts holds cs_bestChain but  *)
(* not cs_main.  Which chain becomes active is the matter of DualChain:    *)
(* here any block may be connected or disconnected.                        *)
(***************************************************************************)
EXTENDS Naturals, Sequences, FiniteSets

CONSTANTS
    Txs, Coinbases,      \* transactions; those that are coinbases
    Outpoints, Of, Ins,  \* outputs; the transaction of one; what each one spends
    NonStandard,  \* refused before its inputs are looked up
    Unpaid, BadScript,        \* refused after
    Blocks, Root, Prev, Chain, Vtx,  \* the block tree and the transactions of a block
    Threads, Message,    \* threads; the one that holds cs_main
    None,
    MAX_ORPHAN_TRANSACTIONS

TxsOf(b) == {Vtx[b][i] : i \in DOMAIN Vtx[b]}

\* Root stands for the buried part of the chain, its transactions for those
\* that have matured.  Reorganisations are less deep than COINBASE_MATURITY.
\* Chain[b] is b and its ancestors; no transaction is twice on a chain.
ASSUME MemPoolAssumption ==
    /\ Coinbases \subseteq Txs /\ None \notin Txs
    /\ Of \in [Outpoints -> Txs] /\ Ins \in [Txs -> SUBSET Outpoints]
    /\ \A x \in Txs : Ins[x] = {} <=> x \in Coinbases
    /\ Root \in Blocks /\ Prev \in [Blocks \ {Root} -> Blocks]
    /\ Chain \in [Blocks -> SUBSET Blocks] /\ Chain[Root] = {Root}
    /\ \A b \in Blocks \ {Root} : Chain[b] = Chain[Prev[b]] \cup {b} /\ b \notin Chain[Prev[b]]
    /\ \A b \in Blocks : Root \in Chain[b] /\ \A c \in Chain[b] : Chain[c] \subseteq Chain[b]
    /\ Vtx \in [Blocks -> Seq(Txs)] /\ TxsOf(Root) \subseteq Coinbases
    /\ \A b \in Blocks : /\ Vtx[b] # <<>>
                         /\ \A i, j \in DOMAIN Vtx[b] : Vtx[b][i] = Vtx[b][j] => i = j
                         /\ \A c \in Chain[b] \ {b} : TxsOf(b) \cap TxsOf(c) = {}
    /\ Message \in Threads
    /\ MAX_ORPHAN_TRANSACTIONS \in Nat

VARIABLES
    mapTx,      \* transactions in the pool
    mapNextTx,  \* for every output: the transaction of the pool that spends it
    mapOrphanTransactions,
    coins,      \* outputs available in pcoinsTip
    pruned,     \* transactions with an entry without outputs in its cache
    best,       \* its best block
    pc,         \* where each thread is
    caller,     \* for whom it is in AcceptToMemoryPool
    tx,         \* AcceptToMemoryPool's argument
    rest,       \* the transactions of the block still to be handled
    vWorkQueue, \* pairs of a transaction accepted and an orphan that spends it
    vEraseQueue

pool == <<mapTx, mapNextTx>>
chain == <<coins, pruned, best>>
orphanage == <<mapOrphanTransactions, vWorkQueue, vEraseQueue>>
vars == <<pool, chain, orphanage, pc, caller, tx, rest>>

Outs(X) == {o \in Outpoints : Of[o] \in X}
Parents(x) == {Of[o] : o \in Ins[x]}

Init ==
    /\ mapTx = {} /\ mapNextTx = [o \in Outpoints |-> None]
    /\ mapOrphanTransactions = {} /\ vWorkQueue = {} /\ vEraseQueue = {}
    /\ coins = Outs(TxsOf(Root)) /\ pruned = {} /\ best = Root
    /\ pc = [t \in Threads |-> "idle"] /\ caller = [t \in Threads |-> "none"]
    /\ tx = [t \in Threads |-> None] /\ rest = [t \in Threads |-> <<>>]

-----------------------------------------------------------------------------
(* CTxMemPool *)

addUnchecked(x) ==
    /\ mapTx' = mapTx \cup {x}
    /\ mapNextTx' = [o \in Outpoints |-> IF o \in Ins[x] THEN x ELSE mapNextTx[o]]

\* mutant: only the transactions that spend x, not those that spend them
SpendersOfDirect(x) == {mapNextTx[o] : o \in Outs({x})} \ {None}

\* remove's recursion: the least set of pool transactions that holds all that
\* spend x or one of themselves.
SpendersOf(x) ==
    {y \in mapTx : \A S \in SUBSET mapTx :
        (\A o \in Outs(S \cup {x}) : mapNextTx[o] # None => mapNextTx[o] \in S) => y \in S}

\* Take a set out of the pool.
Erase(X) ==
    /\ mapTx' = mapTx \ X
    /\ mapNextTx' = [o \in Outpoints |->
                        IF \E x \in X \cap mapTx : o \in Ins[x] THEN None ELSE mapNextTx[o]]

\* The transactions of the pool that spend an input of x.
Conflicts(x) == {mapNextTx[o] : o \in Ins[x]} \ {None, x}

\* mutant: the confirmed transaction itself stays
ConfirmedStays(x) == UNION {{y} \cup SpendersOf(y) : y \in Conflicts(x)}

\* What remove and removeConflicts take out when x is in a block.
Confirmed(x) == {x} \cup UNION {{y} \cup SpendersOf(y) : y \in Conflicts(x)}

-----------------------------------------------------------------------------
(* pcoinsTip and CCoinsViewMemPool *)

\* An entry of the cache counts even if all its outputs are spent.
HaveCoins(x) == x \in pruned \/ Outs({x}) \cap coins # {}

Have(x) == HaveCoins(x) \/ x \in mapTx

\* The chain hides the pool.
Available(o) == IF HaveCoins(Of[o]) THEN o \in coins ELSE Of[o] \in mapTx

Missing(x) == \E y \in Parents(x) : ~Have(y)

Immature(x) == Parents(x) \cap (Coinbases \ TxsOf(Root)) # {}

-----------------------------------------------------------------------------
(* AcceptToMemoryPool *)

Call(t, who, x) ==
    /\ pc' = [pc EXCEPT ![t] = "conflicts"]
    /\ caller' = [caller EXCEPT ![t] = who] /\ tx' = [tx EXCEPT ![t] = x]

\* CheckTransaction, IsStandardTx, and what is already there
Unwanted(x) == x \in NonStandard \cup Coinbases \cup mapTx

\* ... and the conflicts with the pool
CheckConflicts(t) ==
    /\ pc[t] = "conflicts"
    /\ pc' = [pc EXCEPT ![t] =
          IF Unwanted(tx[t]) \/ \E o \in Ins[tx[t]] : mapNextTx[o] # None
          THEN "refused" ELSE "inputs"]
    /\ UNCHANGED <<pool, chain, orphanage, caller, tx, rest>>

\* what the inputs look like through CCoinsViewMemPool
LookUpInputs(t) ==
    /\ pc[t] = "inputs"
    /\ pc' = [pc EXCEPT ![t] =
          IF HaveCoins(tx[t]) THEN "refused"
          ELSE IF Missing(tx[t]) THEN "missing"
          ELSE IF \A o \in Ins[tx[t]] : Available(o) THEN "add" ELSE "refused"]
    /\ UNCHANGED <<pool, chain, orphanage, caller, tx, rest>>

\* Relayed transactions must pay a fee (fLimitFree).
Unworthy(t) ==
    tx[t] \in BadScript \/ Immature(tx[t]) \/ (tx[t] \in Unpaid /\ caller[t] \in {"relay", "orphan"})

\* fees, CheckInputs and addUnchecked, without another look at pcoinsTip
Add(t) ==
    /\ pc[t] = "add"
    /\ IF Unworthy(t)
       THEN pc' = [pc EXCEPT ![t] = "refused"] /\ UNCHANGED pool
       ELSE pc' = [pc EXCEPT ![t] = "accepted"] /\ addUnchecked(tx[t])
    /\ UNCHANGED <<chain, orphanage, caller, tx, rest>>

Return(t, place) ==
    /\ pc' = [pc EXCEPT ![t] = place]
    /\ caller' = [caller EXCEPT ![t] = "none"] /\ tx' = [tx EXCEPT ![t] = None]

-----------------------------------------------------------------------------
(* The tx message, and sendrawtransaction *)

ReceiveTx(x) ==
    /\ pc[Message] = "idle"
    /\ \E who \in {"relay", "submit"} : Call(Message, who, x)
    /\ UNCHANGED <<pool, chain, orphanage, rest>>

\* sendrawtransaction does nothing more; a message that fails for another
\* reason than missing inputs is dropped.
Done ==
    /\ \/ caller[Message] = "submit" /\ pc[Message] \in {"accepted", "refused", "missing"}
       \/ caller[Message] = "relay" /\ pc[Message] = "refused"
    /\ Return(Message, "idle")
    /\ UNCHANGED <<pool, chain, orphanage, rest>>

\* One random orphan too many is evicted.
LimitOrphanTxSize(X) ==
    IF Cardinality(X) > MAX_ORPHAN_TRANSACTIONS THEN {X \ {y} : y \in X} ELSE {X}

\* AddOrphanTx
KeepOrphan ==
    /\ caller[Message] = "relay" /\ pc[Message] = "missing"
    /\ mapOrphanTransactions' \in LimitOrphanTxSize(mapOrphanTransactions \cup {tx[Message]})
    /\ Return(Message, "idle")
    /\ UNCHANGED <<pool, chain, vWorkQueue, vEraseQueue, rest>>

\* mapOrphanTransactionsByPrev[x], paired with x
OrphansByPrev(x) == {<<x, y>> : y \in {z \in mapOrphanTransactions : x \in Parents(z)}}

\* mutant: an orphan that was accepted does not bring its own orphans in
FollowersFirst(t) == IF caller[t] = "relay" THEN OrphansByPrev(tx[t]) ELSE {}

\* What the acceptance of tx puts into vWorkQueue.
Followers(t) == OrphansByPrev(tx[t])

\* The result for the transaction of the message, or for an orphan
Resolved ==
    /\ \/ caller[Message] = "relay" /\ pc[Message] = "accepted"
       \/ caller[Message] = "orphan" /\ pc[Message] \in {"accepted", "refused", "missing"}
    /\ vWorkQueue' = vWorkQueue \cup (IF pc[Message] = "accepted" THEN Followers(Message) ELSE {})
    /\ vEraseQueue' = vEraseQueue \cup (IF pc[Message] = "missing" THEN {} ELSE {tx[Message]})
    /\ Return(Message, "orphans")
    /\ UNCHANGED <<pool, chain, mapOrphanTransactions, rest>>

TryOrphan ==
    /\ pc[Message] = "orphans"
    /\ \E p \in vWorkQueue : vWorkQueue' = vWorkQueue \ {p} /\ Call(Message, "orphan", p[2])
    /\ UNCHANGED <<pool, chain, mapOrphanTransactions, vEraseQueue, rest>>

\* EraseOrphanTx
EraseOrphans ==
    /\ pc[Message] = "orphans" /\ vWorkQueue = {}
    /\ mapOrphanTransactions' = mapOrphanTransactions \ vEraseQueue
    /\ vEraseQueue' = {}
    /\ Return(Message, "idle")
    /\ UNCHANGED <<pool, chain, vWorkQueue, rest>>

-----------------------------------------------------------------------------
(* Reorganisation, under cs_bestChain *)

Reorganising(t) == rest[t] # <<>>

\* ConnectBlock: every input is there, spent once, mature; no transaction has
\* outputs already (BIP30).
Connectable(b) ==
    /\ \A i \in DOMAIN Vtx[b] : \A o \in Ins[Vtx[b][i]] :
          /\ o \in coins \/ \E j \in 1..(i - 1) : Of[o] = Vtx[b][j]
          /\ \A j \in DOMAIN Vtx[b] : j # i => o \notin Ins[Vtx[b][j]]
    /\ \A x \in TxsOf(b) : Outs({x}) \cap coins = {} /\ ~Immature(x)

Spent(b) == UNION {Ins[x] : x \in TxsOf(b)}

\* UpdateCoins for every transaction of a block, and DisconnectBlock
Connected(b) == (coins \cup Outs(TxsOf(b))) \ Spent(b)
Disconnected(b) == (coins \cup Spent(b)) \ Outs(TxsOf(b))

\* The view is flushed into pcoinsTip.  Entries that have no output left stay
\* in that cache until WriteChainState flushes it, too.
Update(newcoins, gone, touched) ==
    /\ coins' = newcoins
    /\ pruned' \in {{}, (pruned \ touched) \cup gone}

\* ConnectTip up to the memory pool
ConnectTip(t, b) ==
    /\ pc[t] = "idle" /\ \A u \in Threads : ~Reorganising(u)
    /\ b # Root /\ Prev[b] = best /\ Connectable(b)
    /\ LET after == Connected(b)
           touched == TxsOf(b) \cup {Of[o] : o \in Spent(b)}
       IN  Update(after, {x \in touched : Outs({x}) \cap after = {}}, touched)
    /\ best' = b
    /\ rest' = [rest EXCEPT ![t] = Vtx[b]] /\ pc' = [pc EXCEPT ![t] = "connect"]
    /\ UNCHANGED <<pool, orphanage, caller, tx>>

\* its loop: remove and removeConflicts
RemoveConnected(t) ==
    /\ pc[t] = "connect"
    /\ LET x == Head(rest[t]) IN Erase(Confirmed(x))
    /\ rest' = [rest EXCEPT ![t] = Tail(@)]
    /\ pc' = [pc EXCEPT ![t] = IF Len(rest[t]) = 1 THEN "idle" ELSE "connect"]
    /\ UNCHANGED <<chain, orphanage, caller, tx>>

\* DisconnectTip up to the memory pool
DisconnectTip(t) ==
    /\ pc[t] = "idle" /\ \A u \in Threads : ~Reorganising(u)
    /\ best # Root
    /\ LET b == best
       IN  /\ Update(Disconnected(b), TxsOf(b), {Of[o] : o \in Spent(b)})
           /\ best' = Prev[b]
           /\ rest' = [rest EXCEPT ![t] = Vtx[b]]
    /\ pc' = [pc EXCEPT ![t] = "resurrect"]
    /\ UNCHANGED <<pool, orphanage, caller, tx>>

\* its loop over the transactions: a coinbase is skipped ...
Skip(t) ==
    /\ pc[t] = "resurrect" /\ Head(rest[t]) \in Coinbases
    /\ rest' = [rest EXCEPT ![t] = Tail(@)]
    /\ pc' = [pc EXCEPT ![t] = IF Len(rest[t]) = 1 THEN "idle" ELSE "resurrect"]
    /\ UNCHANGED <<pool, chain, orphanage, caller, tx>>

\* ... the others are offered to the pool ...
Resurrect(t) ==
    /\ pc[t] = "resurrect" /\ Head(rest[t]) \notin Coinbases
    /\ Call(t, "resurrect", Head(rest[t]))
    /\ UNCHANGED <<pool, chain, orphanage, rest>>

\* ... and removed with all that spend them if they are refused.
Resurrected(t) ==
    /\ caller[t] = "resurrect" /\ pc[t] \in {"accepted", "refused", "missing"}
    /\ IF pc[t] = "accepted" THEN UNCHANGED pool ELSE Erase({tx[t]} \cup SpendersOf(tx[t]))
    /\ rest' = [rest EXCEPT ![t] = Tail(@)]
    /\ Return(t, IF Len(rest[t]) = 1 THEN "idle" ELSE "resurrect")
    /\ UNCHANGED <<chain, orphanage>>

Next ==
    \/ \E x \in Txs : ReceiveTx(x)
    \/ Done \/ KeepOrphan \/ Resolved \/ TryOrphan \/ EraseOrphans
    \/ \E t \in Threads :
          \/ CheckConflicts(t) \/ LookUpInputs(t) \/ Add(t)
          \/ \E b \in Blocks : ConnectTip(t, b)
          \/ RemoveConnected(t) \/ DisconnectTip(t) \/ Skip(t) \/ Resurrect(t) \/ Resurrected(t)

Spec == Init /\ [][Next]_vars

-----------------------------------------------------------------------------
(* Properties *)

\* The pool, the orphan maps and the locals of AcceptToMemoryPool hold
\* transactions of the right kind: no coinbase is ever in the pool.
TypeOK ==
    /\ mapTx \subseteq Txs \ Coinbases /\ mapNextTx \in [Outpoints -> Txs \cup {None}]
    /\ mapOrphanTransactions \subseteq Txs
    /\ coins \subseteq Outpoints /\ pruned \subseteq Txs /\ best \in Blocks
    /\ pc \in [Threads -> {"idle", "conflicts", "inputs", "add", "accepted", "refused", "missing",
                           "orphans", "connect", "resurrect"}]
    /\ caller \in [Threads -> {"none", "relay", "submit", "orphan", "resurrect"}]
    /\ tx \in [Threads -> Txs \cup {None}] /\ rest \in [Threads -> Seq(Txs)]
    /\ vWorkQueue \subseteq Txs \X Txs /\ vEraseQueue \subseteq Txs

Quiet == \A t \in Threads : ~Reorganising(t)

\* The asserts of CTxMemPool::check, which runs before and after every block
\* and after every transaction accepted: every input of the pool is an
\* available coin or an output of the pool, marked as spent by exactly that
\* transaction, and nothing else is marked.
PoolConsistent ==
    Quiet =>
       /\ \A x \in mapTx : \A o \in Ins[x] : mapNextTx[o] = x /\ (o \in coins \/ Of[o] \in mapTx)
       /\ \A o \in Outpoints : mapNextTx[o] # None => mapNextTx[o] \in mapTx /\ o \in Ins[mapNextTx[o]]

\* No transaction of the pool is hidden by an entry of the chain, not even by
\* one without outputs: CCoinsViewMemPool looks at the chain first.
NoShadow == Quiet => \A x \in mapTx : ~HaveCoins(x)

\* The orphans never exceed their limit, and when the handler of a transaction
\* ends, no orphan that spends one it accepted has all its parents in view.
OrphansFollow ==
    [][ /\ Cardinality(mapOrphanTransactions') <= MAX_ORPHAN_TRANSACTIONS
        /\ pc[Message] = "orphans" /\ pc'[Message] = "idle" =>
              \A y \in mapOrphanTransactions' :
                 Parents(y) \cap vEraseQueue \cap mapTx # {} => Missing(y)' ]_vars
=============================================================================
