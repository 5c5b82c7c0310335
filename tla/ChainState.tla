----------------------------- MODULE ChainState -----------------------------
(***************************************************************************)
(* The coins and the block files: how blocks move the unspent outputs, in  *)
(* which order files, block index and coins reach the disk, and what is    *)
(* left of them after a crash or a power failure.                          *)
(*                                                                         *)
(* Coins are kept in three layers, each over the next: the view of the     *)
(* block that is being connected, the cache pcoinsTip, and the database    *)
(* chainstate.  Which block comes next is DualChain's business: here any   *)
(* block may be connected to the best one, and any best block be           *)
(* disconnected.  A transaction's inputs are spent and restored in one     *)
(* step; what FetchCoins copies from a layer to the one above it without a *)
(* change is left out.  A process that dies loses its memory; a power      *)
(* failure also loses what has not been committed: any part of the files,  *)
(* a suffix of the writes to the block index, a suffix of those to the     *)
(* coins.                                                                  *)
(***************************************************************************)
EXTENDS Integers, Sequences, FiniteSets

CONSTANTS
    Txids, Outs, Ins,       \* transactions; their outputs; the <<txid, output>> they spend
    Blocks, Root, Prev, Chain, Height, Vtx,
    L,                      \* L[b][i]: the coins after the first i transactions of b
    MaxFile, MaxFailures,   \* bounds: block files; crashes and power failures
    InitialDownload,        \* may IsInitialBlockDownload be true?
    Miss                    \* no entry in a cache

Pruned == [outs |-> {}, h |-> 0]
Coins == [outs : SUBSET UNION {Outs[t] : t \in Txids}, h : Nat]
Last(b) == Len(Vtx[b])
At == [b \in Blocks |-> L[b][Last(b)]]

Prevs(t) == {o[1] : o \in Ins[t]}
Nums(t, x) == {o[2] : o \in {p \in Ins[t] : p[1] = x}}

\* CCoins::Spend for all outputs of x that t spends.
Spend(c, t, x) ==
    IF c.outs \subseteq Nums(t, x) THEN Pruned ELSE [c EXCEPT !.outs = @ \ Nums(t, x)]

\* UpdateCoins: the inputs of t are spent, its outputs added.
UpdateCoins(C, t, h) ==
    [x \in Txids |-> IF x = t THEN [outs |-> Outs[t], h |-> h]
                     ELSE IF x \in Prevs(t) THEN Spend(C[x], t, x) ELSE C[x]]

\* The undo record: the height goes with the last output of a transaction.
TxUndo(C, t) ==
    [x \in Txids |-> IF x \in Prevs(t) /\ Spend(C[x], t, x) = Pruned THEN C[x].h ELSE 0]

\* mutant: the height of the undo record is not restored.
RestoreFlat(c, t, x, h) == [outs |-> c.outs \cup Nums(t, x), h |-> c.h]

\* DisconnectBlock, for an input: the record with a height comes first.
Restore(c, t, x, h) ==
    IF h # 0 THEN [outs |-> Nums(t, x), h |-> h]
    ELSE [outs |-> c.outs \cup Nums(t, x), h |-> c.h]

Undone(C, t, u) ==
    [x \in Txids |-> IF x = t THEN Pruned
                     ELSE IF x \in Prevs(t) THEN Restore(C[x], t, x, u[x]) ELSE C[x]]

HaveInputs(C, t) == \A o \in Ins[t] : o[2] \in C[o[1]].outs

\* L is the replay of the blocks from the root, whose own coins do not count.
ASSUME ChainStateAssumption ==
    /\ Root \in Blocks /\ Prev \in [Blocks \ {Root} -> Blocks]
    /\ Chain \in [Blocks -> SUBSET Blocks] /\ Chain[Root] = {Root}
    /\ \A b \in Blocks \ {Root} : Chain[b] = Chain[Prev[b]] \cup {b} /\ b \notin Chain[Prev[b]]
    /\ Height \in [Blocks -> Nat] /\ \A b \in Blocks \ {Root} : Height[b] # 0
    /\ Vtx \in [Blocks -> Seq(Txids)]
    /\ \A b \in Blocks : \A i, j \in 1..Last(b) : Vtx[b][i] = Vtx[b][j] => i = j
    /\ \A t \in Txids : /\ Outs[t] # {} /\ t \notin Prevs(t)
                        /\ Ins[t] \subseteq Txids \X UNION {Outs[y] : y \in Txids}
    /\ \A b \in Blocks : \A i \in 0..Last(b) : L[b][i] \in [Txids -> Coins]
    /\ Vtx[Root] = <<>> /\ L[Root][0] = [x \in Txids |-> Pruned]
    /\ \A b \in Blocks \ {Root} :
         /\ L[b][0] = At[Prev[b]]
         /\ \A i \in 1..Last(b) : L[b][i] = UpdateCoins(L[b][i - 1], Vtx[b][i], Height[b])
    /\ MaxFile \in Nat \ {0} /\ MaxFailures \in Nat /\ InitialDownload \in BOOLEAN
    /\ Miss \notin Coins /\ Miss \notin Blocks

VARIABLES
    phase, cur, pos,      \* what is being done, to which block, up to which transaction
    view, undo,           \* the view on top of pcoinsTip; the undo records of cur so far
    cache, cacheBest,     \* pcoinsTip: cacheCoins and hashBlock
    db, older,            \* chainstate, and the states a power failure may bring back
    failures,
    index,                \* the "data" and "undo" flags of every block in memory
    writes, synced,       \* the writes to the block index; how many of them Sync has made safe
    written, committed,   \* what is in the files, and what FileCommit has made safe
    rev,                  \* the undo records in the files
    fileOf, nLastBlockFile,
    unsafe                \* blocks whose undo data may be lost: written during the download and not
                          \* committed with the coins

mem == <<phase, cur, pos, view, undo, cache, cacheBest, index>>
coindb == <<db, older, failures>>
files == <<written, committed, rev, fileOf, nLastBlockFile>>
vars == <<mem, coindb, writes, synced, files, unsafe>>

Best == IF cacheBest = Miss THEN db.best ELSE cacheBest
Coin == [x \in Txids |-> IF cache[x] = Miss THEN db.coins[x] ELSE cache[x]]
View == [x \in Txids |-> IF view[x] = Miss THEN Coin[x] ELSE view[x]]
NoView == [x \in Txids |-> Miss]

Logged(n, b, flag) == \E i \in 1..n : writes[i] = <<b, flag>>
IndexAt(n) == [b \in Blocks |-> {f \in {"data", "undo"} : Logged(n, b, f)}]
-----------------------------------------------------------------------------
(* Blocks come in.                                                          *)

\* FileCommit of the file an item has just been written to: not during the download.
Commit(item) ==
    \/ committed' = committed \cup {i \in written \cup {item} : i[1] = item[1] /\ fileOf'[i[2]] = fileOf'[item[2]]}
    \/ InitialDownload /\ UNCHANGED committed

\* FindBlockPos leaves a full file behind it flushed.
Rotate ==
    /\ phase = "idle" /\ nLastBlockFile < MaxFile
    /\ nLastBlockFile' = nLastBlockFile + 1
    /\ committed' = committed \cup {i \in written : fileOf[i[2]] = nLastBlockFile}
    /\ UNCHANGED <<mem, coindb, writes, synced, written, rev, fileOf, unsafe>>

\* WriteBlockToDisk and AddToBlockIndex.
AcceptBlock(b) ==
    /\ phase = "idle" /\ index[b] = {} /\ index[Prev[b]] # {}
    /\ fileOf' = [fileOf EXCEPT ![b] = nLastBlockFile]
    /\ written' = written \cup {<<"data", b>>}
    /\ Commit(<<"data", b>>)
    /\ index' = [index EXCEPT ![b] = {"data"}]
    /\ writes' = Append(writes, <<b, "data">>)
    /\ UNCHANGED <<phase, cur, pos, view, undo, cache, cacheBest, coindb, synced, rev,
                   nLastBlockFile, unsafe>>
-----------------------------------------------------------------------------
(* ConnectTip.                                                              *)

\* ReadBlockFromDisk, and the start of ConnectBlock: no transaction may overwrite one
\* that has unspent outputs.
StartConnect(b) ==
    /\ phase = "idle" /\ Prev[b] = Best /\ index[b] # {}
    /\ IF <<"data", b>> \in written
       THEN /\ \A i \in 1..Last(b) : Coin[Vtx[b][i]] = Pruned
            /\ phase' = "connect" /\ cur' = b /\ pos' = 0
       ELSE phase' = "aborted" /\ UNCHANGED <<cur, pos>>
    /\ UNCHANGED <<view, undo, cache, cacheBest, index, coindb, writes, synced, files, unsafe>>

Touched(t) == {t} \cup Prevs(t)

\* Sets the coins of the view that a transaction touches.
SetCoins(t, C) == view' = [x \in Txids |-> IF x \in Touched(t) THEN C[x] ELSE view[x]]

ConnectTx ==
    /\ phase = "connect" /\ pos < Last(cur)
    /\ LET t == Vtx[cur][pos + 1] IN
         /\ HaveInputs(View, t)
         /\ SetCoins(t, UpdateCoins(View, t, Height[cur]))
         /\ undo' = Append(undo, TxUndo(View, t))
    /\ pos' = pos + 1
    /\ UNCHANGED <<phase, cur, cache, cacheBest, index, coindb, writes, synced, files, unsafe>>

Leave(next) == phase' = next /\ cur' = Root /\ pos' = 0 /\ view' = NoView /\ undo' = <<>>

\* mutant: the view of a block that fails is flushed as well.
ConnectFailsFlushed ==
    /\ phase = "connect" /\ Leave("idle")
    /\ cache' = [x \in Txids |-> IF view[x] = Miss THEN cache[x] ELSE view[x]]
    /\ UNCHANGED <<cacheBest, index, coindb, writes, synced, files, unsafe>>

\* Any check of ConnectBlock may fail: the view is forgotten.
ConnectFails ==
    /\ phase = "connect"
    /\ Leave("idle")
    /\ UNCHANGED <<cache, cacheBest, index, coindb, writes, synced, files, unsafe>>

\* CCoinsViewCache::Flush of the view into pcoinsTip.
FlushView(b) ==
    /\ cache' = [x \in Txids |-> IF view[x] = Miss THEN cache[x] ELSE view[x]]
    /\ cacheBest' = b
    /\ Leave("flushfiles")

\* The end of ConnectBlock: undo data for a block that has none, then the index.
EndConnect ==
    /\ phase = "connect" /\ pos = Last(cur)
    /\ FlushView(cur)
    /\ IF "undo" \in index[cur] THEN UNCHANGED <<written, committed, rev, index, writes, unsafe, fileOf>>
       ELSE /\ written' = written \cup {<<"undo", cur>>}
            /\ rev' = [rev EXCEPT ![cur] = undo]
            /\ UNCHANGED fileOf
            /\ Commit(<<"undo", cur>>)
            /\ unsafe' = IF <<"undo", cur>> \notin committed' /\ fileOf[cur] # nLastBlockFile
                         THEN unsafe \cup {cur} ELSE unsafe
            /\ index' = [index EXCEPT ![cur] = @ \cup {"undo"}]
            /\ writes' = Append(writes, <<cur, "undo">>)
    /\ UNCHANGED <<coindb, synced, nLastBlockFile>>
-----------------------------------------------------------------------------
(* DisconnectTip.                                                           *)

StartDisconnect ==
    /\ phase = "idle" /\ Best # Root
    /\ IF {<<"data", Best>>, <<"undo", Best>>} \subseteq written /\ "undo" \in index[Best]
       THEN phase' = "disconnect" /\ cur' = Best /\ pos' = Last(Best)
       ELSE phase' = "aborted" /\ UNCHANGED <<cur, pos>>
    /\ UNCHANGED <<view, undo, cache, cacheBest, index, coindb, writes, synced, files, unsafe>>

\* The transactions in reverse order; a mismatch with the block is an error.
DisconnectTx ==
    /\ phase = "disconnect" /\ pos > 0
    /\ LET t == Vtx[cur][pos] IN
         /\ View[t] = [outs |-> Outs[t], h |-> Height[cur]]
         /\ SetCoins(t, Undone(View, t, rev[cur][pos]))
    /\ pos' = pos - 1
    /\ UNCHANGED <<phase, cur, undo, cache, cacheBest, index, coindb, writes, synced, files, unsafe>>

EndDisconnect ==
    /\ phase = "disconnect" /\ pos = 0
    /\ FlushView(Prev[cur])
    /\ UNCHANGED <<index, coindb, writes, synced, files, unsafe>>
-----------------------------------------------------------------------------
(* WriteChainState.                                                         *)

SkipWrite ==
    /\ phase = "flushfiles" /\ InitialDownload
    /\ phase' = "idle"
    /\ UNCHANGED <<cur, pos, view, undo, cache, cacheBest, index, coindb, writes, synced, files, unsafe>>

FlushBlockFile ==
    /\ phase = "flushfiles"
    /\ committed' = committed \cup {i \in written : fileOf[i[2]] = nLastBlockFile}
    /\ phase' = "sync"
    /\ UNCHANGED <<cur, pos, view, undo, cache, cacheBest, index, coindb, writes, synced,
                   written, rev, fileOf, nLastBlockFile, unsafe>>

\* mutant: the coins are written before the block index is safe.
NoSync ==
    /\ phase = "sync" /\ phase' = "flush"
    /\ UNCHANGED <<cur, pos, view, undo, cache, cacheBest, index, coindb, writes, synced, files, unsafe>>

Sync ==
    /\ phase = "sync"
    /\ synced' = Len(writes)
    /\ phase' = "flush"
    /\ UNCHANGED <<cur, pos, view, undo, cache, cacheBest, index, coindb, writes, files, unsafe>>

\* CCoinsViewCache::Flush of pcoinsTip: CCoinsViewDB::BatchWrite is one batch.
Flush ==
    /\ phase = "flush"
    /\ db' = [best |-> Best, coins |-> Coin]
    /\ older' = older \cup {db}
    /\ cache' = NoView
    /\ phase' = "idle"
    /\ UNCHANGED <<cur, pos, view, undo, cacheBest, failures, index, writes, synced, files, unsafe>>
-----------------------------------------------------------------------------
(* Failures, and LoadBlockIndexDB.                                          *)

Restart ==
    /\ failures < MaxFailures /\ failures' = failures + 1
    /\ Leave("idle") /\ cache' = NoView /\ cacheBest' = Miss

Crash ==
    /\ Restart
    /\ index' = IndexAt(Len(writes))
    /\ UNCHANGED <<db, older, writes, synced, files, unsafe>>

PowerFailure ==
    /\ Restart
    /\ \E v \in older \cup {db} : db' = v /\ older' = {}
    /\ \E n \in synced..Len(writes) :
         /\ writes' = SubSeq(writes, 1, n) /\ synced' = n
         /\ index' = IndexAt(n)
         /\ \E f \in 1..nLastBlockFile :
              /\ \A i \in 1..n : fileOf[writes[i][1]] <= f
              /\ nLastBlockFile' = f
         /\ \E lost \in SUBSET (written \ committed) :
              /\ written' = written \ lost /\ committed' = written \ lost
              /\ unsafe' = unsafe \cup {b \in Blocks : <<"undo", b>> \in lost /\ Logged(n, b, "undo")}
    /\ UNCHANGED <<rev, fileOf>>
-----------------------------------------------------------------------------
\* A new data directory with the first block.
Init ==
    /\ phase = "idle" /\ cur = Root /\ pos = 0 /\ view = NoView /\ undo = <<>>
    /\ cache = NoView /\ cacheBest = Miss
    /\ db = [best |-> Root, coins |-> At[Root]] /\ older = {} /\ failures = 0
    /\ index = [b \in Blocks |-> IF b = Root THEN {"data", "undo"} ELSE {}]
    /\ writes = <<<<Root, "data">>, <<Root, "undo">>>> /\ synced = 2
    /\ written = {<<"data", Root>>, <<"undo", Root>>} /\ committed = written
    /\ rev = [b \in Blocks |-> <<>>]
    /\ fileOf = [b \in Blocks |-> 1] /\ nLastBlockFile = 1 /\ unsafe = {}

Next ==
    \/ Rotate
    \/ \E b \in Blocks \ {Root} : AcceptBlock(b) \/ StartConnect(b)
    \/ ConnectTx \/ ConnectFails \/ EndConnect
    \/ StartDisconnect \/ DisconnectTx \/ EndDisconnect
    \/ SkipWrite \/ FlushBlockFile \/ Sync \/ Flush
    \/ Crash \/ PowerFailure

Spec == Init /\ [][Next]_vars
-----------------------------------------------------------------------------
TypeOK ==
    /\ phase \in {"idle", "connect", "disconnect", "flushfiles", "sync", "flush", "aborted"}
    /\ cur \in Blocks /\ pos \in 0..Last(cur)
    /\ view \in [Txids -> Coins \cup {Miss}] /\ cache \in [Txids -> Coins \cup {Miss}]
    /\ undo \in Seq([Txids -> Nat]) /\ rev \in [Blocks -> Seq([Txids -> Nat])]
    /\ cacheBest \in Blocks \cup {Miss}
    /\ older \cup {db} \subseteq [best : Blocks, coins : [Txids -> Coins]]
    /\ index \in [Blocks -> SUBSET {"data", "undo"}]
    /\ writes \in Seq(Blocks \X {"data", "undo"}) /\ synced \in 0..Len(writes)
    /\ committed \subseteq written /\ written \subseteq {"data", "undo"} \X Blocks
    /\ fileOf \in [Blocks -> 1..MaxFile] /\ nLastBlockFile \in 1..MaxFile
    /\ unsafe \subseteq Blocks /\ failures \in 0..MaxFailures

\* The coins are the ledger: whatever has been connected, disconnected, flushed or
\* lost, the coins pcoinsTip answers with are those a replay of the blocks up to its
\* best block leaves, and so are those of every state the disk may come back to.  In the
\* middle of a block the view is there as well: a transaction is disconnected from exactly
\* the coins it left, DisconnectBlock never finds "added transaction mismatch? database
\* corrupted" (main.cpp:1596), and undoes what ConnectBlock did.
CoinsExact ==
    /\ Coin = At[Best]
    /\ \A v \in older \cup {db} : v.coins = At[v.best]
    /\ phase \in {"connect", "disconnect"} => View = L[cur][pos]

\* What the coins say is on disk: for every state a power failure may bring back, the
\* files hold the blocks up to its best block and their undo data, and the safe part of
\* the block index knows them; but for undo data written during the download to a file
\* that is not the last, or lost in an earlier failure.
ChainOnDisk ==
    \A v \in older \cup {db} : \A b \in Chain[v.best] :
        /\ Logged(synced, b, "data") /\ Logged(synced, b, "undo")
        /\ <<"data", b>> \in committed
        /\ <<"undo", b>> \in committed \/ b \in unsafe

Abstract == INSTANCE Ledger WITH best <- Best, coins <- Coin,
                                 saved <- {v.best : v \in older \cup {db}}

\* The coin database implements the ledger: connecting and disconnecting a block is
\* atomic and durable states are whole ones.
Implements == Abstract!Spec
=============================================================================
