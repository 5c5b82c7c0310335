-------------------------- MODULE ChainState_proofs --------------------------
(***************************************************************************)
(* For every tree of blocks, any number of files, crashes and power        *)
(* failures: the coins are those of a replay, undo data undoes exactly,    *)
(* what the coins need is on disk, and ChainState implements Ledger.       *)
(***************************************************************************)
EXTENDS ChainState, TLAPS

-----------------------------------------------------------------------------
(* The inductive invariant *)

\* Coins as UpdateCoins leaves them: an entry has outputs and a height, or is Pruned.
Norm(C) == \A x \in Txids : C[x] # Pruned => C[x].outs # {} /\ C[x].h # 0

\* The i-th transaction of b finds its inputs and overwrites nothing.
SoundAt(b, i) ==
    /\ Norm(L[b][i - 1]) /\ HaveInputs(L[b][i - 1], Vtx[b][i])
    /\ L[b][i - 1][Vtx[b][i]] = Pruned

Sound(b) == (\A i \in 1..Last(b) : SoundAt(b, i)) /\ Norm(At[b])

\* u holds the undo records of the first n transactions of b.
Exact(u, b, n) == Len(u) = n /\ \A i \in 1..n : u[i] = TxUndo(L[b][i - 1], Vtx[b][i])

Disks == older \cup {db}

\* Only sound blocks are connected.
Chains == \A b \in Chain[Best] \cup UNION {Chain[v.best] : v \in Disks} : Sound(b)

\* A block that is being connected is sound so far; one being disconnected has its
\* undo data; otherwise there is no view.
Working ==
    /\ phase = "connect" =>
         /\ cur # Root /\ Prev[cur] = Best /\ Exact(undo, cur, pos)
         /\ \A i \in 1..pos : SoundAt(cur, i)
         /\ Norm(L[cur][pos])
         /\ \A i \in (pos + 1)..Last(cur) : L[cur][pos][Vtx[cur][i]] = Pruned
         /\ <<"data", cur>> \in written /\ "data" \in index[cur]
    /\ phase = "disconnect" => cur # Root /\ cur = Best /\ <<"undo", cur>> \in written
    /\ phase \notin {"connect", "disconnect"} => view = NoView
    /\ phase # "connect" => undo = <<>>

\* Undo data in the files is that of its block.
Records == \A b \in Blocks : <<"undo", b>> \in written => Exact(rev[b], b, Last(b))

\* The index in memory is what has been written of it, data before undo data.
Index ==
    /\ index = IndexAt(Len(writes))
    /\ \A n \in 0..Len(writes) : \A b \in Blocks : Logged(n, b, "undo") => Logged(n, b, "data")

\* What is not safe yet: it is in the index, and of a file before the last it is undo
\* data known to be unsafe.
Files ==
    /\ \A i \in written \ committed :
         /\ i[1] \in index[i[2]]
         /\ fileOf[i[2]] # nLastBlockFile => i[1] = "undo" /\ i[2] \in unsafe
         /\ phase \in {"sync", "flush"} => fileOf[i[2]] # nLastBlockFile
    /\ phase = "flush" => synced = Len(writes)
    /\ \A b \in Blocks : "undo" \in index[b] => <<"undo", b>> \in written \/ b \in unsafe

\* The active chain is in the index, and its blocks in the files.
OnDisk == \A b \in Chain[Best] : index[b] = {"data", "undo"} /\ <<"data", b>> \in written

IInv ==
    /\ TypeOK /\ CoinsExact /\ Chains /\ Working /\ Records
    /\ Index /\ Files /\ OnDisk /\ ChainOnDisk
-----------------------------------------------------------------------------
(* The tree, and what transactions do to coins *)

LEMMA TreeFacts ==
    /\ Root \in Blocks /\ Chain[Root] = {Root}
    /\ \A b \in Blocks : b \in Chain[b] /\ Chain[b] \subseteq Blocks
    /\ \A b \in Blocks \ {Root} :
         Prev[b] \in Blocks /\ Chain[b] = Chain[Prev[b]] \cup {b} /\ Height[b] # 0 /\ Height[b] \in Nat
<1>1. \A b \in Blocks \ {Root} : Chain[b] = Chain[Prev[b]] \cup {b} /\ Prev[b] \in Blocks
  BY ChainStateAssumption
<1>2. \A b \in Blocks : Chain[b] \subseteq Blocks
  BY ChainStateAssumption
<1>3. Root \in Blocks /\ Chain[Root] = {Root} /\ \A b \in Blocks \ {Root} : Height[b] # 0 /\ Height[b] \in Nat
  BY ChainStateAssumption
<1> QED  BY <1>1, <1>2, <1>3

LEMMA VtxFacts ==
    ASSUME NEW b \in Blocks
    PROVE  /\ Last(b) \in Nat /\ Vtx[b] \in Seq(Txids)
           /\ \A i \in 1..Last(b) : Vtx[b][i] \in Txids
           /\ \A i, j \in 1..Last(b) : Vtx[b][i] = Vtx[b][j] => i = j
           /\ \A i \in 0..Last(b) : L[b][i] \in [Txids -> Coins]
           /\ At[b] = L[b][Last(b)] /\ At[b] \in [Txids -> Coins]
<1>1. Vtx[b] \in Seq(Txids)
  BY ChainStateAssumption
<1>2. Last(b) \in Nat /\ \A i \in 1..Last(b) : Vtx[b][i] \in Txids
  BY <1>1 DEF Last
<1>3. \A i \in 0..Last(b) : L[b][i] \in [Txids -> Coins]
  BY ChainStateAssumption
<1>4. \A i, j \in 1..Last(b) : Vtx[b][i] = Vtx[b][j] => i = j
  BY ChainStateAssumption
<1>5. Last(b) \in 0..Last(b)
  BY <1>2
<1>6. At[b] = L[b][Last(b)]
  BY DEF At
<1>7. At[b] \in [Txids -> Coins]
  BY <1>3, <1>5, <1>6
<1> QED
  BY <1>1, <1>2, <1>3, <1>4, <1>6, <1>7

LEMMA ReplayFacts ==
    ASSUME NEW b \in Blocks \ {Root}
    PROVE  /\ L[b][0] = At[Prev[b]]
           /\ \A i \in 1..Last(b) : L[b][i] = UpdateCoins(L[b][i - 1], Vtx[b][i], Height[b])
BY ChainStateAssumption

LEMMA TxFacts ==
    ASSUME NEW t \in Txids
    PROVE  /\ Outs[t] # {} /\ t \notin Prevs(t) /\ Prevs(t) \subseteq Txids
           /\ \A x \in Prevs(t) : Nums(t, x) # {}
           /\ \A o \in Ins[t] : o[1] \in Prevs(t) /\ o[2] \in Nums(t, o[1])
<1>1. Outs[t] # {} /\ t \notin Prevs(t) /\ Ins[t] \subseteq Txids \X UNION {Outs[y] : y \in Txids}
  BY ChainStateAssumption
<1>2. Prevs(t) \subseteq Txids
  BY <1>1 DEF Prevs
<1>3. \A o \in Ins[t] : o[1] \in Prevs(t) /\ o[2] \in Nums(t, o[1])
  BY DEF Prevs, Nums
<1>4. \A x \in Prevs(t) : Nums(t, x) # {}
  BY <1>3 DEF Prevs
<1> QED  BY <1>1, <1>2, <1>3, <1>4

LEMMA CoinFacts ==
    /\ Pruned.outs = {} /\ Pruned.h = 0 /\ Miss \notin Coins
    /\ \A c \in Coins : c = [outs |-> c.outs, h |-> c.h] /\ c.h \in Nat
BY ChainStateAssumption DEF Pruned, Coins

LEMMA SpendFacts ==
    ASSUME NEW c \in Coins, NEW t, NEW x
    PROVE  /\ c.outs \subseteq Nums(t, x) => Spend(c, t, x) = Pruned
           /\ ~(c.outs \subseteq Nums(t, x)) =>
                /\ Spend(c, t, x).outs = c.outs \ Nums(t, x) /\ Spend(c, t, x).h = c.h
                /\ Spend(c, t, x) # Pruned
<1>1. CASE c.outs \subseteq Nums(t, x)
  BY <1>1 DEF Spend
<1>2. CASE ~(c.outs \subseteq Nums(t, x))
  <2>1. Spend(c, t, x) = [c EXCEPT !.outs = @ \ Nums(t, x)]
    BY <1>2 DEF Spend
  <2>2. Spend(c, t, x).outs = c.outs \ Nums(t, x) /\ Spend(c, t, x).h = c.h
    BY <2>1 DEF Coins
  <2>3. c.outs \ Nums(t, x) # {}
    BY <1>2
  <2> QED  BY <1>2, <2>2, <2>3, CoinFacts
<1> QED  BY <1>1, <1>2

\* UpdateCoins keeps coins normal.
LEMMA NormUpdate ==
    ASSUME NEW C \in [Txids -> Coins], NEW t \in Txids, NEW h \in Nat, h # 0, Norm(C)
    PROVE  Norm(UpdateCoins(C, t, h))
<1> SUFFICES ASSUME NEW x \in Txids, UpdateCoins(C, t, h)[x] # Pruned
             PROVE  UpdateCoins(C, t, h)[x].outs # {} /\ UpdateCoins(C, t, h)[x].h # 0
  BY DEF Norm
<1>1. CASE x = t
  BY <1>1, TxFacts DEF UpdateCoins
<1>2. CASE x # t /\ x \in Prevs(t)
  <2>1. UpdateCoins(C, t, h)[x] = Spend(C[x], t, x)
    BY <1>2 DEF UpdateCoins
  <2>2. C[x] \in Coins
    OBVIOUS
  <2>3. ~(C[x].outs \subseteq Nums(t, x))
    BY <2>1, <2>2, SpendFacts
  <2>4. C[x] # Pruned
    BY <2>3, CoinFacts
  <2> QED  BY <2>1, <2>2, <2>3, <2>4, SpendFacts DEF Norm
<1>3. CASE x # t /\ x \notin Prevs(t)
  BY <1>3 DEF UpdateCoins, Norm
<1> QED  BY <1>1, <1>2, <1>3

\* An entry without outputs stays so until its transaction comes.
LEMMA PrunedUpdate ==
    ASSUME NEW C \in [Txids -> Coins], NEW t \in Txids, NEW h, NEW x \in Txids, x # t, C[x] = Pruned
    PROVE  UpdateCoins(C, t, h)[x] = Pruned
<1>1. CASE x \in Prevs(t)
  <2>1. UpdateCoins(C, t, h)[x] = Spend(C[x], t, x)
    BY <1>1 DEF UpdateCoins
  <2> QED  BY <2>1, CoinFacts DEF Spend
<1>2. CASE x \notin Prevs(t)
  BY <1>2 DEF UpdateCoins
<1> QED  BY <1>1, <1>2

\* Undo data undoes exactly: DisconnectBlock is the inverse of ConnectBlock.
LEMMA UndoInverse ==
    ASSUME NEW C \in [Txids -> Coins], NEW t \in Txids, NEW h, Norm(C), HaveInputs(C, t), C[t] = Pruned
    PROVE  Undone(UpdateCoins(C, t, h), t, TxUndo(C, t)) = C
<1> DEFINE U == Undone(UpdateCoins(C, t, h), t, TxUndo(C, t))
<1>1. ASSUME NEW x \in Txids PROVE U[x] = C[x]
  <2>1. CASE x = t
    BY <2>1 DEF Undone
  <2>2. CASE x # t /\ x \notin Prevs(t)
    BY <2>2 DEF Undone, UpdateCoins
  <2>3. CASE x # t /\ x \in Prevs(t)
    <3>1. U[x] = Restore(Spend(C[x], t, x), t, x, TxUndo(C, t)[x])
      BY <2>3 DEF Undone, UpdateCoins
    <3>2. C[x] \in Coins /\ Nums(t, x) \subseteq C[x].outs /\ Nums(t, x) # {}
      <4>1. \A o \in Ins[t] : o[2] \in C[o[1]].outs
        BY DEF HaveInputs
      <4>2. Nums(t, x) \subseteq C[x].outs
        BY <4>1 DEF Nums
      <4> QED  BY <4>2, <2>3, TxFacts
    <3>3. C[x] # Pruned /\ C[x].h # 0
      BY <3>2, CoinFacts DEF Norm
    <3>4. CASE C[x].outs \subseteq Nums(t, x)
      <4>1. Spend(C[x], t, x) = Pruned
        BY <3>2, <3>4, SpendFacts
      <4>2. TxUndo(C, t)[x] = C[x].h
        BY <2>3, <4>1 DEF TxUndo
      <4>3. U[x] = [outs |-> Nums(t, x), h |-> C[x].h]
        BY <3>1, <3>3, <4>2 DEF Restore
      <4>4. Nums(t, x) = C[x].outs
        BY <3>2, <3>4
      <4> QED  BY <3>2, <4>3, <4>4, CoinFacts
    <3>5. CASE ~(C[x].outs \subseteq Nums(t, x))
      <4>1. /\ Spend(C[x], t, x).outs = C[x].outs \ Nums(t, x) /\ Spend(C[x], t, x).h = C[x].h
            /\ Spend(C[x], t, x) # Pruned
        BY <3>2, <3>5, SpendFacts
      <4>2. TxUndo(C, t)[x] = 0
        BY <4>1 DEF TxUndo
      <4>3. U[x] = [outs |-> (C[x].outs \ Nums(t, x)) \cup Nums(t, x), h |-> C[x].h]
        BY <3>1, <4>1, <4>2 DEF Restore
      <4>4. (C[x].outs \ Nums(t, x)) \cup Nums(t, x) = C[x].outs
        BY <3>2
      <4> QED  BY <3>2, <4>3, <4>4, CoinFacts
    <3> QED  BY <3>4, <3>5
  <2> QED  BY <2>1, <2>2, <2>3
<1>2. U = [x \in Txids |-> U[x]] /\ C = [x \in Txids |-> C[x]]
  BY DEF Undone
<1> QED  BY <1>1, <1>2

LEMMA UndoType ==
    ASSUME NEW C \in [Txids -> Coins], NEW t
    PROVE  TxUndo(C, t) \in [Txids -> Nat]
BY CoinFacts DEF TxUndo
-----------------------------------------------------------------------------
(* What a step leaves alone *)

LEMMA SameCoins ==
    ASSUME UNCHANGED <<cache, cacheBest, db, older>>
    PROVE  Best' = Best /\ Coin' = Coin /\ Disks' = Disks
BY DEF Best, Coin, Disks

LEMMA BestFacts ==
    ASSUME TypeOK
    PROVE  /\ Best \in Blocks /\ db \in Disks /\ \A v \in Disks : v.best \in Blocks
           /\ Coin \in [Txids -> Coins] /\ \A v \in Disks : v.coins \in [Txids -> Coins]
<1>1. db.best \in Blocks /\ db.coins \in [Txids -> Coins] /\ db \in Disks
  BY DEF TypeOK, Disks
<1>2. Best \in Blocks
  BY <1>1 DEF TypeOK, Best
<1>3. Coin \in [Txids -> Coins]
  BY <1>1 DEF TypeOK, Coin
<1>4. \A v \in Disks : v.best \in Blocks /\ v.coins \in [Txids -> Coins]
  BY DEF TypeOK, Disks
<1> QED  BY <1>1, <1>2, <1>3, <1>4

\* A step between blocks that leaves the coins and the undo data alone.
LEMMA CoinsKept ==
    ASSUME IInv, UNCHANGED <<cur, pos, view, undo, cache, cacheBest, db, older, rev>>,
           phase \notin {"connect", "disconnect"}, phase' \notin {"connect", "disconnect"},
           \A b \in Blocks : <<"undo", b>> \in written' => <<"undo", b>> \in written
    PROVE  CoinsExact' /\ Chains' /\ Working' /\ Records'
<1>1. Best' = Best /\ Coin' = Coin /\ Disks' = Disks
  BY SameCoins
<1>2. CoinsExact' /\ Chains'
  BY <1>1 DEF IInv, CoinsExact, Chains, Disks
<1>3. Working'
  BY DEF IInv, Working, NoView
<1>4. Records'
  BY DEF IInv, Records
<1> QED  BY <1>2, <1>3, <1>4

\* A step that leaves the disk alone.
LEMMA DiskKept ==
    ASSUME IInv, UNCHANGED <<cache, cacheBest, db, older, index, writes, synced, files, unsafe>>,
           phase' \notin {"sync", "flush"}
    PROVE  Index' /\ Files' /\ OnDisk' /\ ChainOnDisk'
<1>1. Best' = Best
  BY SameCoins
<1>2. Index'
  BY DEF IInv, Index, IndexAt, Logged
<1>3. Files'
  BY DEF IInv, Files, files
<1>4. OnDisk' /\ ChainOnDisk'
  BY <1>1 DEF IInv, OnDisk, ChainOnDisk, Logged, files
<1> QED  BY <1>2, <1>3, <1>4

\* The index in terms of the log.
LEMMA IndexFacts ==
    ASSUME IInv, NEW b \in Blocks
    PROVE  /\ index[b] \subseteq {"data", "undo"}
           /\ \A f \in {"data", "undo"} : f \in index[b] <=> Logged(Len(writes), b, f)
           /\ index[b] # {} => "data" \in index[b]
<1>1. \A f \in {"data", "undo"} : f \in index[b] <=> Logged(Len(writes), b, f)
  BY DEF IInv, Index, IndexAt
<1>2. index[b] \subseteq {"data", "undo"}
  BY DEF IInv, TypeOK
<1>3. Len(writes) \in 0..Len(writes)
  BY DEF IInv, TypeOK
<1>4. Logged(Len(writes), b, "undo") => Logged(Len(writes), b, "data")
  BY <1>3 DEF IInv, Index
<1> QED  BY <1>1, <1>2, <1>4

\* A write to the log changes nothing before it.
LEMMA LogAppend ==
    ASSUME TypeOK, NEW e \in Blocks \X {"data", "undo"}, writes' = Append(writes, e)
    PROVE  /\ Len(writes') = Len(writes) + 1 /\ Len(writes) \in Nat
           /\ \A n \in 0..Len(writes) : \A b, f : Logged(n, b, f)' <=> Logged(n, b, f)
           /\ \A b, f : Logged(Len(writes), b, f)' <=> Logged(Len(writes), b, f) \/ e = <<b, f>>
<1>1. /\ writes \in Seq(Blocks \X {"data", "undo"}) /\ Len(writes') = Len(writes) + 1 /\ Len(writes) \in Nat
      /\ \A i \in 1..Len(writes) : writes'[i] = writes[i]
      /\ writes'[Len(writes) + 1] = e
  BY DEF TypeOK
<1>2. ASSUME NEW n \in 0..Len(writes), NEW b, NEW f PROVE Logged(n, b, f)' <=> Logged(n, b, f)
  <2>1. \A i \in 1..n : i \in 1..Len(writes) /\ writes'[i] = writes[i]
    BY <1>1
  <2> QED  BY <2>1 DEF Logged
<1>3. ASSUME NEW b, NEW f
      PROVE  Logged(Len(writes), b, f)' <=> Logged(Len(writes), b, f) \/ e = <<b, f>>
  <2>1. \A i \in 1..Len(writes') : i \in 1..Len(writes) \/ i = Len(writes) + 1
    BY <1>1
  <2>2. 1..Len(writes) \subseteq 1..Len(writes') /\ Len(writes) + 1 \in 1..Len(writes')
    BY <1>1
  <2> QED  BY <1>1, <2>1, <2>2 DEF Logged
<1> QED  BY <1>1, <1>2, <1>3

\* What is logged stays logged.
LEMMA LogMore ==
    ASSUME NEW m \in Nat, NEW n \in Nat, m <= n, NEW b, NEW f, Logged(m, b, f)
    PROVE  Logged(n, b, f)
<1>1. 1..m \subseteq 1..n
  OBVIOUS
<1> QED  BY <1>1 DEF Logged

\* The index after a write.
LEMMA IndexAppend ==
    ASSUME IInv, NEW b \in Blocks, NEW f \in {"data", "undo"}, f = "undo" => "data" \in index[b],
           writes' = Append(writes, <<b, f>>), index' = [index EXCEPT ![b] = @ \cup {f}],
           synced' = synced
    PROVE  /\ Index' /\ writes' \in Seq(Blocks \X {"data", "undo"}) /\ synced' \in 0..Len(writes')
           /\ \A a, g : Logged(synced, a, g)' <=> Logged(synced, a, g)
           /\ index' \in [Blocks -> SUBSET {"data", "undo"}]
<1> DEFINE e == <<b, f>>
<1>1. TypeOK /\ e \in Blocks \X {"data", "undo"} /\ writes' = Append(writes, e)
  BY DEF IInv
<1> HIDE DEF e
<1>2. /\ Len(writes') = Len(writes) + 1 /\ Len(writes) \in Nat
      /\ \A n \in 0..Len(writes) : \A a, g : Logged(n, a, g)' <=> Logged(n, a, g)
      /\ \A a, g : Logged(Len(writes), a, g)' <=> Logged(Len(writes), a, g) \/ e = <<a, g>>
  BY <1>1, LogAppend
<1>3. writes' \in Seq(Blocks \X {"data", "undo"}) /\ synced' \in 0..Len(writes') /\ synced \in 0..Len(writes)
  BY <1>1, <1>2 DEF TypeOK
<1>4. index' \in [Blocks -> SUBSET {"data", "undo"}]
  BY <1>1 DEF TypeOK
<1>5. ASSUME NEW a, NEW g PROVE Logged(synced, a, g)' <=> Logged(synced, a, g)
  <2>1. PICK n \in 0..Len(writes) : n = synced
    BY <1>3
  <2>2. Logged(n, a, g)' <=> Logged(n, a, g)
    BY <1>2
  <2> QED  BY <2>1, <2>2 DEF Logged
<1>6. ASSUME NEW a \in Blocks PROVE index'[a] = {g \in {"data", "undo"} : Logged(Len(writes), a, g)'}
  <2>1. \A g \in {"data", "undo"} : g \in index[a] <=> Logged(Len(writes), a, g)
    BY IndexFacts
  <2>2. index[a] \subseteq {"data", "undo"} /\ index'[a] \subseteq {"data", "undo"}
    BY <1>1, <1>4 DEF TypeOK
  <2>3. \A g : g \in index'[a] <=> g \in index[a] \/ (a = b /\ g = f)
    BY <1>1 DEF TypeOK
  <2>4. \A g : e = <<a, g>> <=> a = b /\ g = f
    BY DEF e
  <2> QED  BY <1>2, <2>1, <2>2, <2>3, <2>4
<1>7. index' = IndexAt(Len(writes))'
  BY <1>4, <1>6 DEF IndexAt
<1>8. ASSUME NEW n \in 0..Len(writes'), NEW a \in Blocks, Logged(n, a, "undo")'
      PROVE  Logged(n, a, "data")'
  <2>1. CASE n \in 0..Len(writes)
    BY <1>2, <1>8, <2>1 DEF IInv, Index
  <2>2. CASE n = Len(writes')
    <3>1. Logged(Len(writes), a, "undo")'
      BY <1>8, <2>2 DEF Logged
    <3>2. Logged(Len(writes), a, "undo") \/ e = <<a, "undo">>
      BY <1>2, <3>1
    <3>3. Logged(Len(writes), a, "data")
      <4>1. CASE Logged(Len(writes), a, "undo")
        BY <4>1, <1>2 DEF IInv, Index
      <4>2. CASE e = <<a, "undo">>
        BY <4>2, IndexFacts DEF e
      <4> QED  BY <3>2, <4>1, <4>2
    <3>4. Logged(Len(writes), a, "data")'
      BY <1>2, <3>3
    <3> QED  BY <2>2, <3>4 DEF Logged
  <2> QED  BY <1>2, <2>1, <2>2
<1> QED  BY <1>3, <1>4, <1>5, <1>7, <1>8 DEF Index
-----------------------------------------------------------------------------
(* Blocks come in *)

LEMMA RotateStep ==
    ASSUME IInv, Rotate
    PROVE  IInv'
<1>1. TypeOK'
  <2>1. nLastBlockFile' \in 1..MaxFile
    BY ChainStateAssumption DEF IInv, TypeOK, Rotate
  <2>2. committed' \subseteq written'
    BY DEF IInv, TypeOK, Rotate
  <2> QED  BY <2>1, <2>2 DEF IInv, TypeOK, Rotate, mem, coindb
<1>2. CoinsExact' /\ Chains' /\ Working' /\ Records'
  BY CoinsKept DEF Rotate, mem, coindb
<1>3. Index'
  BY DEF IInv, Index, IndexAt, Logged, Rotate, mem
<1>4. Files'
  BY DEF IInv, Files, Rotate, mem
<1>5. Best' = Best /\ Disks' = Disks
  BY SameCoins DEF Rotate, mem, coindb
<1>6. OnDisk'
  BY <1>5 DEF IInv, OnDisk, Rotate, mem
<1>7. ChainOnDisk'
  BY DEF IInv, ChainOnDisk, Logged, Rotate, mem, coindb
<1> QED  BY <1>1, <1>2, <1>3, <1>4, <1>6, <1>7 DEF IInv

LEMMA AcceptBlockStep ==
    ASSUME IInv, NEW b \in Blocks \ {Root}, AcceptBlock(b)
    PROVE  IInv'
<1>1. /\ index[b] = {} /\ index' = [index EXCEPT ![b] = @ \cup {"data"}]
      /\ writes' = Append(writes, <<b, "data">>) /\ synced' = synced
  BY DEF AcceptBlock, IInv, TypeOK
<1>2. /\ Index' /\ writes' \in Seq(Blocks \X {"data", "undo"}) /\ synced' \in 0..Len(writes')
      /\ \A a, g : Logged(synced, a, g)' <=> Logged(synced, a, g)
      /\ index' \in [Blocks -> SUBSET {"data", "undo"}]
  BY <1>1, IndexAppend
<1>3. /\ written' = written \cup {<<"data", b>>} /\ committed \subseteq committed'
      /\ committed' \subseteq written'
  BY DEF AcceptBlock, Commit, IInv, TypeOK
<1>4. TypeOK'
  <2>1. fileOf' \in [Blocks -> 1..MaxFile]
    BY DEF AcceptBlock, IInv, TypeOK
  <2>2. written' \subseteq {"data", "undo"} \X Blocks
    BY <1>3 DEF IInv, TypeOK
  <2> QED  BY <1>2, <1>3, <2>1, <2>2 DEF AcceptBlock, IInv, TypeOK, coindb
<1>5. CoinsExact' /\ Chains' /\ Working' /\ Records'
  BY <1>3, CoinsKept DEF AcceptBlock, coindb
<1>6. Best' = Best /\ Disks' = Disks
  BY SameCoins DEF AcceptBlock, coindb
<1>7. ASSUME NEW i \in written' \ committed'
      PROVE  i[1] \in index'[i[2]] /\ (fileOf'[i[2]] # nLastBlockFile' => i[1] = "undo" /\ i[2] \in unsafe')
  <2>1. CASE i = <<"data", b>>
    BY <2>1, <1>1 DEF AcceptBlock, IInv, TypeOK
  <2>2. CASE i # <<"data", b>>
    <3>1. i \in written \ committed
      BY <1>3, <2>2
    <3>2. i[1] \in index[i[2]] /\ i[2] \in Blocks
      BY <3>1 DEF IInv, Files, TypeOK
    <3>3. i[2] # b
      BY <1>1, <3>2
    <3> QED  BY <1>1, <3>1, <3>2, <3>3 DEF AcceptBlock, IInv, Files, TypeOK
  <2> QED  BY <2>1, <2>2
<1>8. Files'
  <2>1. \A a \in Blocks : "undo" \in index'[a] => "undo" \in index[a]
    BY <1>1 DEF IInv, TypeOK
  <2>2. \A a \in Blocks : "undo" \in index'[a] => <<"undo", a>> \in written' \/ a \in unsafe'
    BY <2>1, <1>3 DEF IInv, Files, AcceptBlock
  <2>3. phase' \notin {"sync", "flush"}
    BY DEF AcceptBlock
  <2> QED  BY <1>7, <2>2, <2>3 DEF Files
<1>9. OnDisk'
  <2>1. b \notin Chain[Best]
    BY <1>1 DEF IInv, OnDisk
  <2>2. Chain[Best] \subseteq Blocks
    BY TreeFacts, BestFacts DEF IInv
  <2>3. \A a \in Chain[Best] : index'[a] = index[a]
    BY <1>1, <2>1, <2>2 DEF IInv, TypeOK
  <2> QED  BY <1>3, <1>6, <2>3 DEF IInv, OnDisk
<1>10. ChainOnDisk'
  <2>1. older' \cup {db'} = older \cup {db} /\ unsafe' = unsafe
    BY DEF AcceptBlock, coindb
  <2> QED  BY <1>2, <1>3, <2>1 DEF IInv, ChainOnDisk
<1> QED  BY <1>2, <1>4, <1>5, <1>8, <1>9, <1>10 DEF IInv
-----------------------------------------------------------------------------
(* ConnectTip *)

\* Nothing but the mode changes: an error stops the node.
LEMMA AbortStep ==
    ASSUME IInv, phase = "idle", phase' = "aborted",
           UNCHANGED <<cur, pos, view, undo, cache, cacheBest, index, coindb, writes, synced, files, unsafe>>
    PROVE  IInv'
<1>1. TypeOK'
  BY DEF IInv, TypeOK, coindb, files
<1>2. CoinsExact' /\ Chains' /\ Working' /\ Records'
  BY CoinsKept DEF coindb, files
<1>3. Index' /\ Files' /\ OnDisk' /\ ChainOnDisk'
  BY DiskKept DEF coindb
<1> QED  BY <1>1, <1>2, <1>3 DEF IInv

LEMMA StartConnectStep ==
    ASSUME IInv, NEW b \in Blocks \ {Root}, StartConnect(b)
    PROVE  IInv'
<1>1. CASE <<"data", b>> \notin written
  BY <1>1, AbortStep DEF StartConnect
<1>2. CASE <<"data", b>> \in written
  <2> USE <1>2
  <2>1. /\ phase = "idle" /\ phase' = "connect" /\ cur' = b /\ pos' = 0 /\ Prev[b] = Best /\ index[b] # {}
        /\ UNCHANGED <<view, undo, cache, cacheBest, index, db, older, failures, writes, synced, files, unsafe>>
        /\ \A i \in 1..Last(b) : Coin[Vtx[b][i]] = Pruned
    BY DEF StartConnect, coindb
  <2>2. Last(b) \in Nat /\ pos' \in 0..Last(cur')
    BY <2>1, VtxFacts
  <2>3. TypeOK'
    <3>1. /\ phase' \in {"idle", "connect", "disconnect", "flushfiles", "sync", "flush", "aborted"}
          /\ cur' \in Blocks
      BY <2>1
    <3> QED  BY <2>1, <2>2, <3>1, SMTT(60) DEF IInv, TypeOK, files
  <2>4. Best' = Best /\ Coin' = Coin /\ Disks' = Disks
    BY <2>1, SameCoins
  <2>5. view' = NoView /\ undo' = <<>> /\ View' = Coin'
    BY <2>1 DEF IInv, Working, View, NoView, Coin
  <2>6. Coin = L[b][0] /\ L[b][0] = At[Best]
    BY <2>1, ReplayFacts DEF IInv, CoinsExact
  <2>7. CoinsExact' /\ Chains'
    BY <2>1, <2>4, <2>5, <2>6 DEF IInv, CoinsExact, Chains, Disks
  <2>8. Norm(L[b][0])
    <3>1. Best \in Chain[Best]
      BY TreeFacts, BestFacts DEF IInv
    <3> QED  BY <2>6, <3>1 DEF IInv, Chains, Sound
  <2>9. Working'
    <3>1. Exact(undo', b, 0)
      BY <2>5 DEF Exact
    <3>2. \A i \in (0 + 1)..Last(b) : L[b][0][Vtx[b][i]] = Pruned
      BY <2>1, <2>2, <2>6
    <3>3. "data" \in index[b]
      BY <2>1, IndexFacts
    <3> QED  BY <2>1, <2>4, <2>8, <3>1, <3>2, <3>3 DEF Working, files
  <2>10. Records'
    BY <2>1 DEF IInv, Records, files
  <2>11. Index' /\ Files' /\ OnDisk' /\ ChainOnDisk'
    BY <2>1, DiskKept
  <2> QED  BY <2>3, <2>7, <2>9, <2>10, <2>11 DEF IInv
<1> QED  BY <1>1, <1>2

\* What SetCoins makes of the view.
LEMMA SetFacts ==
    ASSUME IInv, NEW t \in Txids, NEW C \in [Txids -> Coins], SetCoins(t, C),
           \A x \in Txids : x \notin Touched(t) => C[x] = View[x],
           UNCHANGED <<cache, db>>
    PROVE  View' = C /\ view' \in [Txids -> Coins \cup {Miss}]
<1>1. view' \in [Txids -> Coins \cup {Miss}]
  BY DEF IInv, TypeOK, SetCoins
<1>2. ASSUME NEW x \in Txids PROVE View'[x] = C[x]
  <2>1. CASE x \in Touched(t)
    BY <2>1, CoinFacts DEF SetCoins, View
  <2>2. CASE x \notin Touched(t)
    BY <2>2 DEF SetCoins, View, Coin
  <2> QED  BY <2>1, <2>2
<1>3. View' = [x \in Txids |-> View'[x]]
  BY DEF View
<1> QED  BY <1>1, <1>2, <1>3

LEMMA ViewType ==
    ASSUME IInv, phase \in {"connect", "disconnect"}
    PROVE  View = L[cur][pos] /\ View \in [Txids -> Coins] /\ cur \in Blocks /\ pos \in 0..Last(cur)
BY VtxFacts DEF IInv, CoinsExact, TypeOK

LEMMA ConnectTxStep ==
    ASSUME IInv, ConnectTx
    PROVE  IInv'
<1> DEFINE t == Vtx[cur][pos + 1]
           C == UpdateCoins(View, t, Height[cur])
<1>1. /\ phase = "connect" /\ pos < Last(cur) /\ HaveInputs(View, t) /\ SetCoins(t, C)
      /\ undo' = Append(undo, TxUndo(View, t)) /\ pos' = pos + 1
      /\ UNCHANGED <<phase, cur, cache, cacheBest, index, coindb, writes, synced, files, unsafe>>
  BY DEF ConnectTx
<1>2. View = L[cur][pos] /\ View \in [Txids -> Coins] /\ cur \in Blocks \ {Root} /\ pos \in 0..Last(cur)
  BY <1>1, ViewType DEF IInv, Working
<1>3. /\ Last(cur) \in Nat /\ pos + 1 \in 1..Last(cur) /\ t \in Txids /\ (pos + 1) - 1 = pos
      /\ \A i \in 1..Last(cur) : Vtx[cur][i] \in Txids
      /\ \A i, j \in 1..Last(cur) : Vtx[cur][i] = Vtx[cur][j] => i = j
  <2>1. /\ Last(cur) \in Nat
        /\ \A i \in 1..Last(cur) : Vtx[cur][i] \in Txids
        /\ \A i, j \in 1..Last(cur) : Vtx[cur][i] = Vtx[cur][j] => i = j
    BY <1>2, VtxFacts
  <2>2. pos + 1 \in 1..Last(cur) /\ (pos + 1) - 1 = pos
    BY <1>1, <1>2, <2>1
  <2> QED  BY <2>1, <2>2
<1>4. C = L[cur][pos + 1] /\ C \in [Txids -> Coins] /\ Height[cur] \in Nat /\ Height[cur] # 0
  <2>1. C = L[cur][pos + 1]
    BY <1>2, <1>3, ReplayFacts
  <2>2. pos + 1 \in 0..Last(cur)
    BY <1>3
  <2> QED  BY <1>2, <2>1, <2>2, VtxFacts, TreeFacts
<1>5. \A x \in Txids : x \notin Touched(t) => C[x] = View[x]
  BY DEF Touched, UpdateCoins
<1> HIDE DEF t, C
<1>6. View' = C /\ view' \in [Txids -> Coins \cup {Miss}]
  BY <1>1, <1>3, <1>4, <1>5, SetFacts DEF coindb
<1>7. undo \in Seq([Txids -> Nat]) /\ Exact(undo, cur, pos) /\ TxUndo(View, t) \in [Txids -> Nat]
  BY <1>1, <1>2, UndoType DEF IInv, TypeOK, Working
<1>8. TypeOK'
  <2>1. undo' \in Seq([Txids -> Nat]) /\ pos' \in 0..Last(cur')
    BY <1>1, <1>2, <1>3, <1>7
  <2> QED  BY <1>1, <1>6, <2>1 DEF IInv, TypeOK, coindb, files
<1>9. Best' = Best /\ Coin' = Coin /\ Disks' = Disks
  BY <1>1, SameCoins DEF coindb
<1>10. CoinsExact' /\ Chains'
  BY <1>1, <1>4, <1>6, <1>9 DEF IInv, CoinsExact, Chains, Disks
<1>11. SoundAt(cur, pos + 1)
  <2>1. L[cur][pos][t] = Pruned /\ Norm(L[cur][pos])
    <3>1. pos + 1 \in (pos + 1)..Last(cur)
      BY <1>2, <1>3
    <3> QED  BY <1>1, <3>1 DEF IInv, Working, t
  <2> QED  BY <1>1, <1>2, <1>3, <2>1 DEF SoundAt, t
<1>12. Exact(undo', cur, pos + 1)
  <2>1. Len(undo') = pos + 1 /\ undo'[pos + 1] = TxUndo(View, t) /\ \A i \in 1..pos : undo'[i] = undo[i]
    BY <1>1, <1>2, <1>7 DEF Exact
  <2>2. \A i \in 1..(pos + 1) : i \in 1..pos \/ i = pos + 1
    BY <1>2
  <2> QED  BY <1>2, <1>3, <1>7, <2>1, <2>2 DEF Exact, t
<1>13. \A i \in 1..(pos + 1) : SoundAt(cur, i)
  <2>1. \A i \in 1..(pos + 1) : i \in 1..pos \/ i = pos + 1
    BY <1>2
  <2> QED  BY <1>1, <1>11, <2>1 DEF IInv, Working
<1>14. Norm(L[cur][pos + 1])
  BY <1>1, <1>2, <1>3, <1>4, NormUpdate DEF IInv, Working, C
<1>15. ASSUME NEW i \in (pos + 1 + 1)..Last(cur) PROVE L[cur][pos + 1][Vtx[cur][i]] = Pruned
  <2>1. i \in (pos + 1)..Last(cur) /\ i \in 1..Last(cur) /\ i # pos + 1
    BY <1>2, <1>3
  <2>2. Vtx[cur][i] # t /\ Vtx[cur][i] \in Txids
    BY <1>3, <2>1 DEF t
  <2>3. View[Vtx[cur][i]] = Pruned
    BY <1>1, <1>2, <2>1 DEF IInv, Working
  <2> QED  BY <1>2, <1>3, <1>4, <2>2, <2>3, PrunedUpdate DEF C
<1>16. Working'
  BY <1>1, <1>9, <1>12, <1>13, <1>14, <1>15 DEF IInv, Working, files
<1>17. Records'
  BY <1>1 DEF IInv, Records, files
<1>18. Index' /\ Files' /\ OnDisk' /\ ChainOnDisk'
  BY <1>1, DiskKept DEF coindb
<1> QED  BY <1>8, <1>10, <1>16, <1>17, <1>18 DEF IInv

LEMMA ConnectFailsStep ==
    ASSUME IInv, ConnectFails
    PROVE  IInv'
<1>1. /\ phase' = "idle" /\ cur' = Root /\ pos' = 0 /\ view' = NoView /\ undo' = <<>>
      /\ UNCHANGED <<cache, cacheBest, index, db, older, failures, writes, synced, files, unsafe>>
  BY DEF ConnectFails, Leave, coindb
<1>2. NoView \in [Txids -> Coins \cup {Miss}] /\ Last(Root) \in Nat /\ Root \in Blocks
  BY VtxFacts, TreeFacts DEF NoView
<1>3. TypeOK'
  BY <1>1, <1>2, SMTT(60) DEF IInv, TypeOK, files
<1>4. Best' = Best /\ Coin' = Coin /\ Disks' = Disks
  BY <1>1, SameCoins
<1>5. CoinsExact' /\ Chains'
  BY <1>1, <1>4 DEF IInv, CoinsExact, Chains, Disks
<1>6. Working' /\ Records'
  BY <1>1 DEF IInv, Working, Records, NoView, files
<1>7. Index' /\ Files' /\ OnDisk' /\ ChainOnDisk'
  BY <1>1, DiskKept
<1> QED  BY <1>3, <1>5, <1>6, <1>7 DEF IInv

\* The view replaces the coins beneath it.
LEMMA FlushFacts ==
    ASSUME IInv, phase \in {"connect", "disconnect"}, NEW b \in Blocks, FlushView(b), View = At[b],
           UNCHANGED coindb
    PROVE  /\ Best' = b /\ Coin' = At[b] /\ Disks' = Disks /\ phase' = "flushfiles"
           /\ cur' = Root /\ pos' \in 0..Last(Root) /\ cache' \in [Txids -> Coins \cup {Miss}] /\ cacheBest' \in Blocks
           /\ view' = NoView /\ undo' = <<>> /\ NoView \in [Txids -> Coins \cup {Miss}]
           /\ CoinsExact'
<1>1. /\ phase' = "flushfiles" /\ cur' = Root /\ pos' = 0 /\ view' = NoView /\ undo' = <<>> /\ cacheBest' = b
      /\ cache' = [x \in Txids |-> IF view[x] = Miss THEN cache[x] ELSE view[x]]
      /\ db' = db /\ older' = older
  BY DEF FlushView, Leave, coindb
<1>2. Best' = b
  BY <1>1, ChainStateAssumption DEF Best
<1>3. Coin' = View
  BY <1>1 DEF Coin, View
<1>4. Disks' = Disks
  BY <1>1 DEF Disks
<1>5. cache' \in [Txids -> Coins \cup {Miss}] /\ NoView \in [Txids -> Coins \cup {Miss}]
  BY <1>1 DEF IInv, TypeOK, NoView
<1>6. Last(Root) \in Nat
  BY VtxFacts, TreeFacts
<1>7. CoinsExact'
  BY <1>1, <1>2, <1>3, <1>4 DEF IInv, CoinsExact, Disks
<1> QED  BY <1>1, <1>2, <1>3, <1>4, <1>5, <1>6, <1>7

LEMMA EndConnectStep ==
    ASSUME IInv, EndConnect
    PROVE  IInv'
<1>1. /\ phase = "connect" /\ pos = Last(cur) /\ FlushView(cur) /\ synced' = synced
      /\ nLastBlockFile' = nLastBlockFile /\ fileOf' = fileOf /\ UNCHANGED coindb
  BY DEF EndConnect
<1>2. /\ cur \in Blocks \ {Root} /\ Prev[cur] = Best /\ Exact(undo, cur, Last(cur))
      /\ (\A i \in 1..Last(cur) : SoundAt(cur, i)) /\ Norm(L[cur][pos])
      /\ <<"data", cur>> \in written /\ "data" \in index[cur]
  BY <1>1 DEF IInv, Working, TypeOK
<1>3. View = At[cur] /\ Sound(cur)
  BY <1>1, <1>2, ViewType, VtxFacts DEF Sound
<1>4. /\ Best' = cur /\ Coin' = At[cur] /\ Disks' = Disks /\ phase' = "flushfiles"
      /\ cur' = Root /\ pos' \in 0..Last(Root) /\ cache' \in [Txids -> Coins \cup {Miss}] /\ cacheBest' \in Blocks
      /\ view' = NoView /\ undo' = <<>> /\ NoView \in [Txids -> Coins \cup {Miss}]
      /\ CoinsExact'
  BY <1>1, <1>2, <1>3, FlushFacts
<1>5. Chain[cur] = Chain[Best] \cup {cur} /\ Chain[Best] \subseteq Blocks
  BY <1>2, TreeFacts, BestFacts DEF IInv
<1>6. Chains'
  BY <1>3, <1>4, <1>5 DEF IInv, Chains
<1>7. Working'
  BY <1>4 DEF Working, NoView
<1>8. /\ written \subseteq written' /\ committed \subseteq committed' /\ unsafe \subseteq unsafe'
      /\ committed' \subseteq written' /\ written' \subseteq written \cup {<<"undo", cur>>}
      /\ unsafe' \subseteq unsafe \cup {cur}
  BY DEF EndConnect, Commit, IInv, TypeOK
<1>9. /\ Index' /\ writes' \in Seq(Blocks \X {"data", "undo"}) /\ synced' \in 0..Len(writes')
      /\ \A a, g : Logged(synced, a, g)' <=> Logged(synced, a, g)
      /\ index' \in [Blocks -> SUBSET {"data", "undo"}]
  <2>1. CASE "undo" \in index[cur]
    <3>1. index' = index /\ writes' = writes /\ synced' = synced
      BY <1>1, <2>1 DEF EndConnect
    <3>2. Index'
      BY <3>1 DEF IInv, Index, IndexAt, Logged
    <3>3. \A a, g : Logged(synced, a, g)' <=> Logged(synced, a, g)
      BY <3>1 DEF Logged
    <3> QED  BY <3>1, <3>2, <3>3 DEF IInv, TypeOK
  <2>2. CASE "undo" \notin index[cur]
    <3>1. writes' = Append(writes, <<cur, "undo">>) /\ index' = [index EXCEPT ![cur] = @ \cup {"undo"}]
      BY <2>2 DEF EndConnect
    <3> QED  BY <1>1, <1>2, <3>1, IndexAppend
  <2> QED  BY <2>1, <2>2
<1>10. /\ index'[cur] = {"data", "undo"} /\ \A a \in Blocks : index[a] \subseteq index'[a]
       /\ \A a \in Blocks \ {cur} : index'[a] = index[a]
  <2>1. index[cur] \subseteq {"data", "undo"} /\ index \in [Blocks -> SUBSET {"data", "undo"}]
    BY <1>2 DEF IInv, TypeOK
  <2>2. CASE "undo" \in index[cur]
    <3>1. index' = index
      BY <2>2 DEF EndConnect
    <3> QED  BY <1>2, <2>1, <2>2, <3>1
  <2>3. CASE "undo" \notin index[cur]
    <3>1. index' = [index EXCEPT ![cur] = @ \cup {"undo"}]
      BY <2>3 DEF EndConnect
    <3> QED  BY <1>2, <2>1, <3>1
  <2> QED  BY <2>2, <2>3
<1>11. rev' \in [Blocks -> Seq([Txids -> Nat])] /\ Records'
  <2>1. CASE "undo" \in index[cur]
    BY <2>1 DEF EndConnect, IInv, TypeOK, Records
  <2>2. CASE "undo" \notin index[cur]
    <3>1. rev' = [rev EXCEPT ![cur] = undo]
      BY <2>2 DEF EndConnect
    <3>2. rev' \in [Blocks -> Seq([Txids -> Nat])]
      BY <3>1 DEF IInv, TypeOK
    <3>3. \A a \in Blocks : a # cur => rev'[a] = rev[a]
      BY <3>1 DEF IInv, TypeOK
    <3>4. rev'[cur] = undo
      BY <3>1, <1>2 DEF IInv, TypeOK
    <3>5. \A a \in Blocks : a # cur /\ <<"undo", a>> \in written' => <<"undo", a>> \in written
      BY <1>8
    <3> QED  BY <1>2, <3>2, <3>3, <3>4, <3>5 DEF IInv, Records
  <2> QED  BY <2>1, <2>2
<1>12. TypeOK'
  <2>1. written' \subseteq {"data", "undo"} \X Blocks /\ unsafe' \subseteq Blocks
    BY <1>2, <1>8 DEF IInv, TypeOK
  <2>2. Root \in Blocks /\ undo' \in Seq([Txids -> Nat])
    BY <1>4, TreeFacts
  <2>3. /\ failures' \in 0..MaxFailures /\ older' \cup {db'} \subseteq [best : Blocks, coins : [Txids -> Coins]]
        /\ fileOf' \in [Blocks -> 1..MaxFile] /\ nLastBlockFile' \in 1..MaxFile
    BY <1>1 DEF IInv, TypeOK, coindb
  <2> QED  BY <1>4, <1>8, <1>9, <1>11, <2>1, <2>2, <2>3 DEF TypeOK
<1>13. Files'
  <2>1. ASSUME NEW i \in written' \ committed'
        PROVE  i[1] \in index'[i[2]] /\ (fileOf'[i[2]] # nLastBlockFile' => i[1] = "undo" /\ i[2] \in unsafe')
    <3>1. CASE i \in written
      <4>1. i \in written \ committed /\ i[2] \in Blocks
        BY <1>8, <3>1 DEF IInv, TypeOK
      <4> QED  BY <1>1, <1>8, <1>10, <4>1 DEF IInv, Files
    <3>2. CASE i \notin written
      <4>1. i = <<"undo", cur>> /\ i[1] = "undo" /\ i[2] = cur
        BY <1>8, <3>2
      <4>2. "undo" \notin index[cur]
        BY <1>8, <3>2 DEF EndConnect
      <4>3. fileOf[cur] # nLastBlockFile => cur \in unsafe'
        BY <4>1, <4>2 DEF EndConnect
      <4> QED  BY <1>1, <1>10, <4>1, <4>3
    <3> QED  BY <3>1, <3>2
  <2>2. ASSUME NEW a \in Blocks, "undo" \in index'[a] PROVE <<"undo", a>> \in written' \/ a \in unsafe'
    <3>1. CASE "undo" \in index[a]
      BY <1>8, <3>1 DEF IInv, Files
    <3>2. CASE "undo" \notin index[a]
      <4>1. a = cur
        BY <1>10, <2>2, <3>2
      <4> QED  BY <3>2, <4>1 DEF EndConnect
    <3> QED  BY <3>1, <3>2
  <2> QED  BY <1>4, <2>1, <2>2 DEF Files
<1>14. OnDisk'
  <2>1. ASSUME NEW a \in Chain[Best] PROVE index'[a] = {"data", "undo"} /\ <<"data", a>> \in written'
    <3>1. a \in Blocks /\ index[a] = {"data", "undo"} /\ <<"data", a>> \in written
      BY <1>5 DEF IInv, OnDisk
    <3> QED  BY <1>8, <1>10, <3>1
  <2> QED  BY <1>2, <1>4, <1>5, <1>8, <1>10, <2>1 DEF OnDisk
<1>15. ChainOnDisk'
  <2>1. older' \cup {db'} = older \cup {db}
    BY <1>1 DEF coindb
  <2> QED  BY <1>8, <1>9, <2>1 DEF IInv, ChainOnDisk
<1> QED  BY <1>4, <1>6, <1>7, <1>9, <1>11, <1>12, <1>13, <1>14, <1>15 DEF IInv
-----------------------------------------------------------------------------
(* DisconnectTip *)

LEMMA StartDisconnectStep ==
    ASSUME IInv, StartDisconnect
    PROVE  IInv'
<1> DEFINE found == {<<"data", Best>>, <<"undo", Best>>} \subseteq written /\ "undo" \in index[Best]
<1>1. CASE ~found
  BY <1>1, AbortStep DEF StartDisconnect
<1>2. CASE found
  <2>1. /\ phase = "idle" /\ Best # Root /\ phase' = "disconnect" /\ cur' = Best /\ pos' = Last(Best)
        /\ <<"undo", Best>> \in written
        /\ UNCHANGED <<view, undo, cache, cacheBest, index, db, older, failures, writes, synced, files, unsafe>>
    BY <1>2 DEF StartDisconnect, coindb
  <2>2. Best \in Blocks /\ Last(Best) \in Nat /\ At[Best] = L[Best][Last(Best)]
    BY BestFacts, VtxFacts DEF IInv
  <2>3. TypeOK'
    BY <2>1, <2>2, SMTT(60) DEF IInv, TypeOK, files
  <2>4. Best' = Best /\ Coin' = Coin /\ Disks' = Disks
    BY <2>1, SameCoins
  <2>5. view' = NoView /\ undo' = <<>> /\ View' = Coin'
    BY <2>1 DEF IInv, Working, View, NoView, Coin
  <2>6. CoinsExact' /\ Chains'
    BY <2>1, <2>2, <2>4, <2>5 DEF IInv, CoinsExact, Chains, Disks
  <2>7. Working'
    BY <2>1, <2>4, <2>5 DEF Working, files
  <2>8. Records'
    BY <2>1 DEF IInv, Records, files
  <2>9. Index' /\ Files' /\ OnDisk' /\ ChainOnDisk'
    BY <2>1, DiskKept
  <2> QED  BY <2>3, <2>6, <2>7, <2>8, <2>9 DEF IInv
<1> QED  BY <1>1, <1>2

LEMMA DisconnectTxStep ==
    ASSUME IInv, DisconnectTx
    PROVE  IInv'
<1> DEFINE t == Vtx[cur][pos]
           D == Undone(View, t, rev[cur][pos])
<1>1. /\ phase = "disconnect" /\ pos > 0 /\ SetCoins(t, D) /\ pos' = pos - 1
      /\ UNCHANGED <<phase, cur, undo, cache, cacheBest, index, coindb, writes, synced, files, unsafe>>
  BY DEF DisconnectTx
<1>2. View = L[cur][pos] /\ View \in [Txids -> Coins] /\ cur \in Blocks \ {Root} /\ pos \in 0..Last(cur)
  BY <1>1, ViewType DEF IInv, Working
<1>3. /\ Last(cur) \in Nat /\ pos \in 1..Last(cur) /\ pos - 1 \in 0..Last(cur) /\ t \in Txids
      /\ L[cur][pos - 1] \in [Txids -> Coins]
  <2>1. Last(cur) \in Nat
    BY <1>2, VtxFacts
  <2>2. pos \in 1..Last(cur) /\ pos - 1 \in 0..Last(cur)
    BY <1>1, <1>2, <2>1
  <2> QED  BY <1>2, <2>1, <2>2, VtxFacts
<1>4. SoundAt(cur, pos) /\ rev[cur][pos] = TxUndo(L[cur][pos - 1], t)
  <2>1. cur \in Chain[Best] /\ <<"undo", cur>> \in written
    BY <1>1, <1>2, TreeFacts DEF IInv, Working
  <2>2. Sound(cur) /\ Exact(rev[cur], cur, Last(cur))
    BY <1>2, <2>1 DEF IInv, Chains, Records
  <2> QED  BY <1>3, <2>2 DEF Sound, Exact
<1>5. View = UpdateCoins(L[cur][pos - 1], t, Height[cur])
  BY <1>2, <1>3, ReplayFacts
<1>6. D = L[cur][pos - 1]
  BY <1>3, <1>4, <1>5, UndoInverse DEF SoundAt
<1>7. \A x \in Txids : x \notin Touched(t) => D[x] = View[x]
  BY DEF Touched, Undone
<1> HIDE DEF t, D
<1>8. View' = D /\ view' \in [Txids -> Coins \cup {Miss}]
  BY <1>1, <1>3, <1>6, <1>7, SetFacts DEF coindb
<1>9. TypeOK'
  BY <1>1, <1>3, <1>8 DEF IInv, TypeOK, coindb, files
<1>10. Best' = Best /\ Coin' = Coin /\ Disks' = Disks
  BY <1>1, SameCoins DEF coindb
<1>11. CoinsExact' /\ Chains'
  BY <1>1, <1>6, <1>8, <1>10 DEF IInv, CoinsExact, Chains, Disks
<1>12. Working'
  BY <1>1, <1>10 DEF IInv, Working, files
<1>13. Records'
  BY <1>1 DEF IInv, Records, files
<1>14. Index' /\ Files' /\ OnDisk' /\ ChainOnDisk'
  BY <1>1, DiskKept DEF coindb
<1> QED  BY <1>9, <1>11, <1>12, <1>13, <1>14 DEF IInv

LEMMA EndDisconnectStep ==
    ASSUME IInv, EndDisconnect
    PROVE  IInv'
<1>1. /\ phase = "disconnect" /\ pos = 0 /\ FlushView(Prev[cur]) /\ UNCHANGED coindb
      /\ UNCHANGED <<index, writes, synced, files, unsafe>>
  BY DEF EndDisconnect
<1>2. cur \in Blocks \ {Root} /\ cur = Best
  BY <1>1 DEF IInv, Working, TypeOK
<1>3. Prev[cur] \in Blocks /\ Chain[Prev[cur]] \subseteq Chain[Best] /\ View = At[Prev[cur]]
  BY <1>1, <1>2, TreeFacts, ViewType, ReplayFacts
<1>4. /\ Best' = Prev[cur] /\ Coin' = At[Prev[cur]] /\ Disks' = Disks /\ phase' = "flushfiles"
      /\ cur' = Root /\ pos' \in 0..Last(Root) /\ cache' \in [Txids -> Coins \cup {Miss}] /\ cacheBest' \in Blocks
      /\ view' = NoView /\ undo' = <<>> /\ NoView \in [Txids -> Coins \cup {Miss}]
      /\ CoinsExact'
  BY <1>1, <1>3, FlushFacts
<1>5. TypeOK'
  <2>1. Root \in Blocks /\ undo' \in Seq([Txids -> Nat])
    BY <1>4, TreeFacts
  <2> QED  BY <1>1, <1>4, <2>1 DEF IInv, TypeOK, coindb, files
<1>6. Chains' /\ Working'
  BY <1>3, <1>4 DEF IInv, Chains, Working, NoView
<1>7. Records'
  BY <1>1 DEF IInv, Records, files
<1>8. Index'
  BY <1>1 DEF IInv, Index, IndexAt, Logged
<1>9. Files'
  BY <1>1, <1>4 DEF IInv, Files, files
<1>10. OnDisk'
  BY <1>1, <1>3, <1>4 DEF IInv, OnDisk, files
<1>11. ChainOnDisk'
  BY <1>1 DEF IInv, ChainOnDisk, Logged, files, coindb
<1> QED  BY <1>4, <1>5, <1>6, <1>7, <1>8, <1>9, <1>10, <1>11 DEF IInv
-----------------------------------------------------------------------------
(* WriteChainState *)

LEMMA SkipWriteStep ==
    ASSUME IInv, SkipWrite
    PROVE  IInv'
<1>1. TypeOK'
  BY DEF IInv, TypeOK, SkipWrite, coindb, files
<1>2. CoinsExact' /\ Chains' /\ Working' /\ Records'
  BY CoinsKept DEF SkipWrite, coindb, files
<1>3. Index' /\ Files' /\ OnDisk' /\ ChainOnDisk'
  BY DiskKept DEF SkipWrite, coindb
<1> QED  BY <1>1, <1>2, <1>3 DEF IInv

LEMMA FlushBlockFileStep ==
    ASSUME IInv, FlushBlockFile
    PROVE  IInv'
<1>1. TypeOK'
  BY DEF IInv, TypeOK, FlushBlockFile, coindb
<1>2. CoinsExact' /\ Chains' /\ Working' /\ Records'
  BY CoinsKept DEF FlushBlockFile, coindb
<1>3. Index'
  BY DEF IInv, Index, IndexAt, Logged, FlushBlockFile
<1>4. Files'
  BY DEF IInv, Files, FlushBlockFile
<1>5. Best' = Best /\ Disks' = Disks
  BY SameCoins DEF FlushBlockFile, coindb
<1>6. OnDisk'
  BY <1>5 DEF IInv, OnDisk, FlushBlockFile
<1>7. ChainOnDisk'
  BY DEF IInv, ChainOnDisk, Logged, FlushBlockFile, coindb
<1> QED  BY <1>1, <1>2, <1>3, <1>4, <1>6, <1>7 DEF IInv

LEMMA SyncStep ==
    ASSUME IInv, Sync
    PROVE  IInv'
<1>1. synced' = Len(writes) /\ Len(writes) \in Nat /\ synced \in 0..Len(writes)
  BY DEF IInv, TypeOK, Sync
<1>2. TypeOK'
  BY <1>1, SMTT(60) DEF IInv, TypeOK, Sync, coindb, files
<1>3. CoinsExact' /\ Chains' /\ Working' /\ Records'
  BY CoinsKept DEF Sync, coindb, files
<1>4. Index'
  BY DEF IInv, Index, IndexAt, Logged, Sync
<1>5. Files'
  BY DEF IInv, Files, Sync, files
<1>6. Best' = Best /\ Disks' = Disks
  BY SameCoins DEF Sync, coindb
<1>7. OnDisk'
  BY <1>6 DEF IInv, OnDisk, Sync, files
<1>8. ChainOnDisk'
  <2>1. ASSUME NEW b, NEW f, Logged(synced, b, f) PROVE Logged(synced, b, f)'
    <3>1. 1..synced \subseteq 1..synced' /\ writes' = writes
      BY <1>1 DEF Sync
    <3> QED  BY <2>1, <3>1 DEF Logged
  <2> QED  BY <2>1 DEF IInv, ChainOnDisk, Sync, coindb, files
<1> QED  BY <1>2, <1>3, <1>4, <1>5, <1>7, <1>8 DEF IInv

\* When the coins are written everything they need is safe.
LEMMA FlushStep ==
    ASSUME IInv, Flush
    PROVE  IInv'
<1>1. /\ phase = "flush" /\ phase' = "idle" /\ cache' = NoView /\ cacheBest' = cacheBest
      /\ db' = [best |-> Best, coins |-> Coin] /\ older' = older \cup {db}
      /\ UNCHANGED <<cur, pos, view, undo, failures, index, writes, synced, files, unsafe>>
  BY DEF Flush
<1>2. Best \in Blocks /\ Coin \in [Txids -> Coins] /\ db \in Disks
  BY BestFacts DEF IInv
<1>3. Best' = Best
  BY <1>1 DEF Best
<1>4. Coin' = Coin
  BY <1>1 DEF Coin, NoView
<1>5. Disks' = Disks \cup {db'} /\ db'.best = Best /\ db'.coins = Coin
  BY <1>1 DEF Disks
<1>6. TypeOK'
  <2>1. NoView \in [Txids -> Coins \cup {Miss}]
    BY DEF NoView
  <2>2. db' \in [best : Blocks, coins : [Txids -> Coins]]
    BY <1>1, <1>2
  <2>3. older' \cup {db'} \subseteq [best : Blocks, coins : [Txids -> Coins]]
    BY <1>1, <2>2 DEF IInv, TypeOK
  <2> QED  BY <1>1, <2>1, <2>3 DEF IInv, TypeOK, files
<1>7. CoinsExact'
  BY <1>1, <1>3, <1>4, <1>5 DEF IInv, CoinsExact, Disks
<1>8. Chains'
  BY <1>3, <1>5 DEF IInv, Chains
<1>9. Working' /\ Records'
  BY <1>1 DEF IInv, Working, Records, NoView, files
<1>10. Index'
  BY <1>1 DEF IInv, Index, IndexAt, Logged
<1>11. Files'
  BY <1>1 DEF IInv, Files, files
<1>12. OnDisk'
  BY <1>1, <1>3 DEF IInv, OnDisk, files
<1>13. ASSUME NEW b \in Chain[Best]
       PROVE  /\ Logged(synced, b, "data") /\ Logged(synced, b, "undo") /\ <<"data", b>> \in committed
              /\ <<"undo", b>> \in committed \/ b \in unsafe
  <2>1. b \in Blocks /\ index[b] = {"data", "undo"} /\ <<"data", b>> \in written
    BY <1>2, TreeFacts DEF IInv, OnDisk
  <2>2. Logged(synced, b, "data") /\ Logged(synced, b, "undo")
    <3>1. synced = Len(writes)
      BY <1>1 DEF IInv, Files
    <3> QED  BY <2>1, <3>1, IndexFacts
  <2>3. ASSUME NEW i \in written \ committed PROVE i[1] = "undo" /\ i[2] \in unsafe
    BY <1>1 DEF IInv, Files
  <2>4. <<"data", b>> \in committed
    <3>1. <<"data", b>>[1] # "undo"
      OBVIOUS
    <3> QED  BY <2>1, <2>3, <3>1
  <2>5. <<"undo", b>> \in committed \/ b \in unsafe
    <3>1. <<"undo", b>> \in written \/ b \in unsafe
      BY <2>1 DEF IInv, Files
    <3>2. <<"undo", b>>[2] = b
      OBVIOUS
    <3> QED  BY <2>3, <3>1, <3>2
  <2> QED  BY <2>2, <2>4, <2>5
<1>14. ChainOnDisk'
  <2>1. \A b, f : Logged(synced, b, f)' <=> Logged(synced, b, f)
    BY <1>1 DEF Logged
  <2>2. older' \cup {db'} = Disks'
    BY DEF Disks
  <2> QED  BY <1>1, <1>5, <1>13, <2>1, <2>2 DEF IInv, ChainOnDisk, Disks, files
<1> QED  BY <1>6, <1>7, <1>8, <1>9, <1>10, <1>11, <1>12, <1>14 DEF IInv
-----------------------------------------------------------------------------
(* Failures *)

\* The coins after a start are those of the database.
LEMMA RestartFacts ==
    ASSUME IInv, Restart, NEW v \in Disks, db' = v
    PROVE  /\ Best' = v.best /\ Coin' = At[v.best] /\ v.best \in Blocks
           /\ cur' = Root /\ pos' \in 0..Last(Root) /\ view' = NoView /\ undo' = <<>> /\ phase' = "idle"
           /\ cache' = NoView /\ cacheBest' = Miss /\ NoView \in [Txids -> Coins \cup {Miss}]
           /\ failures' \in 0..MaxFailures
<1>1. /\ phase' = "idle" /\ cur' = Root /\ pos' = 0 /\ view' = NoView /\ undo' = <<>>
      /\ cache' = NoView /\ cacheBest' = Miss
  BY DEF Restart, Leave
<1>2. Best' = v.best
  BY <1>1 DEF Best
<1>3. v.coins = At[v.best] /\ v.best \in Blocks /\ v.coins \in [Txids -> Coins]
  BY BestFacts DEF IInv, CoinsExact, Disks
<1>4. Coin' = v.coins
  BY <1>1, <1>3 DEF Coin, NoView
<1>5. failures' \in 0..MaxFailures
  BY ChainStateAssumption DEF Restart, IInv, TypeOK
<1>6. Last(Root) \in Nat
  BY VtxFacts, TreeFacts
<1>7. NoView \in [Txids -> Coins \cup {Miss}]
  BY DEF NoView
<1> QED  BY <1>1, <1>2, <1>3, <1>4, <1>5, <1>6, <1>7

LEMMA CrashStep ==
    ASSUME IInv, Crash
    PROVE  IInv'
<1>1. db' = db /\ db \in Disks /\ Restart /\ index' = index /\ UNCHANGED <<older, writes, synced, files, unsafe>>
  BY DEF Crash, Disks, IInv, Index
<1>2. /\ Best' = db.best /\ Coin' = At[db.best] /\ db.best \in Blocks
      /\ cur' = Root /\ pos' \in 0..Last(Root) /\ view' = NoView /\ undo' = <<>> /\ phase' = "idle"
      /\ cache' = NoView /\ cacheBest' = Miss /\ NoView \in [Txids -> Coins \cup {Miss}]
      /\ failures' \in 0..MaxFailures
  BY <1>1, RestartFacts
<1>3. TypeOK'
  <2>1. Root \in Blocks /\ undo' \in Seq([Txids -> Nat])
    BY <1>2, TreeFacts
  <2> QED  BY <1>1, <1>2, <2>1 DEF IInv, TypeOK, files
<1>4. Disks' = Disks
  BY <1>1 DEF Disks
<1>5. CoinsExact'
  BY <1>1, <1>2 DEF IInv, CoinsExact
<1>6. Chains'
  BY <1>1, <1>2, <1>4 DEF IInv, Chains
<1>7. Working' /\ Records'
  BY <1>1, <1>2 DEF IInv, Working, Records, NoView, files
<1>8. Index'
  BY <1>1 DEF IInv, Index, IndexAt, Logged
<1>9. Files'
  BY <1>1, <1>2 DEF IInv, Files, files
<1>10. ChainOnDisk'
  BY <1>1 DEF IInv, ChainOnDisk, Logged, files
<1>11. OnDisk'
  <2>1. ASSUME NEW b \in Chain[db.best] PROVE index[b] = {"data", "undo"} /\ <<"data", b>> \in written
    <3>1. Logged(synced, b, "data") /\ Logged(synced, b, "undo") /\ <<"data", b>> \in committed /\ b \in Blocks
      BY <1>2, TreeFacts DEF IInv, ChainOnDisk
    <3>2. synced \in Nat /\ Len(writes) \in Nat /\ synced <= Len(writes) /\ committed \subseteq written
      BY DEF IInv, TypeOK
    <3>3. Logged(Len(writes), b, "data") /\ Logged(Len(writes), b, "undo")
      BY <3>1, <3>2, LogMore
    <3> QED  BY <3>1, <3>2, <3>3, IndexFacts
  <2> QED  BY <1>1, <1>2, <2>1 DEF OnDisk, files
<1> QED  BY <1>3, <1>5, <1>6, <1>7, <1>8, <1>9, <1>10, <1>11 DEF IInv

LEMMA PowerFailureStep ==
    ASSUME IInv, PowerFailure
    PROVE  IInv'
<1>1. PICK v \in Disks : db' = v /\ older' = {}
  BY DEF PowerFailure, Disks
<1>2. PICK n \in synced..Len(writes) :
        /\ writes' = SubSeq(writes, 1, n) /\ synced' = n /\ index' = IndexAt(n)
        /\ nLastBlockFile' \in 1..nLastBlockFile
        /\ \E lost \in SUBSET (written \ committed) :
             /\ written' = written \ lost /\ committed' = written \ lost
             /\ unsafe' = unsafe \cup {b \in Blocks : <<"undo", b>> \in lost /\ Logged(n, b, "undo")}
  BY DEF PowerFailure
<1>3. PICK lost \in SUBSET (written \ committed) :
        /\ written' = written \ lost /\ committed' = written \ lost
        /\ unsafe' = unsafe \cup {b \in Blocks : <<"undo", b>> \in lost /\ Logged(n, b, "undo")}
  BY <1>2
<1>4. Restart /\ rev' = rev /\ fileOf' = fileOf
  BY DEF PowerFailure
<1>5. /\ Best' = v.best /\ Coin' = At[v.best] /\ v.best \in Blocks
      /\ cur' = Root /\ pos' \in 0..Last(Root) /\ view' = NoView /\ undo' = <<>> /\ phase' = "idle"
      /\ cache' = NoView /\ cacheBest' = Miss /\ NoView \in [Txids -> Coins \cup {Miss}]
      /\ failures' \in 0..MaxFailures
  BY <1>1, <1>4, RestartFacts
<1>6. /\ n \in Nat /\ synced \in Nat /\ synced <= n /\ n <= Len(writes) /\ Len(writes) \in Nat
      /\ writes \in Seq(Blocks \X {"data", "undo"})
  BY DEF IInv, TypeOK
<1>7. /\ writes' \in Seq(Blocks \X {"data", "undo"}) /\ Len(writes') = n
      /\ \A i \in 1..n : writes'[i] = writes[i]
  BY <1>2, <1>6
<1>8. ASSUME NEW m \in 0..n, NEW b, NEW f PROVE Logged(m, b, f)' <=> Logged(m, b, f)
  <2>1. \A i \in 1..m : i \in 1..n
    BY <1>6
  <2> QED  BY <1>7, <2>1 DEF Logged
<1>9. Disks' = {v} /\ older' \cup {db'} = {v}
  BY <1>1 DEF Disks
<1>10. /\ written' \subseteq written /\ committed' = written' /\ committed \subseteq written'
       /\ unsafe \subseteq unsafe'
  BY <1>3 DEF IInv, TypeOK
<1>11. TypeOK'
  <2>1. Root \in Blocks /\ undo' \in Seq([Txids -> Nat])
    BY <1>5, TreeFacts
  <2>2. older' \cup {db'} \subseteq [best : Blocks, coins : [Txids -> Coins]]
    BY <1>9 DEF IInv, TypeOK, Disks
  <2>3. index' \in [Blocks -> SUBSET {"data", "undo"}]
    BY <1>2 DEF IndexAt
  <2>4. synced' \in 0..Len(writes') /\ nLastBlockFile' \in 1..MaxFile
    BY <1>2, <1>6, <1>7, ChainStateAssumption DEF IInv, TypeOK
  <2>5. unsafe' \subseteq Blocks
    BY <1>3 DEF IInv, TypeOK
  <2> QED  BY <1>4, <1>5, <1>7, <1>10, <2>1, <2>2, <2>3, <2>4, <2>5 DEF IInv, TypeOK
<1>12. CoinsExact'
  BY <1>5, <1>9 DEF IInv, CoinsExact, Disks
<1>13. Chains'
  BY <1>5, <1>9 DEF IInv, Chains
<1>14. Working' /\ Records'
  BY <1>4, <1>5, <1>10 DEF IInv, Working, Records, NoView
<1>15. ASSUME NEW b \in Blocks, NEW f \in {"data", "undo"} PROVE f \in index'[b] <=> Logged(n, b, f)
  BY <1>2 DEF IndexAt
<1>16. Index'
  <2>1. n \in 0..n
    BY <1>6
  <2>2. \A b \in Blocks, f \in {"data", "undo"} : Logged(Len(writes), b, f)' <=> Logged(n, b, f)
    <3>1. \A b, f : Logged(n, b, f)' <=> Logged(n, b, f)
      BY <1>8, <2>1
    <3> QED  BY <1>7, <3>1 DEF Logged
  <2>3. index' = IndexAt(Len(writes))'
    BY <1>2, <2>2 DEF IndexAt
  <2>4. ASSUME NEW m \in 0..Len(writes'), NEW b \in Blocks, Logged(m, b, "undo")' PROVE Logged(m, b, "data")'
    <3>1. m \in 0..n /\ m \in 0..Len(writes)
      BY <1>6, <1>7
    <3> QED  BY <1>8, <2>4, <3>1 DEF IInv, Index
  <2> QED  BY <2>3, <2>4 DEF Index
<1>17. Files'
  <2>1. ASSUME NEW b \in Blocks, "undo" \in index'[b] PROVE <<"undo", b>> \in written' \/ b \in unsafe'
    <3>1. Logged(n, b, "undo")
      BY <1>15, <2>1
    <3>2. Logged(Len(writes), b, "undo")
      BY <1>6, <3>1, LogMore
    <3>3. "undo" \in index[b]
      BY <3>2, IndexFacts
    <3>4. <<"undo", b>> \in written \/ b \in unsafe
      BY <3>3 DEF IInv, Files
    <3> QED  BY <1>3, <3>1, <3>4
  <2> QED  BY <1>5, <1>10, <2>1 DEF Files
<1>18. ASSUME NEW b \in Chain[v.best]
       PROVE  /\ Logged(n, b, "data") /\ Logged(n, b, "undo") /\ <<"data", b>> \in committed /\ b \in Blocks
              /\ <<"undo", b>> \in committed \/ b \in unsafe
  <2>1. /\ Logged(synced, b, "data") /\ Logged(synced, b, "undo") /\ <<"data", b>> \in committed /\ b \in Blocks
        /\ <<"undo", b>> \in committed \/ b \in unsafe
    BY <1>5, TreeFacts DEF IInv, ChainOnDisk, Disks
  <2> QED  BY <1>6, <2>1, LogMore
<1>19. OnDisk'
  <2>1. ASSUME NEW b \in Chain[v.best] PROVE index'[b] = {"data", "undo"} /\ <<"data", b>> \in written'
    <3>1. index'[b] \subseteq {"data", "undo"}
      BY <1>11, <1>18 DEF TypeOK
    <3> QED  BY <1>10, <1>15, <1>18, <3>1
  <2> QED  BY <1>5, <2>1 DEF OnDisk
<1>20. ChainOnDisk'
  <2>1. ASSUME NEW b, NEW f PROVE Logged(synced, b, f)' <=> Logged(n, b, f)
    <3>1. Logged(n, b, f)' <=> Logged(n, b, f)
      BY <1>6, <1>8
    <3> QED  BY <1>2, <3>1 DEF Logged
  <2> QED  BY <1>9, <1>10, <1>18, <2>1 DEF ChainOnDisk
<1> QED  BY <1>11, <1>12, <1>13, <1>14, <1>16, <1>17, <1>19, <1>20 DEF IInv
-----------------------------------------------------------------------------
(* The theorems *)

LEMMA InitStep ==
    ASSUME Init
    PROVE  IInv
<1>1. Root \in Blocks /\ Chain[Root] = {Root} /\ Last(Root) = 0 /\ L[Root][0] = [x \in Txids |-> Pruned]
  BY ChainStateAssumption DEF Last
<1>2. At[Root] = L[Root][0] /\ At[Root] \in [Txids -> Coins] /\ NoView \in [Txids -> Coins \cup {Miss}]
  BY <1>1, VtxFacts DEF NoView
<1>3. Best = Root /\ Coin = At[Root] /\ Disks = {db} /\ db.best = Root /\ db.coins = At[Root]
  BY <1>2 DEF Init, Best, Coin, NoView, Disks
<1>4. /\ Len(writes) = 2 /\ writes \in Seq(Blocks \X {"data", "undo"})
      /\ writes[1] = <<Root, "data">> /\ writes[2] = <<Root, "undo">>
  BY <1>1 DEF Init
<1>5. TypeOK
  <2>1. older \cup {db} \subseteq [best : Blocks, coins : [Txids -> Coins]]
    BY <1>1, <1>2 DEF Init
  <2>2. index \in [Blocks -> SUBSET {"data", "undo"}] /\ written \subseteq {"data", "undo"} \X Blocks
    BY <1>1 DEF Init
  <2>3. nLastBlockFile \in 1..MaxFile /\ fileOf \in [Blocks -> 1..MaxFile] /\ failures \in 0..MaxFailures
    BY ChainStateAssumption DEF Init
  <2>4. undo \in Seq([Txids -> Nat]) /\ rev \in [Blocks -> Seq([Txids -> Nat])]
    BY DEF Init
  <2> QED  BY <1>1, <1>2, <1>4, <2>1, <2>2, <2>3, <2>4 DEF Init, TypeOK
<1>6. CoinsExact
  BY <1>3 DEF CoinsExact, Disks, Init
<1>7. Chains
  <2>1. Sound(Root)
    BY <1>1, <1>2 DEF Sound, Norm
  <2> QED  BY <1>1, <1>3, <2>1 DEF Chains
<1>8. Working
  BY DEF Init, Working
<1>9. Records
  <2>1. \A b \in Blocks : <<"undo", b>> \in written => b = Root
    BY DEF Init
  <2>2. Exact(rev[Root], Root, Last(Root))
    BY <1>1 DEF Init, Exact
  <2> QED  BY <2>1, <2>2 DEF Records
<1>10. \A n \in 0..2 : \A b, f : Logged(n, b, f) <=> (n >= 1 /\ b = Root /\ f = "data") \/ (n = 2 /\ b = Root /\ f = "undo")
  <2>1. ASSUME NEW n \in 0..2, NEW b, NEW f
        PROVE  Logged(n, b, f) <=> (n >= 1 /\ b = Root /\ f = "data") \/ (n = 2 /\ b = Root /\ f = "undo")
    <3>1. \A i \in 1..n : (i = 1 /\ n >= 1) \/ (i = 2 /\ n = 2)
      OBVIOUS
    <3>2. (n >= 1 => 1 \in 1..n) /\ (n = 2 => 2 \in 1..n)
      OBVIOUS
    <3> QED  BY <1>4, <3>1, <3>2 DEF Logged
  <2> QED  BY <2>1
<1>11. Index
  <2>1. ASSUME NEW b \in Blocks PROVE index[b] = {f \in {"data", "undo"} : Logged(Len(writes), b, f)}
    <3>1. \A f : Logged(2, b, f) <=> b = Root /\ f \in {"data", "undo"}
      BY <1>10
    <3> QED  BY <1>4, <3>1 DEF Init
  <2>2. index = IndexAt(Len(writes))
    BY <2>1, <1>5 DEF IndexAt, TypeOK
  <2> QED  BY <1>4, <1>10, <2>2 DEF Index
<1>12. Files
  BY DEF Init, Files
<1>13. OnDisk
  BY <1>1, <1>3 DEF Init, OnDisk
<1>14. ChainOnDisk
  <2>1. synced = 2
    BY DEF Init
  <2>2. Logged(synced, Root, "data") /\ Logged(synced, Root, "undo")
    BY <1>10, <2>1
  <2>3. {<<"data", Root>>, <<"undo", Root>>} \subseteq committed
    BY DEF Init
  <2> QED  BY <1>1, <1>3, <2>2, <2>3 DEF ChainOnDisk, Disks
<1> QED  BY <1>5, <1>6, <1>7, <1>8, <1>9, <1>11, <1>12, <1>13, <1>14 DEF IInv

LEMMA StutterStep ==
    ASSUME IInv, UNCHANGED vars
    PROVE  IInv'
<1>1. UNCHANGED <<phase, cur, pos, view, undo, cache, cacheBest, index, db, older, failures, writes, synced,
                  written, committed, rev, fileOf, nLastBlockFile, unsafe>>
  BY DEF vars, mem, coindb, files
<1>2. TypeOK'
  BY <1>1 DEF IInv, TypeOK
<1>3. Best' = Best /\ Coin' = Coin /\ Disks' = Disks
  BY <1>1, SameCoins
<1>4. View' = View
  BY <1>1, <1>3 DEF View
<1>5. CoinsExact' /\ Chains' /\ Records'
  BY <1>1, <1>3, <1>4 DEF IInv, CoinsExact, Chains, Records, Disks
<1>6. Working'
  BY <1>1, <1>3 DEF IInv, Working, NoView
<1>7. Index'
  BY <1>1 DEF IInv, Index, IndexAt, Logged
<1>8. Files'
  BY <1>1 DEF IInv, Files
<1>9. OnDisk'
  BY <1>1, <1>3 DEF IInv, OnDisk
<1>10. ChainOnDisk'
  BY <1>1 DEF IInv, ChainOnDisk, Logged
<1> QED  BY <1>2, <1>5, <1>6, <1>7, <1>8, <1>9, <1>10 DEF IInv

LEMMA Inductive == IInv /\ [Next]_vars => IInv'
<1> SUFFICES ASSUME IInv, [Next]_vars PROVE IInv'
  OBVIOUS
<1>1. CASE UNCHANGED vars
  BY <1>1, StutterStep
<1>2. ASSUME NEW b \in Blocks \ {Root}, AcceptBlock(b) \/ StartConnect(b) PROVE IInv'
  BY <1>2, AcceptBlockStep, StartConnectStep
<1>3. CASE Rotate
  BY <1>3, RotateStep
<1>4. CASE ConnectTx \/ ConnectFails \/ EndConnect
  BY <1>4, ConnectTxStep, ConnectFailsStep, EndConnectStep
<1>5. CASE StartDisconnect \/ DisconnectTx \/ EndDisconnect
  BY <1>5, StartDisconnectStep, DisconnectTxStep, EndDisconnectStep
<1>6. CASE SkipWrite \/ FlushBlockFile \/ Sync \/ Flush
  BY <1>6, SkipWriteStep, FlushBlockFileStep, SyncStep, FlushStep
<1>7. CASE Crash \/ PowerFailure
  BY <1>7, CrashStep, PowerFailureStep
<1> QED  BY <1>1, <1>2, <1>3, <1>4, <1>5, <1>6, <1>7 DEF Next

LEMMA Invariance == Spec => []IInv
<1>1. Init => IInv
  BY InitStep
<1> QED  BY <1>1, Inductive, PTL DEF Spec

\* For every tree of blocks and any number of failures the coins are those of a replay of
\* the chain, in memory, in the middle of a block and in every state the disk may come
\* back to (UpdateCoins, DisconnectBlock, CCoinsViewCache::Flush), and what those coins need
\* is safe in the block files and the block index before they are (WriteChainState).
THEOREM ChainStateSafe == Spec => [](CoinsExact /\ ChainOnDisk)
<1>1. IInv => CoinsExact /\ ChainOnDisk
  BY DEF IInv
<1> QED  BY <1>1, Invariance, PTL

\* A step that leaves the coins and the best blocks alone is a stutter of the ledger.
LEMMA LedgerStutter ==
    ASSUME UNCHANGED <<cache, cacheBest, db, older>>
    PROVE  UNCHANGED <<Best, Coin, {v.best : v \in older \cup {db}}>>
BY SameCoins

LEMMA StepImplements ==
    ASSUME IInv, [Next]_vars
    PROVE  [Abstract!Next]_<<Best, Coin, {v.best : v \in older \cup {db}}>>
<1> DEFINE saved == {v.best : v \in older \cup {db}}
<1>1. CASE EndConnect
  <2>1. cur \in Blocks \ {Root} /\ Prev[cur] = Best /\ View = At[cur] /\ FlushView(cur) /\ UNCHANGED coindb
        /\ phase = "connect"
    BY <1>1, ViewType, VtxFacts DEF EndConnect, IInv, Working, TypeOK
  <2>2. Best' = cur /\ Coin' = At[cur]
    BY <2>1, FlushFacts
  <2>3. saved' = saved
    BY <2>1 DEF coindb
  <2>4. Abstract!Connect(cur)
    BY <2>1, <2>2, <2>3 DEF Abstract!Connect, Abstract!Move
  <2> QED  BY <2>1, <2>4 DEF Abstract!Next
<1>2. CASE EndDisconnect
  <2>1. /\ phase = "disconnect" /\ pos = 0 /\ FlushView(Prev[cur]) /\ UNCHANGED coindb
        /\ cur \in Blocks \ {Root} /\ cur = Best
    BY <1>2 DEF EndDisconnect, IInv, Working, TypeOK
  <2>2. Prev[cur] \in Blocks /\ View = At[Prev[cur]]
    BY <2>1, TreeFacts, ViewType, ReplayFacts
  <2>3. Best' = Prev[cur] /\ Coin' = At[Prev[cur]]
    BY <2>1, <2>2, FlushFacts
  <2>4. saved' = saved
    BY <2>1 DEF coindb
  <2>5. Abstract!Disconnect
    BY <2>1, <2>3, <2>4 DEF Abstract!Disconnect, Abstract!Move
  <2> QED  BY <2>5 DEF Abstract!Next
<1>3. CASE Flush
  <2>1. Best' = Best
    BY <1>3 DEF Flush, Best
  <2>2. Coin' = Coin
    BY <1>3 DEF Flush, Coin, NoView
  <2>3. saved' = saved \cup {Best}
    BY <1>3 DEF Flush
  <2>4. Abstract!Save
    BY <2>1, <2>2, <2>3 DEF Abstract!Save
  <2> QED  BY <2>4 DEF Abstract!Next
<1>4. CASE Crash
  <2>1. PICK v \in Disks : Restart /\ db' = v /\ v = db /\ older' = older
    BY <1>4 DEF Crash, Disks
  <2>2. Best' = v.best /\ Coin' = At[v.best] /\ v.best \in Blocks
    BY <2>1, RestartFacts
  <2>3. v.best \in saved /\ saved' = saved
    BY <2>1
  <2>4. Abstract!Restart(v.best)
    BY <2>2, <2>3 DEF Abstract!Restart, Abstract!Move
  <2> QED  BY <2>2, <2>4 DEF Abstract!Next
<1>5. CASE PowerFailure
  <2>1. PICK v \in Disks : db' = v /\ older' = {}
    BY <1>5 DEF PowerFailure, Disks
  <2>2. Best' = v.best /\ Coin' = At[v.best] /\ v.best \in Blocks
    BY <1>5, <2>1, RestartFacts DEF PowerFailure
  <2>3. v.best \in saved /\ saved' = {v.best}
    BY <2>1 DEF Disks
  <2>4. Abstract!Restart(v.best)
    BY <2>2, <2>3 DEF Abstract!Restart, Abstract!Move
  <2> QED  BY <2>2, <2>4 DEF Abstract!Next
<1>6. ASSUME UNCHANGED <<cache, cacheBest, db, older>> PROVE UNCHANGED <<Best, Coin, saved>>
  BY <1>6, LedgerStutter
<1>7. CASE UNCHANGED vars
  BY <1>6, <1>7 DEF vars, mem, coindb
<1>8. CASE Rotate \/ \E b \in Blocks \ {Root} : AcceptBlock(b) \/ StartConnect(b)
  BY <1>6, <1>8 DEF Rotate, AcceptBlock, StartConnect, mem, coindb
<1>9. CASE ConnectTx \/ ConnectFails \/ StartDisconnect \/ DisconnectTx
  BY <1>6, <1>9 DEF ConnectTx, ConnectFails, StartDisconnect, DisconnectTx, coindb
<1>10. CASE SkipWrite \/ FlushBlockFile \/ Sync
  BY <1>6, <1>10 DEF SkipWrite, FlushBlockFile, Sync, coindb
<1>11. \/ EndConnect \/ EndDisconnect \/ Flush \/ Crash \/ PowerFailure \/ UNCHANGED vars
       \/ Rotate \/ (\E b \in Blocks \ {Root} : AcceptBlock(b) \/ StartConnect(b))
       \/ ConnectTx \/ ConnectFails \/ StartDisconnect \/ DisconnectTx
       \/ SkipWrite \/ FlushBlockFile \/ Sync
  BY DEF Next
<1> QED  BY <1>1, <1>2, <1>3, <1>4, <1>5, <1>7, <1>8, <1>9, <1>10, <1>11, Zenon

\* The coin database implements the ledger, for every tree of blocks: connecting and
\* disconnecting is atomic although transactions are applied one by one (ConnectBlock,
\* DisconnectBlock), and every failure brings back a saved best block with its own coins.
THEOREM ChainStateImplements == Spec => Implements
<1>1. Init => Abstract!Init
  <2> SUFFICES ASSUME Init PROVE Abstract!Init
    OBVIOUS
  <2>1. At[Root] \in [Txids -> Coins]
    BY VtxFacts, TreeFacts
  <2>2. Best = Root /\ Coin = At[Root]
    BY <2>1 DEF Init, Best, Coin, NoView
  <2>3. {v.best : v \in older \cup {db}} = {Root}
    BY DEF Init
  <2> QED  BY <2>2, <2>3 DEF Abstract!Init
<1>2. IInv /\ [Next]_vars => [Abstract!Next]_<<Best, Coin, {v.best : v \in older \cup {db}}>>
  BY StepImplements
<1> QED  BY <1>1, <1>2, Invariance, PTL DEF Spec, Implements, Abstract!Spec
=============================================================================
