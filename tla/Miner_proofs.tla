---------------------------- MODULE Miner_proofs ----------------------------
(***************************************************************************)
(* For all transactions and block trees, when every reorganisation holds   *)
(* cs_main: what CTxMemPool::check asserts holds, a block that             *)
(* CreateNewBlock puts together connects for as long as its parent is the  *)
(* tip, none of the pool's transactions is forgotten, and no orphan that   *)
(* could have been accepted is left behind.                                *)
(***************************************************************************)
EXTENDS Miner, SequenceTheorems, FiniteSetTheorems, TLAPS

-----------------------------------------------------------------------------
(* The pool                                                                *)

\* The transactions of the chain that ends in b.
Conf(b) == UNION {TxsOf(c) : c \in Chain[b]}

\* Chain and coins: what the chain spent is not available, what is available
\* was made by the chain, the parents of a transaction are in its block or
\* below, and nothing is spent twice.
ChainPart(C, b) ==
    /\ \A y \in Conf(b) : Ins[y] \cap C = {}
    /\ \A c \in Chain[b] : \A y \in TxsOf(c) : Parents(y) \subseteq Conf(c)
    /\ \A o \in C : Of[o] \in Conf(b)
    /\ \A y, z \in Conf(b) : y # z => Ins[y] \cap Ins[z] = {}

\* mapNextTx marks exactly what mapTx spends.
Marks ==
    /\ \A x \in mapTx : \A o \in Ins[x] : mapNextTx[o] = x
    /\ \A o \in Outpoints : mapNextTx[o] # None =>
          mapNextTx[o] \in mapTx /\ o \in Ins[mapNextTx[o]]

Inside == {"conflicts", "inputs", "add", "accepted", "refused", "missing"}
Connecting == pc[Message] = "connect"
Disconnecting == pc[Message] = "resurrect" \/ caller[Message] = "resurrect"
Left == {rest[Message][i] : i \in DOMAIN rest[Message]}

\* Where the thread is says what its locals are.
Locals ==
    /\ pc[Message] \in Inside => tx[Message] \in Txs
    /\ pc[Message] \notin Inside => caller[Message] = "none"
    /\ rest[Message] # <<>> <=> Connecting \/ Disconnecting
    /\ caller[Message] = "resurrect" => tx[Message] = Head(rest[Message])
    /\ \A x \in Left : x \notin TxsOf(Root)

\* What AcceptToMemoryPool has found out stays true until it adds.
Accepting ==
    /\ pc[Message] \in {"inputs", "add"} =>
          /\ tx[Message] \notin mapTx \cup Coinbases
          /\ \A o \in Ins[tx[Message]] : mapNextTx[o] = None
    /\ pc[Message] = "add" =>
          ~HaveCoins(tx[Message]) /\ \A o \in Ins[tx[Message]] : Available(o)
    /\ pc[Message] = "accepted" => tx[Message] \in mapTx

\* The inputs of the pool exist, or are about to be looked at.
Inputs ==
    \A x \in mapTx : \A o \in Ins[x] :
       \/ o \in coins \/ Of[o] \in mapTx
       \/ Connecting /\ \E y \in Left : o \in Ins[y]
       \/ Disconnecting /\ Of[o] \in Left

\* What a connected block makes is available, or spent further on in it.
Order ==
    Connecting =>
       \A i \in DOMAIN rest[Message] : \A o \in Outs({rest[Message][i]}) :
          o \in coins \/ \E j \in DOMAIN rest[Message] : j > i /\ o \in Ins[rest[Message][j]]

\* The pool holds nothing that the chain or its cache knows, but for the rest
\* of the block that is being connected, and nothing that spends a coinbase
\* that a reorganisation can take away.
Fresh ==
    \A x \in mapTx : /\ (x \notin Conf(best) /\ x \notin pruned) \/ (Connecting /\ x \in Left)
                     /\ ~Immature(x)

IInv == TypeOK /\ ChainPart(coins, best) /\ Marks /\ Locals /\ Accepting /\ Inputs /\ Order /\ Fresh

-----------------------------------------------------------------------------
(* Constants *)

\* A block adds its transactions to those of the chain below it.
LEMMA ConfFacts ==
    /\ Conf(Root) = TxsOf(Root)
    /\ \A b \in Blocks \ {Root} :
          /\ Conf(b) = Conf(Prev[b]) \cup TxsOf(b)
          /\ TxsOf(b) \cap Conf(Prev[b]) = {} /\ TxsOf(b) \cap TxsOf(Root) = {}
          /\ Prev[b] \in Blocks /\ Chain[b] = Chain[Prev[b]] \cup {b}
    /\ \A b \in Blocks : /\ b \in Chain[b] /\ Chain[b] \subseteq Blocks
                         /\ \A c \in Chain[b] : Conf(c) \subseteq Conf(b)
                         /\ TxsOf(b) \subseteq Txs /\ Conf(b) \subseteq Txs
<1>1. Conf(Root) = TxsOf(Root) BY MemPoolAssumption DEF Conf
<1>2. ASSUME NEW b \in Blocks PROVE b \in Chain[b] /\ Chain[b] \subseteq Blocks
  <2>1. Chain[b] \subseteq Blocks BY MemPoolAssumption
  <2>2. CASE b = Root BY <2>1, <2>2, MemPoolAssumption
  <2>3. CASE b # Root
    <3>1. Chain[b] = Chain[Prev[b]] \cup {b} BY <2>3, MemPoolAssumption
    <3> QED BY <2>1, <3>1
  <2> QED BY <2>2, <2>3
<1>3. \A b \in Blocks : \A c \in Chain[b] : Conf(c) \subseteq Conf(b)
  BY MemPoolAssumption DEF Conf
<1>4. \A b \in Blocks : TxsOf(b) \subseteq Txs
  <2>1. SUFFICES ASSUME NEW b \in Blocks, NEW i \in DOMAIN Vtx[b] PROVE Vtx[b][i] \in Txs BY DEF TxsOf
  <2>2. Vtx[b] \in Seq(Txs) BY MemPoolAssumption
  <2> QED BY <2>2
<1>5. \A b \in Blocks : Conf(b) \subseteq Txs BY <1>2, <1>4 DEF Conf
<1>6. ASSUME NEW b \in Blocks \ {Root}
      PROVE /\ Conf(b) = Conf(Prev[b]) \cup TxsOf(b)
            /\ TxsOf(b) \cap Conf(Prev[b]) = {} /\ TxsOf(b) \cap TxsOf(Root) = {}
            /\ Prev[b] \in Blocks /\ Chain[b] = Chain[Prev[b]] \cup {b}
  <2>1. Prev[b] \in Blocks /\ Chain[b] = Chain[Prev[b]] \cup {b} /\ b \notin Chain[Prev[b]]
    BY MemPoolAssumption
  <2>2. Conf(b) = Conf(Prev[b]) \cup TxsOf(b) BY <2>1 DEF Conf
  <2>3. \A c \in Chain[b] \ {b} : TxsOf(b) \cap TxsOf(c) = {} BY MemPoolAssumption
  <2>4. TxsOf(b) \cap Conf(Prev[b]) = {} BY <2>1, <2>3 DEF Conf
  <2>5. Root \in Chain[b] \ {b} BY MemPoolAssumption
  <2> QED BY <2>1, <2>2, <2>3, <2>4, <2>5
<1> QED BY <1>1, <1>2, <1>3, <1>4, <1>5, <1>6

\* The transactions of a block, as a sequence.
LEMMA VtxFacts ==
    ASSUME NEW b \in Blocks
    PROVE  /\ Vtx[b] \in Seq(Txs) /\ Vtx[b] # <<>>
           /\ \A i, j \in DOMAIN Vtx[b] : Vtx[b][i] = Vtx[b][j] => i = j
           /\ TxsOf(b) = {Vtx[b][i] : i \in DOMAIN Vtx[b]}
BY MemPoolAssumption DEF TxsOf

\* The head of a sequence and what is left of it.
LEMMA SeqFacts ==
    ASSUME NEW s \in Seq(Txs), s # <<>>
    PROVE  /\ Head(s) = s[1] /\ 1 \in DOMAIN s /\ Head(s) \in Txs
           /\ Tail(s) \in Seq(Txs) /\ (Len(s) = 1 <=> Tail(s) = <<>>)
           /\ \A i \in DOMAIN Tail(s) : i + 1 \in DOMAIN s /\ Tail(s)[i] = s[i + 1]
           /\ \A i \in DOMAIN s : i > 1 => i - 1 \in DOMAIN Tail(s) /\ Tail(s)[i - 1] = s[i]
           /\ DOMAIN s \subseteq Nat /\ \A i \in DOMAIN s : i = 1 \/ i > 1
<1>1. Len(s) \in Nat /\ Len(s) # 0 /\ DOMAIN s = 1..Len(s) OBVIOUS
<1>2. Head(s) = s[1] /\ 1 \in DOMAIN s /\ Head(s) \in Txs BY <1>1
<1>3. Tail(s) \in Seq(Txs) /\ Len(Tail(s)) = Len(s) - 1 OBVIOUS
<1>4. DOMAIN Tail(s) = 1..(Len(s) - 1) BY <1>3
<1>5. \A i \in DOMAIN Tail(s) : i + 1 \in DOMAIN s /\ Tail(s)[i] = s[i + 1] BY <1>1, <1>3, <1>4
<1>6. ASSUME NEW i \in DOMAIN s, i > 1 PROVE i - 1 \in DOMAIN Tail(s) /\ Tail(s)[i - 1] = s[i]
  <2>1. i - 1 \in DOMAIN Tail(s) BY <1>1, <1>4, <1>6
  <2>2. Tail(s)[i - 1] = s[(i - 1) + 1] BY <1>5, <2>1
  <2> QED BY <1>1, <1>6, <2>1, <2>2
<1>7. Len(s) = 1 <=> Tail(s) = <<>>
  <2>1. Tail(s) = <<>> <=> Len(Tail(s)) = 0 BY <1>3, EmptySeq
  <2> QED BY <1>1, <1>3, <2>1
<1>8. \A i \in DOMAIN s : i \in Nat /\ (i = 1 \/ i > 1) BY <1>1
<1> QED BY <1>2, <1>3, <1>5, <1>6, <1>7, <1>8

-----------------------------------------------------------------------------
(* The chain and its coins *)

\* Connecting a block keeps ChainPart.
LEMMA ConnectChain ==
    ASSUME TypeOK, ChainPart(coins, best), NEW b \in Blocks, b # Root, Prev[b] = best, Connectable(b)
    PROVE  ChainPart((coins \cup Outs(TxsOf(b))) \ Spent(b), b)
<1> DEFINE C == (coins \cup Outs(TxsOf(b))) \ Spent(b)
<1>1. /\ Conf(b) = Conf(best) \cup TxsOf(b) /\ TxsOf(b) \cap Conf(best) = {}
      /\ Chain[b] = Chain[best] \cup {b} /\ best \in Blocks
      /\ \A c \in Chain[best] : Conf(c) \subseteq Conf(best)
  BY ConfFacts
<1>2. \A y \in Conf(best) : Parents(y) \subseteq Conf(best)
  <2>1. \A c \in Chain[best] : \A y \in TxsOf(c) : Parents(y) \subseteq Conf(c) BY DEF ChainPart
  <2> QED BY <1>1, <2>1 DEF Conf
<1>3. \A y \in TxsOf(b) : \A o \in Ins[y] : o \in coins \/ Of[o] \in TxsOf(b)
  <2>1. SUFFICES ASSUME NEW i \in DOMAIN Vtx[b], NEW o \in Ins[Vtx[b][i]]
                 PROVE o \in coins \/ Of[o] \in TxsOf(b)
    BY DEF TxsOf
  <2>2. o \in coins \/ \E j \in 1..(i - 1) : Of[o] = Vtx[b][j] BY DEF Connectable
  <2>3. \A j \in 1..(i - 1) : j \in DOMAIN Vtx[b] BY VtxFacts
  <2> QED BY <2>2, <2>3 DEF TxsOf
<1>4. \A y, z \in TxsOf(b) : y # z => Ins[y] \cap Ins[z] = {} BY DEF Connectable, TxsOf
<1>5. \A y \in Conf(b) : Ins[y] \cap C = {}
  <2>1. SUFFICES ASSUME NEW y \in Conf(best), NEW o \in Ins[y], o \in C PROVE FALSE
    BY <1>1 DEF Spent
  <2>2. o \notin coins BY DEF ChainPart
  <2>3. Of[o] \in TxsOf(b) BY <2>1, <2>2 DEF Outs
  <2>4. Of[o] \in Conf(best) BY <1>2 DEF Parents
  <2> QED BY <1>1, <2>3, <2>4
<1>6. ASSUME NEW c \in Chain[b], NEW y \in TxsOf(c) PROVE Parents(y) \subseteq Conf(c)
  <2>1. CASE c \in Chain[best] BY <2>1 DEF ChainPart
  <2>2. CASE c = b
    <3>1. \A o \in Ins[y] : Of[o] \in Conf(b) BY <1>1, <1>3, <2>2 DEF ChainPart
    <3> QED BY <2>2, <3>1 DEF Parents
  <2> QED BY <1>1, <2>1, <2>2
<1>7. \A o \in C : Of[o] \in Conf(b) BY <1>1 DEF Outs, ChainPart
<1>8. ASSUME NEW y \in TxsOf(b), NEW z \in Conf(best), NEW o \in Ins[y], o \in Ins[z] PROVE FALSE
  <2>1. o \notin coins BY <1>8 DEF ChainPart
  <2>2. Of[o] \in Conf(best) BY <1>2, <1>8 DEF Parents
  <2> QED BY <1>1, <1>3, <2>1, <2>2
<1>9. \A y, z \in Conf(b) : y # z => Ins[y] \cap Ins[z] = {}
  <2>1. \A y, z \in Conf(best) : y # z => Ins[y] \cap Ins[z] = {} BY DEF ChainPart
  <2> QED BY <1>1, <1>4, <1>8, <2>1
<1> HIDE DEF C
<1>10. ChainPart(C, b) BY <1>5, <1>6, <1>7, <1>9 DEF ChainPart
<1> QED BY <1>10 DEF C

\* So does disconnecting one.
LEMMA DisconnectChain ==
    ASSUME TypeOK, ChainPart(coins, best), best # Root
    PROVE  ChainPart((coins \cup Spent(best)) \ Outs(TxsOf(best)), Prev[best])
<1> DEFINE C == (coins \cup Spent(best)) \ Outs(TxsOf(best))
           p == Prev[best]
<1>1. /\ Conf(best) = Conf(p) \cup TxsOf(best) /\ TxsOf(best) \cap Conf(p) = {}
      /\ Chain[best] = Chain[p] \cup {best} /\ best \in Blocks
  BY ConfFacts DEF TypeOK
<1>2. /\ \A y \in Conf(best) : Ins[y] \cap coins = {}
      /\ \A c \in Chain[best] : \A y \in TxsOf(c) : Parents(y) \subseteq Conf(c)
      /\ \A o \in coins : Of[o] \in Conf(best)
      /\ \A y, z \in Conf(best) : y # z => Ins[y] \cap Ins[z] = {}
  BY DEF ChainPart
<1>3. \A y \in Conf(p) : Ins[y] \cap C = {}
  <2>1. SUFFICES ASSUME NEW y \in Conf(p), NEW o \in Ins[y], o \in C PROVE FALSE OBVIOUS
  <2>2. o \in Spent(best) BY <1>1, <1>2, <2>1
  <2>3. PICK z \in TxsOf(best) : o \in Ins[z] BY <2>2 DEF Spent
  <2> QED BY <1>1, <1>2, <2>1, <2>3
<1>4. \A c \in Chain[p] : \A y \in TxsOf(c) : Parents(y) \subseteq Conf(c) BY <1>1, <1>2
<1>5. ASSUME NEW o \in C PROVE Of[o] \in Conf(p)
  <2>1. o \in Outpoints
    BY <1>1, ConfFacts, MemPoolAssumption DEF TypeOK, Spent
  <2>2. Of[o] \notin TxsOf(best) BY <2>1 DEF Outs
  <2>3. CASE o \in coins BY <1>1, <1>2, <2>2, <2>3
  <2>4. CASE o \in Spent(best)
    <3>1. PICK z \in TxsOf(best) : o \in Ins[z] BY <2>4 DEF Spent
    <3>2. best \in Chain[best] BY <1>1
    <3>3. Of[o] \in Conf(best) BY <1>2, <3>1, <3>2 DEF Parents
    <3> QED BY <1>1, <2>2, <3>3
  <2> QED BY <2>3, <2>4
<1>6. \A y, z \in Conf(p) : y # z => Ins[y] \cap Ins[z] = {} BY <1>1, <1>2
<1> HIDE DEF C
<1>7. ChainPart(C, p) BY <1>3, <1>4, <1>5, <1>6 DEF ChainPart
<1> QED BY <1>7 DEF C

-----------------------------------------------------------------------------
(* The pool *)

\* remove with fRecursive leaves nothing behind that spends what it took.
LEMMA SpendersClosed ==
    ASSUME TypeOK, Marks, NEW x
    PROVE  /\ SpendersOf(x) \subseteq mapTx
           /\ \A o \in Outs(SpendersOf(x) \cup {x}) : mapNextTx[o] # None => mapNextTx[o] \in SpendersOf(x)
<1>1. SpendersOf(x) \subseteq mapTx BY DEF SpendersOf
<1>2. ASSUME NEW o \in Outs(SpendersOf(x) \cup {x}), mapNextTx[o] # None
      PROVE mapNextTx[o] \in SpendersOf(x)
  <2>1. o \in Outpoints /\ Of[o] \in SpendersOf(x) \cup {x} BY DEF Outs
  <2>2. mapNextTx[o] \in mapTx BY <1>2, <2>1 DEF Marks
  <2>3. ASSUME NEW S \in SUBSET mapTx,
               \A q \in Outs(S \cup {x}) : mapNextTx[q] # None => mapNextTx[q] \in S
        PROVE mapNextTx[o] \in S
    <3>1. SpendersOf(x) \subseteq S BY <2>3 DEF SpendersOf
    <3>2. o \in Outs(S \cup {x}) BY <2>1, <3>1 DEF Outs
    <3> QED BY <1>2, <2>3, <3>2
  <2> QED BY <2>2, <2>3 DEF SpendersOf
<1> QED BY <1>1, <1>2

\* Erasing any set keeps the marks exact.
LEMMA EraseMarks ==
    ASSUME TypeOK, Marks, NEW X, Erase(X)
    PROVE  /\ Marks' /\ mapTx' = mapTx \ X
           /\ mapTx' \subseteq Txs \ Coinbases /\ mapNextTx' \in [Outpoints -> Txs \cup {None}]
<1>1. /\ mapTx' = mapTx \ X
      /\ mapNextTx' = [o \in Outpoints |->
            IF \E x \in X \cap mapTx : o \in Ins[x] THEN None ELSE mapNextTx[o]]
  BY DEF Erase
<1>2. mapTx \subseteq Txs \ Coinbases /\ mapNextTx \in [Outpoints -> Txs \cup {None}] BY DEF TypeOK
<1>3. mapNextTx' \in [Outpoints -> Txs \cup {None}] BY <1>1, <1>2
<1>4. ASSUME NEW x \in mapTx', NEW o \in Ins[x] PROVE mapNextTx'[o] = x
  <2>1. o \in Outpoints BY <1>1, <1>2, MemPoolAssumption
  <2>2. mapNextTx[o] = x BY <1>1 DEF Marks
  <2>3. ~ \E y \in X \cap mapTx : o \in Ins[y] BY <1>1, <2>2 DEF Marks
  <2> QED BY <1>1, <2>1, <2>2, <2>3
<1>5. ASSUME NEW o \in Outpoints, mapNextTx'[o] # None
      PROVE mapNextTx'[o] \in mapTx' /\ o \in Ins[mapNextTx'[o]]
  <2>1. mapNextTx'[o] = mapNextTx[o] /\ ~ \E y \in X \cap mapTx : o \in Ins[y] BY <1>1, <1>5
  <2>2. mapNextTx[o] \in mapTx /\ o \in Ins[mapNextTx[o]] BY <1>5, <2>1 DEF Marks
  <2> QED BY <1>1, <2>1, <2>2
<1> QED BY <1>1, <1>2, <1>3, <1>4, <1>5 DEF Marks

\* addUnchecked keeps them exact when no input is marked.
LEMMA AddMarks ==
    ASSUME TypeOK, Marks, NEW x \in Txs \ Coinbases, x \notin mapTx,
           \A o \in Ins[x] : mapNextTx[o] = None, addUnchecked(x)
    PROVE  /\ Marks' /\ mapTx' = mapTx \cup {x}
           /\ mapTx' \subseteq Txs \ Coinbases /\ mapNextTx' \in [Outpoints -> Txs \cup {None}]
<1>1. /\ mapTx' = mapTx \cup {x}
      /\ mapNextTx' = [o \in Outpoints |-> IF o \in Ins[x] THEN x ELSE mapNextTx[o]]
  BY DEF addUnchecked
<1>2. mapTx \subseteq Txs \ Coinbases /\ mapNextTx \in [Outpoints -> Txs \cup {None}] BY DEF TypeOK
<1>3. None \notin Txs /\ Ins \in [Txs -> SUBSET Outpoints] BY MemPoolAssumption
<1>4. mapNextTx' \in [Outpoints -> Txs \cup {None}] BY <1>1, <1>2
<1>5. ASSUME NEW y \in mapTx', NEW o \in Ins[y] PROVE mapNextTx'[o] = y
  <2>1. y \in Txs /\ o \in Outpoints BY <1>1, <1>2, <1>3
  <2>2. CASE y = x BY <1>1, <2>1, <2>2
  <2>3. CASE y \in mapTx
    <3>1. mapNextTx[o] = y BY <2>3 DEF Marks
    <3>2. o \notin Ins[x] BY <1>3, <2>1, <3>1
    <3> QED BY <1>1, <2>1, <3>1, <3>2
  <2> QED BY <1>1, <2>2, <2>3
<1>6. ASSUME NEW o \in Outpoints, mapNextTx'[o] # None
      PROVE mapNextTx'[o] \in mapTx' /\ o \in Ins[mapNextTx'[o]]
  <2>1. CASE o \in Ins[x] BY <1>1, <2>1
  <2>2. CASE o \notin Ins[x]
    <3>1. mapNextTx'[o] = mapNextTx[o] BY <1>1, <2>2
    <3> QED BY <1>1, <1>6, <3>1 DEF Marks
  <2> QED BY <2>1, <2>2
<1> QED BY <1>1, <1>2, <1>4, <1>5, <1>6 DEF Marks

-----------------------------------------------------------------------------
(* The steps that leave pool and chain alone *)

\* Such a step has only the locals to account for.
LEMMA Frame ==
    ASSUME IInv, TypeOK', Locals', Accepting',
           UNCHANGED <<mapTx, mapNextTx, coins, pruned, best, rest>>,
           Connecting' <=> Connecting, Disconnecting' <=> Disconnecting
    PROVE  IInv'
<1>1. ChainPart(coins, best)' BY DEF IInv, ChainPart
<1>2. Marks' BY DEF IInv, Marks
<1>3. Left' = Left BY DEF Left
<1>4. Inputs' BY <1>3 DEF IInv, Inputs
<1>5. Order' BY DEF IInv, Order
<1>6. Fresh' BY <1>3 DEF IInv, Fresh
<1> QED BY <1>1, <1>2, <1>4, <1>5, <1>6 DEF IInv

\* Entering AcceptToMemoryPool.
LEMMA CallStep ==
    ASSUME IInv, Threads = {Message}, NEW who \in {"relay", "submit", "orphan"}, NEW x \in Txs,
           pc[Message] \in {"idle", "orphans"}, Call(Message, who, x),
           UNCHANGED <<mapTx, mapNextTx, coins, pruned, best, rest>>, 
           mapOrphanTransactions' \subseteq Txs, vWorkQueue' \subseteq Txs \X Txs, vEraseQueue' \subseteq Txs
    PROVE  IInv'
<1>1. TypeOK BY DEF IInv
<1>2. pc'[Message] = "conflicts" /\ caller'[Message] = who /\ tx'[Message] = x
  BY <1>1 DEF TypeOK, Call
<1>3. TypeOK' BY <1>1 DEF TypeOK, Call
<1>4. /\ pc[Message] \notin Inside /\ caller[Message] = "none" /\ ~Connecting /\ ~Disconnecting
      /\ rest[Message] = <<>> /\ \A y \in Left : y \notin TxsOf(Root)
  BY DEF IInv, Locals, Inside, Connecting, Disconnecting
<1>5. ~Connecting' /\ ~Disconnecting' BY <1>2 DEF Connecting, Disconnecting
<1>6. Left' = Left BY DEF Left
<1>7. Locals' BY <1>2, <1>4, <1>5, <1>6 DEF Locals, Inside
<1>8. Accepting' BY <1>2 DEF Accepting
<1> QED BY <1>3, <1>4, <1>5, <1>7, <1>8, Frame

\* Leaving it, other than from DisconnectTip.
LEMMA ReturnStep ==
    ASSUME IInv, Threads = {Message}, NEW place \in {"idle", "orphans"},
           pc[Message] \in {"accepted", "refused", "missing", "orphans"}, caller[Message] # "resurrect",
           Return(Message, place),
           UNCHANGED <<mapTx, mapNextTx, coins, pruned, best, rest>>, 
           mapOrphanTransactions' \subseteq Txs, vWorkQueue' \subseteq Txs \X Txs, vEraseQueue' \subseteq Txs
    PROVE  IInv'
<1>1. TypeOK BY DEF IInv
<1>2. pc'[Message] = place /\ caller'[Message] = "none"
  BY <1>1 DEF TypeOK, Return
<1>3. TypeOK' BY <1>1 DEF TypeOK, Return
<1>4. ~Connecting /\ ~Disconnecting /\ rest[Message] = <<>> /\ \A y \in Left : y \notin TxsOf(Root)
  BY DEF IInv, Locals, Connecting, Disconnecting
<1>5. ~Connecting' /\ ~Disconnecting' BY <1>2 DEF Connecting, Disconnecting
<1>6. Left' = Left BY DEF Left
<1>7. Locals' BY <1>2, <1>4, <1>5, <1>6 DEF Locals, Inside
<1>8. Accepting' BY <1>2 DEF Accepting
<1> QED BY <1>3, <1>4, <1>5, <1>7, <1>8, Frame

\* A step inside of it.
LEMMA InsideStep ==
    ASSUME IInv, Threads = {Message}, NEW place \in Inside, pc[Message] \in Inside,
           pc' = [pc EXCEPT ![Message] = place],
           UNCHANGED <<mapTx, mapNextTx, coins, pruned, best, rest, caller, tx>>,
           UNCHANGED <<mapOrphanTransactions, vWorkQueue, vEraseQueue>>, Accepting'
    PROVE  IInv'
<1>1. TypeOK BY DEF IInv
<1>2. pc'[Message] = place BY <1>1 DEF TypeOK
<1>3. TypeOK' BY <1>1 DEF TypeOK, Inside
<1>4. ~Connecting /\ ~Connecting' /\ (Disconnecting' <=> Disconnecting)
  BY <1>2 DEF Connecting, Disconnecting, Inside
<1>5. Left' = Left BY DEF Left
<1>6. Locals' BY <1>2, <1>4, <1>5 DEF IInv, Locals
<1> QED BY <1>3, <1>4, <1>6, Frame

\* AcceptToMemoryPool's tests.
LEMMA TestSteps ==
    ASSUME IInv, Threads = {Message}, CheckConflicts(Message) \/ LookUpInputs(Message)
    PROVE  IInv'
<1>1. TypeOK BY DEF IInv
<1>2. CASE CheckConflicts(Message)
  <2>1. PICK place \in {"refused", "inputs"} :
           /\ pc' = [pc EXCEPT ![Message] = place]
           /\ place = "inputs" => ~Unwanted(tx[Message]) /\ \A o \in Ins[tx[Message]] : mapNextTx[o] = None
    BY <1>2 DEF CheckConflicts
  <2>2. pc'[Message] = place BY <1>1, <2>1 DEF TypeOK
  <2>3. UNCHANGED <<mapTx, mapNextTx, coins, pruned, best, rest, caller, tx>>
        /\ UNCHANGED <<mapOrphanTransactions, vWorkQueue, vEraseQueue>>
    BY <1>2 DEF CheckConflicts, pool, chain, orphanage
  <2>4. Accepting' BY <2>1, <2>2, <2>3 DEF Accepting, Unwanted
  <2>5. pc[Message] \in Inside /\ place \in Inside BY <1>2, <2>1 DEF CheckConflicts, Inside
  <2> QED BY <2>1, <2>3, <2>4, <2>5, InsideStep
<1>3. CASE LookUpInputs(Message)
  <2>1. PICK place \in {"refused", "missing", "add"} :
           /\ pc' = [pc EXCEPT ![Message] = place]
           /\ place = "add" => ~HaveCoins(tx[Message]) /\ \A o \in Ins[tx[Message]] : Available(o)
    BY <1>3 DEF LookUpInputs
  <2>2. pc'[Message] = place BY <1>1, <2>1 DEF TypeOK
  <2>3. UNCHANGED <<mapTx, mapNextTx, coins, pruned, best, rest, caller, tx>>
        /\ UNCHANGED <<mapOrphanTransactions, vWorkQueue, vEraseQueue>>
    BY <1>3 DEF LookUpInputs, pool, chain, orphanage
  <2>4. /\ tx[Message] \notin mapTx \cup Coinbases
        /\ \A o \in Ins[tx[Message]] : mapNextTx[o] = None
    BY <1>3 DEF LookUpInputs, IInv, Accepting
  <2>5. Accepting' BY <2>1, <2>2, <2>3, <2>4 DEF Accepting, HaveCoins, Available
  <2>6. pc[Message] \in Inside /\ place \in Inside BY <1>3, <2>1 DEF LookUpInputs, Inside
  <2> QED BY <2>1, <2>3, <2>5, <2>6, InsideStep
<1> QED BY <1>2, <1>3

\* The tx message and its orphans.
LEMMA MessageSteps ==
    ASSUME IInv, Threads = {Message},
           (\E x \in Txs : ReceiveTx(x)) \/ Done \/ KeepOrphan \/ Resolved \/ TryOrphan \/ EraseOrphans
    PROVE  IInv'
<1>1. TypeOK BY DEF IInv
<1>2. /\ mapOrphanTransactions \subseteq Txs /\ vWorkQueue \subseteq Txs \X Txs /\ vEraseQueue \subseteq Txs
      /\ pc[Message] \in Inside => tx[Message] \in Txs
      /\ pc[Message] \notin Inside => caller[Message] = "none"
  BY DEF IInv, TypeOK, Locals
<1> USE DEF pool, chain, orphanage
<1>3. CASE \E x \in Txs : ReceiveTx(x) BY <1>2, <1>3, CallStep DEF ReceiveTx
<1>4. CASE Done BY <1>2, <1>4, ReturnStep DEF Done
<1>5. CASE KeepOrphan
  <2>1. tx[Message] \in Txs BY <1>2, <1>5 DEF KeepOrphan, Inside
  <2>2. mapOrphanTransactions' \subseteq Txs
    <3>1. mapOrphanTransactions' \subseteq mapOrphanTransactions \cup {tx[Message]}
      BY <1>5 DEF KeepOrphan, LimitOrphanTxSize
    <3> QED BY <1>2, <2>1, <3>1
  <2> QED BY <1>2, <1>5, <2>2, ReturnStep DEF KeepOrphan
<1>6. CASE Resolved
  <2>1. tx[Message] \in Txs BY <1>2, <1>6 DEF Resolved, Inside
  <2>2. Followers(Message) \subseteq Txs \X Txs BY <1>2, <2>1 DEF Followers, OrphansByPrev
  <2>3. vWorkQueue' \subseteq Txs \X Txs /\ vEraseQueue' \subseteq Txs
    BY <1>2, <1>6, <2>1, <2>2 DEF Resolved
  <2> QED BY <1>2, <1>6, <2>3, ReturnStep DEF Resolved
<1>7. CASE TryOrphan
  <2>1. PICK p \in vWorkQueue : vWorkQueue' = vWorkQueue \ {p} /\ Call(Message, "orphan", p[2])
    BY <1>7 DEF TryOrphan
  <2>2. p[2] \in Txs BY <1>2
  <2> QED BY <1>2, <1>7, <2>1, <2>2, CallStep DEF TryOrphan
<1>8. CASE EraseOrphans
  <2>1. caller[Message] = "none" BY <1>2, <1>8 DEF EraseOrphans, Inside
  <2> QED BY <1>2, <1>8, <2>1, ReturnStep DEF EraseOrphans
<1> QED BY <1>3, <1>4, <1>5, <1>6, <1>7, <1>8

-----------------------------------------------------------------------------
(* Adding to the pool *)

\* A transaction that is about to be added is not on the chain: one of its
\* inputs would be spent, and its parent, being on the chain, not in the pool.
LEMMA AddedIsFresh ==
    ASSUME IInv, pc[Message] = "add"
    PROVE  tx[Message] \notin Conf(best) /\ tx[Message] \notin pruned
<1>1. /\ tx[Message] \in Txs \ Coinbases /\ ~HaveCoins(tx[Message])
      /\ \A o \in Ins[tx[Message]] : Available(o)
  BY DEF IInv, Locals, Accepting, Inside
<1>2. ASSUME tx[Message] \in Conf(best) PROVE FALSE
  <2>1. PICK c \in Chain[best] : tx[Message] \in TxsOf(c) BY <1>2 DEF Conf
  <2>2. PICK o \in Ins[tx[Message]] : TRUE BY <1>1, MemPoolAssumption
  <2>3. o \notin coins BY <1>2 DEF IInv, ChainPart
  <2>4. Of[o] \in Conf(c) BY <2>1 DEF IInv, ChainPart, Parents
  <2>5. Of[o] \in Conf(best) BY <2>4, ConfFacts DEF IInv, TypeOK
  <2>6. Of[o] \in mapTx BY <1>1, <2>3 DEF Available
  <2> QED BY <2>5, <2>6 DEF IInv, Fresh, Connecting
<1> QED BY <1>1, <1>2 DEF HaveCoins

\* The end of AcceptToMemoryPool.
LEMMA AddStep ==
    ASSUME IInv, Threads = {Message}, Add(Message)
    PROVE  IInv'
<1>1. TypeOK /\ pc[Message] = "add" BY DEF IInv, Add
<1>2. CASE Unworthy(Message)
  <2>1. /\ pc' = [pc EXCEPT ![Message] = "refused"]
        /\ UNCHANGED <<mapTx, mapNextTx, coins, pruned, best, rest, caller, tx>>
        /\ UNCHANGED <<mapOrphanTransactions, vWorkQueue, vEraseQueue>>
    BY <1>2 DEF Add, pool, chain, orphanage
  <2>2. pc'[Message] = "refused" BY <1>1, <2>1 DEF TypeOK
  <2>3. Accepting' BY <2>2 DEF Accepting
  <2> QED BY <1>1, <2>1, <2>3, InsideStep DEF Inside
<1>3. CASE ~Unworthy(Message)
  <2> DEFINE x == tx[Message]
  <2>1. /\ pc' = [pc EXCEPT ![Message] = "accepted"] /\ addUnchecked(x)
        /\ UNCHANGED <<coins, pruned, best, rest, caller, tx>>
        /\ UNCHANGED <<mapOrphanTransactions, vWorkQueue, vEraseQueue>>
    BY <1>3 DEF Add, pool, chain, orphanage
  <2>2. /\ x \in Txs \ Coinbases /\ x \notin mapTx /\ \A o \in Ins[x] : mapNextTx[o] = None
        /\ \A o \in Ins[x] : Available(o)
    BY <1>1 DEF IInv, Locals, Accepting, Inside
  <2>3. /\ Marks' /\ mapTx' = mapTx \cup {x}
        /\ mapTx' \subseteq Txs \ Coinbases /\ mapNextTx' \in [Outpoints -> Txs \cup {None}]
    BY <2>1, <2>2, AddMarks DEF IInv
  <2>4. pc'[Message] = "accepted" BY <1>1, <2>1 DEF TypeOK
  <2>5. TypeOK' BY <1>1, <2>1, <2>3 DEF TypeOK
  <2>6. ~Connecting /\ ~Connecting' /\ (Disconnecting' <=> Disconnecting) /\ Left' = Left
    BY <1>1, <2>1, <2>4 DEF Connecting, Disconnecting, Left
  <2>7. Locals' BY <1>1, <2>1, <2>4, <2>6 DEF IInv, Locals, Inside
  <2>8. Accepting' BY <2>1, <2>3, <2>4 DEF Accepting
  <2>9. ChainPart(coins, best)' BY <2>1 DEF IInv, ChainPart
  <2>10. Inputs' BY <2>1, <2>2, <2>3, <2>6 DEF IInv, Inputs, Available
  <2>11. Order' BY <2>6 DEF Order
  <2>12. ~Immature(x) BY <1>3 DEF Unworthy
  <2>13. Fresh' BY <1>1, <2>1, <2>3, <2>6, <2>12, AddedIsFresh DEF IInv, Fresh
  <2> QED BY <2>3, <2>5, <2>7, <2>8, <2>9, <2>10, <2>11, <2>13 DEF IInv
<1> QED BY <1>2, <1>3

-----------------------------------------------------------------------------
(* The loops of ConnectTip and DisconnectTip *)

\* What every turn of the two loops does to the thread.
LEMMA LoopFacts ==
    ASSUME IInv, Threads = {Message}, NEW place, rest[Message] # <<>>,
           rest' = [rest EXCEPT ![Message] = Tail(@)],
           pc'[Message] = IF Len(rest[Message]) = 1 THEN "idle" ELSE place
    PROVE  /\ rest'[Message] = Tail(rest[Message]) /\ rest' \in [Threads -> Seq(Txs)]
           /\ Left = Left' \cup {Head(rest[Message])} /\ Head(rest[Message]) \in Txs
           /\ rest'[Message] = <<>> => pc'[Message] = "idle"
           /\ rest'[Message] # <<>> => pc'[Message] = place
<1> DEFINE s == rest[Message]
<1>1. rest \in [Threads -> Seq(Txs)] /\ s \in Seq(Txs) BY DEF IInv, TypeOK
<1>2. rest'[Message] = Tail(s) /\ rest' \in [Threads -> Seq(Txs)] BY <1>1, SeqFacts
<1>3. Left' \cup {Head(s)} \subseteq Left BY <1>1, <1>2, SeqFacts DEF Left
<1>4. ASSUME NEW i \in DOMAIN s PROVE s[i] \in Left' \cup {Head(s)}
  <2>1. CASE i = 1 BY <1>1, <2>1, SeqFacts
  <2>2. CASE i > 1
    <3>1. i - 1 \in DOMAIN Tail(s) /\ Tail(s)[i - 1] = s[i] BY <1>1, <2>2, SeqFacts
    <3> QED BY <1>2, <3>1 DEF Left
  <2> QED BY <1>1, <2>1, <2>2, SeqFacts
<1>5. Left \subseteq Left' \cup {Head(s)} BY <1>4 DEF Left
<1> QED BY <1>1, <1>2, <1>3, <1>5, SeqFacts

\* ConnectTip's loop: the transaction and its conflicts leave the pool.
LEMMA RemoveConnectedStep ==
    ASSUME IInv, Threads = {Message}, RemoveConnected(Message)
    PROVE  IInv'
<1> DEFINE s == rest[Message]
           x == Head(s)
<1>1. /\ TypeOK /\ Marks /\ pc[Message] = "connect" /\ Connecting /\ caller[Message] = "none"
      /\ s # <<>> /\ ~Disconnecting
  BY DEF IInv, RemoveConnected, Locals, Inside, Connecting, Disconnecting
<1>2. /\ Erase(Confirmed(x)) /\ rest' = [rest EXCEPT ![Message] = Tail(@)]
      /\ pc' = [pc EXCEPT ![Message] = IF Len(s) = 1 THEN "idle" ELSE "connect"]
      /\ UNCHANGED <<coins, pruned, best, caller, tx>>
      /\ UNCHANGED <<mapOrphanTransactions, vWorkQueue, vEraseQueue>>
  BY DEF RemoveConnected, chain, orphanage
<1>3. pc'[Message] = IF Len(s) = 1 THEN "idle" ELSE "connect" BY <1>1, <1>2 DEF TypeOK
<1>4. /\ rest'[Message] = Tail(s) /\ rest' \in [Threads -> Seq(Txs)]
      /\ Left = Left' \cup {x} /\ x \in Txs
      /\ rest'[Message] = <<>> => pc'[Message] = "idle"
      /\ rest'[Message] # <<>> => pc'[Message] = "connect"
  BY <1>1, <1>2, <1>3, LoopFacts
<1>5. /\ Marks' /\ mapTx' = mapTx \ Confirmed(x)
      /\ mapTx' \subseteq Txs \ Coinbases /\ mapNextTx' \in [Outpoints -> Txs \cup {None}]
  BY <1>1, <1>2, EraseMarks
<1>6. pc' \in [Threads -> {"idle", "connect"}] BY <1>1, <1>2 DEF TypeOK
<1>7. TypeOK' BY <1>1, <1>2, <1>4, <1>5, <1>6 DEF TypeOK
<1>8. ~Disconnecting' /\ (rest'[Message] # <<>> <=> Connecting')
  BY <1>1, <1>2, <1>4 DEF Connecting, Disconnecting
<1>9. Locals' BY <1>1, <1>2, <1>4, <1>6, <1>8 DEF IInv, Locals, Inside
<1>10. Accepting' BY <1>6 DEF Accepting
<1>11. ChainPart(coins, best)' BY <1>2 DEF IInv, ChainPart
<1>12. Left' # {} => Connecting'
  BY <1>4, <1>8 DEF Left
<1>13. x \in Confirmed(x) BY DEF Confirmed
<1>14. Fresh' BY <1>2, <1>4, <1>5, <1>12, <1>13 DEF IInv, Fresh
<1>15. ASSUME NEW i \in DOMAIN s, NEW o \in Ins[s[i]] PROVE i = 1 \/ o \in UNION {Ins[y] : y \in Left'}
  <2>1. s \in Seq(Txs) BY <1>1 DEF TypeOK
  <2>2. CASE i > 1
    <3>1. i - 1 \in DOMAIN Tail(s) /\ Tail(s)[i - 1] = s[i] BY <1>1, <2>1, <2>2, SeqFacts
    <3>2. s[i] \in Left' BY <1>4, <3>1 DEF Left
    <3> QED BY <3>2
  <2> QED BY <1>1, <2>1, <2>2, SeqFacts
<1>16. ASSUME NEW y \in mapTx', NEW o \in Ins[y]
       PROVE o \in coins' \/ Of[o] \in mapTx' \/ (Connecting' /\ \E z \in Left' : o \in Ins[z])
  <2>1. y \in mapTx /\ y \in Txs /\ mapNextTx[o] = y /\ o \in Outpoints /\ y # None /\ y # x
    BY <1>1, <1>5, <1>13, MemPoolAssumption DEF TypeOK, Marks
  <2>2. o \notin Ins[x]
    <3>1. ASSUME o \in Ins[x] PROVE y \in Conflicts(x) BY <2>1, <3>1 DEF Conflicts
    <3> QED BY <1>5, <3>1 DEF Confirmed
  <2>3. CASE Of[o] = x
    <3>1. s \in Seq(Txs) /\ 1 \in DOMAIN s /\ s[1] = x BY <1>1, SeqFacts DEF TypeOK
    <3>2. o \in coins \/ \E j \in DOMAIN s : j > 1 /\ o \in Ins[s[j]]
      BY <1>1, <2>1, <2>3, <3>1 DEF IInv, Order, Outs
    <3>3. \A j \in DOMAIN s : j > 1 => j # 1 BY <3>1
    <3> QED BY <1>2, <1>12, <1>15, <3>2, <3>3
  <2>4. CASE Of[o] \in mapTx /\ Of[o] # x
    <3>1. ASSUME Of[o] \in Confirmed(x) PROVE y \in Confirmed(x)
      <4>1. PICK z \in Conflicts(x) : Of[o] \in {z} \cup SpendersOf(z)
        BY <2>4, <3>1 DEF Confirmed
      <4>2. o \in Outs(SpendersOf(z) \cup {z}) BY <2>1, <4>1 DEF Outs
      <4>3. y \in SpendersOf(z) BY <1>1, <2>1, <4>2, SpendersClosed
      <4> QED BY <4>1, <4>3 DEF Confirmed
    <3> QED BY <1>5, <2>4, <3>1
  <2>5. CASE o \in coins BY <1>2, <2>5
  <2>6. CASE \E z \in Left : o \in Ins[z] BY <1>4, <1>12, <2>2, <2>6
  <2> QED BY <1>1, <2>1, <2>3, <2>4, <2>5, <2>6 DEF IInv, Inputs
<1>17. Inputs' BY <1>16 DEF Inputs
<1>18. Order'
  <2>1. s \in Seq(Txs) BY <1>1 DEF TypeOK
  <2>2. SUFFICES ASSUME NEW i \in DOMAIN Tail(s), NEW o \in Outs({Tail(s)[i]})
                 PROVE o \in coins' \/ \E j \in DOMAIN Tail(s) : j > i /\ o \in Ins[Tail(s)[j]]
    BY <1>4 DEF Order
  <2>3. i + 1 \in DOMAIN s /\ s[i + 1] = Tail(s)[i] /\ i \in Nat BY <1>1, <2>1, SeqFacts
  <2>4. o \in coins \/ \E j \in DOMAIN s : j > i + 1 /\ o \in Ins[s[j]]
    BY <1>1, <2>3 DEF IInv, Order
  <2>5. ASSUME NEW j \in DOMAIN s, j > i + 1, o \in Ins[s[j]]
        PROVE \E k \in DOMAIN Tail(s) : k > i /\ o \in Ins[Tail(s)[k]]
    <3>1. j \in Nat /\ j > 1 BY <1>1, <2>1, <2>3, <2>5, SeqFacts
    <3>2. j - 1 \in DOMAIN Tail(s) /\ Tail(s)[j - 1] = s[j] BY <1>1, <2>1, <3>1, SeqFacts
    <3>3. j - 1 > i BY <2>3, <2>5, <3>1
    <3> QED BY <2>5, <3>2, <3>3
  <2> QED BY <1>2, <2>4, <2>5
<1> QED BY <1>5, <1>7, <1>9, <1>10, <1>11, <1>14, <1>17, <1>18 DEF IInv

\* DisconnectTip's loop: a turn that settles all that spends its transaction.
LEMMA DisconnectTurn ==
    ASSUME IInv, Threads = {Message}, Disconnecting, TypeOK', Marks', mapTx' \subseteq mapTx,
           rest' = [rest EXCEPT ![Message] = Tail(@)], caller'[Message] = "none",
           pc'[Message] = IF Len(rest[Message]) = 1 THEN "idle" ELSE "resurrect",
           UNCHANGED <<coins, pruned, best>>,
           \A y \in mapTx' : \A o \in Ins[y] :
              Of[o] \in mapTx \cup {Head(rest[Message])} => Of[o] \in mapTx'
    PROVE  IInv'
<1> DEFINE x == Head(rest[Message])
<1>1. rest[Message] # <<>> /\ ~Connecting
  BY DEF IInv, Locals, Connecting, Disconnecting, Inside
<1>2. /\ Left = Left' \cup {x}
      /\ rest'[Message] = <<>> => pc'[Message] = "idle"
      /\ rest'[Message] # <<>> => pc'[Message] = "resurrect"
  BY <1>1, LoopFacts
<1>3. ~Connecting' /\ (rest'[Message] # <<>> <=> Disconnecting') /\ pc'[Message] \notin Inside
  BY <1>2 DEF Connecting, Disconnecting, Inside
<1>4. Locals' BY <1>2, <1>3 DEF IInv, Locals
<1>5. Accepting' BY <1>3 DEF Accepting, Inside
<1>6. ChainPart(coins, best)' BY DEF IInv, ChainPart
<1>7. Left' # {} => Disconnecting' BY <1>3 DEF Left
<1>8. ASSUME NEW y \in mapTx', NEW o \in Ins[y]
      PROVE o \in coins' \/ Of[o] \in mapTx' \/ (Disconnecting' /\ Of[o] \in Left')
  <2>1. o \in coins \/ Of[o] \in mapTx \/ Of[o] \in Left BY <1>1 DEF IInv, Inputs
  <2> QED BY <1>2, <1>7, <2>1
<1>9. Inputs' BY <1>8 DEF Inputs
<1>10. Order' BY <1>3 DEF Order
<1>11. Fresh' BY <1>1, <1>3 DEF IInv, Fresh
<1> QED BY <1>4, <1>5, <1>6, <1>9, <1>10, <1>11 DEF IInv

\* A coinbase: nothing in the pool spends it.
LEMMA SkipStep ==
    ASSUME IInv, Threads = {Message}, Skip(Message)
    PROVE  IInv'
<1>1. TypeOK /\ pc[Message] = "resurrect" /\ Disconnecting /\ Head(rest[Message]) \in Coinbases
  BY DEF IInv, Skip, Disconnecting
<1>2. /\ rest' = [rest EXCEPT ![Message] = Tail(@)]
      /\ pc' = [pc EXCEPT ![Message] = IF Len(rest[Message]) = 1 THEN "idle" ELSE "resurrect"]
      /\ UNCHANGED <<mapTx, mapNextTx, coins, pruned, best, caller, tx>>
      /\ UNCHANGED <<mapOrphanTransactions, vWorkQueue, vEraseQueue>>
  BY DEF Skip, pool, chain, orphanage
<1>3. pc'[Message] = IF Len(rest[Message]) = 1 THEN "idle" ELSE "resurrect" BY <1>1, <1>2 DEF TypeOK
<1>4. rest[Message] # <<>> /\ rest[Message] \in Seq(Txs) /\ caller[Message] = "none"
  BY <1>1 DEF IInv, TypeOK, Locals, Inside
<1>5. rest' \in [Threads -> Seq(Txs)] BY <1>2, <1>3, <1>4, LoopFacts
<1>6. pc' \in [Threads -> {"idle", "resurrect"}] BY <1>1, <1>2 DEF TypeOK
<1>7. TypeOK' BY <1>1, <1>2, <1>5, <1>6 DEF TypeOK
<1>8. Marks' BY <1>2 DEF IInv, Marks
<1>9. Head(rest[Message]) \notin TxsOf(Root)
  BY <1>4, SeqFacts DEF IInv, Locals, Left
<1>10. ASSUME NEW y \in mapTx, NEW o \in Ins[y] PROVE Of[o] # Head(rest[Message])
  BY <1>1, <1>9 DEF IInv, Fresh, Immature, Parents
<1> QED BY <1>1, <1>2, <1>3, <1>4, <1>7, <1>8, <1>10, DisconnectTurn

\* The others are offered to AcceptToMemoryPool ...
LEMMA ResurrectStep ==
    ASSUME IInv, Threads = {Message}, Resurrect(Message)
    PROVE  IInv'
<1> DEFINE x == Head(rest[Message])
<1>1. TypeOK /\ pc[Message] = "resurrect" /\ Disconnecting /\ ~Connecting
  BY DEF IInv, Resurrect, Disconnecting, Connecting
<1>2. Call(Message, "resurrect", x) /\ UNCHANGED <<mapTx, mapNextTx, coins, pruned, best, rest>>
      /\ UNCHANGED <<mapOrphanTransactions, vWorkQueue, vEraseQueue>>
  BY DEF Resurrect, pool, chain, orphanage
<1>3. rest[Message] # <<>> /\ rest[Message] \in Seq(Txs) /\ x \in Txs
  <2>1. rest[Message] # <<>> /\ rest[Message] \in Seq(Txs) BY <1>1 DEF IInv, TypeOK, Locals
  <2> QED BY <2>1, SeqFacts
<1>4. pc'[Message] = "conflicts" /\ caller'[Message] = "resurrect" /\ tx'[Message] = x
  BY <1>1, <1>2 DEF TypeOK, Call
<1>5. TypeOK' BY <1>1, <1>2, <1>3 DEF TypeOK, Call
<1>6. ~Connecting' /\ Disconnecting' /\ Left' = Left BY <1>2, <1>4 DEF Connecting, Disconnecting, Left
<1>7. Locals' BY <1>1, <1>2, <1>3, <1>4, <1>6 DEF IInv, Locals, Inside
<1>8. Accepting' BY <1>4 DEF Accepting
<1> QED BY <1>1, <1>2, <1>5, <1>6, <1>7, <1>8, Frame

\* ... and are in the pool afterwards, or nothing that spends them is.
LEMMA ResurrectedStep ==
    ASSUME IInv, Threads = {Message}, Resurrected(Message)
    PROVE  IInv'
<1> DEFINE x == tx[Message]
<1>1. /\ TypeOK /\ Marks /\ caller[Message] = "resurrect" /\ Disconnecting /\ x = Head(rest[Message])
      /\ rest[Message] # <<>>
  BY DEF IInv, Resurrected, Disconnecting, Locals
<1>2. /\ rest' = [rest EXCEPT ![Message] = Tail(@)]
      /\ Return(Message, IF Len(rest[Message]) = 1 THEN "idle" ELSE "resurrect")
      /\ UNCHANGED <<coins, pruned, best>>
      /\ UNCHANGED <<mapOrphanTransactions, vWorkQueue, vEraseQueue>>
  BY DEF Resurrected, chain, orphanage
<1>3. /\ pc'[Message] = IF Len(rest[Message]) = 1 THEN "idle" ELSE "resurrect"
      /\ caller'[Message] = "none"
  BY <1>1, <1>2 DEF TypeOK, Return
<1>4. rest' \in [Threads -> Seq(Txs)] BY <1>1, <1>2, <1>3, LoopFacts
<1>5. ASSUME mapTx' \subseteq Txs \ Coinbases, mapNextTx' \in [Outpoints -> Txs \cup {None}]
      PROVE TypeOK'
  <2>1. pc' \in [Threads -> {"idle", "resurrect"}] BY <1>1, <1>2 DEF TypeOK, Return
  <2>2. caller' \in [Threads -> {"none"}] /\ tx' \in [Threads -> {None}] BY <1>1, <1>2 DEF TypeOK, Return
  <2> QED BY <1>1, <1>2, <1>4, <1>5, <2>1, <2>2 DEF TypeOK
<1>6. CASE pc[Message] = "accepted"
  <2>1. UNCHANGED <<mapTx, mapNextTx>> BY <1>6 DEF Resurrected, pool
  <2>2. x \in mapTx BY <1>6 DEF IInv, Accepting
  <2>3. Marks' BY <1>1, <2>1 DEF Marks
  <2>4. TypeOK' BY <1>1, <1>5, <2>1 DEF TypeOK
  <2> QED BY <1>1, <1>2, <1>3, <2>1, <2>2, <2>3, <2>4, DisconnectTurn
<1>7. CASE pc[Message] # "accepted"
  <2>1. Erase({x} \cup SpendersOf(x)) BY <1>7 DEF Resurrected
  <2>2. /\ Marks' /\ mapTx' = mapTx \ ({x} \cup SpendersOf(x))
        /\ mapTx' \subseteq Txs \ Coinbases /\ mapNextTx' \in [Outpoints -> Txs \cup {None}]
    BY <1>1, <2>1, EraseMarks
  <2>3. ASSUME NEW y \in mapTx', NEW o \in Ins[y], Of[o] \in mapTx \cup {x} PROVE Of[o] \in mapTx'
    <3>1. y \in mapTx /\ mapNextTx[o] = y /\ o \in Outpoints /\ y # None /\ y \notin SpendersOf(x)
      BY <1>1, <2>2, MemPoolAssumption DEF TypeOK, Marks
    <3>2. Of[o] \notin SpendersOf(x) \cup {x} BY <1>1, <3>1, SpendersClosed DEF Outs
    <3> QED BY <2>2, <2>3, <3>2
  <2>4. TypeOK' BY <1>5, <2>2
  <2> QED BY <1>1, <1>2, <1>3, <2>2, <2>3, <2>4, DisconnectTurn
<1> QED BY <1>6, <1>7

-----------------------------------------------------------------------------
(* The chain moves *)

\* ConnectTip: the pool now holds transactions of the new block, and others
\* that spend what it spent; both are accounted for by Left.
LEMMA ConnectStep ==
    ASSUME IInv, Threads = {Message}, NEW b \in Blocks, ConnectTip(Message, b)
    PROVE  IInv'
<1> DEFINE C == (coins \cup Outs(TxsOf(b))) \ Spent(b)
           touched == TxsOf(b) \cup {Of[o] : o \in Spent(b)}
<1>1. /\ TypeOK /\ pc[Message] = "idle" /\ caller[Message] = "none" /\ ~Connecting /\ ~Disconnecting
      /\ b # Root /\ Prev[b] = best /\ Connectable(b)
  BY DEF IInv, ConnectTip, Locals, Inside, Connecting, Disconnecting
<1>2. /\ coins' = C /\ pruned' \subseteq pruned \cup touched /\ best' = b
      /\ rest' = [rest EXCEPT ![Message] = Vtx[b]] /\ pc' = [pc EXCEPT ![Message] = "connect"]
      /\ UNCHANGED <<mapTx, mapNextTx, caller, tx>>
      /\ UNCHANGED <<mapOrphanTransactions, vWorkQueue, vEraseQueue>>
  BY DEF ConnectTip, Connected, Update, pool, orphanage
<1>3. pc'[Message] = "connect" /\ rest'[Message] = Vtx[b] /\ Left' = TxsOf(b)
  BY <1>1, <1>2, VtxFacts DEF TypeOK, Left
<1>4. ChainPart(coins', best') BY <1>1, <1>2, ConnectChain DEF IInv
<1>5. /\ Conf(b) = Conf(best) \cup TxsOf(b) /\ TxsOf(b) \cap TxsOf(Root) = {} /\ b \in Chain[b]
      /\ TxsOf(b) \subseteq Txs
  BY <1>1, ConfFacts
<1>6. \A o \in Spent(b) : Of[o] \in Conf(b)
  BY <1>2, <1>4, <1>5 DEF ChainPart, Parents, Spent
<1>7. TypeOK'
  <2>1. coins' \subseteq Outpoints BY <1>1, <1>2 DEF TypeOK, Outs
  <2>2. touched \subseteq Txs BY <1>5, <1>6, ConfFacts
  <2>3. pruned' \subseteq Txs BY <1>1, <1>2, <2>2 DEF TypeOK
  <2>4. rest' \in [Threads -> Seq(Txs)] BY <1>1, <1>2, VtxFacts DEF TypeOK
  <2>5. pc' \in [Threads -> {"connect"}] BY <1>1, <1>2 DEF TypeOK
  <2> QED BY <1>1, <1>2, <2>1, <2>3, <2>4, <2>5 DEF TypeOK
<1>8. Connecting' /\ ~Disconnecting' BY <1>1, <1>2, <1>3 DEF Connecting, Disconnecting
<1>9. Locals' BY <1>1, <1>2, <1>3, <1>5, <1>8, VtxFacts DEF Locals, Inside
<1>10. Accepting' BY <1>3 DEF Accepting
<1>11. Marks' BY <1>2 DEF IInv, Marks
<1>12. Inputs'
  <2>1. ASSUME NEW x \in mapTx, NEW o \in Ins[x]
        PROVE o \in C \/ Of[o] \in mapTx \/ \E y \in TxsOf(b) : o \in Ins[y]
    BY <1>1 DEF IInv, Inputs, Spent
  <2> QED BY <1>2, <1>3, <1>8, <2>1 DEF Inputs
<1>13. ASSUME NEW i \in DOMAIN Vtx[b], NEW o \in Outs({Vtx[b][i]})
       PROVE o \in C \/ \E j \in DOMAIN Vtx[b] : j > i /\ o \in Ins[Vtx[b][j]]
  <2>1. o \in Outpoints /\ Of[o] = Vtx[b][i] /\ Vtx[b][i] \in TxsOf(b) BY DEF Outs, TxsOf
  <2>2. o \in Outs(TxsOf(b)) /\ o \notin coins BY <1>1, <2>1 DEF Outs, Connectable
  <2>3. CASE o \notin Spent(b) BY <2>2, <2>3
  <2>4. CASE o \in Spent(b)
    <3>1. PICK j \in DOMAIN Vtx[b] : o \in Ins[Vtx[b][j]] BY <2>4 DEF Spent, TxsOf
    <3>2. PICK k \in 1..(j - 1) : Of[o] = Vtx[b][k] BY <1>1, <2>2, <3>1 DEF Connectable
    <3>3. k \in DOMAIN Vtx[b] /\ k < j /\ k \in Nat /\ j \in Nat BY VtxFacts
    <3>4. k = i BY <2>1, <3>2, <3>3, VtxFacts
    <3> QED BY <3>1, <3>3, <3>4
  <2> QED BY <2>3, <2>4
<1>14. Order' BY <1>2, <1>3, <1>13 DEF Order
<1>15. ASSUME NEW x \in mapTx
       PROVE ((x \notin Conf(b) /\ x \notin pruned') \/ x \in TxsOf(b)) /\ ~Immature(x)
  <2>1. x \notin Conf(best) /\ x \notin pruned /\ ~Immature(x) BY <1>1 DEF IInv, Fresh
  <2>2. x \in touched => x \in TxsOf(b) BY <1>5, <1>6, <2>1
  <2> QED BY <1>2, <1>5, <2>1, <2>2
<1>16. Fresh' BY <1>2, <1>3, <1>8, <1>15 DEF Fresh
<1> QED BY <1>4, <1>7, <1>9, <1>10, <1>11, <1>12, <1>14, <1>16 DEF IInv

\* DisconnectTip: the pool may spend outputs of the block that is gone.
LEMMA DisconnectStep ==
    ASSUME IInv, Threads = {Message}, DisconnectTip(Message)
    PROVE  IInv'
<1> DEFINE b == best
           C == (coins \cup Spent(b)) \ Outs(TxsOf(b))
<1>1. /\ TypeOK /\ pc[Message] = "idle" /\ caller[Message] = "none" /\ ~Connecting /\ ~Disconnecting
      /\ b # Root /\ b \in Blocks
  BY DEF IInv, TypeOK, DisconnectTip, Locals, Inside, Connecting, Disconnecting
<1>2. /\ coins' = C /\ pruned' \subseteq pruned \cup TxsOf(b) /\ best' = Prev[b]
      /\ rest' = [rest EXCEPT ![Message] = Vtx[b]] /\ pc' = [pc EXCEPT ![Message] = "resurrect"]
      /\ UNCHANGED <<mapTx, mapNextTx, caller, tx>>
      /\ UNCHANGED <<mapOrphanTransactions, vWorkQueue, vEraseQueue>>
  BY DEF DisconnectTip, Disconnected, Update, pool, orphanage
<1>3. pc'[Message] = "resurrect" /\ rest'[Message] = Vtx[b] /\ Left' = TxsOf(b)
  BY <1>1, <1>2, VtxFacts DEF TypeOK, Left
<1>4. ChainPart(coins', best') BY <1>1, <1>2, DisconnectChain DEF IInv
<1>5. /\ Conf(b) = Conf(Prev[b]) \cup TxsOf(b) /\ TxsOf(b) \cap TxsOf(Root) = {}
      /\ TxsOf(b) \subseteq Txs /\ Prev[b] \in Blocks
  BY <1>1, ConfFacts
<1>6. TypeOK'
  <2>1. coins' \subseteq Outpoints BY <1>1, <1>2, <1>5, MemPoolAssumption DEF TypeOK, Spent
  <2>2. pruned' \subseteq Txs BY <1>1, <1>2, <1>5 DEF TypeOK
  <2>3. rest' \in [Threads -> Seq(Txs)] BY <1>1, <1>2, VtxFacts DEF TypeOK
  <2>4. pc' \in [Threads -> {"resurrect"}] BY <1>1, <1>2 DEF TypeOK
  <2> QED BY <1>1, <1>2, <1>5, <2>1, <2>2, <2>3, <2>4 DEF TypeOK
<1>7. ~Connecting' /\ Disconnecting' BY <1>3 DEF Connecting, Disconnecting
<1>8. Locals' BY <1>1, <1>2, <1>3, <1>5, <1>7, VtxFacts DEF Locals, Inside
<1>9. Accepting' BY <1>3 DEF Accepting
<1>10. Marks' BY <1>2 DEF IInv, Marks
<1>11. ASSUME NEW x \in mapTx, NEW o \in Ins[x] PROVE o \in C \/ Of[o] \in mapTx \/ Of[o] \in TxsOf(b)
  BY <1>1 DEF IInv, Inputs, Outs
<1>12. Inputs' BY <1>2, <1>3, <1>7, <1>11 DEF Inputs
<1>13. Order' BY <1>7 DEF Order
<1>14. Fresh' BY <1>1, <1>2, <1>5, <1>7 DEF IInv, Fresh
<1> QED BY <1>4, <1>6, <1>8, <1>9, <1>10, <1>12, <1>13, <1>14 DEF IInv

-----------------------------------------------------------------------------
(* The theorem *)

\* The invariant holds after the start, with an empty pool.
LEMMA Initially == ASSUME Threads = {Message}, Init PROVE IInv
<1>1. Conf(best) = TxsOf(Root) /\ TxsOf(Root) \subseteq Coinbases /\ best = Root
  BY ConfFacts, MemPoolAssumption DEF Init
<1>2. TypeOK
  <2>1. coins \subseteq Outpoints /\ best \in Blocks BY MemPoolAssumption DEF Init, Outs
  <2>2. rest \in [Threads -> Seq(Txs)] BY DEF Init
  <2> QED BY <2>1, <2>2 DEF Init, TypeOK
<1>3. \A y \in TxsOf(Root) : Ins[y] = {} BY <1>1, MemPoolAssumption
<1>4. ChainPart(coins, best)
  <2>1. \A c \in Chain[best] : c = Root BY <1>1, MemPoolAssumption
  <2>2. \A o \in coins : Of[o] \in Conf(best) BY <1>1 DEF Init, Outs
  <2>3. \A y \in Conf(best) : Ins[y] = {} BY <1>1, <1>3
  <2>4. \A c \in Chain[best] : \A y \in TxsOf(c) : Parents(y) \subseteq Conf(c)
    BY <1>3, <2>1 DEF Parents
  <2> QED BY <2>2, <2>3, <2>4 DEF ChainPart
<1>5. pc[Message] = "idle" /\ caller[Message] = "none" /\ rest[Message] = <<>> /\ mapTx = {}
  BY DEF Init
<1>6. Left = {} BY <1>5 DEF Left
<1>7. Marks BY DEF Init, Marks
<1>8. ~Connecting /\ ~Disconnecting BY <1>5 DEF Connecting, Disconnecting
<1>9. Locals BY <1>5, <1>6, <1>8 DEF Locals, Inside
<1>10. Accepting /\ Inputs /\ Order /\ Fresh BY <1>5, <1>8 DEF Accepting, Inputs, Order, Fresh
<1> QED BY <1>2, <1>4, <1>7, <1>9, <1>10 DEF IInv

\* Every step keeps the invariant, when the message thread is the only one.
LEMMA Step == ASSUME Threads = {Message}, IInv, [Next]_vars PROVE IInv'
<1>1. CASE UNCHANGED vars
  <2>1. /\ UNCHANGED <<mapTx, mapNextTx, coins, pruned, best, rest, pc, caller, tx>>
        /\ UNCHANGED <<mapOrphanTransactions, vWorkQueue, vEraseQueue>>
    BY <1>1 DEF vars, pool, chain, orphanage
  <2>2. (Connecting' <=> Connecting) /\ (Disconnecting' <=> Disconnecting) /\ Left' = Left
    BY <2>1 DEF Connecting, Disconnecting, Left
  <2>3. TypeOK' BY <2>1 DEF IInv, TypeOK
  <2>4. Locals' BY <2>1, <2>2 DEF IInv, Locals
  <2>5. Accepting' BY <2>1 DEF IInv, Accepting, HaveCoins, Available
  <2> QED BY <2>1, <2>2, <2>3, <2>4, <2>5, Frame
<1>2. CASE (\E x \in Txs : ReceiveTx(x)) \/ Done \/ KeepOrphan \/ Resolved \/ TryOrphan \/ EraseOrphans
  BY <1>2, MessageSteps
<1>3. CASE CheckConflicts(Message) \/ LookUpInputs(Message) BY <1>3, TestSteps
<1>4. CASE Add(Message) BY <1>4, AddStep
<1>5. CASE \E b \in Blocks : ConnectTip(Message, b) BY <1>5, ConnectStep
<1>6. CASE RemoveConnected(Message) BY <1>6, RemoveConnectedStep
<1>7. CASE DisconnectTip(Message) BY <1>7, DisconnectStep
<1>8. CASE Skip(Message) BY <1>8, SkipStep
<1>9. CASE Resurrect(Message) BY <1>9, ResurrectStep
<1>10. CASE Resurrected(Message) BY <1>10, ResurrectedStep
<1> QED BY <1>1, <1>2, <1>3, <1>4, <1>5, <1>6, <1>7, <1>8, <1>9, <1>10 DEF Next

\* Outside of a reorganisation the invariant is what is promised.
LEMMA Promised == ASSUME Threads = {Message}, IInv PROVE TypeOK /\ PoolConsistent /\ NoShadow
<1>1. Quiet => rest[Message] = <<>> BY DEF Quiet, Reorganising
<1>2. Quiet => ~Connecting /\ ~Disconnecting BY <1>1 DEF IInv, Locals
<1>3. PoolConsistent BY <1>2 DEF IInv, Inputs, Marks, PoolConsistent
<1>4. NoShadow
  <2>1. SUFFICES ASSUME Quiet, NEW x \in mapTx, HaveCoins(x) PROVE FALSE BY DEF NoShadow
  <2>2. x \notin Conf(best) /\ x \notin pruned BY <1>2, <2>1 DEF IInv, Fresh
  <2>3. PICK o \in coins : Of[o] = x BY <2>1, <2>2 DEF HaveCoins, Outs
  <2> QED BY <2>2, <2>3 DEF IInv, ChainPart
<1> QED BY <1>3, <1>4 DEF IInv

\* For all transactions and block trees: as long as whoever reorganises holds
\* cs_main, what CTxMemPool::check asserts is true after every message and
\* every block, and no transaction of the pool is hidden by the chain.
THEOREM MemPoolSafe ==
    ASSUME Threads = {Message}
    PROVE  Spec => [](TypeOK /\ PoolConsistent /\ NoShadow)
<1>1. Init => IInv BY Initially
<1>2. IInv /\ [Next]_vars => IInv' BY Step
<1>3. IInv => TypeOK /\ PoolConsistent /\ NoShadow BY Promised
<1> QED BY <1>1, <1>2, <1>3, PTL DEF Spec

-----------------------------------------------------------------------------
(* The miner                                                               *)

\* The outputs that the chain up to b makes and does not spend.
CoinsAt(b) == {o \in Outs(Conf(b)) : \A y \in Conf(b) : o \notin Ins[y]}

\* pcoinsTip is a function of its best block, and AcceptToMemoryPool has
\* looked at the scripts.
Node == coins = CoinsAt(best) /\ mapTx \cap BadScript = {}

\* The transactions s can be connected to the coins C one after the other.
Connects(s, C) ==
    \A i \in 1..Len(s) :
        /\ Outs({s[i]}) \cap C = {}
        /\ \A o \in Ins[s[i]] : /\ o \in C \/ \E j \in 1..(i - 1) : s[j] = Of[o]
                                /\ \A j \in 1..Len(s) \ {i} : o \notin Ins[s[j]]

Template ==
    /\ vtx \in Seq(Txs)
    /\ Connects(vtx, CoinsAt(hashPrevBlock))

\* While the block is put together, every transaction of the pool is in it, in
\* the heap, left out, or waits for exactly those of its parents in the pool
\* that are not yet in the block.
Heap ==
    /\ hashPrevBlock = best /\ pc[Message] = "idle"
    /\ setDependsOn \in [Txs -> SUBSET Txs]
    /\ ToSet(vtx) \subseteq mapTx /\ vecPriority \subseteq mapTx \ ToSet(vtx)
    /\ \A x \in Txs : /\ setDependsOn[x] \subseteq (Parents(x) \cap mapTx) \ ToSet(vtx)
                      /\ setDependsOn[x] # {} => x \in mapTx /\ x \notin ToSet(vtx) \cup vecPriority
    /\ \A x \in mapTx : /\ x \in ToSet(vtx) \cup vecPriority \cup left \/ setDependsOn[x] # {}
                        /\ \A o \in Ins[x] : o \in coins \/ Of[o] \in setDependsOn[x] \cup ToSet(vtx)

MInv ==
    /\ IInv /\ Node /\ Template
    /\ phase \in {"idle", "collect", "search"}
    /\ phase = "idle" => vtx = <<>>
    /\ phase = "collect" => Heap

-----------------------------------------------------------------------------
(* The coins of a chain *)

LEMMA CoinsConnect ==
    ASSUME IInv, coins = CoinsAt(best), NEW b \in Blocks, ConnectTip(Message, b)
    PROVE  coins' = CoinsAt(best')
<1> DEFINE T == TxsOf(b)
<1>1. /\ b # Root /\ Prev[b] = best /\ best' = b
      /\ coins' = (coins \cup Outs(T)) \ Spent(b)
  BY DEF ConnectTip, Update, Connected
<1>2. Conf(b) = Conf(best) \cup T /\ T \cap Conf(best) = {}
  BY <1>1, ConfFacts
<1>3. \A y \in Conf(best) : Parents(y) \subseteq Conf(best)
  <2>1. SUFFICES ASSUME NEW c \in Chain[best], NEW y \in TxsOf(c) PROVE Parents(y) \subseteq Conf(best)
    BY DEF Conf
  <2>2. Parents(y) \subseteq Conf(c) BY DEF IInv, ChainPart
  <2>3. best \in Blocks BY DEF IInv, TypeOK
  <2> QED BY <2>2, <2>3, ConfFacts
<1>4. ASSUME NEW o \in Outs(T), NEW y \in Conf(best) PROVE o \notin Ins[y]
  BY <1>2, <1>3 DEF Outs, Parents
<1>5. coins' \subseteq CoinsAt(b)
  BY <1>1, <1>2, <1>4 DEF CoinsAt, Outs, Spent
<1>6. CoinsAt(b) \subseteq coins'
  BY <1>1, <1>2 DEF CoinsAt, Outs, Spent
<1> QED BY <1>1, <1>5, <1>6

LEMMA CoinsDisconnect ==
    ASSUME IInv, coins = CoinsAt(best), DisconnectTip(Message)
    PROVE  coins' = CoinsAt(best')
<1> DEFINE b == best
<1> DEFINE T == TxsOf(b)
<1>1. /\ b \in Blocks \ {Root} /\ best' = Prev[b]
      /\ coins' = (coins \cup Spent(b)) \ Outs(T)
  BY DEF DisconnectTip, Update, Disconnected, IInv, TypeOK
<1>2. Conf(b) = Conf(Prev[b]) \cup T /\ T \cap Conf(Prev[b]) = {} /\ b \in Chain[b] /\ T \subseteq Txs
  BY <1>1, ConfFacts
<1>3. ASSUME NEW y \in T, NEW o \in Ins[y], o \notin Outs(T)
      PROVE o \in Outs(Conf(Prev[b])) /\ \A z \in Conf(Prev[b]) : o \notin Ins[z]
  <2>1. o \in Outpoints /\ Of[o] \in Conf(b)
    BY <1>2, MemPoolAssumption DEF IInv, ChainPart, Parents
  <2>2. \A z \in Conf(Prev[b]) : z # y /\ z \in Conf(b) /\ y \in Conf(b) BY <1>2
  <2>3. \A z \in Conf(Prev[b]) : Ins[y] \cap Ins[z] = {} BY <2>2 DEF IInv, ChainPart
  <2> QED BY <1>2, <1>3, <2>1, <2>3 DEF Outs
<1>4. coins' \subseteq CoinsAt(Prev[b])
  BY <1>1, <1>2, <1>3 DEF CoinsAt, Outs, Spent
<1>5. CoinsAt(Prev[b]) \subseteq coins'
  BY <1>1, <1>2 DEF CoinsAt, Outs, Spent
<1> QED BY <1>1, <1>4, <1>5

\* Only Add puts something into the pool.
LEMMA NodeStep ==
    ASSUME Threads = {Message}, IInv, Node, [Next]_vars
    PROVE  Node'
<1>1. ASSUME NEW b \in Blocks, ConnectTip(Message, b) PROVE Node'
  BY <1>1, CoinsConnect DEF Node, ConnectTip, pool
<1>2. ASSUME DisconnectTip(Message) PROVE Node'
  BY <1>2, CoinsDisconnect DEF Node, DisconnectTip, pool
<1>3. ASSUME Add(Message) PROVE Node'
  BY <1>3 DEF Node, Add, addUnchecked, Unworthy, pool, chain
<1>4. ASSUME RemoveConnected(Message) \/ Resurrected(Message) PROVE Node'
  BY <1>4 DEF Node, RemoveConnected, Resurrected, Erase, pool, chain
<1>5. ASSUME \/ \E x \in Txs : ReceiveTx(x)
             \/ Done \/ KeepOrphan \/ Resolved \/ TryOrphan \/ EraseOrphans
             \/ CheckConflicts(Message) \/ LookUpInputs(Message) \/ Skip(Message) \/ Resurrect(Message)
             \/ UNCHANGED vars
      PROVE  UNCHANGED <<mapTx, coins, best>>
  BY <1>5 DEF ReceiveTx, Done, KeepOrphan, Resolved, TryOrphan, EraseOrphans, CheckConflicts,
              LookUpInputs, Skip, Resurrect, pool, chain, vars
<1>6. ASSUME UNCHANGED <<mapTx, coins, best>> PROVE Node'
  BY <1>6 DEF Node, CoinsAt, Conf
<1> QED BY <1>1, <1>2, <1>3, <1>4, <1>5, <1>6 DEF Next

-----------------------------------------------------------------------------
(* CreateNewBlock *)

\* At rest every input of the pool is a coin or an output of the pool, and not both.
LEMMA AtRest ==
    ASSUME Threads = {Message}, IInv, pc[Message] = "idle"
    PROVE  /\ mapTx \subseteq Txs /\ Quiet
           /\ \A x \in mapTx : /\ ~HaveCoins(x) /\ x \notin Conf(best)
                               /\ \A o \in Ins[x] : o \in coins \/ Of[o] \in mapTx
           /\ \A x, y \in mapTx : x # y => Ins[x] \cap Ins[y] = {}
<1>1. ~Connecting /\ ~Disconnecting
  BY DEF Connecting, Disconnecting, IInv, Locals, Inside
<1>2. rest[Message] = <<>> BY <1>1 DEF IInv, Locals
<1>3. Quiet BY <1>2 DEF Quiet, Reorganising
<1>4. PoolConsistent /\ NoShadow BY Promised
<1>5. mapTx \subseteq Txs BY DEF IInv, TypeOK
<1>6. \A x \in mapTx : x \notin Conf(best) BY <1>1 DEF IInv, Fresh
<1>7. \A x, y \in mapTx : x # y => Ins[x] \cap Ins[y] = {} BY DEF IInv, Marks
<1> QED BY <1>3, <1>4, <1>5, <1>6, <1>7 DEF PoolConsistent, NoShadow

LEMMA StartBlockStep ==
    ASSUME Threads = {Message}, MInv, StartBlock, UNCHANGED vars
    PROVE  Template' /\ Heap'
<1> DEFINE D(x) == {y \in Parents(x) : ~HaveCoins(y)}
<1>1. /\ pc[Message] = "idle" /\ hashPrevBlock' = best /\ vtx' = <<>>
      /\ setDependsOn' = [x \in Txs |-> IF x \in mapTx /\ ~Missing(x) THEN D(x) ELSE {}]
      /\ vecPriority' = {x \in mapTx : ~Missing(x) /\ setDependsOn'[x] = {}}
  BY DEF StartBlock, MInv
<1>2. UNCHANGED <<mapTx, coins, best, pruned, pc>> BY DEF vars, pool, chain
<1>3. ASSUME NEW x \in mapTx, NEW o \in Ins[x]
      PROVE  /\ o \in Outpoints /\ Of[o] \in Txs /\ (o \in coins => HaveCoins(Of[o]))
             /\ (o \notin coins => Of[o] \in mapTx /\ ~HaveCoins(Of[o]))
  <2>1. o \in Outpoints /\ Of[o] \in Txs BY <1>1, AtRest, MemPoolAssumption DEF MInv
  <2>2. o \in coins => HaveCoins(Of[o]) BY <2>1 DEF HaveCoins, Outs
  <2>3. o \notin coins => Of[o] \in mapTx /\ ~HaveCoins(Of[o]) BY <1>1, AtRest DEF MInv
  <2> QED BY <2>1, <2>2, <2>3
<1>4. \A x \in mapTx : ~Missing(x) BY <1>3 DEF Missing, Have, Parents
<1>5. \A x \in mapTx : D(x) \subseteq Parents(x) \cap mapTx /\ D(x) \subseteq Txs
  BY <1>3 DEF Parents
<1>6. \A x \in mapTx : \A o \in Ins[x] : o \in coins \/ Of[o] \in D(x)
  BY <1>3 DEF Parents
<1>7. mapTx \subseteq Txs BY <1>1, AtRest DEF MInv
<1>8. /\ setDependsOn' \in [Txs -> SUBSET Txs]
      /\ \A x \in mapTx : setDependsOn'[x] = D(x)
      /\ \A x \in Txs \ mapTx : setDependsOn'[x] = {}
      /\ vecPriority' = {x \in mapTx : setDependsOn'[x] = {}}
  BY <1>1, <1>4, <1>5, <1>7
<1>9. ToSet(vtx') = {} BY <1>1 DEF ToSet
<1>10. Template' BY <1>1 DEF Template, Connects
<1>11. \A x \in Txs : Parents(x)' = Parents(x) BY DEF Parents
<1>12. Heap' BY <1>1, <1>2, <1>5, <1>6, <1>7, <1>8, <1>9 DEF Heap, Parents
<1> QED BY <1>10, <1>12

\* One more transaction.
LEMMA ConnectsAppend ==
    ASSUME NEW s \in Seq(Txs), NEW C, Connects(s, C), NEW x \in Txs, Outs({x}) \cap C = {},
           \A o \in Ins[x] : /\ o \in C \/ Of[o] \in ToSet(s)
                             /\ \A y \in ToSet(s) : o \notin Ins[y]
    PROVE  /\ Append(s, x) \in Seq(Txs) /\ ToSet(Append(s, x)) = ToSet(s) \cup {x}
           /\ Connects(Append(s, x), C)
<1> DEFINE t == Append(s, x)
<1>1. /\ t \in Seq(Txs) /\ Len(s) \in Nat /\ Len(t) = Len(s) + 1 /\ t[Len(s) + 1] = x
      /\ \A i \in 1..Len(s) : t[i] = s[i]
  OBVIOUS
<1>2. ToSet(s) = {s[i] : i \in 1..Len(s)} /\ ToSet(t) = {t[i] : i \in 1..Len(t)}
  BY <1>1 DEF ToSet
<1>3. ToSet(t) = ToSet(s) \cup {x}
  <2>1. \A i \in 1..Len(t) : i \in 1..Len(s) \/ i = Len(s) + 1 BY <1>1
  <2>2. \A i \in 1..Len(s) : i \in 1..Len(t) BY <1>1
  <2>3. Len(s) + 1 \in 1..Len(t) BY <1>1
  <2> QED BY <1>1, <1>2, <2>1, <2>2, <2>3
<1>4. ASSUME NEW i \in 1..Len(t)
      PROVE /\ Outs({t[i]}) \cap C = {}
            /\ \A o \in Ins[t[i]] : /\ o \in C \/ \E j \in 1..(i - 1) : t[j] = Of[o]
                                    /\ \A j \in 1..Len(t) \ {i} : o \notin Ins[t[j]]
  <2>1. CASE i \in 1..Len(s)
    <3>1. t[i] = s[i] /\ Outs({s[i]}) \cap C = {} BY <1>1, <2>1 DEF Connects
    <3>2. ASSUME NEW o \in Ins[s[i]] PROVE o \in C \/ \E j \in 1..(i - 1) : t[j] = Of[o]
      <4>1. o \in C \/ \E j \in 1..(i - 1) : s[j] = Of[o] BY <2>1 DEF Connects
      <4>2. \A j \in 1..(i - 1) : j \in 1..Len(s) BY <1>1, <2>1
      <4> QED BY <1>1, <4>1, <4>2
    <3>3. ASSUME NEW o \in Ins[s[i]], NEW j \in 1..Len(t) \ {i} PROVE o \notin Ins[t[j]]
      <4>1. CASE j \in 1..Len(s) BY <1>1, <2>1, <4>1 DEF Connects
      <4>2. CASE j = Len(s) + 1 BY <1>1, <1>2, <2>1, <4>2
      <4> QED BY <1>1, <4>1, <4>2
    <3> QED BY <3>1, <3>2, <3>3
  <2>2. CASE i = Len(s) + 1
    <3>1. t[i] = x BY <1>1, <2>2
    <3>2. ASSUME NEW o \in Ins[x] PROVE o \in C \/ \E j \in 1..(i - 1) : t[j] = Of[o]
      <4>1. ASSUME Of[o] \in ToSet(s) PROVE \E j \in 1..(i - 1) : t[j] = Of[o]
        <5>1. PICK j \in 1..Len(s) : s[j] = Of[o] BY <1>2, <4>1
        <5>2. j \in 1..(i - 1) BY <1>1, <2>2, <5>1
        <5> QED BY <1>1, <5>1, <5>2
      <4> QED BY <4>1
    <3>3. ASSUME NEW o \in Ins[x], NEW j \in 1..Len(t) \ {i} PROVE o \notin Ins[t[j]]
      <4>1. j \in 1..Len(s) BY <1>1, <2>2
      <4>2. t[j] = s[j] /\ s[j] \in ToSet(s) BY <1>1, <1>2, <4>1
      <4> QED BY <4>2
    <3> QED BY <3>1, <3>2, <3>3
  <2>3. i \in 1..Len(s) \/ i = Len(s) + 1 BY <1>1
  <2> QED BY <2>1, <2>2, <2>3
<1> QED BY <1>1, <1>3, <1>4 DEF Connects

\* Whatever the heap holds can be collected: its parents are coins or in the
\* block, and nothing else of the pool spends the same.
LEMMA Collectable ==
    ASSUME Threads = {Message}, MInv, Heap, NEW x \in vecPriority
    PROVE  /\ HaveInputs(x) /\ x \notin BadScript
           /\ x \in Txs /\ x \in mapTx /\ x \notin ToSet(vtx) /\ setDependsOn[x] = {}
           /\ Outs({x}) \cap coins = {}
<1>1. x \in mapTx /\ x \notin ToSet(vtx) /\ x \in Txs BY AtRest DEF MInv, Heap
<1>2. setDependsOn[x] = {} BY <1>1 DEF Heap
<1>3. x \notin BadScript BY <1>1 DEF MInv, Node
<1>4. Outs({x}) \cap coins = {} BY <1>1, AtRest DEF MInv, Heap, HaveCoins
<1>5. \A o \in Ins[x] : o \in coins \/ Of[o] \in ToSet(vtx) BY <1>1, <1>2 DEF Heap
<1>6. \A o \in Ins[x] : \A y \in ToSet(vtx) : o \notin Ins[y]
  BY <1>1, AtRest DEF MInv, Heap
<1> QED BY <1>1, <1>2, <1>3, <1>4, <1>5, <1>6 DEF HaveInputs

LEMMA CollectStep ==
    ASSUME Threads = {Message}, MInv, NEW x \in Txs, Collect(x), UNCHANGED vars
    PROVE  Template' /\ Heap'
<1>1. Heap /\ x \in vecPriority BY DEF Collect, MInv
<1>2. /\ HaveInputs(x) /\ x \notin BadScript
      /\ x \in Txs /\ x \in mapTx /\ x \notin ToSet(vtx) /\ setDependsOn[x] = {}
      /\ Outs({x}) \cap coins = {}
  BY <1>1, Collectable
<1>3. /\ vtx' = Append(vtx, x)
      /\ vecPriority' = (vecPriority \ {x}) \cup Dependers(x)
      /\ setDependsOn' = [y \in Txs |-> setDependsOn[y] \ {x}]
      /\ UNCHANGED <<hashPrevBlock, left>>
  BY <1>2 DEF Collect
<1>4. UNCHANGED <<mapTx, coins, best, pc>> BY DEF vars, pool, chain
<1>5. coins = CoinsAt(hashPrevBlock) BY <1>1 DEF MInv, Node, Heap
<1>6. /\ vtx' \in Seq(Txs) /\ ToSet(vtx') = ToSet(vtx) \cup {x}
      /\ Connects(vtx', CoinsAt(hashPrevBlock))
  BY <1>2, <1>3, <1>5, ConnectsAppend DEF MInv, Template, HaveInputs
<1>7. Template' BY <1>3, <1>6 DEF Template
<1>8. Dependers(x) = {y \in Txs : setDependsOn[y] = {x}} BY DEF Dependers
<1>9. \A y \in Txs : setDependsOn'[y] = setDependsOn[y] \ {x} BY <1>3
<1>10. setDependsOn' \in [Txs -> SUBSET Txs] BY <1>1, <1>3 DEF Heap
<1>11. \A y \in Dependers(x) : y \in mapTx /\ y \notin ToSet(vtx) /\ y # x
  BY <1>1, <1>2, <1>8 DEF Heap
<1>12. ToSet(vtx') \subseteq mapTx /\ vecPriority' \subseteq mapTx \ ToSet(vtx')
  BY <1>1, <1>2, <1>3, <1>6, <1>11 DEF Heap
<1>13. ASSUME NEW y \in Txs
       PROVE /\ setDependsOn'[y] \subseteq (Parents(y) \cap mapTx) \ ToSet(vtx')
             /\ setDependsOn'[y] # {} => y \in mapTx /\ y \notin ToSet(vtx') \cup vecPriority'
  <2>1. setDependsOn'[y] \subseteq (Parents(y) \cap mapTx) \ ToSet(vtx')
    BY <1>1, <1>6, <1>9 DEF Heap
  <2>2. ASSUME setDependsOn'[y] # {} PROVE y \in mapTx /\ y \notin ToSet(vtx') \cup vecPriority'
    <3>1. setDependsOn[y] # {} /\ setDependsOn[y] # {x} /\ y # x BY <1>2, <1>9, <2>2
    <3> QED BY <1>1, <1>3, <1>6, <1>8, <3>1 DEF Heap
  <2> QED BY <2>1, <2>2
<1>14. ASSUME NEW y \in mapTx
       PROVE /\ y \in ToSet(vtx') \cup vecPriority' \cup left' \/ setDependsOn'[y] # {}
             /\ \A o \in Ins[y] : o \in coins \/ Of[o] \in setDependsOn'[y] \cup ToSet(vtx')
  <2>1. y \in Txs BY <1>1, AtRest DEF MInv, Heap
  <2>2. setDependsOn'[y] = {} => setDependsOn[y] = {} \/ setDependsOn[y] = {x} BY <1>9, <2>1
  <2>3. y \in ToSet(vtx') \cup vecPriority' \cup left' \/ setDependsOn'[y] # {}
    BY <1>1, <1>3, <1>6, <1>8, <2>1, <2>2 DEF Heap
  <2>4. \A o \in Ins[y] : o \in coins \/ Of[o] \in setDependsOn'[y] \cup ToSet(vtx')
    BY <1>1, <1>6, <1>9, <2>1 DEF Heap
  <2> QED BY <2>3, <2>4
<1>15. Heap'
  BY <1>1, <1>3, <1>4, <1>10, <1>12, <1>13, <1>14 DEF Heap, Parents
<1> QED BY <1>7, <1>15

LEMMA PassOverStep ==
    ASSUME MInv, NEW x \in Txs, PassOver(x), UNCHANGED vars
    PROVE  Template' /\ Heap'
<1>1. Heap /\ Template /\ vecPriority' = vecPriority \ {x} /\ left' = left \cup {x}
      /\ UNCHANGED <<hashPrevBlock, vtx, setDependsOn>>
  BY DEF PassOver, MInv
<1>2. UNCHANGED <<mapTx, coins, best, pc>> BY DEF vars, pool, chain
<1>3. Template' BY <1>1 DEF Template
<1>4. Heap' BY <1>1, <1>2 DEF Heap, Parents
<1> QED BY <1>3, <1>4

LEMMA MinerInductive == MInv /\ [MinerNext]_<<vars, minerVars>> => MInv'
<1> SUFFICES ASSUME MInv, [MinerNext]_<<vars, minerVars>> PROVE MInv'
  OBVIOUS
<1> USE MinerAssumption
<1>1. [Next]_vars BY DEF MinerNext
<1>2. IInv' BY <1>1, Step DEF MInv
<1>3. Node' BY <1>1, NodeStep DEF MInv
<1>4. ASSUME phase # "collect", UNCHANGED minerVars PROVE MInv'
  BY <1>2, <1>3, <1>4 DEF MInv, Template, minerVars
<1>5. ASSUME UNCHANGED <<vars, minerVars>> PROVE MInv'
  <2>1. Template' BY <1>5 DEF MInv, Template, minerVars
  <2>2. phase = "collect" => Heap' BY <1>5 DEF MInv, Heap, minerVars, vars, pool, chain
  <2> QED BY <1>2, <1>3, <1>5, <2>1, <2>2 DEF MInv, minerVars
<1>6. ASSUME StartBlock, UNCHANGED vars PROVE MInv'
  BY <1>2, <1>3, <1>6, StartBlockStep DEF MInv, StartBlock
<1>7. ASSUME NEW x \in Txs, Collect(x), UNCHANGED vars PROVE MInv'
  BY <1>2, <1>3, <1>7, CollectStep DEF MInv, Collect
<1>8. ASSUME NEW x \in Txs, PassOver(x), UNCHANGED vars PROVE MInv'
  BY <1>2, <1>3, <1>8, PassOverStep DEF MInv, PassOver
<1>9. ASSUME EndBlock PROVE MInv'
  BY <1>2, <1>3, <1>9 DEF MInv, EndBlock, Template
<1>10. ASSUME Rebuild PROVE MInv'
  BY <1>2, <1>3, <1>10 DEF MInv, Rebuild, Template, Connects
<1> QED BY <1>4, <1>5, <1>6, <1>7, <1>8, <1>9, <1>10 DEF MinerNext, HoldsLocks

LEMMA MinerStarts == MinerInit => MInv
<1> SUFFICES ASSUME MinerInit PROVE MInv
  OBVIOUS
<1>1. IInv BY MinerAssumption, Initially DEF MinerInit
<1>2. coins = CoinsAt(best)
  <2>1. Conf(best) = TxsOf(Root) /\ coins = Outs(TxsOf(Root)) BY ConfFacts DEF MinerInit, Init
  <2>2. \A y \in TxsOf(Root) : y \in Txs /\ Ins[y] = {} BY MemPoolAssumption
  <2> QED BY <2>1, <2>2 DEF CoinsAt
<1>3. Node BY <1>2 DEF Node, MinerInit, Init
<1>4. Template BY DEF Template, Connects, MinerInit
<1> QED BY <1>1, <1>3, <1>4 DEF MInv, MinerInit

\* For all transactions and block trees, as long as whoever reorganises holds
\* cs_main: a block that CheckWork does not refuse connects, however long it was
\* searched for; CreateNewBlock leaves out nothing but what the limits and the
\* block's own gaps force it to; and the pool stays consistent beside it.
THEOREM MinerSafe == MinerSpec => [](PoolConsistent /\ NoShadow /\ TemplateConnects /\ NoneForgotten)
<1>1. ASSUME MInv PROVE PoolConsistent /\ NoShadow
  BY <1>1, MinerAssumption, Promised DEF MInv
<1>2. ASSUME MInv PROVE TemplateConnects
  <2>1. SUFFICES ASSUME hashPrevBlock = best PROVE Connects(vtx, coins)
    BY DEF TemplateConnects, Stale, Connects
  <2> QED BY <1>2, <2>1 DEF MInv, Node, Template
<1>3. ASSUME MInv PROVE NoneForgotten
  <2>1. SUFFICES ASSUME Heap, vecPriority = {}, NEW x \in mapTx \ ToSet(vtx)
                 PROVE x \in left \/ (Parents(x) \cap mapTx) \ ToSet(vtx) # {}
    BY <1>3 DEF MInv, NoneForgotten
  <2>2. x \in left \/ setDependsOn[x] # {} BY <2>1 DEF Heap
  <2>3. x \in Txs BY <1>3 DEF MInv, IInv, TypeOK
  <2> QED BY <2>1, <2>2, <2>3 DEF Heap
<1> QED BY <1>1, <1>2, <1>3, MinerStarts, MinerInductive, PTL DEF MinerSpec

-----------------------------------------------------------------------------
(* The orphans                                                             *)

\* The handler of a transaction is at its orphans.
Handling == pc[Message] = "orphans" \/ caller[Message] = "orphan"

\* The orphans are within their limit, and the queues are the handler's locals.
Orphanage ==
    /\ IsFiniteSet(mapOrphanTransactions)
    /\ Cardinality(mapOrphanTransactions) <= MAX_ORPHAN_TRANSACTIONS
    /\ ~Handling => vWorkQueue = {} /\ vEraseQueue = {}

\* What is to be tried, or being tried, is not in the pool unless it has been tried.
Untried ==
    /\ \A p \in vWorkQueue : p[2] \in mapTx =>
          p[2] \in vEraseQueue \/ (pc[Message] = "accepted" /\ tx[Message] = p[2])
    /\ caller[Message] = "orphan" /\ tx[Message] \in mapTx =>
          tx[Message] \in vEraseQueue \/ pc[Message] = "accepted"

\* Nothing in the pool spends what has just been added to it.
Childless ==
    pc[Message] = "accepted" /\ caller[Message] # "resurrect" =>
        \A y \in mapTx \ {tx[Message]} : tx[Message] \notin Parents(y)

\* An orphan of what the handler accepted is done with, or is to be tried, or is
\* being tried, or has other parents that are missing; the orphans of what has just
\* been accepted are about to be queued.
Follow(y) ==
    \/ y \in vEraseQueue \/ Missing(y)
    \/ \E p \in vWorkQueue : p[2] = y
    \/ caller[Message] = "orphan" /\ tx[Message] = y /\ pc[Message] # "missing"
    \/ pc[Message] = "accepted" /\ tx[Message] \in Parents(y)

Following ==
    \A y \in mapOrphanTransactions : Parents(y) \cap vEraseQueue \cap mapTx # {} => Follow(y)

OInv == Orphanage /\ Untried /\ Childless /\ Following

-----------------------------------------------------------------------------

\* Outside of the handler's orphans nothing is queued.
LEMMA Elsewhere ==
    ASSUME OInv, ~Handling, ~Handling', pc'[Message] # "accepted",
           UNCHANGED <<mapOrphanTransactions, vWorkQueue, vEraseQueue>>
    PROVE  OInv'
<1>1. vWorkQueue' = {} /\ vEraseQueue' = {} /\ caller'[Message] # "orphan"
  BY DEF OInv, Orphanage, Handling
<1>2. Orphanage' BY <1>1 DEF OInv, Orphanage
<1>3. Untried' BY <1>1 DEF Untried
<1>4. Childless' BY DEF Childless
<1>5. Following' BY <1>1 DEF Following
<1> QED BY <1>2, <1>3, <1>4, <1>5 DEF OInv

\* Where a message begins and ends, and reorganisations.
LEMMA OtherSteps ==
    ASSUME Threads = {Message}, IInv, OInv,
           \/ (\E x \in Txs : ReceiveTx(x)) \/ Done \/ \E b \in Blocks : ConnectTip(Message, b)
           \/ RemoveConnected(Message) \/ DisconnectTip(Message)
           \/ Skip(Message) \/ Resurrect(Message) \/ Resurrected(Message)
    PROVE  OInv' /\ pc[Message] # "orphans"
<1>1. TypeOK /\ (pc[Message] \notin Inside => caller[Message] = "none") BY DEF IInv, Locals
<1>2. UNCHANGED <<mapOrphanTransactions, vWorkQueue, vEraseQueue>>
  BY DEF ReceiveTx, Done, ConnectTip, RemoveConnected, DisconnectTip, Skip, Resurrect, Resurrected, orphanage
<1>3. ~Handling /\ ~Handling' /\ pc'[Message] # "accepted"
  <2> USE DEF Handling
  <2>1. CASE \E x \in Txs : ReceiveTx(x) BY <1>1, <2>1 DEF ReceiveTx, Call, TypeOK, Inside
  <2>2. CASE Done BY <1>1, <2>2 DEF Done, Return, TypeOK
  <2>3. CASE \E b \in Blocks : ConnectTip(Message, b) BY <1>1, <2>3 DEF ConnectTip, TypeOK, Inside
  <2>4. CASE RemoveConnected(Message) BY <1>1, <2>4 DEF RemoveConnected, TypeOK, Inside
  <2>5. CASE DisconnectTip(Message) BY <1>1, <2>5 DEF DisconnectTip, TypeOK, Inside
  <2>6. CASE Skip(Message) BY <1>1, <2>6 DEF Skip, TypeOK, Inside
  <2>7. CASE Resurrect(Message) BY <1>1, <2>7 DEF Resurrect, Call, TypeOK, Inside
  <2>8. CASE Resurrected(Message) BY <1>1, <2>8 DEF Resurrected, Return, TypeOK
  <2> QED BY <2>1, <2>2, <2>3, <2>4, <2>5, <2>6, <2>7, <2>8
<1>4. OInv' BY <1>2, <1>3, Elsewhere
<1> QED BY <1>3, <1>4 DEF Handling

\* AcceptToMemoryPool's tests, and a refusal: one that misses inputs says so.
LEMMA RefusingSteps ==
    ASSUME Threads = {Message}, IInv, OInv,
           \/ CheckConflicts(Message) \/ LookUpInputs(Message)
           \/ (Add(Message) /\ Unworthy(Message))
    PROVE  OInv'
<1>1. /\ UNCHANGED <<mapTx, coins, pruned, caller, tx>>
      /\ UNCHANGED <<mapOrphanTransactions, vWorkQueue, vEraseQueue>>
  BY DEF CheckConflicts, LookUpInputs, Add, pool, chain, orphanage
<1>2. /\ pc[Message] \in {"conflicts", "inputs", "add"}
      /\ pc'[Message] \in Inside \ {"accepted"}
      /\ pc'[Message] = "missing" => Missing(tx[Message])
  BY DEF CheckConflicts, LookUpInputs, Add, IInv, TypeOK, Inside
<1>3. Handling' <=> Handling BY <1>1, <1>2 DEF Handling, Inside
<1>4. Orphanage' BY <1>1, <1>3 DEF OInv, Orphanage
<1>5. Untried' BY <1>1, <1>2 DEF OInv, Untried
<1>6. Childless' BY <1>2 DEF Childless
<1>7. \A y : Missing(y) => Missing(y)' BY <1>1 DEF Missing, Have, HaveCoins
<1>8. ASSUME NEW y, Follow(y) PROVE Follow(y)'
  BY <1>1, <1>2, <1>7, <1>8 DEF Follow
<1>9. Following' BY <1>1, <1>8 DEF OInv, Following
<1> QED BY <1>4, <1>5, <1>6, <1>9 DEF OInv

\* addUnchecked: the newcomer was nobody's parent, and an orphan that misses nothing
\* any more spends it.
LEMMA AcceptingStep ==
    ASSUME Threads = {Message}, IInv, OInv, Add(Message), ~Unworthy(Message)
    PROVE  OInv'
<1> DEFINE x == tx[Message]
<1>1. /\ UNCHANGED <<coins, pruned, caller, tx>> /\ mapTx' = mapTx \cup {x}
      /\ UNCHANGED <<mapOrphanTransactions, vWorkQueue, vEraseQueue>>
  BY DEF Add, addUnchecked, chain, orphanage
<1>2. pc[Message] = "add" /\ pc'[Message] = "accepted" BY DEF Add, IInv, TypeOK
<1>3. Handling' <=> Handling BY <1>1, <1>2 DEF Handling
<1>4. Orphanage' BY <1>1, <1>3 DEF OInv, Orphanage
<1>5. Untried' BY <1>1, <1>2 DEF OInv, Untried
<1>6. Childless'
  <2>1. SUFFICES ASSUME caller[Message] # "resurrect", NEW y \in mapTx, NEW o \in Ins[y], Of[o] = x PROVE FALSE
    BY <1>1 DEF Childless, Parents
  <2>2. x \notin mapTx /\ ~HaveCoins(x) BY <1>2 DEF IInv, Accepting
  <2>3. ~Connecting /\ ~Disconnecting BY <1>2, <2>1 DEF Connecting, Disconnecting
  <2>4. o \in coins BY <2>1, <2>2, <2>3 DEF IInv, Inputs
  <2>5. o \in Outs({x}) BY <2>1, <2>4 DEF IInv, TypeOK, Outs
  <2> QED BY <2>2, <2>4, <2>5 DEF HaveCoins
<1>7. ASSUME NEW y, Missing(y), x \notin Parents(y) PROVE Missing(y)'
  BY <1>1, <1>7 DEF Missing, Have, HaveCoins
<1>8. ASSUME NEW y, Follow(y) PROVE Follow(y)'
  BY <1>1, <1>2, <1>7, <1>8 DEF Follow
<1>9. ASSUME NEW y, x \in Parents(y) PROVE Follow(y)' BY <1>1, <1>2, <1>9 DEF Follow
<1>10. Following'
  <2>1. SUFFICES ASSUME NEW y \in mapOrphanTransactions, Parents(y) \cap vEraseQueue \cap mapTx' # {}
                 PROVE  Follow(y)'
    BY <1>1 DEF Following
  <2>2. CASE x \in Parents(y) BY <1>9, <2>2
  <2>3. CASE x \notin Parents(y)
    <3>1. Parents(y) \cap vEraseQueue \cap mapTx # {} BY <1>1, <2>1, <2>3
    <3> QED BY <1>8, <3>1 DEF OInv, Following
  <2> QED BY <2>2, <2>3
<1> QED BY <1>4, <1>5, <1>6, <1>10 DEF OInv

\* The result for one transaction: the orphans of what was accepted are queued.
LEMMA ResolvedStep ==
    ASSUME Threads = {Message}, IInv, OInv, Resolved
    PROVE  OInv' /\ pc[Message] # "orphans"
<1> DEFINE x == tx[Message]
<1> DEFINE p0 == pc[Message]
<1>1. /\ UNCHANGED <<mapTx, coins, pruned, mapOrphanTransactions>>
      /\ vWorkQueue' = vWorkQueue \cup (IF p0 = "accepted" THEN OrphansByPrev(x) ELSE {})
      /\ vEraseQueue' = vEraseQueue \cup (IF p0 = "missing" THEN {} ELSE {x})
  BY DEF Resolved, Followers, pool, chain
<1>2. pc'[Message] = "orphans" /\ caller'[Message] = "none"
  BY DEF Resolved, Return, IInv, TypeOK
<1>3. /\ p0 \in {"accepted", "refused", "missing"} /\ caller[Message] \in {"relay", "orphan"}
      /\ p0 # "accepted" => caller[Message] = "orphan"
  BY DEF Resolved
<1>4. Orphanage' BY <1>1, <1>2 DEF OInv, Orphanage, Handling
<1>5. Untried'
  <2>1. SUFFICES ASSUME NEW p \in vWorkQueue', p[2] \in mapTx PROVE p[2] \in vEraseQueue'
    BY <1>1, <1>2 DEF Untried
  <2>2. CASE p \in vWorkQueue
    <3>1. p[2] \in vEraseQueue \/ (p0 = "accepted" /\ x = p[2]) BY <2>1, <2>2 DEF OInv, Untried
    <3> QED BY <1>1, <3>1
  <2>3. CASE p \notin vWorkQueue
    <3>1. p0 = "accepted" /\ p \in OrphansByPrev(x) BY <1>1, <2>1, <2>3
    <3>2. PICK y \in mapOrphanTransactions : p = <<x, y>> /\ x \in Parents(y)
      BY <3>1 DEF OrphansByPrev
    <3>3. p[2] = y BY <3>2
    <3>4. y = x BY <1>3, <2>1, <3>1, <3>2, <3>3 DEF OInv, Childless
    <3> QED BY <1>1, <3>1, <3>3, <3>4
  <2> QED BY <2>2, <2>3
<1>6. Childless' BY <1>2 DEF Childless
<1>7. \A y : Missing(y) => Missing(y)' BY <1>1 DEF Missing, Have, HaveCoins
<1>8. ASSUME NEW y \in mapOrphanTransactions, p0 = "accepted", x \in Parents(y) PROVE Follow(y)'
  <2>1. <<x, y>> \in vWorkQueue' BY <1>1, <1>8 DEF OrphansByPrev
  <2>2. <<x, y>>[2] = y OBVIOUS
  <2> QED BY <2>1, <2>2 DEF Follow
<1>9. ASSUME NEW y \in mapOrphanTransactions, Follow(y) PROVE Follow(y)'
  <2>1. CASE y \in vEraseQueue \/ Missing(y) \/ \E p \in vWorkQueue : p[2] = y
    BY <1>1, <1>7, <2>1 DEF Follow
  <2>2. CASE caller[Message] = "orphan" /\ x = y /\ p0 # "missing"
    <3>1. y \in vEraseQueue' BY <1>1, <2>2
    <3> QED BY <3>1 DEF Follow
  <2>3. CASE p0 = "accepted" /\ x \in Parents(y) BY <1>8, <2>3
  <2> QED BY <1>9, <2>1, <2>2, <2>3 DEF Follow
<1>10. Following'
  <2>1. SUFFICES ASSUME NEW y \in mapOrphanTransactions, NEW z \in Parents(y), z \in vEraseQueue', z \in mapTx
                 PROVE  Follow(y)'
    BY <1>1 DEF Following
  <2>2. CASE z \in vEraseQueue
    <3>1. z \in Parents(y) \cap vEraseQueue \cap mapTx BY <2>1, <2>2
    <3>2. Parents(y) \cap vEraseQueue \cap mapTx # {} BY <3>1
    <3>3. Follow(y) BY <3>2 DEF OInv, Following
    <3> QED BY <1>9, <3>3
  <2>3. CASE z \notin vEraseQueue
    <3>1. z = x BY <1>1, <2>1, <2>3
    <3>2. p0 = "accepted" BY <1>3, <2>1, <2>3, <3>1 DEF OInv, Untried
    <3> QED BY <1>8, <2>1, <3>1, <3>2
  <2> QED BY <2>2, <2>3
<1>11. OInv' BY <1>4, <1>5, <1>6, <1>10 DEF OInv
<1> QED BY <1>3, <1>11

\* The next one of the queue.
LEMMA TryStep ==
    ASSUME Threads = {Message}, IInv, OInv, TryOrphan
    PROVE  OInv' /\ pc'[Message] # "idle"
<1>1. PICK p \in vWorkQueue : vWorkQueue' = vWorkQueue \ {p} /\ Call(Message, "orphan", p[2])
  BY DEF TryOrphan
<1>2. UNCHANGED <<mapTx, coins, pruned, mapOrphanTransactions, vEraseQueue>> /\ pc[Message] = "orphans"
  BY DEF TryOrphan, pool, chain
<1>3. pc'[Message] = "conflicts" /\ caller'[Message] = "orphan" /\ tx'[Message] = p[2]
  BY <1>1 DEF Call, IInv, TypeOK
<1>4. caller[Message] = "none" BY <1>2 DEF IInv, Locals, Inside
<1>5. Orphanage' BY <1>2, <1>3 DEF OInv, Orphanage, Handling
<1>6. \A q \in vWorkQueue : q[2] \in mapTx => q[2] \in vEraseQueue BY <1>2 DEF OInv, Untried
<1>7. Untried' BY <1>1, <1>2, <1>3, <1>6 DEF Untried
<1>8. Childless' BY <1>3 DEF Childless
<1>9. \A y : Missing(y) => Missing(y)' BY <1>2 DEF Missing, Have, HaveCoins
<1>10. ASSUME NEW y, Follow(y) PROVE Follow(y)'
  <2>1. CASE y \in vEraseQueue \/ Missing(y) BY <1>2, <1>9, <2>1 DEF Follow
  <2>2. CASE \E q \in vWorkQueue : q[2] = y BY <1>1, <1>3, <2>2 DEF Follow
  <2> QED BY <1>2, <1>4, <1>10, <2>1, <2>2 DEF Follow
<1>11. Following' BY <1>2, <1>10 DEF OInv, Following
<1>12. OInv' BY <1>5, <1>7, <1>8, <1>11 DEF OInv
<1> QED BY <1>3, <1>12

\* The end of the handler: an orphan that is left misses a parent.
LEMMA EraseStep ==
    ASSUME Threads = {Message}, IInv, OInv, EraseOrphans
    PROVE  /\ OInv'
           /\ \A y \in mapOrphanTransactions' :
                 Parents(y) \cap vEraseQueue \cap mapTx # {} => Missing(y)'
<1>1. /\ UNCHANGED <<mapTx, coins, pruned>> /\ vWorkQueue = {} /\ vWorkQueue' = {} /\ vEraseQueue' = {}
      /\ mapOrphanTransactions' = mapOrphanTransactions \ vEraseQueue /\ pc[Message] = "orphans"
  BY DEF EraseOrphans, pool, chain
<1>2. pc'[Message] = "idle" /\ caller'[Message] = "none" BY DEF EraseOrphans, Return, IInv, TypeOK
<1>3. caller[Message] = "none" BY <1>1 DEF IInv, Locals, Inside
<1>4. Orphanage'
  <2>1. /\ IsFiniteSet(mapOrphanTransactions')
        /\ Cardinality(mapOrphanTransactions') <= Cardinality(mapOrphanTransactions)
        /\ Cardinality(mapOrphanTransactions') \in Nat /\ Cardinality(mapOrphanTransactions) \in Nat
    BY <1>1, FS_Subset, FS_CardinalityType DEF OInv, Orphanage
  <2>2. Cardinality(mapOrphanTransactions') <= MAX_ORPHAN_TRANSACTIONS
    BY <2>1, MemPoolAssumption DEF OInv, Orphanage
  <2> QED BY <1>1, <2>1, <2>2 DEF Orphanage
<1>5. Untried' /\ Childless' /\ Following' BY <1>1, <1>2 DEF Untried, Childless, Following
<1>6. \A y : Missing(y) => Missing(y)' BY <1>1 DEF Missing, Have, HaveCoins
<1>7. ASSUME NEW y \in mapOrphanTransactions', Parents(y) \cap vEraseQueue \cap mapTx # {} PROVE Missing(y)'
  <2>1. Follow(y) /\ y \notin vEraseQueue BY <1>1, <1>7 DEF OInv, Following
  <2>2. Missing(y) BY <1>1, <1>3, <2>1 DEF Follow
  <2> QED BY <1>6, <2>2
<1> QED BY <1>4, <1>5, <1>7 DEF OInv

\* AddOrphanTx and LimitOrphanTxSize.
LEMMA KeepStep ==
    ASSUME Threads = {Message}, IInv, OInv, KeepOrphan
    PROVE  OInv' /\ pc[Message] # "orphans"
<1> DEFINE S == mapOrphanTransactions
<1> DEFINE X == S \cup {tx[Message]}
<1>1. /\ mapOrphanTransactions' \in LimitOrphanTxSize(X) /\ UNCHANGED <<vWorkQueue, vEraseQueue>>
      /\ caller[Message] = "relay" /\ pc[Message] = "missing"
  BY DEF KeepOrphan
<1>2. pc'[Message] = "idle" /\ caller'[Message] = "none" BY DEF KeepOrphan, Return, IInv, TypeOK
<1>3. vWorkQueue' = {} /\ vEraseQueue' = {} BY <1>1 DEF OInv, Orphanage, Handling
<1>4. /\ IsFiniteSet(S) /\ Cardinality(S) \in Nat /\ Cardinality(S) <= MAX_ORPHAN_TRANSACTIONS
      /\ MAX_ORPHAN_TRANSACTIONS \in Nat
  BY MemPoolAssumption, FS_CardinalityType DEF OInv, Orphanage
<1>5. IsFiniteSet(X) /\ Cardinality(X) \in Nat /\ Cardinality(X) <= Cardinality(S) + 1
  <2>1. IsFiniteSet(X) /\ (Cardinality(X) = Cardinality(S) \/ Cardinality(X) = Cardinality(S) + 1)
    BY <1>4, FS_AddElement
  <2> QED BY <1>4, <2>1
<1>6. /\ IsFiniteSet(mapOrphanTransactions')
      /\ Cardinality(mapOrphanTransactions') <= MAX_ORPHAN_TRANSACTIONS
  <2>1. CASE Cardinality(X) > MAX_ORPHAN_TRANSACTIONS
    <3>1. PICK y \in X : mapOrphanTransactions' = X \ {y} BY <1>1, <2>1 DEF LimitOrphanTxSize
    <3>2. IsFiniteSet(X \ {y}) /\ Cardinality(X \ {y}) = Cardinality(X) - 1 BY <1>5, FS_RemoveElement
    <3> QED BY <1>4, <1>5, <3>1, <3>2
  <2>2. CASE ~(Cardinality(X) > MAX_ORPHAN_TRANSACTIONS)
    <3>1. mapOrphanTransactions' = X BY <1>1, <2>2 DEF LimitOrphanTxSize
    <3> QED BY <1>4, <1>5, <2>2, <3>1
  <2> QED BY <2>1, <2>2
<1>7. Orphanage' BY <1>3, <1>6 DEF Orphanage
<1>8. Untried' /\ Childless' /\ Following' BY <1>2, <1>3 DEF Untried, Childless, Following
<1> QED BY <1>1, <1>7, <1>8 DEF OInv

\* The orphans start empty.
LEMMA OrphansStart == ASSUME Init PROVE OInv
<1>1. IsFiniteSet({}) /\ Cardinality({}) = 0 BY FS_EmptySet
<1>2. pc[Message] = "idle" /\ caller[Message] = "none" BY MemPoolAssumption DEF Init
<1>3. Orphanage BY <1>1, MemPoolAssumption DEF Orphanage, Init
<1>4. Untried /\ Childless /\ Following BY <1>2 DEF Untried, Childless, Following, Init
<1> QED BY <1>3, <1>4 DEF OInv

\* What a step of the pool promises of the orphans.
Resolves ==
    /\ Cardinality(mapOrphanTransactions') <= MAX_ORPHAN_TRANSACTIONS
    /\ pc[Message] = "orphans" /\ pc'[Message] = "idle" =>
          \A y \in mapOrphanTransactions' :
             Parents(y) \cap vEraseQueue \cap mapTx # {} => Missing(y)'

LEMMA OrphanStep ==
    ASSUME Threads = {Message}, IInv, OInv, [Next]_vars
    PROVE  OInv' /\ Resolves
<1>1. ASSUME OInv', pc[Message] # "orphans" \/ pc'[Message] # "idle" PROVE OInv' /\ Resolves
  BY <1>1 DEF OInv, Orphanage, Resolves
<1>2. CASE UNCHANGED vars
  <2>1. /\ UNCHANGED <<mapTx, coins, pruned, pc, caller, tx>>
        /\ UNCHANGED <<mapOrphanTransactions, vWorkQueue, vEraseQueue>>
    BY <1>2 DEF vars, pool, chain, orphanage
  <2>2. Orphanage' BY <2>1 DEF OInv, Orphanage, Handling
  <2>3. Untried' /\ Childless' BY <2>1 DEF OInv, Untried, Childless
  <2>4. \A y : Missing(y) => Missing(y)' BY <2>1 DEF Missing, Have, HaveCoins
  <2>5. \A y : Follow(y) => Follow(y)' BY <2>1, <2>4 DEF Follow
  <2>6. Following' BY <2>1, <2>5 DEF OInv, Following
  <2> QED BY <1>1, <2>1, <2>2, <2>3, <2>6 DEF OInv
<1>3. CASE \/ (\E x \in Txs : ReceiveTx(x)) \/ Done \/ \E b \in Blocks : ConnectTip(Message, b)
           \/ RemoveConnected(Message) \/ DisconnectTip(Message)
           \/ Skip(Message) \/ Resurrect(Message) \/ Resurrected(Message)
  BY <1>1, <1>3, OtherSteps
<1>4. CASE CheckConflicts(Message) \/ LookUpInputs(Message) \/ Add(Message)
  <2>1. pc[Message] # "orphans" BY <1>4 DEF CheckConflicts, LookUpInputs, Add
  <2>2. OInv' BY <1>4, RefusingSteps, AcceptingStep
  <2> QED BY <1>1, <2>1, <2>2
<1>5. CASE KeepOrphan BY <1>1, <1>5, KeepStep
<1>6. CASE Resolved BY <1>1, <1>6, ResolvedStep
<1>7. CASE TryOrphan BY <1>1, <1>7, TryStep
<1>8. CASE EraseOrphans
  <2>1. OInv' /\ \A y \in mapOrphanTransactions' :
                    Parents(y) \cap vEraseQueue \cap mapTx # {} => Missing(y)'
    BY <1>8, EraseStep
  <2> QED BY <2>1 DEF OInv, Orphanage, Resolves
<1> QED BY <1>2, <1>3, <1>4, <1>5, <1>6, <1>7, <1>8 DEF Next

\* For all transactions and block trees, as long as whoever reorganises holds
\* cs_main: LimitOrphanTxSize keeps the orphans within MAX_ORPHAN_TRANSACTIONS, and
\* when the loop over vWorkQueue that follows an accepted tx message has ended, an
\* orphan that is left although it spends one of the transactions that were accepted
\* misses another parent, in whatever order the orphans were tried.
THEOREM OrphansResolved == MinerSpec => OrphansFollow
<1> DEFINE Inv == IInv /\ OInv
<1>1. MinerInit => Inv BY MinerAssumption, Initially, OrphansStart DEF MinerInit
<1>2. ASSUME Inv, [MinerNext]_<<vars, minerVars>> PROVE Inv' /\ [Resolves]_vars
  <2>1. [Next]_vars BY <1>2 DEF MinerNext
  <2> QED BY <1>2, <2>1, MinerAssumption, Step, OrphanStep
<1>3. MinerSpec => [][Resolves]_vars BY <1>1, <1>2, PTL DEF MinerSpec
<1> QED BY <1>3 DEF OrphansFollow, Resolves
=============================================================================
