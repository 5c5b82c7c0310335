-------------------------------- MODULE Miner --------------------------------
(***************************************************************************)
(* A miner beside the memory pool: CreateNewBlock collects transactions of *)
(* the pool into a block on the tip, and the block is searched for while   *)
(* pool and chain go on.                                                   *)
(*                                                                         *)
(* The heap that orders transactions by priority or fee is a set of which  *)
(* any member may be next, and a transaction may fail the limits of size,  *)
(* signature operations and fees; all are final.  CreateNewBlock holds     *)
(* cs_main and the lock of the pool: all of MemPool waits, as its only     *)
(* thread is the one that holds cs_main.  The draw of the lottery is in    *)
(* Lottery, the Bitcoin hashes in DualChain, the key in WalletKeys.        *)
(***************************************************************************)
EXTENDS MemPool, SequencesExt

ASSUME MinerAssumption == Threads = {Message}

VARIABLES
    phase,           \* what the miner does: "idle", "collect" or "search"
    hashPrevBlock,   \* the template: its parent,
    vtx,             \*   and its transactions after the coinbase
    vecPriority,     \* transactions that may be collected
    setDependsOn,    \* what the others, the COrphan objects, wait for
    left             \* those the limits have left out

minerVars == <<phase, hashPrevBlock, vtx, vecPriority, setDependsOn, left>>

\* LOCK2(cs_main, mempool.cs) in CreateNewBlock.
HoldsLocks == phase = "collect"

\* Transactions wait for their parents in the pool.  One with an input that is
\* nowhere is left out.
StartBlock ==
    /\ phase = "idle" /\ pc[Message] = "idle"
    /\ phase' = "collect" /\ hashPrevBlock' = best
    /\ setDependsOn' = [x \in Txs |-> IF x \in mapTx /\ ~Missing(x)
                                      THEN {y \in Parents(x) : ~HaveCoins(y)} ELSE {}]
    /\ vecPriority' = {x \in mapTx : ~Missing(x) /\ setDependsOn'[x] = {}}
    /\ UNCHANGED <<vtx, left>>

\* mutant: UpdateCoins forgotten.
HaveInputsAtTip(x) == Ins[x] \subseteq coins

\* The view on pcoinsTip to which UpdateCoins has added what is collected.
HaveInputs(x) ==
    \A o \in Ins[x] : /\ o \in coins \/ Of[o] \in ToSet(vtx)
                      /\ \A y \in ToSet(vtx) : o \notin Ins[y]

\* The orphans that wait for x alone.
Dependers(x) == {y \in Txs : setDependsOn[y] = {x}}

\* The next transaction of the heap is collected, and lets its dependers in.
Collect(x) ==
    /\ phase = "collect" /\ x \in vecPriority
    /\ IF HaveInputs(x) /\ x \notin BadScript
       THEN /\ vtx' = Append(vtx, x)
            /\ vecPriority' = (vecPriority \ {x}) \cup Dependers(x)
            /\ setDependsOn' = [y \in Txs |-> setDependsOn[y] \ {x}]
       ELSE vecPriority' = vecPriority \ {x} /\ UNCHANGED <<vtx, setDependsOn>>
    /\ UNCHANGED <<phase, hashPrevBlock, left>>

\* nBlockMaxSize, MAX_BLOCK_SIGOPS, nBlockMinSize for free ones, or a bet that
\* is not valid.
PassOver(x) ==
    /\ phase = "collect" /\ x \in vecPriority
    /\ vecPriority' = vecPriority \ {x} /\ left' = left \cup {x}
    /\ UNCHANGED <<phase, hashPrevBlock, vtx, setDependsOn>>

EndBlock ==
    /\ phase = "collect" /\ vecPriority = {}
    /\ phase' = "search" /\ setDependsOn' = [x \in Txs |-> {}] /\ left' = {}
    /\ UNCHANGED <<hashPrevBlock, vtx, vecPriority>>

\* mutant: any block found is submitted.
NeverStale == FALSE

\* CheckWork refuses a block whose parent is not the tip.
Stale == hashPrevBlock # best

\* The tip or the pool has changed, or there are no peers.
Rebuild ==
    /\ phase = "search"
    /\ phase' = "idle" /\ vtx' = <<>> /\ hashPrevBlock' = Root
    /\ UNCHANGED <<vecPriority, setDependsOn, left>>

MinerInit ==
    /\ Init
    /\ phase = "idle" /\ hashPrevBlock = Root /\ vtx = <<>>
    /\ vecPriority = {} /\ setDependsOn = [x \in Txs |-> {}] /\ left = {}

MinerNext ==
    \/ ~HoldsLocks /\ Next /\ UNCHANGED minerVars
    \/ /\ StartBlock \/ EndBlock \/ Rebuild \/ \E x \in Txs : Collect(x) \/ PassOver(x)
       /\ UNCHANGED vars

MinerSpec == MinerInit /\ [][MinerNext]_<<vars, minerVars>>

-----------------------------------------------------------------------------
\* A block that CheckWork does not refuse connects, whatever has happened to the
\* pool and the chain since it was put together: inputs are there when they are
\* spent and spent once, and no transaction is already on the chain (the
\* conditions of ConnectBlock).
TemplateConnects ==
    phase = "search" /\ Quiet /\ ~Stale =>
        \A i \in 1..Len(vtx) :
            /\ Outs({vtx[i]}) \cap coins = {}
            /\ \A o \in Ins[vtx[i]] : /\ o \in coins \/ \E j \in 1..(i - 1) : vtx[j] = Of[o]
                                      /\ \A j \in 1..Len(vtx) \ {i} : o \notin Ins[vtx[j]]

\* When the heap is empty, a transaction of the pool that is not in the block has
\* been left out by the limits, or spends one that is not in the block either.
NoneForgotten ==
    phase = "collect" /\ vecPriority = {} =>
        \A x \in mapTx \ ToSet(vtx) : x \in left \/ (Parents(x) \cap mapTx) \ ToSet(vtx) # {}
=============================================================================
