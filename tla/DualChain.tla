----------------------------- MODULE DualChain -----------------------------
(***************************************************************************)
(* The block tree of a DSPay node and the chain it follows (src/main.cpp): *)
(* setBlockIndexValid, chainMostWork and chainActive, driven by            *)
(* ProcessBlock, ActivateBestChain and CheckLastBlockState, and coupled to *)
(* the Bitcoin header chain, whose block hashes every DSPay block embeds,  *)
(* and to the lottery keys, without which a draw block cannot be checked.  *)
(*                                                                         *)
(* Three threads act: the message thread (blocks and lottery keys), the    *)
(* Bitcoin thread (CChainManager::AddBitcoinHeader) and the miner.  All of *)
(* them walk the chain under cs_bestChain, but only block processing holds *)
(* cs_main, so a new block can enter setBlockIndexValid, and the Bitcoin   *)
(* chain can move, while another thread is inside ActivateBestChain.  Its  *)
(* loops are therefore modelled one iteration per step.                    *)
(*                                                                         *)
(* Abstracted: blocks and Bitcoin headers are the nodes of two fixed trees *)
(* (constants); a block's transactions are reduced to the verdict of       *)
(* ConnectBlock on them; system errors (disk, database) are left out.      *)
(* CheckLastBlockState, which keeps cs_bestChain throughout, is one step.  *)
(***************************************************************************)
EXTENDS Integers, FiniteSets

CONSTANTS
    Blocks, Genesis,  \* DSPay blocks
    Prev,             \* Prev[b] is the parent of b
    Chain,            \* Chain[b] is the set of ancestors of b, with b
    Height,           \* nHeight
    Work,             \* nChainWork, accumulated from genesis
    Embeds,           \* Embeds[b]: the Bitcoin blocks in b's mBitcoinHash
    LottoKey,         \* LottoKey[b]: the key a draw block b carries, or NoKey
    Malformed,        \* blocks that CheckBlock rejects, whatever their parent
    BadHeader,        \* blocks that AcceptBlock rejects
    BadTx,            \* blocks whose transactions ConnectBlock rejects
    BadPool,          \* blocks whose lotto pool or payouts are wrong
    BtcBlocks, BtcStart,                     \* Bitcoin headers of the world
    BtcPrev, BtcChain, BtcHeight, BtcWork,   \* their tree
    Keys, NoKey,      \* lottery keys the authority publishes
    nRecheck,         \* Bitcoin heights CheckLastBlockState goes back: 5
    nMaxOrphan        \* MAX_ORPHAN_BLOCKS

\* The two trees are trees (ancestry is transitive and heights grow along
\* it), genesis embeds the first Bitcoin block, no block embeds two Bitcoin
\* blocks of one height (mBitcoinHash is a map), and work grows along a chain.
ASSUME DualChainAssumption ==
    /\ IsFiniteSet(Blocks) /\ Genesis \in Blocks
    /\ Prev \in [Blocks \ {Genesis} -> Blocks]
    /\ Chain \in [Blocks -> SUBSET Blocks]
    /\ Chain[Genesis] = {Genesis}
    /\ \A b \in Blocks \ {Genesis} : Chain[b] = Chain[Prev[b]] \cup {b}
    /\ \A b \in Blocks : Genesis \in Chain[b] /\ \A c \in Chain[b] : Chain[c] \subseteq Chain[b]
    /\ Height \in [Blocks -> Nat] /\ Height[Genesis] = 0
    /\ \A b \in Blocks \ {Genesis} : Height[b] = Height[Prev[b]] + 1
    /\ \A b \in Blocks : \A c, d \in Chain[b] :
           /\ Height[c] <= Height[b]
           /\ Height[c] <= Height[d] => c \in Chain[d]
           /\ Height[c] = Height[d] => c = d
    /\ Work \in [Blocks -> Nat]
    /\ \A b \in Blocks \ {Genesis} : Work[b] > Work[Prev[b]]
    /\ Embeds \in [Blocks -> SUBSET BtcBlocks] /\ Embeds[Genesis] = {BtcStart}
    /\ \A b \in Blocks : IsFiniteSet(Embeds[b])
    /\ \A b \in Blocks : \A x, y \in Embeds[b] : BtcHeight[x] = BtcHeight[y] => x = y
    /\ LottoKey \in [Blocks -> Keys \cup {NoKey}] /\ NoKey \notin Keys
    /\ Malformed \cup BadHeader \cup BadTx \cup BadPool \subseteq Blocks \ {Genesis}
    /\ BtcStart \in BtcBlocks
    /\ BtcPrev \in [BtcBlocks \ {BtcStart} -> BtcBlocks]
    /\ BtcChain \in [BtcBlocks -> SUBSET BtcBlocks]
    /\ BtcChain[BtcStart] = {BtcStart}
    /\ \A x \in BtcBlocks \ {BtcStart} : BtcChain[x] = BtcChain[BtcPrev[x]] \cup {x}
    /\ \A x \in BtcBlocks :
           BtcStart \in BtcChain[x] /\ \A y \in BtcChain[x] : BtcChain[y] \subseteq BtcChain[x]
    /\ BtcHeight \in [BtcBlocks -> Nat]
    /\ \A x \in BtcBlocks \ {BtcStart} :
           /\ BtcHeight[x] = BtcHeight[BtcPrev[x]] + 1
           /\ BtcHeight[x] > BtcHeight[BtcStart]
    /\ \A x \in BtcBlocks : \A y, z \in BtcChain[x] :
           /\ BtcHeight[y] <= BtcHeight[z] => y \in BtcChain[z]
           /\ BtcHeight[y] = BtcHeight[z] => y = z
    /\ BtcWork \in [BtcBlocks -> Nat]
    /\ nRecheck \in Nat /\ nMaxOrphan \in Nat

VARIABLES
    mapBlockIndex,       \* accepted blocks
    nSequenceId,         \* their order of arrival
    mapOrphanBlocks,     \* blocks whose parent is not known
    setBlockIndexValid,  \* candidates for the tip
    failed,              \* blocks with a BLOCK_FAILED_MASK bit
    chainMostWork,       \* its tip
    chainActive,         \* its tip
    keyDb,               \* lottery keys in the sync database
    mapBitcoinBlockIndex,  \* Bitcoin headers received
    chainMostWorkBitcoin,  \* its tip
    chainActiveBitcoin,    \* its tip
    nHeightBefore,       \* nHeight in AddBitcoinHeader
    bFork,               \* a Bitcoin block was disconnected
    cs_main,             \* the thread holding the lock, or "none"
    cs_bestChain,        \* likewise
    pc,                  \* where each thread is
    pblock               \* the block each thread is processing

index == <<mapBlockIndex, nSequenceId, mapOrphanBlocks>>
chains == <<setBlockIndexValid, failed, chainMostWork, chainActive>>
bitcoin == <<mapBitcoinBlockIndex, chainMostWorkBitcoin, chainActiveBitcoin,
             nHeightBefore, bFork>>
threads == <<cs_main, cs_bestChain, pc, pblock>>
vars == <<index, chains, keyDb, bitcoin, threads>>

Threads == {"msg", "btc", "miner"}

\* The state LoadBlockIndex and InitBlockIndex leave on an empty data directory.
Init ==
    /\ mapBlockIndex = {Genesis} /\ nSequenceId = [b \in Blocks |-> 0]
    /\ mapOrphanBlocks = {}
    /\ setBlockIndexValid = {Genesis} /\ failed = {}
    /\ chainMostWork = Genesis /\ chainActive = Genesis
    /\ keyDb = {}
    /\ mapBitcoinBlockIndex = {BtcStart}
    /\ chainMostWorkBitcoin = BtcStart /\ chainActiveBitcoin = BtcStart
    /\ nHeightBefore = BtcHeight[BtcStart] /\ bFork = FALSE
    /\ cs_main = "none" /\ cs_bestChain = "none"
    /\ pc = [t \in Threads |-> "idle"]
    /\ pblock = [t \in Threads |-> Genesis]

-----------------------------------------------------------------------------
(* Views of the two trees *)

\* CBlockIndexWorkComparator: more work first, then the block that carries a
\* lottery key, then the earlier arrival.
Keyed(x) == LottoKey[x] # NoKey
Better(x, y) ==
    \/ Work[x] > Work[y]
    \/ Work[x] = Work[y] /\ Keyed(x) /\ ~Keyed(y)
    \/ Work[x] = Work[y] /\ (Keyed(x) <=> Keyed(y)) /\ nSequenceId[x] < nSequenceId[y]

\* c is *setBlockIndexValid.rbegin().
Candidate(c) ==
    c \in setBlockIndexValid /\ \A y \in setBlockIndexValid \ {c} : Better(c, y)

\* chainMostWork[chainActive.Height() + 1]
NextBlock == {b \in Chain[chainMostWork] : Height[b] = Height[chainActive] + 1}

\* chainManager.GetBitcoinBlockIndex(h): none or one block.
BtcAt(h) == {x \in BtcChain[chainActiveBitcoin] : BtcHeight[x] = h}
START == BtcHeight[BtcStart]

\* CLottoHeader::GetFirstBitcoinHeight, GetLastBitcoinHeight (0 when the map
\* is empty) and GetLastBitcoinHash.
Heights(b) == {BtcHeight[x] : x \in Embeds[b]}
FirstHeight(b) == CHOOSE h \in Heights(b) : \A g \in Heights(b) : h <= g
LastHeight(b) ==
    IF Embeds[b] = {} THEN 0 ELSE CHOOSE h \in Heights(b) : \A g \in Heights(b) : h >= g
LastHash(b) == {x \in Embeds[b] : BtcHeight[x] = LastHeight(b)}

\* No embedded hash contradicts the Bitcoin chain; a height the Bitcoin chain
\* has not reached yet contradicts nothing.
CheckBTCHashValid(b) ==
    \A x \in Embeds[b] : BtcAt(BtcHeight[x]) \subseteq {x}

\* CheckLottoResult's tests in their order: no Bitcoin hash, or a gap after
\* the last one of the parent; ...
Discontinuous(b) == Embeds[b] = {} \/ FirstHeight(b) - LastHeight(Prev[b]) > 1

\* ... the first height is beyond our Bitcoin chain, or the parent's last hash
\* is neither that block of it nor the one before; ...
Unanchored(b) ==
    /\ FirstHeight(b) # START
    /\ \/ BtcAt(FirstHeight(b)) = {}
       \/ LastHash(Prev[b]) \cap (BtcAt(FirstHeight(b)) \cup BtcAt(FirstHeight(b) - 1)) = {}

\* ... a hash our Bitcoin chain contradicts, or one that does not follow the
\* hash embedded before it; ...
Mismatch(b) ==
    \E x \in Embeds[b] :
       /\ BtcAt(BtcHeight[x]) # {}
       /\ \/ x \notin BtcAt(BtcHeight[x])
          \/ (\E h \in Heights(b) : h < BtcHeight[x]) /\ BtcPrev[x] \notin Embeds[b]

\* mutant: only the first embedded height is looked up
UnreachedFirst(b) == BtcAt(FirstHeight(b)) = {}

\* ... and a hash our Bitcoin chain has not reached.
Unreached(b) == \E x \in Embeds[b] : BtcAt(BtcHeight[x]) = {}

\* "wait" is REJECT_INVALID_LOTTO, a block that cannot be judged yet; "dirty"
\* is REJECT_DIRTY_BLOCK.  Both are rejected with corruption possible.
CheckLottoResult(b) ==
    IF Discontinuous(b) THEN "dirty"
    ELSE IF Unanchored(b) THEN "wait"
    ELSE IF Mismatch(b) THEN "dirty"
    ELSE IF Unreached(b) \/ LottoKey[b] \notin keyDb \cup {NoKey} THEN "wait"
    ELSE IF b \in BadPool THEN "dirty" ELSE "ok"

\* "invalid" is any other rejection: the block breaks a rule for good.
ConnectBlock(b) ==
    IF CheckLottoResult(b) = "ok" /\ b \in BadTx THEN "invalid" ELSE CheckLottoResult(b)

-----------------------------------------------------------------------------
(* Blocks: ProcessBlock, AcceptBlock, AddToBlockIndex, all under cs_main *)

Goto(t, place) == pc' = [pc EXCEPT ![t] = place]

\* The thread has done with its block (its local goes back to a fixed value).
Done(t) == pblock' = [pblock EXCEPT ![t] = Genesis]

\* A block arrives from a peer, or the miner found one on a block it knows.
ProcessBlock(t, b) ==
    /\ t \in {"msg", "miner"} /\ pc[t] = "idle" /\ cs_main = "none"
    /\ b \notin mapBlockIndex \cup mapOrphanBlocks
    /\ t = "miner" => Prev[b] \in mapBlockIndex
    /\ cs_main' = t /\ pblock' = [pblock EXCEPT ![t] = b] /\ Goto(t, "recheck")
    /\ UNCHANGED <<index, chains, keyDb, bitcoin, cs_bestChain>>

ParentKnown(t) == Prev[pblock[t]] \in mapBlockIndex

\* mutant: the orphan pool is never pruned
PruneOrphanBlocksNever == {mapOrphanBlocks}

\* What may be left of the pool: when it is over its limit, a random orphan
\* goes that no other orphan depends on.
PruneOrphanBlocks ==
    IF Cardinality(mapOrphanBlocks) <= nMaxOrphan THEN {mapOrphanBlocks}
    ELSE {mapOrphanBlocks \ {o} : o \in mapOrphanBlocks \ {Prev[p] : p \in mapOrphanBlocks}}

\* The parent is not known: the block joins the orphans.
HoldOrphan(t) ==
    /\ pc[t] = "store" /\ ~ParentKnown(t) /\ pblock[t] \notin Malformed
    /\ \E kept \in PruneOrphanBlocks : mapOrphanBlocks' = kept \cup {pblock[t]}
    /\ Done(t) /\ Goto(t, "resolve")
    /\ UNCHANGED <<mapBlockIndex, nSequenceId, chains, keyDb, bitcoin, cs_main, cs_bestChain>>

\* CheckBlock fails, or AcceptBlock does.
RejectBlock(t) ==
    /\ pc[t] = "store"
    /\ pblock[t] \in Malformed \/ (ParentKnown(t) /\ pblock[t] \in BadHeader)
    /\ Done(t) /\ Goto(t, "resolve")
    /\ UNCHANGED <<index, chains, keyDb, bitcoin, cs_main, cs_bestChain>>

\* AddToBlockIndex up to its call of ActivateBestChain; cs_bestChain is not
\* needed to insert into setBlockIndexValid.
AddToBlockIndex(t) ==
    /\ pc[t] = "store" /\ ParentKnown(t) /\ pblock[t] \notin Malformed \cup BadHeader
    /\ mapBlockIndex' = mapBlockIndex \cup {pblock[t]}
    /\ nSequenceId' = [nSequenceId EXCEPT ![pblock[t]] = Cardinality(mapBlockIndex)]
    /\ setBlockIndexValid' = setBlockIndexValid \cup {pblock[t]}
    /\ Done(t) /\ Goto(t, "lock")
    /\ UNCHANGED <<mapOrphanBlocks, failed, chainMostWork, chainActive, keyDb, bitcoin,
                   cs_main, cs_bestChain>>

\* The end of ProcessBlock: orphans whose parent has arrived go through
\* AcceptBlock, without CheckLastBlockState.
AcceptOrphan(t) ==
    /\ pc[t] = "resolve"
    /\ \E o \in mapOrphanBlocks :
          /\ Prev[o] \in mapBlockIndex
          /\ mapOrphanBlocks' = mapOrphanBlocks \ {o}
          /\ pblock' = [pblock EXCEPT ![t] = o]
    /\ Goto(t, "store")
    /\ UNCHANGED <<mapBlockIndex, nSequenceId, chains, keyDb, bitcoin, cs_main, cs_bestChain>>

EndProcessBlock(t) ==
    /\ pc[t] = "resolve"
    /\ \A o \in mapOrphanBlocks : Prev[o] \notin mapBlockIndex
    /\ cs_main' = "none" /\ Goto(t, "idle")
    /\ UNCHANGED <<index, chains, keyDb, bitcoin, cs_bestChain, pblock>>

-----------------------------------------------------------------------------
(* CheckLastBlockState *)

\* The highest block of b's chain that does not embed Bitcoin height h.
BackPast(b, h) ==
    CHOOSE a \in Chain[b] :
       /\ h \notin Heights(a)
       /\ \A c \in Chain[b] : Height[c] > Height[a] => h \in Heights(c)

\* mutant: only the tip is checked
RecheckStartTip(h) == chainActive

\* Where the check starts: back over the blocks embedding height h, then
\* over those embedding h - 1, for nRecheck heights above START.
RecheckStart(h) ==
    LET back[k \in 0..nRecheck] ==
          IF k = 0 THEN chainActive
          ELSE IF h - k + 1 > START THEN BackPast(back[k - 1], h - k + 1)
          ELSE back[k - 1]
    IN  back[nRecheck]

\* Blocks of the active chain from there on that contradict the Bitcoin chain.
Contradicted(h) ==
    {b \in Chain[chainActive] :
        Height[b] >= Height[RecheckStart(h)] /\ ~CheckBTCHashValid(b)}

\* What the walk over setBlockIndexValid erases for block x: the descendants
\* of x, down from the best candidate to the first that is lower than x.
Erased(x) ==
    LET below == {y \in setBlockIndexValid : Height[y] < Height[x]}
        above == {d \in setBlockIndexValid :
                     x \in Chain[d] /\ \A y \in below : Better(d, y)}
    IN  UNION {Chain[d] \ Chain[x] : d \in above}

\* The lowest contradicted block x and its descendants leave the active chain
\* (x itself stays a candidate).
CheckLastBlockState(h) ==
    \/ (h <= START \/ Contradicted(h) = {}) /\ UNCHANGED chains
    \/ /\ h > START
       /\ \E x \in Contradicted(h) :
             /\ \A c \in Contradicted(h) : Height[x] <= Height[c]
             /\ setBlockIndexValid' = setBlockIndexValid \ Erased(x)
             /\ chainMostWork' = Prev[x] /\ chainActive' = Prev[x]
       /\ UNCHANGED failed

\* ProcessBlock, before it looks at the block itself.
RecheckBlock(t) ==
    /\ pc[t] = "recheck"
    /\ LastHeight(pblock[t]) > START => cs_bestChain = "none"
    /\ CheckLastBlockState(LastHeight(pblock[t]))
    /\ Goto(t, "store")
    /\ UNCHANGED <<index, keyDb, bitcoin, cs_main, cs_bestChain, pblock>>

\* CreateNewBlock, in the miner, with the tip's own last height.
RecheckTip ==
    /\ pc["miner"] = "idle" /\ cs_bestChain = "none"
    /\ LastHeight(chainActive) > START
    /\ CheckLastBlockState(LastHeight(chainActive))
    /\ UNCHANGED <<index, keyDb, bitcoin, threads>>

-----------------------------------------------------------------------------
(* ActivateBestChain, under cs_bestChain *)

Lock(t) ==
    /\ pc[t] = "lock" /\ cs_bestChain = "none"
    /\ cs_bestChain' = t /\ Goto(t, "skip")
    /\ UNCHANGED <<index, chains, keyDb, bitcoin, cs_main, pblock>>

\* FindMostWorkChain's first loop: a failed tip of chainMostWork is dropped.
SkipFailed(t) ==
    /\ pc[t] = "skip"
    /\ IF chainMostWork \in failed
       THEN /\ setBlockIndexValid' = setBlockIndexValid \ {chainMostWork}
            /\ chainMostWork' = Prev[chainMostWork]
            /\ UNCHANGED pc
       ELSE Goto(t, "find") /\ UNCHANGED <<setBlockIndexValid, chainMostWork>>
    /\ UNCHANGED <<index, failed, chainActive, keyDb, bitcoin, cs_main, cs_bestChain, pblock>>

\* Failed blocks between candidate c and the active chain.
FailedOnPath(c) == (Chain[c] \ Chain[chainActive]) \cap failed

\* The best candidate contradicts the Bitcoin chain.
DropContradicted(t) ==
    /\ pc[t] = "find"
    /\ \E c \in setBlockIndexValid :
          /\ Candidate(c) /\ ~CheckBTCHashValid(c)
          /\ setBlockIndexValid' = setBlockIndexValid \ {c}
    /\ UNCHANGED <<index, failed, chainMostWork, chainActive, keyDb, bitcoin, threads>>

\* mutant: the walk goes on below the failed ancestor
AboveFailedAll(c, f) == Chain[c]

\* mutant: the walk starts below the candidate
AboveFailedShort(c, f) == Chain[c] \ (Chain[f] \cup {c})

\* The blocks from candidate c down to its failed ancestor f, without f.
AboveFailed(c, f) == Chain[c] \ Chain[f]

\* The best candidate has a failed ancestor: the blocks above the first one
\* met going down fail too.
DropFailedPath(t) ==
    /\ pc[t] = "find"
    /\ \E c \in setBlockIndexValid : \E f \in FailedOnPath(c) :
          /\ Candidate(c) /\ CheckBTCHashValid(c)
          /\ \A g \in FailedOnPath(c) : Height[g] <= Height[f]
          /\ failed' = failed \cup AboveFailed(c, f)
          /\ setBlockIndexValid' = setBlockIndexValid \ AboveFailed(c, f)
    /\ UNCHANGED <<index, chainMostWork, chainActive, keyDb, bitcoin, threads>>

\* The candidate replaces chainMostWork if it is an improvement.
SetMostWork(t) ==
    /\ pc[t] = "find"
    /\ \E c \in setBlockIndexValid :
          /\ Candidate(c) /\ CheckBTCHashValid(c) /\ FailedOnPath(c) = {}
          /\ chainMostWork' = IF Better(c, chainMostWork) THEN c ELSE chainMostWork
    /\ Goto(t, "switch")
    /\ UNCHANGED <<index, setBlockIndexValid, failed, chainActive, keyDb, bitcoin,
                   cs_main, cs_bestChain, pblock>>

DisconnectTip(t) ==
    /\ pc[t] = "switch" /\ chainActive \notin Chain[chainMostWork]
    /\ chainActive' = Prev[chainActive]
    /\ UNCHANGED <<index, setBlockIndexValid, failed, chainMostWork, keyDb, bitcoin, threads>>

\* ConnectTip of block n, the one above the active tip, returns verdict.
Connecting(t, n, verdict) ==
    /\ pc[t] = "switch" /\ chainActive \in Chain[chainMostWork]
    /\ n \in NextBlock /\ ConnectBlock(n) = verdict

ConnectTip(t) ==
    \E n \in Blocks :
       /\ Connecting(t, n, "ok")
       /\ chainActive' = n
       /\ UNCHANGED <<index, setBlockIndexValid, failed, chainMostWork, keyDb, bitcoin, threads>>

\* InvalidBlockFound; the search starts again.
ConnectInvalid(t) ==
    \E n \in Blocks :
       /\ Connecting(t, n, "invalid")
       /\ failed' = failed \cup {n} /\ setBlockIndexValid' = setBlockIndexValid \ {n}
       /\ Goto(t, "skip")
       /\ UNCHANGED <<index, chainMostWork, chainActive, keyDb, bitcoin,
                      cs_main, cs_bestChain, pblock>>

\* A dirty block: only the block itself is erased, and the search starts again.
ConnectDirty(t) ==
    \E n \in Blocks :
       /\ Connecting(t, n, "dirty")
       /\ chainMostWork' = Prev[n] /\ setBlockIndexValid' = setBlockIndexValid \ {n}
       /\ Goto(t, "skip")
       /\ UNCHANGED <<index, failed, chainActive, keyDb, bitcoin, cs_main, cs_bestChain, pblock>>

\* ActivateBestChain returns: everything is connected, or the next block
\* cannot be judged yet.
Unlock(t) ==
    /\ pc[t] = "switch"
    /\ chainActive = chainMostWork \/ \E n \in Blocks : Connecting(t, n, "wait")
    /\ cs_bestChain' = "none"
    /\ Goto(t, IF cs_main = t THEN "resolve" ELSE "idle")
    /\ UNCHANGED <<index, chains, keyDb, bitcoin, cs_main, pblock>>

-----------------------------------------------------------------------------
(* Lottery keys and Bitcoin headers *)

\* The "lotterykey" message: the key is stored whether it is new or not.
LotteryKey(k) ==
    /\ pc["msg"] = "idle"
    /\ keyDb' = keyDb \cup {k} /\ Goto("msg", "lock")
    /\ UNCHANGED <<index, chains, bitcoin, cs_main, cs_bestChain, pblock>>

\* CChainManager::AddBitcoinHeader starts on a batch of headers.
AddBitcoinHeader ==
    /\ pc["btc"] = "idle"
    /\ nHeightBefore' = BtcHeight[chainActiveBitcoin] /\ Goto("btc", "headers")
    /\ UNCHANGED <<index, chains, keyDb, mapBitcoinBlockIndex, chainMostWorkBitcoin,
                   chainActiveBitcoin, bFork, cs_main, cs_bestChain, pblock>>

\* ProcessBitcoinHeader up to ConnectBestBlock: no header ever fails, so only
\* the new one can have more work than the tip of chainMostWorkBitcoin.
ProcessBitcoinHeader(x) ==
    /\ pc["btc"] = "headers" /\ chainActiveBitcoin = chainMostWorkBitcoin
    /\ x \notin mapBitcoinBlockIndex /\ BtcPrev[x] \in mapBitcoinBlockIndex
    /\ mapBitcoinBlockIndex' = mapBitcoinBlockIndex \cup {x}
    /\ chainMostWorkBitcoin' =
          IF BtcWork[x] > BtcWork[chainMostWorkBitcoin] THEN x ELSE chainMostWorkBitcoin
    /\ UNCHANGED <<index, chains, keyDb, chainActiveBitcoin, nHeightBefore, bFork, threads>>

\* ConnectBestBlock moves chainActiveBitcoin one block at a time.
DisconnectBitcoinTip ==
    /\ pc["btc"] = "headers" /\ chainActiveBitcoin \notin BtcChain[chainMostWorkBitcoin]
    /\ chainActiveBitcoin' = BtcPrev[chainActiveBitcoin] /\ bFork' = TRUE
    /\ UNCHANGED <<index, chains, keyDb, mapBitcoinBlockIndex, chainMostWorkBitcoin,
                   nHeightBefore, threads>>

ConnectBitcoinTip ==
    /\ pc["btc"] = "headers" /\ chainActiveBitcoin # chainMostWorkBitcoin
    /\ chainActiveBitcoin \in BtcChain[chainMostWorkBitcoin]
    /\ chainActiveBitcoin' \in {x \in BtcChain[chainMostWorkBitcoin] :
                                   BtcHeight[x] = BtcHeight[chainActiveBitcoin] + 1}
    /\ UNCHANGED <<index, chains, keyDb, mapBitcoinBlockIndex, chainMostWorkBitcoin,
                   nHeightBefore, bFork, threads>>

\* mutant: off by one
GrewByTwo == BtcHeight[chainActiveBitcoin] > nHeightBefore + 1

\* chainActiveBitcoin.Height() > nHeight
Grew == BtcHeight[chainActiveBitcoin] > nHeightBefore

\* The end of the batch: ActivateBestChain if the Bitcoin chain has grown.
EndBitcoinHeaders ==
    /\ pc["btc"] = "headers" /\ chainActiveBitcoin = chainMostWorkBitcoin
    /\ Goto("btc", IF Grew THEN "lock" ELSE "idle")
    /\ nHeightBefore' = START
    /\ UNCHANGED <<index, chains, keyDb, mapBitcoinBlockIndex, chainMostWorkBitcoin,
                   chainActiveBitcoin, bFork, cs_main, cs_bestChain, pblock>>

-----------------------------------------------------------------------------

\* One iteration of ActivateBestChain by the thread that holds cs_bestChain.
ActivateStep(t) ==
    \/ SkipFailed(t) \/ DropContradicted(t) \/ DropFailedPath(t) \/ SetMostWork(t)
    \/ DisconnectTip(t) \/ ConnectTip(t) \/ ConnectInvalid(t) \/ ConnectDirty(t)
    \/ Unlock(t)

Next ==
    \/ \E t \in Threads :
          \/ \E b \in Blocks \ {Genesis} : ProcessBlock(t, b)
          \/ RecheckBlock(t) \/ HoldOrphan(t) \/ RejectBlock(t) \/ AddToBlockIndex(t)
          \/ AcceptOrphan(t) \/ EndProcessBlock(t) \/ Lock(t) \/ ActivateStep(t)
    \/ RecheckTip
    \/ \E k \in Keys : LotteryKey(k)
    \/ AddBitcoinHeader
    \/ \E x \in BtcBlocks \ {BtcStart} : ProcessBitcoinHeader(x)
    \/ DisconnectBitcoinTip \/ ConnectBitcoinTip \/ EndBitcoinHeaders

Spec == Init /\ [][Next]_vars

\* The thread inside ActivateBestChain is scheduled.
LiveSpec == Spec /\ \A t \in Threads : WF_vars(ActivateStep(t))

-----------------------------------------------------------------------------
(* Properties *)

Places == {"idle", "recheck", "store", "resolve", "lock", "skip", "find", "switch", "headers"}

\* Every variable holds a value of its kind, and the chains' tips, the
\* candidates and the failed blocks are blocks of mapBlockIndex: no pointer of
\* main.cpp's globals leads out of the block index.
TypeOK ==
    /\ mapBlockIndex \subseteq Blocks /\ Genesis \in mapBlockIndex
    /\ nSequenceId \in [Blocks -> Nat]
    /\ mapOrphanBlocks \subseteq Blocks \ {Genesis}
    /\ setBlockIndexValid \subseteq mapBlockIndex /\ failed \subseteq mapBlockIndex
    /\ chainMostWork \in mapBlockIndex /\ chainActive \in mapBlockIndex
    /\ keyDb \subseteq Keys
    /\ mapBitcoinBlockIndex \subseteq BtcBlocks
    /\ chainMostWorkBitcoin \in mapBitcoinBlockIndex
    /\ chainActiveBitcoin \in mapBitcoinBlockIndex
    /\ nHeightBefore \in Nat /\ bFork \in BOOLEAN
    /\ cs_main \in {"none"} \cup Threads /\ cs_bestChain \in {"none"} \cup Threads
    /\ pc \in [Threads -> Places]
    /\ pblock \in [Threads -> Blocks]

\* A failed block is never on the active chain and never a candidate, whatever
\* the other threads insert while FindMostWorkChain walks.  A failed candidate
\* would stop FindMostWorkChain from ever returning: it erases only the blocks
\* between the candidate and its failed ancestor.  Genesis is never erased, so
\* there always is a candidate, as CheckLastBlockState assumes when it
\* dereferences the set's iterator after an erase.
FailedStayOut ==
    /\ setBlockIndexValid \cap failed = {}
    /\ Chain[chainActive] \cap failed = {}
    /\ Genesis \in setBlockIndexValid

\* As long as the Bitcoin chain has never been reorganised, every Bitcoin hash
\* embedded in the active chain is in our Bitcoin chain: ConnectTip judges a
\* block against a Bitcoin chain that the Bitcoin thread may be extending, and
\* connects none that is ahead of it.
AgreesWithBitcoin ==
    ~bFork => \A b \in Chain[chainActive] : Embeds[b] \subseteq BtcChain[chainActiveBitcoin]

AtRest == \A t \in Threads : pc[t] = "idle"

\* When every thread is at rest, and the Bitcoin chain was never reorganised,
\* chainMostWork is the best candidate, and if the active chain has not reached
\* it the next block really cannot be judged yet.  So no candidate, Bitcoin
\* block or key that arrives while another thread is inside ActivateBestChain
\* is missed.
NothingMissed ==
    AtRest /\ ~bFork =>
       /\ \A c \in setBlockIndexValid : ~Better(c, chainMostWork)
       /\ chainActive \in Chain[chainMostWork]
       /\ \A n \in NextBlock : ConnectBlock(n) = "wait"

\* The orphan pool never exceeds its limit by more than one, and outside
\* ProcessBlock it holds no block whose parent is known.  PruneOrphanBlocks runs
\* before the insertion and only when the pool is over the limit already, so
\* nMaxOrphan + 1 blocks are kept, one more than main.h calls the maximum.
OrphansWait ==
    /\ Cardinality(mapOrphanBlocks) <= nMaxOrphan + 1
    /\ cs_main = "none" => \A o \in mapOrphanBlocks : Prev[o] \notin mapBlockIndex

\* After CreateNewBlock's CheckLastBlockState no block of the active chain that
\* embeds one of the last nRecheck Bitcoin heights contradicts the Bitcoin
\* chain, so the miner builds on none.
MinerBuildsOnAgreed ==
    [][RecheckTip =>
         \A b \in Chain[chainActive'] :
            (\E h \in Heights(b) : h > LastHeight(chainActive) - nRecheck /\ h > START)
               => CheckBTCHashValid(b)]_vars

\* A call of ActivateBestChain returns.
ActivationReturns == \A t \in Threads : cs_bestChain = t ~> cs_bestChain # t
=============================================================================
