------------------------- MODULE DualChain_proofs -------------------------
(***************************************************************************)
(* Proofs about DualChain, for every pair of trees: the block index is     *)
(* closed, a failed block never returns, and the active chain agrees with  *)
(* a Bitcoin chain that was never reorganised.                             *)
(***************************************************************************)
EXTENDS DualChain, FiniteSetTheorems, WellFoundedInduction, TLAPS

\* The two indexes hold the ancestors of what they hold.
Closed ==
    /\ \A b \in mapBlockIndex : Chain[b] \subseteq mapBlockIndex
    /\ \A x \in mapBitcoinBlockIndex : BtcChain[x] \subseteq mapBitcoinBlockIndex

\* What cs_main protects: one thread processes a block, and that block is new.
Processing ==
    /\ mapOrphanBlocks \cap mapBlockIndex = {}
    /\ \A t \in Threads : pc[t] \in {"recheck", "store", "resolve"} => cs_main = t
    /\ \A t \in Threads : pc[t] \in {"recheck", "store"} =>
          /\ pblock[t] # Genesis
          /\ pblock[t] \notin mapBlockIndex \cup mapOrphanBlocks

\* A failed block descends from a block with a bad transaction, and the active
\* chain has none.
Rooted ==
    /\ \A f \in failed : Chain[f] \cap BadTx # {}
    /\ Chain[chainActive] \cap BadTx = {}
    /\ setBlockIndexValid \cap failed = {}
    /\ Genesis \in setBlockIndexValid

IInv == TypeOK /\ Closed /\ Processing /\ Rooted /\ AgreesWithBitcoin

-----------------------------------------------------------------------------
(* Facts about the trees *)

\* Genesis embeds the first Bitcoin block, which is on every Bitcoin chain.
LEMMA GenesisAgrees ==
    ASSUME TypeOK PROVE CheckBTCHashValid(Genesis)
<1>1. Embeds[Genesis] = {BtcStart}
  BY DualChainAssumption
<1>2. BtcAt(BtcHeight[BtcStart]) \subseteq {BtcStart}
  BY DualChainAssumption DEF TypeOK, BtcAt
<1> QED
  BY <1>1, <1>2 DEF CheckBTCHashValid

\* A block is on its own chain, and so are its parent and the parent's chain.
LEMMA OwnChain ==
    /\ \A b \in Blocks : b \in Chain[b] /\ Chain[b] \subseteq Blocks
    /\ \A b \in Blocks \ {Genesis} :
          /\ Prev[b] \in Blocks /\ Prev[b] \in Chain[b]
          /\ Chain[b] = Chain[Prev[b]] \cup {b}
<1>1. \A b \in Blocks : b \in Chain[b] /\ Chain[b] \subseteq Blocks
  BY DualChainAssumption
<1>2. \A b \in Blocks \ {Genesis} : Prev[b] \in Blocks /\ Chain[b] = Chain[Prev[b]] \cup {b}
  BY DualChainAssumption
<1> QED
  BY <1>1, <1>2

\* The same for the Bitcoin chain.
LEMMA OwnBtcChain ==
    /\ \A x \in BtcBlocks : x \in BtcChain[x]
    /\ \A x \in BtcBlocks \ {BtcStart} :
          /\ BtcPrev[x] \in BtcBlocks /\ BtcPrev[x] \in BtcChain[x]
          /\ BtcChain[x] = BtcChain[BtcPrev[x]] \cup {x}
<1>1. \A x \in BtcBlocks : x \in BtcChain[x]
  BY DualChainAssumption
<1>2. \A x \in BtcBlocks \ {BtcStart} :
         BtcPrev[x] \in BtcBlocks /\ BtcChain[x] = BtcChain[BtcPrev[x]] \cup {x}
  BY DualChainAssumption
<1> QED
  BY <1>1, <1>2

\* A higher block of one Bitcoin chain has the lower one's chain in its own.
LEMMA BtcChainGrows ==
    ASSUME NEW m \in BtcBlocks, NEW x \in BtcChain[m], NEW a \in BtcChain[m],
           BtcHeight[x] = BtcHeight[a] + 1
    PROVE  BtcChain[a] \subseteq BtcChain[x]
<1>1. x \in BtcBlocks /\ a \in BtcBlocks
  BY DualChainAssumption
<1>2. BtcHeight[x] \in Nat /\ BtcHeight[a] \in Nat
  BY <1>1, DualChainAssumption
<1>3. BtcHeight[a] <= BtcHeight[x] => a \in BtcChain[x]
  BY DualChainAssumption
<1>4. a \in BtcChain[x]
  BY <1>2, <1>3
<1> QED
  BY <1>1, <1>4, DualChainAssumption

\* The block above the active tip on chainMostWork has the tip for parent.
LEMMA NextBlockParent ==
    ASSUME TypeOK, chainActive \in Chain[chainMostWork], NEW n \in NextBlock
    PROVE  /\ n \in Blocks \ {Genesis} /\ n \in Chain[chainMostWork]
           /\ Prev[n] = chainActive
           /\ Chain[n] = Chain[chainActive] \cup {n}
<1>1. /\ chainMostWork \in Blocks /\ chainActive \in Blocks
      /\ n \in Chain[chainMostWork] /\ Height[n] = Height[chainActive] + 1
  BY DEF TypeOK, NextBlock
<1>2. n \in Blocks /\ n # Genesis
  BY <1>1, DualChainAssumption
<1>3. Prev[n] \in Chain[n] /\ Height[Prev[n]] = Height[chainActive]
  <2>1. /\ Height[n] = Height[Prev[n]] + 1 /\ Height[chainActive] \in Nat
        /\ Height[Prev[n]] \in Nat
    BY <1>1, <1>2, DualChainAssumption
  <2> QED
    BY <1>1, <1>2, <2>1, OwnChain
<1>4. Prev[n] \in Chain[chainMostWork]
  BY <1>1, <1>2, <1>3, DualChainAssumption
<1>5. Prev[n] = chainActive
  BY <1>1, <1>3, <1>4, DualChainAssumption
<1> QED
  BY <1>1, <1>2, <1>5, DualChainAssumption

\* A block that connects embeds only hashes of our Bitcoin chain, and has no
\* bad transaction.
LEMMA ConnectedAgrees ==
    ASSUME TypeOK, NEW n \in Blocks, ConnectBlock(n) = "ok"
    PROVE  n \notin BadTx /\ Embeds[n] \subseteq BtcChain[chainActiveBitcoin]
<1>1. CheckLottoResult(n) = "ok" /\ n \notin BadTx
  BY DEF ConnectBlock
<1>2. ~Mismatch(n) /\ ~Unreached(n)
  BY <1>1 DEF CheckLottoResult
<1>3. ASSUME NEW x \in Embeds[n] PROVE x \in BtcChain[chainActiveBitcoin]
  BY <1>2 DEF Mismatch, Unreached, BtcAt
<1> QED
  BY <1>1, <1>3

\* CheckLastBlockState only shortens the active chain and only erases
\* candidates, never genesis.
LEMMA RecheckShortens ==
    ASSUME TypeOK, Closed, Rooted, NEW h, CheckLastBlockState(h)
    PROVE  /\ chainActive' \in mapBlockIndex /\ chainMostWork' \in mapBlockIndex
           /\ Chain[chainActive'] \subseteq Chain[chainActive]
           /\ setBlockIndexValid' \subseteq setBlockIndexValid
           /\ Genesis \in setBlockIndexValid'
           /\ failed' = failed
<1>1. CASE UNCHANGED chains
  BY <1>1, DualChainAssumption DEF chains, TypeOK, Rooted
<1>2. CASE \E x \in Contradicted(h) :
             /\ setBlockIndexValid' = setBlockIndexValid \ Erased(x)
             /\ chainMostWork' = Prev[x] /\ chainActive' = Prev[x]
             /\ UNCHANGED failed
  <2>1. PICK x \in Contradicted(h) :
             /\ setBlockIndexValid' = setBlockIndexValid \ Erased(x)
             /\ chainMostWork' = Prev[x] /\ chainActive' = Prev[x]
             /\ UNCHANGED failed
    BY <1>2
  <2>2. x \in Chain[chainActive] /\ ~CheckBTCHashValid(x)
    BY DEF Contradicted
  <2>3. x \in Blocks \ {Genesis}
    BY <2>2, GenesisAgrees, OwnChain DEF TypeOK
  <2>4. /\ Chain[x] \subseteq Chain[chainActive] /\ Chain[chainActive] \subseteq mapBlockIndex
        /\ Prev[x] \in Chain[x] /\ Chain[Prev[x]] \subseteq Chain[x]
    BY <2>2, <2>3, OwnChain, DualChainAssumption DEF TypeOK, Closed
  <2>5. Genesis \notin Erased(x)
    BY <2>3, DualChainAssumption DEF Erased
  <2> QED
    BY <2>1, <2>4, <2>5 DEF Rooted
<1> QED
  BY <1>1, <1>2 DEF CheckLastBlockState

\* The block ConnectTip works on is accepted, and its parent is the tip.
LEMMA ConnectingNext ==
    ASSUME TypeOK, Closed, NEW t \in Threads, NEW n \in Blocks, NEW v, Connecting(t, n, v)
    PROVE  /\ n \in mapBlockIndex \ {Genesis} /\ Prev[n] = chainActive
           /\ Chain[n] = Chain[chainActive] \cup {n}
<1>1. n \in NextBlock /\ chainActive \in Chain[chainMostWork]
  BY DEF Connecting
<1>2. Chain[chainMostWork] \subseteq mapBlockIndex
  BY DEF TypeOK, Closed
<1> QED
  BY <1>1, <1>2, NextBlockParent

-----------------------------------------------------------------------------
(* The inductive invariant *)

\* Every step preserves IInv.
LEMMA Step ==
    ASSUME IInv, [Next]_vars PROVE IInv'
<1> USE DEF IInv
<1>1. ASSUME NEW t \in Threads, NEW b \in Blocks \ {Genesis}, ProcessBlock(t, b) PROVE IInv'
  <2>1. TypeOK'
    BY <1>1 DEF ProcessBlock, Goto, TypeOK, Places, Threads, index, chains, bitcoin, threads
  <2>2. Processing'
    BY <1>1 DEF ProcessBlock, Goto, Processing, TypeOK, Threads, index, chains, bitcoin, threads
  <2>3. Closed' /\ Rooted' /\ AgreesWithBitcoin'
    BY <1>1 DEF ProcessBlock, Closed, Rooted, AgreesWithBitcoin, TypeOK, index, chains, bitcoin, threads
  <2> QED
    BY <2>1, <2>2, <2>3
<1>2. ASSUME NEW t \in Threads, RecheckBlock(t) PROVE IInv'
  <2>1. /\ chainActive' \in mapBlockIndex /\ chainMostWork' \in mapBlockIndex
        /\ Chain[chainActive'] \subseteq Chain[chainActive]
        /\ setBlockIndexValid' \subseteq setBlockIndexValid
        /\ Genesis \in setBlockIndexValid'
        /\ failed' = failed
    BY <1>2, RecheckShortens DEF RecheckBlock
  <2>2. TypeOK'
    BY <1>2, <2>1 DEF RecheckBlock, Goto, TypeOK, Places, Threads, index, chains, bitcoin, threads
  <2>3. Processing'
    BY <1>2, <2>1 DEF RecheckBlock, Goto, Processing, TypeOK, Threads, index, chains, bitcoin, threads
  <2>4. Rooted'
    BY <1>2, <2>1 DEF RecheckBlock, Goto, Rooted, TypeOK, index, chains, bitcoin, threads
  <2>5. AgreesWithBitcoin'
    BY <1>2, <2>1 DEF RecheckBlock, Goto, AgreesWithBitcoin, TypeOK, index, chains, bitcoin, threads
  <2>6. Closed'
    BY <1>2 DEF RecheckBlock, Closed, TypeOK, index, chains, bitcoin, threads
  <2> QED
    BY <2>2, <2>3, <2>4, <2>5, <2>6
<1>3. ASSUME NEW t \in Threads, HoldOrphan(t) PROVE IInv'
  <2>1. /\ pblock[t] \in Blocks \ {Genesis} /\ pblock[t] \notin mapBlockIndex
        /\ mapOrphanBlocks' \subseteq mapOrphanBlocks \cup {pblock[t]}
    BY <1>3 DEF HoldOrphan, PruneOrphanBlocks, Processing, TypeOK
  <2>2. TypeOK'
    BY <1>3, <2>1 DEF HoldOrphan, Goto, Done, PruneOrphanBlocks, TypeOK, Places, Threads, index, chains, bitcoin, threads
  <2>3. Processing'
    BY <1>3, <2>1 DEF HoldOrphan, Goto, Done, PruneOrphanBlocks, Processing, TypeOK, Threads, index, chains, bitcoin, threads
  <2>4. Closed' /\ Rooted' /\ AgreesWithBitcoin'
    BY <1>3 DEF HoldOrphan, Closed, Rooted, AgreesWithBitcoin, TypeOK, index, chains, bitcoin, threads
  <2> QED
    BY <2>2, <2>3, <2>4
<1>4. ASSUME NEW t \in Threads, RejectBlock(t) PROVE IInv'
  <2>1. TypeOK'
    BY <1>4 DEF RejectBlock, Goto, Done, TypeOK, Places, Threads, index, chains, bitcoin, threads
  <2>2. Processing'
    BY <1>4 DEF RejectBlock, Goto, Done, Processing, TypeOK, Threads, index, chains, bitcoin, threads
  <2>3. Closed' /\ Rooted' /\ AgreesWithBitcoin'
    BY <1>4 DEF RejectBlock, Closed, Rooted, AgreesWithBitcoin, TypeOK, index, chains, bitcoin, threads
  <2> QED
    BY <2>1, <2>2, <2>3
<1>5. ASSUME NEW t \in Threads, AddToBlockIndex(t) PROVE IInv'
  <2>1. Cardinality(mapBlockIndex) \in Nat
    BY FS_Subset, FS_CardinalityType, DualChainAssumption DEF TypeOK
  <2>2. /\ pblock[t] \in Blocks \ {Genesis} /\ pblock[t] \notin failed
        /\ Chain[pblock[t]] = Chain[Prev[pblock[t]]] \cup {pblock[t]}
        /\ Prev[pblock[t]] \in mapBlockIndex
    BY <1>5, OwnChain DEF AddToBlockIndex, ParentKnown, Processing, TypeOK
  <2>3. TypeOK'
    BY <1>5, <2>1, <2>2 DEF AddToBlockIndex, Goto, Done, ParentKnown, TypeOK, Places, Threads, index, chains, bitcoin, threads
  <2>4. Closed'
    BY <1>5, <2>1, <2>2 DEF AddToBlockIndex, Goto, Done, ParentKnown, Closed, TypeOK, index, chains, bitcoin, threads
  <2>5. Processing'
    BY <1>5, <2>1, <2>2 DEF AddToBlockIndex, Goto, Done, ParentKnown, Processing, TypeOK, Threads, index, chains, bitcoin, threads
  <2>6. Rooted'
    BY <1>5, <2>1, <2>2 DEF AddToBlockIndex, Goto, Done, ParentKnown, Rooted, TypeOK, index, chains, bitcoin, threads
  <2>7. AgreesWithBitcoin'
    BY <1>5 DEF AddToBlockIndex, AgreesWithBitcoin, TypeOK, index, chains, bitcoin, threads
  <2> QED
    BY <2>3, <2>4, <2>5, <2>6, <2>7
<1>6. ASSUME NEW t \in Threads, AcceptOrphan(t) PROVE IInv'
  <2>1. TypeOK'
    BY <1>6 DEF AcceptOrphan, Goto, TypeOK, Places, Threads, index, chains, bitcoin, threads
  <2>2. Processing'
    BY <1>6 DEF AcceptOrphan, Goto, Processing, TypeOK, Threads, index, chains, bitcoin, threads
  <2>3. Closed' /\ Rooted' /\ AgreesWithBitcoin'
    BY <1>6 DEF AcceptOrphan, Closed, Rooted, AgreesWithBitcoin, TypeOK, index, chains, bitcoin, threads
  <2> QED
    BY <2>1, <2>2, <2>3
<1>7. ASSUME NEW t \in Threads, EndProcessBlock(t) PROVE IInv'
  <2>1. TypeOK'
    BY <1>7 DEF EndProcessBlock, Goto, TypeOK, Places, Threads, index, chains, bitcoin, threads
  <2>2. Processing'
    BY <1>7 DEF EndProcessBlock, Goto, Processing, TypeOK, Threads, index, chains, bitcoin, threads
  <2>3. Closed' /\ Rooted' /\ AgreesWithBitcoin'
    BY <1>7 DEF EndProcessBlock, Closed, Rooted, AgreesWithBitcoin, TypeOK, index, chains, bitcoin, threads
  <2> QED
    BY <2>1, <2>2, <2>3
<1>8. ASSUME NEW t \in Threads, Lock(t) PROVE IInv'
  <2>1. TypeOK'
    BY <1>8 DEF Lock, Goto, TypeOK, Places, Threads, index, chains, bitcoin, threads
  <2>2. Processing'
    BY <1>8 DEF Lock, Goto, Processing, TypeOK, Threads, index, chains, bitcoin, threads
  <2>3. Closed' /\ Rooted' /\ AgreesWithBitcoin'
    BY <1>8 DEF Lock, Closed, Rooted, AgreesWithBitcoin, TypeOK, index, chains, bitcoin, threads
  <2> QED
    BY <2>1, <2>2, <2>3
<1>9. ASSUME NEW t \in Threads, SkipFailed(t) PROVE IInv'
  <2>1. Genesis \notin failed
    BY DualChainAssumption DEF Rooted
  <2>2. chainMostWork' \in mapBlockIndex
    BY <1>9, <2>1, OwnChain DEF SkipFailed, TypeOK, Closed
  <2>3. TypeOK'
    BY <1>9, <2>1, <2>2 DEF SkipFailed, Goto, TypeOK, Places, Threads, index, chains, bitcoin, threads
  <2>4. Processing'
    BY <1>9, <2>1, <2>2 DEF SkipFailed, Goto, Processing, TypeOK, Threads, index, chains, bitcoin, threads
  <2>5. Rooted'
    BY <1>9, <2>1, <2>2 DEF SkipFailed, Goto, Rooted, TypeOK, index, chains, bitcoin, threads
  <2>6. Closed' /\ AgreesWithBitcoin'
    BY <1>9 DEF SkipFailed, Closed, AgreesWithBitcoin, TypeOK, index, chains, bitcoin, threads
  <2> QED
    BY <2>3, <2>4, <2>5, <2>6
<1>10. ASSUME NEW t \in Threads, DropContradicted(t) PROVE IInv'
  <2>1. Genesis \notin setBlockIndexValid \ setBlockIndexValid'
    BY <1>10, GenesisAgrees DEF DropContradicted
  <2>2. TypeOK'
    BY <1>10, <2>1 DEF DropContradicted, TypeOK, Places, Threads, index, chains, bitcoin, threads
  <2>3. Rooted'
    BY <1>10, <2>1 DEF DropContradicted, Rooted, TypeOK, index, chains, bitcoin, threads
  <2>4. Closed' /\ Processing' /\ AgreesWithBitcoin'
    BY <1>10 DEF DropContradicted, Closed, Processing, AgreesWithBitcoin, TypeOK, Threads, index, chains, bitcoin, threads
  <2> QED
    BY <2>2, <2>3, <2>4
<1>11. ASSUME NEW t \in Threads, DropFailedPath(t) PROVE IInv'
  <2>1. PICK c \in setBlockIndexValid : \E f \in FailedOnPath(c) :
          /\ failed' = failed \cup AboveFailed(c, f)
          /\ setBlockIndexValid' = setBlockIndexValid \ AboveFailed(c, f)
    BY <1>11 DEF DropFailedPath
  <2>2. PICK f \in FailedOnPath(c) :
          /\ failed' = failed \cup AboveFailed(c, f)
          /\ setBlockIndexValid' = setBlockIndexValid \ AboveFailed(c, f)
    BY <2>1
  <2>3. c \in Blocks /\ f \in Chain[c] /\ f \in failed /\ Chain[f] \cap BadTx # {}
    BY <2>1, OwnChain DEF FailedOnPath, TypeOK, Rooted
  <2>4. \A b \in AboveFailed(c, f) : b \in mapBlockIndex /\ b # Genesis /\ Chain[f] \subseteq Chain[b]
    BY <2>1, <2>3, OwnChain, DualChainAssumption DEF AboveFailed, TypeOK, Closed
  <2>5. TypeOK'
    BY <1>11, <2>1, <2>2, <2>3, <2>4 DEF DropFailedPath, TypeOK, Places, Threads, index, chains, bitcoin, threads
  <2>6. Rooted'
    BY <1>11, <2>1, <2>2, <2>3, <2>4 DEF DropFailedPath, Rooted, TypeOK, index, chains, bitcoin, threads
  <2>7. Closed' /\ Processing' /\ AgreesWithBitcoin'
    BY <1>11 DEF DropFailedPath, Closed, Processing, AgreesWithBitcoin, TypeOK, Threads, index, chains, bitcoin, threads
  <2> QED
    BY <2>5, <2>6, <2>7
<1>12. ASSUME NEW t \in Threads, SetMostWork(t) PROVE IInv'
  <2>1. TypeOK'
    BY <1>12 DEF SetMostWork, Goto, TypeOK, Places, Threads, index, chains, bitcoin, threads
  <2>2. Processing'
    BY <1>12 DEF SetMostWork, Goto, Processing, TypeOK, Threads, index, chains, bitcoin, threads
  <2>3. Closed' /\ Rooted' /\ AgreesWithBitcoin'
    BY <1>12 DEF SetMostWork, Closed, Rooted, AgreesWithBitcoin, TypeOK, index, chains, bitcoin, threads
  <2> QED
    BY <2>1, <2>2, <2>3
<1>13. ASSUME NEW t \in Threads, DisconnectTip(t) PROVE IInv'
  <2>1. chainActive \in Blocks \ {Genesis}
    BY <1>13, DualChainAssumption DEF DisconnectTip, TypeOK
  <2>2. chainActive' \in mapBlockIndex /\ Chain[chainActive'] \subseteq Chain[chainActive]
    BY <1>13, <2>1, OwnChain DEF DisconnectTip, TypeOK, Closed
  <2>3. TypeOK'
    BY <1>13, <2>1, <2>2 DEF DisconnectTip, TypeOK, Places, Threads, index, chains, bitcoin, threads
  <2>4. Rooted'
    BY <1>13, <2>1, <2>2 DEF DisconnectTip, Rooted, TypeOK, index, chains, bitcoin, threads
  <2>5. AgreesWithBitcoin'
    BY <1>13, <2>1, <2>2 DEF DisconnectTip, AgreesWithBitcoin, TypeOK, index, chains, bitcoin, threads
  <2>6. Closed' /\ Processing'
    BY <1>13 DEF DisconnectTip, Closed, Processing, TypeOK, Threads, index, chains, bitcoin, threads
  <2> QED
    BY <2>3, <2>4, <2>5, <2>6
<1>14. ASSUME NEW t \in Threads, ConnectTip(t) PROVE IInv'
  <2>1. PICK n \in Blocks : /\ Connecting(t, n, "ok")
                          /\ chainActive' = n
    BY <1>14 DEF ConnectTip
  <2>2. /\ n \in mapBlockIndex \ {Genesis} /\ Prev[n] = chainActive
        /\ Chain[n] = Chain[chainActive] \cup {n} /\ ConnectBlock(n) = "ok"
    BY <2>1, ConnectingNext DEF Connecting
  <2>3. n \notin BadTx /\ Embeds[n] \subseteq BtcChain[chainActiveBitcoin]
    BY <2>2, ConnectedAgrees
  <2>4. TypeOK'
    BY <1>14, <2>1, <2>2, <2>3 DEF ConnectTip, TypeOK, Places, Threads, index, chains, bitcoin, threads
  <2>5. Rooted'
    BY <1>14, <2>1, <2>2, <2>3 DEF ConnectTip, Rooted, TypeOK, index, chains, bitcoin, threads
  <2>6. AgreesWithBitcoin'
    BY <1>14, <2>1, <2>2, <2>3 DEF ConnectTip, AgreesWithBitcoin, TypeOK, index, chains, bitcoin, threads
  <2>7. Closed' /\ Processing'
    BY <1>14 DEF ConnectTip, Closed, Processing, TypeOK, Threads, index, chains, bitcoin, threads
  <2> QED
    BY <2>4, <2>5, <2>6, <2>7
<1>15. ASSUME NEW t \in Threads, ConnectInvalid(t) PROVE IInv'
  <2>1. PICK n \in Blocks : /\ Connecting(t, n, "invalid")
                          /\ failed' = failed \cup {n} /\ setBlockIndexValid' = setBlockIndexValid \ {n}
    BY <1>15 DEF ConnectInvalid
  <2>2. /\ n \in mapBlockIndex \ {Genesis} /\ Prev[n] = chainActive
        /\ Chain[n] = Chain[chainActive] \cup {n} /\ ConnectBlock(n) = "invalid"
    BY <2>1, ConnectingNext DEF Connecting
  <2>3. n \in BadTx
    BY <2>2 DEF ConnectBlock, CheckLottoResult
  <2>4. TypeOK'
    BY <1>15, <2>1, <2>2, <2>3 DEF ConnectInvalid, Goto, TypeOK, Places, Threads, index, chains, bitcoin, threads
  <2>5. Processing'
    BY <1>15, <2>1, <2>2, <2>3 DEF ConnectInvalid, Goto, Processing, TypeOK, Threads, index, chains, bitcoin, threads
  <2>6. Rooted'
    BY <1>15, <2>1, <2>2, <2>3 DEF ConnectInvalid, Goto, Rooted, TypeOK, index, chains, bitcoin, threads
  <2>7. Closed' /\ AgreesWithBitcoin'
    BY <1>15 DEF ConnectInvalid, Closed, AgreesWithBitcoin, TypeOK, index, chains, bitcoin, threads
  <2> QED
    BY <2>4, <2>5, <2>6, <2>7
<1>16. ASSUME NEW t \in Threads, ConnectDirty(t) PROVE IInv'
  <2>1. PICK n \in Blocks : /\ Connecting(t, n, "dirty")
                          /\ chainMostWork' = Prev[n] /\ setBlockIndexValid' = setBlockIndexValid \ {n}
    BY <1>16 DEF ConnectDirty
  <2>2. /\ n \in mapBlockIndex \ {Genesis} /\ Prev[n] = chainActive
        /\ Chain[n] = Chain[chainActive] \cup {n} /\ ConnectBlock(n) = "dirty"
    BY <2>1, ConnectingNext DEF Connecting
  <2>3. TypeOK'
    BY <1>16, <2>1, <2>2 DEF ConnectDirty, Goto, TypeOK, Places, Threads, index, chains, bitcoin, threads
  <2>4. Processing'
    BY <1>16, <2>1, <2>2 DEF ConnectDirty, Goto, Processing, TypeOK, Threads, index, chains, bitcoin, threads
  <2>5. Rooted'
    BY <1>16, <2>1, <2>2 DEF ConnectDirty, Goto, Rooted, TypeOK, index, chains, bitcoin, threads
  <2>6. Closed' /\ AgreesWithBitcoin'
    BY <1>16 DEF ConnectDirty, Closed, AgreesWithBitcoin, TypeOK, index, chains, bitcoin, threads
  <2> QED
    BY <2>3, <2>4, <2>5, <2>6
<1>17. ASSUME NEW t \in Threads, Unlock(t) PROVE IInv'
  <2>1. TypeOK'
    BY <1>17 DEF Unlock, Goto, TypeOK, Places, Threads, index, chains, bitcoin, threads
  <2>2. Processing'
    BY <1>17 DEF Unlock, Goto, Processing, TypeOK, Threads, index, chains, bitcoin, threads
  <2>3. Closed' /\ Rooted' /\ AgreesWithBitcoin'
    BY <1>17 DEF Unlock, Closed, Rooted, AgreesWithBitcoin, TypeOK, index, chains, bitcoin, threads
  <2> QED
    BY <2>1, <2>2, <2>3
<1>18. ASSUME RecheckTip PROVE IInv'
  <2>1. /\ chainActive' \in mapBlockIndex /\ chainMostWork' \in mapBlockIndex
        /\ Chain[chainActive'] \subseteq Chain[chainActive]
        /\ setBlockIndexValid' \subseteq setBlockIndexValid
        /\ Genesis \in setBlockIndexValid'
        /\ failed' = failed
    BY <1>18, RecheckShortens DEF RecheckTip
  <2>2. TypeOK'
    BY <1>18, <2>1 DEF RecheckTip, TypeOK, Places, Threads, index, chains, bitcoin, threads
  <2>3. Rooted'
    BY <1>18, <2>1 DEF RecheckTip, Rooted, TypeOK, index, chains, bitcoin, threads
  <2>4. AgreesWithBitcoin'
    BY <1>18, <2>1 DEF RecheckTip, AgreesWithBitcoin, TypeOK, index, chains, bitcoin, threads
  <2>5. Closed' /\ Processing'
    BY <1>18 DEF RecheckTip, Closed, Processing, TypeOK, Threads, index, chains, bitcoin, threads
  <2> QED
    BY <2>2, <2>3, <2>4, <2>5
<1>19. ASSUME NEW k \in Keys, LotteryKey(k) PROVE IInv'
  <2>1. TypeOK'
    BY <1>19 DEF LotteryKey, Goto, TypeOK, Places, Threads, index, chains, bitcoin, threads
  <2>2. Processing'
    BY <1>19 DEF LotteryKey, Goto, Processing, TypeOK, Threads, index, chains, bitcoin, threads
  <2>3. Closed' /\ Rooted' /\ AgreesWithBitcoin'
    BY <1>19 DEF LotteryKey, Closed, Rooted, AgreesWithBitcoin, TypeOK, index, chains, bitcoin, threads
  <2> QED
    BY <2>1, <2>2, <2>3
<1>20. ASSUME AddBitcoinHeader PROVE IInv'
  <2>1. TypeOK'
    BY <1>20, DualChainAssumption DEF AddBitcoinHeader, Goto, TypeOK, Places, Threads, index, chains, bitcoin, threads
  <2>2. Processing'
    BY <1>20 DEF AddBitcoinHeader, Goto, Processing, TypeOK, Threads, index, chains, bitcoin, threads
  <2>3. Closed' /\ Rooted' /\ AgreesWithBitcoin'
    BY <1>20 DEF AddBitcoinHeader, Closed, Rooted, AgreesWithBitcoin, TypeOK, index, chains, bitcoin, threads
  <2> QED
    BY <2>1, <2>2, <2>3
<1>21. ASSUME NEW x \in BtcBlocks \ {BtcStart}, ProcessBitcoinHeader(x) PROVE IInv'
  <2>1. TypeOK'
    BY <1>21 DEF ProcessBitcoinHeader, TypeOK, Places, Threads, index, chains, bitcoin, threads
  <2>2. Closed'
    BY <1>21, DualChainAssumption DEF ProcessBitcoinHeader, Closed, TypeOK, index, chains, bitcoin, threads
  <2>3. Processing' /\ Rooted' /\ AgreesWithBitcoin'
    BY <1>21 DEF ProcessBitcoinHeader, Processing, Rooted, AgreesWithBitcoin, TypeOK, Threads, index, chains, bitcoin, threads
  <2> QED
    BY <2>1, <2>2, <2>3
<1>22. ASSUME DisconnectBitcoinTip PROVE IInv'
  <2>1. chainActiveBitcoin \in BtcBlocks /\ chainActiveBitcoin # BtcStart
    BY <1>22, DualChainAssumption DEF DisconnectBitcoinTip, TypeOK
  <2>2. chainActiveBitcoin' \in mapBitcoinBlockIndex
    BY <1>22, <2>1, OwnBtcChain DEF DisconnectBitcoinTip, TypeOK, Closed
  <2>3. TypeOK'
    BY <1>22, <2>1, <2>2 DEF DisconnectBitcoinTip, TypeOK, Places, Threads, index, chains, bitcoin, threads
  <2>4. AgreesWithBitcoin'
    BY <1>22, <2>1, <2>2 DEF DisconnectBitcoinTip, AgreesWithBitcoin, TypeOK, index, chains, bitcoin, threads
  <2>5. Closed' /\ Processing' /\ Rooted'
    BY <1>22 DEF DisconnectBitcoinTip, Closed, Processing, Rooted, TypeOK, Threads, index, chains, bitcoin, threads
  <2> QED
    BY <2>3, <2>4, <2>5
<1>23. ASSUME ConnectBitcoinTip PROVE IInv'
  <2>1. chainActiveBitcoin' \in mapBitcoinBlockIndex
    BY <1>23 DEF ConnectBitcoinTip, TypeOK, Closed
  <2>2. TypeOK'
    BY <1>23, <2>1 DEF ConnectBitcoinTip, TypeOK, Places, Threads, index, chains, bitcoin, threads
  <2>3. BtcChain[chainActiveBitcoin] \subseteq BtcChain[chainActiveBitcoin']
    BY <1>23, BtcChainGrows DEF ConnectBitcoinTip, TypeOK
  <2>5. AgreesWithBitcoin'
    BY <1>23, <2>3 DEF ConnectBitcoinTip, AgreesWithBitcoin, TypeOK, index, chains, bitcoin, threads
  <2>4. Closed' /\ Processing' /\ Rooted'
    BY <1>23 DEF ConnectBitcoinTip, Closed, Processing, Rooted, TypeOK, Threads, index, chains, bitcoin, threads
  <2> QED
    BY <2>2, <2>4, <2>5
<1>24. ASSUME EndBitcoinHeaders PROVE IInv'
  <2>1. START \in Nat
    BY DualChainAssumption DEF START
  <2>2. TypeOK'
    BY <1>24, <2>1 DEF EndBitcoinHeaders, Goto, TypeOK, Places, Threads, index, chains, bitcoin, threads
  <2>3. Processing'
    BY <1>24, <2>1 DEF EndBitcoinHeaders, Goto, Processing, TypeOK, Threads, index, chains, bitcoin, threads
  <2>4. Closed' /\ Rooted' /\ AgreesWithBitcoin'
    BY <1>24 DEF EndBitcoinHeaders, Closed, Rooted, AgreesWithBitcoin, TypeOK, index, chains, bitcoin, threads
  <2> QED
    BY <2>2, <2>3, <2>4
<1>25. ASSUME UNCHANGED vars PROVE IInv'
  BY <1>25 DEF TypeOK, Closed, Processing, Rooted, AgreesWithBitcoin, vars, index, chains, bitcoin, threads
<1> QED
  BY <1>1, <1>2, <1>3, <1>4, <1>5, <1>6, <1>7, <1>8, <1>9, <1>10, <1>11, <1>12, <1>13, <1>14, <1>15, <1>16, <1>17, <1>18, <1>19, <1>20, <1>21, <1>22, <1>23, <1>24, <1>25 DEF Next, ActivateStep

\* IInv holds initially.
LEMMA Start ==
    ASSUME Init PROVE IInv
<1>1. TypeOK
  <2>1. bFork \in BOOLEAN
    BY DEF Init
  <2> QED
    BY <2>1, DualChainAssumption DEF Init, TypeOK, Places, Threads
<1>2. Closed /\ Rooted /\ AgreesWithBitcoin
  BY DualChainAssumption DEF Init, Closed, Rooted, AgreesWithBitcoin
<1>3. Processing
  BY DEF Init, Processing
<1> QED
  BY <1>1, <1>2, <1>3 DEF IInv

\* No pointer leads out of the block index, a failed block neither is a
\* candidate nor returns to the active chain, and the active chain agrees with
\* a Bitcoin chain that was never reorganised: for all trees of blocks and of
\* Bitcoin headers, and whatever the three threads do.
THEOREM ChainSafe == Spec => [](TypeOK /\ FailedStayOut /\ AgreesWithBitcoin)
<1>1. Init => IInv
  BY Start
<1>2. IInv /\ [Next]_vars => IInv'
  BY Step
<1>3. IInv => TypeOK /\ FailedStayOut /\ AgreesWithBitcoin
  <2>1. ASSUME IInv, NEW f \in failed PROVE f \notin Chain[chainActive]
    BY <2>1, DualChainAssumption DEF IInv, TypeOK, Rooted
  <2> QED
    BY <2>1 DEF IInv, Rooted, FailedStayOut
<1> QED
  BY <1>1, <1>2, <1>3, PTL DEF Spec

-----------------------------------------------------------------------------
(* Nothing is missed *)

\* A thread is going to look for the best candidate, ...
Searching == \E t \in Threads : pc[t] \in {"lock", "skip", "find"}

\* ... or is moving the active chain, ...
Switching == \E t \in Threads : pc[t] = "switch"

\* ... or the Bitcoin thread is going to call ActivateBestChain.
WillActivate == pc["btc"] = "headers" /\ Grew

\* As long as the Bitcoin chain only grows, chainMostWork is the best
\* candidate unless a search is due, and the active chain has gone as far along
\* it as it can unless a thread is due to move it.
Settled ==
    ~bFork =>
       /\ pc["btc"] = "headers" => BtcHeight[chainActiveBitcoin] >= nHeightBefore
       /\ ~Searching => \A c \in setBlockIndexValid : ~Better(c, chainMostWork)
       /\ ~Searching /\ ~Switching /\ ~WillActivate =>
             /\ chainActive \in Chain[chainMostWork]
             /\ \A n \in NextBlock : ConnectBlock(n) = "wait"

\* An agreeing active chain gives CheckLastBlockState nothing to do.
LEMMA RecheckIdle ==
    ASSUME IInv, ~bFork, NEW h, CheckLastBlockState(h)
    PROVE  UNCHANGED chains
<1>1. ASSUME NEW b \in Chain[chainActive] PROVE CheckBTCHashValid(b)
  <2>1. Embeds[b] \subseteq BtcChain[chainActiveBitcoin] /\ chainActiveBitcoin \in BtcBlocks
    BY DEF IInv, AgreesWithBitcoin, TypeOK
  <2>2. ASSUME NEW x \in Embeds[b], NEW y \in BtcAt(BtcHeight[x]) PROVE y = x
    BY <2>1, DualChainAssumption DEF BtcAt
  <2> QED
    BY <2>2 DEF CheckBTCHashValid
<1>2. Contradicted(h) = {}
  BY <1>1 DEF Contradicted
<1> QED
  BY <1>2 DEF CheckLastBlockState

\* The candidate order is a strict order.
LEMMA BetterOrder ==
    ASSUME TypeOK, NEW x \in Blocks, NEW y \in Blocks, NEW z \in Blocks
    PROVE  /\ ~Better(x, x)
           /\ Better(x, y) => ~Better(y, x)
           /\ Better(x, y) /\ Better(y, z) => Better(x, z)
<1>1. /\ Work[x] \in Nat /\ Work[y] \in Nat /\ Work[z] \in Nat
      /\ nSequenceId[x] \in Nat /\ nSequenceId[y] \in Nat /\ nSequenceId[z] \in Nat
  BY DualChainAssumption DEF TypeOK
<1> QED
  BY <1>1 DEF Better, Keyed

\* The verdict on a block depends on the Bitcoin chain and the keys alone.
LEMMA VerdictFrame ==
    ASSUME NEW n, UNCHANGED <<keyDb, chainActiveBitcoin>>
    PROVE  ConnectBlock(n)' = ConnectBlock(n)
<1>1. \A h : BtcAt(h)' = BtcAt(h)
  BY DEF BtcAt
<1>2. /\ Unanchored(n)' <=> Unanchored(n)
      /\ Mismatch(n)' <=> Mismatch(n)
      /\ Unreached(n)' <=> Unreached(n)
  BY <1>1 DEF Unanchored, Mismatch, Unreached
<1>3. CheckLottoResult(n)' = CheckLottoResult(n)
  BY <1>2 DEF CheckLottoResult, Discontinuous
<1> QED
  BY <1>3 DEF ConnectBlock

\* A step that leaves the chains, the keys and the Bitcoin chain alone, and
\* takes back no call that is due, preserves Settled.
LEMMA SettledFrame ==
    ASSUME Settled, ~bFork,
           UNCHANGED <<nSequenceId, setBlockIndexValid, chainMostWork, chainActive,
                       keyDb, chainActiveBitcoin>>,
           Searching => Searching', Switching => Switching',
           WillActivate => WillActivate' \/ Searching',
           pc'["btc"] = "headers" => BtcHeight[chainActiveBitcoin'] >= nHeightBefore'
    PROVE  Settled'
<1>1. ~Searching' => \A c \in setBlockIndexValid' : ~Better(c, chainMostWork)'
  BY DEF Settled, Better
<1>2. ASSUME ~Searching', ~Switching', ~WillActivate'
      PROVE  /\ chainActive' \in Chain[chainMostWork']
             /\ \A n \in NextBlock' : ConnectBlock(n)' = "wait"
  <2>1. /\ chainActive \in Chain[chainMostWork]
        /\ \A n \in NextBlock : ConnectBlock(n) = "wait"
    BY <1>2 DEF Settled
  <2>2. NextBlock' = NextBlock
    BY DEF NextBlock
  <2> QED
    BY <2>1, <2>2, VerdictFrame
<1> QED
  BY <1>1, <1>2 DEF Settled

\* Every step preserves Settled.
LEMMA SettledStep ==
    ASSUME IInv, Settled, [Next]_vars PROVE Settled'
<1> SUFFICES ASSUME ~bFork' PROVE Settled'
  BY DEF Settled
<1> USE DEF IInv
<1>1. ASSUME NEW t \in Threads, AddToBlockIndex(t) PROVE Settled'
  <2>1. Searching'
    BY <1>1 DEF AddToBlockIndex, Goto, Searching, TypeOK, threads
  <2>2. pc'["btc"] = "headers" => BtcHeight[chainActiveBitcoin'] >= nHeightBefore'
    BY <1>1 DEF AddToBlockIndex, Goto, Settled, TypeOK, Threads, bitcoin, threads
  <2> QED
    BY <2>1, <2>2 DEF Settled
<1>2. ASSUME NEW t \in Threads, Lock(t) PROVE Settled'
  <2>1. Searching'
    BY <1>2 DEF Lock, Goto, Searching, TypeOK, threads
  <2>2. pc'["btc"] = "headers" => BtcHeight[chainActiveBitcoin'] >= nHeightBefore'
    BY <1>2 DEF Lock, Goto, Settled, TypeOK, Threads, bitcoin, threads
  <2> QED
    BY <2>1, <2>2 DEF Settled
<1>3. ASSUME NEW t \in Threads, SkipFailed(t) PROVE Settled'
  <2>1. Searching'
    BY <1>3 DEF SkipFailed, Goto, Searching, TypeOK, threads
  <2>2. pc'["btc"] = "headers" => BtcHeight[chainActiveBitcoin'] >= nHeightBefore'
    BY <1>3 DEF SkipFailed, Goto, Settled, TypeOK, Threads, bitcoin, threads
  <2> QED
    BY <2>1, <2>2 DEF Settled
<1>4. ASSUME NEW t \in Threads, DropContradicted(t) PROVE Settled'
  <2>1. Searching'
    BY <1>4 DEF DropContradicted, Searching, TypeOK, threads
  <2>2. pc'["btc"] = "headers" => BtcHeight[chainActiveBitcoin'] >= nHeightBefore'
    BY <1>4 DEF DropContradicted, Settled, TypeOK, Threads, bitcoin, threads
  <2> QED
    BY <2>1, <2>2 DEF Settled
<1>5. ASSUME NEW t \in Threads, DropFailedPath(t) PROVE Settled'
  <2>1. Searching'
    BY <1>5 DEF DropFailedPath, Searching, TypeOK, threads
  <2>2. pc'["btc"] = "headers" => BtcHeight[chainActiveBitcoin'] >= nHeightBefore'
    BY <1>5 DEF DropFailedPath, Settled, TypeOK, Threads, bitcoin, threads
  <2> QED
    BY <2>1, <2>2 DEF Settled
<1>6. ASSUME NEW t \in Threads, ConnectInvalid(t) PROVE Settled'
  <2>1. Searching'
    BY <1>6 DEF ConnectInvalid, Goto, Searching, TypeOK, threads
  <2>2. pc'["btc"] = "headers" => BtcHeight[chainActiveBitcoin'] >= nHeightBefore'
    BY <1>6 DEF ConnectInvalid, Goto, Settled, TypeOK, Threads, bitcoin, threads
  <2> QED
    BY <2>1, <2>2 DEF Settled
<1>7. ASSUME NEW t \in Threads, ConnectDirty(t) PROVE Settled'
  <2>1. Searching'
    BY <1>7 DEF ConnectDirty, Goto, Searching, TypeOK, threads
  <2>2. pc'["btc"] = "headers" => BtcHeight[chainActiveBitcoin'] >= nHeightBefore'
    BY <1>7 DEF ConnectDirty, Goto, Settled, TypeOK, Threads, bitcoin, threads
  <2> QED
    BY <2>1, <2>2 DEF Settled
<1>8. ASSUME NEW k \in Keys, LotteryKey(k) PROVE Settled'
  <2>1. Searching'
    BY <1>8 DEF LotteryKey, Goto, Searching, TypeOK, Threads, threads
  <2>2. pc'["btc"] = "headers" => BtcHeight[chainActiveBitcoin'] >= nHeightBefore'
    BY <1>8 DEF LotteryKey, Goto, Settled, TypeOK, Threads, bitcoin, threads
  <2> QED
    BY <2>1, <2>2 DEF Settled
<1>9. ASSUME NEW t \in Threads, NEW b \in Blocks \ {Genesis}, ProcessBlock(t, b) PROVE Settled'
  <2>1. UNCHANGED <<nSequenceId, setBlockIndexValid, chainMostWork, chainActive, keyDb, chainActiveBitcoin>>
    BY <1>9 DEF ProcessBlock, index, chains, bitcoin, threads
  <2>2. (Searching => Searching') /\ (Switching => Switching')
    BY <1>9 DEF ProcessBlock, Goto, Searching, Switching, TypeOK, threads
  <2>3. WillActivate => WillActivate' \/ Searching'
    BY <1>9 DEF ProcessBlock, Goto, WillActivate, Grew, Searching, TypeOK, Threads, bitcoin, threads
  <2>4. pc'["btc"] = "headers" => BtcHeight[chainActiveBitcoin'] >= nHeightBefore'
    BY <1>9 DEF ProcessBlock, Goto, Settled, TypeOK, Threads, bitcoin, threads
  <2> QED
    BY <1>9, <2>1, <2>2, <2>3, <2>4, SettledFrame DEF ProcessBlock, bitcoin
<1>10. ASSUME NEW t \in Threads, HoldOrphan(t) PROVE Settled'
  <2>1. UNCHANGED <<nSequenceId, setBlockIndexValid, chainMostWork, chainActive, keyDb, chainActiveBitcoin>>
    BY <1>10 DEF HoldOrphan, index, chains, bitcoin, threads
  <2>2. (Searching => Searching') /\ (Switching => Switching')
    BY <1>10 DEF HoldOrphan, Goto, Searching, Switching, TypeOK, threads
  <2>3. WillActivate => WillActivate' \/ Searching'
    BY <1>10 DEF HoldOrphan, Goto, WillActivate, Grew, Searching, TypeOK, Threads, bitcoin, threads
  <2>4. pc'["btc"] = "headers" => BtcHeight[chainActiveBitcoin'] >= nHeightBefore'
    BY <1>10 DEF HoldOrphan, Goto, Settled, TypeOK, Threads, bitcoin, threads
  <2> QED
    BY <1>10, <2>1, <2>2, <2>3, <2>4, SettledFrame DEF HoldOrphan, bitcoin
<1>11. ASSUME NEW t \in Threads, RejectBlock(t) PROVE Settled'
  <2>1. UNCHANGED <<nSequenceId, setBlockIndexValid, chainMostWork, chainActive, keyDb, chainActiveBitcoin>>
    BY <1>11 DEF RejectBlock, index, chains, bitcoin, threads
  <2>2. (Searching => Searching') /\ (Switching => Switching')
    BY <1>11 DEF RejectBlock, Goto, Searching, Switching, TypeOK, threads
  <2>3. WillActivate => WillActivate' \/ Searching'
    BY <1>11 DEF RejectBlock, Goto, WillActivate, Grew, Searching, TypeOK, Threads, bitcoin, threads
  <2>4. pc'["btc"] = "headers" => BtcHeight[chainActiveBitcoin'] >= nHeightBefore'
    BY <1>11 DEF RejectBlock, Goto, Settled, TypeOK, Threads, bitcoin, threads
  <2> QED
    BY <1>11, <2>1, <2>2, <2>3, <2>4, SettledFrame DEF RejectBlock, bitcoin
<1>12. ASSUME NEW t \in Threads, AcceptOrphan(t) PROVE Settled'
  <2>1. UNCHANGED <<nSequenceId, setBlockIndexValid, chainMostWork, chainActive, keyDb, chainActiveBitcoin>>
    BY <1>12 DEF AcceptOrphan, index, chains, bitcoin, threads
  <2>2. (Searching => Searching') /\ (Switching => Switching')
    BY <1>12 DEF AcceptOrphan, Goto, Searching, Switching, TypeOK, threads
  <2>3. WillActivate => WillActivate' \/ Searching'
    BY <1>12 DEF AcceptOrphan, Goto, WillActivate, Grew, Searching, TypeOK, Threads, bitcoin, threads
  <2>4. pc'["btc"] = "headers" => BtcHeight[chainActiveBitcoin'] >= nHeightBefore'
    BY <1>12 DEF AcceptOrphan, Goto, Settled, TypeOK, Threads, bitcoin, threads
  <2> QED
    BY <1>12, <2>1, <2>2, <2>3, <2>4, SettledFrame DEF AcceptOrphan, bitcoin
<1>13. ASSUME NEW t \in Threads, EndProcessBlock(t) PROVE Settled'
  <2>1. UNCHANGED <<nSequenceId, setBlockIndexValid, chainMostWork, chainActive, keyDb, chainActiveBitcoin>>
    BY <1>13 DEF EndProcessBlock, index, chains, bitcoin, threads
  <2>2. (Searching => Searching') /\ (Switching => Switching')
    BY <1>13 DEF EndProcessBlock, Goto, Searching, Switching, TypeOK, threads
  <2>3. WillActivate => WillActivate' \/ Searching'
    BY <1>13 DEF EndProcessBlock, Goto, WillActivate, Grew, Searching, TypeOK, Threads, bitcoin, threads
  <2>4. pc'["btc"] = "headers" => BtcHeight[chainActiveBitcoin'] >= nHeightBefore'
    BY <1>13 DEF EndProcessBlock, Goto, Settled, TypeOK, Threads, bitcoin, threads
  <2> QED
    BY <1>13, <2>1, <2>2, <2>3, <2>4, SettledFrame DEF EndProcessBlock, bitcoin
<1>14. ASSUME AddBitcoinHeader PROVE Settled'
  <2>1. UNCHANGED <<nSequenceId, setBlockIndexValid, chainMostWork, chainActive, keyDb, chainActiveBitcoin>>
    BY <1>14 DEF AddBitcoinHeader, index, chains, bitcoin, threads
  <2>2. (Searching => Searching') /\ (Switching => Switching')
    BY <1>14 DEF AddBitcoinHeader, Goto, Searching, Switching, TypeOK, threads
  <2>3. WillActivate => WillActivate' \/ Searching'
    BY <1>14 DEF AddBitcoinHeader, Goto, WillActivate, Grew, Searching, TypeOK, Threads, bitcoin, threads
  <2>4. pc'["btc"] = "headers" => BtcHeight[chainActiveBitcoin'] >= nHeightBefore'
    BY <1>14, DualChainAssumption DEF AddBitcoinHeader, Goto, Settled, TypeOK, Threads, bitcoin, threads
  <2> QED
    BY <1>14, <2>1, <2>2, <2>3, <2>4, SettledFrame DEF AddBitcoinHeader, bitcoin
<1>15. ASSUME NEW x \in BtcBlocks \ {BtcStart}, ProcessBitcoinHeader(x) PROVE Settled'
  <2>1. UNCHANGED <<nSequenceId, setBlockIndexValid, chainMostWork, chainActive, keyDb, chainActiveBitcoin>>
    BY <1>15 DEF ProcessBitcoinHeader, index, chains, bitcoin, threads
  <2>2. (Searching => Searching') /\ (Switching => Switching')
    BY <1>15 DEF ProcessBitcoinHeader, Searching, Switching, TypeOK, threads
  <2>3. WillActivate => WillActivate' \/ Searching'
    BY <1>15 DEF ProcessBitcoinHeader, WillActivate, Grew, Searching, TypeOK, Threads, bitcoin, threads
  <2>4. pc'["btc"] = "headers" => BtcHeight[chainActiveBitcoin'] >= nHeightBefore'
    BY <1>15 DEF ProcessBitcoinHeader, Settled, TypeOK, Threads, bitcoin, threads
  <2> QED
    BY <1>15, <2>1, <2>2, <2>3, <2>4, SettledFrame DEF ProcessBitcoinHeader, bitcoin
<1>16. ASSUME EndBitcoinHeaders PROVE Settled'
  <2>1. UNCHANGED <<nSequenceId, setBlockIndexValid, chainMostWork, chainActive, keyDb, chainActiveBitcoin>>
    BY <1>16 DEF EndBitcoinHeaders, index, chains, bitcoin, threads
  <2>2. (Searching => Searching') /\ (Switching => Switching')
    BY <1>16 DEF EndBitcoinHeaders, Goto, Searching, Switching, TypeOK, threads
  <2>3. WillActivate => WillActivate' \/ Searching'
    BY <1>16 DEF EndBitcoinHeaders, Goto, WillActivate, Grew, Searching, TypeOK, Threads, bitcoin, threads
  <2>4. pc'["btc"] = "headers" => BtcHeight[chainActiveBitcoin'] >= nHeightBefore'
    BY <1>16 DEF EndBitcoinHeaders, Goto, Settled, TypeOK, Threads, bitcoin, threads
  <2> QED
    BY <1>16, <2>1, <2>2, <2>3, <2>4, SettledFrame DEF EndBitcoinHeaders, bitcoin
<1>17. ASSUME NEW t \in Threads, RecheckBlock(t) PROVE Settled'
  <2>0. UNCHANGED chains
    BY <1>17, RecheckIdle DEF RecheckBlock, bitcoin
  <2>1. UNCHANGED <<nSequenceId, setBlockIndexValid, chainMostWork, chainActive, keyDb, chainActiveBitcoin>>
    BY <1>17, <2>0 DEF RecheckBlock, index, chains, bitcoin, threads
  <2>2. (Searching => Searching') /\ (Switching => Switching')
    BY <1>17 DEF RecheckBlock, Goto, Searching, Switching, TypeOK, threads
  <2>3. WillActivate => WillActivate' \/ Searching'
    BY <1>17 DEF RecheckBlock, Goto, WillActivate, Grew, Searching, TypeOK, Threads, bitcoin, threads
  <2>4. pc'["btc"] = "headers" => BtcHeight[chainActiveBitcoin'] >= nHeightBefore'
    BY <1>17 DEF RecheckBlock, Goto, Settled, TypeOK, Threads, bitcoin, threads
  <2> QED
    BY <1>17, <2>1, <2>2, <2>3, <2>4, SettledFrame DEF RecheckBlock, bitcoin
<1>18. ASSUME RecheckTip PROVE Settled'
  <2>0. UNCHANGED chains
    BY <1>18, RecheckIdle DEF RecheckTip, bitcoin
  <2>1. UNCHANGED <<nSequenceId, setBlockIndexValid, chainMostWork, chainActive, keyDb, chainActiveBitcoin>>
    BY <1>18, <2>0 DEF RecheckTip, index, chains, bitcoin, threads
  <2>2. (Searching => Searching') /\ (Switching => Switching')
    BY <1>18 DEF RecheckTip, Searching, Switching, TypeOK, threads
  <2>3. WillActivate => WillActivate' \/ Searching'
    BY <1>18 DEF RecheckTip, WillActivate, Grew, Searching, TypeOK, Threads, bitcoin, threads
  <2>4. pc'["btc"] = "headers" => BtcHeight[chainActiveBitcoin'] >= nHeightBefore'
    BY <1>18 DEF RecheckTip, Settled, TypeOK, Threads, bitcoin, threads
  <2> QED
    BY <1>18, <2>1, <2>2, <2>3, <2>4, SettledFrame DEF RecheckTip, bitcoin
<1>19. ASSUME NEW t \in Threads, SetMostWork(t) PROVE Settled'
  <2>1. Switching' /\ pc' = [pc EXCEPT ![t] = "switch"]
    BY <1>19 DEF SetMostWork, Goto, Switching, TypeOK
  <2>2. ASSUME NEW y \in setBlockIndexValid PROVE ~Better(y, chainMostWork')
    <3>1. PICK c \in setBlockIndexValid :
             /\ Candidate(c)
             /\ chainMostWork' = IF Better(c, chainMostWork) THEN c ELSE chainMostWork
      BY <1>19 DEF SetMostWork
    <3>2. c \in Blocks /\ y \in Blocks /\ chainMostWork \in Blocks
      BY DEF TypeOK
    <3>3. y = c \/ Better(c, y)
      BY <3>1 DEF Candidate
    <3> QED
      BY <3>1, <3>2, <3>3, BetterOrder
  <2>3. \A c \in setBlockIndexValid' : ~Better(c, chainMostWork)'
    BY <1>19, <2>2 DEF SetMostWork, Better, index
  <2>4. pc'["btc"] = "headers" => BtcHeight[chainActiveBitcoin'] >= nHeightBefore'
    BY <1>19, <2>1 DEF SetMostWork, Settled, TypeOK, Threads, bitcoin
  <2> QED
    BY <2>1, <2>3, <2>4 DEF Settled
<1>20. ASSUME NEW t \in Threads, DisconnectTip(t) \/ ConnectTip(t) PROVE Settled'
  <2>1. /\ pc[t] = "switch"
        /\ UNCHANGED <<index, setBlockIndexValid, failed, chainMostWork, keyDb, bitcoin, threads>>
    BY <1>20 DEF DisconnectTip, ConnectTip, Connecting
  <2>2. Switching' /\ (Searching => Searching')
    BY <2>1 DEF Switching, Searching, threads
  <2>3. ~Searching' => \A c \in setBlockIndexValid' : ~Better(c, chainMostWork)'
    BY <2>1, <2>2 DEF Settled, Better, index, bitcoin
  <2>4. pc'["btc"] = "headers" => BtcHeight[chainActiveBitcoin'] >= nHeightBefore'
    BY <2>1 DEF Settled, bitcoin, threads
  <2> QED
    BY <2>2, <2>3, <2>4 DEF Settled
<1>21. ASSUME NEW t \in Threads, Unlock(t) PROVE Settled'
  <2>1. UNCHANGED <<nSequenceId, setBlockIndexValid, chainMostWork, chainActive, keyDb, chainActiveBitcoin>>
    BY <1>21 DEF Unlock, index, chains, bitcoin
  <2>2. Searching => Searching'
    BY <1>21 DEF Unlock, Goto, Searching, TypeOK
  <2>3. ~Searching' => \A c \in setBlockIndexValid' : ~Better(c, chainMostWork)'
    BY <1>21, <2>1, <2>2 DEF Unlock, Settled, Better, bitcoin
  <2>4. pc'["btc"] = "headers" => BtcHeight[chainActiveBitcoin'] >= nHeightBefore'
    BY <1>21 DEF Unlock, Goto, Settled, TypeOK, Threads, bitcoin
  <2>5. chainActive \in Chain[chainMostWork] /\ \A n \in NextBlock : ConnectBlock(n) = "wait"
    <3>1. CASE chainActive = chainMostWork
      <4>1. NextBlock = {}
        BY <3>1, DualChainAssumption DEF NextBlock, TypeOK
      <4> QED
        BY <3>1, <4>1, OwnChain DEF TypeOK
    <3>2. CASE \E n \in Blocks : Connecting(t, n, "wait")
      <4>1. PICK n \in Blocks : Connecting(t, n, "wait")
        BY <3>2
      <4>2. \A m \in NextBlock : m = n
        BY <4>1, DualChainAssumption DEF Connecting, NextBlock, TypeOK
      <4> QED
        BY <4>1, <4>2 DEF Connecting
    <3> QED
      BY <1>21, <3>1, <3>2 DEF Unlock
  <2>6. NextBlock' = NextBlock
    BY <2>1 DEF NextBlock
  <2>7. chainActive' \in Chain[chainMostWork'] /\ \A n \in NextBlock' : ConnectBlock(n)' = "wait"
    BY <2>1, <2>5, <2>6, VerdictFrame
  <2> QED
    BY <2>3, <2>4, <2>7 DEF Settled
<1>22. ASSUME DisconnectBitcoinTip PROVE Settled'
  BY <1>22 DEF DisconnectBitcoinTip
<1>23. ASSUME ConnectBitcoinTip PROVE Settled'
  <2>1. /\ BtcHeight[chainActiveBitcoin'] = BtcHeight[chainActiveBitcoin] + 1
        /\ pc["btc"] = "headers" /\ ~bFork
        /\ UNCHANGED <<index, chains, nHeightBefore, threads>>
    BY <1>23 DEF ConnectBitcoinTip
  <2>2. /\ BtcHeight[chainActiveBitcoin] >= nHeightBefore
        /\ BtcHeight[chainActiveBitcoin] \in Nat /\ nHeightBefore \in Nat
    BY <2>1, DualChainAssumption DEF Settled, TypeOK
  <2>3. WillActivate' /\ BtcHeight[chainActiveBitcoin'] >= nHeightBefore'
    BY <2>1, <2>2 DEF WillActivate, Grew, threads
  <2>4. ~Searching' => \A c \in setBlockIndexValid' : ~Better(c, chainMostWork)'
    BY <2>1 DEF Settled, Searching, Better, index, chains, threads
  <2> QED
    BY <2>3, <2>4 DEF Settled
<1>24. ASSUME UNCHANGED vars PROVE Settled'
  <2>1. UNCHANGED <<nSequenceId, setBlockIndexValid, chainMostWork, chainActive, keyDb, chainActiveBitcoin>>
    BY <1>24 DEF vars, index, chains, bitcoin
  <2>2. /\ (Searching => Searching') /\ (Switching => Switching')
        /\ (WillActivate => WillActivate' \/ Searching')
    BY <1>24 DEF vars, Searching, Switching, WillActivate, Grew, bitcoin, threads
  <2>3. pc'["btc"] = "headers" => BtcHeight[chainActiveBitcoin'] >= nHeightBefore'
    BY <1>24 DEF Settled, vars, bitcoin, threads
  <2> QED
    BY <1>24, <2>1, <2>2, <2>3, SettledFrame DEF vars, bitcoin
<1> QED
  BY <1>1, <1>2, <1>3, <1>4, <1>5, <1>6, <1>7, <1>8, <1>9, <1>10, <1>11, <1>12, <1>13, <1>14,
     <1>15, <1>16, <1>17, <1>18, <1>19, <1>20, <1>21, <1>22, <1>23, <1>24 DEF Next, ActivateStep

\* When all threads are at rest, and the Bitcoin chain was never reorganised,
\* the active chain has gone as far towards the best candidate as it can: no
\* block, Bitcoin header or key is missed, whatever thread it arrives on.
THEOREM RestIsSettled == Spec => []NothingMissed
<1>1. Init => IInv /\ Settled
  <2>1. ASSUME Init PROVE Settled
    <3>1. ~Better(Genesis, Genesis)
      BY <2>1, Start, BetterOrder, DualChainAssumption DEF IInv
    <3>2. NextBlock = {} /\ chainActive \in Chain[chainMostWork]
      BY <2>1, DualChainAssumption DEF Init, NextBlock
    <3> QED
      BY <2>1, <3>1, <3>2 DEF Init, Settled, Threads
  <2> QED
    BY <2>1, Start
<1>2. IInv /\ Settled /\ [Next]_vars => IInv' /\ Settled'
  BY Step, SettledStep
<1>3. IInv /\ Settled => NothingMissed
  BY DEF Settled, NothingMissed, AtRest, Searching, Switching, WillActivate, Threads
<1> QED
  BY <1>1, <1>2, <1>3, PTL DEF Spec

-----------------------------------------------------------------------------
(* Orphan blocks *)

\* A pool over its limit loses one orphan before it gets another.
LEMMA HoldBound ==
    ASSUME IInv, OrphansWait, NEW t \in Threads, HoldOrphan(t)
    PROVE  Cardinality(mapOrphanBlocks') <= nMaxOrphan + 1
<1>1. PICK kept \in PruneOrphanBlocks : mapOrphanBlocks' = kept \cup {pblock[t]}
  BY DEF HoldOrphan
<1>2. IsFiniteSet(mapOrphanBlocks) /\ nMaxOrphan \in Nat
  BY DualChainAssumption, FS_Subset DEF IInv, TypeOK
<1>3. Cardinality(mapOrphanBlocks) \in Nat /\ Cardinality(mapOrphanBlocks) <= nMaxOrphan + 1
  BY <1>2, FS_CardinalityType DEF OrphansWait
<1>4. IsFiniteSet(kept) /\ Cardinality(kept) <= nMaxOrphan
  <2>1. CASE Cardinality(mapOrphanBlocks) <= nMaxOrphan
    BY <1>2, <2>1 DEF PruneOrphanBlocks
  <2>2. CASE ~(Cardinality(mapOrphanBlocks) <= nMaxOrphan)
    <3>1. PICK o \in mapOrphanBlocks : kept = mapOrphanBlocks \ {o}
      BY <2>2 DEF PruneOrphanBlocks
    <3>2. IsFiniteSet(kept) /\ Cardinality(kept) = Cardinality(mapOrphanBlocks) - 1
      BY <1>2, <3>1, FS_RemoveElement
    <3> QED  BY <1>2, <1>3, <3>2
  <2> QED  BY <2>1, <2>2
<1>5. /\ Cardinality(kept) \in Nat /\ Cardinality(kept \cup {pblock[t]}) \in Nat
      /\ Cardinality(kept \cup {pblock[t]}) <= Cardinality(kept) + 1
  <2>1. /\ IsFiniteSet(kept \cup {pblock[t]})
        /\ \/ Cardinality(kept \cup {pblock[t]}) = Cardinality(kept)
           \/ Cardinality(kept \cup {pblock[t]}) = Cardinality(kept) + 1
    BY <1>4, FS_AddElement
  <2>2. Cardinality(kept) \in Nat
    BY <1>4, FS_CardinalityType
  <2> QED  BY <2>1, <2>2
<1> QED  BY <1>1, <1>2, <1>4, <1>5

\* Only the thread that holds cs_main changes the pool or the block index, and it
\* gives the lock back when no orphan has its parent.
LEMMA OrphansStep ==
    ASSUME IInv, OrphansWait, [Next]_vars
    PROVE  OrphansWait'
<1> USE DEF OrphansWait
<1>1. CASE UNCHANGED <<index, cs_main>>
  BY <1>1 DEF index
<1>2. ASSUME NEW t \in Threads, NEW b \in Blocks, ProcessBlock(t, b) PROVE OrphansWait'
  BY <1>2 DEF ProcessBlock, index, Threads
<1>3. ASSUME NEW t \in Threads, HoldOrphan(t) PROVE OrphansWait'
  <2>1. cs_main' = t
    BY <1>3 DEF HoldOrphan, IInv, Processing
  <2> QED  BY <1>3, <2>1, HoldBound DEF Threads
<1>4. ASSUME NEW t \in Threads, AddToBlockIndex(t) PROVE OrphansWait'
  <2>1. cs_main' = t
    BY <1>4 DEF AddToBlockIndex, IInv, Processing
  <2> QED  BY <1>4, <2>1 DEF AddToBlockIndex, Threads
<1>5. ASSUME NEW t \in Threads, AcceptOrphan(t) PROVE OrphansWait'
  <2>1. cs_main' = t /\ mapOrphanBlocks' \subseteq mapOrphanBlocks
    BY <1>5 DEF AcceptOrphan, IInv, Processing
  <2>2. IsFiniteSet(mapOrphanBlocks) /\ nMaxOrphan \in Nat
    BY DualChainAssumption, FS_Subset DEF IInv, TypeOK
  <2>3. /\ Cardinality(mapOrphanBlocks') <= Cardinality(mapOrphanBlocks)
        /\ Cardinality(mapOrphanBlocks) \in Nat /\ Cardinality(mapOrphanBlocks') \in Nat
    BY <2>1, <2>2, FS_Subset, FS_CardinalityType
  <2> QED  BY <2>1, <2>2, <2>3 DEF Threads
<1>6. ASSUME NEW t \in Threads, EndProcessBlock(t) PROVE OrphansWait'
  BY <1>6 DEF EndProcessBlock, index
<1>7. ASSUME NEW t \in Threads,
             RecheckBlock(t) \/ RejectBlock(t) \/ Lock(t) \/ ActivateStep(t)
      PROVE  UNCHANGED <<index, cs_main>>
  BY <1>7 DEF RecheckBlock, RejectBlock, Lock, ActivateStep, SkipFailed, DropContradicted,
              DropFailedPath, SetMostWork, DisconnectTip, ConnectTip, ConnectInvalid,
              ConnectDirty, Unlock, threads
<1>8. ASSUME \/ RecheckTip \/ AddBitcoinHeader \/ DisconnectBitcoinTip \/ ConnectBitcoinTip
             \/ EndBitcoinHeaders \/ (\E k \in Keys : LotteryKey(k))
             \/ (\E x \in BtcBlocks \ {BtcStart} : ProcessBitcoinHeader(x)) \/ UNCHANGED vars
      PROVE  UNCHANGED <<index, cs_main>>
  BY <1>8 DEF RecheckTip, AddBitcoinHeader, DisconnectBitcoinTip, ConnectBitcoinTip,
              EndBitcoinHeaders, LotteryKey, ProcessBitcoinHeader, vars, threads
<1> QED
  BY <1>1, <1>2, <1>3, <1>4, <1>5, <1>6, <1>7, <1>8 DEF Next

\* mapOrphanBlocks never holds more than nMaxOrphan + 1 blocks (one more than the
\* limit, since it is pruned before the insertion), and outside ProcessBlock no
\* orphan has its parent: for every tree and limit.
THEOREM OrphansBounded == Spec => []OrphansWait
<1>1. Init => OrphansWait
  BY DualChainAssumption, FS_EmptySet DEF Init, OrphansWait
<1>2. IInv /\ OrphansWait /\ [Next]_vars => OrphansWait'
  BY OrphansStep
<1>3. Init => IInv
  BY Start
<1>4. IInv /\ [Next]_vars => IInv'
  BY Step
<1> QED
  BY <1>1, <1>2, <1>3, <1>4, PTL DEF Spec

-----------------------------------------------------------------------------
(* The miner builds on what the Bitcoin chain agrees with *)

\* The least member of a set of natural numbers, ...
LEMMA LeastNat ==
    ASSUME NEW T, T \subseteq Nat, T # {}
    PROVE  \E x \in T : \A y \in T : x <= y
<1> DEFINE R == {ss \in Nat \X Nat : ss[1] < ss[2]}
<1>1. IsWellFoundedOn(R, Nat)
  BY NatLessThanWellFounded, Zenon DEF OpToRel
<1> HIDE DEF R
<1>2. PICK x \in T : \A y \in T : ~(<<y, x>> \in R)
  BY <1>1, WFMin, Zenon
<1>3. ASSUME NEW y \in T PROVE x <= y
  <2>1. ~(<<y, x>> \in R)
    BY <1>2
  <2> QED  BY <2>1 DEF R
<1> QED  BY <1>2, <1>3

\* ... and with it induction, for a set in place of a predicate.
LEMMA SetInduction ==
    ASSUME NEW S, 0 \in S, \A n \in Nat : n \in S => n + 1 \in S
    PROVE  Nat \subseteq S
<1> DEFINE T == Nat \ S
<1>1. SUFFICES ASSUME T # {} PROVE FALSE
  OBVIOUS
<1>2. PICK x \in T : \A y \in T : x <= y
  BY <1>1, LeastNat
<1>3. x \in Nat /\ x # 0 /\ x - 1 \in Nat /\ x - 1 \in S
  BY <1>2
<1>4. (x - 1) + 1 \in S
  BY <1>3
<1> QED  BY <1>2, <1>3, <1>4

\* Where CheckLastBlockState is after k of its heights.
Walk(h, n) ==
    CHOOSE back : back = [k \in 0..n |->
        IF k = 0 THEN chainActive
        ELSE IF h - k + 1 > START THEN BackPast(back[k - 1], h - k + 1)
        ELSE back[k - 1]]

\* The recursion of RecheckStart has a solution, and the walk follows it.
LEMMA WalkEquation ==
    ASSUME NEW h, NEW n \in Nat
    PROVE  /\ Walk(h, n)[0] = chainActive
           /\ \A k \in 1..n : Walk(h, n)[k] =
                  IF h - k + 1 > START THEN BackPast(Walk(h, n)[k - 1], h - k + 1)
                  ELSE Walk(h, n)[k - 1]
<1> DEFINE Next1(v, k) == IF h - k + 1 > START THEN BackPast(v, h - k + 1) ELSE v
           S == {m \in Nat : \E g : g = [k \in 0..m |-> IF k = 0 THEN chainActive ELSE Next1(g[k - 1], k)]}
<1> HIDE DEF Next1
<1>1. 0 \in S
  <2> DEFINE g == [k \in 0..0 |-> chainActive]
  <2>1. g = [k \in 0..0 |-> IF k = 0 THEN chainActive ELSE Next1(g[k - 1], k)]
    OBVIOUS
  <2> QED  BY <2>1
<1>2. ASSUME NEW m \in Nat, m \in S PROVE m + 1 \in S
  <2>1. PICK g : g = [k \in 0..m |-> IF k = 0 THEN chainActive ELSE Next1(g[k - 1], k)]
    BY <1>2
  <2> DEFINE f == [k \in 0..(m + 1) |-> IF k = m + 1 THEN Next1(g[m], k) ELSE g[k]]
  <2>2. ASSUME NEW k \in 0..(m + 1) PROVE f[k] = IF k = 0 THEN chainActive ELSE Next1(f[k - 1], k)
    BY <2>1
  <2>3. f = [k \in 0..(m + 1) |-> f[k]]
    OBVIOUS
  <2> HIDE DEF f
  <2>4. f = [k \in 0..(m + 1) |-> IF k = 0 THEN chainActive ELSE Next1(f[k - 1], k)]
    BY <2>2, <2>3
  <2> QED  BY <2>4
<1>3. n \in S
  <2> HIDE DEF S
  <2> QED  BY <1>1, <1>2, SetInduction
<1>4. \E g : g = [k \in 0..n |->
               IF k = 0 THEN chainActive
               ELSE IF h - k + 1 > START THEN BackPast(g[k - 1], h - k + 1)
               ELSE g[k - 1]]
  BY <1>3 DEF Next1
<1>5. Walk(h, n) = [k \in 0..n |->
               IF k = 0 THEN chainActive
               ELSE IF h - k + 1 > START THEN BackPast(Walk(h, n)[k - 1], h - k + 1)
               ELSE Walk(h, n)[k - 1]]
  BY <1>4, Zenon DEF Walk
<1>6. ASSUME NEW k \in 0..n
      PROVE  Walk(h, n)[k] = IF k = 0 THEN chainActive
               ELSE IF h - k + 1 > START THEN BackPast(Walk(h, n)[k - 1], h - k + 1)
               ELSE Walk(h, n)[k - 1]
  BY <1>5, Zenon
<1>7. 0 \in 0..n /\ \A k \in 1..n : k \in 0..n /\ k # 0
  OBVIOUS
<1> QED  BY <1>6, <1>7

\* A finite set has a member with the greatest value of f.
LEMMA HighestOf ==
    ASSUME NEW f, NEW S, IsFiniteSet(S), S # {}, \A x \in S : f[x] \in Nat
    PROVE  \E x \in S : \A y \in S : f[y] <= f[x]
<1> DEFINE Top(T) == \E x \in T : \A y \in T : f[y] <= f[x]
           N == {n \in Nat : \A T \in SUBSET S : Cardinality(T) = n + 1 => Top(T)}
<1>1. 0 \in N
  <2>1. ASSUME NEW T \in SUBSET S, Cardinality(T) = 1 PROVE Top(T)
    <3>1. PICK x : T = {x}
      BY <2>1, FS_Subset, FS_Singleton
    <3> QED  BY <3>1
  <2> QED  BY <2>1
<1>2. ASSUME NEW n \in Nat, n \in N PROVE n + 1 \in N
  <2>1. ASSUME NEW T \in SUBSET S, Cardinality(T) = (n + 1) + 1 PROVE Top(T)
    <3>1. IsFiniteSet(T) /\ T # {}
      BY <2>1, FS_Subset, FS_EmptySet
    <3>2. PICK z \in T : TRUE
      BY <3>1
    <3>3. Cardinality(T \ {z}) = n + 1
      <4>1. Cardinality(T \ {z}) = Cardinality(T) - 1
        BY <3>1, <3>2, FS_RemoveElement
      <4> QED  BY <2>1, <4>1
    <3>4. PICK x \in T \ {z} : \A y \in T \ {z} : f[y] <= f[x]
      BY <1>2, <3>3
    <3>5. f[x] \in Nat /\ f[z] \in Nat /\ \A y \in T : f[y] \in Nat
      BY <3>2, <3>4
    <3>6. CASE f[z] <= f[x]
      <4>1. \A y \in T : f[y] <= f[x]
        BY <3>4, <3>6
      <4> QED  BY <4>1
    <3>7. CASE ~(f[z] <= f[x])
      <4>1. \A y \in T : f[y] <= f[z]
        BY <3>4, <3>5, <3>7
      <4> QED  BY <4>1
    <3> QED  BY <3>6, <3>7
  <2> QED  BY <2>1
<1> HIDE DEF N
<1>3. Nat \subseteq N
  BY <1>1, <1>2, SetInduction
<1>4. Cardinality(S) \in Nat /\ Cardinality(S) # 0
  BY FS_CardinalityType, FS_EmptySet
<1>5. Cardinality(S) - 1 \in N /\ (Cardinality(S) - 1) + 1 = Cardinality(S)
  BY <1>3, <1>4
<1>6. Top(S)
  BY <1>5 DEF N
<1> QED  BY <1>6

\* GetFirstBitcoinHeight and GetLastBitcoinHeight of a block with hashes.
LEMMA HeightBounds ==
    ASSUME NEW b \in Blocks, Embeds[b] # {}
    PROVE  /\ Heights(b) \subseteq Nat /\ FirstHeight(b) \in Heights(b) /\ LastHeight(b) \in Heights(b)
           /\ \A g \in Heights(b) : FirstHeight(b) <= g /\ g <= LastHeight(b)
<1>1. Heights(b) \subseteq Nat /\ Heights(b) # {}
  BY DualChainAssumption DEF Heights
<1>2. \E h \in Heights(b) : \A g \in Heights(b) : h <= g
  BY <1>1, LeastNat
<1>3. \E h \in Heights(b) : \A g \in Heights(b) : h >= g
  <2>1. IsFiniteSet(Embeds[b]) /\ \A x \in Embeds[b] : BtcHeight[x] \in Nat
    BY DualChainAssumption
  <2>2. PICK x \in Embeds[b] : \A y \in Embeds[b] : BtcHeight[y] <= BtcHeight[x]
    BY <2>1, HighestOf
  <2> QED  BY <2>1, <2>2 DEF Heights
<1>4. FirstHeight(b) \in Heights(b) /\ \A g \in Heights(b) : FirstHeight(b) <= g
  BY <1>2 DEF FirstHeight
<1>5. LastHeight(b) \in Heights(b) /\ \A g \in Heights(b) : LastHeight(b) >= g
  BY <1>3 DEF LastHeight
<1> QED  BY <1>1, <1>4, <1>5

\* Along the active chain the embedded heights rise: what CheckLottoResult tests,
\* whatever has become of the Bitcoin chain since.
Rising ==
    /\ \A b \in Chain[chainActive] : Embeds[b] # {}
    /\ \A c, d \in Chain[chainActive] : Height[c] < Height[d] =>
          \A g \in Heights(c), h \in Heights(d) : g <= h

\* CheckLottoResult exempts a block that embeds the first Bitcoin block from the
\* test that it goes on where its parent has ended: no block makes use of that once
\* another Bitcoin block has been embedded.
NoneStartsOver ==
    \A b \in Blocks \ {Genesis} : BtcStart \in Embeds[b] => Embeds[Prev[b]] \subseteq {BtcStart}

LEMMA RisingConnect ==
    ASSUME IInv, Rising, NoneStartsOver, NEW t \in Threads, NEW n \in Blocks,
           Connecting(t, n, "ok"), chainActive' = n
    PROVE  Rising'
<1>1. n \in Blocks \ {Genesis} /\ Prev[n] = chainActive /\ Chain[n] = Chain[chainActive] \cup {n}
  BY ConnectingNext DEF IInv, TypeOK
<1>2. ~Discontinuous(n) /\ ~Unanchored(n)
  BY DEF Connecting, ConnectBlock, CheckLottoResult
<1>3. Embeds[n] # {} /\ chainActive \in Chain[chainActive] /\ chainActive \in Blocks
  BY <1>2, OwnChain DEF Discontinuous, IInv, TypeOK
<1>4. /\ Heights(n) \subseteq Nat /\ FirstHeight(n) \in Heights(n)
      /\ \A g \in Heights(n) : FirstHeight(n) <= g
      /\ Heights(chainActive) \subseteq Nat
      /\ \A g \in Heights(chainActive) : g <= LastHeight(chainActive)
      /\ LastHeight(chainActive) \in Heights(chainActive)
  BY <1>3, HeightBounds DEF Rising
<1>5. ASSUME FirstHeight(n) = START PROVE LastHeight(chainActive) <= FirstHeight(n)
  <2>1. PICK x \in Embeds[n] : FirstHeight(n) = BtcHeight[x]
    BY <1>4 DEF Heights
  <2>2. x \in BtcBlocks /\ (x # BtcStart => BtcHeight[x] > START) /\ START \in Nat
    BY <1>1, DualChainAssumption DEF START
  <2>3. Embeds[chainActive] \subseteq {BtcStart}
    BY <1>1, <1>5, <2>1, <2>2 DEF NoneStartsOver
  <2>4. LastHeight(chainActive) = START
    BY <1>4, <2>3 DEF Heights, START
  <2> QED  BY <1>5, <2>2, <2>4
<1>6. ASSUME FirstHeight(n) # START PROVE LastHeight(chainActive) <= FirstHeight(n)
  <2>1. PICK x \in LastHash(chainActive) :
           x \in BtcAt(FirstHeight(n)) \/ x \in BtcAt(FirstHeight(n) - 1)
    BY <1>1, <1>2, <1>6 DEF Unanchored
  <2>2. BtcHeight[x] = LastHeight(chainActive)
    BY <2>1 DEF LastHash
  <2>3. BtcHeight[x] = FirstHeight(n) \/ BtcHeight[x] = FirstHeight(n) - 1
    BY <2>1 DEF BtcAt
  <2> QED  BY <1>4, <2>2, <2>3
<1>7. ASSUME NEW c \in Chain[chainActive], NEW g \in Heights(c), NEW h \in Heights(n)
      PROVE  g <= h
  <2>1. g <= LastHeight(chainActive) /\ g \in Nat
    <3>1. c \in Blocks /\ Embeds[c] # {}
      BY <1>3, OwnChain DEF Rising
    <3>2. Heights(c) \subseteq Nat
      BY <3>1, HeightBounds
    <3>3. CASE c = chainActive
      BY <1>4, <3>2, <3>3
    <3>4. CASE c # chainActive
      <4>1. Height[c] < Height[chainActive]
        <5>1. /\ Height[c] \in Nat /\ Height[chainActive] \in Nat
              /\ Height[c] <= Height[chainActive] /\ Height[c] # Height[chainActive]
          BY <1>3, <3>1, <3>4, DualChainAssumption
        <5> QED  BY <5>1
      <4> QED  BY <1>3, <1>4, <3>2, <4>1 DEF Rising
    <3> QED  BY <3>3, <3>4
  <2> QED  BY <1>4, <1>5, <1>6, <2>1
<1>8. ASSUME NEW c \in Chain[n], NEW d \in Chain[n], Height[c] < Height[d],
             NEW g \in Heights(c), NEW h \in Heights(d)
      PROVE  g <= h
  <2>1. Height[c] \in Nat /\ Height[n] \in Nat /\ Height[d] \in Nat /\ Height[d] <= Height[n]
    BY <1>1, <1>3, OwnChain, DualChainAssumption
  <2>2. c # n
    BY <1>8, <2>1
  <2> QED  BY <1>1, <1>7, <1>8, <2>2 DEF Rising
<1>9. \A b \in Chain[n] : Embeds[b] # {}
  BY <1>1, <1>3 DEF Rising
<1> QED  BY <1>8, <1>9 DEF Rising, Heights

\* Only ConnectTip lengthens the active chain.
LEMMA RisingStep ==
    ASSUME IInv, Rising, NoneStartsOver, [Next]_vars
    PROVE  Rising'
<1>1. CASE Chain[chainActive'] \subseteq Chain[chainActive]
  BY <1>1 DEF Rising, Heights
<1>2. ASSUME NEW h, CheckLastBlockState(h) PROVE Rising'
  BY <1>1, <1>2, RecheckShortens DEF IInv
<1>3. ASSUME NEW t \in Threads, DisconnectTip(t) PROVE Rising'
  <2>1. chainActive # Genesis /\ chainActive \in Blocks
    BY <1>3, DualChainAssumption DEF DisconnectTip, IInv, TypeOK
  <2> QED  BY <1>1, <1>3, <2>1, OwnChain DEF DisconnectTip
<1>4. ASSUME NEW t \in Threads, ConnectTip(t) PROVE Rising'
  BY <1>4, RisingConnect DEF ConnectTip
<1>5. CASE UNCHANGED chainActive
  BY <1>1, <1>5
<1>6. ASSUME NEW t \in Threads, NEW b \in Blocks, ProcessBlock(t, b) PROVE Rising'
  BY <1>5, <1>6 DEF ProcessBlock, chains
<1>7. ASSUME NEW t \in Threads,
             \/ HoldOrphan(t) \/ RejectBlock(t) \/ AddToBlockIndex(t) \/ AcceptOrphan(t)
             \/ EndProcessBlock(t) \/ Lock(t) \/ SkipFailed(t) \/ DropContradicted(t)
             \/ DropFailedPath(t) \/ SetMostWork(t) \/ ConnectInvalid(t) \/ ConnectDirty(t)
             \/ Unlock(t)
      PROVE  UNCHANGED chainActive
  BY <1>7 DEF HoldOrphan, RejectBlock, AddToBlockIndex, AcceptOrphan, EndProcessBlock, Lock,
              SkipFailed, DropContradicted, DropFailedPath, SetMostWork, ConnectInvalid,
              ConnectDirty, Unlock, chains
<1>8. ASSUME \/ AddBitcoinHeader \/ DisconnectBitcoinTip \/ ConnectBitcoinTip
             \/ EndBitcoinHeaders \/ (\E k \in Keys : LotteryKey(k))
             \/ (\E x \in BtcBlocks \ {BtcStart} : ProcessBitcoinHeader(x)) \/ UNCHANGED vars
      PROVE  UNCHANGED chainActive
  BY <1>8 DEF AddBitcoinHeader, DisconnectBitcoinTip, ConnectBitcoinTip, EndBitcoinHeaders,
              LotteryKey, ProcessBitcoinHeader, vars, chains
<1>9. ASSUME NEW t \in Threads, RecheckBlock(t) PROVE Rising'
  BY <1>2, <1>9 DEF RecheckBlock
<1>10. ASSUME RecheckTip PROVE Rising'
  BY <1>2, <1>10 DEF RecheckTip
<1> QED
  BY <1>3, <1>4, <1>5, <1>6, <1>7, <1>8, <1>9, <1>10 DEF Next, ActivateStep

\* A block below b on its chain has a child there.
LEMMA ChildOnChain ==
    ASSUME NEW b \in Blocks, NEW a \in Chain[b], a # b
    PROVE  \E c \in Chain[b] : c # Genesis /\ Prev[c] = a /\ Height[a] < Height[c]
<1> DEFINE T == {Height[c] : c \in {d \in Chain[b] : Height[a] < Height[d]}}
<1>1. a \in Blocks /\ Chain[b] \subseteq Blocks /\ b \in Chain[b]
  BY OwnChain
<1>2. Height[a] \in Nat /\ Height[b] \in Nat /\ Height[a] < Height[b]
  <2>1. /\ Height[a] \in Nat /\ Height[b] \in Nat /\ Height[a] <= Height[b]
        /\ Height[a] # Height[b]
    BY <1>1, DualChainAssumption
  <2> QED  BY <2>1
<1>3. T \subseteq Nat /\ T # {}
  <2>1. \A d \in Chain[b] : Height[d] \in Nat
    BY <1>1, DualChainAssumption
  <2> QED  BY <1>1, <1>2, <2>1
<1>4. PICK m \in T : \A y \in T : m <= y
  BY <1>3, LeastNat
<1>5. PICK c \in Chain[b] : Height[a] < Height[c] /\ \A d \in Chain[b] : Height[a] < Height[d] => Height[c] <= Height[d]
  BY <1>4
<1>6. c \in Blocks /\ c # Genesis
  BY <1>1, <1>2, <1>5, DualChainAssumption
<1>7. Prev[c] \in Chain[b] /\ Height[c] = Height[Prev[c]] + 1 /\ Height[Prev[c]] \in Nat
  <2>1. Prev[c] \in Chain[c] /\ Prev[c] \in Blocks
    BY <1>6, OwnChain
  <2> QED  BY <1>6, <2>1, DualChainAssumption
<1>8. Height[Prev[c]] = Height[a]
  BY <1>2, <1>5, <1>7
<1>9. Prev[c] = a
  BY <1>7, <1>8, DualChainAssumption
<1> QED  BY <1>5, <1>6, <1>9

\* The walk back over one height ends at a block without it.
LEMMA BackPastFound ==
    ASSUME NEW b \in Blocks, NEW h \in Nat, h > START
    PROVE  /\ BackPast(b, h) \in Chain[b] /\ h \notin Heights(BackPast(b, h))
           /\ \A c \in Chain[b] : Height[c] > Height[BackPast(b, h)] => h \in Heights(c)
<1> DEFINE S == {a \in Chain[b] : h \notin Heights(a)}
<1>1. Chain[b] \subseteq Blocks /\ Genesis \in Chain[b] /\ START \in Nat
  BY OwnChain, DualChainAssumption DEF START
<1>2. Genesis \in S
  BY <1>1, DualChainAssumption DEF Heights, START
<1>3. IsFiniteSet(S) /\ \A a \in S : Height[a] \in Nat
  BY <1>1, FS_Subset, DualChainAssumption
<1>4. PICK a \in S : \A y \in S : Height[y] <= Height[a]
  BY <1>2, <1>3, HighestOf
<1>5. ASSUME NEW c \in Chain[b], Height[c] > Height[a] PROVE h \in Heights(c)
  <2>1. Height[c] \in Nat /\ Height[a] \in Nat
    BY <1>1, DualChainAssumption
  <2> QED  BY <1>4, <1>5, <2>1
<1>6. \E x \in Chain[b] : h \notin Heights(x) /\ \A c \in Chain[b] : Height[c] > Height[x] => h \in Heights(c)
  BY <1>4, <1>5
<1> QED  BY <1>6, Zenon DEF BackPast

\* The walk goes back over one Bitcoin height with each step.
LEMMA WalkBack ==
    ASSUME IInv, Rising, NEW h \in Nat, h = LastHeight(chainActive)
    PROVE  /\ RecheckStart(h) \in Chain[chainActive]
           /\ \A g \in Heights(RecheckStart(h)) : g <= h - nRecheck \/ g <= START
<1> DEFINE W == Walk(h, nRecheck)
           S == {k \in Nat : k <= nRecheck =>
                    /\ W[k] \in Chain[chainActive]
                    /\ \A g \in Heights(W[k]) : g <= h - k \/ g <= START}
<1>1. nRecheck \in Nat /\ START \in Nat /\ chainActive \in Blocks /\ chainActive \in Chain[chainActive]
  BY DualChainAssumption, OwnChain DEF START, IInv, TypeOK
<1> HIDE DEF W
<1>2. W[0] = chainActive
  BY <1>1, WalkEquation DEF W
<1>3. ASSUME NEW k \in 1..nRecheck
      PROVE  W[k] = IF h - k + 1 > START THEN BackPast(W[k - 1], h - k + 1) ELSE W[k - 1]
  BY <1>1, WalkEquation DEF W
<1>4. 0 \in S
  BY <1>1, <1>2, HeightBounds DEF Rising
<1>5. ASSUME NEW k \in Nat, k \in S PROVE k + 1 \in S
  <2> SUFFICES ASSUME k + 1 <= nRecheck
               PROVE  /\ W[k + 1] \in Chain[chainActive]
                      /\ \A g \in Heights(W[k + 1]) : g <= h - (k + 1) \/ g <= START
    OBVIOUS
  <2> DEFINE j == h - k
             v == W[k]
             a == BackPast(v, j)
  <2>1. /\ v \in Chain[chainActive] /\ \A g \in Heights(v) : g <= j \/ g <= START
    BY <1>1, <1>5
  <2>2. W[k + 1] = IF j > START THEN a ELSE v
    <3>1. k + 1 \in 1..nRecheck /\ h - (k + 1) + 1 = j /\ (k + 1) - 1 = k
      BY <1>1
    <3> QED  BY <1>3, <3>1
  <2>3. /\ v \in Blocks /\ Chain[v] \subseteq Chain[chainActive] /\ j \in Int
    BY <1>1, <2>1, OwnChain, DualChainAssumption
  <2>4. ASSUME NEW c \in Chain[chainActive] PROVE c \in Blocks /\ Heights(c) \subseteq Nat
    BY <1>1, OwnChain, HeightBounds DEF Rising
  <2> HIDE DEF v, a, j
  <2>5. CASE ~(j > START)
    <3>1. ASSUME NEW g \in Heights(v) PROVE g <= START
      BY <1>1, <2>1, <2>3, <2>4, <2>5
    <3> QED  BY <2>1, <2>2, <2>5, <3>1
  <2>6. CASE j > START
    <3>1. j \in Nat
      BY <1>1, <2>3, <2>6
    <3>2. a \in Chain[v] /\ j \notin Heights(a) /\ \A c \in Chain[v] : Height[c] > Height[a] => j \in Heights(c)
      BY <2>3, <2>6, <3>1, BackPastFound DEF a
    <3>3. ASSUME NEW g \in Heights(a), ~(g <= START) PROVE g <= j
      <4>1. CASE a = v
        BY <2>1, <3>3, <4>1
      <4>2. CASE a # v
        <5>1. PICK c \in Chain[v] : Height[a] < Height[c]
          BY <2>3, <3>2, <4>2, ChildOnChain
        <5>2. c \in Blocks /\ a \in Blocks /\ Height[c] \in Nat /\ Height[a] \in Nat
          BY <2>3, <2>4, <3>2, DualChainAssumption
        <5>3. j \in Heights(c)
          BY <3>2, <5>1, <5>2
        <5> QED  BY <2>3, <3>2, <5>1, <5>3 DEF Rising
      <4> QED  BY <4>1, <4>2
    <3>4. a \in Chain[chainActive] /\ Heights(a) \subseteq Nat
      BY <2>3, <2>4, <3>2
    <3>5. ASSUME NEW g \in Heights(a), ~(g <= START) PROVE g <= h - (k + 1)
      <4>1. g <= j /\ g # j /\ g \in Nat
        BY <3>2, <3>3, <3>4, <3>5
      <4> QED  BY <4>1 DEF j
    <3> QED  BY <2>2, <2>6, <3>4, <3>5
  <2> QED  BY <2>5, <2>6
<1> HIDE DEF S
<1>6. nRecheck \in S
  BY <1>1, <1>4, <1>5, SetInduction
<1>7. RecheckStart(h) = W[nRecheck]
  BY DEF RecheckStart, Walk, W
<1> QED  BY <1>1, <1>6, <1>7 DEF S

\* What the miner's CheckLastBlockState leaves.
LEMMA RecheckAgrees ==
    ASSUME IInv, Rising, RecheckTip, NEW b \in Chain[chainActive'],
           NEW h \in Heights(b), h > LastHeight(chainActive) - nRecheck, h > START
    PROVE  CheckBTCHashValid(b)
<1> DEFINE last == LastHeight(chainActive)
           start == RecheckStart(last)
<1>1. last > START /\ CheckLastBlockState(last)
  BY DEF RecheckTip
<1>2. chainActive \in Blocks /\ chainActive \in Chain[chainActive] /\ last \in Nat
  BY OwnChain, HeightBounds DEF IInv, TypeOK, Rising
<1>3. start \in Chain[chainActive] /\ \A g \in Heights(start) : g <= last - nRecheck \/ g <= START
  BY <1>2, WalkBack
<1>4. b \in Chain[chainActive]
  BY <1>1, RecheckShortens DEF IInv
<1>5. /\ b \in Blocks /\ start \in Blocks /\ Heights(b) \subseteq Nat /\ Heights(start) \subseteq Nat
      /\ FirstHeight(start) \in Heights(start) /\ Height[b] \in Nat /\ Height[start] \in Nat
      /\ START \in Nat /\ nRecheck \in Nat
  BY <1>2, <1>3, <1>4, OwnChain, HeightBounds, DualChainAssumption DEF Rising, START
<1> HIDE DEF start, last
<1>6. Height[b] >= Height[start]
  <2>1. ASSUME Height[b] < Height[start] PROVE FALSE
    <3>1. h <= FirstHeight(start)
      BY <1>3, <1>4, <1>5, <2>1 DEF Rising
    <3>2. FirstHeight(start) \in Nat /\ h \in Nat
      BY <1>5
    <3>3. FirstHeight(start) <= last - nRecheck \/ FirstHeight(start) <= START
      BY <1>3, <1>5
    <3> QED  BY <1>2, <1>5, <3>1, <3>2, <3>3 DEF last
  <2> QED  BY <1>5, <2>1
<1>7. b \in Contradicted(last) \/ CheckBTCHashValid(b)
  BY <1>4, <1>6 DEF Contradicted, start
<1>8. CASE Contradicted(last) = {}
  BY <1>7, <1>8
<1>9. CASE Contradicted(last) # {}
  <2>1. PICK x \in Contradicted(last) :
           (\A c \in Contradicted(last) : Height[x] <= Height[c]) /\ chainActive' = Prev[x]
    BY <1>1, <1>2, <1>5, <1>9 DEF CheckLastBlockState
  <2>2. x \in Blocks /\ x # Genesis
    BY <1>2, <2>1, GenesisAgrees, OwnChain DEF Contradicted, IInv
  <2>3. Height[b] < Height[x]
    <3>1. Prev[x] \in Blocks /\ b \in Chain[Prev[x]]
      BY <2>1, <2>2, OwnChain
    <3>2. /\ Height[b] <= Height[Prev[x]] /\ Height[x] = Height[Prev[x]] + 1
          /\ Height[Prev[x]] \in Nat
      BY <2>2, <3>1, DualChainAssumption
    <3> QED  BY <1>5, <3>2
  <2>4. Height[x] \in Nat
    BY <2>2, DualChainAssumption
  <2> QED  BY <1>5, <1>7, <2>1, <2>3, <2>4
<1> QED  BY <1>8, <1>9

\* The miner builds on no block that contradicts the Bitcoin chain in one of the
\* last nRecheck heights, however the Bitcoin chain has been reorganised, as long
\* as no block starts over from the first Bitcoin block: one that does is exempt
\* from the test of continuity, and hides the blocks below it from the walk back.
THEOREM MinerOnAgreed ==
    ASSUME NoneStartsOver
    PROVE  Spec => MinerBuildsOnAgreed
<1>1. Init => IInv /\ Rising
  <2>1. ASSUME Init PROVE Rising
    BY <2>1, DualChainAssumption DEF Init, Rising
  <2> QED  BY <2>1, Start
<1>2. IInv /\ Rising /\ [Next]_vars => IInv' /\ Rising'
  BY Step, RisingStep
<1>3. IInv /\ Rising =>
        [RecheckTip =>
           \A b \in Chain[chainActive'] :
              (\E h \in Heights(b) : h > LastHeight(chainActive) - nRecheck /\ h > START)
                 => CheckBTCHashValid(b)]_vars
  BY RecheckAgrees
<1> QED
  BY <1>1, <1>2, <1>3, PTL DEF Spec, MinerBuildsOnAgreed
=============================================================================
