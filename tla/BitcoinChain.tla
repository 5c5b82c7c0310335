---------------------------- MODULE BitcoinChain ----------------------------
(***************************************************************************)
(* Bitcoin::CChainManager: the Bitcoin headers a DSPay node follows, its   *)
(* LevelDB database (CBlockTreeDB), and what a crash and the next start    *)
(* leave of them.                                                          *)
(*                                                                         *)
(* Only headers that become part of the active chain are written           *)
(* (ConnectTip); nothing is written when they leave it (DisconnectTip).    *)
(* The writes are not synchronous, so a crash may lose the last of them:   *)
(* older holds every earlier contents that the disk may still have.        *)
(***************************************************************************)
EXTENDS Integers, FiniteSets

CONSTANTS
    Headers,      \* headers that pass the checks of AcceptBlock
    Start,        \* hashBitcoinStartBlock
    Prev, Chain, Height, Work,   \* their tree, with accumulated nChainWork
    None,         \* the NULL pointer
    MaxCrash      \* bound on the number of crashes

\* The headers form a tree above the start block; work grows along a chain.
ASSUME BitcoinChainAssumption ==
    /\ Start \in Headers /\ None \notin Headers
    /\ Prev \in [Headers \ {Start} -> Headers]
    /\ Chain \in [Headers -> SUBSET Headers]
    /\ Chain[Start] = {Start}
    /\ \A x \in Headers \ {Start} : Chain[x] = Chain[Prev[x]] \cup {x} /\ x \notin Chain[Prev[x]]
    /\ \A x \in Headers : Start \in Chain[x] /\ \A y \in Chain[x] : Chain[y] \subseteq Chain[x]
    /\ Height \in [Headers -> Nat] /\ Work \in [Headers -> Nat]
    /\ \A x \in Headers \ {Start} : Height[x] = Height[Prev[x]] + 1 /\ Work[x] > Work[Prev[x]]
    /\ \A x \in Headers : \A y, z \in Chain[x] :
           (Height[y] <= Height[z] => y \in Chain[z]) /\ (Height[y] = Height[z] => y = z)
    /\ MaxCrash \in Nat

VARIABLES
    mapBitcoinBlockIndex,       \* headers known
    setBitcoinBlockIndexValid,  \* candidates for the tip
    chainMostWorkBitcoin,       \* its tip, or None
    chainActiveBitcoin,         \* its tip, or None
    disk,      \* [index, best]: the headers and the best hash last written
    older,     \* what the disk may hold instead after a crash
    pc,        \* "down", "idle", "connect" (inside ConnectBestBlock)
    pindexOldTip,   \* ConnectBestBlock's: the active tip when it was called
    crashes

memory == <<mapBitcoinBlockIndex, setBitcoinBlockIndexValid, chainMostWorkBitcoin,
            chainActiveBitcoin>>
stored == <<disk, older>>
vars == <<memory, stored, pc, pindexOldTip, crashes>>

Empty == [index |-> {}, best |-> None]

\* CChainManager's members before its constructor loads anything.
Blank ==
    /\ mapBitcoinBlockIndex' = {} /\ setBitcoinBlockIndexValid' = {}
    /\ chainMostWorkBitcoin' = None /\ chainActiveBitcoin' = None

\* An empty data directory, the program not started.
Init ==
    /\ mapBitcoinBlockIndex = {} /\ setBitcoinBlockIndexValid = {}
    /\ chainMostWorkBitcoin = None /\ chainActiveBitcoin = None
    /\ disk = Empty /\ older = {}
    /\ pc = "down" /\ pindexOldTip = None /\ crashes = 0

-----------------------------------------------------------------------------
(* Headers *)

\* The blocks of chainActiveBitcoin; None has no block.
Active == IF chainActiveBitcoin = None THEN {} ELSE Chain[chainActiveBitcoin]

\* mutant: the longer chain, not the one with more work
ImprovesHeight(x) ==
    chainMostWorkBitcoin # None => Height[x] > Height[chainMostWorkBitcoin]

\* FindMostWorkChain.  No header ever fails, so the best candidate is the new
\* one or the tip of chainMostWorkBitcoin; an equal one that came earlier stays.
Improves(x) ==
    chainMostWorkBitcoin # None => Work[x] > Work[chainMostWorkBitcoin]

\* AddToBlockIndex up to the loops of ConnectBestBlock.
AddToBlockIndex(x) ==
    /\ mapBitcoinBlockIndex' = mapBitcoinBlockIndex \cup {x}
    /\ setBitcoinBlockIndexValid' = setBitcoinBlockIndexValid \cup {x}
    /\ chainMostWorkBitcoin' = IF Improves(x) THEN x ELSE chainMostWorkBitcoin
    /\ pc' = "connect" /\ pindexOldTip' = chainActiveBitcoin

\* A header whose parent is not known is forgotten.  The start block is not
\* looked up.
ParentKnown(x) == Prev[x] \in mapBitcoinBlockIndex \/ Prev[x] = Start

\* ProcessBitcoinHeader and AcceptBlock; a header that is known is refused.
ProcessBitcoinHeader(x) ==
    /\ pc = "idle" /\ x \notin mapBitcoinBlockIndex /\ ParentKnown(x)
    /\ AddToBlockIndex(x)
    /\ UNCHANGED <<chainActiveBitcoin, stored, crashes>>

\* ConnectBestBlock's first loop.  DisconnectTip writes nothing.
DisconnectTip ==
    /\ pc = "connect" /\ chainActiveBitcoin # None
    /\ chainActiveBitcoin \notin Chain[chainMostWorkBitcoin]
    /\ chainActiveBitcoin' = Prev[chainActiveBitcoin]
    /\ UNCHANGED <<mapBitcoinBlockIndex, setBitcoinBlockIndexValid, chainMostWorkBitcoin,
                   stored, pc, pindexOldTip, crashes>>

\* chainMostWorkBitcoin[chainActiveBitcoin.Height() + 1], or its first block.
NextHeader ==
    {x \in Chain[chainMostWorkBitcoin] :
        IF chainActiveBitcoin = None THEN x = Start
        ELSE Height[x] = Height[chainActiveBitcoin] + 1}

\* mutant: the best hash is written before the header
WrittenBestFirst(x) == {[disk EXCEPT !.best = x]}

\* What the disk holds between the two writes of ConnectTip for header x.
Written(x) == {[disk EXCEPT !.index = @ \cup {x}]}

\* What it holds after them.
Stored(x) == [index |-> disk.index \cup {x}, best |-> x]

\* Its second loop: ConnectTip writes the header, then the best hash.
ConnectTip ==
    /\ pc = "connect"
    /\ chainActiveBitcoin # None => chainActiveBitcoin \in Chain[chainMostWorkBitcoin]
    /\ \E x \in NextHeader :
          /\ chainActiveBitcoin' = x
          /\ older' = older \cup {disk} \cup Written(x)
          /\ disk' = Stored(x)
    /\ UNCHANGED <<mapBitcoinBlockIndex, setBitcoinBlockIndexValid, chainMostWorkBitcoin,
                   pc, pindexOldTip, crashes>>

ConnectBestBlock ==
    /\ pc = "connect" /\ chainActiveBitcoin = chainMostWorkBitcoin
    /\ pc' = "idle" /\ pindexOldTip' = None
    /\ UNCHANGED <<memory, stored, crashes>>

-----------------------------------------------------------------------------
(* Crash and start *)

\* The process dies, or the machine does and takes unsynchronised writes along.
Crash ==
    /\ pc # "down" /\ crashes < MaxCrash
    /\ Blank
    /\ disk' \in older \cup {disk} /\ older' = {}
    /\ pc' = "down" /\ pindexOldTip' = None /\ crashes' = crashes + 1

\* LoadBitcoinBlockIndex inserts the headers with a valid nStatus.  nStatus is
\* not part of CBitcoinDiskBlockIndex, so there are none.
LoadedCandidates == {}

\* The constructor on a database with a best hash ...
LoadBitcoinBlockIndex ==
    /\ pc = "down" /\ disk.best # None
    /\ mapBitcoinBlockIndex' = disk.index
    /\ setBitcoinBlockIndexValid' = LoadedCandidates
    /\ chainActiveBitcoin' = disk.best
    /\ pc' = "idle"
    /\ UNCHANGED <<chainMostWorkBitcoin, stored, pindexOldTip, crashes>>

\* ... and on an empty one.  With the start block but no best hash it
\* dereferences a NULL tip: there is no way to start.
InitBlockIndex ==
    /\ pc = "down" /\ disk.best = None /\ Start \notin disk.index
    /\ AddToBlockIndex(Start)
    /\ UNCHANGED <<chainActiveBitcoin, stored, crashes>>

Next ==
    \/ \E x \in Headers \ {Start} : ProcessBitcoinHeader(x)
    \/ DisconnectTip \/ ConnectTip \/ ConnectBestBlock
    \/ Crash \/ LoadBitcoinBlockIndex \/ InitBlockIndex

Spec == Init /\ [][Next]_vars

-----------------------------------------------------------------------------
(* Properties *)

\* Every tip is a header of mapBitcoinBlockIndex or None, and the start block,
\* whose children AcceptBlock takes without a look, is known.
TypeOK ==
    /\ mapBitcoinBlockIndex \subseteq Headers
    /\ setBitcoinBlockIndexValid \subseteq mapBitcoinBlockIndex
    /\ chainMostWorkBitcoin \in mapBitcoinBlockIndex \cup {None}
    /\ chainActiveBitcoin \in mapBitcoinBlockIndex \cup {None}
    /\ pindexOldTip \in mapBitcoinBlockIndex \cup {None}
    /\ pc # "down" => Start \in mapBitcoinBlockIndex
    /\ \A d \in older \cup {disk} : d.index \subseteq Headers /\ d.best \in Headers \cup {None}
    /\ pc \in {"down", "idle", "connect"} /\ crashes \in 0..MaxCrash

\* A database the constructor can start from: an empty one, or headers that reach
\* down to the start block with a best hash among them.  Otherwise
\* InsertBitcoinBlockIndex would invent a parent of height 0, or the active chain
\* would start empty and its NULL tip be dereferenced.
Loadable(d) ==
    d = Empty \/ (d.best \in d.index /\ \A x \in d.index : Chain[x] \subseteq d.index)

\* The start block without a best hash: a crash between the two writes of the first
\* ConnectTip in the life of the database.  The program cannot start from it.
FirstWrite == [index |-> {Start}, best |-> None]

\* Whatever a crash leaves on the disk can be loaded, unless it came between the
\* two writes of the very first ConnectTip: no later crash does this damage.
DiskClosed == \A d \in older \cup {disk} : Loadable(d) \/ d = FirstWrite

\* The active chain is always on the disk, up to writes that a crash loses.
ActiveStored == Active \subseteq disk.index

\* Between two headers the active chain is the one with the most work among
\* those received since the start of the program.
SessionBest ==
    pc = "idle" => \A x \in setBitcoinBlockIndexValid : Work[x] <= Work[chainActiveBitcoin]
=============================================================================
