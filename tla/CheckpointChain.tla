-------------------------- MODULE CheckpointChain --------------------------
(***************************************************************************)
(* Checkpoints that an authority signs and the chain that has to pass      *)
(* them: CSyncDataDb, Checkpoints and CheckActiveChain.                    *)
(*                                                                         *)
(* A checkpoint may name a block that is not known yet.  It is written to  *)
(* the database, then joins the map, then CheckActiveChain moves the chain *)
(* under cs_bestChain; other threads may be anywhere in ProcessBlock, and  *)
(* neither the checkpoint message nor the end of a reorganisation in       *)
(* another thread waits for cs_main.  The Bitcoin chain and the ties of    *)
(* equal work are the matter of DualChain.                                 *)
(***************************************************************************)
EXTENDS Integers

CONSTANTS
    Blocks, Genesis,
    Prev, Chain, Height, Work, \* parent, ancestors with the block, nHeight, nChainWork
    Signed,      \* the checkpoints of the authority: the blocks it names
    Threads,
    None,        \* no thread, or a NULL pointer
    Crashes,     \* may the process die at any point, or only at rest
    nMaxStarts   \* bound on the number of starts

ASSUME CheckpointAssumption ==
    /\ Genesis \in Blocks /\ None \notin Blocks \cup Threads
    /\ Prev \in [Blocks \ {Genesis} -> Blocks]
    /\ Chain \in [Blocks -> SUBSET Blocks] /\ Chain[Genesis] = {Genesis}
    /\ \A b \in Blocks \ {Genesis} : Chain[b] = Chain[Prev[b]] \cup {b}
    /\ \A b \in Blocks : Genesis \in Chain[b] /\ \A c \in Chain[b] : Chain[c] \subseteq Chain[b]
    /\ Height \in [Blocks -> Nat] /\ Height[Genesis] = 0
    /\ \A b \in Blocks \ {Genesis} : Height[b] = Height[Prev[b]] + 1
    /\ \A b \in Blocks : \A c, d \in Chain[b] :
           /\ Height[c] <= Height[b]
           /\ Height[c] <= Height[d] => c \in Chain[d]
           /\ Height[c] = Height[d] => c = d
    /\ Work \in [Blocks -> Nat] /\ \A b, c \in Blocks : Work[b] = Work[c] => b = c
    /\ \A b \in Blocks \ {Genesis} : Work[b] > Work[Prev[b]]
    /\ Signed \subseteq Blocks \ {Genesis}
    /\ \A c, d \in Signed : c \in Chain[d] \/ d \in Chain[c]
    /\ Crashes \in BOOLEAN /\ nMaxStarts \in Nat

VARIABLES
    disk,                \* checkpoints in the sync database
    mapCheckpoints,      \* checkpoints in memory
    mapBlockIndex,       \* accepted blocks, also on disk
    setBlockIndexValid,  \* candidates for the tip
    failedValid,         \* blocks with BLOCK_FAILED_VALID, also on disk
    failedChild,         \* blocks with BLOCK_FAILED_CHILD
    chainMostWork,       \* its tip, or None after a start
    chainActive,         \* its tip
    cs_main, cs_bestChain,
    pcheckpoint,         \* CheckActiveChain's local, of the thread in cs_bestChain
    base,                \* the block behind its iterator; None at rbegin()
    pc, arg,             \* where each thread is; its block or checkpoint
    started,             \* AppInit2 has run
    nStarts

store == <<disk, mapCheckpoints>>
index == <<mapBlockIndex, failedValid, failedChild>>
chains == <<setBlockIndexValid, chainMostWork, chainActive>>
locals == <<pcheckpoint, base>>
life == <<started, nStarts>>
vars == <<store, index, chains, locals, cs_main, cs_bestChain, pc, arg, life>>

Init ==
    /\ disk = {} /\ mapCheckpoints = {Genesis}
    /\ mapBlockIndex = {Genesis} /\ setBlockIndexValid = {Genesis}
    /\ failedValid = {} /\ failedChild = {}
    /\ chainMostWork = Genesis /\ chainActive = Genesis
    /\ cs_main = None /\ cs_bestChain = None /\ pcheckpoint = Genesis /\ base = None
    /\ pc = [t \in Threads |-> "idle"] /\ arg = [t \in Threads |-> Genesis]
    /\ started = TRUE /\ nStarts = 0

Goto(t, place) == pc' = [pc EXCEPT ![t] = place]

-----------------------------------------------------------------------------
(* Checkpoints *)

\* mutant: a checkpoint binds only blocks above it
CheckBlockBelow(b) == \A c \in mapCheckpoints : Height[c] = Height[b] - 1 => c \in Chain[b]

\* CheckBlock: no checkpoint names another block of this height.
CheckBlock(b) == \A c \in mapCheckpoints : Height[c] = Height[b] => c = b

\* c is GetLastCheckpoint: the highest one whose block is known.
LastCheckpoint(c) ==
    /\ c \in mapCheckpoints \cap mapBlockIndex
    /\ \A d \in mapCheckpoints \cap mapBlockIndex : Height[d] <= Height[c]

-----------------------------------------------------------------------------
(* Blocks *)

\* ProcessBlock and AcceptBlock up to the disk; a block refused leaves no trace.
AcceptBlock(t, b) ==
    /\ started /\ pc[t] = "idle" /\ cs_main = None
    /\ b \notin mapBlockIndex /\ b # Genesis /\ Prev[b] \in mapBlockIndex
    /\ CheckBlock(b) /\ \A c \in Blocks : LastCheckpoint(c) => Height[b] >= Height[c]
    /\ cs_main' = t /\ arg' = [arg EXCEPT ![t] = b] /\ Goto(t, "store")
    /\ UNCHANGED <<store, index, chains, locals, cs_bestChain, life>>

AddToBlockIndex(t) ==
    /\ pc[t] = "store"
    /\ mapBlockIndex' = mapBlockIndex \cup {arg[t]}
    /\ setBlockIndexValid' = setBlockIndexValid \cup {arg[t]}
    /\ Goto(t, "lock")
    /\ UNCHANGED <<store, failedValid, failedChild, chainMostWork, chainActive, locals,
                   cs_main, cs_bestChain, arg, life>>

-----------------------------------------------------------------------------
(* ActivateBestChain *)

Lock(t) ==
    /\ pc[t] = "lock" /\ cs_bestChain = None
    /\ cs_bestChain' = t /\ Goto(t, "find")
    /\ UNCHANGED <<store, index, chains, locals, cs_main, arg, life>>

failed == failedValid \cup failedChild

\* The tip of chainMostWork has failed: try the one before.
SkipFailed(t) ==
    /\ pc[t] = "find" /\ chainMostWork \in failed
    /\ setBlockIndexValid' = setBlockIndexValid \ {chainMostWork}
    /\ chainMostWork' = Prev[chainMostWork]
    /\ UNCHANGED <<store, index, chainActive, locals, cs_main, cs_bestChain, pc, arg, life>>

Searching(t) == pc[t] = "search" \/ (pc[t] = "find" /\ chainMostWork \notin failed)

Candidate(n) == n \in setBlockIndexValid /\ \A y \in setBlockIndexValid : Work[y] <= Work[n]

\* The failed blocks between n and the active chain.
FailedOnPath(n) == (Chain[n] \ Chain[chainActive]) \cap failed

\* The best candidate has one: what is above the highest of them goes.
DropFailedPath(t) ==
    /\ Searching(t)
    /\ \E n \in setBlockIndexValid : \E f \in FailedOnPath(n) :
          /\ Candidate(n) /\ \A g \in FailedOnPath(n) : Height[g] <= Height[f]
          /\ failedChild' = failedChild \cup (Chain[n] \ Chain[f])
          /\ setBlockIndexValid' = setBlockIndexValid \ (Chain[n] \ Chain[f])
    /\ Goto(t, "search")
    /\ UNCHANGED <<store, mapBlockIndex, failedValid, chainMostWork, chainActive, locals,
                   cs_main, cs_bestChain, arg, life>>

SetMostWork(t) ==
    /\ Searching(t)
    /\ \E n \in setBlockIndexValid :
          /\ Candidate(n) /\ FailedOnPath(n) = {}
          /\ chainMostWork' = IF chainMostWork # None /\ Work[n] <= Work[chainMostWork]
                              THEN chainMostWork ELSE n
    /\ Goto(t, "activate")
    /\ UNCHANGED <<store, index, setBlockIndexValid, chainActive, locals, cs_main, cs_bestChain,
                   arg, life>>

-----------------------------------------------------------------------------
(* The loops that ActivateBestChain and CheckActiveChain share *)

Moving(t) == pc[t] \in {"activate", "enforce"}

DisconnectTip(t) ==
    /\ Moving(t) /\ chainActive \notin Chain[chainMostWork]
    /\ chainActive' = Prev[chainActive]
    /\ UNCHANGED <<store, index, setBlockIndexValid, chainMostWork, locals, cs_main, cs_bestChain,
                   pc, arg, life>>

\* chainMostWork[chainActive.Height() + 1], once that is where the tip is
NextBlock(b) ==
    /\ chainActive \in Chain[chainMostWork]
    /\ b \in Chain[chainMostWork] /\ Height[b] = Height[chainActive] + 1

\* ConnectBlock asks for the checkpoints again (CheckLottoResult).
ConnectTip(t) ==
    /\ Moving(t)
    /\ \E b \in Blocks : NextBlock(b) /\ CheckBlock(b) /\ chainActive' = b
    /\ setBlockIndexValid' = setBlockIndexValid \cup
                                (IF pc[t] = "enforce" THEN {chainActive'} ELSE {})
    /\ UNCHANGED <<store, index, chainMostWork, locals, cs_main, cs_bestChain, pc, arg, life>>

\* InvalidBlockFound; ActivateBestChain searches again, CheckActiveChain ends.
ConnectInvalid(t) ==
    /\ Moving(t)
    /\ \E b \in Blocks :
          /\ NextBlock(b) /\ ~CheckBlock(b)
          /\ failedValid' = failedValid \cup {b}
          /\ setBlockIndexValid' = setBlockIndexValid \ {b}
    /\ Goto(t, IF pc[t] = "activate" THEN "find" ELSE "unlock")
    /\ UNCHANGED <<store, mapBlockIndex, failedChild, chainMostWork, chainActive, locals,
                   cs_main, cs_bestChain, arg, life>>

\* AddToBlockIndex and ProcessBlock end after ActivateBestChain; AppInit2 goes
\* on to the last checkpoint.
EndActivate(t) ==
    /\ pc[t] = "activate" /\ chainActive = chainMostWork
    /\ cs_bestChain' = None /\ cs_main' = None
    /\ Goto(t, IF started THEN "idle" ELSE "startup")
    /\ UNCHANGED <<store, index, chains, locals, arg, life>>

-----------------------------------------------------------------------------
(* A new checkpoint *)

\* The checkpoint message, sendcheckpoint or sendcheckpointchain, with a valid
\* signature.  ExistCheckpoint looks under another key and is always false.
WriteCheckpoint(t, c) ==
    /\ started /\ pc[t] = "idle" /\ disk' = disk \cup {c}
    /\ arg' = [arg EXCEPT ![t] = c] /\ Goto(t, "insert")
    /\ UNCHANGED <<mapCheckpoints, index, chains, locals, cs_main, cs_bestChain, life>>

AddCheckpoint(t) ==
    /\ pc[t] = "insert" /\ mapCheckpoints' = mapCheckpoints \cup {arg[t]}
    /\ Goto(t, "check")
    /\ UNCHANGED <<disk, index, chains, locals, cs_main, cs_bestChain, arg, life>>

\* The active chain passes the checkpoint: nothing to do.
ChainPasses(t) ==
    /\ pc[t] = "check" /\ cs_bestChain = None /\ arg[t] \in Chain[chainActive]
    /\ started' = TRUE /\ Goto(t, "idle")
    /\ UNCHANGED <<store, index, chains, locals, cs_main, cs_bestChain, arg, nStarts>>

\* It does not: the last checkpoint whose block is known is the new goal.
CheckActiveChain(t) ==
    /\ pc[t] = "check" /\ cs_bestChain = None /\ arg[t] \notin Chain[chainActive]
    /\ cs_bestChain' = t
    /\ \E c \in Blocks : LastCheckpoint(c) /\ pcheckpoint' = c /\ chainMostWork' = c
    /\ base' = None /\ Goto(t, "prune")
    /\ UNCHANGED <<store, index, setBlockIndexValid, chainActive, cs_main, arg, life>>

\* x is *it, the best candidate before base.
Current(x) ==
    LET before == {y \in setBlockIndexValid : base = None \/ Work[y] < Work[base]}
    IN  x \in before /\ \A y \in before : Work[y] <= Work[x]

\* The block of the checkpoint is not known.
Unknown(t) == Height[pcheckpoint] < Height[arg[t]]

\* The iteration is over once it meets chainMostWork.
Pruning(t, x) == pc[t] = "prune" /\ Current(x) /\ x \notin Chain[chainMostWork]

\* What an iteration erases: x itself, if it is as high as a checkpoint that
\* is not known; x and its branch, if that left the chain below the checkpoint.
Pruned(t, x) ==
    IF Unknown(t) THEN {y \in {x} : Height[y] >= Height[arg[t]]}
    ELSE IF pcheckpoint \in Chain[x] THEN {} ELSE Chain[x] \ Chain[chainMostWork]

\* mutant: the iterator starts over although nothing was erased
AdvanceNever(t, x) == None

\* The iterator starts over when something was erased.
Advance(t, x) == IF Pruned(t, x) = {} THEN x ELSE None

\* A better block above the checkpoint becomes the goal.
PruneCandidate(t) ==
    /\ \E x \in setBlockIndexValid :
          /\ Pruning(t, x)
          /\ setBlockIndexValid' = setBlockIndexValid \ Pruned(t, x)
          /\ base' = Advance(t, x)
          /\ chainMostWork' = IF ~Unknown(t) /\ chainMostWork \in Chain[x] THEN x ELSE chainMostWork
    /\ UNCHANGED <<store, index, chainActive, pcheckpoint, cs_main, cs_bestChain, pc, arg, life>>

Enforce(t) ==
    /\ pc[t] = "prune" /\ ~ \E x \in setBlockIndexValid : Pruning(t, x)
    /\ Goto(t, "enforce")
    /\ UNCHANGED <<store, index, chains, locals, cs_main, cs_bestChain, arg, life>>

\* The end of CheckActiveChain; ActivateBestChain is not called.
EndCheck(t) ==
    /\ pc[t] = "unlock" \/ (pc[t] = "enforce" /\ chainActive = chainMostWork)
    /\ cs_bestChain' = None /\ started' = TRUE /\ Goto(t, "idle")
    /\ UNCHANGED <<store, index, chains, locals, cs_main, arg, nStarts>>

-----------------------------------------------------------------------------
(* Stop and start *)

LoadCheckpoint == disk \cup {Genesis}

\* LoadCheckpoint, LoadBlockIndexDB, then ActivateBestChain in AppInit2.
Restart(t) ==
    /\ nStarts < nMaxStarts /\ nStarts' = nStarts + 1
    /\ Crashes \/ (started /\ \A u \in Threads : pc[u] = "idle")
    /\ mapCheckpoints' = LoadCheckpoint
    /\ failedChild' = {} /\ setBlockIndexValid' = mapBlockIndex \ failedValid
    /\ chainMostWork' = None
    /\ cs_main' = None /\ cs_bestChain' = None /\ pcheckpoint' = Genesis /\ base' = None
    /\ pc' = [u \in Threads |-> IF u = t THEN "lock" ELSE "idle"]
    /\ arg' = [u \in Threads |-> Genesis] /\ started' = FALSE
    /\ UNCHANGED <<disk, mapBlockIndex, failedValid, chainActive>>

\* CheckActiveChain with the last checkpoint whose block is known.
Startup(t) ==
    /\ pc[t] = "startup"
    /\ \E c \in Blocks : LastCheckpoint(c) /\ arg' = [arg EXCEPT ![t] = c]
    /\ Goto(t, "check")
    /\ UNCHANGED <<store, index, chains, locals, cs_main, cs_bestChain, life>>

\* The steps of a thread that holds cs_bestChain.
Holding(t) ==
    \/ SkipFailed(t) \/ DropFailedPath(t) \/ SetMostWork(t)
    \/ DisconnectTip(t) \/ ConnectTip(t) \/ ConnectInvalid(t) \/ EndActivate(t)
    \/ PruneCandidate(t) \/ Enforce(t) \/ EndCheck(t)

Next ==
    \E t \in Threads :
       \/ \E b \in Blocks : AcceptBlock(t, b)
       \/ AddToBlockIndex(t) \/ Lock(t)
       \/ \E c \in Signed : WriteCheckpoint(t, c)
       \/ AddCheckpoint(t) \/ ChainPasses(t) \/ CheckActiveChain(t)
       \/ Restart(t) \/ Startup(t)
       \/ Holding(t)

Spec == Init /\ [][Next]_vars

\* The scheduler runs the thread that holds the lock.
LiveSpec == Spec /\ \A t \in Threads : WF_vars(Holding(t))

-----------------------------------------------------------------------------
(* Properties *)

\* The globals of main.cpp point into mapBlockIndex, chainMostWork also when
\* CheckActiveChain has set it to a checkpoint.
TypeOK ==
    /\ disk \subseteq Signed /\ mapCheckpoints \subseteq Signed \cup {Genesis}
    /\ mapBlockIndex \subseteq Blocks
    /\ setBlockIndexValid \subseteq mapBlockIndex
    /\ failedValid \subseteq mapBlockIndex /\ failedChild \subseteq mapBlockIndex
    /\ chainMostWork \in mapBlockIndex \cup {None} /\ chainActive \in mapBlockIndex
    /\ cs_main \in Threads \cup {None} /\ cs_bestChain \in Threads \cup {None}
    /\ pcheckpoint \in Blocks /\ base \in Blocks \cup {None}
    /\ pc \in [Threads -> {"idle", "store", "lock", "find", "search", "activate", "insert", "check",
                           "prune", "enforce", "unlock", "startup"}]
    /\ arg \in [Threads -> Blocks]
    /\ started \in BOOLEAN /\ nStarts \in 0..nMaxStarts

AtRest == started /\ \A t \in Threads : pc[t] = "idle"

\* "Check that the block chain matches the known block chain up to a
\* checkpoint" (AcceptBlock): at rest the active chain passes every checkpoint
\* that it is high enough for.
PassesCheckpoints ==
    AtRest => \A c \in mapCheckpoints : Height[c] <= Height[chainActive] => c \in Chain[chainActive]

\* Whoever takes cs_bestChain gives it back: the loops of ActivateBestChain and
\* of CheckActiveChain, over the candidates and over the chain, end.
LockReturned == \A t \in Threads : cs_bestChain = t ~> cs_bestChain # t
=============================================================================
