----------------------- MODULE CheckpointChain_proofs -----------------------
(***************************************************************************)
(* The active chain passes the checkpoints, for all block trees and any    *)
(* number of threads, as long as the process stops only at rest.           *)
(***************************************************************************)
EXTENDS CheckpointChain, TLAPS

-----------------------------------------------------------------------------
(* The inductive invariant *)

\* The index reaches down to genesis, which never fails.
Rooted ==
    /\ Genesis \in mapBlockIndex /\ Genesis \notin failed
    /\ \A b \in mapBlockIndex : Chain[b] \subseteq mapBlockIndex
    /\ \A t \in Threads : pc[t] = "store" => arg[t] # Genesis /\ Prev[arg[t]] \in mapBlockIndex

InLock == {"find", "search", "activate", "prune", "enforce", "unlock"}
InCheck == {"prune", "enforce", "unlock"}

\* One thread at a time is between taking and giving back cs_bestChain.
Exclusive ==
    /\ \A t \in Threads : pc[t] \in InLock => cs_bestChain = t
    /\ \A t \in Threads : pc[t] \in InCheck \cup {"activate"} => chainMostWork # None

\* Where a thread's checkpoint is.
Pending ==
    /\ \A c \in disk : c \in mapCheckpoints \/ \E t \in Threads : pc[t] = "insert" /\ arg[t] = c
    /\ \A t \in Threads : pc[t] = "insert" => arg[t] \in Signed
    /\ \A t \in Threads : pc[t] \in InCheck \cup {"check"} => arg[t] \in mapCheckpoints

\* The chain that CheckActiveChain moves to ends below the checkpoint or
\* passes it.
Goal ==
    \A t \in Threads :
       /\ pc[t] \in InCheck =>
             /\ Height[pcheckpoint] < Height[arg[t]] => chainMostWork = pcheckpoint
             /\ ~(Height[pcheckpoint] < Height[arg[t]]) => arg[t] \in Chain[chainMostWork]
       /\ pc[t] = "unlock" => chainActive \in Chain[chainMostWork]

Passed(c) == Height[c] <= Height[chainActive] => c \in Chain[chainActive]

\* A thread is still to move the chain to c.
Owed(c) == \E t \in Threads : pc[t] \in InCheck \cup {"check"} /\ arg[t] = c

Enforced == \A c \in mapCheckpoints : Passed(c) \/ Owed(c)

IInv == TypeOK /\ Rooted /\ Exclusive /\ Pending /\ Goal /\ Enforced

-----------------------------------------------------------------------------
(* Facts about the tree *)

\* A block is on its own chain, and its parent below it.
LEMMA ChainFacts ==
    /\ \A b \in Blocks : b \in Chain[b] /\ Chain[b] \subseteq Blocks
    /\ \A b \in Blocks \ {Genesis} : Prev[b] \in Chain[b] /\ Prev[b] \in Blocks
    /\ \A b \in Blocks : \A c \in Chain[b] : Chain[c] \subseteq Chain[b]
<1>0. /\ Prev \in [Blocks \ {Genesis} -> Blocks] /\ Chain \in [Blocks -> SUBSET Blocks]
      /\ Chain[Genesis] = {Genesis}
      /\ \A b \in Blocks \ {Genesis} : Chain[b] = Chain[Prev[b]] \cup {b}
  BY CheckpointAssumption
<1>1. \A b \in Blocks : b \in Chain[b] /\ Chain[b] \subseteq Blocks
  <2> TAKE b \in Blocks
  <2>1. CASE b = Genesis
    BY <1>0, <2>1
  <2>2. CASE b # Genesis
    BY <1>0, <2>2
  <2> QED  BY <2>1, <2>2
<1>2. \A b \in Blocks \ {Genesis} : Prev[b] \in Chain[b] /\ Prev[b] \in Blocks
  <2> TAKE b \in Blocks \ {Genesis}
  <2>1. Prev[b] \in Blocks
    BY <1>0
  <2>2. Prev[b] \in Chain[Prev[b]]
    BY <1>1, <2>1
  <2> QED  BY <1>0, <2>1, <2>2
<1> QED  BY <1>1, <1>2, CheckpointAssumption

\* The block that the loops connect next is a child of the tip.
LEMMA NextIsChild ==
    ASSUME chainActive \in Blocks, chainMostWork \in Blocks, NEW b \in Blocks, NextBlock(b)
    PROVE  b # Genesis /\ Prev[b] = chainActive /\ b \in Chain[chainMostWork]
<1>1. b # Genesis
  BY CheckpointAssumption DEF NextBlock
<1>2. Prev[b] \in Chain[chainMostWork]
  BY <1>1, ChainFacts DEF NextBlock
<1>3. Height[Prev[b]] = Height[chainActive]
  <2>1. Height[b] = Height[Prev[b]] + 1 /\ Height[Prev[b]] \in Nat /\ Height[chainActive] \in Nat
    BY <1>1, CheckpointAssumption
  <2> QED  BY <2>1 DEF NextBlock
<1> QED  BY <1>1, <1>2, <1>3, CheckpointAssumption DEF NextBlock

\* A checkpoint passed stays passed when the tip is disconnected.
LEMMA PassedDisconnect ==
    ASSUME chainActive \in Blocks \ {Genesis}, chainActive' = Prev[chainActive],
           NEW c \in Blocks, Passed(c)
    PROVE  Passed(c)'
<1> SUFFICES ASSUME Height[c] <= Height[Prev[chainActive]]
             PROVE  c \in Chain[Prev[chainActive]]
  BY DEF Passed
<1>1. Height[chainActive] = Height[Prev[chainActive]] + 1 /\ Height[c] \in Nat
      /\ Height[Prev[chainActive]] \in Nat
  BY ChainFacts, CheckpointAssumption
<1>2. c \in Chain[chainActive] /\ c # chainActive
  BY <1>1 DEF Passed
<1> QED  BY <1>2, CheckpointAssumption

\* A checkpoint passed stays passed when a block that CheckBlock allows is
\* connected.
LEMMA PassedConnect ==
    ASSUME NEW b \in Blocks \ {Genesis}, chainActive = Prev[b], chainActive' = b, CheckBlock(b),
           NEW c \in Blocks \cap mapCheckpoints, Passed(c)
    PROVE  Passed(c)'
<1> SUFFICES ASSUME Height[c] <= Height[b]
             PROVE  c \in Chain[b]
  BY DEF Passed
<1>1. Height[b] = Height[Prev[b]] + 1 /\ Height[c] \in Nat /\ Height[Prev[b]] \in Nat
  BY ChainFacts, CheckpointAssumption
<1>2. CASE Height[c] = Height[b]
  BY <1>2, ChainFacts DEF CheckBlock
<1>3. CASE Height[c] <= Height[Prev[b]]
  BY <1>3, CheckpointAssumption DEF Passed
<1> QED  BY <1>1, <1>2, <1>3

\* When CheckActiveChain ends, its checkpoint is passed.
LEMMA GoalReached ==
    ASSUME NEW t \in Threads, pc[t] \in InCheck, Goal, arg[t] \in Blocks, pcheckpoint \in Blocks,
           chainMostWork \in Blocks, chainActive \in Chain[chainMostWork]
    PROVE  Passed(arg[t])
<1> SUFFICES ASSUME Height[arg[t]] <= Height[chainActive]
             PROVE  arg[t] \in Chain[chainActive]
  BY DEF Passed
<1>0. chainActive \in Blocks
  BY ChainFacts
<1>1. Height[chainActive] <= Height[chainMostWork]
  BY CheckpointAssumption
<1>2. Height[chainActive] \in Nat /\ Height[chainMostWork] \in Nat /\ Height[arg[t]] \in Nat
  BY <1>0, CheckpointAssumption
<1>3. CASE Height[pcheckpoint] < Height[arg[t]]
  BY <1>1, <1>2, <1>3 DEF Goal
<1>4. CASE ~(Height[pcheckpoint] < Height[arg[t]])
  <2>1. arg[t] \in Chain[chainMostWork]
    BY <1>4 DEF Goal
  <2> QED  BY <2>1, CheckpointAssumption
<1> QED  BY <1>3, <1>4

-----------------------------------------------------------------------------
(* Every step keeps the invariant *)

\* Checkpoints are on one branch.
LEMMA OneBranch ==
    ASSUME NEW c \in Signed \cup {Genesis}, NEW d \in Signed \cup {Genesis}, Height[c] <= Height[d]
    PROVE  c \in Chain[d]
<1>1. c \in Blocks /\ d \in Blocks /\ Height[c] \in Nat /\ Height[d] \in Nat
  BY CheckpointAssumption
<1>2. CASE c = Genesis
  BY <1>1, <1>2, CheckpointAssumption
<1>3. CASE d = Genesis /\ c # Genesis
  <2>1. Height[c] = Height[Prev[c]] + 1 /\ Height[Prev[c]] \in Nat /\ Height[Genesis] = 0
    BY <1>1, <1>3, CheckpointAssumption
  <2> QED  BY <2>1, <1>3
<1>4. CASE c \in Signed /\ d \in Signed
  <2>1. CASE c \in Chain[d]
    BY <2>1
  <2>2. CASE d \in Chain[c]
    <3>1. c \in Chain[c] /\ Height[d] <= Height[c]
      BY <1>1, <2>2, ChainFacts, CheckpointAssumption
    <3>2. Height[c] = Height[d]
      BY <3>1, <1>1
    <3>3. c = d
      BY <1>1, <2>2, <3>1, <3>2, CheckpointAssumption
    <3> QED  BY <3>3, <1>1, ChainFacts
  <2> QED  BY <1>4, <2>1, <2>2, CheckpointAssumption
<1> QED  BY <1>2, <1>3, <1>4

\* A block whose parent is known is accepted.
LEMMA AcceptBlockInv ==
    ASSUME IInv, NEW t \in Threads, NEW b \in Blocks, AcceptBlock(t, b)
    PROVE  IInv'
<1>1. TypeOK'
  BY DEF IInv, AcceptBlock, Goto, store, index, chains, locals, life, TypeOK
<1>2. Rooted'
  BY DEF IInv, AcceptBlock, Goto, store, index, chains, locals, life, Rooted, failed, TypeOK
<1>3. Exclusive'
  BY DEF IInv, AcceptBlock, Goto, store, index, chains, locals, life, Exclusive, InLock,
         InCheck, TypeOK
<1>4. Pending'
  BY DEF IInv, AcceptBlock, Goto, store, index, chains, locals, life, Pending, InCheck, TypeOK
<1>5. Goal'
  BY DEF IInv, AcceptBlock, Goto, store, index, chains, locals, life, Goal, Exclusive, InLock,
         InCheck, TypeOK
<1>6. Enforced'
  BY DEF IInv, AcceptBlock, Goto, store, index, chains, locals, life, Enforced, Passed, Owed,
         InCheck, TypeOK
<1> QED  BY <1>1, <1>2, <1>3, <1>4, <1>5, <1>6 DEF IInv

\* It joins the index and the candidates.
LEMMA AddToBlockIndexInv ==
    ASSUME IInv, NEW t \in Threads, AddToBlockIndex(t)
    PROVE  IInv'
<1>a. arg[t] # Genesis /\ Chain[arg[t]] \subseteq mapBlockIndex \cup {arg[t]}
  BY CheckpointAssumption DEF IInv, Rooted, TypeOK, AddToBlockIndex
<1>1. TypeOK'
  BY DEF IInv, AddToBlockIndex, Goto, store, index, chains, locals, life, TypeOK
<1>2. Rooted'
  BY <1>a
    DEF IInv, AddToBlockIndex, Goto, store, index, chains, locals, life, Rooted, failed, TypeOK
<1>3. Exclusive'
  BY DEF IInv, AddToBlockIndex, Goto, store, index, chains, locals, life, Exclusive, InLock,
         InCheck, TypeOK
<1>4. Pending'
  BY DEF IInv, AddToBlockIndex, Goto, store, index, chains, locals, life, Pending, InCheck,
         TypeOK
<1>5. Goal'
  BY DEF IInv, AddToBlockIndex, Goto, store, index, chains, locals, life, Goal, Exclusive,
         InLock, InCheck, TypeOK
<1>6. Enforced'
  BY DEF IInv, AddToBlockIndex, Goto, store, index, chains, locals, life, Enforced, Passed,
         Owed, InCheck, TypeOK
<1> QED  BY <1>1, <1>2, <1>3, <1>4, <1>5, <1>6 DEF IInv

\* A thread takes cs_bestChain.
LEMMA LockInv ==
    ASSUME IInv, NEW t \in Threads, Lock(t)
    PROVE  IInv'
<1>1. TypeOK'
  BY DEF IInv, Lock, Goto, store, index, chains, locals, life, TypeOK
<1>2. Rooted'
  BY DEF IInv, Lock, Goto, store, index, chains, locals, life, Rooted, failed, TypeOK
<1>3. Exclusive'
  BY CheckpointAssumption
    DEF IInv, Lock, Goto, store, index, chains, locals, life, Exclusive, InLock, InCheck,
        TypeOK
<1>4. Pending'
  BY DEF IInv, Lock, Goto, store, index, chains, locals, life, Pending, InCheck, TypeOK
<1>5. Goal'
  BY DEF IInv, Lock, Goto, store, index, chains, locals, life, Goal, Exclusive, InLock,
         InCheck, TypeOK
<1>6. Enforced'
  BY DEF IInv, Lock, Goto, store, index, chains, locals, life, Enforced, Passed, Owed, InCheck,
         TypeOK
<1> QED  BY <1>1, <1>2, <1>3, <1>4, <1>5, <1>6 DEF IInv

\* A checkpoint is on disk before it is in memory.
LEMMA WriteCheckpointInv ==
    ASSUME IInv, NEW t \in Threads, NEW c \in Signed, WriteCheckpoint(t, c)
    PROVE  IInv'
<1>1. TypeOK'
  BY CheckpointAssumption
    DEF IInv, WriteCheckpoint, Goto, store, index, chains, locals, life, TypeOK
<1>2. Rooted'
  BY DEF IInv, WriteCheckpoint, Goto, store, index, chains, locals, life, Rooted, failed,
         TypeOK
<1>3. Exclusive'
  BY DEF IInv, WriteCheckpoint, Goto, store, index, chains, locals, life, Exclusive, InLock,
         InCheck, TypeOK
<1>4. Pending'
  BY DEF IInv, WriteCheckpoint, Goto, store, index, chains, locals, life, Pending, InCheck,
         TypeOK
<1>5. Goal'
  BY DEF IInv, WriteCheckpoint, Goto, store, index, chains, locals, life, Goal, Exclusive,
         InLock, InCheck, TypeOK
<1>6. Enforced'
  BY DEF IInv, WriteCheckpoint, Goto, store, index, chains, locals, life, Enforced, Passed,
         Owed, InCheck, TypeOK
<1> QED  BY <1>1, <1>2, <1>3, <1>4, <1>5, <1>6 DEF IInv

\* From here on the thread owes it.
LEMMA AddCheckpointInv ==
    ASSUME IInv, NEW t \in Threads, AddCheckpoint(t)
    PROVE  IInv'
<1>1. TypeOK'
  BY DEF IInv, AddCheckpoint, Goto, store, index, chains, locals, life, TypeOK, Pending
<1>2. Rooted'
  BY DEF IInv, AddCheckpoint, Goto, store, index, chains, locals, life, Rooted, failed, TypeOK
<1>3. Exclusive'
  BY DEF IInv, AddCheckpoint, Goto, store, index, chains, locals, life, Exclusive, InLock,
         InCheck, TypeOK
<1>4. Pending'
  BY DEF IInv, AddCheckpoint, Goto, store, index, chains, locals, life, Pending, InCheck,
         TypeOK
<1>5. Goal'
  BY DEF IInv, AddCheckpoint, Goto, store, index, chains, locals, life, Goal, Exclusive,
         InLock, InCheck, TypeOK
<1>6. Enforced'
  BY DEF IInv, AddCheckpoint, Goto, store, index, chains, locals, life, Enforced, Passed, Owed,
         InCheck, TypeOK
<1> QED  BY <1>1, <1>2, <1>3, <1>4, <1>5, <1>6 DEF IInv

\* The thread owes nothing: its checkpoint is passed.
LEMMA ChainPassesInv ==
    ASSUME IInv, NEW t \in Threads, ChainPasses(t)
    PROVE  IInv'
<1>1. TypeOK'
  BY DEF IInv, ChainPasses, Goto, store, index, chains, locals, life, TypeOK
<1>2. Rooted'
  BY DEF IInv, ChainPasses, Goto, store, index, chains, locals, life, Rooted, failed, TypeOK
<1>3. Exclusive'
  BY DEF IInv, ChainPasses, Goto, store, index, chains, locals, life, Exclusive, InLock,
         InCheck, TypeOK
<1>4. Pending'
  BY DEF IInv, ChainPasses, Goto, store, index, chains, locals, life, Pending, InCheck, TypeOK
<1>5. Goal'
  BY DEF IInv, ChainPasses, Goto, store, index, chains, locals, life, Goal, Exclusive, InLock,
         InCheck, TypeOK
<1>6. Enforced'
  BY DEF IInv, ChainPasses, Goto, store, index, chains, locals, life, Enforced, Passed, Owed,
         InCheck, TypeOK
<1> QED  BY <1>1, <1>2, <1>3, <1>4, <1>5, <1>6 DEF IInv

\* The goal is below the checkpoint or passes it.
LEMMA CheckActiveChainInv ==
    ASSUME IInv, NEW t \in Threads, CheckActiveChain(t)
    PROVE  IInv'
<1>a. PICK c \in Blocks : LastCheckpoint(c) /\ pcheckpoint' = c /\ chainMostWork' = c
  BY DEF CheckActiveChain
<1>b. c \in mapCheckpoints /\ c \in mapBlockIndex /\ c # None
  BY <1>a, CheckpointAssumption DEF LastCheckpoint
<1>c. \A u \in Threads : pc[u] \notin InLock
  BY CheckpointAssumption DEF IInv, Exclusive, CheckActiveChain
<1>1. TypeOK'
  BY <1>a, <1>b DEF IInv, CheckActiveChain, Goto, store, index, chains, locals, life, TypeOK
<1>2. Rooted'
  BY DEF IInv, CheckActiveChain, Goto, store, index, chains, locals, life, Rooted, failed,
         TypeOK
<1>3. Exclusive'
  BY <1>a, <1>b, <1>c
    DEF IInv, CheckActiveChain, Goto, store, index, chains, locals, life, Exclusive, InLock,
        InCheck, TypeOK
<1>4. Pending'
  BY DEF IInv, CheckActiveChain, Goto, store, index, chains, locals, life, Pending, InCheck,
         TypeOK
<1>5. Goal'
  <2>1. arg[t] \in mapCheckpoints /\ mapCheckpoints \subseteq Signed \cup {Genesis}
    BY DEF IInv, Pending, TypeOK, CheckActiveChain
  <2>2. Height[arg[t]] \in Nat /\ Height[c] \in Nat
    BY <2>1, CheckpointAssumption
  <2>3. ~(Height[c] < Height[arg[t]]) => arg[t] \in Chain[c]
    BY <1>b, <2>1, <2>2, OneBranch
  <2>4. \A u \in Threads : pc'[u] \in InCheck => u = t
    BY <1>c DEF CheckActiveChain, Goto, InCheck, InLock, IInv, TypeOK
  <2>5. pc'[t] = "prune" /\ arg' = arg
    BY DEF CheckActiveChain, Goto, IInv, TypeOK
  <2> QED  BY <1>a, <2>3, <2>4, <2>5 DEF Goal, InCheck
<1>6. Enforced'
  BY <1>c
    DEF IInv, CheckActiveChain, Goto, store, index, chains, locals, life, Enforced, Passed,
        Owed, InCheck, TypeOK
<1> QED  BY <1>1, <1>2, <1>3, <1>4, <1>5, <1>6 DEF IInv

\* The process stops at rest, when all that is on disk is enforced.
LEMMA RestartInv ==
    ASSUME IInv, ~Crashes, NEW t \in Threads, Restart(t)
    PROVE  IInv'
<1>1. TypeOK'
  <2>1. disk' = disk /\ mapCheckpoints' \subseteq Signed \cup {Genesis}
    BY DEF Restart, LoadCheckpoint, IInv, TypeOK
  <2>2. /\ setBlockIndexValid' \subseteq mapBlockIndex' /\ failedChild' \subseteq mapBlockIndex'
        /\ chainMostWork' \in mapBlockIndex' \cup {None}
    BY DEF Restart
  <2>3. nStarts' \in 0..nMaxStarts
    BY CheckpointAssumption DEF Restart, IInv, TypeOK
  <2>4. /\ cs_main' \in Threads \cup {None} /\ cs_bestChain' \in Threads \cup {None}
        /\ pcheckpoint' \in Blocks /\ base' \in Blocks \cup {None} /\ started' \in BOOLEAN
        /\ arg' \in [Threads -> Blocks]
    BY CheckpointAssumption DEF Restart
  <2>5. pc' \in [Threads -> {"idle", "lock"}]
    BY DEF Restart
  <2>6. /\ mapBlockIndex' = mapBlockIndex /\ failedValid' = failedValid /\ chainActive' = chainActive
    BY DEF Restart
  <2> QED  BY <2>1, <2>2, <2>3, <2>4, <2>5, <2>6 DEF IInv, TypeOK
<1>2. Rooted'
  BY DEF IInv, Restart, Goto, store, index, chains, locals, life, Rooted, failed, TypeOK
<1>3. Exclusive'
  BY DEF IInv, Restart, Goto, store, index, chains, locals, life, Exclusive, InLock, InCheck,
         TypeOK
<1>4. Pending'
  BY DEF IInv, Restart, Goto, store, index, chains, locals, life, Pending, InCheck, TypeOK,
         LoadCheckpoint
<1>5. Goal'
  BY DEF IInv, Restart, Goto, store, index, chains, locals, life, Goal, Exclusive, InLock,
         InCheck, TypeOK
<1>6. Enforced'
  <2>1. \A u \in Threads : pc[u] = "idle"
    BY DEF Restart
  <2>2. \A c \in disk : Passed(c)
    BY <2>1 DEF IInv, Pending, Enforced, Owed, InCheck
  <2>3. Genesis \in Chain[chainActive]
    BY CheckpointAssumption DEF IInv, TypeOK
  <2> QED  BY <2>2, <2>3 DEF Restart, LoadCheckpoint, Enforced, Passed
<1> QED  BY <1>1, <1>2, <1>3, <1>4, <1>5, <1>6 DEF IInv

\* AppInit2 checks the last checkpoint it knows.
LEMMA StartupInv ==
    ASSUME IInv, NEW t \in Threads, Startup(t)
    PROVE  IInv'
<1>1. TypeOK'
  BY DEF IInv, Startup, Goto, store, index, chains, locals, life, TypeOK, LastCheckpoint
<1>2. Rooted'
  BY DEF IInv, Startup, Goto, store, index, chains, locals, life, Rooted, failed, TypeOK
<1>3. Exclusive'
  BY DEF IInv, Startup, Goto, store, index, chains, locals, life, Exclusive, InLock, InCheck,
         TypeOK
<1>4. Pending'
  BY DEF IInv, Startup, Goto, store, index, chains, locals, life, Pending, InCheck, TypeOK,
         LastCheckpoint
<1>5. Goal'
  BY DEF IInv, Startup, Goto, store, index, chains, locals, life, Goal, Exclusive, InLock,
         InCheck, TypeOK
<1>6. Enforced'
  BY DEF IInv, Startup, Goto, store, index, chains, locals, life, Enforced, Passed, Owed,
         InCheck, TypeOK
<1> QED  BY <1>1, <1>2, <1>3, <1>4, <1>5, <1>6 DEF IInv

\* A failed tip is not genesis and has a parent.
LEMMA SkipFailedInv ==
    ASSUME IInv, NEW t \in Threads, SkipFailed(t)
    PROVE  IInv'
<1>a. chainMostWork \in Blocks \ {Genesis}
  BY CheckpointAssumption DEF IInv, SkipFailed, Rooted, failed, TypeOK
<1>b. Prev[chainMostWork] \in mapBlockIndex
  BY <1>a, ChainFacts, CheckpointAssumption DEF IInv, SkipFailed, Rooted, failed, TypeOK
<1>c. \A u \in Threads : u # t => pc[u] \notin InLock
  BY DEF IInv, Exclusive, SkipFailed, InLock
<1>1. TypeOK'
  BY <1>b DEF IInv, SkipFailed, Goto, store, index, chains, locals, life, TypeOK
<1>2. Rooted'
  BY DEF IInv, SkipFailed, Goto, store, index, chains, locals, life, Rooted, failed, TypeOK
<1>3. Exclusive'
  BY <1>c
    DEF IInv, SkipFailed, Goto, store, index, chains, locals, life, Exclusive, InLock, InCheck,
        TypeOK
<1>4. Pending'
  BY DEF IInv, SkipFailed, Goto, store, index, chains, locals, life, Pending, InCheck, TypeOK
<1>5. Goal'
  BY <1>c
    DEF IInv, SkipFailed, Goto, store, index, chains, locals, life, Goal, Exclusive, InLock,
        InCheck, TypeOK
<1>6. Enforced'
  BY DEF IInv, SkipFailed, Goto, store, index, chains, locals, life, Enforced, Passed, Owed,
         InCheck, TypeOK
<1> QED  BY <1>1, <1>2, <1>3, <1>4, <1>5, <1>6 DEF IInv

\* Only blocks above a failed one are marked.
LEMMA DropFailedPathInv ==
    ASSUME IInv, NEW t \in Threads, DropFailedPath(t)
    PROVE  IInv'
<1>a. PICK n \in setBlockIndexValid : \E f \in FailedOnPath(n) :
         /\ failedChild' = failedChild \cup (Chain[n] \ Chain[f])
         /\ setBlockIndexValid' = setBlockIndexValid \ (Chain[n] \ Chain[f])
  BY DEF DropFailedPath
<1>f. PICK f \in FailedOnPath(n) :
         /\ failedChild' = failedChild \cup (Chain[n] \ Chain[f])
         /\ setBlockIndexValid' = setBlockIndexValid \ (Chain[n] \ Chain[f])
  BY <1>a
<1>b. Chain[n] \subseteq mapBlockIndex /\ Genesis \in Chain[f]
  BY CheckpointAssumption DEF IInv, Rooted, TypeOK, FailedOnPath, failed
<1>1. TypeOK'
  BY <1>f, <1>b
    DEF IInv, DropFailedPath, Goto, store, index, chains, locals, life, TypeOK, Searching
<1>2. Rooted'
  BY <1>f, <1>b
    DEF IInv, DropFailedPath, Goto, store, index, chains, locals, life, Rooted, failed, TypeOK,
        Searching
<1>3. Exclusive'
  BY DEF IInv, DropFailedPath, Goto, store, index, chains, locals, life, Exclusive, InLock,
         InCheck, TypeOK, Searching
<1>4. Pending'
  BY DEF IInv, DropFailedPath, Goto, store, index, chains, locals, life, Pending, InCheck,
         TypeOK, Searching
<1>5. Goal'
  BY DEF IInv, DropFailedPath, Goto, store, index, chains, locals, life, Goal, Exclusive,
         InLock, InCheck, TypeOK, Searching
<1>6. Enforced'
  BY DEF IInv, DropFailedPath, Goto, store, index, chains, locals, life, Enforced, Passed,
         Owed, InCheck, TypeOK, Searching
<1> QED  BY <1>1, <1>2, <1>3, <1>4, <1>5, <1>6 DEF IInv

\* No thread is in CheckActiveChain when chainMostWork is set here.
LEMMA SetMostWorkInv ==
    ASSUME IInv, NEW t \in Threads, SetMostWork(t)
    PROVE  IInv'
<1>a. chainMostWork' \in mapBlockIndex /\ chainMostWork' # None
  BY CheckpointAssumption DEF IInv, SetMostWork, TypeOK
<1>c. \A u \in Threads : u # t => pc[u] \notin InLock
  BY DEF IInv, Exclusive, SetMostWork, Searching, InLock
<1>1. TypeOK'
  BY <1>a DEF IInv, SetMostWork, Goto, store, index, chains, locals, life, TypeOK, Searching
<1>2. Rooted'
  BY DEF IInv, SetMostWork, Goto, store, index, chains, locals, life, Rooted, failed, TypeOK,
         Searching
<1>3. Exclusive'
  BY <1>a, <1>c
    DEF IInv, SetMostWork, Goto, store, index, chains, locals, life, Exclusive, InLock,
        InCheck, TypeOK, Searching
<1>4. Pending'
  BY DEF IInv, SetMostWork, Goto, store, index, chains, locals, life, Pending, InCheck, TypeOK,
         Searching
<1>5. Goal'
  BY <1>c
    DEF IInv, SetMostWork, Goto, store, index, chains, locals, life, Goal, Exclusive, InLock,
        InCheck, TypeOK, Searching
<1>6. Enforced'
  BY DEF IInv, SetMostWork, Goto, store, index, chains, locals, life, Enforced, Passed, Owed,
         InCheck, TypeOK, Searching
<1> QED  BY <1>1, <1>2, <1>3, <1>4, <1>5, <1>6 DEF IInv

\* Passed checkpoints stay passed.
LEMMA DisconnectTipInv ==
    ASSUME IInv, NEW t \in Threads, DisconnectTip(t)
    PROVE  IInv'
<1>a. chainMostWork \in Blocks /\ chainActive \in Blocks \ {Genesis}
  BY CheckpointAssumption DEF IInv, DisconnectTip, Moving, Exclusive, InCheck, TypeOK
<1>b. Prev[chainActive] \in mapBlockIndex
  BY <1>a, ChainFacts DEF IInv, Rooted, TypeOK
<1>c. \A u \in Threads : u # t => pc[u] \notin InLock
  BY DEF IInv, Exclusive, DisconnectTip, Moving, InLock
<1>1. TypeOK'
  BY <1>b DEF IInv, DisconnectTip, Goto, store, index, chains, locals, life, TypeOK, Moving
<1>2. Rooted'
  BY DEF IInv, DisconnectTip, Goto, store, index, chains, locals, life, Rooted, failed, TypeOK,
         Moving
<1>3. Exclusive'
  BY DEF IInv, DisconnectTip, Goto, store, index, chains, locals, life, Exclusive, InLock,
         InCheck, TypeOK, Moving
<1>4. Pending'
  BY DEF IInv, DisconnectTip, Goto, store, index, chains, locals, life, Pending, InCheck,
         TypeOK, Moving
<1>5. Goal'
  BY <1>c
    DEF IInv, DisconnectTip, Goto, store, index, chains, locals, life, Goal, Exclusive, InLock,
        InCheck, TypeOK, Moving
<1>6. Enforced'
  <2>1. mapCheckpoints \subseteq Blocks
    BY CheckpointAssumption DEF IInv, TypeOK
  <2>2. \A c \in mapCheckpoints : Passed(c) => Passed(c)'
    BY <1>a, <2>1, PassedDisconnect DEF DisconnectTip
  <2> QED  BY <2>2 DEF IInv, DisconnectTip, store, Enforced, Owed
<1> QED  BY <1>1, <1>2, <1>3, <1>4, <1>5, <1>6 DEF IInv

\* Passed checkpoints stay passed, since ConnectBlock asks CheckBlock.
LEMMA ConnectTipInv ==
    ASSUME IInv, NEW t \in Threads, ConnectTip(t)
    PROVE  IInv'
<1>a. chainMostWork \in Blocks /\ chainActive \in Blocks
  BY DEF IInv, ConnectTip, Moving, Exclusive, InCheck, TypeOK
<1>b. PICK b \in Blocks : NextBlock(b) /\ CheckBlock(b) /\ chainActive' = b
  BY DEF ConnectTip
<1>c. b # Genesis /\ Prev[b] = chainActive /\ b \in Chain[chainMostWork]
  BY <1>a, <1>b, NextIsChild
<1>d. b \in mapBlockIndex
  BY <1>a, <1>c, CheckpointAssumption DEF IInv, Rooted, TypeOK
<1>e. \A u \in Threads : u # t => pc[u] \notin InLock
  BY DEF IInv, Exclusive, ConnectTip, Moving, InLock
<1>1. TypeOK'
  BY <1>b, <1>d DEF IInv, ConnectTip, Goto, store, index, chains, locals, life, TypeOK, Moving
<1>2. Rooted'
  BY DEF IInv, ConnectTip, Goto, store, index, chains, locals, life, Rooted, failed, TypeOK,
         Moving
<1>3. Exclusive'
  BY DEF IInv, ConnectTip, Goto, store, index, chains, locals, life, Exclusive, InLock,
         InCheck, TypeOK, Moving
<1>4. Pending'
  BY DEF IInv, ConnectTip, Goto, store, index, chains, locals, life, Pending, InCheck, TypeOK,
         Moving
<1>5. Goal'
  BY <1>e
    DEF IInv, ConnectTip, Goto, store, index, chains, locals, life, Goal, Exclusive, InLock,
        InCheck, TypeOK, Moving
<1>6. Enforced'
  <2>1. mapCheckpoints \subseteq Blocks
    BY CheckpointAssumption DEF IInv, TypeOK
  <2>2. \A c \in mapCheckpoints : Passed(c) => Passed(c)'
    BY <1>b, <1>c, <2>1, PassedConnect
  <2> QED  BY <2>2 DEF IInv, ConnectTip, store, Enforced, Owed
<1> QED  BY <1>1, <1>2, <1>3, <1>4, <1>5, <1>6 DEF IInv

\* The block that fails is not genesis.
LEMMA ConnectInvalidInv ==
    ASSUME IInv, NEW t \in Threads, ConnectInvalid(t)
    PROVE  IInv'
<1>a. chainMostWork \in Blocks /\ chainActive \in Blocks
  BY DEF IInv, ConnectInvalid, Moving, Exclusive, InCheck, TypeOK
<1>b. PICK b \in Blocks : /\ NextBlock(b) /\ failedValid' = failedValid \cup {b}
                          /\ setBlockIndexValid' = setBlockIndexValid \ {b}
  BY DEF ConnectInvalid
<1>c. b # Genesis /\ b \in Chain[chainMostWork] /\ chainActive \in Chain[chainMostWork]
  BY <1>a, <1>b, NextIsChild DEF NextBlock
<1>d. b \in mapBlockIndex
  BY <1>a, <1>c, CheckpointAssumption DEF IInv, Rooted, TypeOK
<1>e. \A u \in Threads : u # t => pc[u] \notin InLock
  BY DEF IInv, Exclusive, ConnectInvalid, Moving, InLock
<1>1. TypeOK'
  BY <1>b, <1>d
    DEF IInv, ConnectInvalid, Goto, store, index, chains, locals, life, TypeOK, Moving
<1>2. Rooted'
  BY <1>b, <1>c
    DEF IInv, ConnectInvalid, Goto, store, index, chains, locals, life, Rooted, failed, TypeOK,
        Moving
<1>3. Exclusive'
  BY <1>e
    DEF IInv, ConnectInvalid, Goto, store, index, chains, locals, life, Exclusive, InLock,
        InCheck, TypeOK, Moving
<1>4. Pending'
  BY DEF IInv, ConnectInvalid, Goto, store, index, chains, locals, life, Pending, InCheck,
         TypeOK, Moving
<1>5. Goal'
  BY <1>c, <1>e
    DEF IInv, ConnectInvalid, Goto, store, index, chains, locals, life, Goal, Exclusive,
        InLock, InCheck, TypeOK, Moving
<1>6. Enforced'
  BY DEF IInv, ConnectInvalid, Goto, store, index, chains, locals, life, Enforced, Passed,
         Owed, InCheck, TypeOK, Moving
<1> QED  BY <1>1, <1>2, <1>3, <1>4, <1>5, <1>6 DEF IInv

\* The thread owed nothing.
LEMMA EndActivateInv ==
    ASSUME IInv, NEW t \in Threads, EndActivate(t)
    PROVE  IInv'
<1>1. TypeOK'
  BY DEF IInv, EndActivate, Goto, store, index, chains, locals, life, TypeOK
<1>2. Rooted'
  BY DEF IInv, EndActivate, Goto, store, index, chains, locals, life, Rooted, failed, TypeOK
<1>3. Exclusive'
  BY DEF IInv, EndActivate, Goto, store, index, chains, locals, life, Exclusive, InLock,
         InCheck, TypeOK
<1>4. Pending'
  BY DEF IInv, EndActivate, Goto, store, index, chains, locals, life, Pending, InCheck, TypeOK
<1>5. Goal'
  BY DEF IInv, EndActivate, Goto, store, index, chains, locals, life, Goal, Exclusive, InLock,
         InCheck, TypeOK
<1>6. Enforced'
  BY DEF IInv, EndActivate, Goto, store, index, chains, locals, life, Enforced, Passed, Owed,
         InCheck, TypeOK
<1> QED  BY <1>1, <1>2, <1>3, <1>4, <1>5, <1>6 DEF IInv

\* The goal only moves up from the last known checkpoint.
LEMMA PruneCandidateInv ==
    ASSUME IInv, NEW t \in Threads, PruneCandidate(t)
    PROVE  IInv'
<1>a. PICK x \in setBlockIndexValid :
         /\ Pruning(t, x) /\ setBlockIndexValid' = setBlockIndexValid \ Pruned(t, x)
         /\ base' = Advance(t, x)
         /\ chainMostWork' = IF ~Unknown(t) /\ chainMostWork \in Chain[x] THEN x ELSE chainMostWork
  BY DEF PruneCandidate
<1>b. x \in mapBlockIndex /\ x \in Blocks /\ x # None
  BY CheckpointAssumption DEF IInv, TypeOK
<1>c. \A u \in Threads : u # t => pc[u] \notin InLock
  BY <1>a DEF IInv, Exclusive, Pruning, InLock
<1>d. pc[t] = "prune" /\ base' \in Blocks \cup {None}
  BY <1>a, <1>b DEF Pruning, Advance
<1>1. TypeOK'
  BY <1>a, <1>b, <1>d
    DEF IInv, PruneCandidate, Goto, store, index, chains, locals, life, TypeOK
<1>2. Rooted'
  BY DEF IInv, PruneCandidate, Goto, store, index, chains, locals, life, Rooted, failed, TypeOK
<1>3. Exclusive'
  BY <1>a, <1>b
    DEF IInv, PruneCandidate, Goto, store, index, chains, locals, life, Exclusive, InLock,
        InCheck, TypeOK
<1>4. Pending'
  BY DEF IInv, PruneCandidate, Goto, store, index, chains, locals, life, Pending, InCheck,
         TypeOK
<1>5. Goal'
  <2>1. \A u \in Threads : pc'[u] \in InCheck => u = t
    BY <1>c DEF PruneCandidate, InCheck, InLock
  <2>2. Unknown(t) => chainMostWork' = chainMostWork
    BY <1>a
  <2>3. Chain[chainMostWork] \subseteq Chain[chainMostWork']
    BY <1>a, <1>b, ChainFacts
  <2>4. pc' = pc /\ arg' = arg /\ pcheckpoint' = pcheckpoint
    BY DEF PruneCandidate
  <2> QED  BY <1>d, <2>1, <2>2, <2>3, <2>4 DEF Goal, IInv, Unknown, InCheck
<1>6. Enforced'
  BY DEF IInv, PruneCandidate, Goto, store, index, chains, locals, life, Enforced, Passed,
         Owed, InCheck, TypeOK
<1> QED  BY <1>1, <1>2, <1>3, <1>4, <1>5, <1>6 DEF IInv

\* The candidates are pruned.
LEMMA EnforceInv ==
    ASSUME IInv, NEW t \in Threads, Enforce(t)
    PROVE  IInv'
<1>1. TypeOK'
  BY DEF IInv, Enforce, Goto, store, index, chains, locals, life, TypeOK
<1>2. Rooted'
  BY DEF IInv, Enforce, Goto, store, index, chains, locals, life, Rooted, failed, TypeOK
<1>3. Exclusive'
  BY DEF IInv, Enforce, Goto, store, index, chains, locals, life, Exclusive, InLock, InCheck,
         TypeOK
<1>4. Pending'
  BY DEF IInv, Enforce, Goto, store, index, chains, locals, life, Pending, InCheck, TypeOK
<1>5. Goal'
  BY DEF IInv, Enforce, Goto, store, index, chains, locals, life, Goal, Exclusive, InLock,
         InCheck, TypeOK
<1>6. Enforced'
  BY DEF IInv, Enforce, Goto, store, index, chains, locals, life, Enforced, Passed, Owed,
         InCheck, TypeOK
<1> QED  BY <1>1, <1>2, <1>3, <1>4, <1>5, <1>6 DEF IInv

\* The thread has moved the chain to its goal.
LEMMA EndCheckInv ==
    ASSUME IInv, NEW t \in Threads, EndCheck(t)
    PROVE  IInv'
<1>a. pc[t] \in InCheck
  BY DEF EndCheck, InCheck
<1>b. chainMostWork \in Blocks /\ arg[t] \in Blocks /\ pcheckpoint \in Blocks
  BY <1>a DEF IInv, Exclusive, TypeOK
<1>c. chainActive \in Chain[chainMostWork]
  BY <1>b, ChainFacts DEF EndCheck, IInv, Goal
<1>d. Passed(arg[t])
  BY <1>a, <1>b, <1>c, GoalReached DEF IInv
<1>e. \A u \in Threads : u # t => pc[u] \notin InLock
  BY <1>a DEF IInv, Exclusive, InCheck, InLock
<1>1. TypeOK'
  BY DEF IInv, EndCheck, Goto, store, index, chains, locals, life, TypeOK
<1>2. Rooted'
  BY DEF IInv, EndCheck, Goto, store, index, chains, locals, life, Rooted, failed, TypeOK
<1>3. Exclusive'
  BY <1>e
    DEF IInv, EndCheck, Goto, store, index, chains, locals, life, Exclusive, InLock, InCheck,
        TypeOK
<1>4. Pending'
  BY DEF IInv, EndCheck, Goto, store, index, chains, locals, life, Pending, InCheck, TypeOK
<1>5. Goal'
  BY <1>e
    DEF IInv, EndCheck, Goto, store, index, chains, locals, life, Goal, Exclusive, InLock,
        InCheck, TypeOK
<1>6. Enforced'
  BY <1>d
    DEF IInv, EndCheck, Goto, store, index, chains, locals, life, Enforced, Passed, Owed,
        InCheck, TypeOK
<1> QED  BY <1>1, <1>2, <1>3, <1>4, <1>5, <1>6 DEF IInv

-----------------------------------------------------------------------------
(* The theorem *)

\* The initial state has no checkpoint but genesis.
LEMMA InitInv == Init => IInv
<1> SUFFICES ASSUME Init PROVE IInv
  OBVIOUS
<1>1. TypeOK
  BY CheckpointAssumption DEF Init, TypeOK
<1>2. Rooted
  BY CheckpointAssumption DEF Init, Rooted, failed
<1>3. Exclusive /\ Pending /\ Goal
  BY DEF Init, Exclusive, Pending, Goal, InLock, InCheck
<1>4. Enforced
  BY CheckpointAssumption DEF Init, Enforced, Passed
<1> QED  BY <1>1, <1>2, <1>3, <1>4 DEF IInv

\* One lemma per action.
LEMMA NextInv == ASSUME IInv, ~Crashes, [Next]_vars PROVE IInv'
<1>1. CASE Next
  <2>1. PICK t \in Threads :
           \/ \E b \in Blocks : AcceptBlock(t, b)
           \/ AddToBlockIndex(t) \/ Lock(t)
           \/ \E c \in Signed : WriteCheckpoint(t, c)
           \/ AddCheckpoint(t) \/ ChainPasses(t) \/ CheckActiveChain(t)
           \/ Restart(t) \/ Startup(t) \/ Holding(t)
    BY <1>1 DEF Next
  <2>2. CASE \E b \in Blocks : AcceptBlock(t, b)
    BY <2>2, AcceptBlockInv
  <2>3. CASE AddToBlockIndex(t) \/ Lock(t)
    BY <2>3, AddToBlockIndexInv, LockInv
  <2>4. CASE \E c \in Signed : WriteCheckpoint(t, c)
    BY <2>4, WriteCheckpointInv
  <2>5. CASE AddCheckpoint(t) \/ ChainPasses(t) \/ CheckActiveChain(t)
    BY <2>5, AddCheckpointInv, ChainPassesInv, CheckActiveChainInv
  <2>6. CASE Restart(t) \/ Startup(t)
    BY <2>6, RestartInv, StartupInv
  <2>7. CASE Holding(t)
    BY <2>7, SkipFailedInv, DropFailedPathInv, SetMostWorkInv, DisconnectTipInv, ConnectTipInv,
       ConnectInvalidInv, EndActivateInv, PruneCandidateInv, EnforceInv, EndCheckInv DEF Holding
  <2> QED  BY <2>1, <2>2, <2>3, <2>4, <2>5, <2>6, <2>7
<1>2. CASE UNCHANGED vars
  BY <1>2
    DEF vars, store, index, chains, locals, life, IInv, TypeOK, Rooted, failed, Exclusive,
              Pending, Goal, Enforced, Passed, Owed, InLock, InCheck
<1> QED  BY <1>1, <1>2

\* As long as the process stops only at rest: whenever no thread is on its way,
\* the active chain passes every checkpoint it is high enough for, whatever
\* ActivateBestChain and CheckActiveChain did in between and in which order.
THEOREM CheckpointSafe == ASSUME ~Crashes PROVE Spec => [](TypeOK /\ PassesCheckpoints)
<1>1. IInv => TypeOK /\ PassesCheckpoints
  BY DEF IInv, PassesCheckpoints, AtRest, Enforced, Passed, Owed, InCheck
<1>2. IInv /\ [Next]_vars => IInv'
  BY NextInv
<1> QED  BY InitInv, <1>1, <1>2, PTL DEF Spec
=============================================================================
