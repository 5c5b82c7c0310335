----------------------------- MODULE CheckQueue -----------------------------
(***************************************************************************)
(* CCheckQueue<T> and CCheckQueueControl<T> (src/checkqueue.h): the pool   *)
(* of ThreadScriptCheck workers that verifies the script checks of a block *)
(* while ConnectBlock (src/main.cpp) is connecting it.                     *)
(*                                                                         *)
(* One step is one stretch of code between two points at which another     *)
(* thread can see the state: taking the mutex and cleaning up (Enter,      *)
(* Wake), the body of the inner while loop up to the point that releases   *)
(* the mutex (Return, Sleep, Take), and running a batch without the mutex  *)
(* (Execute).  The constructor of CCheckQueueControl reads the counters    *)
(* without the mutex, so its step needs no mutex here either.              *)
(*                                                                         *)
(* Abstracted: the order of the vector `queue' (a set here: the batch that *)
(* Take removes is any subset of the right size, the code's back end of    *)
(* the vector is one of them) and what a check computes (the constant      *)
(* Failing says which ones return false).                                  *)
(***************************************************************************)
EXTENDS Integers, FiniteSets

CONSTANTS
    Workers,    \* the ThreadScriptCheck threads
    Masters,    \* the threads that run ConnectBlock; the class assumes one
    Checks,     \* identities of script checks
    Failing,    \* the checks whose operator() returns false
    nBatchSize, \* the constructor's argument (128 for scriptcheckqueue)
    NoThread    \* the holder of a free mutex

ASSUME CheckQueueAssumption ==
    /\ IsFiniteSet(Workers) /\ IsFiniteSet(Masters) /\ IsFiniteSet(Checks)
    /\ Workers \cap Masters = {}
    /\ Failing \subseteq Checks
    /\ nBatchSize \in Nat \ {0}
    /\ NoThread \notin Workers \cup Masters

Threads == Workers \cup Masters

VARIABLES
    queue,      \* checks waiting to be taken
    nIdle,      \* threads blocked on a condition variable
    nTotal,     \* threads inside Loop
    fAllOk,     \* conjunction of the results of this round
    nTodo,      \* checks not finished yet
    mutex,      \* the holder of `mutex', or NoThread
    pc,         \* where each thread is
    vChecks,    \* the batch each thread holds; nNow is its size
    fOk,        \* the local fOk of each thread
    round,      \* history: checks each master added since its control opened
    fRet,       \* history: what each master's last Wait returned
    aborted     \* an assert of the control's constructor failed

vars == <<queue, nIdle, nTotal, fAllOk, nTodo, mutex, pc, vChecks, fOk,
          round, fRet, aborted>>

shared == <<queue, nIdle, nTotal, fAllOk, nTodo>>

history == <<round, fRet, aborted>>

-----------------------------------------------------------------------------
\* The workers are created by AppInit2 and go straight into Loop().
Init ==
    /\ queue = {}
    /\ nIdle = 0
    /\ nTotal = 0
    /\ fAllOk = TRUE
    /\ nTodo = 0
    /\ mutex = NoThread
    /\ pc = [t \in Threads |-> IF t \in Workers THEN "enter" ELSE "closed"]
    /\ vChecks = [t \in Threads |-> {}]
    /\ fOk = [t \in Threads |-> TRUE]
    /\ round = [m \in Masters |-> {}]
    /\ fRet = [m \in Masters |-> TRUE]
    /\ aborted = FALSE

\* condMaster.notify_one() and condWorker.notify_one()/notify_all(): move
\* waiters to the set of threads that compete for the mutex.
NotifyOne(pcs, S) ==
    LET waiting == {t \in S : pcs[t] = "wait"} IN
    IF waiting = {} THEN {pcs}
    ELSE {[pcs EXCEPT ![t] = "woken"] : t \in waiting}

NotifyAll(pcs, S) ==
    {[t \in Threads |-> IF t \in S /\ pcs[t] = "wait" THEN "woken" ELSE pcs[t]]}

-----------------------------------------------------------------------------
\* CCheckQueueControl(pqueue): the three asserts are evaluated unlocked.
QueueLooksUnused == nTotal = nIdle /\ nTodo = 0 /\ fAllOk

Open(m) ==
    /\ ~aborted
    /\ pc[m] = "closed"
    /\ IF QueueLooksUnused
          THEN /\ pc' = [pc EXCEPT ![m] = "open"]
               /\ round' = [round EXCEPT ![m] = {}]
               /\ UNCHANGED aborted
          ELSE /\ aborted' = TRUE
               /\ UNCHANGED <<pc, round>>
    /\ UNCHANGED <<shared, mutex, vChecks, fOk, fRet>>

\* Add(vChecks): ConnectBlock calls it once per transaction.  An empty vector
\* changes nothing, so only non-empty ones make a step.
Add(m, batch) ==
    /\ ~aborted
    /\ pc[m] = "open" /\ batch # {}
    /\ mutex = NoThread
    /\ batch \cap UNION {round[x] : x \in Masters} = {}
    /\ queue' = queue \cup batch
    /\ nTodo' = nTodo + Cardinality(batch)
    /\ round' = [round EXCEPT ![m] = @ \cup batch]
    /\ pc' \in IF Cardinality(batch) = 1
                  THEN NotifyOne(pc, Workers) ELSE NotifyAll(pc, Workers)
    /\ UNCHANGED <<nIdle, nTotal, fAllOk, mutex, vChecks, fOk, fRet, aborted>>

\* Wait(), called explicitly or by ~CCheckQueueControl on an early return.
Wait(m) ==
    /\ ~aborted
    /\ pc[m] = "open"
    /\ pc' = [pc EXCEPT ![m] = "enter"]
    /\ UNCHANGED <<shared, mutex, vChecks, fOk, history>>

-----------------------------------------------------------------------------
(* Loop(fMaster) *)

\* nTodo -= nNow
TodoAfterSingle(t) == nTodo - 1   \* mutant: counts batches, not checks
TodoAfter(t) == nTodo - Cardinality(vChecks[t])

\* "We processed the last element; inform the master he can exit"
WakeMasterNever(t) == {pc}        \* mutant: the notification is missing
WakeMaster(t) ==
    IF TodoAfter(t) = 0 /\ t \notin Masters THEN NotifyOne(pc, Masters) ELSE {pc}

\* The head of the critical section: clean up after the previous batch, or
\* count the thread in on its first iteration.
Enter(t) ==
    /\ ~aborted
    /\ pc[t] = "enter"
    /\ mutex = NoThread
    /\ mutex' = t
    /\ IF vChecks[t] # {}
          THEN /\ fAllOk' = (fAllOk /\ fOk[t])
               /\ nTodo' = TodoAfter(t)
               /\ \E pcs \in WakeMaster(t) : pc' = [pcs EXCEPT ![t] = "test"]
               /\ UNCHANGED nTotal
          ELSE /\ nTotal' = nTotal + 1
               /\ pc' = [pc EXCEPT ![t] = "test"]
               /\ UNCHANGED <<fAllOk, nTodo>>
    /\ vChecks' = [vChecks EXCEPT ![t] = {}]
    /\ UNCHANGED <<queue, nIdle, fOk, history>>

\* (fMaster || fQuit) && nTodo == 0; fQuit is never set by any code, so only
\* a master ever leaves this way.
RoundOverEarly(t) == t \in Masters   \* mutant: forgets the batches still out
RoundOver(t) == t \in Masters /\ nTodo = 0

\* queue.empty() and the round is over: the master leaves with the verdict.
Return(t) ==
    /\ ~aborted
    /\ pc[t] = "test" /\ queue = {}
    /\ RoundOver(t)
    /\ nTotal' = nTotal - 1
    /\ fRet' = [fRet EXCEPT ![t] = fAllOk]
    /\ fAllOk' = TRUE
    /\ mutex' = NoThread
    /\ pc' = [pc EXCEPT ![t] = "closed"]
    /\ UNCHANGED <<queue, nIdle, nTodo, vChecks, fOk, round, aborted>>

\* queue.empty() but work is still out: block on the condition variable.
Sleep(t) ==
    /\ ~aborted
    /\ pc[t] = "test" /\ queue = {}
    /\ ~RoundOver(t)
    /\ nIdle' = nIdle + 1
    /\ mutex' = NoThread
    /\ pc' = [pc EXCEPT ![t] = "wait"]
    /\ UNCHANGED <<queue, nTotal, fAllOk, nTodo, vChecks, fOk, history>>

\* A notified thread gets the mutex back and re-tests the queue.
Wake(t) ==
    /\ ~aborted
    /\ pc[t] = "woken"
    /\ mutex = NoThread
    /\ mutex' = t
    /\ nIdle' = nIdle - 1
    /\ pc' = [pc EXCEPT ![t] = "test"]
    /\ UNCHANGED <<queue, nTotal, fAllOk, nTodo, vChecks, fOk, history>>

\* boost::condition_variable::wait may return without a notification.
SpuriousWakeup(t) ==
    /\ ~aborted
    /\ pc[t] = "wait"
    /\ pc' = [pc EXCEPT ![t] = "woken"]
    /\ UNCHANGED <<shared, mutex, vChecks, fOk, history>>

\* threadGroup.interrupt_all() on shutdown: wait() throws in a worker, which
\* ends with nIdle and nTotal still counting it.
Interrupt(t) ==
    /\ ~aborted
    /\ t \in Workers /\ pc[t] = "wait"
    /\ pc' = [pc EXCEPT ![t] = "dead"]
    /\ UNCHANGED <<shared, mutex, vChecks, fOk, history>>

\* std::max(1U, std::min(nBatchSize, queue.size() / (nTotal + nIdle + 1)))
BatchSize ==
    LET share == Cardinality(queue) \div (nTotal + nIdle + 1)
        capped == IF nBatchSize < share THEN nBatchSize ELSE share
    IN IF capped < 1 THEN 1 ELSE capped

\* Take a batch and leave the critical section.
Take(t) ==
    /\ ~aborted
    /\ pc[t] = "test" /\ queue # {}
    /\ \E batch \in SUBSET queue :
          /\ Cardinality(batch) = BatchSize
          /\ queue' = queue \ batch
          /\ vChecks' = [vChecks EXCEPT ![t] = batch]
    /\ fOk' = [fOk EXCEPT ![t] = fAllOk]
    /\ mutex' = NoThread
    /\ pc' = [pc EXCEPT ![t] = "work"]
    /\ UNCHANGED <<nIdle, nTotal, fAllOk, nTodo, history>>

\* Run the batch without the mutex; after a failure the rest is skipped.
Execute(t) ==
    /\ ~aborted
    /\ pc[t] = "work"
    /\ fOk' = [fOk EXCEPT ![t] = @ /\ vChecks[t] \cap Failing = {}]
    /\ pc' = [pc EXCEPT ![t] = "enter"]
    /\ UNCHANGED <<shared, mutex, vChecks, history>>

-----------------------------------------------------------------------------
Step(t) == Enter(t) \/ Return(t) \/ Sleep(t) \/ Wake(t) \/ Take(t) \/ Execute(t)

Next ==
    \/ \E m \in Masters : Open(m) \/ Wait(m)
    \/ \E m \in Masters, batch \in SUBSET Checks : Add(m, batch)
    \/ \E t \in Threads : Step(t) \/ SpuriousWakeup(t) \/ Interrupt(t)

Spec == Init /\ [][Next]_vars

\* The operating system runs every runnable thread and grants a mutex that is
\* released over and over to every thread that keeps asking for it.
Fairness == \A t \in Threads : SF_vars(Enter(t) \/ Wake(t))
                /\ WF_vars(Return(t) \/ Sleep(t) \/ Take(t) \/ Execute(t))

LiveSpec == Spec /\ Fairness
-----------------------------------------------------------------------------
(* Properties *)

\* The types of the members of CCheckQueue and of the locals of Loop; the
\* counters of threads never leave the range of the threads there are.
TypeOK ==
    /\ queue \subseteq Checks
    /\ nIdle \in 0 .. Cardinality(Threads)
    /\ nTotal \in 0 .. Cardinality(Threads)
    /\ nTodo \in Nat
    /\ fAllOk \in BOOLEAN /\ aborted \in BOOLEAN
    /\ mutex \in Threads \cup {NoThread}
    /\ pc \in [Threads -> {"closed", "open", "enter", "test", "wait", "woken",
                           "work", "dead"}]
    /\ vChecks \in [Threads -> SUBSET Checks]
    /\ fOk \in [Threads -> BOOLEAN]
    /\ round \in [Masters -> SUBSET Checks]
    /\ fRet \in [Masters -> BOOLEAN]

Pending == queue \cup UNION {vChecks[t] : t \in Threads}

\* nTodo "includes elements that are not anymore in queue, but still in
\* worker's own batches": it is the number of checks nobody has finished,
\* whatever the batches do, so it reaches 0 exactly when the round is over.
TodoExact == nTodo = Cardinality(Pending)

\* What Wait returned is the verdict on the checks this control added, all of
\* them and no others: true exactly if none of them fails.
WaitSound ==
    \A m \in Masters : pc[m] = "closed" => (fRet[m] <=> round[m] \cap Failing = {})

\* After Wait has returned, the queue is ready for the next control as soon
\* as no worker is inside its critical section: no straggler still holds a
\* batch, the counters balance and fAllOk is back to true.
QueueReusable ==
    mutex = NoThread /\ (\A m \in Masters : pc[m] = "closed")
        /\ (\A w \in Workers : pc[w] = "enter" => vChecks[w] # {})
    => QueueLooksUnused

\* Once ConnectBlock calls Wait, Wait returns (or an assert has ended the
\* process): no notification is lost and no check is left behind.
WaitReturns ==
    \A m \in Masters : pc[m] = "enter" ~> pc[m] = "closed" \/ aborted
=============================================================================
