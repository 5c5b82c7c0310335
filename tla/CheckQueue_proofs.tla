------------------------- MODULE CheckQueue_proofs -------------------------
(***************************************************************************)
(* Proofs about CheckQueue, for any number of workers and checks and any   *)
(* batch size, with the single master the class assumes.                   *)
(***************************************************************************)
EXTENDS CheckQueue, FiniteSetTheorems, TLAPS

Idlers == {t \in Threads : pc[t] \in {"wait", "woken", "dead"}}

Insiders == {t \in Threads : \/ pc[t] \in {"wait", "woken", "dead", "test", "work"}
                             \/ pc[t] = "enter" /\ vChecks[t] # {}}

\* The members' types without the bounds on the counters.
Types ==
    /\ queue \in SUBSET Checks
    /\ nIdle \in Int /\ nTotal \in Int /\ nTodo \in Int
    /\ fAllOk \in BOOLEAN /\ aborted \in BOOLEAN
    /\ mutex \in Threads \cup {NoThread}
    /\ pc \in [Threads -> {"closed", "open", "enter", "test", "wait", "woken",
                           "work", "dead"}]
    /\ vChecks \in [Threads -> SUBSET Checks]
    /\ fOk \in [Threads -> BOOLEAN]
    /\ round \in [Masters -> SUBSET Checks]
    /\ fRet \in [Masters -> BOOLEAN]

\* Who is where: the mutex and the batches agree with the program counters.
Places ==
    /\ \A t \in Threads : pc[t] = "test" <=> mutex = t
    /\ \A t \in Threads : vChecks[t] # {} => pc[t] \in {"work", "enter"}
    /\ \A t \in Threads : pc[t] = "work" => vChecks[t] # {}
    /\ \A w \in Workers : pc[w] \notin {"closed", "open"}
    /\ \A m \in Masters : pc[m] # "dead"

\* No check is in two places.
Apart ==
    /\ \A t \in Threads : queue \cap vChecks[t] = {}
    /\ \A t, u \in Threads : t # u => vChecks[t] \cap vChecks[u] = {}

\* The three counters count what their comments say.
Counters ==
    /\ nTodo = Cardinality(Pending)
    /\ nIdle = Cardinality(Idlers)
    /\ nTotal = Cardinality(Insiders)

\* What the flags say about the checks of the round of master m.
Verdict(m) ==
    /\ Pending \subseteq round[m]
    /\ pc[m] = "closed" => Pending = {} /\ fAllOk
                           /\ (fRet[m] <=> round[m] \cap Failing = {})
    /\ pc[m] # "closed" =>
          /\ fAllOk => (round[m] \ Pending) \cap Failing = {}
          /\ ~fAllOk => round[m] \cap Failing # {}
    /\ \A t \in Threads : vChecks[t] # {} =>
          /\ ~fOk[t] => round[m] \cap Failing # {}
          /\ pc[t] = "enter" /\ fOk[t] => vChecks[t] \cap Failing = {}

IInv == Types /\ Places /\ Apart /\ Counters /\ \A m \in Masters : Verdict(m)

PCs == {"closed", "open", "enter", "test", "wait", "woken", "work", "dead"}

-----------------------------------------------------------------------------
\* condition_variable::notify_one and notify_all only turn waiting threads
\* into woken ones.
LEMMA NotifyFact ==
    ASSUME NEW p \in [Threads -> PCs], NEW S \in SUBSET Threads,
           NEW q \in NotifyOne(p, S) \cup NotifyAll(p, S)
    PROVE  /\ q \in [Threads -> PCs]
           /\ \A t \in Threads : q[t] = p[t] \/ (p[t] = "wait" /\ q[t] = "woken")
  BY DEF NotifyOne, NotifyAll, PCs

\* Cardinality of a disjoint union and of the removal of a subset.
LEMMA CardDisjoint ==
    ASSUME NEW S, NEW T, IsFiniteSet(S), IsFiniteSet(T), S \cap T = {}
    PROVE  /\ Cardinality(S \cup T) = Cardinality(S) + Cardinality(T)
           /\ Cardinality(S) \in Nat /\ Cardinality(T) \in Nat
  <1>1. Cardinality(S \cap T) = 0
    BY FS_EmptySet
  <1>2. Cardinality(S \cup T) = Cardinality(S) + Cardinality(T) - Cardinality(S \cap T)
    BY FS_Union
  <1>3. Cardinality(S) \in Nat /\ Cardinality(T) \in Nat
    BY FS_CardinalityType
  <1> QED
    BY <1>1, <1>2, <1>3

LEMMA CardRemove ==
    ASSUME NEW S, NEW T, IsFiniteSet(S), T \subseteq S
    PROVE  /\ Cardinality(S \ T) = Cardinality(S) - Cardinality(T)
           /\ Cardinality(S) \in Nat /\ Cardinality(T) \in Nat
  <1>1. IsFiniteSet(T) /\ IsFiniteSet(S \ T)
    BY FS_Subset
  <1>2. (S \ T) \cup T = S /\ (S \ T) \cap T = {}
    OBVIOUS
  <1>3. Cardinality((S \ T) \cup T) = Cardinality(S \ T) + Cardinality(T)
        /\ Cardinality(S \ T) \in Nat /\ Cardinality(T) \in Nat
    BY <1>1, <1>2, CardDisjoint
  <1>4. Cardinality((S \ T) \cup T) = Cardinality(S)
    BY <1>2, Zenon
  <1> QED
    BY <1>3, <1>4

\* Pending, Idlers and Insiders are finite, so their cardinalities are numbers.
LEMMA FiniteSets_ ==
    ASSUME Types
    PROVE  /\ IsFiniteSet(Pending) /\ Cardinality(Pending) \in Nat
           /\ IsFiniteSet(Idlers) /\ Cardinality(Idlers) \in Nat
           /\ IsFiniteSet(Insiders) /\ Cardinality(Insiders) \in Nat
           /\ IsFiniteSet(Threads)
  <1>1. IsFiniteSet(Threads)
    BY CheckQueueAssumption, FS_Union DEF Threads
  <1>2. Pending \in SUBSET Checks
    BY DEF Types, Pending
  <1>3. Idlers \in SUBSET Threads /\ Insiders \in SUBSET Threads
    BY DEF Idlers, Insiders
  <1> QED
    BY <1>1, <1>2, <1>3, CheckQueueAssumption, FS_Subset, FS_CardinalityType

LEMMA InitInv == Init => IInv
  <1> SUFFICES ASSUME Init PROVE IInv
    OBVIOUS
  <1>1. Types
    <2>1. fAllOk \in BOOLEAN /\ aborted \in BOOLEAN /\ fOk \in [Threads -> BOOLEAN]
          /\ fRet \in [Masters -> BOOLEAN]
      BY Zenon DEF Init
    <2> QED
      BY <2>1, CheckQueueAssumption DEF Init, Types, Threads
  <1>2. Pending = {} /\ Idlers = {} /\ Insiders = {}
    BY CheckQueueAssumption DEF Init, Pending, Idlers, Insiders, Threads
  <1>3. Places /\ Apart
    BY CheckQueueAssumption DEF Init, Places, Apart, Threads
  <1>4. Counters
    BY <1>2, FS_EmptySet DEF Init, Counters
  <1>5. ASSUME NEW m \in Masters PROVE Verdict(m)
    BY <1>2, CheckQueueAssumption DEF Init, Verdict, Threads
  <1> QED
    BY <1>1, <1>3, <1>4, <1>5 DEF IInv

-----------------------------------------------------------------------------
(* One lemma per action: it preserves IInv. *)

LEMMA OpenInv ==
    ASSUME IInv, NEW m \in Masters, Open(m), Masters = {m}
    PROVE  IInv'
  <1>1. m \in Threads /\ m \notin Workers
    BY CheckQueueAssumption DEF Threads
  <1>2. CASE ~QueueLooksUnused
    <2>1. Pending' = Pending /\ Idlers' = Idlers /\ Insiders' = Insiders
      BY <1>2 DEF Open, shared, Pending, Idlers, Insiders
    <2> QED
      BY <2>1, <1>2 DEF IInv, Types, Places, Apart, Counters, Verdict, Open, shared
  <1>3. CASE QueueLooksUnused
    <2>1. pc' = [pc EXCEPT ![m] = "open"] /\ pc[m] = "closed"
      BY <1>3 DEF Open
    <2>2. Pending' = Pending /\ Idlers' = Idlers /\ Insiders' = Insiders
      BY <1>1, <1>3, <2>1 DEF Open, shared, Pending, Idlers, Insiders, IInv, Types
    <2>3. Types'
      BY <1>1, <1>3, <2>1 DEF Open, shared, IInv, Types
    <2>4. Places' /\ Apart' /\ Counters'
      BY <1>1, <1>3, <2>1, <2>2 DEF Open, shared, IInv, Types, Places, Apart, Counters
    <2>5. Pending = {} /\ fAllOk
      BY <2>1 DEF IInv, Verdict
    <2>6. \A t \in Threads : vChecks'[t] = {}
      BY <2>5 DEF Open, Pending, IInv, Types
    <2>7. round'[m] = {} /\ pc'[m] = "open" /\ fAllOk' = fAllOk
      BY <1>1, <1>3, <2>1 DEF Open, shared, IInv, Types
    <2>8. Verdict(m)'
      BY <2>2, <2>5, <2>6, <2>7 DEF Verdict
    <2> QED
      BY <2>3, <2>4, <2>8 DEF IInv
  <1> QED
    BY <1>2, <1>3

LEMMA WaitInv ==
    ASSUME IInv, NEW m \in Masters, Wait(m), Masters = {m}
    PROVE  IInv'
  <1>1. m \in Threads /\ m \notin Workers
    BY CheckQueueAssumption DEF Threads
  <1>2. pc' = [pc EXCEPT ![m] = "enter"] /\ pc[m] = "open" /\ vChecks[m] = {}
    BY <1>1 DEF Wait, IInv, Places
  <1>3. Pending' = Pending /\ Idlers' = Idlers /\ Insiders' = Insiders
    BY <1>1, <1>2 DEF Wait, shared, Pending, Idlers, Insiders, IInv, Types
  <1>4. Types'
    BY <1>1, <1>2 DEF Wait, shared, history, IInv, Types
  <1>5. Places' /\ Apart' /\ Counters'
    BY <1>1, <1>2, <1>3 DEF Wait, shared, history, IInv, Types, Places, Apart, Counters
  <1>6. Verdict(m)'
    BY <1>1, <1>2, <1>3 DEF Wait, shared, history, IInv, Types, Verdict
  <1> QED
    BY <1>4, <1>5, <1>6 DEF IInv

LEMMA AddInv ==
    ASSUME IInv, NEW m \in Masters, NEW batch \in SUBSET Checks, Add(m, batch),
           Masters = {m}
    PROVE  IInv'
  <1>1. m \in Threads /\ m \notin Workers
    BY CheckQueueAssumption DEF Threads
  <1>2. /\ pc' \in [Threads -> PCs]
        /\ \A t \in Threads : pc'[t] = pc[t] \/ (pc[t] = "wait" /\ pc'[t] = "woken")
    <2>1. pc' \in NotifyOne(pc, Workers) \cup NotifyAll(pc, Workers)
      BY DEF Add
    <2> QED
      BY <2>1, NotifyFact DEF IInv, Types, PCs, Threads
  <1>3. Idlers' = Idlers /\ Insiders' = Insiders
    BY <1>2 DEF Add, Idlers, Insiders, IInv, Types
  <1>4. batch \cap round[m] = {} /\ batch \cap Pending = {}
    BY DEF Add, IInv, Verdict
  <1>5. Pending' = Pending \cup batch
    BY DEF Add, Pending
  <1>6. Cardinality(Pending') = Cardinality(Pending) + Cardinality(batch)
    <2>1. IsFiniteSet(Pending) /\ IsFiniteSet(batch)
      BY FiniteSets_, CheckQueueAssumption, FS_Subset DEF IInv
    <2>2. Cardinality(Pending \cup batch) = Cardinality(Pending) + Cardinality(batch)
      BY <1>4, <2>1, CardDisjoint
    <2> QED
      BY <1>5, <2>2
  <1>7. Cardinality(batch) \in Nat
    BY CheckQueueAssumption, FS_Subset, FS_CardinalityType
  <1>8. Types'
    BY <1>1, <1>2, <1>7 DEF Add, IInv, Types, PCs
  <1>9. Places'
    BY <1>2 DEF Add, IInv, Types, Places, Threads
  <1>10. Apart'
    BY <1>4 DEF Add, IInv, Types, Apart, Pending
  <1>11. Counters'
    BY <1>3, <1>6 DEF Add, IInv, Counters
  <1>12. Verdict(m)'
    <2>1. round'[m] = round[m] \cup batch
      BY DEF Add, IInv, Types
    <2>2. pc[m] = "open" /\ pc'[m] = "open"
      BY <1>1, <1>2 DEF Add
    <2>3. Pending' \subseteq round'[m] /\ round'[m] \ Pending' = round[m] \ Pending
      BY <1>4, <1>5, <2>1 DEF IInv, Verdict
    <2>4. \A t \in Threads : vChecks'[t] = vChecks[t] /\ fOk'[t] = fOk[t]
                            /\ (pc'[t] = "enter" => pc[t] = "enter")
      BY <1>2 DEF Add
    <2>5. fAllOk' = fAllOk
      BY DEF Add
    <2> QED
      BY <2>1, <2>2, <2>3, <2>4, <2>5 DEF IInv, Verdict
  <1> QED
    BY <1>8, <1>9, <1>10, <1>11, <1>12 DEF IInv

LEMMA EnterInv ==
    ASSUME IInv, NEW t \in Threads, Enter(t), NEW m, Masters = {m}
    PROVE  IInv'
  <1>0. m \in Masters /\ m \in Threads /\ m \notin Workers
    BY CheckQueueAssumption DEF Threads
  <1>1. pc[t] = "enter" /\ mutex = NoThread /\ mutex' = t /\ t # NoThread
        /\ vChecks' = [vChecks EXCEPT ![t] = {}] /\ queue' = queue /\ nIdle' = nIdle
        /\ fOk' = fOk /\ round' = round /\ fRet' = fRet /\ aborted' = aborted
    BY CheckQueueAssumption DEF Enter, history, Threads
  <1>2. /\ pc' \in [Threads -> PCs] /\ pc'[t] = "test"
        /\ \A u \in Threads \ {t} :
              pc'[u] = pc[u] \/ (pc[u] = "wait" /\ pc'[u] = "woken")
    <2>1. CASE vChecks[t] = {}
      BY <2>1 DEF Enter, IInv, Types, PCs
    <2>2. CASE vChecks[t] # {}
      <3>1. PICK pcs \in WakeMaster(t) : pc' = [pcs EXCEPT ![t] = "test"]
        BY <2>2 DEF Enter
      <3>2. /\ pcs \in [Threads -> PCs]
            /\ \A u \in Threads : pcs[u] = pc[u] \/ (pc[u] = "wait" /\ pcs[u] = "woken")
        <4>1. pcs = pc \/ pcs \in NotifyOne(pc, Masters)
          BY DEF WakeMaster
        <4>2. pc \in [Threads -> PCs] /\ Masters \in SUBSET Threads
          BY DEF IInv, Types, PCs, Threads
        <4>3. CASE pcs = pc
          BY <4>2, <4>3
        <4>4. CASE pcs \in NotifyOne(pc, Masters)
          BY <4>2, <4>4, NotifyFact
        <4> QED
          BY <4>1, <4>3, <4>4
      <3> QED
        BY <3>1, <3>2 DEF PCs
    <2> QED
      BY <2>1, <2>2
  <1>3. vChecks \in [Threads -> SUBSET Checks]
    BY DEF IInv, Types
  <1>4. Pending' = Pending \ vChecks[t]
    BY <1>1, <1>3 DEF IInv, Apart, Pending
  <1>5. Cardinality(Pending') = Cardinality(Pending) - Cardinality(vChecks[t])
        /\ Cardinality(vChecks[t]) \in Nat
    <2>1. vChecks[t] \subseteq Pending /\ IsFiniteSet(Pending)
      BY FiniteSets_ DEF Pending, IInv
    <2>2. Cardinality(Pending \ vChecks[t]) = Cardinality(Pending) - Cardinality(vChecks[t])
        /\ Cardinality(vChecks[t]) \in Nat
      BY <2>1, CardRemove
    <2> QED
      BY <1>4, <2>2
  <1>6. nTodo' = nTodo - Cardinality(vChecks[t])
    <2>1. CASE vChecks[t] = {}
      BY <2>1, FS_EmptySet DEF Enter, IInv, Types
    <2>2. CASE vChecks[t] # {}
      BY <2>2 DEF Enter, TodoAfter
    <2> QED
      BY <2>1, <2>2
  <1>7. Idlers' = Idlers
    BY <1>1, <1>2 DEF Idlers, IInv, Types
  <1>8. nTotal' = Cardinality(Insiders') /\ nTotal' \in Int
    <2>0. IsFiniteSet(Insiders) /\ nTotal = Cardinality(Insiders) /\ nTotal \in Int
      BY FiniteSets_ DEF IInv, Counters, Types
    <2>1. CASE vChecks[t] = {}
      <3>1. Insiders' = Insiders \cup {t} /\ t \notin Insiders
        BY <1>1, <1>2, <1>3, <2>1 DEF Insiders, IInv, Types
      <3>2. Cardinality(Insiders \cup {t}) = Cardinality(Insiders) + 1
        BY <2>0, <3>1, FS_AddElement
      <3> QED
        BY <2>0, <2>1, <3>1, <3>2 DEF Enter
    <2>2. CASE vChecks[t] # {}
      <3>1. Insiders' = Insiders
        BY <1>1, <1>2, <1>3, <2>2 DEF Insiders, IInv, Types
      <3> QED
        BY <2>0, <2>2, <3>1 DEF Enter
    <2> QED
      BY <2>1, <2>2
  <1>9. Counters'
    BY <1>1, <1>5, <1>6, <1>7, <1>8 DEF IInv, Counters
  <1>10. fAllOk' \in BOOLEAN
    BY Zenon DEF Enter, IInv, Types
  <1>11. Types'
    <2>1. vChecks' \in [Threads -> SUBSET Checks] /\ nTodo' \in Int
      BY <1>1, <1>3, <1>5, <1>6 DEF IInv, Types
    <2> QED
      BY <1>1, <1>2, <1>8, <1>10, <2>1 DEF IInv, Types, PCs
  <1>12. Places'
    <2>0. Places /\ \A u \in Threads : u # NoThread
      BY CheckQueueAssumption DEF IInv, Threads
    <2>1. \A u \in Threads : pc'[u] = "test" <=> mutex' = u
      BY <1>1, <1>2, <2>0 DEF Places
    <2>2. \A u \in Threads : vChecks'[u] # {} => pc'[u] \in {"work", "enter"}
      BY <1>1, <1>2, <1>3, <2>0 DEF Places
    <2>3. \A u \in Threads : pc'[u] = "work" => vChecks'[u] # {}
      BY <1>1, <1>2, <1>3, <2>0 DEF Places
    <2>4. /\ \A w \in Workers : pc'[w] \notin {"closed", "open"}
          /\ \A x \in Masters : pc'[x] # "dead"
      BY <1>1, <1>2, <2>0 DEF Places, Threads
    <2> QED
      BY <2>1, <2>2, <2>3, <2>4 DEF Places
  <1>13. Apart'
    BY <1>1, <1>3 DEF IInv, Apart
  <1>14. Verdict(m)'
    <2>0. Verdict(m)
      BY <1>0 DEF IInv
    <2>1. (pc'[m] # "closed" /\ pc[m] # "closed") \/ vChecks[t] = {}
      <3>1. vChecks[t] # {} => Pending # {}
        BY DEF Pending
      <3> QED
        BY <1>0, <1>1, <1>2, <2>0, <3>1 DEF Verdict
    <2>2. CASE vChecks[t] = {}
      <3>1. fAllOk' = fAllOk /\ Pending' = Pending /\ vChecks' = vChecks
        BY <1>1, <1>3, <1>4, <2>2 DEF Enter
      <3>2. pc'[m] = "closed" <=> pc[m] = "closed"
        BY <1>0, <1>1, <1>2
      <3>3. \A u \in Threads : pc'[u] = "enter" => pc[u] = "enter"
        BY <1>1, <1>2
      <3> QED
        BY <1>1, <2>0, <3>1, <3>2, <3>3 DEF Verdict
    <2>3. CASE vChecks[t] # {}
      <3>1. fAllOk' = (fAllOk /\ fOk[t])
        BY <2>3 DEF Enter
      <3>2. \A u \in Threads : pc'[u] = "enter" => pc[u] = "enter"
        BY <1>1, <1>2
      <3>3. \A u \in Threads : vChecks'[u] # {} => vChecks'[u] = vChecks[u]
        BY <1>1, <1>3
      <3>4. fOk[t] => vChecks[t] \cap Failing = {}
        BY <1>1, <2>0, <2>3 DEF Verdict
      <3>5. ~fOk[t] => round[m] \cap Failing # {}
        BY <1>1, <2>0, <2>3 DEF Verdict
      <3>6. fAllOk' => (round'[m] \ Pending') \cap Failing = {}
        BY <1>1, <1>4, <2>0, <2>1, <2>3, <3>1, <3>4 DEF Verdict
      <3>7. ~fAllOk' => round'[m] \cap Failing # {}
        BY <1>1, <2>0, <2>1, <2>3, <3>1, <3>5 DEF Verdict
      <3>8. \A u \in Threads : vChecks'[u] # {} =>
              /\ ~fOk'[u] => round'[m] \cap Failing # {}
              /\ pc'[u] = "enter" /\ fOk'[u] => vChecks'[u] \cap Failing = {}
        BY <1>1, <2>0, <3>2, <3>3 DEF Verdict
      <3>9. Pending' \subseteq round'[m] /\ pc'[m] # "closed"
        BY <1>1, <1>4, <2>0, <2>1, <2>3 DEF Verdict
      <3> QED
        BY <3>6, <3>7, <3>8, <3>9 DEF Verdict
    <2> QED
      BY <2>2, <2>3
  <1> QED
    BY <1>9, <1>11, <1>12, <1>13, <1>14 DEF IInv

LEMMA ReturnInv ==
    ASSUME IInv, NEW t \in Threads, Return(t), NEW m, Masters = {m}
    PROVE  IInv'
  <1>1. t = m /\ m \in Masters /\ m \in Threads /\ m \notin Workers /\ t # NoThread
    BY CheckQueueAssumption DEF Threads, Return, RoundOver
  <1>2. /\ pc[t] = "test" /\ queue = {} /\ nTodo = 0
        /\ pc' = [pc EXCEPT ![t] = "closed"] /\ mutex' = NoThread
        /\ nTotal' = nTotal - 1 /\ queue' = queue /\ nIdle' = nIdle /\ nTodo' = nTodo
        /\ vChecks' = vChecks /\ fOk' = fOk /\ round' = round /\ aborted' = aborted
    BY DEF Return, RoundOver
  <1>3. pc \in [Threads -> PCs] /\ mutex = t
    BY <1>2 DEF IInv, Types, PCs, Places
  <1>4. Pending' = Pending /\ Pending = {}
    <2>1. Cardinality(Pending) = 0 /\ IsFiniteSet(Pending)
      BY <1>2, FiniteSets_ DEF IInv, Counters
    <2> QED
      BY <1>2, <2>1, FS_EmptySet DEF Pending
  <1>5. Idlers' = Idlers
    BY <1>2, <1>3 DEF Idlers
  <1>6. nTotal' = Cardinality(Insiders') /\ nTotal' \in Int
    <2>1. Insiders' = Insiders \ {t} /\ t \in Insiders
      BY <1>2, <1>3 DEF Insiders
    <2>2. IsFiniteSet(Insiders) /\ nTotal = Cardinality(Insiders) /\ nTotal \in Int
      BY FiniteSets_ DEF IInv, Counters, Types
    <2>3. Cardinality(Insiders \ {t}) = Cardinality(Insiders) - 1
      BY <2>1, <2>2, FS_RemoveElement
    <2> QED
      BY <1>2, <2>1, <2>2, <2>3
  <1>7. Counters'
    BY <1>2, <1>4, <1>5, <1>6 DEF IInv, Counters
  <1>8. fAllOk' = TRUE /\ fRet' = [fRet EXCEPT ![m] = fAllOk] /\ fRet' \in [Masters -> BOOLEAN]
    BY <1>1, Zenon DEF Return, IInv, Types
  <1>9. Types'
    BY <1>2, <1>3, <1>6, <1>8 DEF IInv, Types, PCs
  <1>10. Places'
    <2>1. Places /\ \A u \in Threads : u # NoThread
      BY CheckQueueAssumption DEF IInv, Threads
    <2> QED
      BY <1>1, <1>2, <1>3, <2>1 DEF Places, Threads
  <1>11. Apart'
    BY <1>2 DEF IInv, Apart
  <1>12. Verdict(m)'
    <2>1. Verdict(m) /\ pc[m] = "test"
      BY <1>1, <1>2 DEF IInv
    <2>2. \A u \in Threads : vChecks'[u] = {}
      BY <1>2, <1>4 DEF Pending, IInv, Types
    <2>3. pc'[m] = "closed" /\ round'[m] = round[m]
      BY <1>1, <1>2, <1>3
    <2>4. fRet'[m] <=> fAllOk
      BY <1>1, <1>8 DEF IInv, Types
    <2>5. fAllOk <=> round[m] \cap Failing = {}
      BY <1>4, <2>1 DEF Verdict
    <2> QED
      BY <1>4, <1>8, <2>2, <2>3, <2>4, <2>5 DEF Verdict
  <1> QED
    BY <1>7, <1>9, <1>10, <1>11, <1>12 DEF IInv

LEMMA SleepInv ==
    ASSUME IInv, NEW t \in Threads, Sleep(t), NEW m, Masters = {m}
    PROVE  IInv'
  <1>0. m \in Masters /\ m \in Threads /\ m \notin Workers /\ t # NoThread
    BY CheckQueueAssumption DEF Threads
  <1>2. /\ pc[t] = "test" /\ nIdle' = nIdle + 1
        /\ pc' = [pc EXCEPT ![t] = "wait"] /\ mutex' = NoThread
        /\ nTotal' = nTotal /\ queue' = queue /\ nTodo' = nTodo /\ fAllOk' = fAllOk
        /\ vChecks' = vChecks /\ fOk' = fOk /\ round' = round /\ aborted' = aborted
        /\ fRet' = fRet
    BY DEF Sleep, history
  <1>3. pc \in [Threads -> PCs] /\ mutex = t
    BY <1>2 DEF IInv, Types, PCs, Places
  <1>4. Pending' = Pending /\ Insiders' = Insiders
    BY <1>2, <1>3 DEF Pending, Insiders
  <1>5. nIdle' = Cardinality(Idlers') /\ nIdle' \in Int
    <2>1. Idlers' = Idlers \cup {t} /\ t \notin Idlers
      BY <1>2, <1>3 DEF Idlers
    <2>2. IsFiniteSet(Idlers) /\ nIdle = Cardinality(Idlers) /\ nIdle \in Int
      BY FiniteSets_ DEF IInv, Counters, Types
    <2>3. Cardinality(Idlers \cup {t}) = Cardinality(Idlers) + 1
      BY <2>1, <2>2, FS_AddElement
    <2> QED
      BY <1>2, <2>1, <2>2, <2>3
  <1>6. Counters'
    BY <1>2, <1>4, <1>5 DEF IInv, Counters
  <1>7. Types'
    BY <1>2, <1>3, <1>5 DEF IInv, Types, PCs
  <1>8. Places'
    <2>1. Places /\ \A u \in Threads : u # NoThread
      BY CheckQueueAssumption DEF IInv, Threads
    <2> QED
      BY <1>0, <1>2, <1>3, <2>1 DEF Places, Threads
  <1>9. Apart'
    BY <1>2 DEF IInv, Apart
  <1>10. Verdict(m)'
    BY <1>0, <1>2, <1>3, <1>4 DEF IInv, Verdict
  <1> QED
    BY <1>6, <1>7, <1>8, <1>9, <1>10 DEF IInv

LEMMA WakeInv ==
    ASSUME IInv, NEW t \in Threads, Wake(t), NEW m, Masters = {m}
    PROVE  IInv'
  <1>0. m \in Masters /\ m \in Threads /\ m \notin Workers /\ t # NoThread
    BY CheckQueueAssumption DEF Threads
  <1>2. /\ pc[t] = "woken" /\ nIdle' = nIdle - 1
        /\ pc' = [pc EXCEPT ![t] = "test"] /\ mutex = NoThread /\ mutex' = t
        /\ nTotal' = nTotal /\ queue' = queue /\ nTodo' = nTodo /\ fAllOk' = fAllOk
        /\ vChecks' = vChecks /\ fOk' = fOk /\ round' = round /\ aborted' = aborted
        /\ fRet' = fRet
    BY DEF Wake, history
  <1>3. pc \in [Threads -> PCs]
    BY DEF IInv, Types, PCs
  <1>4. Pending' = Pending /\ Insiders' = Insiders
    BY <1>2, <1>3 DEF Pending, Insiders
  <1>5. nIdle' = Cardinality(Idlers') /\ nIdle' \in Int
    <2>1. Idlers' = Idlers \ {t} /\ t \in Idlers
      BY <1>2, <1>3 DEF Idlers
    <2>2. IsFiniteSet(Idlers) /\ nIdle = Cardinality(Idlers) /\ nIdle \in Int
      BY FiniteSets_ DEF IInv, Counters, Types
    <2>3. Cardinality(Idlers \ {t}) = Cardinality(Idlers) - 1
      BY <2>1, <2>2, FS_RemoveElement
    <2> QED
      BY <1>2, <2>1, <2>2, <2>3
  <1>6. Counters'
    BY <1>2, <1>4, <1>5 DEF IInv, Counters
  <1>7. Types'
    BY <1>2, <1>3, <1>5 DEF IInv, Types, PCs
  <1>8. Places'
    <2>1. Places /\ \A u \in Threads : u # NoThread
      BY CheckQueueAssumption DEF IInv, Threads
    <2> QED
      BY <1>0, <1>2, <1>3, <2>1 DEF Places, Threads
  <1>9. Apart'
    BY <1>2 DEF IInv, Apart
  <1>10. Verdict(m)'
    BY <1>0, <1>2, <1>3, <1>4 DEF IInv, Verdict
  <1> QED
    BY <1>6, <1>7, <1>8, <1>9, <1>10 DEF IInv

\* A waiting thread that wakes up or dies stays counted as idle.
LEMMA WaiterInv ==
    ASSUME IInv, NEW t \in Threads, SpuriousWakeup(t) \/ Interrupt(t),
           NEW m, Masters = {m}
    PROVE  IInv'
  <1>0. m \in Masters /\ m \in Threads /\ m \notin Workers
    BY CheckQueueAssumption DEF Threads
  <1>1. PICK to \in {"woken", "dead"} :
            pc' = [pc EXCEPT ![t] = to] /\ (to = "dead" => t \in Workers)
    BY DEF SpuriousWakeup, Interrupt
  <1>2. /\ pc[t] = "wait"
        /\ mutex' = mutex /\ nIdle' = nIdle
        /\ nTotal' = nTotal /\ queue' = queue /\ nTodo' = nTodo /\ fAllOk' = fAllOk
        /\ vChecks' = vChecks /\ fOk' = fOk /\ round' = round /\ aborted' = aborted
        /\ fRet' = fRet
    BY DEF SpuriousWakeup, Interrupt, shared, history
  <1>3. pc \in [Threads -> PCs]
    BY DEF IInv, Types, PCs
  <1>4. Pending' = Pending /\ Insiders' = Insiders /\ Idlers' = Idlers
    BY <1>1, <1>2, <1>3 DEF Pending, Insiders, Idlers
  <1>5. Types'
    BY <1>1, <1>2, <1>3 DEF IInv, Types, PCs
  <1>6. Places'
    BY <1>0, <1>1, <1>2, <1>3 DEF IInv, Places, Threads
  <1>7. Apart' /\ Counters'
    BY <1>2, <1>4 DEF IInv, Apart, Counters
  <1>8. Verdict(m)'
    BY <1>0, <1>1, <1>2, <1>3, <1>4 DEF IInv, Verdict
  <1> QED
    BY <1>5, <1>6, <1>7, <1>8 DEF IInv

LEMMA TakeInv ==
    ASSUME IInv, NEW t \in Threads, Take(t), NEW m, Masters = {m}
    PROVE  IInv'
  <1>0. m \in Masters /\ m \in Threads /\ m \notin Workers /\ t # NoThread
    BY CheckQueueAssumption DEF Threads
  <1>1. PICK batch \in SUBSET queue :
            /\ Cardinality(batch) = BatchSize
            /\ queue' = queue \ batch
            /\ vChecks' = [vChecks EXCEPT ![t] = batch]
    BY DEF Take
  <1>2. /\ pc[t] = "test" /\ nIdle' = nIdle
        /\ pc' = [pc EXCEPT ![t] = "work"] /\ mutex' = NoThread
        /\ fOk' = [fOk EXCEPT ![t] = fAllOk]
        /\ nTotal' = nTotal /\ nTodo' = nTodo /\ fAllOk' = fAllOk
        /\ round' = round /\ aborted' = aborted /\ fRet' = fRet
    BY DEF Take, history
  <1>3. pc \in [Threads -> PCs] /\ mutex = t
        /\ vChecks \in [Threads -> SUBSET Checks] /\ vChecks[t] = {}
    BY <1>2 DEF IInv, Types, PCs, Places
  <1>4. batch # {}
    <2>1. BatchSize # 0
      <3>1. Cardinality(queue) \in Nat /\ nTotal \in Nat /\ nIdle \in Nat
        BY FiniteSets_, CheckQueueAssumption, FS_Subset, FS_CardinalityType
           DEF IInv, Types, Counters
      <3>2. Cardinality(queue) \div (nTotal + nIdle + 1) \in Int
        BY <3>1
      <3> QED
        BY <3>2, CheckQueueAssumption DEF BatchSize
    <2> QED
      BY <1>1, <2>1, FS_EmptySet
  <1>5. Pending' = Pending
    BY <1>1, <1>3 DEF Pending
  <1>6. Insiders' = Insiders /\ Idlers' = Idlers
    BY <1>1, <1>2, <1>3 DEF Insiders, Idlers
  <1>7. fOk' \in [Threads -> BOOLEAN] /\ fOk'[t] = fAllOk
        /\ \A u \in Threads \ {t} : fOk'[u] = fOk[u]
    BY <1>2, Zenon DEF IInv, Types
  <1>8. Types'
    <2>1. queue' \in SUBSET Checks /\ vChecks' \in [Threads -> SUBSET Checks]
      BY <1>1, <1>3 DEF IInv, Types
    <2> QED
      BY <1>2, <1>3, <1>7, <2>1 DEF IInv, Types, PCs
  <1>9. Places'
    <2>1. Places /\ \A u \in Threads : u # NoThread
      BY CheckQueueAssumption DEF IInv, Threads
    <2>2. \A u \in Threads : pc'[u] = "test" <=> mutex' = u
      BY <1>2, <1>3, <2>1 DEF Places
    <2>3. \A u \in Threads : /\ vChecks'[u] # {} => pc'[u] \in {"work", "enter"}
                             /\ pc'[u] = "work" => vChecks'[u] # {}
      BY <1>1, <1>2, <1>3, <1>4, <2>1 DEF Places
    <2>4. /\ \A w \in Workers : pc'[w] \notin {"closed", "open"}
          /\ \A x \in Masters : pc'[x] # "dead"
      BY <1>2, <1>3, <2>1 DEF Places, Threads
    <2> QED
      BY <2>2, <2>3, <2>4 DEF Places
  <1>10. Apart'
    BY <1>1, <1>3 DEF IInv, Apart
  <1>11. Counters'
    BY <1>2, <1>5, <1>6 DEF IInv, Counters
  <1>12. Verdict(m)'
    <2>1. Verdict(m)
      BY <1>0 DEF IInv
    <2>2. pc[m] # "closed" /\ pc'[m] # "closed"
      <3>1. Pending # {}
        BY <1>4 DEF Pending
      <3> QED
        BY <1>0, <1>2, <1>3, <2>1, <3>1 DEF Verdict
    <2>3. \A u \in Threads : vChecks'[u] # {} =>
              /\ ~fOk'[u] => round'[m] \cap Failing # {}
              /\ pc'[u] = "enter" /\ fOk'[u] => vChecks'[u] \cap Failing = {}
      <3> SUFFICES ASSUME NEW u \in Threads, vChecks'[u] # {}
                   PROVE  /\ ~fOk'[u] => round'[m] \cap Failing # {}
                          /\ pc'[u] = "enter" /\ fOk'[u] => vChecks'[u] \cap Failing = {}
        OBVIOUS
      <3>1. CASE u = t
        BY <1>2, <1>3, <1>7, <2>1, <2>2, <3>1 DEF Verdict
      <3>2. CASE u # t
        BY <1>1, <1>2, <1>3, <1>7, <2>1, <3>2 DEF Verdict
      <3> QED
        BY <3>1, <3>2
    <2> QED
      BY <1>2, <1>5, <2>1, <2>2, <2>3 DEF Verdict
  <1> QED
    BY <1>8, <1>9, <1>10, <1>11, <1>12 DEF IInv

LEMMA ExecuteInv ==
    ASSUME IInv, NEW t \in Threads, Execute(t), NEW m, Masters = {m}
    PROVE  IInv'
  <1>0. m \in Masters /\ m \in Threads /\ m \notin Workers
    BY CheckQueueAssumption DEF Threads
  <1>2. /\ pc[t] = "work" /\ pc' = [pc EXCEPT ![t] = "enter"]
        /\ mutex' = mutex /\ nIdle' = nIdle
        /\ nTotal' = nTotal /\ queue' = queue /\ nTodo' = nTodo /\ fAllOk' = fAllOk
        /\ vChecks' = vChecks /\ round' = round /\ aborted' = aborted /\ fRet' = fRet
    BY DEF Execute, shared, history
  <1>3. pc \in [Threads -> PCs] /\ vChecks[t] # {}
    BY <1>2 DEF IInv, Types, PCs, Places
  <1>4. Pending' = Pending /\ Insiders' = Insiders /\ Idlers' = Idlers
    BY <1>2, <1>3 DEF Pending, Insiders, Idlers
  <1>5. fOk' \in [Threads -> BOOLEAN]
        /\ (fOk'[t] <=> fOk[t] /\ vChecks[t] \cap Failing = {})
        /\ \A u \in Threads \ {t} : fOk'[u] = fOk[u]
    BY Zenon DEF Execute, IInv, Types
  <1>6. Types'
    BY <1>2, <1>3, <1>5 DEF IInv, Types, PCs
  <1>7. Places'
    BY <1>0, <1>2, <1>3 DEF IInv, Places, Threads
  <1>8. Apart' /\ Counters'
    BY <1>2, <1>4 DEF IInv, Apart, Counters
  <1>9. Verdict(m)'
    <2>1. Verdict(m) /\ vChecks[t] \subseteq round[m]
      BY <1>0 DEF IInv, Verdict, Pending
    <2>2. pc'[m] = "closed" <=> pc[m] = "closed"
      BY <1>0, <1>2, <1>3
    <2>3. \A u \in Threads : vChecks'[u] # {} =>
              /\ ~fOk'[u] => round'[m] \cap Failing # {}
              /\ pc'[u] = "enter" /\ fOk'[u] => vChecks'[u] \cap Failing = {}
      BY <1>2, <1>3, <1>5, <2>1 DEF Verdict
    <2> QED
      BY <1>2, <1>4, <2>1, <2>2, <2>3 DEF Verdict
  <1> QED
    BY <1>6, <1>7, <1>8, <1>9 DEF IInv

LEMMA StutterInv ==
    ASSUME IInv, UNCHANGED vars
    PROVE  IInv'
  <1>1. Pending' = Pending /\ Insiders' = Insiders /\ Idlers' = Idlers
    BY DEF vars, Pending, Insiders, Idlers
  <1> QED
    BY <1>1 DEF vars, IInv, Types, Places, Apart, Counters, Verdict

LEMMA NextInv ==
    ASSUME NEW m, Masters = {m}
    PROVE  IInv /\ [Next]_vars => IInv'
  <1> SUFFICES ASSUME IInv, [Next]_vars PROVE IInv'
    OBVIOUS
  <1>1. CASE \E x \in Masters : Open(x) \/ Wait(x)
    BY <1>1, OpenInv, WaitInv
  <1>2. CASE \E x \in Masters, batch \in SUBSET Checks : Add(x, batch)
    BY <1>2, AddInv
  <1>3. ASSUME NEW t \in Threads, Step(t) \/ SpuriousWakeup(t) \/ Interrupt(t)
        PROVE  IInv'
    BY <1>3, EnterInv, ReturnInv, SleepInv, WakeInv, TakeInv, ExecuteInv, WaiterInv
       DEF Step
  <1>4. CASE UNCHANGED vars
    BY <1>4, StutterInv
  <1> QED
    BY <1>1, <1>2, <1>3, <1>4 DEF Next

\* What the inductive invariant says about the properties of CheckQueue.
LEMMA InvImplies ==
    ASSUME NEW m, Masters = {m}
    PROVE  IInv => TypeOK /\ TodoExact /\ WaitSound /\ QueueReusable
  <1> SUFFICES ASSUME IInv PROVE TypeOK /\ TodoExact /\ WaitSound /\ QueueReusable
    OBVIOUS
  <1>1. TodoExact /\ WaitSound
    BY DEF IInv, Counters, Verdict, TodoExact, WaitSound
  <1>2. TypeOK
    <2>1. /\ Cardinality(Idlers) \in 0 .. Cardinality(Threads)
          /\ Cardinality(Insiders) \in 0 .. Cardinality(Threads)
      <3>1. Idlers \in SUBSET Threads /\ Insiders \in SUBSET Threads
        BY DEF Idlers, Insiders
      <3>2. IsFiniteSet(Threads) /\ Cardinality(Threads) \in Nat
        BY FiniteSets_, FS_CardinalityType DEF IInv
      <3>3. Cardinality(Idlers) \in Nat /\ Cardinality(Insiders) \in Nat
        BY FiniteSets_ DEF IInv
      <3>4. Cardinality(Idlers) <= Cardinality(Threads)
            /\ Cardinality(Insiders) <= Cardinality(Threads)
        BY <3>1, <3>2, FS_Subset
      <3> QED
        BY <3>2, <3>3, <3>4
    <2>2. nTodo \in Nat
      BY FiniteSets_ DEF IInv, Counters
    <2> QED
      BY <2>1, <2>2 DEF IInv, Types, Counters, TypeOK
  <1>3. QueueReusable
    <2> SUFFICES ASSUME mutex = NoThread, \A x \in Masters : pc[x] = "closed",
                        \A w \in Workers : pc[w] = "enter" => vChecks[w] # {}
                 PROVE  QueueLooksUnused
      BY DEF QueueReusable
    <2>1. Pending = {} /\ fAllOk
      BY DEF IInv, Verdict
    <2>2. \A t \in Threads : vChecks[t] = {}
      BY <2>1 DEF Pending
    <2>3. \A t \in Threads : pc[t] \notin {"test", "work"}
      BY <2>2, CheckQueueAssumption DEF IInv, Places, Threads
    <2>4. Insiders = Idlers
      BY <2>2, <2>3 DEF Insiders, Idlers
    <2>5. nTodo = 0
      BY <2>1, FS_EmptySet DEF IInv, Counters
    <2> QED
      BY <2>1, <2>4, <2>5 DEF IInv, Counters, QueueLooksUnused
  <1> QED
    BY <1>1, <1>2, <1>3

-----------------------------------------------------------------------------
\* CCheckQueue with one master, any number of workers, any checks, any batch
\* size: the counters count exactly what their comments say, the verdict Wait
\* returns is the conjunction of exactly this control's checks, and after it
\* the queue is as good as new.
THEOREM CheckQueueSafe ==
    ASSUME NEW m, Masters = {m}
    PROVE  Spec => [](TypeOK /\ TodoExact /\ WaitSound /\ QueueReusable)
  <1>1. Init => IInv
    BY InitInv
  <1>2. IInv /\ [Next]_vars => IInv'
    BY NextInv
  <1>3. IInv => TypeOK /\ TodoExact /\ WaitSound /\ QueueReusable
    BY InvImplies
  <1> QED
    BY <1>1, <1>2, <1>3, PTL DEF Spec
=============================================================================
