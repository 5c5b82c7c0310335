----------------------- MODULE BitcoinLottery_proofs ------------------------
(***************************************************************************)
(* For every tree of headers and every number of crashes: what a crash     *)
(* leaves on the disk can be loaded, unless it comes between the very      *)
(* first two writes, the active Bitcoin chain is on it, and it is the best *)
(* of those received since the program started.                            *)
(*                                                                         *)
(* For every history of blocks connected and disconnected and of keys that *)
(* arrive: the Bitcoin hash that decides a draw is later than its bets, a  *)
(* key that has been given for a draw is not forgotten, a block stays      *)
(* acceptable, winning tickets are counted right, and no draw takes more   *)
(* than four fifths of the pool, in 64-bit integers and rounded doubles.   *)
(***************************************************************************)
EXTENDS HeaderSync, Lottery, FiniteSetTheorems, WellFoundedInduction, TLAPS

-----------------------------------------------------------------------------
(* Chains of headers *)

\* A header is on its own chain, and the chains of its ancestors are part of it.
LEMMA ChainBasics ==
    ASSUME NEW x \in Headers
    PROVE  /\ x \in Chain[x] /\ Start \in Chain[x] /\ Chain[x] \subseteq Headers
           /\ \A y \in Chain[x] : y \in Headers /\ Chain[y] \subseteq Chain[x]
<1>1. CASE x = Start
  BY <1>1, BitcoinChainAssumption
<1>2. CASE x # Start
  BY <1>2, BitcoinChainAssumption
<1>3. QED
  BY <1>1, <1>2

\* The parent of a header that is not the start block is on its chain.
LEMMA ParentOnChain ==
    ASSUME NEW x \in Headers \ {Start}
    PROVE  /\ Prev[x] \in Headers /\ Prev[x] \in Chain[x]
           /\ Chain[x] = Chain[Prev[x]] \cup {x}
<1>1. Prev[x] \in Headers /\ Chain[x] = Chain[Prev[x]] \cup {x}
  BY BitcoinChainAssumption
<1>2. Prev[x] \in Chain[Prev[x]]
  BY <1>1, ChainBasics
<1>3. QED
  BY <1>1, <1>2

\* On one chain, the header above another one is its child.
LEMMA NextIsChild ==
    ASSUME NEW m \in Headers, NEW a \in Chain[m], NEW x \in Chain[m],
           Height[x] = Height[a] + 1
    PROVE  x # Start /\ Prev[x] = a
<1>1. a \in Headers /\ x \in Headers /\ Height[a] \in Nat /\ Height[x] \in Nat
  <2>1. a \in Headers /\ x \in Headers
    BY ChainBasics
  <2>2. QED
    BY <2>1, BitcoinChainAssumption
<1>2. \A y, z \in Chain[m] : (Height[y] <= Height[z] => y \in Chain[z]) /\ (Height[y] = Height[z] => y = z)
  BY BitcoinChainAssumption
<1>3. x # Start
  <2>1. SUFFICES ASSUME x = Start PROVE FALSE
    OBVIOUS
  <2>2. a \in Chain[x]
    BY <1>1, <1>2
  <2>3. a = Start
    BY <2>1, <2>2, BitcoinChainAssumption
  <2>4. QED
    BY <2>1, <2>3, <1>1
<1>4. Prev[x] \in Chain[m]
  BY <1>1, <1>3, ParentOnChain, ChainBasics
<1>5. Height[x] = Height[Prev[x]] + 1 /\ Height[Prev[x]] \in Nat
  BY <1>1, <1>3, BitcoinChainAssumption
<1>6. Height[Prev[x]] = Height[a]
  BY <1>1, <1>5
<1>7. QED
  BY <1>2, <1>3, <1>4, <1>6

-----------------------------------------------------------------------------
(* The inductive invariant *)

Disk == [index : SUBSET Headers, best : Headers \cup {None}]

\* The stored headers reach down to the start block and the best hash is one of
\* them; without one there is at most the start block.
Closed(d) ==
    /\ d \in Disk
    /\ \A x \in d.index : Chain[x] \subseteq d.index
    /\ d.best # None => d.best \in d.index
    /\ d.best = None => d.index \subseteq {Start}

\* An active chain has a best hash on the disk.
Started == chainActiveBitcoin # None => disk.best # None

\* The headers known reach down to the start block.
MapClosed ==
    /\ mapBitcoinBlockIndex \subseteq Headers
    /\ \A x \in mapBitcoinBlockIndex : Chain[x] \subseteq mapBitcoinBlockIndex

\* The tips are known headers, and NULL only where the code copes with it.
Tips ==
    /\ chainMostWorkBitcoin \in mapBitcoinBlockIndex \cup {None}
    /\ chainActiveBitcoin \in mapBitcoinBlockIndex \cup {None}
    /\ pindexOldTip \in mapBitcoinBlockIndex \cup {None}
    /\ pc \in {"down", "idle", "connect"}
    /\ pc # "down" => Start \in mapBitcoinBlockIndex
    /\ pc = "down" => mapBitcoinBlockIndex = {} /\ chainMostWorkBitcoin = None
    /\ pc = "idle" => chainActiveBitcoin # None
    /\ pc = "connect" => chainMostWorkBitcoin # None

\* Every candidate is at most as good as chainMostWorkBitcoin, which is active
\* between two headers.
Best ==
    /\ setBitcoinBlockIndexValid \subseteq mapBitcoinBlockIndex
    /\ \A x \in setBitcoinBlockIndexValid :
          chainMostWorkBitcoin # None /\ Work[x] <= Work[chainMostWorkBitcoin]
    /\ pc = "idle" /\ chainMostWorkBitcoin # None => chainActiveBitcoin = chainMostWorkBitcoin

Counters == crashes \in 0..MaxCrash

IInv ==
    /\ \A d \in older \cup {disk} : Closed(d)
    /\ MapClosed
    /\ Tips
    /\ Best
    /\ ActiveStored
    /\ Started
    /\ Counters

LEMMA IInvInit == Init => IInv
<1> SUFFICES ASSUME Init PROVE IInv
  OBVIOUS
<1> USE BitcoinChainAssumption
<1>1. \A d \in older \cup {disk} : Closed(d)
  BY DEF Init, Closed, Empty, Disk
<1>2. MapClosed /\ Tips /\ Best /\ ActiveStored /\ Started /\ Counters
  BY DEF Init, MapClosed, Tips, Best, ActiveStored, Active, Started, Counters
<1>3. QED
  BY <1>1, <1>2 DEF IInv

\* The new header takes the place of chainMostWorkBitcoin only if it is better.
LEMMA AddKeeps ==
    ASSUME IInv, NEW x \in Headers, AddToBlockIndex(x),
           x = Start \/ Prev[x] \in mapBitcoinBlockIndex,
           UNCHANGED <<chainActiveBitcoin, stored, crashes>>,
           x = Start => pc = "down",
           pc = "down" => x = Start
    PROVE  IInv'
<1> USE DEF AddToBlockIndex
<1>1. (\A d \in older \cup {disk} : Closed(d))'
  BY DEF IInv, Closed, stored
<1>2. MapClosed'
  <2>1. Chain[x] \subseteq mapBitcoinBlockIndex \cup {x}
    <3>1. CASE x = Start
      BY <3>1, BitcoinChainAssumption
    <3>2. CASE x # Start
      BY <3>2, ParentOnChain DEF IInv, MapClosed
    <3>3. QED
      BY <3>1, <3>2
  <2>2. QED
    BY <2>1 DEF IInv, MapClosed
<1>3. None \notin mapBitcoinBlockIndex' /\ x # None
  BY BitcoinChainAssumption DEF IInv, MapClosed
<1>4. Tips'
  <2>1. Start \in mapBitcoinBlockIndex'
    BY DEF IInv, Tips
  <2>2. chainMostWorkBitcoin' \in mapBitcoinBlockIndex'
    BY DEF IInv, Tips, Improves
  <2>3. chainActiveBitcoin' \in mapBitcoinBlockIndex' \cup {None} /\ pindexOldTip' = chainActiveBitcoin'
    BY DEF IInv, Tips
  <2>4. pc' = "connect"
    OBVIOUS
  <2>5. QED
    BY <1>3, <2>1, <2>2, <2>3, <2>4 DEF Tips
<1>5. Best'
  <2>1. \A y \in mapBitcoinBlockIndex' : Work[y] \in Nat
    BY BitcoinChainAssumption DEF IInv, MapClosed
  <2>2. CASE Improves(x)
    BY <2>1, <2>2, <1>3, BitcoinChainAssumption DEF IInv, Best, Tips, MapClosed, Improves
  <2>3. CASE ~Improves(x)
    BY <2>1, <2>3, <1>3, BitcoinChainAssumption DEF IInv, Best, Tips, MapClosed, Improves
  <2>4. QED
    BY <2>2, <2>3
<1>6. ActiveStored' /\ Started' /\ Counters'
  BY DEF IInv, ActiveStored, Active, Started, Counters, stored
<1>7. QED
  BY <1>1, <1>2, <1>4, <1>5, <1>6 DEF IInv

LEMMA DisconnectKeeps == IInv /\ DisconnectTip => IInv'
<1> SUFFICES ASSUME IInv, DisconnectTip PROVE IInv'
  OBVIOUS
<1> USE DEF DisconnectTip
<1>1. /\ chainActiveBitcoin \in Headers \ {Start} /\ chainActiveBitcoin \in mapBitcoinBlockIndex
      /\ chainMostWorkBitcoin \in Headers
  <2>1. chainMostWorkBitcoin \in Headers /\ chainActiveBitcoin \in mapBitcoinBlockIndex
    BY DEF IInv, Tips, MapClosed
  <2>2. Start \in Chain[chainMostWorkBitcoin]
    BY <2>1, ChainBasics
  <2>3. QED
    BY <2>1, <2>2 DEF IInv, MapClosed
<1>2. /\ Prev[chainActiveBitcoin] \in mapBitcoinBlockIndex /\ Prev[chainActiveBitcoin] \in Headers
      /\ Chain[Prev[chainActiveBitcoin]] \subseteq Chain[chainActiveBitcoin]
  BY <1>1, ParentOnChain DEF IInv, MapClosed
<1>3. (\A d \in older \cup {disk} : Closed(d))' /\ MapClosed' /\ Counters'
  BY DEF IInv, Closed, stored, MapClosed, Counters
<1>4. Tips' /\ Best'
  BY <1>2 DEF IInv, Tips, Best
<1>5. ActiveStored' /\ Started'
  BY <1>1, <1>2, BitcoinChainAssumption DEF IInv, ActiveStored, Active, Started, stored
<1>6. QED
  BY <1>3, <1>4, <1>5 DEF IInv

\* The header is written above its parent, which is on the disk.
LEMMA ConnectKeeps == IInv /\ ConnectTip => IInv'
<1> SUFFICES ASSUME IInv, ConnectTip PROVE IInv'
  OBVIOUS
<1> USE DEF ConnectTip
<1>1. PICK x \in NextHeader :
         /\ chainActiveBitcoin' = x
         /\ older' = older \cup {disk} \cup Written(x)
         /\ disk' = Stored(x)
  OBVIOUS
<1>2. chainMostWorkBitcoin \in Headers /\ chainMostWorkBitcoin \in mapBitcoinBlockIndex
  BY DEF IInv, Tips, MapClosed
<1>3. x \in Chain[chainMostWorkBitcoin] /\ x \in Headers /\ x \in mapBitcoinBlockIndex /\ x # None
  BY <1>1, <1>2, ChainBasics, BitcoinChainAssumption DEF NextHeader, IInv, MapClosed
<1>4. Chain[x] \subseteq disk.index \cup {x}
  <2>1. CASE chainActiveBitcoin = None
    BY <1>1, <2>1, BitcoinChainAssumption DEF NextHeader
  <2>2. CASE chainActiveBitcoin # None
    <3>1. x # Start /\ Prev[x] = chainActiveBitcoin
      BY <1>1, <1>2, <1>3, <2>2, NextIsChild DEF NextHeader
    <3>2. Chain[x] = Chain[chainActiveBitcoin] \cup {x}
      BY <1>3, <3>1, ParentOnChain
    <3>3. QED
      BY <2>2, <3>2 DEF IInv, ActiveStored, Active
  <2>3. QED
    BY <2>1, <2>2
<1>5. Closed(disk)
  BY DEF IInv
<1>6. Closed([disk EXCEPT !.index = @ \cup {x}])
  <2>1. disk.best = None => x = Start
    BY <1>1 DEF IInv, Started, NextHeader
  <2>2. QED
    BY <1>3, <1>4, <1>5, <2>1 DEF Closed, Disk
<1>7. Closed([index |-> disk.index \cup {x}, best |-> x])
  BY <1>3, <1>4, <1>5 DEF Closed, Disk
<1>8. (\A d \in older \cup {disk} : Closed(d))'
  BY <1>1, <1>6, <1>7 DEF IInv, Written, Stored, Closed
<1>9. MapClosed' /\ Tips' /\ Best' /\ Counters'
  BY <1>1, <1>3 DEF IInv, MapClosed, Tips, Best, Counters
<1>10. ActiveStored' /\ Started'
  BY <1>1, <1>3, <1>4 DEF ActiveStored, Active, Started, Stored
<1>11. QED
  BY <1>8, <1>9, <1>10 DEF IInv

\* What the crash leaves was loadable; memory starts anew.
LEMMA CrashKeeps == IInv /\ Crash => IInv'
<1> SUFFICES ASSUME IInv, Crash PROVE IInv'
  OBVIOUS
<1> USE DEF Crash, Blank
<1>1. (\A d \in older \cup {disk} : Closed(d))'
  BY DEF IInv, Closed
<1>2. MapClosed' /\ Tips' /\ Best' /\ ActiveStored' /\ Started'
  BY BitcoinChainAssumption DEF IInv, MapClosed, Tips, Best, ActiveStored, Active, Started
<1>3. Counters'
  BY BitcoinChainAssumption DEF IInv, Counters
<1>4. QED
  BY <1>1, <1>2, <1>3 DEF IInv

LEMMA LoadKeeps == IInv /\ LoadBitcoinBlockIndex => IInv'
<1> SUFFICES ASSUME IInv, LoadBitcoinBlockIndex PROVE IInv'
  OBVIOUS
<1> USE DEF LoadBitcoinBlockIndex
<1>1. /\ disk.index \subseteq Headers /\ disk.best \in disk.index
      /\ \A x \in disk.index : Chain[x] \subseteq disk.index
  BY DEF IInv, Closed, Disk
<1>2. Start \in disk.index
  BY <1>1, ChainBasics
<1>3. (\A d \in older \cup {disk} : Closed(d))' /\ MapClosed' /\ Counters'
  BY <1>1 DEF IInv, Closed, MapClosed, Counters, stored
<1>4. Tips' /\ Best'
  BY <1>1, <1>2, BitcoinChainAssumption DEF IInv, Tips, Best, LoadedCandidates
<1>5. ActiveStored' /\ Started'
  BY <1>1 DEF ActiveStored, Active, Started, stored
<1>6. QED
  BY <1>3, <1>4, <1>5 DEF IInv

LEMMA IInvNext == IInv /\ [Next]_vars => IInv'
<1> SUFFICES ASSUME IInv, [Next]_vars PROVE IInv'
  OBVIOUS
<1>1. ASSUME NEW x \in Headers \ {Start}, ProcessBitcoinHeader(x) PROVE IInv'
  <2>1. Prev[x] \in mapBitcoinBlockIndex /\ pc # "down"
    BY <1>1 DEF ProcessBitcoinHeader, ParentKnown, IInv, Tips
  <2>2. QED
    BY <1>1, <2>1, AddKeeps DEF ProcessBitcoinHeader
<1>2. ASSUME InitBlockIndex PROVE IInv'
  BY <1>2, AddKeeps, BitcoinChainAssumption DEF InitBlockIndex
<1>3. ASSUME ConnectBestBlock PROVE IInv'
  <2>1. (\A d \in older \cup {disk} : Closed(d))' /\ MapClosed' /\ Counters'
    BY <1>3 DEF ConnectBestBlock, IInv, Closed, stored, memory, MapClosed, Counters
  <2>2. Tips' /\ Best' /\ ActiveStored' /\ Started'
    BY <1>3 DEF ConnectBestBlock, IInv, Tips, Best, ActiveStored, Active, Started, stored, memory
  <2>3. QED
    BY <2>1, <2>2 DEF IInv
<1>4. CASE UNCHANGED vars
  BY <1>4 DEF vars, IInv, Closed, MapClosed, Tips, Best, ActiveStored, Active, Started, Counters, memory, stored
<1>5. QED
  BY <1>1, <1>2, <1>3, <1>4, DisconnectKeeps, ConnectKeeps, CrashKeeps, LoadKeeps DEF Next

-----------------------------------------------------------------------------
\* A stored state of the invariant is loadable but for the one exception.
LEMMA ClosedDisk ==
    ASSUME NEW d, Closed(d)
    PROVE  Loadable(d) \/ d = FirstWrite
<1>1. d = [index |-> d.index, best |-> d.best]
  BY DEF Closed, Disk
<1>2. CASE d.best # None
  BY <1>2 DEF Closed, Loadable
<1>3. CASE d.best = None
  <2>1. d.index = {} \/ d.index = {Start}
    BY <1>3 DEF Closed
  <2>2. QED
    BY <1>1, <1>3, <2>1 DEF Loadable, Empty, FirstWrite
<1>4. QED
  BY <1>2, <1>3

\* What a crash leaves on the disk can be loaded unless it came between the two
\* writes of the first ConnectTip of all, which leaves the start block without a
\* best hash; the active chain is stored, and between two headers it has the most work of the
\* headers received since the start of the program.
THEOREM BitcoinChainSafe == Spec => [](TypeOK /\ DiskClosed /\ ActiveStored /\ SessionBest)
<1>1. IInv => TypeOK /\ DiskClosed /\ ActiveStored /\ SessionBest
  <2> SUFFICES ASSUME IInv PROVE TypeOK /\ DiskClosed /\ ActiveStored /\ SessionBest
    OBVIOUS
  <2>1. TypeOK
    BY DEF IInv, TypeOK, Closed, Disk, MapClosed, Tips, Best, Counters
  <2>2. DiskClosed
    BY ClosedDisk DEF IInv, DiskClosed
  <2>3. ActiveStored
    BY DEF IInv
  <2>4. SessionBest
    BY DEF IInv, SessionBest, Best
  <2>5. QED
    BY <2>1, <2>2, <2>3, <2>4
<1>2. QED
  BY <1>1, IInvInit, IInvNext, PTL DEF Spec

-----------------------------------------------------------------------------
(* The headers that the Bitcoin nodes send are headers that BitcoinChain takes *)

Messages ==
    [cmd : {"version"}] \cup [cmd : {"inv"}, hash : Headers]
        \cup [cmd : {"headers"}, set : SUBSET Headers]

Wire == vHeaders \subseteq Headers /\ tip \in Headers /\ recv \in Seq(Messages)

LEMMA WireInit == SyncInit => Wire
  BY BitcoinChainAssumption DEF SyncInit, Wire

LEMMA WireNext == Wire /\ [SyncNext]_all => Wire'
<1> SUFFICES ASSUME Wire, [SyncNext]_all PROVE Wire'
  OBVIOUS
<1>1. ASSUME NEW x \in Headers \ Elsewhere, NewTip(x) PROVE Wire'
  BY <1>1 DEF NewTip, Messages, Wire
<1>2. ASSUME Answer PROVE Wire'
  <2>1. After(Head(sent)) \subseteq Headers
    BY BitcoinChainAssumption DEF After, Wire
  <2>2. [cmd |-> "headers", set |-> After(Head(sent))] \in Messages
    BY <2>1 DEF Messages
  <2>3. QED
    BY <1>2, <2>2 DEF Answer, Wire
<1>3. ASSUME Receive PROVE Wire'
  <2>1. Head(recv) \in Messages /\ recv' \in Seq(Messages)
    BY <1>3 DEF Receive, Wire
  <2>2. vHeaders' \subseteq Headers
    BY <1>3, <2>1 DEF Receive, Wire, Messages
  <2>3. QED
    BY <1>3, <2>1, <2>2 DEF Receive, Wire
<1>4. ASSUME NEW x \in Elsewhere, OtherNode(x) PROVE Wire'
  BY <1>4, HeaderSyncAssumption DEF OtherNode, Wire
<1>5. ASSUME AddBitcoinHeader PROVE Wire'
  BY <1>5 DEF AddBitcoinHeader, Wire
<1>6. ASSUME Connect PROVE Wire'
  BY <1>6 DEF Connect, Messages, Wire
<1>7. ASSUME Cut \/ Disconnected \/ checkStatus \/ SyncCrash PROVE Wire'
  <2>1. recv' = <<>> /\ tip' = tip /\ (vHeaders' = vHeaders \/ vHeaders' = {})
    BY <1>7 DEF Cut, Disconnected, checkStatus, SyncCrash, Close
  <2>2. QED
    BY <2>1 DEF Wire
<1>8. ASSUME Ping \/ startSync \/ ChainStep PROVE Wire'
  BY <1>8 DEF Ping, startSync, ChainStep, syncVars, Wire
<1>9. CASE UNCHANGED all
  BY <1>9 DEF syncVars, all, Wire
<1>10. QED
  BY <1>1, <1>2, <1>3, <1>4, <1>5, <1>6, <1>7, <1>8, <1>9 DEF SyncNext

\* A step of the composition is a step of BitcoinChain, or none for it.
LEMMA SyncStep == IInv /\ Wire /\ [SyncNext]_all => [Next]_vars
<1> SUFFICES ASSUME IInv, Wire, [SyncNext]_all PROVE [Next]_vars
  OBVIOUS
<1>1. ASSUME AddBitcoinHeader PROVE [Next]_vars
  <2>1. PICK x \in vHeaders :
             UNCHANGED vars \/ (x \notin mapBitcoinBlockIndex /\ ProcessBitcoinHeader(x))
    BY <1>1 DEF AddBitcoinHeader
  <2>2. Start \in mapBitcoinBlockIndex
    BY <1>1 DEF AddBitcoinHeader, IInv, Tips
  <2>3. QED
    BY <2>1, <2>2 DEF Next, Wire
<1>2. ASSUME SyncCrash \/ ChainStep PROVE [Next]_vars
  BY <1>2 DEF SyncCrash, ChainStep, Next
<1>3. ASSUME \/ Answer \/ Cut \/ Connect \/ Disconnected \/ checkStatus \/ Receive \/ Ping
             \/ startSync \/ UNCHANGED all
             \/ \E x \in Headers \ Elsewhere : NewTip(x)
             \/ \E x \in Elsewhere : OtherNode(x)
      PROVE  [Next]_vars
  BY <1>3 DEF Answer, Cut, Connect, Disconnected, checkStatus, Receive, Ping, startSync,
              NewTip, OtherNode, all
<1>4. QED
  BY <1>1, <1>2, <1>3 DEF SyncNext

\* With the nodes of the Bitcoin network in place, whatever they send, whenever their
\* connections end and however often the program crashes: what is on the disk can be
\* loaded, with the same exception, and the active chain is the best that the session has brought.
THEOREM HeaderSyncSafe == SyncSpec => [](DiskClosed /\ SessionBest)
<1>1. SyncInit => IInv /\ Wire
  BY IInvInit, WireInit DEF SyncInit
<1>2. IInv /\ Wire /\ [SyncNext]_all => IInv' /\ Wire'
  BY IInvNext, WireNext, SyncStep
<1>3. IInv => DiskClosed /\ SessionBest
  BY ClosedDisk DEF IInv, DiskClosed, SessionBest, Best
<1>4. QED
  BY <1>1, <1>2, <1>3, PTL DEF SyncSpec

-----------------------------------------------------------------------------
(* The draws                                                               *)

\* An interval is at least one block.
LEMMA Quotient ==
    ASSUME NEW x \in Nat
    PROVE  LET n == nIntervalLottery
               q == x \div n
           IN  q \in Int /\ n * q \in Int /\ n * q <= x /\ x < n * q + n /\ (x % n = 0 <=> x = n * q)
<1> DEFINE n == nIntervalLottery
           q == x \div n
<1>1. n \in Int /\ n > 0 /\ x \in Int
  BY IntervalAssumption
<1> HIDE DEF n
<1>2. q \in Int /\ x % n \in 0..(n - 1) /\ x = n * q + (x % n)
  BY <1>1
<1> HIDE DEF q
<1>3. n * q \in Int
  BY <1>1, <1>2
<1>4. n * q <= x /\ x < n * q + n /\ (x % n = 0 <=> x = n * q)
  <2> DEFINE y == n * q
             r == x % n
  <2>1. y \in Int /\ r \in 0..(n - 1) /\ x = y + r
    BY <1>2, <1>3
  <2> HIDE DEF y, r
  <2>2. y <= x /\ x < y + n /\ (r = 0 <=> x = y)
    BY <1>1, <2>1
  <2> QED  BY <2>2 DEF y, r
<1> QED  BY <1>2, <1>3, <1>4 DEF n, q

\* HashAfterBets for every interval of at least two blocks and every step but 0
\* (-btcheightstep, -intervallotto): GetLotteryHash takes the Bitcoin hash that
\* decides a draw from a block above the one whose bets DrawLottery reads.
THEOREM HashAfter ==
    ASSUME nIntervalLottery > 1, nLottoStep > 0
    PROVE  LotterySpec => []HashAfterBets
<1> DEFINE n == nIntervalLottery
           step == IF nLottoStep >= nIntervalLottery THEN nIntervalLottery - 1 ELSE nLottoStep
<1>1. n \in Int /\ step \in Int /\ 1 <= step /\ step < n
  BY IntervalAssumption
<1>2. HashAfterBets
  <2> SUFFICES ASSUME NEW h \in 1..Len(chain), h > 2 * n + 1
               PROVE  LotteryHeight(h - 1) \in (h - 2 * n + 1)..(h - 1)
    BY DEF HashAfterBets, Drawn
  <2> DEFINE x == h - 1
             q == x \div n
             y == n * q
  <2>1. x \in Nat /\ h \in Int
    OBVIOUS
  <2>2. q \in Int /\ y \in Int /\ y <= x /\ x < y + n
    BY <2>1, Quotient
  <2>3. LotteryHeight(x) = n * (q - 1) + step
    BY DEF LotteryHeight, DrawID
  <2> HIDE DEF n, step, q
  <2>4. n * (q - 1) = y - n
    BY <1>1, <2>2
  <2> HIDE DEF y
  <2>5. y - n + step \in (h - 2 * n + 1)..(h - 1)
    BY <1>1, <2>1, <2>2
  <2> QED  BY <2>3, <2>4, <2>5
<1> QED  BY <1>2, PTL

\* The blocks of a chain with the keys they carry: nobody has one for the first.
Keyed ==
    /\ Len(chain) \in Nat /\ chain \in Seq({chain[i] : i \in 1..Len(chain)})
    /\ \A i \in 1..Len(chain) :
          /\ chain[i].uLottoKey \in {"one", "key", "none"}
          /\ chain[i].uLottoKey = "one" <=> i - 1 <= 2 * nIntervalLottery

LEMMA KeyedInit == LotteryInit => Keyed /\ KeyKept
<1> SUFFICES ASSUME LotteryInit PROVE Keyed /\ KeyKept
  OBVIOUS
<1>1. chain = <<>> /\ Len(chain) = 0
  BY DEF LotteryInit
<1> QED  BY <1>1 DEF Keyed, KeyKept

\* A block in the interval of the one before it follows one that has the key.
LEMMA SameInterval ==
    ASSUME NEW g \in Nat, NEW h \in Nat, g <= h, DrawID(g) = DrawID(h + 1)
    PROVE  DrawID(g) = DrawID(h) /\ (h + 1) % nIntervalLottery # 0
<1> DEFINE n == nIntervalLottery
           a == g \div n
           b == h \div n
           c == (h + 1) \div n
<1>1. n \in Int /\ n > 0 /\ a \in Int /\ b \in Int /\ c \in Int /\ n * a \in Int /\ n * b \in Int /\ n * c \in Int
  BY IntervalAssumption, Quotient
<1>2. a = c
  <2>1. a - 1 = c - 1
    BY DEF DrawID
  <2> HIDE DEF a, c
  <2> QED  BY <1>1, <2>1
<1>3. /\ n * a <= g /\ g < n * a + n /\ n * b <= h /\ h < n * b + n
      /\ n * c <= h + 1 /\ h + 1 < n * c + n /\ ((h + 1) % n = 0 <=> h + 1 = n * c)
  BY Quotient
<1> HIDE DEF n, a, b, c
<1>4. ~(b > a) /\ ~(b < a)
  <2>1. CASE b > a
    <3>1. n * b >= n * (a + 1) /\ n * (a + 1) = n * a + n
      BY <1>1, <2>1
    <3> QED  BY <1>1, <1>2, <1>3, <3>1
  <2>2. CASE b < a
    <3>1. n * a >= n * (b + 1) /\ n * (b + 1) = n * b + n
      BY <1>1, <2>2
    <3> QED  BY <1>1, <1>3, <3>1
  <2> QED  BY <2>1, <2>2
<1>5. a = b
  BY <1>1, <1>4
<1>6. h + 1 # n * c
  BY <1>1, <1>2, <1>3
<1> QED  BY <1>3, <1>5, <1>6 DEF DrawID, n, a, b

\* A chain without its last block.
LEMMA LastRemoved ==
    ASSUME NEW s, s \in Seq({s[i] : i \in 1..Len(s)}), s # <<>>
    PROVE  LET c == SubSeq(s, 1, Len(s) - 1)
           IN  /\ Len(s) - 1 \in Nat /\ Len(c) = Len(s) - 1 /\ c \in Seq({c[i] : i \in 1..Len(c)})
               /\ \A i \in 1..(Len(s) - 1) : i \in 1..Len(s) /\ c[i] = s[i]
<1> DEFINE S == {s[i] : i \in 1..Len(s)}
           m == Len(s) - 1
           c == SubSeq(s, 1, m)
<1>1. m \in Nat /\ m <= Len(s) /\ s \in Seq(S)
  OBVIOUS
<1> HIDE DEF m, S
<1>2. \A i \in 1..m : s[i] \in S
  BY <1>1
<1>3. c = [i \in 1..m |-> s[i]]
  BY <1>1
<1>4. c \in Seq(S) /\ Len(c) = m /\ \A i \in 1..m : c[i] = s[i]
  BY <1>1, <1>2, <1>3
<1> HIDE DEF c
<1>5. c \in Seq({c[i] : i \in 1..Len(c)})
  BY <1>4
<1>6. \A i \in 1..m : i \in 1..Len(s)
  BY <1>1
<1> QED  BY <1>1, <1>4, <1>5, <1>6 DEF m, c

LEMMA KeyedNext ==
    ASSUME Keyed, KeyKept, [LotteryNext]_lotteryVars
    PROVE  Keyed' /\ KeyKept'
<1> DEFINE L == Len(chain)
           S == {chain[i] : i \in 1..Len(chain)}
<1>0. L \in Nat /\ chain \in Seq(S)
  BY DEF Keyed
<1>1. CASE UNCHANGED chain
  BY <1>1 DEF Keyed, KeyKept, Drawn
<1>2. CASE DisconnectBlock
  <2> DEFINE c == SubSeq(chain, 1, L - 1)
  <2>1. chain # <<>> /\ chain' = c
    BY <1>2 DEF DisconnectBlock
  <2>2. /\ L - 1 \in Nat /\ Len(c) = L - 1 /\ c \in Seq({c[i] : i \in 1..Len(c)})
        /\ \A i \in 1..(L - 1) : i \in 1..L /\ c[i] = chain[i]
    BY <1>0, <2>1, LastRemoved
  <2> HIDE DEF c, S
  <2>5. Len(chain') = L - 1 /\ \A i \in 1..(L - 1) : i \in 1..L /\ chain'[i] = chain[i]
    BY <2>1, <2>2
  <2>6. Keyed'
    BY <2>1, <2>2, <2>5 DEF Keyed
  <2>7. KeyKept'
    <3>1. L - 1 \in Nat
      BY <2>2
    <3> QED  BY <1>0, <2>5, <3>1 DEF KeyKept, Drawn
  <2> QED  BY <2>6, <2>7
<1>3. CASE ConnectBlock
  <2>1. PICK bets, h, known : LET b == CreateNewBlock(chain, known, bets, h)
                              IN  ~KeyMissing(chain, b.uLottoKey) /\ chain' = Append(chain, b)
    BY <1>3 DEF ConnectBlock
  <2> DEFINE b == CreateNewBlock(chain, known, bets, h)
             c == Append(chain, b)
  <2>2. b.uLottoKey = GetLotteryKey(known, L)
    BY DEF CreateNewBlock
  <2>3. ~KeyMissing(chain, b.uLottoKey) /\ chain' = c
    BY <2>1
  <2> HIDE DEF b, S
  <2>4. c \in Seq(S \cup {b}) /\ Len(c) = L + 1 /\ c[L + 1] = b /\ \A i \in 1..L : c[i] = chain[i]
    <3>1. S \subseteq S \cup {b} /\ b \in S \cup {b}
      OBVIOUS
    <3>2. chain \in Seq(S \cup {b})
      BY <1>0, <3>1
    <3> QED  BY <1>0, <3>1, <3>2
  <2> HIDE DEF c
  <2>5. c \in Seq({c[i] : i \in 1..Len(c)})
    BY <2>4
  <2>6. \A i \in 1..(L + 1) : i = L + 1 \/ i \in 1..L
    BY <1>0
  <2>7. b.uLottoKey \in {"one", "key", "none"} /\ (b.uLottoKey = "one" <=> L <= 2 * nIntervalLottery)
    BY <2>2 DEF GetLotteryKey
  <2>8. Keyed'
    <3>1. Len(chain') \in Nat /\ chain' \in Seq({chain'[i] : i \in 1..Len(chain')}) /\ Len(chain') = L + 1
      BY <1>0, <2>3, <2>4, <2>5
    <3>2. ASSUME NEW i \in 1..(L + 1)
          PROVE  /\ chain'[i].uLottoKey \in {"one", "key", "none"}
                 /\ chain'[i].uLottoKey = "one" <=> i - 1 <= 2 * nIntervalLottery
      <4>1. CASE i = L + 1
        <5>1. i - 1 = L
          BY <1>0, <4>1
        <5> QED  BY <2>3, <2>4, <2>7, <4>1, <5>1
      <4>2. CASE i \in 1..L
        BY <2>3, <2>4, <4>2 DEF Keyed
      <4> QED  BY <2>6, <4>1, <4>2
    <3> QED  BY <3>1, <3>2 DEF Keyed
  <2>9. KeyKept'
    <3> SUFFICES ASSUME NEW g \in 1..(L + 1), NEW k \in g..(L + 1),
                        g > 2 * nIntervalLottery + 1, c[g].uLottoKey = "key", DrawID(g - 1) = DrawID(k - 1)
                 PROVE  c[k].uLottoKey = "key"
      BY <2>3, <2>4 DEF KeyKept, Drawn
    <3>0. g \in Int /\ k \in Int /\ nIntervalLottery \in Int /\ g <= k /\ k <= L + 1 /\ 1 <= g
      BY <1>0, IntervalAssumption
    <3>1. CASE k # L + 1
      <4>1. k \in 1..L /\ g \in 1..L /\ k \in g..L
        BY <1>0, <3>0, <3>1
      <4>2. c[g] = chain[g] /\ c[k] = chain[k]
        BY <2>4, <4>1
      <4> QED  BY <4>1, <4>2 DEF KeyKept, Drawn
    <3>2. CASE g = L + 1
      <4>1. k = g
        BY <1>0, <3>0, <3>2
      <4> QED  BY <4>1
    <3>3. CASE k = L + 1 /\ g # L + 1
      <4>1. g \in 1..L /\ L \in g..L /\ g - 1 \in Nat /\ L - 1 \in Nat /\ g - 1 <= L - 1 /\ (L - 1) + 1 = L
        BY <1>0, <3>0, <3>3
      <4>2. k - 1 = L
        BY <1>0, <3>3
      <4>3. DrawID(g - 1) = DrawID(L - 1) /\ L % nIntervalLottery # 0
        <5> DEFINE x == g - 1
                   y == L - 1
        <5>1. x \in Nat /\ y \in Nat /\ x <= y /\ DrawID(x) = DrawID(y + 1)
          BY <4>1, <4>2
        <5> HIDE DEF x, y
        <5>2. DrawID(x) = DrawID(y) /\ (y + 1) % nIntervalLottery # 0
          BY <5>1, SameInterval
        <5> QED  BY <4>1, <5>2 DEF x, y
      <4>4. chain[g].uLottoKey = "key"
        BY <2>4, <4>1
      <4>5. chain[L].uLottoKey = "key"
        BY <4>1, <4>3, <4>4 DEF KeyKept, Drawn
      <4>6. chain # <<>>
        BY <4>1
      <4>7. b.uLottoKey # "none"
        BY <2>3, <4>3, <4>5, <4>6 DEF KeyMissing
      <4>8. ~(L <= 2 * nIntervalLottery)
        BY <1>0, <3>0, <4>1
      <4> QED  BY <2>4, <2>7, <3>3, <4>7, <4>8
    <3> QED  BY <3>1, <3>2, <3>3
  <2> QED  BY <2>8, <2>9
<1> QED  BY <1>1, <1>2, <1>3 DEF LotteryNext, Publish, lotteryVars

\* KeyKept for every interval: ConnectBlock accepts no block without the key after
\* one of its interval that has it, and no reorganisation or late key undoes that.
THEOREM KeysKept == LotterySpec => []KeyKept
<1>1. Keyed /\ KeyKept /\ [LotteryNext]_lotteryVars => Keyed' /\ KeyKept'
  BY KeyedNext
<1> QED  BY <1>1, KeyedInit, PTL DEF LotterySpec

-----------------------------------------------------------------------------
(* Induction and sums                                                      *)

\* A set of natural numbers has a least one, ...
LEMMA Least ==
    ASSUME NEW T, T \subseteq Nat, T # {}
    PROVE  \E x \in T : \A y \in T : x <= y
<1> DEFINE R == {ss \in Nat \X Nat : ss[1] < ss[2]}
<1>1. IsWellFoundedOn(R, Nat)
  BY NatLessThanWellFounded, Zenon DEF OpToRel
<1> HIDE DEF R
<1>2. PICK x \in T : \A y \in T : ~(<<y, x>> \in R)
  BY <1>1, WFMin, Zenon
<1>3. ASSUME NEW y \in T PROVE x <= y
  <2>1. ~(<<y, x>> \in R)
    BY <1>2
  <2> QED  BY <2>1 DEF R
<1> QED  BY <1>2, <1>3

\* ... so what holds of 0 and of each successor holds of all, said of the set S
\* of those it holds of.
LEMMA InductionOn ==
    ASSUME NEW S, 0 \in S, \A n \in Nat : n \in S => n + 1 \in S
    PROVE  \A n \in Nat : n \in S
<1> DEFINE T == Nat \ S
<1>1. SUFFICES ASSUME T # {} PROVE FALSE
  OBVIOUS
<1>2. PICK x \in T : \A y \in T : x <= y
  BY <1>1, Least
<1>3. x \in Nat /\ x # 0 /\ x - 1 \in Nat /\ x - 1 \in S
  BY <1>2
<1>4. (x - 1) + 1 \in S
  BY <1>3
<1> QED  BY <1>2, <1>3, <1>4

\* A function defined by recursion from its value at 0.
Recurs(g, V, a, F, n) == g \in [0..n -> V] /\ g[0] = a /\ \A i \in 1..n : g[i] = F[i][g[i - 1]]

LEMMA Recursion ==
    ASSUME NEW V, NEW a \in V, NEW F \in [Nat -> [V -> V]], NEW n \in Nat
    PROVE  \E g : Recurs(g, V, a, F, n)
<1> USE DEF Recurs
<1> DEFINE Good(m, g) == Recurs(g, V, a, F, m)
           S == {m \in Nat : \E g : Good(m, g)}
<1>1. 0 \in S
  <2> DEFINE g == [i \in 0..0 |-> a]
  <2>1. Good(0, g)
    OBVIOUS
  <2> QED  BY <2>1
<1>2. ASSUME NEW m \in Nat, m \in S PROVE m + 1 \in S
  <2>1. PICK g : Good(m, g)
    BY <1>2
  <2> DEFINE f == [i \in 0..(m + 1) |-> IF i = m + 1 THEN F[i][g[m]] ELSE g[i]]
  <2>2. f \in [0..(m + 1) -> V]
    <3>1. ASSUME NEW i \in 0..(m + 1) PROVE (IF i = m + 1 THEN F[i][g[m]] ELSE g[i]) \in V
      <4>1. CASE i = m + 1
        BY <2>1, <4>1
      <4>2. CASE i # m + 1
        BY <2>1, <4>2
      <4> QED  BY <4>1, <4>2
    <3> QED  BY <3>1
  <2>3. f[0] = a
    BY <2>1
  <2>4. ASSUME NEW i \in 1..(m + 1) PROVE f[i] = F[i][f[i - 1]]
    <3>1. CASE i = m + 1
      BY <2>1, <3>1
    <3>2. CASE i # m + 1
      BY <2>1, <3>2
    <3> QED  BY <3>1, <3>2
  <2> HIDE DEF f
  <2>5. Good(m + 1, f)
    BY <2>2, <2>3, <2>4
  <2>6. m + 1 \in Nat
    OBVIOUS
  <2> QED  BY <2>5, <2>6, Zenon
<1> HIDE DEF S
<1>3. n \in S
  BY <1>1, <1>2, InductionOn
<1>4. PICK g : Good(n, g)
  BY <1>3 DEF S
<1> QED  BY <1>4

\* What Total computes.
LEMMA TotalRule ==
    ASSUME NEW n \in Nat, NEW f, \A i \in 1..n : f[i] \in Int
    PROVE  \E g \in [0..n -> Int] : /\ g[0] = 0 /\ \A i \in 1..n : g[i] = g[i - 1] + f[i]
                                    /\ Total(n, f) = g[n]
<1> DEFINE F == [i \in Nat |-> [x \in Int |-> IF i \in 1..n THEN x + f[i] ELSE 0]]
           s == CHOOSE g : g = [i \in 0..n |-> IF i = 0 THEN 0 ELSE g[i - 1] + f[i]]
<1>1. F \in [Nat -> [Int -> Int]]
  OBVIOUS
<1>2. 0 \in Int
  OBVIOUS
<1> HIDE DEF F
<1>3. PICK g : Recurs(g, Int, 0, F, n)
  BY <1>1, <1>2, Recursion, Zenon
<1> USE <1>3 DEF Recurs
<1>4. ASSUME NEW i \in 1..n PROVE g[i] = g[i - 1] + f[i]
  <2>1. g[i - 1] \in Int /\ i \in Nat
    OBVIOUS
  <2> QED  BY <1>3, <2>1 DEF F
<1>5. g = [i \in 0..n |-> IF i = 0 THEN 0 ELSE g[i - 1] + f[i]]
  <2>1. ASSUME NEW i \in 0..n PROVE g[i] = IF i = 0 THEN 0 ELSE g[i - 1] + f[i]
    BY <1>3, <1>4
  <2>2. g = [i \in 0..n |-> g[i]]
    OBVIOUS
  <2> QED  BY <2>1, <2>2, Zenon
<1>6. s = [i \in 0..n |-> IF i = 0 THEN 0 ELSE s[i - 1] + f[i]]
  BY <1>5, Zenon
<1>7. Total(n, f) = s[n]
  BY DEF Total
<1> HIDE DEF s
<1>8. \A i \in 0..n : s[i] = IF i = 0 THEN 0 ELSE s[i - 1] + f[i]
  BY <1>6, Zenon
<1> DEFINE S == {m \in Nat : m <= n => s[m] \in Int}
<1>9. 0 \in S
  BY <1>8
<1>10. ASSUME NEW m \in Nat, m \in S PROVE m + 1 \in S
  <2> SUFFICES ASSUME m + 1 <= n PROVE s[m + 1] \in Int
    OBVIOUS
  <2>1. m + 1 \in 0..n /\ m + 1 # 0 /\ (m + 1) - 1 = m /\ s[m] \in Int /\ m + 1 \in 1..n
    BY <1>10
  <2>2. s[m + 1] = s[m] + f[m + 1]
    BY <1>8, <2>1
  <2> QED  BY <2>1, <2>2
<1>11. \A m \in Nat : m \in S
  <2> HIDE DEF S
  <2> QED  BY <1>9, <1>10, InductionOn
<1>12. s \in [0..n -> Int]
  <2>1. \A i \in 0..n : s[i] \in Int
    BY <1>11
  <2>2. s = [i \in 0..n |-> s[i]]
    BY <1>6, <1>8, Zenon
  <2> HIDE DEF S
  <2> QED  BY <2>1, <2>2, Zenon
<1>13. s[0] = 0 /\ \A i \in 1..n : s[i] = s[i - 1] + f[i]
  BY <1>8
<1> QED  BY <1>7, <1>12, <1>13, Zenon

\* The first n summands and the next.
LEMMA TotalStep ==
    ASSUME NEW n \in Nat, NEW f, \A i \in 1..(n + 1) : f[i] \in Int
    PROVE  /\ Total(0, f) = 0 /\ Total(n, f) \in Int
           /\ Total(n + 1, f) = Total(n, f) + f[n + 1]
<1>0. 0 \in Nat /\ n + 1 \in Nat /\ (\A i \in 1..0 : f[i] \in Int) /\ \A i \in 1..n : f[i] \in Int
  OBVIOUS
<1>1. Total(0, f) = 0
  BY <1>0, TotalRule
<1>2. PICK g \in [0..n -> Int] : /\ g[0] = 0 /\ \A i \in 1..n : g[i] = g[i - 1] + f[i]
                                 /\ Total(n, f) = g[n]
  BY <1>0, TotalRule
<1>3. PICK h \in [0..(n + 1) -> Int] : /\ h[0] = 0 /\ \A i \in 1..(n + 1) : h[i] = h[i - 1] + f[i]
                                       /\ Total(n + 1, f) = h[n + 1]
  BY <1>0, TotalRule
<1> DEFINE S == {m \in Nat : m <= n => g[m] = h[m]}
<1>4. 0 \in S
  BY <1>2, <1>3
<1>5. ASSUME NEW m \in Nat, m \in S PROVE m + 1 \in S
  <2> SUFFICES ASSUME m + 1 <= n PROVE g[m + 1] = h[m + 1]
    OBVIOUS
  <2>1. m + 1 \in 1..n /\ m + 1 \in 1..(n + 1) /\ (m + 1) - 1 = m /\ g[m] = h[m]
    BY <1>5
  <2> QED  BY <1>2, <1>3, <2>1
<1>6. g[n] = h[n]
  <2> HIDE DEF S
  <2>1. n \in S
    BY <1>4, <1>5, InductionOn
  <2> QED  BY <2>1 DEF S
<1>7. h[n + 1] = h[n] + f[n + 1]
  BY <1>3
<1>8. g[n] \in Int
  OBVIOUS
<1> QED  BY <1>1, <1>2, <1>3, <1>6, <1>7, <1>8

\* Sums of the same numbers, ...
LEMMA TotalSame ==
    ASSUME NEW n \in Nat, NEW f, NEW g, \A i \in 1..n : f[i] \in Int /\ g[i] = f[i]
    PROVE  Total(n, f) = Total(n, g) /\ Total(n, f) \in Int
<1> DEFINE S == {m \in Nat : m <= n => Total(m, f) = Total(m, g) /\ Total(m, f) \in Int}
<1>1. 0 \in S
  <2>1. 0 \in Nat /\ \A i \in 1..0 : f[i] \in Int /\ g[i] \in Int
    OBVIOUS
  <2>2. Total(0, f) = 0 /\ Total(0, g) = 0
    BY <2>1, TotalRule
  <2> QED  BY <2>2
<1>2. ASSUME NEW m \in Nat, m \in S PROVE m + 1 \in S
  <2> SUFFICES ASSUME m + 1 <= n
               PROVE  Total(m + 1, f) = Total(m + 1, g) /\ Total(m + 1, f) \in Int
    OBVIOUS
  <2>1. Total(m, f) = Total(m, g) /\ Total(m, f) \in Int
    BY <1>2
  <2>2. m + 1 \in 1..n /\ \A i \in 1..(m + 1) : f[i] \in Int /\ g[i] \in Int
    OBVIOUS
  <2>3. Total(m + 1, f) = Total(m, f) + f[m + 1] /\ Total(m + 1, g) = Total(m, g) + g[m + 1]
    BY <2>2, TotalStep
  <2> QED  BY <2>1, <2>2, <2>3
<1> HIDE DEF S
<1>3. n \in S
  BY <1>1, <1>2, InductionOn
<1> QED  BY <1>3 DEF S

\* ... of numbers c times and d times those of two others, ...
Combines(n, c, f, d, g, h) ==
    \A i \in 1..n : f[i] \in Int /\ g[i] \in Int /\ h[i] = c * f[i] + d * g[i]

LEMMA TotalLinear ==
    ASSUME NEW n \in Nat, NEW f, NEW g, NEW h, NEW c \in Int, NEW d \in Int, Combines(n, c, f, d, g, h)
    PROVE  /\ Total(n, h) = c * Total(n, f) + d * Total(n, g)
           /\ Total(n, f) \in Int /\ Total(n, g) \in Int /\ Total(n, h) \in Int
<1> USE DEF Combines
<1> DEFINE P(m) == /\ Total(m, h) = c * Total(m, f) + d * Total(m, g)
                   /\ Total(m, f) \in Int /\ Total(m, g) \in Int /\ Total(m, h) \in Int
           S == {m \in Nat : m <= n => P(m)}
<1>0. \A i \in 1..n : h[i] \in Int
  OBVIOUS
<1>1. 0 \in S
  <2>1. 0 \in Nat /\ \A i \in 1..0 : f[i] \in Int /\ g[i] \in Int /\ h[i] \in Int
    OBVIOUS
  <2>2. Total(0, f) = 0 /\ Total(0, g) = 0 /\ Total(0, h) = 0
    BY <2>1, TotalRule
  <2> QED  BY <2>2
<1>2. ASSUME NEW m \in Nat, m \in S PROVE m + 1 \in S
  <2> SUFFICES ASSUME m + 1 <= n PROVE P(m + 1)
    OBVIOUS
  <2> DEFINE x == Total(m, f)
             y == Total(m, g)
             u == f[m + 1]
             v == g[m + 1]
  <2>1. Total(m, h) = c * x + d * y /\ x \in Int /\ y \in Int
    BY <1>2
  <2>2. m + 1 \in 1..n /\ \A i \in 1..(m + 1) : f[i] \in Int /\ g[i] \in Int /\ h[i] \in Int
    BY <1>0
  <2>3. /\ Total(m + 1, f) = x + u /\ Total(m + 1, g) = y + v
        /\ Total(m + 1, h) = Total(m, h) + h[m + 1]
    BY <2>2, TotalStep
  <2>4. u \in Int /\ v \in Int /\ h[m + 1] = c * u + d * v
    BY <2>2
  <2> HIDE DEF x, y, u, v
  <2>5. c * (x + u) = c * x + c * u /\ d * (y + v) = d * y + d * v
    BY <2>1, <2>4
  <2>6. c * x \in Int /\ c * u \in Int /\ d * y \in Int /\ d * v \in Int
    BY <2>1, <2>4
  <2>7. c * x + d * y + (c * u + d * v) = (c * x + c * u) + (d * y + d * v)
    BY <2>6
  <2> QED  BY <2>1, <2>3, <2>4, <2>5, <2>6, <2>7
<1> HIDE DEF S
<1>3. n \in S
  BY <1>1, <1>2, InductionOn
<1> QED  BY <1>3 DEF S

\* ... and of natural numbers: at least each of them, and two together.
LEMMA TotalTerms ==
    ASSUME NEW n \in Nat, NEW f, \A i \in 1..n : f[i] \in Nat
    PROVE  /\ Total(n, f) \in Nat
           /\ \A i \in 1..n : f[i] <= Total(n, f)
           /\ \A i, j \in 1..n : i # j => f[i] + f[j] <= Total(n, f)
<1> DEFINE P(m) == /\ Total(m, f) \in Nat
                   /\ \A i \in 1..m : f[i] <= Total(m, f)
                   /\ \A i, j \in 1..m : i # j => f[i] + f[j] <= Total(m, f)
           S == {m \in Nat : m <= n => P(m)}
<1>1. 0 \in S
  <2>1. 0 \in Nat /\ \A i \in 1..0 : f[i] \in Int
    OBVIOUS
  <2>2. Total(0, f) = 0
    BY <2>1, TotalRule
  <2> QED  BY <2>2
<1>2. ASSUME NEW m \in Nat, m \in S PROVE m + 1 \in S
  <2> SUFFICES ASSUME m + 1 <= n PROVE P(m + 1)
    OBVIOUS
  <2>1. P(m)
    BY <1>2
  <2>2. m + 1 \in 1..n /\ \A i \in 1..(m + 1) : f[i] \in Nat
    OBVIOUS
  <2>3. Total(m + 1, f) = Total(m, f) + f[m + 1]
    BY <2>2, TotalStep
  <2>4. ASSUME NEW i \in 1..(m + 1) PROVE f[i] <= Total(m + 1, f)
    <3>1. i \in 1..m \/ i = m + 1
      OBVIOUS
    <3> QED  BY <2>1, <2>2, <2>3, <3>1
  <2>5. ASSUME NEW i \in 1..(m + 1), NEW j \in 1..(m + 1), i # j PROVE f[i] + f[j] <= Total(m + 1, f)
    <3>1. CASE i \in 1..m /\ j \in 1..m
      <4>1. f[i] + f[j] <= Total(m, f)
        BY <2>1, <2>5, <3>1
      <4> QED  BY <2>1, <2>2, <2>3, <4>1
    <3>2. CASE i = m + 1
      <4>1. j \in 1..m
        BY <2>5, <3>2
      <4>2. f[j] <= Total(m, f)
        BY <2>1, <4>1
      <4> QED  BY <2>1, <2>2, <2>3, <3>2, <4>2
    <3>3. CASE j = m + 1
      <4>1. i \in 1..m
        BY <2>5, <3>3
      <4>2. f[i] <= Total(m, f)
        BY <2>1, <4>1
      <4> QED  BY <2>1, <2>2, <2>3, <3>3, <4>2
    <3> QED  BY <3>1, <3>2, <3>3
  <2>6. Total(m + 1, f) \in Nat
    BY <2>1, <2>2, <2>3
  <2> QED  BY <2>4, <2>5, <2>6
<1> HIDE DEF S
<1>3. n \in S
  BY <1>1, <1>2, InductionOn
<1> QED  BY <1>3 DEF S

LEMMA ValueEmpty == ValueOf(<<>>) = 0
<1>1. 0 \in Nat /\ \A i \in 1..0 : [j \in 1..0 |-> <<>>[j].nValue][i] \in Int
  OBVIOUS
<1>2. Total(0, [j \in 1..0 |-> <<>>[j].nValue]) = 0
  BY <1>1, TotalRule
<1>3. Len(<<>>) = 0
  OBVIOUS
<1> QED  BY <1>2, <1>3 DEF ValueOf

\* What a sequence of amounts is worth with one more.
LEMMA ValueAppend ==
    ASSUME NEW T, \A x \in T : x.nValue \in Int, NEW s \in Seq(T), NEW x \in T
    PROVE  /\ ValueOf(s) \in Int
           /\ ValueOf(Append(s, x)) = ValueOf(s) + x.nValue
<1> DEFINE n == Len(s)
           a == Append(s, x)
           f == [i \in 1..n |-> s[i].nValue]
           g == [i \in 1..(n + 1) |-> a[i].nValue]
<1>1. n \in Nat /\ n + 1 \in Nat /\ \A i \in 1..n : s[i] \in T
  OBVIOUS
<1>2. Len(a) = n + 1 /\ a[n + 1] = x /\ \A i \in 1..n : a[i] = s[i]
  OBVIOUS
<1>3. ValueOf(s) = Total(n, f)
  BY DEF ValueOf
<1>4. ValueOf(a) = Total(n + 1, g)
  BY <1>2 DEF ValueOf
<1>6. \A i \in 1..n : f[i] \in Int
  BY <1>1
<1>7. \A i \in 1..(n + 1) : g[i] \in Int
  BY <1>1, <1>2
<1>8. (\A i \in 1..n : g[i] = f[i]) /\ g[n + 1] = x.nValue
  BY <1>1, <1>2
<1> HIDE DEF f, g, a, n
<1>9. Total(n + 1, g) = Total(n, g) + g[n + 1]
  BY <1>1, <1>7, TotalStep
<1>10. Total(n, f) = Total(n, g) /\ Total(n, f) \in Int
  BY <1>1, <1>6, <1>8, TotalSame
<1> QED  BY <1>3, <1>4, <1>8, <1>9, <1>10 DEF a

\* What Keep collects, and what it is worth.
Amounts(T) == \A x \in T : x.nValue \in Int
Named(S, n, v, T) == \A i \in 1..n : i \in S => v[i] \in T
Worth(S, n, v) == [i \in 1..n |-> IF i \in S THEN v[i].nValue ELSE 0]

LEMMA KeepRule ==
    ASSUME NEW T, Amounts(T), NEW S, NEW n \in Nat, NEW v, Named(S, n, v, T)
    PROVE  Keep(S, n, v) \in Seq(T) /\ ValueOf(Keep(S, n, v)) = Total(n, Worth(S, n, v))
<1> USE DEF Amounts, Named, Worth
<1> DEFINE F == [i \in Nat |-> [s \in Seq(T) |-> IF i \in S \cap (1..n) THEN Append(s, v[i]) ELSE s]]
           K == CHOOSE g : g = [i \in 0..n |-> IF i = 0 THEN <<>> ELSE IF i \in S THEN Append(g[i - 1], v[i]) ELSE g[i - 1]]
           f == [i \in 1..n |-> IF i \in S THEN v[i].nValue ELSE 0]
<1>1. F \in [Nat -> [Seq(T) -> Seq(T)]]
  <2>1. ASSUME NEW i \in Nat, NEW s \in Seq(T) PROVE (IF i \in S \cap (1..n) THEN Append(s, v[i]) ELSE s) \in Seq(T)
    <3>1. CASE i \in S \cap (1..n)
      <4>1. v[i] \in T
        BY <3>1
      <4> QED  BY <3>1, <4>1
    <3>2. CASE i \notin S \cap (1..n)
      BY <3>2
    <3> QED  BY <3>1, <3>2
  <2> QED  BY <2>1
<1>2. <<>> \in Seq(T)
  OBVIOUS
<1> HIDE DEF F
<1>3. PICK g : Recurs(g, Seq(T), <<>>, F, n)
  BY <1>1, <1>2, Recursion, Zenon
<1>4. g = [i \in 0..n |-> IF i = 0 THEN <<>> ELSE IF i \in S THEN Append(g[i - 1], v[i]) ELSE g[i - 1]]
  <2>1. ASSUME NEW i \in 0..n
        PROVE  g[i] = IF i = 0 THEN <<>> ELSE IF i \in S THEN Append(g[i - 1], v[i]) ELSE g[i - 1]
    <3>1. CASE i = 0
      BY <1>3, <3>1 DEF Recurs
    <3>2. CASE i # 0
      <4>1. i \in 1..n /\ i - 1 \in 0..n /\ i \in Nat
        BY <3>2
      <4>2. g[i] = F[i][g[i - 1]] /\ g[i - 1] \in Seq(T)
        BY <1>3, <4>1 DEF Recurs
      <4>3. g[i] = IF i \in S \cap (1..n) THEN Append(g[i - 1], v[i]) ELSE g[i - 1]
        BY <4>1, <4>2 DEF F
      <4> QED  BY <3>2, <4>1, <4>3
    <3> QED  BY <3>1, <3>2
  <2>2. g = [i \in 0..n |-> g[i]]
    BY <1>3 DEF Recurs
  <2> QED  BY <2>1, <2>2, Zenon
<1>5. K = [i \in 0..n |-> IF i = 0 THEN <<>> ELSE IF i \in S THEN Append(K[i - 1], v[i]) ELSE K[i - 1]]
  BY <1>4, Zenon
<1>6. Keep(S, n, v) = K[n]
  BY DEF Keep
<1> HIDE DEF K
<1>7. \A i \in 0..n : K[i] = IF i = 0 THEN <<>> ELSE IF i \in S THEN Append(K[i - 1], v[i]) ELSE K[i - 1]
  BY <1>5, Zenon
<1>8. \A i \in 1..n : f[i] \in Int
  OBVIOUS
<1> DEFINE P(m) == K[m] \in Seq(T) /\ ValueOf(K[m]) = Total(m, f)
           N == {m \in Nat : m <= n => P(m)}
<1>9. 0 \in N
  <2>1. 0 \in Nat /\ 0 \in 0..n /\ \A i \in 1..0 : f[i] \in Int
    OBVIOUS
  <2>2. Total(0, f) = 0
    BY <2>1, TotalRule
  <2>3. K[0] = <<>>
    BY <1>7, <2>1
  <2> QED  BY <1>2, <2>2, <2>3, ValueEmpty
<1>10. ASSUME NEW m \in Nat, m \in N PROVE m + 1 \in N
  <2> SUFFICES ASSUME m + 1 <= n PROVE P(m + 1)
    OBVIOUS
  <2>1. P(m)
    BY <1>10
  <2>2. m + 1 \in 0..n /\ m + 1 \in 1..n /\ m + 1 # 0 /\ (m + 1) - 1 = m /\ \A i \in 1..(m + 1) : f[i] \in Int
    BY <1>8
  <2>3. K[m + 1] = IF m + 1 \in S THEN Append(K[m], v[m + 1]) ELSE K[m]
    BY <1>7, <2>2
  <2>5. f[m + 1] = IF m + 1 \in S THEN v[m + 1].nValue ELSE 0
    BY <2>2
  <2> HIDE DEF f
  <2>4. Total(m + 1, f) = Total(m, f) + f[m + 1] /\ Total(m, f) \in Int
    BY <2>2, TotalStep
  <2>6. CASE m + 1 \in S
    <3>1. v[m + 1] \in T
      BY <2>2, <2>6
    <3>2. Append(K[m], v[m + 1]) \in Seq(T)
      BY <2>1, <3>1
    <3>3. ValueOf(Append(K[m], v[m + 1])) = ValueOf(K[m]) + v[m + 1].nValue
      BY <2>1, <3>1, ValueAppend
    <3> QED  BY <2>1, <2>3, <2>4, <2>5, <2>6, <3>2, <3>3
  <2>7. CASE m + 1 \notin S
    BY <2>1, <2>3, <2>4, <2>5, <2>7
  <2> QED  BY <2>6, <2>7
<1> HIDE DEF N, f
<1>11. n \in N
  BY <1>9, <1>10, InductionOn
<1>12. P(n)
  BY <1>11 DEF N
<1> QED  BY <1>6, <1>12 DEF f

-----------------------------------------------------------------------------
(* Stakes                                                                  *)

LEMMA DivRule ==
    ASSUME NEW a \in Nat, NEW b \in Nat \ {0}
    PROVE  /\ Div(a, b) = a \div b /\ Div(a, b) \in Nat
           /\ b * Div(a, b) <= a /\ a < b * Div(a, b) + b
<1> DEFINE q == a \div b
<1>1. Div(a, b) = q
  BY DEF Div
<1>2. q \in Int /\ b * q <= a /\ a < b * q + b
  OBVIOUS
<1>3. q \in Nat
  <2> SUFFICES ASSUME q <= -1 PROVE FALSE
    BY <1>2
  <2> HIDE DEF q
  <2>1. b * q <= b * (-1)
    BY <1>2
  <2> QED  BY <1>2, <2>1
<1> QED  BY <1>1, <1>2, <1>3

\* MselectN counts by recursion on the smaller of the two numbers.
LEMMA SelectRule ==
    ASSUME NEW m \in 0..20, NEW n \in Nat
    PROVE  \E C \in [0..n -> Nat] :
              /\ C[0] = 1 /\ \A k \in 1..n : C[k] = (C[k - 1] * (m - k + 1)) \div k
              /\ MselectN(m, n) = C[n]
<1> DEFINE F == [k \in Nat |-> [x \in Nat |-> IF k \in 1..m THEN (x * (m - k + 1)) \div k ELSE 0]]
           s == CHOOSE g : g = [k \in 0..n |-> IF k = 0 THEN 1 ELSE (g[k - 1] * (m - k + 1)) \div k]
<1>1. F \in [Nat -> [Nat -> Nat]]
  <2>1. ASSUME NEW k \in 1..m, NEW x \in Nat PROVE (x * (m - k + 1)) \div k \in Nat
    <3>1. k \in Nat \ {0} /\ m - k + 1 \in Nat
      OBVIOUS
    <3> DEFINE y == m - k + 1
    <3>2. x * y \in Nat
      BY <3>1
    <3> HIDE DEF y
    <3> QED  BY <3>1, <3>2, DivRule DEF y
  <2> QED  BY <2>1
<1> HIDE DEF F
<1>2. PICK g : Recurs(g, Nat, 1, F, n)
  BY <1>1, Recursion
<1>3. \A k \in 1..n : k > m => g[k] = 0
  <2>1. ASSUME NEW k \in 1..n, k > m PROVE g[k] = 0
    <3>1. g[k - 1] \in Nat /\ k \in Nat /\ k \notin 1..m
      BY <1>2, <2>1 DEF Recurs
    <3>2. g[k] = F[k][g[k - 1]]
      BY <1>2 DEF Recurs
    <3> QED  BY <3>1, <3>2 DEF F
  <2> QED  BY <2>1
<1>4. ASSUME NEW k \in 1..n PROVE g[k] = (g[k - 1] * (m - k + 1)) \div k
  <2>1. g[k] = F[k][g[k - 1]] /\ g[k - 1] \in Nat /\ k \in Nat
    BY <1>2 DEF Recurs
  <2>2. CASE k <= m
    BY <2>1, <2>2 DEF F
  <2>3. CASE k = m + 1
    <3>1. m - k + 1 = 0
      BY <2>3
    <3>2. g[k - 1] * 0 = 0
      BY <2>1
    <3>3. 0 \div k = 0
      BY <2>1
    <3> QED  BY <1>3, <2>3, <3>1, <3>2, <3>3
  <2>4. CASE k > m + 1
    <3>1. k - 1 \in 1..n /\ k - 1 > m
      BY <2>4
    <3>2. g[k - 1] = 0 /\ g[k] = 0
      BY <1>3, <2>4, <3>1
    <3>3. 0 * (m - k + 1) = 0 /\ 0 \div k = 0
      BY <2>1
    <3> QED  BY <3>2, <3>3
  <2> QED  BY <2>2, <2>3, <2>4
<1>5. g = [k \in 0..n |-> IF k = 0 THEN 1 ELSE (g[k - 1] * (m - k + 1)) \div k]
  <2>1. ASSUME NEW k \in 0..n PROVE g[k] = IF k = 0 THEN 1 ELSE (g[k - 1] * (m - k + 1)) \div k
    <3>1. CASE k = 0
      BY <1>2, <3>1 DEF Recurs
    <3>2. CASE k # 0
      BY <1>4, <3>2
    <3> QED  BY <3>1, <3>2
  <2>2. g = [k \in 0..n |-> g[k]]
    BY <1>2 DEF Recurs
  <2> QED  BY <2>1, <2>2, Zenon
<1>6. s = [k \in 0..n |-> IF k = 0 THEN 1 ELSE (s[k - 1] * (m - k + 1)) \div k]
  BY <1>5, Zenon
<1>7. MselectN(m, n) = s[n]
  BY DEF MselectN
<1> HIDE DEF s
<1>8. \A k \in 0..n : s[k] = IF k = 0 THEN 1 ELSE (s[k - 1] * (m - k + 1)) \div k
  BY <1>6, Zenon
<1> DEFINE S == {k \in Nat : k <= n => s[k] = g[k]}
<1>9. 0 \in S
  BY <1>2, <1>8 DEF Recurs
<1>10. ASSUME NEW k \in Nat, k \in S PROVE k + 1 \in S
  <2> SUFFICES ASSUME k + 1 <= n PROVE s[k + 1] = g[k + 1]
    OBVIOUS
  <2> DEFINE j == k + 1
  <2>1. j \in 0..n /\ j \in 1..n /\ j # 0 /\ j - 1 = k /\ s[k] = g[k]
    BY <1>10
  <2> HIDE DEF j
  <2>2. s[j] = (s[j - 1] * (m - j + 1)) \div j /\ g[j] = (g[j - 1] * (m - j + 1)) \div j
    BY <1>4, <1>8, <2>1
  <2>3. s[j] = g[j]
    BY <2>1, <2>2
  <2> QED  BY <2>3 DEF j
<1>11. s[n] = g[n]
  <2> HIDE DEF S
  <2>1. n \in S
    BY <1>9, <1>10, InductionOn
  <2> QED  BY <2>1 DEF S
<1>12. g \in [0..n -> Nat] /\ g[0] = 1
  BY <1>2 DEF Recurs
<1> QED  BY <1>4, <1>7, <1>11, <1>12

\* MselectN is what can be chosen, and there is a choice when there are enough.
LEMMA SelectSome ==
    ASSUME NEW m \in 0..20
    PROVE  /\ \A n \in Nat : MselectN(m, n) \in Nat
           /\ m >= 2 => MselectN(m, 2) >= 1
           /\ m >= 5 => MselectN(m, 5) >= 1
           /\ m >= 6 => MselectN(m, 6) >= 1
<1>1. ASSUME NEW n \in Nat PROVE MselectN(m, n) \in Nat
  <2>1. PICK C \in [0..n -> Nat] : MselectN(m, n) = C[n]
    BY SelectRule
  <2> QED  BY <2>1
<1>3. ASSUME m >= 2 PROVE MselectN(m, 2) >= 1
  <2>1. PICK C \in [0..2 -> Nat] : /\ C[0] = 1 /\ \A k \in 1..2 : C[k] = (C[k - 1] * (m - k + 1)) \div k
                                   /\ MselectN(m, 2) = C[2]
    BY SelectRule
  <2>2. C[1] >= 2
    <3>1. C[1] = (C[0] * (m)) \div 1 /\ C[0] \in Nat /\ m \in Nat /\ C[0] >= 1 /\ m >= 2
      BY <1>3, <2>1
    <3>2. C[0] * (m) >= 2
      BY <3>1
    <3> QED  BY <3>1, <3>2
  <2>3. C[2] >= 1
    <3>1. C[2] = (C[1] * (m - 1)) \div 2 /\ C[1] \in Nat /\ m - 1 \in Nat /\ C[1] >= 2 /\ m - 1 >= 1
      BY <1>3, <2>1, <2>2
    <3>2. C[1] * (m - 1) >= 2
      BY <3>1
    <3> QED  BY <3>1, <3>2
  <2> QED  BY <2>1, <2>3
<1>4. ASSUME m >= 5 PROVE MselectN(m, 5) >= 1
  <2>1. PICK C \in [0..5 -> Nat] : /\ C[0] = 1 /\ \A k \in 1..5 : C[k] = (C[k - 1] * (m - k + 1)) \div k
                                   /\ MselectN(m, 5) = C[5]
    BY SelectRule
  <2>2. C[1] >= 5
    <3>1. C[1] = (C[0] * (m)) \div 1 /\ C[0] \in Nat /\ m \in Nat /\ C[0] >= 1 /\ m >= 5
      BY <1>4, <2>1
    <3>2. C[0] * (m) >= 5
      BY <3>1
    <3> QED  BY <3>1, <3>2
  <2>3. C[2] >= 10
    <3>1. C[2] = (C[1] * (m - 1)) \div 2 /\ C[1] \in Nat /\ m - 1 \in Nat /\ C[1] >= 5 /\ m - 1 >= 4
      BY <1>4, <2>1, <2>2
    <3>2. C[1] * (m - 1) >= 20
      BY <3>1
    <3> QED  BY <3>1, <3>2
  <2>4. C[3] >= 10
    <3>1. C[3] = (C[2] * (m - 2)) \div 3 /\ C[2] \in Nat /\ m - 2 \in Nat /\ C[2] >= 10 /\ m - 2 >= 3
      BY <1>4, <2>1, <2>3
    <3>2. C[2] * (m - 2) >= 30
      BY <3>1
    <3> QED  BY <3>1, <3>2
  <2>5. C[4] >= 5
    <3>1. C[4] = (C[3] * (m - 3)) \div 4 /\ C[3] \in Nat /\ m - 3 \in Nat /\ C[3] >= 10 /\ m - 3 >= 2
      BY <1>4, <2>1, <2>4
    <3>2. C[3] * (m - 3) >= 20
      BY <3>1
    <3> QED  BY <3>1, <3>2
  <2>6. C[5] >= 1
    <3>1. C[5] = (C[4] * (m - 4)) \div 5 /\ C[4] \in Nat /\ m - 4 \in Nat /\ C[4] >= 5 /\ m - 4 >= 1
      BY <1>4, <2>1, <2>5
    <3>2. C[4] * (m - 4) >= 5
      BY <3>1
    <3> QED  BY <3>1, <3>2
  <2> QED  BY <2>1, <2>6
<1>5. ASSUME m >= 6 PROVE MselectN(m, 6) >= 1
  <2>1. PICK C \in [0..6 -> Nat] : /\ C[0] = 1 /\ \A k \in 1..6 : C[k] = (C[k - 1] * (m - k + 1)) \div k
                                   /\ MselectN(m, 6) = C[6]
    BY SelectRule
  <2>2. C[1] >= 6
    <3>1. C[1] = (C[0] * (m)) \div 1 /\ C[0] \in Nat /\ m \in Nat /\ C[0] >= 1 /\ m >= 6
      BY <1>5, <2>1
    <3>2. C[0] * (m) >= 6
      BY <3>1
    <3> QED  BY <3>1, <3>2
  <2>3. C[2] >= 15
    <3>1. C[2] = (C[1] * (m - 1)) \div 2 /\ C[1] \in Nat /\ m - 1 \in Nat /\ C[1] >= 6 /\ m - 1 >= 5
      BY <1>5, <2>1, <2>2
    <3>2. C[1] * (m - 1) >= 30
      BY <3>1
    <3> QED  BY <3>1, <3>2
  <2>4. C[3] >= 20
    <3>1. C[3] = (C[2] * (m - 2)) \div 3 /\ C[2] \in Nat /\ m - 2 \in Nat /\ C[2] >= 15 /\ m - 2 >= 4
      BY <1>5, <2>1, <2>3
    <3>2. C[2] * (m - 2) >= 60
      BY <3>1
    <3> QED  BY <3>1, <3>2
  <2>5. C[4] >= 15
    <3>1. C[4] = (C[3] * (m - 3)) \div 4 /\ C[3] \in Nat /\ m - 3 \in Nat /\ C[3] >= 20 /\ m - 3 >= 3
      BY <1>5, <2>1, <2>4
    <3>2. C[3] * (m - 3) >= 60
      BY <3>1
    <3> QED  BY <3>1, <3>2
  <2>6. C[5] >= 6
    <3>1. C[5] = (C[4] * (m - 4)) \div 5 /\ C[4] \in Nat /\ m - 4 \in Nat /\ C[4] >= 15 /\ m - 4 >= 2
      BY <1>5, <2>1, <2>5
    <3>2. C[4] * (m - 4) >= 30
      BY <3>1
    <3> QED  BY <3>1, <3>2
  <2>7. C[6] >= 1
    <3>1. C[6] = (C[5] * (m - 5)) \div 6 /\ C[5] \in Nat /\ m - 5 \in Nat /\ C[5] >= 6 /\ m - 5 >= 1
      BY <1>5, <2>1, <2>6
    <3>2. C[5] * (m - 5) >= 6
      BY <3>1
    <3> QED  BY <3>1, <3>2
  <2> QED  BY <2>1, <2>7
<1> QED  BY <1>1, <1>3, <1>4, <1>5

\* The bets whose tickets can be counted, and those that have tickets enough to be
\* drawn, checked or not.
ABet == [type : {"15_6", "mulilt"}, red : Seq(Nat), blue : Seq(Nat), nValue : Nat]
Proper == {b \in ABet : IsValid(b) /\ Len(b.red) <= 20}
Fit == {b \in ABet : Len(b.red) <= 20 /\ Len(b.blue) <= 20 /\ getTotalBer(b) \in 1..b.nValue}

\* Numbers that increase are no more than there are.
LEMMA IncreasingBound ==
    ASSUME NEW s \in Seq(Nat), NEW max \in Nat, Increasing(s, max)
    PROVE  Len(s) <= max
<1> DEFINE n == Len(s)
           S == {i \in Nat : i + 1 <= n => s[i + 1] >= i + 1}
<1>0. n \in Nat
  OBVIOUS
<1>1. 0 \in S
  <2> SUFFICES ASSUME 1 <= n PROVE s[1] >= 1
    BY <1>0
  <2> QED  BY <1>0 DEF Increasing
<1>2. ASSUME NEW i \in Nat, i \in S PROVE i + 1 \in S
  <2> SUFFICES ASSUME (i + 1) + 1 <= n PROVE s[(i + 1) + 1] >= (i + 1) + 1
    OBVIOUS
  <2>1. i + 1 \in 1..(n - 1) /\ s[i + 1] >= i + 1
    BY <1>0, <1>2
  <2>2. s[i + 1] < s[(i + 1) + 1]
    BY <2>1 DEF Increasing
  <2>3. s[i + 1] \in Nat /\ s[(i + 1) + 1] \in Nat
    BY <1>0, <2>1
  <2> QED  BY <2>1, <2>2, <2>3
<1> HIDE DEF S
<1>3. \A i \in Nat : i \in S
  BY <1>1, <1>2, InductionOn
<1>4. CASE n = 0
  BY <1>4
<1>5. CASE n # 0
  <2>1. n - 1 \in S /\ n - 1 \in Nat
    BY <1>0, <1>3, <1>5
  <2>2. s[(n - 1) + 1] >= (n - 1) + 1
    BY <2>1 DEF S
  <2>3. s[n] >= n /\ s[n] <= max /\ s[n] \in Nat
    BY <1>0, <1>5, <2>2 DEF Increasing
  <2> QED  BY <1>0, <2>3
<1> QED  BY <1>4, <1>5

\* How many numbers of each colour a bet has.
LEMMA ProperNumbers ==
    ASSUME NEW b \in Proper
    PROVE  /\ b.nValue \in Nat /\ b.type \in {"15_6", "mulilt"}
           /\ Len(b.red) \in 0..20 /\ Len(b.blue) \in 0..20
           /\ b.red \in Seq(Nat) /\ b.blue \in Seq(Nat)
           /\ b.type = "15_6" => Len(b.red) >= 6
           /\ b.type # "15_6" => Len(b.red) >= 5 /\ Len(b.blue) >= 2
           /\ nMinBet * getTotalBer(b) < b.nValue
<1>1. b \in ABet /\ IsValid(b) /\ Len(b.red) <= 20
  BY DEF Proper
<1>2. /\ b.nValue \in Nat /\ b.type \in {"15_6", "mulilt"} /\ b.red \in Seq(Nat) /\ b.blue \in Seq(Nat)
      /\ Len(b.red) \in Nat /\ Len(b.blue) \in Nat
  BY <1>1 DEF ABet
<1>3. nMinBet * getTotalBer(b) < b.nValue
  BY <1>1, Zenon DEF IsValid
<1>4. CASE b.type = "15_6"
  <2>1. Len(b.red) \in 6..15 /\ b.blue = <<>>
    BY <1>1, <1>4 DEF IsValid
  <2>2. Len(b.blue) = 0
    BY <2>1
  <2> DEFINE x == Len(b.red)
             y == Len(b.blue)
  <2> HIDE DEF x, y
  <2>3. x \in 0..20 /\ y \in 0..20 /\ x >= 6
    <3>1. x \in 6..15 /\ y = 0
      BY <2>1, <2>2, Zenon DEF x, y
    <3> QED  BY <3>1
  <2> QED  BY <1>2, <1>3, <1>4, <2>3, Zenon DEF x, y
<1>5. CASE b.type # "15_6"
  <2>1. Len(b.red) >= 5 /\ Len(b.blue) >= 2 /\ Increasing(b.blue, 11)
    BY <1>1, <1>5 DEF IsValid
  <2>2. Len(b.blue) <= 11
    BY <1>2, <2>1, IncreasingBound
  <2> DEFINE x == Len(b.red)
             y == Len(b.blue)
  <2> HIDE DEF x, y
  <2>3. x \in 0..20 /\ y \in 0..20
    <3>1. x \in Nat /\ y \in Nat /\ x <= 20 /\ y <= 11
      BY <1>1, <1>2, <2>2, Zenon DEF x, y
    <3> QED  BY <3>1
  <2> QED  BY <1>2, <1>3, <1>5, <2>1, <2>3, Zenon DEF x, y
<1> QED  BY <1>4, <1>5

\* A bet that is valid has a ticket, and is worth more than its tickets are many.
LEMMA ProperFit ==
    ASSUME NEW b \in Proper
    PROVE  b \in Fit
<1>1. getTotalBer(b) \in Nat \ {0}
  <2>1. CASE b.type = "15_6"
    <3>1. MselectN(Len(b.red), 6) \in Nat /\ MselectN(Len(b.red), 6) >= 1
      BY <2>1, ProperNumbers, SelectSome
    <3> QED  BY <2>1, <3>1 DEF getTotalBer
  <2>2. CASE b.type # "15_6"
    <3> DEFINE x == MselectN(Len(b.red), 5)
               y == MselectN(Len(b.blue), 2)
    <3>1. x \in Nat /\ x >= 1
      BY <2>2, ProperNumbers, SelectSome
    <3>2. y \in Nat /\ y >= 1
      BY <2>2, ProperNumbers, SelectSome
    <3>3. getTotalBer(b) = x * y
      BY <2>2 DEF getTotalBer
    <3> HIDE DEF x, y
    <3>4. x * y \in Nat /\ x * y >= 1
      BY <3>1, <3>2
    <3> QED  BY <3>3, <3>4
  <2> QED  BY <2>1, <2>2
<1> DEFINE t == getTotalBer(b)
           v == b.nValue
<1>2. nMinBet * t < v /\ v \in Nat /\ nMinBet \in Nat \ {0}
  BY ProperNumbers, BetAssumption
<1> HIDE DEF t, v
<1>3. t \in Nat \ {0}
  BY <1>1 DEF t
<1>4. nMinBet * t >= t /\ nMinBet * t \in Nat
  BY <1>2, <1>3
<1>5. t \in 1..v
  BY <1>2, <1>3, <1>4
<1>6. b \in ABet /\ Len(b.red) \in 0..20 /\ Len(b.blue) \in 0..20
  BY ProperNumbers DEF Proper
<1>7. \A x \in 0..20 : x <= 20
  OBVIOUS
<1> QED  BY <1>5, <1>6, <1>7, Zenon DEF Fit, t, v

\* The numbers of a bet that is drawn.
LEMMA FitNumbers ==
    ASSUME NEW b \in Fit
    PROVE  /\ b.nValue \in Nat /\ b.type \in {"15_6", "mulilt"}
           /\ Len(b.red) \in 0..20 /\ Len(b.blue) \in 0..20
           /\ b.red \in Seq(Nat) /\ b.blue \in Seq(Nat)
<1>1. b \in ABet /\ Len(b.red) <= 20 /\ Len(b.blue) <= 20
  BY DEF Fit
<1>2. /\ b.nValue \in Nat /\ b.type \in {"15_6", "mulilt"} /\ b.red \in Seq(Nat) /\ b.blue \in Seq(Nat)
      /\ Len(b.red) \in Nat /\ Len(b.blue) \in Nat
  BY <1>1 DEF ABet
<1>3. \A x \in Nat : x <= 20 => x \in 0..20
  OBVIOUS
<1> QED  BY <1>1, <1>2, <1>3, Zenon

\* Each of its tickets is worth something.
LEMMA TicketValue ==
    ASSUME NEW b \in Fit
    PROVE  Div(b.nValue, getTotalBer(b)) \in Nat \ {0}
<1> DEFINE t == getTotalBer(b)
           v == b.nValue
           q == Div(v, t)
<1>1. v \in Nat /\ t \in 1..v
  BY FitNumbers DEF Fit
<1> HIDE DEF t, v
<1>2. t \in Nat \ {0}
  BY <1>1
<1>3. q \in Nat /\ v < t * q + t
  BY <1>1, <1>2, DivRule
<1> HIDE DEF q
<1>4. q # 0
  <2> SUFFICES ASSUME q = 0 PROVE FALSE
    OBVIOUS
  <2>1. t * q = 0
    BY <1>2
  <2> QED  BY <1>1, <1>3, <2>1
<1> QED  BY <1>3, <1>4 DEF q, t, v

\* Of the numbers of a bet no more can be winning than it has.
LEMMA Hits ==
    ASSUME NEW s \in Seq(Nat), NEW X
    PROVE  Hit(s, X) \in 0..Len(s)
<1> DEFINE n == Len(s)
           R == {k \in 1..n : s[k] \in X}
<1>1. n \in Nat /\ IsFiniteSet(1..n) /\ Cardinality(1..n) = n
  <2>1. n \in Nat /\ 1 \in Int /\ n \in Int
    OBVIOUS
  <2> HIDE DEF n
  <2>2. IsFiniteSet(1..n) /\ Cardinality(1..n) = IF 1 > n THEN 0 ELSE n - 1 + 1
    BY <2>1, FS_Interval
  <2> QED  BY <2>1, <2>2
<1>2. Hit(s, X) = Cardinality(R)
  BY DEF Hit
<1>3. R \in SUBSET (1..n)
  OBVIOUS
<1> HIDE DEF R, n
<1>4. IsFiniteSet(R) /\ Cardinality(R) <= n
  BY <1>1, <1>3, FS_Subset
<1>5. Cardinality(R) \in Nat
  BY <1>4, FS_CardinalityType
<1> QED  BY <1>1, <1>2, <1>4, <1>5 DEF n

LEMMA Product ==
    ASSUME NEW x \in Nat, NEW y \in Nat
    PROVE  x * y \in Nat
  OBVIOUS

LEMMA TicketsNat ==
    ASSUME NEW r \in 0..20, NEW i \in 0..r, NEW s \in 0..20, NEW j \in 0..s, NEW x \in 0..5, NEW y \in 0..2
    PROVE  Tickets(r, i, s, j, x, y) \in Nat
<1>1. /\ i \in 0..20 /\ r - i \in 0..20 /\ j \in 0..20 /\ s - j \in 0..20
      /\ x \in Nat /\ 5 - x \in Nat /\ y \in Nat /\ 2 - y \in Nat
  OBVIOUS
<1> DEFINE a == MselectN(i, x)
           b == MselectN(r - i, 5 - x)
           c == MselectN(j, y)
           d == MselectN(s - j, 2 - y)
<1>2. a \in Nat
  BY <1>1, SelectSome
<1>3. b \in Nat
  BY <1>1, SelectSome
<1>4. c \in Nat
  BY <1>1, SelectSome
<1>5. d \in Nat
  BY <1>1, SelectSome
<1>6. Tickets(r, i, s, j, x, y) = a * b * c * d
  BY DEF Tickets
<1> HIDE DEF a, b, c, d
<1>7. a * b \in Nat
  BY <1>2, <1>3, Product
<1>8. a * b * c \in Nat
  BY <1>4, <1>7, Product
<1>9. a * b * c * d \in Nat
  BY <1>5, <1>8, Product
<1> QED  BY <1>6, <1>9

\* The winning tickets are counted by natural numbers; a bet on 15 numbers has
\* none on the last two levels.
LEMMA CountsNat ==
    ASSUME NEW b \in Fit, NEW luck
    PROVE  /\ \A l \in Level : Counts(b, luck)[l] \in Nat
           /\ b.type = "15_6" => Counts(b, luck)[4] = 0 /\ Counts(b, luck)[5] = 0
<1> DEFINE i == Hit(b.red, luck[b.type].red)
           j == Hit(b.blue, luck[b.type].blue)
           r == Len(b.red)
           s == Len(b.blue)
           T(x, y) == Tickets(r, i, s, j, x, y)
<1>1. r \in 0..20 /\ s \in 0..20
  BY FitNumbers
<1>2. i \in 0..r /\ j \in 0..s
  <2>1. b.red \in Seq(Nat) /\ b.blue \in Seq(Nat)
    BY FitNumbers
  <2> QED  BY <2>1, Hits
<1>3. CASE b.type = "15_6"
  <2> DEFINE c1 == MselectN(i, 6)
             c2 == MselectN(i, 5) * (r - i)
             c3 == MselectN(i, 4) * MselectN(r - i, 2)
  <2>1. Counts(b, luck) = <<c1, c2, c3, 0, 0>>
    BY <1>3 DEF Counts
  <2> HIDE DEF i, j, r, s
  <2>2. i \in 0..20 /\ r - i \in 0..20 /\ r - i \in Nat
    BY <1>1, <1>2
  <2>3. c1 \in Nat /\ MselectN(i, 5) \in Nat /\ MselectN(i, 4) \in Nat /\ MselectN(r - i, 2) \in Nat
    BY <2>2, SelectSome
  <2>4. c2 \in Nat /\ c3 \in Nat
    BY <2>2, <2>3, Product
  <2> HIDE DEF c1, c2, c3
  <2> QED  BY <1>3, <2>1, <2>3, <2>4 DEF Level
<1>4. CASE b.type # "15_6"
  <2> DEFINE c1 == IF i >= 5 /\ j >= 2 THEN 1 ELSE 0
             c2 == T(4, 2) + T(5, 1)
             c3 == T(4, 1) + T(5, 0) + T(3, 2)
             c4 == T(4, 0) + T(3, 1) + T(2, 2)
             c5 == T(3, 0) + T(2, 1) + T(0, 2)
  <2>1. Counts(b, luck) = <<c1, c2, c3, c4, c5>>
    BY <1>4 DEF Counts
  <2> HIDE DEF i, j, r, s
  <2>2. \A x \in 0..5, y \in 0..2 : T(x, y) \in Nat
    BY <1>1, <1>2, TicketsNat
  <2> HIDE DEF T
  <2>3. c1 \in Nat /\ c2 \in Nat /\ c3 \in Nat /\ c4 \in Nat /\ c5 \in Nat
    <3>1. c1 \in Nat
      OBVIOUS
    <3>2. T(4, 2) \in Nat /\ T(5, 1) \in Nat /\ T(4, 1) \in Nat /\ T(5, 0) \in Nat /\ T(3, 2) \in Nat
      BY <2>2
    <3>3. /\ T(4, 0) \in Nat /\ T(3, 1) \in Nat /\ T(2, 2) \in Nat
          /\ T(3, 0) \in Nat /\ T(2, 1) \in Nat /\ T(0, 2) \in Nat
      BY <2>2
    <3> QED  BY <3>1, <3>2, <3>3
  <2> HIDE DEF c1, c2, c3, c4, c5
  <2> QED  BY <1>4, <2>1, <2>3 DEF Level
<1> QED  BY <1>3, <1>4

\* What a bet wins, for the levels it wins on.
LEMMA StakesWon ==
    ASSUME NEW b \in Fit, NEW luck
    PROVE  /\ DOMAIN rewardmap(b, luck) \subseteq Level
           /\ \A l \in DOMAIN rewardmap(b, luck) :
                 rewardmap(b, luck)[l] \in Nat \ {0} /\ GetMulit(b.type, l) \in Nat \ {0}
<1> DEFINE c == Counts(b, luck)
           q == Div(b.nValue, getTotalBer(b))
           D == {m \in Level : c[m] > 0}
<1>1. rewardmap(b, luck) = [l \in D |-> c[l] * q]
  BY DEF rewardmap, Stakes
<1>2. q \in Nat \ {0}
  BY TicketValue
<1>3. /\ \A l \in Level : c[l] \in Nat
      /\ b.type = "15_6" => c[4] = 0 /\ c[5] = 0
  BY CountsNat
<1> HIDE DEF c, q
<1>4. ASSUME NEW l \in D PROVE c[l] * q \in Nat \ {0} /\ GetMulit(b.type, l) \in Nat \ {0}
  <2>1. l \in Level /\ c[l] \in Nat \ {0}
    BY <1>3
  <2>2. c[l] * q \in Nat \ {0}
    <3> DEFINE x == c[l]
    <3> HIDE DEF x
    <3>1. x \in Nat \ {0}
      BY <2>1 DEF x
    <3>2. x * q \in Nat \ {0}
      BY <1>2, <3>1
    <3> QED  BY <3>2 DEF x
  <2>3. CASE b.type = "15_6"
    <3>1. l \in 1..3
      BY <1>3, <2>1, <2>3 DEF Level
    <3> QED  BY <2>2, <2>3, <3>1 DEF GetMulit
  <2>4. CASE b.type # "15_6"
    <3>1. l \in 1..5
      BY <2>1 DEF Level
    <3> QED  BY <2>2, <2>4, <3>1 DEF GetMulit
  <2> QED  BY <2>3, <2>4
<1> QED  BY <1>1, <1>4

-----------------------------------------------------------------------------
(* 64-bit integers and doubles                                             *)

LEMMA Small ==
    ASSUME NEW a \in Nat, NEW b \in Nat, a < b
    PROVE  a % b = a
<1> DEFINE q == a \div b
           r == a % b
<1>1. b \in Nat \ {0} /\ q \in Int /\ r \in 0..(b - 1) /\ a = b * q + r
  OBVIOUS
<1> HIDE DEF q, r
<1>2. ~(q >= 1)
  <2> SUFFICES ASSUME q >= 1 PROVE FALSE
    OBVIOUS
  <2>1. b * q >= b /\ b * q \in Int
    BY <1>1
  <2> DEFINE y == b * q
  <2> HIDE DEF y
  <2>2. y >= b /\ y \in Int /\ a = y + r
    BY <1>1, <2>1 DEF y
  <2> QED  BY <1>1, <2>2
<1>3. ~(q <= -1)
  <2> SUFFICES ASSUME q <= -1 PROVE FALSE
    OBVIOUS
  <2>1. b * q <= -b /\ b * q \in Int
    BY <1>1
  <2> DEFINE y == b * q
  <2> HIDE DEF y
  <2>2. y <= -b /\ y \in Int /\ a = y + r
    BY <1>1, <2>1 DEF y
  <2> QED  BY <1>1, <2>2
<1>4. q = 0
  BY <1>1, <1>2, <1>3
<1>5. b * q = 0
  BY <1>1, <1>4
<1>6. a = r
  BY <1>1, <1>5
<1> QED  BY <1>6 DEF r

\* A natural number that fits does not wrap.
LEMMA Int64Same ==
    ASSUME NEW x \in Nat, x < nInt64
    PROVE  Int64(x) = x
<1>1. nInt64 \in Nat
  BY ArithmeticAssumption
<1> DEFINE a == x + nInt64
           b == 2 * nInt64
<1>2. a \in Nat /\ b \in Nat /\ a < b /\ a - nInt64 = x
  BY <1>1
<1>3. Int64(x) = (a % b) - nInt64
  BY DEF Int64
<1> HIDE DEF a, b
<1>4. a % b = a
  BY <1>2, Small
<1> QED  BY <1>2, <1>3, <1>4

\* A natural number as a double: exact up to nExact, and never below it from there.
LEMMA RealNat ==
    ASSUME NEW x \in Nat
    PROVE  Real(x) \in Nat /\ (x <= nExact => Real(x) = x) /\ (x >= nExact => Real(x) >= nExact)
<1>1. /\ nExact \in Nat /\ nInt64 \in Nat /\ nExact < nInt64 /\ Double \in [0..(nInt64 - 1) -> Nat]
      /\ \A y \in 0..(nInt64 - 1) : IF y <= nExact THEN Double[y] = y ELSE Double[y] >= nExact
  BY ArithmeticAssumption
<1>2. CASE x < nInt64
  <2>1. x \in 0..(nInt64 - 1)
    BY <1>1, <1>2
  <2>2. Real(x) = Double[x]
    BY <2>1 DEF Real
  <2>3. Double[x] \in Nat /\ IF x <= nExact THEN Double[x] = x ELSE Double[x] >= nExact
    BY <1>1, <2>1
  <2> QED  BY <1>1, <2>2, <2>3
<1>3. CASE ~(x < nInt64)
  <2>1. x \notin 0..(nInt64 - 1) /\ x \notin (1 - nInt64)..(-1)
    BY <1>1, <1>3
  <2>2. Real(x) = x
    BY <2>1 DEF Real
  <2> QED  BY <1>1, <1>3, <2>2
<1> QED  BY <1>2, <1>3

LEMMA RealInt ==
    ASSUME NEW x \in Int
    PROVE  Real(x) \in Int
<1>1. nInt64 \in Nat /\ Double \in [0..(nInt64 - 1) -> Nat]
  BY ArithmeticAssumption
<1>2. CASE x \in 0..(nInt64 - 1)
  BY <1>1, <1>2 DEF Real
<1>3. CASE x \in (1 - nInt64)..(-1)
  <2>1. -x \in 0..(nInt64 - 1) /\ x \notin 0..(nInt64 - 1)
    BY <1>1, <1>3
  <2>2. Double[-x] \in Nat /\ Real(x) = -Double[-x]
    BY <1>1, <1>3, <2>1 DEF Real
  <2> QED  BY <2>2
<1>4. CASE x \notin 0..(nInt64 - 1) /\ x \notin (1 - nInt64)..(-1)
  BY <1>4 DEF Real
<1> QED  BY <1>2, <1>3, <1>4

\* What a double becomes as an integer: itself, or a negative number.
LEMMA ToInt64Rule ==
    ASSUME NEW x \in Nat
    PROVE  /\ ToInt64(x) \in Int /\ (ToInt64(x) >= 0 => ToInt64(x) = x)
           /\ x < nInt64 => ToInt64(x) = x
<1>1. nInt64 \in Nat /\ nInt64 > 0
  BY ArithmeticAssumption
<1>2. CASE x < nInt64
  <2>1. x \in (-nInt64)..(nInt64 - 1)
    BY <1>1, <1>2
  <2> QED  BY <2>1 DEF ToInt64
<1>3. CASE ~(x < nInt64)
  <2>1. x \notin (-nInt64)..(nInt64 - 1)
    BY <1>1, <1>3
  <2>2. ToInt64(x) = -nInt64
    BY <2>1 DEF ToInt64
  <2> QED  BY <1>1, <1>3, <2>2
<1> QED  BY <1>2, <1>3

LEMMA ToInt64Int ==
    ASSUME NEW x \in Int
    PROVE  ToInt64(x) \in Int
  BY ArithmeticAssumption DEF ToInt64

\* What a sum that is kept in a double says of the exact one.
Tracks(sum, exact) == sum \in Nat /\ exact \in Nat /\ ((exact <= nExact /\ sum = exact) \/ sum >= nExact)

\* A prize as a double.
LEMMA Rounded ==
    ASSUME NEW k \in Nat \ {0}, NEW m \in Nat
    PROVE  Tracks(Real(k * Real(m)), k * m)
<1>0. nExact \in Nat
  BY ArithmeticAssumption
<1> DEFINE x == Real(m)
<1>1. x \in Nat /\ (m <= nExact => x = m) /\ (m >= nExact => x >= nExact)
  BY RealNat
<1> HIDE DEF x
<1> DEFINE p == k * m
           y == k * x
<1>2. p \in Nat /\ y \in Nat /\ p >= m /\ y >= x /\ (x = m => y = p)
  BY <1>1
<1> HIDE DEF p, y
<1> DEFINE d == Real(y)
<1>3. d \in Nat /\ (y <= nExact => d = y) /\ (y >= nExact => d >= nExact)
  BY <1>2, RealNat
<1> HIDE DEF d
<1>4. (p <= nExact /\ d = p) \/ d >= nExact
  BY <1>0, <1>1, <1>2, <1>3
<1> QED  BY <1>2, <1>3, <1>4 DEF Tracks, d, y, x, p

\* One more prize.
LEMMA Added ==
    ASSUME NEW s, NEW e, NEW d, NEW p, Tracks(s, e), Tracks(d, p), ToInt64(Real(Real(s) + d)) >= 0
    PROVE  Tracks(ToInt64(Real(Real(s) + d)), e + p)
<1>0. nExact \in Nat /\ s \in Nat /\ e \in Nat /\ d \in Nat /\ p \in Nat
  BY ArithmeticAssumption DEF Tracks
<1>a. ((e <= nExact /\ s = e) \/ s >= nExact) /\ ((p <= nExact /\ d = p) \/ d >= nExact)
  BY DEF Tracks
<1> DEFINE r == Real(s)
           x == r + d
<1>1. r \in Nat /\ (s <= nExact => r = s) /\ (s >= nExact => r >= nExact)
  BY <1>0, RealNat
<1> HIDE DEF r
<1>2. x \in Nat
  BY <1>0, <1>1
<1>3. (x = e + p) \/ x >= nExact
  BY <1>0, <1>1, <1>a
<1> HIDE DEF x
<1> DEFINE y == Real(x)
           t == ToInt64(y)
<1>4. y \in Nat /\ (x <= nExact => y = x) /\ (x >= nExact => y >= nExact)
  BY <1>2, RealNat
<1> HIDE DEF y
<1>5. t >= 0
  BY DEF y, x, r
<1>6. t = y
  BY <1>4, <1>5, ToInt64Rule
<1> HIDE DEF t
<1>7. e + p \in Nat /\ t \in Nat /\ ((e + p <= nExact /\ t = e + p) \/ t >= nExact)
  BY <1>0, <1>2, <1>3, <1>4, <1>6
<1> QED  BY <1>7 DEF Tracks, t, y, x, r

-----------------------------------------------------------------------------
(* The prizes of a level                                                   *)

\* The stakes that bets won are those of StakesWon.
Scored(bets, map) ==
    /\ Len(bets) \in Nat /\ DOMAIN map = 1..Len(bets)
    /\ \A i \in 1..Len(bets) :
         /\ bets[i].type \in {"15_6", "mulilt"}
         /\ DOMAIN map[i] \subseteq Level
         /\ \A l \in DOMAIN map[i] : map[i][l] \in Nat \ {0} /\ GetMulit(bets[i].type, l) \in Nat \ {0}

\* The prizes of a level without limits of size, and what is paid of them.
PrizeOf(bets, map, l) ==
    [i \in 1..Len(bets) |-> IF i \in Won(map, l) THEN GetMulit(bets[i].type, l) * map[i][l] ELSE 0]
PaidOf(bets, map, l, total, max) ==
    [i \in 1..Len(bets) |-> IF i \in Won(map, l) THEN Paid(bets, map, i, l, total, max) ELSE 0]

LEMMA WinnersOf ==
    ASSUME NEW bets, NEW map, Scored(bets, map), NEW l \in Level
    PROVE  /\ Won(map, l) \subseteq 1..Len(bets)
           /\ \A i \in Won(map, l) :
                /\ map[i][l] \in Nat \ {0} /\ RealPrize(bets, map, i, l) \in Nat
                /\ Tracks(RealPrize(bets, map, i, l), PrizeOf(bets, map, l)[i])
           /\ \A i \in 1..Len(bets) : PrizeOf(bets, map, l)[i] \in Nat
<1>1. Won(map, l) \subseteq 1..Len(bets)
  BY DEF Won, Scored
<1>2. ASSUME NEW i \in Won(map, l)
      PROVE  /\ map[i][l] \in Nat \ {0} /\ RealPrize(bets, map, i, l) \in Nat
             /\ Tracks(RealPrize(bets, map, i, l), PrizeOf(bets, map, l)[i])
             /\ PrizeOf(bets, map, l)[i] \in Nat
  <2> DEFINE x == map[i][l]
             y == GetMulit(bets[i].type, l)
  <2>1. i \in 1..Len(bets) /\ l \in DOMAIN map[i]
    BY <1>1 DEF Won
  <2>2. x \in Nat \ {0} /\ y \in Nat \ {0}
    BY <2>1 DEF Scored
  <2>3. RealPrize(bets, map, i, l) = Real(y * Real(x)) /\ PrizeOf(bets, map, l)[i] = y * x
    BY <2>1 DEF RealPrize, PrizeOf
  <2> HIDE DEF x, y
  <2>4. Tracks(Real(y * Real(x)), y * x)
    BY <2>2, Rounded
  <2> QED  BY <2>2, <2>3, <2>4 DEF x, Tracks
<1>3. ASSUME NEW i \in 1..Len(bets), i \notin Won(map, l) PROVE PrizeOf(bets, map, l)[i] = 0
  BY <1>3 DEF PrizeOf
<1> QED  BY <1>1, <1>2, <1>3

\* The sums of CreateStatisticsRewardMap.
Adds(s, bets, map, l) ==
    /\ s[0] = 0
    /\ \A i \in 1..Len(bets) :
         s[i] = IF i \notin Won(map, l) THEN s[i - 1]
                ELSE ToInt64(Real(Real(s[i - 1]) + RealPrize(bets, map, i, l)))

LEMMA SumRule ==
    ASSUME NEW bets, NEW map, Scored(bets, map), NEW l \in Level
    PROVE  Adds(RewardSum(bets, map, l), bets, map, l)
<1> DEFINE n == Len(bets)
           W == Won(map, l)
           step(i, x) == IF i \notin W THEN x ELSE ToInt64(Real(Real(x) + RealPrize(bets, map, i, l)))
           F == [i \in Nat |-> [x \in Int |-> step(i, x)]]
           s == CHOOSE g : g = [i \in 0..n |-> IF i = 0 THEN 0 ELSE IF i \notin W THEN g[i - 1]
                                               ELSE ToInt64(Real(Real(g[i - 1]) + RealPrize(bets, map, i, l)))]
<1>0. n \in Nat /\ \A i \in W : RealPrize(bets, map, i, l) \in Nat
  BY WinnersOf DEF Scored
<1>1. F \in [Nat -> [Int -> Int]]
  <2>1. ASSUME NEW i \in Nat, NEW x \in Int PROVE step(i, x) \in Int
    <3>1. CASE i \notin W
      BY <3>1
    <3>2. CASE i \in W
      <4> DEFINE r == RealPrize(bets, map, i, l)
                 y == Real(x)
      <4>1. r \in Nat /\ y \in Int
        BY <1>0, <3>2, RealInt
      <4> HIDE DEF r, y, W
      <4>2. y + r \in Int
        BY <4>1
      <4>3. ToInt64(Real(y + r)) \in Int
        BY <4>2, RealInt, ToInt64Int
      <4> QED  BY <3>2, <4>3 DEF r, y
    <3> HIDE DEF step
    <3> QED  BY <3>1, <3>2
  <2> HIDE DEF step
  <2> QED  BY <2>1
<1>2. 0 \in Int
  OBVIOUS
<1>f. \A i \in Nat, x \in Int : F[i][x] = step(i, x)
  <2> HIDE DEF step
  <2> QED  OBVIOUS
<1> HIDE DEF F
<1>3. PICK g : Recurs(g, Int, 0, F, n)
  BY <1>0, <1>1, <1>2, Recursion, Zenon
<1>4. ASSUME NEW i \in 1..n PROVE g[i] = step(i, g[i - 1])
  <2> HIDE DEF step, n
  <2>1. g[i - 1] \in Int /\ i \in Nat
    BY <1>0, <1>3 DEF Recurs
  <2>2. g[i] = F[i][g[i - 1]]
    BY <1>3 DEF Recurs
  <2> QED  BY <1>f, <2>1, <2>2
<1>5. g = [i \in 0..n |-> IF i = 0 THEN 0 ELSE IF i \notin W THEN g[i - 1]
                          ELSE ToInt64(Real(Real(g[i - 1]) + RealPrize(bets, map, i, l)))]
  <2>1. ASSUME NEW i \in 0..n PROVE g[i] = IF i = 0 THEN 0 ELSE step(i, g[i - 1])
    <3> HIDE DEF step
    <3>1. i = 0 \/ i \in 1..n
      BY <1>0
    <3> QED  BY <1>3, <1>4, <3>1 DEF Recurs
  <2>2. g = [i \in 0..n |-> g[i]]
    BY <1>3 DEF Recurs
  <2> HIDE DEF n, W
  <2> QED  BY <2>1, <2>2, Zenon
<1>6. s = [i \in 0..n |-> IF i = 0 THEN 0 ELSE IF i \notin W THEN s[i - 1]
                          ELSE ToInt64(Real(Real(s[i - 1]) + RealPrize(bets, map, i, l)))]
  BY <1>5, Zenon
<1>7. RewardSum(bets, map, l) = s
  BY Zenon DEF RewardSum
<1> HIDE DEF s, n, W
<1>8. \A i \in 0..n : s[i] = IF i = 0 THEN 0 ELSE IF i \notin W THEN s[i - 1]
                             ELSE ToInt64(Real(Real(s[i - 1]) + RealPrize(bets, map, i, l)))
  BY <1>6, Zenon
<1>9. 0 \in 0..n /\ \A i \in 1..n : i \in 0..n /\ i # 0
  BY <1>0
<1>10. s[0] = 0 /\ \A i \in 1..n : s[i] = IF i \notin W THEN s[i - 1]
                                          ELSE ToInt64(Real(Real(s[i - 1]) + RealPrize(bets, map, i, l)))
  BY <1>8, <1>9, Zenon
<1> QED  BY <1>7, <1>10, Zenon DEF Adds, n, W

\* No sum has left the integers.
Sound(bets, map) == \A l \in Level, i \in 0..Len(bets) : RewardSum(bets, map, l)[i] >= 0

\* Then the total of a level is exact or large.
LEMMA TotalOfLevel ==
    ASSUME NEW bets, NEW map, Scored(bets, map), Sound(bets, map), NEW l \in Level
    PROVE  Tracks(RewardTotal(bets, map)[l], Total(Len(bets), PrizeOf(bets, map, l)))
<1> DEFINE n == Len(bets)
           W == Won(map, l)
           s == RewardSum(bets, map, l)
           z == PrizeOf(bets, map, l)
           r(i) == RealPrize(bets, map, i, l)
           G == {m \in Nat : m <= n => Tracks(s[m], Total(m, z))}
<1>1. n \in Nat /\ (\A i \in 1..n : z[i] \in Nat) /\ \A i \in W : i \in 1..n /\ Tracks(r(i), z[i])
  BY WinnersOf DEF Scored
<1>2. s[0] = 0 /\ \A i \in 1..n : s[i] = IF i \notin W THEN s[i - 1] ELSE ToInt64(Real(Real(s[i - 1]) + r(i)))
  <2>1. Adds(s, bets, map, l)
    BY SumRule
  <2> QED  BY <2>1, Zenon DEF Adds
<1>3. \A i \in 0..n : s[i] >= 0
  BY DEF Sound
<1>4. \A i \in 1..n : i \notin W => z[i] = 0
  BY DEF PrizeOf
<1>5. RewardTotal(bets, map)[l] = s[n]
  BY DEF RewardTotal
<1> HIDE DEF n, W, s, z, r
<1>6. 0 \in G
  <2>1. 0 \in Nat /\ \A i \in 1..0 : z[i] \in Int
    OBVIOUS
  <2>2. Total(0, z) = 0
    BY <2>1, TotalRule
  <2> QED  BY <1>2, <2>2, ArithmeticAssumption DEF Tracks
<1>7. ASSUME NEW m \in Nat, m \in G PROVE m + 1 \in G
  <2> SUFFICES ASSUME m + 1 <= n PROVE Tracks(s[m + 1], Total(m + 1, z))
    OBVIOUS
  <2> DEFINE j == m + 1
  <2>1. j \in 1..n /\ j \in 0..n /\ j - 1 = m /\ Tracks(s[m], Total(m, z))
    BY <1>1, <1>7
  <2>2. Total(j, z) = Total(m, z) + z[j]
    <3>1. \A i \in 1..(m + 1) : z[i] \in Int
      BY <1>1
    <3> QED  BY <3>1, TotalStep
  <2> HIDE DEF j
  <2>3. CASE j \notin W
    <3>1. s[j] = s[m] /\ z[j] = 0
      BY <1>2, <1>4, <2>1, <2>3
    <3>2. Total(m, z) \in Nat
      BY <2>1 DEF Tracks
    <3>3. Total(j, z) = Total(m, z)
      BY <2>2, <3>1, <3>2
    <3> QED  BY <2>1, <3>1, <3>3 DEF j
  <2>4. CASE j \in W
    <3>1. s[j] = ToInt64(Real(Real(s[m]) + r(j))) /\ s[j] >= 0
      BY <1>2, <1>3, <2>1, <2>4
    <3>2. Tracks(r(j), z[j])
      BY <1>1, <2>4
    <3>3. Tracks(s[j], Total(m, z) + z[j])
      BY <2>1, <3>1, <3>2, Added
    <3> QED  BY <2>2, <3>3 DEF j
  <2> QED  BY <2>3, <2>4
<1> HIDE DEF G
<1>8. n \in G
  BY <1>1, <1>6, <1>7, InductionOn
<1>9. Tracks(s[n], Total(n, z))
  BY <1>1, <1>8 DEF G
<1> QED  BY <1>5, <1>9 DEF n, z

LEMMA MinMember ==
    ASSUME NEW T, T \subseteq Nat, T # {}
    PROVE  Min(T) \in T
<1>1. \E x \in T : \A y \in T : x <= y
  BY Least
<1> QED  BY <1>1, Zenon DEF Min

LEMMA DivNone ==
    ASSUME NEW a \in Nat, NEW b \in Nat, a < b
    PROVE  Div(a, b) = 0
<1> DEFINE q == Div(a, b)
<1>1. q \in Nat /\ b * q <= a
  BY DivRule
<1> HIDE DEF q
<1>2. ~(q >= 1)
  <2> SUFFICES ASSUME q >= 1 PROVE FALSE
    OBVIOUS
  <2>1. b * q >= b /\ b * q \in Int
    BY <1>1
  <2> QED  BY <1>1, <2>1
<1> QED  BY <1>1, <1>2 DEF q

LEMMA DivLess ==
    ASSUME NEW a \in Nat, NEW b \in Nat \ {0}
    PROVE  Div(a, b) \in Nat /\ Div(a, b) <= a
<1> DEFINE q == Div(a, b)
<1>1. q \in Nat /\ b * q <= a
  BY DivRule
<1> HIDE DEF q
<1>2. b * q >= q /\ b * q \in Nat
  BY <1>1
<1> QED  BY <1>1, <1>2 DEF q

\* A level that is short pays nothing: what it may take, divided by the stakes,
\* is less than what was won.
LEMMA ShortLevel ==
    ASSUME NEW bets, NEW map, Scored(bets, map), NEW l \in Level, NEW i \in Won(map, l),
           NEW total \in Nat, NEW max \in Nat, total > max
    PROVE  Paid(bets, map, i, l, total, max) = 0
<1> DEFINE n == Len(bets)
           same == {j \in Won(map, l) : bets[j].type = bets[i].type}
           v == [j \in same |-> map[j][l]]
           m == [j \in 1..n |-> IF j \in same THEN v[j] ELSE 0]
           coins == Part(same, n, v)
           first == ToInt64(RealPrize(bets, map, Min(same), l))
<1>1. /\ n \in Nat /\ same \subseteq 1..n /\ i \in same
      /\ \A j \in same : map[j][l] \in Nat \ {0} /\ RealPrize(bets, map, j, l) \in Nat
  BY WinnersOf DEF Scored
<1>2. \A j \in 1..n : m[j] \in Nat /\ (j \in same => m[j] = map[j][l])
  <2> HIDE DEF same, n
  <2> QED  BY <1>1
<1>3. coins = Total(n, m)
  BY DEF Part
<1>4. Paid(bets, map, i, l, total, max) = Int64(Int64(Div(Div(max, coins), total) * first) * map[i][l])
  BY DEF Paid, Scheme
<1> HIDE DEF same, m, coins, n
<1>5. coins \in Nat \ {0}
  <2>1. Total(n, m) \in Nat /\ m[i] <= Total(n, m)
    BY <1>1, <1>2, TotalTerms
  <2>2. m[i] \in Nat \ {0}
    BY <1>1, <1>2
  <2> QED  BY <1>3, <2>1, <2>2
<1>6. first \in Int
  <2>1. Min(same) \in same
    <3>1. same \subseteq Nat /\ same # {}
      BY <1>1
    <3> QED  BY <3>1, MinMember
  <2>2. RealPrize(bets, map, Min(same), l) \in Nat
    BY <1>1, <2>1
  <2> QED  BY <2>2, ToInt64Rule
<1> HIDE DEF first
<1>7. Div(Div(max, coins), total) = 0
  <2>1. Div(max, coins) \in Nat /\ Div(max, coins) <= max
    BY <1>5, DivLess
  <2>2. Div(max, coins) < total
    BY <2>1
  <2> QED  BY <2>1, <2>2, DivNone
<1>8. Int64(0) = 0
  BY Int64Same, ArithmeticAssumption
<1>9. 0 * first = 0 /\ 0 * map[i][l] = 0
  BY <1>1, <1>6
<1> QED  BY <1>4, <1>7, <1>8, <1>9

\* What a level pays is no more than it may take.
LevelPays(bets, map, l, total, max) ==
    LET paid == PaidOf(bets, map, l, total, max)
    IN  /\ \A i \in 1..Len(bets) : paid[i] \in Nat
        /\ Total(Len(bets), paid) \in Nat
        /\ Total(Len(bets), paid) <= IF total > max THEN max ELSE total

LEMMA LevelBound ==
    ASSUME NEW bets, NEW map, Scored(bets, map), Sound(bets, map), NEW l \in Level, NEW max \in 0..nMaxMoney
    PROVE  LevelPays(bets, map, l, RewardTotal(bets, map)[l], max)
<1> DEFINE n == Len(bets)
           z == PrizeOf(bets, map, l)
           W == Won(map, l)
           total == RewardTotal(bets, map)[l]
           paid == PaidOf(bets, map, l, total, max)
           E == Total(n, z)
<1>0. n \in Nat /\ W \subseteq 1..n /\ \A i \in 1..n : z[i] \in Nat
  BY WinnersOf DEF Scored
<1>a. nMaxMoney \in Nat /\ nExact \in Nat /\ nInt64 \in Nat /\ nMaxMoney < nExact /\ nExact < nInt64
  BY ArithmeticAssumption
<1>1. Tracks(total, E)
  BY TotalOfLevel
<1>2. E \in Nat /\ \A i \in 1..n : z[i] <= E
  <2> HIDE DEF n, z
  <2> QED  BY <1>0, TotalTerms
<1>3. max \in Nat /\ max < nExact /\ total \in Nat
  BY <1>1, <1>a DEF Tracks
<1>4. CASE ~(total > max)
  <2>1. E = total /\ E < nInt64
    BY <1>1, <1>3, <1>4, <1>a DEF Tracks
  <2>2. ASSUME NEW i \in W PROVE Paid(bets, map, i, l, total, max) = z[i]
    <3>1. z[i] = GetMulit(bets[i].type, l) * map[i][l] /\ i \in 1..n
      BY <1>0 DEF PrizeOf
    <3>2. Paid(bets, map, i, l, total, max) = Int64(z[i])
      BY <1>4, <3>1 DEF Paid, Prize
    <3>3. z[i] \in Nat /\ z[i] < nInt64
      <4> HIDE DEF z, E, n
      <4> QED  BY <1>0, <1>2, <1>a, <2>1, <3>1
    <3> HIDE DEF z, total
    <3> QED  BY <3>2, <3>3, Int64Same
  <2>3. paid = z
    <3>1. \A i \in 1..n : i \notin W => z[i] = 0
      BY DEF PrizeOf
    <3>2. z = [i \in 1..n |-> z[i]]
      BY DEF PrizeOf
    <3> HIDE DEF z, total
    <3>3. \A i \in 1..n : paid[i] = z[i]
      BY <2>2, <3>1 DEF PaidOf
    <3>4. paid = [i \in 1..n |-> paid[i]]
      BY DEF PaidOf
    <3> QED  BY <3>2, <3>3, <3>4, Zenon
  <2> HIDE DEF z, total, paid, n, E
  <2>4. (\A i \in 1..n : paid[i] \in Nat) /\ Total(n, paid) \in Nat /\ Total(n, paid) <= total
    BY <1>0, <1>2, <1>3, <2>1, <2>3 DEF E
  <2> QED  BY <1>4, <2>4, Zenon DEF LevelPays, paid, n, total
<1>5. CASE total > max
  <2> HIDE DEF total
  <2>1. ASSUME NEW i \in 1..n PROVE paid[i] = 0
    <3>1. i \in W => Paid(bets, map, i, l, total, max) = 0
      BY <1>3, <1>5, ShortLevel
    <3> QED  BY <3>1 DEF PaidOf
  <2> HIDE DEF paid, n
  <2>2. Total(n, paid) = 0
    <3>1. Combines(n, 0, paid, 0, paid, paid)
      BY <2>1 DEF Combines
    <3>2. Total(n, paid) = 0 * Total(n, paid) + 0 * Total(n, paid) /\ Total(n, paid) \in Int
      BY <1>0, <3>1, TotalLinear
    <3> QED  BY <3>2
  <2>3. (\A i \in 1..n : paid[i] \in Nat) /\ Total(n, paid) \in Nat /\ Total(n, paid) <= max
    BY <1>3, <2>1, <2>2
  <2> QED  BY <1>5, <2>3, Zenon DEF LevelPays, paid, n, total
<1> QED  BY <1>4, <1>5

-----------------------------------------------------------------------------
(* What a draw pays                                                        *)

\* Four fifths.
Fifths(a) == Div(Int64(a * 8), 10)

LEMMA FourFifths ==
    ASSUME NEW a \in 0..nMaxMoney
    PROVE  Fifths(a) \in 0..nMaxMoney /\ Fifths(a) <= a /\ 10 * Fifths(a) <= 8 * a
<1>1. nMaxMoney \in Nat /\ nInt64 \in Nat /\ 8 * nMaxMoney < nInt64
  BY ArithmeticAssumption
<1>2. a * 8 \in Nat /\ a * 8 < nInt64
  BY <1>1
<1>3. Int64(a * 8) = a * 8
  BY <1>2, Int64Same
<1> DEFINE q == Div(a * 8, 10)
<1>4. q \in Nat /\ 10 * q <= a * 8
  BY <1>2, DivRule
<1>5. Fifths(a) = q
  BY <1>3 DEF Fifths
<1> HIDE DEF q
<1> QED  BY <1>1, <1>4, <1>5

\* What a level leaves to the next.
Leaves(a, t) == IF t > Fifths(a) THEN a - Fifths(a) ELSE Int64(a - t)

LEMMA LeavesRule ==
    ASSUME NEW a \in 0..nMaxMoney, NEW t \in Nat
    PROVE  /\ Leaves(a, t) \in 0..nMaxMoney
           /\ (IF t > Fifths(a) THEN Fifths(a) ELSE t) + Leaves(a, t) <= a
<1>1. Fifths(a) \in Nat /\ Fifths(a) <= a /\ a \in Nat /\ nMaxMoney \in Nat
  BY FourFifths, ArithmeticAssumption
<1>2. CASE t > Fifths(a)
  BY <1>1, <1>2 DEF Leaves
<1>3. CASE ~(t > Fifths(a))
  <2>1. a - t \in Nat /\ a - t <= nMaxMoney
    BY <1>1, <1>3
  <2>2. a - t < nInt64
    BY <1>1, <2>1, ArithmeticAssumption
  <2>3. Int64(a - t) = a - t
    BY <2>1, <2>2, Int64Same
  <2> QED  BY <1>1, <1>3, <2>1, <2>3 DEF Leaves
<1> QED  BY <1>2, <1>3

\* What the levels may take is together no more than four fifths of the pool:
\* a level is offered what those before it left.
LEMMA SharesRule ==
    ASSUME NEW pool \in 0..nMaxMoney, NEW total, \A l \in Level : total[l] \in Nat
    PROVE  LET max == Shares(pool, total)
               u(l) == IF total[l] > max[l] THEN max[l] ELSE total[l]
           IN  /\ \A l \in Level : max[l] \in 0..nMaxMoney
               /\ 10 * (u(1) + u(2) + u(3) + u(4) + u(5)) <= 8 * pool
<1> DEFINE e1 == Fifths(pool)
           e2 == Leaves(e1, total[1])
           e3 == Leaves(e2, total[2])
           e4 == Leaves(e3, total[3])
           e5 == Leaves(e4, total[4])
           s == CHOOSE g : g = [l \in Level |-> IF l = 1 THEN Div(Int64(pool * 8), 10)
                                                ELSE LET a == g[l - 1]
                                                         m == Div(Int64(a * 8), 10)
                                                     IN  IF total[l - 1] > m THEN a - m ELSE Int64(a - total[l - 1])]
           max == Shares(pool, total)
<1>2. /\ total[1] \in Nat /\ total[2] \in Nat /\ total[3] \in Nat /\ total[4] \in Nat /\ total[5] \in Nat
  BY DEF Level
<1>3. e1 \in 0..nMaxMoney /\ 10 * e1 <= 8 * pool
  BY FourFifths
<1>4. s = [l \in Level |-> IF l = 1 THEN Div(Int64(pool * 8), 10)
                           ELSE LET a == s[l - 1]
                                    m == Div(Int64(a * 8), 10)
                                IN  IF total[l - 1] > m THEN a - m ELSE Int64(a - total[l - 1])]
  <2> DEFINE g == [l \in Level |-> IF l = 1 THEN e1 ELSE IF l = 2 THEN e2 ELSE IF l = 3 THEN e3 ELSE IF l = 4 THEN e4 ELSE e5]
  <2>1. g[1] = e1 /\ g[2] = e2 /\ g[3] = e3 /\ g[4] = e4 /\ g[5] = e5
    <3> HIDE DEF e1, e2, e3, e4, e5
    <3> QED  BY DEF Level
  <2>2. g = [l \in Level |-> g[l]]
    <3> HIDE DEF e1, e2, e3, e4, e5
    <3> QED  OBVIOUS
  <2> HIDE DEF g, e1, e2, e3, e4, e5
  <2>3. ASSUME NEW l \in Level
        PROVE  g[l] = IF l = 1 THEN Div(Int64(pool * 8), 10)
                      ELSE LET a == g[l - 1]
                               m == Div(Int64(a * 8), 10)
                           IN  IF total[l - 1] > m THEN a - m ELSE Int64(a - total[l - 1])
    <3>1. l \in {1, 2, 3, 4, 5}
      BY DEF Level
    <3>2. CASE l = 1
      BY <2>1, <3>2 DEF e1, Fifths
    <3>3. CASE l = 2
      <4>1. l - 1 = 1 /\ l # 1 /\ g[l] = Leaves(g[l - 1], total[l - 1])
        BY <2>1, <3>3 DEF e2
      <4> QED  BY <4>1 DEF Leaves, Fifths
    <3>4. CASE l = 3
      <4>1. l - 1 = 2 /\ l # 1 /\ g[l] = Leaves(g[l - 1], total[l - 1])
        BY <2>1, <3>4 DEF e3
      <4> QED  BY <4>1 DEF Leaves, Fifths
    <3>5. CASE l = 4
      <4>1. l - 1 = 3 /\ l # 1 /\ g[l] = Leaves(g[l - 1], total[l - 1])
        BY <2>1, <3>5 DEF e4
      <4> QED  BY <4>1 DEF Leaves, Fifths
    <3>6. CASE l = 5
      <4>1. l - 1 = 4 /\ l # 1 /\ g[l] = Leaves(g[l - 1], total[l - 1])
        BY <2>1, <3>6 DEF e5
      <4> QED  BY <4>1 DEF Leaves, Fifths
    <3> QED  BY <3>1, <3>2, <3>3, <3>4, <3>5, <3>6
  <2>4. g = [l \in Level |-> IF l = 1 THEN Div(Int64(pool * 8), 10)
                             ELSE LET a == g[l - 1]
                                      m == Div(Int64(a * 8), 10)
                                  IN  IF total[l - 1] > m THEN a - m ELSE Int64(a - total[l - 1])]
    BY <2>2, <2>3, Zenon
  <2> QED  BY <2>4, Zenon
<1>5. max = [l \in Level |-> IF l = 5 THEN s[5] ELSE Div(Int64(s[l] * 8), 10)]
  BY DEF Shares
<1> HIDE DEF s
<1>6. /\ s[1] = e1 /\ s[2] = Leaves(s[1], total[1]) /\ s[3] = Leaves(s[2], total[2])
      /\ s[4] = Leaves(s[3], total[3]) /\ s[5] = Leaves(s[4], total[4])
  <2>1. \A l \in Level : s[l] = IF l = 1 THEN Div(Int64(pool * 8), 10)
                                ELSE LET a == s[l - 1]
                                         m == Div(Int64(a * 8), 10)
                                     IN  IF total[l - 1] > m THEN a - m ELSE Int64(a - total[l - 1])
    BY <1>4, Zenon
  <2>2. 1 \in Level /\ 2 \in Level /\ 3 \in Level /\ 4 \in Level /\ 5 \in Level
    BY DEF Level
  <2> QED  BY <2>1, <2>2 DEF Leaves, Fifths, e1
<1>7. /\ max[1] = Fifths(s[1]) /\ max[2] = Fifths(s[2]) /\ max[3] = Fifths(s[3])
      /\ max[4] = Fifths(s[4]) /\ max[5] = s[5]
  BY <1>5 DEF Level, Fifths
<1> HIDE DEF max, e1
<1> DEFINE u(l) == IF total[l] > max[l] THEN max[l] ELSE total[l]
<1>8. s[2] \in 0..nMaxMoney /\ s[1] \in 0..nMaxMoney /\ max[1] \in 0..nMaxMoney /\ u(1) \in Nat /\ u(1) + s[2] <= s[1]
  <2>1. s[1] \in 0..nMaxMoney
    BY <1>3, <1>6
  <2>2. max[1] \in 0..nMaxMoney
    BY <1>7, <2>1, FourFifths
  <2>3. Leaves(s[1], total[1]) \in 0..nMaxMoney /\ u(1) + Leaves(s[1], total[1]) <= s[1]
    BY <1>2, <1>7, <2>1, LeavesRule
  <2>4. u(1) \in Nat
    BY <1>2, <2>2
  <2> QED  BY <1>6, <2>1, <2>2, <2>3, <2>4
<1>9. s[3] \in 0..nMaxMoney /\ s[2] \in 0..nMaxMoney /\ max[2] \in 0..nMaxMoney /\ u(2) \in Nat /\ u(2) + s[3] <= s[2]
  <2>1. s[2] \in 0..nMaxMoney
    BY <1>8, <1>6
  <2>2. max[2] \in 0..nMaxMoney
    BY <1>7, <2>1, FourFifths
  <2>3. Leaves(s[2], total[2]) \in 0..nMaxMoney /\ u(2) + Leaves(s[2], total[2]) <= s[2]
    BY <1>2, <1>7, <2>1, LeavesRule
  <2>4. u(2) \in Nat
    BY <1>2, <2>2
  <2> QED  BY <1>6, <2>1, <2>2, <2>3, <2>4
<1>10. s[4] \in 0..nMaxMoney /\ s[3] \in 0..nMaxMoney /\ max[3] \in 0..nMaxMoney /\ u(3) \in Nat /\ u(3) + s[4] <= s[3]
  <2>1. s[3] \in 0..nMaxMoney
    BY <1>9, <1>6
  <2>2. max[3] \in 0..nMaxMoney
    BY <1>7, <2>1, FourFifths
  <2>3. Leaves(s[3], total[3]) \in 0..nMaxMoney /\ u(3) + Leaves(s[3], total[3]) <= s[3]
    BY <1>2, <1>7, <2>1, LeavesRule
  <2>4. u(3) \in Nat
    BY <1>2, <2>2
  <2> QED  BY <1>6, <2>1, <2>2, <2>3, <2>4
<1>11. s[5] \in 0..nMaxMoney /\ s[4] \in 0..nMaxMoney /\ max[4] \in 0..nMaxMoney /\ u(4) \in Nat /\ u(4) + s[5] <= s[4]
  <2>1. s[4] \in 0..nMaxMoney
    BY <1>10, <1>6
  <2>2. max[4] \in 0..nMaxMoney
    BY <1>7, <2>1, FourFifths
  <2>3. Leaves(s[4], total[4]) \in 0..nMaxMoney /\ u(4) + Leaves(s[4], total[4]) <= s[4]
    BY <1>2, <1>7, <2>1, LeavesRule
  <2>4. u(4) \in Nat
    BY <1>2, <2>2
  <2> QED  BY <1>6, <2>1, <2>2, <2>3, <2>4
<1>12. max[5] \in 0..nMaxMoney /\ u(5) \in Nat /\ u(5) <= s[5]
  BY <1>2, <1>7, <1>11
<1>13. 10 * (u(1) + u(2) + u(3) + u(4) + u(5)) <= 8 * pool
  <2> HIDE DEF u
  <2> QED  BY <1>3, <1>6, <1>8, <1>9, <1>10, <1>11, <1>12
<1>14. \A l \in Level : max[l] \in 0..nMaxMoney
  BY <1>8, <1>9, <1>10, <1>11, <1>12 DEF Level
<1> QED  BY <1>13, <1>14 DEF max

LEMMA FiveTerms ==
    ASSUME NEW f, \A l \in Level : f[l] \in Nat
    PROVE  Total(5, f) = f[1] + f[2] + f[3] + f[4] + f[5]
<1>1. f[1] \in Nat /\ f[2] \in Nat /\ f[3] \in Nat /\ f[4] \in Nat /\ f[5] \in Nat
  BY DEF Level
<1>2. ASSUME NEW n \in 0..4
      PROVE  Total(0, f) = 0 /\ Total(n, f) \in Int /\ Total(n + 1, f) = Total(n, f) + f[n + 1]
  <2>1. n \in Nat /\ \A i \in 1..(n + 1) : f[i] \in Int
    BY DEF Level
  <2> QED  BY <2>1, TotalStep
<1>3. Total(0, f) = 0 /\ Total(1, f) = Total(0, f) + f[1]
  BY <1>2
<1>4. Total(2, f) = Total(1, f) + f[2]
  BY <1>2
<1>5. Total(3, f) = Total(2, f) + f[3]
  BY <1>2
<1>6. Total(4, f) = Total(3, f) + f[4]
  BY <1>2
<1>7. Total(5, f) = Total(4, f) + f[5]
  BY <1>2
<1> QED  BY <1>1, <1>3, <1>4, <1>5, <1>6, <1>7

LEMMA TotalSum ==
    ASSUME NEW n \in Nat, NEW f, NEW g, NEW h, Combines(n, 1, f, 1, g, h)
    PROVE  Total(n, h) = Total(n, f) + Total(n, g) /\ Total(n, f) \in Int /\ Total(n, g) \in Int
<1> DEFINE c == 1
<1>1. c \in Int /\ Combines(n, c, f, c, g, h)
  OBVIOUS
<1> HIDE DEF c
<1>2. /\ Total(n, h) = c * Total(n, f) + c * Total(n, g)
      /\ Total(n, f) \in Int /\ Total(n, g) \in Int
  BY <1>1, TotalLinear
<1> QED  BY <1>2 DEF c

\* The sum of the columns is the sum of the rows.
LEMMA FiveColumns ==
    ASSUME NEW n \in Nat, NEW w, NEW p1, NEW p2, NEW p3, NEW p4, NEW p5,
           \A i \in 1..n : p1[i] \in Nat /\ p2[i] \in Nat /\ p3[i] \in Nat /\ p4[i] \in Nat /\ p5[i] \in Nat,
           \A i \in 1..n : w[i] = p1[i] + p2[i] + p3[i] + p4[i] + p5[i]
    PROVE  Total(n, w) = Total(n, p1) + Total(n, p2) + Total(n, p3) + Total(n, p4) + Total(n, p5)
<1> DEFINE w4 == [i \in 1..n |-> p1[i] + p2[i] + p3[i] + p4[i]]
           w3 == [i \in 1..n |-> p1[i] + p2[i] + p3[i]]
           w2 == [i \in 1..n |-> p1[i] + p2[i]]
<1>4. Combines(n, 1, w4, 1, p5, w)
  BY DEF Combines
<1>5. Combines(n, 1, w3, 1, p4, w4)
  BY DEF Combines
<1>6. Combines(n, 1, w2, 1, p3, w3)
  BY DEF Combines
<1>7. Combines(n, 1, p1, 1, p2, w2)
  BY DEF Combines
<1> HIDE DEF w4, w3, w2
<1>8. Total(n, w) = Total(n, w4) + Total(n, p5) /\ Total(n, p5) \in Int
  BY <1>4, TotalSum
<1>9. Total(n, w4) = Total(n, w3) + Total(n, p4) /\ Total(n, p4) \in Int
  BY <1>5, TotalSum
<1>10. Total(n, w3) = Total(n, w2) + Total(n, p3) /\ Total(n, p3) \in Int
  BY <1>6, TotalSum
<1>11. Total(n, w2) = Total(n, p1) + Total(n, p2) /\ Total(n, p1) \in Int /\ Total(n, p2) \in Int
  BY <1>7, TotalSum
<1> QED  BY <1>8, <1>9, <1>10, <1>11

LEMMA FiveBelow ==
    ASSUME NEW f, NEW g, NEW max, \A l \in Level : f[l] \in Nat /\ g[l] \in Nat /\ f[l] <= g[l],
           g[1] + g[2] + g[3] + g[4] + g[5] <= max, max \in Nat
    PROVE  f[1] + f[2] + f[3] + f[4] + f[5] <= max
<1> DEFINE a1 == f[1]
           a2 == f[2]
           a3 == f[3]
           a4 == f[4]
           a5 == f[5]
           b1 == g[1]
           b2 == g[2]
           b3 == g[3]
           b4 == g[4]
           b5 == g[5]
<1>1. /\ a1 \in Nat /\ a2 \in Nat /\ a3 \in Nat /\ a4 \in Nat /\ a5 \in Nat
      /\ b1 \in Nat /\ b2 \in Nat /\ b3 \in Nat /\ b4 \in Nat /\ b5 \in Nat
      /\ a1 <= b1 /\ a2 <= b2 /\ a3 <= b3 /\ a4 <= b4 /\ a5 <= b5
  BY DEF Level
<1>2. b1 + b2 + b3 + b4 + b5 <= max
  OBVIOUS
<1> HIDE DEF a1, a2, a3, a4, a5, b1, b2, b3, b4, b5
<1>3. a1 + a2 + a3 + a4 + a5 <= max
  BY <1>1, <1>2
<1> QED  BY <1>3 DEF a1, a2, a3, a4, a5

\* The outputs of a draw are worth no more than four fifths of the pool.
LEMMA OutputsBound ==
    ASSUME NEW bets, NEW map, Scored(bets, map), Sound(bets, map), NEW pool \in 0..nMaxMoney
    PROVE  LET V == ValueOf(RewardsOf(bets, map, pool))
           IN  V \in Nat /\ 10 * V <= 8 * pool
<1> DEFINE n == Len(bets)
           total == RewardTotal(bets, map)
           max == Shares(pool, total)
           P == [l \in Level |-> PaidOf(bets, map, l, total[l], max[l])]
           won == {i \in 1..n : DOMAIN map[i] # {}}
           paid(i) == [l \in DOMAIN map[i] |-> Paid(bets, map, i, l, total[l], max[l])]
           v == [i \in won |-> [bet |-> i, nValue |-> Int64(Part(DOMAIN map[i], 5, paid(i)))]]
           w == [i \in 1..n |-> IF i \in won THEN v[i].nValue ELSE 0]
           u(l) == IF total[l] > max[l] THEN max[l] ELSE total[l]
<1>0. n \in Nat
  BY DEF Scored
<1>1. \A l \in Level : total[l] \in Nat
  BY TotalOfLevel DEF Tracks
<1>2. (\A l \in Level : max[l] \in 0..nMaxMoney) /\ 10 * (u(1) + u(2) + u(3) + u(4) + u(5)) <= 8 * pool
  BY <1>1, SharesRule
<1>3. \A l \in Level : /\ \A i \in 1..n : P[l][i] \in Nat /\ P[l][i] <= Total(n, P[l])
                       /\ Total(n, P[l]) \in Nat /\ Total(n, P[l]) <= u(l)
  <2> SUFFICES ASSUME NEW l \in Level
               PROVE  /\ \A i \in 1..n : P[l][i] \in Nat /\ P[l][i] <= Total(n, P[l])
                      /\ Total(n, P[l]) \in Nat /\ Total(n, P[l]) <= u(l)
    BY Zenon
  <2>1. LevelPays(bets, map, l, total[l], max[l])
    BY <1>2, LevelBound
  <2>2. P[l] = PaidOf(bets, map, l, total[l], max[l])
    OBVIOUS
  <2> HIDE DEF P
  <2>3. (\A i \in 1..n : P[l][i] \in Nat) /\ Total(n, P[l]) \in Nat /\ Total(n, P[l]) <= u(l)
    BY <2>1, <2>2, Zenon DEF LevelPays
  <2> HIDE DEF n, u
  <2> QED  BY <1>0, <2>3, TotalTerms
<1>8. /\ u(1) \in Nat /\ u(2) \in Nat /\ u(3) \in Nat /\ u(4) \in Nat /\ u(5) \in Nat
  <2>1. \A l \in Level : max[l] \in Nat
    BY <1>2, ArithmeticAssumption
  <2> QED  BY <1>1, <2>1 DEF Level
<1>b. u(1) + u(2) + u(3) + u(4) + u(5) <= nMaxMoney
  <2> HIDE DEF u
  <2> QED  BY <1>2, <1>8, ArithmeticAssumption
<1>c. \A l \in Level : u(l) \in Nat
  <2> HIDE DEF u
  <2> QED  BY <1>8 DEF Level
<1>4. RewardsOf(bets, map, pool) = Keep(won, n, v)
  BY DEF RewardsOf, Rewards, Outputs
<1>5. ASSUME NEW i \in 1..n
      PROVE  w[i] = P[1][i] + P[2][i] + P[3][i] + P[4][i] + P[5][i] /\ w[i] \in Nat
  <2> DEFINE D == DOMAIN map[i]
             f == [l \in 1..5 |-> IF l \in D THEN paid(i)[l] ELSE 0]
  <2>1. ASSUME NEW l \in Level PROVE P[l][i] = IF l \in D THEN Paid(bets, map, i, l, total[l], max[l]) ELSE 0
    <3>1. i \in Won(map, l) <=> l \in D
      BY DEF Won, Scored
    <3>2. P[l][i] = IF i \in Won(map, l) THEN Paid(bets, map, i, l, total[l], max[l]) ELSE 0
      BY DEF PaidOf
    <3> HIDE DEF P, total, max, D
    <3> QED  BY <3>1, <3>2
  <2>2. \A l \in Level : f[l] = P[l][i]
    BY <2>1 DEF Level
  <2>3. Part(D, 5, paid(i)) = Total(5, f)
    BY DEF Part
  <2>4. \A l \in Level : f[l] \in Nat
    BY <1>3, <2>2
  <2>5. 1 \in Level /\ 2 \in Level /\ 3 \in Level /\ 4 \in Level /\ 5 \in Level
    BY DEF Level
  <2>6. Total(5, f) = f[1] + f[2] + f[3] + f[4] + f[5]
    <3> HIDE DEF f
    <3> QED  BY <2>4, FiveTerms
  <2>7. i \in won => v[i].nValue = Int64(Part(D, 5, paid(i)))
    OBVIOUS
  <2>8. i \notin won => D = {}
    OBVIOUS
  <2>9. w[i] = IF i \in won THEN v[i].nValue ELSE 0
    OBVIOUS
  <2> HIDE DEF f, P, w, v, won, D, total, max, paid
  <2>10. CASE i \in won
    <3>1. w[i] = Int64(Total(5, f))
      BY <2>3, <2>7, <2>9, <2>10
    <3>2. /\ f[1] = P[1][i] /\ f[2] = P[2][i] /\ f[3] = P[3][i] /\ f[4] = P[4][i] /\ f[5] = P[5][i]
          /\ f[1] \in Nat /\ f[2] \in Nat /\ f[3] \in Nat /\ f[4] \in Nat /\ f[5] \in Nat
      BY <2>2, <2>4, <2>5
    <3>3. w[i] = f[1] + f[2] + f[3] + f[4] + f[5] /\ w[i] \in Nat
      <4> DEFINE x == f[1]
                 y == f[2]
                 z == f[3]
      <4>1. x + y + z + f[4] + f[5] \in Nat
        <5>1. x \in Nat /\ y \in Nat /\ z \in Nat /\ f[4] \in Nat /\ f[5] \in Nat
          BY <2>4, <2>5
        <5> HIDE DEF x, y, z
        <5> QED  BY <5>1
      <4>2. Total(5, f) < nInt64
        <5> DEFINE g == [l \in Level |-> u(l)]
        <5>1. ASSUME NEW l \in Level PROVE f[l] \in Nat /\ g[l] \in Nat /\ f[l] <= g[l]
          <6>1. g[l] = u(l) /\ u(l) \in Nat
            BY <1>c
          <6>2. f[l] \in Nat /\ f[l] = P[l][i]
            BY <2>2, <2>4
          <6>3. P[l][i] <= Total(n, P[l]) /\ Total(n, P[l]) \in Nat /\ Total(n, P[l]) <= u(l)
            BY <1>3
          <6> HIDE DEF u, g
          <6> QED  BY <6>1, <6>2, <6>3
        <5>2. g[1] + g[2] + g[3] + g[4] + g[5] <= nMaxMoney
          <6>1. g[1] = u(1) /\ g[2] = u(2) /\ g[3] = u(3) /\ g[4] = u(4) /\ g[5] = u(5)
            BY <2>5
          <6> HIDE DEF u, g
          <6> QED  BY <1>b, <6>1
        <5>3. nMaxMoney \in Nat /\ nInt64 \in Nat /\ nMaxMoney < nInt64
          BY ArithmeticAssumption
        <5> HIDE DEF g, u
        <5>4. f[1] + f[2] + f[3] + f[4] + f[5] <= nMaxMoney
          BY <5>1, <5>2, <5>3, FiveBelow
        <5>5. Total(5, f) <= nMaxMoney /\ Total(5, f) \in Nat
          BY <2>6, <4>1, <5>4
        <5> QED  BY <5>3, <5>5
      <4>3. Int64(Total(5, f)) = Total(5, f)
        BY <2>6, <4>1, <4>2, Int64Same
      <4> QED  BY <2>6, <3>1, <4>1, <4>3
    <3> QED  BY <3>2, <3>3, Zenon
  <2>11. CASE i \notin won
    <3>1. w[i] = 0
      BY <2>9, <2>11
    <3>2. P[1][i] = 0 /\ P[2][i] = 0 /\ P[3][i] = 0 /\ P[4][i] = 0 /\ P[5][i] = 0
      BY <2>1, <2>5, <2>8, <2>11
    <3> QED  BY <3>1, <3>2
  <2> QED  BY <2>10, <2>11
<1>6. ValueOf(Keep(won, n, v)) = Total(n, w)
  <2> DEFINE T == {v[i] : i \in won}
  <2>1. ASSUME NEW x \in T PROVE x.nValue \in Int
    <3>1. PICK i \in won : x = v[i]
      OBVIOUS
    <3>2. i \in 1..n /\ w[i] = v[i].nValue
      BY <3>1
    <3> HIDE DEF v, w, P, total, max, paid, won, n
    <3>3. w[i] \in Nat
      BY <1>5, <3>2
    <3>4. x.nValue = w[i]
      BY <3>1, <3>2
    <3> QED  BY <3>3, <3>4
  <2>2. \A i \in 1..n : i \in won => v[i] \in T
    OBVIOUS
  <2>4. Amounts(T) /\ Named(won, n, v, T)
    BY <2>1, <2>2 DEF Amounts, Named
  <2>5. w = Worth(won, n, v)
    BY DEF Worth
  <2> HIDE DEF T, v, won, w, n
  <2> QED  BY <1>0, <2>4, <2>5, KeepRule
<1> HIDE DEF P, w, v, won, total, max, n
<1>7. Total(n, w) = Total(n, P[1]) + Total(n, P[2]) + Total(n, P[3]) + Total(n, P[4]) + Total(n, P[5])
  <2>1. \A l \in Level : \A i \in 1..n : P[l][i] \in Nat
    BY <1>3
  <2>2. \A i \in 1..n : w[i] = P[1][i] + P[2][i] + P[3][i] + P[4][i] + P[5][i]
    BY <1>5
  <2> DEFINE p1 == P[1]
             p2 == P[2]
             p3 == P[3]
             p4 == P[4]
             p5 == P[5]
  <2>3. \A i \in 1..n : p1[i] \in Nat /\ p2[i] \in Nat /\ p3[i] \in Nat /\ p4[i] \in Nat /\ p5[i] \in Nat
    BY <2>1 DEF Level
  <2>4. \A i \in 1..n : w[i] = p1[i] + p2[i] + p3[i] + p4[i] + p5[i]
    BY <2>2
  <2> HIDE DEF p1, p2, p3, p4, p5
  <2>5. Total(n, w) = Total(n, p1) + Total(n, p2) + Total(n, p3) + Total(n, p4) + Total(n, p5)
    BY <1>0, <2>3, <2>4, FiveColumns
  <2> QED  BY <2>5 DEF p1, p2, p3, p4, p5
<1> HIDE DEF u
<1>9. /\ Total(n, P[1]) \in Nat /\ Total(n, P[1]) <= u(1)
      /\ Total(n, P[2]) \in Nat /\ Total(n, P[2]) <= u(2)
      /\ Total(n, P[3]) \in Nat /\ Total(n, P[3]) <= u(3)
      /\ Total(n, P[4]) \in Nat /\ Total(n, P[4]) <= u(4)
      /\ Total(n, P[5]) \in Nat /\ Total(n, P[5]) <= u(5)
  BY <1>3 DEF Level
<1> QED  BY <1>2, <1>4, <1>6, <1>7, <1>8, <1>9

\* No bet on all 21 red numbers: the number of its tickets is not computed.
FewReds == \A s \in BetLists : \A i \in 1..Len(s) : Len(s[i].red) <= 20

\* The bets of a block that are drawn.
LEMMA BetsKept ==
    ASSUME NEW s \in BetLists \cup {<<>>}, NEW top
    PROVE  /\ ValidBets(top, s) \in Seq(ABet)
           /\ FewReds => ValidBets(top, s) \in Seq(Fit)
<1> DEFINE n == Len(s)
           S == {i \in 1..n : IsValid(s[i]) \/ top <= nUnchecked}
<1>1. n \in Nat /\ \A i \in 1..n : s[i] \in ABet
  <2>1. s \in Seq(ABet)
    <3>1. CASE s \in BetLists
      BY <3>1, BetAssumption DEF ABet
    <3>2. CASE s = <<>>
      BY <3>2
    <3> QED  BY <3>1, <3>2
  <2> QED  BY <2>1
<1>2. ValidBets(top, s) = Keep(S, n, s)
  BY DEF ValidBets
<1>3. \A x \in ABet : x.nValue \in Int
  BY DEF ABet
<1>4. ASSUME FewReds, NEW i \in 1..n PROVE s[i] \in Fit
  <2>1. s \in BetLists
    <3>1. s = <<>> => n = 0
      OBVIOUS
    <3> QED  BY <1>1, <3>1
  <2>2. Len(s[i].red) <= 20
    BY <1>4, <2>1 DEF FewReds
  <2>3. CASE IsValid(s[i])
    <3>1. s[i] \in Proper
      BY <1>1, <2>2, <2>3 DEF Proper
    <3> QED  BY <3>1, ProperFit
  <2>4. CASE ~IsValid(s[i])
    <3>1. Len(s[i].red) <= 20 /\ Len(s[i].blue) <= 20 /\ getTotalBer(s[i]) \in 1..s[i].nValue
      BY <2>1, <2>4, BetAssumption, Zenon
    <3> QED  BY <1>1, <3>1 DEF Fit
  <2> QED  BY <2>3, <2>4
<1>5. Amounts(ABet) /\ Named(S, n, s, ABet)
  BY <1>1, <1>3 DEF Amounts, Named
<1>6. ASSUME FewReds PROVE Amounts(Fit) /\ Named(S, n, s, Fit)
  BY <1>1, <1>3, <1>4, <1>6 DEF Amounts, Named, Fit
<1> HIDE DEF S, n
<1>7. Keep(S, n, s) \in Seq(ABet)
  BY <1>1, <1>5, KeepRule
<1>8. ASSUME FewReds PROVE Keep(S, n, s) \in Seq(Fit)
  BY <1>1, <1>6, <1>8, KeepRule
<1> QED  BY <1>2, <1>7, <1>8

\* What GetReWardOutput pays from the pool.
LEMMA DrawBound ==
    ASSUME NEW bets \in Seq(Fit), NEW luck, NEW pool \in 0..nMaxMoney, Sound(bets, RewardMaps(bets, luck))
    PROVE  10 * ValueOf(GetReWardOutput(bets, luck, pool)) <= 8 * pool
<1> DEFINE n == Len(bets)
           map == RewardMaps(bets, luck)
<1>1. n \in Nat /\ DOMAIN map = 1..n /\ \A i \in 1..n : bets[i] \in Fit /\ map[i] = rewardmap(bets[i], luck)
  BY DEF RewardMaps
<1>2. ASSUME NEW i \in 1..n
      PROVE  /\ bets[i].type \in {"15_6", "mulilt"}
             /\ DOMAIN map[i] \subseteq Level
             /\ \A l \in DOMAIN map[i] : map[i][l] \in Nat \ {0} /\ GetMulit(bets[i].type, l) \in Nat \ {0}
  <2> HIDE DEF map, n
  <2>1. bets[i] \in Fit /\ map[i] = rewardmap(bets[i], luck)
    BY <1>1
  <2> QED  BY <2>1, FitNumbers, StakesWon
<1>3. GetReWardOutput(bets, luck, pool) = RewardsOf(bets, map, pool)
  BY DEF GetReWardOutput
<1>4. Sound(bets, map)
  OBVIOUS
<1> HIDE DEF map
<1>5. Scored(bets, map)
  BY <1>1, <1>2 DEF Scored
<1> QED  BY <1>3, <1>4, <1>5, OutputsBound

-----------------------------------------------------------------------------
(* The blocks of a chain                                                   *)

\* The chain below a block.
LEMMA Prefix ==
    ASSUME NEW s, s \in Seq({s[i] : i \in 1..Len(s)}), NEW h \in 1..Len(s)
    PROVE  LET c == SubSeq(s, 1, h - 1)
           IN  Len(c) = h - 1 /\ h - 1 \in Nat /\ c = [i \in 1..(h - 1) |-> s[i]]
<1> DEFINE S == {s[i] : i \in 1..Len(s)}
           m == h - 1
           c == SubSeq(s, 1, m)
<1>1. m \in Nat /\ m <= Len(s) /\ s \in Seq(S)
  OBVIOUS
<1> HIDE DEF m, S
<1>2. c = [i \in 1..m |-> s[i]]
  BY <1>1
<1>3. \A i \in 1..m : s[i] \in S
  BY <1>1
<1>4. c \in Seq(S) /\ Len(c) = m
  BY <1>1, <1>2, <1>3
<1> QED  BY <1>1, <1>2, <1>4 DEF m

\* What the blocks of a chain hold, by their height.
Placed ==
    /\ keys \subseteq DrawIDs
    /\ Len(chain) \in 0..MaxHeight /\ chain \in Seq({chain[i] : i \in 1..Len(chain)})
    /\ \A i \in 1..Len(chain) : chain[i].bets \in BetsAt(i) /\ chain[i].hash \in HashesAt(i)

LEMMA PlacedInit == LotteryInit => Placed
<1> SUFFICES ASSUME LotteryInit PROVE Placed
  OBVIOUS
<1>1. chain = <<>> /\ Len(chain) = 0 /\ keys = {}
  BY DEF LotteryInit
<1> QED  BY <1>1, IntervalAssumption DEF Placed

LEMMA PlacedNext ==
    ASSUME Placed, [LotteryNext]_lotteryVars
    PROVE  Placed'
<1> DEFINE L == Len(chain)
           S == {chain[i] : i \in 1..Len(chain)}
<1>0. L \in 0..MaxHeight /\ L \in Nat /\ chain \in Seq(S)
  BY IntervalAssumption DEF Placed
<1>k. keys' \subseteq DrawIDs
  <2>1. CASE Publish
    BY <2>1 DEF Publish, Placed
  <2> QED  BY <2>1 DEF Placed, LotteryNext, ConnectBlock, DisconnectBlock, lotteryVars
<1>1. CASE UNCHANGED chain
  BY <1>1, <1>k DEF Placed, BetsAt, HashesAt, DrawIDs
<1>2. CASE DisconnectBlock
  <2> DEFINE c == SubSeq(chain, 1, L - 1)
  <2>1. chain # <<>> /\ chain' = c
    BY <1>2 DEF DisconnectBlock
  <2>2. /\ L - 1 \in Nat /\ Len(c) = L - 1 /\ c \in Seq({c[i] : i \in 1..Len(c)})
        /\ \A i \in 1..(L - 1) : i \in 1..L /\ c[i] = chain[i]
    BY <1>0, <2>1, LastRemoved
  <2> HIDE DEF c, S
  <2>3. Len(c) \in 0..MaxHeight
    BY <1>0, <2>2, IntervalAssumption
  <2>4. \A i \in 1..Len(c) : c[i].bets \in BetsAt(i) /\ c[i].hash \in HashesAt(i)
    BY <2>2 DEF Placed
  <2> QED  BY <1>k, <2>1, <2>2, <2>3, <2>4 DEF Placed, BetsAt, HashesAt
<1>3. CASE ConnectBlock
  <2>1. PICK bets \in BetsAt(L + 1), h \in HashesAt(L + 1), known \in SUBSET {DrawID(L)} :
           chain' = Append(chain, CreateNewBlock(chain, known, bets, h))
    BY <1>3 DEF ConnectBlock
  <2> DEFINE b == CreateNewBlock(chain, known, bets, h)
             U == S \cup {b}
             c == Append(chain, b)
  <2>2. b.bets = bets /\ b.hash = h /\ L < MaxHeight
    BY <1>3 DEF CreateNewBlock, ConnectBlock
  <2> HIDE DEF b, S
  <2>3. c \in Seq(U) /\ Len(c) = L + 1 /\ c[L + 1] = b /\ \A i \in 1..L : c[i] = chain[i]
    BY <1>0
  <2> HIDE DEF c
  <2>4. c \in Seq({c[i] : i \in 1..Len(c)})
    BY <2>3
  <2>5. Len(c) \in 0..MaxHeight
    BY <1>0, <2>2, <2>3, IntervalAssumption
  <2>6. ASSUME NEW i \in 1..Len(c) PROVE c[i].bets \in BetsAt(i) /\ c[i].hash \in HashesAt(i)
    <3>1. CASE i = L + 1
      BY <2>1, <2>2, <2>3, <3>1
    <3>2. CASE i \in 1..L
      BY <2>3, <3>2 DEF Placed
    <3> QED  BY <1>0, <2>3, <3>1, <3>2
  <2>7. chain' = c
    BY <2>1 DEF b, c
  <2> QED  BY <1>k, <2>4, <2>5, <2>6, <2>7 DEF Placed, BetsAt, HashesAt
<1> QED  BY <1>1, <1>2, <1>3 DEF LotteryNext, Publish, lotteryVars

\* Who knows more accepts what was accepted: the key that a block carries is known
\* already, and one without a key is not asked for it.
LEMMA MoreKeys ==
    ASSUME NEW c, NEW b, NEW known, NEW more, known \subseteq more, CheckLottoResult(c, b, known)
    PROVE  CheckLottoResult(c, b, more)
<1>1. CASE Len(c) >= 2 * nIntervalLottery /\ b.uLottoKey # "none"
  <2>1. GetLotteryKey(known, Len(c)) = b.uLottoKey
    BY <1>1 DEF CheckLottoResult
  <2>2. GetLotteryKey(more, Len(c)) = b.uLottoKey
    BY <1>1, <2>1 DEF GetLotteryKey
  <2> QED  BY <1>1, <2>2 DEF CheckLottoResult
<1>2. CASE ~(Len(c) >= 2 * nIntervalLottery /\ b.uLottoKey # "none")
  BY <1>2 DEF CheckLottoResult
<1> QED  BY <1>1, <1>2

LEMMA AcceptedNext ==
    ASSUME Placed, AcceptedForGood, [LotteryNext]_lotteryVars
    PROVE  AcceptedForGood'
<1> DEFINE L == Len(chain)
           S == {chain[i] : i \in 1..Len(chain)}
<1>0. L \in Nat /\ chain \in Seq(S)
  BY IntervalAssumption DEF Placed
<1>1. CASE UNCHANGED chain
  <2>1. keys \subseteq keys'
    BY DEF LotteryNext, ConnectBlock, DisconnectBlock, Publish, lotteryVars
  <2> QED  BY <1>1, <2>1 DEF AcceptedForGood, Below, CheckLottoResult, DrawIDs
<1>2. ASSUME NEW h \in 1..Len(chain'), NEW known \in SUBSET DrawIDs, keys' \subseteq known,
             ~UNCHANGED chain, keys' = keys, h <= L,
             Len(chain') \in Nat, chain' \in Seq({chain'[i] : i \in 1..Len(chain')}),
             \A i \in 1..h : chain'[i] = chain[i]
      PROVE  CheckLottoResult(SubSeq(chain', 1, h - 1), chain'[h], known)
  <2>1. h \in 1..L /\ h \in 1..h
    BY <1>0, <1>2
  <2>2. SubSeq(chain, 1, h - 1) = [i \in 1..(h - 1) |-> chain[i]]
    BY <1>0, <2>1, Prefix
  <2>3. SubSeq(chain', 1, h - 1) = [i \in 1..(h - 1) |-> chain'[i]]
    BY <1>2, Prefix
  <2>4. \A i \in 1..(h - 1) : i \in 1..h
    BY <1>0, <2>1
  <2>5. SubSeq(chain', 1, h - 1) = SubSeq(chain, 1, h - 1)
    BY <1>2, <2>2, <2>3, <2>4, Zenon
  <2>6. CheckLottoResult(SubSeq(chain, 1, h - 1), chain[h], known)
    BY <1>2, <2>1 DEF AcceptedForGood, Below
  <2> QED  BY <1>2, <2>1, <2>5, <2>6, Zenon
<1>3. CASE DisconnectBlock /\ ~UNCHANGED chain
  <2> DEFINE c == SubSeq(chain, 1, L - 1)
  <2>1. chain # <<>> /\ chain' = c /\ keys' = keys
    BY <1>3 DEF DisconnectBlock
  <2>2. /\ L - 1 \in Nat /\ Len(c) = L - 1 /\ c \in Seq({c[i] : i \in 1..Len(c)})
        /\ \A i \in 1..(L - 1) : i \in 1..L /\ c[i] = chain[i]
    BY <1>0, <2>1, LastRemoved
  <2> HIDE DEF c, S
  <2>3. ASSUME NEW h \in 1..Len(chain'), NEW known \in SUBSET DrawIDs, keys' \subseteq known
        PROVE  CheckLottoResult(SubSeq(chain', 1, h - 1), chain'[h], known)
    <3>1. h \in 1..(L - 1) /\ h <= L /\ \A i \in 1..h : i \in 1..(L - 1)
      BY <1>0, <2>1, <2>2
    <3>2. Len(chain') \in Nat /\ chain' \in Seq({chain'[i] : i \in 1..Len(chain')})
      BY <2>1, <2>2
    <3>3. \A i \in 1..h : chain'[i] = chain[i]
      BY <2>1, <2>2, <3>1
    <3> QED  BY <1>2, <1>3, <2>1, <2>3, <3>1, <3>2, <3>3
  <2> QED  BY <2>3 DEF AcceptedForGood, Below, CheckLottoResult, DrawIDs
<1>4. CASE ConnectBlock /\ ~UNCHANGED chain
  <2>1. PICK bets, g, k :
           /\ chain' = Append(chain, CreateNewBlock(chain, k, bets, g))
           /\ CheckLottoResult(chain, CreateNewBlock(chain, k, bets, g), keys)
    BY <1>4 DEF ConnectBlock
  <2> DEFINE b == CreateNewBlock(chain, k, bets, g)
             U == S \cup {b}
             c == Append(chain, b)
  <2>2. chain' = c /\ CheckLottoResult(chain, b, keys) /\ keys' = keys
    BY <1>4, <2>1 DEF ConnectBlock
  <2> HIDE DEF b, S
  <2>3. c \in Seq(U) /\ Len(c) = L + 1 /\ c[L + 1] = b /\ \A i \in 1..L : c[i] = chain[i]
    BY <1>0
  <2> HIDE DEF c
  <2>4. c \in Seq({c[i] : i \in 1..Len(c)})
    BY <2>3
  <2>5. ASSUME NEW h \in 1..Len(chain'), NEW known \in SUBSET DrawIDs, keys' \subseteq known
        PROVE  CheckLottoResult(SubSeq(chain', 1, h - 1), chain'[h], known)
    <3>1. h \in 1..(L + 1) /\ Len(chain') \in Nat /\ chain' \in Seq({chain'[i] : i \in 1..Len(chain')})
      BY <1>0, <2>2, <2>3, <2>4
    <3>2. CASE h = L + 1
      <4>1. h - 1 = L
        BY <1>0, <3>2
      <4>2. SubSeq(chain', 1, h - 1) = [i \in 1..(h - 1) |-> chain'[i]]
        BY <3>1, Prefix
      <4>3. [i \in 1..L |-> chain'[i]] = [i \in 1..L |-> chain[i]]
        BY <2>2, <2>3, Zenon
      <4>4. chain = [i \in 1..L |-> chain[i]]
        BY <1>0
      <4>5. SubSeq(chain', 1, h - 1) = chain /\ chain'[h] = b
        BY <2>2, <2>3, <3>2, <4>1, <4>2, <4>3, <4>4, Zenon
      <4>6. CheckLottoResult(chain, b, known)
        BY <2>2, <2>5, MoreKeys
      <4> QED  BY <4>5, <4>6, Zenon
    <3>3. CASE h # L + 1
      <4>1. h <= L /\ \A i \in 1..h : i \in 1..L
        BY <1>0, <3>1, <3>3
      <4>2. \A i \in 1..h : chain'[i] = chain[i]
        BY <2>2, <2>3, <4>1
      <4> QED  BY <1>2, <1>4, <2>2, <2>5, <3>1, <4>1, <4>2
    <3> QED  BY <3>2, <3>3
  <2> QED  BY <2>5 DEF AcceptedForGood, Below, CheckLottoResult, DrawIDs
<1> QED  BY <1>1, <1>3, <1>4 DEF LotteryNext, Publish, lotteryVars

LEMMA AcceptedInit == LotteryInit => AcceptedForGood
<1> SUFFICES ASSUME LotteryInit PROVE AcceptedForGood
  OBVIOUS
<1>1. chain = <<>> /\ Len(chain) = 0
  BY DEF LotteryInit
<1> QED  BY <1>1 DEF AcceptedForGood

\* AcceptedForGood for any bets, intervals and keys, and every history of blocks,
\* reorganisations and keys: CheckLottoResult of a block that ConnectBlock
\* accepted never depends on a key that the block does not carry.
THEOREM ConnectedForGood == LotterySpec => []AcceptedForGood
<1>1. Placed /\ AcceptedForGood /\ [LotteryNext]_lotteryVars => Placed' /\ AcceptedForGood'
  BY PlacedNext, AcceptedNext
<1> QED  BY <1>1, PlacedInit, AcceptedInit, PTL DEF LotterySpec

\* What a block pays that CheckLottoResult accepts.
LEMMA PaysBelow ==
    ASSUME FewReds, Placed, AcceptedForGood, NEW h \in 1..Len(chain),
           Pool(Below(h)) \in 0..nMaxMoney, chain[h].outs # <<>> => Fits(Below(h))
    PROVE  10 * ValueOf(chain[h].outs) <= 8 * Pool(Below(h))
<1> DEFINE c == Below(h)
           p == Pool(c)
           n == nIntervalLottery
           b == chain[h]
           k == Len(c) + 1 - 2 * n
<1>0. Len(c) = h - 1 /\ h - 1 \in Nat /\ c = [i \in 1..(h - 1) |-> chain[i]]
  BY Prefix DEF Below, Placed
<1>1. CASE b.outs = <<>>
  <2>1. ValueOf(b.outs) = 0
    BY <1>1, ValueEmpty
  <2>2. p \in Nat
    BY ArithmeticAssumption
  <2> HIDE DEF p
  <2> QED  BY <2>1, <2>2 DEF p
<1>2. CASE b.outs # <<>>
  <2>1. CheckLottoResult(c, b, keys)
    BY DEF AcceptedForGood, Placed
  <2>2. Len(c) >= 2 * n /\ b.uLottoKey # "none" /\ b.outs = DrawLottery(c, b.uLottoKey)
    BY <1>2, <2>1 DEF CheckLottoResult
  <2>3. b.outs = GetReWardOutput(BetsDrawn(c), LuckAfter(c), p)
    BY <1>2, <2>2 DEF DrawLottery
  <2>4. k \in 1..(h - 1) /\ k \in 1..Len(chain)
    <3>1. n \in Nat \ {0} /\ Len(chain) \in Nat
      BY IntervalAssumption DEF Placed
    <3> DEFINE m == Len(c)
    <3>2. m = h - 1 /\ m >= 2 * n
      BY <1>0, <2>2
    <3> HIDE DEF m, n, c
    <3> QED  BY <3>1, <3>2 DEF m
  <2>5. c[k].bets \in BetLists \cup {<<>>}
    <3>1. c[k] = chain[k]
      <4> HIDE DEF k
      <4> QED  BY <1>0, <2>4
    <3>2. chain[k].bets \in BetsAt(k)
      <4> HIDE DEF k
      <4> QED  BY <2>4 DEF Placed
    <3> HIDE DEF k, c
    <3> QED  BY <3>1, <3>2 DEF BetsAt
  <2>6. BetsDrawn(c) = ValidBets(Len(c), c[k].bets)
    BY DEF BetsDrawn
  <2>7. BetsDrawn(c) \in Seq(Fit)
    <3> HIDE DEF k, c
    <3> QED  BY <2>5, <2>6, BetsKept
  <2>8. Sound(BetsDrawn(c), RewardMaps(BetsDrawn(c), LuckAfter(c)))
    BY <1>2, Zenon DEF Fits, Sound
  <2>9. p \in 0..nMaxMoney
    OBVIOUS
  <2> HIDE DEF p, c, b
  <2>10. 10 * ValueOf(b.outs) <= 8 * p
    BY <2>3, <2>7, <2>8, <2>9, DrawBound
  <2> QED  BY <2>10 DEF b, p, c
<1> QED  BY <1>1, <1>2

\* Solvent for every history of blocks and reorganisations, with bets on at most
\* 20 red numbers, valid or drawn unchecked, and any number of them: what
\* GetReWardOutput pays is together no more than the four fifths of the pool
\* that CreateStatisticsRewardMap offers, for every rounding of its sums.
THEOREM PoolSolvent ==
    ASSUME FewReds
    PROVE  LotterySpec => []Solvent
<1>1. Placed /\ AcceptedForGood /\ [LotteryNext]_lotteryVars => Placed' /\ AcceptedForGood'
  BY PlacedNext, AcceptedNext
<1>2. Placed /\ AcceptedForGood => Solvent
  <2> SUFFICES ASSUME Placed, AcceptedForGood, NEW h \in 2..Len(chain),
                      Pool(Below(h)) \in 0..nMaxMoney, chain[h].outs # <<>> => Fits(Below(h))
               PROVE  10 * ValueOf(chain[h].outs) <= 8 * Pool(Below(h))
    BY Zenon DEF Solvent
  <2>1. h \in 1..Len(chain)
    BY IntervalAssumption DEF Placed
  <2> QED  BY <2>1, PaysBelow
<1> QED  BY <1>1, <1>2, PlacedInit, AcceptedInit, PTL DEF LotterySpec

-----------------------------------------------------------------------------
(* Tickets as sets of numbers                                              *)

\* The sets of k members of a finite set.
LEMMA SubsetsFinite ==
    ASSUME NEW S, IsFiniteSet(S), NEW k
    PROVE  IsFiniteSet(kSubset(k, S)) /\ Cardinality(kSubset(k, S)) \in Nat
<1>1. IsFiniteSet(SUBSET S) /\ kSubset(k, S) \in SUBSET (SUBSET S)
  BY FS_SUBSET DEF kSubset
<1>2. IsFiniteSet(kSubset(k, S))
  BY <1>1, FS_Subset
<1> QED  BY <1>2, FS_CardinalityType

LEMMA SubsetOf ==
    ASSUME NEW S, IsFiniteSet(S), NEW s \in SUBSET S
    PROVE  IsFiniteSet(s) /\ Cardinality(s) \in Nat /\ Cardinality(s) <= Cardinality(S)
<1>1. IsFiniteSet(s) /\ Cardinality(s) <= Cardinality(S)
  BY FS_Subset
<1> QED  BY <1>1, FS_CardinalityType

\* None, all or too many of them.
LEMMA NoneOrAll ==
    ASSUME NEW S, IsFiniteSet(S)
    PROVE  /\ Cardinality(kSubset(0, S)) = 1
           /\ Cardinality(kSubset(Cardinality(S), S)) = 1
           /\ \A k \in Nat : k > Cardinality(S) => Cardinality(kSubset(k, S)) = 0
<1>1. kSubset(0, S) = {{}}
  <2>1. ASSUME NEW s \in kSubset(0, S) PROVE s = {}
    <3>1. s \in SUBSET S /\ Cardinality(s) = 0
      BY DEF kSubset
    <3>2. IsFiniteSet(s)
      BY <3>1, SubsetOf
    <3> QED  BY <3>1, <3>2, FS_EmptySet
  <2>2. {} \in kSubset(0, S)
    BY FS_EmptySet DEF kSubset
  <2> QED  BY <2>1, <2>2
<1>2. kSubset(Cardinality(S), S) = {S}
  <2>1. ASSUME NEW s \in kSubset(Cardinality(S), S) PROVE s = S
    <3>1. s \in SUBSET S /\ Cardinality(s) = Cardinality(S)
      BY DEF kSubset
    <3> QED  BY <3>1, FS_Subset
  <2>2. S \in kSubset(Cardinality(S), S)
    BY DEF kSubset
  <2> QED  BY <2>1, <2>2
<1>3. ASSUME NEW k \in Nat, k > Cardinality(S) PROVE kSubset(k, S) = {}
  <2> SUFFICES ASSUME NEW s \in kSubset(k, S) PROVE FALSE
    OBVIOUS
  <2>1. s \in SUBSET S /\ Cardinality(s) = k
    BY DEF kSubset
  <2>2. Cardinality(s) <= Cardinality(S) /\ Cardinality(S) \in Nat
    BY <2>1, SubsetOf, FS_CardinalityType
  <2> QED  BY <1>3, <2>1, <2>2
<1>4. Cardinality({{}}) = 1 /\ Cardinality({S}) = 1 /\ Cardinality({}) = 0
  BY FS_Singleton, FS_EmptySet
<1> QED  BY <1>1, <1>2, <1>3, <1>4

\* Pascal's rule: those with a new member, and those without.
LEMMA OneMore ==
    ASSUME NEW S, IsFiniteSet(S), NEW x, x \notin S, NEW k \in Nat
    PROVE  Cardinality(kSubset(k + 1, S \cup {x}))
             = Cardinality(kSubset(k + 1, S)) + Cardinality(kSubset(k, S))
<1> DEFINE A == kSubset(k + 1, S)
           B == kSubset(k, S)
           D == {s \cup {x} : s \in B}
           f == [s \in B |-> s \cup {x}]
<1>1. ASSUME NEW s \in SUBSET S
      PROVE  IsFiniteSet(s) /\ Cardinality(s) \in Nat /\ x \notin s /\ Cardinality(s \cup {x}) = Cardinality(s) + 1
  <2>1. IsFiniteSet(s) /\ Cardinality(s) \in Nat /\ x \notin s
    BY SubsetOf
  <2> QED  BY <2>1, FS_AddElement
<1>2. kSubset(k + 1, S \cup {x}) = A \cup D
  <2>1. ASSUME NEW t \in kSubset(k + 1, S \cup {x}) PROVE t \in A \cup D
    <3>1. t \in SUBSET (S \cup {x}) /\ Cardinality(t) = k + 1
      BY DEF kSubset
    <3>2. CASE x \notin t
      <4>1. t \in SUBSET S
        BY <3>1, <3>2
      <4>2. t \in A
        BY <3>1, <4>1 DEF kSubset
      <4> QED  BY <4>2
    <3>3. CASE x \in t
      <4> DEFINE s == t \ {x}
      <4>1. s \in SUBSET S /\ t = s \cup {x}
        BY <3>1, <3>3
      <4> HIDE DEF s
      <4>2. Cardinality(s) \in Nat /\ k + 1 = Cardinality(s) + 1
        BY <1>1, <3>1, <4>1
      <4>3. Cardinality(s) = k
        BY <4>2
      <4>4. s \in B
        BY <4>1, <4>3 DEF kSubset
      <4> QED  BY <4>1, <4>4
    <3> QED  BY <3>2, <3>3
  <2>2. ASSUME NEW t \in A PROVE t \in kSubset(k + 1, S \cup {x})
    BY DEF kSubset
  <2>3. ASSUME NEW s \in B PROVE s \cup {x} \in kSubset(k + 1, S \cup {x})
    <3>1. s \in SUBSET S /\ Cardinality(s) = k
      BY DEF kSubset
    <3>2. Cardinality(s \cup {x}) = k + 1
      BY <1>1, <3>1
    <3>3. s \cup {x} \in SUBSET (S \cup {x})
      BY <3>1
    <3> QED  BY <3>2, <3>3 DEF kSubset
  <2> QED  BY <2>1, <2>2, <2>3
<1>3. A \cap D = {}
  BY DEF kSubset
<1>4. IsFiniteSet(A) /\ IsFiniteSet(B) /\ Cardinality(A) \in Nat /\ Cardinality(B) \in Nat
  BY SubsetsFinite
<1>5. f \in Bijection(B, D)
  <2>1. \A s \in B : x \notin s
    BY DEF kSubset
  <2> HIDE DEF B
  <2>2. f \in [B -> D] /\ \A t \in D : \E s \in B : f[s] = t
    OBVIOUS
  <2>3. ASSUME NEW s \in B, NEW t \in B, f[s] = f[t] PROVE s = t
    <3>1. s \cup {x} = t \cup {x} /\ x \notin s /\ x \notin t
      BY <2>1, <2>3
    <3> QED  BY <3>1
  <2> QED  BY <2>2, <2>3, Zenon DEF Bijection, Injection, Surjection, IsInjective
<1> HIDE DEF A, B, D, f
<1>6. IsFiniteSet(D) /\ Cardinality(D) = Cardinality(B)
  BY <1>4, <1>5, FS_Bijection DEF ExistsBijection
<1>7. Cardinality(A \cup D) = Cardinality(A) + Cardinality(D) - Cardinality(A \cap D)
  BY <1>4, <1>6, FS_Union
<1>8. Cardinality(A \cap D) = 0
  BY <1>3, FS_EmptySet
<1>9. Cardinality(A \cup D) = Cardinality(A) + Cardinality(B)
  BY <1>4, <1>6, <1>7, <1>8
<1> QED  BY <1>2, <1>9, Zenon DEF A, B

\* Each of k members can be the last one, so the sets of k members are to those of
\* k - 1 as n - k + 1 is to k.
Ratio(T) == \A k \in Nat \ {0} :
    k * Cardinality(kSubset(k, T)) = (Cardinality(T) - k + 1) * Cardinality(kSubset(k - 1, T))

LEMMA RatioStep ==
    ASSUME NEW S, IsFiniteSet(S), NEW x, x \notin S, Ratio(S)
    PROVE  Ratio(S \cup {x})
<1> DEFINE U == S \cup {x}
           n == Cardinality(S)
           c(k) == Cardinality(kSubset(k, S))
           d(k) == Cardinality(kSubset(k, U))
<1>1. IsFiniteSet(U) /\ n \in Nat /\ Cardinality(U) = n + 1
  BY FS_AddElement, FS_CardinalityType
<1>2. \A k \in Nat : c(k) \in Nat /\ d(k) \in Nat
  BY <1>1, SubsetsFinite
<1>3. c(0) = 1 /\ d(0) = 1
  BY <1>1, NoneOrAll
<1>4. \A k \in Nat : d(k + 1) = c(k + 1) + c(k)
  BY OneMore
<1>5. \A k \in Nat \ {0} : k * c(k) = (n - k + 1) * c(k - 1)
  BY DEF Ratio
<1> HIDE DEF c, d, n
<1>6. ASSUME NEW k \in Nat \ {0} PROVE k * d(k) = (n + 1 - k + 1) * d(k - 1)
  <2>1. k - 1 \in Nat /\ (k - 1) + 1 = k
    OBVIOUS
  <2>2. d(k) = c(k) + c(k - 1)
    <3>1. d((k - 1) + 1) = c((k - 1) + 1) + c(k - 1)
      BY <1>4, <2>1
    <3> QED  BY <2>1, <3>1
  <2> DEFINE a == c(k - 1)
             e == c(k)
  <2>3. a \in Nat /\ e \in Nat /\ k * e = (n - k + 1) * a
    BY <1>2, <1>5, <2>1
  <2>4. k * d(k) = (n + 1) * a
    <3>1. d(k) = e + a
      BY <2>2
    <3> HIDE DEF a, e
    <3>2. k * (e + a) = k * e + k * a
      BY <2>3
    <3>3. (n - k + 1) * a + k * a = (n + 1) * a
      BY <1>1, <2>3
    <3> QED  BY <2>3, <3>1, <3>2, <3>3
  <2>5. CASE k = 1
    <3>1. d(k - 1) = 1 /\ a = 1
      BY <1>3, <2>5
    <3> HIDE DEF a
    <3> QED  BY <1>1, <2>4, <2>5, <3>1
  <2>6. CASE k # 1
    <3> DEFINE j == k - 1
               b == c(j - 1)
    <3>1. j \in Nat \ {0} /\ j - 1 \in Nat /\ (j - 1) + 1 = j
      BY <2>6
    <3>2. b \in Nat /\ j * a = (n - j + 1) * b
      BY <1>2, <1>5, <3>1
    <3>3. d(j) = a + b
      <4>1. d((j - 1) + 1) = c((j - 1) + 1) + c(j - 1)
        BY <1>4, <3>1
      <4> QED  BY <3>1, <4>1
    <3>4. (n - j + 1) * (a + b) = (n + 1) * a
      <4> HIDE DEF a, b
      <4>0. j \in Int /\ k = j + 1
        OBVIOUS
      <4> HIDE DEF j
      <4>1. (n - j + 1) * (a + b) = (n - j + 1) * a + (n - j + 1) * b
        BY <1>1, <2>3, <3>2, <4>0
      <4>2. (n - j + 1) * a + j * a = (n + 1) * a
        BY <1>1, <2>3, <4>0
      <4> QED  BY <3>2, <4>1, <4>2
    <3>5. n + 1 - k + 1 = n - j + 1
      BY <1>1
    <3> HIDE DEF a, b
    <3> QED  BY <2>4, <3>3, <3>4, <3>5
  <2> QED  BY <2>5, <2>6
<1>7. \A k \in Nat \ {0} : k * d(k) = (Cardinality(U) - k + 1) * d(k - 1)
  BY <1>1, <1>6
<1> QED  BY <1>7, Zenon DEF Ratio, d

LEMMA Ratios ==
    ASSUME NEW S, IsFiniteSet(S)
    PROVE  Ratio(S)
<1> DEFINE G == {n \in Nat : \A T \in SUBSET S : Cardinality(T) = n => Ratio(T)}
<1>1. 0 \in G
  <2> SUFFICES ASSUME NEW T \in SUBSET S, Cardinality(T) = 0 PROVE Ratio(T)
    OBVIOUS
  <2>1. IsFiniteSet(T)
    BY SubsetOf
  <2>2. ASSUME NEW k \in Nat \ {0} PROVE k * Cardinality(kSubset(k, T)) = (0 - k + 1) * Cardinality(kSubset(k - 1, T))
    <3>1. Cardinality(kSubset(k, T)) = 0
      BY <2>1, NoneOrAll
    <3>2. CASE k = 1
      <4>1. Cardinality(kSubset(k - 1, T)) \in Nat
        BY <2>1, SubsetsFinite
      <4> QED  BY <3>1, <3>2, <4>1
    <3>3. CASE k > 1
      <4>1. Cardinality(kSubset(k - 1, T)) = 0
        BY <2>1, <3>3, NoneOrAll
      <4> QED  BY <3>1, <3>3, <4>1
    <3> QED  BY <3>2, <3>3
  <2> QED  BY <2>2 DEF Ratio
<1>2. ASSUME NEW n \in Nat, n \in G PROVE n + 1 \in G
  <2> SUFFICES ASSUME NEW T \in SUBSET S, Cardinality(T) = n + 1 PROVE Ratio(T)
    OBVIOUS
  <2>1. IsFiniteSet(T)
    BY SubsetOf
  <2>2. T # {}
    BY FS_EmptySet
  <2>3. PICK x : x \in T
    BY <2>2
  <2> DEFINE R == T \ {x}
  <2>4. IsFiniteSet(R) /\ Cardinality(R) = n
    <3>1. IsFiniteSet(R) /\ Cardinality(R) = Cardinality(T) - 1
      BY <2>1, <2>3, FS_RemoveElement
    <3> QED  BY <3>1
  <2>5. R \in SUBSET S /\ x \notin R /\ T = R \cup {x}
    BY <2>3
  <2> HIDE DEF R
  <2>6. Ratio(R)
    BY <1>2, <2>4, <2>5
  <2>7. Ratio(R \cup {x})
    BY <2>4, <2>5, <2>6, RatioStep
  <2> QED  BY <2>5, <2>7
<1> HIDE DEF G
<1>3. Cardinality(S) \in G
  <2>1. \A n \in Nat : n \in G
    BY <1>1, <1>2, InductionOn
  <2> QED  BY <2>1, FS_CardinalityType
<1> QED  BY <1>3 DEF G

\* A product divided by one of its factors.
LEMMA Divides ==
    ASSUME NEW k \in Nat \ {0}, NEW y \in Nat
    PROVE  (k * y) \div k = y
<1> DEFINE p == k * y
           q == p \div k
<1>1. p \in Nat
  BY Product
<1>2. p = k * y
  OBVIOUS
<1> HIDE DEF p
<1>3. q \in Int /\ k * q <= p /\ p < k * q + k
  BY <1>1
<1> HIDE DEF q
<1>4. ~(q < y)
  <2> SUFFICES ASSUME q + 1 <= y PROVE FALSE
    BY <1>3
  <2>1. k * (q + 1) <= k * y
    BY <1>3
  <2>2. k * (q + 1) = k * q + k
    BY <1>3
  <2> QED  BY <1>2, <1>3, <2>1, <2>2
<1>5. ~(y < q)
  <2> SUFFICES ASSUME y + 1 <= q PROVE FALSE
    BY <1>3
  <2>1. k * (y + 1) <= k * q
    BY <1>3
  <2>2. k * (y + 1) = k * y + k
    OBVIOUS
  <2> QED  BY <1>1, <1>2, <1>3, <2>1, <2>2
<1>6. q = y
  BY <1>3, <1>4, <1>5
<1> QED  BY <1>6 DEF p, q

\* MselectN is the number of sets of n members of a set of at most 20: the divisions
\* leave nothing.
LEMMA SelectCounts ==
    ASSUME NEW S, IsFiniteSet(S), Cardinality(S) <= 20, NEW n \in Nat
    PROVE  MselectN(Cardinality(S), n) = Cardinality(kSubset(n, S))
<1> DEFINE m == Cardinality(S)
           c(k) == Cardinality(kSubset(k, S))
<1>0. m \in 0..20
  BY FS_CardinalityType
<1>1. PICK C \in [0..n -> Nat] : /\ C[0] = 1 /\ \A k \in 1..n : C[k] = (C[k - 1] * (m - k + 1)) \div k
                                 /\ MselectN(m, n) = C[n]
  <2> HIDE DEF m
  <2> QED  BY <1>0, SelectRule
<1>2. \A k \in Nat : c(k) \in Nat
  BY SubsetsFinite
<1>3. c(0) = 1
  BY NoneOrAll
<1>4. \A k \in Nat \ {0} : k * c(k) = (m - k + 1) * c(k - 1)
  BY Ratios DEF Ratio
<1> HIDE DEF m, c
<1> DEFINE G == {k \in Nat : k <= n => C[k] = c(k)}
<1>5. 0 \in G
  BY <1>1, <1>3
<1>6. ASSUME NEW k \in Nat, k \in G PROVE k + 1 \in G
  <2> SUFFICES ASSUME k + 1 <= n PROVE C[k + 1] = c(k + 1)
    OBVIOUS
  <2> DEFINE j == k + 1
  <2>1. j \in 1..n /\ j \in Nat \ {0} /\ j - 1 = k /\ C[k] = c(k)
    BY <1>6
  <2> HIDE DEF j
  <2>2. C[j] = (c(k) * (m - j + 1)) \div j /\ j * c(j) = (m - j + 1) * c(k)
    BY <1>1, <1>4, <2>1
  <2>3. c(k) * (m - j + 1) = (m - j + 1) * c(k)
    BY <1>0, <1>2, <2>1
  <2>4. (j * c(j)) \div j = c(j)
    BY <1>2, <2>1, Divides
  <2>5. C[j] = c(j)
    BY <2>2, <2>3, <2>4
  <2> QED  BY <2>5 DEF j
<1> HIDE DEF G
<1>7. n \in G
  BY <1>5, <1>6, InductionOn
<1>8. C[n] = c(n)
  BY <1>7 DEF G
<1> QED  BY <1>1, <1>8 DEF m, c

\* Numbers that increase are not repeated.
LEMMA NoneTwice ==
    ASSUME NEW s \in Seq(Nat), NEW max, Increasing(s, max)
    PROVE  \A i, j \in 1..Len(s) : s[i] = s[j] => i = j
<1> DEFINE n == Len(s)
           G == {d \in Nat : \A i \in 1..n : i + d + 1 <= n => s[i] < s[i + d + 1]}
<1>0. n \in Nat /\ \A i \in 1..n : s[i] \in Nat
  OBVIOUS
<1>a. \A i \in 1..(n - 1) : s[i] < s[i + 1]
  BY DEF Increasing
<1> HIDE DEF n
<1>1. 0 \in G
  BY <1>0, <1>a
<1>2. ASSUME NEW d \in Nat, d \in G PROVE d + 1 \in G
  <2> SUFFICES ASSUME NEW i \in 1..n, i + (d + 1) + 1 <= n PROVE s[i] < s[i + (d + 1) + 1]
    OBVIOUS
  <2> DEFINE j == i + d + 1
  <2>1. j \in 1..(n - 1) /\ j \in 1..n /\ j + 1 \in 1..n /\ i + (d + 1) + 1 = j + 1
    BY <1>0
  <2>2. s[i] < s[j]
    BY <1>2, <2>1
  <2> HIDE DEF j
  <2>3. s[j] < s[j + 1]
    BY <1>a, <2>1
  <2>4. s[i] < s[j + 1]
    BY <1>0, <2>1, <2>2, <2>3
  <2> QED  BY <2>1, <2>4
<1> HIDE DEF G
<1>3. \A d \in Nat : d \in G
  BY <1>1, <1>2, InductionOn
<1>4. ASSUME NEW i \in 1..n, NEW j \in 1..n, i < j PROVE s[i] < s[j]
  <2>1. j - i - 1 \in Nat /\ i + (j - i - 1) + 1 = j
    BY <1>0, <1>4
  <2>2. j - i - 1 \in G
    BY <1>3, <2>1
  <2> QED  BY <1>0, <2>1, <2>2 DEF G
<1>5. ASSUME NEW i \in 1..n, NEW j \in 1..n, s[i] = s[j] PROVE i = j
  <2>1. ~(i < j) /\ ~(j < i)
    BY <1>0, <1>4, <1>5
  <2> QED  BY <1>0, <2>1
<1> QED  BY <1>5 DEF n

\* A bet has as many numbers as its sequence is long.
LEMMA Distinct ==
    ASSUME NEW s \in Seq(Nat), NEW max, Increasing(s, max)
    PROVE  IsFiniteSet(Range(s)) /\ Cardinality(Range(s)) = Len(s)
<1> DEFINE n == Len(s)
<1>1. \A i, j \in 1..n : s[i] = s[j] => i = j
  BY NoneTwice
<1>2. n \in Nat /\ DOMAIN s = 1..n
  OBVIOUS
<1> HIDE DEF n
<1>3. s \in Bijection(1..n, Range(s))
  <2>1. s \in [1..n -> Range(s)] /\ \A y \in Range(s) : \E i \in 1..n : s[i] = y
    BY <1>2 DEF Range
  <2> QED  BY <1>1, <1>2, <2>1 DEF Bijection, Injection, Surjection, IsInjective
<1>4. IsFiniteSet(1..n) /\ Cardinality(1..n) = n
  <2>1. IsFiniteSet(1..n) /\ Cardinality(1..n) = IF 1 > n THEN 0 ELSE n - 1 + 1
    BY <1>2, FS_Interval
  <2> QED  BY <1>2, <2>1
<1> QED  BY <1>3, <1>4, FS_Bijection DEF ExistsBijection, n

\* Then Hit counts numbers.
LEMMA HitDistinct ==
    ASSUME NEW s \in Seq(Nat), NEW max, Increasing(s, max), NEW X
    PROVE  Hit(s, X) = Cardinality(Range(s) \cap X)
<1> DEFINE n == Len(s)
           K == {k \in 1..n : s[k] \in X}
           f == [k \in K |-> s[k]]
<1>1. \A i, j \in 1..n : s[i] = s[j] => i = j
  BY NoneTwice
<1>2. n \in Nat /\ DOMAIN s = 1..n
  OBVIOUS
<1>3. Hit(s, X) = Cardinality(K)
  BY DEF Hit
<1> HIDE DEF n
<1>4. IsFiniteSet(K)
  <2>1. IsFiniteSet(1..n) /\ K \in SUBSET (1..n)
    BY <1>2, FS_Interval
  <2> QED  BY <2>1, FS_Subset, Zenon
<1>5. f \in Bijection(K, Range(s) \cap X)
  <2>1. \A k \in K : k \in 1..n /\ f[k] = s[k] /\ s[k] \in Range(s) \cap X
    BY <1>2 DEF Range
  <2>2. ASSUME NEW y \in Range(s) \cap X PROVE \E k \in K : f[k] = y
    <3>1. PICK k \in 1..n : s[k] = y
      BY <1>2 DEF Range
    <3>2. k \in K /\ f[k] = y
      BY <3>1
    <3> QED  BY <3>2
  <2>3. \A i, j \in K : f[i] = f[j] => i = j
    BY <1>1, <2>1
  <2>4. f \in [K -> Range(s) \cap X]
    BY <2>1
  <2> HIDE DEF f, K
  <2> QED  BY <2>2, <2>3, <2>4 DEF Bijection, Injection, Surjection, IsInjective
<1> HIDE DEF K, f
<1>6. Cardinality(Range(s) \cap X) = Cardinality(K)
  BY <1>4, <1>5, FS_Bijection DEF ExistsBijection
<1> QED  BY <1>3, <1>6

\* A choice of k with x winning numbers is one of x among the winning ones and one
\* of the others among the rest.
LEMMA SplitSubsets ==
    ASSUME NEW S, IsFiniteSet(S), NEW W, NEW k \in Nat, NEW x \in 0..k
    PROVE  LET D == {t \in kSubset(k, S) : Cardinality(t \cap W) = x}
           IN  /\ IsFiniteSet(D)
               /\ Cardinality(D) = Cardinality(kSubset(x, S \cap W)) * Cardinality(kSubset(k - x, S \ W))
<1> DEFINE D == {t \in kSubset(k, S) : Cardinality(t \cap W) = x}
           A == kSubset(x, S \cap W)
           B == kSubset(k - x, S \ W)
           f == [p \in A \X B |-> p[1] \cup p[2]]
<1>1. IsFiniteSet(S \cap W) /\ IsFiniteSet(S \ W)
  BY FS_Intersection, FS_Difference
<1>2. IsFiniteSet(A) /\ IsFiniteSet(B)
  BY <1>1, SubsetsFinite
<1>3. ASSUME NEW a \in A, NEW b \in B
      PROVE  a \cup b \in D /\ a = (a \cup b) \cap W /\ b = (a \cup b) \ W
  <2>1. a \in SUBSET (S \cap W) /\ b \in SUBSET (S \ W) /\ Cardinality(a) = x /\ Cardinality(b) = k - x
    BY DEF kSubset
  <2>2. IsFiniteSet(a) /\ IsFiniteSet(b)
    BY <1>1, <2>1, SubsetOf
  <2>3. a \cap b = {} /\ a = (a \cup b) \cap W /\ b = (a \cup b) \ W /\ a \cup b \in SUBSET S
    BY <2>1
  <2>4. Cardinality(a \cup b) = Cardinality(a) + Cardinality(b) - Cardinality(a \cap b)
    BY <2>2, FS_Union
  <2>5. Cardinality(a \cap b) = 0
    BY <2>3, FS_EmptySet
  <2>6. Cardinality(a \cup b) = k
    BY <2>1, <2>4, <2>5
  <2>7. a \cup b \in kSubset(k, S)
    BY <2>3, <2>6 DEF kSubset
  <2>8. Cardinality((a \cup b) \cap W) = x
    BY <2>1, <2>3, Zenon
  <2> QED  BY <2>3, <2>7, <2>8
<1>4. ASSUME NEW t \in D PROVE t \cap W \in A /\ t \ W \in B
  <2>1. t \in SUBSET S /\ Cardinality(t) = k /\ Cardinality(t \cap W) = x
    BY DEF kSubset
  <2>2. IsFiniteSet(t)
    BY <2>1, SubsetOf
  <2>3. Cardinality(t \ W) = Cardinality(t) - Cardinality(t \cap W)
    BY <2>2, FS_Difference
  <2>4. Cardinality(t \ W) = k - x
    BY <2>1, <2>3
  <2>5. t \cap W \in SUBSET (S \cap W) /\ t \ W \in SUBSET (S \ W)
    BY <2>1
  <2> QED  BY <2>1, <2>4, <2>5 DEF kSubset
<1> HIDE DEF A, B, D
<1>5. f \in Bijection(A \X B, D)
  <2>1. f \in [A \X B -> D]
    BY <1>3
  <2>2. ASSUME NEW t \in D PROVE \E p \in A \X B : f[p] = t
    <3> DEFINE p == <<t \cap W, t \ W>>
    <3>1. p \in A \X B /\ f[p] = t
      BY <1>4
    <3> QED  BY <3>1
  <2>3. ASSUME NEW p \in A \X B, NEW q \in A \X B, f[p] = f[q] PROVE p = q
    <3>1. f[p] = p[1] \cup p[2] /\ f[q] = q[1] \cup q[2]
      OBVIOUS
    <3>2. p[1] = f[p] \cap W /\ p[2] = f[p] \ W /\ q[1] = f[q] \cap W /\ q[2] = f[q] \ W
      <4>1. p[1] \in A /\ p[2] \in B /\ q[1] \in A /\ q[2] \in B
        OBVIOUS
      <4>2. /\ p[1] = (p[1] \cup p[2]) \cap W /\ p[2] = (p[1] \cup p[2]) \ W
            /\ q[1] = (q[1] \cup q[2]) \cap W /\ q[2] = (q[1] \cup q[2]) \ W
        BY <1>3, <4>1
      <4> HIDE DEF f
      <4> QED  BY <3>1, <4>2, Zenon
    <3>3. p = <<p[1], p[2]>> /\ q = <<q[1], q[2]>>
      OBVIOUS
    <3> HIDE DEF f
    <3> QED  BY <2>3, <3>2, <3>3
  <2>4. DOMAIN f = A \X B
    OBVIOUS
  <2> HIDE DEF f
  <2> QED  BY <2>1, <2>2, <2>3, <2>4, Zenon DEF Bijection, Injection, Surjection, IsInjective
<1> HIDE DEF f
<1>6. IsFiniteSet(A \X B) /\ Cardinality(A \X B) = Cardinality(A) * Cardinality(B)
  BY <1>2, FS_Product
<1>7. IsFiniteSet(D) /\ Cardinality(D) = Cardinality(A \X B)
  BY <1>5, <1>6, FS_Bijection DEF ExistsBijection
<1> QED  BY <1>6, <1>7, Zenon DEF A, B, D

\* The choices of k of the numbers S, x of them in W.
Chosen(S, W, k, x) == {t \in kSubset(k, S) : Cardinality(t \cap W) = x}

\* They are counted by MselectN of the winning numbers and of the others.
Counted(S, W) ==
    \A k \in Nat : \A x \in 0..k :
        LET i == Cardinality(S \cap W)
        IN  /\ IsFiniteSet(Chosen(S, W, k, x))
            /\ Cardinality(Chosen(S, W, k, x)) = MselectN(i, x) * MselectN(Cardinality(S) - i, k - x)

LEMMA ChosenCount ==
    ASSUME NEW S, IsFiniteSet(S), Cardinality(S) <= 20, NEW W
    PROVE  Counted(S, W)
<1> DEFINE i == Cardinality(S \cap W)
<1> SUFFICES ASSUME NEW k \in Nat, NEW x \in 0..k
             PROVE  /\ IsFiniteSet(Chosen(S, W, k, x))
                    /\ Cardinality(Chosen(S, W, k, x)) = MselectN(i, x) * MselectN(Cardinality(S) - i, k - x)
  BY Zenon DEF Counted
<1> DEFINE C == Chosen(S, W, k, x)
<1>1. /\ IsFiniteSet(C)
      /\ Cardinality(C) = Cardinality(kSubset(x, S \cap W)) * Cardinality(kSubset(k - x, S \ W))
  BY SplitSubsets, Zenon DEF Chosen
<1>2. IsFiniteSet(S \cap W) /\ i <= Cardinality(S)
  BY FS_Intersection
<1>3. IsFiniteSet(S \ W) /\ Cardinality(S \ W) = Cardinality(S) - i
  BY FS_Difference
<1>4. Cardinality(S) \in Nat /\ i \in Nat
  BY <1>2, FS_CardinalityType
<1>5. i <= 20 /\ Cardinality(S) - i <= 20 /\ x \in Nat /\ k - x \in Nat
  BY <1>2, <1>4
<1>6. MselectN(i, x) = Cardinality(kSubset(x, S \cap W))
  BY <1>2, <1>5, SelectCounts
<1>7. MselectN(Cardinality(S) - i, k - x) = Cardinality(kSubset(k - x, S \ W))
  <2>1. Cardinality(S \ W) <= 20
    BY <1>3, <1>5
  <2>2. MselectN(Cardinality(S \ W), k - x) = Cardinality(kSubset(k - x, S \ W))
    BY <1>3, <1>5, <2>1, SelectCounts
  <2> QED  BY <1>3, <2>2
<1> QED  BY <1>1, <1>6, <1>7, Zenon

\* The values of MselectN at its ends.
LEMMA SelectEnds ==
    ASSUME NEW m \in 0..20
    PROVE  /\ MselectN(m, 0) = 1 /\ MselectN(m, 1) = m /\ MselectN(m, m) = 1
           /\ \A n \in Nat : n > m => MselectN(m, n) = 0
<1> DEFINE S == 1..m
           c(k) == Cardinality(kSubset(k, S))
<1>1. IsFiniteSet(S) /\ Cardinality(S) = m
  <2>1. IsFiniteSet(S) /\ Cardinality(S) = IF 1 > m THEN 0 ELSE m - 1 + 1
    BY FS_Interval
  <2> QED  BY <2>1
<1> HIDE DEF S
<1>2. \A n \in Nat : MselectN(m, n) = c(n)
  BY <1>1, SelectCounts
<1>3. c(0) = 1 /\ c(m) = 1 /\ \A n \in Nat : n > m => c(n) = 0
  BY <1>1, NoneOrAll
<1>4. c(1) = m
  <2>1. 1 * c(1) = (m - 1 + 1) * c(1 - 1)
    BY <1>1, Ratios DEF Ratio
  <2>2. c(1) \in Nat
    BY <1>1, SubsetsFinite
  <2> HIDE DEF c
  <2>3. 1 - 1 = 0 /\ 1 * c(1) = c(1) /\ (m - 1 + 1) * 1 = m
    BY <2>2
  <2> QED  BY <1>3, <2>1, <2>3
<1> HIDE DEF c
<1> QED  BY <1>2, <1>3, <1>4

\* The tickets with x red and y blue winning numbers.
On(R, W, B, V, x, y) == Chosen(R, W, 5, x) \X Chosen(B, V, 2, y)

OnCounted(R, W, B, V) ==
    \A x \in 0..5, y \in 0..2 :
        LET T == Tickets(Cardinality(R), Cardinality(R \cap W), Cardinality(B), Cardinality(B \cap V), x, y)
        IN  /\ IsFiniteSet(On(R, W, B, V, x, y)) /\ T \in Nat
            /\ Cardinality(On(R, W, B, V, x, y)) = T

LEMMA OnCount ==
    ASSUME NEW R, IsFiniteSet(R), Cardinality(R) <= 20, NEW W,
           NEW B, IsFiniteSet(B), Cardinality(B) <= 20, NEW V
    PROVE  OnCounted(R, W, B, V)
<1> SUFFICES ASSUME NEW x \in 0..5, NEW y \in 0..2
             PROVE  LET T == Tickets(Cardinality(R), Cardinality(R \cap W), Cardinality(B), Cardinality(B \cap V), x, y)
                    IN  /\ IsFiniteSet(On(R, W, B, V, x, y)) /\ T \in Nat
                        /\ Cardinality(On(R, W, B, V, x, y)) = T
  BY Zenon DEF OnCounted
<1> DEFINE C == Chosen(R, W, 5, x)
           D == Chosen(B, V, 2, y)
           i == Cardinality(R \cap W)
           j == Cardinality(B \cap V)
           a == MselectN(i, x)
           b == MselectN(Cardinality(R) - i, 5 - x)
           d == MselectN(j, y)
           e == MselectN(Cardinality(B) - j, 2 - y)
<1>0. 5 \in Nat /\ 2 \in Nat
  OBVIOUS
<1>a. Counted(R, W) /\ Counted(B, V)
  BY ChosenCount
<1>1. IsFiniteSet(C) /\ Cardinality(C) = a * b
  BY <1>0, <1>a, Zenon DEF Counted
<1>2. IsFiniteSet(D) /\ Cardinality(D) = d * e
  BY <1>0, <1>a, Zenon DEF Counted
<1>3. IsFiniteSet(C \X D) /\ Cardinality(C \X D) = Cardinality(C) * Cardinality(D)
  BY <1>1, <1>2, FS_Product
<1>4. i \in 0..20 /\ Cardinality(R) - i \in 0..20 /\ j \in 0..20 /\ Cardinality(B) - j \in 0..20
  <2>1. i <= Cardinality(R) /\ IsFiniteSet(R \cap W) /\ j <= Cardinality(B) /\ IsFiniteSet(B \cap V)
    BY FS_Intersection
  <2>2. Cardinality(R) \in Nat /\ i \in Nat /\ Cardinality(B) \in Nat /\ j \in Nat
    BY <2>1, FS_CardinalityType
  <2> QED  BY <2>1, <2>2
<1>5. a \in Nat /\ b \in Nat /\ d \in Nat /\ e \in Nat
  <2>1. x \in Nat /\ 5 - x \in Nat /\ y \in Nat /\ 2 - y \in Nat
    OBVIOUS
  <2> HIDE DEF i, j
  <2> QED  BY <1>4, <2>1, SelectSome
<1>6. Tickets(Cardinality(R), i, Cardinality(B), j, x, y) = a * b * d * e
  BY DEF Tickets
<1>7. Cardinality(C \X D) \in Nat
  BY <1>3, FS_CardinalityType
<1> HIDE DEF a, b, C, D, d, e, i, j
<1>8. (a * b) * (d * e) = a * b * d * e
  BY <1>5
<1>9. Cardinality(C \X D) = Tickets(Cardinality(R), i, Cardinality(B), j, x, y)
  BY <1>1, <1>2, <1>3, <1>6, <1>8
<1>10. On(R, W, B, V, x, y) = C \X D
  BY DEF On, C, D
<1> QED  BY <1>3, <1>7, <1>9, <1>10, Zenon DEF i, j

\* Three sets with no common members.
LEMMA DisjointUnion ==
    ASSUME NEW X, NEW Y, NEW Z, IsFiniteSet(X), IsFiniteSet(Y), IsFiniteSet(Z),
           X \cap Y = {}, X \cap Z = {}, Y \cap Z = {}
    PROVE  Cardinality(X \cup Y \cup Z) = Cardinality(X) + Cardinality(Y) + Cardinality(Z)
<1>1. IsFiniteSet(X \cup Y) /\ Cardinality(X \cup Y) = Cardinality(X) + Cardinality(Y) - Cardinality(X \cap Y)
  BY FS_Union
<1>2. Cardinality((X \cup Y) \cup Z)
        = Cardinality(X \cup Y) + Cardinality(Z) - Cardinality((X \cup Y) \cap Z)
  BY <1>1, FS_Union
<1>3. (X \cup Y) \cap Z = {}
  OBVIOUS
<1>4. Cardinality(X \cap Y) = 0 /\ Cardinality((X \cup Y) \cap Z) = 0
  BY <1>3, FS_EmptySet
<1>5. Cardinality(X) \in Nat /\ Cardinality(Y) \in Nat /\ Cardinality(Z) \in Nat
  BY FS_CardinalityType
<1> QED  BY <1>1, <1>2, <1>4, <1>5

\* Which tickets LevelOf puts on a level.
Row(l, x, y) ==
    \/ l = 1 /\ (x = 5 /\ y = 2)
    \/ l = 2 /\ ((x = 5 /\ y = 1) \/ (x = 4 /\ y = 2))
    \/ l = 3 /\ ((x = 4 /\ y = 1) \/ (x = 5 /\ y = 0) \/ (x = 3 /\ y = 2))
    \/ l = 4 /\ ((x = 4 /\ y = 0) \/ (x = 3 /\ y = 1) \/ (x = 2 /\ y = 2))
    \/ l = 5 /\ ((x = 3 /\ y = 0) \/ (x = 2 /\ y = 1) \/ (x = 0 /\ y = 2))

LEMMA LevelRow ==
    ASSUME NEW x \in Nat, NEW y \in Nat, NEW l \in Level
    PROVE  LevelOf("mulilt", x, y) = l <=> Row(l, x, y)
<1> DEFINE row == <<{<<5, 2>>}, {<<5, 1>>, <<4, 2>>}, {<<4, 1>>, <<5, 0>>, <<3, 2>>},
                    {<<4, 0>>, <<3, 1>>, <<2, 2>>}, {<<3, 0>>, <<2, 1>>, <<0, 2>>}>>
           P == \E m \in Level : <<x, y>> \in row[m]
           c == CHOOSE m \in Level : <<x, y>> \in row[m]
<1>1. ASSUME NEW m \in Level PROVE <<x, y>> \in row[m] <=> Row(m, x, y)
  <2>1. CASE m = 1
    BY <2>1 DEF Row
  <2>2. CASE m = 2
    BY <2>2 DEF Row
  <2>3. CASE m = 3
    BY <2>3 DEF Row
  <2>4. CASE m = 4
    BY <2>4 DEF Row
  <2>5. CASE m = 5
    BY <2>5 DEF Row
  <2> QED  BY <2>1, <2>2, <2>3, <2>4, <2>5 DEF Level
<1>2. LevelOf("mulilt", x, y) = IF P THEN c ELSE 0
  BY DEF LevelOf
<1>3. ASSUME NEW m \in Level, NEW k \in Level, Row(m, x, y), Row(k, x, y) PROVE m = k
  BY <1>3 DEF Row, Level
<1> HIDE DEF row
<1>4. P => c \in Level /\ <<x, y>> \in row[c]
  BY Zenon
<1>5. l # 0
  BY DEF Level
<1> HIDE DEF c
<1>6. CASE P
  BY <1>1, <1>2, <1>3, <1>4, <1>6
<1>7. CASE ~P
  BY <1>1, <1>2, <1>5, <1>7
<1> QED  BY <1>6, <1>7

\* The tickets of a bet on two colours, level by level.
Mixed(R, B) == kSubset(5, R) \X kSubset(2, B)
MixedOn(R, W, B, V, l) ==
    {t \in Mixed(R, B) : LevelOf("mulilt", Cardinality(t[1] \cap W), Cardinality(t[2] \cap V)) = l}

LEMMA MixedRow ==
    ASSUME NEW R, IsFiniteSet(R), NEW W, NEW B, IsFiniteSet(B), NEW V, NEW l \in Level
    PROVE  MixedOn(R, W, B, V, l)
             = {t \in Mixed(R, B) : Row(l, Cardinality(t[1] \cap W), Cardinality(t[2] \cap V))}
<1>1. ASSUME NEW t \in Mixed(R, B) PROVE Cardinality(t[1] \cap W) \in Nat /\ Cardinality(t[2] \cap V) \in Nat
  <2>1. t[1] \in SUBSET R /\ t[2] \in SUBSET B
    BY DEF Mixed, kSubset
  <2>2. t[1] \cap W \in SUBSET R /\ t[2] \cap V \in SUBSET B
    BY <2>1
  <2> QED  BY <2>2, SubsetOf
<1>2. ASSUME NEW t \in Mixed(R, B)
      PROVE  LevelOf("mulilt", Cardinality(t[1] \cap W), Cardinality(t[2] \cap V)) = l
               <=> Row(l, Cardinality(t[1] \cap W), Cardinality(t[2] \cap V))
  BY <1>1, LevelRow
<1> QED  BY <1>2, Zenon DEF MixedOn

LEMMA OnSet ==
    ASSUME NEW R, NEW W, NEW B, NEW V, NEW x, NEW y
    PROVE  On(R, W, B, V, x, y)
             = {t \in Mixed(R, B) : Cardinality(t[1] \cap W) = x /\ Cardinality(t[2] \cap V) = y}
  BY DEF On, Mixed, Chosen

LEMMA MixedCount ==
    ASSUME NEW R, IsFiniteSet(R), Cardinality(R) <= 20, NEW W, Cardinality(R \cap W) <= 5,
           NEW B, IsFiniteSet(B), Cardinality(B) <= 20, NEW V, Cardinality(B \cap V) <= 2
    PROVE  LET i == Cardinality(R \cap W)
               j == Cardinality(B \cap V)
               T(x, y) == Tickets(Cardinality(R), i, Cardinality(B), j, x, y)
               M(l) == Cardinality(MixedOn(R, W, B, V, l))
           IN  /\ M(1) = IF i >= 5 /\ j >= 2 THEN 1 ELSE 0
               /\ M(2) = T(4, 2) + T(5, 1)
               /\ M(3) = T(4, 1) + T(5, 0) + T(3, 2)
               /\ M(4) = T(4, 0) + T(3, 1) + T(2, 2)
               /\ M(5) = T(3, 0) + T(2, 1) + T(0, 2)
<1> DEFINE r == Cardinality(R)
           s == Cardinality(B)
           i == Cardinality(R \cap W)
           j == Cardinality(B \cap V)
           T(x, y) == Tickets(r, i, s, j, x, y)
           O(x, y) == On(R, W, B, V, x, y)
           S(l) == MixedOn(R, W, B, V, l)
           U == Mixed(R, B)
           p(t) == Cardinality(t[1] \cap W)
           q(t) == Cardinality(t[2] \cap V)
<1>1. \A x \in 0..5, y \in 0..2 : IsFiniteSet(O(x, y)) /\ Cardinality(O(x, y)) = T(x, y) /\ T(x, y) \in Nat
  <2>1. OnCounted(R, W, B, V)
    BY OnCount
  <2> QED  BY <2>1, Zenon DEF OnCounted
<1>2. \A x, y : O(x, y) = {t \in U : p(t) = x /\ q(t) = y}
  BY OnSet
<1>3. \A l \in Level : S(l) = {t \in U : Row(l, p(t), q(t))}
  BY MixedRow
<1>4. i \in 0..5 /\ j \in 0..2 /\ r - i \in 0..20 /\ s - j \in 0..20
  <2>1. i <= r /\ IsFiniteSet(R \cap W) /\ j <= s /\ IsFiniteSet(B \cap V)
    BY FS_Intersection
  <2>2. r \in Nat /\ i \in Nat /\ s \in Nat /\ j \in Nat
    BY <2>1, FS_CardinalityType
  <2> QED  BY <2>1, <2>2
<1>5. T(5, 2) = IF i >= 5 /\ j >= 2 THEN 1 ELSE 0
  <2>1. T(5, 2) = MselectN(i, 5) * MselectN(r - i, 5 - 5) * MselectN(j, 2) * MselectN(s - j, 2 - 2)
    BY DEF Tickets
  <2> HIDE DEF i, j, r, s
  <2>2. 5 - 5 = 0 /\ 2 - 2 = 0
    OBVIOUS
  <2>3. MselectN(r - i, 0) = 1 /\ MselectN(s - j, 0) = 1
    BY <1>4, SelectEnds
  <2>4. MselectN(i, 5) = IF i >= 5 THEN 1 ELSE 0
    <3>1. CASE i = 5
      BY <3>1, SelectEnds
    <3>2. CASE i < 5
      BY <1>4, <3>2, SelectEnds
    <3> QED  BY <1>4, <3>1, <3>2
  <2>5. MselectN(j, 2) = IF j >= 2 THEN 1 ELSE 0
    <3>1. CASE j = 2
      BY <3>1, SelectEnds
    <3>2. CASE j < 2
      BY <1>4, <3>2, SelectEnds
    <3> QED  BY <1>4, <3>1, <3>2
  <2> HIDE DEF T
  <2>6. T(5, 2) = (IF i >= 5 THEN 1 ELSE 0) * 1 * (IF j >= 2 THEN 1 ELSE 0) * 1
    BY <2>1, <2>2, <2>3, <2>4, <2>5
  <2> QED  BY <2>6
<1> HIDE DEF i, j, r, s, O, S, T, U, p, q
<1>6. 1 \in Level /\ 2 \in Level /\ 3 \in Level /\ 4 \in Level /\ 5 \in Level
  BY DEF Level
<1>7. Cardinality(S(1)) = T(5, 2)
  <2>1. S(1) = O(5, 2)
    <3>1. \A t : Row(1, p(t), q(t)) <=> p(t) = 5 /\ q(t) = 2
      BY DEF Row
    <3> QED  BY <1>2, <1>3, <1>6, <3>1, Zenon
  <2> QED  BY <1>1, <2>1
<1>8. Cardinality(S(2)) = T(4, 2) + T(5, 1)
  <2>1. \A t : Row(2, p(t), q(t)) <=> (p(t) = 5 /\ q(t) = 1) \/ (p(t) = 4 /\ q(t) = 2)
    BY DEF Row
  <2>2. S(2) = {t \in U : (p(t) = 5 /\ q(t) = 1) \/ (p(t) = 4 /\ q(t) = 2)}
    BY <1>3, <1>6, <2>1, Zenon
  <2>3. S(2) = O(4, 2) \cup O(5, 1) \cup {} /\ O(4, 2) \cap O(5, 1) = {}
    BY <1>2, <2>2
  <2>4. Cardinality({}) = 0 /\ IsFiniteSet({})
    BY FS_EmptySet
  <2>5. /\ IsFiniteSet(O(4, 2)) /\ IsFiniteSet(O(5, 1)) /\ T(4, 2) \in Nat /\ T(5, 1) \in Nat
        /\ Cardinality(O(4, 2)) = T(4, 2) /\ Cardinality(O(5, 1)) = T(5, 1)
    BY <1>1
  <2>6. Cardinality(O(4, 2) \cup O(5, 1) \cup {}) = Cardinality(O(4, 2)) + Cardinality(O(5, 1)) + Cardinality({})
    BY <2>3, <2>4, <2>5, DisjointUnion
  <2> QED  BY <2>3, <2>4, <2>5, <2>6
<1>9. ASSUME NEW l \in Level, NEW a \in 0..5, NEW b \in 0..2, NEW c \in 0..5, NEW d \in 0..2, NEW e \in 0..5, NEW f \in 0..2,
             a # c, a # e, c # e,
             \A x, y : Row(l, x, y) <=> (x = a /\ y = b) \/ (x = c /\ y = d) \/ (x = e /\ y = f)
      PROVE  Cardinality(S(l)) = T(a, b) + T(c, d) + T(e, f)
  <2>1. S(l) = {t \in U : (p(t) = a /\ q(t) = b) \/ (p(t) = c /\ q(t) = d) \/ (p(t) = e /\ q(t) = f)}
    BY <1>3, <1>9, Zenon
  <2>2. S(l) = O(a, b) \cup O(c, d) \cup O(e, f)
    BY <1>2, <2>1
  <2>3. O(a, b) \cap O(c, d) = {} /\ O(a, b) \cap O(e, f) = {} /\ O(c, d) \cap O(e, f) = {}
    BY <1>2, <1>9
  <2>4. /\ IsFiniteSet(O(a, b)) /\ IsFiniteSet(O(c, d)) /\ IsFiniteSet(O(e, f))
        /\ Cardinality(O(a, b)) = T(a, b) /\ Cardinality(O(c, d)) = T(c, d) /\ Cardinality(O(e, f)) = T(e, f)
    BY <1>1
  <2>5. Cardinality(O(a, b) \cup O(c, d) \cup O(e, f))
          = Cardinality(O(a, b)) + Cardinality(O(c, d)) + Cardinality(O(e, f))
    BY <2>3, <2>4, DisjointUnion
  <2> QED  BY <2>2, <2>4, <2>5
<1>10. Cardinality(S(3)) = T(4, 1) + T(5, 0) + T(3, 2)
  <2>1. \A x, y : Row(3, x, y) <=> (x = 4 /\ y = 1) \/ (x = 5 /\ y = 0) \/ (x = 3 /\ y = 2)
    BY DEF Row
  <2> QED  BY <1>6, <1>9, <2>1
<1>11. Cardinality(S(4)) = T(4, 0) + T(3, 1) + T(2, 2)
  <2>1. \A x, y : Row(4, x, y) <=> (x = 4 /\ y = 0) \/ (x = 3 /\ y = 1) \/ (x = 2 /\ y = 2)
    BY DEF Row
  <2> QED  BY <1>6, <1>9, <2>1
<1>12. Cardinality(S(5)) = T(3, 0) + T(2, 1) + T(0, 2)
  <2>1. \A x, y : Row(5, x, y) <=> (x = 3 /\ y = 0) \/ (x = 2 /\ y = 1) \/ (x = 0 /\ y = 2)
    BY DEF Row
  <2> QED  BY <1>6, <1>9, <2>1
<1> QED  BY <1>5, <1>7, <1>8, <1>10, <1>11, <1>12, Zenon DEF i, j, r, s, S, T

\* The tickets of a bet on 15 numbers, level by level.
FifteenOn(R, W, V, l) ==
    {t \in kSubset(6, R) \X {{}} : LevelOf("15_6", Cardinality(t[1] \cap W), Cardinality(t[2] \cap V)) = l}

LEMMA FifteenCount ==
    ASSUME NEW R, IsFiniteSet(R), Cardinality(R) <= 20, NEW W, NEW V
    PROVE  LET r == Cardinality(R)
               i == Cardinality(R \cap W)
               F(l) == Cardinality(FifteenOn(R, W, V, l))
           IN  /\ F(1) = MselectN(i, 6)
               /\ F(2) = MselectN(i, 5) * (r - i)
               /\ F(3) = MselectN(i, 4) * MselectN(r - i, 2)
               /\ F(4) = 0 /\ F(5) = 0
<1> DEFINE r == Cardinality(R)
           i == Cardinality(R \cap W)
           S(l) == FifteenOn(R, W, V, l)
<1>1. r \in 0..20 /\ i \in 0..20 /\ r - i \in 0..20
  <2>1. i <= r /\ IsFiniteSet(R \cap W)
    BY FS_Intersection
  <2>2. r \in Nat /\ i \in Nat
    BY <2>1, FS_CardinalityType
  <2> QED  BY <2>1, <2>2
<1>2. ASSUME NEW t \in kSubset(6, R)
      PROVE  Cardinality(t \cap W) \in 0..6
  <2>1. t \in SUBSET R /\ Cardinality(t) = 6
    BY DEF kSubset
  <2>2. IsFiniteSet(t)
    BY <2>1, SubsetOf
  <2>3. t \cap W \in SUBSET t
    OBVIOUS
  <2>4. Cardinality(t \cap W) \in Nat /\ Cardinality(t \cap W) <= Cardinality(t)
    BY <2>2, <2>3, SubsetOf
  <2> QED  BY <2>1, <2>4
<1>3. ASSUME NEW x \in 0..6, NEW y, NEW l \in Level
      PROVE  LevelOf("15_6", x, y) = l <=> l \in 1..3 /\ x = 7 - l
  BY DEF LevelOf, Level
<1>4. ASSUME NEW l \in Level
      PROVE  S(l) = {t \in kSubset(6, R) \X {{}} : l \in 1..3 /\ Cardinality(t[1] \cap W) = 7 - l}
  <2>1. ASSUME NEW t \in kSubset(6, R) \X {{}}
        PROVE  LevelOf("15_6", Cardinality(t[1] \cap W), Cardinality(t[2] \cap V)) = l
                 <=> l \in 1..3 /\ Cardinality(t[1] \cap W) = 7 - l
    <3>1. t[1] \in kSubset(6, R)
      OBVIOUS
    <3>2. Cardinality(t[1] \cap W) \in 0..6
      BY <1>2, <3>1
    <3> QED  BY <1>3, <3>2
  <2> QED  BY <2>1, Zenon DEF FifteenOn
<1>5. ASSUME NEW l \in 1..3
      PROVE  Cardinality(S(l)) = MselectN(i, 7 - l) * MselectN(r - i, l - 1)
  <2> DEFINE C == Chosen(R, W, 6, 7 - l)
  <2>1. S(l) = C \X {{}}
    <3>1. l \in Level
      BY DEF Level
    <3>2. S(l) = {t \in kSubset(6, R) \X {{}} : Cardinality(t[1] \cap W) = 7 - l}
      BY <1>4, <3>1
    <3> QED  BY <3>2 DEF Chosen
  <2>2. Counted(R, W)
    BY ChosenCount
  <2>3. 6 \in Nat /\ 7 - l \in 0..6 /\ 6 - (7 - l) = l - 1 /\ 7 - l \in Nat /\ l - 1 \in Nat
    OBVIOUS
  <2>4. IsFiniteSet(C) /\ Cardinality(C) = MselectN(i, 7 - l) * MselectN(r - i, 6 - (7 - l))
    BY <2>2, <2>3, Zenon DEF Counted
  <2>5. Cardinality(C \X {{}}) = Cardinality(C) * 1
    <3>1. IsFiniteSet({{}}) /\ Cardinality({{}}) = 1
      BY FS_Singleton
    <3> HIDE DEF C
    <3> QED  BY <2>4, <3>1, FS_Product
  <2>6. Cardinality(C) \in Nat
    BY <2>4, FS_CardinalityType
  <2>7. Cardinality(C) * 1 = Cardinality(C)
    BY <2>6
  <2> HIDE DEF C, S, i, r
  <2> QED  BY <2>1, <2>3, <2>4, <2>5, <2>7
<1>6. ASSUME NEW l \in {4, 5} PROVE Cardinality(S(l)) = 0
  <2>1. S(l) = {}
    BY <1>4 DEF Level
  <2> QED  BY <2>1, FS_EmptySet
<1> HIDE DEF S, i, r
<1>7. Cardinality(S(1)) = MselectN(i, 6)
  <2>1. Cardinality(S(1)) = MselectN(i, 7 - 1) * MselectN(r - i, 1 - 1)
    BY <1>5
  <2>2. MselectN(r - i, 0) = 1 /\ MselectN(i, 6) \in Nat
    BY <1>1, SelectEnds, SelectSome
  <2>3. 7 - 1 = 6 /\ 1 - 1 = 0
    OBVIOUS
  <2> QED  BY <2>1, <2>2, <2>3
<1>8. Cardinality(S(2)) = MselectN(i, 5) * (r - i)
  <2>1. Cardinality(S(2)) = MselectN(i, 7 - 2) * MselectN(r - i, 2 - 1)
    BY <1>5
  <2>2. MselectN(r - i, 1) = r - i
    BY <1>1, SelectEnds
  <2>3. 7 - 2 = 5 /\ 2 - 1 = 1
    OBVIOUS
  <2> QED  BY <2>1, <2>2, <2>3
<1>9. Cardinality(S(3)) = MselectN(i, 4) * MselectN(r - i, 2)
  <2>1. Cardinality(S(3)) = MselectN(i, 7 - 3) * MselectN(r - i, 3 - 1)
    BY <1>5
  <2>2. 7 - 3 = 4 /\ 3 - 1 = 2
    OBVIOUS
  <2> QED  BY <2>1, <2>2
<1>10. Cardinality(S(4)) = 0 /\ Cardinality(S(5)) = 0
  BY <1>6
<1> QED  BY <1>7, <1>8, <1>9, <1>10, Zenon DEF S, i, r

\* The numbers of a bet.
LEMMA BetRanges ==
    ASSUME NEW b \in Proper
    PROVE  /\ IsFiniteSet(Range(b.red)) /\ Cardinality(Range(b.red)) = Len(b.red)
           /\ Cardinality(Range(b.red)) <= 20
           /\ IsFiniteSet(Range(b.blue)) /\ Cardinality(Range(b.blue)) = Len(b.blue)
           /\ Cardinality(Range(b.blue)) <= 20
           /\ \A X : /\ Hit(b.red, X) = Cardinality(Range(b.red) \cap X)
                     /\ Hit(b.blue, X) = Cardinality(Range(b.blue) \cap X)
<1>0. /\ b.red \in Seq(Nat) /\ b.blue \in Seq(Nat) /\ IsValid(b)
      /\ Len(b.red) \in 0..20 /\ Len(b.blue) \in 0..20
  BY ProperNumbers DEF Proper
<1>1. /\ b.red \in Seq(Nat) /\ b.blue \in Seq(Nat) /\ IsValid(b)
      /\ Len(b.red) <= 20 /\ Len(b.blue) <= 20
  <2>1. \A x \in 0..20 : x <= 20
    OBVIOUS
  <2> QED  BY <1>0, <2>1, Zenon
<1>2. CASE b.type = "15_6"
  <2>1. Increasing(b.red, 15) /\ b.blue = <<>>
    BY <1>1, <1>2 DEF IsValid
  <2>2. Increasing(b.blue, 0)
    BY <2>1 DEF Increasing
  <2> QED  BY <1>1, <2>1, <2>2, Distinct, HitDistinct
<1>3. CASE b.type # "15_6"
  <2>1. Increasing(b.red, 21) /\ Increasing(b.blue, 11)
    BY <1>1, <1>3 DEF IsValid
  <2> QED  BY <1>1, <2>1, Distinct, HitDistinct
<1> QED  BY <1>2, <1>3

\* No more winning numbers than a ticket has.
LuckSize(w) == Cardinality(w.red) = 5 /\ Cardinality(w.blue) = 2 /\ IsFiniteSet(w.red) /\ IsFiniteSet(w.blue)

LEMMA CountsRight ==
    ASSUME NEW b \in Proper, NEW luck, LuckSize(luck["mulilt"]), NEW l \in Level
    PROVE  Counts(b, luck)[l] = OnLevel(b, luck, l)
<1> DEFINE R == Range(b.red)
           B == Range(b.blue)
           W == luck[b.type].red
           V == luck[b.type].blue
           i == Cardinality(R \cap W)
           j == Cardinality(B \cap V)
           T(x, y) == Tickets(Cardinality(R), i, Cardinality(B), j, x, y)
<1>1. /\ IsFiniteSet(R) /\ Cardinality(R) = Len(b.red) /\ Cardinality(R) <= 20
      /\ IsFiniteSet(B) /\ Cardinality(B) = Len(b.blue) /\ Cardinality(B) <= 20
  BY BetRanges, Zenon
<1>a. i = Hit(b.red, W) /\ j = Hit(b.blue, V)
  BY BetRanges
<1>2. CASE b.type = "15_6"
  <2>1. OnLevel(b, luck, l) = Cardinality(FifteenOn(R, W, V, l))
    BY <1>2, Zenon DEF OnLevel, Singles, FifteenOn
  <2>2. Counts(b, luck) = <<MselectN(i, 6), MselectN(i, 5) * (Cardinality(R) - i),
                            MselectN(i, 4) * MselectN(Cardinality(R) - i, 2), 0, 0>>
    BY <1>1, <1>2, <1>a DEF Counts
  <2> HIDE DEF R, W, V
  <2>3. LET F(m) == Cardinality(FifteenOn(R, W, V, m))
        IN  /\ F(1) = MselectN(i, 6)
            /\ F(2) = MselectN(i, 5) * (Cardinality(R) - i)
            /\ F(3) = MselectN(i, 4) * MselectN(Cardinality(R) - i, 2)
            /\ F(4) = 0 /\ F(5) = 0
    BY <1>1, FifteenCount, Zenon
  <2> HIDE DEF i
  <2>4. Counts(b, luck)[l] = Cardinality(FifteenOn(R, W, V, l))
    BY <2>2, <2>3 DEF Level
  <2> QED  BY <2>1, <2>4
<1>3. CASE b.type # "15_6"
  <2>0. b.type = "mulilt"
    BY <1>3, ProperNumbers
  <2>1. OnLevel(b, luck, l) = Cardinality(MixedOn(R, W, B, V, l))
    BY <1>3, <2>0, Zenon DEF OnLevel, Singles, MixedOn, Mixed
  <2>2. Counts(b, luck) = <<IF i >= 5 /\ j >= 2 THEN 1 ELSE 0, T(4, 2) + T(5, 1),
                            T(4, 1) + T(5, 0) + T(3, 2),
                            T(4, 0) + T(3, 1) + T(2, 2), T(3, 0) + T(2, 1) + T(0, 2)>>
    BY <1>1, <1>3, <1>a DEF Counts
  <2>3. i <= 5 /\ j <= 2
    <3>1. Cardinality(W) = 5 /\ Cardinality(V) = 2 /\ IsFiniteSet(W) /\ IsFiniteSet(V)
      BY <2>0 DEF LuckSize
    <3> HIDE DEF W, V, R, B
    <3>2. i <= Cardinality(W) /\ j <= Cardinality(V)
      BY <3>1, FS_Intersection
    <3> QED  BY <3>1, <3>2
  <2> HIDE DEF R, W, V, B
  <2>4. LET M(m) == Cardinality(MixedOn(R, W, B, V, m))
        IN  /\ M(1) = IF i >= 5 /\ j >= 2 THEN 1 ELSE 0
            /\ M(2) = T(4, 2) + T(5, 1)
            /\ M(3) = T(4, 1) + T(5, 0) + T(3, 2)
            /\ M(4) = T(4, 0) + T(3, 1) + T(2, 2)
            /\ M(5) = T(3, 0) + T(2, 1) + T(0, 2)
    BY <1>1, <2>3, MixedCount, Zenon
  <2> HIDE DEF i, j, T
  <2>5. Counts(b, luck)[l] = Cardinality(MixedOn(R, W, B, V, l))
    BY <2>2, <2>4 DEF Level
  <2> QED  BY <2>1, <2>5
<1> QED  BY <1>2, <1>3

\* getTotalBer counts the tickets of a bet.
LEMMA TotalRight ==
    ASSUME NEW b \in Proper
    PROVE  getTotalBer(b) = Cardinality(Singles(b))
<1> DEFINE R == Range(b.red)
           B == Range(b.blue)
<1>1. /\ IsFiniteSet(R) /\ Cardinality(R) = Len(b.red) /\ Cardinality(R) <= 20
      /\ IsFiniteSet(B) /\ Cardinality(B) = Len(b.blue) /\ Cardinality(B) <= 20
  BY BetRanges, Zenon
<1> HIDE DEF R, B
<1>2. \A n \in Nat : /\ MselectN(Len(b.red), n) = Cardinality(kSubset(n, R))
                     /\ MselectN(Len(b.blue), n) = Cardinality(kSubset(n, B))
                     /\ IsFiniteSet(kSubset(n, R)) /\ Cardinality(kSubset(n, R)) \in Nat
                     /\ IsFiniteSet(kSubset(n, B))
  BY <1>1, SelectCounts, SubsetsFinite
<1>3. CASE b.type = "15_6"
  <2>1. Singles(b) = kSubset(6, R) \X {{}} /\ getTotalBer(b) = MselectN(Len(b.red), 6)
    BY <1>3 DEF Singles, getTotalBer, R
  <2>2. IsFiniteSet({{}}) /\ Cardinality({{}}) = 1
    BY FS_Singleton
  <2>3. Cardinality(kSubset(6, R) \X {{}}) = Cardinality(kSubset(6, R)) * 1
    <3> DEFINE K == kSubset(6, R)
    <3>1. IsFiniteSet(K)
      BY <1>2
    <3> HIDE DEF K
    <3>2. Cardinality(K \X {{}}) = Cardinality(K) * Cardinality({{}})
      BY <2>2, <3>1, FS_Product, Zenon
    <3> QED  BY <2>2, <3>2 DEF K
  <2> QED  BY <1>2, <2>1, <2>3
<1>4. CASE b.type # "15_6"
  <2>1. /\ Singles(b) = kSubset(5, R) \X kSubset(2, B)
        /\ getTotalBer(b) = MselectN(Len(b.red), 5) * MselectN(Len(b.blue), 2)
    BY <1>4 DEF Singles, getTotalBer, R, B
  <2>2. Cardinality(kSubset(5, R) \X kSubset(2, B)) = Cardinality(kSubset(5, R)) * Cardinality(kSubset(2, B))
    BY <1>2, FS_Product
  <2> QED  BY <1>2, <2>1, <2>2
<1> QED  BY <1>3, <1>4

\* What a loop that ends has found.
Finds(bytes, p, max, n, had) ==
    LET k == Pick(bytes, p, max, n, had)
        new == Found(bytes, p, k.p, max, had)
    IN  /\ k.p \in Nat /\ k.nums = had \cup new
        /\ IsFiniteSet(new) /\ Cardinality(new) = n /\ new \cap had = {}

LEMMA PickFinds ==
    ASSUME NEW bytes \in Seq(Nat), NEW p \in Nat, NEW max, NEW n, NEW had, Ends(bytes, p, max, n, had) # {}
    PROVE  Finds(bytes, p, max, n, had)
<1> DEFINE end == CHOOSE q \in Ends(bytes, p, max, n, had) : TRUE
           new == Found(bytes, p, end, max, had)
<1>1. end \in Ends(bytes, p, max, n, had)
  BY Zenon
<1>2. Pick(bytes, p, max, n, had) = [nums |-> had \cup new, p |-> end]
  BY Zenon DEF Pick
<1> HIDE DEF end
<1>3. end \in p..(Len(bytes) + 1) /\ Cardinality(new) = n
  BY <1>1 DEF Ends
<1>4. end \in Nat
  BY <1>3
<1>5. IsFiniteSet(new)
  <2> DEFINE I == {j \in p..(end - 1) : bytes[j] < max}
             N == {bytes[j] + 1 : j \in I}
             f == [j \in I |-> bytes[j] + 1]
  <2>1. IsFiniteSet(p..(end - 1))
    BY <1>4, FS_Interval
  <2>2. IsFiniteSet(I)
    <3>1. I \in SUBSET (p..(end - 1))
      OBVIOUS
    <3> QED  BY <2>1, <3>1, FS_Subset, Zenon
  <2>3. f \in Surjection(I, N)
    <3> HIDE DEF I
    <3> QED  BY DEF Surjection
  <2>4. IsFiniteSet(N)
    <3> HIDE DEF I, N, f
    <3> QED  BY <2>2, <2>3, FS_Surjection
  <2>5. new = N \ had
    BY DEF Found
  <2> HIDE DEF N
  <2> QED  BY <2>4, <2>5, FS_Difference
<1>6. new \cap had = {}
  BY DEF Found
<1> HIDE DEF new
<1>7. Pick(bytes, p, max, n, had).p = end /\ Pick(bytes, p, max, n, had).nums = had \cup new
  BY <1>2
<1> QED  BY <1>3, <1>4, <1>5, <1>6, <1>7, Zenon DEF Finds, new

\* A draw has five red and two blue numbers.
LEMMA LuckSizes ==
    ASSUME NEW h \in Hashes, NEW g \in Drawing
    PROVE  LuckSize(CreateLuckyStarMap(Bytes[h][DrawID(g)])["mulilt"])
<1> DEFINE bytes == Bytes[h][DrawID(g)]
           r == Pick(bytes, 1, 20, 5, {})
           b == Pick(bytes, r.p, 10, 2, r.nums)
           new == Found(bytes, 1, r.p, 20, {})
           more == Found(bytes, r.p, b.p, 10, r.nums)
<1>1. bytes \in Seq(Nat) /\ Ends(bytes, 1, 20, 5, {}) # {} /\ Ends(bytes, r.p, 10, 2, r.nums) # {}
  BY BytesAssumption, Zenon DEF DrawIDs
<1>2. CreateLuckyStarMap(bytes)["mulilt"] = [red |-> r.nums, blue |-> b.nums \ r.nums]
  BY DEF CreateLuckyStarMap
<1> HIDE DEF bytes
<1>3. r.p \in Nat /\ r.nums = {} \cup new /\ IsFiniteSet(new) /\ Cardinality(new) = 5
  <2>1. Finds(bytes, 1, 20, 5, {})
    BY <1>1, PickFinds
  <2> QED  BY <2>1, Zenon DEF Finds
<1> HIDE DEF r, new
<1>4. b.nums = r.nums \cup more /\ IsFiniteSet(more) /\ Cardinality(more) = 2 /\ more \cap r.nums = {}
  <2>1. Finds(bytes, r.p, 10, 2, r.nums)
    BY <1>1, <1>3, PickFinds
  <2> QED  BY <2>1, Zenon DEF Finds
<1> HIDE DEF b, more
<1>5. r.nums = new /\ b.nums \ r.nums = more
  BY <1>3, <1>4
<1>6. LuckSize([red |-> new, blue |-> more])
  BY <1>3, <1>4 DEF LuckSize
<1> QED  BY <1>2, <1>5, <1>6 DEF bytes

\* CountsExact for every bet that is valid and has at most 20 reds, every draw and
\* every history of blocks: CreateRewardMap and CalcRewardBet count the winning
\* tickets of each level one by one, and getTotalBer all tickets, whatever numbers
\* the loops of CreateLuckyStarMap end with.
THEOREM TicketsCounted == LotterySpec => []CountsExact
<1>1. Placed /\ [LotteryNext]_lotteryVars => Placed'
  BY PlacedNext
<1>2. Placed => CountsExact
  <2> DEFINE n == nIntervalLottery
             L == Len(chain)
             g == L - 1
             c == Below(L)
             m == g + 1 - 2 * n
             luck == LuckAfter(c)
  <2> SUFFICES ASSUME Placed, chain # <<>>, Drawn(L), NEW i \in 1..Len(BetsDrawn(c)),
                      IsValid(BetsDrawn(c)[i]), Len(BetsDrawn(c)[i].red) <= 20
               PROVE  LET b == BetsDrawn(c)[i]
                      IN  /\ \A l \in Level : Counts(b, luck)[l] = OnLevel(b, luck, l)
                          /\ getTotalBer(b) = Cardinality(Singles(b))
    BY Zenon DEF CountsExact
  <2> DEFINE b == BetsDrawn(c)[i]
             k == LotteryHeight(g)
  <2>1. L \in Nat /\ L <= MaxHeight /\ L > 2 * n + 1 /\ n \in Nat \ {0} /\ MaxHeight \in Nat
    BY IntervalAssumption DEF Placed, Drawn
  <2>2. g \in Drawing /\ m \in 1..g
    BY <2>1 DEF Drawing
  <2>3. Len(c) = g /\ \A x \in 1..g : x \in 1..L /\ c[x] = chain[x]
    <3>1. L \in 1..Len(chain)
      BY <2>1
    <3>2. LET d == SubSeq(chain, 1, L - 1)
          IN  Len(d) = L - 1 /\ L - 1 \in Nat /\ d = [x \in 1..(L - 1) |-> chain[x]]
      BY <3>1, Prefix DEF Placed
    <3>3. Len(c) = g /\ c = [x \in 1..g |-> chain[x]]
      BY <3>2 DEF Below
    <3> HIDE DEF c
    <3> QED  BY <2>1, <3>3
  <2>4. b \in Proper
    <3>1. chain[m].bets \in BetsAt(m)
      BY <2>2, <2>3 DEF Placed
    <3>2. chain[m].bets \in BetLists \cup {<<>>}
      BY <3>1 DEF BetsAt
    <3>3. BetsDrawn(c) = ValidBets(g, chain[m].bets)
      BY <2>2, <2>3 DEF BetsDrawn
    <3>4. BetsDrawn(c) \in Seq(ABet)
      BY <3>2, <3>3, BetsKept
    <3>5. b \in ABet
      BY <3>4
    <3> QED  BY <3>5 DEF Proper
  <2>5. k \in 1..g
    <3> DEFINE q == g \div n
               y == n * q
               step == IF nLottoStep >= nIntervalLottery THEN nIntervalLottery - 1 ELSE nLottoStep
    <3>1. g \in Nat /\ step \in Nat /\ step < n
      BY <2>1, IntervalAssumption
    <3>2. q \in Int /\ y \in Int /\ y <= g /\ g < y + n
      BY <3>1, Quotient
    <3>3. k = n * (q - 1) + step
      BY DEF LotteryHeight, DrawID
    <3> HIDE DEF step, q, n
    <3>4. n * (q - 1) = y - n
      BY <2>1, <3>2
    <3> HIDE DEF y
    <3>5. y - n + step \in 1..g
      BY <2>1, <3>1, <3>2
    <3> QED  BY <3>3, <3>4, <3>5
  <2>6. chain[k].hash \in Hashes
    <3>1. HashesAt(k) = Hashes
      BY <2>2, Zenon DEF HashesAt
    <3>2. chain[k].hash \in HashesAt(k)
      BY <2>3, <2>5 DEF Placed
    <3> QED  BY <3>1, <3>2
  <2>7. LuckSize(luck["mulilt"])
    <3>1. luck = CreateLuckyStarMap(Bytes[chain[k].hash][DrawID(g)])
      BY <2>3, <2>5 DEF LuckAfter
    <3> HIDE DEF luck
    <3> QED  BY <2>2, <2>6, <3>1, LuckSizes
  <2> HIDE DEF b, luck
  <2>8. \A l \in Level : Counts(b, luck)[l] = OnLevel(b, luck, l)
    BY <2>4, <2>7, CountsRight
  <2>9. getTotalBer(b) = Cardinality(Singles(b))
    BY <2>4, TotalRight
  <2> QED  BY <2>8, <2>9 DEF b, luck
<1> QED  BY <1>1, <1>2, PlacedInit, PTL DEF LotterySpec
=============================================================================
