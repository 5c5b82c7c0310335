------------------------------ MODULE Lottery -------------------------------
(***************************************************************************)
(* The lottery: which bets are valid, what they win, how much of the pool  *)
(* is paid, and when a block draws the bets of an earlier one.             *)
(*                                                                         *)
(* Every block draws the bets of the block 2 * nIntervalLottery before it. *)
(* The winning numbers come from a Bitcoin hash that a block of the        *)
(* interval in between carries, and from a secret of which the operator    *)
(* publishes one key per interval.  A block whose miner did not have the   *)
(* key draws nothing.  A bet's numbers are the sequences red and blue (the *)
(* latter empty for a bet on 15 numbers).  Which Bitcoin hashes a block    *)
(* may carry is DualChain's business; the hash of the drawing is a stream  *)
(* of bytes, constant Bytes.  Amounts are in a unit that keeps them small. *)
(* The sums of prizes are kept as the code keeps them: in 64-bit integers, *)
(* which wrap, and in doubles, which are exact up to nExact only.          *)
(***************************************************************************)
EXTENDS Integers, Sequences, FiniteSets, FiniteSetsExt

CONSTANTS
    nIntervalLottery, nLottoStep, nMinBet,
    nUnchecked,         \* the height up to which a bet that is not valid counts as valid
    nGenesisPool,       \* the pool of the first block
    nMaxMoney,          \* MAX_MONEY
    nExact, nInt64,     \* 2^53 and 2^63
    Double,             \* Double[x]: the double next to a 64-bit integer x
    BetLists,           \* the bets a block may hold
    Hashes, Bytes,      \* Bytes[h][id]: the bytes hashed from hash h and the secret of draw id
    MaxHeight           \* bound

ASSUME IntervalAssumption ==
    nIntervalLottery \in Nat \ {0} /\ nLottoStep \in Nat /\ MaxHeight \in Nat

ASSUME ArithmeticAssumption ==
    /\ nUnchecked \in Nat /\ nGenesisPool \in Nat
    /\ nMaxMoney \in Nat /\ nExact \in Nat /\ nInt64 \in Nat
    /\ nMaxMoney < nExact /\ nExact < nInt64 /\ 8 * nMaxMoney < nInt64
    /\ Double \in [0..(nInt64 - 1) -> Nat]
    /\ \A x \in 0..(nInt64 - 1) : IF x <= nExact THEN Double[x] = x ELSE Double[x] >= nExact

VARIABLES chain, keys   \* the active chain after the first block; the draws whose key is known
lotteryVars == <<chain, keys>>

Level == 1..5

-----------------------------------------------------------------------------
(* Bets.                                                                   *)

\* factorial(21) wraps: 21! mod 2^64 is -4249290049419214848, and 16! 5! goes
\* into it -1692 times.  No larger number is asked for.
MselectN(m, n) ==
    LET C[k \in 0..n] == IF k = 0 THEN 1 ELSE (C[k - 1] * (m - k + 1)) \div k
    IN  IF m > 20 THEN -1692 ELSE C[n]

getTotalBer(b) ==
    IF b.type = "15_6" THEN MselectN(Len(b.red), 6)
    ELSE MselectN(Len(b.red), 5) * MselectN(Len(b.blue), 2)

\* Sorted, with no neighbours that are equal.
Increasing(s, max) ==
    /\ \A i \in 1..Len(s) : s[i] \in 1..max
    /\ \A i \in 1..(Len(s) - 1) : s[i] < s[i + 1]

IsValid(b) ==
    /\ IF b.type = "15_6" THEN Len(b.red) \in 6..15 /\ b.blue = <<>> /\ Increasing(b.red, 15)
       ELSE /\ Len(b.red) >= 5 /\ Len(b.blue) >= 2 /\ Len(b.red) + Len(b.blue) < 31
            /\ Increasing(b.red, 21) /\ Increasing(b.blue, 11)
    /\ nMinBet * getTotalBer(b) < b.nValue

\* A bet that is not valid has tickets, as many as its value or fewer: the stake on
\* a ticket is a quotient that is not zero.
ASSUME BetAssumption ==
    /\ nMinBet \in Nat \ {0}
    /\ \A s \in BetLists :
         /\ s \in Seq([type : {"15_6", "mulilt"}, red : Seq(Nat), blue : Seq(Nat), nValue : Nat])
         /\ \A k \in 1..Len(s) :
              \/ IsValid(s[k])
              \/ Len(s[k].red) <= 20 /\ Len(s[k].blue) <= 20 /\ getTotalBer(s[k]) \in 1..s[k].nValue

\* How many of a bet's numbers win: one that is repeated counts each time.
Hit(s, lucky) == Cardinality({k \in 1..Len(s) : s[k] \in lucky})

\* Of the r reds and s blues of a bet, i and j are winning numbers: how many of
\* its single tickets have x red and y blue ones.
Tickets(r, i, s, j, x, y) ==
    MselectN(i, x) * MselectN(r - i, 5 - x) * MselectN(j, y) * MselectN(s - j, 2 - y)

\* mutant: the tickets with all reds and one blue are forgotten.
CountsOneBlue(b, luck) ==
    LET i == Hit(b.red, luck[b.type].red)
        j == Hit(b.blue, luck[b.type].blue)
        r == Len(b.red)
        T(x, y) == Tickets(r, i, Len(b.blue), j, x, y)
    IN  IF b.type = "15_6"
        THEN <<MselectN(i, 6), MselectN(i, 5) * (r - i), MselectN(i, 4) * MselectN(r - i, 2), 0, 0>>
        ELSE <<IF i >= 5 /\ j >= 2 THEN 1 ELSE 0, T(4, 2), T(4, 1) + T(5, 0) + T(3, 2),
               T(4, 0) + T(3, 1) + T(2, 2), T(3, 0) + T(2, 1) + T(0, 2)>>

\* CreateRewardMap, CalcRewardBet: the winning tickets of each level.
Counts(b, luck) ==
    LET i == Hit(b.red, luck[b.type].red)
        j == Hit(b.blue, luck[b.type].blue)
        r == Len(b.red)
        T(x, y) == Tickets(r, i, Len(b.blue), j, x, y)
    IN  IF b.type = "15_6"
        THEN <<MselectN(i, 6), MselectN(i, 5) * (r - i), MselectN(i, 4) * MselectN(r - i, 2), 0, 0>>
        ELSE <<IF i >= 5 /\ j >= 2 THEN 1 ELSE 0, T(4, 2) + T(5, 1), T(4, 1) + T(5, 0) + T(3, 2),
               T(4, 0) + T(3, 1) + T(2, 2), T(3, 0) + T(2, 1) + T(0, 2)>>

\* Truncating division.
Div(a, b) == IF (a < 0) = (b < 0) \/ a = 0 THEN (IF a < 0 THEN -a ELSE a) \div (IF b < 0 THEN -b ELSE b)
             ELSE -((IF a < 0 THEN -a ELSE a) \div (IF b < 0 THEN -b ELSE b))

\* Signed overflow wraps; an integer becomes a double, in which one beyond 64 bits is
\* left as it is; and a double that is out of range becomes the least integer
\* (cvttsd2si).
Int64(x) == ((x + nInt64) % (2 * nInt64)) - nInt64
Real(x) == IF x \in 0..(nInt64 - 1) THEN Double[x]
           ELSE IF x \in (1 - nInt64)..(-1) THEN -Double[-x] ELSE x
ToInt64(x) == IF x \in (-nInt64)..(nInt64 - 1) THEN x ELSE -nInt64

\* rewardmap: the stakes on winning tickets, for the levels that have any.
Stakes(count, stake) == [l \in {m \in Level : count[m] > 0} |-> count[l] * stake]
rewardmap(b, luck) == Stakes(Counts(b, luck), Div(b.nValue, getTotalBer(b)))

GetMulit(type, l) ==
    IF type = "15_6" THEN <<3000, 17, 2>>[l] ELSE <<210000, 1000, 30, 5, 2>>[l]

-----------------------------------------------------------------------------
(* The draw.                                                               *)

\* The numbers up to max that a stream gives from position p to before q, but for
\* those that are in had already.
Found(bytes, p, q, max, had) ==
    {bytes[i] + 1 : i \in {j \in p..(q - 1) : bytes[j] < max}} \ had

\* Where a loop that wants n of them ends: at the first position where they are found.
Ends(bytes, p, max, n, had) ==
    {q \in p..(Len(bytes) + 1) :
        /\ Cardinality(Found(bytes, p, q, max, had)) = n
        /\ \A r \in p..(q - 1) : Cardinality(Found(bytes, p, r, max, had)) < n}

\* The result keeps the position.
Pick(bytes, p, max, n, had) ==
    LET end == CHOOSE q \in Ends(bytes, p, max, n, had) : TRUE
    IN  [nums |-> had \cup Found(bytes, p, end, max, had), p |-> end]

\* CreateLuckyStarMap: both games read the same stream, and a blue number is
\* passed over when it is among the reds.
CreateLuckyStarMap(bytes) ==
    LET r == Pick(bytes, 1, 20, 5, {})
        b == Pick(bytes, r.p, 10, 2, r.nums)
    IN  [type \in {"15_6", "mulilt"} |->
            IF type = "15_6" THEN [red |-> Pick(bytes, 1, 15, 6, {}).nums, blue |-> {}]
            ELSE [red |-> r.nums, blue |-> b.nums \ r.nums]]

\* v[1] + ... + v[n], and with the summands of S alone.
Total(n, v) == LET sum[i \in 0..n] == IF i = 0 THEN 0 ELSE sum[i - 1] + v[i] IN sum[n]
Part(S, n, v) == Total(n, [i \in 1..n |-> IF i \in S THEN v[i] ELSE 0])

\* The members of v that S names, in their order.
Keep(S, n, v) ==
    LET kept[i \in 0..n] ==
          IF i = 0 THEN <<>> ELSE IF i \in S THEN Append(kept[i - 1], v[i]) ELSE kept[i - 1]
    IN  kept[n]

\* mutant: what a level leaves is offered to the next one twice.
SharesTwice(pool, total) ==
    LET left[l \in Level] ==
          IF l = 1 THEN Div(Int64(pool * 8), 10)
          ELSE LET a == left[l - 1]
                   max == Div(Int64(a * 8), 10)
               IN  IF total[l - 1] > max THEN a - max ELSE Int64(a + max - total[l - 1])
    IN  [l \in Level |-> IF l = 5 THEN left[5] ELSE Div(Int64(left[l] * 8), 10)]

\* CreateStatisticsRewardMap: four fifths of the pool, of which each level may
\* take four fifths of what is left, and the last one all.
Shares(pool, total) ==
    LET left[l \in Level] ==
          IF l = 1 THEN Div(Int64(pool * 8), 10)
          ELSE LET a == left[l - 1]
                   max == Div(Int64(a * 8), 10)
               IN  IF total[l - 1] > max THEN a - max ELSE Int64(a - total[l - 1])
    IN  [l \in Level |-> IF l = 5 THEN left[5] ELSE Div(Int64(left[l] * 8), 10)]

\* The prizes of a level, by the bets' stakes on it in map: as they are paid, and as
\* they are added up, in doubles that go back to integers after each bet.
Won(map, l) == {i \in DOMAIN map : l \in DOMAIN map[i]}
Prize(bets, map, i, l) == Int64(GetMulit(bets[i].type, l) * map[i][l])
RealPrize(bets, map, i, l) == Real(GetMulit(bets[i].type, l) * Real(map[i][l]))
RewardSum(bets, map, l) ==
    LET sum[i \in 0..Len(bets)] ==
          IF i = 0 THEN 0
          ELSE IF i \notin Won(map, l) THEN sum[i - 1]
          ELSE ToInt64(Real(Real(sum[i - 1]) + RealPrize(bets, map, i, l)))
    IN  sum
RewardTotal(bets, map) == [l \in Level |-> RewardSum(bets, map, l)[Len(bets)]]

\* A level that is short is scaled by the prize of the first bet of the type.
Scheme(bets, map, same, l, total, max) ==
    Int64(Div(Div(max, Part(same, Len(bets), [i \in same |-> map[i][l]])), total)
            * ToInt64(RealPrize(bets, map, Min(same), l)))

Paid(bets, map, i, l, total, max) ==
    IF total > max
    THEN Int64(Scheme(bets, map, {j \in Won(map, l) : bets[j].type = bets[i].type}, l, total, max) * map[i][l])
    ELSE Prize(bets, map, i, l)

\* One output for each winning bet.
Outputs(bets, map, total, max) ==
    LET paid(i) == [l \in DOMAIN map[i] |-> Paid(bets, map, i, l, total[l], max[l])]
        won == {i \in 1..Len(bets) : DOMAIN map[i] # {}}
    IN  Keep(won, Len(bets),
             [i \in won |-> [bet |-> i, nValue |-> Int64(Part(DOMAIN map[i], 5, paid(i)))]])

Rewards(bets, map, total, pool) == Outputs(bets, map, total, Shares(pool, total))
RewardsOf(bets, map, pool) == Rewards(bets, map, RewardTotal(bets, map), pool)

RewardMaps(bets, luck) == [i \in 1..Len(bets) |-> rewardmap(bets[i], luck)]
GetReWardOutput(bets, luck, pool) == RewardsOf(bets, RewardMaps(bets, luck), pool)

-----------------------------------------------------------------------------
(* Blocks.  chain[h] is the block of height h.                             *)

DrawID(height) == (height \div nIntervalLottery) - 1

\* GetLotteryKey for a block after height; "none" stands for 0.
GetLotteryKey(known, height) ==
    IF height <= 2 * nIntervalLottery THEN "one"
    ELSE IF DrawID(height) \in known THEN "key" ELSE "none"

\* mutant: the hash of the interval before.
LotteryHeightEarly(height) ==
    nIntervalLottery * (DrawID(height) - 1)
        + IF nLottoStep >= nIntervalLottery THEN nIntervalLottery - 1 ELSE nLottoStep

\* GetLotteryHash: the block whose Bitcoin hash decides the draw after height.
LotteryHeight(height) ==
    nIntervalLottery * DrawID(height)
        + IF nLottoStep >= nIntervalLottery THEN nIntervalLottery - 1 ELSE nLottoStep

Pool(c) == IF c = <<>> THEN nGenesisPool ELSE c[Len(c)].llPool

\* GetLottoTxOutType, asked when the tip has height tip.  Blocks are not asked it of:
\* they may hold any bets.
ValidBets(tip, s) == Keep({i \in 1..Len(s) : IsValid(s[i]) \/ tip <= nUnchecked}, Len(s), s)

\* The bets and the numbers of the draw after c.
BetsDrawn(c) == ValidBets(Len(c), c[Len(c) + 1 - 2 * nIntervalLottery].bets)
LuckAfter(c) == CreateLuckyStarMap(Bytes[c[LotteryHeight(Len(c))].hash][DrawID(Len(c))])

\* DrawLottery for the block after c.
DrawLottery(c, key) ==
    IF Len(c) < 2 * nIntervalLottery \/ key = "none" \/ BetsDrawn(c) = <<>> THEN <<>>
    ELSE GetReWardOutput(BetsDrawn(c), LuckAfter(c), Pool(c))

ValueOf(s) == Total(Len(s), [i \in 1..Len(s) |-> s[i].nValue])

NewPool(c, bets, outs) == Pool(c) - ValueOf(outs) + ValueOf(ValidBets(Len(c), bets))

\* mutant: the first block of the interval is the one that is looked at.
KeyMissingNext(c, key) ==
    /\ c # <<>> /\ (Len(c) + 1) % nIntervalLottery # 0
    /\ c[Len(c)].uLottoKey = "key" /\ key = "none"

\* The key may be missing, but not once a block of the interval has had it.
KeyMissing(c, key) ==
    /\ c # <<>> /\ Len(c) % nIntervalLottery # 0
    /\ c[Len(c)].uLottoKey = "key" /\ key = "none"

\* CreateNewBlock, by a miner that knows some of the keys.
CreateNewBlock(c, known, bets, h) ==
    LET key == GetLotteryKey(known, Len(c))
        outs == DrawLottery(c, key)
    IN  [bets |-> bets, hash |-> h, uLottoKey |-> key, outs |-> outs,
         llPool |-> NewPool(c, bets, outs)]

\* mutant: who knows the key accepts no block without it.
CheckLottoResultKnown(c, b, known) ==
    IF Len(c) >= 2 * nIntervalLottery
    THEN LET outs == DrawLottery(c, b.uLottoKey)
         IN  /\ GetLotteryKey(known, Len(c)) = b.uLottoKey
             /\ b.llPool + ValueOf(outs) = Pool(c) + ValueOf(ValidBets(Len(c), b.bets))
             /\ b.outs = outs
    ELSE /\ b.llPool = Pool(c) + ValueOf(ValidBets(Len(c), b.bets))
         /\ b.outs = <<>>
         /\ ~KeyMissing(c, b.uLottoKey)

\* CheckLottoResult, by a node that knows some keys: what the block says of keys,
\* prizes and pool.
CheckLottoResult(c, b, known) ==
    IF Len(c) >= 2 * nIntervalLottery /\ b.uLottoKey # "none"
    THEN LET outs == DrawLottery(c, b.uLottoKey)
         IN  /\ GetLotteryKey(known, Len(c)) = b.uLottoKey
             /\ b.llPool + ValueOf(outs) = Pool(c) + ValueOf(ValidBets(Len(c), b.bets))
             /\ b.outs = outs
    ELSE /\ b.llPool = Pool(c) + ValueOf(ValidBets(Len(c), b.bets))
         /\ b.outs = <<>>
         /\ ~KeyMissing(c, b.uLottoKey)

\* CheckTransaction of the transaction that pays the prizes.
MoneyRange(outs) ==
    /\ \A i \in 1..Len(outs) : outs[i].nValue \in 0..nMaxMoney
    /\ ValueOf(outs) <= nMaxMoney

\* The bets, hashes and keys that no draw within the bound reads are not chosen.
\* The first block has no bets, since no coin is mature: the block that would
\* draw them gets the placeholder key, which opens no draw.
Drawing == (2 * nIntervalLottery + 1)..(MaxHeight - 1)
DrawIDs == {DrawID(g) : g \in Drawing}
BetsAt(height) == IF height \in 2..(MaxHeight - 2 * nIntervalLottery) THEN BetLists ELSE {<<>>}
HashesAt(height) ==
    IF \E g \in Drawing : LotteryHeight(g) = height
    THEN Hashes ELSE {CHOOSE h \in Hashes : TRUE}

\* Hashing goes on until there are numbers enough: each of the three loops ends.
ASSUME BytesAssumption ==
    \A h \in Hashes, id \in DrawIDs :
        LET bytes == Bytes[h][id]
            red == Pick(bytes, 1, 20, 5, {})
        IN  /\ bytes \in Seq(Nat)
            /\ Ends(bytes, 1, 15, 6, {}) # {}
            /\ Ends(bytes, 1, 20, 5, {}) # {}
            /\ Ends(bytes, red.p, 10, 2, red.nums) # {}

\* The next block, of a miner that knows the key of its draw or not, as we may.
ConnectBlock ==
    /\ Len(chain) < MaxHeight
    /\ \E bets \in BetsAt(Len(chain) + 1), h \in HashesAt(Len(chain) + 1),
          known \in SUBSET {DrawID(Len(chain))} :
         LET b == CreateNewBlock(chain, known, bets, h)
         IN  /\ ~KeyMissing(chain, b.uLottoKey)
             /\ MoneyRange(b.outs)
             /\ CheckLottoResult(chain, b, keys)
             /\ chain' = Append(chain, b)
    /\ UNCHANGED keys

\* A reorganisation takes the last block back.
DisconnectBlock ==
    /\ chain # <<>>
    /\ chain' = SubSeq(chain, 1, Len(chain) - 1)
    /\ UNCHANGED keys

\* sendlottokey, and the message lotterykey: the key of a draw arrives.
Publish ==
    /\ \E id \in DrawIDs \ keys : keys' = keys \cup {id}
    /\ UNCHANGED chain

LotteryInit == chain = <<>> /\ keys = {}
LotteryNext == ConnectBlock \/ DisconnectBlock \/ Publish
LotterySpec == LotteryInit /\ [][LotteryNext]_lotteryVars

-----------------------------------------------------------------------------
Drawn(h) == h > 2 * nIntervalLottery + 1 /\ chain[h].uLottoKey = "key"
Below(h) == SubSeq(chain, 1, h - 1)

\* The prize level of a ticket with x red and y blue winning numbers, 0 for none.
LevelOf(type, x, y) ==
    IF type = "15_6" THEN (IF x >= 4 THEN 7 - x ELSE 0)
    ELSE LET row == <<{<<5, 2>>}, {<<5, 1>>, <<4, 2>>}, {<<4, 1>>, <<5, 0>>, <<3, 2>>},
                      {<<4, 0>>, <<3, 1>>, <<2, 2>>}, {<<3, 0>>, <<2, 1>>, <<0, 2>>}>>
         IN  IF \E l \in Level : <<x, y>> \in row[l]
             THEN CHOOSE l \in Level : <<x, y>> \in row[l] ELSE 0

\* The single tickets of a bet, and how many of them are on a level.
Singles(b) == IF b.type = "15_6" THEN kSubset(6, Range(b.red)) \X {{}}
              ELSE kSubset(5, Range(b.red)) \X kSubset(2, Range(b.blue))
OnLevel(b, luck, l) ==
    Cardinality({t \in Singles(b) :
        LevelOf(b.type, Cardinality(t[1] \cap luck[b.type].red),
                        Cardinality(t[2] \cap luck[b.type].blue)) = l})

\* A valid bet on more numbers than a ticket has wins what its single tickets would
\* win: the products of binomial coefficients of CreateRewardMap and
\* CalcRewardBet count, for each level, the tickets one by one, unless their
\* number is too large to be computed (MselectN of 21).  It does not hold of the
\* bets that are drawn unchecked up to height nUnchecked: with a number
\* repeated they win on tickets that do not exist.
CountsExact ==
    chain # <<>> /\ Drawn(Len(chain)) =>
      \A i \in 1..Len(BetsDrawn(Below(Len(chain)))) :
        LET b == BetsDrawn(Below(Len(chain)))[i]
            luck == LuckAfter(Below(Len(chain)))
        IN  IsValid(b) /\ Len(b.red) <= 20 =>
              /\ \A l \in Level : Counts(b, luck)[l] = OnLevel(b, luck, l)
              /\ getTotalBer(b) = Cardinality(Singles(b))

\* In the draw after c no sum of prizes has left the 64-bit integers.
Fits(c) ==
    \A l \in Level, i \in 0..Len(BetsDrawn(c)) :
        RewardSum(BetsDrawn(c), RewardMaps(BetsDrawn(c), LuckAfter(c)), l)[i] >= 0

\* No draw takes more than four fifths of the pool, whatever is won on which
\* level and left over for the next, by whichever bets, and however the sum of
\* the prizes is rounded: a level whose prizes are not exact in a double is
\* short.  It takes a pool that is money, and sums that stay in 64 bits: from a
\* stake of about 439,000 coins on the first level a sum may not, and the pool
\* is overdrawn.
Solvent ==
    \A h \in 2..Len(chain) :
        Pool(Below(h)) \in 0..nMaxMoney /\ (chain[h].outs # <<>> => Fits(Below(h)))
            => 10 * ValueOf(chain[h].outs) <= 8 * Pool(Below(h))

\* The hash that decides a draw is carried by a block after the one with the bets
\* and before the one that draws, in whichever part of the interval they are.
HashAfterBets ==
    \A h \in 1..Len(chain) : Drawn(h) =>
        LotteryHeight(h - 1) \in (h - 2 * nIntervalLottery + 1)..(h - 1)

\* Once a block of an interval had the key, all later ones have it: no miner can
\* skip a draw by leaving out the key.
KeyKept ==
    \A g \in 1..Len(chain) : \A h \in g..Len(chain) :
        Drawn(g) /\ DrawID(g - 1) = DrawID(h - 1) => chain[h].uLottoKey = "key"

\* A block that was connected can be connected again after a reorganisation, and by
\* every node that knows our keys or more: CheckLottoResult refuses no block of
\* the chain because its miner, or the node that first checked it, had
\* fewer keys than the one that checks it now.
AcceptedForGood ==
    \A h \in 1..Len(chain), known \in SUBSET DrawIDs :
        keys \subseteq known => CheckLottoResult(Below(h), chain[h], known)
=============================================================================
