----------------------------- MODULE MCLottery ------------------------------
(***************************************************************************)
(* Two Bitcoin hashes: one gives 1..6, and 1..5 with 6 and 7; the other    *)
(* 10..15, and 11..15 with 9 and 10.  The bets: one that always loses and  *)
(* fills the pool, two that win on several levels, one whose prize is more *)
(* than the pool and not exact in a double, one whose prize leaves the     *)
(* 64-bit integers, and one with a number twice.                           *)
(***************************************************************************)
EXTENDS Lottery

Bet(type, red, blue, value) == [type |-> type, red |-> red, blue |-> blue, nValue |-> value]
Loser == Bet("15_6", <<4, 5, 6, 13, 14, 15>>, <<>>, 24000)
Seven == Bet("15_6", <<1, 2, 3, 4, 5, 6, 7>>, <<>>, 8)
Mixed == Bet("mulilt", <<1, 2, 3, 4, 5, 11, 12>>, <<6, 9, 10>>, 130)
Jackpot == Bet("mulilt", <<1, 2, 3, 4, 5>>, <<6, 7>>, 2)
Twice == Bet("15_6", <<1, 2, 2, 3, 4, 5>>, <<>>, 4)
Overflow == Bet("mulilt", <<1, 2, 3, 4, 5>>, <<6, 7>>, 5)
MCBetLists == {<<>>, <<Loser>>, <<Twice, Seven, Mixed>>, <<Mixed, Jackpot>>, <<Overflow>>}

\* Doubles of 16 bits, half to even.
Gap(x) == IF x <= 65536 THEN 1 ELSE IF x <= 131072 THEN 2 ELSE IF x <= 262144 THEN 4 ELSE 8
MCDouble ==
    [x \in 0..524287 |->
        LET g == Gap(x)
            q == x \div g
            up == 2 * (x % g) > g \/ (2 * (x % g) = g /\ q % 2 = 1)
        IN  g * (IF up THEN q + 1 ELSE q)]

MCBytes ==
    [h \in {"x", "y"} |-> [id \in 0..3 |->
        IF h = "x" THEN <<0, 1, 255, 2, 2, 3, 4, 5, 6, 7>>
        ELSE <<14, 13, 13, 200, 12, 11, 10, 9, 8>>]]
=============================================================================
