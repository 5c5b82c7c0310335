---------------------------- MODULE MCDualChain ----------------------------
(***************************************************************************)
(* Small pairs of trees for DualChain.  Bitcoin: s - p1, and the fork      *)
(* s - q1 - q2.  Each instance is a table of DSPay blocks.                 *)
(***************************************************************************)
EXTENDS DualChain, TLC

MCBtcBlocks == {"s", "p1", "q1", "q2"}
MCBtcPrev == "p1" :> "s" @@ "q1" :> "s" @@ "q2" :> "q1"
MCBtcHeight == "s" :> 10 @@ "p1" :> 11 @@ "q1" :> 11 @@ "q2" :> 12
MCBtcChain == "s" :> {"s"} @@ "p1" :> {"s", "p1"} @@ "q1" :> {"s", "q1"} @@ "q2" :> {"s", "q1", "q2"}

\* Bitcoin without a fork: s - p1.
OneBtcBlocks == {"s", "p1"}
OneBtcPrev == "p1" :> "s"
OneBtcHeight == "s" :> 10 @@ "p1" :> 11
OneBtcChain == "s" :> {"s"} @@ "p1" :> {"s", "p1"}

\* The ancestors of every block, for a parent function.
Ancestors(prev, root) ==
    LET dom == DOMAIN prev \cup {root}
        anc[b \in dom] == IF b = root THEN {root} ELSE anc[prev[b]] \cup {b}
    IN  anc
Depth(prev, root) == [b \in DOMAIN prev \cup {root} |-> Cardinality(Ancestors(prev, root)[b]) - 1]

\* Two branches: a1, a2 (a draw block) follow p1; b1, b2 follow q1, q2.
MainPrev == "a1" :> "g" @@ "a2" :> "a1" @@ "b1" :> "g" @@ "b2" :> "b1"
MainBlocks == DOMAIN MainPrev \cup {"g"}
MainChain == Ancestors(MainPrev, "g")
MainHeight == Depth(MainPrev, "g")
MainEmbeds == "g" :> {"s"} @@ "a1" :> {"p1"} @@ "a2" :> {"p1"} @@ "b1" :> {"q1"}
                @@ "b2" :> {"q1", "q2"}
MainLottoKey == [b \in MainBlocks |-> IF b = "a2" THEN "k" ELSE "nokey"]

\* Bad blocks: c1 has a bad transaction and two descendants, d1 embeds no
\* Bitcoin hash, e1 is refused by AcceptBlock and has a child e2, and
\* another, f2, that CheckBlock refuses.
BadPrev == "c1" :> "g" @@ "c2" :> "c1" @@ "c3" :> "c2" @@ "d1" :> "g" @@ "e1" :> "g" @@ "e2" :> "e1"
             @@ "f2" :> "e1"
BadBlocks == DOMAIN BadPrev \cup {"g"}
BadChain == Ancestors(BadPrev, "g")
BadHeight == Depth(BadPrev, "g")
BadEmbeds == [b \in BadBlocks |-> IF b = "d1" THEN {} ELSE IF b = "c2" THEN {"s", "p1"} ELSE {"s"}]
BadLottoKey == [b \in BadBlocks |-> "nokey"]

\* For a dirty block with a descendant: c1 has a wrong pool and a child; a1
\* follows p1 and d1 follows a1.
DirtyPrev == "c1" :> "g" @@ "c2" :> "c1" @@ "a1" :> "g" @@ "d1" :> "a1"
DirtyBlocks == DOMAIN DirtyPrev \cup {"g"}
DirtyChain == Ancestors(DirtyPrev, "g")
DirtyHeight == Depth(DirtyPrev, "g")
DirtyEmbeds == [b \in DirtyBlocks |-> IF b \in {"a1", "d1"} THEN {"p1"} ELSE {"s"}]
DirtyLottoKey == [b \in DirtyBlocks |-> "nokey"]
=============================================================================
