--------------------------- MODULE MCBitcoinChain ---------------------------
(***************************************************************************)
(* s - a1 - a2 - a3 and a1 - b2.  b2 has more work than a2 and less than   *)
(* a3, so that the active chain may go from one branch to the other and    *)
(* back.  From s to a3 there are two messages, from the fork only one.     *)
(***************************************************************************)
EXTENDS HeaderSync, TLC

MCPrev == "a1" :> "s" @@ "a2" :> "a1" @@ "a3" :> "a2" @@ "b2" :> "a1"
MCHeaders == DOMAIN MCPrev \cup {"s"}
MCChain ==
    LET anc[x \in MCHeaders] == IF x = "s" THEN {"s"} ELSE anc[MCPrev[x]] \cup {x}
    IN  anc
MCHeight == [x \in MCHeaders |-> 9 + Cardinality(MCChain[x])]
MCWork == "s" :> 1 @@ "a1" :> 2 @@ "a2" :> 3 @@ "b2" :> 4 @@ "a3" :> 5
=============================================================================
