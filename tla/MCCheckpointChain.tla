------------------------- MODULE MCCheckpointChain -------------------------
(***************************************************************************)
(* The chain g - a1 - a2 - a3 with checkpoints a1 and a2, a branch b1 - b2 *)
(* from g and a branch c2 from a1.  Work grows in the order of MCOrder.    *)
(***************************************************************************)
EXTENDS CheckpointChain, FiniteSets, TLC

MCPrev == "a1" :> "g" @@ "a2" :> "a1" @@ "a3" :> "a2" @@ "b1" :> "g" @@ "b2" :> "b1" @@ "c2" :> "a1"
MCBlocks == DOMAIN MCPrev \cup {"g"}
MCChain == LET anc[b \in MCBlocks] == IF b = "g" THEN {b} ELSE anc[MCPrev[b]] \cup {b} IN anc
MCHeight == [b \in MCBlocks |-> Cardinality(MCChain[b]) - 1]
MCOrder == <<"g", "a1", "a2", "b1", "b2", "c2", "a3">>
MCWork == [b \in MCBlocks |-> CHOOSE i \in 1..7 : MCOrder[i] = b]
=============================================================================
