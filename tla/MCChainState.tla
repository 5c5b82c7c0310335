---------------------------- MODULE MCChainState ----------------------------
(***************************************************************************)
(* c is a coinbase with two outputs; p spends the first, and q, in the     *)
(* same block, the second and the output of p.  Blocks: root - u (c) -     *)
(* v (p, q).                                                               *)
(***************************************************************************)
EXTENDS ChainState, TLC

MCTxids == {"c", "p", "q"}
MCOuts == [t \in MCTxids |-> IF t = "c" THEN {0, 1} ELSE {0}]
MCIns == "c" :> {} @@ "p" :> {<<"c", 0>>} @@ "q" :> {<<"c", 1>>, <<"p", 0>>}
MCPrev == "u" :> "root" @@ "v" :> "u"
MCBlocks == DOMAIN MCPrev \cup {"root"}
MCVtx == "root" :> <<>> @@ "u" :> <<"c">> @@ "v" :> <<"p", "q">>
MCChain == LET anc[b \in MCBlocks] == IF b = "root" THEN {b} ELSE anc[MCPrev[b]] \cup {b} IN anc
MCHeight == [b \in MCBlocks |-> Cardinality(MCChain[b]) - 1]

\* The replay of the blocks.
MCL ==
    LET after[b \in MCBlocks] ==
          LET n == Len(MCVtx[b])
              step[i \in 0..n] ==
                IF i > 0 THEN UpdateCoins(step[i - 1], MCVtx[b][i], MCHeight[b])
                ELSE IF b = "root" THEN [x \in MCTxids |-> Pruned]
                ELSE after[MCPrev[b]][Len(MCVtx[MCPrev[b]])]
          IN  step
    IN  after
=============================================================================
