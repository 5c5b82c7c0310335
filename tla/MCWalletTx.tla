----------------------------- MODULE MCWalletTx -----------------------------
(***************************************************************************)
(* k is a coinbase of ours; p and q pay us, and only a block may bring q;  *)
(* s spends p's output and keeps change; z, made with a copy of the        *)
(* wallet, spends p's output too; d spends the change of s, the coinbase   *)
(* and q's output, to an address of ours.                                  *)
(* Blocks: root - u (k, p, q) - v (s), and root - w (p, z).                *)
(***************************************************************************)
EXTENDS WalletTx, TLC

MCIns == "r" :> {} @@ "k" :> {} @@ "p" :> {"r0"} @@ "s" :> {"p0"} @@ "z" :> {"p0"}
           @@ "d" :> {"s1", "k0", "q0"} @@ "q" :> {"r1"}
MCTxs == DOMAIN MCIns
MCOf == "r0" :> "r" @@ "r1" :> "r" @@ "q0" :> "q" @@ "k0" :> "k" @@ "p0" :> "p" @@ "s0" :> "s" @@ "s1" :> "s"
          @@ "z0" :> "z" @@ "d0" :> "d"
MCOutpoints == DOMAIN MCOf
MCValue == "r0" :> 7 @@ "r1" :> 2 @@ "q0" :> 1 @@ "k0" :> 5 @@ "p0" :> 6 @@ "s0" :> 2 @@ "s1" :> 3
             @@ "z0" :> 5 @@ "d0" :> 7
MCAccount == [o \in MCOutpoints |-> IF o = "p0" THEN "A" ELSE IF o = "d0" THEN "" ELSE "none"]
MCFromAccount == [t \in MCTxs |-> IF t = "s" THEN "A" ELSE ""]
MCPrev == "u" :> "root" @@ "v" :> "u" @@ "w" :> "root"
MCBlocks == DOMAIN MCPrev \cup {"root"}
MCChain == LET anc[b \in MCBlocks] == IF b = "root" THEN {b} ELSE anc[MCPrev[b]] \cup {b} IN anc
MCVtx == "root" :> <<"r">> @@ "u" :> <<"k", "p", "q">> @@ "v" :> <<"s">> @@ "w" :> <<"p", "z">>
=============================================================================
