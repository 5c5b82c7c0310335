----------------------------- MODULE MCMemPool -----------------------------
(***************************************************************************)
(* Coins r0 and r1.  a and b spend r0, c spends a's output, d spends c's   *)
(* and r1, n (not standard) spends b's, f spends n's and g spends f's and  *)
(* h's.  e spends the coinbase m.  h and k spend r1; h pays no fee, k's    *)
(* script is wrong.                                                        *)
(* Blocks: root - u (m, a) - v (c), and root - w (b, n).                   *)
(***************************************************************************)
EXTENDS Miner, TLC

MCIns == "r" :> {} @@ "m" :> {} @@ "a" :> {"r0"} @@ "b" :> {"r0"} @@ "c" :> {"a0"}
           @@ "d" :> {"c0", "r1"} @@ "n" :> {"b0"} @@ "f" :> {"n0"} @@ "g" :> {"f0", "h0"}
           @@ "e" :> {"m0"} @@ "h" :> {"r1"} @@ "k" :> {"r1"}
MCTxs == DOMAIN MCIns
MCOf == "r0" :> "r" @@ "r1" :> "r" @@ "a0" :> "a" @@ "b0" :> "b" @@ "c0" :> "c" @@ "n0" :> "n"
          @@ "f0" :> "f" @@ "m0" :> "m" @@ "d0" :> "d" @@ "g0" :> "g" @@ "e0" :> "e" @@ "h0" :> "h"
          @@ "k0" :> "k"
MCOutpoints == DOMAIN MCOf
MCPrev == "u" :> "root" @@ "v" :> "u" @@ "w" :> "root"
MCBlocks == DOMAIN MCPrev \cup {"root"}
MCChain == LET anc[b \in MCBlocks] == IF b = "root" THEN {b} ELSE anc[MCPrev[b]] \cup {b} IN anc
MCVtx == "root" :> <<"r">> @@ "u" :> <<"m", "a">> @@ "v" :> <<"c">> @@ "w" :> <<"b", "n">>
=============================================================================
