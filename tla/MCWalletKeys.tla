---------------------------- MODULE MCWalletKeys ----------------------------
(* A miner and getwork hold keys; the pool has two or three keys.           *)
EXTENDS WalletKeys, TLC
=============================================================================
