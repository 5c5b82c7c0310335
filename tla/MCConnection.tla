---------------------------- MODULE MCConnection ----------------------------
(***************************************************************************)
(* A block does not fit into a socket, and fills the send buffer: one      *)
(* request of each node is enough for both to wait for each other.         *)
(***************************************************************************)
EXTENDS Connection

MCMaxAsk == [n \in {Out, In} |-> IF n = Out THEN 2 ELSE 1]
=============================================================================
