------------------------------- MODULE Ledger -------------------------------
(***************************************************************************)
(* What the coin database promises.  pcoinsTip answers with the coins that *)
(* a replay of the chain up to its best block leaves unspent: a block is   *)
(* connected or disconnected at once or not at all, and a failure brings   *)
(* the node back to a best block that was saved, with exactly the coins of *)
(* that block.                                                             *)
(***************************************************************************)
CONSTANTS Blocks, Root, Prev, At    \* At[b]: the coins after the block b

VARIABLES
    best, coins,   \* of pcoinsTip
    saved          \* the best blocks a failure may bring back

Init == best = Root /\ coins = At[Root] /\ saved = {Root}

Move(b) == best' = b /\ coins' = At[b]

Connect(b) == b # Root /\ Prev[b] = best /\ Move(b) /\ UNCHANGED saved

Disconnect == best # Root /\ Move(Prev[best]) /\ UNCHANGED saved

Save == saved' = saved \cup {best} /\ UNCHANGED <<best, coins>>

\* A crash or a power failure, and the start after it.
Restart(b) == b \in saved /\ Move(b) /\ b \in saved' /\ saved' \subseteq saved

Next == (\E b \in Blocks : Connect(b) \/ Restart(b)) \/ Disconnect \/ Save

Spec == Init /\ [][Next]_<<best, coins, saved>>
=============================================================================
