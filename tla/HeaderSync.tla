----------------------------- MODULE HeaderSync -----------------------------
(***************************************************************************)
(* Where the headers of BitcoinChain come from: the nodes of the Bitcoin   *)
(* network that Bitcoin::CBitcoinServer is connected to, served by one     *)
(* thread.  Each round of its loop connects, receives, drops dead nodes    *)
(* and asks the node it has heard from last for headers.                   *)
(*                                                                         *)
(* One Bitcoin node is followed in full.  The others are what they do to   *)
(* it: they bring headers of their own, and startSync may ask one of them. *)
(*                                                                         *)
(* The Bitcoin nodes and the network are not of this program: a node       *)
(* changes to chains with more work, announces its tip, answers getheaders *)
(* in order and sends pings.  A connection may be closed, or cut without   *)
(* notice, also in the middle of a message.  Addresses are left out: the   *)
(* node may be tried at any time.  A locator is that of a short chain and  *)
(* has all its blocks.                                                     *)
(***************************************************************************)
EXTENDS BitcoinChain, Sequences

CONSTANTS
    MaxHeaders,   \* headers in one message
    Elsewhere     \* the headers that come from other nodes

ASSUME HeaderSyncAssumption == MaxHeaders \in Nat \ {0} /\ Elsewhere \subseteq Headers

VARIABLES
    node,        \* in m_BitcoinNodes: "none", "open", or "ready" (fSuccessfullyConnected)
    pindexLastGetBlocksBegin, hashLastGetBlocksEnd,
    vHeaders,    \* the headers of a message still to be processed
    alone,       \* the node is the last one heard from, by a second or more
    recv, sent,  \* messages on their way from and to the node
    tip,         \* the node's own
    cut          \* "no", "clean", or "part": in the middle of a message

asked == <<pindexLastGetBlocksBegin, hashLastGetBlocksEnd>>
syncVars == <<node, asked, vHeaders, alone, recv, sent, tip, cut>>

\* The thread is in BitcoinNetMaintain, and not inside AddBitcoinHeader.
AtLoop == pc = "idle" /\ vHeaders = {}

SyncInit ==
    /\ Init
    /\ node = "none" /\ pindexLastGetBlocksBegin = None /\ hashLastGetBlocksEnd = None
    /\ vHeaders = {} /\ alone = FALSE
    /\ recv = <<>> /\ sent = <<>> /\ tip = Start /\ cut = "no"
-----------------------------------------------------------------------------
(* The Bitcoin node and the network *)

\* The headers on the node's chain after the last block it shares with the locator, up to
\* the one asked for.
After(m) ==
    LET new == Chain[tip] \ Chain[m.from]
    IN  {y \in new : /\ Cardinality({z \in new : Height[z] <= Height[y]}) <= MaxHeaders
                     /\ m.stop \in new => Height[y] <= Height[m.stop]}

\* The node changes to a chain with more work and announces its tip.
NewTip(x) ==
    /\ Work[x] > Work[tip]
    /\ tip' = x
    /\ recv' = IF node = "none" \/ cut # "no" THEN recv ELSE Append(recv, [cmd |-> "inv", hash |-> x])
    /\ UNCHANGED <<vars, node, asked, vHeaders, alone, sent, cut>>

Answer ==
    /\ sent # <<>>
    /\ sent' = Tail(sent)
    /\ recv' = Append(recv, [cmd |-> "headers", set |-> After(Head(sent))])
    /\ UNCHANGED <<vars, node, asked, vHeaders, alone, tip, cut>>

\* The connection is cut, unnoticed.
Cut ==
    /\ node # "none" /\ cut = "no"
    /\ cut' = "clean" \/ (cut' = "part" /\ recv # <<>>)
    /\ recv' = <<>> /\ sent' = <<>>
    /\ UNCHANGED <<vars, node, asked, vHeaders, alone, tip>>
-----------------------------------------------------------------------------
(* CBitcoinServer::BitcoinNetMaintain *)

\* openNetworkConnection, createNode, insert and PushVersion; the node answers with its
\* own version.
Connect ==
    /\ AtLoop /\ ~alone /\ node = "none"
    /\ node' = "open" /\ cut' = "no"
    /\ recv' = <<[cmd |-> "version"]>> /\ sent' = <<>>
    /\ UNCHANGED <<vars, asked, vHeaders, alone, tip>>

\* The node's object and its socket go.
Close ==
    /\ node' = "none" /\ recv' = <<>> /\ sent' = <<>> /\ cut' = "no"
    /\ pindexLastGetBlocksBegin' = None /\ hashLastGetBlocksEnd' = None

\* recv returns 0 or an error: CloseSocketDisconnect and clearDisconnectNodes.
Disconnected ==
    /\ AtLoop /\ ~alone /\ node # "none"
    /\ Close
    /\ UNCHANGED <<vars, vHeaders, alone, tip>>

\* checkStatus: silent for 15 minutes, which a node that sends pings is not.  A node
\* that has never sent anything, or half a message, is kept.
checkStatus ==
    /\ AtLoop /\ ~alone /\ node = "ready" /\ cut = "clean"
    /\ Close
    /\ UNCHANGED <<vars, vHeaders, alone, tip>>

Push(end) ==
    /\ sent' = IF cut = "no" THEN Append(sent, [from |-> chainActiveBitcoin, stop |-> end]) ELSE sent
    /\ pindexLastGetBlocksBegin' = chainActiveBitcoin /\ hashLastGetBlocksEnd' = end

\* mutant: only a new tip makes a new request.
pushGetHeadersByTip(end) ==
    IF pindexLastGetBlocksBegin # chainActiveBitcoin THEN Push(end) ELSE UNCHANGED <<sent, asked>>

\* The same request is not sent twice in a row.  GetOrphanRootHash is 0, as no orphan is
\* kept.
pushGetHeaders(end) ==
    IF pindexLastGetBlocksBegin # chainActiveBitcoin \/ hashLastGetBlocksEnd # end
    THEN Push(end) ELSE UNCHANGED <<sent, asked>>

\* parseMessage, for the first message.
Receive ==
    /\ AtLoop /\ ~alone /\ recv # <<>>
    /\ recv' = Tail(recv)
    /\ LET m == Head(recv) IN
         \/ m.cmd = "version" /\ node' = "ready" /\ UNCHANGED <<sent, asked, vHeaders>>
         \/ m.cmd = "headers" /\ vHeaders' = m.set /\ UNCHANGED <<node, sent, asked>>
         \/ /\ m.cmd = "inv"
            /\ IF m.hash \in mapBitcoinBlockIndex THEN UNCHANGED <<sent, asked>>
               ELSE pushGetHeaders(m.hash)
            /\ UNCHANGED <<node, vHeaders>>
    /\ UNCHANGED <<vars, alone, tip, cut>>

\* A ping, and nothing of the other nodes in its second: the round ends with StartSync.
Ping ==
    /\ AtLoop /\ ~alone /\ node = "ready" /\ cut = "no" /\ recv = <<>>
    /\ alone' = TRUE
    /\ UNCHANGED <<vars, node, asked, vHeaders, recv, sent, tip, cut>>

\* A header from another node; one that is known changes nothing.
OtherNode(x) ==
    /\ AtLoop /\ ~alone /\ x \notin mapBitcoinBlockIndex
    /\ vHeaders' = {x}
    /\ UNCHANGED <<vars, node, asked, alone, recv, sent, tip, cut>>

\* The node heard from last is asked; of several in one second the first by address.
startSync ==
    /\ AtLoop /\ alone' = FALSE
    /\ \/ node = "ready" /\ pushGetHeaders(None)
       \/ ~alone /\ UNCHANGED <<sent, asked>>
    /\ UNCHANGED <<vars, node, vHeaders, recv, tip, cut>>

\* AddBitcoinHeader: ProcessBitcoinHeader for one header after the other.  The call of
\* ActivateBestChain after them is in DualChain.
AddBitcoinHeader ==
    /\ pc = "idle"
    /\ \E x \in vHeaders :
         /\ \A y \in vHeaders : Height[x] <= Height[y]
         /\ vHeaders' = vHeaders \ {x}
         /\ IF x \in mapBitcoinBlockIndex \/ ~ParentKnown(x) THEN UNCHANGED vars
            ELSE ProcessBitcoinHeader(x)
    /\ UNCHANGED <<node, asked, alone, recv, sent, tip, cut>>

\* A crash closes every connection.
SyncCrash ==
    /\ Crash /\ Close
    /\ vHeaders' = {} /\ alone' = FALSE /\ UNCHANGED tip

\* The steps of BitcoinChain that need no message.
ChainStep ==
    /\ DisconnectTip \/ ConnectTip \/ ConnectBestBlock \/ LoadBitcoinBlockIndex \/ InitBlockIndex
    /\ UNCHANGED syncVars

SyncNext ==
    \/ ChainStep \/ SyncCrash \/ AddBitcoinHeader
    \/ Answer \/ Cut \/ Connect \/ Disconnected \/ checkStatus \/ Receive \/ Ping \/ startSync
    \/ \E x \in Headers \ Elsewhere : NewTip(x)
    \/ \E x \in Elsewhere : OtherNode(x)

all == <<vars, syncVars>>

\* The thread goes round its loop and select leaves no socket out; a Bitcoin node answers,
\* and sends pings at a time of its own.
SyncSpec ==
    /\ SyncInit /\ [][SyncNext]_all
    /\ WF_all(ChainStep) /\ WF_all(AddBitcoinHeader) /\ WF_all(Answer)
    /\ SF_all(Receive) /\ SF_all(Ping) /\ SF_all(checkStatus) /\ SF_all(alone /\ startSync)
-----------------------------------------------------------------------------
\* A connection that is cut and that checkStatus never ends.
Stuck == cut # "no" /\ (node = "open" \/ cut = "part")

\* The node has a better chain than the active one.
Behind ==
    /\ node # "none" /\ tip \notin mapBitcoinBlockIndex
    /\ chainActiveBitcoin # None /\ Work[tip] > Work[chainActiveBitcoin]

\* No chain is missed: a node that is connected and has a better chain than the active
\* one is asked for it, whatever was asked before and whatever other nodes bring in the
\* meantime, and its headers come in, message by message; or the connection ends.  A
\* connection that is cut before its first message or in the middle of one may stay for
\* ever and hold one of the four places (CBitcoinNode.cpp:74).
HeadersArrive == Behind ~> ~Behind \/ Stuck
=============================================================================
