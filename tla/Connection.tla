----------------------------- MODULE Connection -----------------------------
(***************************************************************************)
(* One connection between two nodes that run this program: the buffers of  *)
(* a CNode, the socket thread and the message thread that share them, and  *)
(* the timeouts that end a connection that is stuck.                       *)
(*                                                                         *)
(* A message is a run of units, the first of which stands for its header;  *)
(* a socket buffer holds PipeSize of them in each direction.  What peers   *)
(* want of each other is blocks, which a peer asks for by number; versions *)
(* and pings are the other messages.  The two threads need milliseconds    *)
(* and the shortest timeout is a minute: a tick of the clock comes when    *)
(* neither of them has anything left to do.  The network may be cut: the   *)
(* nodes then hear nothing more, not even that the other has gone.         *)
(***************************************************************************)
EXTENDS Integers, SequencesExt

CONSTANTS
    Out, In,                \* the node that connected, and the one that accepted
    PipeSize, Chunk,        \* units a socket holds, and that one recv takes
    SendBufferSize, ReceiveFloodSize,
    BlockSize,              \* units of a block
    MaxAsk,                 \* bound: blocks each node asks for
    PingInterval, Timeout   \* in ticks: 30 and 90 minutes

ASSUME SizesAssumption ==
    /\ Out # In
    /\ {PipeSize, Chunk, SendBufferSize, BlockSize} \subseteq Nat \ {0}
    /\ {ReceiveFloodSize, MaxAsk[Out], MaxAsk[In], PingInterval} \subseteq Nat
    /\ Timeout \in Nat /\ 2 * PingInterval < Timeout

Node == {Out, In}
Peer(n) == IF n = Out THEN In ELSE Out

Never == -1                 \* nLastSend and nLastRecv are still 0
Older(t) == IF t \in {Never, Timeout + 1} THEN t ELSE t + 1

VARIABLES
    node,                   \* the CNode that each of the two keeps for the other
    wire,                   \* units sent by a node and not yet received
    cut,                    \* the network has failed
    got                     \* blocks received by a node, in their order

vars == <<node, wire, cut, got>>

\* A message is a version, verack, ping, pong, getdata or block, with the blocks it names.
Plain(type) == [type |-> type, inv |-> <<>>]
Size(m) == IF m.type = "block" THEN BlockSize ELSE 1
Units(m) == [i \in 1..Size(m) |-> [msg |-> m, at |-> i]]

\* nSendSize falls when the last byte of a message is sent.
nSendSize(s) == IF s.vSendMsg = <<>> THEN 0 ELSE Len(s.vSendMsg) + s.vSendMsg[1].at - 1

\* The buffer of a message has its full size as soon as its header is there.
Buffers(us) == FlattenSeq([i \in 1..Len(us) |-> IF us[i].at = 1 THEN Units(us[i].msg) ELSE <<>>])
GetTotalRecvSize(s) == Len(Buffers(s.vRecvMsg))

Complete(s) == s.vRecvMsg # <<>> /\ Len(s.vRecvMsg) >= Size(s.vRecvMsg[1].msg)

-----------------------------------------------------------------------------
(* Sending.  x is a node's record s with the units w on its way out.       *)

\* What the other end still accepts: errors come once it is known to be closed.
Refused(n) == ~cut /\ ~node[Peer(n)].hSocket

CloseSocketDisconnect(s) == [s EXCEPT !.fDisconnect = TRUE, !.hSocket = FALSE, !.vRecvMsg = <<>>]

\* mutant: what did not fit is dropped with the rest of the queue.
SocketSendDataAll(x, refused) ==
    LET k == IF PipeSize - Len(x.w) < Len(x.s.vSendMsg) THEN PipeSize - Len(x.w)
             ELSE Len(x.s.vSendMsg)
    IN  IF refused THEN [x EXCEPT !.s = CloseSocketDisconnect(@)]
        ELSE IF k = 0 THEN x
        ELSE [s |-> [x.s EXCEPT !.vSendMsg = <<>>, !.nLastSend = 0],
              w |-> x.w \o SubSeq(x.s.vSendMsg, 1, k)]

SocketSendData(x, refused) ==
    LET k == IF PipeSize - Len(x.w) < Len(x.s.vSendMsg) THEN PipeSize - Len(x.w)
             ELSE Len(x.s.vSendMsg)
    IN  IF refused THEN [x EXCEPT !.s = CloseSocketDisconnect(@)]
        ELSE IF k = 0 THEN x
        ELSE [s |-> [x.s EXCEPT !.vSendMsg = SubSeq(@, k + 1, Len(@)), !.nLastSend = 0],
              w |-> x.w \o SubSeq(x.s.vSendMsg, 1, k)]

\* EndMessage: a queue that was empty is written at once.
PushMessage(x, refused, m) ==
    LET y == [x EXCEPT !.s.vSendMsg = @ \o Units(m)]
    IN  IF x.s.vSendMsg = <<>> /\ x.s.hSocket THEN SocketSendData(y, refused) ELSE y

Here(n) == [s |-> node[n], w |-> wire[n]]
There(n, x) == node' = [node EXCEPT ![n] = x.s] /\ wire' = [wire EXCEPT ![n] = x.w]

-----------------------------------------------------------------------------
(* The message thread.                                                     *)

\* One block, unless the send buffer is full.
ProcessGetData(x, refused) ==
    IF x.s.vRecvGetData = <<>> \/ nSendSize(x.s) >= SendBufferSize THEN x
    ELSE LET inv == Head(x.s.vRecvGetData)
         IN  PushMessage([x EXCEPT !.s.vRecvGetData = Tail(@)], refused,
                         [type |-> "block", inv |-> <<inv>>])

\* Only the accepting node waits for the version of the other before it sends its own.
Greet(n, x, refused) ==
    LET y == [x EXCEPT !.s.nVersion = TRUE]
        z == IF n = In THEN PushMessage(y, refused, Plain("version")) ELSE y
    IN  PushMessage(z, refused, Plain("verack"))

ProcessMessage(n, x, refused, m) ==
    IF m.type = "version" THEN (IF x.s.nVersion THEN x ELSE Greet(n, x, refused))
    ELSE IF ~x.s.nVersion THEN x
    ELSE IF m.type = "ping" THEN PushMessage(x, refused, Plain("pong"))
    ELSE IF m.type = "getdata"
         THEN ProcessGetData([x EXCEPT !.s.vRecvGetData = @ \o m.inv], refused)
    ELSE x

\* ProcessMessages has a message to take.
CanProcess(n) ==
    /\ node[n].hSocket /\ ~node[n].fDisconnect
    /\ node[n].vRecvGetData = <<>>
    /\ nSendSize(node[n]) < SendBufferSize
    /\ Complete(node[n])

CanAnswer(n) ==
    /\ node[n].hSocket /\ ~node[n].fDisconnect
    /\ node[n].vRecvGetData # <<>>
    /\ nSendSize(node[n]) < SendBufferSize

\* ProcessMessages: first the requests that wait ...
Answer(n) ==
    /\ CanAnswer(n)
    /\ There(n, ProcessGetData(Here(n), Refused(n)))
    /\ UNCHANGED <<cut, got>>

\* ... and, when none is left, one message; a node that was closed has lost the others.
ProcessMessages(n) ==
    LET m == node[n].vRecvMsg[1].msg
        x == ProcessMessage(n, Here(n), Refused(n), m)
    IN  /\ CanProcess(n)
        /\ There(n, IF x.s.fDisconnect THEN x
                    ELSE [x EXCEPT !.s.vRecvMsg = SubSeq(@, Size(m) + 1, Len(@))])
        /\ got' = IF m.type = "block" THEN [got EXCEPT ![n] = @ \o m.inv] ELSE got
        /\ UNCHANGED cut

\* mutant: the keepalive waits as long as the timeout.
NeedsPingLate(n) ==
    /\ node[n].hSocket /\ ~node[n].fDisconnect /\ node[n].nVersion
    /\ node[n].vSendMsg = <<>> /\ node[n].nLastSend > Timeout

NeedsPing(n) ==
    /\ node[n].hSocket /\ ~node[n].fDisconnect /\ node[n].nVersion
    /\ node[n].vSendMsg = <<>> /\ node[n].nLastSend > PingInterval

\* SendMessages: a ping when nothing has been sent for a while.
Ping(n) ==
    /\ NeedsPing(n)
    /\ There(n, PushMessage(Here(n), Refused(n), Plain("ping")))
    /\ UNCHANGED <<cut, got>>

\* SendMessages: the next k blocks are asked for, whatever the length of the queue.
Ask(n) ==
    /\ node[n].hSocket /\ ~node[n].fDisconnect /\ node[n].nVersion
    /\ \E k \in 1..(MaxAsk[n] - node[n].asked) :
         There(n, PushMessage([Here(n) EXCEPT !.s.asked = @ + k], Refused(n),
                    [type |-> "getdata", inv |-> [i \in 1..k |-> node[n].asked + i]]))
    /\ UNCHANGED <<cut, got>>

-----------------------------------------------------------------------------
(* The socket thread: what select is asked to wait for ...                 *)

SelectSend(n) == node[n].hSocket /\ node[n].vSendMsg # <<>>

\* mutant: a full receive buffer is filled further.
SelectRecvAlways(n) == node[n].hSocket /\ node[n].vSendMsg = <<>>

SelectRecv(n) ==
    /\ node[n].hSocket /\ node[n].vSendMsg = <<>>
    /\ ~Complete(node[n]) \/ GetTotalRecvSize(node[n]) <= ReceiveFloodSize

Readable(n) == ~cut /\ (wire[Peer(n)] # <<>> \/ ~node[Peer(n)].hSocket)
Writeable(n) == Len(wire[n]) < PipeSize \/ Refused(n)

Ready(n) ==
    IF SelectSend(n) /\ Writeable(n) THEN "send"
    ELSE IF SelectRecv(n) /\ Readable(n) THEN "recv" ELSE "none"

\* The top of the loop: a node that is marked is closed, else its socket looked at.
Disconnect(n) ==
    /\ node[n].fDisconnect /\ (node[n].hSocket \/ node[n].vRecvMsg # <<>>)
    /\ node[n].sel = "none"
    /\ node' = [node EXCEPT ![n] = CloseSocketDisconnect(@)]
    /\ UNCHANGED <<wire, cut, got>>

Select(n) ==
    /\ node[n].hSocket /\ ~node[n].fDisconnect
    /\ node[n].sel = "none" /\ Ready(n) # "none"
    /\ node' = [node EXCEPT ![n].sel = Ready(n)]
    /\ UNCHANGED <<wire, cut, got>>

(* ... and what is done with the answer, which may have been overtaken.    *)

\* mutant: a queue that does not move is waited for.
ExpiredRecv(s) ==
    /\ s.nTimeConnected > 0
    /\ \/ Never \in {s.nLastRecv, s.nLastSend}
       \/ s.vSendMsg = <<>> /\ s.nLastRecv > Timeout

\* The inactivity check; a minute has passed at the first tick.
Expired(s) ==
    /\ s.nTimeConnected > 0
    /\ \/ Never \in {s.nLastRecv, s.nLastSend}
       \/ s.nLastSend > Timeout /\ s.nLastSendEmpty > Timeout
       \/ s.nLastRecv > Timeout

Inactivity(s) ==
    LET t == IF s.vSendMsg = <<>> THEN [s EXCEPT !.nLastSendEmpty = 0] ELSE s
    IN  IF s.hSocket /\ Expired(t) THEN [t EXCEPT !.fDisconnect = TRUE] ELSE t

Closed(n) == There(n, [Here(n) EXCEPT !.s = [CloseSocketDisconnect(@) EXCEPT !.sel = "none"]])

ServiceSend(n) ==
    LET x == IF node[n].hSocket THEN SocketSendData(Here(n), Refused(n)) ELSE Here(n)
    IN  /\ node[n].sel = "send"
        /\ There(n, [x EXCEPT !.s = [Inactivity(@) EXCEPT !.sel = "none"]])
        /\ UNCHANGED <<cut, got>>

\* The peer that has gone may have left data, but need not have.
ServiceRecv(n) ==
    LET p == Peer(n)
        k == IF Chunk < Len(wire[p]) THEN Chunk ELSE Len(wire[p])
        s == [node[n] EXCEPT !.vRecvMsg = @ \o SubSeq(wire[p], 1, k), !.nLastRecv = 0]
    IN  /\ node[n].sel = "recv"
        /\ \/ /\ node[n].hSocket /\ k > 0 /\ ~cut
              /\ wire' = [wire EXCEPT ![p] = SubSeq(@, k + 1, Len(@))]
              /\ node' = [node EXCEPT ![n] = [Inactivity(s) EXCEPT !.sel = "none"]]
           \/ node[n].hSocket /\ Refused(n) /\ Closed(n)
           \/ /\ ~node[n].hSocket \/ cut
              /\ node' = [node EXCEPT ![n].sel = "none"]
              /\ UNCHANGED wire
        /\ UNCHANGED <<cut, got>>

\* select has nothing, and the check for inactivity is all there is to do.
Idle(n) ==
    /\ node[n].sel = "none" /\ Ready(n) = "none"
    /\ node[n].hSocket /\ ~node[n].fDisconnect /\ Inactivity(node[n]) # node[n]
    /\ node' = [node EXCEPT ![n] = Inactivity(@)]
    /\ UNCHANGED <<wire, cut, got>>

-----------------------------------------------------------------------------
Busy(n) ==
    \/ CanProcess(n) \/ CanAnswer(n) \/ NeedsPing(n)
    \/ node[n].sel # "none"
    \/ node[n].hSocket /\ (node[n].fDisconnect \/ Ready(n) # "none" \/ Inactivity(node[n]) # node[n])

Aged(s) ==
    IF ~s.hSocket THEN s
    ELSE [s EXCEPT !.nTimeConnected = 1, !.nLastSend = Older(@), !.nLastRecv = Older(@),
                   !.nLastSendEmpty = Older(@)]

Tick ==
    /\ \A n \in Node : ~Busy(n)
    /\ \E n \in Node : node[n].hSocket
    /\ node' = [n \in Node |-> Aged(node[n])]
    /\ UNCHANGED <<wire, cut, got>>

Cut == ~cut /\ cut' = TRUE /\ UNCHANGED <<node, wire, got>>

NewNode ==
    [vSendMsg |-> <<>>, vRecvMsg |-> <<>>, vRecvGetData |-> <<>>, nVersion |-> FALSE,
     hSocket |-> TRUE, fDisconnect |-> FALSE, sel |-> "none", asked |-> 0,
     nTimeConnected |-> 0, nLastSend |-> Never, nLastRecv |-> Never, nLastSendEmpty |-> 0]

\* CNode: the node that connected has sent its version.
Init ==
    LET x == PushMessage([s |-> NewNode, w |-> <<>>], FALSE, Plain("version"))
    IN  /\ node = [n \in Node |-> IF n = Out THEN x.s ELSE NewNode]
        /\ wire = [n \in Node |-> IF n = Out THEN x.w ELSE <<>>]
        /\ cut = FALSE
        /\ got = [n \in Node |-> <<>>]

Threads(n) ==
    \/ Answer(n) \/ ProcessMessages(n) \/ Ping(n)
    \/ Disconnect(n) \/ Select(n) \/ ServiceSend(n) \/ ServiceRecv(n) \/ Idle(n)

Next == Tick \/ Cut \/ \E n \in Node : Threads(n) \/ Ask(n)

Spec == Init /\ [][Next]_vars

\* Both threads of both nodes keep running, and the clock.
LiveSpec ==
    /\ Spec
    /\ WF_vars(Tick)
    /\ \A n \in Node :
         /\ WF_vars(Answer(n) \/ ProcessMessages(n) \/ Ping(n))
         /\ WF_vars(Disconnect(n) \/ Select(n) \/ ServiceSend(n) \/ ServiceRecv(n) \/ Idle(n))

-----------------------------------------------------------------------------
\* The blocks and the requests in a stream of units, each where its last unit is.
Carried(us, type) ==
    FlattenSeq([i \in 1..Len(us) |->
        IF us[i].msg.type = type /\ us[i].at = Size(us[i].msg) THEN us[i].msg.inv ELSE <<>>])

\* While both ends are open, every block a node has asked for is in exactly one
\* place between its request and its arrival, and they arrive in the order in
\* which they were asked for: no partial send, receive or full buffer (main.cpp
\* "this maintains the order of responses") loses, repeats or overtakes one.
NothingLost ==
    \A n \in Node :
      LET p == Peer(n)
      IN  node[n].hSocket /\ node[p].hSocket =>
            got[n]
            \o Carried(node[n].vRecvMsg, "block") \o Carried(wire[p], "block")
            \o Carried(node[p].vSendMsg, "block") \o node[p].vRecvGetData
            \o Carried(node[p].vRecvMsg, "getdata") \o Carried(wire[n], "getdata")
            \o Carried(node[n].vSendMsg, "getdata")
            = [i \in 1..node[n].asked |-> i]

\* A peer that asks for much and reads nothing, or sends much while the node is
\* busy, cannot make it buffer without bound: apart from what the node itself
\* asks for, the send queue exceeds SendBufferSize by less than one answer, and
\* the receive queue ReceiveFloodSize by less than a read and a message.
BuffersBounded ==
    \A n \in Node :
      /\ nSendSize(node[n]) - Len(Carried(node[n].vSendMsg, "getdata"))
            < SendBufferSize + IF BlockSize > 2 THEN BlockSize ELSE 2
      /\ GetTotalRecvSize(node[n])
            < (IF ReceiveFloodSize > BlockSize THEN ReceiveFloodSize ELSE BlockSize) + Chunk + BlockSize

\* Both nodes wait for the other to read.
Jammed == \A n \in Node : SelectSend(n) /\ ~Writeable(n)

\* Without a failure of the network an open connection runs out of time only
\* when both nodes wait for each other to read: otherwise the pings every half
\* an hour and their answers keep it, handshake included.
OnlyJamsExpire ==
    [][\A n \in Node :
         ~cut /\ ~node[n].fDisconnect /\ node'[n].fDisconnect /\ node'[n].hSocket => Jammed]_vars

\* What a node asks for it gets, or the connection is closed: a cut network, a
\* peer that went away and two nodes that wait for each other end in a timeout.
AnsweredOrClosed ==
    \A n \in Node : \A k \in 1..MaxAsk[n] :
        node[n].asked >= k ~> Len(got[n]) >= k \/ ~node[n].hSocket
=============================================================================
