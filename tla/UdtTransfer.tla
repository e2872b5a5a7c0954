---------------------------- MODULE UdtTransfer -----------------------------
(***************************************************************************)
(* Data transfer between two connected UDT sockets, in one direction       *)
(* (udt-sys/udt/core.cpp and buffer.cpp, with the worker threads of        *)
(* queue.cpp).  On the sending side three threads meet: the application in *)
(* sendmsg, the sending worker (CSndUList::pop and packData) and the       *)
(* receiving worker (processCtrl and checkTimers); on the receiving side   *)
(* the receiving worker (processData, processCtrl, checkTimers) and the    *)
(* application in recvmsg.  Packets may be lost, duplicated and reordered. *)
(*                                                                         *)
(* Time is left out: a timer may expire at any moment.  The loss lists are *)
(* sets here; messages have no TTL.                                        *)
(***************************************************************************)
EXTENDS UdtSeq, UdtRcvBuffer, FiniteSets

CONSTANTS
    ISN,             \* m_iISN, the sequence number of the first packet
    Msgs,            \* the messages to send: [pkts |-> packets, order |-> in-order bit]
    SndBufSize,      \* m_iSndBufSize
    AckWinSize,      \* size of the ACK window, 1024
    MaxExp,          \* expirations after which the peer is taken for dead, 16
    NetCap           \* packets the network holds; it loses one to take another

ASSUME TransferAssumption ==
    /\ ISN \in SeqNo
    /\ Msgs \in Seq([pkts : Nat \ {0}, order : BOOLEAN])
    /\ SndBufSize \in Nat /\ AckWinSize \in Nat \ {0}
    /\ MaxExp \in Nat /\ NetCap \in Nat \ {0}

VARIABLES
    net,              \* the packets on the way, in both directions
    \* sending side
    sent,             \* messages handed to sendmsg
    sndBuf,           \* CSndBuffer: the blocks from m_pFirstBlock to m_pLastBlock
    currBlock,        \* m_pCurrBlock, as the number of blocks before it
    sndLastAck,       \* m_iSndLastAck
    sndLastDataAck,   \* m_iSndLastDataAck
    sndCurrSeqNo,     \* m_iSndCurrSeqNo
    flowWindow,       \* m_iFlowWindowSize
    sndLoss,          \* the sender's loss list
    onSndList,        \* the socket is in the CSndUList
    popping,          \* the lost packet the sending worker is about to send again
    updating,         \* the receiving worker waits for the CSndUList's lock
    expCount,         \* m_iEXPCount
    broken,           \* m_bBroken: "no", "peer" (taken for dead) or "bug"
    \* receiving side
    rcvLastAck,       \* m_iRcvLastAck
    rcvLastAckAck,    \* m_iRcvLastAckAck
    rcvCurrSeqNo,     \* m_iRcvCurrSeqNo
    rcvLoss,          \* the receiver's loss list
    rcvBuf,           \* CRcvBuffer
    ackWindow,        \* CACKWindow, the oldest ACK first
    reading,          \* the message recvmsg has found and not yet copied out
    delivered         \* what recvmsg returned, in order

sndVars == <<sent, sndBuf, currBlock, sndLastAck, sndLastDataAck, sndCurrSeqNo,
             flowWindow, sndLoss, onSndList, popping, updating, expCount, broken>>
rcvVars == <<rcvLastAck, rcvLastAckAck, rcvCurrSeqNo, rcvLoss, rcvBuf, ackWindow,
             reading, delivered>>
vars == <<net, sndVars, rcvVars>>

NoSeq == -1
NoMsg == [found |-> FALSE]

\* The packets of message no.
Packets(no) ==
    LET n == Msgs[no].pkts
    IN  [k \in 1..n |-> [no |-> no, k |-> k, order |-> Msgs[no].order,
                         bnd |-> (IF k = 1 THEN 2 ELSE 0) + (IF k = n THEN 1 ELSE 0)]]

Init ==
    /\ net = {}
    /\ sent = 0 /\ sndBuf = <<>> /\ currBlock = 0
    /\ sndLastAck = ISN /\ sndLastDataAck = ISN /\ sndCurrSeqNo = ISN - 1
    /\ flowWindow = RcvBufSize
    /\ sndLoss = {} /\ onSndList = FALSE /\ popping = NoSeq /\ updating = FALSE
    /\ expCount = 1 /\ broken = "no"
    /\ rcvLastAck = ISN /\ rcvLastAckAck = ISN /\ rcvCurrSeqNo = ISN - 1
    /\ rcvLoss = {} /\ rcvBuf = InitRcvBuffer
    /\ ackWindow = <<>>
    /\ reading = NoMsg /\ delivered = <<>>

-----------------------------------------------------------------------------
(* The network.                                                            *)

\* What the network n may hold once m is sent.
Carry(n, m) ==
    IF m \in n \/ Cardinality(n) < NetCap
    THEN {n \cup {m}} ELSE {(n \ {x}) \cup {m} : x \in n}

\* A packet is taken from the network, which may keep a copy.
Taking(m) == {net, net \ {m}}

-----------------------------------------------------------------------------
(* The application that sends, and the sending worker.                     *)

\* CSndBuffer: the next new block, a block that was sent before, and what is
\* left when the first blocks are acknowledged.
readData == sndBuf[currBlock + 1]
readDataAt(offset) == sndBuf[offset + 1]
ackSndData(offset) == SubSeq(sndBuf, offset + 1, Len(sndBuf))

Sendmsg ==
    /\ broken = "no"
    /\ popping = NoSeq
    /\ sent < Len(Msgs)
    /\ SndBufSize - Len(sndBuf) >= Msgs[sent + 1].pkts
    /\ sent' = sent + 1
    /\ sndBuf' = sndBuf \o Packets(sent + 1)
    /\ onSndList' = TRUE
    /\ UNCHANGED <<net, currBlock, sndLastAck, sndLastDataAck, sndCurrSeqNo, flowWindow,
                   sndLoss, popping, updating, expCount, broken, rcvVars>>

\* pop takes the socket off the list and packData the first lost packet off
\* the loss list.  The lock of the CSndUList is kept until PackLost, so the
\* receiving worker can process an ACK between the two but not put the socket
\* back on the list.
PopLost ==
    /\ broken = "no" /\ onSndList /\ popping = NoSeq
    /\ sndLoss # {}
    /\ popping' = FirstSeq(sndLoss)
    /\ sndLoss' = sndLoss \ {FirstSeq(sndLoss)}
    /\ onSndList' = FALSE
    /\ UNCHANGED <<net, sent, sndBuf, currBlock, sndLastAck, sndLastDataAck, sndCurrSeqNo,
                   flowWindow, updating, expCount, broken, rcvVars>>

Data(seq, pkt) == [type |-> "data", seq |-> seq, pkt |-> pkt]

\* The packet may have been acknowledged in the meantime; then nothing is sent
\* and the socket stays off the list.
PackLost ==
    /\ popping # NoSeq
    /\ LET offset == seqoff(sndLastDataAck, popping)
       IN  IF offset < 0
           THEN UNCHANGED <<net, onSndList>>
           ELSE /\ net' \in Carry(net, Data(popping, readDataAt(offset)))
                /\ onSndList' = TRUE
    /\ popping' = NoSeq
    /\ UNCHANGED <<sent, sndBuf, currBlock, sndLastAck, sndLastDataAck, sndCurrSeqNo,
                   flowWindow, sndLoss, updating, expCount, broken, rcvVars>>

InFlight == seqlen(sndLastAck, incseq(sndCurrSeqNo))

\* Without a loss a new packet is sent, within the flow window and the
\* congestion window.
PackNew ==
    /\ broken = "no" /\ onSndList /\ popping = NoSeq
    /\ sndLoss = {}
    /\ flowWindow >= InFlight
    /\ currBlock < Len(sndBuf)
    /\ sndCurrSeqNo' = incseq(sndCurrSeqNo)
    /\ net' \in Carry(net, Data(incseq(sndCurrSeqNo), readData))
    /\ currBlock' = currBlock + 1
    /\ UNCHANGED <<sent, sndBuf, sndLastAck, sndLastDataAck, flowWindow, sndLoss, onSndList,
                   popping, updating, expCount, broken, rcvVars>>

\* Nothing to send, or a window is full (the congestion window, of at least
\* one packet, may be so whenever something is in flight): the socket leaves
\* the list.
PackNothing ==
    /\ broken = "no" /\ onSndList /\ popping = NoSeq
    /\ sndLoss = {}
    /\ \/ flowWindow < InFlight
       \/ currBlock = Len(sndBuf)
       \/ InFlight > 1
    /\ onSndList' = FALSE
    /\ UNCHANGED <<net, sent, sndBuf, currBlock, sndLastAck, sndLastDataAck, sndCurrSeqNo,
                   flowWindow, sndLoss, popping, updating, expCount, broken, rcvVars>>

-----------------------------------------------------------------------------
(* The receiving worker of the sending side: processCtrl and checkTimers.  *)

Listens == broken = "no" /\ ~updating

Ack(no, ack, window) == [type |-> "ack", no |-> no, ack |-> ack, window |-> window]
LiteAck(ack) == [type |-> "liteack", ack |-> ack]
Ack2(no) == [type |-> "ack2", no |-> no]
Nak(from, to) == [type |-> "nak", from |-> from, to |-> to]

RecvLiteAck(m) ==
    /\ Listens /\ m.type = "liteack"
    /\ net' \in Taking(m)
    /\ expCount' = 1
    /\ IF seqcmp(m.ack, sndLastAck) >= 0
       THEN /\ flowWindow' = flowWindow - seqoff(sndLastAck, m.ack)
            /\ sndLastAck' = m.ack
       ELSE UNCHANGED <<flowWindow, sndLastAck>>
    /\ UNCHANGED <<sent, sndBuf, currBlock, sndLastDataAck, sndCurrSeqNo, sndLoss, onSndList,
                   popping, updating, broken, rcvVars>>

\* Mutant: the ACK leaves the loss list alone.
RecvAck_KeepsLoss(m) ==
    /\ Listens /\ m.type = "ack"
    /\ \E n \in Taking(m) : net' \in {n} \cup Carry(n, Ack2(m.no))
    /\ expCount' = 1
    /\ IF seqcmp(m.ack, incseq(sndCurrSeqNo)) > 0
       THEN /\ broken' = "bug"
            /\ UNCHANGED <<flowWindow, sndLastAck, sndBuf, currBlock, sndLastDataAck, sndLoss,
                           updating>>
       ELSE /\ flowWindow' = IF seqcmp(m.ack, sndLastAck) >= 0 THEN m.window ELSE flowWindow
            /\ sndLastAck' = IF seqcmp(m.ack, sndLastAck) >= 0 THEN m.ack ELSE sndLastAck
            /\ UNCHANGED broken
            /\ LET offset == seqoff(sndLastDataAck, m.ack)
               IN  IF offset <= 0
                   THEN UNCHANGED <<sndBuf, currBlock, sndLastDataAck, sndLoss, updating>>
                   ELSE /\ sndBuf' = ackSndData(offset)
                        /\ currBlock' = currBlock - offset
                        /\ sndLastDataAck' = m.ack
                        /\ sndLoss' = sndLoss
                        /\ updating' = TRUE
    /\ UNCHANGED <<sent, sndCurrSeqNo, onSndList, popping, rcvVars>>

\* An ACK that is not answered with an ACK2 is as good as one whose ACK2 is
\* lost.  An ACK of what was never sent breaks the connection.
RecvAck(m) ==
    /\ Listens /\ m.type = "ack"
    /\ \E n \in Taking(m) : net' \in {n} \cup Carry(n, Ack2(m.no))
    /\ expCount' = 1
    /\ IF seqcmp(m.ack, incseq(sndCurrSeqNo)) > 0
       THEN /\ broken' = "bug"
            /\ UNCHANGED <<flowWindow, sndLastAck, sndBuf, currBlock, sndLastDataAck, sndLoss,
                           updating>>
       ELSE /\ flowWindow' = IF seqcmp(m.ack, sndLastAck) >= 0 THEN m.window ELSE flowWindow
            /\ sndLastAck' = IF seqcmp(m.ack, sndLastAck) >= 0 THEN m.ack ELSE sndLastAck
            /\ UNCHANGED broken
            /\ LET offset == seqoff(sndLastDataAck, m.ack)
               IN  IF offset <= 0
                   THEN UNCHANGED <<sndBuf, currBlock, sndLastDataAck, sndLoss, updating>>
                   ELSE /\ sndBuf' = ackSndData(offset)
                        /\ currBlock' = currBlock - offset
                        /\ sndLastDataAck' = m.ack
                        /\ sndLoss' = {s \in sndLoss : seqcmp(s, m.ack) >= 0}
                        /\ updating' = TRUE
    /\ UNCHANGED <<sent, sndCurrSeqNo, onSndList, popping, rcvVars>>

\* ... and the socket is put back on the list.
UpdateSndList ==
    /\ updating
    /\ popping = NoSeq
    /\ updating' = FALSE
    /\ onSndList' = TRUE
    /\ UNCHANGED <<net, sent, sndBuf, currBlock, sndLastAck, sndLastDataAck, sndCurrSeqNo,
                   flowWindow, sndLoss, popping, expCount, broken, rcvVars>>

\* A loss report: what was acknowledged since is left out of it.
RecvNak(m) ==
    /\ Listens /\ m.type = "nak"
    /\ net' \in Taking(m)
    /\ expCount' = 1
    /\ IF seqcmp(m.from, m.to) > 0 \/ seqcmp(m.to, sndCurrSeqNo) > 0
       THEN /\ broken' = "bug"
            /\ UNCHANGED <<sndLoss, updating>>
       ELSE /\ LET from == IF seqcmp(m.from, sndLastAck) >= 0 THEN m.from ELSE sndLastAck
               IN  sndLoss' = IF seqcmp(m.to, sndLastAck) >= 0
                              THEN sndLoss \cup SeqRange(from, m.to) ELSE sndLoss
            /\ updating' = TRUE
            /\ UNCHANGED broken
    /\ UNCHANGED <<sent, sndBuf, currBlock, sndLastAck, sndLastDataAck, sndCurrSeqNo,
                   flowWindow, onSndList, popping, rcvVars>>

\* Nothing was heard of the peer for a while.  Everything in flight counts as
\* lost, unless there is a loss to repair already; a sender that has nothing
\* to send sends a keep-alive (not shown: it tells the peer what any packet
\* tells it).
ExpTimer ==
    /\ Listens
    /\ expCount <= MaxExp
    /\ sndLoss' = IF /\ sndBuf # <<>>
                     /\ incseq(sndCurrSeqNo) # sndLastAck
                     /\ sndLoss = {}
                  THEN SeqRange(sndLastAck, sndCurrSeqNo) ELSE sndLoss
    /\ updating' = (sndBuf # <<>>)
    /\ expCount' = expCount + 1
    /\ UNCHANGED <<net, sent, sndBuf, currBlock, sndLastAck, sndLastDataAck, sndCurrSeqNo,
                   flowWindow, onSndList, popping, broken, rcvVars>>

\* A keep-alive of the receiving side, which it sends when its own expiration
\* timer fires; it carries nothing, so the network need not show it.
RecvKeepAlive ==
    /\ Listens
    /\ expCount > 1
    /\ expCount' = 1
    /\ UNCHANGED <<net, sent, sndBuf, currBlock, sndLastAck, sndLastDataAck, sndCurrSeqNo,
                   flowWindow, sndLoss, onSndList, popping, updating, broken, rcvVars>>

GiveUp ==
    /\ Listens
    /\ expCount > MaxExp
    /\ broken' = "peer"
    /\ UNCHANGED <<net, sent, sndBuf, currBlock, sndLastAck, sndLastDataAck, sndCurrSeqNo,
                   flowWindow, sndLoss, onSndList, popping, updating, expCount, rcvVars>>

-----------------------------------------------------------------------------
(* The receiving side.                                                     *)

\* processData.  A packet outside the buffer, or one that is there, is
\* dropped; a gap is reported at once; a packet that fills one is no loss
\* any more.
RecvData(m) ==
    /\ m.type = "data"
    /\ LET offset == seqoff(rcvLastAck, m.seq)
           drop == offset < 0 \/ offset >= getAvailBufSize(rcvBuf) \/ Taken(rcvBuf, offset)
           gap == seqcmp(m.seq, incseq(rcvCurrSeqNo)) > 0
           nak == Nak(incseq(rcvCurrSeqNo), decseq(m.seq))
       IN  /\ rcvBuf' = IF offset < 0 \/ offset >= getAvailBufSize(rcvBuf) THEN rcvBuf
                        ELSE addData(rcvBuf, m.pkt, offset)
           /\ \E n \in Taking(m) : net' \in IF ~drop /\ gap THEN Carry(n, nak) ELSE {n}
           /\ rcvCurrSeqNo' = IF ~drop /\ seqcmp(m.seq, rcvCurrSeqNo) > 0
                              THEN m.seq ELSE rcvCurrSeqNo
           /\ rcvLoss' = IF drop THEN rcvLoss
                         ELSE IF gap THEN rcvLoss \cup SeqRange(nak.from, nak.to)
                         ELSE rcvLoss \ {m.seq}
    /\ UNCHANGED <<sndVars, rcvLastAck, rcvLastAckAck, ackWindow, reading,
                   delivered>>

\* What sendCtrl(2) acknowledges: everything before the first loss.
AckPoint == IF rcvLoss = {} THEN incseq(rcvCurrSeqNo) ELSE FirstSeq(rcvLoss)

\* The number of the next ACK, m_iAckSeqNo + 1: of the 2^31 numbers one that no
\* ACK on the way or in the ACK window bears.
AckSeqNo ==
    LET used == {m.no : m \in {x \in net : x.type \in {"ack", "ack2"}}}
                    \cup {ackWindow[i].no : i \in DOMAIN ackWindow}
    IN  CHOOSE n \in 0..(NetCap + AckWinSize) :
            n \notin used /\ \A k \in 0..(n - 1) : k \in used

\* CACKWindow::store.
Store(no, ack) ==
    LET all == Append(ackWindow, [no |-> no, ack |-> ack])
    IN  IF Len(all) < AckWinSize THEN all ELSE Tail(all)

\* Mutant: no minimum.
Window_NoMinimum(b) == getAvailBufSize(b)

\* The flow window is at least two, even if the buffer is full.
Window(b) == IF getAvailBufSize(b) < 2 THEN 2 ELSE getAvailBufSize(b)

\* Mutant: the ACK goes past a loss.
AckTimer_PastLoss ==
    /\ incseq(rcvCurrSeqNo) # rcvLastAckAck
    /\ rcvLastAck' = incseq(rcvCurrSeqNo)
    /\ rcvBuf' = ackData(rcvBuf, seqoff(rcvLastAck, rcvLastAck'))
    /\ net' \in Carry(net, Ack(AckSeqNo, rcvLastAck', Window(rcvBuf')))
    /\ ackWindow' = Store(AckSeqNo, rcvLastAck')
    /\ UNCHANGED <<sndVars, rcvLastAckAck, rcvCurrSeqNo, rcvLoss, reading, delivered>>

\* The ACK timer.  Nothing is sent when the sender knows (ACK2) or, for the
\* time of a round trip, when it was told.
AckTimer ==
    /\ AckPoint # rcvLastAckAck
    /\ seqcmp(AckPoint, rcvLastAck) >= 0
    /\ rcvLastAck' = AckPoint
    /\ rcvBuf' = ackData(rcvBuf, seqoff(rcvLastAck, AckPoint))
    /\ IF seqcmp(AckPoint, rcvLastAckAck) > 0
       THEN /\ net' \in Carry(net, Ack(AckSeqNo, AckPoint, Window(rcvBuf')))
            /\ ackWindow' = Store(AckSeqNo, AckPoint)
       ELSE UNCHANGED <<net, ackWindow>>
    /\ UNCHANGED <<sndVars, rcvLastAckAck, rcvCurrSeqNo, rcvLoss, reading, delivered>>

\* Between two ACKs, a light one after every 64th packet.
LiteAckTimer ==
    /\ AckPoint # rcvLastAckAck
    /\ net' \in Carry(net, LiteAck(AckPoint))
    /\ UNCHANGED <<sndVars, rcvVars>>

\* CACKWindow::acknowledge: where the ACK with this number is, 0 if it is not
\* (any more) in the window.
acknowledge(no) ==
    LET places == {i \in DOMAIN ackWindow : ackWindow[i].no = no}
    IN  IF places = {} THEN 0 ELSE CHOOSE i \in places : \A j \in places : i <= j

\* The ACK window forgets an ACK that is acknowledged and all before it.  It is
\* not taken note of if it is older than another, or came within a microsecond:
\* a round trip time of 0 is taken for no answer.
RecvAck2(m) ==
    /\ m.type = "ack2"
    /\ net' \in Taking(m)
    /\ LET i == acknowledge(m.no)
       IN  IF i = 0 THEN UNCHANGED <<ackWindow, rcvLastAckAck>>
           ELSE /\ ackWindow' = SubSeq(ackWindow, i + 1, Len(ackWindow))
                /\ \/ UNCHANGED rcvLastAckAck
                   \/ /\ seqcmp(ackWindow[i].ack, rcvLastAckAck) > 0
                      /\ rcvLastAckAck' = ackWindow[i].ack
    /\ UNCHANGED <<sndVars, rcvLastAck, rcvCurrSeqNo, rcvLoss, rcvBuf, reading,
                   delivered>>

\* recvmsg looks for a message (scanMsg) and copies it out (readMsg).  Only the
\* application's threads take m_RecvLock: the worker goes on in between.
RecvmsgScan ==
    /\ reading = NoMsg
    /\ ~Empty(rcvBuf)
    /\ rcvBuf' = Skip(rcvBuf)
    /\ reading' = IF scanMsg(rcvBuf').found THEN scanMsg(rcvBuf') ELSE NoMsg
    /\ UNCHANGED <<net, sndVars, rcvLastAck, rcvLastAckAck, rcvCurrSeqNo, rcvLoss, ackWindow, delivered>>

RecvmsgRead ==
    /\ reading # NoMsg
    /\ rcvBuf' = AfterRead(rcvBuf, reading)
    /\ delivered' = IF MsgLen(reading) = 0 THEN delivered
                    ELSE Append(delivered, ReadOut(rcvBuf, reading))
    /\ reading' = NoMsg
    /\ UNCHANGED <<net, sndVars, rcvLastAck, rcvLastAckAck, rcvCurrSeqNo, rcvLoss, ackWindow>>

-----------------------------------------------------------------------------
Lose == \E m \in net : net' = net \ {m} /\ UNCHANGED <<sndVars, rcvVars>>

SenderStep == Sendmsg \/ PopLost \/ PackLost \/ PackNew \/ PackNothing \/ UpdateSndList

Timer == ExpTimer \/ RecvKeepAlive \/ GiveUp \/ AckTimer \/ LiteAckTimer

Receives(m) ==
    RecvLiteAck(m) \/ RecvAck(m) \/ RecvNak(m) \/ RecvData(m) \/ RecvAck2(m)

Next ==
    \/ SenderStep
    \/ Timer
    \/ \E m \in net : Receives(m)
    \/ RecvmsgScan
    \/ RecvmsgRead
    \/ Lose

Spec == Init /\ [][Next]_vars

\* The two applications and the workers go on, and a packet that is sent again
\* and again arrives again and again (the network is fair-lossy).
SndWorker == PopLost \/ PackLost \/ PackNew \/ PackNothing

SendsData(seq) == \/ PackNew /\ incseq(sndCurrSeqNo) = seq
                  \/ PackLost /\ popping = seq
SendsAck(ack) == AckTimer /\ AckPoint = ack
DataArrives(seq) == \E m \in net : m.type = "data" /\ m.seq = seq /\ RecvData(m)
AckArrives(ack) == \E m \in net : m.type = "ack" /\ m.ack = ack /\ RecvAck(m)

\* What is sent, packet by packet, and the numbers that takes.
StreamOf[n \in 0..Len(Msgs)] == IF n = 0 THEN <<>> ELSE StreamOf[n - 1] \o Packets(n)
Stream == StreamOf[Len(Msgs)]
Used == {(ISN + i) % (MaxSeqNo + 1) : i \in 0..(Len(Stream) - 1)}

Fairness ==
    /\ WF_vars(Sendmsg) /\ WF_vars(RecvmsgScan \/ RecvmsgRead)
    /\ WF_vars(SndWorker) /\ WF_vars(UpdateSndList)
    /\ WF_vars(ExpTimer \/ GiveUp) /\ WF_vars(AckTimer)
    /\ \A seq \in Used :
          /\ []<><<SendsData(seq)>>_vars => []<><<DataArrives(seq)>>_vars
          /\ []<><<SendsAck(incseq(seq))>>_vars => []<><<AckArrives(incseq(seq))>>_vars

FairSpec == Spec /\ Fairness

-----------------------------------------------------------------------------
(* Properties.                                                             *)

Control == [type : {"liteack"}, ack : SeqNo]
              \cup [type : {"ack"}, no : Nat, ack : SeqNo, window : Nat]
              \cup [type : {"ack2"}, no : Nat]
              \cup [type : {"nak"}, from : SeqNo, to : SeqNo]

\* The packet that has sequence number seq.
PacketOf(seq) == Stream[seqoff(ISN, seq) + 1]

\* The state of the two ends has the types of their C++ members.
TypeOK ==
    /\ \A m \in net : m.type = "data" \/ m \in Control
    /\ sent \in 0..Len(Msgs)
    /\ currBlock \in 0..Len(sndBuf) /\ Len(sndBuf) <= SndBufSize
    /\ sndLastAck \in SeqNo /\ sndLastDataAck \in SeqNo /\ sndCurrSeqNo \in SeqNo \cup {-1}
    /\ flowWindow \in Nat
    /\ sndLoss \subseteq SeqNo /\ popping \in SeqNo \cup {NoSeq}
    /\ onSndList \in BOOLEAN /\ updating \in BOOLEAN
    /\ expCount \in 1..(MaxExp + 1) /\ broken \in {"no", "peer", "bug"}
    /\ rcvLastAck \in SeqNo /\ rcvLastAckAck \in SeqNo /\ rcvCurrSeqNo \in SeqNo \cup {-1}
    /\ rcvLoss \subseteq SeqNo
    /\ rcvBuf.start \in Slot /\ rcvBuf.lastAck \in Slot /\ rcvBuf.maxPos \in Slot
    /\ Len(ackWindow) < AckWinSize

\* A packet that is sent again under its sequence number (packData, from the
\* block at the distance of m_iSndLastDataAck) is the packet that was sent
\* under it first, whatever ACK comes in between.
SameSeqSamePacket == \A m \in net : m.type = "data" => m.pkt = PacketOf(m.seq)

\* Neither end ever takes the other for an attacker: an ACK or a loss report of
\* what was never sent ("this should not happen: attack or bug").
NeverBroken == broken # "bug"

\* The blocks the sender lets go of (CSndBuffer::ackData) are acknowledged in
\* the receiver's buffer, whole, or were returned by recvmsg: what flush waits
\* for, an empty sending buffer, means that the peer has everything.
NothingLost ==
    \A no \in 1..sent : \A k \in 1..Msgs[no].pkts :
       \/ \E i \in DOMAIN sndBuf : sndBuf[i].no = no /\ sndBuf[i].k = k
       \/ \E i \in DOMAIN delivered : \E j \in DOMAIN delivered[i] :
             delivered[i][j] = [no |-> no, k |-> k]
       \/ \E i \in 0..(getRcvDataSize(rcvBuf) - 1) :
             LET u == rcvBuf.unit[At(rcvBuf, i)] IN u.no = no /\ u.k = k /\ u.flag = 1

\* The receiver's loss list is exact: between what is acknowledged and the
\* largest number received, it holds the numbers whose slot is empty.
LossListExact ==
    /\ \A s \in rcvLoss : seqoff(rcvLastAck, s) >= 0 /\ seqoff(s, rcvCurrSeqNo) > 0
    /\ \A i \in 0..seqoff(rcvLastAck, rcvCurrSeqNo) :
          (rcvLastAck + i) % (MaxSeqNo + 1) \in rcvLoss <=> ~Taken(rcvBuf, i)

\* What is to be sent again is in the sending buffer and was sent before: the
\* loss list never asks packData for a block that is gone or that is new.
LossHeld ==
    /\ seqoff(sndLastDataAck, incseq(sndCurrSeqNo)) = currBlock
    /\ \A s \in sndLoss : seqoff(sndLastDataAck, s) \in 0..(currBlock - 1)

\* The receiver stops repeating an ACK (m_iRcvLastAckAck) only when the sender
\* has processed one that says as much, and the sender never runs ahead of the
\* receiver.
AckKnown ==
    /\ seqoff(rcvLastAckAck, sndLastDataAck) >= 0
    /\ seqoff(sndLastDataAck, rcvLastAck) >= 0
    /\ seqoff(sndLastDataAck, sndLastAck) >= 0
    /\ seqoff(sndLastAck, AckPoint) >= 0

\* Both ends together are a channel of messages: whole, at most once, and one
\* that is to be in order never before an earlier one.
Channel == INSTANCE UdtChannel WITH received <- delivered
Implements == Channel!Spec

\* Every message that was sent is received, however many packets and ACKs are
\* lost, unless the sender takes its peer for dead: the expiration timer finds
\* every loss, and a full buffer (its window of two) stops nothing for good.
EventuallyReceived ==
    \A i \in 1..Len(Msgs) : sent >= i ~> Len(delivered) >= i \/ broken = "peer"

\* The two ends agree on what is between them: a sequence number stands for one
\* packet in every copy of it that is under way, what is to be sent again is
\* still held, and the checks against an impossible ACK (processCtrl sets
\* m_bBroken, "this should not happen") never fire; the receiver's loss list is
\* exact, and neither end takes for acknowledged what the other does not.
Consistent ==
    TypeOK /\ SameSeqSamePacket /\ LossHeld /\ NeverBroken /\ LossListExact /\ AckKnown
=============================================================================
