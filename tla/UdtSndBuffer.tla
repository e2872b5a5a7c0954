----------------------------- MODULE UdtSndBuffer -----------------------------
(***************************************************************************)
(* The sending buffer (class CSndBuffer, udt-sys/udt/buffer.cpp): a ring   *)
(* of linked blocks that grows.  Three threads use it: the application     *)
(* adds messages (sendmsg, under m_SendLock), the sending worker reads     *)
(* packets and sends them (packData and CSndQueue::worker), and the        *)
(* receiving worker lets acknowledged blocks go (processCtrl).  m_BufLock  *)
(* covers the walk of an ACK, of a retransmission and the count, but       *)
(* neither the filling of blocks nor the reading of new ones; and a packet *)
(* that is sent is a pointer into its block.                               *)
(*                                                                         *)
(* A block holds the sequence number of its packet.  Messages have no TTL, *)
(* as in every call of the program, and allocation does not fail.          *)
(***************************************************************************)
EXTENDS UdtSeq, Sequences

CONSTANTS Unit,         \* blocks made at once: 32
          MaxUnits,     \* bound: how often
          SndBufSize,   \* m_iSndBufSize
          ISN           \* the first sequence number

VARIABLES
    link, data,              \* m_pNext and the packet of each block
    first, cur, last,        \* m_pFirstBlock, m_pCurrBlock, m_pLastBlock
    size, count,             \* m_iSize, m_iCount
    app,                     \* where the application is in sendmsg
    snd,                     \* where the sending worker is, its packet and block
    listed,                  \* the socket is on the sending list (CSndUList)
    acked,                   \* m_iSndLastDataAck
    sentNo,                  \* m_iSndCurrSeqNo + 1
    out,                     \* the first number that was never on the network
    added                    \* the number of the next packet that is added

vars == <<link, data, first, cur, last, size, count, app, snd, listed, acked, sentNo, out, added>>

Block == 1..(Unit * MaxUnits)
Empty == -1
Ready == [pc |-> "idle", n |-> 0, at |-> 1, left |-> 0]
Resting == [pc |-> "idle", no |-> Empty, at |-> 1]

\* The constructor: a ring of one unit.
Init ==
    /\ link = [b \in Block |-> IF b < Unit THEN b + 1 ELSE 1]
    /\ data = [b \in Block |-> Empty]
    /\ first = 1 /\ cur = 1 /\ last = 1
    /\ size = Unit /\ count = 0
    /\ app = Ready /\ snd = Resting /\ listed = FALSE
    /\ acked = ISN /\ sentNo = ISN /\ out = ISN /\ added = ISN

\* n times m_pNext.
Walk(b, n) == LET at[i \in 0..n] == IF i = 0 THEN b ELSE link[at[i - 1]] IN at[n]

-----------------------------------------------------------------------------
(* The application: sendmsg and addBuffer.                                 *)

\* A message of n packets for which there is room.
sendmsg(n) ==
    /\ app.pc = "idle" /\ SndBufSize - count >= n
    /\ app' = [pc |-> "add", n |-> n, at |-> last, left |-> n]
    /\ UNCHANGED <<link, data, first, cur, last, size, count, snd, listed, acked, sentNo, out, added>>

\* One block always stays free, so that a full ring is not an empty one.
Crowded == app.n + count >= size

\* A unit more, linked in behind m_pLastBlock.
increase ==
    /\ app.pc = "add" /\ Crowded
    /\ size < Unit * MaxUnits        \* bound
    /\ link' = [b \in Block |->
          IF b = last THEN size + 1
          ELSE IF b \in (size + 1)..(size + Unit - 1) THEN b + 1
          ELSE IF b = size + Unit THEN link[last] ELSE link[b]]
    /\ size' = size + Unit
    /\ UNCHANGED <<data, first, cur, last, count, app, snd, listed, acked, sentNo, out, added>>

\* One block after the other is filled ...
Fill ==
    /\ app.left > 0 /\ (app.pc = "add" => ~Crowded)
    /\ data' = [data EXCEPT ![app.at] = added]
    /\ added' = incseq(added)
    /\ app' = [app EXCEPT !.pc = "fill", !.at = link[app.at], !.left = @ - 1]
    /\ UNCHANGED <<link, first, cur, last, size, count, snd, listed, acked, sentNo, out>>

\* ... before the worker may see them; only then ...
Publish ==
    /\ app.pc = "fill" /\ app.left = 0
    /\ last' = app.at
    /\ app' = [app EXCEPT !.pc = "count"]
    /\ UNCHANGED <<link, data, first, cur, size, count, snd, listed, acked, sentNo, out, added>>

\* ... they are counted, and the socket is put on the list.
Count ==
    /\ app.pc = "count"
    /\ count' = count + app.n /\ listed' = TRUE
    /\ app' = Ready
    /\ UNCHANGED <<link, data, first, cur, last, size, snd, acked, sentNo, out, added>>

-----------------------------------------------------------------------------
(* The sending worker.                                                     *)

\* readData for a new packet, without a lock: there is one ...
ReadNew ==
    /\ snd.pc = "idle" /\ listed /\ cur # last
    /\ snd' = [pc |-> "advance", no |-> sentNo, at |-> cur]
    /\ UNCHANGED <<link, data, first, cur, last, size, count, app, listed, acked, sentNo, out, added>>

\* ... and m_pCurrBlock goes on, and m_iSndCurrSeqNo with it.
Advance ==
    /\ snd.pc = "advance"
    /\ cur' = link[cur] /\ sentNo' = incseq(sentNo)
    /\ snd' = [snd EXCEPT !.pc = "sendto"]
    /\ UNCHANGED <<link, data, first, last, size, count, app, listed, acked, out, added>>

\* readData for a lost packet, under m_AckLock and m_BufLock.
ReadLost(offset) ==
    /\ snd.pc = "idle" /\ listed /\ offset < seqoff(acked, sentNo)
    /\ snd' = [pc |-> "sendto", no |-> (acked + offset) % (MaxSeqNo + 1), at |-> Walk(first, offset)]
    /\ UNCHANGED <<link, data, first, cur, last, size, count, app, listed, acked, sentNo, out, added>>

\* Nothing to send, or a window is full: the socket leaves the list.
ReadNothing ==
    /\ snd.pc = "idle" /\ listed /\ (cur = last \/ sentNo # acked)
    /\ listed' = FALSE
    /\ UNCHANGED <<link, data, first, cur, last, size, count, app, snd, acked, sentNo, out, added>>

\* The packet goes out, as its block is by now.
Sendto ==
    /\ snd.pc = "sendto"
    /\ out' = IF snd.no = out THEN incseq(out) ELSE out
    /\ snd' = Resting
    /\ UNCHANGED <<link, data, first, cur, last, size, count, app, listed, acked, sentNo, added>>

-----------------------------------------------------------------------------
(* The receiving worker.                                                   *)

\* An ACK of k packets that were on the network: ackData, under both locks.
ackData(k) ==
    /\ k <= seqoff(acked, out)
    /\ first' = Walk(first, k) /\ count' = count - k /\ listed' = TRUE
    /\ acked' = (acked + k) % (MaxSeqNo + 1)
    /\ UNCHANGED <<link, data, cur, last, size, app, snd, sentNo, out, added>>

\* A NAK, or the expiration timer, of what is in flight.
Relist ==
    /\ sentNo # acked /\ ~listed /\ listed' = TRUE
    /\ UNCHANGED <<link, data, first, cur, last, size, count, app, snd, acked, sentNo, out, added>>

-----------------------------------------------------------------------------
Next ==
    \/ \E n \in 1..SndBufSize : sendmsg(n) \/ ackData(n)
    \/ increase \/ Fill \/ Publish \/ Count
    \/ ReadNew \/ Advance \/ ReadNothing \/ Sendto \/ Relist
    \/ \E offset \in 0..(SndBufSize - 1) : ReadLost(offset)

Spec == Init /\ [][Next]_vars

-----------------------------------------------------------------------------
(* Properties.                                                             *)

\* How far it is from one block to another.
Distance(a, b) == CHOOSE n \in 0..(size - 1) : Walk(a, n) = b

\* The packets from m_pFirstBlock to m_pLastBlock.
Contents == [i \in 1..Distance(first, last) |-> data[Walk(first, i - 1)]]

\* Every variable has its type.
TypeOK ==
    /\ link \in [Block -> Block] /\ data \in [Block -> SeqNo \cup {Empty}]
    /\ {first, cur, last, app.at, snd.at} \subseteq Block
    /\ size \in Unit..(Unit * MaxUnits) /\ count \in -SndBufSize..SndBufSize
    /\ app.pc \in {"idle", "add", "fill", "count"} /\ snd.pc \in {"idle", "advance", "sendto"}
    /\ {acked, sentNo, out, added} \subseteq SeqNo /\ listed \in BOOLEAN

\* The blocks are one ring of m_iSize, however it grew, and m_iCount is the number
\* that is used, but for a message that the worker can see and that is not counted
\* yet (addBuffer sets m_pLastBlock before it takes m_BufLock).
RingExact ==
    /\ {Walk(first, i) : i \in 0..(size - 1)} = 1..size
    /\ count = Len(Contents) - (IF app.pc = "count" THEN app.n ELSE 0)

\* What is sent under a number is the packet of that number, unless it has been
\* acknowledged meanwhile and the receiver will not look at it: the application
\* may be filling its block anew while the worker sends it (packData returns a
\* pointer into the block, and m_AckLock is released by then).
PayloadOwn == snd.pc = "sendto" => data[snd.at] = snd.no \/ seqcmp(snd.no, acked) < 0

BufferSound == TypeOK /\ RingExact /\ PayloadOwn

\* The buffer is a queue of packets, however the threads interleave.
Store == INSTANCE UdtSndStore WITH sndBuf <- Contents, currBlock <- Distance(first, cur)
ImplementsStore == Store!Spec
=============================================================================
