---------------------------- MODULE UdtRcvBuffer ----------------------------
(***************************************************************************)
(* The receiver's buffer (class CRcvBuffer, udt-sys/udt/buffer.cpp): a     *)
(* ring of RcvBufSize slots.  [start, lastAck) holds what was acknowledged *)
(* and not read, and up to maxPos slots from lastAck on may hold what was  *)
(* received beyond it, with holes.                                         *)
(***************************************************************************)
EXTENDS Integers, Sequences

CONSTANT RcvBufSize

ASSUME RcvBufAssumption == RcvBufSize \in Nat \ {0, 1}

Slot == 0..(RcvBufSize - 1)

\* The packets of a message: no is its number, k its place in it; bnd are the
\* two boundary bits (2 first, 1 last, 3 both); order the in-order bit.
\* flag of the unit in a slot: 0 the slot is NULL, 1 received, 2 read.
EmptySlot == [no |-> 0, k |-> 0, bnd |-> 0, order |-> FALSE, flag |-> 0]

InitRcvBuffer ==
    [unit |-> [i \in Slot |-> EmptySlot], start |-> 0, lastAck |-> 0, maxPos |-> 0]

getRcvDataSize(b) == (b.lastAck - b.start + RcvBufSize) % RcvBufSize

\* One slot stays empty, to tell an empty buffer from a full one.
getAvailBufSize(b) == RcvBufSize - getRcvDataSize(b) - 1

At(b, i) == (b.start + i) % RcvBufSize

\* addData fails (returns -1) when the slot is taken.
AckedSlot(b, offset) == (b.lastAck + offset) % RcvBufSize
Taken(b, offset) == b.unit[AckedSlot(b, offset)].flag # 0

addData(b, pkt, offset) ==
    LET max == IF offset > b.maxPos THEN offset ELSE b.maxPos
        new == [no |-> pkt.no, k |-> pkt.k, bnd |-> pkt.bnd, order |-> pkt.order, flag |-> 1]
    IN  IF Taken(b, offset) THEN [b EXCEPT !.maxPos = max]
        ELSE [b EXCEPT !.maxPos = max, !.unit[AckedSlot(b, offset)] = new]

ackData(b, len) ==
    [b EXCEPT !.lastAck = (b.lastAck + len) % RcvBufSize,
              !.maxPos = IF b.maxPos < len THEN 0 ELSE b.maxPos - len]

\* scanMsg, the first loop: a slot from which reading may start holds the
\* first packet of a message that has no hole up to its end or, if that is
\* not acknowledged yet, up to lastAck.
Good(b, i) ==
    /\ b.unit[At(b, i)].flag = 1
    /\ b.unit[At(b, i)].bnd > 1
    /\ \E e \in i..(getRcvDataSize(b) - 1) :
          /\ \A j \in i..e : b.unit[At(b, j)].flag = 1
          /\ e = getRcvDataSize(b) - 1 \/ b.unit[At(b, e)].bnd \in {1, 3}

\* Everything before the first such slot is given up.
Skip(b) ==
    LET size == getRcvDataSize(b)
        n == CHOOSE i \in 0..size :
               /\ i = size \/ Good(b, i)
               /\ \A j \in 0..(i - 1) : ~Good(b, j)
    IN  [b EXCEPT !.start = At(b, n),
                  !.unit = [s \in Slot |-> IF \E j \in 0..(n - 1) : s = At(b, j)
                                           THEN EmptySlot ELSE b.unit[s]]]

\* The second loop, over the slots i = 0..n from start: Head(b, i) is where the
\* message that covers slot i without a hole begins, -1 if there is none.
MsgHead(b, i) ==
    LET heads == {h \in 0..i : /\ b.unit[At(b, h)].bnd \in {2, 3}
                               /\ \A j \in h..i : b.unit[At(b, j)].flag = 1}
    IN  IF heads = {} THEN -1 ELSE CHOOSE h \in heads : \A g \in heads : g <= h

PassAck(b, i) == i >= getRcvDataSize(b)

\* The message that ends in slot i may be read: it is acknowledged, or the
\* sender allows it to be read out of order.
Readable(b, i) ==
    /\ b.unit[At(b, i)].flag = 1
    /\ b.unit[At(b, i)].bnd \in {1, 3}
    /\ MsgHead(b, i) # -1
    /\ ~PassAck(b, i) \/ ~b.unit[At(b, i)].order

LastSlot(b) == b.maxPos + getRcvDataSize(b)

Empty(b) == b.start = b.lastAck /\ b.maxPos = 0

\* The buffer is full of one message whose end is not there.
Overlong(b) ==
    LET p == MsgHead(b, LastSlot(b)) IN p # -1 /\ (LastSlot(b) + 2) % RcvBufSize = p

\* scanMsg: the first (p) and the last (q) slot of the message to read next, in
\* a buffer that was not empty and that Skip has been applied to.
scanMsg(b) ==
    LET ends == {i \in 0..LastSlot(b) : Readable(b, i)}
        q == CHOOSE i \in ends : \A j \in ends : i <= j
    IN  IF ends # {}
        THEN [found |-> TRUE, p |-> MsgHead(b, q), q |-> q, passack |-> PassAck(b, q)]
        ELSE [found |-> Overlong(b), p |-> MsgHead(b, LastSlot(b)), q |-> LastSlot(b) + 1,
              passack |-> TRUE]

\* readMsg: the slots from p on, up to and without the one after q; what is
\* read of them, and the buffer after it.
MsgLen(m) == (m.q + 1 - m.p) % RcvBufSize

ReadOut(b, m) == [i \in 1..MsgLen(m) |->
                     LET u == b.unit[At(b, m.p + i - 1)] IN [no |-> u.no, k |-> u.k]]

\* Mutant: what is read ahead of its turn stays readable.
AfterRead_NotMarked(b, m) ==
    LET read == {At(b, m.p + i - 1) : i \in 1..MsgLen(m)}
    IN  IF m.passack THEN b
        ELSE [b EXCEPT !.unit = [s \in Slot |-> IF s \in read THEN EmptySlot ELSE b.unit[s]],
                       !.start = At(b, m.q + 1)]

AfterRead(b, m) ==
    LET read == {At(b, m.p + i - 1) : i \in 1..MsgLen(m)}
    IN  IF m.passack
        THEN [b EXCEPT !.unit = [s \in Slot |-> IF s \in read
                                                THEN [b.unit[s] EXCEPT !.flag = 2]
                                                ELSE b.unit[s]]]
        ELSE [b EXCEPT !.unit = [s \in Slot |-> IF s \in read THEN EmptySlot ELSE b.unit[s]],
                       !.start = At(b, m.q + 1)]
=============================================================================
