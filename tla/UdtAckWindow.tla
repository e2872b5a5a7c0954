---------------------------- MODULE UdtAckWindow -----------------------------
(***************************************************************************)
(* The history of ACKs (class CACKWindow, udt-sys/udt/window.cpp), slot by *)
(* slot: a ring in which the oldest ACK is overwritten, and which starts   *)
(* over at slot 0 when it becomes empty.  The receiving worker alone uses  *)
(* it: sendCtrl(2) stores, processCtrl acknowledges.  The round trip time  *)
(* that acknowledge measures is left out.                                  *)
(***************************************************************************)
EXTENDS Integers, Sequences

CONSTANTS WinSize,      \* m_iSize, 1024
          MaxAckNo      \* CAckNo::m_iMaxAckSeqNo, 2^31 - 1

VARIABLES ackSeqNo, ackOf,      \* m_piACKSeqNo, m_piACK
          head, tail,           \* m_iHead, m_iTail
          lastNo,               \* m_iAckSeqNo of the socket
          found                 \* what acknowledge returned in ack, or NoAck

vars == <<ackSeqNo, ackOf, head, tail, lastNo, found>>

Slot == 0..(WinSize - 1)
NoAck == -1

Init ==
    /\ ackSeqNo = [i \in Slot |-> IF i = 0 THEN -1 ELSE 0] /\ ackOf = [i \in Slot |-> 0]
    /\ head = 0 /\ tail = 0
    /\ lastNo = 0 /\ found = NoAck

incack(no) == IF no = MaxAckNo THEN 0 ELSE no + 1

store(ack) ==
    /\ lastNo' = incack(lastNo)
    /\ ackSeqNo' = [ackSeqNo EXCEPT ![head] = lastNo'] /\ ackOf' = [ackOf EXCEPT ![head] = ack]
    /\ head' = (head + 1) % WinSize
    /\ tail' = IF head' = tail THEN (tail + 1) % WinSize ELSE tail
    /\ found' = NoAck

\* The slots in use, in the order of the search: up to head, or around the end.
Searched == IF head >= tail THEN tail..(head - 1) ELSE tail..(head + WinSize - 1)
Holding(no) == {j \in Searched : ackSeqNo[j % WinSize] = no}

\* A ring that ends in one piece and becomes empty starts over at slot 0.  One that
\* goes around the end does so only if the slot is head, which it never is.
StartsOver(j) == IF head >= tail THEN j + 1 = head ELSE j % WinSize = head

acknowledge(no) ==
    /\ Holding(no) # {}
    /\ LET j == CHOOSE i \in Holding(no) : \A k \in Holding(no) : i <= k
       IN  /\ found' = ackOf[j % WinSize]
           /\ IF StartsOver(j)
              THEN tail' = 0 /\ head' = 0 /\ ackSeqNo' = [ackSeqNo EXCEPT ![0] = -1]
              ELSE tail' = (j + 1) % WinSize /\ UNCHANGED <<head, ackSeqNo>>
    /\ UNCHANGED <<ackOf, lastNo>>

\* The ACK has been overwritten, or was acknowledged before.
Unknown(no) ==
    /\ Holding(no) = {} /\ found' = NoAck
    /\ UNCHANGED <<ackSeqNo, ackOf, head, tail, lastNo>>

Next ==
    \/ \E ack \in {0, 1} : store(ack)
    \/ \E no \in 0..MaxAckNo : acknowledge(no) \/ Unknown(no)

Spec == Init /\ [][Next]_vars

-----------------------------------------------------------------------------
(* Properties.                                                             *)

\* The ring holds the ACKs from tail to head.
InUse == (head - tail + WinSize) % WinSize
Entry(i) == LET j == (tail + i - 1) % WinSize IN [no |-> ackSeqNo[j], ack |-> ackOf[j]]

\* However the ring turns, starts over or overwrites: an ACK2 is looked up among
\* the last ACKs and no others, and drops the older ones (CACKWindow).
Log == INSTANCE UdtAckLog WITH acks <- [i \in 1..InUse |-> Entry(i)], answer <- found
ImplementsLog == Log!Spec

\* The numbers in the ring follow on each other and end with the last one sent, so
\* that no ACK2 can find an ACK other than its own (store, incack).
NumbersFollow ==
    /\ head \in Slot /\ tail \in Slot
    /\ \A i \in 1..(InUse - 1) : Entry(i + 1).no = incack(Entry(i).no)
    /\ InUse > 0 => Entry(InUse).no = lastNo
=============================================================================
