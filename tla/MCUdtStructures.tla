--------------------------- MODULE MCUdtStructures ---------------------------
(***************************************************************************)
(* The rings of a UDT connection: both loss lists, the sending buffer and  *)
(* the history of ACKs, on a few slots around the wrap of the numbers.     *)
(* They share nothing here, so a step uses one of them while the others    *)
(* are as at first.                                                        *)
(***************************************************************************)
EXTENDS UdtSndLossList

CONSTANTS Unit, MaxUnits, SndBufSize, WinSize, MaxAckNo

VARIABLES rlist, lastAck, curr, rcall, rret,
          link, data, first, cur, last, size, count, app, snd, listed, acked, sentNo, out, added,
          ackSeqNo, ackOf, head, tail, lastNo, found

Rcv == INSTANCE UdtRcvLossList WITH list <- rlist, call <- rcall, ret <- rret
Buf == INSTANCE UdtSndBuffer
Win == INSTANCE UdtAckWindow

rcvVars == <<rlist, lastAck, curr, rcall, rret>>
bufVars == <<link, data, first, cur, last, size, count, app, snd, listed, acked, sentNo, out, added>>
winVars == <<ackSeqNo, ackOf, head, tail, lastNo, found>>
allVars == <<vars, rcvVars, bufVars, winVars>>

StructuresInit == Init /\ Rcv!Init /\ Buf!Init /\ Win!Init

SndLossStep == Rcv!Init /\ Buf!Init /\ Win!Init /\ Next /\ UNCHANGED <<rcvVars, bufVars, winVars>>
RcvLossStep == Init /\ Buf!Init /\ Win!Init /\ Rcv!Next /\ UNCHANGED <<vars, bufVars, winVars>>
BufferStep == Init /\ Rcv!Init /\ Win!Init /\ Buf!Next /\ UNCHANGED <<vars, rcvVars, winVars>>
WindowStep == Init /\ Rcv!Init /\ Buf!Init /\ Win!Next /\ UNCHANGED <<vars, rcvVars, bufVars>>

StructuresNext == SndLossStep \/ RcvLossStep \/ BufferStep \/ WindowStep
StructuresSpec == StructuresInit /\ [][StructuresNext]_allVars

\* What the operations rely on.  The slots of both loss lists are linked as remove
\* and insert need them: nothing is left in a slot that is no node, m_iLastInsertPos
\* names a node of the chain, the receiver's two chains are each other's reverse.
\* The sending buffer is one ring, counted, whose packets are sent under their own
\* numbers.  The numbers of the ACKs in the history follow on each other.
RingsSound ==
    /\ TypeOK /\ NoResidue /\ LastInChain /\ Rcv!ChainsAgree
    /\ Buf!BufferSound
    /\ Win!NumbersFollow

\* The receiver's loss list is a set of sequence numbers, call by call: remove of a
\* range takes out "all packets between seqno1 and seqno2" (list.h).
RcvImplementsSet == Rcv!ImplementsSet

\* The receiver's list but for that call on a range that wraps around, the sending
\* buffer and the history, each as its header says.
RcvImplementsSetButWrap == Rcv!ImplementsSetButWrap
BufImplementsStore == Buf!ImplementsStore
WinImplementsLog == Win!ImplementsLog

\* Call by call, each loss list is a set of sequence numbers (list.h), the
\* receiver's with the one exception that RcvImplementsSet fails on; step by step of
\* three threads, the sending buffer is a queue of packets (CSndBuffer), and the
\* history of ACKs is a sequence of the last ones (CACKWindow).
RingsImplement ==
    ImplementsSet /\ RcvImplementsSetButWrap /\ BufImplementsStore /\ WinImplementsLog
=============================================================================
