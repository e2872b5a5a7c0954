------------------------------ MODULE UdtAckLog ------------------------------
(***************************************************************************)
(* What the history of ACKs promises, and UdtTransfer relies on: the last  *)
(* WinSize - 1 ACKs that were sent, of which an ACK2 drops its own and all *)
(* before it.                                                              *)
(***************************************************************************)
EXTENDS Integers, SequencesExt

CONSTANTS WinSize, NoAck

VARIABLES acks,      \* the ACKs with what they acknowledged, the oldest first
          answer     \* what the last ACK2 is found to stand for

vars == <<acks, answer>>

Init == acks = <<>> /\ answer = NoAck

\* An ACK is sent; the oldest gives way.
Sent ==
    /\ acks' # <<>> /\ answer' = NoAck
    /\ LET all == Append(acks, Last(acks'))
       IN  acks' = IF Len(all) < WinSize THEN all ELSE Tail(all)

\* An ACK2 comes for one of them ...
Found == \E i \in DOMAIN acks :
    /\ acks' = SubSeq(acks, i + 1, Len(acks))
    /\ answer' = acks[i].ack

\* ... or for one that is gone.
Gone == UNCHANGED acks /\ answer' = NoAck

Next == Sent \/ Found \/ Gone
Spec == Init /\ [][Next]_vars
=============================================================================
