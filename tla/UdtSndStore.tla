----------------------------- MODULE UdtSndStore -----------------------------
(***************************************************************************)
(* What the sending buffer of UDT promises, and UdtTransfer relies on: a   *)
(* queue of packets, of which the first currBlock have been read for       *)
(* sending; a packet is named by its sequence number.                      *)
(***************************************************************************)
EXTENDS UdtSeq, SequencesExt

VARIABLES sndBuf,      \* the packets that are not acknowledged
          currBlock    \* how many of them were read

vars == <<sndBuf, currBlock>>

Init == sndBuf = <<>> /\ currBlock = 0

\* A message is put behind the others, all of its packets at once.
Add ==
    /\ IsStrictPrefix(sndBuf, sndBuf')
    /\ \A i \in 2..Len(sndBuf') : sndBuf'[i] = incseq(sndBuf'[i - 1])
    /\ UNCHANGED currBlock

\* The next packet is read for the first time.
Read == currBlock < Len(sndBuf) /\ currBlock' = currBlock + 1 /\ UNCHANGED sndBuf

\* Packets that were read are acknowledged.
Ack == \E k \in 1..currBlock :
           sndBuf' = SubSeq(sndBuf, k + 1, Len(sndBuf)) /\ currBlock' = currBlock - k

Next == Add \/ Read \/ Ack
Spec == Init /\ [][Next]_vars
=============================================================================
