----------------------------- MODULE UdtLossSet -----------------------------
(***************************************************************************)
(* What the two loss lists of UDT promise (udt-sys/udt/list.h): a set of   *)
(* sequence numbers that lie within Span of each other, with the result of *)
(* the last call.                                                          *)
(***************************************************************************)
EXTENDS UdtSeq, FiniteSets

VARIABLES loss,      \* the numbers in the list
          call,      \* the last call, <<name, arguments>>
          ret        \* what it returned

vars == <<loss, call, ret>>

Init == loss = {} /\ call = <<>> /\ ret = 0

\* insert: how many numbers were not in the list before.
Insert(seq1, seq2) ==
    /\ call' = <<"insert", seq1, seq2>>
    /\ loss' = loss \cup SeqRange(seq1, seq2)
    /\ ret' = Cardinality(loss') - Cardinality(loss)

\* remove of the sender's list: all the numbers that are not greater.
RemoveUpTo(seq) ==
    /\ call' = <<"removeUpTo", seq>>
    /\ loss' = {s \in loss : seqcmp(s, seq) > 0}
    /\ ret' = 0

\* remove of the receiver's list: one number, and whether it was there.
Remove(seq) ==
    /\ call' = <<"remove", seq>>
    /\ loss' = loss \ {seq}
    /\ ret' = IF seq \in loss THEN 1 ELSE 0

\* remove of a range: "all packets between seqno1 and seqno2" (list.h).
RemoveRange(seq1, seq2) ==
    /\ call' = <<"removeRange", seq1, seq2>>
    /\ loss' = loss \ SeqRange(seq1, seq2)
    /\ ret' = 1

\* getLostSeq: takes the first number, -1 if there is none.
GetLostSeq ==
    /\ call' = <<"getLostSeq">>
    /\ IF loss = {} THEN loss' = loss /\ ret' = -1
       ELSE loss' = loss \ {FirstSeq(loss)} /\ ret' = FirstSeq(loss)

Next ==
    \/ \E seq1, seq2 \in SeqNo : Insert(seq1, seq2) \/ RemoveRange(seq1, seq2)
    \/ \E seq \in SeqNo : RemoveUpTo(seq) \/ Remove(seq)
    \/ GetLostSeq

Spec == Init /\ [][Next]_vars
=============================================================================
