------------------------------- MODULE UdtSeq -------------------------------
(***************************************************************************)
(* Sequence numbers of UDT (class CSeqNo, udt-sys/udt/udtCommon.h): they   *)
(* live in 0..MaxSeqNo and wrap around; two of them are compared as if     *)
(* they were at most SeqNoTH apart.                                        *)
(***************************************************************************)
EXTENDS Integers

CONSTANTS
    MaxSeqNo,      \* m_iMaxSeqNo, 2^31 - 1 in the code
    SeqNoTH        \* m_iSeqNoTH, 2^30 - 1 in the code

ASSUME SeqAssumption ==
    /\ MaxSeqNo \in Nat /\ SeqNoTH \in Nat
    /\ SeqNoTH > 0 /\ MaxSeqNo = 2 * SeqNoTH + 1

SeqNo == 0..MaxSeqNo

abs(x) == IF x < 0 THEN -x ELSE x

\* Positive when seq1 is after seq2, negative when before; the size of the
\* result means nothing across the wrap.
seqcmp(seq1, seq2) == IF abs(seq1 - seq2) < SeqNoTH THEN seq1 - seq2 ELSE seq2 - seq1

\* How many numbers there are from seq1 to seq2, both included.
seqlen(seq1, seq2) ==
    IF seq1 <= seq2 THEN seq2 - seq1 + 1 ELSE seq2 - seq1 + MaxSeqNo + 2

\* How far seq2 is ahead of seq1.
seqoff(seq1, seq2) ==
    IF abs(seq1 - seq2) < SeqNoTH THEN seq2 - seq1
    ELSE IF seq1 < seq2 THEN seq2 - seq1 - MaxSeqNo - 1
    ELSE seq2 - seq1 + MaxSeqNo + 1

incseq(seq) == IF seq = MaxSeqNo THEN 0 ELSE seq + 1
decseq(seq) == IF seq = 0 THEN MaxSeqNo ELSE seq - 1

\* The numbers from seq1 to seq2, both included (seq1 is not after seq2).
SeqRange(seq1, seq2) == {(seq1 + i) % (MaxSeqNo + 1) : i \in 0..(seqlen(seq1, seq2) - 1)}

\* The first of a set of numbers that are close to each other.
FirstSeq(S) == CHOOSE s \in S : \A t \in S : seqcmp(s, t) <= 0
=============================================================================
