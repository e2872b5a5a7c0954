---------------------------- MODULE UdtLossRing -----------------------------
(***************************************************************************)
(* What the two loss lists of UDT have in common (udt-sys/udt/list.cpp):   *)
(* a ring of Size slots, of which each can hold a run of lost numbers.     *)
(***************************************************************************)
EXTENDS UdtSeq, FiniteSets, TLC

CONSTANTS Size,     \* m_iSize
          Span,     \* how far the numbers in use reach
          ISN,      \* the first sequence number
          MaxRun    \* bound: how many numbers are used

ASSUME ListAssumption == Size \in Nat \ {0} /\ Span \in 1..Size /\ Span < SeqNoTH /\ ISN \in SeqNo
                            /\ MaxRun \in 1..SeqNoTH

InRun(seq) == seqoff(ISN, seq) \in 0..(MaxRun - 1)

Slot == 0..(Size - 1)
Nil == -1

\* A run in a slot that was empty.
Put(l, loc, seq1, seq2) ==
    [l EXCEPT !.data1[loc] = seq1, !.data2[loc] = IF seq2 # seq1 THEN seq2 ELSE @]
=============================================================================
