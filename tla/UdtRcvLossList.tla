--------------------------- MODULE UdtRcvLossList ---------------------------
(***************************************************************************)
(* The receiver's loss list (class CRcvLossList, udt-sys/udt/list.cpp): a  *)
(* doubly linked chain of runs in a ring of Size slots, each run in the    *)
(* slot at the distance of its first number from the head's.  Its caller   *)
(* is the receiving worker alone: a gap is inserted behind everything in   *)
(* the list, a packet that arrives late is removed.                        *)
(***************************************************************************)
EXTENDS UdtLossRing

VARIABLES list,     \* the CRcvLossList
          lastAck,  \* m_iRcvLastAck
          curr,     \* m_iRcvCurrSeqNo + 1
          call, ret \* the last call and its result

vars == <<list, lastAck, curr, call, ret>>

EmptyList == [data1 |-> [i \in Slot |-> -1], data2 |-> [i \in Slot |-> -1],
              next |-> [i \in Slot |-> Nil], prior |-> [i \in Slot |-> Nil],
              head |-> Nil, tail |-> Nil, length |-> 0]

insert(l, seq1, seq2) ==
    LET len == seqlen(seq1, seq2)
        loc == (l.head + seqoff(l.data1[l.head], seq1)) % Size
    IN  IF l.length = 0
        THEN [Put(l, 0, seq1, seq2) EXCEPT !.head = 0, !.tail = 0, !.next[0] = Nil,
                                           !.prior[0] = Nil, !.length = len]
        ELSE IF l.data2[l.tail] # -1 /\ incseq(l.data2[l.tail]) = seq1
        THEN [l EXCEPT !.data2[l.tail] = seq2, !.length = @ + len]
        ELSE [Put(l, loc, seq1, seq2) EXCEPT
                 !.next = [@ EXCEPT ![l.tail] = loc, ![loc] = Nil], !.prior[loc] = l.tail,
                 !.tail = loc, !.length = @ + len]

\* Mutant: the tail stays on a slot that has left the chain.
Unlink_KeepsTail(l, loc) ==
    LET p == l.prior[loc]
        n == l.next[loc]
    IN  [l EXCEPT !.head = IF @ = loc THEN n ELSE @,
                  !.next = [i \in Slot |-> IF l.head # loc /\ i = p THEN n ELSE @[i]],
                  !.prior = [i \in Slot |-> IF i = n THEN (IF l.head = loc THEN Nil ELSE p) ELSE @[i]],
                  !.data1[loc] = -1]

\* Slot loc is taken out of the chain.
Unlink(l, loc) ==
    LET p == l.prior[loc]
        n == l.next[loc]
    IN  [l EXCEPT !.head = IF @ = loc THEN n ELSE @,
                  !.next = [i \in Slot |-> IF l.head # loc /\ i = p THEN n ELSE @[i]],
                  !.prior = [i \in Slot |-> IF i = n THEN (IF l.head = loc THEN Nil ELSE p) ELSE @[i]],
                  !.tail = IF l.head # loc /\ n = Nil THEN p ELSE @,
                  !.data1[loc] = -1]

\* The run in slot loc loses its first number and moves to the next slot.
Shift(l, loc) ==
    LET i == (loc + 1) % Size
        moved == Put(l, i, incseq(l.data1[loc]), l.data2[loc])
    IN  [moved EXCEPT !.data1[loc] = -1, !.data2[loc] = -1,
                      !.head = IF @ = loc THEN i ELSE @,
                      !.tail = IF @ = loc THEN i ELSE @,
                      !.next = [j \in Slot |-> IF j = i THEN l.next[loc]
                                               ELSE IF l.head # loc /\ j = l.prior[loc] THEN i ELSE @[j]],
                      !.prior = [j \in Slot |-> IF j = i THEN l.prior[loc]
                                                ELSE IF l.tail # loc /\ j = l.next[loc] THEN i ELSE @[j]]]

\* The run of slot i ends before seq.
CutEnd(l, i, seq) ==
    [l EXCEPT !.data2[i] = IF seq = incseq(l.data1[i]) THEN -1 ELSE decseq(seq)]

\* The run of slot i loses a number in its middle; what is after it goes to
\* the slot after seq's.
Split(l, i, loc, seq) ==
    LET after == (loc + 1) % Size
        cut == CutEnd(Put(l, after, incseq(seq), l.data2[i]), i, seq)
    IN  [cut EXCEPT !.next = [@ EXCEPT ![after] = l.next[i], ![i] = after],
                    !.prior = [j \in Slot |-> IF j = after THEN i
                                              ELSE IF l.tail # i /\ j = l.next[i] THEN after ELSE @[j]],
                    !.tail = IF @ = i THEN after ELSE @]

\* The nearest slot before loc that is not empty.
RECURSIVE Before(_, _)
Before(l, loc) ==
    LET i == (loc - 1 + Size) % Size IN IF l.data1[i] = -1 THEN Before(l, i) ELSE i

\* What remove makes of a list in which seq is not before the head.
Removed(l, seq) ==
    LET loc == (l.head + seqoff(l.data1[l.head], seq)) % Size
        i == Before(l, loc)
        less(m) == [m EXCEPT !.length = @ - 1]
    IN  IF seq = l.data1[loc]
        THEN less(IF l.data2[loc] = -1 THEN Unlink(l, loc) ELSE Shift(l, loc))
        ELSE IF l.data2[i] = -1 \/ seqcmp(seq, l.data2[i]) > 0 THEN l
        ELSE less(IF seq = l.data2[i] THEN CutEnd(l, i, seq) ELSE Split(l, i, loc, seq))

remove(l, seq) ==
    IF l.length = 0 \/ seqoff(l.data1[l.head], seq) < 0 THEN l ELSE Removed(l, seq)

\* remove of a range, as it is written: up to the largest number but without
\* it when the range wraps around.
RECURSIVE RemoveEach(_, _, _)
RemoveEach(l, from, to) == IF from > to THEN l ELSE RemoveEach(remove(l, from), from + 1, to)

removeRange(l, seq1, seq2) ==
    IF seq1 <= seq2 THEN RemoveEach(l, seq1, seq2)
    ELSE RemoveEach(RemoveEach(l, seq1, MaxSeqNo - 1), 0, seq2)

-----------------------------------------------------------------------------
Init == list = EmptyList /\ lastAck = ISN /\ curr = ISN /\ call = <<>> /\ ret = 0

Ahead == seqoff(lastAck, curr)
Numbered(n) == {(lastAck + i) % (MaxSeqNo + 1) : i \in 0..(n - 1)}

\* A packet behind all received so far: the ones between are lost.
Arrive(seq) ==
    /\ seqoff(curr, seq) >= 0 /\ InRun(seq)
    /\ curr' = incseq(seq)
    /\ IF seq = curr THEN UNCHANGED <<list, call, ret>>
       ELSE /\ list' = insert(list, curr, decseq(seq))
            /\ call' = <<"insert", curr, decseq(seq)>>
            /\ ret' = list'.length - list.length
    /\ UNCHANGED lastAck

\* A packet that was lost, or that a drop request has taken off the list.
ArriveLate(seq) ==
    /\ list' = remove(list, seq)
    /\ call' = <<"remove", seq>>
    /\ ret' = list.length - list'.length
    /\ UNCHANGED <<lastAck, curr>>

\* The ACK goes up to the first loss, getFirstLostSeq.
Ack ==
    /\ lastAck' = IF list.length = 0 THEN curr ELSE list.data1[list.head]
    /\ UNCHANGED <<list, curr, call, ret>>

\* The message drop request (processCtrl, 111), which also moves forward over a
\* message that has not arrived to its end.
DropMsg(seq1, seq2) ==
    /\ seqoff(seq1, seq2) >= 0 /\ InRun(seq2)
    /\ list' = removeRange(list, seq1, seq2)
    /\ call' = <<"removeRange", seq1, seq2>>
    /\ ret' = 1
    /\ curr' = IF seqcmp(seq1, curr) <= 0 /\ seqcmp(seq2, decseq(curr)) > 0 THEN incseq(seq2) ELSE curr
    /\ UNCHANGED lastAck

Next ==
    \/ \E seq \in Numbered(Span) : Arrive(seq)
    \/ \E seq \in Numbered(Ahead) : ArriveLate(seq)
    \/ Ack
    \/ \E seq1, seq2 \in Numbered(Span) : DropMsg(seq1, seq2)

Spec == Init /\ [][Next]_vars

-----------------------------------------------------------------------------
\* The slots of the chain, from the head on and from the tail back.
RECURSIVE Follow(_, _)
Follow(link, i) == IF i = Nil THEN {} ELSE {i} \cup Follow(link, link[i])
Chain(l) == IF l.length = 0 THEN {} ELSE Follow(l.next, l.head)
BackChain(l) == IF l.length = 0 THEN {} ELSE Follow(l.prior, l.tail)

Numbers(l) ==
    UNION {IF l.data2[i] = -1 THEN {l.data1[i]} ELSE SeqRange(l.data1[i], l.data2[i]) : i \in Chain(l)}

\* The list is what list.h says of it, call by call, and its length is right.
Set == INSTANCE UdtLossSet WITH loss <- Numbers(list)
ImplementsSet == Set!Spec

\* The one call of which list.h is not true: remove of a range that wraps around
\* leaves the largest number in the list.
RemoveRangeOverWrap ==
    \E seq1, seq2 \in SeqNo :
        /\ seq1 > seq2
        /\ call' = <<"removeRange", seq1, seq2>>
        /\ Numbers(list') = Numbers(list) \ (SeqRange(seq1, seq2) \ {MaxSeqNo})
        /\ ret' = 1

\* Every other call is as list.h says.
ImplementsSetButWrap == Set!Init /\ [][Set!Next \/ RemoveRangeOverWrap]_(Set!vars)

\* Both chains hold the same slots and every other slot is empty: the search
\* for the run before a number goes over empty slots and stops in the chain.
ChainsAgree ==
    /\ Chain(list) = BackChain(list)
    /\ \A i \in Slot : i \notin Chain(list) => list.data1[i] = -1 /\ list.data2[i] = -1
=============================================================================
