--------------------------- MODULE UdtSndLossList ---------------------------
(***************************************************************************)
(* The sender's loss list (class CSndLossList, udt-sys/udt/list.cpp): a    *)
(* chain of runs of lost numbers kept in a ring of Size slots, the slot of *)
(* a run at the distance of its first number from the head's.  The callers *)
(* are the three threads of UdtTransfer, one call at a time (m_ListLock):  *)
(* NAKs and the expiration timer insert what is between the last ACK and   *)
(* the last packet sent, ACKs remove what is before them, the sending      *)
(* worker takes the first.                                                 *)
(***************************************************************************)
EXTENDS UdtLossRing

VARIABLES list,     \* the CSndLossList
          una,      \* m_iSndLastDataAck
          next,     \* m_iSndCurrSeqNo + 1
          call, ret \* the last call and its result

vars == <<list, una, next, call, ret>>

\* data1 and data2 are the ends of the run in a slot; data2 is -1 when it is of
\* one number, data1 when there is none.
EmptyList == [data1 |-> [i \in Slot |-> -1], data2 |-> [i \in Slot |-> -1],
              next |-> [i \in Slot |-> Nil], head |-> Nil, length |-> 0, last |-> Nil]

Loc(l, offset) == (l.head + offset + Size) % Size

\* The last run from slot i on that begins before seq.
RECURSIVE Prior(_, _, _)
Prior(l, i, seq) ==
    IF l.next[i] # Nil /\ seqcmp(l.data1[l.next[i]], seq) < 0
    THEN Prior(l, l.next[i], seq) ELSE i

\* Mutant: the run takes the end of the one it meets, even if that is before its own.
RECURSIVE Coalesce_Shrinks(_, _)
Coalesce_Shrinks(l, loc) ==
    LET i == l.next[loc]
        end == IF l.data2[i] = -1 THEN l.data1[i] ELSE l.data2[i]
        common == IF seqcmp(l.data2[loc], end) >= 0 THEN seqlen(l.data1[i], end)
                  ELSE IF seqcmp(l.data2[loc], l.data1[i]) >= 0
                  THEN seqlen(l.data1[i], l.data2[loc]) ELSE 0
    IN  IF /\ i # Nil
           /\ l.data2[loc] # -1
           /\ seqcmp(l.data1[i], incseq(l.data2[loc])) <= 0
        THEN Coalesce_Shrinks([l EXCEPT !.length = @ - common,
                                !.data2 = [@ EXCEPT ![loc] = end,
                                                    ![i] = -1],
                                !.data1[i] = -1,
                                !.next[loc] = l.next[i]], loc)
        ELSE l

\* Runs that meet the one in slot loc are made part of it.
RECURSIVE Coalesce(_, _)
Coalesce(l, loc) ==
    LET i == l.next[loc]
        end == IF l.data2[i] = -1 THEN l.data1[i] ELSE l.data2[i]
        common == IF seqcmp(l.data2[loc], end) >= 0 THEN seqlen(l.data1[i], end)
                  ELSE IF seqcmp(l.data2[loc], l.data1[i]) >= 0
                  THEN seqlen(l.data1[i], l.data2[loc]) ELSE 0
    IN  IF /\ i # Nil
           /\ l.data2[loc] # -1
           /\ seqcmp(l.data1[i], incseq(l.data2[loc])) <= 0
        THEN Coalesce([l EXCEPT !.length = @ - common,
                                !.data2 = [@ EXCEPT ![loc] = IF seqcmp(end, @) > 0 THEN end ELSE @,
                                                    ![i] = -1],
                                !.data1[i] = -1,
                                !.next[loc] = l.next[i]], loc)
        ELSE l

\* The run that begins in slot loc ends at seq2 at least.
Extend(l, loc, seq2) ==
    LET end == IF l.data2[loc] = -1 THEN l.data1[loc] ELSE l.data2[loc]
    IN  IF seqcmp(seq2, end) > 0
        THEN Coalesce([l EXCEPT !.length = @ + seqlen(end, seq2) - 1, !.data2[loc] = seq2,
                                !.last = loc], loc)
        ELSE [l EXCEPT !.last = loc]

insert(l, seq1, seq2) ==
    LET len == seqlen(seq1, seq2)
        offset == seqoff(l.data1[l.head], seq1)
        loc == Loc(l, offset)
        from == IF l.last # Nil /\ seqcmp(l.data1[l.last], seq1) < 0 THEN l.last ELSE l.head
        i == Prior(l, from, seq1)
    IN  IF l.length = 0
        THEN [Put(l, 0, seq1, seq2) EXCEPT !.head = 0, !.next[0] = Nil, !.last = 0, !.length = len]
        ELSE IF offset < 0
        THEN Coalesce([Put(l, loc, seq1, seq2) EXCEPT !.next[loc] = l.head, !.head = loc,
                                                      !.last = loc, !.length = @ + len], loc)
        ELSE IF offset = 0 \/ seq1 = l.data1[loc]
        THEN Extend(l, loc, seq2)
        ELSE IF l.data2[i] = -1 \/ seqcmp(l.data2[i], seq1) < 0
        THEN Coalesce([Put(l, loc, seq1, seq2) EXCEPT !.next = [@ EXCEPT ![loc] = l.next[i], ![i] = loc],
                                                      !.last = loc, !.length = @ + len], loc)
        ELSE Extend(l, i, seq2)

\* What is left of the run in slot i once seq is gone, in slot loc.
Rest(l, i, loc, seq) == Put(l, loc, incseq(seq), l.data2[i])

\* The slots from h up to the new head are emptied.
RECURSIVE DropTo(_, _)
DropTo(l, h) ==
    IF h = l.head THEN l
    ELSE DropTo([l EXCEPT !.length = @ - (IF l.data2[h] # -1 THEN seqlen(l.data1[h], l.data2[h]) ELSE 1),
                          !.data1[h] = -1, !.data2[h] = -1,
                          !.last = IF @ = h THEN Nil ELSE @], l.next[h])

remove(l, seq) ==
    LET offset == seqoff(l.data1[l.head], seq)
        loc == Loc(l, offset)
        after == (loc + 1) % Size
        i == IF seq = l.data1[loc] THEN loc ELSE Prior(l, l.head, seq)
        \* the run of slot i goes on after seq
        goesOn == l.data2[i] # -1 /\ seqcmp(l.data2[i], seq) > 0
        split == [Rest(l, i, after, seq) EXCEPT
                     !.data2[i] = IF i = loc THEN -1 ELSE seq,
                     !.next = [@ EXCEPT ![after] = l.next[i], ![i] = after],
                     !.head = after]
    IN  IF l.length = 0 \/ offset < 0 THEN l
        ELSE DropTo(IF goesOn THEN split ELSE [l EXCEPT !.head = l.next[i]], l.head)

\* The list without its first number, l.data1[l.head].
getLostSeq(l) ==
    LET h == l.head
        seq == l.data1[h]
        after == (h + 1) % Size
        new == IF l.data2[h] = -1 THEN [l EXCEPT !.head = l.next[h]]
               ELSE [Rest(l, h, after, seq) EXCEPT !.next[after] = l.next[h], !.head = after,
                                                   !.data2[h] = -1]
    IN  [new EXCEPT !.data1[h] = -1, !.length = @ - 1, !.last = IF @ = h THEN Nil ELSE @]

-----------------------------------------------------------------------------
Init == list = EmptyList /\ una = ISN /\ next = ISN /\ call = <<>> /\ ret = 0

InFlight == seqoff(una, next)
Sent == {(una + i) % (MaxSeqNo + 1) : i \in 0..(InFlight - 1)}

Send ==
    /\ InFlight < Span /\ InRun(next)
    /\ next' = incseq(next)
    /\ UNCHANGED <<list, una, call, ret>>

Insert(seq1, seq2) ==
    /\ seqcmp(seq1, seq2) <= 0
    /\ list' = insert(list, seq1, seq2)
    /\ call' = <<"insert", seq1, seq2>>
    /\ ret' = list'.length - list.length
    /\ UNCHANGED <<una, next>>

\* An ACK of everything up to seq.
Ack(seq) ==
    /\ una' = incseq(seq)
    /\ list' = remove(list, seq)
    /\ call' = <<"removeUpTo", seq>>
    /\ ret' = 0
    /\ UNCHANGED next

GetLostSeq ==
    /\ call' = <<"getLostSeq">>
    /\ IF list.length = 0 THEN ret' = -1 /\ UNCHANGED list
       ELSE ret' = list.data1[list.head] /\ list' = getLostSeq(list)
    /\ UNCHANGED <<una, next>>

Next ==
    \/ Send
    \/ \E seq1, seq2 \in Sent : Insert(seq1, seq2)
    \/ \E seq \in Sent : Ack(seq)
    \/ GetLostSeq

Spec == Init /\ [][Next]_vars

-----------------------------------------------------------------------------
\* The slots of the chain, from the head on.
RECURSIVE ChainFrom(_, _)
ChainFrom(l, i) == IF i = Nil THEN {} ELSE {i} \cup ChainFrom(l, l.next[i])
Chain(l) == IF l.length = 0 THEN {} ELSE ChainFrom(l, l.head)

\* The numbers of the list.
Numbers(l) ==
    UNION {IF l.data2[i] = -1 THEN {l.data1[i]} ELSE SeqRange(l.data1[i], l.data2[i]) : i \in Chain(l)}

\* The members of the list have their C++ types.
TypeOK ==
    /\ list.data1 \in [Slot -> SeqNo \cup {-1}] /\ list.data2 \in [Slot -> SeqNo \cup {-1}]
    /\ list.next \in [Slot -> Slot \cup {Nil}]
    /\ list.head \in Slot \cup {Nil} /\ list.last \in Slot \cup {Nil}
    /\ list.length \in 0..Size

\* The list is what list.h says of it, call by call: the ring, the runs that
\* meet and the remembered place of the last insert lose and invent nothing.
Set == INSTANCE UdtLossSet WITH loss <- Numbers(list)
ImplementsSet == Set!Spec

\* Slots that are not in the chain are empty (-1): insert relies on it when it
\* puts a single number in a slot and leaves data2 as it finds it.
NoResidue ==
    \A i \in Slot : i \notin Chain(list) => list.data1[i] = -1 /\ list.data2[i] = -1

\* The remembered place of the last insert, where a search may begin, is in the
\* chain.
LastInChain == list.length > 0 /\ list.last # Nil => list.last \in Chain(list)
=============================================================================
