----------------------------- MODULE UdtSndUList -----------------------------
(***************************************************************************)
(* The heap of CSndUList (udt-sys/udt/queue.cpp): the sockets that have    *)
(* something to send, each with the time of its next packet.  An entry is  *)
(* a record with a field ts; position 1 here is position 0 of m_pHeap.     *)
(***************************************************************************)
EXTENDS Naturals, Sequences, FiniteSetsExt

Parent(i) == i \div 2

\* A set of positions that has with each one its parent.
Upward(S) == \A j \in S \ {1} : Parent(j) \in S

\* The positions from a node up to the root.
Ancestors(i) == {j \in 1..i : \A S \in SUBSET (1..i) : i \in S /\ Upward(S) => j \in S}

\* insert_: the entry is put last and moved up past the later ones.
insert_(h, e) ==
    LET last == Len(h) + 1
        g == Append(h, e)
        top == Max({q \in Ancestors(last) : q = 1 \/ g[Parent(q)].ts <= e.ts})
    IN [i \in 1..last |->
           CASE i = top -> e
             [] i > top /\ i \in Ancestors(last) -> g[Parent(i)]
             [] OTHER -> g[i]]

\* remove_: the last entry takes the place and is moved down, past the earlier
\* of two children as long as that is before it.
remove_(h, i) ==
    LET last == Len(h) - 1
        e == h[Len(h)]
        g == [j \in 1..last |-> IF j = i THEN e ELSE h[j]]
        child(q) == IF 2*q + 1 <= last /\ g[2*q].ts > g[2*q + 1].ts THEN 2*q + 1 ELSE 2*q
        path(b) == {j \in Ancestors(b) : j > i}
        bottom == Max({b \in i..last : /\ i \in Ancestors(b)
                                       /\ \A j \in path(b) : j = child(Parent(j)) /\ e.ts > g[j].ts})
    IN IF i > last THEN g
       ELSE [j \in 1..last |->
                CASE j = bottom -> e
                  [] j # bottom /\ j \in path(bottom) \cup {i} -> g[child(j)]
                  [] OTHER -> g[j]]
=============================================================================
