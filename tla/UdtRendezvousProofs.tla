------------------------ MODULE UdtRendezvousProofs -------------------------
(***************************************************************************)
(* Proofs about the rendezvous connection, for any number of sockets and   *)
(* hosts, any limit on the packets kept, and whichever packets are lost,   *)
(* repeated or delayed.                                                    *)
(***************************************************************************)
EXTENDS UdtRendezvous, SequenceTheorems, WellFoundedInduction, TLAPS

IInv == TypeOK /\ NetInv /\ BufferInv /\ SocketInv /\ NoFalseSuccess

\* The same for one packet and for one socket.
PacketOK(p) ==
    /\ p.kind = "hs" =>
          /\ p.hs.id \in {None, p.src}
          /\ Torn(p.src) \/ (p.hs.id = p.src /\ p.hs.isn = p.src /\ (p.hs.type # -2 => p.hs.sty))
          /\ p.hs.type = -1 => udt[p.src].reqType = -1
    /\ p.kind = "live" \/ p.hs.type = -2 => udt[p.src].connected
    /\ p.kind = "shutdown" => udt[p.src].closed

SocketOK(s) ==
    /\ IF udt[s].reqType = 0 THEN udt[s].res = Blank ELSE Answered(s)
    /\ udt[s].pc \in {"new", "fill"} => udt[s].reqType = 0
    /\ udt[s].pc = "new" => s \notin Entries(At[s])
    /\ udt[s].pc = "wait" => udt[s].res.type # -2 /\ (udt[s].connecting \/ udt[s].late)
    /\ udt[s].connected => udt[s].pc = "done"
    /\ udt[s].pc = "post" \/ udt[s].connected =>
          udt[s].reqType = -1 /\ \A t \in Sock : Mate(s, t) => udt[t].reqType = -1

SuccessOK(s) ==
    udt[s].ret = "ok" /\ ~udt[s].connected =>
       udt[s].late \/ \E p \in Sock : At[p] = To[s] /\ (udt[p].closed \/ Torn(p))

LEMMA Parts ==
    /\ NetInv <=> \A p \in net : PacketOK(p)
    /\ SocketInv <=> \A s \in Sock : SocketOK(s)
    /\ NoFalseSuccess <=> \A s \in Sock : SuccessOK(s)
<1>1. NetInv <=> \A p \in net : PacketOK(p)
  BY DEF NetInv, PacketOK
<1>2. SocketInv <=> \A s \in Sock : SocketOK(s)
  BY DEF SocketInv, SocketOK
<1>3. NoFalseSuccess <=> \A s \in Sock : SuccessOK(s)
  BY DEF NoFalseSuccess, SuccessOK
<1>4. QED
  BY <1>1, <1>2, <1>3

LEMMA PartsNext ==
    ASSUME \A p \in net' : PacketOK(p)', \A s \in Sock : SocketOK(s)', \A s \in Sock : SuccessOK(s)'
    PROVE  NetInv' /\ SocketInv' /\ NoFalseSuccess'
<1>1. NetInv'
  BY DEF NetInv, PacketOK
<1>2. SocketInv'
  BY DEF SocketInv, SocketOK
<1>3. NoFalseSuccess'
  BY DEF NoFalseSuccess, SuccessOK
<1>4. QED
  BY <1>1, <1>2, <1>3

-----------------------------------------------------------------------------
(* Lists.                                                                  *)

LEMMA MinIn ==
    ASSUME NEW S \in SUBSET Nat, S # {}
    PROVE  Min(S) \in S
<1> DEFINE less == {p \in Nat \X Nat : p[1] < p[2]}
<1>1. IsWellFoundedOn(less, Nat)
  BY NatLessThanWellFounded DEF OpToRel
<1>2. PICK m \in S : \A x \in S : <<x, m>> \notin less
  BY <1>1, WFMin
<1>3. ASSUME NEW x \in S
      PROVE  m <= x
  <2>1. x \in Nat /\ m \in Nat
    OBVIOUS
  <2>2. ~(x < m)
    BY <1>2, <2>1
  <2>3. QED
    BY <2>1, <2>2
<1>4. QED
  BY <1>3 DEF Min

\* CRendezvousQueue::insert.
LEMMA Inserted ==
    ASSUME NEW X, NEW q \in Seq(X), NEW x \in X, IsInjective(q), x \notin ToSet(q)
    PROVE  /\ Append(q, x) \in Seq(X) /\ IsInjective(Append(q, x))
           /\ ToSet(Append(q, x)) = ToSet(q) \cup {x}
<1>1. /\ Append(q, x) \in Seq(X) /\ DOMAIN Append(q, x) = DOMAIN q \cup {Len(q) + 1}
      /\ Len(q) + 1 \notin DOMAIN q
      /\ Append(q, x)[Len(q) + 1] = x /\ \A i \in DOMAIN q : Append(q, x)[i] = q[i]
  OBVIOUS
<1>2. ToSet(Append(q, x)) = ToSet(q) \cup {x}
  BY <1>1 DEF ToSet
<1>3. \A i \in DOMAIN q : q[i] # x
  BY DEF ToSet
<1>4. IsInjective(Append(q, x))
  BY <1>1, <1>3 DEF IsInjective
<1>5. QED
  BY <1>1, <1>2, <1>4

\* Where the elements come from when one is taken out.
Before(i, j) == IF j < i THEN j ELSE j + 1

LEMMA RemoveIs ==
    ASSUME NEW X, NEW q \in Seq(X), NEW i \in DOMAIN q
    PROVE  /\ RemoveAt(q, i) \in Seq(X)
           /\ \A j \in DOMAIN RemoveAt(q, i) :
                 Before(i, j) \in DOMAIN q \ {i} /\ RemoveAt(q, i)[j] = q[Before(i, j)]
           /\ \A j, k \in DOMAIN RemoveAt(q, i) : j < k => Before(i, j) < Before(i, k)
<1>1. i \in 1..Len(q) /\ Len(q) \in Nat
  OBVIOUS
<1> DEFINE a == SubSeq(q, 1, i - 1)
           b == SubSeq(q, i + 1, Len(q))
<1>2. /\ a \in Seq(X) /\ Len(a) = i - 1
      /\ \A j \in 1..(i - 1) : a[j] = q[j]
  BY <1>1
<1>3. /\ b \in Seq(X) /\ Len(b) = Len(q) - i
      /\ \A j \in 1..(Len(q) - i) : b[j] = q[i + j]
  BY <1>1
<1>4. RemoveAt(q, i) = a \o b
  BY DEF RemoveAt
<1> HIDE DEF a, b
<1>5. a \o b \in Seq(X) /\ Len(a \o b) = Len(q) - 1
  BY <1>1, <1>2, <1>3
<1>6. DOMAIN (a \o b) = 1..(Len(q) - 1)
  BY <1>5
<1>7. ASSUME NEW j \in 1..(Len(q) - 1)
      PROVE  Before(i, j) \in DOMAIN q \ {i} /\ (a \o b)[j] = q[Before(i, j)]
  <2>1. (a \o b)[j] = IF j <= Len(a) THEN a[j] ELSE b[j - Len(a)]
    BY SMTT(30), <1>1, <1>2, <1>3
  <2>2. CASE j < i
    BY <1>1, <1>2, <2>1, <2>2 DEF Before
  <2>3. CASE ~(j < i)
    <3>1. j - (i - 1) \in 1..(Len(q) - i) /\ i + (j - (i - 1)) = j + 1
      BY <1>1, <2>3
    <3>2. (a \o b)[j] = b[j - (i - 1)]
      BY <1>1, <1>2, <2>1, <2>3
    <3>3. (a \o b)[j] = q[j + 1]
      BY <1>3, <3>1, <3>2
    <3>4. QED
      BY <1>1, <2>3, <3>3 DEF Before
  <2>4. QED
    BY <2>2, <2>3
<1>8. \A j, k \in 1..(Len(q) - 1) : j < k => Before(i, j) < Before(i, k)
  BY <1>1 DEF Before
<1>9. QED
  BY <1>4, <1>5, <1>6, <1>7, <1>8

\* CRendezvousQueue::remove.
LEMMA Erased ==
    ASSUME NEW X, NEW q \in Seq(X), NEW e, IsInjective(q)
    PROVE  /\ RemoveFirst(q, e) \in Seq(X) /\ IsInjective(RemoveFirst(q, e))
           /\ ToSet(RemoveFirst(q, e)) \subseteq ToSet(q)
<1>1. CASE ~\E i \in 1..Len(q) : q[i] = e
  BY <1>1 DEF RemoveFirst
<1>2. CASE \E i \in 1..Len(q) : q[i] = e
  <2>1. PICK I : I = {i \in 1..Len(q) : q[i] = e}
    OBVIOUS
  <2>2. I \in SUBSET Nat /\ I # {}
    BY <1>2, <2>1
  <2>3. PICK i : i = Min(I)
    OBVIOUS
  <2>4. i \in 1..Len(q)
    BY <2>1, <2>2, <2>3, MinIn
  <2>5. RemoveFirst(q, e) = RemoveAt(q, i)
    BY <1>2, <2>1, <2>2, <2>3 DEF RemoveFirst, SelectInSeq
  <2>6. PICK r : r = RemoveAt(q, i)
    OBVIOUS
  <2>7. /\ r \in Seq(X)
        /\ \A j \in DOMAIN r : Before(i, j) \in DOMAIN q /\ r[j] = q[Before(i, j)]
        /\ \A j, k \in DOMAIN r : j < k => Before(i, j) < Before(i, k)
    BY <2>4, <2>6, RemoveIs
  <2>8. IsInjective(r)
    <3>1. SUFFICES ASSUME NEW j \in DOMAIN r, NEW k \in DOMAIN r, r[j] = r[k] PROVE j = k
      BY DEF IsInjective
    <3>2. Before(i, j) = Before(i, k)
      BY <2>7, <3>1 DEF IsInjective
    <3>3. j \in Nat /\ k \in Nat /\ Before(i, j) \in Nat
      BY <2>7
    <3>4. ~(j < k) /\ ~(k < j)
      BY <2>7, <3>2, <3>3
    <3>5. QED
      BY <3>3, <3>4
  <2>9. ToSet(r) \subseteq ToSet(q)
    BY <2>7 DEF ToSet
  <2>10. QED
    BY <2>5, <2>6, <2>7, <2>8, <2>9
<1>3. QED
  BY <1>1, <1>2
-----------------------------------------------------------------------------
(* A step changes one socket, and what has happened to it stays so; packets *)
(* are added to the net.                                                   *)

Later(u, v) ==
    /\ u.reqType = -1 => v.reqType = -1
    /\ u.connected => v.connected
    /\ u.closed => v.closed
    /\ u.late => v.late

LEMMA StepKeeps ==
    ASSUME IInv, NEW s \in Sock, NEW u \in Socket, udt' = [udt EXCEPT ![s] = u], Later(udt[s], u),
           NEW A \in SUBSET Packet, net' = net \cup A, \A p \in A : PacketOK(p)',
           SocketOK(s)', SuccessOK(s)',
           queue' \in [Host -> Seq(Sock)], \A h \in Host : IsInjective(queue'[h]),
           \A h \in Host : \A t \in Entries(h)' : t \in Entries(h) \/ (t = s /\ At[s] = h),
           buffer' \in [Sock -> Seq(Packet)], \A t \in Sock : Len(buffer'[t]) <= BufLimit + 1,
           BufferInv'
    PROVE  IInv'
<1>1. TypeOK /\ NetInv /\ SocketInv /\ NoFalseSuccess
  BY DEF IInv
<1>2. udt \in [Sock -> Socket] /\ net \subseteq Packet /\ At \in [Sock -> Host]
  BY <1>1, RendezvousAssumption DEF TypeOK
<1>3. udt'[s] = u /\ \A t \in Sock \ {s} : udt'[t] = udt[t]
  BY <1>2
<1>4. \A t \in Sock : Later(udt[t], udt'[t])
  BY <1>2, <1>3 DEF Later
<1>5. \A t \in Sock : Torn(t) => Torn(t)'
  BY DEF Torn
<1>6. TypeOK'
  <2>1. udt' \in [Sock -> Socket] /\ net' \subseteq Packet
    BY <1>2
  <2>2. \A h \in Host : \A t \in Entries(h)' : At[t] = h
    BY <1>1 DEF TypeOK
  <2>3. QED
    BY <2>1, <2>2 DEF TypeOK
<1>7. ASSUME NEW p \in net
      PROVE  PacketOK(p)'
  <2>1. PacketOK(p) /\ p.src \in Sock
    BY <1>1, <1>2, Parts DEF Packet
  <2>2. Later(udt[p.src], udt'[p.src]) /\ (Torn(p.src) => Torn(p.src)')
    BY <1>4, <1>5, <2>1
  <2>3. QED
    BY ONLY <2>1, <2>2 DEF PacketOK, Later
<1>8. \A p \in net' : PacketOK(p)'
  BY <1>7
<1>9. ASSUME NEW t \in Sock, t # s
      PROVE  SocketOK(t)' /\ SuccessOK(t)'
  <2>1. SocketOK(t) /\ SuccessOK(t) /\ udt'[t] = udt[t]
    BY <1>1, <1>3, <1>9, Parts
  <2>2. Answered(t) => Answered(t)'
    BY <2>1 DEF Answered, Mate
  <2>3. t \notin Entries(At[t]) => t \notin Entries(At[t])'
    BY <1>2, <1>9
  <2>4. \A v \in Sock : udt[v].reqType = -1 => udt'[v].reqType = -1
    BY <1>4 DEF Later
  <2>5. SocketOK(t)'
    BY ONLY <2>1, <2>2, <2>3, <2>4 DEF SocketOK, Mate, Blank
  <2>6. \A v \in Sock : udt[v].closed \/ Torn(v) => udt'[v].closed \/ Torn(v)'
    BY <1>4, <1>5 DEF Later
  <2>7. SuccessOK(t)'
    BY ONLY <2>1, <2>6 DEF SuccessOK
  <2>8. QED
    BY <2>5, <2>7
<1>10. \A t \in Sock : SocketOK(t)' /\ SuccessOK(t)'
  BY <1>9
<1>11. QED
  BY <1>6, <1>8, <1>10, PartsNext DEF IInv

\* What is needed of the lists when they do not change ...
ListsOK(s) ==
    /\ queue' \in [Host -> Seq(Sock)] /\ \A h \in Host : IsInjective(queue'[h])
    /\ \A h \in Host : \A t \in Entries(h)' : t \in Entries(h) \/ (t = s /\ At[s] = h)
    /\ buffer' \in [Sock -> Seq(Packet)] /\ \A t \in Sock : Len(buffer'[t]) <= BufLimit + 1
    /\ BufferInv'

LEMMA SameLists ==
    ASSUME IInv, NEW s \in Sock, UNCHANGED <<queue, buffer>>, net \subseteq net'
    PROVE  ListsOK(s)
<1>1. TypeOK /\ BufferInv
  BY DEF IInv
<1>2. \A h \in Host : Entries(h)' = Entries(h)
  BY DEF Entries
<1>3. BufferInv'
  BY <1>1 DEF BufferInv, Mate
<1>4. QED
  BY <1>1, <1>2, <1>3 DEF TypeOK, ListsOK

\* ... when the socket leaves them ...
LEMMA LeftLists ==
    ASSUME IInv, NEW s \in Sock, removeConnector(s), net \subseteq net'
    PROVE  ListsOK(s)
<1>1. TypeOK /\ BufferInv /\ At[s] \in Host
  BY RendezvousAssumption DEF IInv
<1>2. queue \in [Host -> Seq(Sock)] /\ buffer \in [Sock -> Seq(Packet)]
  BY <1>1 DEF TypeOK
<1>3. PICK q : q = RemoveFirst(queue[At[s]], s)
  OBVIOUS
<1>4. q \in Seq(Sock) /\ IsInjective(q) /\ ToSet(q) \subseteq ToSet(queue[At[s]])
  BY <1>1, <1>2, <1>3, Erased DEF TypeOK
<1>5. queue' = [queue EXCEPT ![At[s]] = q] /\ buffer' = [buffer EXCEPT ![s] = <<>>]
  BY <1>3 DEF removeConnector, Delist
<1>6. queue' \in [Host -> Seq(Sock)] /\ \A h \in Host : IsInjective(queue'[h])
  BY <1>1, <1>2, <1>4, <1>5 DEF TypeOK
<1>7. \A h \in Host : \A t \in Entries(h)' : t \in Entries(h)
  BY <1>1, <1>2, <1>4, <1>5 DEF Entries
<1>8. <<>> \in Seq(Packet) /\ Len(<<>>) = 0 /\ DOMAIN <<>> = {}
  OBVIOUS
<1>9. buffer' \in [Sock -> Seq(Packet)]
  BY <1>2, <1>5, <1>8
<1>10. \A t \in Sock : Len(buffer'[t]) <= BufLimit + 1
  BY <1>1, <1>2, <1>5, <1>8, RendezvousAssumption DEF TypeOK
<1>11. BufferInv'
  <2>1. SUFFICES ASSUME NEW t \in Sock, NEW i \in DOMAIN buffer'[t]
                 PROVE  buffer'[t][i] \in net' /\ Mate(t, buffer'[t][i].src)
    BY DEF BufferInv, Mate
  <2>2. t # s /\ buffer'[t] = buffer[t]
    BY <1>2, <1>5, <1>8
  <2>3. QED
    BY <1>1, <2>1, <2>2 DEF BufferInv
<1>12. QED
  BY <1>6, <1>7, <1>9, <1>10, <1>11 DEF ListsOK

\* ... and when it takes a packet.
LEMMA TookPacket ==
    ASSUME IInv, NEW s \in Sock, buffer[s] # <<>>, buffer' = [buffer EXCEPT ![s] = Tail(@)],
           UNCHANGED queue, net \subseteq net'
    PROVE  ListsOK(s)
<1>1. TypeOK /\ BufferInv
  BY DEF IInv
<1>2. queue \in [Host -> Seq(Sock)] /\ buffer \in [Sock -> Seq(Packet)] /\ BufLimit \in Nat
  BY <1>1, RendezvousAssumption DEF TypeOK
<1>3. PICK b : b = buffer[s]
  OBVIOUS
<1>4. b \in Seq(Packet) /\ b # <<>> /\ Len(b) <= BufLimit + 1
  BY <1>1, <1>2, <1>3 DEF TypeOK
<1>5. /\ Tail(b) \in Seq(Packet) /\ Len(Tail(b)) <= BufLimit + 1
      /\ \A i \in DOMAIN Tail(b) : i + 1 \in DOMAIN b /\ Tail(b)[i] = b[i + 1]
  BY <1>2, <1>4
<1>6. buffer'[s] = Tail(b) /\ (\A t \in Sock \ {s} : buffer'[t] = buffer[t]) /\ buffer' \in [Sock -> Seq(Packet)]
  BY <1>2, <1>3, <1>5
<1>7. \A t \in Sock : Len(buffer'[t]) <= BufLimit + 1
  BY <1>1, <1>5, <1>6 DEF TypeOK
<1>8. BufferInv'
  <2>1. ASSUME NEW t \in Sock, NEW i \in DOMAIN buffer'[t]
        PROVE  buffer'[t][i] \in net' /\ Mate(t, buffer'[t][i].src)
    <3>1. CASE t = s
      BY <1>1, <1>3, <1>5, <1>6, <2>1, <3>1 DEF BufferInv
    <3>2. CASE t # s
      BY <1>1, <1>6, <2>1, <3>2 DEF BufferInv
    <3>3. QED
      BY <3>1, <3>2
  <2>2. QED
    BY <2>1 DEF BufferInv, Mate
<1>9. \A h \in Host : Entries(h)' = Entries(h)
  BY DEF Entries
<1>10. QED
  BY <1>1, <1>6, <1>7, <1>8, <1>9 DEF TypeOK, ListsOK

\* A step that adds no packet, or one.
LEMMA StepAlone ==
    ASSUME IInv, NEW s \in Sock, NEW u \in Socket, udt' = [udt EXCEPT ![s] = u], Later(udt[s], u),
           UNCHANGED net, SocketOK(s)', SuccessOK(s)', ListsOK(s)
    PROVE  IInv'
<1>1. PICK A : A = {}
  OBVIOUS
<1>2. A \in SUBSET Packet /\ net' = net \cup A /\ \A p \in A : PacketOK(p)'
  BY <1>1
<1>3. QED
  BY <1>2, StepKeeps DEF ListsOK

LEMMA StepSends ==
    ASSUME IInv, NEW s \in Sock, NEW u \in Socket, udt' = [udt EXCEPT ![s] = u], Later(udt[s], u),
           NEW m \in Packet, net' = net \cup {m}, PacketOK(m)', SocketOK(s)', SuccessOK(s)', ListsOK(s)
    PROVE  IInv'
<1>1. PICK A : A = {m}
  OBVIOUS
<1>2. A \in SUBSET Packet /\ net' = net \cup A /\ \A p \in A : PacketOK(p)'
  BY <1>1
<1>3. QED
  BY <1>2, StepKeeps DEF ListsOK
\* What a step leaves true of the other sockets and of the packets.
LEMMA Monotone ==
    ASSUME IInv, NEW s \in Sock, NEW u \in Socket, udt' = [udt EXCEPT ![s] = u], Later(udt[s], u),
           net \subseteq net'
    PROVE  /\ udt'[s] = u /\ udt[s] \in Socket
           /\ \A t \in Sock : udt[t].reqType = -1 => udt'[t].reqType = -1
           /\ \A t \in Sock : udt[t].closed \/ Torn(t) => udt'[t].closed \/ Torn(t)'
           /\ u.res = udt[s].res /\ Answered(s) => Answered(s)'
<1>1. udt \in [Sock -> Socket]
  BY DEF IInv, TypeOK
<1>2. udt'[s] = u /\ \A t \in Sock \ {s} : udt'[t] = udt[t]
  BY <1>1
<1>3. \A t \in Sock : Later(udt[t], udt'[t])
  BY <1>2 DEF Later
<1>4. \A t \in Sock : Torn(t) => Torn(t)'
  BY DEF Torn
<1>5. u.res = udt[s].res /\ Answered(s) => Answered(s)'
  BY <1>2 DEF Answered, Mate
<1>6. \A t \in Sock : udt[t].reqType = -1 => udt'[t].reqType = -1
  BY <1>3 DEF Later
<1>7. \A t \in Sock : udt[t].closed \/ Torn(t) => udt'[t].closed \/ Torn(t)'
  BY <1>3, <1>4 DEF Later
<1>8. QED
  BY <1>1, <1>2, <1>5, <1>6, <1>7

\* A socket that records no new response.
LEMMA SocketStays ==
    ASSUME IInv, NEW s \in Sock, NEW u \in Socket, udt' = [udt EXCEPT ![s] = u], Later(udt[s], u),
           net \subseteq net',
           u.reqType = udt[s].reqType, u.res = udt[s].res,
           u.pc \in {"new", "fill"} => udt[s].pc \in {"new", "fill"},
           u.pc = "new" => s \notin Entries(At[s])',
           u.pc = "wait" => udt[s].res.type # -2 /\ (u.connecting \/ u.late),
           u.connected => u.pc = "done",
           u.pc = "post" \/ u.connected => udt[s].pc = "post" \/ udt[s].connected
    PROVE  SocketOK(s)'
<1>1. SocketOK(s)
  BY Parts DEF IInv
<1>2. /\ udt'[s] = u
      /\ \A t \in Sock : udt[t].reqType = -1 => udt'[t].reqType = -1
      /\ Answered(s) => Answered(s)'
  BY Monotone
<1>3. IF udt'[s].reqType = 0 THEN udt'[s].res = Blank ELSE Answered(s)'
  BY <1>1, <1>2 DEF SocketOK
<1>4. u.pc = "post" \/ u.connected =>
         u.reqType = -1 /\ \A t \in Sock : Mate(s, t) => udt'[t].reqType = -1
  BY <1>1, <1>2 DEF SocketOK
<1>5. udt'[s].pc \in {"new", "fill"} => udt'[s].reqType = 0
  BY <1>1, <1>2 DEF SocketOK
<1>6. QED
  BY <1>2, <1>3, <1>4, <1>5 DEF SocketOK, Mate, Blank

LEMMA SuccessStays ==
    ASSUME IInv, NEW s \in Sock, NEW u \in Socket, udt' = [udt EXCEPT ![s] = u], Later(udt[s], u),
           net \subseteq net',
           u.ret = "ok" /\ ~u.connected => udt[s].ret = "ok" /\ ~udt[s].connected
    PROVE  SuccessOK(s)'
<1>1. SuccessOK(s)
  BY Parts DEF IInv
<1>2. udt'[s] = u /\ \A t \in Sock : udt[t].closed \/ Torn(t) => udt'[t].closed \/ Torn(t)'
  BY Monotone
<1>3. QED
  BY ONLY <1>1, <1>2, u.ret = "ok" /\ ~u.connected => udt[s].ret = "ok" /\ ~udt[s].connected,
     Later(udt[s], u) DEF SuccessOK, Later

\* A packet is sent and nothing else happens.
LEMMA OnlySends ==
    ASSUME IInv, NEW s \in Sock, UNCHANGED <<udt, queue, buffer>>,
           NEW m \in Packet, net' = net \cup {m}, PacketOK(m)'
    PROVE  IInv'
<1>1. PICK u : u = udt[s]
  OBVIOUS
<1>2. u \in Socket /\ udt' = [udt EXCEPT ![s] = u] /\ Later(udt[s], u)
  BY <1>1 DEF IInv, TypeOK, Later
<1>3. SocketOK(s) /\ Entries(At[s])' = Entries(At[s])
  BY Parts DEF IInv, Entries
<1>4. SocketOK(s)'
  BY <1>1, <1>2, <1>3, SocketStays DEF SocketOK
<1>5. SuccessOK(s)'
  BY <1>1, <1>2, SuccessStays
<1>6. ListsOK(s)
  BY SameLists
<1>7. QED
  BY ONLY IInv, s \in Sock, <1>2, <1>4, <1>5, <1>6, m \in Packet, net' = net \cup {m}, PacketOK(m)', StepSends

LEMMA RequestOK ==
    ASSUME IInv, NEW s \in Sock, udt'[s].reqType = udt[s].reqType, NEW m, m = Request(s)
    PROVE  m \in Packet /\ PacketOK(m)'
<1>1. udt[s] \in Socket
  BY DEF IInv, TypeOK
<1>2. udt[s].reqType \in {0, -1} /\ udt[s].res.id \in Sock \cup {None}
  BY <1>1 DEF Socket, Handshake
<1>3. m = [src |-> s, dst |-> udt[s].res.id, kind |-> "hs",
           hs |-> [type |-> udt[s].reqType, id |-> s, isn |-> s, sty |-> TRUE]]
  BY DEF Request
<1>4. m \in Packet
  BY <1>2, <1>3 DEF Packet, Handshake
<1>5. m.src = s /\ m.kind = "hs" /\ m.hs.id = s /\ m.hs.isn = s /\ m.hs.sty = TRUE /\ m.hs.type = udt[s].reqType
  BY <1>3
<1>6. PacketOK(m)'
  BY ONLY <1>2, <1>5, udt'[s].reqType = udt[s].reqType DEF PacketOK
<1>7. QED
  BY <1>4, <1>6
\* A socket changes, without a new response, and nothing else happens.
LEMMA OnlyMoves ==
    ASSUME IInv, NEW s \in Sock, NEW u \in Socket, udt' = [udt EXCEPT ![s] = u], Later(udt[s], u),
           UNCHANGED <<queue, buffer, net>>,
           u.reqType = udt[s].reqType, u.res = udt[s].res,
           u.pc = udt[s].pc \/ u.pc = "done",
           u.pc = "wait" => u.connecting \/ u.late,
           u.connected => u.pc = "done" /\ (udt[s].pc = "post" \/ udt[s].connected),
           u.ret = "ok" /\ ~u.connected => udt[s].ret = "ok" /\ ~udt[s].connected
    PROVE  IInv'
<1>1. SocketOK(s) /\ Entries(At[s])' = Entries(At[s])
  BY Parts DEF IInv, Entries
<1>2. SocketOK(s)'
  <2>1. /\ u.pc \in {"new", "fill"} => udt[s].pc \in {"new", "fill"}
        /\ u.pc = "new" => s \notin Entries(At[s])'
        /\ u.pc = "wait" => udt[s].res.type # -2 /\ (u.connecting \/ u.late)
        /\ u.pc = "post" \/ u.connected => udt[s].pc = "post" \/ udt[s].connected
    BY <1>1 DEF SocketOK
  <2>2. QED
    BY <2>1, SocketStays
<1>3. SuccessOK(s)'
  BY SuccessStays
<1>4. ListsOK(s)
  BY SameLists
<1>5. QED
  BY <1>2, <1>3, <1>4, StepAlone

-----------------------------------------------------------------------------
(* The steps of connect() and of close.                                    *)

LEMMA RegisterKeeps ==
    ASSUME IInv, NEW s \in Sock, Register(s)
    PROVE  IInv'
<1>1. TypeOK /\ SocketOK(s) /\ udt[s] \in Socket /\ At[s] \in Host
  BY Parts, RendezvousAssumption DEF IInv, TypeOK
<1>2. udt[s].pc = "new" /\ UNCHANGED <<buffer, net>> /\ queue' = [queue EXCEPT ![At[s]] = Append(@, s)]
  BY DEF Register, Enlist
<1>3. PICK u : u = [udt[s] EXCEPT !.pc = "fill"]
  OBVIOUS
<1>4. udt' = [udt EXCEPT ![s] = u]
  BY <1>3 DEF Register
<1>5. /\ u \in Socket /\ u.pc = "fill" /\ u.reqType = udt[s].reqType /\ u.res = udt[s].res
      /\ u.connected = udt[s].connected /\ u.late = udt[s].late /\ u.closed = udt[s].closed
      /\ u.ret = udt[s].ret
  BY <1>1, <1>3 DEF Socket
<1>6. Later(udt[s], u)
  BY <1>5 DEF Later
<1>7. ~udt[s].connected
  BY <1>1, <1>2 DEF SocketOK
<1>8. SocketOK(s)'
  BY <1>2, <1>4, <1>5, <1>6, <1>7, SocketStays
<1>9. SuccessOK(s)'
  BY <1>2, <1>4, <1>5, <1>6, SuccessStays
<1>10. ListsOK(s)
  <2>1. PICK q : q = queue[At[s]]
    OBVIOUS
  <2>2. q \in Seq(Sock) /\ IsInjective(q) /\ s \notin ToSet(q)
    BY <1>1, <1>2, <2>1 DEF TypeOK, SocketOK, Entries
  <2>3. /\ Append(q, s) \in Seq(Sock) /\ IsInjective(Append(q, s))
        /\ ToSet(Append(q, s)) = ToSet(q) \cup {s}
    BY <2>2, Inserted
  <2>4. /\ queue \in [Host -> Seq(Sock)] /\ queue'[At[s]] = Append(q, s)
        /\ \A h \in Host \ {At[s]} : queue'[h] = queue[h]
        /\ queue' \in [Host -> Seq(Sock)]
    BY <1>1, <1>2, <2>1, <2>3 DEF TypeOK
  <2>5. \A h \in Host : IsInjective(queue'[h])
    BY <1>1, <2>3, <2>4 DEF TypeOK
  <2>6. \A h \in Host : \A t \in Entries(h)' : t \in Entries(h) \/ (t = s /\ At[s] = h)
    <3>1. TAKE h \in Host
    <3>2. CASE h = At[s]
      BY <2>1, <2>3, <2>4, <3>2 DEF Entries
    <3>3. CASE h # At[s]
      BY <2>4, <3>3 DEF Entries
    <3>4. QED
      BY <3>2, <3>3
  <2>7. buffer' \in [Sock -> Seq(Packet)] /\ \A t \in Sock : Len(buffer'[t]) <= BufLimit + 1
    BY <1>1, <1>2 DEF TypeOK
  <2>8. BufferInv'
    BY <1>2 DEF IInv, BufferInv, Mate
  <2>9. QED
    BY <2>4, <2>5, <2>6, <2>7, <2>8 DEF ListsOK
<1>11. QED
  BY <1>2, <1>4, <1>5, <1>6, <1>8, <1>9, <1>10, StepAlone

LEMMA StartKeeps ==
    ASSUME IInv, NEW s \in Sock, Start(s)
    PROVE  IInv'
<1>1. SocketOK(s) /\ udt[s] \in Socket
  BY Parts DEF IInv, TypeOK
<1>2. PICK m : m = Request(s)
  OBVIOUS
<1>3. udt[s].pc = "fill" /\ net' = net \cup {m} /\ UNCHANGED <<queue, buffer>>
  BY <1>2 DEF Start
<1>4. PICK u : u = [udt[s] EXCEPT !.pc = "wait", !.connecting = TRUE]
  OBVIOUS
<1>5. udt' = [udt EXCEPT ![s] = u]
  BY <1>4 DEF Start
<1>6. /\ u \in Socket /\ u.pc = "wait" /\ u.connecting /\ u.reqType = udt[s].reqType /\ u.res = udt[s].res
      /\ u.connected = udt[s].connected /\ u.late = udt[s].late /\ u.closed = udt[s].closed
      /\ u.ret = udt[s].ret
  BY <1>1, <1>4 DEF Socket
<1>7. Later(udt[s], u)
  BY <1>6 DEF Later
<1>8. ~udt[s].connected /\ udt[s].res.type # -2
  BY <1>1, <1>3 DEF SocketOK, Blank
<1>9. SocketOK(s)'
  BY <1>3, <1>5, <1>6, <1>7, <1>8, SocketStays
<1>10. SuccessOK(s)'
  BY <1>3, <1>5, <1>6, <1>7, SuccessStays
<1>11. ListsOK(s)
  BY <1>3, SameLists
<1>12. udt'[s].reqType = udt[s].reqType
  BY <1>3, <1>5, <1>6, <1>7, Monotone
<1>13. m \in Packet /\ PacketOK(m)'
  BY <1>2, <1>12, RequestOK
<1>14. QED
  BY <1>3, <1>5, <1>6, <1>7, <1>9, <1>10, <1>11, <1>13, StepSends

LEMMA AskKeeps ==
    ASSUME IInv, NEW s \in Sock, Resend(s) \/ WorkerResend(s)
    PROVE  IInv'
<1>1. PICK m : m = Request(s)
  OBVIOUS
<1>2. net' = net \cup {m} /\ UNCHANGED <<udt, queue, buffer>>
  BY <1>1 DEF Resend, WorkerResend
<1>3. m \in Packet /\ PacketOK(m)'
  BY <1>1, <1>2, RequestOK
<1>4. QED
  BY <1>2, <1>3, OnlySends

LEMMA SendLiveKeeps ==
    ASSUME IInv, NEW s \in Sock, SendLive(s)
    PROVE  IInv'
<1>1. udt[s] \in Socket
  BY DEF IInv, TypeOK
<1>2. PICK m : m = [src |-> s, dst |-> udt[s].res.id, kind |-> "live", hs |-> Blank]
  OBVIOUS
<1>3. net' = net \cup {m} /\ udt' = udt /\ UNCHANGED <<queue, buffer>> /\ udt[s].connected
  BY <1>2 DEF SendLive, Ctrl, Up
<1>4. m \in Packet
  BY <1>1, <1>2 DEF Packet, Socket, Handshake, Blank
<1>5. m.src = s /\ m.kind = "live" /\ m.hs.type = 0
  BY <1>2 DEF Blank
<1>6. PacketOK(m)'
  BY ONLY <1>3, <1>5 DEF PacketOK
<1>7. QED
  BY <1>3, <1>4, <1>6, OnlySends

\* Complete, TtlEnds, Timeout, Free and WorkerExpire.
LEMMA MovesKeep ==
    ASSUME IInv, NEW s \in Sock, Complete(s) \/ TtlEnds(s) \/ Timeout(s) \/ Free(s) \/ WorkerExpire(s)
    PROVE  IInv'
<1>1. SocketOK(s) /\ udt[s] \in Socket
  BY Parts DEF IInv, TypeOK
<1>2. CASE Complete(s)
  <2>1. PICK u : u = [[udt[s] EXCEPT !.pc = "done", !.ret = "ok"] EXCEPT !.connecting = FALSE, !.connected = TRUE]
    OBVIOUS
  <2>2. udt' = [udt EXCEPT ![s] = u] /\ udt[s].pc = "post" /\ UNCHANGED <<queue, buffer, net>>
    BY <1>2, <2>1 DEF Complete, Return
  <2>3. /\ u \in Socket /\ u.pc = "done" /\ u.reqType = udt[s].reqType /\ u.res = udt[s].res
        /\ u.connected /\ u.late = udt[s].late /\ u.closed = udt[s].closed
    BY <1>1, <2>1 DEF Socket
  <2>4. Later(udt[s], u)
    BY <2>3 DEF Later
  <2>5. QED
    BY <2>2, <2>3, <2>4, OnlyMoves
<1>3. CASE TtlEnds(s)
  <2>1. PICK u : u = [udt[s] EXCEPT !.late = TRUE]
    OBVIOUS
  <2>2. udt' = [udt EXCEPT ![s] = u] /\ udt[s].pc = "wait" /\ UNCHANGED <<queue, buffer, net>>
    BY <1>3, <2>1 DEF TtlEnds
  <2>3. /\ u \in Socket /\ u.pc = udt[s].pc /\ u.reqType = udt[s].reqType /\ u.res = udt[s].res
        /\ u.connected = udt[s].connected /\ u.late /\ u.closed = udt[s].closed /\ u.ret = udt[s].ret
    BY <1>1, <2>1 DEF Socket
  <2>4. Later(udt[s], u) /\ ~udt[s].connected
    BY <1>1, <2>2, <2>3 DEF Later, SocketOK
  <2>5. QED
    BY <2>2, <2>3, <2>4, OnlyMoves
<1>4. CASE Timeout(s)
  <2>1. PICK u : u = [udt[s] EXCEPT !.pc = "done", !.ret = "error"]
    OBVIOUS
  <2>2. udt' = [udt EXCEPT ![s] = u] /\ udt[s].pc = "wait" /\ UNCHANGED <<queue, buffer, net>>
    BY <1>4, <2>1 DEF Timeout
  <2>3. /\ u \in Socket /\ u.pc = "done" /\ u.reqType = udt[s].reqType /\ u.res = udt[s].res
        /\ u.connected = udt[s].connected /\ u.late = udt[s].late /\ u.closed = udt[s].closed
        /\ u.ret = "error"
    BY <1>1, <2>1 DEF Socket
  <2>4. Later(udt[s], u)
    BY <2>3 DEF Later
  <2>5. QED
    BY <2>2, <2>3, <2>4, OnlyMoves
<1>5. CASE Free(s)
  <2>1. PICK u : u = [udt[s] EXCEPT !.freed = TRUE]
    OBVIOUS
  <2>2. udt' = [udt EXCEPT ![s] = u] /\ UNCHANGED <<queue, buffer, net>>
    BY <1>5, <2>1 DEF Free
  <2>3. /\ u \in Socket /\ u.pc = udt[s].pc /\ u.reqType = udt[s].reqType /\ u.res = udt[s].res
        /\ u.connected = udt[s].connected /\ u.late = udt[s].late /\ u.closed = udt[s].closed
        /\ u.ret = udt[s].ret /\ u.connecting = udt[s].connecting
    BY <1>1, <2>1 DEF Socket
  <2>4. Later(udt[s], u)
    BY <2>3 DEF Later
  <2>5. (u.pc = "wait" => u.connecting \/ u.late) /\ (u.connected => u.pc = "done")
    BY <1>1, <2>3 DEF SocketOK
  <2>6. QED
    BY <2>2, <2>3, <2>4, <2>5, OnlyMoves
<1>6. CASE WorkerExpire(s)
  <2>1. PICK u : u = [udt[s] EXCEPT !.connecting = FALSE]
    OBVIOUS
  <2>2. udt' = [udt EXCEPT ![s] = u] /\ udt[s].late /\ UNCHANGED <<queue, buffer, net>>
    BY <1>6, <2>1 DEF WorkerExpire
  <2>3. /\ u \in Socket /\ u.pc = udt[s].pc /\ u.reqType = udt[s].reqType /\ u.res = udt[s].res
        /\ u.connected = udt[s].connected /\ u.late = udt[s].late /\ u.closed = udt[s].closed
        /\ u.ret = udt[s].ret
    BY <1>1, <2>1 DEF Socket
  <2>4. Later(udt[s], u) /\ (u.connected => u.pc = "done")
    BY <1>1, <2>3 DEF Later, SocketOK
  <2>5. QED
    BY <2>2, <2>3, <2>4, OnlyMoves
<1>7. QED
  BY <1>2, <1>3, <1>4, <1>5, <1>6
LEMMA CloseKeeps ==
    ASSUME IInv, NEW s \in Sock, Close(s)
    PROVE  IInv'
<1>1. SocketOK(s) /\ udt[s] \in Socket
  BY Parts DEF IInv, TypeOK
<1>2. PICK u : u = [udt[s] EXCEPT !.closed = TRUE]
  OBVIOUS
<1>3. udt' = [udt EXCEPT ![s] = u] /\ udt[s].pc = "done" /\ net \subseteq net'
  BY <1>2 DEF Close
<1>4. /\ u \in Socket /\ u.pc = udt[s].pc /\ u.reqType = udt[s].reqType /\ u.res = udt[s].res
      /\ u.connected = udt[s].connected /\ u.late = udt[s].late /\ u.closed /\ u.ret = udt[s].ret
  BY <1>1, <1>2 DEF Socket
<1>5. Later(udt[s], u)
  BY <1>4 DEF Later
<1>6. SocketOK(s)'
  BY <1>3, <1>4, <1>5, SocketStays
<1>7. SuccessOK(s)'
  BY <1>3, <1>4, <1>5, SuccessStays
<1>8. ListsOK(s)
  <2>1. CASE removeConnector(s)
    BY <1>3, <2>1, LeftLists
  <2>2. CASE UNCHANGED <<queue, buffer>>
    BY <1>3, <2>2, SameLists
  <2>3. QED
    BY <2>1, <2>2 DEF Close
<1>9. CASE UNCHANGED net
  BY <1>3, <1>4, <1>5, <1>6, <1>7, <1>8, <1>9, StepAlone
<1>10. CASE net' = net \cup {Ctrl(s, "shutdown")}
  <2>1. PICK m : m = [src |-> s, dst |-> udt[s].res.id, kind |-> "shutdown", hs |-> Blank]
    OBVIOUS
  <2>2. net' = net \cup {m}
    BY <1>10, <2>1 DEF Ctrl
  <2>3. m \in Packet
    BY <1>1, <2>1 DEF Packet, Socket, Handshake, Blank
  <2>4. m.src = s /\ m.kind = "shutdown" /\ m.hs.type = 0
    BY <2>1 DEF Blank
  <2>5. udt'[s].closed
    BY <1>3, <1>4, <1>5, Monotone
  <2>6. PacketOK(m)'
    BY ONLY <2>4, <2>5 DEF PacketOK
  <2>7. QED
    BY <1>3, <1>4, <1>5, <1>6, <1>7, <1>8, <2>2, <2>3, <2>6, StepSends
<1>11. QED
  BY <1>9, <1>10 DEF Close

\* The request that the worker sends too early is complete, or Torn.
LEMMA WorkerEarlyKeeps ==
    ASSUME IInv, NEW s \in Sock, WorkerEarly(s)
    PROVE  IInv'
<1>1. SocketOK(s) /\ udt[s] \in Socket
  BY Parts DEF IInv, TypeOK
<1>2. UNCHANGED <<udt, queue, buffer>> /\ udt[s].reqType = 0
  BY <1>1 DEF WorkerEarly, SocketOK
<1>3. PICK f \in SUBSET {"sty", "id", "isn"} :
         net' = net \cup {[Request(s) EXCEPT !.hs.sty = "sty" \in f,
                                             !.hs.id = IF "id" \in f THEN s ELSE None,
                                             !.hs.isn = IF "isn" \in f THEN s ELSE None]}
  BY DEF WorkerEarly
<1>4. PICK y, d, n : /\ y = ("sty" \in f)
                     /\ d = IF "id" \in f THEN s ELSE None
                     /\ n = IF "isn" \in f THEN s ELSE None
  OBVIOUS
<1>5. y \in BOOLEAN /\ d \in {None, s} /\ n \in {None, s}
  BY <1>4
<1>6. PICK m : m = [src |-> s, dst |-> udt[s].res.id, kind |-> "hs",
                    hs |-> [type |-> 0, id |-> d, isn |-> n, sty |-> y]]
  OBVIOUS
<1>7. net' = net \cup {m}
  <2>1. PICK r : r = Request(s)
    OBVIOUS
  <2>2. r = [src |-> s, dst |-> udt[s].res.id, kind |-> "hs",
             hs |-> [type |-> 0, id |-> s, isn |-> s, sty |-> TRUE]]
    BY <1>2, <2>1 DEF Request
  <2>3. net' = net \cup {[r EXCEPT !.hs.sty = y, !.hs.id = d, !.hs.isn = n]}
    <3>1. net' = net \cup {[r EXCEPT !.hs.sty = "sty" \in f,
                                     !.hs.id = IF "id" \in f THEN s ELSE None,
                                     !.hs.isn = IF "isn" \in f THEN s ELSE None]}
      BY ONLY <1>3, <2>1
    <3>2. QED
      BY ONLY <1>4, <3>1
  <2>4. [r EXCEPT !.hs.sty = y, !.hs.id = d, !.hs.isn = n] = m
    <3>1. PICK j, k : j = [r EXCEPT !.hs.sty = y] /\ k = [j EXCEPT !.hs.id = d]
      OBVIOUS
    <3>2. j = [src |-> s, dst |-> udt[s].res.id, kind |-> "hs",
               hs |-> [type |-> 0, id |-> s, isn |-> s, sty |-> y]]
      BY ONLY <2>2, <3>1
    <3>3. k = [src |-> s, dst |-> udt[s].res.id, kind |-> "hs",
               hs |-> [type |-> 0, id |-> d, isn |-> s, sty |-> y]]
      <4>1. j.hs = [type |-> 0, id |-> s, isn |-> s, sty |-> y]
        BY ONLY <3>2
      <4>2. [j.hs EXCEPT !.id = d] = [type |-> 0, id |-> d, isn |-> s, sty |-> y]
        BY ONLY <4>1
      <4>3. k = [j EXCEPT !.hs = [j.hs EXCEPT !.id = d]]
        BY ONLY <3>1
      <4>4. QED
        BY ONLY <3>2, <4>2, <4>3
    <3>4. [k EXCEPT !.hs.isn = n] = m
      BY ONLY <1>6, <3>3
    <3>5. QED
      BY ONLY <3>1, <3>4
  <2>5. QED
    BY <2>3, <2>4
<1>8. udt[s].res.id \in Sock \cup {None}
  BY <1>1 DEF Socket, Handshake
<1>9. m \in Packet
  BY <1>5, <1>6, <1>8 DEF Packet, Handshake
<1>10. /\ m.src = s /\ m.kind = "hs" /\ m.hs = [type |-> 0, id |-> d, isn |-> n, sty |-> y]
       /\ m.hs.type = 0 /\ m.hs.id = d /\ m.hs.isn = n /\ m.hs.sty = y
  BY <1>6
<1>11. Torn(s)' \/ (m.hs.id = s /\ m.hs.isn = s /\ m.hs.sty)
  <2>1. CASE m.hs # [type |-> 0, id |-> s, isn |-> s, sty |-> TRUE]
    BY <1>7, <1>10, <2>1 DEF Torn
  <2>2. CASE m.hs = [type |-> 0, id |-> s, isn |-> s, sty |-> TRUE]
    BY <2>2
  <2>3. QED
    BY <2>1, <2>2
<1>12. PacketOK(m)'
  BY ONLY <1>5, <1>10, <1>11 DEF PacketOK
<1>13. QED
  BY <1>2, <1>7, <1>9, <1>12, OnlySends

\* The packet is kept for the socket that its sender calls ...
LEMMA StoredKeeps ==
    ASSUME IInv, NEW p \in net, NEW h, h = To[p.src], Matches(h, p) # {}, Stored(Retrieve(h, p), p),
           UNCHANGED <<udt, queue, net>>
    PROVE  IInv'
<1>1. TypeOK /\ BufferInv
  BY DEF IInv
<1>2. p \in Packet /\ p.src \in Sock /\ h \in Host /\ At \in [Sock -> Host] /\ To \in [Sock -> Host] /\ BufLimit \in Nat
  BY <1>1, RendezvousAssumption DEF TypeOK, Packet
<1>3. PICK q : q = queue[h]
  OBVIOUS
<1>4. q \in Seq(Sock) /\ \A t \in ToSet(q) : At[t] = h
  BY <1>1, <1>2, <1>3 DEF TypeOK, Entries
<1>5. PICK M : M = Matches(h, p)
  OBVIOUS
<1>6. M \in SUBSET Nat /\ M # {} /\ \A i \in M : i \in DOMAIN q /\ To[q[i]] = At[p.src]
  BY <1>3, <1>4, <1>5 DEF Matches
<1>7. PICK i : i = Min(M)
  OBVIOUS
<1>8. i \in M
  BY <1>6, <1>7, MinIn
<1>9. PICK s : s = q[i]
  OBVIOUS
<1>10. s = Retrieve(h, p)
  BY <1>3, <1>5, <1>7, <1>9 DEF Retrieve
<1>11. s \in Sock /\ At[s] = h /\ To[s] = At[p.src]
  BY <1>4, <1>6, <1>8, <1>9 DEF ToSet
<1>12. Mate(s, p.src)
  BY <1>11 DEF Mate
<1>13. buffer' = IF Len(buffer[s]) > BufLimit THEN buffer ELSE [buffer EXCEPT ![s] = Append(@, p)]
  BY <1>10 DEF Stored
<1>14. ListsOK(s)
  <2>1. CASE buffer' = buffer
    BY <1>11, <2>1, SameLists
  <2>2. CASE ~(Len(buffer[s]) > BufLimit) /\ buffer' = [buffer EXCEPT ![s] = Append(@, p)]
    <3>1. PICK b : b = buffer[s]
      OBVIOUS
    <3>2. b \in Seq(Packet) /\ Len(b) <= BufLimit /\ buffer \in [Sock -> Seq(Packet)]
      BY <1>1, <1>2, <1>11, <2>2, <3>1 DEF TypeOK
    <3>3. /\ Append(b, p) \in Seq(Packet) /\ Len(Append(b, p)) <= BufLimit + 1
          /\ \A j \in DOMAIN Append(b, p) : Append(b, p)[j] = p \/ (j \in DOMAIN b /\ Append(b, p)[j] = b[j])
      BY <1>2, <3>2
    <3>4. /\ buffer'[s] = Append(b, p) /\ (\A t \in Sock \ {s} : buffer'[t] = buffer[t])
          /\ buffer' \in [Sock -> Seq(Packet)]
      BY <1>11, <2>2, <3>1, <3>2, <3>3
    <3>5. \A t \in Sock : Len(buffer'[t]) <= BufLimit + 1
      BY <1>1, <3>3, <3>4 DEF TypeOK
    <3>6. BufferInv'
      <4>1. ASSUME NEW t \in Sock, NEW j \in DOMAIN buffer'[t]
            PROVE  buffer'[t][j] \in net' /\ Mate(t, buffer'[t][j].src)
        <5>1. CASE t = s
          BY <1>1, <1>12, <3>1, <3>3, <3>4, <4>1, <5>1 DEF BufferInv
        <5>2. CASE t # s
          BY <1>1, <3>4, <4>1, <5>2 DEF BufferInv
        <5>3. QED
          BY <5>1, <5>2
      <4>2. QED
        BY <4>1 DEF BufferInv, Mate
    <3>7. \A g \in Host : Entries(g)' = Entries(g)
      BY DEF Entries
    <3>8. QED
      BY <1>1, <3>4, <3>5, <3>6, <3>7 DEF TypeOK, ListsOK
  <2>3. QED
    BY <1>13, <2>1, <2>2
<1>15. PICK u : u = udt[s]
  OBVIOUS
<1>16. u \in Socket /\ udt' = [udt EXCEPT ![s] = u] /\ Later(udt[s], u)
  BY <1>1, <1>11, <1>15 DEF TypeOK, Later
<1>17. SocketOK(s) /\ Entries(At[s])' = Entries(At[s])
  BY <1>11, Parts DEF IInv, Entries
<1>18. SocketOK(s)'
  BY <1>11, <1>15, <1>16, <1>17, SocketStays DEF SocketOK
<1>19. SuccessOK(s)'
  BY <1>11, <1>15, <1>16, SuccessStays
<1>20. QED
  BY ONLY IInv, UNCHANGED net, <1>11, <1>14, <1>16, <1>18, <1>19, StepAlone

\* ... or a connected socket answers it, or breaks.
LEMMA CtrlKeeps ==
    ASSUME IInv, NEW p \in net, NEW s \in Sock, Up(s), ProcessCtrl(s, p)
    PROVE  IInv'
<1>1. SocketOK(s) /\ udt[s] \in Socket /\ udt[s].connected
  BY Parts DEF IInv, TypeOK, Up
<1>2. PICK b : b = (p.kind = "shutdown")
  OBVIOUS
<1>3. PICK u : u = [udt[s] EXCEPT !.broken = b]
  OBVIOUS
<1>4. udt' = [udt EXCEPT ![s] = u] /\ net \subseteq net' /\ UNCHANGED <<queue, buffer>>
  BY <1>2, <1>3 DEF ProcessCtrl
<1>5. /\ u \in Socket /\ u.pc = udt[s].pc /\ u.reqType = udt[s].reqType /\ u.res = udt[s].res
      /\ u.connected = udt[s].connected /\ u.late = udt[s].late /\ u.closed = udt[s].closed
      /\ u.ret = udt[s].ret
  BY <1>1, <1>2, <1>3 DEF Socket
<1>6. Later(udt[s], u) /\ u.pc = "done"
  BY <1>1, <1>5 DEF Later, SocketOK
<1>7. SocketOK(s)'
  BY <1>1, <1>4, <1>5, <1>6, SocketStays
<1>8. SuccessOK(s)'
  BY <1>4, <1>5, <1>6, SuccessStays
<1>9. ListsOK(s)
  BY <1>4, SameLists
<1>10. CASE UNCHANGED net
  BY <1>4, <1>5, <1>6, <1>7, <1>8, <1>9, <1>10, StepAlone
<1>11. CASE net' # net
  <2>1. PICK m : m = [src |-> s, dst |-> udt[s].res.id, kind |-> "hs",
                      hs |-> [type |-> -2, id |-> s, isn |-> s, sty |-> FALSE]]
    OBVIOUS
  <2>2. net' = net \cup {m}
    BY <1>11, <2>1 DEF ProcessCtrl, Ctrl
  <2>3. m \in Packet
    BY <1>1, <2>1 DEF Packet, Socket, Handshake
  <2>4. m.src = s /\ m.kind = "hs" /\ m.hs.type = -2 /\ m.hs.id = s /\ m.hs.isn = s
    BY <2>1
  <2>5. udt'[s].connected
    BY <1>1, <1>4, <1>5, <1>6, Monotone
  <2>6. PacketOK(m)'
    BY ONLY <2>4, <2>5 DEF PacketOK
  <2>7. QED
    BY <1>4, <1>5, <1>6, <1>7, <1>8, <1>9, <2>2, <2>3, <2>6, StepSends
<1>12. QED
  BY <1>10, <1>11

LEMMA DeliverKeeps ==
    ASSUME IInv, NEW p \in net, Deliver(p)
    PROVE  IInv'
<1>1. p \in Packet
  BY DEF IInv, TypeOK
<1>2. PICK h, s : h = To[p.src] /\ s = p.dst
  OBVIOUS
<1>3. CASE s # None /\ Up(s) /\ ProcessCtrl(s, p)
  <2>1. s \in Sock
    BY <1>1, <1>2, <1>3 DEF Packet
  <2>2. QED
    BY <1>3, <2>1, CtrlKeeps
<1>4. CASE Matches(h, p) # {} /\ Stored(Retrieve(h, p), p) /\ UNCHANGED <<udt, queue, net>>
  BY <1>2, <1>4, StoredKeeps
<1>5. QED
  BY <1>2, <1>3, <1>4 DEF Deliver
\* A pair of addresses is used once, so that there is one other end.
LEMMA OneMate ==
    ASSUME NEW s \in Sock, NEW t \in Sock, Mate(s, t)
    PROVE  Mate(t, s) /\ \A v \in Sock : Mate(s, v) => v = t
BY RendezvousAssumption DEF Mate

\* What a socket that waits knows of the sender of a packet that was kept for it.
LEMMA Sender ==
    ASSUME IInv, NEW s \in Sock, udt[s].pc = "wait", NEW p \in net, Mate(s, p.src)
    PROVE  /\ p \in Packet /\ p.src \in Sock /\ udt[s] \in Socket /\ udt[p.src] \in Socket
           /\ ~udt[s].connected /\ udt[s].res.type # -2 /\ (udt[s].connecting \/ udt[s].late)
           /\ udt[p.src].connected => udt[p.src].reqType = -1 /\ udt[s].reqType = -1
           /\ udt[s].reqType = 0 => udt[s].res = Blank
           /\ udt[s].reqType # 0 => udt[s].res.sty \/ Torn(p.src)
           /\ \A t \in Sock : Mate(s, t) => t = p.src
<1>1. p \in Packet /\ p.src \in Sock
  BY DEF IInv, TypeOK, Packet
<1>2. udt[s] \in Socket /\ udt[p.src] \in Socket
  BY <1>1 DEF IInv, TypeOK
<1>3. Mate(p.src, s) /\ \A t \in Sock : Mate(s, t) => t = p.src
  BY <1>1, OneMate
<1>4. SocketOK(s) /\ SocketOK(p.src) /\ \A q \in net : PacketOK(q)
  BY <1>1, Parts DEF IInv
<1>5. ~udt[s].connected /\ udt[s].res.type # -2 /\ (udt[s].connecting \/ udt[s].late)
  BY <1>4 DEF SocketOK
<1>6. udt[p.src].connected => udt[p.src].reqType = -1 /\ udt[s].reqType = -1
  BY <1>3, <1>4 DEF SocketOK
<1>7. udt[s].reqType = 0 => udt[s].res = Blank
  BY <1>4 DEF SocketOK
<1>8. ASSUME udt[s].reqType # 0
      PROVE  udt[s].res.sty \/ Torn(p.src)
  <2>1. PICK q \in net : q.kind = "hs" /\ Mate(s, q.src) /\ q.hs = udt[s].res
    BY <1>4, <1>8 DEF SocketOK, Answered
  <2>2. q.src = p.src
    BY <1>3, <2>1 DEF IInv, TypeOK, Packet
  <2>3. PacketOK(q)
    BY <1>4, <2>1
  <2>4. QED
    BY <1>5, <2>1, <2>2, <2>3 DEF PacketOK
<1>9. QED
  BY <1>1, <1>2, <1>3, <1>5, <1>6, <1>7, <1>8

\* connect(response) on the packet p of the other end: a response is recorded,
\* or the loop ends.
LEMMA ResponseOK ==
    ASSUME IInv, NEW s \in Sock, udt[s].pc = "wait", NEW p \in net, Mate(s, p.src),
           NEW u, u = Response(udt[s], p), udt' = [udt EXCEPT ![s] = u], UNCHANGED net
    PROVE  u \in Socket /\ Later(udt[s], u) /\ SocketOK(s)' /\ SuccessOK(s)'
<1>1. PICK w, t : w = udt[s] /\ t = p.src
  OBVIOUS
<1>2. /\ p \in Packet /\ t \in Sock /\ w \in Socket /\ udt[t] \in Socket
      /\ ~w.connected /\ w.res.type # -2 /\ (w.connecting \/ w.late)
      /\ udt[t].connected => udt[t].reqType = -1 /\ w.reqType = -1
      /\ w.reqType = 0 => w.res = Blank
      /\ w.reqType # 0 => w.res.sty \/ Torn(t)
      /\ \A v \in Sock : Mate(s, v) => v = t
  BY <1>1, Sender
<1>3. PacketOK(p) /\ SocketOK(s)
  BY Parts DEF IInv
<1>4. p.kind \in {"hs", "live", "shutdown"} /\ p.hs \in Handshake /\ w.reqType \in {0, -1} /\ p.hs.type \in {0, -1, -2}
  BY <1>2 DEF Packet, Socket, Handshake
<1>5. u = Response(w, p) /\ w.pc = "wait" /\ Mate(s, t)
  BY <1>1
<1>6. CASE ~w.connecting
  <2>1. u = [w EXCEPT !.pc = "done", !.ret = "ok"]
    BY <1>5, <1>6 DEF Response, Return
  <2>2. /\ u \in Socket /\ u.pc = "done" /\ u.reqType = w.reqType /\ u.res = w.res
        /\ u.connected = w.connected /\ u.late = w.late /\ u.closed = w.closed
    BY <1>2, <2>1 DEF Socket
  <2>3. Later(udt[s], u)
    BY <1>1, <2>2 DEF Later
  <2>4. SocketOK(s)'
    BY <1>1, <1>2, <2>2, <2>3, SocketStays
  <2>5. udt'[s] = u /\ u.late
    BY <1>2, <1>6, <2>2, <2>3, Monotone
  <2>6. SuccessOK(s)'
    BY ONLY <2>5 DEF SuccessOK
  <2>7. QED
    BY <2>2, <2>3, <2>4, <2>6
<1>7. CASE w.connecting /\ p.kind = "live" /\ w.res.sty
  <2>1. u = [w EXCEPT !.pc = "post"]
    BY <1>5, <1>7 DEF Response
  <2>2. /\ u \in Socket /\ u.pc = "post" /\ u.reqType = w.reqType /\ u.res = w.res
        /\ u.connected = w.connected /\ u.late = w.late /\ u.closed = w.closed /\ u.ret = w.ret
    BY <1>2, <2>1 DEF Socket
  <2>3. Later(udt[s], u)
    BY <1>1, <2>2 DEF Later
  <2>4. w.reqType = -1 /\ udt[t].reqType = -1
    BY <1>1, <1>2, <1>3, <1>4, <1>7 DEF PacketOK, Blank
  <2>5. SocketOK(s)'
    <3>1. /\ udt'[s] = u
          /\ \A v \in Sock : udt[v].reqType = -1 => udt'[v].reqType = -1
          /\ Answered(s) => Answered(s)'
      BY <1>1, <2>2, <2>3, Monotone
    <3>2. Answered(s)
      BY <1>1, <1>3, <2>4 DEF SocketOK
    <3>3. \A v \in Sock : Mate(s, v) => udt'[v].reqType = -1
      BY <1>2, <2>4, <3>1
    <3>4. QED
      BY ONLY <1>2, <2>2, <2>4, <3>1, <3>2, <3>3 DEF SocketOK, Mate
  <2>6. SuccessOK(s)'
    BY <1>1, <2>2, <2>3, SuccessStays
  <2>7. QED
    BY <2>2, <2>3, <2>5, <2>6
<1>8. CASE w.connecting /\ ~(p.kind = "live" /\ w.res.sty) /\ p.kind # "hs"
  <2>1. u = [w EXCEPT !.pc = "done", !.ret = "ok"]
    BY <1>5, <1>8 DEF Response, Return
  <2>2. /\ u \in Socket /\ u.pc = "done" /\ u.reqType = w.reqType /\ u.res = w.res
        /\ u.connected = w.connected /\ u.late = w.late /\ u.closed = w.closed
    BY <1>2, <2>1 DEF Socket
  <2>3. Later(udt[s], u)
    BY <1>1, <2>2 DEF Later
  <2>4. SocketOK(s)'
    BY <1>1, <1>2, <2>2, <2>3, SocketStays
  <2>5. udt[t].closed \/ Torn(t)
    BY <1>1, <1>2, <1>3, <1>4, <1>8 DEF PacketOK
  <2>6. udt'[t].closed \/ Torn(t)'
    BY <1>2, <2>2, <2>3, <2>5, Monotone
  <2>7. At[t] = To[s]
    BY <1>5 DEF Mate
  <2>8. SuccessOK(s)'
    BY ONLY <1>2, <2>6, <2>7 DEF SuccessOK
  <2>9. QED
    BY <2>2, <2>3, <2>4, <2>8
<1>9. CASE w.connecting /\ p.kind = "hs" /\ (w.reqType = 0 \/ p.hs.type = 0)
  <2>1. u = [w EXCEPT !.res = p.hs, !.reqType = -1]
    BY <1>5, <1>9 DEF Response
  <2>2. /\ u \in Socket /\ u.pc = "wait" /\ u.reqType = -1 /\ u.res = p.hs /\ u.connecting
        /\ u.connected = w.connected /\ u.late = w.late /\ u.closed = w.closed /\ u.ret = w.ret
    BY <1>2, <1>4, <1>5, <1>9, <2>1 DEF Socket
  <2>3. Later(udt[s], u)
    BY <1>1, <2>2 DEF Later
  <2>4. p.hs.type # -2
    BY <1>1, <1>2, <1>3, <1>4, <1>9 DEF PacketOK
  <2>5. udt'[s] = u
    BY <2>2, <2>3, Monotone
  <2>6. Answered(s)'
    BY <1>1, <1>5, <1>9, <2>2, <2>5 DEF Answered, Mate
  <2>7. SocketOK(s)'
    BY ONLY <1>2, <2>2, <2>4, <2>5, <2>6 DEF SocketOK
  <2>8. SuccessOK(s)'
    BY <1>1, <2>2, <2>3, SuccessStays
  <2>9. QED
    BY <2>2, <2>3, <2>7, <2>8
<1>10. CASE w.connecting /\ p.kind = "hs" /\ ~(w.reqType = 0 \/ p.hs.type = 0)
  <2>1. u = [w EXCEPT !.res = p.hs, !.pc = "post"]
    BY <1>5, <1>10 DEF Response
  <2>2. /\ u \in Socket /\ u.pc = "post" /\ u.reqType = w.reqType /\ u.res = p.hs
        /\ u.connected = w.connected /\ u.late = w.late /\ u.closed = w.closed /\ u.ret = w.ret
    BY <1>2, <1>4, <1>5, <1>10, <2>1 DEF Socket
  <2>3. Later(udt[s], u)
    BY <1>1, <2>2 DEF Later
  <2>4. w.reqType = -1 /\ udt[t].reqType = -1
    BY <1>1, <1>2, <1>3, <1>4, <1>10 DEF PacketOK
  <2>5. udt'[s] = u /\ \A v \in Sock : udt[v].reqType = -1 => udt'[v].reqType = -1
    BY <2>2, <2>3, Monotone
  <2>6. Answered(s)'
    BY <1>1, <1>5, <1>10, <2>2, <2>5 DEF Answered, Mate
  <2>7. \A v \in Sock : Mate(s, v) => udt'[v].reqType = -1
    BY <1>2, <2>4, <2>5
  <2>8. SocketOK(s)'
    BY ONLY <1>2, <2>2, <2>4, <2>5, <2>6, <2>7 DEF SocketOK, Mate
  <2>9. SuccessOK(s)'
    BY <1>1, <2>2, <2>3, SuccessStays
  <2>10. QED
    BY <2>2, <2>3, <2>8, <2>9
<1>11. QED
  BY <1>6, <1>7, <1>8, <1>9, <1>10

LEMMA RespondKeeps ==
    ASSUME IInv, NEW s \in Sock, Respond(s)
    PROVE  IInv'
<1>1. TypeOK /\ BufferInv
  BY DEF IInv
<1>2. PICK p : p = Head(buffer[s])
  OBVIOUS
<1>3. p \in net /\ Mate(s, p.src)
  <2>1. buffer[s] \in Seq(Packet) /\ buffer[s] # <<>>
    BY <1>1 DEF TypeOK, Respond
  <2>2. 1 \in DOMAIN buffer[s] /\ p = buffer[s][1]
    BY <1>2, <2>1
  <2>3. QED
    BY <1>1, <2>2 DEF BufferInv
<1>4. PICK u : u = Response(udt[s], p)
  OBVIOUS
<1>5. udt[s].pc = "wait" /\ buffer[s] # <<>> /\ udt' = [udt EXCEPT ![s] = u] /\ UNCHANGED net
  BY <1>2, <1>4 DEF Respond
<1>6. u \in Socket /\ Later(udt[s], u) /\ SocketOK(s)' /\ SuccessOK(s)'
  BY <1>3, <1>4, <1>5, ResponseOK
<1>7. ListsOK(s)
  <2>1. CASE removeConnector(s)
    BY <1>5, <2>1, LeftLists
  <2>2. CASE buffer' = [buffer EXCEPT ![s] = Tail(@)] /\ UNCHANGED queue
    BY <1>5, <2>2, TookPacket
  <2>3. QED
    BY <2>1, <2>2 DEF Respond
<1>8. QED
  BY <1>5, <1>6, <1>7, StepAlone

-----------------------------------------------------------------------------
(* The two ends.                                                           *)

\* What a socket that has recorded a response knows of the other end.
LEMMA Recorded ==
    ASSUME IInv, NEW s \in Sock, udt[s].reqType # 0
    PROVE  \E t \in Sock : /\ Mate(s, t) /\ udt[s].res.id \in {None, t}
                           /\ Torn(t) \/ (udt[s].res.id = t /\ udt[s].res.isn = t)
<1>1. SocketOK(s)
  BY Parts DEF IInv
<1>2. PICK q \in net : q.kind = "hs" /\ Mate(s, q.src) /\ q.hs = udt[s].res
  BY <1>1 DEF SocketOK, Answered
<1>3. PacketOK(q) /\ q.src \in Sock
  BY <1>2, Parts DEF IInv, TypeOK, Packet
<1>4. udt[s].res.id \in {None, q.src} /\ (Torn(q.src) \/ (udt[s].res.id = q.src /\ udt[s].res.isn = q.src))
  BY <1>2, <1>3 DEF PacketOK
<1>5. QED
  BY <1>2, <1>3, <1>4

\* A connected socket and the other end both have a response.
LEMMA BothRecorded ==
    ASSUME IInv, NEW s \in Sock, Up(s)
    PROVE  \E t \in Sock : /\ Mate(s, t) /\ udt[s].res.id \in {None, t}
                           /\ Torn(t) \/ (udt[s].res.id = t /\ udt[s].res.isn = t)
                           /\ udt[t].res.id = s \/ Torn(s)
<1>1. SocketOK(s) /\ udt[s].connected
  BY Parts DEF IInv, Up
<1>2. udt[s].reqType = -1 /\ \A t \in Sock : Mate(s, t) => udt[t].reqType = -1
  BY <1>1 DEF SocketOK
<1>3. PICK t \in Sock : /\ Mate(s, t) /\ udt[s].res.id \in {None, t}
                        /\ Torn(t) \/ (udt[s].res.id = t /\ udt[s].res.isn = t)
  BY <1>2, Recorded
<1>4. PICK v \in Sock : Mate(t, v) /\ (Torn(v) \/ udt[t].res.id = v)
  BY <1>2, <1>3, Recorded
<1>5. v = s
  BY <1>3, <1>4, OneMate
<1>6. QED
  BY <1>3, <1>4, <1>5

LEMMA InvAgrees ==
    ASSUME IInv
    PROVE  EndsAgree
<1>1. None \notin Sock
  BY RendezvousAssumption
<1>2. ASSUME NEW s \in Sock, Up(s)
      PROVE  \/ \E t \in Sock : At[t] = To[s] /\ To[t] = At[s] /\ Torn(t)
             \/ /\ udt[s].res.id # None /\ At[udt[s].res.id] = To[s] /\ udt[s].res.isn = udt[s].res.id
                /\ Up(udt[s].res.id) => udt[udt[s].res.id].res.id = s \/ Torn(s)
  <2>1. PICK t \in Sock : /\ Mate(s, t)
                          /\ Torn(t) \/ (udt[s].res.id = t /\ udt[s].res.isn = t)
                          /\ udt[t].res.id = s \/ Torn(s)
    BY <1>2, BothRecorded
  <2>2. QED
    BY <1>1, <2>1 DEF Mate
<1>3. ASSUME NEW s \in Sock, Up(s), udt[s].res.id # None
      PROVE  udt[udt[s].res.id].res.id = s \/ Torn(s)
  <2>1. PICK t \in Sock : udt[s].res.id \in {None, t} /\ (udt[t].res.id = s \/ Torn(s))
    BY <1>3, BothRecorded
  <2>2. QED
    BY <1>3, <2>1
<1>4. Agreement
  BY <1>2 DEF Agreement
<1>5. PeerKnows
  BY <1>3 DEF PeerKnows
<1>6. QED
  BY <1>4, <1>5 DEF IInv, EndsAgree

LEMMA InitInv ==
    ASSUME Init
    PROVE  IInv
<1>1. /\ udt = [s \in Sock |-> NewSocket] /\ queue = [h \in Host |-> <<>>]
      /\ buffer = [s \in Sock |-> <<>>] /\ net = {}
  BY DEF Init
<1>2. NewSocket \in Socket
  BY DEF NewSocket, Socket, Blank, Handshake
<1>3. <<>> \in Seq(Sock) /\ <<>> \in Seq(Packet) /\ Len(<<>>) = 0 /\ DOMAIN <<>> = {}
  OBVIOUS
<1>4. \A h \in Host : IsInjective(queue[h]) /\ Entries(h) = {}
  BY <1>1, <1>3 DEF IsInjective, Entries, ToSet
<1>5. TypeOK
  BY <1>1, <1>2, <1>3, <1>4, RendezvousAssumption DEF TypeOK
<1>6. NetInv /\ BufferInv
  BY <1>1, <1>3 DEF NetInv, BufferInv
<1>7. ASSUME NEW s \in Sock
      PROVE  SocketOK(s) /\ SuccessOK(s)
  <2>1. /\ udt[s].pc = "new" /\ udt[s].reqType = 0 /\ udt[s].res = Blank /\ ~udt[s].connected
        /\ udt[s].ret = "none" /\ At[s] \in Host
    BY <1>1, RendezvousAssumption DEF NewSocket
  <2>2. QED
    BY <1>4, <2>1 DEF SocketOK, SuccessOK
<1>8. QED
  BY <1>5, <1>6, <1>7, Parts DEF IInv

LEMMA StepInv ==
    ASSUME IInv, [Next]_vars
    PROVE  IInv'
<1>1. ASSUME NEW s \in Sock,
             \/ Register(s) \/ Start(s) \/ Resend(s) \/ Respond(s) \/ Complete(s)
             \/ TtlEnds(s) \/ Timeout(s) \/ Close(s) \/ Free(s)
             \/ WorkerResend(s) \/ WorkerEarly(s) \/ WorkerExpire(s) \/ SendLive(s)
      PROVE  IInv'
  BY <1>1, RegisterKeeps, StartKeeps, AskKeeps, RespondKeeps, MovesKeep, CloseKeeps,
     WorkerEarlyKeeps, SendLiveKeeps
<1>2. ASSUME NEW p \in net, Deliver(p)
      PROVE  IInv'
  BY <1>2, DeliverKeeps
<1>3. CASE UNCHANGED vars
  <2>1. udt' = udt /\ queue' = queue /\ buffer' = buffer /\ net' = net
    BY <1>3 DEF vars
  <2>2. TypeOK' /\ BufferInv'
    BY <2>1 DEF IInv, TypeOK, BufferInv, Entries, Mate
  <2>3. NetInv'
    BY <2>1 DEF IInv, NetInv, Torn
  <2>4. SocketInv'
    BY <2>1 DEF IInv, SocketInv, Entries, Mate, Answered, Blank
  <2>5. NoFalseSuccess'
    BY <2>1 DEF IInv, NoFalseSuccess, Torn
  <2>6. QED
    BY <2>2, <2>3, <2>4, <2>5 DEF IInv
<1>4. QED
  BY <1>1, <1>2, <1>3 DEF Next

\* The two ends of a rendezvous connection agree (CUDT::connect, connect(response)
\* and POST_CONNECT): whatever is lost, repeated or delayed, the peer that a
\* connected socket has recorded is the one socket that calls it, with the ISN
\* that socket sends from; the peer has this socket recorded too, even while only
\* one of them is connected; and connect() returns success without a connection
\* only when its time is over or the peer is gone.  The one exception is a peer
\* whose request the worker sent before connect() had filled it in.
THEOREM RendezvousCorrect == Spec => []EndsAgree
<1>1. Init => IInv
  BY InitInv
<1>2. IInv /\ [Next]_vars => IInv'
  BY StepInv
<1>3. IInv => EndsAgree
  BY InvAgrees
<1>4. QED
  BY <1>1, <1>2, <1>3, PTL DEF Spec
=============================================================================
