------------------------ MODULE SecureTransportProofs ------------------------
(***************************************************************************)
(* What a SecureTransport promises, for any number of tasks, datagrams and *)
(* faults.                                                                 *)
(***************************************************************************)
EXTENDS SecureTransport, SequenceTheorems, TLAPS

IInv == TypeOK /\ SealInv /\ DatagramInv /\ OpenInv

\* The bound on the nonces is large enough for either side.
LEMMA NonceBound == \A s \in Side : MaxSent[s] \in Nat /\ 0..MaxSent[s] \subseteq Nonce
  <1> DEFINE i == MaxSent["initiator"]  r == MaxSent["responder"]  S == Range(MaxSent)
  <1>1. i \in Nat /\ r \in Nat /\ S = {i, r}
    BY TransportAssumption DEF Side, Range
  <1>2. \E x \in S : \A y \in S : x >= y
    <2> HIDE DEF i, r
    <2>1. CASE i >= r
      BY <1>1, <2>1
    <2>2. CASE r >= i
      BY <1>1, <2>2
    <2> QED BY <1>1, <2>1, <2>2
  <1>3. Max(S) \in S /\ \A y \in S : Max(S) >= y
    BY <1>2 DEF Max
  <1> QED BY <1>1, <1>3 DEF Nonce, Side

LEMMA InitTypes == Init => TypeOK
  BY NonceBound, TransportAssumption DEF Init, TypeOK, Side, Datagram, None, Nonce, Finished

LEMMA InitInv == Init => IInv /\ HandshakeInv
  <1> SUFFICES ASSUME Init PROVE IInv /\ HandshakeInv
    OBVIOUS
  <1>1. TypeOK
    BY InitTypes
  <1>2. SealInv
    BY TransportAssumption DEF Init, SealInv
  <1>3. DatagramInv
    BY DEF Init, DatagramInv, Genuine, Authentic, None
  <1>4. OpenInv
    BY DEF Init, OpenInv, IsInjective, Bodies, Range
  <1>5. HandshakeInv
    BY DEF Init, HandshakeInv, Side, Connected, Finished, Failed, Idle
  <1> QED BY <1>1, <1>2, <1>3, <1>4, <1>5 DEF IInv

\* What Next does, one disjunct for each action.
LEMMA Steps ==
    ASSUME [Next]_vars, NEW P,
           \A s \in Side : WriteHandshake(s) => P,
           \A s \in Side : ReadHandshake(s) => P,
           \A s \in Side, t \in SendTask : Seal(s, t) => P,
           \A s \in Side, t \in SendTask : Hand(s, t) => P,
           \A s \in Side, t \in SendTask : GiveUp(s, t) => P,
           \A s \in Side, t \in RecvTask : Take(s, t) => P,
           \A s \in Side, t \in RecvTask : Open(s, t) => P,
           \A s \in Side : Fault(s) => P,
           Break => P,
           UNCHANGED vars => P
    PROVE  P
  BY DEF Next, Connect, Recv

LEMMA PeerType == \A s \in Side : Peer(s) \in Side /\ Peer(Peer(s)) = s /\ Peer(s) # s
  BY DEF Peer, Side

LEMMA TypeStep ==
    ASSUME TypeOK, SealInv, [Next]_vars
    PROVE  TypeOK'
  <1> DEFINE M == [hs : 0..1] \cup Datagram
  <1>h. hs \in [Side -> 0..2 \cup {9}]
    BY DEF TypeOK, Finished, Failed
  <1>c. chan \in [Side -> Seq(M)]
    BY DEF TypeOK
  <1>s. sending \in [Side -> [SendTask -> Datagram]]
    BY DEF TypeOK
  <1>g. holding \in [Side -> [RecvTask -> Seq(Datagram)]] /\ \A s \in Side, t \in RecvTask : Len(holding[s][t]) <= 1
    BY DEF TypeOK
  <1>f. faults \in 0..MaxFaults
    BY DEF TypeOK
  <1>i. incoming \in [Side -> SUBSET Nonce] /\ arrived \in [Side -> SUBSET Nat]
    BY DEF TypeOK
  <1>o. outgoing \in [Side -> Nat] /\ sealed \in [Side -> Seq(Nonce)] /\ opened \in [Side -> Seq(Nat)]
    BY DEF TypeOK
  <1>m. HsMessage(0) \in M /\ HsMessage(1) \in M
    BY DEF HsMessage
  <1> HIDE DEF M
  <1>1. ASSUME NEW s \in Side, WriteHandshake(s) PROVE TypeOK'
    <2>1. hs[s] \in {0, 1} /\ HsMessage(hs[s]) \in M
      BY <1>1, <1>m DEF WriteHandshake, is_my_turn
    <2>a. \/ hs' = [hs EXCEPT ![s] = hs[s] + 1] \/ hs' = [hs EXCEPT ![s] = 9]
      BY <1>1 DEF WriteHandshake, Failed, Fails
    <2>2. hs' \in [Side -> 0..2 \cup {9}]
      BY <1>h, <2>1, <2>a
    <2>b. \/ chan' = chan
          \/ chan' = [chan EXCEPT ![Peer(s)] = Append(chan[Peer(s)], HsMessage(hs[s]))]
      BY <1>1 DEF WriteHandshake
    <2>3. chan' \in [Side -> Seq(M)]
      <3> DEFINE p == Peer(s)  m == HsMessage(hs[s])
      <3>1. p \in Side /\ m \in M /\ (chan' = chan \/ chan' = [chan EXCEPT ![p] = Append(chan[p], m)])
        BY <2>1, <2>b, PeerType
      <3> HIDE DEF p, m
      <3>2. chan[p] \in Seq(M)
        BY <1>c, <3>1
      <3>3. Append(chan[p], m) \in Seq(M)
        BY <3>1, <3>2
      <3> QED BY <1>c, <3>1, <3>3
    <2> QED BY <1>1, <2>2, <2>3 DEF WriteHandshake, TypeOK, M, Fails, Finished, Failed
  <1>2. ASSUME NEW s \in Side, ReadHandshake(s) PROVE TypeOK'
    <2>2. hs' \in [Side -> 0..2 \cup {9}]
      <3>1. \/ hs' = [hs EXCEPT ![s] = hs[s] + 1] /\ hs[s] < 2
            \/ hs' = [hs EXCEPT ![s] = 9]
        BY <1>2 DEF ReadHandshake, Failed, Fails, Connecting, Finished
      <3> QED BY <1>h, <3>1
    <2>3. chan' \in [Side -> Seq(M)]
      <3>1. chan' = chan \/ (chan[s] # <<>> /\ chan' = [chan EXCEPT ![s] = Tail(chan[s])])
        BY <1>2 DEF ReadHandshake
      <3> QED BY SMTT(30), <1>c, <3>1
    <2> QED BY <1>2, <2>2, <2>3 DEF ReadHandshake, TypeOK, M, Fails, Finished, Failed
  <1>3. ASSUME NEW s \in Side, NEW t \in SendTask, Seal(s, t) PROVE TypeOK'
    <2>1. outgoing[s] \in Nonce /\ Len(sealed[s]) + 1 \in Nat
      BY <1>3, <1>o, NonceBound DEF Seal, SealInv
    <2>2. sending' \in [Side -> [SendTask -> Datagram]]
      BY <1>3, <1>s, <2>1 DEF Seal, Datagram
    <2>3. outgoing' \in [Side -> Nat] /\ sealed' \in [Side -> Seq(Nonce)]
      BY <1>3, <1>o, <2>1 DEF Seal
    <2> QED BY <1>3, <2>2, <2>3 DEF Seal, TypeOK, M, Finished, Failed
  <1>n. None \in Datagram
    BY NonceBound, TransportAssumption DEF None, Datagram, Nonce, Side
  <1>4. ASSUME NEW s \in Side, NEW t \in SendTask, Hand(s, t) PROVE TypeOK'
    <2>1. sending[s][t] \in M
      BY <1>s DEF M
    <2>2. sending' \in [Side -> [SendTask -> Datagram]]
      BY <1>4, <1>s, <1>n DEF Hand, Done
    <2>3. chan' \in [Side -> Seq(M)]
      BY <1>4, <1>c, <2>1, PeerType DEF Hand
    <2> QED BY <1>4, <2>2, <2>3 DEF Hand, TypeOK, M, Finished, Failed
  <1>5. ASSUME NEW s \in Side, NEW t \in SendTask, GiveUp(s, t) PROVE TypeOK'
    <2>2. sending' \in [Side -> [SendTask -> Datagram]]
      BY <1>5, <1>s, <1>n DEF GiveUp, Done
    <2> QED BY <1>5, <2>2 DEF GiveUp, TypeOK, M, Finished, Failed
  <1>6. ASSUME NEW s \in Side, NEW t \in RecvTask, Take(s, t) PROVE TypeOK'
    <2> DEFINE d == Head(chan[s])
    <2>1. d \in M
      BY <1>6, <1>c DEF Take
    <2>2. ~IsHs(d) => d \in Datagram /\ (Authentic(d) => d.body \in Nat)
      BY <2>1 DEF M, IsHs, Datagram, Authentic, Short
    <2>3. PICK n \in Nonce : holding' = [holding EXCEPT ![s][t] = <<Seen(d, n)>>]
      BY <1>6 DEF Take
    <2>4. \A b \in {0, Short} : [nonce |-> n, body |-> b] \in Datagram
      BY DEF Datagram
    <2> DEFINE e == Seen(d, n)
    <2>5. holding' = [holding EXCEPT ![s][t] = <<e>>] /\ e \in Datagram
      BY <2>2, <2>3, <2>4 DEF Seen, TooShort
    <2>6. arrived' \in [Side -> SUBSET Nat]
      BY <1>6, <1>i, <2>2 DEF Take
    <2>7. chan' \in [Side -> Seq(M)]
      BY <1>6, <1>c DEF Take
    <2> HIDE DEF e
    <2>8. /\ holding' \in [Side -> [RecvTask -> Seq(Datagram)]]
          /\ \A x \in Side, y \in RecvTask : Len(holding'[x][y]) <= 1
      BY <1>g, <2>5
    <2> QED BY <1>6, <2>6, <2>7, <2>8 DEF Take, TypeOK, M, Finished, Failed
  <1>7. ASSUME NEW s \in Side, NEW t \in RecvTask, Open(s, t) PROVE TypeOK'
    <2> DEFINE d == Head(holding[s][t])
    <2>a. d \in Datagram
      BY <1>7, <1>g DEF Open
    <2>1. d.nonce \in Nonce /\ (Authentic(d) => d.body \in Nat)
      BY <2>a DEF Datagram, Authentic, Short
    <2>2. incoming' \in [Side -> SUBSET Nonce] /\ opened' \in [Side -> Seq(Nat)]
      BY SMTT(30), <1>7, <1>i, <1>o, <2>1 DEF Open
    <2>3. /\ holding' \in [Side -> [RecvTask -> Seq(Datagram)]]
          /\ \A x \in Side, y \in RecvTask : Len(holding'[x][y]) <= 1
      BY <1>7, <1>g DEF Open
    <2>4. panicked' \in [Side -> SUBSET RecvTask]
      BY <1>7 DEF Open, TypeOK
    <2> QED BY <1>7, <2>2, <2>3, <2>4 DEF Open, TypeOK, M, Finished, Failed
  <1>8. ASSUME NEW s \in Side, Fault(s) PROVE TypeOK'
    <2>1. PICK i \in DOMAIN chan[s] :
              \/ chan' = [chan EXCEPT ![s] = Append(@, @[i])]
              \/ /\ i < Len(chan[s])
                 /\ chan' = [chan EXCEPT ![s] = [@ EXCEPT ![i] = chan[s][i + 1], ![i + 1] = chan[s][i]]]
              \/ \E m \in Broken : chan' = [chan EXCEPT ![s][i] = m]
      BY <1>8 DEF Fault
    <2>2. i \in 1..Len(chan[s]) /\ chan[s][i] \in M /\ (i < Len(chan[s]) => chan[s][i + 1] \in M)
      BY <1>c
    <2>3. Broken \subseteq M
      BY NonceBound, TransportAssumption DEF M, Datagram, Broken, TooShort, Nonce, Side
    <2>4. chan' \in [Side -> Seq(M)]
      <3>1. ASSUME chan' = [chan EXCEPT ![s] = Append(@, @[i])] PROVE chan' \in [Side -> Seq(M)]
        BY <1>c, <2>2, <3>1
      <3>2. ASSUME i < Len(chan[s]),
                   chan' = [chan EXCEPT ![s] = [@ EXCEPT ![i] = chan[s][i + 1], ![i + 1] = chan[s][i]]]
            PROVE  chan' \in [Side -> Seq(M)]
        <4> DEFINE q == [chan[s] EXCEPT ![i] = chan[s][i + 1], ![i + 1] = chan[s][i]]
        <4>1. q \in Seq(M)
          BY <1>c, <2>2, <3>2
        <4>2. chan' = [chan EXCEPT ![s] = q]
          BY <3>2
        <4> HIDE DEF q
        <4> QED BY <1>c, <4>1, <4>2
      <3>3. ASSUME NEW m \in Broken, chan' = [chan EXCEPT ![s][i] = m]
            PROVE  chan' \in [Side -> Seq(M)]
        <4>1. m \in M
          BY <2>3, <3>3
        <4> QED BY <1>c, <2>2, <3>3, <4>1
      <3> QED BY <2>1, <3>1, <3>2, <3>3
    <2>5. faults' \in 0..MaxFaults
      BY <1>8, <1>f, TransportAssumption DEF Fault
    <2> QED BY <1>8, <2>4, <2>5 DEF Fault, TypeOK, M, Finished, Failed
  <1>9. CASE Break
    <2>1. chan' \in [Side -> Seq(M)] /\ faults' \in 0..MaxFaults
      BY <1>9, <1>c, <1>f, TransportAssumption DEF Break
    <2> QED BY <1>9, <2>1 DEF Break, TypeOK, M, Finished, Failed
  <1>10. CASE UNCHANGED vars
    BY <1>10 DEF vars, TypeOK
  <1> QED BY <1>1, <1>2, <1>3, <1>4, <1>5, <1>6, <1>7, <1>8, <1>9, <1>10, Steps

\* Only Seal takes a nonce, and the next one.
LEMMA SealStep ==
    ASSUME TypeOK, SealInv, [Next]_vars
    PROVE  SealInv' /\ \A s \in Side : Len(sealed[s]) <= Len(sealed'[s])
  <1>t. outgoing \in [Side -> Nat] /\ sealed \in [Side -> Seq(Nonce)]
    BY DEF TypeOK
  <1>1. ASSUME NEW s \in Side, NEW t \in SendTask, Seal(s, t)
        PROVE  SealInv' /\ \A x \in Side : Len(sealed[x]) <= Len(sealed'[x])
    <2> DEFINE n == Len(sealed[s])
    <2>1. outgoing[s] = n /\ n < MaxSent[s] /\ n \in Nat /\ outgoing[s] \in Nonce /\ MaxSent[s] \in Nat
      BY <1>1, <1>t, NonceBound DEF Seal, SealInv
    <2>2. /\ sealed' = [sealed EXCEPT ![s] = Append(sealed[s], n)]
          /\ outgoing' = [outgoing EXCEPT ![s] = n + 1]
      BY <1>1, <2>1 DEF Seal
    <2>3. /\ Len(Append(sealed[s], n)) = n + 1
          /\ \A i \in 1..n : Append(sealed[s], n)[i] = sealed[s][i]
          /\ Append(sealed[s], n)[n + 1] = n
      BY <1>t, <2>1
    <2>4. \A i \in 1..(n + 1) : Append(sealed[s], n)[i] = i - 1
      BY <2>1, <2>3 DEF SealInv
    <2>5. \A x \in Side : x # s => sealed'[x] = sealed[x] /\ outgoing'[x] = outgoing[x]
      BY <1>t, <2>2
    <2>6. sealed'[s] = Append(sealed[s], n) /\ outgoing'[s] = n + 1
      BY <1>t, <2>2
    <2> HIDE DEF n
    <2>7. SealInv'
      <3> SUFFICES ASSUME NEW x \in Side
                   PROVE  /\ outgoing'[x] = Len(sealed'[x]) /\ Len(sealed'[x]) <= MaxSent[x]
                          /\ \A i \in 1..Len(sealed'[x]) : sealed'[x][i] = i - 1
        BY DEF SealInv
      <3>1. CASE x # s
        BY <2>5, <3>1 DEF SealInv
      <3>2. CASE x = s
        <4>1. Len(sealed'[s]) = n + 1 /\ outgoing'[s] = n + 1
          BY <2>3, <2>6
        <4>2. \A i \in 1..(n + 1) : sealed'[s][i] = i - 1
          BY <2>4, <2>6
        <4> QED BY <2>1, <3>2, <4>1, <4>2
      <3> QED BY <3>1, <3>2
    <2>8. ASSUME NEW x \in Side PROVE Len(sealed[x]) <= Len(sealed'[x])
      <3>1. Len(sealed[x]) \in Nat
        BY <1>t
      <3> QED BY <2>1, <2>3, <2>5, <2>6, <3>1 DEF n
    <2> QED BY <2>7, <2>8
  <1>2. ASSUME UNCHANGED <<outgoing, sealed>>
        PROVE  SealInv' /\ \A x \in Side : Len(sealed[x]) <= Len(sealed'[x])
    <2>1. \A x \in Side : Len(sealed[x]) \in Nat
      BY <1>t
    <2> QED BY <1>2, <2>1 DEF SealInv
  <1>3. \/ UNCHANGED <<outgoing, sealed>>
        \/ \E s \in Side, t \in SendTask : Seal(s, t)
    BY DEF Next, Connect, WriteHandshake, ReadHandshake, Hand, GiveUp, Recv, Take, Open, Fault, Break, vars
  <1> QED BY <1>1, <1>2, <1>3

\* The datagram of a step is where it was, is handed on, or has a broken seal.
LEMMA DatagramStep ==
    ASSUME TypeOK, SealInv, DatagramInv, [Next]_vars
    PROVE  DatagramInv'
  <1> DEFINE M == [hs : 0..1] \cup Datagram
             Gen(s, d) == d.body > 0 => d.body = d.nonce + 1 /\ d.body <= Len(sealed'[Peer(s)])
             Sends == \A s \in Side, t \in SendTask : Gen(Peer(s), sending'[s][t])
             Carries == \A s \in Side : \A i \in DOMAIN chan'[s] : ~IsHs(chan'[s][i]) => Gen(s, chan'[s][i])
             Holds == \A s \in Side, t \in RecvTask : holding'[s][t] # <<>> => Gen(s, holding'[s][t][1])
  <1>a. SUFFICES Sends /\ Carries /\ Holds
    BY DEF DatagramInv, Genuine, Authentic
  <1>c. chan \in [Side -> Seq(M)] /\ sending \in [Side -> [SendTask -> Datagram]]
    BY DEF TypeOK
  <1>g. holding \in [Side -> [RecvTask -> Seq(Datagram)]] /\ \A s \in Side, t \in RecvTask : Len(holding[s][t]) <= 1
    BY DEF TypeOK
  <1>d. \A d \in M : ~IsHs(d) => d \in Datagram
    BY DEF IsHs
  <1>m. ASSUME NEW s \in Side, NEW d \in Datagram, Genuine(s, d)
        PROVE  Gen(s, d)
    <2>1. /\ Len(sealed[Peer(s)]) \in Nat /\ Len(sealed'[Peer(s)]) \in Nat
          /\ Len(sealed[Peer(s)]) <= Len(sealed'[Peer(s)])
      <3>1. sealed \in [Side -> Seq(Nonce)] /\ sealed' \in [Side -> Seq(Nonce)]
        BY TypeStep DEF TypeOK
      <3> DEFINE p == Peer(s)
      <3>2. p \in Side
        BY PeerType
      <3> HIDE DEF p
      <3>3. Len(sealed[p]) <= Len(sealed'[p]) /\ Len(sealed[p]) \in Nat /\ Len(sealed'[p]) \in Nat
        BY SealStep, <3>1, <3>2
      <3> QED BY <3>3 DEF p
    <2>2. d.body \in Int
      BY DEF Datagram, Short
    <2> QED BY <1>m, <2>1, <2>2 DEF Genuine, Authentic
  <1>z. \A s, n : \A b \in {0, Short} : Gen(s, [nonce |-> n, body |-> b])
    BY DEF Short
  <1>s. (\A s \in Side, t \in SendTask : sending'[s][t] \in {sending[s][t], None}) => Sends
    <2>1. ASSUME NEW s \in Side, NEW t \in SendTask PROVE Gen(Peer(s), sending[s][t])
      BY <1>c, <1>m, PeerType DEF DatagramInv
    <2>2. \A s \in Side : Gen(Peer(s), None)
      BY <1>z DEF None
    <2> HIDE DEF Gen
    <2> QED BY <2>1, <2>2
  <1>k. ASSUME NEW s \in Side, NEW i \in DOMAIN chan[s], ~IsHs(chan[s][i])
        PROVE  Gen(s, chan[s][i])
    BY <1>c, <1>d, <1>k, <1>m DEF DatagramInv
  <1>h. ASSUME NEW s \in Side, NEW t \in RecvTask, holding[s][t] # <<>>
        PROVE  Gen(s, holding[s][t][1])
    <2>1. holding[s][t][1] \in Datagram
      BY <1>g, <1>h
    <2> QED BY <1>h, <1>m, <2>1 DEF DatagramInv
  <1> DEFINE From(x, m) == \/ IsHs(m)
                           \/ \E j \in DOMAIN chan[x] : m = chan[x][j]
                           \/ m \in Broken
  <1>q. ASSUME \A x \in Side : \A i \in DOMAIN chan'[x] : From(x, chan'[x][i])
        PROVE  Carries
    <2> SUFFICES ASSUME NEW x \in Side, NEW i \in DOMAIN chan'[x], ~IsHs(chan'[x][i])
                 PROVE  Gen(x, chan'[x][i])
      OBVIOUS
    <2>1. CASE \E j \in DOMAIN chan[x] : chan'[x][i] = chan[x][j]
      BY <1>k, <2>1
    <2>2. CASE chan'[x][i] \in Broken
      <3>1. chan'[x][i].body \in {0, Short}
        BY <2>2 DEF Broken, TooShort
      <3> QED BY <3>1 DEF Short
    <2> QED BY <1>q, <2>1, <2>2
  <1>u. ASSUME UNCHANGED chan PROVE Carries
    BY <1>k, <1>u
  <1>v. ASSUME UNCHANGED holding PROVE Holds
    BY <1>h, <1>v
  <1> HIDE DEF Gen, M
  <1>w. ASSUME NEW s \in Side, chan[s] # <<>>, chan' = [chan EXCEPT ![s] = Tail(chan[s])]
        PROVE  Carries
    <2>1. ASSUME NEW x \in Side, NEW i \in DOMAIN chan'[x] PROVE \E j \in DOMAIN chan[x] : chan'[x][i] = chan[x][j]
      <3>1. CASE x # s
        BY <1>c, <1>w, <3>1
      <3>2. CASE x = s
        <4>1. chan'[s] = Tail(chan[s]) /\ chan[s] \in Seq(M)
          BY <1>c, <1>w
        <4> DEFINE q == chan[s]
        <4>2. /\ Tail(q) \in Seq(M) /\ Len(Tail(q)) = Len(q) - 1
              /\ \A k \in 1..Len(Tail(q)) : Tail(q)[k] = q[k + 1]
          BY <1>w, <4>1, HeadTailProperties
        <4>3. DOMAIN q = 1..Len(q) /\ Len(q) \in Nat /\ DOMAIN Tail(q) = 1..Len(Tail(q))
          BY <4>1, <4>2
        <4> HIDE DEF q
        <4>4. i \in 1..(Len(q) - 1)
          BY <3>2, <4>1, <4>2, <4>3 DEF q
        <4>5. i + 1 \in DOMAIN q /\ chan'[s][i] = q[i + 1]
          BY <4>1, <4>2, <4>3, <4>4 DEF q
        <4> QED BY <3>2, <4>5 DEF q
      <3> QED BY <3>1, <3>2
    <2> HIDE DEF Carries
    <2> QED BY <1>q, <2>1
  <1>1. ASSUME NEW s \in Side, WriteHandshake(s) PROVE Sends /\ Carries /\ Holds
    <2>1. Sends /\ Holds
      BY <1>1, <1>s, <1>v DEF WriteHandshake
    <2>2. CASE UNCHANGED chan
      BY <1>u, <2>1, <2>2
    <2>3. ASSUME NEW p \in Side, NEW n \in {0, 1}, chan' = [chan EXCEPT ![p] = Append(chan[p], HsMessage(n))]
          PROVE  Carries
      <3> DEFINE m == HsMessage(n)
      <3>1. IsHs(m) /\ m \in M
        BY DEF IsHs, HsMessage, M
      <3> HIDE DEF m
      <3>2. ASSUME NEW x \in Side, NEW i \in DOMAIN chan'[x] PROVE From(x, chan'[x][i])
        <4>1. chan' = [chan EXCEPT ![p] = Append(chan[p], m)] /\ chan[p] \in Seq(M)
          BY <1>c, <2>3 DEF m
        <4>2. CASE x # p
          BY <1>c, <4>1, <4>2
        <4>3. CASE x = p
          <5>1. chan'[x] = Append(chan[p], m) /\ i \in 1..(Len(chan[p]) + 1)
            BY <1>c, <4>1, <4>3, <3>1
          <5>2. chan'[x][i] = m \/ (i \in DOMAIN chan[p] /\ chan'[x][i] = chan[p][i])
            BY <5>1, <4>1, <3>1
          <5> QED BY <5>2, <3>1, <4>3
        <4> QED BY <4>2, <4>3
      <3> QED BY <1>q, <3>2
    <2>4. hs[s] \in {0, 1} /\ Peer(s) \in Side
      BY <1>1, PeerType DEF WriteHandshake, is_my_turn
    <2>5. UNCHANGED chan \/ chan' = [chan EXCEPT ![Peer(s)] = Append(chan[Peer(s)], HsMessage(hs[s]))]
      BY <1>1 DEF WriteHandshake
    <2> HIDE DEF Carries
    <2> QED BY <2>1, <2>2, <2>3, <2>4, <2>5
  <1>2. ASSUME NEW s \in Side, ReadHandshake(s) PROVE Sends /\ Carries /\ Holds
    <2>1. Sends /\ Holds
      BY <1>2, <1>s, <1>v DEF ReadHandshake
    <2>2. UNCHANGED chan \/ (chan[s] # <<>> /\ chan' = [chan EXCEPT ![s] = Tail(chan[s])])
      BY <1>2 DEF ReadHandshake
    <2> HIDE DEF Carries
    <2> QED BY <1>u, <1>w, <2>1, <2>2
  <1>3. ASSUME NEW s \in Side, NEW t \in SendTask, Seal(s, t) PROVE Sends /\ Carries /\ Holds
    <2>1. Carries /\ Holds
      BY <1>3, <1>u, <1>v DEF Seal
    <2> DEFINE d == [nonce |-> outgoing[s], body |-> Len(sealed[s]) + 1]
    <2>2. sending' = [sending EXCEPT ![s][t] = d]
      BY <1>3 DEF Seal
    <2>3. Gen(Peer(s), d)
      <3>1. Len(sealed'[s]) = Len(sealed[s]) + 1 /\ outgoing[s] = Len(sealed[s]) /\ Len(sealed[s]) \in Nat
        BY <1>3 DEF Seal, TypeOK, SealInv
      <3> QED BY <3>1, PeerType DEF Gen
    <2> HIDE DEF d
    <2>4. ASSUME NEW x \in Side, NEW y \in SendTask PROVE Gen(Peer(x), sending'[x][y])
      <3>1. CASE x = s /\ y = t
        BY <1>c, <2>2, <2>3, <3>1
      <3>2. CASE ~(x = s /\ y = t)
        <4>1. sending'[x][y] = sending[x][y]
          BY <1>c, <2>2, <3>2
        <4> QED BY <1>c, <1>m, <4>1, PeerType DEF DatagramInv
      <3> QED BY <3>1, <3>2
    <2> QED BY <2>1, <2>4
  <1>4. ASSUME NEW s \in Side, NEW t \in SendTask, Hand(s, t) PROVE Sends /\ Carries /\ Holds
    <2>1. Holds
      BY <1>4, <1>v DEF Hand
    <2>2. \A x \in Side, y \in SendTask : sending'[x][y] \in {sending[x][y], None}
      BY <1>4, <1>c DEF Hand, Done
    <2> DEFINE p == Peer(s)  d == sending[s][t]
    <2>3. p \in Side /\ d \in M /\ chan' = [chan EXCEPT ![p] = Append(chan[p], d)] /\ chan[p] \in Seq(M)
      BY <1>4, <1>c, PeerType DEF Hand, M
    <2>4. Gen(p, d)
      BY <1>c, <1>m, PeerType DEF DatagramInv
    <2> HIDE DEF p, d
    <2>5. ASSUME NEW x \in Side, NEW i \in DOMAIN chan'[x], ~IsHs(chan'[x][i]) PROVE Gen(x, chan'[x][i])
      <3>1. CASE x # p
        <4>1. i \in DOMAIN chan[x] /\ chan'[x][i] = chan[x][i]
          BY <1>c, <2>3, <3>1
        <4> QED BY <1>k, <2>5, <4>1
      <3>2. CASE x = p
        <4>1. chan'[x] = Append(chan[p], d) /\ i \in 1..(Len(chan[p]) + 1)
          BY <1>c, <2>3, <3>2
        <4>2. chan'[x][i] = d \/ (i \in DOMAIN chan[p] /\ chan'[x][i] = chan[p][i])
          BY <2>3, <4>1
        <4> QED BY <1>k, <2>4, <2>5, <4>2, <3>2
      <3> QED BY <3>1, <3>2
    <2> HIDE DEF Sends
    <2> QED BY <1>s, <2>1, <2>2, <2>5
  <1>5. ASSUME NEW s \in Side, NEW t \in SendTask, GiveUp(s, t) PROVE Sends /\ Carries /\ Holds
    <2>1. Carries /\ Holds
      BY <1>5, <1>u, <1>v DEF GiveUp
    <2>2. \A x \in Side, y \in SendTask : sending'[x][y] \in {sending[x][y], None}
      BY <1>5, <1>c DEF GiveUp, Done
    <2> HIDE DEF Sends
    <2> QED BY <1>s, <2>1, <2>2
  <1>6. ASSUME NEW s \in Side, NEW t \in RecvTask, Take(s, t) PROVE Sends /\ Carries /\ Holds
    <2>1. Sends
      BY <1>6, <1>s DEF Take
    <2>2. Carries
      BY <1>6, <1>w DEF Take
    <2> DEFINE d == chan[s][1]
    <2>c. Head(chan[s]) = d
      BY <1>6, <1>c DEF Take
    <2>3. PICK n \in Nonce : holding' = [holding EXCEPT ![s][t] = <<Seen(d, n)>>]
      BY <1>6, <2>c DEF Take
    <2> DEFINE e == Seen(d, n)
    <2>4. holding' = [holding EXCEPT ![s][t] = <<e>>]
      BY <2>3
    <2>5. 1 \in DOMAIN chan[s]
      BY <1>6, <1>c DEF Take
    <2>6. Gen(s, e)
      BY <1>k, <1>z, <2>5 DEF Seen, TooShort
    <2> HIDE DEF e, d
    <2>7. ASSUME NEW x \in Side, NEW y \in RecvTask, holding'[x][y] # <<>> PROVE Gen(x, holding'[x][y][1])
      <3>1. CASE x = s /\ y = t
        <4>1. holding'[x][y] = <<e>>
          BY <1>g, <2>4, <3>1
        <4> QED BY <2>6, <3>1, <4>1
      <3>2. CASE ~(x = s /\ y = t)
        <4>1. holding'[x][y] = holding[x][y]
          BY <1>g, <2>4, <3>2
        <4> QED BY <1>h, <2>7, <4>1
      <3> QED BY <3>1, <3>2
    <2> QED BY <2>1, <2>2, <2>7
  <1>7. ASSUME NEW s \in Side, NEW t \in RecvTask, Open(s, t) PROVE Sends /\ Carries /\ Holds
    <2>1. Sends /\ Carries
      BY <1>7, <1>s, <1>u DEF Open
    <2>2. \A x \in Side, y \in RecvTask : holding'[x][y] \in {holding[x][y], <<>>}
      BY <1>7, <1>g DEF Open
    <2> QED BY <1>h, <2>1, <2>2
  <1>8. ASSUME NEW s \in Side, Fault(s) PROVE Sends /\ Carries /\ Holds
    <2>1. Sends /\ Holds
      BY <1>8, <1>s, <1>v DEF Fault
    <2>2. PICK i \in DOMAIN chan[s] :
              \/ chan' = [chan EXCEPT ![s] = Append(@, @[i])]
              \/ /\ i < Len(chan[s])
                 /\ chan' = [chan EXCEPT ![s] = [@ EXCEPT ![i] = chan[s][i + 1], ![i + 1] = chan[s][i]]]
              \/ \E m \in Broken : chan' = [chan EXCEPT ![s][i] = m]
      BY <1>8 DEF Fault
    <2>3. chan[s] \in Seq(M) /\ i \in 1..Len(chan[s]) /\ chan[s][i] \in M
      BY <1>c
    <2>4. \A x \in Side : x # s => chan'[x] = chan[x]
      BY <1>c, <2>2
    <2>5. ASSUME NEW k \in DOMAIN chan'[s] PROVE From(s, chan'[s][k])
      <3>1. CASE chan' = [chan EXCEPT ![s] = Append(@, @[i])]
        <4>1. chan'[s] = Append(chan[s], chan[s][i]) /\ k \in 1..(Len(chan[s]) + 1)
          BY <1>c, <2>3, <3>1
        <4>2. chan'[s][k] = chan[s][i] \/ (k \in DOMAIN chan[s] /\ chan'[s][k] = chan[s][k])
          BY <2>3, <4>1
        <4> QED BY <4>2
      <3>2. CASE /\ i < Len(chan[s])
                 /\ chan' = [chan EXCEPT ![s] = [@ EXCEPT ![i] = chan[s][i + 1], ![i + 1] = chan[s][i]]]
        <4>1. chan'[s] = [chan[s] EXCEPT ![i] = chan[s][i + 1], ![i + 1] = chan[s][i]]
          BY <1>c, <3>2
        <4>2. k \in DOMAIN chan[s] /\ i + 1 \in DOMAIN chan[s]
          BY <2>3, <3>2, <4>1
        <4>3. chan'[s][k] \in {chan[s][i], chan[s][i + 1], chan[s][k]}
          BY <4>1, <4>2
        <4> QED BY <4>2, <4>3
      <3>3. ASSUME NEW m \in Broken, chan' = [chan EXCEPT ![s][i] = m]
            PROVE  From(s, chan'[s][k])
        <4>1. k \in DOMAIN chan[s] /\ (chan'[s][k] = m \/ chan'[s][k] = chan[s][k])
          BY <1>c, <2>3, <3>3
        <4> QED BY <3>3, <4>1
      <3> QED BY <2>2, <3>1, <3>2, <3>3
    <2>6. Carries
      <3>1. \A x \in Side : \A k \in DOMAIN chan'[x] : From(x, chan'[x][k])
        BY <2>4, <2>5
      <3> HIDE DEF Carries
      <3> QED BY <1>q, <3>1
    <2> QED BY <2>1, <2>6
  <1>9. ASSUME Break PROVE Sends /\ Carries /\ Holds
    <2>1. Sends /\ Holds
      BY <1>9, <1>s, <1>v DEF Break
    <2>2. \A x \in Side : chan'[x] \in {chan[x], <<>>}
      BY <1>9 DEF Break
    <2>3. \A x \in Side : \A k \in DOMAIN chan'[x] : k \in DOMAIN chan[x] /\ chan'[x][k] = chan[x][k]
      BY <2>2
    <2> QED BY <1>k, <2>1, <2>3
  <1>10. ASSUME UNCHANGED vars PROVE Sends /\ Carries /\ Holds
    BY <1>10, <1>s, <1>u, <1>v DEF vars
  <1> HIDE DEF Sends, Carries, Holds
  <1> QED BY <1>1, <1>2, <1>3, <1>4, <1>5, <1>6, <1>7, <1>8, <1>9, <1>10, Steps

LEMMA RangeAppend ==
    ASSUME NEW S, NEW q \in Seq(S), NEW e \in S
    PROVE  /\ Range(Append(q, e)) = Range(q) \cup {e}
           /\ IsInjective(q) /\ e \notin Range(q) => IsInjective(Append(q, e))
  <1> DEFINE a == Append(q, e)  n == Len(q)
  <1>1. /\ n \in Nat /\ DOMAIN q = 1..n /\ DOMAIN a = 1..(n + 1)
        /\ \A i \in 1..n : a[i] = q[i]
        /\ a[n + 1] = e
    OBVIOUS
  <1> HIDE DEF a, n
  <1>2. Range(a) = Range(q) \cup {e}
    BY <1>1 DEF Range
  <1>3. ASSUME IsInjective(q), e \notin Range(q) PROVE IsInjective(a)
    <2> SUFFICES ASSUME NEW i \in 1..(n + 1), NEW j \in 1..(n + 1), a[i] = a[j] PROVE i = j
      BY <1>1 DEF IsInjective
    <2>1. CASE i \in 1..n /\ j \in 1..n
      BY <1>1, <1>3, <2>1 DEF IsInjective
    <2>2. CASE i = n + 1 /\ j \in 1..n
      BY <1>1, <1>3, <2>2 DEF Range
    <2>3. CASE j = n + 1 /\ i \in 1..n
      BY <1>1, <1>3, <2>3 DEF Range
    <2> QED BY <1>1, <2>1, <2>2, <2>3
  <1> QED BY <1>2, <1>3 DEF a

\* What a recv that opens a datagram has in hand.
LEMMA OpenFacts ==
    ASSUME TypeOK, DatagramInv, OpenInv, NEW s \in Side, NEW t \in RecvTask, Open(s, t)
    PROVE  LET d == holding[s][t][1]
               new == d.nonce \notin incoming[s] /\ d.body > 0
           IN  /\ d.nonce \in Nat /\ d.body \in Int
               /\ d.body > 0 => d.body = d.nonce + 1 /\ d.body <= Len(sealed[Peer(s)])
               /\ (d.nonce \in incoming[s] <=> d.nonce + 1 \in Bodies(s))
               /\ incoming' = IF new THEN [incoming EXCEPT ![s] = @ \cup {d.nonce}] ELSE incoming
               /\ opened' = IF new THEN [opened EXCEPT ![s] = Append(@, d.body)] ELSE opened
               /\ holding' = [holding EXCEPT ![s][t] = <<>>]
               /\ UNCHANGED <<sealed, arrived>>
  <1> DEFINE d == holding[s][t][1]
  <1>1. holding[s][t] # <<>> /\ holding[s][t] \in Seq(Datagram) /\ Head(holding[s][t]) = d
    BY DEF Open, TypeOK
  <1>2. d \in Datagram
    BY <1>1
  <1>3. d.nonce \in Nat /\ d.body \in Int
    <2>1. Nonce \subseteq Nat /\ Nat \cup {Short} \subseteq Int
      BY DEF Nonce, Short
    <2>2. d.nonce \in Nonce /\ d.body \in Nat \cup {Short}
      BY <1>2 DEF Datagram
    <2> HIDE DEF d
    <2> QED BY <2>1, <2>2
  <1>4. d.body > 0 => d.body = d.nonce + 1 /\ d.body <= Len(sealed[Peer(s)])
    BY <1>1 DEF DatagramInv, Genuine, Authentic
  <1>5. Bodies(s) \subseteq Nat
    BY DEF Bodies, Range, TypeOK
  <1>6. d.nonce \in incoming[s] <=> d.nonce + 1 \in Bodies(s)
    BY SMTT(30), <1>3, <1>5 DEF OpenInv
  <1> HIDE DEF d
  <1>7. /\ incoming' = IF d.nonce \notin incoming[s] /\ d.body > 0 THEN [incoming EXCEPT ![s] = @ \cup {d.nonce}] ELSE incoming
        /\ opened' = IF d.nonce \notin incoming[s] /\ d.body > 0 THEN [opened EXCEPT ![s] = Append(@, d.body)] ELSE opened
        /\ holding' = [holding EXCEPT ![s][t] = <<>>]
        /\ UNCHANGED <<sealed, arrived>>
    BY <1>1 DEF Open, Authentic
  <1> QED BY <1>3, <1>4, <1>6, <1>7 DEF d

LEMMA OpenStep ==
    ASSUME TypeOK, SealInv, DatagramInv, OpenInv, [Next]_vars
    PROVE  OpenInv'
  <1>t. opened \in [Side -> Seq(Nat)] /\ incoming \in [Side -> SUBSET Nonce] /\ arrived \in [Side -> SUBSET Nat]
    BY DEF TypeOK
  <1>l. \A s \in Side : Len(sealed[Peer(s)]) <= Len(sealed'[Peer(s)])
                        /\ Len(sealed[Peer(s)]) \in Nat /\ Len(sealed'[Peer(s)]) \in Nat
    <2>1. sealed \in [Side -> Seq(Nonce)] /\ sealed' \in [Side -> Seq(Nonce)]
      BY TypeStep DEF TypeOK
    <2>2. \A p \in Side : Len(sealed[p]) <= Len(sealed'[p]) /\ Len(sealed[p]) \in Nat /\ Len(sealed'[p]) \in Nat
      BY SealStep, <2>1
    <2> QED BY <2>2, PeerType
  <1> DEFINE Same(x) == opened'[x] = opened[x] /\ incoming'[x] = incoming[x]
             Good(x) == /\ IsInjective(opened'[x])
                        /\ \A i \in 1..Len(opened'[x]) : opened'[x][i] \in 1..Len(sealed'[Peer(x)])
                        /\ incoming'[x] = {b - 1 : b \in Range(opened'[x])}
  <1>s. ASSUME NEW x \in Side, Same(x) PROVE Good(x)
    <2>1. \A i \in 1..Len(opened[x]) : opened[x][i] \in 1..Len(sealed'[Peer(x)])
      BY <1>l DEF OpenInv
    <2> QED BY <1>s, <2>1 DEF OpenInv, Bodies
  <1>g. ASSUME \A x \in Side : Good(x), \A x \in Side : 0 \notin arrived'[x] PROVE OpenInv'
    BY <1>g DEF OpenInv, Bodies
  <1>1. ASSUME NEW s \in Side, NEW t \in RecvTask, Open(s, t) PROVE OpenInv'
    <2> DEFINE d == holding[s][t][1]  b == d.body  n == d.nonce
               new == n \notin incoming[s] /\ b > 0
    <2>1. /\ n \in Nat /\ b \in Int
          /\ b > 0 => b = n + 1 /\ b <= Len(sealed[Peer(s)])
          /\ n \in incoming[s] <=> n + 1 \in Bodies(s)
          /\ incoming' = IF new THEN [incoming EXCEPT ![s] = @ \cup {n}] ELSE incoming
          /\ opened' = IF new THEN [opened EXCEPT ![s] = Append(@, b)] ELSE opened
          /\ UNCHANGED <<sealed, arrived>>
      BY <1>1, OpenFacts
    <2> HIDE DEF d, b, n, new
    <2>2. \A x \in Side : 0 \notin arrived'[x]
      BY <2>1 DEF OpenInv
    <2>3. CASE ~new
      <3>1. \A x \in Side : Same(x)
        BY <2>1, <2>3
      <3> HIDE DEF Same, Good
      <3> QED BY <1>s, <1>g, <2>2, <3>1
    <2>4. CASE new
      <3>1. \A x \in Side : x # s => Same(x)
        BY <1>t, <2>1, <2>4
      <3>2. opened'[s] = Append(opened[s], b) /\ incoming'[s] = incoming[s] \cup {n} /\ opened[s] \in Seq(Nat)
        BY <1>t, <2>1, <2>4
      <3>3. b = n + 1 /\ b \notin Range(opened[s]) /\ b \in 1..Len(sealed[Peer(s)])
        BY <1>l, <2>1, <2>4 DEF new, Bodies
      <3>4. Range(opened'[s]) = Range(opened[s]) \cup {b} /\ IsInjective(opened'[s])
        BY <2>1, <3>2, <3>3, RangeAppend DEF OpenInv
      <3>5. incoming'[s] = {c - 1 : c \in Range(opened'[s])}
        <4>1. incoming[s] = {c - 1 : c \in Range(opened[s])} /\ n = b - 1
          BY <2>1, <3>3 DEF OpenInv, Bodies
        <4> QED BY <3>2, <3>4, <4>1
      <3>6. \A i \in 1..Len(opened'[s]) : opened'[s][i] \in 1..Len(sealed'[Peer(s)])
        <4>1. \A i \in 1..Len(opened[s]) : opened[s][i] \in 1..Len(sealed[Peer(s)])
          BY DEF OpenInv
        <4>2. /\ Len(opened'[s]) = Len(opened[s]) + 1 /\ Len(opened[s]) \in Nat
              /\ \A i \in 1..Len(opened[s]) : opened'[s][i] = opened[s][i]
              /\ opened'[s][Len(opened[s]) + 1] = b
          BY <2>1, <3>2
        <4>3. sealed' = sealed
          BY <2>1
        <4> QED BY SMTT(30), <3>3, <4>1, <4>2, <4>3
      <3>7. Good(s)
        BY <3>4, <3>5, <3>6
      <3> HIDE DEF Same, Good
      <3> QED BY <1>s, <1>g, <2>2, <3>1, <3>7
    <2> QED BY <2>3, <2>4
  <1>2. ASSUME NEW s \in Side, NEW t \in RecvTask, Take(s, t) PROVE OpenInv'
    <2>1. \A x \in Side : Same(x)
      BY <1>2 DEF Take
    <2>2. \A x \in Side : arrived'[x] = arrived[x] \/ \E b : b > 0 /\ arrived'[x] = arrived[x] \cup {b}
      BY <1>2, <1>t DEF Take, Authentic
    <2>3. \A x \in Side : 0 \notin arrived'[x]
      BY <2>2 DEF OpenInv
    <2> HIDE DEF Same, Good
    <2> QED BY <1>s, <1>g, <2>1, <2>3
  <1>3. ASSUME UNCHANGED <<opened, incoming, arrived>> PROVE OpenInv'
    <2>1. (\A x \in Side : Same(x)) /\ (\A x \in Side : 0 \notin arrived'[x])
      BY <1>3 DEF OpenInv
    <2> HIDE DEF Same, Good
    <2> QED BY <1>s, <1>g, <2>1
  <1>4. \/ UNCHANGED <<opened, incoming, arrived>>
        \/ \E s \in Side, t \in RecvTask : Open(s, t) \/ Take(s, t)
    BY DEF Next, Connect, WriteHandshake, ReadHandshake, Seal, Hand, GiveUp, Recv, Fault, Break, vars
  <1> QED BY <1>1, <1>2, <1>3, <1>4
\* A recv leaves a body behind only when it returns it, or when it was returned.
LEMMA RefusedStep ==
    ASSUME IInv, NothingRefused, [Next]_vars
    PROVE  NothingRefused'
  <1>t. /\ opened \in [Side -> Seq(Nat)] /\ arrived \in [Side -> SUBSET Nat]
        /\ holding \in [Side -> [RecvTask -> Seq(Datagram)]]
    BY DEF IInv, TypeOK
  <1> DEFINE Hold(x, b) == \E u \in RecvTask : holding[x][u] # <<>> /\ b = holding[x][u][1].body
             Hold1(x, b) == \E u \in RecvTask : holding'[x][u] # <<>> /\ b = holding'[x][u][1].body
  <1>n. \A x \in Side : \A b \in arrived[x] : b \in Range(opened[x]) \/ Hold(x, b)
    BY DEF NothingRefused, Held, Bodies
  <1>g. ASSUME \A x \in Side : \A b \in arrived'[x] : b \in Range(opened'[x]) \/ Hold1(x, b)
        PROVE  NothingRefused'
    BY <1>g DEF NothingRefused, Held, Bodies
  <1>1. ASSUME NEW s \in Side, NEW t \in RecvTask, Open(s, t) PROVE NothingRefused'
    <2> DEFINE d == holding[s][t][1]  c == d.body  n == d.nonce
               new == n \notin incoming[s] /\ c > 0
    <2>1. /\ n \in Nat /\ c \in Int
          /\ c > 0 => c = n + 1
          /\ n \in incoming[s] <=> n + 1 \in Bodies(s)
          /\ opened' = IF new THEN [opened EXCEPT ![s] = Append(@, c)] ELSE opened
          /\ holding' = [holding EXCEPT ![s][t] = <<>>]
          /\ arrived' = arrived
      BY <1>1, OpenFacts DEF IInv
    <2>2. \A x \in Side, u \in RecvTask : (x = s /\ u = t) \/ holding'[x][u] = holding[x][u]
      BY <1>t, <2>1
    <2>d. c = holding[s][t][1].body
      OBVIOUS
    <2> HIDE DEF d, c, n, new
    <2>3. \A x \in Side : Range(opened[x]) \subseteq Range(opened'[x])
      <3>1. ASSUME new PROVE opened'[s] = Append(opened[s], c) /\ \A x \in Side : x # s => opened'[x] = opened[x]
        BY <1>t, <2>1, <3>1
      <3>2. ASSUME new PROVE Range(Append(opened[s], c)) = Range(opened[s]) \cup {c}
        <4>1. opened[s] \in Seq(Nat) /\ c \in Nat
          BY <1>t, <2>1, <3>2 DEF new
        <4> QED BY ONLY <4>1, RangeAppend
      <3> QED BY <2>1, <3>1, <3>2
    <2>4. c > 0 => c \in Range(opened'[s])
      <3>1. CASE new
        <4>1. opened'[s] = Append(opened[s], c)
          BY <1>t, <2>1, <3>1
        <4>2. Range(Append(opened[s], c)) = Range(opened[s]) \cup {c}
          <5>1. opened[s] \in Seq(Nat) /\ c \in Nat
            BY <1>t, <2>1, <3>1 DEF new
          <5> QED BY ONLY <5>1, RangeAppend
        <4> QED BY <4>1, <4>2
      <3>2. CASE ~new
        BY <2>1, <2>3, <3>2 DEF new, Bodies
      <3> QED BY <3>1, <3>2
    <2>5. ASSUME NEW x \in Side, NEW b \in arrived'[x] PROVE b \in Range(opened'[x]) \/ Hold1(x, b)
      <3>1. b \in arrived[x] /\ b > 0
        BY <1>t, <2>1 DEF IInv, OpenInv
      <3>2. CASE b \in Range(opened[x])
        BY <2>3, <3>2
      <3>3. ASSUME NEW u \in RecvTask, holding[x][u] # <<>>, b = holding[x][u][1].body
            PROVE  b \in Range(opened'[x]) \/ Hold1(x, b)
        <4>1. CASE x = s /\ u = t
          BY <2>4, <2>d, <3>1, <3>3, <4>1
        <4>2. CASE ~(x = s /\ u = t)
          <5>1. holding'[x][u] = holding[x][u]
            BY <2>2, <4>2
          <5> QED BY <3>3, <5>1
        <4> QED BY <4>1, <4>2
      <3> QED BY <1>n, <3>1, <3>2, <3>3
    <2> QED BY <1>g, <2>5
  <1>2. ASSUME NEW s \in Side, NEW t \in RecvTask, Take(s, t) PROVE NothingRefused'
    <2> DEFINE d == Head(chan[s])
    <2>1. PICK n \in Nonce : holding' = [holding EXCEPT ![s][t] = <<Seen(d, n)>>]
      BY <1>2 DEF Take
    <2>2. /\ arrived' = [arrived EXCEPT ![s] = IF ~IsHs(d) /\ Authentic(d) THEN @ \cup {d.body} ELSE @]
          /\ opened' = opened /\ holding[s][t] = <<>>
      BY <1>2 DEF Take
    <2> HIDE DEF d
    <2>3. \A x \in Side, u \in RecvTask : (x = s /\ u = t) \/ holding'[x][u] = holding[x][u]
      BY <1>t, <2>1
    <2>4. ~IsHs(d) /\ Authentic(d) => holding'[s][t] = <<d>>
      BY <1>t, <2>1 DEF Seen, TooShort, Short, Authentic
    <2>5. \A x \in Side : \A b \in arrived'[x] :
              b \in arrived[x] \/ (x = s /\ ~IsHs(d) /\ Authentic(d) /\ b = d.body)
      BY <1>t, <2>2
    <2>6. ASSUME NEW x \in Side, NEW b \in arrived'[x] PROVE b \in Range(opened'[x]) \/ Hold1(x, b)
      <3>1. CASE x = s /\ ~IsHs(d) /\ Authentic(d) /\ b = d.body
        <4>1. holding'[s][t] # <<>> /\ b = holding'[s][t][1].body
          BY <2>4, <3>1
        <4> QED BY <3>1, <4>1
      <3>2. CASE b \in arrived[x]
        <4>1. ASSUME NEW u \in RecvTask, holding[x][u] # <<>>, b = holding[x][u][1].body
              PROVE  Hold1(x, b)
          <5>1. holding'[x][u] = holding[x][u]
            BY <2>2, <2>3, <4>1
          <5> QED BY <4>1, <5>1
        <4> QED BY <1>n, <2>2, <3>2, <4>1
      <3> QED BY <2>5, <3>1, <3>2
    <2> QED BY <1>g, <2>6
  <1>3. ASSUME UNCHANGED <<opened, holding, arrived>> PROVE NothingRefused'
    BY <1>3 DEF NothingRefused, Held, Bodies
  <1>4. \/ UNCHANGED <<opened, holding, arrived>>
        \/ \E s \in Side, t \in RecvTask : Open(s, t) \/ Take(s, t)
    BY SMTT(30) DEF Next, Connect, WriteHandshake, ReadHandshake, Seal, Hand, GiveUp, Recv, Fault, Break, vars
  <1> QED BY <1>1, <1>2, <1>3, <1>4
\* The handshake: who writes and who reads is decided by how far each side is, and
\* with matching keys and no fault each side finds the message it expects.
LEMMA HandshakeStep ==
    ASSUME TypeOK, HandshakeInv, HandshakeSound, [Next]_vars
    PROVE  HandshakeInv' /\ HandshakeSound'
  <1> DEFINE i == "initiator"  r == "responder"
             M == [hs : 0..1] \cup Datagram
             Resting(h, w) == \A s \in Side : h[s] # 2 => \A t \in SendTask : w[s][t] = None
             Answered(h, c) == \A k \in DOMAIN c[i] : c[i][k] = HsMessage(1) => h[r] = 2
             Ordered(h, c, u) ==
                 /\ u /\ h[i] # 9 /\ h[r] # 9
                 /\ h[i] = 0 => h[r] = 0 /\ c[r] = <<>>
                 /\ h[i] = 1 /\ h[r] = 0 => c[r] = <<HsMessage(0)>>
                 /\ h[i] < 2 /\ h[r] < 2 => c[i] = <<>>
                 /\ h[i] = 1 /\ h[r] > 0 => c[r] = <<>>
                 /\ h[i] = 1 /\ h[r] = 2 => c[i] # <<>> /\ c[i][1] = HsMessage(1)
             Keyed(h) == (h[r] \in {1, 2} => keys) /\ (h[i] = 2 => keys /\ h[r] = 2)
             Goal == /\ Resting(hs', sending') /\ Answered(hs', chan') /\ Keyed(hs')
                     /\ keys /\ faults' = 0 => Ordered(hs', chan', up')
  <1>k. keys' = keys
    BY DEF Next, Connect, WriteHandshake, ReadHandshake, Seal, Hand, GiveUp, Recv, Take, Open, Fault, Break, vars
  <1>h. hs \in [Side -> 0..2 \cup {9}]
    BY DEF TypeOK, Finished, Failed
  <1>c. chan \in [Side -> Seq(M)]
    BY DEF TypeOK
  <1>s. sending \in [Side -> [SendTask -> Datagram]] /\ faults \in Nat /\ MaxFaults \in Nat
    BY TransportAssumption DEF TypeOK
  <1>r. Resting(hs, sending)
    BY DEF HandshakeInv, Connected, Finished, Idle
  <1>a. Answered(hs, chan) /\ Keyed(hs)
    BY DEF HandshakeInv, HandshakeSound, Connected, Finished
  <1>o. keys /\ faults = 0 => Ordered(hs, chan, up)
    BY DEF HandshakeInv, Failed
  <1>g. SUFFICES Goal
    <2>1. ASSUME Goal PROVE HandshakeInv'
      <3>1. Resting(hs', sending') /\ Answered(hs', chan') /\ Keyed(hs')
            /\ (keys' /\ faults' = 0 => Ordered(hs', chan', up'))
        BY SMTT(30), <1>k, <2>1
      <3> QED BY SMTT(30), <3>1, <1>k DEF HandshakeInv, Connected, Finished, Failed, Idle
    <2>2. ASSUME Goal PROVE HandshakeSound'
      <3>1. faults' \in Nat
        BY SMTT(30), <1>s DEF Next, Connect, WriteHandshake, ReadHandshake, Seal, Hand, GiveUp, Recv, Take, Open, Fault, Break, vars
      <3>2. (\E s \in Side : hs'[s] = 9) => ~keys \/ faults' > 0
        BY <2>2, <3>1 DEF Side
      <3> QED BY SMTT(30), <1>k, <2>2, <3>2 DEF HandshakeSound, Connected, Finished, Failed
    <2> HIDE DEF Goal
    <2> QED BY <2>1, <2>2
  <1>i. i \in Side /\ r \in Side /\ Side = {i, r} /\ i # r /\ Peer(i) = r /\ Peer(r) = i
    BY DEF Side, Peer
  <1>1. ASSUME NEW s \in Side, WriteHandshake(s) PROVE Goal
    <2>1. ASSUME s = i PROVE Goal
      <3>1. /\ hs[i] = 0 /\ UNCHANGED <<sending, faults>>
            /\ \/ /\ up /\ up' = up /\ hs' = [hs EXCEPT ![i] = 1]
                  /\ chan' = [chan EXCEPT ![r] = Append(chan[r], HsMessage(0))]
               \/ ~up /\ hs' = [hs EXCEPT ![i] = 9] /\ chan' = chan /\ up' = FALSE
        BY <1>1, <2>1, <1>i, <1>h DEF WriteHandshake, is_my_turn, Fails, Failed
      <3>2. hs'[r] = hs[r] /\ hs'[i] \in {1, 9} /\ chan'[i] = chan[i]
        BY <3>1, <1>h, <1>c, <1>i
      <3>3. Resting(hs', sending')
        BY <3>1, <3>2, <1>r, <1>i
      <3>4. Answered(hs', chan') /\ Keyed(hs')
        BY <3>2, <1>a
      <3>5. ASSUME keys, faults' = 0 PROVE Ordered(hs', chan', up')
        <4>1. Ordered(hs, chan, up)
          BY <3>1, <3>5, <1>o
        <4>2. up /\ up' = up /\ hs'[i] = 1 /\ hs[r] = 0 /\ chan[r] = <<>> /\ chan[i] = <<>>
          BY <3>1, <4>1, <1>h, <1>i
        <4>3. chan'[r] = Append(<<>>, HsMessage(0))
          BY <3>1, <4>2, <1>c, <1>i
        <4>4. chan'[r] = <<HsMessage(0)>>
          BY <4>3
        <4> QED BY <3>2, <4>2, <4>4
      <3> QED BY <3>3, <3>4, <3>5
    <2>2. ASSUME s = r PROVE Goal
      <3>1. /\ hs[r] = 1 /\ UNCHANGED <<sending, faults>>
            /\ \/ /\ up /\ up' = up /\ hs' = [hs EXCEPT ![r] = 2]
                  /\ chan' = [chan EXCEPT ![i] = Append(chan[i], HsMessage(1))]
               \/ ~up /\ hs' = [hs EXCEPT ![r] = 9] /\ chan' = chan /\ up' = FALSE
        BY <1>1, <2>2, <1>i, <1>h DEF WriteHandshake, is_my_turn, Fails, Failed
      <3>2. hs'[i] = hs[i] /\ hs'[r] \in {2, 9} /\ chan'[r] = chan[r] /\ hs[i] # 2
        BY <3>1, <1>h, <1>c, <1>i, <1>a
      <3>3. Resting(hs', sending')
        BY <3>1, <3>2, <1>r, <1>i
      <3>4. Answered(hs', chan') /\ Keyed(hs')
        <4>1. CASE hs'[r] = 2
          BY <3>1, <3>2, <4>1, <1>a
        <4>2. CASE hs'[r] = 9
          <5>1. chan' = chan
            BY <3>1, <4>2, <1>h, <1>i
          <5> QED BY <3>1, <3>2, <4>2, <5>1, <1>a
        <4> QED BY <3>2, <4>1, <4>2
      <3>5. ASSUME keys, faults' = 0 PROVE Ordered(hs', chan', up')
        <4>1. Ordered(hs, chan, up)
          BY <3>1, <3>5, <1>o
        <4>2. up /\ up' = up /\ hs'[r] = 2 /\ hs[i] = 1 /\ chan[r] = <<>> /\ chan[i] = <<>>
          BY <3>1, <3>2, <4>1, <1>h, <1>i
        <4>3. chan'[i] = Append(<<>>, HsMessage(1))
          BY <3>1, <4>2, <1>c, <1>i
        <4>4. chan'[i] = <<HsMessage(1)>>
          BY <4>3
        <4> QED BY <3>2, <4>2, <4>4
      <3> QED BY <3>3, <3>4, <3>5
    <2> QED BY <2>1, <2>2, <1>i
  <1>2. ASSUME NEW s \in Side, ReadHandshake(s) PROVE Goal
    <2>0. /\ UNCHANGED <<sending, faults>>
          /\ \/ /\ chan[s] # <<>> /\ chan' = [chan EXCEPT ![s] = Tail(chan[s])]
                /\ \/ Reads(s, Head(chan[s])) /\ hs' = [hs EXCEPT ![s] = hs[s] + 1] /\ up' = up
                   \/ ~Reads(s, Head(chan[s])) /\ hs' = [hs EXCEPT ![s] = 9]
             \/ chan[s] = <<>> /\ ~up /\ hs' = [hs EXCEPT ![s] = 9] /\ chan' = chan
      BY <1>2 DEF ReadHandshake, Fails, Failed
    <2>1. ASSUME s = i PROVE Goal
      <3>1. hs[i] = 1 /\ hs'[r] = hs[r] /\ chan'[r] = chan[r]
        BY <1>2, <2>0, <2>1, <1>i, <1>h, <1>c DEF ReadHandshake, is_my_turn, Connecting, Finished
      <3>2. \/ hs'[i] = 9
            \/ hs'[i] = 2 /\ chan[i] # <<>> /\ Head(chan[i]) = HsMessage(1) /\ up' = up
        BY <2>0, <2>1, <3>1, <1>h, <1>i DEF Reads
      <3>3. Head(chan[i]) = HsMessage(1) /\ chan[i] # <<>> => hs[r] = 2
        <4>1. chan[i] # <<>> => 1 \in DOMAIN chan[i] /\ Head(chan[i]) = chan[i][1]
          BY <1>c, <1>i
        <4> QED BY <4>1, <1>a
      <3>4. Keyed(hs')
        BY <3>1, <3>2, <3>3, <1>a
      <3>5. Resting(hs', sending')
        BY <2>0, <3>1, <3>2, <1>r, <1>i
      <3>6. Answered(hs', chan')
        <4>1. chan'[i] = chan[i] \/ (chan[i] # <<>> /\ chan'[i] = Tail(chan[i]))
          BY <2>0, <2>1, <1>c, <1>i
        <4>2. \A k \in DOMAIN chan'[i] : \E l \in DOMAIN chan[i] : chan'[i][k] = chan[i][l]
          <5>1. chan[i] \in Seq(M)
            BY <1>c, <1>i
          <5>2. ASSUME chan[i] # <<>>, NEW k \in DOMAIN Tail(chan[i])
                PROVE  k + 1 \in DOMAIN chan[i] /\ Tail(chan[i])[k] = chan[i][k + 1]
            BY <5>1, <5>2
          <5> QED BY <4>1, <5>2
        <4> QED BY <3>1, <4>2, <1>a
      <3>7. ASSUME keys, faults' = 0 PROVE Ordered(hs', chan', up')
        <4>1. Ordered(hs, chan, up)
          BY <2>0, <3>7, <1>o
        <4>2. chan[i] # <<>> => Head(chan[i]) = chan[i][1]
          BY <1>c, <1>i
        <4>3. up /\ hs[r] # 9 /\ hs[i] = 1 /\ (hs[r] = 2 => Head(chan[i]) = HsMessage(1) /\ chan[i] # <<>>)
          BY <3>1, <4>1, <4>2
        <4>4. hs[r] # 2 => chan[i] = <<>>
          BY <3>1, <4>1, <1>h, <1>i
        <4>5. hs'[i] = 2 /\ up' = up
          <5>1. chan[i] # <<>>
            BY <2>0, <2>1, <4>3
          <5>2. Reads(i, Head(chan[i]))
            BY <3>1, <4>3, <4>4, <5>1 DEF Reads
          <5>3. hs' = [hs EXCEPT ![i] = hs[i] + 1] /\ up' = up
            BY <2>0, <2>1, <5>1, <5>2
          <5> QED BY <3>1, <5>3, <1>h, <1>i
        <4> QED BY <3>1, <4>3, <4>5
      <3> QED BY <3>4, <3>5, <3>6, <3>7
    <2>2. ASSUME s = r PROVE Goal
      <3>1. hs[r] = 0 /\ hs'[i] = hs[i] /\ chan'[i] = chan[i]
        BY <1>2, <2>0, <2>2, <1>i, <1>h, <1>c DEF ReadHandshake, is_my_turn, Connecting, Finished
      <3>2. hs'[r] = 9 \/ (hs'[r] = 1 /\ keys /\ up' = up)
        BY <2>0, <2>2, <3>1, <1>h, <1>i DEF Reads
      <3>3. Keyed(hs')
        BY <3>1, <3>2, <1>a
      <3>4. Resting(hs', sending')
        BY <2>0, <3>1, <3>2, <1>r, <1>i
      <3>5. Answered(hs', chan')
        BY <3>1, <1>a
      <3>6. ASSUME keys, faults' = 0 PROVE Ordered(hs', chan', up')
        <4>1. Ordered(hs, chan, up)
          BY <2>0, <3>6, <1>o
        <4>2. up /\ hs[i] # 9 /\ hs[i] # 2
          BY <3>1, <4>1, <1>a
        <4>3. hs[i] \in {0, 1}
          BY <4>2, <1>h, <1>i
        <4>4. hs[i] = 0 => chan[r] = <<>>
          BY <4>1
        <4>5. hs[i] = 1 => chan[r] = <<HsMessage(0)>>
          BY <3>1, <4>1
        <4>6. chan[r] # <<>>
          BY <2>0, <2>2, <4>2
        <4>a. hs[i] = 1 /\ chan[i] = <<>>
          BY <3>1, <4>1, <4>3, <4>4, <4>6
        <4>7. Head(chan[r]) = HsMessage(0) /\ Tail(chan[r]) = <<>>
          <5>1. \A m : Head(<<m>>) = m /\ Tail(<<m>>) = <<>>
            OBVIOUS
          <5> QED BY <4>a, <4>5, <5>1
        <4>8. hs'[r] = 1 /\ up' = up /\ chan'[r] = <<>>
          <5>1. Reads(r, Head(chan[r]))
            BY <3>1, <3>6, <4>7 DEF Reads
          <5>2. hs' = [hs EXCEPT ![r] = hs[r] + 1] /\ up' = up /\ chan' = [chan EXCEPT ![r] = Tail(chan[r])]
            BY <2>0, <2>2, <4>6, <5>1
          <5> QED BY <3>1, <4>7, <5>2, <1>h, <1>c, <1>i
        <4> QED BY <3>1, <4>2, <4>a, <4>8
      <3> QED BY <3>3, <3>4, <3>5, <3>6
    <2> QED BY <2>1, <2>2, <1>i
  <1>3. ASSUME NEW s \in Side, NEW t \in SendTask, Seal(s, t) PROVE Goal
    <2>1. hs[s] = 2 /\ UNCHANGED <<hs, up, chan, faults>>
      BY <1>3 DEF Seal, Connected, Finished
    <2>2. \A x \in Side : x # s => sending'[x] = sending[x]
      BY <1>3, <1>s DEF Seal
    <2>3. Resting(hs', sending')
      BY <2>1, <2>2, <1>r
    <2> QED BY <2>1, <2>3, <1>a, <1>o
  <1>d. ASSUME NEW s \in Side, NEW t \in SendTask, Done(s, t), hs' = hs PROVE Resting(hs', sending')
    <2>1. \A x \in Side, y \in SendTask : sending'[x][y] \in {sending[x][y], None}
      BY <1>d, <1>s DEF Done
    <2> QED BY <1>d, <2>1, <1>r
  <1>4. ASSUME NEW s \in Side, NEW t \in SendTask, Hand(s, t) PROVE Goal
    <2> DEFINE p == Peer(s)  d == sending[s][t]
    <2>1. /\ hs[s] = 2 /\ UNCHANGED <<hs, up, faults>>
          /\ chan' = [chan EXCEPT ![p] = Append(chan[p], d)]
      BY <1>4, <1>r DEF Hand, Idle
    <2>2. Resting(hs', sending')
      BY <1>4, <1>d DEF Hand
    <2>3. d \in M
      BY <1>s DEF M
    <2> HIDE DEF d
    <2>4. CASE s = r
      <3>1. chan'[i] = Append(chan[i], d) /\ chan'[r] = chan[r] /\ chan[i] \in Seq(M) /\ hs[r] = 2
        BY <2>1, <2>4, <1>c, <1>i
      <3>2. Answered(hs', chan') /\ Keyed(hs')
        BY <2>1, <3>1, <1>a
      <3>3. chan[i] # <<>> => chan'[i] # <<>> /\ chan'[i][1] = chan[i][1]
        BY <2>3, <3>1
      <3>4. ASSUME keys, faults' = 0 PROVE Ordered(hs', chan', up')
        <4>1. Ordered(hs, chan, up)
          BY <2>1, <3>4, <1>o
        <4>2. hs'[i] = hs[i] /\ hs'[r] = 2 /\ up' = up
          BY <2>1, <3>1
        <4> QED BY <3>1, <3>3, <4>1, <4>2
      <3> QED BY <2>2, <3>2, <3>4
    <2>5. CASE s = i
      <3>1. chan'[i] = chan[i] /\ hs[i] = 2
        BY <2>1, <2>5, <1>c, <1>i
      <3>2. Answered(hs', chan') /\ Keyed(hs')
        BY <2>1, <3>1, <1>a
      <3>3. ASSUME keys, faults' = 0 PROVE Ordered(hs', chan', up')
        <4>1. Ordered(hs, chan, up)
          BY <2>1, <3>3, <1>o
        <4> QED BY <2>1, <3>1, <4>1
      <3> QED BY <2>2, <3>2, <3>3
    <2> QED BY <2>4, <2>5, <1>i
  <1>5. ASSUME NEW s \in Side, NEW t \in SendTask, GiveUp(s, t) PROVE Goal
    <2>1. UNCHANGED <<hs, up, chan, faults>> /\ Resting(hs', sending')
      BY <1>5, <1>d DEF GiveUp
    <2> QED BY <2>1, <1>a, <1>o
  <1>6. ASSUME NEW s \in Side, NEW t \in RecvTask, Take(s, t) PROVE Goal
    <2>1. /\ hs[s] = 2 /\ UNCHANGED <<hs, up, faults, sending>> /\ chan[s] # <<>>
          /\ chan' = [chan EXCEPT ![s] = Tail(chan[s])]
      BY <1>6 DEF Take, Connected, Finished
    <2>2. hs[r] = 2
      BY <2>1, <1>a, <1>i
    <2>3. Resting(hs', sending') /\ Answered(hs', chan') /\ Keyed(hs')
      BY <2>1, <2>2, <1>r, <1>a
    <2>4. ASSUME keys, faults' = 0 PROVE Ordered(hs', chan', up')
      <3>1. Ordered(hs, chan, up)
        BY <2>1, <2>4, <1>o
      <3>2. hs[i] # 0 /\ (hs[i] = 1 => chan[r] = <<>>)
        BY <2>2, <3>1
      <3>3. hs[i] = 2
        BY <2>1, <3>1, <3>2, <1>h, <1>i
      <3>4. hs'[i] = 2 /\ hs'[r] = 2 /\ up' = up /\ up
        BY <2>1, <2>2, <3>1, <3>3
      <3> QED BY <3>4
    <2> QED BY <2>3, <2>4
  <1>7. ASSUME NEW s \in Side, NEW t \in RecvTask, Open(s, t) PROVE Goal
    <2>1. UNCHANGED <<hs, up, chan, faults, sending>>
      BY <1>7 DEF Open
    <2> QED BY <2>1, <1>a, <1>o, <1>r
  <1>8. ASSUME NEW s \in Side, Fault(s) PROVE Goal
    <2>1. faults' # 0 /\ UNCHANGED <<hs, sending>>
      BY <1>8, <1>s DEF Fault
    <2>2. PICK j \in DOMAIN chan[s] :
              \/ chan' = [chan EXCEPT ![s] = Append(@, @[j])]
              \/ /\ j < Len(chan[s])
                 /\ chan' = [chan EXCEPT ![s] = [@ EXCEPT ![j] = chan[s][j + 1], ![j + 1] = chan[s][j]]]
              \/ \E m \in Broken : chan' = [chan EXCEPT ![s][j] = m]
      BY <1>8 DEF Fault
    <2>3. chan[s] \in Seq(M) /\ j \in 1..Len(chan[s]) /\ chan[s][j] \in M
      BY <1>c
    <2>4. \A x \in Side : x # s => chan'[x] = chan[x]
      BY <1>c, <2>2
    <2>5. ASSUME NEW k \in DOMAIN chan'[s], chan'[s][k] = HsMessage(1)
          PROVE  \E l \in DOMAIN chan[s] : chan[s][l] = HsMessage(1)
      <3>1. CASE chan' = [chan EXCEPT ![s] = Append(@, @[j])]
        <4>1. chan'[s] = Append(chan[s], chan[s][j]) /\ k \in 1..(Len(chan[s]) + 1)
          BY <1>c, <2>3, <2>5, <3>1
        <4>2. chan'[s][k] = chan[s][j] \/ (k \in DOMAIN chan[s] /\ chan'[s][k] = chan[s][k])
          BY <2>3, <4>1
        <4> QED BY <2>5, <4>2
      <3>2. CASE /\ j < Len(chan[s])
                 /\ chan' = [chan EXCEPT ![s] = [@ EXCEPT ![j] = chan[s][j + 1], ![j + 1] = chan[s][j]]]
        <4>1. chan'[s] = [chan[s] EXCEPT ![j] = chan[s][j + 1], ![j + 1] = chan[s][j]]
          BY <1>c, <3>2
        <4>2. k \in DOMAIN chan[s] /\ j + 1 \in DOMAIN chan[s]
          BY <2>3, <2>5, <3>2, <4>1
        <4>3. chan'[s][k] \in {chan[s][j], chan[s][j + 1], chan[s][k]}
          BY <4>1, <4>2
        <4> QED BY <2>5, <4>2, <4>3
      <3>3. ASSUME NEW m \in Broken, chan' = [chan EXCEPT ![s][j] = m]
            PROVE  \E l \in DOMAIN chan[s] : chan[s][l] = HsMessage(1)
        <4>1. chan' = [chan EXCEPT ![s][j] = m] /\ m # HsMessage(1)
          <5>1. DOMAIN m = {"nonce", "body"} /\ DOMAIN HsMessage(1) = {"hs"}
            BY DEF HsMessage, Broken, TooShort
          <5> QED BY <3>3, <5>1
        <4>2. k \in DOMAIN chan[s] /\ (chan'[s][k] = m \/ chan'[s][k] = chan[s][k])
          BY <1>c, <2>3, <2>5, <4>1
        <4> QED BY <2>5, <4>1, <4>2
      <3> QED BY <2>2, <3>1, <3>2, <3>3
    <2>6. Answered(hs', chan')
      BY <2>1, <2>4, <2>5, <1>a, <1>i
    <2> QED BY <2>1, <2>6, <1>a, <1>r
  <1>9. ASSUME Break PROVE Goal
    <2>1. faults' # 0 /\ UNCHANGED <<hs, sending>>
      BY <1>9, <1>s DEF Break
    <2>2. \A x \in Side : chan'[x] \in {chan[x], <<>>}
      BY <1>9 DEF Break
    <2>3. \A k \in DOMAIN chan'[i] : k \in DOMAIN chan[i] /\ chan'[i][k] = chan[i][k]
      BY <2>2, <1>i
    <2>4. Answered(hs', chan')
      BY <2>1, <2>3, <1>a
    <2> QED BY <2>1, <2>4, <1>a, <1>r
  <1>10. ASSUME UNCHANGED vars PROVE Goal
    BY <1>10, <1>a, <1>o, <1>r DEF vars
  <1> HIDE DEF Goal
  <1> QED BY SMTT(30), <1>1, <1>2, <1>3, <1>4, <1>5, <1>6, <1>7, <1>8, <1>9, <1>10, Steps
LEMMA InvStep == IInv /\ [Next]_vars => IInv'
  BY TypeStep, SealStep, DatagramStep, OpenStep DEF IInv

\* The bodies that were received, as messages of the channel.
Rec(q) == [i \in DOMAIN q |-> <<[no |-> q[i], k |-> 1]>>]

LEMMA RecAppend ==
    ASSUME NEW q \in Seq(Nat), NEW b \in Nat
    PROVE  Rec(Append(q, b)) = Append(Rec(q), <<[no |-> b, k |-> 1]>>)
  <1> DEFINE W(n) == <<[no |-> n, k |-> 1]>>  a == Append(q, b)  n == Len(q)
             X == {W(j) : j \in Nat}
  <1>1. /\ n \in Nat /\ DOMAIN q = 1..n /\ DOMAIN a = 1..(n + 1)
        /\ \A i \in 1..n : a[i] = q[i] /\ q[i] \in Nat
        /\ a[n + 1] = b
    OBVIOUS
  <1>2. Rec(q) = [i \in 1..n |-> W(q[i])] /\ Rec(a) = [i \in 1..(n + 1) |-> W(a[i])]
    BY <1>1 DEF Rec
  <1>3. W(b) \in X /\ \A i \in 1..n : W(q[i]) \in X
    BY <1>1
  <1> HIDE DEF W, a, n, X
  <1>4. Rec(q) \in Seq(X) /\ Len(Rec(q)) = n
    BY <1>1, <1>2, <1>3
  <1>5. /\ Append(Rec(q), W(b)) \in Seq(X) /\ DOMAIN Append(Rec(q), W(b)) = 1..(n + 1)
        /\ \A i \in 1..n : Append(Rec(q), W(b))[i] = Rec(q)[i]
        /\ Append(Rec(q), W(b))[n + 1] = W(b)
    BY <1>1, <1>3, <1>4
  <1>6. \A i \in 1..(n + 1) : Append(Rec(q), W(b))[i] = W(a[i])
    BY <1>1, <1>2, <1>5
  <1>7. Append(Rec(q), W(b)) = [i \in 1..(n + 1) |-> W(a[i])]
    <2> DEFINE z == Append(Rec(q), W(b))
    <2>1. z \in Seq(X) /\ DOMAIN z = 1..(n + 1) /\ \A i \in 1..(n + 1) : z[i] = W(a[i])
      BY <1>5, <1>6
    <2> HIDE DEF z
    <2>2. z = [i \in 1..(n + 1) |-> z[i]]
      BY <2>1
    <2>3. z = [i \in 1..(n + 1) |-> W(a[i])]
      BY <2>1, <2>2
    <2> QED BY <2>3 DEF z
  <1>8. Rec(a) = Append(Rec(q), W(b))
    BY <1>2, <1>7
  <1> QED BY <1>8 DEF a, W

\* A step sends one message from s, delivers one that was sent and not received
\* before, or does neither.
LEMMA ChannelStep ==
    ASSUME IInv, [Next]_vars, NEW s \in Side
    PROVE  LET p == Peer(s) IN
           \/ /\ Len(sealed[s]) < MaxSent[s] /\ Len(sealed'[s]) = Len(sealed[s]) + 1
              /\ opened'[p] = opened[p]
           \/ \E no \in 1..MaxSent[s] :
                 /\ no <= Len(sealed[s]) /\ no \notin Range(opened[p])
                 /\ Rec(opened'[p]) = Append(Rec(opened[p]), <<[no |-> no, k |-> 1]>>)
                 /\ sealed'[s] = sealed[s]
           \/ sealed'[s] = sealed[s] /\ opened'[p] = opened[p]
  <1> DEFINE p == Peer(s)
             Goal == \/ /\ Len(sealed[s]) < MaxSent[s] /\ Len(sealed'[s]) = Len(sealed[s]) + 1
                        /\ opened'[p] = opened[p]
                     \/ \E no \in 1..MaxSent[s] :
                           /\ no <= Len(sealed[s]) /\ no \notin Range(opened[p])
                           /\ Rec(opened'[p]) = Append(Rec(opened[p]), <<[no |-> no, k |-> 1]>>)
                           /\ sealed'[s] = sealed[s]
                     \/ sealed'[s] = sealed[s] /\ opened'[p] = opened[p]
  <1>t. sealed \in [Side -> Seq(Nonce)] /\ opened \in [Side -> Seq(Nat)] /\ p \in Side /\ Peer(p) = s
    BY PeerType DEF IInv, TypeOK
  <1>l. Len(sealed[s]) <= MaxSent[s] /\ Len(sealed[s]) \in Nat /\ MaxSent[s] \in Nat
    BY <1>t, NonceBound DEF IInv, SealInv
  <1> HIDE DEF p
  <1>1. ASSUME NEW x \in Side, NEW t \in SendTask, Seal(x, t) PROVE Goal
    <2>1. sealed' = [sealed EXCEPT ![x] = Append(sealed[x], outgoing[x])] /\ opened' = opened
          /\ Len(sealed[x]) < MaxSent[x]
      BY <1>1 DEF Seal
    <2>2. CASE x = s
      <3>1. sealed'[s] = Append(sealed[s], outgoing[s])
        BY <1>t, <2>1, <2>2
      <3>2. Len(sealed'[s]) = Len(sealed[s]) + 1
        BY <1>t, <3>1
      <3> QED BY <2>1, <2>2, <3>2
    <2>3. CASE x # s
      BY <1>t, <2>1, <2>3
    <2> QED BY <2>2, <2>3
  <1>2. ASSUME NEW x \in Side, NEW t \in RecvTask, Open(x, t) PROVE Goal
    <2> DEFINE d == holding[x][t][1]  b == d.body
               new == d.nonce \notin incoming[x] /\ b > 0
    <2>1. /\ d.nonce \in Nat /\ b \in Int
          /\ b > 0 => b = d.nonce + 1 /\ b <= Len(sealed[Peer(x)])
          /\ d.nonce \in incoming[x] <=> d.nonce + 1 \in Bodies(x)
          /\ opened' = IF new THEN [opened EXCEPT ![x] = Append(@, b)] ELSE opened
          /\ sealed' = sealed
      BY <1>2, OpenFacts DEF IInv
    <2>2. new => b = d.nonce + 1 /\ b \notin Range(opened[x]) /\ b > 0
      BY <2>1 DEF Bodies
    <2> HIDE DEF b, d, new
    <2>3. CASE ~new \/ x # p
      BY <1>t, <2>1, <2>3
    <2>4. CASE new /\ x = p
      <3>1. opened'[p] = Append(opened[p], b)
        BY <1>t, <2>1, <2>4
      <3>2. Rec(opened'[p]) = Append(Rec(opened[p]), <<[no |-> b, k |-> 1]>>)
        <4>1. b \in Nat /\ opened[p] \in Seq(Nat)
          BY <1>t, <2>1, <2>2, <2>4
        <4> QED BY <3>1, <4>1, RecAppend
      <3>3. b \in 1..MaxSent[s] /\ b <= Len(sealed[s]) /\ b \notin Range(opened[p])
        BY <1>t, <1>l, <2>1, <2>2, <2>4
      <3> QED BY <2>1, <3>2, <3>3
    <2> QED BY <2>3, <2>4
  <1>3. \/ UNCHANGED <<sealed, opened>>
        \/ \E x \in Side, t \in RecvTask : Open(x, t)
        \/ \E x \in Side, t \in SendTask : Seal(x, t)
    BY DEF Next, Connect, WriteHandshake, ReadHandshake, Hand, GiveUp, Recv, Take, Fault, Break, vars
  <1>4. Goal
    BY <1>1, <1>2, <1>3
  <1> QED BY <1>4 DEF p

\* A channel that has delivered nothing but single packets.
LEMMA WholeMessage ==
    ASSUME NEW s \in Side
    PROVE  /\ Len(Messages(s)) = MaxSent[s]
           /\ \A no \in 1..MaxSent[s] : /\ ~Messages(s)[no].order
                                        /\ [k \in 1..Messages(s)[no].pkts |-> [no |-> no, k |-> k]]
                                             = <<[no |-> no, k |-> 1]>>
  <1>1. MaxSent[s] \in Nat
    BY NonceBound
  <1>2. Len(Messages(s)) = MaxSent[s]
    BY <1>1 DEF Messages
  <1>3. \A no \in 1..MaxSent[s] : Messages(s)[no].pkts = 1 /\ ~Messages(s)[no].order
    BY DEF Messages
  <1>4. \A no : [k \in 1..1 |-> [no |-> no, k |-> k]] = <<[no |-> no, k |-> 1]>>
    OBVIOUS
  <1> QED BY <1>2, <1>3, <1>4

LEMMA RecWitness ==
    ASSUME NEW q, NEW no, no \notin Range(q)
    PROVE  ~\E i \in DOMAIN Rec(q) : Rec(q)[i] = <<[no |-> no, k |-> 1]>>
  BY DEF Rec, Range
-----------------------------------------------------------------------------

LEMMA Invariance == Spec => [](IInv /\ NothingRefused /\ HandshakeInv /\ HandshakeSound)
  <1> DEFINE J == IInv /\ NothingRefused /\ HandshakeInv /\ HandshakeSound
  <1>1. Init => J
    <2>1. Init => NothingRefused
      BY DEF Init, NothingRefused
    <2>2. Init => HandshakeSound
      BY DEF Init, HandshakeSound, Failed, Connected, Finished, Side
    <2> QED BY <2>1, <2>2, InitInv
  <1>2. J /\ [Next]_vars => J'
    <2>1. IInv => TypeOK
      BY DEF IInv
    <2> QED BY <2>1, InvStep, RefusedStep, HandshakeStep
  <1> QED BY <1>1, <1>2, PTL DEF Spec

\* The nonces: the fetch_add of send_with never gives one nonce to two bodies, of
\* however many tasks.
THEOREM NonceCorrect == Spec => []NonceSound
  <1>1. IInv => NonceSound
    <2> SUFFICES ASSUME IInv PROVE NonceOnce
      BY DEF IInv, NonceSound
    <2> SUFFICES ASSUME NEW s \in Side PROVE IsInjective(sealed[s])
      BY DEF NonceOnce
    <2>1. sealed[s] \in Seq(Nonce) /\ \A i \in 1..Len(sealed[s]) : sealed[s][i] = i - 1
      BY DEF IInv, TypeOK, SealInv
    <2>2. ASSUME NEW a \in DOMAIN sealed[s], NEW b \in DOMAIN sealed[s], sealed[s][a] = sealed[s][b]
          PROVE  a = b
      <3>1. a \in 1..Len(sealed[s]) /\ b \in 1..Len(sealed[s])
        BY <2>1
      <3>2. a - 1 = b - 1
        BY <2>1, <2>2, <3>1
      <3> QED BY <3>1, <3>2
    <2> QED BY <2>2 DEF IsInjective
  <1> QED BY <1>1, Invariance, PTL

\* recv refuses nothing that arrives intact for the first time, whatever the
\* connection repeats, exchanges or damages before it.
THEOREM RefusedCorrect == Spec => []NothingRefused
  BY Invariance, PTL

\* connect: it fails only for a cause, and an initiator that is connected is so to
\* the holder of the key, who is connected too.
THEOREM HandshakeCorrect == Spec => []HandshakeSound
  BY Invariance, PTL

\* In each direction send_with and recv implement the channel: every body that is
\* returned was sent, and is returned once, although the connection below may
\* repeat, exchange and damage datagrams.
THEOREM ChannelCorrect == Spec => ImplementsChannel
  <1> DEFINE i == "initiator"  r == "responder"
  <1>i. i \in Side /\ r \in Side /\ Peer(i) = r /\ Peer(r) = i
    BY DEF Side, Peer
  <1>1. Init => Requests!Init /\ Answers!Init
    BY DEF Init, Requests!Init, Answers!Init, Received, Side
  <1>2. ASSUME IInv, [Next]_vars PROVE [Requests!Next]_Requests!vars
    <2> DEFINE w(no) == <<[no |-> no, k |-> 1]>>
    <2>1. /\ Received(r) = Rec(opened[r]) /\ Received(r)' = Rec(opened'[r])
          /\ Len(Messages(i)) = MaxSent[i]
          /\ \A no \in 1..MaxSent[i] : ~Messages(i)[no].order /\ Requests!Whole(no) = w(no)
      BY WholeMessage, <1>i DEF Received, Rec, Requests!Whole
    <2>2. CASE /\ Len(sealed[i]) < MaxSent[i] /\ Len(sealed'[i]) = Len(sealed[i]) + 1
               /\ opened'[r] = opened[r]
      BY <2>1, <2>2 DEF Requests!Next, Requests!Send
    <2>3. ASSUME NEW no \in 1..MaxSent[i], no <= Len(sealed[i]), no \notin Range(opened[r]),
                 Rec(opened'[r]) = Append(Rec(opened[r]), w(no)), sealed'[i] = sealed[i]
          PROVE  Requests!Next
      <3>1. ~Requests!Got(no)
        BY <2>1, <2>3, RecWitness DEF Requests!Got
      <3> QED BY <2>1, <2>3, <3>1 DEF Requests!Next, Requests!Receive
    <2>4. CASE sealed'[i] = sealed[i] /\ opened'[r] = opened[r]
      BY <2>1, <2>4 DEF Requests!vars
    <2> QED BY <1>2, <1>i, <2>2, <2>3, <2>4, ChannelStep
  <1>3. ASSUME IInv, [Next]_vars PROVE [Answers!Next]_Answers!vars
    <2> DEFINE w(no) == <<[no |-> no, k |-> 1]>>
    <2>1. /\ Received(i) = Rec(opened[i]) /\ Received(i)' = Rec(opened'[i])
          /\ Len(Messages(r)) = MaxSent[r]
          /\ \A no \in 1..MaxSent[r] : ~Messages(r)[no].order /\ Answers!Whole(no) = w(no)
      BY WholeMessage, <1>i DEF Received, Rec, Answers!Whole
    <2>2. CASE /\ Len(sealed[r]) < MaxSent[r] /\ Len(sealed'[r]) = Len(sealed[r]) + 1
               /\ opened'[i] = opened[i]
      BY <2>1, <2>2 DEF Answers!Next, Answers!Send
    <2>3. ASSUME NEW no \in 1..MaxSent[r], no <= Len(sealed[r]), no \notin Range(opened[i]),
                 Rec(opened'[i]) = Append(Rec(opened[i]), w(no)), sealed'[r] = sealed[r]
          PROVE  Answers!Next
      <3>1. ~Answers!Got(no)
        BY <2>1, <2>3, RecWitness DEF Answers!Got
      <3> QED BY <2>1, <2>3, <3>1 DEF Answers!Next, Answers!Receive
    <2>4. CASE sealed'[r] = sealed[r] /\ opened'[i] = opened[i]
      BY <2>1, <2>4 DEF Answers!vars
    <2> QED BY <1>3, <1>i, <2>2, <2>3, <2>4, ChannelStep
  <1> QED BY <1>1, <1>2, <1>3, Invariance, PTL DEF Spec, ImplementsChannel, Requests!Spec, Answers!Spec
=============================================================================
