-------------------------- MODULE UdtSocketsProofs ---------------------------
(***************************************************************************)
(* Proofs about the socket tables of CUDTUnited, for any number of         *)
(* sockets, connections and peers, any backlog and any patience of the     *)
(* collector.                                                              *)
(***************************************************************************)
EXTENDS UdtSockets, FiniteSetTheorems, WellFoundedInduction, TLAPS

IInv ==
    /\ TypeOK /\ RefsExact /\ NoDangling
    /\ AppInv /\ MuxInv /\ QueueInv /\ PeerInv /\ WorkerInv

-----------------------------------------------------------------------------
(* The ids.                                                                *)

LEMMA Ids ==
    /\ Conn \subseteq Nat /\ None \notin Conn /\ None \notin Local
    /\ Conn \cap Local = {} /\ Local \subseteq Id /\ Conn \subseteq Id
    /\ \A u \in Id : u \in Local \/ u \in Conn
  BY SocketsAssumption DEF Conn, Id, None

LEMMA IdsFinite == IsFiniteSet(Conn) /\ IsFiniteSet(Id)
<1>1. IsFiniteSet(Conn)
  BY SocketsAssumption, FS_Interval DEF Conn
<1>2. QED
  BY <1>1, SocketsAssumption, FS_Union DEF Id

\* The earliest and the latest of the ids of connections, as accept and
\* LocatePeer, and newSocket, take them.
LEMMA MinOfConn ==
    ASSUME NEW S \in SUBSET Conn, S # {}
    PROVE  Min(S) \in S /\ \A c \in S : Min(S) =< c
<1> DEFINE less == {p \in Nat \X Nat : p[1] < p[2]}
<1>1. IsWellFoundedOn(less, Nat)
  BY NatLessThanWellFounded DEF OpToRel
<1>2. S \subseteq Nat
  BY Ids
<1>3. PICK m \in S : \A c \in S : <<c, m>> \notin less
  BY <1>1, <1>2, WFMin
<1>4. ASSUME NEW c \in S
      PROVE  m =< c
  <2>1. c \in Nat /\ m \in Nat
    BY <1>2
  <2>2. ~(c < m)
    BY <1>3, <2>1
  <2>3. QED
    BY <2>1, <2>2
<1>5. QED
  BY <1>4 DEF Min

LEMMA MaxOfConn ==
    ASSUME NEW S \in SUBSET Conn, S # {}
    PROVE  Max(S) \in S /\ \A c \in S : Max(S) >= c
<1> DEFINE rest == {MaxConn - c : c \in S}
           less == {p \in Nat \X Nat : p[1] < p[2]}
<1>1. MaxConn \in Nat /\ \A c \in S : c \in Nat /\ c <= MaxConn
  BY SocketsAssumption DEF Conn
<1>2. IsWellFoundedOn(less, Nat)
  BY NatLessThanWellFounded DEF OpToRel
<1>3. rest \subseteq Nat /\ rest # {}
  BY <1>1
<1>4. PICK m \in rest : \A d \in rest : <<d, m>> \notin less
  BY <1>2, <1>3, WFMin
<1>5. PICK c \in S : m = MaxConn - c
  BY <1>4
<1>6. ASSUME NEW d \in S
      PROVE  c >= d
  <2>1. MaxConn - d \in rest /\ MaxConn - d \in Nat /\ m \in Nat
    BY <1>1, <1>3
  <2>2. ~(MaxConn - d < m)
    BY <1>4, <2>1
  <2>3. c \in Nat /\ d \in Nat
    BY <1>1
  <2>4. QED
    BY <1>1, <1>5, <2>1, <2>2, <2>3
<1>7. QED
  BY <1>6 DEF Max

\* The sockets that use the multiplexer.
Users == {u \in Id : sock[u].mux /\ sock[u].where # "freed"}

LEMMA UsersCounted ==
    ASSUME TypeOK
    PROVE  IsFiniteSet(Users) /\ Cardinality(Users) \in Nat
<1>1. Users \in SUBSET Id
  BY DEF Users
<1>2. IsFiniteSet(Users)
  BY <1>1, IdsFinite, FS_Subset
<1>3. QED
  BY <1>2, FS_CardinalityType

\* As long as the same sockets use it, nothing changes.
LEMMA SameUsers ==
    ASSUME IInv, Users' = Users, mux' = mux
    PROVE  RefsExact'
  BY DEF IInv, RefsExact, Users

-----------------------------------------------------------------------------
(* Steps of little effect.                                                 *)

\* One socket is replaced.
LEMMA SockUpdate ==
    ASSUME TypeOK, NEW x \in Id, NEW r, r \in Socket, sock' = [sock EXCEPT ![x] = r]
    PROVE  /\ sock' \in [Id -> Socket] /\ sock'[x] = r
           /\ \A u \in Id : u # x => sock'[u] = sock[u]
  BY DEF TypeOK

\* Flags and the timer of a socket change: it may break, and it may leave the
\* worker's list while the worker is in its loop.
LEMMA FlagStep ==
    ASSUME IInv, NEW x \in Id, NEW r \in Socket, sock' = [sock EXCEPT ![x] = r],
           r.status = sock[x].status, r.where = sock[x].where, r.from = sock[x].from,
           r.peer = sock[x].peer, r.mux = sock[x].mux,
           sock[x].broken => r.broken, sock[x].closing => r.closing,
           r.onList => sock[x].onList, r.broken => sock[x].broken \/ sock[x].where # "none",
           worker.pc # "loop" =>
              r.onList = sock[x].onList /\ (r.broken => sock[x].broken \/ held[x] # "no"),
           held' \in [Id -> {"no", "app", "closing"}], \A u \in Id : u # x => held'[u] = held[u],
           held'[x] # "no" => held[x] # "no" /\ (x \in Local /\ r.broken => sock[x].broken),
           UNCHANGED <<queued, peerRec, listener, mux, worker, gc>>
    PROVE  IInv'
<1> USE Ids
<1>1. /\ sock' \in [Id -> Socket] /\ sock'[x] = r
      /\ \A u \in Id : u # x => sock'[u] = sock[u]
  BY SockUpdate DEF IInv
<1>2. \A u \in Id :
         /\ sock'[u].status = sock[u].status /\ sock'[u].where = sock[u].where
         /\ sock'[u].from = sock[u].from /\ sock'[u].peer = sock[u].peer
         /\ sock'[u].mux = sock[u].mux
         /\ sock[u].broken => sock'[u].broken
         /\ sock[u].closing => sock'[u].closing
         /\ sock'[u].onList => sock[u].onList
         /\ held'[u] # "no" => held[u] # "no"
  BY <1>1
<1>3. TypeOK'
  BY <1>1 DEF IInv, TypeOK
<1>4. RefsExact'
  <2>1. {u \in Id : sock'[u].mux /\ sock'[u].where # "freed"} = {u \in Id : sock[u].mux /\ sock[u].where # "freed"}
    BY <1>2
  <2>2. QED
    BY <2>1 DEF IInv, RefsExact
<1>5. NoDangling'
  BY <1>2 DEF IInv, NoDangling, TypeOK
<1>6. AppInv'
  BY <1>1, <1>2 DEF IInv, AppInv, In, TypeOK
<1>7. MuxInv'
  BY <1>2 DEF IInv, MuxInv, Free
<1>8. QueueInv'
  BY <1>2 DEF IInv, QueueInv, TypeOK
<1>9. PeerInv'
  BY <1>2 DEF IInv, PeerInv, Dead, TypeOK
<1>10. WorkerInv'
  <2>1. worker.pc \in Making => worker.ns \in Id /\ held[worker.ns] = "no"
    BY DEF IInv, WorkerInv
  <2>2. In("none")' = In("none") /\ In("open")' = In("open")
    BY <1>2 DEF In
  <2>3. \A d \in Id : Dead(d) => Dead(d)'
    BY <1>2 DEF Dead
  <2>4. worker.pc \in Making =>
           /\ sock'[worker.ns].onList = sock[worker.ns].onList
           /\ sock'[worker.ns].broken => sock[worker.ns].broken
    BY <1>1, <2>1 DEF Making
  <2>5. \A p \in Peer : peerRec[p] \subseteq Id
    BY DEF IInv, TypeOK
  <2>6. QED
    BY <1>2, <2>1, <2>2, <2>3, <2>4, <2>5 DEF IInv, WorkerInv, Making, TypeOK
<1>11. QED
  BY <1>3, <1>4, <1>5, <1>6, <1>7, <1>8, <1>9, <1>10 DEF IInv

\* The worker goes on, and nothing else moves.
LEMMA WorkerOnly ==
    ASSUME IInv, UNCHANGED <<sock, queued, held, peerRec, listener, mux, gc>>,
           worker' \in WorkerState, worker.pc # "exit", WorkerInv'
    PROVE  IInv'
<1>1. TypeOK' /\ RefsExact' /\ NoDangling'
  BY DEF IInv, TypeOK, RefsExact, NoDangling
<1>2. AppInv' /\ MuxInv' /\ QueueInv' /\ PeerInv'
  BY DEF IInv, AppInv, MuxInv, QueueInv, PeerInv, In, Free, Dead
<1>3. QED
  BY <1>1, <1>2 DEF IInv
\* A packet that breaks a connection, the worker's list, a timer, and close.
LEMMA FlagSteps ==
    ASSUME IInv,
           \/ \E c \in Conn : Break(c) \/ Unlist(c)
           \/ \E u \in Id : Elapse(u) \/ close(u)
    PROVE  IInv'
<1> USE Ids
<1>1. \A u \in Id : sock[u] \in Socket
  BY DEF IInv, TypeOK
<1>2. held \in [Id -> {"no", "app", "closing"}]
  BY DEF IInv, TypeOK
<1>3. ASSUME NEW c \in Conn, Break(c)
      PROVE  IInv'
  <2>1. PICK n \in 0..MaxPatience : sock' = [sock EXCEPT ![c].broken = TRUE, ![c].patience = n]
    BY <1>3 DEF Break
  <2> DEFINE r == [sock[c] EXCEPT !.broken = TRUE, !.patience = n]
  <2>2. c \in Id /\ sock[c] \in Socket /\ c \notin Local
    BY <1>1
  <2>3. sock' = [sock EXCEPT ![c] = r]
    BY <2>1
  <2>4. /\ r \in Socket
        /\ r.status = sock[c].status /\ r.where = sock[c].where /\ r.from = sock[c].from
        /\ r.peer = sock[c].peer /\ r.mux = sock[c].mux /\ r.onList = sock[c].onList
        /\ r.broken = TRUE /\ r.closing = sock[c].closing
    BY <2>2 DEF Socket
  <2>5. /\ worker.pc = "loop" /\ UNCHANGED <<queued, held, peerRec, listener, mux, worker, gc>>
        /\ sock[c].onList
    BY <1>3 DEF Break, Looping
  <2>6. sock[c].where # "none"
    BY <2>2, <2>5 DEF IInv, AppInv
  <2> HIDE DEF r
  <2>7. QED
    BY <1>2, <2>2, <2>3, <2>4, <2>5, <2>6, FlagStep
<1>4. ASSUME NEW c \in Conn, Unlist(c)
      PROVE  IInv'
  <2> DEFINE r == [sock[c] EXCEPT !.onList = FALSE]
  <2>1. /\ sock' = [sock EXCEPT ![c] = r] /\ sock[c].onList
        /\ worker.pc = "loop" /\ UNCHANGED <<queued, held, peerRec, listener, mux, worker, gc>>
    BY <1>4 DEF Unlist, Looping
  <2>2. c \in Id /\ sock[c] \in Socket /\ c \notin Local
    BY <1>1
  <2>3. /\ r \in Socket
        /\ r.status = sock[c].status /\ r.where = sock[c].where /\ r.from = sock[c].from
        /\ r.peer = sock[c].peer /\ r.mux = sock[c].mux /\ r.onList = FALSE
        /\ r.broken = sock[c].broken /\ r.closing = sock[c].closing
    BY <2>2 DEF Socket
  <2> HIDE DEF r
  <2>4. QED
    BY <1>2, <2>1, <2>2, <2>3, FlagStep
<1>5. ASSUME NEW u \in Id, Elapse(u)
      PROVE  IInv'
  <2> DEFINE r == [sock[u] EXCEPT !.timer = "over"]
  <2>1. /\ sock' = [sock EXCEPT ![u] = r]
        /\ UNCHANGED <<queued, held, peerRec, listener, mux, worker, gc>>
    BY <1>5 DEF Elapse
  <2>2. sock[u] \in Socket
    BY <1>1
  <2>3. /\ r \in Socket
        /\ r.status = sock[u].status /\ r.where = sock[u].where /\ r.from = sock[u].from
        /\ r.peer = sock[u].peer /\ r.mux = sock[u].mux /\ r.onList = sock[u].onList
        /\ r.broken = sock[u].broken /\ r.closing = sock[u].closing
    BY <2>2 DEF Socket
  <2> HIDE DEF r
  <2>4. QED
    BY <1>2, <2>1, <2>2, <2>3, FlagStep
<1>6. ASSUME NEW u \in Id, close(u), sock[u].status = "LISTENING"
      PROVE  IInv'
  <2> DEFINE r == [sock[u] EXCEPT !.broken = TRUE, !.timer = "running"]
  <2>1. /\ sock' = [sock EXCEPT ![u].broken = TRUE, ![u].timer = "running"]
        /\ held' = [held EXCEPT ![u] = "no"] /\ held[u] = "app"
        /\ UNCHANGED <<queued, peerRec, listener, mux, worker, gc>>
    BY <1>6 DEF close
  <2>2. sock[u] \in Socket /\ sock' = [sock EXCEPT ![u] = r]
    BY <1>1, <2>1
  <2>3. /\ r \in Socket
        /\ r.status = sock[u].status /\ r.where = sock[u].where /\ r.from = sock[u].from
        /\ r.peer = sock[u].peer /\ r.mux = sock[u].mux /\ r.onList = sock[u].onList
        /\ r.broken = TRUE /\ r.closing = sock[u].closing
    BY <2>2 DEF Socket
  <2>4. /\ held' \in [Id -> {"no", "app", "closing"}] /\ held'[u] = "no"
        /\ \A v \in Id : v # u => held'[v] = held[v]
    BY <1>2, <2>1
  <2> HIDE DEF r
  <2>5. sock' = [sock EXCEPT ![u] = r] /\ held[u] # "no"
        /\ UNCHANGED <<queued, peerRec, listener, mux, worker, gc>>
    BY <2>1, <2>2
  <2>6. sock[u].where # "none"
    BY <2>5 DEF IInv, AppInv
  <2>7. QED
    BY <2>3, <2>4, <2>5, <2>6, FlagStep
<1>7. ASSUME NEW u \in Id, close(u), sock[u].status # "LISTENING"
      PROVE  IInv'
  <2> DEFINE r == [sock[u] EXCEPT !.closing = locate(u) \/ @]
             h == IF locate(u) THEN "closing" ELSE "no"
  <2>1. /\ sock' = [sock EXCEPT ![u].closing = locate(u) \/ @]
        /\ held' = [held EXCEPT ![u] = h] /\ held[u] = "app"
        /\ UNCHANGED <<queued, peerRec, listener, mux, worker, gc>>
    BY <1>7 DEF close
  <2>2. sock[u] \in Socket /\ sock' = [sock EXCEPT ![u] = r]
    BY <1>1, <2>1
  <2>3. locate(u) \in BOOLEAN /\ (locate(u) \/ sock[u].closing) \in BOOLEAN
    BY DEF locate
  <2>4. /\ r \in Socket
        /\ r.status = sock[u].status /\ r.where = sock[u].where /\ r.from = sock[u].from
        /\ r.peer = sock[u].peer /\ r.mux = sock[u].mux /\ r.onList = sock[u].onList
        /\ r.broken = sock[u].broken /\ (sock[u].closing => r.closing)
    BY <2>2, <2>3 DEF Socket
  <2>5. /\ held' \in [Id -> {"no", "app", "closing"}]
        /\ \A v \in Id : v # u => held'[v] = held[v]
    BY <1>2, <2>1
  <2> HIDE DEF r, h
  <2>6. sock' = [sock EXCEPT ![u] = r] /\ held[u] # "no"
        /\ UNCHANGED <<queued, peerRec, listener, mux, worker, gc>>
    BY <2>1, <2>2
  <2>7. QED
    BY <2>4, <2>5, <2>6, FlagStep
<1>8. QED
  BY <1>3, <1>4, <1>5, <1>6, <1>7

\* The worker takes a request, looks, or comes back from newConnection.
LEMMA WorkerLooks ==
    ASSUME IInv,
           \/ \E p \in Peer : Request(p)
           \/ LocateListener \/ LocatePeer \/ Reply \/ Exit
    PROVE  IInv'
<1> USE Ids
<1>1. worker \in WorkerState /\ WorkerInv /\ PeerInv /\ AppInv
  BY DEF IInv, TypeOK
<1>2. /\ worker.ls \in Local \cup {None} /\ worker.req \in Peer \cup {None}
      /\ worker.ns \in Conn \cup {None}
  BY <1>1 DEF WorkerState
<1>3. \A pc \in {"peer", "reply", "exit", "new"} : Goto(pc) =>
         /\ worker' \in WorkerState /\ worker'.pc = pc /\ worker'.ls = worker.ls
         /\ worker'.req = worker.req /\ worker'.ns = worker.ns
  BY <1>1 DEF Goto, WorkerState
<1>4. ASSUME NEW p \in Peer, Request(p)
      PROVE  IInv'
  <2>1. /\ worker' = [Idle EXCEPT !.pc = "locate", !.ls = listener, !.req = p]
        /\ UNCHANGED <<sock, queued, held, peerRec, listener, mux, gc>>
        /\ worker.pc = "loop" /\ listener # None /\ Conn \cap In("none") # {}
    BY <1>4 DEF Request, Looping
  <2>2. listener \in Local
    BY <2>1 DEF IInv, TypeOK
  <2>3. worker' = [pc |-> "locate", ls |-> listener, req |-> p, ns |-> None]
    BY <2>1 DEF Idle
  <2>4. worker' \in WorkerState
    BY <2>2, <2>3 DEF WorkerState
  <2>5. sock[listener].where # "none"
    BY <1>1, <2>1 DEF AppInv
  <2>6. WorkerInv'
    BY <2>1, <2>2, <2>3, <2>5 DEF WorkerInv, Making, In
  <2>7. QED
    BY <2>1, <2>4, <2>6, WorkerOnly
<1>5. CASE LocateListener
  <2>1. PICK pc \in {"peer", "reply"} : Goto(pc)
    BY <1>5 DEF LocateListener
  <2>2. worker.pc = "locate" /\ UNCHANGED <<sock, queued, held, peerRec, listener, mux, gc>>
    BY <1>5 DEF LocateListener
  <2>3. /\ worker' \in WorkerState /\ worker'.pc = pc /\ worker'.ls = worker.ls
        /\ worker'.req = worker.req /\ worker'.ns = worker.ns
    BY <1>3, <2>1
  <2>4. WorkerInv'
    BY <1>1, <2>2, <2>3 DEF WorkerInv, Making, In
  <2>5. QED
    BY <2>2, <2>3, <2>4, WorkerOnly
<1>6. CASE LocatePeer
  <2> DEFINE known == peerRec[worker.req] \cap In("open")
  <2>1. worker.pc = "peer" /\ UNCHANGED <<sock, queued, held, peerRec, listener, mux, gc>>
    BY <1>6 DEF LocatePeer
  <2>2. worker.req \in Peer /\ peerRec[worker.req] \subseteq Conn
    BY <1>1, <2>1 DEF IInv, TypeOK, WorkerInv
  <2>3. CASE known = {}
    <3>1. Goto("new")
      BY <1>6, <2>3 DEF LocatePeer, Goto
    <3>2. /\ worker' \in WorkerState /\ worker'.pc = "new" /\ worker'.ls = worker.ls
          /\ worker'.req = worker.req /\ worker'.ns = worker.ns
      BY <1>3, <3>1
    <3>3. WorkerInv'
      BY <1>1, <2>1, <2>3, <3>2 DEF WorkerInv, Making, In
    <3>4. QED
      BY <2>1, <3>2, <3>3, WorkerOnly
  <2>4. CASE known # {}
    <3>1. worker' = [worker EXCEPT !.pc = "known", !.ns = Min(known)]
      BY <1>6, <2>4 DEF LocatePeer
    <3>2. Min(known) \in known /\ \A d \in known : Min(known) =< d
      <4>1. known \in SUBSET Conn
        BY <2>2
      <4> HIDE DEF known
      <4>2. QED
        BY <2>4, <4>1, MinOfConn
    <3>3. \A d \in known : d = Min(known) \/ Dead(d)
      <4>1. \A d \in known : d \in Nat /\ Min(known) \in Nat
        BY <2>2, <3>2
      <4>2. \A d \in known : sock[d].where = "open" /\ d \in peerRec[worker.req]
        BY DEF In
      <4>3. Min(known) \in peerRec[worker.req]
        BY <3>2
      <4> DEFINE m == Min(known)
      <4> HIDE DEF m, known
      <4>4. \A d \in known : d # m => m < d
        BY <3>2, <4>1 DEF m
      <4>5. \A d \in known : m < d => Dead(d)
        BY <1>1, <2>2, <4>2, <4>3 DEF PeerInv, m
      <4>6. QED
        BY <4>4, <4>5 DEF m
    <3>4. /\ worker' \in WorkerState /\ worker'.pc = "known" /\ worker'.ls = worker.ls
          /\ worker'.req = worker.req /\ worker'.ns = Min(known) /\ Min(known) \in Conn
      BY <1>1, <2>2, <3>1, <3>2 DEF WorkerState
    <3>5. known' = known /\ \A d \in known : Dead(d) => Dead(d)'
      BY <2>1, <3>4 DEF In, Dead
    <3>6. WorkerInv'
      BY <1>1, <2>1, <3>3, <3>4, <3>5 DEF WorkerInv, Making, In
    <3>7. QED
      BY <2>1, <3>4, <3>6, WorkerOnly
  <2>5. QED
    BY <2>3, <2>4
<1>7. CASE Reply
  <2>1. /\ worker' = [pc |-> "loop", ls |-> None, req |-> None, ns |-> None] /\ worker.pc = "reply"
        /\ UNCHANGED <<sock, queued, held, peerRec, listener, mux, gc>>
    BY <1>7 DEF Reply, Idle
  <2>2. worker' \in WorkerState
    BY <2>1 DEF WorkerState
  <2>3. WorkerInv'
    BY <2>1 DEF WorkerInv, Making
  <2>4. QED
    BY <2>1, <2>2, <2>3, WorkerOnly
<1>8. CASE Exit
  <2>1. /\ Goto("exit") /\ worker.pc = "loop"
        /\ UNCHANGED <<sock, queued, held, peerRec, listener, mux, gc>>
    BY <1>8 DEF Exit
  <2>2. worker' \in WorkerState /\ worker'.pc = "exit"
    BY <1>3, <2>1
  <2>3. WorkerInv'
    BY <2>2 DEF WorkerInv, Making
  <2>4. QED
    BY <2>1, <2>2, <2>3, WorkerOnly
<1>9. QED
  BY <1>4, <1>5, <1>6, <1>7, <1>8
\* What newConnection knows stays true when others change the tables: no connection
\* is made but by it, and none that is dead comes back.
LEMMA WorkerKeeps ==
    ASSUME IInv, worker' = worker,
           \A c \in Conn : sock'[c].where = "none" <=> sock[c].where = "none",
           \A c \in Conn : sock'[c].where = "open" => sock[c].where = "open" /\ (Dead(c) => Dead(c)'),
           \A l \in Local : sock[l].where # "none" => sock'[l].where # "none",
           \A p \in Peer : peerRec'[p] \subseteq peerRec[p],
           \A l \in Local : queued'[l] \subseteq queued[l],
           worker.pc \in Making =>
              LET c == worker.ns IN
              /\ sock'[c].from = sock[c].from /\ sock'[c].peer = sock[c].peer
              /\ sock'[c].mux = sock[c].mux /\ sock'[c].onList = sock[c].onList
              /\ sock[c].where = "new" => sock'[c].where = "new" /\ sock'[c].broken = sock[c].broken
              /\ held'[c] = "no" /\ Cardinality(queued'[worker.ls]) < Backlog,
           worker.pc = "queue" =>
              \/ sock'[worker.ns].where = "open" /\ ~sock'[worker.ns].broken
              \/ sock'[worker.ns].where = "closed" /\ gc' \in {"drain", "joinEnd"}
    PROVE  WorkerInv'
<1> USE Ids
<1>1. WorkerInv /\ TypeOK
  BY DEF IInv
<1>2. Conn \cap In("none")' = Conn \cap In("none")
  BY DEF In
<1>3. \A p \in Peer : \A d \in peerRec'[p] \cap In("open")' :
         d \in peerRec[p] \cap In("open") /\ (Dead(d) => Dead(d)')
  <2>1. \A p \in Peer : peerRec[p] \subseteq Conn
    BY <1>1 DEF TypeOK
  <2>2. QED
    BY <2>1 DEF In
<1>4. worker.pc \notin {"loop", "exit"} =>
         worker.ls \in Local /\ worker.req \in Peer /\ sock'[worker.ls].where # "none"
  BY <1>1 DEF WorkerInv
<1>5. worker.pc \in {"locate", "peer", "known", "new"} => Conn \cap In("none")' # {}
  BY <1>1, <1>2 DEF WorkerInv
<1>6. worker.pc \in {"known"} \cup Making => worker.ns \in Conn
  BY <1>1 DEF WorkerInv
<1>7. worker.pc = "known" =>
         \A d \in peerRec'[worker.req] \cap In("open")' : d = worker.ns \/ Dead(d)'
  BY <1>1, <1>3, <1>4 DEF WorkerInv
<1>8. worker.pc \in {"new", "mux", "register"} =>
         \A d \in peerRec'[worker.req] \cap In("open")' : Dead(d)'
  BY <1>1, <1>3, <1>4 DEF WorkerInv
<1>9. worker.pc \in Making =>
         /\ sock'[worker.ns].from = worker.ls /\ sock'[worker.ns].peer = worker.req
         /\ held'[worker.ns] = "no" /\ Cardinality(queued'[worker.ls]) < Backlog
         /\ \A l \in Local : worker.ns \notin queued'[l]
         /\ \A c \in Conn : c < worker.ns => sock'[c].where = "none"
  BY <1>1 DEF WorkerInv
<1>10. /\ worker.pc \in {"mux", "register"} =>
             sock'[worker.ns].where = "new" /\ ~sock'[worker.ns].broken
       /\ worker.pc = "mux" => ~sock'[worker.ns].mux
       /\ worker.pc \in {"register", "queue"} => sock'[worker.ns].onList
  BY <1>1 DEF WorkerInv, Making
<1>11. QED
  BY <1>4, <1>5, <1>6, <1>7, <1>8, <1>9, <1>10 DEF WorkerInv

-----------------------------------------------------------------------------
(* The application.                                                        *)

\* A new socket has no number in any table.
LEMMA newSocketStep ==
    ASSUME IInv, NEW x \in Local, newSocket(x)
    PROVE  IInv'
<1> USE Ids
<1> DEFINE r == [sock[x] EXCEPT !.where = "open"]
<1>1. /\ sock[x].where = "none" /\ gc \in {"off", "run"} /\ gc' = "run"
      /\ UNCHANGED <<queued, peerRec, listener, mux, worker>>
      /\ sock' = [sock EXCEPT ![x] = r] /\ held' = [held EXCEPT ![x] = "app"]
  BY DEF newSocket
<1>2. x \in Id /\ sock[x] \in Socket /\ x \notin Conn
  BY DEF IInv, TypeOK
<1>3. /\ r \in Socket
      /\ r.status = sock[x].status /\ r.where = "open" /\ r.from = sock[x].from
      /\ r.peer = sock[x].peer /\ r.mux = sock[x].mux /\ r.onList = sock[x].onList
      /\ r.broken = sock[x].broken /\ r.closing = sock[x].closing
  BY <1>2 DEF Socket
<1> HIDE DEF r
<1>4. /\ sock' \in [Id -> Socket] /\ sock'[x] = r
      /\ \A u \in Id : u # x => sock'[u] = sock[u]
  BY <1>1, <1>2, <1>3, SockUpdate DEF IInv
<1>5. /\ held' \in [Id -> {"no", "app", "closing"}] /\ held'[x] = "app"
      /\ \A u \in Id : u # x => held'[u] = held[u]
  BY <1>1, <1>2 DEF IInv, TypeOK
<1>6. ~r.mux /\ ~sock[x].mux /\ ~r.broken
  BY <1>1, <1>2, <1>3 DEF IInv, MuxInv, AppInv
<1>7. TypeOK'
  BY <1>1, <1>4, <1>5 DEF IInv, TypeOK
<1>8. RefsExact'
  <2>1. Users' = Users
    BY <1>4, <1>6 DEF Users
  <2>2. QED
    BY <1>1, <2>1, SameUsers
<1>9. NoDangling'
  BY <1>1, <1>3, <1>4 DEF IInv, NoDangling, TypeOK
<1>10. AppInv'
  BY <1>1, <1>3, <1>4, <1>5, <1>6 DEF IInv, AppInv, In, TypeOK
<1>11. MuxInv'
  BY <1>1, <1>4, <1>6 DEF IInv, MuxInv, Free
<1>12. QueueInv'
  <2>1. \A l \in Local : queued[l] \subseteq Conn
    BY DEF IInv, TypeOK
  <2>2. queued[x] = {}
    BY <1>1 DEF IInv, QueueInv
  <2>3. gc = "off" => \A l \in Local : sock[l].where \notin {"open", "closed"}
    BY DEF IInv, AppInv, In
  <2>4. QED
    BY <1>1, <1>2, <1>3, <1>4, <1>5, <2>1, <2>2, <2>3 DEF IInv, QueueInv
<1>13. PeerInv'
  BY <1>1, <1>2, <1>4 DEF IInv, PeerInv, Dead, TypeOK
<1>14. WorkerInv'
  <2>1. \A d \in Conn : Dead(d)' = Dead(d) /\ sock'[d] = sock[d] /\ held'[d] = held[d]
    BY <1>2, <1>4, <1>5 DEF Dead
  <2>2. \A l \in Local : sock[l].where # "none" => sock'[l].where # "none"
    BY <1>3, <1>4
  <2>3. worker.pc \in Making => /\ worker.ns \in Conn /\ held[worker.ns] = "no"
                                /\ Cardinality(queued[worker.ls]) < Backlog
    BY DEF IInv, WorkerInv
  <2>4. worker.pc = "queue" => sock[worker.ns].where = "open" /\ ~sock[worker.ns].broken
    BY <1>1 DEF IInv, WorkerInv
  <2>5. worker.pc = "queue" => worker.pc \in Making
    BY DEF Making
  <2>6. QED
    BY <1>1, <2>1, <2>2, <2>3, <2>4, <2>5, WorkerKeeps
<1>15. QED
  BY <1>7, <1>8, <1>9, <1>10, <1>11, <1>12, <1>13, <1>14 DEF IInv

\* A socket of the application changes its status, or joins the multiplexer.
LEMMA LocalStatus ==
    ASSUME IInv, NEW x \in Local, NEW r \in Socket, sock' = [sock EXCEPT ![x] = r],
           held[x] = "app", r.status # "INIT", r.where = sock[x].where,
           r.onList = sock[x].onList, r.broken = sock[x].broken, r.closing = sock[x].closing,
           UNCHANGED <<held, peerRec, gc>>
    PROVE  /\ sock' \in [Id -> Socket] /\ x \in Id
           /\ sock'[x] = r /\ \A u \in Id : u # x => sock'[u] = sock[u]
           /\ sock[x].where = "open" /\ gc \in {"run", "join"}
           /\ \A t \in {"none", "open", "closed"} : In(t)' = In(t)
           /\ PeerInv'
           /\ listener' \in {listener, x} => AppInv'
           /\ worker' = worker /\ queued' = queued => WorkerInv'
<1> USE Ids
<1>1. /\ sock' \in [Id -> Socket] /\ sock'[x] = r /\ x \in Id
      /\ \A u \in Id : u # x => sock'[u] = sock[u]
  BY SockUpdate DEF IInv
<1>2. sock[x].where = "open" /\ gc \in {"run", "join"} /\ x \notin Conn
  BY DEF IInv, AppInv, TypeOK
<1>3. \A t \in {"none", "open", "closed"} : In(t)' = In(t)
  BY <1>1 DEF In
<1>4. PeerInv'
  BY <1>1, <1>2 DEF IInv, PeerInv, Dead, TypeOK
<1>5. listener' \in {listener, x} => AppInv'
  BY <1>1, <1>2, <1>3 DEF IInv, AppInv, TypeOK
<1>6. worker' = worker /\ queued' = queued => WorkerInv'
  <2>1. \A d \in Conn : Dead(d)' = Dead(d) /\ sock'[d] = sock[d]
    BY <1>1, <1>2 DEF Dead
  <2>2. \A l \in Local : sock'[l].where = sock[l].where
    BY <1>1
  <2>3. worker.pc \in Making => /\ worker.ns \in Conn /\ held[worker.ns] = "no"
                                /\ Cardinality(queued[worker.ls]) < Backlog
    BY DEF IInv, WorkerInv
  <2>4. worker.pc = "queue" => sock[worker.ns].where = "open" /\ ~sock[worker.ns].broken
    BY <1>2 DEF IInv, WorkerInv
  <2>5. worker.pc = "queue" => worker.pc \in Making
    BY DEF Making
  <2>6. QED
    BY <2>1, <2>2, <2>3, <2>4, <2>5, WorkerKeeps
<1>7. QED
  BY <1>1, <1>2, <1>3, <1>4, <1>5, <1>6

\* bind counts the socket, on a multiplexer that may be new.
LEMMA bindStep ==
    ASSUME IInv, NEW x \in Local, bind(x)
    PROVE  IInv'
<1> USE Ids
<1> DEFINE r == [sock[x] EXCEPT !.status = "OPENED", !.mux = TRUE]
<1>1. /\ Free /\ held[x] = "app" /\ sock[x].status = "INIT" /\ JoinMux
      /\ UNCHANGED <<queued, held, peerRec, listener, gc>>
      /\ sock' = [sock EXCEPT ![x].status = "OPENED", ![x].mux = TRUE]
  BY DEF bind
<1>2. x \in Id /\ sock[x] \in Socket /\ x \notin Conn
  BY DEF IInv, TypeOK
<1>3. /\ r \in Socket /\ r.status = "OPENED" /\ r.where = sock[x].where /\ r.mux
      /\ r.onList = sock[x].onList /\ r.broken = sock[x].broken /\ r.closing = sock[x].closing
      /\ r.from = sock[x].from
  BY <1>2 DEF Socket
<1>4. sock' = [sock EXCEPT ![x] = r]
  BY <1>1, <1>2
<1> HIDE DEF r
<1>5. /\ sock' \in [Id -> Socket]
      /\ sock'[x] = r /\ \A u \in Id : u # x => sock'[u] = sock[u]
      /\ sock[x].where = "open"
      /\ PeerInv' /\ AppInv' /\ (worker' = worker => WorkerInv')
  BY <1>1, <1>3, <1>4, LocalStatus
<1>6. x \notin Users /\ Users' = Users \cup {x}
  <2>1. ~sock[x].mux
    BY <1>1, <1>2 DEF IInv, MuxInv
  <2>2. QED
    BY <1>2, <1>3, <1>5, <2>1 DEF Users
<1>7. Cardinality(Users) \in Nat /\ Cardinality(Users') = Cardinality(Users) + 1
  <2>1. IsFiniteSet(Users) /\ Cardinality(Users) \in Nat
    BY UsersCounted DEF IInv
  <2>2. Cardinality(Users \cup {x}) = Cardinality(Users) + 1
    BY <1>6, <2>1, FS_AddElement
  <2>3. QED
    BY <1>6, <2>1, <2>2
<1>8. ~mux.closing /\ mux \in [alive : BOOLEAN, closing : BOOLEAN, refs : Nat]
  BY <1>1 DEF IInv, MuxInv, TypeOK
<1>9. /\ mux' \in [alive : BOOLEAN, closing : BOOLEAN, refs : Nat]
      /\ mux'.alive = TRUE /\ mux'.closing = FALSE /\ mux'.refs = Cardinality(Users')
  <2>1. CASE mux.alive
    <3>1. mux' = [mux EXCEPT !.refs = mux.refs + 1] /\ mux.refs = Cardinality(Users)
      BY <1>1, <2>1 DEF JoinMux, IInv, RefsExact, Users
    <3>2. QED
      BY <1>7, <1>8, <2>1, <3>1
  <2>2. CASE ~mux.alive
    <3>1. mux' = [alive |-> TRUE, closing |-> FALSE, refs |-> 1]
      BY <1>1, <2>2 DEF JoinMux
    <3>2. Users = {}
      BY <2>2 DEF IInv, MuxInv, Users
    <3>3. Users' = {x}
      BY <1>6, <3>2
    <3>4. Cardinality({x}) = 1
      BY ONLY FS_Singleton
    <3>5. Cardinality(Users') = 1
      BY ONLY <3>3, <3>4
    <3>6. QED
      BY ONLY <3>1, <3>5
  <2>3. QED
    BY <2>1, <2>2
<1>10. worker' = worker \/ worker' = Idle
  BY <1>1 DEF JoinMux
<1>11. worker' \in WorkerState
  BY <1>10 DEF IInv, TypeOK, Idle, WorkerState
<1>12. TypeOK'
  BY <1>1, <1>5, <1>9, <1>11 DEF IInv, TypeOK
<1>13. RefsExact'
  BY <1>9 DEF RefsExact, Users
<1>14. NoDangling'
  BY <1>1, <1>3, <1>5 DEF IInv, NoDangling, TypeOK
<1>15. MuxInv'
  BY <1>1, <1>3, <1>5, <1>9 DEF IInv, MuxInv, Free
<1>16. QueueInv'
  <2>1. \A l \in Local : queued[l] \subseteq Conn /\ sock'[l].where = sock[l].where
    BY <1>3, <1>5 DEF IInv, TypeOK
  <2>2. QED
    BY <1>1, <1>2, <1>5, <2>1 DEF IInv, QueueInv
<1>17. WorkerInv'
  BY <1>5, <1>10 DEF WorkerInv, Making, Idle
<1>18. QED
  BY <1>5, <1>12, <1>13, <1>14, <1>15, <1>16, <1>17 DEF IInv

\* listen begins with an empty queue.
LEMMA listenStep ==
    ASSUME IInv, NEW x \in Local, listen(x)
    PROVE  IInv'
<1> USE Ids
<1> DEFINE r == [sock[x] EXCEPT !.status = "LISTENING"]
<1>1. /\ held[x] = "app" /\ sock[x].status = "OPENED" /\ listener' = x
      /\ queued' = [queued EXCEPT ![x] = {}] /\ sock' = [sock EXCEPT ![x] = r]
      /\ UNCHANGED <<held, peerRec, mux, worker, gc>>
  BY DEF listen
<1>2. x \in Id /\ sock[x] \in Socket /\ x \notin Conn
  BY DEF IInv, TypeOK
<1>3. /\ r \in Socket /\ r.status = "LISTENING" /\ r.where = sock[x].where /\ r.mux = sock[x].mux
      /\ r.onList = sock[x].onList /\ r.broken = sock[x].broken /\ r.closing = sock[x].closing
      /\ r.from = sock[x].from
  BY <1>2 DEF Socket
<1> HIDE DEF r
<1>4. /\ sock' \in [Id -> Socket]
      /\ sock'[x] = r /\ \A u \in Id : u # x => sock'[u] = sock[u]
      /\ sock[x].where = "open" /\ PeerInv' /\ AppInv'
      /\ \A t \in {"none", "open", "closed"} : In(t)' = In(t)
  BY <1>1, <1>3, LocalStatus
<1>5. /\ queued' \in [Local -> SUBSET Conn] /\ queued'[x] = {}
      /\ \A l \in Local : l # x => queued'[l] = queued[l]
  BY <1>1 DEF IInv, TypeOK
<1>6. Cardinality({}) = 0 /\ Backlog \in Nat \ {0}
  BY FS_EmptySet, SocketsAssumption
<1>7. TypeOK'
  <2>1. \A l \in Local : Cardinality(queued'[l]) <= Backlog
    BY <1>5, <1>6 DEF IInv, TypeOK
  <2>2. QED
    BY <1>1, <1>4, <1>5, <2>1 DEF IInv, TypeOK
<1>8. RefsExact'
  <2>1. Users' = Users
    BY <1>3, <1>4 DEF Users
  <2>2. QED
    BY <1>1, <2>1, SameUsers
<1>9. NoDangling'
  BY <1>1, <1>3, <1>4 DEF IInv, NoDangling, TypeOK
<1>10. MuxInv'
  BY <1>1, <1>2, <1>3, <1>4 DEF IInv, MuxInv, Free
<1>11. QueueInv'
  <2>1. \A l \in Local : queued'[l] \subseteq queued[l] /\ queued[l] \subseteq Conn
                         /\ sock'[l].where = sock[l].where
    BY <1>3, <1>4, <1>5 DEF IInv, TypeOK
  <2>2. QED
    BY <1>1, <1>2, <1>4, <2>1 DEF IInv, QueueInv
<1>12. WorkerInv'
  <2>1. \A d \in Conn : Dead(d)' = Dead(d) /\ sock'[d] = sock[d]
    BY <1>2, <1>4 DEF Dead
  <2>2. \A l \in Local : sock'[l].where = sock[l].where /\ queued'[l] \subseteq queued[l]
    BY <1>3, <1>4, <1>5
  <2>3. worker.pc \in Making => /\ worker.ns \in Conn /\ held[worker.ns] = "no"
                                /\ Cardinality(queued'[worker.ls]) < Backlog
    <3>1. worker.pc \in Making =>
             /\ worker.ls \in Local /\ worker.ns \in Conn /\ held[worker.ns] = "no"
             /\ Cardinality(queued[worker.ls]) < Backlog
      BY DEF IInv, WorkerInv, Making
    <3>2. \A l \in Local : Cardinality(queued[l]) < Backlog => Cardinality(queued'[l]) < Backlog
      <4>1. 0 < Backlog
        BY <1>6
      <4>2. QED
        BY <1>5, <1>6, <4>1
    <3>3. QED
      BY <3>1, <3>2
  <2>4. worker.pc = "queue" =>
           \/ sock[worker.ns].where = "open" /\ ~sock[worker.ns].broken
           \/ sock[worker.ns].where = "closed" /\ gc \in {"drain", "joinEnd"}
    BY DEF IInv, WorkerInv
  <2>5. worker.pc = "queue" => worker.pc \in Making
    BY DEF Making
  <2>6. worker' = worker /\ held' = held /\ peerRec' = peerRec /\ gc' = gc
    BY <1>1
  <2>7. worker.pc = "queue" =>
           \/ sock'[worker.ns].where = "open" /\ ~sock'[worker.ns].broken
           \/ sock'[worker.ns].where = "closed" /\ gc' \in {"drain", "joinEnd"}
    BY <2>1, <2>3, <2>4, <2>5, <2>6
  <2>8. QED
    BY <2>1, <2>2, <2>3, <2>6, <2>7, WorkerKeeps
<1>13. QED
  BY <1>4, <1>7, <1>8, <1>9, <1>10, <1>11, <1>12 DEF IInv
\* accept takes one socket, and nobody else had it.
LEMMA acceptStep ==
    ASSUME IInv, NEW x \in Local, accept(x)
    PROVE  IInv'
<1> USE Ids
<1> DEFINE c == Min(queued[x])
<1>1. /\ Free /\ held[x] = "app" /\ locate(x) /\ queued[x] # {}
      /\ queued' = [queued EXCEPT ![x] = @ \ {c}] /\ held' = [held EXCEPT ![c] = "app"]
      /\ UNCHANGED <<sock, peerRec, listener, mux, worker, gc>>
  BY DEF accept
<1>2. /\ queued \in [Local -> SUBSET Conn] /\ held \in [Id -> {"no", "app", "closing"}]
      /\ \A l \in Local : Cardinality(queued[l]) <= Backlog
  BY DEF IInv, TypeOK
<1>3. c \in queued[x] /\ c \in Conn /\ c \in Id
  <2>1. queued[x] \in SUBSET Conn
    BY <1>2
  <2>2. QED
    BY <1>1, <2>1, MinOfConn
<1> HIDE DEF c
<1>4. gc = "run"
  <2>1. gc \in {"run", "join"}
    BY <1>1 DEF IInv, AppInv
  <2>2. QED
    BY <1>1, <2>1 DEF Free
<1>5. sock[c].where = "open" /\ sock[c].from = x
  BY <1>1, <1>3, <1>4 DEF IInv, QueueInv, locate
<1>6. /\ queued' \in [Local -> SUBSET Conn] /\ queued'[x] = queued[x] \ {c}
      /\ \A l \in Local : l # x => queued'[l] = queued[l]
  BY <1>1, <1>2
<1>7. /\ held' \in [Id -> {"no", "app", "closing"}] /\ held'[c] = "app"
      /\ \A u \in Id : u # c => held'[u] = held[u]
  BY <1>1, <1>2, <1>3
<1>8. \A l \in Local : /\ queued'[l] \subseteq queued[l]
                       /\ Cardinality(queued'[l]) <= Backlog
                       /\ Cardinality(queued[l]) < Backlog => Cardinality(queued'[l]) < Backlog
  <2>1. queued[x] \in SUBSET Conn
    BY <1>2
  <2>2. IsFiniteSet(queued[x])
    BY <2>1, IdsFinite, FS_Subset
  <2>3. Cardinality(queued[x] \ {c}) = Cardinality(queued[x]) - 1
    BY <1>3, <2>2, FS_RemoveElement
  <2>4. Cardinality(queued[x]) \in Nat
    BY <2>2, FS_CardinalityType
  <2>5. Cardinality(queued'[x]) <= Cardinality(queued[x])
    BY <1>6, <2>3, <2>4
  <2>6. /\ Cardinality(queued'[x]) <= Backlog
        /\ Cardinality(queued[x]) < Backlog => Cardinality(queued'[x]) < Backlog
    <3>1. Cardinality(queued'[x]) \in Nat \/ Cardinality(queued'[x]) \in Int
      BY <1>6, <2>3, <2>4
    <3>2. Backlog \in Nat /\ Cardinality(queued[x]) <= Backlog
      BY <1>2, SocketsAssumption
    <3>3. QED
      BY <2>4, <2>5, <3>1, <3>2
  <2>7. QED
    BY <1>2, <1>6, <2>6
<1>9. TypeOK'
  BY <1>1, <1>6, <1>7, <1>8 DEF IInv, TypeOK
<1>10. RefsExact' /\ NoDangling'
  BY <1>1 DEF IInv, RefsExact, NoDangling
<1>11. AppInv'
  BY <1>1, <1>3, <1>4, <1>5, <1>7 DEF IInv, AppInv, In
<1>12. MuxInv' /\ PeerInv'
  BY <1>1 DEF IInv, MuxInv, PeerInv, Free, Dead
<1>13. QueueInv'
  <2>1. \A l \in Local : queued'[l] \subseteq Conn
    BY <1>6
  <2>2. ASSUME NEW l \in Local, sock[l].where \in {"open", "closed"}, NEW d \in queued'[l]
        PROVE  sock[d].where = "open" /\ sock[d].from = l /\ held'[d] = "no"
    <3>1. d \in queued[l] /\ d \in Id
      BY <1>8, <2>1, <2>2
    <3>2. sock[d].where = "open" /\ sock[d].from = l /\ held[d] = "no"
      BY <1>4, <2>2, <3>1 DEF IInv, QueueInv
    <3>3. d # c
      BY <1>5, <1>6, <2>2, <3>2
    <3>4. QED
      BY <1>7, <3>1, <3>2, <3>3
  <2>3. QED
    BY <1>1, <1>8, <2>2 DEF IInv, QueueInv
<1>14. WorkerInv'
  <2>1. worker.pc \in Making =>
           /\ worker.ls \in Local /\ worker.ns \in Conn /\ held[worker.ns] = "no"
           /\ Cardinality(queued[worker.ls]) < Backlog /\ worker.ns # c
    BY <1>3 DEF IInv, WorkerInv, Making
  <2>2. worker.pc \in Making => held'[worker.ns] = "no" /\ Cardinality(queued'[worker.ls]) < Backlog
    BY <1>7, <1>8, <2>1
  <2>3. worker.pc = "queue" =>
           \/ sock[worker.ns].where = "open" /\ ~sock[worker.ns].broken
           \/ sock[worker.ns].where = "closed" /\ gc \in {"drain", "joinEnd"}
    BY DEF IInv, WorkerInv
  <2>4. sock' = sock /\ worker' = worker /\ peerRec' = peerRec /\ gc' = gc
    BY <1>1
  <2>5. \A d \in Conn : Dead(d)' = Dead(d)
    BY <2>4 DEF Dead
  <2>6. QED
    BY <1>8, <2>2, <2>3, <2>4, <2>5, WorkerKeeps
<1>15. QED
  BY <1>9, <1>10, <1>11, <1>12, <1>13, <1>14 DEF IInv

\* The socket that the application has closed is moved, unless that was done.
LEMMA closeMoveStep ==
    ASSUME IInv, NEW x \in Id, closeMove(x)
    PROVE  IInv'
<1> USE Ids
<1> DEFINE r == IF locate(x) THEN [sock[x] EXCEPT !.status = "CLOSED", !.where = "closed"]
                ELSE sock[x]
<1>1. sock \in [Id -> Socket] /\ held \in [Id -> {"no", "app", "closing"}]
  BY DEF IInv, TypeOK
<1>2. /\ Free /\ held[x] = "closing" /\ held' = [held EXCEPT ![x] = "no"]
      /\ UNCHANGED <<queued, peerRec, listener, mux, worker, gc>>
  BY DEF closeMove
<1>3. sock' = [sock EXCEPT ![x] = r]
  BY <1>1 DEF closeMove
<1>4. /\ r \in Socket /\ r.from = sock[x].from /\ r.peer = sock[x].peer
      /\ r.mux = sock[x].mux /\ r.onList = sock[x].onList
      /\ r.broken = sock[x].broken /\ r.closing = sock[x].closing
      /\ \/ r.where = sock[x].where /\ r.status = sock[x].status
         \/ r.where = "closed" /\ r.status = "CLOSED" /\ sock[x].where = "open"
  <2>1. sock[x] \in Socket
    BY <1>1
  <2>2. CASE locate(x)
    <3>1. r = [sock[x] EXCEPT !.status = "CLOSED", !.where = "closed"]
      BY <2>2
    <3>2. sock[x].where = "open"
      BY <2>2 DEF locate
    <3> HIDE DEF r
    <3>3. QED
      BY <2>1, <3>1, <3>2 DEF Socket
  <2>3. CASE ~locate(x)
    <3>1. r = sock[x]
      BY <2>3
    <3>2. QED
      BY <2>1, <3>1
  <2>4. QED
    BY <2>2, <2>3
<1> HIDE DEF r
<1>5. /\ sock' \in [Id -> Socket] /\ sock'[x] = r
      /\ \A u \in Id : u # x => sock'[u] = sock[u]
  BY <1>3, <1>4, SockUpdate DEF IInv
<1>6. /\ held' \in [Id -> {"no", "app", "closing"}] /\ held'[x] = "no"
      /\ \A u \in Id : u # x => held'[u] = held[u]
  BY <1>1, <1>2
<1>7. gc = "run"
  <2>1. gc \in {"run", "join"}
    BY <1>2 DEF IInv, AppInv
  <2>2. QED
    BY <1>2, <2>1 DEF Free
<1>8. sock[x].where # "none"
  BY <1>2 DEF IInv, AppInv
<1>9. \A u \in Id :
         /\ sock'[u].from = sock[u].from /\ sock'[u].peer = sock[u].peer
         /\ sock'[u].mux = sock[u].mux /\ sock'[u].onList = sock[u].onList
         /\ sock'[u].broken = sock[u].broken /\ sock'[u].closing = sock[u].closing
         /\ \/ sock'[u].where = sock[u].where /\ sock'[u].status = sock[u].status
            \/ /\ u = x /\ sock'[u].where = "closed" /\ sock'[u].status = "CLOSED"
               /\ sock[u].where = "open"
  BY <1>4, <1>5
<1>10. TypeOK'
  BY <1>2, <1>5, <1>6 DEF IInv, TypeOK
<1>11. RefsExact'
  <2>1. Users' = Users
    BY <1>9 DEF Users
  <2>2. QED
    BY <1>2, <2>1, SameUsers
<1>12. NoDangling'
  BY <1>2, <1>9 DEF IInv, NoDangling, TypeOK
<1>13. AppInv'
  BY <1>2, <1>6, <1>7, <1>8, <1>9 DEF IInv, AppInv, In, TypeOK
<1>14. MuxInv'
  BY <1>2, <1>9 DEF IInv, MuxInv, Free
<1>15. QueueInv'
  <2>1. \A l \in Local : queued[l] \subseteq Conn
    BY DEF IInv, TypeOK
  <2>2. \A u \in Id : /\ sock'[u].where = "none" <=> sock[u].where = "none"
                      /\ sock'[u].where \in {"open", "closed"} => sock[u].where \in {"open", "closed"}
    BY <1>9
  <2>3. ASSUME NEW l \in Local, sock[l].where \in {"open", "closed"}, NEW d \in queued[l]
        PROVE  sock'[d].where = "open" /\ sock'[d].from = l /\ held'[d] = "no"
    <3>1. d \in Id
      BY <2>1
    <3>2. sock[d].where = "open" /\ sock[d].from = l /\ held[d] = "no"
      BY <1>7, <2>3 DEF IInv, QueueInv
    <3>3. d # x
      BY <1>2, <3>2
    <3>4. QED
      BY <1>5, <1>6, <3>1, <3>2, <3>3
  <2>4. \A l \in Local : sock'[l].where \in {"open", "closed"} =>
           \A d \in queued'[l] : sock'[d].where = "open" /\ sock'[d].from = l /\ held'[d] = "no"
    BY <1>2, <2>2, <2>3
  <2>5. /\ \A l \in Local : \A d \in queued'[l] : sock'[d].where # "none"
        /\ \A l \in Local : sock'[l].where = "none" => queued'[l] = {}
    <3>1. queued' = queued
      BY <1>2
    <3>2. /\ \A l \in Local : \A d \in queued[l] : d \in Id /\ sock[d].where # "none"
          /\ \A l \in Local : l \in Id /\ (sock[l].where = "none" => queued[l] = {})
      BY <2>1 DEF IInv, QueueInv
    <3>3. QED
      BY <2>2, <3>1, <3>2
  <2>6. QED
    BY <2>4, <2>5 DEF QueueInv
<1>16. PeerInv'
  BY SMTT(30), <1>2, <1>9 DEF IInv, PeerInv, Dead, TypeOK
<1>17. WorkerInv'
  <2>1. worker.pc \in Making =>
           /\ worker.ns \in Conn /\ worker.ns \in Id /\ held[worker.ns] = "no"
           /\ Cardinality(queued[worker.ls]) < Backlog
    BY DEF IInv, WorkerInv, Making
  <2>2. worker.pc \in Making => worker.ns # x
    BY <1>2, <2>1
  <2>3. worker.pc \in Making => sock'[worker.ns] = sock[worker.ns] /\ held'[worker.ns] = "no"
    BY <1>5, <1>6, <2>1, <2>2
  <2>4. worker.pc = "queue" => sock[worker.ns].where = "open" /\ ~sock[worker.ns].broken
    BY <1>7 DEF IInv, WorkerInv
  <2>5. worker.pc = "queue" => sock'[worker.ns].where = "open" /\ ~sock'[worker.ns].broken
    BY <2>3, <2>4 DEF Making
  <2>6. worker' = worker /\ peerRec' = peerRec /\ queued' = queued /\ gc' = gc
    BY <1>2
  <2>7. \A d \in Conn : Dead(d)' = Dead(d)
    BY <1>9 DEF Dead
  <2>8. \A u \in Id : /\ sock'[u].where = "none" <=> sock[u].where = "none"
                      /\ sock'[u].where = "open" => sock[u].where = "open"
    BY <1>9
  <2>9. QED
    BY <2>1, <2>3, <2>5, <2>6, <2>7, <2>8, WorkerKeeps
<1>18. QED
  BY <1>10, <1>11, <1>12, <1>13, <1>14, <1>15, <1>16, <1>17 DEF IInv

\* cleanup only changes what the collector does.
LEMMA cleanupStep ==
    ASSUME IInv, cleanup
    PROVE  IInv'
<1>1. /\ gc = "run" /\ gc' = "stop" /\ \A u \in Id : held[u] = "no"
      /\ UNCHANGED <<sock, queued, held, peerRec, listener, mux, worker>>
  BY DEF cleanup
<1>2. TypeOK' /\ RefsExact' /\ NoDangling' /\ AppInv'
  BY <1>1 DEF IInv, TypeOK, RefsExact, NoDangling, AppInv, In
<1>3. MuxInv' /\ QueueInv' /\ PeerInv'
  BY <1>1 DEF IInv, MuxInv, QueueInv, PeerInv, Free, Dead
<1>4. WorkerInv'
  BY <1>1 DEF IInv, WorkerInv, In, Dead
<1>5. QED
  BY <1>2, <1>3, <1>4 DEF IInv
-----------------------------------------------------------------------------
(* newConnection, step by step.                                            *)

\* What waits for accept still does, when nothing is queued.
LEMMA QueueKeeps ==
    ASSUME IInv,
           \A l \in Local : queued'[l] \subseteq queued[l],
           \A l \in Local : sock'[l].where = "none" => sock[l].where = "none",
           \A l \in Local : sock'[l].where \in {"open", "closed"} => sock[l].where \in {"open", "closed"},
           \A c \in Conn : sock[c].where # "none" => sock'[c].where # "none",
           gc' \in {"run", "join", "stop"} => gc \in {"run", "join", "stop"},
           gc' \in {"run", "join", "stop"} =>
              \A l \in Local : sock'[l].where \in {"open", "closed"} =>
                 \A c \in queued'[l] :
                    sock[c].where = "open" /\ sock[c].from = l /\ held[c] = "no" =>
                    sock'[c].where = "open" /\ sock'[c].from = l /\ held'[c] = "no"
    PROVE  QueueInv'
<1>1. \A l \in Local : queued[l] \subseteq Conn
  BY DEF IInv, TypeOK
<1>2. QueueInv
  BY DEF IInv
<1>3. \A l \in Local : \A c \in queued'[l] : sock'[c].where # "none"
  BY <1>1, <1>2 DEF QueueInv
<1>4. \A l \in Local : sock'[l].where = "none" => queued'[l] = {}
  BY <1>2 DEF QueueInv
<1>5. ASSUME gc' \in {"run", "join", "stop"}, NEW l \in Local,
             sock'[l].where \in {"open", "closed"}, NEW c \in queued'[l]
      PROVE  sock'[c].where = "open" /\ sock'[c].from = l /\ held'[c] = "no"
  <2>1. c \in queued[l] /\ gc \in {"run", "join", "stop"} /\ sock[l].where \in {"open", "closed"}
    BY <1>5
  <2>2. sock[c].where = "open" /\ sock[c].from = l /\ held[c] = "no"
    BY <1>2, <2>1 DEF QueueInv
  <2>3. QED
    BY <1>5, <2>2
<1>6. QED
  BY <1>3, <1>4, <1>5 DEF QueueInv

\* The records of the peers hold the connections that are open, when none is made.
LEMMA PeerKeeps ==
    ASSUME IInv,
           \A c \in Conn : sock'[c].where = "none" <=> sock[c].where = "none",
           \A c \in Conn : sock'[c].where = "open" =>
              sock[c].where = "open" /\ sock'[c].peer = sock[c].peer /\ (Dead(c) => Dead(c)'),
           \A p \in Peer : peerRec'[p] \subseteq peerRec[p],
           \A p \in Peer : \A c \in peerRec[p] : sock'[c].where = "open" => c \in peerRec'[p],
           \A p \in Peer : \A c \in peerRec'[p] : sock'[c].where \in {"open", "closed"}
    PROVE  PeerInv'
<1>1. \A p \in Peer : peerRec[p] \subseteq Conn
  BY DEF IInv, TypeOK
<1>2. PeerInv
  BY DEF IInv
<1>3. \A c \in Conn : sock'[c].where = "open" => sock'[c].peer \in Peer /\ c \in peerRec'[sock'[c].peer]
  BY <1>2 DEF PeerInv
<1>4. ASSUME NEW p \in Peer, NEW c \in peerRec'[p], NEW d \in peerRec'[p], c < d, sock'[d].where = "open"
      PROVE  Dead(d)'
  <2>1. c \in peerRec[p] /\ d \in peerRec[p] /\ d \in Conn
    BY <1>1
  <2>2. sock[d].where = "open" /\ (Dead(d) => Dead(d)')
    BY <1>4, <2>1
  <2>3. Dead(d)
    BY <1>2, <1>4, <2>1, <2>2 DEF PeerInv
  <2>4. QED
    BY <2>2, <2>3
<1>5. \A c, d \in Conn : c < d /\ sock'[d].where = "none" => sock'[c].where = "none"
  BY <1>2 DEF PeerInv
<1>6. QED
  BY <1>3, <1>4, <1>5 DEF PeerInv

\* A queue that something is taken from is no longer than it was.
LEMMA ShorterQueue ==
    ASSUME TypeOK, NEW l \in Local, NEW T \in SUBSET queued[l]
    PROVE  /\ T \in SUBSET Conn /\ IsFiniteSet(T) /\ Cardinality(T) \in Nat
           /\ Cardinality(T) <= Backlog
           /\ Cardinality(queued[l]) < Backlog => Cardinality(T) < Backlog
<1>1. queued[l] \in SUBSET Conn /\ Cardinality(queued[l]) <= Backlog
  BY DEF TypeOK
<1>2. IsFiniteSet(queued[l])
  BY <1>1, IdsFinite, FS_Subset
<1>3. IsFiniteSet(T) /\ Cardinality(T) <= Cardinality(queued[l])
  BY <1>2, FS_Subset
<1>4. Cardinality(T) \in Nat /\ Cardinality(queued[l]) \in Nat /\ Backlog \in Nat
  BY <1>2, <1>3, FS_CardinalityType, SocketsAssumption
<1>5. QED
  BY <1>1, <1>3, <1>4

\* What the worker holds between two steps of newConnection.
LEMMA AtWork ==
    ASSUME IInv
    PROVE  /\ sock \in [Id -> Socket] /\ worker \in WorkerState
           /\ worker.pc \notin {"loop", "exit"} =>
                 worker.ls \in Local /\ worker.ls \in Id /\ worker.req \in Peer /\ worker.pc # "exit"
           /\ worker.pc \in {"known"} \cup Making => worker.ns \in Conn /\ worker.ns \in Id
           /\ \A p \in Peer : peerRec[p] \subseteq Conn
           /\ \A l \in Local : queued[l] \subseteq Conn
  BY Ids DEF IInv, TypeOK, WorkerInv

LEMMA KnownStep ==
    ASSUME IInv, Known
    PROVE  IInv'
<1> USE Ids
<1> DEFINE n == worker.ns
           r == [sock[n] EXCEPT !.status = "CLOSED"]
<1>1. worker.pc = "known" /\ UNCHANGED <<held, peerRec, listener, mux, gc>>
  BY DEF Known
<1>2. /\ sock \in [Id -> Socket] /\ worker \in WorkerState
      /\ worker.ls \in Local /\ worker.req \in Peer /\ n \in Conn /\ n \in Id
      /\ \A p \in Peer : peerRec[p] \subseteq Conn
      /\ \A l \in Local : queued[l] \subseteq Conn
  BY <1>1, AtWork
<1>3. CASE ~sock[n].broken
  <2>1. worker' = [worker EXCEPT !.pc = "reply", !.ns = None] /\ UNCHANGED <<sock, queued>>
    BY <1>3 DEF Known
  <2>2. /\ worker' \in WorkerState /\ worker'.pc = "reply" /\ worker'.ls = worker.ls
        /\ worker'.req = worker.req
    BY <1>2, <2>1 DEF WorkerState
  <2>3. WorkerInv'
    BY <1>1, <2>1, <2>2 DEF IInv, WorkerInv, Making, In
  <2>4. QED
    BY <1>1, <2>1, <2>2, <2>3, WorkerOnly
<1>4. CASE sock[n].broken
  <2>1. /\ sock' = [sock EXCEPT ![n].status = "CLOSED"]
        /\ queued' = [queued EXCEPT ![worker.ls] = @ \ {n}]
        /\ worker' = [worker EXCEPT !.pc = "new", !.ns = None]
    BY <1>4 DEF Known
  <2>2. /\ r \in Socket /\ r.status = "CLOSED" /\ r.where = sock[n].where /\ r.from = sock[n].from
        /\ r.peer = sock[n].peer /\ r.mux = sock[n].mux /\ r.onList = sock[n].onList
        /\ r.broken = sock[n].broken /\ r.closing = sock[n].closing
    <3>1. sock[n] \in Socket
      BY <1>2
    <3>2. QED
      BY <3>1 DEF Socket
  <2>3. sock' = [sock EXCEPT ![n] = r]
    BY <1>2, <2>1
  <2> HIDE DEF r
  <2>4. /\ sock' \in [Id -> Socket] /\ sock'[n] = r
        /\ \A u \in Id : u # n => sock'[u] = sock[u]
    BY <1>2, <2>2, <2>3, SockUpdate DEF IInv
  <2>5. \A u \in Id :
           /\ sock'[u].where = sock[u].where /\ sock'[u].from = sock[u].from
           /\ sock'[u].peer = sock[u].peer /\ sock'[u].mux = sock[u].mux
           /\ sock'[u].onList = sock[u].onList /\ sock'[u].broken = sock[u].broken
           /\ sock'[u].closing = sock[u].closing
           /\ sock'[u].status = sock[u].status \/ sock'[u].status = "CLOSED"
    BY <2>2, <2>4
  <2>6. /\ worker' \in WorkerState /\ worker'.pc = "new" /\ worker'.ls = worker.ls
        /\ worker'.req = worker.req
    BY <1>2, <2>1 DEF WorkerState
  <2>7. queued \in [Local -> SUBSET Conn]
    BY DEF IInv, TypeOK
  <2>8. /\ queued' \in [Local -> SUBSET Conn]
        /\ \A l \in Local : queued'[l] \in SUBSET queued[l]
    BY <1>2, <2>1, <2>7
  <2>9. \A l \in Local : Cardinality(queued'[l]) <= Backlog
    BY <2>8, ShorterQueue DEF IInv
  <2>10. TypeOK'
    BY <1>1, <2>4, <2>6, <2>8, <2>9 DEF IInv, TypeOK
  <2>11. RefsExact'
    <3>1. Users' = Users
      BY <2>5 DEF Users
    <3>2. QED
      BY <1>1, <3>1, SameUsers
  <2>12. NoDangling'
    BY <1>1, <2>5 DEF IInv, NoDangling, TypeOK
  <2>13. \A t \in {"none", "new", "open", "closed", "freed"} : In(t)' = In(t)
    BY <2>5 DEF In
  <2>14. AppInv'
    BY <1>1, <2>5, <2>13 DEF IInv, AppInv, TypeOK
  <2>15. MuxInv'
    BY <1>1, <2>5, <2>6 DEF IInv, MuxInv, Free
  <2>16. QueueInv'
    <3>1. \A l \in Local : queued'[l] \subseteq Id /\ queued'[l] \subseteq queued[l]
      BY <1>2, <2>8
    <3>2. \A u \in Id : sock'[u].where = sock[u].where /\ sock'[u].from = sock[u].from
      BY <2>5
    <3>3. held' = held /\ gc' = gc
      BY <1>1
    <3>4. QED
      BY <3>1, <3>2, <3>3, QueueKeeps
  <2>17. \A d \in Id : Dead(d)' <=> Dead(d)
    BY <2>5 DEF Dead
  <2>18. PeerInv'
    <3>1. \A u \in Id : sock'[u].where = sock[u].where /\ sock'[u].peer = sock[u].peer
      BY <2>5
    <3>2. peerRec' = peerRec /\ \A p \in Peer : \A c \in peerRec[p] : sock[c].where \in {"open", "closed"}
      BY <1>1 DEF IInv, PeerInv
    <3>3. \A c \in Conn : Dead(c)' <=> Dead(c)
      BY <2>17
    <3>4. \A p \in Peer : \A c \in peerRec[p] : c \in Id
      BY <1>2
    <3>5. QED
      BY <3>1, <3>2, <3>3, <3>4, PeerKeeps
  <2>19. WorkerInv'
    <3>1. \A d \in peerRec[worker.req] \cap In("open") : d \in Id /\ (d = n \/ Dead(d))
      BY <1>1, <1>2 DEF IInv, WorkerInv
    <3>2. Dead(n)
      BY <1>4 DEF Dead
    <3>3. \A d \in peerRec'[worker'.req] \cap In("open")' : Dead(d)'
      <4>1. peerRec'[worker'.req] = peerRec[worker.req] /\ In("open")' = In("open")
        BY <1>1, <2>6, <2>13
      <4>2. \A d \in peerRec[worker.req] \cap In("open") : d \in Id /\ Dead(d)
        BY <3>1, <3>2
      <4>3. QED
        BY <2>17, <4>1, <4>2
    <3>4. sock'[worker'.ls].where # "none" /\ Conn \cap In("none")' # {}
      <4>1. sock[worker.ls].where # "none" /\ Conn \cap In("none") # {}
        BY <1>1 DEF IInv, WorkerInv
      <4>2. In("none")' = In("none") /\ sock'[worker.ls].where = sock[worker.ls].where
        BY <1>2, <2>5, <2>13
      <4>3. QED
        BY <2>6, <4>1, <4>2
    <3>5. QED
      BY <1>2, <2>6, <3>3, <3>4 DEF WorkerInv, Making
  <2>20. QED
    BY <2>10, <2>11, <2>12, <2>14, <2>15, <2>16, <2>18, <2>19 DEF IInv
<1>5. QED
  BY <1>3, <1>4
\* The socket that newConnection makes.
Made(l, p) == [NoSocket EXCEPT !.where = "new", !.from = l, !.peer = p]

LEMMA MadeSocket ==
    ASSUME NEW l \in Local, NEW p \in Peer
    PROVE  /\ Made(l, p) \in Socket /\ Made(l, p).where = "new"
           /\ Made(l, p).from = l /\ Made(l, p).peer = p
           /\ ~Made(l, p).mux /\ ~Made(l, p).onList
           /\ ~Made(l, p).broken /\ ~Made(l, p).closing
<1>1. 0 \in 0..MaxPatience
  BY SocketsAssumption
<1>2. NoSocket \in Socket
  BY <1>1 DEF NoSocket, Socket
<1>3. ~NoSocket.mux /\ ~NoSocket.onList /\ ~NoSocket.broken /\ ~NoSocket.closing
  BY DEF NoSocket
<1>4. QED
  BY <1>2, <1>3 DEF Socket, Made

\* A socket is made, with an id that no other has had.
LEMMA NewConnectionStep ==
    ASSUME IInv, NewConnection
    PROVE  IInv'
<1> USE Ids
<1> DEFINE fresh == Conn \cap In("none")
           n == Max(fresh)
           r == Made(worker.ls, worker.req)
<1>1. worker.pc = "new" /\ UNCHANGED <<queued, held, peerRec, listener, mux, gc>>
  BY DEF NewConnection
<1>2. /\ sock \in [Id -> Socket] /\ worker \in WorkerState
      /\ worker.ls \in Local /\ worker.ls \in Id /\ worker.req \in Peer
      /\ \A p \in Peer : peerRec[p] \subseteq Conn
      /\ \A l \in Local : queued[l] \subseteq Conn
  BY <1>1, AtWork
<1>3. CASE Cardinality(queued[worker.ls]) >= Backlog
  <2>1. Goto("reply") /\ UNCHANGED sock
    BY <1>3 DEF NewConnection
  <2>2. /\ worker' \in WorkerState /\ worker'.pc = "reply" /\ worker'.ls = worker.ls
        /\ worker'.req = worker.req
    BY <1>2, <2>1 DEF Goto, WorkerState
  <2>3. WorkerInv'
    BY <1>1, <2>1, <2>2 DEF IInv, WorkerInv, Making, In
  <2>4. QED
    BY <1>1, <2>1, <2>2, <2>3, WorkerOnly
<1>4. CASE ~(Cardinality(queued[worker.ls]) >= Backlog)
  <2>1. sock' = [sock EXCEPT ![n] = r] /\ worker' = [worker EXCEPT !.pc = "mux", !.ns = n]
    BY <1>4 DEF NewConnection, Made
  <2>2. /\ n \in Conn /\ sock[n].where = "none"
        /\ \A c \in Conn : n < c => sock[c].where # "none"
    <3>1. fresh # {} /\ fresh \in SUBSET Conn
      BY <1>1 DEF IInv, WorkerInv
    <3> HIDE DEF fresh
    <3>2. n \in fresh /\ \A c \in fresh : n >= c
      BY <3>1, MaxOfConn
    <3>3. \A c \in Conn : sock[c].where = "none" <=> c \in fresh
      BY DEF fresh, In
    <3>4. \A c \in Conn : n < c => c \notin fresh
      <4>1. n \in Nat /\ \A c \in Conn : c \in Nat
        BY <3>1, <3>2
      <4>2. QED
        BY <3>2, <4>1
    <3>5. QED
      BY <3>1, <3>2, <3>3, <3>4
  <2>4. /\ r \in Socket /\ r.where = "new" /\ r.from = worker.ls /\ r.peer = worker.req
        /\ ~r.mux /\ ~r.onList /\ ~r.broken /\ ~r.closing
    <3>1. worker.ls \in Local /\ worker.req \in Peer
      BY <1>2
    <3> HIDE DEF n, fresh
    <3>2. QED
      BY ONLY <3>1, MadeSocket
  <2> HIDE DEF r, n
  <2>5. n \in Id /\ n \notin Local
    BY <2>2
  <2>6. /\ sock' \in [Id -> Socket] /\ sock'[n] = r
        /\ \A u \in Id : u # n => sock'[u] = sock[u]
    BY <2>1, <2>4, <2>5, SockUpdate DEF IInv
  <2>7. ~sock[n].mux /\ ~sock[n].broken /\ held[n] = "no"
    BY <2>2, <2>5 DEF IInv, AppInv, MuxInv
  <2>8. /\ worker' \in WorkerState /\ worker'.pc = "mux" /\ worker'.ls = worker.ls
        /\ worker'.req = worker.req /\ worker'.ns = n
    BY <1>2, <2>1, <2>2 DEF WorkerState
  <2>9. TypeOK'
    BY <1>1, <2>6, <2>8 DEF IInv, TypeOK
  <2>10. RefsExact'
    <3>1. Users' = Users
      BY <2>4, <2>6, <2>7 DEF Users
    <3>2. QED
      BY <1>1, <3>1, SameUsers
  <2>11. NoDangling'
    BY <1>1, <2>4, <2>6 DEF IInv, NoDangling, TypeOK
  <2>12. In("open")' = In("open") /\ In("closed")' = In("closed")
    BY <2>2, <2>4, <2>6 DEF In
  <2>13. AppInv'
    BY <1>1, <2>4, <2>5, <2>6, <2>7, <2>12 DEF IInv, AppInv, TypeOK
  <2>14. MuxInv'
    BY <1>1, <2>4, <2>6, <2>8 DEF IInv, MuxInv, Free
  <2>15. \A l \in Local : sock'[l] = sock[l] /\ n \notin queued[l]
    <3>1. \A l \in Local : \A c \in queued[l] : sock[c].where # "none"
      BY DEF IInv, QueueInv
    <3>2. QED
      BY <2>2, <2>5, <2>6, <3>1
  <2>16. QueueInv'
    <3>1. queued' = queued /\ gc' = gc /\ held' = held
      BY <1>1
    <3>2. \A l \in Local : \A c \in queued[l] : sock'[c] = sock[c]
      BY <1>2, <2>6, <2>15
    <3>3. \A c \in Conn : sock[c].where # "none" => sock'[c].where # "none"
      BY <2>4, <2>6
    <3>4. QED
      BY <2>15, <3>1, <3>2, <3>3, QueueKeeps
  <2>17. \A p \in Peer : n \notin peerRec[p]
    BY <2>2 DEF IInv, PeerInv
  <2>18. \A p \in Peer : \A c \in peerRec[p] : sock'[c] = sock[c] /\ (Dead(c)' <=> Dead(c))
    BY <1>2, <2>6, <2>17 DEF Dead
  <2>19. PeerInv'
    <3>1. PeerInv /\ peerRec' = peerRec
      BY <1>1 DEF IInv
    <3>2. ASSUME NEW c \in Conn, sock'[c].where = "open"
          PROVE  sock'[c].peer \in Peer /\ c \in peerRec'[sock'[c].peer]
      <4>1. c # n
        BY <2>4, <2>6, <3>2
      <4>2. sock'[c] = sock[c]
        BY <2>6, <4>1
      <4>3. QED
        BY <3>1, <3>2, <4>2 DEF PeerInv
    <3>3. \A p \in Peer : \A c \in peerRec'[p] : sock'[c].where \in {"open", "closed"}
      BY <2>18, <3>1 DEF PeerInv
    <3>4. \A p \in Peer : \A c, d \in peerRec'[p] : c < d /\ sock'[d].where = "open" => Dead(d)'
      BY <2>18, <3>1 DEF PeerInv
    <3>5. ASSUME NEW c \in Conn, NEW d \in Conn, c < d, sock'[d].where = "none"
          PROVE  sock'[c].where = "none"
      <4>1. d # n
        BY <2>4, <2>6, <3>5
      <4>2. sock[d].where = "none"
        BY <2>6, <3>5, <4>1
      <4>3. c # n
        BY <2>2, <3>5, <4>2
      <4>4. sock[c].where = "none"
        BY <3>1, <3>5, <4>2 DEF PeerInv
      <4>5. QED
        BY <2>6, <4>3, <4>4
    <3>6. QED
      BY <3>2, <3>3, <3>4, <3>5 DEF PeerInv
  <2>20. WorkerInv'
    <3>1. sock'[worker.ls].where # "none"
      <4>1. sock[worker.ls].where # "none"
        BY <1>1 DEF IInv, WorkerInv
      <4>2. QED
        BY <1>2, <2>15, <4>1
    <3>2. \A d \in peerRec'[worker.req] \cap In("open")' : Dead(d)'
      <4>1. \A d \in peerRec[worker.req] \cap In("open") : Dead(d)
        BY <1>1 DEF IInv, WorkerInv
      <4>2. QED
        BY <1>1, <1>2, <2>12, <2>18, <4>1
    <3>3. Cardinality(queued'[worker.ls]) < Backlog
      <4>1. Cardinality(queued[worker.ls]) \in Nat /\ Backlog \in Nat
        BY <1>2, ShorterQueue, SocketsAssumption DEF IInv
      <4>2. QED
        BY <1>1, <1>4, <4>1
    <3>4. \A c \in Conn : c < n => sock'[c].where = "none"
      <4>1. \A c \in Conn : c < n => sock[c].where = "none"
        BY <2>2 DEF IInv, PeerInv
      <4>2. \A c \in Conn : c < n => c # n /\ c \in Id
        BY <2>2
      <4>3. QED
        BY <2>6, <4>1, <4>2
    <3>5. held'[n] = "no" /\ \A l \in Local : n \notin queued'[l]
      BY <1>1, <2>7, <2>15
    <3>6. /\ sock'[n].from = worker.ls /\ sock'[n].peer = worker.req
          /\ sock'[n].where = "new" /\ ~sock'[n].broken /\ ~sock'[n].mux
      BY <2>4, <2>6
    <3>7. QED
      BY <1>2, <2>2, <2>8, <3>1, <3>2, <3>3, <3>4, <3>5, <3>6 DEF WorkerInv, Making
  <2>21. QED
    BY <2>9, <2>10, <2>11, <2>13, <2>14, <2>16, <2>19, <2>20 DEF IInv
<1>5. QED
  BY <1>3, <1>4
\* The new socket uses the multiplexer of the listener.
LEMMA UpdateMuxStep ==
    ASSUME IInv, UpdateMux
    PROVE  IInv'
<1> USE Ids
<1> DEFINE n == worker.ns
           r == [sock[n] EXCEPT !.mux = TRUE, !.onList = TRUE, !.status = "CONNECTED"]
<1>1. /\ worker.pc = "mux" /\ Free /\ mux' = [mux EXCEPT !.refs = mux.refs + 1] /\ Goto("register")
      /\ sock' = [sock EXCEPT ![n].mux = TRUE, ![n].onList = TRUE, ![n].status = "CONNECTED"]
      /\ UNCHANGED <<queued, held, peerRec, listener, gc>>
  BY DEF UpdateMux
<1>2. /\ sock \in [Id -> Socket] /\ worker \in WorkerState
      /\ worker.ls \in Local /\ worker.ls \in Id /\ worker.req \in Peer
      /\ n \in Conn /\ n \in Id
      /\ \A p \in Peer : peerRec[p] \subseteq Conn
      /\ \A l \in Local : queued[l] \subseteq Conn
  BY <1>1, AtWork DEF Making
<1>3. sock[n].where = "new" /\ ~sock[n].mux
  BY <1>1 DEF IInv, WorkerInv
<1>4. /\ r \in Socket /\ r.where = sock[n].where /\ r.from = sock[n].from /\ r.peer = sock[n].peer
      /\ r.mux /\ r.onList /\ r.status = "CONNECTED"
      /\ r.broken = sock[n].broken /\ r.closing = sock[n].closing
  <2>1. sock[n] \in Socket
    BY <1>2
  <2>2. QED
    BY <2>1 DEF Socket
<1>5. sock' = [sock EXCEPT ![n] = r]
  BY <1>1, <1>2
<1> HIDE DEF r, n
<1>6. /\ sock' \in [Id -> Socket] /\ sock'[n] = r
      /\ \A u \in Id : u # n => sock'[u] = sock[u]
  BY <1>2, <1>4, <1>5, SockUpdate DEF IInv
<1>7. \A u \in Id :
         /\ sock'[u].where = sock[u].where /\ sock'[u].from = sock[u].from
         /\ sock'[u].peer = sock[u].peer
         /\ sock'[u].broken = sock[u].broken /\ sock'[u].closing = sock[u].closing
  BY <1>4, <1>6
<1>8. /\ worker' \in WorkerState /\ worker'.pc = "register" /\ worker'.ls = worker.ls
      /\ worker'.req = worker.req /\ worker'.ns = worker.ns
  BY <1>1, <1>2 DEF Goto, WorkerState
<1>9. mux.alive /\ ~mux.closing /\ mux \in [alive : BOOLEAN, closing : BOOLEAN, refs : Nat]
  BY <1>1 DEF IInv, MuxInv, TypeOK
<1>10. /\ mux' \in [alive : BOOLEAN, closing : BOOLEAN, refs : Nat]
       /\ mux'.alive /\ ~mux'.closing /\ mux'.refs = mux.refs + 1
  BY <1>1, <1>9
<1>11. TypeOK'
  BY <1>1, <1>6, <1>8, <1>10 DEF IInv, TypeOK
<1>12. RefsExact'
  <2>1. n \notin Users /\ Users' = Users \cup {n}
    BY ZenonT(60), <1>2, <1>3, <1>4, <1>6 DEF Users
  <2>2. IsFiniteSet(Users) /\ Cardinality(Users) \in Nat
    BY UsersCounted DEF IInv
  <2>3. Cardinality(Users \cup {n}) = Cardinality(Users) + 1
    BY <2>1, <2>2, FS_AddElement
  <2>4. mux.refs = Cardinality(Users)
    BY <1>9 DEF IInv, RefsExact, Users
  <2>5. mux'.refs = Cardinality(Users')
    BY <1>10, <2>1, <2>3, <2>4
  <2>6. QED
    BY <2>5 DEF RefsExact, Users
<1>13. NoDangling'
  BY <1>1, <1>3, <1>4, <1>6, <1>7 DEF IInv, NoDangling, TypeOK
<1>14. \A t \in {"none", "new", "open", "closed", "freed"} : In(t)' = In(t)
  BY <1>7 DEF In
<1>15. AppInv'
  <2>1. \A u \in Id : sock'[u].where = "none" => held'[u] = "no" /\ ~sock'[u].broken /\ ~sock'[u].onList
    BY <1>1, <1>3, <1>4, <1>6 DEF IInv, AppInv
  <2>2. \A u \in Local : held'[u] # "no" => sock'[u].where = "open" /\ ~sock'[u].broken
    BY <1>1, <1>7 DEF IInv, AppInv
  <2>3. listener' # None => sock'[listener'].where \in {"open", "closed"}
    BY <1>1, <1>7 DEF IInv, AppInv, TypeOK
  <2>4. QED
    BY <1>1, <1>14, <2>1, <2>2, <2>3 DEF IInv, AppInv
<1>16. MuxInv'
  BY <1>1, <1>3, <1>4, <1>6, <1>8, <1>10 DEF IInv, MuxInv, Free
<1>17. QueueInv'
  <2>1. queued' = queued /\ gc' = gc /\ held' = held
    BY <1>1
  <2>2. \A l \in Local : queued[l] \subseteq Id
    BY <1>2
  <2>3. \A u \in Id : sock'[u].where = sock[u].where /\ sock'[u].from = sock[u].from
    BY <1>7
  <2>4. QED
    BY <2>1, <2>2, <2>3, QueueKeeps
<1>18. \A d \in Id : Dead(d)' <=> Dead(d)
  BY <1>7 DEF Dead
<1>19. PeerInv'
  <2>1. \A u \in Id : sock'[u].where = sock[u].where /\ sock'[u].peer = sock[u].peer
    BY <1>7
  <2>2. peerRec' = peerRec /\ \A p \in Peer : \A c \in peerRec[p] : sock[c].where \in {"open", "closed"}
    BY <1>1 DEF IInv, PeerInv
  <2>3. \A c \in Conn : Dead(c)' <=> Dead(c)
    BY <1>18
  <2>4. \A p \in Peer : \A c \in peerRec[p] : c \in Id
    BY <1>2
  <2>5. QED
    BY <2>1, <2>2, <2>3, <2>4, PeerKeeps
<1>20. WorkerInv'
  <2>1. /\ sock[worker.ls].where # "none" /\ sock[n].from = worker.ls /\ sock[n].peer = worker.req
        /\ held[n] = "no" /\ Cardinality(queued[worker.ls]) < Backlog
        /\ \A l \in Local : n \notin queued[l]
        /\ \A c \in Conn : c < n => sock[c].where = "none"
        /\ ~sock[n].broken
    BY <1>1 DEF IInv, WorkerInv, Making, n
  <2>2. \A d \in peerRec[worker.req] \cap In("open") : d \in Id /\ Dead(d)
    BY <1>1, <1>2 DEF IInv, WorkerInv
  <2>3. \A d \in peerRec'[worker.req] \cap In("open")' : Dead(d)'
    BY <1>1, <1>14, <1>18, <2>2
  <2>4. sock'[worker.ls].where # "none" /\ \A c \in Conn : c < n => sock'[c].where = "none"
    BY <1>2, <1>7, <2>1
  <2>5. /\ sock'[n].from = worker.ls /\ sock'[n].peer = worker.req /\ ~sock'[n].broken
        /\ sock'[n].where = "new" /\ sock'[n].onList
    BY <1>3, <1>4, <1>6, <2>1
  <2>6. /\ held'[n] = "no" /\ Cardinality(queued'[worker.ls]) < Backlog
        /\ \A l \in Local : n \notin queued'[l]
    BY <1>1, <2>1
  <2>7. QED
    BY <1>2, <1>8, <2>3, <2>4, <2>5, <2>6 DEF WorkerInv, Making, n
<1>21. QED
  BY <1>11, <1>12, <1>13, <1>15, <1>16, <1>17, <1>19, <1>20 DEF IInv
\* The new socket gets into the tables; what its peer had before is dead.
LEMMA RegisterStep ==
    ASSUME IInv, Register
    PROVE  IInv'
<1> USE Ids
<1> DEFINE n == worker.ns
           q == worker.req
           r == [sock[n] EXCEPT !.where = "open"]
<1>1. /\ worker.pc = "register" /\ Free /\ Goto("queue")
      /\ sock' = [sock EXCEPT ![n].where = "open"]
      /\ peerRec' = [peerRec EXCEPT ![q] = peerRec[q] \cup {n}]
      /\ UNCHANGED <<queued, held, listener, mux, gc>>
  BY DEF Register
<1>2. /\ sock \in [Id -> Socket] /\ worker \in WorkerState
      /\ worker.ls \in Local /\ worker.ls \in Id /\ q \in Peer
      /\ n \in Conn /\ n \in Id
      /\ \A p \in Peer : peerRec[p] \subseteq Conn
      /\ \A l \in Local : queued[l] \subseteq Conn
  BY <1>1, AtWork DEF Making
<1>3. /\ sock[worker.ls].where # "none" /\ sock[n].from = worker.ls /\ sock[n].peer = q
      /\ held[n] = "no" /\ Cardinality(queued[worker.ls]) < Backlog
      /\ \A l \in Local : n \notin queued[l]
      /\ \A c \in Conn : c < n => sock[c].where = "none"
      /\ sock[n].where = "new" /\ ~sock[n].broken /\ sock[n].onList
  BY <1>1 DEF IInv, WorkerInv, Making
<1>4. \A d \in peerRec[q] \cap In("open") : d \in Id /\ Dead(d)
  BY <1>1, <1>2 DEF IInv, WorkerInv
<1>5. /\ r \in Socket /\ r.where = "open" /\ r.from = sock[n].from /\ r.peer = sock[n].peer
      /\ r.mux = sock[n].mux /\ r.onList = sock[n].onList /\ r.status = sock[n].status
      /\ r.broken = sock[n].broken /\ r.closing = sock[n].closing
  <2>1. sock[n] \in Socket
    BY <1>2
  <2>2. QED
    BY <2>1 DEF Socket
<1>6. sock' = [sock EXCEPT ![n] = r]
  BY <1>1, <1>2
<1> HIDE DEF r, n, q
<1>7. /\ sock' \in [Id -> Socket] /\ sock'[n] = r
      /\ \A u \in Id : u # n => sock'[u] = sock[u]
  BY <1>2, <1>5, <1>6, SockUpdate DEF IInv
<1>8. \A u \in Id :
         /\ sock'[u].from = sock[u].from /\ sock'[u].peer = sock[u].peer
         /\ sock'[u].mux = sock[u].mux /\ sock'[u].onList = sock[u].onList
         /\ sock'[u].broken = sock[u].broken /\ sock'[u].closing = sock[u].closing
         /\ sock'[u].status = sock[u].status
         /\ sock'[u].where = "none" <=> sock[u].where = "none"
         /\ sock'[u].where = "freed" <=> sock[u].where = "freed"
         /\ sock'[u].where = "closed" <=> sock[u].where = "closed"
         /\ sock'[u].where = "open" <=> (sock[u].where = "open" \/ u = n)
  BY ZenonT(60), <1>3, <1>5, <1>7
<1>9. /\ worker' \in WorkerState /\ worker'.pc = "queue" /\ worker'.ls = worker.ls
      /\ worker'.req = worker.req /\ worker'.ns = worker.ns
  BY <1>1, <1>2 DEF Goto, WorkerState
<1>10. /\ peerRec' \in [Peer -> SUBSET Conn] /\ peerRec'[q] = peerRec[q] \cup {n}
       /\ \A p \in Peer : p # q => peerRec'[p] = peerRec[p]
  <2>1. peerRec \in [Peer -> SUBSET Conn]
    BY DEF IInv, TypeOK
  <2>2. peerRec[q] \cup {n} \in SUBSET Conn
    BY <1>2
  <2>3. QED
    BY <1>1, <1>2, <2>1, <2>2
<1>11. TypeOK'
  BY <1>1, <1>7, <1>9, <1>10 DEF IInv, TypeOK
<1>12. RefsExact'
  <2>1. Users' = Users
    BY <1>8 DEF Users
  <2>2. QED
    BY <1>1, <2>1, SameUsers
<1>13. NoDangling'
  BY <1>1, <1>8 DEF IInv, NoDangling, TypeOK
<1>14. Local \cap In("open")' = Local \cap In("open") /\ In("closed")' = In("closed")
  <2>1. n \notin Local
    BY <1>2, Ids
  <2>2. \A u \in Id :
           /\ sock'[u].where = "closed" <=> sock[u].where = "closed"
           /\ u \in Local => (sock'[u].where = "open" <=> sock[u].where = "open")
    BY ONLY <1>8, <2>1
  <2>3. QED
    BY ONLY <2>2 DEF In
<1>15. AppInv'
  <2>1. \A u \in Id : sock'[u].where = "none" => held'[u] = "no" /\ ~sock'[u].broken /\ ~sock'[u].onList
    BY <1>1, <1>8 DEF IInv, AppInv
  <2>2. \A u \in Local : held'[u] # "no" => sock'[u].where = "open" /\ ~sock'[u].broken
    BY <1>1, <1>8 DEF IInv, AppInv
  <2>3. listener' # None => sock'[listener'].where \in {"open", "closed"}
    BY <1>1, <1>8 DEF IInv, AppInv, TypeOK
  <2>4. QED
    BY <1>1, <1>14, <2>1, <2>2, <2>3 DEF IInv, AppInv
<1>16. MuxInv'
  BY <1>1, <1>2, <1>8, <1>9 DEF IInv, MuxInv, Free
<1>17. QueueInv'
  <2>1. queued' = queued /\ gc' = gc /\ held' = held
    BY <1>1
  <2>2. \A l \in Local : /\ sock'[l].where = "none" => sock[l].where = "none"
                         /\ sock'[l].where \in {"open", "closed"} => sock[l].where \in {"open", "closed"}
    BY <1>2, <1>8
  <2>3. \A c \in Conn : /\ sock[c].where # "none" => sock'[c].where # "none"
                        /\ sock[c].where = "open" => sock'[c].where = "open"
                        /\ sock'[c].from = sock[c].from
    BY <1>8
  <2>4. \A l \in Local : queued[l] \subseteq Conn
    BY <1>2
  <2>5. QED
    BY <2>1, <2>2, <2>3, <2>4, QueueKeeps
<1>18. \A d \in Id : Dead(d)' <=> Dead(d)
  BY <1>8 DEF Dead
<1>19. PeerInv'
  <2>1. PeerInv
    BY DEF IInv
  <2>2. \A p \in Peer : peerRec[p] \subseteq peerRec'[p] /\ (p # q => peerRec'[p] = peerRec[p])
    BY <1>10
  <2>3. ASSUME NEW c \in Conn, sock'[c].where = "open"
        PROVE  sock'[c].peer \in Peer /\ c \in peerRec'[sock'[c].peer]
    <3>1. CASE c = n
      BY <1>2, <1>3, <1>8, <1>10, <3>1
    <3>2. CASE c # n
      <4>1. sock[c].where = "open" /\ sock'[c].peer = sock[c].peer
        BY <1>8, <2>3, <3>2
      <4>2. sock[c].peer \in Peer /\ c \in peerRec[sock[c].peer]
        BY <2>1, <4>1 DEF PeerInv
      <4>3. QED
        BY <2>2, <4>1, <4>2
    <3>3. QED
      BY <3>1, <3>2
  <2>4. ASSUME NEW p \in Peer, NEW c \in peerRec'[p]
        PROVE  sock'[c].where \in {"open", "closed"}
    <3>1. c \in peerRec[p] \/ c = n
      BY <1>10
    <3>2. c \in peerRec[p] => c \in Id /\ sock[c].where \in {"open", "closed"}
      BY <1>2, <2>1 DEF PeerInv
    <3>3. QED
      BY <1>2, <1>8, <3>1, <3>2
  <2>5. ASSUME NEW p \in Peer, NEW c \in peerRec'[p], NEW d \in peerRec'[p],
               c < d, sock'[d].where = "open"
        PROVE  Dead(d)'
    <3>1. n \notin peerRec[p]
      BY <1>3, <2>1 DEF PeerInv
    <3>2. d # n
      <4>1. SUFFICES ASSUME d = n
                     PROVE  FALSE
        OBVIOUS
      <4>2. c # n
        <5>1. c < n /\ n \in Nat
          BY <1>2, <2>5, <4>1
        <5>2. QED
          BY <5>1
      <4>3. c \in peerRec[p] /\ c \in Conn
        BY <1>2, <1>10, <4>2
      <4>4. sock[c].where = "none"
        BY <1>3, <2>5, <4>1, <4>3
      <4>5. QED
        BY <2>1, <4>3, <4>4 DEF PeerInv
    <3>3. d \in peerRec[p] /\ d \in Conn /\ sock[d].where = "open"
      <4>1. d \in peerRec[p]
        BY ONLY <1>10, <2>5, <3>2
      <4>2. d \in Conn /\ d \in Id
        BY <1>2, <4>1
      <4>3. QED
        BY ONLY <1>8, <2>5, <3>2, <4>1, <4>2
    <3>4. CASE p = q
      <4>1. Dead(d)
        BY <1>4, <3>3, <3>4 DEF In
      <4>2. QED
        BY <1>18, <3>3, <4>1
    <3>5. CASE p # q
      <4>1. c \in peerRec[p]
        BY <1>10, <3>5
      <4>2. Dead(d)
        BY <2>1, <2>5, <3>3, <4>1 DEF PeerInv
      <4>3. QED
        BY <1>18, <3>3, <4>2
    <3>6. QED
      BY <3>4, <3>5
  <2>6. \A c, d \in Conn : c < d /\ sock'[d].where = "none" => sock'[c].where = "none"
    BY <1>8, <2>1 DEF PeerInv
  <2>7. QED
    BY <2>3, <2>4, <2>5, <2>6 DEF PeerInv
<1>20. WorkerInv'
  <2>1. sock'[worker.ls].where # "none" /\ \A c \in Conn : c < n => sock'[c].where = "none"
    BY <1>2, <1>3, <1>8
  <2>2. /\ sock'[n].from = worker.ls /\ sock'[n].peer = q /\ ~sock'[n].broken
        /\ sock'[n].where = "open" /\ sock'[n].onList
    BY <1>2, <1>3, <1>8
  <2>3. /\ held'[n] = "no" /\ Cardinality(queued'[worker.ls]) < Backlog
        /\ \A l \in Local : n \notin queued'[l]
    BY <1>1, <1>3
  <2>4. QED
    BY <1>2, <1>9, <2>1, <2>2, <2>3 DEF WorkerInv, Making, n, q
<1>21. QED
  BY <1>11, <1>12, <1>13, <1>15, <1>16, <1>17, <1>19, <1>20 DEF IInv

\* The new socket waits for accept.
LEMMA QueueStep ==
    ASSUME IInv, Queue
    PROVE  IInv'
<1> USE Ids
<1> DEFINE n == worker.ns
           l0 == worker.ls
<1>1. /\ worker.pc = "queue" /\ queued' = [queued EXCEPT ![l0] = queued[l0] \cup {n}]
      /\ worker' = [worker EXCEPT !.pc = "reply", !.ns = None]
      /\ UNCHANGED <<sock, held, peerRec, listener, mux, gc>>
  BY DEF Queue
<1>2. /\ worker \in WorkerState /\ l0 \in Local /\ l0 \in Id /\ worker.req \in Peer
      /\ n \in Conn /\ n \in Id
      /\ \A l \in Local : queued[l] \subseteq Conn
  BY <1>1, AtWork DEF Making
<1>3. /\ sock[l0].where # "none" /\ sock[n].from = l0
      /\ held[n] = "no" /\ Cardinality(queued[l0]) < Backlog
      /\ n \notin queued[l0]
  BY <1>1 DEF IInv, WorkerInv, Making
<1>4. \/ sock[n].where = "open"
      \/ sock[n].where = "closed" /\ gc \in {"drain", "joinEnd"}
  BY <1>1 DEF IInv, WorkerInv
<1>5. /\ worker' \in WorkerState /\ worker'.pc = "reply" /\ worker'.ls = worker.ls
      /\ worker'.req = worker.req
  BY <1>1, <1>2 DEF WorkerState
<1> HIDE DEF n, l0
<1>6. /\ queued' \in [Local -> SUBSET Conn] /\ queued'[l0] = queued[l0] \cup {n}
      /\ \A l \in Local : l # l0 => queued'[l] = queued[l]
  <2>1. queued \in [Local -> SUBSET Conn]
    BY DEF IInv, TypeOK
  <2>2. queued[l0] \cup {n} \in SUBSET Conn
    BY <1>2
  <2>3. QED
    BY <1>1, <1>2, <2>1, <2>2
<1>7. Cardinality(queued'[l0]) <= Backlog
  <2>1. queued[l0] \in SUBSET queued[l0]
    OBVIOUS
  <2>2. IsFiniteSet(queued[l0]) /\ Cardinality(queued[l0]) \in Nat
    BY <1>2, <2>1, ShorterQueue DEF IInv
  <2>3. Cardinality(queued[l0] \cup {n}) = Cardinality(queued[l0]) + 1
    BY <1>3, <2>2, FS_AddElement
  <2>4. Backlog \in Nat
    BY SocketsAssumption
  <2>5. QED
    BY <1>3, <1>6, <2>2, <2>3, <2>4
<1>8. TypeOK'
  <2>1. \A l \in Local : Cardinality(queued'[l]) <= Backlog
    BY <1>6, <1>7 DEF IInv, TypeOK
  <2>2. QED
    BY <1>1, <1>5, <1>6, <2>1 DEF IInv, TypeOK
<1>9. RefsExact' /\ NoDangling' /\ AppInv' /\ PeerInv'
  BY <1>1 DEF IInv, RefsExact, NoDangling, AppInv, PeerInv, In, Dead
<1>10. MuxInv'
  BY <1>1, <1>5 DEF IInv, MuxInv, Free
<1>11. QueueInv'
  <2>1. QueueInv /\ sock' = sock /\ held' = held /\ gc' = gc
    BY <1>1 DEF IInv
  <2>2. \A l \in Local : \A c \in queued'[l] : c \in queued[l] \/ (c = n /\ l = l0)
    BY <1>6
  <2>3. \A l \in Local : \A c \in queued'[l] : sock[c].where # "none"
    <3>1. sock[n].where # "none"
      BY <1>4
    <3>2. QED
      BY <2>1, <2>2, <3>1 DEF QueueInv
  <2>4. \A l \in Local : sock[l].where = "none" => queued'[l] = {}
    BY <1>3, <1>6, <2>1 DEF QueueInv
  <2>5. ASSUME gc \in {"run", "join", "stop"}, NEW l \in Local, sock[l].where \in {"open", "closed"},
               NEW c \in queued'[l]
        PROVE  sock[c].where = "open" /\ sock[c].from = l /\ held[c] = "no"
    <3>1. CASE c \in queued[l]
      BY <2>1, <2>5, <3>1 DEF QueueInv
    <3>2. CASE c = n /\ l = l0
      BY <1>3, <1>4, <2>5, <3>2
    <3>3. QED
      BY <2>2, <3>1, <3>2
  <2>6. QED
    BY <2>1, <2>3, <2>4, <2>5 DEF QueueInv
<1>12. WorkerInv'
  BY <1>1, <1>2, <1>3, <1>5 DEF WorkerInv, Making, l0
<1>13. QED
  BY <1>8, <1>9, <1>10, <1>11, <1>12 DEF IInv
-----------------------------------------------------------------------------
(* The collector.                                                          *)

\* What a pass takes from, and what it makes of a socket: it frees what has
\* expired, closes what is broken or waits for accept on a listener that it
\* frees, and lets everything else in its table.
LEMMA SweptSets ==
    /\ Expired \subseteq In("closed") /\ Broken \subseteq In("open") /\ Waiting \subseteq In("open")
    /\ Unaccepted \subseteq In("open")
    /\ \A u \in Expired : ~sock[u].onList
    /\ \A u \in Broken : sock[u].broken
    /\ \A l \in Local : Unqueued(l) \subseteq queued[l]
<1>1. Waiting \subseteq In("open")
  BY DEF Waiting
<1>2. Broken \subseteq In("open") /\ \A u \in Broken : sock[u].broken
  BY DEF Broken
<1>3. Expired \subseteq In("closed") /\ \A u \in Expired : ~sock[u].onList
  BY DEF Expired
<1>4. Unaccepted \subseteq In("open")
  BY DEF Unaccepted
<1>5. \A l \in Local : Unqueued(l) \subseteq queued[l]
  BY DEF Unqueued
<1>6. QED
  BY <1>1, <1>2, <1>3, <1>4, <1>5

LEMMA SweptFields ==
    ASSUME TypeOK, NEW u \in Id
    PROVE  /\ Swept(u) \in Socket
           /\ u \in Expired => Swept(u).where = "freed" /\ ~Swept(u).mux /\ ~Swept(u).onList
           /\ u \notin Expired =>
                 /\ Swept(u).from = sock[u].from /\ Swept(u).peer = sock[u].peer
                 /\ Swept(u).mux = sock[u].mux /\ Swept(u).onList = sock[u].onList
                 /\ sock[u].broken => Swept(u).broken
                 /\ sock[u].closing => Swept(u).closing
           /\ u \in Unaccepted \cup Broken => Swept(u).where = "closed" /\ Swept(u).status = "CLOSED"
           /\ u \notin Expired \cup Unaccepted \cup Broken =>
                 /\ Swept(u).where = sock[u].where /\ Swept(u).status = sock[u].status
                 /\ Swept(u).broken = sock[u].broken
<1> DEFINE freed == [NoSocket EXCEPT !.where = "freed", !.closing = TRUE, !.onList = sock[u].onList]
           shut == [sock[u] EXCEPT !.where = "closed", !.status = "CLOSED", !.broken = TRUE,
                                   !.closing = TRUE, !.timer = "no"]
           ended == [sock[u] EXCEPT !.where = "closed", !.status = "CLOSED", !.timer = "running"]
           less == [sock[u] EXCEPT !.patience = IF sock[u].patience > 0 THEN sock[u].patience - 1 ELSE 0]
           timed == [sock[u] EXCEPT !.timer = "running"]
<1>0. Swept(u) = CASE u \in Expired -> freed
                   [] u \in Unaccepted -> shut
                   [] u \in Broken \ Unaccepted -> ended
                   [] u \in Waiting \ Unaccepted -> less
                   [] u \in In("closed") \ Expired /\ sock[u].timer = "no" -> timed
                   [] OTHER -> sock[u]
  BY Zenon DEF Swept
<1> HIDE DEF freed, shut, ended, less, timed
<1>1. sock[u] \in Socket
  BY DEF TypeOK
<1>2. /\ Expired \cap Unaccepted = {} /\ Expired \cap Broken = {} /\ Expired \cap Waiting = {}
      /\ Broken \cap Waiting = {} /\ In("closed") \cap In("open") = {}
      /\ u \in Expired => ~sock[u].onList
  <2>1. In("closed") \cap In("open") = {}
    BY DEF In
  <2>2. Broken \cap Waiting = {}
    BY DEF Broken
  <2>3. QED
    BY <2>1, <2>2, SweptSets
<1>3. 0 \in 0..MaxPatience
  BY SocketsAssumption
<1>4. CASE u \in Expired
  <2>1. Swept(u) = freed
    <3>1. u \notin Unaccepted /\ u \notin Broken /\ u \notin Waiting /\ u \notin In("closed") \ Expired
      BY <1>2, <1>4
    <3>2. QED
      BY <1>0, <1>4, <3>1
  <2>2. NoSocket \in Socket /\ ~NoSocket.mux /\ sock[u].onList \in BOOLEAN
    BY <1>1, <1>3 DEF NoSocket, Socket
  <2>3. freed \in Socket /\ freed.where = "freed" /\ ~freed.mux /\ freed.onList = sock[u].onList
    BY <2>2 DEF Socket, freed
  <2>4. QED
    BY <1>2, <1>4, <2>1, <2>3
<1>5. CASE u \in Unaccepted
  <2>1. u \notin Expired /\ u \in Unaccepted \cup Broken /\ u \notin In("closed")
    BY <1>2, <1>5, SweptSets
  <2>2. Swept(u) = shut
    BY <1>0, <1>5, <2>1
  <2>3. /\ shut \in Socket /\ shut.where = "closed" /\ shut.status = "CLOSED"
        /\ shut.broken /\ shut.closing
        /\ shut.from = sock[u].from /\ shut.peer = sock[u].peer /\ shut.mux = sock[u].mux
        /\ shut.onList = sock[u].onList
    BY <1>1 DEF Socket, shut
  <2>4. QED
    BY <2>1, <2>2, <2>3
<1>6. CASE u \in Broken \ Unaccepted
  <2>1. /\ u \notin Expired /\ u \notin Unaccepted /\ u \in Unaccepted \cup Broken
        /\ u \notin Waiting /\ u \notin In("closed")
    BY <1>2, <1>6, SweptSets
  <2>2. Swept(u) = ended
    BY <1>0, <1>6, <2>1
  <2>3. /\ ended \in Socket /\ ended.where = "closed" /\ ended.status = "CLOSED"
        /\ ended.broken = sock[u].broken /\ ended.closing = sock[u].closing
        /\ ended.from = sock[u].from /\ ended.peer = sock[u].peer /\ ended.mux = sock[u].mux
        /\ ended.onList = sock[u].onList
    BY <1>1 DEF Socket, ended
  <2>4. QED
    BY <2>1, <2>2, <2>3
<1>7. CASE u \in Waiting \ Unaccepted
  <2>1. u \notin Expired /\ u \notin Unaccepted /\ u \notin Broken /\ u \notin In("closed")
    BY <1>2, <1>7, SweptSets
  <2>2. Swept(u) = less
    BY <1>0, <1>7, <2>1
  <2> DEFINE k == IF sock[u].patience > 0 THEN sock[u].patience - 1 ELSE 0
  <2>3. less = [sock[u] EXCEPT !.patience = k]
    BY DEF less
  <2>4. sock[u].patience \in 0..MaxPatience /\ MaxPatience \in Nat
    BY <1>1, SocketsAssumption DEF Socket
  <2>5. k \in 0..MaxPatience
    BY <2>4
  <2> HIDE DEF k
  <2>6. /\ less \in Socket /\ less.where = sock[u].where /\ less.status = sock[u].status
        /\ less.broken = sock[u].broken /\ less.closing = sock[u].closing
        /\ less.from = sock[u].from /\ less.peer = sock[u].peer /\ less.mux = sock[u].mux
        /\ less.onList = sock[u].onList
    BY <1>1, <2>3, <2>5 DEF Socket
  <2>7. QED
    BY <2>1, <2>2, <2>6
<1>8. CASE u \in In("closed") \ Expired /\ sock[u].timer = "no"
  <2>1. u \notin Expired /\ u \notin Unaccepted /\ u \notin Broken /\ u \notin Waiting
    BY <1>2, <1>8, SweptSets
  <2>2. Swept(u) = timed
    BY <1>0, <1>8, <2>1
  <2>3. /\ timed \in Socket /\ timed.where = sock[u].where /\ timed.status = sock[u].status
        /\ timed.broken = sock[u].broken /\ timed.closing = sock[u].closing
        /\ timed.from = sock[u].from /\ timed.peer = sock[u].peer /\ timed.mux = sock[u].mux
        /\ timed.onList = sock[u].onList
    BY <1>1 DEF Socket, timed
  <2>4. QED
    BY <2>1, <2>2, <2>3
<1>9. CASE /\ u \notin Expired /\ u \notin Unaccepted /\ u \notin Broken /\ u \notin Waiting
           /\ ~(u \in In("closed") \ Expired /\ sock[u].timer = "no")
  <2>1. Swept(u) = sock[u]
    BY <1>0, <1>9
  <2>2. QED
    BY <1>1, <1>9, <2>1
<1>10. QED
  BY <1>4, <1>5, <1>6, <1>7, <1>8, <1>9
\* What a pass of the collector leaves of the tables.
LEMMA SweptTables ==
    ASSUME IInv, GcPass
    PROVE  /\ gc \in {"run", "drain"} /\ UNCHANGED <<held, worker>>
           /\ sock' \in [Id -> Socket] /\ \A u \in Id : sock'[u] = Swept(u)
           /\ \A l \in Local : queued'[l] = IF l \in Expired THEN {} ELSE Unqueued(l)
           /\ queued' \in [Local -> SUBSET Conn]
           /\ peerRec' \in [Peer -> SUBSET Conn] /\ \A p \in Peer : peerRec'[p] = peerRec[p] \ Expired
           /\ listener' = IF listener \in Expired THEN None ELSE listener
           /\ \A u \in Id :
                 /\ sock'[u].where = "none" <=> sock[u].where = "none"
                 /\ sock'[u].where = "new" <=> sock[u].where = "new"
                 /\ sock'[u].where = "open" => sock[u].where = "open"
                 /\ sock'[u].where = "freed" <=> (sock[u].where = "freed" \/ u \in Expired)
                 /\ sock'[u].where = "closed" => sock[u].where \in {"open", "closed"}
<1>1. /\ gc \in {"run", "drain"} /\ sock' = [u \in Id |-> Swept(u)]
      /\ queued' = [l \in Local |-> IF l \in Expired THEN {} ELSE Unqueued(l)]
      /\ peerRec' = [p \in Peer |-> peerRec[p] \ Expired]
      /\ listener' = IF listener \in Expired THEN None ELSE listener
      /\ UNCHANGED <<held, worker>>
  BY DEF GcPass, Pass
<1>2. \A u \in Id : sock'[u] = Swept(u)
  BY <1>1
<1>3. \A u \in Id : Swept(u) \in Socket
  BY SweptFields DEF IInv
<1>4. sock' \in [Id -> Socket]
  BY <1>1, <1>3
<1>5. queued' \in [Local -> SUBSET Conn]
  <2>1. \A l \in Local : queued[l] \in SUBSET Conn
    BY DEF IInv, TypeOK
  <2>2. QED
    BY <1>1, <2>1, SweptSets
<1>6. peerRec' \in [Peer -> SUBSET Conn]
  <2>1. \A p \in Peer : peerRec[p] \in SUBSET Conn
    BY DEF IInv, TypeOK
  <2>2. QED
    BY <1>1, <2>1
<1>7. ASSUME NEW u \in Id
      PROVE  /\ sock'[u].where = "none" <=> sock[u].where = "none"
             /\ sock'[u].where = "new" <=> sock[u].where = "new"
             /\ sock'[u].where = "open" => sock[u].where = "open"
             /\ sock'[u].where = "freed" <=> (sock[u].where = "freed" \/ u \in Expired)
             /\ sock'[u].where = "closed" => sock[u].where \in {"open", "closed"}
  <2>1. CASE u \in Expired
    <3>1. sock[u].where = "closed"
      BY <2>1, SweptSets DEF In
    <3>2. sock'[u].where = "freed"
      BY <1>2, <2>1, SweptFields DEF IInv
    <3>3. QED
      BY <2>1, <3>1, <3>2
  <2>2. CASE u \in Unaccepted \cup Broken
    <3>1. sock[u].where = "open"
      BY <2>2, SweptSets DEF In
    <3>2. sock'[u].where = "closed"
      BY <1>2, <2>2, SweptFields DEF IInv
    <3>3. u \notin Expired
      BY <3>1, SweptSets DEF In
    <3>4. QED
      BY <3>1, <3>2, <3>3
  <2>3. CASE u \notin Expired \cup Unaccepted \cup Broken
    <3>1. sock'[u].where = sock[u].where
      BY <1>2, <2>3, SweptFields DEF IInv
    <3>2. QED
      BY <2>3, <3>1
  <2>4. QED
    BY <2>1, <2>2, <2>3
<1>8. QED
  BY <1>1, <1>2, <1>4, <1>5, <1>6, <1>7

\* The multiplexer gives back one reference for each socket that is freed.
LEMMA SweptMux ==
    ASSUME IInv, GcPass
    PROVE  /\ mux' \in [alive : BOOLEAN, closing : BOOLEAN, refs : Nat]
           /\ mux'.alive = mux.alive
           /\ mux'.closing => mux.alive /\ mux'.refs = 0
           /\ mux'.closing <=> ~Free'
           /\ ~mux'.closing => gc' = gc
           /\ mux'.closing => gc' = IF gc = "run" THEN "join" ELSE "joinEnd"
           /\ RefsExact'
<1> DEFINE lost == {u \in Expired : sock[u].mux}
           gone == Cardinality(lost)
           last == mux.alive /\ gone > 0 /\ mux.refs = gone
<1>1. /\ gc \in {"run", "drain"}
      /\ mux' = [mux EXCEPT !.refs = mux.refs - gone, !.closing = last]
      /\ gc' = IF last THEN (IF gc = "run" THEN "join" ELSE "joinEnd") ELSE gc
  BY DEF GcPass, Pass
<1>2. mux \in [alive : BOOLEAN, closing : BOOLEAN, refs : Nat]
  BY DEF IInv, TypeOK
<1>3. IsFiniteSet(Users) /\ Cardinality(Users) \in Nat
  BY UsersCounted DEF IInv
<1>4. lost \in SUBSET Users
  BY SweptSets DEF In, Users
<1>5. /\ IsFiniteSet(lost) /\ gone \in Nat /\ gone <= Cardinality(Users)
      /\ Cardinality(Users \ lost) = Cardinality(Users) - gone
  <2>1. IsFiniteSet(lost) /\ Cardinality(lost) <= Cardinality(Users)
    BY <1>3, <1>4, FS_Subset
  <2>2. Cardinality(Users \ lost) = Cardinality(Users) - Cardinality(Users \cap lost)
    BY <1>3, FS_Difference
  <2>3. Users \cap lost = lost
    BY <1>4
  <2> HIDE DEF lost
  <2>4. QED
    BY <2>1, <2>2, <2>3, FS_CardinalityType
<1>6. Users' = Users \ lost
  <2>1. \A u \in Id : u \notin Expired => sock'[u].mux = sock[u].mux
    BY SweptTables, SweptFields DEF IInv
  <2>2. \A u \in Id : u \in Expired => ~sock'[u].mux
    BY SweptTables, SweptFields DEF IInv
  <2>3. \A u \in Id : u \notin Expired => (sock'[u].where = "freed" <=> sock[u].where = "freed")
    BY SweptTables
  <2>4. QED
    BY <2>1, <2>2, <2>3 DEF Users
<1>7. mux.alive => mux.refs = Cardinality(Users)
  BY DEF IInv, RefsExact, Users
<1>8. ~mux.alive => gone = 0
  <2>1. ~mux.alive => lost = {}
    BY SweptSets DEF IInv, MuxInv, In
  <2>2. QED
    BY <2>1, FS_EmptySet
<1> HIDE DEF lost, gone
<1>9. mux.refs - gone \in Nat
  BY <1>2, <1>3, <1>5, <1>7, <1>8
<1>10. /\ mux' \in [alive : BOOLEAN, closing : BOOLEAN, refs : Nat]
       /\ mux'.alive = mux.alive /\ mux'.refs = mux.refs - gone /\ mux'.closing = last
  <2>1. last \in BOOLEAN
    BY <1>2
  <2> HIDE DEF last
  <2>2. QED
    BY <1>1, <1>2, <1>9, <2>1
<1>11. mux'.alive => mux'.refs = Cardinality(Users')
  BY <1>5, <1>6, <1>7, <1>10
<1>12. RefsExact'
  BY <1>11 DEF RefsExact, Users
<1>13. last => mux.alive /\ mux.refs - gone = 0
  BY <1>2
<1> HIDE DEF last
<1>14. QED
  BY <1>1, <1>10, <1>12, <1>13 DEF Free
LEMMA GcPassStep ==
    ASSUME IInv, GcPass
    PROVE  IInv'
<1> USE Ids
<1>1. /\ gc \in {"run", "drain"} /\ held' = held /\ worker' = worker
      /\ sock' \in [Id -> Socket] /\ queued' \in [Local -> SUBSET Conn]
      /\ peerRec' \in [Peer -> SUBSET Conn]
      /\ listener' = IF listener \in Expired THEN None ELSE listener
  BY SweptTables
<1>2. /\ \A l \in Local : queued'[l] = IF l \in Expired THEN {} ELSE Unqueued(l)
      /\ \A p \in Peer : peerRec'[p] = peerRec[p] \ Expired
      /\ \A u \in Id : sock'[u] = Swept(u)
  BY SweptTables
<1>3. \A u \in Id :
         /\ sock'[u].where = "none" <=> sock[u].where = "none"
         /\ sock'[u].where = "new" <=> sock[u].where = "new"
         /\ sock'[u].where = "open" => sock[u].where = "open"
         /\ sock'[u].where = "freed" <=> (sock[u].where = "freed" \/ u \in Expired)
         /\ sock'[u].where = "closed" => sock[u].where \in {"open", "closed"}
  BY SweptTables
<1>4. /\ mux' \in [alive : BOOLEAN, closing : BOOLEAN, refs : Nat]
      /\ mux'.alive = mux.alive
      /\ mux'.closing => mux.alive /\ mux'.refs = 0
      /\ mux'.closing <=> ~Free'
      /\ ~mux'.closing => gc' = gc
      /\ mux'.closing => gc' = IF gc = "run" THEN "join" ELSE "joinEnd"
      /\ RefsExact'
  BY SweptMux
<1>5. gc' \in {"run", "join", "drain", "joinEnd"} /\ (gc = "run" <=> gc' \in {"run", "join"})
  BY <1>1, <1>4
<1>6. /\ \A u \in Id : u \notin Expired =>
            /\ sock'[u].from = sock[u].from /\ sock'[u].peer = sock[u].peer
            /\ sock'[u].mux = sock[u].mux /\ sock'[u].onList = sock[u].onList
            /\ sock[u].broken => sock'[u].broken
            /\ sock[u].closing => sock'[u].closing
      /\ \A u \in Id : u \notin Expired \cup Unaccepted \cup Broken =>
            /\ sock'[u].where = sock[u].where /\ sock'[u].status = sock[u].status
            /\ sock'[u].broken = sock[u].broken
      /\ \A u \in Expired : ~sock'[u].mux /\ ~sock'[u].onList
      /\ \A u \in Unaccepted \cup Broken : sock'[u].status = "CLOSED"
  <2>1. Expired \subseteq Id /\ Unaccepted \subseteq Id /\ Broken \subseteq Id
    BY SweptSets DEF In
  <2>2. TypeOK
    BY DEF IInv
  <2>3. QED
    BY <1>2, <2>1, <2>2, SweptFields
<1>7. \A u \in Id : /\ u \in Expired => sock[u].where = "closed" /\ ~sock[u].onList
                    /\ u \in Unaccepted \cup Broken => sock[u].where = "open"
                    /\ u \in Broken => sock[u].broken
  BY SweptSets DEF In
<1>8. \A l \in Local : queued'[l] \in SUBSET queued[l]
  BY <1>2, SweptSets
<1>9. \A l \in Local : \A c \in Unaccepted :
         gc = "run" => \E k \in Local : k \in Expired /\ c \in queued[k] /\ sock[c].from = k
  <2>1. ASSUME NEW c \in Unaccepted, gc = "run"
        PROVE  \E k \in Local : k \in Expired /\ c \in queued[k] /\ sock[c].from = k
    <3>1. PICK k \in Expired \cap Local : c \in Unqueued(k)
      BY DEF Unaccepted
    <3>2. c \in queued[k] /\ sock[k].where = "closed"
      BY <1>7, <3>1, SweptSets
    <3>3. sock[c].from = k
      BY <2>1, <3>1, <3>2 DEF IInv, QueueInv
    <3>4. QED
      BY <3>1, <3>2, <3>3
  <2>2. QED
    BY <2>1
<1>10. \A c \in Unaccepted : c \in Conn /\ \E k \in Local : c \in queued[k]
  <2>1. \A l \in Local : queued[l] \subseteq Conn
    BY DEF IInv, TypeOK
  <2>2. \A c \in Unaccepted : \E k \in Local : c \in queued[k]
    BY SweptSets DEF Unaccepted
  <2>3. QED
    BY <2>1, <2>2
<1>11. TypeOK'
  <2>1. ASSUME NEW l \in Local
        PROVE  Cardinality(queued'[l]) <= Backlog
    <3>1. TypeOK /\ queued'[l] \in SUBSET queued[l]
      BY <1>8 DEF IInv
    <3>2. QED
      BY ONLY <3>1, ShorterQueue
  <2>2. listener' \in Local \cup {None}
    BY <1>1 DEF IInv, TypeOK
  <2>3. gc' \in {"off", "run", "join", "stop", "drain", "joinEnd"}
    BY <1>5
  <2>4. held' \in [Id -> {"no", "app", "closing"}] /\ worker' \in WorkerState
    BY <1>1 DEF IInv, TypeOK
  <2>5. QED
    BY <1>1, <1>4, <2>1, <2>2, <2>3, <2>4 DEF TypeOK
<1>12. NoDangling'
  <2>1. ASSUME NEW u \in Id, sock'[u].onList
        PROVE  sock'[u].where # "freed"
    <3>1. u \notin Expired
      BY <1>6, <2>1
    <3>2. sock[u].onList
      BY <1>6, <2>1, <3>1
    <3>3. sock[u].where # "freed"
      BY <3>2 DEF IInv, NoDangling
    <3>4. QED
      BY <1>3, <3>1, <3>3
  <2>2. ASSUME listener' # None
        PROVE  sock'[listener'].where # "freed"
    <3>1. listener' = listener /\ listener \notin Expired
      BY <1>1, <2>2
    <3>2. listener \in Id /\ sock[listener].where # "freed"
      BY <2>2, <3>1 DEF IInv, NoDangling, TypeOK
    <3>3. QED
      BY <1>3, <3>1, <3>2
  <2>3. QED
    BY <2>1, <2>2 DEF NoDangling
<1>13. AppInv'
  <2>1. ASSUME NEW u \in Id, sock'[u].where = "none"
        PROVE  held'[u] = "no" /\ ~sock'[u].broken /\ ~sock'[u].onList
    <3>1. sock[u].where = "none"
      BY <1>3, <2>1
    <3>2. u \notin Expired \cup Unaccepted \cup Broken
      BY <1>7, <3>1
    <3>3. sock'[u].broken = sock[u].broken /\ sock'[u].onList = sock[u].onList
      BY <1>6, <3>2
    <3>4. QED
      BY <1>1, <3>1, <3>3 DEF IInv, AppInv
  <2>2. ASSUME NEW u \in Local, held'[u] # "no"
        PROVE  sock'[u].where = "open" /\ ~sock'[u].broken
    <3>1. sock[u].where = "open" /\ ~sock[u].broken
      BY <1>1, <2>2 DEF IInv, AppInv
    <3>2. u \notin Expired \cup Unaccepted \cup Broken
      BY <1>7, <1>10, <3>1
    <3>3. sock'[u].where = sock[u].where /\ sock'[u].broken = sock[u].broken
      BY <1>6, <3>2
    <3>4. QED
      BY <3>1, <3>3
  <2>3. gc' \notin {"run", "join"} => \A u \in Id : held'[u] = "no"
    BY <1>1, <1>5 DEF IInv, AppInv
  <2>4. gc' \in {"drain", "joinEnd", "off"} => Local \cap In("open")' = {}
    <3>1. gc' \in {"drain", "joinEnd", "off"} => Local \cap In("open") = {}
      BY <1>1, <1>5 DEF IInv, AppInv
    <3>2. In("open")' \subseteq In("open")
      BY <1>3 DEF In
    <3>3. QED
      BY <3>1, <3>2
  <2>5. listener' # None => sock'[listener'].where \in {"open", "closed"}
    <3>1. ASSUME listener' # None
          PROVE  sock'[listener'].where \in {"open", "closed"}
      <4>1. listener' = listener /\ listener \notin Expired /\ listener \in Local
        BY <1>1, <3>1 DEF IInv, TypeOK
      <4>2. listener \in Id /\ sock[listener].where \in {"open", "closed"}
        BY <3>1, <4>1 DEF IInv, AppInv
      <4>3. sock'[listener].where \in {"none", "new", "open", "closed", "freed"}
        <5>1. sock'[listener] \in Socket
          BY <1>1, <4>2
        <5>2. QED
          BY <5>1 DEF Socket
      <4>4. QED
        BY <1>3, <4>1, <4>2, <4>3
    <3>2. QED
      BY <3>1
  <2>6. gc' # "off"
    BY <1>5
  <2>7. QED
    BY <2>1, <2>2, <2>3, <2>4, <2>5, <2>6 DEF AppInv
<1>14. MuxInv'
  <2>1. ASSUME NEW u \in Id, sock'[u].mux
        PROVE  sock'[u].status # "INIT" /\ sock'[u].where \in {"new", "open", "closed"}
    <3>1. u \notin Expired
      BY <1>6, <2>1
    <3>2. sock[u].mux
      BY <1>6, <2>1, <3>1
    <3>3. sock[u].status # "INIT" /\ sock[u].where \in {"new", "open", "closed"}
      BY <3>2 DEF IInv, MuxInv
    <3>4. sock'[u].status # "INIT"
      BY <1>6, <3>1, <3>3
    <3>5. sock'[u].where \in {"none", "new", "open", "closed", "freed"}
      <4>1. sock'[u] \in Socket
        BY <1>1
      <4>2. QED
        BY <4>1 DEF Socket
    <3>6. QED
      BY <1>3, <3>1, <3>3, <3>4, <3>5
  <2>2. ~mux'.alive => \A u \in Id : ~sock'[u].mux
    BY <1>4, <1>6 DEF IInv, MuxInv
  <2>3. worker'.pc # "exit" => mux'.alive
    BY <1>1, <1>4 DEF IInv, MuxInv
  <2>4. QED
    BY <1>4, <2>1, <2>2, <2>3 DEF MuxInv
<1>15. QueueInv'
  <2>1. \A l \in Local : queued'[l] \subseteq queued[l]
    BY <1>8
  <2>2. \A l \in Local : /\ sock'[l].where = "none" => sock[l].where = "none"
                         /\ sock'[l].where \in {"open", "closed"} => sock[l].where \in {"open", "closed"}
    BY <1>3
  <2>3. \A c \in Conn : sock[c].where # "none" => sock'[c].where # "none"
    BY <1>3
  <2>4. gc' \in {"run", "join", "stop"} => gc = "run"
    BY <1>5
  <2>5. ASSUME gc = "run", NEW l \in Local, sock'[l].where \in {"open", "closed"},
               NEW c \in queued'[l], sock[c].where = "open" /\ sock[c].from = l /\ held[c] = "no"
        PROVE  sock'[c].where = "open" /\ sock'[c].from = l /\ held'[c] = "no"
    <3>1. l \notin Expired /\ sock[l].where \in {"open", "closed"}
      BY <1>3, <2>2, <2>5
    <3>2. c \in Id /\ c \notin Broken
      <4>1. c \in Unqueued(l)
        BY <1>2, <2>5, <3>1
      <4>2. Unqueued(l) = {d \in queued[l] : ~(d \in Broken /\ sock[d].from = l)}
        BY <3>1 DEF Unqueued
      <4>3. queued[l] \subseteq Conn
        BY DEF IInv, TypeOK
      <4>4. QED
        BY <2>5, <4>1, <4>2, <4>3
    <3>3. c \notin Unaccepted
      BY <1>9, <2>5, <3>1
    <3>4. c \notin Expired
      BY <1>7, <2>5, <3>2
    <3>5. sock'[c].where = sock[c].where /\ sock'[c].from = sock[c].from
      BY <1>6, <3>2, <3>3, <3>4
    <3>6. QED
      BY <1>1, <2>5, <3>5
  <2>6. QED
    BY <2>1, <2>2, <2>3, <2>4, <2>5, QueueKeeps
<1>16. \A c \in Conn : sock'[c].where = "open" =>
          sock[c].where = "open" /\ sock'[c].peer = sock[c].peer /\ (Dead(c) => Dead(c)')
  <2>1. \A c \in Conn : sock'[c].where = "open" => sock[c].where = "open" /\ c \notin Expired
    BY <1>3, <1>7
  <2>2. QED
    BY <1>6, <2>1 DEF Dead
<1>17. PeerInv'
  <2>1. \A c \in Conn : sock'[c].where = "none" <=> sock[c].where = "none"
    BY <1>3
  <2>2. \A p \in Peer : peerRec'[p] \subseteq peerRec[p]
    BY <1>2
  <2>3. \A p \in Peer : \A c \in peerRec[p] : c \in Conn /\ sock[c].where \in {"open", "closed"}
    BY DEF IInv, PeerInv, TypeOK
  <2>4. \A p \in Peer : \A c \in peerRec[p] : sock'[c].where = "open" => c \in peerRec'[p]
    <3>1. \A c \in Conn : sock'[c].where = "open" => c \notin Expired
      BY <1>3, <1>7
    <3>2. QED
      BY <1>2, <2>3, <3>1
  <2>5. ASSUME NEW p \in Peer, NEW c \in peerRec'[p]
        PROVE  sock'[c].where \in {"open", "closed"}
    <3>1. c \in Id /\ c \notin Expired /\ sock[c].where \in {"open", "closed"}
      BY <1>2, <2>3
    <3>2. sock'[c].where \in {"none", "new", "open", "closed", "freed"}
      <4>1. sock'[c] \in Socket
        BY <1>1, <3>1
      <4>2. QED
        BY <4>1 DEF Socket
    <3>3. QED
      BY <1>3, <3>1, <3>2
  <2>6. QED
    BY <1>16, <2>1, <2>2, <2>4, <2>5, PeerKeeps
<1>18. WorkerInv'
  <2> DEFINE n == worker.ns
  <2>1. worker.pc \in Making =>
           /\ n \in Conn /\ n \in Id /\ held[n] = "no" /\ worker.ls \in Local
           /\ Cardinality(queued[worker.ls]) < Backlog /\ \A l \in Local : n \notin queued[l]
    BY DEF IInv, WorkerInv, Making
  <2>2. worker.pc \in Making => n \notin Expired /\ n \notin Unaccepted
    <3>1. worker.pc \in Making => sock[n].where = "new" \/ sock[n].onList
      BY DEF IInv, WorkerInv, Making
    <3>2. QED
      BY <1>7, <1>10, <2>1, <3>1
  <2>3. worker.pc \in Making => Cardinality(queued'[worker.ls]) < Backlog
    BY <1>8, <2>1, ShorterQueue DEF IInv
  <2>4. worker.pc \in Making /\ sock[n].where = "new" =>
           sock'[n].where = "new" /\ sock'[n].broken = sock[n].broken
    <3>1. worker.pc \in Making /\ sock[n].where = "new" => n \notin Broken
      BY <1>7, <2>1
    <3>2. QED
      BY <1>6, <2>1, <2>2, <3>1
  <2>5. ASSUME worker.pc = "queue"
        PROVE  \/ sock'[n].where = "open" /\ ~sock'[n].broken
               \/ sock'[n].where = "closed" /\ gc' \in {"drain", "joinEnd"}
    <3>1. n \in Id /\ n \notin Expired /\ n \notin Unaccepted
      BY <2>1, <2>2, <2>5 DEF Making
    <3>2. CASE sock[n].where = "open" /\ ~sock[n].broken
      <4>1. n \notin Broken
        BY <1>7, <3>1, <3>2
      <4>2. QED
        BY <1>6, <3>1, <3>2, <4>1
    <3>3. CASE sock[n].where = "closed" /\ gc \in {"drain", "joinEnd"}
      <4>1. n \notin Broken
        BY <1>7, <3>1, <3>3
      <4>2. sock'[n].where = "closed"
        BY <1>6, <3>1, <3>3, <4>1
      <4>3. QED
        BY <1>1, <1>5, <3>3, <4>2
    <3>4. QED
      BY <2>5, <3>2, <3>3 DEF IInv, WorkerInv
  <2>6. worker.pc \in Making =>
           /\ sock'[n].from = sock[n].from /\ sock'[n].peer = sock[n].peer
           /\ sock'[n].mux = sock[n].mux /\ sock'[n].onList = sock[n].onList
           /\ held'[n] = "no"
    BY <1>1, <1>6, <2>1, <2>2
  <2>7. /\ \A p \in Peer : peerRec'[p] \subseteq peerRec[p]
        /\ \A l \in Local : queued'[l] \subseteq queued[l]
        /\ \A c \in Conn : sock'[c].where = "none" <=> sock[c].where = "none"
        /\ \A l \in Local : sock[l].where # "none" => sock'[l].where # "none"
    BY <1>2, <1>3, <1>8
  <2>8. QED
    BY <1>1, <1>16, <2>3, <2>4, <2>5, <2>6, <2>7, WorkerKeeps
<1>19. QED
  BY <1>4, <1>11, <1>12, <1>13, <1>14, <1>15, <1>17, <1>18 DEF IInv
\* The worker of a multiplexer that nobody uses has ended.
LEMMA GcJoinStep ==
    ASSUME IInv, GcJoin
    PROVE  IInv'
<1>1. /\ gc \in {"join", "joinEnd"} /\ worker.pc = "exit"
      /\ mux' = [mux EXCEPT !.alive = FALSE, !.closing = FALSE]
      /\ gc' = IF gc = "join" THEN "run" ELSE "drain"
      /\ UNCHANGED <<sock, queued, held, peerRec, listener, worker>>
  BY DEF GcJoin
<1>2. mux \in [alive : BOOLEAN, closing : BOOLEAN, refs : Nat]
  BY DEF IInv, TypeOK
<1>3. /\ mux' \in [alive : BOOLEAN, closing : BOOLEAN, refs : Nat]
      /\ ~mux'.alive /\ ~mux'.closing
  BY <1>1, <1>2
<1>4. gc' \in {"run", "drain"} /\ (gc' = "run" <=> gc = "join") /\ (gc' = "drain" <=> gc = "joinEnd")
  BY <1>1
<1>5. \A u \in Id : ~sock[u].mux
  <2>1. mux.alive /\ mux.refs = 0
    BY <1>1 DEF IInv, MuxInv, Free
  <2>2. Cardinality(Users) = 0 /\ IsFiniteSet(Users)
    BY <2>1, UsersCounted DEF IInv, RefsExact, Users
  <2>3. Users = {}
    BY <2>2, FS_EmptySet
  <2>4. \A u \in Id : sock[u].mux => sock[u].where # "freed"
    BY DEF IInv, MuxInv
  <2>5. QED
    BY <2>3, <2>4 DEF Users
<1>6. TypeOK' /\ RefsExact' /\ NoDangling'
  BY <1>1, <1>3, <1>4 DEF IInv, TypeOK, RefsExact, NoDangling
<1>7. AppInv'
  BY <1>1, <1>4 DEF IInv, AppInv, In
<1>8. MuxInv'
  BY <1>1, <1>3, <1>4, <1>5 DEF IInv, MuxInv, Free
<1>9. QueueInv'
  BY <1>1, <1>4 DEF IInv, QueueInv
<1>10. PeerInv'
  BY <1>1 DEF IInv, PeerInv, Dead
<1>11. WorkerInv'
  BY <1>1 DEF WorkerInv, Making
<1>12. QED
  BY <1>6, <1>7, <1>8, <1>9, <1>10, <1>11 DEF IInv

\* At the end every socket is closed, whoever waits for it.
LEMMA GcStopStep ==
    ASSUME IInv, GcStop
    PROVE  IInv'
<1> USE Ids
<1> DEFINE shut(u) == [sock[u] EXCEPT !.broken = TRUE, !.closing = TRUE, !.status = "CLOSED",
                                      !.where = "closed", !.timer = "no"]
           over(u) == [sock[u] EXCEPT !.timer = "over"]
<1>1. /\ gc = "stop" /\ gc' = "drain" /\ UNCHANGED <<held, peerRec, mux, worker>>
      /\ queued' = [l \in Local |-> {c \in queued[l] : ~(c \in In("open") /\ sock[c].from = l)}]
      /\ listener' = IF listener \in In("open") THEN None ELSE listener
  BY DEF GcStop
<1>2. sock' = [u \in Id |-> CASE u \in In("open") -> shut(u)
                               [] u \in In("closed") /\ sock[u].timer # "no" -> over(u)
                               [] OTHER -> sock[u]]
  BY Zenon DEF GcStop
<1>3. sock \in [Id -> Socket]
  BY DEF IInv, TypeOK
<1>4. ASSUME NEW u \in Id
      PROVE  /\ shut(u) \in Socket /\ shut(u).where = "closed" /\ shut(u).status = "CLOSED"
             /\ shut(u).broken /\ shut(u).closing
             /\ shut(u).from = sock[u].from /\ shut(u).peer = sock[u].peer
             /\ shut(u).mux = sock[u].mux /\ shut(u).onList = sock[u].onList
             /\ over(u) \in Socket /\ over(u).where = sock[u].where
             /\ over(u).status = sock[u].status
             /\ over(u).broken = sock[u].broken /\ over(u).closing = sock[u].closing
             /\ over(u).from = sock[u].from /\ over(u).peer = sock[u].peer
             /\ over(u).mux = sock[u].mux /\ over(u).onList = sock[u].onList
  <2>1. sock[u] \in Socket
    BY <1>3
  <2>2. QED
    BY <2>1 DEF Socket
<1> HIDE DEF shut, over
<1>5. ASSUME NEW u \in Id
      PROVE  /\ sock'[u] \in Socket
             /\ sock'[u].from = sock[u].from /\ sock'[u].peer = sock[u].peer
             /\ sock'[u].mux = sock[u].mux /\ sock'[u].onList = sock[u].onList
             /\ sock[u].where = "open" => sock'[u].where = "closed" /\ sock'[u].status = "CLOSED"
             /\ sock[u].where # "open" =>
                   /\ sock'[u].where = sock[u].where /\ sock'[u].status = sock[u].status
                   /\ sock'[u].broken = sock[u].broken
  <2>1. u \in In("open") <=> sock[u].where = "open"
    BY DEF In
  <2>2. u \in In("closed") <=> sock[u].where = "closed"
    BY DEF In
  <2>3. CASE sock[u].where = "open"
    <3>1. sock'[u] = shut(u)
      BY <1>2, <2>1, <2>2, <2>3
    <3>2. QED
      BY <1>4, <2>3, <3>1
  <2>4. CASE sock[u].where # "open" /\ sock'[u] = over(u)
    BY <1>4, <2>4
  <2>5. CASE sock[u].where # "open" /\ sock'[u] = sock[u]
    BY <1>3, <2>5
  <2>6. sock[u].where # "open" => sock'[u] = over(u) \/ sock'[u] = sock[u]
    BY <1>2, <2>1, <2>2
  <2>7. QED
    BY <2>3, <2>4, <2>5, <2>6
<1>6. sock' \in [Id -> Socket]
  BY <1>2, <1>5
<1>7. \A l \in Local : queued'[l] \in SUBSET queued[l]
  BY <1>1
<1>8. queued' \in [Local -> SUBSET Conn]
  <2>1. \A l \in Local : queued[l] \in SUBSET Conn
    BY DEF IInv, TypeOK
  <2>2. QED
    BY <1>1, <2>1
<1>9. \A u \in Id : held[u] = "no"
  BY <1>1 DEF IInv, AppInv
<1>10. TypeOK'
  <2>1. ASSUME NEW l \in Local
        PROVE  Cardinality(queued'[l]) <= Backlog
    <3>1. TypeOK /\ queued'[l] \in SUBSET queued[l]
      BY <1>7 DEF IInv
    <3>2. QED
      BY ONLY <3>1, ShorterQueue
  <2>2. listener' \in Local \cup {None}
    BY <1>1 DEF IInv, TypeOK
  <2>3. QED
    BY <1>1, <1>6, <1>8, <2>1, <2>2 DEF IInv, TypeOK
<1>11. RefsExact'
  <2>1. \A u \in Id : sock'[u].mux = sock[u].mux /\ (sock'[u].where = "freed" <=> sock[u].where = "freed")
    BY <1>5
  <2>2. Users' = Users
    BY <2>1 DEF Users
  <2>3. QED
    BY <1>1, <2>2, SameUsers
<1>12. NoDangling'
  <2>1. \A u \in Id : sock'[u].onList => sock'[u].where # "freed"
    BY <1>5 DEF IInv, NoDangling
  <2>2. listener' # None => listener' = listener /\ listener \in Id
    BY <1>1 DEF IInv, TypeOK
  <2>3. listener' # None => sock'[listener'].where # "freed"
    BY <1>5, <2>2 DEF IInv, NoDangling
  <2>4. QED
    BY <2>1, <2>3 DEF NoDangling
<1>13. AppInv'
  <2>1. \A u \in Id : sock'[u].where = "none" => held'[u] = "no" /\ ~sock'[u].broken /\ ~sock'[u].onList
    BY <1>1, <1>5 DEF IInv, AppInv
  <2>2. In("open")' = {}
    BY <1>5 DEF In
  <2>3. listener' # None => listener' = listener /\ listener \in Id
    BY <1>1 DEF IInv, TypeOK
  <2>4. listener' # None => sock'[listener'].where \in {"open", "closed"}
    BY ZenonT(60), <1>5, <2>3 DEF IInv, AppInv
  <2>5. QED
    BY <1>1, <1>9, <2>1, <2>2, <2>4 DEF AppInv
<1>14. MuxInv'
  <2>1. \A u \in Id : sock'[u].mux =>
           sock'[u].status # "INIT" /\ sock'[u].where \in {"new", "open", "closed"}
    BY <1>5 DEF IInv, MuxInv
  <2>2. \A u \in Id : sock'[u].mux = sock[u].mux
    BY <1>5
  <2>3. QED
    BY <1>1, <2>1, <2>2 DEF IInv, MuxInv, Free
<1>15. QueueInv'
  <2>1. \A l \in Local : queued'[l] \subseteq queued[l] /\ queued[l] \subseteq Conn
    BY <1>7 DEF IInv, TypeOK
  <2>2. \A u \in Id : sock'[u].where = "none" <=> sock[u].where = "none"
    BY <1>5
  <2>3. /\ \A l \in Local : \A c \in queued'[l] : sock'[c].where # "none"
        /\ \A l \in Local : sock'[l].where = "none" => queued'[l] = {}
    BY ZenonT(60), <2>1, <2>2 DEF IInv, QueueInv
  <2>4. QED
    BY <1>1, <2>3 DEF QueueInv
<1>16. PeerInv'
  <2>1. \A c \in Conn : sock'[c].where # "open" /\ (sock'[c].where = "none" <=> sock[c].where = "none")
    BY <1>5
  <2>2. \A p \in Peer : peerRec'[p] = peerRec[p] /\ peerRec[p] \subseteq Conn
    BY <1>1 DEF IInv, TypeOK
  <2>3. \A p \in Peer : \A c \in peerRec'[p] : sock'[c].where \in {"open", "closed"}
    BY <1>5, <2>2 DEF IInv, PeerInv
  <2>4. QED
    BY <2>1, <2>2, <2>3, PeerKeeps
<1>17. WorkerInv'
  <2> DEFINE n == worker.ns
  <2>1. worker.pc \in Making =>
           /\ n \in Conn /\ n \in Id /\ worker.ls \in Local
           /\ Cardinality(queued[worker.ls]) < Backlog
    BY DEF IInv, WorkerInv, Making
  <2>2. worker.pc \in Making => Cardinality(queued'[worker.ls]) < Backlog
    BY <1>7, <2>1, ShorterQueue DEF IInv
  <2>3. worker.pc = "queue" => sock'[n].where = "closed" /\ gc' = "drain"
    <3>1. worker.pc = "queue" => sock[n].where = "open"
      BY <1>1 DEF IInv, WorkerInv
    <3>2. QED
      BY <1>1, <1>5, <2>1, <3>1 DEF Making
  <2>4. worker.pc \in Making =>
           /\ sock'[n].from = sock[n].from /\ sock'[n].peer = sock[n].peer
           /\ sock'[n].mux = sock[n].mux /\ sock'[n].onList = sock[n].onList
           /\ held'[n] = "no"
           /\ sock[n].where = "new" => sock'[n].where = "new" /\ sock'[n].broken = sock[n].broken
    BY <1>1, <1>5, <1>9, <2>1
  <2>5. /\ \A c \in Conn : sock'[c].where # "open" /\ (sock'[c].where = "none" <=> sock[c].where = "none")
        /\ \A l \in Local : sock[l].where # "none" => sock'[l].where # "none"
    BY <1>5
  <2>6. worker' = worker /\ peerRec' = peerRec
    BY <1>1
  <2>7. QED
    BY <1>7, <2>2, <2>3, <2>4, <2>5, <2>6, WorkerKeeps
<1>18. QED
  BY <1>10, <1>11, <1>12, <1>13, <1>14, <1>15, <1>16, <1>17 DEF IInv

LEMMA GcEndStep ==
    ASSUME IInv, GcEnd
    PROVE  IInv'
<1>1. /\ gc = "drain" /\ gc' = "off" /\ In("closed") = {}
      /\ UNCHANGED <<sock, queued, held, peerRec, listener, mux, worker>>
  BY DEF GcEnd
<1>2. TypeOK' /\ RefsExact' /\ NoDangling' /\ AppInv'
  BY <1>1 DEF IInv, TypeOK, RefsExact, NoDangling, AppInv, In
<1>3. MuxInv' /\ QueueInv' /\ PeerInv'
  BY <1>1 DEF IInv, MuxInv, QueueInv, PeerInv, Free, Dead
<1>4. worker.pc = "queue" => sock[worker.ns].where = "open" /\ ~sock[worker.ns].broken
  <2>1. worker.pc = "queue" => worker.ns \in Id
    BY AtWork DEF Making
  <2>2. worker.pc = "queue" => sock[worker.ns].where # "closed"
    BY <1>1, <2>1 DEF In
  <2>3. QED
    BY <2>2 DEF IInv, WorkerInv
<1>5. WorkerInv'
  BY <1>1, <1>4 DEF IInv, WorkerInv, In, Dead
<1>6. QED
  BY <1>2, <1>3, <1>5 DEF IInv

-----------------------------------------------------------------------------
(* The theorems.                                                           *)

LEMMA InitInv == Init => IInv
<1> USE Ids
<1> SUFFICES ASSUME Init
             PROVE  IInv
  OBVIOUS
<1>1. /\ sock = [u \in Id |-> NoSocket] /\ queued = [u \in Local |-> {}]
      /\ held = [u \in Id |-> "no"] /\ peerRec = [p \in Peer |-> {}] /\ listener = None
      /\ mux = [alive |-> FALSE, closing |-> FALSE, refs |-> 0]
      /\ worker = [Idle EXCEPT !.pc = "exit"] /\ gc = "off"
  BY DEF Init
<1>2. NoSocket \in Socket
  <2>1. 0 \in 0..MaxPatience
    BY SocketsAssumption
  <2>2. QED
    BY <2>1 DEF NoSocket, Socket
<1>3. /\ NoSocket.where = "none" /\ ~NoSocket.mux /\ ~NoSocket.broken /\ ~NoSocket.onList
  BY DEF NoSocket
<1>4. worker \in WorkerState /\ worker.pc = "exit"
  BY <1>1 DEF Idle, WorkerState
<1>5. TypeOK
  <2>1. Cardinality({}) <= Backlog
    BY FS_EmptySet, SocketsAssumption
  <2>2. QED
    BY <1>1, <1>2, <1>4, <2>1 DEF TypeOK
<1>6. \A u \in Id : sock[u] = NoSocket
  BY <1>1
<1> HIDE DEF NoSocket
<1>7. RefsExact /\ NoDangling /\ AppInv
  BY <1>1, <1>3, <1>6 DEF RefsExact, NoDangling, AppInv, In
<1>8. MuxInv /\ QueueInv /\ PeerInv
  BY <1>1, <1>3, <1>4, <1>6 DEF MuxInv, QueueInv, PeerInv, Free
<1>9. WorkerInv
  BY <1>4 DEF WorkerInv, Making
<1>10. QED
  BY <1>5, <1>7, <1>8, <1>9 DEF IInv

\* IInv is inductive.
LEMMA StepInv == IInv /\ [Next]_vars => IInv'
<1> SUFFICES ASSUME IInv, [Next]_vars
             PROVE  IInv'
  OBVIOUS
<1>1. ASSUME NEW u \in Local, newSocket(u) \/ bind(u) \/ listen(u) \/ accept(u)
      PROVE  IInv'
  BY <1>1, newSocketStep, bindStep, listenStep, acceptStep
<1>2. ASSUME NEW u \in Id, close(u) \/ closeMove(u) \/ Elapse(u)
      PROVE  IInv'
  BY <1>2, closeMoveStep, FlagSteps
<1>3. CASE cleanup
  BY <1>3, cleanupStep
<1>4. ASSUME NEW c \in Conn, Break(c) \/ Unlist(c)
      PROVE  IInv'
  BY <1>4, FlagSteps
<1>5. CASE (\E p \in Peer : Request(p)) \/ LocateListener \/ LocatePeer \/ Reply \/ Exit
  BY <1>5, WorkerLooks
<1>6. CASE Known \/ NewConnection \/ UpdateMux \/ Register \/ Queue
  BY <1>6, KnownStep, NewConnectionStep, UpdateMuxStep, RegisterStep, QueueStep
<1>7. CASE Gc
  BY <1>7, GcPassStep, GcJoinStep, GcStopStep, GcEndStep DEF Gc
<1>8. CASE UNCHANGED vars
  <2>1. UNCHANGED <<sock, queued, held, peerRec, listener, mux, worker, gc>>
    BY <1>8 DEF vars
  <2>2. TypeOK' /\ RefsExact' /\ NoDangling' /\ AppInv'
    BY <2>1 DEF IInv, TypeOK, RefsExact, NoDangling, AppInv, In
  <2>3. MuxInv' /\ QueueInv' /\ PeerInv'
    BY <2>1 DEF IInv, MuxInv, QueueInv, PeerInv, Free, Dead
  <2>4. WorkerInv'
    BY <2>1 DEF IInv, WorkerInv, In, Dead
  <2>5. QED
    BY <2>2, <2>3, <2>4 DEF IInv
<1>9. QED
  BY <1>1, <1>2, <1>3, <1>4, <1>5, <1>6, <1>7, <1>8 DEF Next, App, Worker

\* Copies of a request have one connection that lives.
LEMMA OneAlive == IInv => OnePerRequest
<1> SUFFICES ASSUME IInv, NEW p \in Peer
             PROVE  Cardinality({c \in Conn \cap In("open") : sock[c].peer = p /\ ~sock[c].broken
                                                              /\ ~sock[c].closing}) <= 1
  BY DEF OnePerRequest
<1> DEFINE live == {c \in Conn \cap In("open") : sock[c].peer = p /\ ~sock[c].broken /\ ~sock[c].closing}
<1>1. \A c \in live : c \in Conn /\ c \in Nat /\ c \in peerRec[p] /\ sock[c].where = "open" /\ ~Dead(c)
  BY Ids DEF IInv, PeerInv, In, Dead
<1>2. \A c, d \in live : c = d
  <2>1. \A c, d \in live : ~(c < d)
    <3>1. \A c, d \in peerRec[p] : c < d /\ sock[d].where = "open" => Dead(d)
      BY DEF IInv, PeerInv
    <3> HIDE DEF live
    <3>2. QED
      BY <1>1, <3>1
  <2> HIDE DEF live
  <2>2. QED
    BY <1>1, <2>1
<1> HIDE DEF live
<1>3. CASE live = {}
  <2>1. Cardinality(live) = 0
    BY <1>3, FS_EmptySet
  <2>2. QED
    BY <2>1 DEF live
<1>4. CASE live # {}
  <2>1. PICK c \in live : TRUE
    BY <1>4
  <2>2. live = {c}
    BY <1>2, <2>1
  <2>3. Cardinality(live) = 1
    BY <2>2, FS_Singleton
  <2>4. QED
    BY <2>3 DEF live
<1>5. QED
  BY <1>3, <1>4

\* The tables of CUDTUnited agree, whatever the application, the worker and the
\* collector do between each other's steps: the multiplexer counts its sockets,
\* what waits for accept is open, and a repeated request makes one connection.
THEOREM TablesCorrect == Spec => []TablesAgree
<1>1. IInv => TablesAgree
  BY OneAlive DEF IInv, TablesAgree, UnacceptedOpen, QueueInv, TypeOK, In, Id
<1>2. Spec => []IInv
  BY InitInv, StepInv, PTL DEF Spec
<1>3. QED
  BY <1>1, <1>2, PTL

\* The worker never keeps a pointer to a socket that checkBrokenSockets has freed.
THEOREM NothingDangles == Spec => []NoDangling
<1>1. Spec => []IInv
  BY InitInv, StepInv, PTL DEF Spec
<1>2. QED
  BY <1>1, PTL DEF IInv
=============================================================================
