---------------------------- MODULE UdtRendezvous ----------------------------
(***************************************************************************)
(* Rendezvous connection of UDT, the only way in which the program makes a *)
(* connection (SecureTransport::connect calls connect_datagram(addr,       *)
(* true)): CUDT::connect in the thread of the application, the receiving   *)
(* worker of each host, which passes it the packets that arrive            *)
(* (CRcvQueue::worker, storePkt) and repeats its requests                  *)
(* (CRendezvousQueue::updateConnStatus), and close.                        *)
(*                                                                         *)
(* A packet once sent may arrive at any time, any number of times, or      *)
(* never: net only grows.  A pair of addresses is used once: a client      *)
(* binds a new port for its one attempt, and the server answers it once.   *)
(* No socket listens on these ports.  A random ISN is as good as the       *)
(* socket it belongs to, and 0 is no socket.  The EXP timer of a connected  *)
(* socket takes seconds of silence to give up and is left to UdtTransfer.  *)
(*                                                                         *)
(* m_llLastReqTime is not set before the first request, so the worker may  *)
(* send m_ConnReq while connect() is still filling it in: Early are the    *)
(* sockets to which that happens.                                          *)
(***************************************************************************)
EXTENDS Integers, Sequences, SequencesExt

CONSTANTS Sock, Host,
          At, To,         \* the host of a socket, and the host it connects to
          BufLimit,       \* storePkt drops a packet when more than these are kept (16)
          Early

None == 0

ASSUME RendezvousAssumption ==
    /\ At \in [Sock -> Host] /\ To \in [Sock -> Host]
    /\ \A s, t \in Sock : At[s] = At[t] /\ To[s] = To[t] => s = t
    /\ BufLimit \in Nat /\ Early \subseteq Sock /\ None \notin Sock

VARIABLES
    udt,           \* the sockets
    queue,         \* m_lRendezvousID of each host
    buffer,        \* m_mBuffer
    net            \* packets sent

vars == <<udt, queue, buffer, net>>

\* What is read of a CHandShake: m_iReqType, m_iID, m_iISN and m_iType # 0.
Blank == [type |-> 0, id |-> None, isn |-> None, sty |-> FALSE]

\* The second half of a socket's life is CUDT::connect: fill (registered, and
\* m_ConnReq is filled in), wait (its loop), post (POST_CONNECT), done.  ret is
\* what connect returns, late that the TTL has passed.
NewSocket == [pc |-> "new", connecting |-> FALSE, connected |-> FALSE, broken |-> FALSE,
              reqType |-> 0, res |-> Blank, late |-> FALSE, ret |-> "none",
              closed |-> FALSE, freed |-> FALSE]

Handshake == [type : {0, -1, -2}, id : Sock \cup {None}, isn : Sock \cup {None}, sty : BOOLEAN]

Socket == [pc : {"new", "fill", "wait", "post", "done"}, connecting : BOOLEAN, connected : BOOLEAN,
           broken : BOOLEAN, reqType : {0, -1}, res : Handshake, late : BOOLEAN,
           ret : {"none", "ok", "error"}, closed : BOOLEAN, freed : BOOLEAN]

\* A packet: its sender, the id it is for, its kind (a handshake; "live" is data
\* or a keep-alive; a shutdown) and the handshake it carries.
Packet == [src : Sock, dst : Sock \cup {None}, kind : {"hs", "live", "shutdown"}, hs : Handshake]

Ctrl(s, kind) == [src |-> s, dst |-> udt[s].res.id, kind |-> kind, hs |-> Blank]

Init ==
    /\ udt = [s \in Sock |-> NewSocket]
    /\ queue = [h \in Host |-> <<>>]
    /\ buffer = [s \in Sock |-> <<>>]
    /\ net = {}

Entries(h) == ToSet(queue[h])
Up(s) == udt[s].connected /\ ~udt[s].broken /\ ~udt[s].closed

-----------------------------------------------------------------------------
(* CUDT::connect.                                                          *)

\* CRendezvousQueue::insert and remove; removeConnector also drops the packets
\* that were kept for the socket.
Enlist(s) == queue' = [queue EXCEPT ![At[s]] = Append(@, s)]
Delist(s) == queue' = [queue EXCEPT ![At[s]] = RemoveFirst(@, s)]
removeConnector(s) == Delist(s) /\ buffer' = [buffer EXCEPT ![s] = <<>>]

\* registerConnector.
Register(s) ==
    /\ udt[s].pc = "new"
    /\ udt' = [udt EXCEPT ![s].pc = "fill"]
    /\ Enlist(s)
    /\ UNCHANGED <<buffer, net>>

\* m_ConnReq as it is sent; for the id that the last response has named.
Request(s) == [src |-> s, dst |-> udt[s].res.id, kind |-> "hs",
               hs |-> [type |-> udt[s].reqType, id |-> s, isn |-> s, sty |-> TRUE]]

\* The first request, and m_bConnecting.
Start(s) ==
    /\ udt[s].pc = "fill"
    /\ net' = net \cup {Request(s)}
    /\ udt' = [udt EXCEPT ![s].pc = "wait", ![s].connecting = TRUE]
    /\ UNCHANGED <<queue, buffer>>

\* In the loop, 250 ms after the last request.
Resend(s) ==
    /\ udt[s].pc = "wait"
    /\ net' = net \cup {Request(s)}
    /\ UNCHANGED <<udt, queue, buffer>>

\* The end of the loop and of connect(): no error code, so that it succeeds.
Return(u) == [u EXCEPT !.pc = "done", !.ret = "ok"]

\* Mutant: m_ConnReq.m_iReqType is not set to -1.
Response_StaysRequest(u, p) ==
    IF ~u.connecting THEN Return(u)
    ELSE IF p.kind = "live" /\ u.res.sty THEN [u EXCEPT !.pc = "post"]
    ELSE IF p.kind # "hs" THEN Return(u)
    ELSE IF u.reqType = 0 \/ p.hs.type = 0 THEN [u EXCEPT !.res = p.hs]
    ELSE [u EXCEPT !.res = p.hs, !.pc = "post"]

\* connect(response): what becomes of the socket u when it takes the packet p.
Response(u, p) ==
    IF ~u.connecting THEN Return(u)
    ELSE IF p.kind = "live" /\ u.res.sty THEN [u EXCEPT !.pc = "post"]
    ELSE IF p.kind # "hs" THEN Return(u)
    ELSE IF u.reqType = 0 \/ p.hs.type = 0 THEN [u EXCEPT !.res = p.hs, !.reqType = -1]
    ELSE [u EXCEPT !.res = p.hs, !.pc = "post"]

\* recvfrom gives the earliest packet; POST_CONNECT begins with removeConnector.
Respond(s) ==
    /\ udt[s].pc = "wait" /\ buffer[s] # <<>>
    /\ LET u == Response(udt[s], Head(buffer[s])) IN
       /\ udt' = [udt EXCEPT ![s] = u]
       /\ IF u.pc = "post" THEN removeConnector(s)
          ELSE buffer' = [buffer EXCEPT ![s] = Tail(@)] /\ UNCHANGED queue
    /\ UNCHANGED net

\* The rest of POST_CONNECT, setNewEntry and connect_complete.
Complete(s) ==
    /\ udt[s].pc = "post"
    /\ udt' = [udt EXCEPT ![s] = [Return(@) EXCEPT !.connecting = FALSE, !.connected = TRUE]]
    /\ UNCHANGED <<queue, buffer, net>>

\* The TTL passes ...
TtlEnds(s) ==
    /\ udt[s].pc = "wait" /\ ~udt[s].late
    /\ udt' = [udt EXCEPT ![s].late = TRUE]
    /\ UNCHANGED <<queue, buffer, net>>

\* ... and connect() sees it when recvfrom has given nothing, or a step of the handshake.
Timeout(s) ==
    /\ udt[s].pc = "wait" /\ udt[s].late
    /\ udt' = [udt EXCEPT ![s].pc = "done", ![s].ret = "error"]
    /\ UNCHANGED <<queue, buffer, net>>

\* Endpoint::connect closes a socket that did not connect, the application any other.
Close(s) ==
    /\ udt[s].pc = "done" /\ ~udt[s].closed
    /\ udt' = [udt EXCEPT ![s].closed = TRUE]
    /\ net' = IF udt[s].connected /\ ~udt[s].broken THEN net \cup {Ctrl(s, "shutdown")} ELSE net
    /\ IF udt[s].connecting THEN removeConnector(s) ELSE UNCHANGED <<queue, buffer>>

\* The collector deletes the socket, a second or more after it was closed.
Free(s) ==
    /\ udt[s].closed /\ ~udt[s].freed
    /\ udt' = [udt EXCEPT ![s].freed = TRUE]
    /\ UNCHANGED <<queue, buffer, net>>

-----------------------------------------------------------------------------
(* The receiving worker.  What it does with a freed socket is not followed. *)

\* The entries that a packet may be for, of which retrieve takes the first.
Matches(h, p) == {i \in DOMAIN queue[h] : To[queue[h][i]] = At[p.src] /\ p.dst \in {None, queue[h][i]}}
Retrieve(h, p) == queue[h][Min(Matches(h, p))]

\* storePkt.
Stored(s, p) ==
    buffer' = IF Len(buffer[s]) > BufLimit THEN buffer ELSE [buffer EXCEPT ![s] = Append(@, p)]

\* Mutant: the answer carries no ISN.
ProcessCtrl_NoIsn(s, p) ==
    /\ net' = IF p.kind = "hs" /\ p.hs.type # -2
              THEN net \cup {[Ctrl(s, "hs") EXCEPT !.hs = [type |-> -2, id |-> s, isn |-> None, sty |-> FALSE]]}
              ELSE net
    /\ udt' = [udt EXCEPT ![s].broken = p.kind = "shutdown"]
    /\ UNCHANGED <<queue, buffer>>

\* A connected socket: the answer to a peer that asks again, or its shutdown.
ProcessCtrl(s, p) ==
    /\ net' = IF p.kind = "hs" /\ p.hs.type # -2
              THEN net \cup {[Ctrl(s, "hs") EXCEPT !.hs = [type |-> -2, id |-> s, isn |-> s, sty |-> FALSE]]}
              ELSE net
    /\ udt' = [udt EXCEPT ![s].broken = p.kind = "shutdown"]
    /\ UNCHANGED <<queue, buffer>>

\* The packet is for a connected socket, or for one that is connecting.
Deliver(p) ==
    LET h == To[p.src] IN
    \/ /\ p.dst # None /\ At[p.dst] = h /\ To[p.dst] = At[p.src] /\ Up(p.dst)
       /\ ProcessCtrl(p.dst, p)
    \/ /\ Matches(h, p) # {} /\ ~udt[Retrieve(h, p)].freed
       /\ Stored(Retrieve(h, p), p)
       /\ UNCHANGED <<udt, queue, net>>

\* updateConnStatus, 250 ms after the last request: the request again.
WorkerResend(s) ==
    /\ s \in Entries(At[s]) /\ udt[s].pc # "fill" /\ ~udt[s].late /\ ~udt[s].freed
    /\ net' = net \cup {Request(s)}
    /\ UNCHANGED <<udt, queue, buffer>>

\* Before the first request: the fields of m_ConnReq that are there already, of
\* which m_iID is written before m_iISN.
WorkerEarly(s) ==
    /\ s \in Entries(At[s]) \cap Early /\ udt[s].pc = "fill" /\ \A p \in net : p.src # s
    /\ \E f \in SUBSET {"sty", "id", "isn"} :
       /\ "isn" \in f => "id" \in f
       /\ net' = net \cup {[Request(s) EXCEPT
                    !.hs.sty = "sty" \in f,
                    !.hs.id = IF "id" \in f THEN s ELSE None,
                    !.hs.isn = IF "isn" \in f THEN s ELSE None]}
    /\ UNCHANGED <<udt, queue, buffer>>

\* updateConnStatus after the TTL: the entry stays.
WorkerExpire(s) ==
    /\ s \in Entries(At[s]) /\ udt[s].late /\ udt[s].connecting
    /\ udt' = [udt EXCEPT ![s].connecting = FALSE]
    /\ UNCHANGED <<queue, buffer, net>>

\* A connected socket sends data, or the keep-alive of its EXP timer.
SendLive(s) ==
    /\ Up(s)
    /\ net' = net \cup {Ctrl(s, "live")}
    /\ UNCHANGED <<udt, queue, buffer>>

Next ==
    \/ \E s \in Sock :
          \/ Register(s) \/ Start(s) \/ Resend(s) \/ Respond(s) \/ Complete(s)
          \/ TtlEnds(s) \/ Timeout(s) \/ Close(s) \/ Free(s)
          \/ WorkerResend(s) \/ WorkerEarly(s) \/ WorkerExpire(s) \/ SendLive(s)
    \/ \E p \in net : Deliver(p)

Spec == Init /\ [][Next]_vars

-----------------------------------------------------------------------------
(* Fairness: the threads run, and of what is sent again and again, the     *)
(* request of a socket that waits, and the answers of a connected one to   *)
(* it, some arrive when there is room for them.                            *)

Waits(s) == udt[s].pc = "wait" /\ ~udt[s].late
Room(p) == p.dst # None => Len(buffer[p.dst]) <= BufLimit

Arrives(s) ==
    \E p \in net :
       /\ Room(p) /\ Deliver(p)
       /\ \/ Waits(s) /\ p = Request(s)
          \/ Up(s) /\ p.src = s /\ p.dst = udt[s].res.id /\ (p.kind = "live" \/ p.hs.type = -2)

FairSpec ==
    /\ Spec
    /\ \A s \in Sock :
          /\ WF_vars(Start(s) \/ Respond(s) \/ Complete(s)) /\ WF_vars(Timeout(s))
          /\ WF_vars(WorkerResend(s) \/ SendLive(s))
          /\ SF_vars(Arrives(s))

-----------------------------------------------------------------------------
(* Properties.                                                             *)

\* No socket is in a queue twice, and no more packets are kept for one than the limit.
TypeOK ==
    /\ udt \in [Sock -> Socket] /\ net \subseteq Packet
    /\ queue \in [Host -> Seq(Sock)] /\ buffer \in [Sock -> Seq(Packet)]
    /\ \A h \in Host : IsInjective(queue[h]) /\ \A s \in Entries(h) : At[s] = h
    /\ \A s \in Sock : Len(buffer[s]) <= BufLimit + 1

\* A request of s has gone out that was not filled in.
Torn(s) == \E p \in net :
    p.src = s /\ p.kind = "hs" /\ p.hs.type = 0 /\ p.hs # [type |-> 0, id |-> s, isn |-> s, sty |-> TRUE]

\* The peer that POST_CONNECT records is a socket of the host that was asked
\* for, its ISN is the one that socket sends from, and when that socket is
\* connected too it is connected to this one: whatever is lost, repeated or
\* delayed, and whichever of the two ends the handshake first.  Only a request
\* that was sent half filled in can be taken for another.
Agreement ==
    \A s \in Sock : Up(s) =>
       LET p == udt[s].res.id IN
       \/ \E t \in Sock : At[t] = To[s] /\ To[t] = At[s] /\ Torn(t)
       \/ /\ p # None /\ At[p] = To[s] /\ udt[s].res.isn = p
          /\ Up(p) => udt[p].res.id = s \/ Torn(s)

\* The other end of a new connection can still complete its own: while it waits
\* it already has the handshake of this end, so that its requests come here.
PeerKnows ==
    \A s \in Sock : Up(s) =>
       LET p == udt[s].res.id IN
       p # None /\ udt[p].pc = "wait" => udt[p].res.id = s \/ Torn(s)

\* connect() takes the -1 of connect(response) for success: without a connection
\* it succeeds only when its time is over or when the peer is gone again.
NoFalseSuccess ==
    \A s \in Sock : udt[s].ret = "ok" /\ ~udt[s].connected =>
       udt[s].late \/ \E p \in Sock : At[p] = To[s] /\ (udt[p].closed \/ Torn(p))

\* The worker has no entry of a socket that is deleted (CUDTUnited::close: a
\* socket is kept for a while "in order to prevent other methods from accessing
\* invalid address").
NoStaleConnector == \A h \in Host : \A s \in Entries(h) : ~udt[s].freed

\* Two sockets that call each other are connected, unless the time of one is
\* over or it is closed.
BothConnect ==
    \A s, t \in Sock : At[s] = To[t] /\ At[t] = To[s] =>
       (Waits(s) /\ Waits(t)) ~>
          \/ udt[s].connected /\ udt[t].connected
          \/ \E u \in {s, t} : udt[u].late \/ udt[u].closed \/ Torn(u)

\* The two ends of a connection agree: on who they are and on their ISNs, while
\* only one of them has it so far too, and connect() reports no success that is
\* none (CUDT::connect of both kinds, POST_CONNECT).
EndsAgree == TypeOK /\ PeerKnows /\ Agreement /\ NoFalseSuccess

\* The parts of the inductive invariant.  The socket at the other end.
Mate(s, t) == At[t] = To[s] /\ To[t] = At[s]

\* What a packet that is under way says of its sender.
NetInv ==
    \A p \in net :
       /\ p.kind = "hs" =>
             /\ p.hs.id \in {None, p.src}
             /\ Torn(p.src) \/ (p.hs.id = p.src /\ p.hs.isn = p.src /\ (p.hs.type # -2 => p.hs.sty))
             /\ p.hs.type = -1 => udt[p.src].reqType = -1
       /\ p.kind = "live" \/ p.hs.type = -2 => udt[p.src].connected
       /\ p.kind = "shutdown" => udt[p.src].closed

\* A packet is kept for the socket that its sender calls.
BufferInv ==
    \A s \in Sock : \A i \in DOMAIN buffer[s] : buffer[s][i] \in net /\ Mate(s, buffer[s][i].src)

\* The response that a socket has recorded is one that the other end has sent; a
\* connection is made when both have recorded one.
Answered(s) == \E p \in net : p.kind = "hs" /\ Mate(s, p.src) /\ p.hs = udt[s].res
SocketInv ==
    \A s \in Sock :
       /\ IF udt[s].reqType = 0 THEN udt[s].res = Blank ELSE Answered(s)
       /\ udt[s].pc \in {"new", "fill"} => udt[s].reqType = 0
       /\ udt[s].pc = "new" => s \notin Entries(At[s])
       /\ udt[s].pc = "wait" => udt[s].res.type # -2 /\ (udt[s].connecting \/ udt[s].late)
       /\ udt[s].connected => udt[s].pc = "done"
       /\ udt[s].pc = "post" \/ udt[s].connected =>
             udt[s].reqType = -1 /\ \A t \in Sock : Mate(s, t) => udt[t].reqType = -1
=============================================================================
