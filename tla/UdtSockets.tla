------------------------------ MODULE UdtSockets ------------------------------
(***************************************************************************)
(* The socket tables of CUDTUnited (udt-sys/udt/api.cpp): an application   *)
(* that opens, binds, listens, accepts and closes sockets on one port, the *)
(* receiving worker of that port's multiplexer, which turns connection     *)
(* requests into sockets (CUDT::listen, newConnection), and the collector  *)
(* (garbageCollect, checkBrokenSockets, removeSocket).                     *)
(*                                                                         *)
(* m_ControlLock guards the tables.  Only the collector keeps it over a    *)
(* step of another thread: while it joins the worker of a multiplexer that *)
(* it deletes.  Allocation does not fail.                                  *)
(***************************************************************************)
EXTENDS Integers, FiniteSets, FiniteSetsExt

CONSTANTS Local,          \* ids of the sockets that the application makes
          MaxConn,        \* bound: connections; their ids count down, as m_SocketID does
          Peer,           \* connection requests, each (address, id, ISN) of a peer
          Backlog,        \* the argument of listen
          MaxPatience     \* bound: m_iBrokenCounter, passes that wait for data to be read

Conn == 1..MaxConn
Id == Local \cup Conn
None == 0

ASSUME SocketsAssumption ==
    /\ MaxConn \in Nat /\ Backlog \in Nat \ {0} /\ MaxPatience \in Nat
    /\ Local \subseteq Nat \ (Conn \cup {None}) /\ IsFiniteSet(Local)
    /\ None \notin Peer

VARIABLES
    sock,            \* the sockets
    queued,          \* m_pQueuedSockets
    held,            \* sockets that the application owns, and is closing
    peerRec,         \* m_PeerRec
    listener,        \* m_pListener of the receiving queue
    mux,             \* the multiplexer of the port
    worker,          \* where its receiving worker is
    gc               \* where the collector is

vars == <<sock, queued, held, peerRec, listener, mux, worker, gc>>

\* A socket: m_Status, m_bBroken, m_bClosing, the table it is in, the timer of
\* the collector (m_TimeStamp, m_bIsExpiring), m_bOnList, m_ListenSocket, the
\* peer's request, m_iMuxID and m_iBrokenCounter.
NoSocket == [status |-> "INIT", broken |-> FALSE, closing |-> FALSE, where |-> "none",
             timer |-> "no", onList |-> FALSE, from |-> None, peer |-> None,
             mux |-> FALSE, patience |-> 0]

Idle == [pc |-> "loop", ls |-> None, req |-> None, ns |-> None]

Init ==
    /\ sock = [u \in Id |-> NoSocket]
    /\ queued = [u \in Local |-> {}]
    /\ held = [u \in Id |-> "no"]
    /\ peerRec = [p \in Peer |-> {}]
    /\ listener = None
    /\ mux = [alive |-> FALSE, closing |-> FALSE, refs |-> 0]
    /\ worker = [Idle EXCEPT !.pc = "exit"]
    /\ gc = "off"

In(table) == {u \in Id : sock[u].where = table}      \* m_Sockets, m_ClosedSockets
Free == gc \notin {"join", "joinEnd"}                \* m_ControlLock can be taken
locate(u) == sock[u].where = "open" /\ sock[u].status # "CLOSED"

-----------------------------------------------------------------------------
(* The application.                                                        *)

\* Instance::default and CUDTUnited::newSocket; cleanup keeps m_InitLock.
newSocket(u) ==
    /\ Free /\ gc \in {"off", "run"} /\ sock[u].where = "none"
    /\ sock' = [sock EXCEPT ![u].where = "open"]
    /\ held' = [held EXCEPT ![u] = "app"]
    /\ gc' = "run"
    /\ UNCHANGED <<queued, peerRec, listener, mux, worker>>

\* updateMux with an address: the multiplexer of the port is used by one socket
\* more, or made with its queues and their workers.
JoinMux ==
    IF mux.alive THEN mux' = [mux EXCEPT !.refs = @ + 1] /\ UNCHANGED worker
    ELSE mux' = [alive |-> TRUE, closing |-> FALSE, refs |-> 1] /\ worker' = Idle

\* bind and updateMux: all sockets are bound to the one port.
bind(u) ==
    /\ Free /\ held[u] = "app" /\ sock[u].status = "INIT"
    /\ sock' = [sock EXCEPT ![u].status = "OPENED", ![u].mux = TRUE]
    /\ JoinMux
    /\ UNCHANGED <<queued, held, peerRec, listener, gc>>

\* listen, CUDT::listen() and setListener: one listener on a port.
listen(u) ==
    /\ Free /\ held[u] = "app" /\ sock[u].status = "OPENED" /\ listener = None
    /\ queued' = [queued EXCEPT ![u] = {}]
    /\ listener' = u
    /\ sock' = [sock EXCEPT ![u].status = "LISTENING"]
    /\ UNCHANGED <<held, peerRec, mux, worker, gc>>

\* accept: the first of the set, which is the newest.
accept(u) ==
    /\ Free /\ held[u] = "app" /\ sock[u].status = "LISTENING" /\ locate(u)
    /\ queued[u] # {}
    /\ LET c == Min(queued[u]) IN
       /\ queued' = [queued EXCEPT ![u] = @ \ {c}]
       /\ held' = [held EXCEPT ![c] = "app"]
    /\ UNCHANGED <<sock, peerRec, listener, mux, worker, gc>>

\* close: a listener is only marked; of another the CUDT is closed ...
close(u) ==
    /\ Free /\ held[u] = "app"
    /\ IF sock[u].status = "LISTENING"
       THEN /\ sock' = [sock EXCEPT ![u].broken = TRUE, ![u].timer = "running"]
            /\ held' = [held EXCEPT ![u] = "no"]
       ELSE /\ sock' = [sock EXCEPT ![u].closing = locate(u) \/ @]
            /\ held' = [held EXCEPT ![u] = IF locate(u) THEN "closing" ELSE "no"]
    /\ UNCHANGED <<queued, peerRec, listener, mux, worker, gc>>

\* ... and it is moved to the closed sockets, unless the collector was first.
closeMove(u) ==
    /\ Free /\ held[u] = "closing"
    /\ sock' = IF locate(u) THEN [sock EXCEPT ![u].status = "CLOSED", ![u].where = "closed"] ELSE sock
    /\ held' = [held EXCEPT ![u] = "no"]
    /\ UNCHANGED <<queued, peerRec, listener, mux, worker, gc>>

\* The last Instance is dropped: m_GCStopCond is set.
cleanup ==
    /\ gc = "run" /\ \A u \in Id : held[u] = "no"
    /\ gc' = "stop"
    /\ UNCHANGED <<sock, queued, held, peerRec, listener, mux, worker>>

-----------------------------------------------------------------------------
(* The receiving worker.                                                   *)

Looping == worker.pc = "loop" /\ ~mux.closing
Goto(pc) == worker' = [worker EXCEPT !.pc = pc]

\* The peer shuts down, or does not answer: m_bBroken.
Break(c) ==
    /\ Looping /\ sock[c].onList /\ ~sock[c].broken /\ ~sock[c].closing
    /\ \E n \in 0..MaxPatience : sock' = [sock EXCEPT ![c].broken = TRUE, ![c].patience = n]
    /\ UNCHANGED <<queued, held, peerRec, listener, mux, worker, gc>>

\* Mutant: m_bClosing is not looked at.
Unlist_BrokenOnly(c) ==
    /\ Looping /\ sock[c].onList /\ sock[c].broken
    /\ sock' = [sock EXCEPT ![c].onList = FALSE]
    /\ UNCHANGED <<queued, held, peerRec, listener, mux, worker, gc>>

\* A socket that is broken or closing leaves the list.
Unlist(c) ==
    /\ Looping /\ sock[c].onList /\ (sock[c].broken \/ sock[c].closing)
    /\ sock' = [sock EXCEPT ![c].onList = FALSE]
    /\ UNCHANGED <<queued, held, peerRec, listener, mux, worker, gc>>

\* A request with a good cookie: CUDT::listen looks at m_bClosing.
Request(p) ==
    /\ Looping /\ listener # None /\ ~sock[listener].closing
    /\ Conn \cap In("none") # {}        \* bound
    /\ worker' = [Idle EXCEPT !.pc = "locate", !.ls = listener, !.req = p]
    /\ UNCHANGED <<sock, queued, held, peerRec, listener, mux, gc>>

\* newConnection: the listener ...
LocateListener ==
    /\ worker.pc = "locate" /\ Free
    /\ Goto(IF locate(worker.ls) THEN "peer" ELSE "reply")
    /\ UNCHANGED <<sock, queued, held, peerRec, listener, mux, gc>>

\* ... and the socket of an earlier copy of the request.
LocatePeer ==
    /\ worker.pc = "peer" /\ Free
    /\ LET known == peerRec[worker.req] \cap In("open") IN
       worker' = IF known = {} THEN [worker EXCEPT !.pc = "new"]
                 ELSE [worker EXCEPT !.pc = "known", !.ns = Min(known)]
    /\ UNCHANGED <<sock, queued, held, peerRec, listener, mux, gc>>

Known ==
    /\ worker.pc = "known"
    /\ IF sock[worker.ns].broken
       THEN /\ sock' = [sock EXCEPT ![worker.ns].status = "CLOSED"]
            /\ queued' = [queued EXCEPT ![worker.ls] = @ \ {worker.ns}]
            /\ worker' = [worker EXCEPT !.pc = "new", !.ns = None]
       ELSE worker' = [worker EXCEPT !.pc = "reply", !.ns = None] /\ UNCHANGED <<sock, queued>>
    /\ UNCHANGED <<held, peerRec, listener, mux, gc>>

NewConnection ==
    /\ worker.pc = "new"
    /\ IF Cardinality(queued[worker.ls]) >= Backlog THEN Goto("reply") /\ UNCHANGED sock
       ELSE LET fresh == Conn \cap In("none") IN
            /\ sock' = [sock EXCEPT ![Max(fresh)] =
                          [NoSocket EXCEPT !.where = "new", !.from = worker.ls, !.peer = worker.req]]
            /\ worker' = [worker EXCEPT !.pc = "mux", !.ns = Max(fresh)]
    /\ UNCHANGED <<queued, held, peerRec, listener, mux, gc>>

\* Mutant: the reference is not counted.
UpdateMux_NoCount ==
    /\ worker.pc = "mux" /\ Free
    /\ sock' = [sock EXCEPT ![worker.ns].mux = TRUE, ![worker.ns].onList = TRUE,
                            ![worker.ns].status = "CONNECTED"]
    /\ Goto("register")
    /\ UNCHANGED <<queued, held, peerRec, listener, mux, gc>>

\* updateMux with the listener's port, and CUDT::connect.
UpdateMux ==
    /\ worker.pc = "mux" /\ Free
    /\ mux' = [mux EXCEPT !.refs = @ + 1]
    /\ sock' = [sock EXCEPT ![worker.ns].mux = TRUE, ![worker.ns].onList = TRUE,
                            ![worker.ns].status = "CONNECTED"]
    /\ Goto("register")
    /\ UNCHANGED <<queued, held, peerRec, listener, gc>>

Register ==
    /\ worker.pc = "register" /\ Free
    /\ sock' = [sock EXCEPT ![worker.ns].where = "open"]
    /\ peerRec' = [peerRec EXCEPT ![worker.req] = @ \cup {worker.ns}]
    /\ Goto("queue")
    /\ UNCHANGED <<queued, held, listener, mux, gc>>

\* m_AcceptLock: the socket waits for accept.
Queue ==
    /\ worker.pc = "queue"
    /\ queued' = [queued EXCEPT ![worker.ls] = @ \cup {worker.ns}]
    /\ worker' = [worker EXCEPT !.pc = "reply", !.ns = None]
    /\ UNCHANGED <<sock, held, peerRec, listener, mux, gc>>

\* CUDT::listen goes on with the queue and the id of the listener.
Reply ==
    /\ worker.pc = "reply"
    /\ worker' = Idle
    /\ UNCHANGED <<sock, queued, held, peerRec, listener, mux, gc>>

Exit ==
    /\ worker.pc = "loop" /\ mux.closing
    /\ Goto("exit")
    /\ UNCHANGED <<sock, queued, held, peerRec, listener, mux, gc>>

-----------------------------------------------------------------------------
(* The collector.                                                          *)

\* A timer of one or three seconds runs out.
Elapse(u) ==
    /\ sock[u].timer = "running"
    /\ sock' = [sock EXCEPT ![u].timer = "over"]
    /\ UNCHANGED <<queued, held, peerRec, listener, mux, worker, gc>>

\* Broken sockets that still have time: a listener for three seconds, another
\* as long as there is data to read, but not for ever.
Waiting == {u \in In("open") : /\ sock[u].broken
                               /\ IF sock[u].status = "LISTENING" THEN sock[u].timer = "running"
                                  ELSE sock[u].patience > 0}
Broken == {u \in In("open") : sock[u].broken} \ Waiting

\* Mutant: m_bOnList is not looked at.
Expired_OnList == {u \in In("closed") : sock[u].timer = "over"}

\* A second has passed since an earlier pass, and the worker has let go of it.
Expired == {u \in In("closed") : sock[u].timer = "over" /\ ~sock[u].onList}

\* The first loop takes a broken socket off its listener's queue, if the
\* listener is still in a table.
Unqueued(l) ==
    IF sock[l].where \in {"open", "closed"} THEN {c \in queued[l] : ~(c \in Broken /\ sock[c].from = l)}
    ELSE queued[l]

\* removeSocket closes what waits for accept on a listener that it removes.
Unaccepted == In("open") \cap UNION {Unqueued(l) : l \in Expired \cap Local}

\* The sockets after a pass of checkBrokenSockets.
Swept(u) ==
    LET s == sock[u] IN
    CASE u \in Expired -> [NoSocket EXCEPT !.where = "freed", !.closing = TRUE, !.onList = s.onList]
      [] u \in Unaccepted -> [s EXCEPT !.where = "closed", !.status = "CLOSED", !.broken = TRUE,
                                       !.closing = TRUE, !.timer = "no"]
      [] u \in Broken \ Unaccepted -> [s EXCEPT !.where = "closed", !.status = "CLOSED", !.timer = "running"]
      [] u \in Waiting \ Unaccepted -> [s EXCEPT !.patience = IF @ > 0 THEN @ - 1 ELSE 0]
      [] u \in In("closed") \ Expired /\ s.timer = "no" -> [s EXCEPT !.timer = "running"]
      [] OTHER -> s

\* checkBrokenSockets, under m_ControlLock to the end; the multiplexer that has
\* no socket any more is deleted with it still held.
Pass(next) ==
    LET gone == Cardinality({u \in Expired : sock[u].mux})
        last == mux.alive /\ gone > 0 /\ mux.refs = gone IN
    /\ sock' = [u \in Id |-> Swept(u)]
    /\ queued' = [l \in Local |-> IF l \in Expired THEN {} ELSE Unqueued(l)]
    /\ peerRec' = [p \in Peer |-> peerRec[p] \ Expired]
    /\ listener' = IF listener \in Expired THEN None ELSE listener
    /\ mux' = [mux EXCEPT !.refs = @ - gone, !.closing = last]
    /\ gc' = IF last THEN (IF next = "run" THEN "join" ELSE "joinEnd") ELSE next
    /\ UNCHANGED <<held, worker>>

GcPass ==
    /\ gc \in {"run", "drain"}
    /\ In("open") \cup In("closed") # {}
    /\ Pass(gc)

\* ~CRcvQueue: the worker is joined; then the multiplexer is erased.
GcJoin ==
    /\ gc \in {"join", "joinEnd"} /\ worker.pc = "exit"
    /\ mux' = [mux EXCEPT !.alive = FALSE, !.closing = FALSE]
    /\ gc' = IF gc = "join" THEN "run" ELSE "drain"
    /\ UNCHANGED <<sock, queued, held, peerRec, listener, worker>>

\* The end of garbageCollect: every socket is closed, every timer set to 0.
GcStop ==
    /\ gc = "stop"
    /\ sock' = [u \in Id |->
          CASE u \in In("open") -> [sock[u] EXCEPT !.broken = TRUE, !.closing = TRUE, !.status = "CLOSED",
                                                   !.where = "closed", !.timer = "no"]
            [] u \in In("closed") /\ sock[u].timer # "no" -> [sock[u] EXCEPT !.timer = "over"]
            [] OTHER -> sock[u]]
    /\ queued' = [l \in Local |-> {c \in queued[l] : ~(c \in In("open") /\ sock[c].from = l)}]
    /\ listener' = IF listener \in In("open") THEN None ELSE listener
    /\ gc' = "drain"
    /\ UNCHANGED <<held, peerRec, mux, worker>>

GcEnd ==
    /\ gc = "drain" /\ In("closed") = {}
    /\ gc' = "off"
    /\ UNCHANGED <<sock, queued, held, peerRec, listener, mux, worker>>

-----------------------------------------------------------------------------
App == \/ \E u \in Local : newSocket(u) \/ bind(u) \/ listen(u) \/ accept(u)
       \/ \E u \in Id : close(u) \/ closeMove(u)
       \/ cleanup

Worker == \/ \E c \in Conn : Break(c) \/ Unlist(c)
          \/ \E p \in Peer : Request(p)
          \/ LocateListener \/ LocatePeer \/ Known \/ NewConnection \/ UpdateMux \/ Register
          \/ Queue \/ Reply \/ Exit

Gc == GcPass \/ GcJoin \/ GcStop \/ GcEnd

Next == App \/ Worker \/ Gc \/ \E u \in Id : Elapse(u)
Spec == Init /\ [][Next]_vars

\* The worker and the collector run, timers run out, and a close that has begun
\* ends; nobody has to open, accept, close or connect.
FairSpec ==
    /\ Spec
    /\ WF_vars(LocateListener) /\ WF_vars(LocatePeer) /\ WF_vars(Known) /\ WF_vars(NewConnection)
    /\ WF_vars(UpdateMux) /\ WF_vars(Register) /\ WF_vars(Queue) /\ WF_vars(Reply) /\ WF_vars(Exit)
    /\ WF_vars(Gc) /\ WF_vars(GcEnd)
    /\ \A u \in Id : WF_vars(Elapse(u)) /\ WF_vars(closeMove(u))
    /\ \A c \in Conn : SF_vars(Unlist(c))

-----------------------------------------------------------------------------
(* Properties.                                                             *)

Socket == [status : {"INIT", "OPENED", "LISTENING", "CONNECTED", "CLOSED"},
           broken : BOOLEAN, closing : BOOLEAN,
           where : {"none", "new", "open", "closed", "freed"},
           timer : {"no", "running", "over"}, onList : BOOLEAN,
           from : Local \cup {None}, peer : Peer \cup {None},
           mux : BOOLEAN, patience : 0..MaxPatience]

WorkerState ==
    [pc : {"loop", "locate", "peer", "known", "new", "mux", "register", "queue", "reply", "exit"},
     ls : Local \cup {None}, req : Peer \cup {None}, ns : Conn \cup {None}]

\* Every variable has its type; no more wait for accept than the backlog.
TypeOK ==
    /\ sock \in [Id -> Socket]
    /\ queued \in [Local -> SUBSET Conn] /\ \A l \in Local : Cardinality(queued[l]) <= Backlog
    /\ held \in [Id -> {"no", "app", "closing"}]
    /\ peerRec \in [Peer -> SUBSET Conn] /\ listener \in Local \cup {None}
    /\ mux \in [alive : BOOLEAN, closing : BOOLEAN, refs : Nat]
    /\ worker \in WorkerState
    /\ gc \in {"off", "run", "join", "stop", "drain", "joinEnd"}

\* m_iRefCount is the number of sockets that use the multiplexer, so that it
\* is deleted with the last of them and not before (updateMux, removeSocket).
RefsExact == mux.alive => mux.refs = Cardinality({u \in Id : sock[u].mux /\ sock[u].where # "freed"})

\* The worker keeps no pointer to a freed socket between two packets, neither on
\* its list (checkBrokenSockets: "AND it has been removed from RcvUList") nor as
\* its listener, which CUDT::close takes back (removeListener).
NoDangling ==
    /\ \A u \in Id : sock[u].onList => sock[u].where # "freed"
    /\ listener # None => sock[listener].where # "freed"

\* Copies of one connection request make one connection, as long as it stands
\* (newConnection: "this is a repeated connection request").
OnePerRequest ==
    \A p \in Peer : Cardinality({c \in Conn \cap In("open") : sock[c].peer = p /\ ~sock[c].broken
                                                              /\ ~sock[c].closing}) <= 1

\* The sockets that wait for accept are in m_Sockets, where removeSocket takes
\* them from without a look, until cleanup empties the table.
UnacceptedOpen ==
    gc \in {"run", "join"} =>
        \A l \in Local : sock[l].where \in {"open", "closed"} => queued[l] \subseteq In("open")

\* The collector joins the worker with m_ControlLock held, and the worker is in
\* newConnection and waits for it.
JoinsInVain == ~Free /\ worker.pc \in {"locate", "peer", "mux", "register"}

\* A socket that is closed is removed and freed, and only the collector's join
\* can keep it from that (checkBrokenSockets, removeSocket).
ClosedIsFreed == \A u \in Id : sock[u].where = "closed" ~> sock[u].where = "freed" \/ JoinsInVain

\* cleanup returns, unless the collector joins in vain (garbageCollect).
CleanupEnds == gc = "stop" ~> gc = "off" \/ JoinsInVain

\* The tables of CUDTUnited agree: the multiplexer counts the sockets that use
\* it, what waits for accept is an open socket, and a request that was repeated
\* has made one connection.
TablesAgree == TypeOK /\ RefsExact /\ UnacceptedOpen /\ OnePerRequest

\* The collector goes on until everything is freed (garbageCollect).
CollectorGoesOn == ClosedIsFreed /\ CleanupEnds

-----------------------------------------------------------------------------
(* What TablesAgree and NoDangling rest on.                                *)

Dead(u) == sock[u].broken \/ sock[u].closing

\* The application owns what it has opened or accepted; once it has given up
\* everything, the collector leaves no socket of its own behind.
AppInv ==
    /\ \A u \in Id : sock[u].where = "none" => held[u] = "no" /\ ~sock[u].broken /\ ~sock[u].onList
    /\ \A u \in Local : held[u] # "no" => sock[u].where = "open" /\ ~sock[u].broken
    /\ gc \notin {"run", "join"} => \A u \in Id : held[u] = "no"
    /\ gc \in {"drain", "joinEnd", "off"} => Local \cap In("open") = {}
    /\ gc = "off" => In("closed") = {}
    /\ listener # None => sock[listener].where \in {"open", "closed"}

\* Who uses the multiplexer is bound; it is deleted when nobody does, and the
\* worker ends before it.
MuxInv ==
    /\ \A u \in Id : sock[u].mux => sock[u].status # "INIT" /\ sock[u].where \in {"new", "open", "closed"}
    /\ ~mux.alive => \A u \in Id : ~sock[u].mux
    /\ mux.closing <=> ~Free
    /\ mux.closing => mux.alive /\ mux.refs = 0
    /\ worker.pc # "exit" => mux.alive

\* What waits on a listener is its own, and nobody else's.
QueueInv ==
    /\ \A l \in Local : \A c \in queued[l] : sock[c].where # "none"
    /\ \A l \in Local : sock[l].where = "none" => queued[l] = {}
    /\ gc \in {"run", "join", "stop"} =>
          \A l \in Local : sock[l].where \in {"open", "closed"} =>
             \A c \in queued[l] : sock[c].where = "open" /\ sock[c].from = l /\ held[c] = "no"

\* The connections of a request are found, and all but the newest are dead; ids
\* count down.
PeerInv ==
    /\ \A c \in Conn : sock[c].where = "open" => sock[c].peer \in Peer /\ c \in peerRec[sock[c].peer]
    /\ \A p \in Peer : \A c \in peerRec[p] : sock[c].where \in {"open", "closed"}
    /\ \A p \in Peer : \A c, d \in peerRec[p] : c < d /\ sock[d].where = "open" => Dead(d)
    /\ \A c, d \in Conn : c < d /\ sock[d].where = "none" => sock[c].where = "none"

Making == {"mux", "register", "queue"}

\* What newConnection knows of the socket that it makes, and of the listener.
WorkerInv ==
    /\ worker.pc \notin {"loop", "exit"} =>
          worker.ls \in Local /\ worker.req \in Peer /\ sock[worker.ls].where # "none"
    /\ worker.pc \in {"locate", "peer", "known", "new"} => Conn \cap In("none") # {}
    /\ worker.pc \in {"known"} \cup Making => worker.ns \in Conn
    /\ worker.pc = "known" => \A d \in peerRec[worker.req] \cap In("open") : d = worker.ns \/ Dead(d)
    /\ worker.pc \in {"new", "mux", "register"} =>
          \A d \in peerRec[worker.req] \cap In("open") : Dead(d)
    /\ worker.pc \in Making =>
          /\ sock[worker.ns].from = worker.ls /\ sock[worker.ns].peer = worker.req
          /\ held[worker.ns] = "no" /\ Cardinality(queued[worker.ls]) < Backlog
          /\ \A l \in Local : worker.ns \notin queued[l]
          /\ \A c \in Conn : c < worker.ns => sock[c].where = "none"
    /\ worker.pc \in {"mux", "register"} => sock[worker.ns].where = "new" /\ ~sock[worker.ns].broken
    /\ worker.pc = "mux" => ~sock[worker.ns].mux
    /\ worker.pc \in {"register", "queue"} => sock[worker.ns].onList
    /\ worker.pc = "queue" =>
          \/ sock[worker.ns].where = "open" /\ ~sock[worker.ns].broken
          \/ sock[worker.ns].where = "closed" /\ gc \in {"drain", "joinEnd"}
=============================================================================
