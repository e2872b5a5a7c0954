----------------------------- MODULE UdtRcvQueue -----------------------------
(***************************************************************************)
(* The receiving worker of a multiplexer and what it knows the connected   *)
(* sockets by (CRcvQueue::worker, CRcvUList and CHash, udt-sys/udt/        *)
(* queue.cpp): m_vNewEntry, to which a connection adds its socket, the     *)
(* list in the order of its time stamps, and the table of the ids.  The    *)
(* application closes sockets and the collector deletes them when the      *)
(* worker has let go of them (m_bOnList).                                  *)
(*                                                                         *)
(* Connection requests and packets for sockets that are still connecting   *)
(* are in UdtSockets and UdtRendezvous, the units in UdtUnitQueue.  The    *)
(* ids are the sockets: two live sockets have not the same.                *)
(***************************************************************************)
EXTENDS Integers, Sequences, SequencesExt

CONSTANTS Socket, None,
          Stale          \* bound: the age, in ticks, at which timers are due (100 ms)

VARIABLES
    life,        \* of a socket: idle, up (connected, not broken, not closing), down, deleted
    onList,      \* m_bOnList
    registering, \* sockets between m_bOnList = true and setNewEntry
    newEntry,    \* m_vNewEntry
    ulist,       \* m_pUList: the sockets in order
    age,         \* the time since m_llTimeStamp
    hash,        \* m_pHash
    receiver     \* where the worker is, its u, and the sockets older than its ctime

vars == <<life, onList, registering, newEntry, ulist, age, hash, receiver>>

Loop == [pc |-> "entries", u |-> None, due |-> {}]

Init ==
    /\ life = [u \in Socket |-> "idle"]
    /\ onList = [u \in Socket |-> FALSE]
    /\ registering = {} /\ newEntry = <<>> /\ ulist = <<>> /\ hash = {}
    /\ age = [u \in Socket |-> 0]
    /\ receiver = Loop

-----------------------------------------------------------------------------
(* CRcvUList.                                                              *)

\* insert: at the end, with the time of now.
insert(u) == ulist' = Append(ulist, u) /\ age' = [age EXCEPT ![u] = 0]

\* update: to the end, if it is on the list.
update(u) ==
    IF onList[u] THEN /\ ulist' = Append(RemoveFirst(ulist, u), u)
                      /\ age' = [age EXCEPT ![u] = 0]
    ELSE UNCHANGED <<ulist, age>>

remove(u) == ulist' = IF onList[u] THEN RemoveFirst(ulist, u) ELSE ulist

\* CHash: a chain of (id, socket) for every bucket, of which an id is in one.
lookup(u) == u \in hash
HashInsert(u) == hash' = hash \cup {u}
HashRemove(u) == hash' = hash \ {u}

-----------------------------------------------------------------------------
(* The threads that connect, close and collect.                            *)

\* CUDT::connect of either side: "register this socket for receiving data
\* packets", first m_bOnList ...
Connect(u) ==
    /\ life[u] = "idle"
    /\ life' = [life EXCEPT ![u] = "up"]
    /\ onList' = [onList EXCEPT ![u] = TRUE]
    /\ registering' = registering \cup {u}
    /\ UNCHANGED <<newEntry, ulist, age, hash, receiver>>

\* ... then the new entry, under m_IDLock.
setNewEntry(u) ==
    /\ u \in registering
    /\ registering' = registering \ {u}
    /\ newEntry' = Append(newEntry, u)
    /\ UNCHANGED <<life, onList, ulist, age, hash, receiver>>

\* CUDT::close sets m_bClosing; a shutdown of the peer, m_bBroken.
Down(u) ==
    /\ life[u] = "up"
    /\ life' = [life EXCEPT ![u] = "down"]
    /\ UNCHANGED <<onList, registering, newEntry, ulist, age, hash, receiver>>

\* checkBrokenSockets and removeSocket.
Delete(u) ==
    /\ life[u] = "down" /\ ~onList[u]
    /\ life' = [life EXCEPT ![u] = "deleted"]
    /\ UNCHANGED <<onList, registering, newEntry, ulist, age, hash, receiver>>

-----------------------------------------------------------------------------
(* The worker.                                                             *)

ifNewEntry == newEntry # <<>>
getNewEntry == newEntry' = Tail(newEntry)

\* The new entries, until there is none.
NewEntries ==
    /\ receiver.pc = "entries"
    /\ IF ~ifNewEntry
       THEN receiver' = [receiver EXCEPT !.pc = "receive"] /\ UNCHANGED <<newEntry, ulist, age, hash>>
       ELSE /\ getNewEntry
            /\ insert(Head(newEntry))
            /\ HashInsert(Head(newEntry))
            /\ UNCHANGED receiver
    /\ UNCHANGED <<life, onList, registering>>

\* Nothing is received in the time of recvfrom, or a packet that is nobody's.
Nothing ==
    /\ receiver.pc = "receive"
    /\ receiver' = [receiver EXCEPT !.pc = "clock"]
    /\ UNCHANGED <<life, onList, registering, newEntry, ulist, age, hash>>

\* A packet for a socket that is in the table and up ...
Receive(u) ==
    /\ receiver.pc = "receive" /\ lookup(u) /\ life[u] = "up"
    /\ receiver' = [receiver EXCEPT !.pc = "process", !.u = u]
    /\ UNCHANGED <<life, onList, registering, newEntry, ulist, age, hash>>

\* checkTimers may find that the peer does not answer, and set m_bBroken.
checkTimers(u) == \/ UNCHANGED life
                  \/ life[u] = "up" /\ life' = [life EXCEPT ![u] = "down"]

\* ... is processed with it, whatever the application has done since; then its
\* timers are looked at and it is the newest of the list.
Process ==
    /\ receiver.pc = "process"
    /\ checkTimers(receiver.u)
    /\ update(receiver.u)
    /\ receiver' = [receiver EXCEPT !.pc = "clock", !.u = None]
    /\ UNCHANGED <<onList, registering, newEntry, hash>>

\* TIMER_CHECK: the time is read once.
ReadClock ==
    /\ receiver.pc = "clock"
    /\ receiver' = [receiver EXCEPT !.pc = "timers", !.due = {u \in ToSet(ulist) : age[u] >= Stale}]
    /\ UNCHANGED <<life, onList, registering, newEntry, ulist, age, hash>>

Due == ulist # <<>> /\ Head(ulist) \in receiver.due
Done(u) == receiver.due \ {u}

\* The oldest of the list, if it is due: its timers ...
TimerCheck ==
    /\ receiver.pc = "timers" /\ Due /\ life[Head(ulist)] = "up"
    /\ checkTimers(Head(ulist))
    /\ update(Head(ulist))
    /\ receiver' = [receiver EXCEPT !.due = Done(Head(ulist))]
    /\ UNCHANGED <<onList, registering, newEntry, hash>>

\* Mutant: m_bOnList is cleared before the socket is off the list.
Unlink_OffFirst ==
    /\ receiver.pc = "timers" /\ Due /\ life[Head(ulist)] # "up"
    /\ HashRemove(Head(ulist))
    /\ onList' = [onList EXCEPT ![Head(ulist)] = FALSE]
    /\ receiver' = [pc |-> "off", u |-> Head(ulist), due |-> Done(Head(ulist))]
    /\ UNCHANGED <<life, registering, newEntry, ulist, age>>

\* ... or, when it is down, "removed from Hash table first, then RcvUList" ...
Unlink ==
    /\ receiver.pc = "timers" /\ Due /\ life[Head(ulist)] # "up"
    /\ HashRemove(Head(ulist))
    /\ remove(Head(ulist))
    /\ receiver' = [pc |-> "off", u |-> Head(ulist), due |-> Done(Head(ulist))]
    /\ UNCHANGED <<life, onList, registering, newEntry, age>>

\* ... and let go.
OffList ==
    /\ receiver.pc = "off"
    /\ onList' = [onList EXCEPT ![receiver.u] = FALSE]
    /\ receiver' = [receiver EXCEPT !.pc = "timers", !.u = None]
    /\ UNCHANGED <<life, registering, newEntry, ulist, age, hash>>

\* The oldest is not due: the next turn of the loop.
EndTimers ==
    /\ receiver.pc = "timers" /\ ~Due
    /\ receiver' = Loop
    /\ UNCHANGED <<life, onList, registering, newEntry, ulist, age, hash>>

\* Time passes, for the sockets on the list.
Tick ==
    /\ \E u \in ToSet(ulist) : age[u] < Stale
    /\ age' = [u \in Socket |-> IF u \in ToSet(ulist) /\ age[u] < Stale THEN age[u] + 1 ELSE age[u]]
    /\ UNCHANGED <<life, onList, registering, newEntry, ulist, hash, receiver>>

-----------------------------------------------------------------------------
Worker == \/ NewEntries \/ Nothing \/ Process \/ ReadClock \/ TimerCheck \/ Unlink \/ OffList \/ EndTimers
          \/ \E u \in Socket : Receive(u)

Next == Worker \/ Tick \/ \E u \in Socket : Connect(u) \/ setNewEntry(u) \/ Down(u) \/ Delete(u)
Spec == Init /\ [][Next]_vars

\* The worker runs: recvfrom returns after 10 ms at the latest, so time passes in
\* every turn.  A connection that has begun to register ends, and the collector
\* comes; nobody has to connect, close or send.
Fairness ==
    /\ WF_vars(NewEntries) /\ WF_vars(receiver.pc = "receive" /\ Worker) /\ WF_vars(Process)
    /\ WF_vars(ReadClock) /\ WF_vars(TimerCheck) /\ WF_vars(Unlink) /\ WF_vars(OffList) /\ WF_vars(EndTimers)
    /\ WF_vars(Tick)
    /\ \A u \in Socket : WF_vars(setNewEntry(u)) /\ WF_vars(Delete(u))

-----------------------------------------------------------------------------
(* Properties.                                                             *)

TypeOK ==
    /\ life \in [Socket -> {"idle", "up", "down", "deleted"}]
    /\ onList \in [Socket -> BOOLEAN] /\ age \in [Socket -> 0..Stale]
    /\ registering \subseteq Socket /\ hash \subseteq Socket
    /\ newEntry \in Seq(Socket) /\ ulist \in Seq(Socket)
    /\ receiver.pc \in {"entries", "receive", "process", "clock", "timers", "off"}
    /\ receiver.u \in Socket \cup {None} /\ receiver.due \subseteq Socket

\* Where the worker, or a thread that registers, still has a pointer to u.
Known(u) == \/ u \in registering \cup hash \cup ToSet(ulist) \cup ToSet(newEntry)
            \/ receiver.u = u

\* The worker never has a pointer to a socket that the collector has deleted:
\* m_bOnList is set as long as it is registered, listed, in the table or in use
\* (core.cpp connect, worker, checkBrokenSockets: "AND it has been removed from
\* RcvUList").
KnownAlive == \A u \in Socket : Known(u) => onList[u] /\ life[u] # "deleted"

\* The list and the table hold the same sockets, each once, and the list is in
\* the order of the time stamps, so that the timer loop may stop at the first
\* that is not due (worker, insert, update, remove).
ListSorted ==
    /\ hash = ToSet(ulist) /\ IsInjective(ulist)
    /\ \A i, j \in DOMAIN ulist : i < j => age[ulist[i]] >= age[ulist[j]]

\* The worker's list is sound: sorted, and without a deleted socket.
RcvListSound == TypeOK /\ KnownAlive /\ ListSorted

\* The timers of a socket are looked at although packets keep coming for others,
\* and a socket that is down is let go and deleted (TIMER_CHECK).
TimersRun == \A u \in Socket : /\ age[u] >= Stale ~> age[u] < Stale \/ ~onList[u]
                               /\ life[u] = "down" ~> life[u] = "deleted"
=============================================================================
