----------------------------- MODULE UdtSndQueue -----------------------------
(***************************************************************************)
(* The sending worker of a multiplexer (CSndQueue::worker) and the threads *)
(* that put sockets on its list (CSndUList, udt-sys/udt/queue.cpp; CTimer, *)
(* udt-sys/udt/udtCommon.cpp): an application that sends, the receiving    *)
(* worker that handles ACKs, NAKs and timers, and a thread that closes.    *)
(*                                                                         *)
(* Times are counted from now, and 0 stands for now and for every time in  *)
(* the past.                                                               *)
(***************************************************************************)
EXTENDS UdtSndUList, FiniteSets

CONSTANTS Socket, Thread, None,
          Interval       \* bound: the longest time between two packets

VARIABLES
    heap,        \* m_pHeap: entries [u, ts]
    dead,        \* sockets that are not connected, or broken
    list,        \* m_ListLock: the thread that keeps it over the notification
    window,      \* m_WindowLock is held by the worker
    worker,      \* where the worker is, and the time it has read
    sched,       \* m_ullSchedTime
    closing      \* m_bClosing, and the notification of the destructor

vars == <<heap, dead, list, window, worker, sched, closing>>

Init ==
    /\ heap = <<>> /\ dead = {} /\ list = None /\ window = FALSE
    /\ worker = [pc |-> "next", ts |-> 0] /\ sched = 0
    /\ closing = "no"

Places(u) == {i \in DOMAIN heap : heap[i].u = u}
OnList(u) == Places(u) # {}
Place(u) == CHOOSE i \in Places(u) : TRUE

\* m_pTimer->interrupt(), when the condition holds.
interrupt(condition) == sched' = IF condition THEN 0 ELSE sched

-----------------------------------------------------------------------------
(* The threads.  Each works under m_ListLock; the first entry is announced *)
(* under m_WindowLock, with m_ListLock still held.                         *)

\* update(u, reschedule): the time stamp 1 is long past.
update(t, u, reschedule) ==
    /\ list = None /\ closing = "no"
    /\ IF OnList(u) /\ ~reschedule THEN UNCHANGED <<heap, sched, list>>
       ELSE IF OnList(u) /\ Place(u) = 1
       THEN heap' = [heap EXCEPT ![1].ts = 0] /\ interrupt(TRUE) /\ UNCHANGED list
       ELSE LET rest == IF OnList(u) THEN remove_(heap, Place(u)) ELSE heap IN
            /\ heap' = insert_(rest, [u |-> u, ts |-> 0])
            /\ interrupt(heap'[1].u = u \/ (OnList(u) /\ Len(rest) = 1))
            /\ list' = IF Len(heap') = 1 THEN t ELSE None
    /\ UNCHANGED <<dead, window, worker, closing>>

\* The worker that waits is woken.
WakeWorker == worker' = IF worker.pc = "waiting" THEN [worker EXCEPT !.pc = "next"] ELSE worker

\* The end of insert_ for a first entry: m_WindowLock is taken, notify_one.
Notify(t) ==
    /\ list = t /\ ~window
    /\ WakeWorker
    /\ list' = None
    /\ UNCHANGED <<heap, dead, window, sched, closing>>

\* CUDT::close: the socket is removed from the list ...
remove(u) ==
    /\ list = None /\ closing = "no" /\ u \notin dead
    /\ IF OnList(u) THEN heap' = remove_(heap, Place(u)) ELSE UNCHANGED heap
    /\ interrupt(Len(heap') = 1)
    /\ UNCHANGED <<dead, list, window, worker, closing>>

\* ... and later m_bConnected is cleared, or m_bBroken set.
Die(u) ==
    /\ u \notin dead
    /\ dead' = dead \cup {u}
    /\ UNCHANGED <<heap, list, window, worker, sched, closing>>

\* ~CSndQueue: m_bClosing is set, then the worker is notified under the lock.
Destroy ==
    /\ list = None /\ dead = Socket
    /\ \/ closing = "no" /\ closing' = "set" /\ UNCHANGED worker
       \/ closing = "set" /\ ~window /\ closing' = "notified" /\ WakeWorker
    /\ UNCHANGED <<heap, dead, list, window, sched>>

-----------------------------------------------------------------------------
(* The worker.                                                             *)

Goto(pc) == worker' = [worker EXCEPT !.pc = pc]

\* The head of the loop, and getNextProcTime.
NextProcTime ==
    /\ worker.pc = "next"
    /\ IF closing # "no" THEN Goto("exit")
       ELSE /\ list = None
            /\ worker' = CASE heap = <<>> -> [pc |-> "window", ts |-> 0]
                           [] heap # <<>> /\ heap[1].ts > 0 -> [pc |-> "sleepto", ts |-> heap[1].ts]
                           [] heap # <<>> /\ heap[1].ts = 0 -> [pc |-> "pop", ts |-> 0]
    /\ UNCHANGED <<heap, dead, list, window, sched, closing>>

\* sleepto: m_ullSchedTime is overwritten, whoever has set it.
SleepTo ==
    /\ worker.pc = "sleepto"
    /\ sched' = worker.ts
    /\ worker' = [pc |-> "sleeping", ts |-> 0]
    /\ UNCHANGED <<heap, dead, list, window, closing>>

Awake ==
    /\ worker.pc = "sleeping" /\ sched = 0
    /\ Goto("pop")
    /\ UNCHANGED <<heap, dead, list, window, sched, closing>>

\* pop and packData: a socket with no packet to send leaves the list.
pop ==
    /\ worker.pc = "pop" /\ list = None
    /\ Goto("next")
    /\ IF heap = <<>> \/ heap[1].ts > 0 THEN UNCHANGED <<heap, sched>>
       ELSE LET u == heap[1].u
                rest == remove_(heap, 1) IN
            /\ \/ heap' = rest /\ interrupt(Len(rest) = 1)
               \/ /\ u \notin dead
                  /\ \E ts \in 0..Interval : heap' = insert_(rest, [u |-> u, ts |-> ts])
                  /\ interrupt(heap'[1].u = u \/ Len(rest) = 1)
    /\ UNCHANGED <<dead, list, window, closing>>

\* With nothing on the list: m_WindowLock ...
LockWindow ==
    /\ worker.pc = "window" /\ ~window
    /\ window' = TRUE
    /\ Goto("check")
    /\ UNCHANGED <<heap, dead, list, sched, closing>>

\* Mutant: m_bClosing is not looked at.
CheckWindow_NotClosing ==
    /\ worker.pc = "check"
    /\ IF heap = <<>> THEN Goto("wait") /\ UNCHANGED window
       ELSE Goto("next") /\ window' = FALSE
    /\ UNCHANGED <<heap, dead, list, sched, closing>>

\* ... m_bClosing and m_iLastEntry, read without m_ListLock ...
CheckWindow ==
    /\ worker.pc = "check"
    /\ IF closing = "no" /\ heap = <<>> THEN Goto("wait") /\ UNCHANGED window
       ELSE Goto("next") /\ window' = FALSE
    /\ UNCHANGED <<heap, dead, list, sched, closing>>

\* ... and m_WindowCond.wait, which gives the lock back.
WaitWindow ==
    /\ worker.pc = "wait"
    /\ window' = FALSE
    /\ Goto("waiting")
    /\ UNCHANGED <<heap, dead, list, sched, closing>>

-----------------------------------------------------------------------------
\* Time passes.
Sooner(n) == IF n > 0 THEN n - 1 ELSE 0
Tick ==
    /\ sched > 0 \/ worker.ts > 0 \/ \E i \in DOMAIN heap : heap[i].ts > 0
    /\ heap' = [i \in DOMAIN heap |-> [heap[i] EXCEPT !.ts = Sooner(@)]]
    /\ sched' = Sooner(sched)
    /\ worker' = [worker EXCEPT !.ts = Sooner(@)]
    /\ UNCHANGED <<dead, list, window, closing>>

Worker == NextProcTime \/ SleepTo \/ Awake \/ pop \/ LockWindow \/ CheckWindow \/ WaitWindow

Next ==
    \/ \E t \in Thread : Notify(t) \/ \E u \in Socket, reschedule \in BOOLEAN : update(t, u, reschedule)
    \/ \E u \in Socket : remove(u) \/ Die(u)
    \/ Destroy \/ Worker \/ Tick

Spec == Init /\ [][Next]_vars

\* The threads are scheduled and time passes; the worker gets the locks it
\* waits for again and again.  No socket has to be sent from or closed.
Fairness ==
    /\ WF_vars(Tick) /\ \A t \in Thread : WF_vars(Notify(t))
    /\ SF_vars(NextProcTime) /\ WF_vars(SleepTo) /\ WF_vars(Awake) /\ SF_vars(pop)
    /\ WF_vars(LockWindow) /\ WF_vars(CheckWindow) /\ WF_vars(WaitWindow)
    /\ WF_vars(closing = "set" /\ Destroy)

-----------------------------------------------------------------------------
(* Properties.                                                             *)

\* Every variable has its type, and no socket is on the list twice.
TypeOK ==
    /\ heap \in Seq([u : Socket, ts : 0..Interval])
    /\ \A u \in Socket : Cardinality(Places(u)) <= 1
    /\ dead \subseteq Socket /\ list \in Thread \cup {None} /\ window \in BOOLEAN
    /\ worker \in [pc : {"next", "sleepto", "sleeping", "pop", "window", "check", "wait", "waiting", "exit"},
                   ts : 0..Interval]
    /\ sched \in 0..Interval
    /\ closing \in {"no", "set", "notified"}

\* The worker does not wait while there is something on the list, unless the
\* thread that put it there has still to notify it: the comment at insert_ says
\* that without m_WindowLock "the send buffer never got properly cleared".
NoLostNotify == worker.pc = "waiting" /\ heap # <<>> => list # None

\* While there are sockets on the list one of them is served in the end, as long
\* as the queue is not destroyed (worker: its wait, its sleep and its locks).
ListServed == heap # <<>> ~> (worker.pc = "pop" \/ heap = <<>> \/ closing # "no")

\* ~CSndQueue ends: the worker that is to be joined leaves its loop.
JoinEnds == closing = "set" ~> worker.pc = "exit"

\* What is on the list is there once and the worker attends to it: it does not
\* wait with something on the list and nobody left to notify it.
Attended == TypeOK /\ NoLostNotify

\* The worker goes on: it serves the list while it is used and leaves its loop
\* when the queue is destroyed (worker, ~CSndQueue).
WorkerGoesOn == ListServed /\ JoinEnds
=============================================================================
