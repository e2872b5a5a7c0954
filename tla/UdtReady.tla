------------------------------ MODULE UdtReady ------------------------------
(***************************************************************************)
(* How a task of the Rust side waits for one UDT connection, and how the   *)
(* connection is closed under it: Connection::recv, send and flush         *)
(* (udt/src/lib.rs), the notifications of RPoll (udt-sys/src/rpoll.rs),    *)
(* and the threads that raise them, the receiving worker of the queue and  *)
(* the garbage collector (udt-sys/udt/queue.cpp, core.cpp, api.cpp).       *)
(*                                                                         *)
(* What is transferred is reduced to numbers: messages that can be read,   *)
(* and blocks in the sending buffer.                                       *)
(***************************************************************************)
EXTENDS Naturals

CONSTANTS MaxMsgs,      \* bound: messages that wait to be read
          SndBufSize,   \* m_iSndBufSize
          Rounds        \* m_iBrokenCounter, in rounds of the garbage collector

ASSUME ReadyAssumption == MaxMsgs \in Nat \ {0} /\ SndBufSize \in Nat \ {0} /\ Rounds \in Nat

VARIABLES
    status,      \* in m_Sockets, in m_ClosedSockets (CLOSED), or removed
    opened, connected, broken, closing,   \* m_bOpened, m_bConnected, ...
    onList,      \* m_bOnList: the worker has the socket on its list
    counter,     \* m_iBrokenCounter
    msgs, blocks,   \* what can be read, what is not yet acknowledged
    entry,       \* RPoll has an entry for the socket
    tasks,       \* the three kinds of task
    worker,      \* where the worker is in handling a packet or a timer
    close        \* where a thread is in CUDT::close

flags == <<opened, connected, broken, closing>>
vars == <<status, opened, connected, broken, closing, onList, counter, msgs, blocks,
          entry, tasks, worker, close>>

Task == {"recv", "send", "flush"}
Event(t) == IF t = "recv" THEN "IN" ELSE "OUT"

\* registered: the task has a Notified of the entry RPoll has now; notified: it
\* was woken since it got it.
TaskState == [pc : {"idle", "try", "register", "retry", "await", "panic"},
              registered : BOOLEAN, notified : BOOLEAN]
Idle == [pc |-> "idle", registered |-> FALSE, notified |-> FALSE]

\* Where the worker is: in processData or processCtrl ("packet"), in the ACK
\* part of checkTimers ("timers"), in its EXP part ("expire"), or about to
\* raise an event ("IN", "OUT", "BOTH"); heard: it came there with a packet,
\* which resets m_iEXPCount.
WorkerState == [pc : {"idle", "packet", "timers", "expire", "IN", "OUT", "BOTH"}, heard : BOOLEAN]

Init ==
    /\ status = "open" /\ opened = TRUE /\ connected = TRUE /\ broken = FALSE /\ closing = FALSE
    /\ onList = TRUE /\ counter = Rounds /\ msgs = 0 /\ blocks = 0 /\ entry = TRUE
    /\ tasks = [t \in Task |-> Idle]
    /\ worker = [pc |-> "idle", heard |-> FALSE]
    /\ close = [by \in {"app", "gc"} |-> "no"]

-----------------------------------------------------------------------------
(* RPoll.                                                                  *)

\* update_events(events, true): notify_waiters, in an entry that is made if
\* there is none.
update_events(events) ==
    /\ entry' = TRUE
    /\ tasks' = [t \in Task |-> [tasks[t] EXCEPT !.notified = @ \/ (tasks[t].registered /\ Event(t) \in events)]]

remove_usock ==
    /\ entry' = FALSE
    /\ tasks' = [t \in Task |-> [tasks[t] EXCEPT !.registered = FALSE]]

-----------------------------------------------------------------------------
(* The tasks: try, register, try again, await.                             *)

Go(t, pc) == tasks' = [tasks EXCEPT ![t].pc = pc]
Return(t) == tasks' = [tasks EXCEPT ![t] = Idle]

Call(t) ==
    /\ tasks[t].pc = "idle" /\ close["app"] = "no"
    /\ Go(t, "try")
    /\ UNCHANGED <<status, flags, onList, counter, msgs, blocks, entry, worker, close>>

WouldBlock(t) == Go(t, IF tasks[t].pc = "try" THEN "register" ELSE "await") /\ UNCHANGED <<msgs, blocks>>
Error(t) == Return(t) /\ UNCHANGED <<msgs, blocks>>

\* A connection that is broken is read to the end.
recvmsg ==
    IF status # "open" \/ ~connected THEN Error("recv")
    ELSE IF msgs > 0 THEN Return("recv") /\ msgs' = msgs - 1 /\ UNCHANGED blocks
    ELSE IF broken \/ closing THEN Error("recv")
    ELSE WouldBlock("recv")

\* A message of one block.
sendmsg ==
    IF status # "open" \/ broken \/ closing \/ ~connected THEN Error("send")
    ELSE IF blocks < SndBufSize THEN Return("send") /\ blocks' = blocks + 1 /\ UNCHANGED msgs
    ELSE WouldBlock("send")

\* getsockopt of a closed socket fails, and send_data then says 0.
send_data ==
    IF status # "open" \/ blocks = 0 THEN Return("flush") /\ UNCHANGED <<msgs, blocks>>
    ELSE WouldBlock("flush")

Try(t) ==
    /\ tasks[t].pc \in {"try", "retry"}
    /\ CASE t = "recv" -> recvmsg [] t = "send" -> sendmsg [] t = "flush" -> send_data
    /\ UNCHANGED <<status, flags, onList, counter, entry, worker, close>>

\* readable() and writable() unwrap what RPoll has.
\* Mutant: the task does not try again once it is registered.
Register_ThenAwaits(t) ==
    /\ tasks[t].pc = "register"
    /\ tasks' = [tasks EXCEPT ![t].pc = IF entry THEN "await" ELSE "panic",
                              ![t].registered = entry, ![t].notified = FALSE]
    /\ UNCHANGED <<status, flags, onList, counter, msgs, blocks, entry, worker, close>>

Register(t) ==
    /\ tasks[t].pc = "register"
    /\ tasks' = [tasks EXCEPT ![t].pc = IF entry THEN "retry" ELSE "panic",
                              ![t].registered = entry, ![t].notified = FALSE]
    /\ UNCHANGED <<status, flags, onList, counter, msgs, blocks, entry, worker, close>>

Wake(t) ==
    /\ tasks[t].pc = "await" /\ tasks[t].notified
    /\ Go(t, "try")
    /\ UNCHANGED <<status, flags, onList, counter, msgs, blocks, entry, worker, close>>

\* A call may be dropped where it awaits.
Cancel(t) ==
    /\ tasks[t].pc = "await"
    /\ Return(t)
    /\ UNCHANGED <<status, flags, onList, counter, msgs, blocks, entry, worker, close>>

-----------------------------------------------------------------------------
(* The worker.                                                             *)

Alive == connected /\ ~broken /\ ~closing
Goto(pc) == worker' = [worker EXCEPT !.pc = pc]

\* The flags are looked at once: before a packet is processed and the timers
\* are checked after it, or before the timers are checked.
Take ==
    /\ worker.pc = "idle" /\ onList /\ Alive
    /\ \E heard \in BOOLEAN : worker' = [pc |-> IF heard THEN "packet" ELSE "timers", heard |-> heard]
    /\ UNCHANGED <<status, flags, onList, counter, msgs, blocks, entry, tasks, close>>

\* A packet that changes nothing a task waits for.
Other ==
    /\ worker.pc = "packet"
    /\ Goto("timers")
    /\ UNCHANGED <<status, flags, onList, counter, msgs, blocks, entry, tasks, close>>

\* processCtrl of an ACK: the sending buffer is freed up to it.
RecvAck ==
    /\ worker.pc = "packet" /\ blocks > 0
    /\ blocks' \in 0..(blocks - 1)
    /\ Goto("OUT")
    /\ UNCHANGED <<status, flags, onList, counter, msgs, entry, tasks, close>>

\* processCtrl of a shutdown raises no event: releaseSynch has nothing to wake.
Shutdown ==
    /\ worker.pc = "packet"
    /\ closing' = TRUE /\ broken' = TRUE /\ counter' = Rounds
    /\ Goto("timers")
    /\ UNCHANGED <<status, opened, connected, onList, msgs, blocks, entry, tasks, close>>

\* checkTimers, sendCtrl of an ACK: ackData may complete a message.
AckData ==
    /\ worker.pc = "timers"
    /\ msgs' \in {msgs, msgs + 1} /\ msgs' <= MaxMsgs
    /\ Goto("IN")
    /\ UNCHANGED <<status, flags, onList, counter, blocks, entry, tasks, close>>

\* The ACK timer has not expired, or there is nothing new to acknowledge.
NoAck ==
    /\ worker.pc = "timers"
    /\ Goto("expire")
    /\ UNCHANGED <<status, flags, onList, counter, msgs, blocks, entry, tasks, close>>

\* checkTimers gives the peer up.
Expire ==
    /\ worker.pc = "expire" /\ ~worker.heard
    /\ closing' = TRUE /\ broken' = TRUE /\ counter' = Rounds
    /\ Goto("BOTH")
    /\ UNCHANGED <<status, opened, connected, onList, msgs, blocks, entry, tasks, close>>

NoExpire ==
    /\ worker.pc = "expire"
    /\ Goto("idle")
    /\ UNCHANGED <<status, flags, onList, counter, msgs, blocks, entry, tasks, close>>

\* The call of update_events, and where the worker goes on.
Raise ==
    /\ worker.pc \in {"IN", "OUT", "BOTH"}
    /\ update_events(IF worker.pc = "BOTH" THEN {"IN", "OUT"} ELSE {worker.pc})
    /\ Goto(CASE worker.pc = "IN" -> "expire" [] worker.pc = "OUT" -> "timers" [] worker.pc = "BOTH" -> "idle")
    /\ UNCHANGED <<status, flags, onList, counter, msgs, blocks, close>>

\* A socket that is not alive leaves the worker's list.
Unlist ==
    /\ worker.pc = "idle" /\ onList /\ ~Alive
    /\ onList' = FALSE
    /\ UNCHANGED <<status, flags, counter, msgs, blocks, entry, tasks, worker, close>>

-----------------------------------------------------------------------------
(* CUDT::close, by the application (Drop for Socket) or the collector.     *)

CloseStep(by, pc) == close' = [close EXCEPT ![by] = pc]

CloseNotify(by) ==
    /\ close[by] = "notify"
    /\ IF opened THEN update_events({"IN", "OUT"}) /\ CloseStep(by, "remove")
       ELSE UNCHANGED <<entry, tasks>> /\ CloseStep(by, "done")
    /\ UNCHANGED <<status, flags, onList, counter, msgs, blocks, worker>>

CloseRemove(by) ==
    /\ close[by] = "remove"
    /\ remove_usock
    /\ CloseStep(by, "mark")
    /\ UNCHANGED <<status, flags, onList, counter, msgs, blocks, worker>>

\* m_bOpened is looked at again.
CloseMark(by) ==
    /\ close[by] = "mark"
    /\ closing' = (closing \/ opened)
    /\ CloseStep(by, IF opened THEN "end" ELSE "done")
    /\ UNCHANGED <<status, opened, connected, broken, onList, counter, msgs, blocks, entry, tasks, worker>>

\* Under m_ConnectionLock, to the end.
CloseEnd(by) ==
    /\ close[by] = "end"
    /\ connected' = FALSE /\ opened' = FALSE
    /\ CloseStep(by, "done")
    /\ UNCHANGED <<status, broken, closing, onList, counter, msgs, blocks, entry, tasks, worker>>

\* Drop for Socket: no task borrows the connection any more.
Drop ==
    /\ close["app"] = "no"
    /\ \A t \in Task : tasks[t].pc \in {"idle", "panic"}
    /\ CloseStep("app", IF status = "open" THEN "notify" ELSE "over")
    /\ UNCHANGED <<status, flags, onList, counter, msgs, blocks, entry, tasks, worker>>

\* CUDTUnited::close leaves the socket to the collector.
AppClosed ==
    /\ close["app"] = "done"
    /\ status' = IF status = "open" THEN "closed" ELSE status
    /\ CloseStep("app", "over")
    /\ UNCHANGED <<flags, onList, counter, msgs, blocks, entry, tasks, worker>>

-----------------------------------------------------------------------------
(* The garbage collector.                                                  *)

\* A broken connection with data in the receiving buffer is kept for a while.
\* Part of a message is data as well, though it cannot be read.
GcWait ==
    /\ status = "open" /\ broken /\ counter > 0
    /\ counter' = counter - 1
    /\ UNCHANGED <<status, flags, onList, msgs, blocks, entry, tasks, worker, close>>

\* Mutant: a socket is kept as long as it has data.
GcClose_NotWithData ==
    /\ status = "open" /\ broken /\ msgs = 0
    /\ status' = "closed"
    /\ UNCHANGED <<flags, onList, counter, msgs, blocks, entry, tasks, worker, close>>

GcClose ==
    /\ status = "open" /\ broken /\ (msgs = 0 \/ counter = 0)
    /\ status' = "closed"
    /\ UNCHANGED <<flags, onList, counter, msgs, blocks, entry, tasks, worker, close>>

\* "removed after approximately 1 second ... to prevent other methods from
\* accessing invalid address": a call that found the socket open is over by
\* then, or it awaits.
GcRemove ==
    /\ status = "closed" /\ ~onList /\ close["gc"] = "no"
    /\ \A t \in Task : tasks[t].pc \notin {"register", "retry"}
    /\ close["app"] \in {"no", "over"}
    /\ CloseStep("gc", "notify")
    /\ UNCHANGED <<status, flags, onList, counter, msgs, blocks, entry, tasks, worker>>

GcRemoved ==
    /\ close["gc"] = "done"
    /\ status' = "removed"
    /\ CloseStep("gc", "over")
    /\ UNCHANGED <<flags, onList, counter, msgs, blocks, entry, tasks, worker>>

-----------------------------------------------------------------------------
Step(t) == Try(t) \/ Register(t) \/ Wake(t)
Worker == Take \/ Other \/ RecvAck \/ Shutdown \/ AckData \/ NoAck \/ Expire \/ NoExpire \/ Raise \/ Unlist
Closing(by) == CloseNotify(by) \/ CloseRemove(by) \/ CloseMark(by) \/ CloseEnd(by)
Collector == GcWait \/ GcClose \/ GcRemove \/ GcRemoved \/ Closing("gc")
Application == Drop \/ AppClosed \/ Closing("app") \/ \E t \in Task : Call(t) \/ Cancel(t)

Next == Application \/ Worker \/ Collector \/ \E t \in Task : Step(t)

Spec == Init /\ [][Next]_vars

\* Tasks and threads are scheduled; nothing makes a peer send, and the
\* application does not have to close.
FairSpec ==
    /\ Spec
    /\ \A t \in Task : WF_vars(Step(t))
    /\ WF_vars(Other \/ NoAck \/ NoExpire \/ Raise \/ Unlist)
    /\ WF_vars(Collector) /\ WF_vars(AppClosed \/ Closing("app"))

-----------------------------------------------------------------------------
(* Properties.                                                             *)

\* Every variable has its type.
TypeOK ==
    /\ status \in {"open", "closed", "removed"}
    /\ opened \in BOOLEAN /\ connected \in BOOLEAN /\ broken \in BOOLEAN /\ closing \in BOOLEAN
    /\ onList \in BOOLEAN /\ entry \in BOOLEAN
    /\ counter \in 0..Rounds /\ msgs \in 0..MaxMsgs /\ blocks \in 0..SndBufSize
    /\ tasks \in [Task -> TaskState]
    /\ worker \in WorkerState
    /\ close \in [{"app", "gc"} -> {"no", "notify", "remove", "mark", "end", "done", "over"}]

\* No wakeup is lost: a task that awaits and was not woken has nothing to do
\* yet, or the thread that made it possible has still to raise the event
\* (Connection::recv, send and flush register before they try again).
NoLostWakeup ==
    /\ tasks["recv"].pc = "await" /\ ~tasks["recv"].notified /\ msgs > 0 => worker.pc = "IN"
    /\ tasks["send"].pc = "await" /\ ~tasks["send"].notified /\ blocks < SndBufSize => worker.pc = "OUT"
    /\ tasks["flush"].pc = "await" /\ ~tasks["flush"].notified /\ blocks = 0 => worker.pc = "OUT"

\* A task that awaits can be woken: it is registered with the entry that RPoll
\* has, or it was woken before that entry was removed.
Reachable ==
    \A t \in Task : tasks[t].pc = "await" => (tasks[t].registered /\ entry) \/ tasks[t].notified

\* readable() and writable() find an entry (their unwrap).
NoPanic == \A t \in Task : tasks[t].pc # "panic"

\* No task waits for a connection that is broken for good: also when the peer
\* shut down and nothing was raised, the collector's close wakes it.
EveryWaitEnds ==
    \A t \in Task : (tasks[t].pc = "await" /\ broken) ~> tasks[t].pc # "await"

\* A wait is neither in vain nor too long: who waits is registered where close
\* and the worker look, who registers finds the entry, and no wakeup falls between
\* a task's attempt and its wait (RPoll's register, notify and remove).
WaitsSound == TypeOK /\ Reachable /\ NoPanic /\ NoLostWakeup

\* What they rest on.  The application closes when no task runs.  The collector
\* closes what no call finds any more, with nobody between a try and the await
\* that follows it, and has woken who awaits when it removes the entry.  Nobody
\* else removes the entry, or clears m_bOpened, which makes close return early.
WaitInv ==
    /\ close["app"] # "no" => \A t \in Task : tasks[t].pc = "idle"
    /\ close["gc"] # "no" =>
          status # "open" /\ \A t \in Task : tasks[t].pc \notin {"register", "retry"}
    /\ close["app"] = "no" /\ close["gc"] = "no" => entry
    /\ \A t \in Task : tasks[t].pc = "retry" => tasks[t].registered
    /\ close["gc"] \notin {"no", "notify"} =>
          \A t \in Task : tasks[t].pc = "await" => tasks[t].notified
    /\ ~opened => close["app"] # "no" \/ close["gc"] \in {"done", "over"}
=============================================================================
