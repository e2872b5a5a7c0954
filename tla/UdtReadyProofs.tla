--------------------------- MODULE UdtReadyProofs ---------------------------
(***************************************************************************)
(* Proofs about the waits of the tasks of one UDT connection, for every    *)
(* size of the buffers and every patience of the collector.                *)
(***************************************************************************)
EXTENDS UdtReady, TLAPS

\* What the tasks rely on, and what that rests on.
IInv == WaitsSound /\ WaitInv

Pcs == {"idle", "try", "register", "retry", "await", "panic"}

\* A task goes on, and nobody else moves.
LEMMA GoTask ==
    ASSUME tasks \in [Task -> TaskState], NEW t \in Task, NEW pc \in Pcs, Go(t, pc)
    PROVE  /\ tasks' \in [Task -> TaskState]
           /\ tasks'[t].pc = pc /\ tasks'[t].registered = tasks[t].registered
           /\ tasks'[t].notified = tasks[t].notified
           /\ \A u \in Task : u # t => tasks'[u] = tasks[u]
<1>1. tasks[t] \in TaskState
  OBVIOUS
<1>2. [tasks[t] EXCEPT !.pc = pc] \in TaskState
  BY <1>1 DEF TaskState, Pcs
<1>3. QED
  BY <1>1, <1>2 DEF Go, TaskState

\* A call returns.
LEMMA ReturnTask ==
    ASSUME tasks \in [Task -> TaskState], NEW t \in Task, Return(t)
    PROVE  /\ tasks' \in [Task -> TaskState]
           /\ tasks'[t].pc = "idle"
           /\ \A u \in Task : u # t => tasks'[u] = tasks[u]
<1>1. Idle \in TaskState /\ Idle.pc = "idle"
  BY DEF Idle, TaskState
<1>2. QED
  BY <1>1 DEF Return

\* A step of a task that leaves the rest of the connection alone.
OnlyTasks == UNCHANGED <<status, flags, onList, counter, entry, worker, close>>

\* recvmsg, sendmsg and send_data: the call returns, or it found nothing to do
\* on a connection that is still in the table.
LEMMA TryCases ==
    ASSUME TypeOK, NEW t \in Task, Try(t)
    PROVE  /\ OnlyTasks /\ tasks[t].pc \in {"try", "retry"}
           /\ \/ /\ Return(t)
                 /\ msgs' \in 0..MaxMsgs /\ (t # "recv" => msgs' = msgs)
                 /\ blocks' \in 0..SndBufSize /\ (t # "send" => blocks' = blocks)
                 /\ (blocks' = 0 => blocks = 0)
              \/ /\ WouldBlock(t) /\ status = "open"
                 /\ (t = "recv" => ~(msgs > 0)) /\ (t = "send" => ~(blocks < SndBufSize))
                 /\ (t = "flush" => blocks # 0)
<1>1. msgs \in 0..MaxMsgs /\ blocks \in 0..SndBufSize /\ MaxMsgs \in Nat /\ SndBufSize \in Nat
  BY ReadyAssumption DEF TypeOK
<1>2. OnlyTasks /\ tasks[t].pc \in {"try", "retry"}
  BY DEF Try, OnlyTasks
<1>3. CASE t = "recv"
  <2>1. recvmsg
    BY <1>3 DEF Try
  <2>2. QED
    BY <1>1, <1>2, <1>3, <2>1 DEF recvmsg, Error
<1>4. CASE t = "send"
  <2>1. sendmsg
    BY <1>4 DEF Try
  <2>2. QED
    BY <1>1, <1>2, <1>4, <2>1 DEF sendmsg, Error
<1>5. CASE t = "flush"
  <2>1. send_data
    BY <1>5 DEF Try
  <2>2. QED
    BY <1>1, <1>2, <1>5, <2>1 DEF send_data
<1>6. QED
  BY <1>3, <1>4, <1>5 DEF Task

\* The types depend on what changed only.
LEMMA TaskTypes ==
    ASSUME TypeOK, OnlyTasks, tasks' \in [Task -> TaskState],
           msgs' \in 0..MaxMsgs, blocks' \in 0..SndBufSize
    PROVE  TypeOK'
  BY DEF TypeOK, OnlyTasks, flags

\* A task that starts, or wakes up, or gives up: its call is not between two
\* tries and it does not await.
LEMMA TaskLeaves ==
    ASSUME IInv, NEW t \in Task, OnlyTasks, tasks' \in [Task -> TaskState],
           \/ tasks'[t].pc = "idle"
           \/ tasks'[t].pc = "try" /\ close["app"] = "no",
           \A u \in Task : u # t => tasks'[u] = tasks[u],
           msgs' \in 0..MaxMsgs, t # "recv" => msgs' = msgs,
           blocks' \in 0..SndBufSize, t # "send" => blocks' = blocks,
           blocks' = 0 => blocks = 0
    PROVE  IInv'
<1>1. TypeOK'
  BY TaskTypes DEF IInv, WaitsSound
<1>2. UNCHANGED <<status, opened, entry, worker, close>>
  BY DEF OnlyTasks, flags
<1>3. Reachable' /\ NoPanic'
  BY <1>2 DEF IInv, WaitsSound, Reachable, NoPanic
<1>4. NoLostWakeup'
  BY <1>2 DEF IInv, WaitsSound, NoLostWakeup, Task
<1>5. WaitInv'
  BY <1>2 DEF IInv, WaitInv
<1>6. QED
  BY <1>1, <1>3, <1>4, <1>5 DEF IInv, WaitsSound

\* A try that would block: the first is followed by the registration, the
\* second by the await, for which the task is registered.
LEMMA TryBlocks ==
    ASSUME IInv, NEW t \in Task, OnlyTasks, tasks[t].pc \in {"try", "retry"},
           WouldBlock(t), status = "open", t = "recv" => ~(msgs > 0),
           t = "send" => ~(blocks < SndBufSize), t = "flush" => blocks # 0
    PROVE  IInv'
<1> DEFINE next == IF tasks[t].pc = "try" THEN "register" ELSE "await"
<1>1. UNCHANGED <<status, opened, entry, worker, close, msgs, blocks>>
  BY DEF OnlyTasks, flags, WouldBlock
<1>2. next \in {"register", "await"} /\ Go(t, next) /\ (next = "await" => tasks[t].pc = "retry")
  BY DEF WouldBlock
<1> HIDE DEF next
<1>3. tasks \in [Task -> TaskState] /\ next \in Pcs
  BY <1>2 DEF IInv, WaitsSound, TypeOK, Pcs
<1>4. /\ tasks' \in [Task -> TaskState]
      /\ tasks'[t].pc = next /\ tasks'[t].registered = tasks[t].registered
      /\ tasks'[t].notified = tasks[t].notified
      /\ \A u \in Task : u # t => tasks'[u] = tasks[u]
  BY <1>2, <1>3, GoTask
<1>5. close["app"] = "no" /\ close["gc"] = "no" /\ entry
  BY DEF IInv, WaitInv
<1>6. TypeOK'
  <2>1. msgs' \in 0..MaxMsgs /\ blocks' \in 0..SndBufSize
    BY <1>1 DEF IInv, WaitsSound, TypeOK
  <2>2. QED
    BY <1>4, <2>1, TaskTypes DEF IInv, WaitsSound
<1>7. Reachable' /\ NoPanic'
  BY <1>1, <1>2, <1>4, <1>5 DEF IInv, WaitsSound, WaitInv, Reachable, NoPanic
<1>8. NoLostWakeup'
  BY <1>1, <1>2, <1>4 DEF IInv, WaitsSound, NoLostWakeup, Task
<1>9. WaitInv'
  BY <1>1, <1>2, <1>4, <1>5 DEF IInv, WaitInv
<1>10. QED
  BY <1>6, <1>7, <1>8, <1>9 DEF IInv, WaitsSound

\* readable() and writable() find the entry: the task was let in before any close.
LEMMA RegisterStep ==
    ASSUME IInv, NEW t \in Task, Register(t)
    PROVE  IInv'
<1>1. tasks[t].pc = "register" /\ OnlyTasks
      /\ UNCHANGED <<status, opened, entry, worker, close, msgs, blocks>>
  BY DEF Register, OnlyTasks, flags
<1>2. close["app"] = "no" /\ close["gc"] = "no" /\ entry = TRUE
  <2>1. close["app"] = "no" /\ close["gc"] = "no" /\ entry
    BY <1>1 DEF IInv, WaitInv
  <2>2. QED
    BY <2>1 DEF IInv, WaitsSound, TypeOK
<1>3. tasks \in [Task -> TaskState] /\ tasks[t] \in TaskState
  BY DEF IInv, WaitsSound, TypeOK
<1>4. /\ tasks'[t] = [pc |-> "retry", registered |-> TRUE, notified |-> FALSE]
      /\ \A u \in Task : u # t => tasks'[u] = tasks[u]
      /\ tasks' \in [Task -> TaskState]
  <2>1. tasks' = [tasks EXCEPT ![t].pc = "retry", ![t].registered = TRUE, ![t].notified = FALSE]
    BY <1>2 DEF Register
  <2>2. QED
    BY <1>3, <2>1 DEF TaskState
<1>5. tasks'[t].pc = "retry" /\ tasks'[t].registered
  BY <1>4
<1>6. TypeOK'
  <2>1. msgs' \in 0..MaxMsgs /\ blocks' \in 0..SndBufSize
    BY <1>1 DEF IInv, WaitsSound, TypeOK
  <2>2. QED
    BY <1>1, <1>4, <2>1, TaskTypes DEF IInv, WaitsSound
<1>7. Reachable' /\ NoPanic'
  BY <1>1, <1>4, <1>5 DEF IInv, WaitsSound, Reachable, NoPanic
<1>8. NoLostWakeup'
  BY <1>1, <1>4, <1>5 DEF IInv, WaitsSound, NoLostWakeup, Task
<1>9. WaitInv'
  BY <1>1, <1>2, <1>4, <1>5 DEF IInv, WaitInv
<1>10. QED
  BY <1>6, <1>7, <1>8, <1>9 DEF IInv, WaitsSound

\* The steps of a task.
LEMMA TaskStep ==
    ASSUME IInv, NEW t \in Task, Call(t) \/ Cancel(t) \/ Step(t)
    PROVE  IInv'
<1>1. /\ tasks \in [Task -> TaskState] /\ msgs \in 0..MaxMsgs /\ blocks \in 0..SndBufSize
      /\ TypeOK
  BY DEF IInv, WaitsSound, TypeOK
<1>2. tasks[t].pc # "idle" => close["app"] = "no"
  BY DEF IInv, WaitInv
<1>3. CASE Call(t) \/ Wake(t)
  <2>1. Go(t, "try") /\ OnlyTasks /\ UNCHANGED <<msgs, blocks>> /\ close["app"] = "no"
    BY <1>2, <1>3 DEF Call, Wake, OnlyTasks
  <2>2. /\ tasks' \in [Task -> TaskState] /\ tasks'[t].pc = "try"
        /\ \A u \in Task : u # t => tasks'[u] = tasks[u]
    BY <1>1, <2>1, GoTask DEF Pcs
  <2>3. QED
    BY <1>1, <2>1, <2>2, TaskLeaves
<1>4. CASE Cancel(t)
  <2>1. Return(t) /\ OnlyTasks /\ UNCHANGED <<msgs, blocks>>
    BY <1>4 DEF Cancel, OnlyTasks
  <2>2. QED
    BY <1>1, <2>1, ReturnTask, TaskLeaves
<1>5. CASE Try(t)
  BY <1>1, <1>5, TryCases, ReturnTask, TaskLeaves, TryBlocks
<1>6. QED
  BY <1>3, <1>4, <1>5, RegisterStep DEF Step
-----------------------------------------------------------------------------
(* The worker.                                                             *)

\* What the worker does but raise an event: the flags and the buffers change,
\* and whoever could go on by that is woken next.
LEMMA WorkerQuiet ==
    ASSUME IInv, TypeOK', UNCHANGED <<status, opened, entry, tasks, close>>,
           \/ worker.pc \notin {"IN", "OUT"} /\ UNCHANGED <<msgs, blocks>>
           \/ worker.pc \notin {"IN", "OUT"} /\ worker'.pc = "IN" /\ blocks' = blocks
           \/ worker.pc \notin {"IN", "OUT"} /\ worker'.pc = "OUT" /\ msgs' = msgs
           \/ UNCHANGED <<worker, msgs, blocks>>
    PROVE  IInv'
<1>1. Reachable' /\ NoPanic'
  BY DEF IInv, WaitsSound, Reachable, NoPanic
<1>2. NoLostWakeup'
  BY DEF IInv, WaitsSound, NoLostWakeup
<1>3. WaitInv'
  BY DEF IInv, WaitInv
<1>4. QED
  BY <1>1, <1>2, <1>3 DEF IInv, WaitsSound

\* update_events wakes who is registered for one of the events.
LEMMA Notifies ==
    ASSUME tasks \in [Task -> TaskState], NEW events, update_events(events)
    PROVE  /\ entry' = TRUE /\ tasks' \in [Task -> TaskState]
           /\ \A t \in Task :
                 /\ tasks'[t].pc = tasks[t].pc /\ tasks'[t].registered = tasks[t].registered
                 /\ tasks[t].notified => tasks'[t].notified
                 /\ tasks[t].registered /\ Event(t) \in events => tasks'[t].notified
<1> DEFINE new(t) == tasks[t].notified \/ (tasks[t].registered /\ Event(t) \in events)
<1>1. entry' = TRUE /\ tasks' = [t \in Task |-> [tasks[t] EXCEPT !.notified = new(t)]]
  BY DEF update_events
<1>2. ASSUME NEW t \in Task
      PROVE  /\ new(t) \in BOOLEAN
             /\ tasks[t].notified => new(t)
             /\ tasks[t].registered /\ Event(t) \in events => new(t)
  OBVIOUS
<1> HIDE DEF new
<1>3. ASSUME NEW t \in Task
      PROVE  /\ tasks'[t] \in TaskState /\ tasks'[t].notified = new(t)
             /\ tasks'[t].pc = tasks[t].pc /\ tasks'[t].registered = tasks[t].registered
  <2>1. tasks[t] \in TaskState /\ new(t) \in BOOLEAN
    BY <1>2
  <2>2. tasks'[t] = [tasks[t] EXCEPT !.notified = new(t)]
    BY <1>1
  <2>3. QED
    BY <2>1, <2>2 DEF TaskState
<1>4. tasks' \in [Task -> TaskState]
  BY <1>1, <1>3
<1>5. QED
  BY <1>1, <1>2, <1>3, <1>4

\* An event that is raised leaves nobody behind who waits for it.
LEMMA NotifyKeeps ==
    ASSUME IInv, TypeOK', NEW events, update_events(events),
           UNCHANGED <<status, opened, msgs, blocks>>,
           \/ close' = close
           \/ /\ close["gc"] = "notify" /\ events = {"IN", "OUT"}
              /\ close' = [close EXCEPT !["gc"] = "remove"]
           \/ close["app"] = "notify" /\ close' = [close EXCEPT !["app"] = "remove"],
           worker.pc = "IN" => "IN" \in events \/ worker'.pc = "IN",
           worker.pc = "OUT" => "OUT" \in events \/ worker'.pc = "OUT"
    PROVE  IInv'
<1>1. tasks \in [Task -> TaskState]
  BY DEF IInv, WaitsSound, TypeOK
<1>2. /\ entry' = TRUE
      /\ \A t \in Task :
            /\ tasks'[t].pc = tasks[t].pc /\ tasks'[t].registered = tasks[t].registered
            /\ tasks[t].notified => tasks'[t].notified
            /\ tasks[t].registered /\ Event(t) \in events => tasks'[t].notified
  BY <1>1, Notifies
<1>3. \A t \in Task : tasks[t].pc = "await" => tasks[t].registered \/ tasks[t].notified
  BY DEF IInv, WaitsSound, Reachable
<1>4. Reachable' /\ NoPanic'
  BY <1>2, <1>3 DEF IInv, WaitsSound, Reachable, NoPanic
<1>5. NoLostWakeup'
  BY <1>2, <1>3 DEF IInv, WaitsSound, NoLostWakeup, Task, Event
<1>6. CASE close' = close
  <2>1. WaitInv'
    BY <1>2, <1>6 DEF IInv, WaitInv
  <2>2. QED
    BY <1>4, <1>5, <2>1 DEF IInv, WaitsSound
<1>7. CASE close["gc"] = "notify" /\ events = {"IN", "OUT"} /\ close' = [close EXCEPT !["gc"] = "remove"]
  <2>1. close \in [{"app", "gc"} -> {"no", "notify", "remove", "mark", "end", "done", "over"}]
    BY DEF IInv, WaitsSound, TypeOK
  <2>2. close'["app"] = close["app"] /\ close'["gc"] = "remove"
    BY <1>7, <2>1
  <2>3. \A t \in Task : tasks'[t].pc = "await" => tasks'[t].notified
    BY <1>2, <1>3, <1>7 DEF Event
  <2>4. QED
    BY <1>2, <1>4, <1>5, <1>7, <2>2, <2>3 DEF IInv, WaitsSound, WaitInv
<1>8. CASE close["app"] = "notify" /\ close' = [close EXCEPT !["app"] = "remove"]
  <2>1. close \in [{"app", "gc"} -> {"no", "notify", "remove", "mark", "end", "done", "over"}]
    BY DEF IInv, WaitsSound, TypeOK
  <2>2. close'["app"] = "remove" /\ close'["gc"] = close["gc"]
    BY <1>8, <2>1
  <2>3. QED
    BY <1>2, <1>4, <1>5, <1>8, <2>2 DEF IInv, WaitsSound, WaitInv
<1>9. QED
  BY <1>6, <1>7, <1>8

\* The steps of the receiving worker.
LEMMA WorkerStep ==
    ASSUME IInv, Worker
    PROVE  IInv'
<1> USE ReadyAssumption
<1>1. /\ worker \in WorkerState /\ msgs \in 0..MaxMsgs /\ blocks \in 0..SndBufSize
      /\ TypeOK
  BY DEF IInv, WaitsSound, TypeOK
<1>2. \A pc \in {"idle", "packet", "timers", "expire", "IN", "OUT", "BOTH"} :
         Goto(pc) => worker' \in WorkerState /\ worker'.pc = pc
  BY <1>1 DEF Goto, WorkerState
<1>3. CASE Take
  <2>1. worker' \in WorkerState
    BY <1>3 DEF Take, WorkerState
  <2>2. TypeOK'
    BY <1>1, <1>3, <2>1 DEF Take, TypeOK, flags
  <2>3. QED
    BY <1>3, <2>2, WorkerQuiet DEF Take, flags
<1>4. CASE Other \/ NoAck \/ NoExpire
  <2>1. worker' \in WorkerState /\ worker.pc \notin {"IN", "OUT"}
        /\ UNCHANGED <<status, flags, onList, counter, msgs, blocks, entry, tasks, close>>
    BY <1>2, <1>4 DEF Other, NoAck, NoExpire
  <2>2. TypeOK'
    BY <1>1, <2>1 DEF TypeOK, flags
  <2>3. QED
    BY <2>1, <2>2, WorkerQuiet DEF flags
<1>5. CASE RecvAck
  <2>1. worker' \in WorkerState /\ worker.pc = "packet" /\ worker'.pc = "OUT"
        /\ blocks' \in 0..SndBufSize
    BY <1>1, <1>2, <1>5 DEF RecvAck
  <2>2. TypeOK'
    BY <1>1, <1>5, <2>1 DEF RecvAck, TypeOK, flags
  <2>3. QED
    BY <1>5, <2>1, <2>2, WorkerQuiet DEF RecvAck, flags
<1>6. CASE Shutdown \/ Expire
  <2>1. worker' \in WorkerState /\ worker.pc \notin {"IN", "OUT"}
    BY <1>2, <1>6 DEF Shutdown, Expire
  <2>2. /\ closing' = TRUE /\ broken' = TRUE /\ counter' = Rounds
        /\ UNCHANGED <<status, opened, connected, onList, msgs, blocks, entry, tasks, close>>
    BY <1>6 DEF Shutdown, Expire
  <2>3. Rounds \in 0..Rounds
    OBVIOUS
  <2>4. TypeOK'
    BY <1>1, <2>1, <2>2, <2>3 DEF TypeOK
  <2>5. QED
    BY <2>1, <2>2, <2>4, WorkerQuiet
<1>7. CASE AckData
  <2>1. worker' \in WorkerState /\ worker.pc = "timers" /\ worker'.pc = "IN"
        /\ msgs' \in 0..MaxMsgs
    BY <1>1, <1>2, <1>7 DEF AckData
  <2>2. TypeOK'
    BY <1>1, <1>7, <2>1 DEF AckData, TypeOK, flags
  <2>3. QED
    BY <1>7, <2>1, <2>2, WorkerQuiet DEF AckData, flags
<1>8. CASE Unlist
  <2>1. TypeOK'
    BY <1>1, <1>8 DEF Unlist, TypeOK, flags
  <2>2. QED
    BY <1>8, <2>1, WorkerQuiet DEF Unlist, flags
<1>9. CASE Raise
  <2> DEFINE events == IF worker.pc = "BOTH" THEN {"IN", "OUT"} ELSE {worker.pc}
  <2>1. update_events(events) /\ UNCHANGED <<status, flags, onList, counter, msgs, blocks, close>>
    BY <1>9 DEF Raise
  <2>2. worker' \in WorkerState
    BY <1>2, <1>9 DEF Raise
  <2>3. (worker.pc = "IN" => "IN" \in events) /\ (worker.pc = "OUT" => "OUT" \in events)
    OBVIOUS
  <2> HIDE DEF events
  <2>4. entry' = TRUE /\ tasks' \in [Task -> TaskState]
    BY <1>1, <2>1, Notifies DEF TypeOK
  <2>5. TypeOK'
    BY <1>1, <2>1, <2>2, <2>4 DEF TypeOK, flags
  <2>6. UNCHANGED <<status, opened, msgs, blocks>> /\ close' = close
    BY <2>1 DEF flags
  <2>7. QED
    BY <2>1, <2>3, <2>5, <2>6, NotifyKeeps
<1>10. QED
  BY <1>3, <1>4, <1>5, <1>6, <1>7, <1>8, <1>9 DEF Worker
-----------------------------------------------------------------------------
(* Closing.                                                                *)

CloseState == {"no", "notify", "remove", "mark", "end", "done", "over"}

\* One thread's place in CUDT::close changes.
LEMMA CloseGoes ==
    ASSUME TypeOK, NEW by \in {"app", "gc"}, NEW pc \in CloseState, CloseStep(by, pc)
    PROVE  /\ close' \in [{"app", "gc"} -> CloseState] /\ close'[by] = pc
           /\ \A o \in {"app", "gc"} : o # by => close'[o] = close[o]
  BY DEF TypeOK, CloseStep, CloseState

\* The steps of close.
LEMMA ClosingStep ==
    ASSUME IInv, NEW by \in {"app", "gc"}, Closing(by)
    PROVE  IInv'
<1>1. TypeOK /\ tasks \in [Task -> TaskState]
  BY DEF IInv, WaitsSound, TypeOK
<1>2. CASE CloseNotify(by) /\ opened
  <2>1. /\ close[by] = "notify" /\ update_events({"IN", "OUT"}) /\ CloseStep(by, "remove")
        /\ UNCHANGED <<status, flags, onList, counter, msgs, blocks, worker>>
    BY <1>2 DEF CloseNotify
  <2>2. close' \in [{"app", "gc"} -> CloseState]
    BY <1>1, <2>1, CloseGoes DEF CloseState
  <2>3. entry' = TRUE /\ tasks' \in [Task -> TaskState]
    BY <1>1, <2>1, Notifies
  <2>4. TypeOK'
    BY <1>1, <2>1, <2>2, <2>3 DEF TypeOK, flags, CloseState
  <2>5. close' = [close EXCEPT ![by] = "remove"]
    BY <2>1 DEF CloseStep
  <2>6. UNCHANGED <<status, opened, msgs, blocks>> /\ worker' = worker
    BY <2>1 DEF flags
  <2>7. by = "app" \/ by = "gc"
    OBVIOUS
  <2>8. QED
    BY <2>1, <2>4, <2>5, <2>6, <2>7, NotifyKeeps
<1>3. CASE CloseNotify(by) /\ ~opened
  <2>1. /\ close[by] = "notify" /\ CloseStep(by, "done")
        /\ UNCHANGED <<status, flags, onList, counter, msgs, blocks, worker, entry, tasks>>
    BY <1>3 DEF CloseNotify
  <2>2. /\ close' \in [{"app", "gc"} -> CloseState] /\ close'[by] = "done"
        /\ \A o \in {"app", "gc"} : o # by => close'[o] = close[o]
    BY <1>1, <2>1, CloseGoes DEF CloseState
  <2>3. TypeOK'
    BY <1>1, <2>1, <2>2 DEF TypeOK, flags, CloseState
  <2>4. Reachable' /\ NoPanic' /\ NoLostWakeup'
    BY <2>1 DEF IInv, WaitsSound, Reachable, NoPanic, NoLostWakeup
  <2>5. close["app"] # "no"
    BY <1>3, <2>1 DEF IInv, WaitInv
  <2>6. WaitInv'
    BY <1>3, <2>1, <2>2, <2>5 DEF IInv, WaitInv, flags
  <2>7. QED
    BY <2>3, <2>4, <2>6 DEF IInv, WaitsSound
<1>4. CASE CloseRemove(by)
  <2>1. /\ close[by] = "remove" /\ remove_usock /\ CloseStep(by, "mark")
        /\ UNCHANGED <<status, flags, onList, counter, msgs, blocks, worker>>
    BY <1>4 DEF CloseRemove
  <2>2. /\ close' \in [{"app", "gc"} -> CloseState] /\ close'[by] = "mark"
        /\ \A o \in {"app", "gc"} : o # by => close'[o] = close[o]
    BY <1>1, <2>1, CloseGoes DEF CloseState
  <2>3. /\ entry' = FALSE /\ tasks' \in [Task -> TaskState]
        /\ \A t \in Task : tasks'[t].pc = tasks[t].pc /\ tasks'[t].notified = tasks[t].notified
    <3>1. entry' = FALSE /\ tasks' = [t \in Task |-> [tasks[t] EXCEPT !.registered = FALSE]]
      BY <2>1 DEF remove_usock
    <3>2. ASSUME NEW t \in Task
          PROVE  /\ tasks'[t] \in TaskState
                 /\ tasks'[t].pc = tasks[t].pc /\ tasks'[t].notified = tasks[t].notified
      <4>1. tasks[t] \in TaskState /\ tasks'[t] = [tasks[t] EXCEPT !.registered = FALSE]
        BY <1>1, <3>1
      <4>2. QED
        BY <4>1 DEF TaskState
    <3>3. QED
      BY <3>1, <3>2
  <2>4. TypeOK'
    BY <1>1, <2>1, <2>2, <2>3 DEF TypeOK, flags, CloseState
  <2>5. \A t \in Task : tasks[t].pc = "await" => tasks[t].notified
    BY <2>1 DEF IInv, WaitInv
  <2>6. \A t \in Task : tasks[t].pc # "retry"
    BY <2>1 DEF IInv, WaitInv
  <2>7. Reachable' /\ NoPanic' /\ NoLostWakeup'
    BY <2>1, <2>3, <2>5 DEF IInv, WaitsSound, Reachable, NoPanic, NoLostWakeup, Task
  <2>8. WaitInv'
    BY <2>1, <2>2, <2>3, <2>5, <2>6 DEF IInv, WaitInv, flags
  <2>9. QED
    BY <2>4, <2>7, <2>8 DEF IInv, WaitsSound
<1>5. CASE CloseMark(by) \/ CloseEnd(by)
  <2>1. /\ UNCHANGED <<status, broken, onList, counter, msgs, blocks, entry, tasks, worker>>
        /\ closing' \in BOOLEAN /\ connected' \in BOOLEAN
    BY <1>1, <1>5 DEF CloseMark, CloseEnd, TypeOK
  <2>2. PICK pc \in {"end", "done"} : CloseStep(by, pc)
    BY <1>5 DEF CloseMark, CloseEnd
  <2>3. close[by] \in {"mark", "end"}
    BY <1>5 DEF CloseMark, CloseEnd
  <2>4. /\ close' \in [{"app", "gc"} -> CloseState] /\ close'[by] = pc
        /\ \A o \in {"app", "gc"} : o # by => close'[o] = close[o]
    BY <1>1, <2>2, CloseGoes DEF CloseState
  <2>5. opened' \in BOOLEAN /\ (opened' = opened \/ pc = "done")
    <3>1. CASE CloseMark(by)
      BY <1>1, <3>1 DEF CloseMark, TypeOK
    <3>2. CASE CloseEnd(by)
      <4>1. close'[by] = "done"
        BY <1>1, <3>2, CloseGoes DEF CloseEnd, CloseState
      <4>2. QED
        BY <2>4, <3>2, <4>1 DEF CloseEnd
    <3>3. QED
      BY <1>5, <3>1, <3>2
  <2>6. UNCHANGED <<status, broken, onList, counter, msgs, blocks, entry, tasks, worker>>
    BY <2>1
  <2>7. TypeOK'
    BY <1>1, <2>1, <2>4, <2>5 DEF TypeOK, CloseState
  <2>8. Reachable' /\ NoPanic' /\ NoLostWakeup'
    BY <2>6 DEF IInv, WaitsSound, Reachable, NoPanic, NoLostWakeup
  <2>9. WaitInv'
    BY <2>3, <2>4, <2>5, <2>6 DEF IInv, WaitInv
  <2>10. QED
    BY <2>7, <2>8, <2>9 DEF IInv, WaitsSound
<1>6. QED
  BY <1>2, <1>3, <1>4, <1>5 DEF Closing, CloseNotify

\* The application lets go of the connection, and the collector's other steps.
LEMMA OtherStep ==
    ASSUME IInv, Drop \/ AppClosed \/ GcWait \/ GcClose \/ GcRemove \/ GcRemoved
    PROVE  IInv'
<1> USE ReadyAssumption
<1>1. TypeOK /\ counter \in 0..Rounds
  BY DEF IInv, WaitsSound, TypeOK
<1>2. UNCHANGED <<flags, onList, msgs, blocks, entry, tasks, worker>>
  BY DEF Drop, AppClosed, GcWait, GcClose, GcRemove, GcRemoved
<1>3. Reachable' /\ NoPanic' /\ NoLostWakeup'
  BY <1>2 DEF IInv, WaitsSound, Reachable, NoPanic, NoLostWakeup
<1>4. CASE Drop
  <2>1. /\ close["app"] = "no" /\ \A t \in Task : tasks[t].pc \in {"idle", "panic"}
        /\ UNCHANGED <<status, counter>>
    BY <1>4 DEF Drop
  <2>2. PICK pc \in {"notify", "over"} : CloseStep("app", pc)
    BY <1>4 DEF Drop
  <2>3. /\ close' \in [{"app", "gc"} -> CloseState] /\ close'["app"] = pc
        /\ close'["gc"] = close["gc"]
    BY <1>1, <2>2, CloseGoes DEF CloseState
  <2>4. \A t \in Task : tasks[t].pc = "idle"
    BY <2>1 DEF IInv, WaitsSound, NoPanic
  <2>5. TypeOK'
    BY <1>1, <1>2, <2>1, <2>3 DEF TypeOK, flags, CloseState
  <2>6. WaitInv'
    BY <1>2, <2>1, <2>3, <2>4 DEF IInv, WaitInv, flags
  <2>7. QED
    BY <1>3, <2>5, <2>6 DEF IInv, WaitsSound
<1>5. CASE AppClosed
  <2>1. /\ close["app"] = "done" /\ CloseStep("app", "over") /\ counter' = counter
        /\ status' = IF status = "open" THEN "closed" ELSE status
    BY <1>5 DEF AppClosed
  <2>2. /\ close' \in [{"app", "gc"} -> CloseState] /\ close'["app"] = "over"
        /\ close'["gc"] = close["gc"]
    BY <1>1, <2>1, CloseGoes DEF CloseState
  <2>3. TypeOK'
    BY <1>1, <1>2, <2>1, <2>2 DEF TypeOK, flags, CloseState
  <2>4. WaitInv'
    BY <1>2, <2>1, <2>2 DEF IInv, WaitInv, flags
  <2>5. QED
    BY <1>3, <2>3, <2>4 DEF IInv, WaitsSound
<1>6. CASE GcWait \/ GcClose
  <2>1. /\ status' \in {"open", "closed", "removed"} /\ (status # "open" => status' # "open")
        /\ counter' \in 0..Rounds /\ close' = close
    BY <1>1, <1>6 DEF GcWait, GcClose, TypeOK
  <2>2. TypeOK'
    BY <1>1, <1>2, <2>1 DEF TypeOK, flags
  <2>3. WaitInv'
    BY <1>2, <2>1 DEF IInv, WaitInv, flags
  <2>4. QED
    BY <1>3, <2>2, <2>3 DEF IInv, WaitsSound
<1>7. CASE GcRemove
  <2>1. /\ status = "closed" /\ \A t \in Task : tasks[t].pc \notin {"register", "retry"}
        /\ close["gc"] = "no" /\ CloseStep("gc", "notify") /\ UNCHANGED <<status, counter>>
    BY <1>7 DEF GcRemove
  <2>2. /\ close' \in [{"app", "gc"} -> CloseState] /\ close'["gc"] = "notify"
        /\ close'["app"] = close["app"]
    BY <1>1, <2>1, CloseGoes DEF CloseState
  <2>3. TypeOK'
    BY <1>1, <1>2, <2>1, <2>2 DEF TypeOK, flags, CloseState
  <2>4. WaitInv'
    BY <1>2, <2>1, <2>2 DEF IInv, WaitInv, flags
  <2>5. QED
    BY <1>3, <2>3, <2>4 DEF IInv, WaitsSound
<1>8. CASE GcRemoved
  <2>1. /\ close["gc"] = "done" /\ CloseStep("gc", "over") /\ status' = "removed"
        /\ counter' = counter
    BY <1>8 DEF GcRemoved
  <2>2. /\ close' \in [{"app", "gc"} -> CloseState] /\ close'["gc"] = "over"
        /\ close'["app"] = close["app"]
    BY <1>1, <2>1, CloseGoes DEF CloseState
  <2>3. TypeOK'
    BY <1>1, <1>2, <2>1, <2>2 DEF TypeOK, flags, CloseState
  <2>4. WaitInv'
    BY <1>2, <2>1, <2>2 DEF IInv, WaitInv, flags
  <2>5. QED
    BY <1>3, <2>3, <2>4 DEF IInv, WaitsSound
<1>9. QED
  BY <1>4, <1>5, <1>6, <1>7, <1>8

\* The connection is made, and nothing waits yet.
LEMMA InitWaits ==
    ASSUME Init
    PROVE  IInv
<1> USE ReadyAssumption
<1>1. tasks \in [Task -> TaskState] /\ \A t \in Task : tasks[t].pc = "idle"
  BY DEF Init, Idle, TaskState
<1>2. close["app"] = "no" /\ close["gc"] = "no"
  BY DEF Init
<1>3. TypeOK
  <2>1. 0 \in 0..MaxMsgs /\ 0 \in 0..SndBufSize /\ Rounds \in 0..Rounds
    OBVIOUS
  <2>2. worker \in WorkerState
    BY DEF Init, WorkerState
  <2>3. close \in [{"app", "gc"} -> {"no", "notify", "remove", "mark", "end", "done", "over"}]
    BY DEF Init
  <2>4. QED
    BY <1>1, <2>1, <2>2, <2>3 DEF Init, TypeOK
<1>4. Reachable /\ NoPanic /\ NoLostWakeup
  BY <1>1 DEF Reachable, NoPanic, NoLostWakeup, Task
<1>5. WaitInv
  BY <1>1, <1>2 DEF Init, WaitInv
<1>6. QED
  BY <1>3, <1>4, <1>5 DEF IInv, WaitsSound

\* Waiting is sound for every size of the buffers: a task that awaits can still be
\* woken, or was; no wakeup falls between its try and its await; and the unwrap of
\* readable() and writable() finds an entry, although the worker, the application's
\* close and the collector's close run at any point (Connection::recv, send, flush;
\* RPoll; CUDT::close).
THEOREM WaitsCorrect == Spec => []WaitsSound
<1>1. IInv /\ [Next]_vars => IInv'
  <2> SUFFICES ASSUME IInv, [Next]_vars
               PROVE  IInv'
    OBVIOUS
  <2>1. CASE UNCHANGED vars
    <3>1. TypeOK'
      BY <2>1 DEF IInv, WaitsSound, TypeOK, vars
    <3>2. Reachable' /\ NoPanic' /\ NoLostWakeup'
      BY <2>1 DEF IInv, WaitsSound, Reachable, NoPanic, NoLostWakeup, vars
    <3>3. WaitInv'
      BY <2>1 DEF IInv, WaitInv, vars
    <3>4. QED
      BY <3>1, <3>2, <3>3 DEF IInv, WaitsSound
  <2>2. CASE Next
    BY <2>2, TaskStep, WorkerStep, ClosingStep, OtherStep DEF Next, Application, Collector
  <2>3. QED
    BY <2>1, <2>2
<1>2. IInv => WaitsSound
  BY DEF IInv
<1>3. QED
  BY <1>1, <1>2, InitWaits, PTL DEF Spec
=============================================================================
