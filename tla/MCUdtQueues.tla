----------------------------- MODULE MCUdtQueues -----------------------------
(***************************************************************************)
(* What the threads of a multiplexer share: the event they sleep on, the   *)
(* sending worker's list, the receiving worker's list and its pool of      *)
(* units.  The four share nothing, so a behaviour uses one of them, and of *)
(* the others no thread has been started.                                  *)
(*                                                                         *)
(* Two threads set the event and two wait for it; CTimer and the collector *)
(* have one that waits.  The threads of the sending list are an            *)
(* application and the receiving worker.                                   *)
(***************************************************************************)
EXTENDS RsynchEvent

CONSTANTS Socket, Thread, None, Interval, Buffer, Size, MaxQueues, Num, Den, MaxDrift, Stale

VARIABLES heap, dead, list, window, worker, sched, closing,
          life, onList, registering, newEntry, ulist, age, hash, receiver,
          queues, used, avail, count, held, freeing, taker

ASSUME QueuesAssumption ==
    /\ None \notin Socket \cup Thread /\ "unused" \notin Thread \cup {None}
    /\ Interval \in Nat /\ Stale \in Nat
    /\ Size \in Nat \ {0} /\ MaxQueues \in Nat \ {0} /\ MaxDrift \in 0..99

Snd == INSTANCE UdtSndQueue
Rcv == INSTANCE UdtRcvQueue
Pool == INSTANCE UdtUnitQueue

sndVars == <<heap, dead, list, window, worker, sched, closing>>
rcvVars == <<life, onList, registering, newEntry, ulist, age, hash, receiver>>
poolVars == <<queues, used, avail, count, held, freeing, taker>>
allVars == <<vars, sndVars, rcvVars, poolVars>>

\* What is not used: its worker is not started, and no thread may begin a call.
NoEvent ==
    /\ status = 0 /\ sem = 0 /\ sets = 0 /\ wakes = 0 /\ owed = FALSE
    /\ setters = [s \in Setter |-> "unused"] /\ waiters = [w \in Waiter |-> "unused"]

NoSnd ==
    /\ heap = <<>> /\ dead = Socket /\ list = "unused" /\ window = FALSE
    /\ worker = [pc |-> "unused", ts |-> 0] /\ sched = 0 /\ closing = "no"

NoRcv ==
    /\ life = [u \in Socket |-> "deleted"] /\ onList = [u \in Socket |-> FALSE]
    /\ registering = {} /\ newEntry = <<>> /\ ulist = <<>> /\ hash = {}
    /\ age = [u \in Socket |-> 0] /\ receiver = [pc |-> "unused", u |-> None, due |-> {}]

NoPool ==
    /\ queues = 1 /\ used = {} /\ avail = 0 /\ count = 0
    /\ held = [b \in Buffer |-> {}] /\ freeing = [b \in Buffer |-> Pool!NoLoad]
    /\ taker = [pc |-> "unused", unit |-> Pool!NoUnit, reg |-> 0, last |-> FALSE]

QueuesInit ==
    \/ Init /\ NoSnd /\ NoRcv /\ NoPool
    \/ NoEvent /\ Snd!Init /\ NoRcv /\ NoPool
    \/ NoEvent /\ NoSnd /\ Rcv!Init /\ NoPool
    \/ NoEvent /\ NoSnd /\ NoRcv /\ Pool!Init

QueuesNext ==
    \/ Next /\ UNCHANGED <<sndVars, rcvVars, poolVars>>
    \/ Snd!Next /\ UNCHANGED <<vars, rcvVars, poolVars>>
    \/ Rcv!Next /\ UNCHANGED <<vars, sndVars, poolVars>>
    \/ Pool!Next /\ UNCHANGED <<vars, sndVars, rcvVars>>

QueuesSpec ==
    /\ QueuesInit /\ [][QueuesNext]_allVars
    /\ Fairness /\ Snd!Fairness /\ Rcv!Fairness /\ Pool!Fairness

\* The structures of the queues are sound: what is on the sending list is there
\* once and attended to, the receiving list is sorted and holds no socket that
\* was deleted, and no unit is handed out that is still in a buffer.
QueuesSound ==
    /\ worker.pc # "unused" => Snd!Attended
    /\ receiver.pc # "unused" => Rcv!RcvListSound
    /\ taker.pc # "unused" => Pool!UnitsExact

\* The workers go on: the sending worker serves its list and ends when it is
\* joined, the receiving one looks at every socket's timers and lets the closed
\* ones go.
WorkersGoOn == Snd!WorkerGoesOn /\ Rcv!TimersRun

\* While a unit is free packets are not skipped for ever (getNextAvailUnit).
PoolGoesOn == taker.pc # "unused" => Pool!PoolServes
=============================================================================
