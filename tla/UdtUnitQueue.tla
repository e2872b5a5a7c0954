----------------------------- MODULE UdtUnitQueue -----------------------------
(***************************************************************************)
(* The pool of packet slots of a receiving queue (class CUnitQueue,        *)
(* udt-sys/udt/queue.cpp).  The receiving worker takes free units from it  *)
(* and puts them into receive buffers; an application that reads, and the  *)
(* collector that deletes a buffer, free them (udt-sys/udt/buffer.cpp).    *)
(*                                                                         *)
(* The flags and m_iCount are used without a lock.  A unit's flag has one  *)
(* writer at a time, but ++ and -- of m_iCount are a load and a store, so  *)
(* that one of two may be lost.  Which unit of a buffer is freed next, and *)
(* that a unit may be read or dropped (flags 2 and 3) before it is, is the *)
(* buffer's business: here a unit is free (0) or not.                      *)
(***************************************************************************)
EXTENDS Integers, FiniteSets

CONSTANTS Buffer,        \* the receive buffers
          Size,          \* units of one CQEntry
          MaxQueues,     \* bound: CQEntrys; with that many allocation fails
          Num, Den,      \* the pool is filled at Num / Den, 9 / 10 in the code
          MaxDrift       \* bound: how far m_iCount may be off

VARIABLES
    queues,      \* the number of CQEntrys
    used,        \* units whose m_iFlag is not 0
    avail,       \* m_pAvailUnit; m_pCurrQueue is its queue
    count,       \* m_iCount
    held,        \* m_pUnit of each buffer
    freeing,     \* buffers whose reader has m_iCount loaded, and what it loaded
    taker        \* where the worker is, its unit and what it has loaded

vars == <<queues, used, avail, count, held, freeing, taker>>

NoUnit == -1
NoLoad == -100
Unit == 0..(Size * queues - 1)
Idle == [pc |-> "get", unit |-> NoUnit, reg |-> 0, last |-> FALSE]

\* CUnitQueue::init.
Init ==
    /\ queues = 1 /\ used = {} /\ avail = 0 /\ count = 0
    /\ held = [b \in Buffer |-> {}]
    /\ freeing = [b \in Buffer |-> NoLoad]
    /\ taker = Idle

QueueOf(i) == i \div Size
First(q) == q * Size
Last(q) == q * Size + Size - 1
Clamp(n) == IF n < -MaxDrift THEN -MaxDrift
            ELSE IF n > Size * MaxQueues + MaxDrift THEN Size * MaxQueues + MaxDrift ELSE n

-----------------------------------------------------------------------------
(* getNextAvailUnit.                                                       *)

\* When the pool seems filled it is counted, and may grow.
GetUnit ==
    /\ taker.pc = "get"
    /\ taker' = [taker EXCEPT !.pc = IF count * Den > Size * queues * Num THEN "recount" ELSE "scan",
                                !.last = FALSE]
    /\ UNCHANGED <<queues, used, avail, count, held, freeing>>

\* Mutant: m_iCount is trusted.
Recount_Trusts ==
    /\ taker.pc = "recount"
    /\ taker' = [taker EXCEPT !.pc = "increase", !.reg = count]
    /\ UNCHANGED <<queues, used, avail, count, held, freeing>>

\* increase: "adjust/correct m_iCount" ...
Recount ==
    /\ taker.pc = "recount"
    /\ taker' = [taker EXCEPT !.pc = "increase", !.reg = Cardinality(used)]
    /\ UNCHANGED <<queues, used, avail, count, held, freeing>>

\* ... and one CQEntry more behind the last, if that can be allocated.  A scan
\* that found nothing ends with it.
increase ==
    /\ taker.pc = "increase"
    /\ count' = taker.reg
    /\ \/ UNCHANGED queues
       \/ queues < MaxQueues /\ taker.reg * Den >= Size * queues * Num /\ queues' = queues + 1
    /\ taker' = [Idle EXCEPT !.pc = IF taker.last THEN "recv" ELSE "scan"]
    /\ UNCHANGED <<used, avail, held, freeing>>

\* The units that the scan looks at: from m_pAvailUnit on and then the first of
\* its queue, then the other queues in turn; never the last of a queue.
Scanned(i) ==
    /\ i # Last(QueueOf(i))
    /\ QueueOf(i) = QueueOf(avail) => i >= avail \/ i = First(QueueOf(i))

\* When the scan comes to a unit.
Turn(i) ==
    IF QueueOf(i) = QueueOf(avail) THEN (IF i >= avail THEN i - avail ELSE Size)
    ELSE 2 * Size * ((QueueOf(i) - QueueOf(avail) + queues) % queues) + i

FreeUnits == {i \in Unit : Scanned(i) /\ i \notin used}

Scan ==
    /\ taker.pc = "scan"
    /\ IF count >= Size * queues
       THEN taker' = [taker EXCEPT !.pc = "recv"] /\ UNCHANGED avail
       ELSE IF FreeUnits = {}
       THEN /\ taker' = [taker EXCEPT !.pc = "recount", !.last = TRUE]
            /\ avail' = First(QueueOf(avail))
       ELSE LET i == CHOOSE j \in FreeUnits : \A k \in FreeUnits : Turn(j) <= Turn(k) IN
            /\ taker' = [taker EXCEPT !.pc = "recv", !.unit = i]
            /\ avail' = i
    /\ UNCHANGED <<queues, used, count, held, freeing>>

-----------------------------------------------------------------------------
(* The worker goes on with the unit, or without one.                       *)

\* Nothing is received, or a packet that no buffer takes, or one for which there
\* is no unit: the next call finds the unit again.
Pass ==
    /\ taker.pc = "recv"
    /\ taker' = Idle
    /\ UNCHANGED <<queues, used, avail, count, held, freeing>>

\* addData: the unit is in the buffer, its flag set, m_iCount loaded ...
addData(b) ==
    /\ taker.pc = "recv" /\ taker.unit # NoUnit
    /\ held' = [held EXCEPT ![b] = @ \cup {taker.unit}]
    /\ used' = used \cup {taker.unit}
    /\ taker' = [Idle EXCEPT !.pc = "count", !.reg = count]
    /\ UNCHANGED <<queues, avail, count, freeing>>

\* ... and stored.
Counted ==
    /\ taker.pc = "count"
    /\ count' = Clamp(taker.reg + 1)
    /\ taker' = Idle
    /\ UNCHANGED <<queues, used, avail, held, freeing>>

-----------------------------------------------------------------------------
(* The readers.                                                            *)

\* readMsg, scanMsg and ~CRcvBuffer take a unit out and clear its flag ...
free(b, i) ==
    /\ freeing[b] = NoLoad /\ i \in held[b]
    /\ held' = [held EXCEPT ![b] = @ \ {i}]
    /\ used' = used \ {i}
    /\ freeing' = [freeing EXCEPT ![b] = count]
    /\ UNCHANGED <<queues, avail, count, taker>>

\* ... and count it, with what was loaded.
Uncounted(b) ==
    /\ freeing[b] # NoLoad
    /\ count' = Clamp(freeing[b] - 1)
    /\ freeing' = [freeing EXCEPT ![b] = NoLoad]
    /\ UNCHANGED <<queues, used, avail, held, taker>>

-----------------------------------------------------------------------------
Worker == GetUnit \/ Recount \/ increase \/ Scan \/ Pass \/ Counted \/ \E b \in Buffer : addData(b)

Next == Worker \/ \E b \in Buffer : Uncounted(b) \/ \E i \in held[b] : free(b, i)
Spec == Init /\ [][Next]_vars

\* The worker is never blocked; a reader that has begun to count ends.  Nobody
\* has to read or to send.
Fairness ==
    /\ WF_vars(GetUnit) /\ WF_vars(Recount) /\ WF_vars(increase) /\ WF_vars(Scan)
    /\ WF_vars(Pass) /\ WF_vars(Counted)
    /\ \A b \in Buffer : WF_vars(Uncounted(b))

-----------------------------------------------------------------------------
(* Properties.                                                             *)

TypeOK ==
    /\ queues \in 1..MaxQueues /\ used \subseteq Unit /\ avail \in Unit
    /\ count \in -MaxDrift..(Size * MaxQueues + MaxDrift)
    /\ held \in [Buffer -> SUBSET Unit]
    /\ taker.pc \in {"get", "recount", "increase", "scan", "recv", "count"}
    /\ taker.unit \in Unit \cup {NoUnit}

InBuffer == UNION {held[b] : b \in Buffer}

\* A unit is in one buffer at most and its flag says so, and the unit that the
\* worker receives into is in none: no packet is written over data that is still
\* to be read (getNextAvailUnit, addData, readMsg, scanMsg, ~CRcvBuffer).
UnitsExact ==
    /\ TypeOK
    /\ used = InBuffer
    /\ \A b, c \in Buffer : b # c => held[b] \cap held[c] = {}
    /\ taker.pc = "recv" => taker.unit \notin InBuffer

\* The units that can be handed out: all but the last of each queue.
Usable == {i \in Unit : i # Last(QueueOf(i))}

\* While a unit is free packets are not skipped for ever, however far the races
\* have put m_iCount off (getNextAvailUnit, increase: "adjust/correct m_iCount").
PoolServes == Usable \ InBuffer # {} ~> taker.unit # NoUnit \/ Usable \subseteq InBuffer
=============================================================================
