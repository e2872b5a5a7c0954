--------------------------- MODULE UdtQueuesProofs ---------------------------
(***************************************************************************)
(* What the threads of a multiplexer share is sound, for any number of     *)
(* threads, sockets, buffers and units and any number of calls: the event  *)
(* invents no wake-up and loses no set, and the pool of units and the      *)
(* workers' lists are what QueuesSound says.                               *)
(***************************************************************************)
EXTENDS MCUdtQueues, FiniteSetTheorems, SequenceTheorems, WellFoundedInduction, TLAPS

-----------------------------------------------------------------------------
(* The event.                                                              *)

\* The setters that have counted and not yet posted.
Posting == {s \in Setter : setters[s] \in {"post", "late"}}

\* The set that the counter itself remembers.
Remembered == IF status = 1 THEN 1 ELSE 0

\* TypeOK, without the history variable that the argument does not need.
Typed ==
    /\ status \in Int /\ status <= 1 /\ sem \in Nat
    /\ setters \in [Setter -> {"idle", "post", "late"}]
    /\ waiters \in [Waiter -> {"idle", "sem", "undo"}]
    /\ sets \in 0..MaxSets /\ wakes \in Nat

\* Each set pays for one thing only: a wake-up, a count of the semaphore, a
\* post that is still to come, or the counter at 1.
PaidInv ==
    /\ Typed
    /\ wakes + sem + Cardinality(Posting) + Remembered <= sets

LEMMA PostingFinite == IsFiniteSet(Posting) /\ Cardinality(Posting) \in Nat
  <1>1. Posting \subseteq Setter
    BY DEF Posting
  <1>2. IsFiniteSet(Posting)
    BY <1>1, EventAssumption, FS_Subset
  <1> QED BY <1>2, FS_CardinalityType

\* wait_for that returns true turns "post" into "late": who posts is the same.
LEMMA PostingKept ==
    ASSUME Typed, setters' = [s \in Setter |-> IF setters[s] = "post" THEN "late" ELSE setters[s]]
    PROVE  setters' \in [Setter -> {"idle", "post", "late"}] /\ Posting' = Posting
  BY DEF Typed, Posting

LEMMA InitPaid == Init => PaidInv
  <1> SUFFICES ASSUME Init PROVE PaidInv
    OBVIOUS
  <1>1. Typed
    BY EventAssumption DEF Init, Typed
  <1>2. Posting = {}
    BY DEF Init, Posting
  <1>3. Cardinality(Posting) = 0
    BY <1>2, FS_EmptySet
  <1> QED BY <1>1, <1>3 DEF Init, PaidInv, Remembered

LEMMA NextPaid == PaidInv /\ [Next]_vars => PaidInv'
  <1> SUFFICES ASSUME PaidInv, [Next]_vars PROVE PaidInv'
    OBVIOUS
  <1> DEFINE P == Cardinality(Posting)
  <1>t. /\ Typed
        /\ wakes + sem + P + Remembered <= sets
        /\ status \in Int /\ status <= 1 /\ sem \in Nat /\ wakes \in Nat /\ sets \in Nat
        /\ MaxSets \in Nat /\ P \in Nat
    BY PostingFinite, EventAssumption DEF PaidInv, Typed
  <1>1. ASSUME NEW s \in Setter, SetStatus(s) PROVE PaidInv'
    <2>1. Typed'
      BY <1>1, <1>t DEF SetStatus, Typed
    <2>2. CASE status < 0
      <3>1. Posting' = Posting \cup {s} /\ s \notin Posting
        BY <1>1, <1>t, <2>2 DEF SetStatus, Posting, Typed
      <3>2. Cardinality(Posting') = P + 1
        BY <3>1, PostingFinite, FS_AddElement
      <3> QED BY <1>1, <1>t, <2>1, <2>2, <3>2 DEF SetStatus, PaidInv, Remembered
    <2>3. CASE ~(status < 0)
      <3>1. Posting' = Posting
        BY <1>1, <1>t, <2>3 DEF SetStatus, Posting, Typed
      <3> QED BY <1>1, <1>t, <2>1, <2>3, <3>1 DEF SetStatus, PaidInv, Remembered
    <2> QED BY <2>2, <2>3
  <1>2. ASSUME NEW s \in Setter, Post(s) PROVE PaidInv'
    <2>1. Typed'
      BY <1>2, <1>t DEF Post, Typed
    <2>2. Posting' = Posting \ {s} /\ s \in Posting
      BY <1>2, <1>t DEF Post, Posting, Typed
    <2>3. Cardinality(Posting') = P - 1
      BY <2>2, PostingFinite, FS_RemoveElement
    <2> QED BY <1>2, <1>t, <2>1, <2>3 DEF Post, PaidInv, Remembered
  <1>3. ASSUME NEW w \in Waiter, Sub(w) PROVE PaidInv'
    <2>1. CASE status = 1
      BY <1>3, <1>t, <2>1, PostingKept DEF Sub, ReturnTrue, PaidInv, Typed, Remembered
    <2>2. CASE status # 1
      <3>1. Posting' = Posting
        BY <1>3, <2>2 DEF Sub, Posting
      <3> QED BY <1>3, <1>t, <2>2, <3>1 DEF Sub, PaidInv, Typed, Remembered
    <2> QED BY <2>1, <2>2
  <1>4. ASSUME NEW w \in Waiter, Take(w) PROVE PaidInv'
    BY <1>4, <1>t, PostingKept DEF Take, ReturnTrue, PaidInv, Typed, Remembered
  <1>5. ASSUME NEW w \in Waiter, TimeOut(w) PROVE PaidInv'
    <2>1. Posting' = Posting
      BY <1>5 DEF TimeOut, Posting
    <2> QED BY <1>5, <1>t, <2>1 DEF TimeOut, PaidInv, Typed, Remembered
  <1>6. ASSUME NEW w \in Waiter, Undo(w) PROVE PaidInv'
    <2>1. CASE status = 1
      BY <1>6, <1>t, <2>1, PostingKept DEF Undo, ReturnTrue, PaidInv, Typed, Remembered
    <2>2. CASE status # 1
      <3>1. Posting' = Posting
        BY <1>6, <2>2 DEF Undo, Posting
      <3> QED BY <1>6, <1>t, <2>2, <3>1 DEF Undo, PaidInv, Typed, Remembered
    <2> QED BY <2>1, <2>2
  <1>7. ASSUME UNCHANGED vars PROVE PaidInv'
    <2>1. Posting' = Posting
      BY <1>7 DEF vars, Posting
    <2> QED BY <1>7, <1>t, <2>1 DEF vars, PaidInv, Typed, Remembered
  <1> QED BY <1>1, <1>2, <1>3, <1>4, <1>5, <1>6, <1>7 DEF Next, Wait

\* No wait_for returns true that a set has not paid for (rsynch.h, set and
\* wait_for).
THEOREM NoWakeInvented == Spec => []WakesPaid
  <1>1. PaidInv => WakesPaid
    BY PostingFinite, EventAssumption DEF PaidInv, Typed, WakesPaid, Remembered
  <1> QED BY <1>1, InitPaid, NextPaid, PTL DEF Spec

\* A set that has ended is in the counter or in the semaphore until a wait_for
\* returns true, whatever times out meanwhile (rsynch.h, set and wait_for).
THEOREM SetIsKept == Spec => []SetKept
  <1>1. Init => SetKept
    BY DEF Init, SetKept
  <1>2. PaidInv /\ SetKept /\ [Next]_vars => SetKept'
    <2> SUFFICES ASSUME PaidInv, SetKept, [Next]_vars PROVE SetKept'
      OBVIOUS
    <2>t. status \in Int /\ status <= 1 /\ sem \in Nat
      BY DEF PaidInv, Typed
    <2>1. ASSUME NEW s \in Setter, SetStatus(s) PROVE SetKept'
      <3>1. CASE status >= 0
        BY <2>1, <2>t, <3>1 DEF SetStatus, SetKept
      <3>2. CASE ~(status >= 0)
        <4>1. owed' => owed
          BY <2>1, <3>2, Zenon DEF SetStatus
        <4>2. sem' = sem /\ status # 1
          BY <2>1, <2>t, <3>2 DEF SetStatus
        <4> QED BY <4>1, <4>2, Zenon DEF SetKept
      <3> QED BY <3>1, <3>2
    <2>2. ASSUME NEW s \in Setter, Post(s) PROVE SetKept'
      BY <2>2, <2>t DEF Post, SetKept
    <2>3. ASSUME NEW w \in Waiter, Wait(w) PROVE SetKept'
      BY <2>3, <2>t DEF Wait, Sub, Take, TimeOut, Undo, ReturnTrue, SetKept
    <2>4. ASSUME UNCHANGED vars PROVE SetKept'
      BY <2>4 DEF vars, SetKept
    <2> QED BY <2>1, <2>2, <2>3, <2>4 DEF Next
  <1> QED BY <1>1, <1>2, InitPaid, NextPaid, PTL DEF Spec
-----------------------------------------------------------------------------
(* The pool of units.                                                      *)

LEMMA LeastNat ==
    ASSUME NEW S \in SUBSET Nat, S # {}
    PROVE  \E m \in S : \A x \in S : m <= x
<1> DEFINE less == {p \in Nat \X Nat : p[1] < p[2]}
<1>1. IsWellFoundedOn(less, Nat)
  BY NatLessThanWellFounded DEF OpToRel
<1>2. PICK m \in S : \A x \in S : <<x, m>> \notin less
  BY <1>1, WFMin
<1>3. ASSUME NEW x \in S
      PROVE  m <= x
  <2>1. x \in Nat /\ m \in Nat
    OBVIOUS
  <2>2. ~(x < m)
    BY <1>2, <2>1
  <2>3. QED
    BY <2>1, <2>2
<1>4. QED
  BY <1>3

LEMMA Divided ==
    ASSUME NEW a \in Nat, NEW s \in Nat \ {0}
    PROVE  a \div s \in Nat /\ (a \div s) * s \in Nat /\ (a \div s) * s <= a
  OBVIOUS

LEMMA Product ==
    ASSUME NEW s \in Nat \ {0}, NEW m \in Nat \ {0}, NEW n \in Nat \ {0}, m <= n
    PROVE  /\ s * m \in Nat \ {0} /\ s * n \in Nat \ {0} /\ s * m <= s * n
           /\ s * (m + 1) \in Nat /\ s * m <= s * (m + 1)
  OBVIOUS

\* What each step needs: the types in full, that the worker has a unit only when
\* it receives, and that a recount is a number of units.
PoolPc == {"get", "recount", "increase", "scan", "recv", "count"}
Takers == [pc : PoolPc, unit : Int, reg : Int, last : BOOLEAN]

PoolInv ==
    /\ Pool!UnitsExact
    /\ taker \in Takers
    /\ freeing \in [Buffer -> Int]
    /\ taker.pc # "recv" => taker.unit = Pool!NoUnit
    /\ taker.pc = "increase" => taker.reg \in 0..(Size * MaxQueues)

LEMMA Retaken ==
    ASSUME NEW t \in Takers, NEW p \in PoolPc
    PROVE  /\ [t EXCEPT !.pc = p] \in Takers
           /\ [t EXCEPT !.pc = p].pc = p /\ [t EXCEPT !.pc = p].unit = t.unit
<1>1. [t EXCEPT !.pc = p] \in Takers
  BY DEF Takers
<1>2. [t EXCEPT !.pc = p].pc = p /\ [t EXCEPT !.pc = p].unit = t.unit
  BY DEF Takers
<1>3. QED
  BY <1>1, <1>2

LEMMA PoolTypes ==
    ASSUME PoolInv
    PROVE  /\ Size \in Nat \ {0} /\ MaxQueues \in Nat \ {0} /\ MaxDrift \in Nat
           /\ queues \in Nat \ {0} /\ queues <= MaxQueues
           /\ Size * queues \in Nat \ {0} /\ Size * MaxQueues \in Nat \ {0}
           /\ Size * queues <= Size * MaxQueues /\ Size * queues <= Size * (queues + 1)
           /\ Size * (queues + 1) \in Nat
           /\ Pool!Unit \subseteq Nat
<1>1. queues \in 1..MaxQueues
  BY DEF PoolInv, Pool!UnitsExact, Pool!TypeOK
<1>2. /\ Size \in Nat \ {0} /\ MaxQueues \in Nat \ {0} /\ MaxDrift \in Nat
      /\ queues \in Nat \ {0} /\ queues <= MaxQueues
  BY <1>1, QueuesAssumption
<1>3. /\ Size * queues \in Nat \ {0} /\ Size * MaxQueues \in Nat \ {0}
      /\ Size * queues <= Size * MaxQueues /\ Size * queues <= Size * (queues + 1)
      /\ Size * (queues + 1) \in Nat
  BY ONLY <1>2, Product
<1>4. Pool!Unit \subseteq Nat
  BY <1>2, <1>3 DEF Pool!Unit
<1>5. QED
  BY <1>2, <1>3, <1>4

LEMMA Clamped ==
    ASSUME NEW n \in Int, PoolInv
    PROVE  Pool!Clamp(n) \in -MaxDrift..(Size * MaxQueues + MaxDrift)
<1>1. MaxDrift \in Nat /\ Size * MaxQueues \in Nat
  BY PoolTypes
<1>2. QED
  BY <1>1 DEF Pool!Clamp

\* The scan has a first of the free units, and takes it.
LEMMA ScanFinds ==
    ASSUME PoolInv, Pool!FreeUnits # {},
           NEW i, i = CHOOSE j \in Pool!FreeUnits : \A k \in Pool!FreeUnits : Pool!Turn(j) <= Pool!Turn(k)
    PROVE  i \in Pool!Unit /\ i \notin used
<1> DEFINE F == Pool!FreeUnits
           T == {Pool!Turn(j) : j \in F}
<1>1. F \subseteq Pool!Unit \ used
  BY DEF Pool!FreeUnits
<1>2. ASSUME NEW j \in F
      PROVE  Pool!Turn(j) \in Nat
  <2>1. j \in Nat /\ avail \in Nat /\ Size \in Nat \ {0} /\ queues \in Nat \ {0}
    BY <1>1, PoolTypes DEF PoolInv, Pool!UnitsExact, Pool!TypeOK
  <2>2. Pool!QueueOf(j) \in Nat /\ Pool!QueueOf(avail) \in Nat
    BY <2>1, Divided DEF Pool!QueueOf
  <2>3. CASE Pool!QueueOf(j) = Pool!QueueOf(avail)
    BY <2>1, <2>3 DEF Pool!Turn
  <2>4. CASE Pool!QueueOf(j) # Pool!QueueOf(avail)
    <3> DEFINE d == (Pool!QueueOf(j) - Pool!QueueOf(avail) + queues) % queues
    <3>1. d \in Nat
      BY <2>1, <2>2
    <3>2. Pool!Turn(j) = 2 * Size * d + j
      BY <2>4 DEF Pool!Turn
    <3> HIDE DEF d
    <3>3. 2 * Size * d \in Nat
      BY <2>1, <3>1
    <3>4. QED
      BY <2>1, <3>2, <3>3
  <2>5. QED
    BY <2>3, <2>4
<1>3. T \in SUBSET Nat /\ T # {}
  BY <1>2
<1> HIDE DEF F
<1>4. PICK m \in T : \A x \in T : m <= x
  BY ONLY <1>3, LeastNat
<1>5. PICK j \in F : m = Pool!Turn(j)
  BY <1>4
<1>6. \A k \in F : Pool!Turn(j) <= Pool!Turn(k)
  BY <1>4, <1>5
<1>7. i \in F
  BY <1>6 DEF F
<1>8. QED
  BY <1>1, <1>7

\* What readers and the worker do to m_iCount does not matter to the flags.
LEMMA PoolMoved ==
    ASSUME PoolInv, UNCHANGED <<queues, used, held>>, avail' \in Pool!Unit,
           count' \in -MaxDrift..(Size * MaxQueues + MaxDrift),
           freeing' \in [Buffer -> Int],
           taker' \in Takers,
           taker'.unit \in Pool!Unit \cup {Pool!NoUnit},
           taker'.pc = "recv" => taker'.unit \notin Pool!InBuffer,
           taker'.pc # "recv" => taker'.unit = Pool!NoUnit,
           taker'.pc = "increase" => taker'.reg \in 0..(Size * MaxQueues)
    PROVE  PoolInv'
<1>1. Pool!TypeOK'
  BY DEF PoolInv, PoolPc, Takers, Pool!UnitsExact, Pool!TypeOK, Pool!Unit, Pool!NoUnit
<1>2. Pool!InBuffer' = Pool!InBuffer
  BY DEF Pool!InBuffer
<1>3. Pool!UnitsExact'
  BY <1>1, <1>2 DEF PoolInv, Pool!UnitsExact
<1>4. QED
  BY <1>3 DEF PoolInv

LEMMA PoolKept ==
    ASSUME PoolInv, UNCHANGED <<queues, used, held, avail>>,
           count' \in -MaxDrift..(Size * MaxQueues + MaxDrift),
           freeing' \in [Buffer -> Int],
           taker' \in Takers,
           taker'.unit \in Pool!Unit \cup {Pool!NoUnit},
           taker'.pc = "recv" => taker'.unit \notin Pool!InBuffer,
           taker'.pc # "recv" => taker'.unit = Pool!NoUnit,
           taker'.pc = "increase" => taker'.reg \in 0..(Size * MaxQueues)
    PROVE  PoolInv'
<1>1. avail' \in Pool!Unit
  BY DEF PoolInv, Pool!UnitsExact, Pool!TypeOK
<1>2. QED
  BY <1>1, PoolMoved
LEMMA PoolCardinality == \A S : Pool!Cardinality(S) = Cardinality(S)
  BY DEF Pool!Cardinality, Cardinality

LEMMA PoolStarts == Pool!Init => PoolInv
<1> SUFFICES ASSUME Pool!Init PROVE PoolInv
  OBVIOUS
<1>1. Size \in Nat \ {0} /\ MaxQueues \in Nat \ {0} /\ MaxDrift \in Nat
  BY QueuesAssumption
<1>2. Size * 1 = Size /\ Size * MaxQueues \in Nat
  BY ONLY <1>1, Product
<1>3. Pool!Unit = 0..(Size - 1) /\ 0 \in Pool!Unit
  BY <1>1, <1>2 DEF Pool!Init, Pool!Unit
<1>4. taker = [pc |-> "get", unit |-> -1, reg |-> 0, last |-> FALSE]
  BY DEF Pool!Init, Pool!Idle, Pool!NoUnit
<1>5. Pool!TypeOK
  BY <1>1, <1>2, <1>3, <1>4 DEF Pool!Init, Pool!TypeOK, Pool!NoUnit
<1>6. Pool!InBuffer = {}
  BY DEF Pool!Init, Pool!InBuffer
<1>7. Pool!UnitsExact
  BY <1>4, <1>5, <1>6 DEF Pool!Init, Pool!UnitsExact
<1>8. QED
  BY <1>4, <1>7 DEF Pool!Init, Pool!NoLoad, Pool!NoUnit, PoolInv, PoolPc, Takers

LEMMA NextPool == PoolInv /\ [Pool!Next]_poolVars => PoolInv'
<1> SUFFICES ASSUME PoolInv, [Pool!Next]_poolVars PROVE PoolInv'
  OBVIOUS
<1>t. /\ taker \in Takers
      /\ taker.unit \in Pool!Unit \cup {Pool!NoUnit}
      /\ count \in -MaxDrift..(Size * MaxQueues + MaxDrift) /\ count \in Int
      /\ freeing \in [Buffer -> Int] /\ MaxDrift \in Nat
      /\ avail \in Pool!Unit /\ used \subseteq Pool!Unit /\ held \in [Buffer -> SUBSET Pool!Unit]
      /\ used = Pool!InBuffer
      /\ \A b, c \in Buffer : b # c => held[b] \cap held[c] = {}
      /\ taker.pc = "recv" => taker.unit \notin Pool!InBuffer
      /\ taker.pc # "recv" => taker.unit = Pool!NoUnit
      /\ taker.pc = "increase" => taker.reg \in 0..(Size * MaxQueues)
      /\ queues \in 1..MaxQueues
  BY PoolTypes DEF PoolInv, Pool!UnitsExact, Pool!TypeOK
<1>idle. /\ Pool!Idle = [pc |-> "get", unit |-> -1, reg |-> 0, last |-> FALSE]
         /\ Pool!NoUnit = -1
  BY DEF Pool!Idle, Pool!NoUnit
<1>1. CASE Pool!GetUnit
  <2>1. /\ taker' \in Takers
        /\ taker'.unit = taker.unit /\ taker'.pc \in {"recount", "scan"} /\ taker.pc = "get"
    BY <1>1, <1>t DEF Pool!GetUnit, PoolPc, Takers
  <2>2. UNCHANGED <<queues, used, avail, held, count, freeing>>
    BY <1>1 DEF Pool!GetUnit
  <2>3. QED
    BY <1>t, <2>1, <2>2, PoolKept
<1>2. CASE Pool!Recount
  <2>1. IsFiniteSet(Pool!Unit) /\ Cardinality(Pool!Unit) = Size * queues
    <3>1. 0 \in Int /\ Size * queues - 1 \in Int /\ 0 <= Size * queues - 1
      BY PoolTypes
    <3>2. /\ IsFiniteSet(0..(Size * queues - 1))
          /\ Cardinality(0..(Size * queues - 1)) = Size * queues - 1 - 0 + 1
      BY <3>1, FS_Interval
    <3>3. QED
      BY <3>1, <3>2, PoolTypes DEF Pool!Unit
  <2>2. IsFiniteSet(used) /\ Cardinality(used) <= Cardinality(Pool!Unit)
    BY <1>t, <2>1, FS_Subset
  <2>3. Cardinality(used) \in Nat
    BY <2>2, FS_CardinalityType
  <2>4. Cardinality(used) \in 0..(Size * MaxQueues)
    BY <2>1, <2>2, <2>3, PoolTypes
  <2>5. /\ taker' \in Takers
        /\ taker'.unit = taker.unit /\ taker'.pc = "increase" /\ taker'.reg = Cardinality(used)
        /\ taker.pc = "recount"
    <3>t. taker \in Takers
      BY <1>t
    <3>1. taker' = [taker EXCEPT !.pc = "increase", !.reg = Cardinality(used)]
      BY <1>2, PoolCardinality, Zenon DEF Pool!Recount
    <3>2. QED
      <4>1. "increase" \in PoolPc /\ Cardinality(used) \in Int
        BY <2>3 DEF PoolPc, Takers
      <4>2. taker.pc = "recount"
        BY <1>2 DEF Pool!Recount
      <4>3. PICK t, n : t = taker /\ n = Cardinality(used)
        OBVIOUS
      <4>4. t \in Takers /\ n \in Int
        BY <3>t, <4>1, <4>3
      <4>5. PICK s : s = [t EXCEPT !.pc = "increase", !.reg = n]
        OBVIOUS
      <4>6. s \in Takers /\ s.pc = "increase" /\ s.unit = t.unit /\ s.reg = n
        <5>1. s \in Takers
          BY ONLY <4>1, <4>4, <4>5 DEF Takers
        <5>2. s.pc = "increase" /\ s.unit = t.unit /\ s.reg = n
          BY ONLY <4>4, <4>5 DEF Takers
        <5>3. QED
          BY ONLY <5>1, <5>2
      <4>7. taker' = s
        BY ONLY <3>1, <4>3, <4>5
      <4>8. QED
        BY ONLY <4>2, <4>3, <4>6, <4>7
  <2>6. UNCHANGED <<queues, used, avail, held, count, freeing>>
    BY <1>2 DEF Pool!Recount
  <2>7. QED
    BY <1>t, <2>4, <2>5, <2>6, PoolKept
<1>3. CASE Pool!increase
  <2>1. /\ taker' \in Takers
        /\ taker'.unit = -1 /\ taker'.pc \in {"recv", "scan"}
    <3>1. PICK p \in {"recv", "scan"} : taker' = [Pool!Idle EXCEPT !.pc = p]
      BY <1>3, Zenon DEF Pool!increase
    <3>2. p \in PoolPc /\ 0 \in Int
      BY DEF PoolPc, Takers
    <3>3. Pool!Idle \in Takers /\ Pool!Idle.unit = -1
      BY <1>idle DEF PoolPc, Takers
    <3>4. QED
      BY ONLY <3>1, <3>2, <3>3, Retaken
  <2>2. count' \in -MaxDrift..(Size * MaxQueues + MaxDrift)
    BY <1>3, <1>t, PoolTypes DEF Pool!increase
  <2>3. UNCHANGED <<used, avail, held, freeing>>
    BY <1>3 DEF Pool!increase
  <2>4. -1 \notin Pool!InBuffer
    BY <1>t, PoolTypes
  <2>5. CASE UNCHANGED queues
    BY <1>idle, <1>t, <2>1, <2>2, <2>3, <2>4, <2>5, PoolKept
  <2>6. CASE queues < MaxQueues /\ queues' = queues + 1
    <3>1. queues' \in 1..MaxQueues
      BY <2>6, PoolTypes
    <3>2. Pool!Unit \subseteq Pool!Unit'
      BY <2>6, PoolTypes DEF Pool!Unit
    <3>3. Pool!TypeOK'
      BY <1>idle, <1>t, <2>1, <2>2, <2>3, <3>1, <3>2 DEF Pool!TypeOK, PoolPc, Takers, Pool!NoUnit
    <3>4. Pool!InBuffer' = Pool!InBuffer
      BY <2>3 DEF Pool!InBuffer
    <3>5. Pool!UnitsExact'
      BY <1>t, <2>1, <2>3, <2>4, <3>3, <3>4 DEF Pool!UnitsExact
    <3>6. QED
      BY <1>t, <1>idle, <2>1, <2>3, <3>5 DEF PoolInv
  <2>7. QED
    BY <1>3, <2>5, <2>6 DEF Pool!increase
<1>4. CASE Pool!Scan
  <2>1. UNCHANGED <<queues, used, held, count, freeing>>
    BY <1>4 DEF Pool!Scan
  <2>2. \/ taker' = [taker EXCEPT !.pc = "recv"] /\ UNCHANGED avail
        \/ taker' = [taker EXCEPT !.pc = "recount", !.last = TRUE] /\ avail' = Pool!First(Pool!QueueOf(avail))
        \/ \E i : /\ Pool!FreeUnits # {}
                  /\ i = CHOOSE j \in Pool!FreeUnits : \A k \in Pool!FreeUnits : Pool!Turn(j) <= Pool!Turn(k)
                  /\ taker' = [taker EXCEPT !.pc = "recv", !.unit = i] /\ avail' = i
    BY <1>4, Zenon DEF Pool!Scan
  <2>3. CASE taker' = [taker EXCEPT !.pc = "recv"] /\ UNCHANGED avail
    <3>1. taker' \in Takers /\ taker'.unit = -1 /\ taker'.pc = "recv"
      <4>1. "recv" \in PoolPc /\ 0 \in Int
        BY DEF PoolPc, Takers
      <4>2. taker \in Takers /\ taker.unit = -1
        BY <1>4, <1>t, <1>idle DEF Pool!Scan
      <4>3. QED
        BY ONLY <2>3, <4>1, <4>2, Retaken
    <3>2. -1 \notin Pool!InBuffer
      BY <1>t, PoolTypes
    <3>3. QED
      BY <1>t, <1>idle, <3>2, <2>1, <2>3, <3>1, PoolKept
  <2>4. CASE taker' = [taker EXCEPT !.pc = "recount", !.last = TRUE] /\ avail' = Pool!First(Pool!QueueOf(avail))
    <3>1. /\ taker' \in Takers
          /\ taker'.unit = taker.unit /\ taker'.pc = "recount" /\ taker.pc = "scan"
      BY <1>4, <1>t, <2>4 DEF PoolPc, Takers, Pool!Scan
    <3>2. avail \in Nat /\ Size \in Nat \ {0}
      BY <1>t, PoolTypes
    <3>3. avail' \in Nat /\ avail' <= avail
      BY <2>4, <3>2, Divided DEF Pool!First, Pool!QueueOf
    <3>4. avail' \in Pool!Unit
      BY <1>t, <3>2, <3>3, PoolTypes DEF Pool!Unit
    <3>5. QED
      BY <1>t, <2>1, <3>1, <3>4, PoolMoved
  <2>5. ASSUME NEW i, Pool!FreeUnits # {},
               i = CHOOSE j \in Pool!FreeUnits : \A k \in Pool!FreeUnits : Pool!Turn(j) <= Pool!Turn(k),
               taker' = [taker EXCEPT !.pc = "recv", !.unit = i], avail' = i
        PROVE  PoolInv'
    <3>1. i \in Pool!Unit /\ i \notin used
      BY <2>5, ScanFinds
    <3>2. i \in Int
      BY <3>1, PoolTypes
    <3>3. /\ taker' \in Takers
          /\ taker'.unit = i /\ taker'.pc = "recv"
      BY <1>t, <2>5, <3>2 DEF PoolPc, Takers
    <3>4. QED
      BY <1>t, <2>1, <2>5, <3>1, <3>3, PoolMoved
  <2>6. QED
    BY <2>2, <2>3, <2>4, <2>5, Zenon
<1>5. CASE Pool!Pass
  <2>1. /\ taker' \in Takers
        /\ taker'.unit = -1 /\ taker'.pc = "get"
    BY <1>5, <1>idle DEF Pool!Pass, PoolPc, Takers
  <2>2. UNCHANGED <<queues, used, avail, held, count, freeing>>
    BY <1>5 DEF Pool!Pass
  <2>3. QED
    BY <1>idle, <1>t, <2>1, <2>2, PoolKept
<1>6. CASE Pool!Counted
  <2>1. /\ taker' \in Takers
        /\ taker'.unit = -1 /\ taker'.pc = "get"
    BY <1>6, <1>idle DEF Pool!Counted, PoolPc, Takers
  <2>2. UNCHANGED <<queues, used, avail, held, freeing>>
    BY <1>6 DEF Pool!Counted
  <2>3. taker.reg + 1 \in Int
    BY <1>t DEF Takers
  <2>4. count' \in -MaxDrift..(Size * MaxQueues + MaxDrift)
    BY <1>6, <2>3, Clamped DEF Pool!Counted
  <2>5. QED
    BY <1>idle, <1>t, <2>1, <2>2, <2>4, PoolKept
<1>7. ASSUME NEW b \in Buffer, Pool!addData(b)
      PROVE  PoolInv'
  <2> DEFINE n == taker.unit
  <2>1. taker.pc = "recv" /\ n \in Pool!Unit /\ n \notin Pool!InBuffer
    BY <1>7, <1>t DEF Pool!addData
  <2>2. /\ held' = [held EXCEPT ![b] = @ \cup {n}] /\ used' = used \cup {n}
        /\ UNCHANGED <<queues, avail, count, freeing>>
    BY <1>7 DEF Pool!addData
  <2>3. /\ taker' \in Takers
        /\ taker'.unit = -1 /\ taker'.pc = "count"
    <3>1. taker' = [pc |-> "count", unit |-> -1, reg |-> count, last |-> FALSE]
      BY <1>7, <1>idle DEF Pool!addData
    <3>2. QED
      BY <1>t, <3>1 DEF PoolPc, Takers
  <2> HIDE DEF n
  <2>4. Pool!Unit' = Pool!Unit
    BY <2>2 DEF Pool!Unit
  <2>5. \A c \in Buffer : held'[c] = IF c = b THEN held[b] \cup {n} ELSE held[c]
    BY <1>t, <2>2
  <2>6. held' \in [Buffer -> SUBSET Pool!Unit]
    BY <1>t, <2>1, <2>2
  <2>7. Pool!InBuffer' = Pool!InBuffer \cup {n}
    BY <1>7, <2>5 DEF Pool!InBuffer
  <2>8. \A c \in Buffer : n \notin held[c]
    BY <2>1 DEF Pool!InBuffer
  <2>9. \A c, d \in Buffer : c # d => held'[c] \cap held'[d] = {}
    BY <1>t, <2>5, <2>8
  <2>10. Pool!TypeOK'
    BY <1>idle, <1>t, <2>1, <2>2, <2>3, <2>4, <2>6 DEF Pool!TypeOK, PoolPc, Takers, Pool!NoUnit
  <2>11. Pool!UnitsExact'
    BY <1>t, <2>2, <2>3, <2>7, <2>9, <2>10 DEF Pool!UnitsExact
  <2>12. QED
    BY <1>t, <1>idle, <2>2, <2>3, <2>11 DEF PoolInv
<1>8. ASSUME NEW b \in Buffer, Pool!Uncounted(b)
      PROVE  PoolInv'
  <2>1. UNCHANGED <<queues, used, avail, held, taker>>
    BY <1>8 DEF Pool!Uncounted
  <2>2. freeing[b] - 1 \in Int
    BY <1>t
  <2>3. count' \in -MaxDrift..(Size * MaxQueues + MaxDrift)
    BY <1>8, <2>2, Clamped DEF Pool!Uncounted
  <2>4. freeing' \in [Buffer -> Int]
    BY <1>8, <1>t DEF Pool!Uncounted, Pool!NoLoad
  <2>5. QED
    BY <1>t, <2>1, <2>3, <2>4, PoolKept
<1>9. ASSUME NEW b \in Buffer, NEW i \in held[b], Pool!free(b, i)
      PROVE  PoolInv'
  <2>1. /\ held' = [held EXCEPT ![b] = @ \ {i}] /\ used' = used \ {i}
        /\ freeing' = [freeing EXCEPT ![b] = count]
        /\ UNCHANGED <<queues, avail, count, taker>>
    BY <1>9 DEF Pool!free
  <2>2. Pool!Unit' = Pool!Unit
    BY <2>1 DEF Pool!Unit
  <2>3. \A c \in Buffer : held'[c] = IF c = b THEN held[b] \ {i} ELSE held[c]
    BY <1>t, <2>1
  <2>4. held' \in [Buffer -> SUBSET Pool!Unit] /\ freeing' \in [Buffer -> Int]
    BY <1>t, <2>1
  <2>5. \A c \in Buffer : c # b => i \notin held[c]
    BY <1>9, <1>t
  <2>6. Pool!InBuffer' = Pool!InBuffer \ {i}
    BY <1>9, <2>3, <2>5 DEF Pool!InBuffer
  <2>7. \A c, d \in Buffer : c # d => held'[c] \cap held'[d] = {}
    BY <1>t, <2>3
  <2>8. Pool!TypeOK'
    BY <1>t, <2>1, <2>2, <2>4 DEF Pool!TypeOK, PoolPc, Takers, Pool!NoUnit
  <2>9. Pool!UnitsExact'
    BY <1>t, <2>1, <2>6, <2>7, <2>8 DEF Pool!UnitsExact
  <2>10. QED
    BY <1>t, <2>1, <2>4, <2>9 DEF PoolInv
<1>10. CASE UNCHANGED poolVars
  BY <1>t, <1>10, PoolKept DEF poolVars
<1>11. QED
  BY <1>1, <1>2, <1>3, <1>4, <1>5, <1>6, <1>7, <1>8, <1>9, <1>10 DEF Pool!Next, Pool!Worker
\* No unit is in two buffers, or handed out while it is in one, however many
\* readers free units while the worker takes them and whatever their races have
\* made of m_iCount (getNextAvailUnit, increase, addData, readMsg, scanMsg).
THEOREM PoolSound == Pool!Spec => []Pool!UnitsExact
<1>1. PoolInv /\ [Pool!Next]_Pool!vars => PoolInv'
  BY NextPool DEF Pool!vars, poolVars
<1>2. PoolInv => Pool!UnitsExact
  BY DEF PoolInv
<1>3. QED
  BY <1>1, <1>2, PoolStarts, PTL DEF Pool!Spec
-----------------------------------------------------------------------------
(* Lists without repetition.                                               *)

LEMMA Appended ==
    ASSUME NEW X, NEW q \in Seq(X), NEW x \in X, Rcv!IsInjective(q), x \notin Rcv!ToSet(q)
    PROVE  /\ Append(q, x) \in Seq(X) /\ Rcv!IsInjective(Append(q, x))
           /\ Rcv!ToSet(Append(q, x)) = Rcv!ToSet(q) \cup {x}
           /\ DOMAIN Append(q, x) = DOMAIN q \cup {Len(q) + 1}
           /\ Append(q, x)[Len(q) + 1] = x /\ \A i \in DOMAIN q : Append(q, x)[i] = q[i]
           /\ \A i \in DOMAIN q : i < Len(q) + 1
<1>1. /\ Append(q, x) \in Seq(X) /\ DOMAIN Append(q, x) = DOMAIN q \cup {Len(q) + 1}
      /\ Len(q) + 1 \notin DOMAIN q
      /\ Append(q, x)[Len(q) + 1] = x /\ \A i \in DOMAIN q : Append(q, x)[i] = q[i]
      /\ \A i \in DOMAIN q : i < Len(q) + 1
  OBVIOUS
<1>2. Rcv!ToSet(Append(q, x)) = Rcv!ToSet(q) \cup {x}
  BY <1>1 DEF Rcv!ToSet
<1>3. \A i \in DOMAIN q : q[i] # x
  BY DEF Rcv!ToSet
<1>4. Rcv!IsInjective(Append(q, x))
  BY <1>1, <1>3 DEF Rcv!IsInjective
<1>5. QED
  BY <1>1, <1>2, <1>4

\* The first is taken.
LEMMA Tailed ==
    ASSUME NEW X, NEW q \in Seq(X), Rcv!IsInjective(q), q # <<>>
    PROVE  /\ Head(q) \in X /\ Head(q) \in Rcv!ToSet(q)
           /\ Tail(q) \in Seq(X) /\ Rcv!IsInjective(Tail(q))
           /\ Rcv!ToSet(Tail(q)) = Rcv!ToSet(q) \ {Head(q)}
<1>1. /\ Len(q) \in Nat \ {0} /\ DOMAIN q = 1..Len(q) /\ Head(q) = q[1] /\ 1 \in DOMAIN q
      /\ Tail(q) \in Seq(X) /\ DOMAIN Tail(q) = 1..(Len(q) - 1)
      /\ \A i \in 1..(Len(q) - 1) : i + 1 \in DOMAIN q /\ Tail(q)[i] = q[i + 1]
  OBVIOUS
<1>2. Head(q) \in X /\ Head(q) \in Rcv!ToSet(q)
  BY <1>1 DEF Rcv!ToSet
<1>3. Rcv!IsInjective(Tail(q))
  BY <1>1 DEF Rcv!IsInjective
<1>4. ASSUME NEW j \in DOMAIN q, q[j] # q[1]
      PROVE  \E i \in DOMAIN Tail(q) : Tail(q)[i] = q[j]
  <2>1. j - 1 \in 1..(Len(q) - 1) /\ (j - 1) + 1 = j
    BY <1>1, <1>4
  <2>2. QED
    BY <1>1, <2>1
<1>5. \A i \in DOMAIN Tail(q) : Tail(q)[i] # q[1]
  BY <1>1 DEF Rcv!IsInjective
<1>6. Rcv!ToSet(Tail(q)) = Rcv!ToSet(q) \ {Head(q)}
  BY <1>1, <1>4, <1>5 DEF Rcv!ToSet
<1>7. QED
  BY <1>1, <1>2, <1>3, <1>6

\* Where the elements come from when one is taken out.
Before(i, j) == IF j < i THEN j ELSE j + 1

LEMMA RemoveIs ==
    ASSUME NEW X, NEW q \in Seq(X), NEW i \in DOMAIN q
    PROVE  /\ Rcv!RemoveAt(q, i) \in Seq(X)
           /\ DOMAIN Rcv!RemoveAt(q, i) = 1..(Len(q) - 1)
           /\ \A j \in DOMAIN Rcv!RemoveAt(q, i) :
                 Before(i, j) \in DOMAIN q \ {i} /\ Rcv!RemoveAt(q, i)[j] = q[Before(i, j)]
           /\ \A j, k \in DOMAIN Rcv!RemoveAt(q, i) : j < k => Before(i, j) < Before(i, k)
<1>1. i \in 1..Len(q) /\ Len(q) \in Nat
  OBVIOUS
<1> DEFINE a == SubSeq(q, 1, i - 1)
           b == SubSeq(q, i + 1, Len(q))
<1>2. /\ a \in Seq(X) /\ Len(a) = i - 1
      /\ \A j \in 1..(i - 1) : a[j] = q[j]
  BY <1>1
<1>3. /\ b \in Seq(X) /\ Len(b) = Len(q) - i
      /\ \A j \in 1..(Len(q) - i) : b[j] = q[i + j]
  BY <1>1
<1>4. Rcv!RemoveAt(q, i) = a \o b
  BY DEF Rcv!RemoveAt
<1> HIDE DEF a, b
<1>5. a \o b \in Seq(X) /\ Len(a \o b) = Len(q) - 1
  BY <1>1, <1>2, <1>3
<1>6. DOMAIN (a \o b) = 1..(Len(q) - 1)
  BY <1>5
<1>7. ASSUME NEW j \in 1..(Len(q) - 1)
      PROVE  Before(i, j) \in DOMAIN q \ {i} /\ (a \o b)[j] = q[Before(i, j)]
  <2>1. (a \o b)[j] = IF j <= Len(a) THEN a[j] ELSE b[j - Len(a)]
    BY SMTT(30), <1>1, <1>2, <1>3
  <2>2. CASE j < i
    BY <1>1, <1>2, <2>1, <2>2 DEF Before
  <2>3. CASE ~(j < i)
    <3>1. j - (i - 1) \in 1..(Len(q) - i) /\ i + (j - (i - 1)) = j + 1
      BY <1>1, <2>3
    <3>2. (a \o b)[j] = b[j - (i - 1)]
      BY <1>1, <1>2, <2>1, <2>3
    <3>3. (a \o b)[j] = q[j + 1]
      BY <1>3, <3>1, <3>2
    <3>4. QED
      BY <1>1, <2>3, <3>3 DEF Before
  <2>4. QED
    BY <2>2, <2>3
<1>8. \A j, k \in 1..(Len(q) - 1) : j < k => Before(i, j) < Before(i, k)
  BY <1>1 DEF Before
<1>9. QED
  BY <1>4, <1>5, <1>6, <1>7, <1>8

LEMMA RemoveLeaves ==
    ASSUME NEW X, NEW q \in Seq(X), NEW i \in DOMAIN q, NEW k \in DOMAIN q, k # i
    PROVE  \E j \in 1..(Len(q) - 1) : Before(i, j) = k
<1>1. k \in 1..Len(q) /\ i \in 1..Len(q) /\ Len(q) \in Nat
  OBVIOUS
<1>2. CASE k < i
  <2>1. k \in 1..(Len(q) - 1) /\ Before(i, k) = k
    BY <1>1, <1>2 DEF Before
  <2>2. QED
    BY <2>1
<1>3. CASE ~(k < i)
  <2>1. k - 1 \in 1..(Len(q) - 1) /\ Before(i, k - 1) = k
    BY <1>1, <1>3 DEF Before
  <2>2. QED
    BY <2>1
<1>4. QED
  BY <1>2, <1>3

\* One is taken out: the others stay, in their order.
LEMMA Removed ==
    ASSUME NEW X, NEW q \in Seq(X), NEW e \in Rcv!ToSet(q), Rcv!IsInjective(q)
    PROVE  \E r \in Seq(X) :
              /\ r = Rcv!RemoveFirst(q, e) /\ Rcv!IsInjective(r) /\ Rcv!ToSet(r) = Rcv!ToSet(q) \ {e}
              /\ \A j, k \in DOMAIN r : j < k =>
                    \E m, n \in DOMAIN q : m < n /\ q[m] = r[j] /\ q[n] = r[k]
<1>1. PICK i \in 1..Len(q) : q[i] = e
  BY DEF Rcv!ToSet
<1>2. PICK I : I = {j \in 1..Len(q) : q[j] = e}
  OBVIOUS
<1>3. I = {i} /\ i \in Nat
  BY <1>1, <1>2 DEF Rcv!IsInjective
<1>4. Rcv!Min(I) = i
  BY <1>3 DEF Rcv!Min
<1>5. Rcv!RemoveFirst(q, e) = Rcv!RemoveAt(q, i)
  BY <1>1, <1>2, <1>3, <1>4 DEF Rcv!RemoveFirst, Rcv!SelectInSeq
<1>6. PICK r : r = Rcv!RemoveAt(q, i)
  OBVIOUS
<1>7. /\ r \in Seq(X) /\ DOMAIN r = 1..(Len(q) - 1)
      /\ \A j \in DOMAIN r : Before(i, j) \in DOMAIN q \ {i} /\ r[j] = q[Before(i, j)]
      /\ \A j, k \in DOMAIN r : j < k => Before(i, j) < Before(i, k)
  BY <1>1, <1>6, RemoveIs
<1>8. Rcv!IsInjective(r)
  <2>1. SUFFICES ASSUME NEW j \in DOMAIN r, NEW k \in DOMAIN r, r[j] = r[k] PROVE j = k
    BY DEF Rcv!IsInjective
  <2>2. Before(i, j) = Before(i, k)
    BY <1>7, <2>1 DEF Rcv!IsInjective
  <2>3. j \in Nat /\ k \in Nat /\ Before(i, j) \in Nat
    BY <1>7
  <2>4. ~(j < k) /\ ~(k < j)
    BY <1>7, <2>2, <2>3
  <2>5. QED
    BY <2>3, <2>4
<1>9. Rcv!ToSet(r) = Rcv!ToSet(q) \ {e}
  <2>1. ASSUME NEW j \in DOMAIN r
        PROVE  r[j] \in Rcv!ToSet(q) /\ r[j] # e
    BY <1>1, <1>7 DEF Rcv!ToSet, Rcv!IsInjective
  <2>2. ASSUME NEW k \in DOMAIN q, q[k] # e
        PROVE  \E j \in DOMAIN r : r[j] = q[k]
    <3>1. i \in DOMAIN q /\ k # i
      BY <1>1, <2>2
    <3>2. PICK j \in 1..(Len(q) - 1) : Before(i, j) = k
      BY <3>1, RemoveLeaves
    <3>3. QED
      BY <1>7, <3>2
  <2>3. QED
    BY <2>1, <2>2 DEF Rcv!ToSet
<1>10. \A j, k \in DOMAIN r : j < k => \E m, n \in DOMAIN q : m < n /\ q[m] = r[j] /\ q[n] = r[k]
  BY <1>7
<1>11. QED
  BY <1>5, <1>6, <1>7, <1>8, <1>9, <1>10
-----------------------------------------------------------------------------
(* The receiving worker's list.                                            *)

RcvPc == {"entries", "receive", "process", "clock", "timers", "off"}
Receivers == [pc : RcvPc, u : Socket \cup {None}, due : SUBSET Socket]

\* A socket is in one place at a time: not yet registered, registering, a new
\* entry, listed, or just unlinked.
OnePlace ==
    /\ Rcv!IsInjective(newEntry)
    /\ Rcv!ToSet(newEntry) \cap Rcv!ToSet(ulist) = {}
    /\ registering \cap (Rcv!ToSet(newEntry) \cup Rcv!ToSet(ulist)) = {}
    /\ \A u \in Socket : life[u] = "idle" => ~onList[u]

\* The socket in the worker's hand is listed while its packet is processed, and
\* in no place any more when m_bOnList is to be cleared.
InHand ==
    /\ receiver \in Receivers
    /\ receiver.pc = "process" => receiver.u \in hash
    /\ receiver.pc = "off" =>
          receiver.u \in Socket \ (registering \cup Rcv!ToSet(newEntry) \cup hash)
    /\ receiver.pc \notin {"process", "off"} => receiver.u = None

RcvInv == Rcv!RcvListSound /\ OnePlace /\ InHand

LEMMA RcvTypes ==
    ASSUME RcvInv
    PROVE  /\ life \in [Socket -> {"idle", "up", "down", "deleted"}]
           /\ onList \in [Socket -> BOOLEAN] /\ age \in [Socket -> 0..Stale]
           /\ registering \subseteq Socket /\ hash \subseteq Socket
           /\ newEntry \in Seq(Socket) /\ ulist \in Seq(Socket)
           /\ Rcv!ToSet(newEntry) \subseteq Socket /\ Rcv!ToSet(ulist) = hash
           /\ Rcv!IsInjective(ulist)
           /\ \A i, j \in DOMAIN ulist : i < j => age[ulist[i]] >= age[ulist[j]]
           /\ None \notin Socket /\ Stale \in Nat
           /\ receiver \in Receivers
           /\ \A u \in Socket : Rcv!Known(u) => onList[u] /\ life[u] # "deleted"
  BY QueuesAssumption DEF RcvInv, InHand, Rcv!RcvListSound, Rcv!TypeOK, Rcv!ListSorted, Rcv!KnownAlive,
     Rcv!ToSet

\* The parts put together again after a step.
LEMMA RcvNext ==
    ASSUME life' \in [Socket -> {"idle", "up", "down", "deleted"}],
           onList' \in [Socket -> BOOLEAN], age' \in [Socket -> 0..Stale],
           registering' \subseteq Socket, hash' \subseteq Socket,
           newEntry' \in Seq(Socket), ulist' \in Seq(Socket),
           Rcv!KnownAlive', Rcv!ListSorted', OnePlace', InHand'
    PROVE  RcvInv'
<1>1. Rcv!TypeOK'
  BY DEF Rcv!TypeOK, InHand, Receivers, RcvPc
<1>2. QED
  BY <1>1 DEF RcvInv, Rcv!RcvListSound

LEMMA RcvStarts == Rcv!Init => RcvInv
<1> SUFFICES ASSUME Rcv!Init PROVE RcvInv
  OBVIOUS
<1>1. Stale \in Nat /\ None \notin Socket
  BY QueuesAssumption
<1>2. receiver = [pc |-> "entries", u |-> None, due |-> {}]
  BY DEF Rcv!Init, Rcv!Loop
<1>3. Rcv!TypeOK
  BY <1>1, <1>2 DEF Rcv!Init, Rcv!TypeOK
<1>4. InHand
  BY <1>2 DEF InHand, Receivers, RcvPc
<1>5. ulist = <<>> /\ newEntry = <<>> /\ Rcv!ToSet(<<>>) = {} /\ Rcv!IsInjective(<<>>)
  BY DEF Rcv!Init, Rcv!ToSet, Rcv!IsInjective
<1>6. OnePlace
  BY <1>5, Zenon DEF Rcv!Init, OnePlace
<1>7. Rcv!ListSorted
  BY <1>5 DEF Rcv!Init, Rcv!ListSorted
<1>8. \A u \in Socket : ~Rcv!Known(u)
  BY <1>1, <1>2, <1>5 DEF Rcv!Init, Rcv!Known
<1>9. QED
  BY <1>3, <1>4, <1>6, <1>7, <1>8 DEF RcvInv, Rcv!RcvListSound, Rcv!KnownAlive

\* A socket of the list becomes its newest, whatever else the step does to the
\* lives of sockets (update, when checkTimers has looked at the socket).
LEMMA RcvUpdated ==
    ASSUME RcvInv, NEW u \in hash, Rcv!checkTimers(u), Rcv!update(u)
    PROVE  /\ life' \in [Socket -> {"idle", "up", "down", "deleted"}]
           /\ \A v \in Socket : (life'[v] = "deleted" => life[v] = "deleted") /\ (life'[v] = "idle" => life[v] = "idle")
           /\ age' \in [Socket -> 0..Stale]
           /\ ulist' \in Seq(Socket) /\ Rcv!ToSet(ulist') = Rcv!ToSet(ulist) /\ Rcv!IsInjective(ulist')
           /\ \A i, j \in DOMAIN ulist' : i < j => age'[ulist'[i]] >= age'[ulist'[j]]
<1>t. /\ ulist \in Seq(Socket) /\ Rcv!ToSet(ulist) = hash /\ Rcv!IsInjective(ulist)
      /\ age \in [Socket -> 0..Stale] /\ Stale \in Nat /\ u \in Socket
      /\ life \in [Socket -> {"idle", "up", "down", "deleted"}]
      /\ \A i, j \in DOMAIN ulist : i < j => age[ulist[i]] >= age[ulist[j]]
      /\ onList[u]
  BY RcvTypes DEF Rcv!Known
<1>1. /\ life' \in [Socket -> {"idle", "up", "down", "deleted"}]
      /\ \A v \in Socket : (life'[v] = "deleted" => life[v] = "deleted") /\ (life'[v] = "idle" => life[v] = "idle")
  BY <1>t DEF Rcv!checkTimers
<1>2. ulist' = Append(Rcv!RemoveFirst(ulist, u), u) /\ age' = [age EXCEPT ![u] = 0]
  BY <1>t DEF Rcv!update
<1>3. PICK r \in Seq(Socket) :
         /\ r = Rcv!RemoveFirst(ulist, u) /\ Rcv!IsInjective(r) /\ Rcv!ToSet(r) = Rcv!ToSet(ulist) \ {u}
         /\ \A j, k \in DOMAIN r : j < k =>
               \E m, n \in DOMAIN ulist : m < n /\ ulist[m] = r[j] /\ ulist[n] = r[k]
  BY <1>t, Removed
<1>4. PICK q : q = Append(r, u)
  OBVIOUS
<1>5. u \notin Rcv!ToSet(r)
  BY <1>3
<1>6. /\ q \in Seq(Socket) /\ Rcv!IsInjective(q) /\ Rcv!ToSet(q) = Rcv!ToSet(r) \cup {u}
      /\ DOMAIN q = DOMAIN r \cup {Len(r) + 1}
      /\ q[Len(r) + 1] = u /\ \A i \in DOMAIN r : q[i] = r[i]
      /\ \A i \in DOMAIN r : i < Len(r) + 1
  BY <1>3, <1>4, <1>5, <1>t, Appended
<1>7. \A v \in Socket : v # u => age'[v] = age[v]
  BY <1>2, <1>t
<1>8. age'[u] = 0 /\ age' \in [Socket -> 0..Stale]
  BY <1>2, <1>t
<1>9. \A i \in DOMAIN r : r[i] # u /\ r[i] \in Socket
  BY <1>3, <1>5 DEF Rcv!ToSet
<1>10. ASSUME NEW i \in DOMAIN q, NEW j \in DOMAIN q, i < j
       PROVE  age'[q[i]] >= age'[q[j]]
  <2>1. i \in DOMAIN r
    <3>1. i \in Nat /\ j \in Nat /\ Len(r) \in Nat
      BY <1>6
    <3>2. j <= Len(r) + 1
      BY <1>6, <3>1
    <3>3. QED
      BY <1>6, <1>10, <3>1, <3>2
  <2>2. CASE j \in DOMAIN r
    <3>1. PICK m \in DOMAIN ulist, n \in DOMAIN ulist : m < n /\ ulist[m] = r[i] /\ ulist[n] = r[j]
      BY <1>3, <1>10, <2>1, <2>2
    <3>2. age[r[i]] >= age[r[j]]
      BY <1>t, <3>1
    <3>3. QED
      BY <1>6, <1>7, <1>9, <2>1, <2>2, <3>2
  <2>3. CASE j = Len(r) + 1
    <3>1. age'[q[j]] = 0 /\ age'[q[i]] \in 0..Stale
      BY <1>6, <1>8, <1>9, <2>1, <2>3
    <3>2. QED
      BY <1>t, <3>1
  <2>4. QED
    BY <1>6, <2>2, <2>3
<1>11. ulist' = q
  BY <1>2, <1>3, <1>4
<1>12. Rcv!ToSet(q) = Rcv!ToSet(ulist)
  BY <1>3, <1>6, <1>t
<1>13. QED
  BY <1>1, <1>6, <1>8, <1>10, <1>11, <1>12
LEMMA RcvConnect ==
    ASSUME RcvInv, NEW u \in Socket, Rcv!Connect(u)
    PROVE  RcvInv'
<1>1. /\ life[u] = "idle" /\ life' = [life EXCEPT ![u] = "up"] /\ onList' = [onList EXCEPT ![u] = TRUE]
      /\ registering' = registering \cup {u}
      /\ UNCHANGED <<newEntry, ulist, age, hash, receiver>>
  BY DEF Rcv!Connect
<1>2. ~onList[u]
  BY <1>1 DEF RcvInv, OnePlace
<1>3. ~Rcv!Known(u)
  BY <1>2, RcvTypes
<1>4. u \notin registering \cup hash \cup Rcv!ToSet(ulist) \cup Rcv!ToSet(newEntry) /\ receiver.u # u
  BY <1>3 DEF Rcv!Known
<1>5. /\ life' \in [Socket -> {"idle", "up", "down", "deleted"}]
      /\ onList' \in [Socket -> BOOLEAN]
  BY <1>1, RcvTypes
<1>6. \A v \in Socket : v # u => life'[v] = life[v] /\ onList'[v] = onList[v]
  BY <1>1, RcvTypes
<1>7. life'[u] = "up" /\ onList'[u]
  BY <1>1, RcvTypes
<1>8. \A v \in Socket : v # u => (Rcv!Known(v)' => Rcv!Known(v))
  BY <1>1 DEF Rcv!Known
<1>9. Rcv!KnownAlive'
  BY <1>6, <1>7, <1>8, RcvTypes, Zenon DEF Rcv!KnownAlive
<1>10. Rcv!ListSorted'
  BY <1>1, RcvTypes DEF Rcv!ListSorted
<1>11. OnePlace'
  <2>1. /\ Rcv!IsInjective(newEntry') /\ Rcv!ToSet(newEntry') \cap Rcv!ToSet(ulist') = {}
        /\ registering' \cap (Rcv!ToSet(newEntry') \cup Rcv!ToSet(ulist')) = {}
    BY <1>1, <1>4 DEF RcvInv, OnePlace
  <2>2. \A v \in Socket : life'[v] = "idle" => ~onList'[v]
    BY <1>6, <1>7 DEF RcvInv, OnePlace
  <2>3. QED
    BY <2>1, <2>2 DEF OnePlace
<1>12. InHand'
  BY <1>1, <1>4 DEF RcvInv, InHand
<1>13. registering' \subseteq Socket
  BY <1>1, RcvTypes
<1>14. QED
  BY <1>1, <1>5, <1>9, <1>10, <1>11, <1>12, <1>13, RcvTypes, RcvNext

LEMMA RcvSetNewEntry ==
    ASSUME RcvInv, NEW u \in Socket, Rcv!setNewEntry(u)
    PROVE  RcvInv'
<1>1. /\ u \in registering /\ registering' = registering \ {u} /\ newEntry' = Append(newEntry, u)
      /\ UNCHANGED <<life, onList, ulist, age, hash, receiver>>
  BY DEF Rcv!setNewEntry
<1>2. /\ newEntry \in Seq(Socket) /\ Rcv!IsInjective(newEntry) /\ u \notin Rcv!ToSet(newEntry)
      /\ u \notin Rcv!ToSet(ulist)
  BY <1>1, RcvTypes DEF RcvInv, OnePlace
<1>3. PICK q : q = Append(newEntry, u)
  OBVIOUS
<1>4. q \in Seq(Socket) /\ Rcv!IsInjective(q) /\ Rcv!ToSet(q) = Rcv!ToSet(newEntry) \cup {u}
  BY <1>2, <1>3, Appended
<1>5. newEntry' = q
  BY <1>1, <1>3
<1>6. \A v \in Socket : Rcv!Known(v)' => Rcv!Known(v)
  BY <1>1, <1>4, <1>5 DEF Rcv!Known
<1>7. Rcv!KnownAlive'
  BY <1>1, <1>6, RcvTypes, Zenon DEF Rcv!KnownAlive
<1>8. Rcv!ListSorted'
  BY <1>1, RcvTypes DEF Rcv!ListSorted
<1>9. OnePlace'
  BY <1>1, <1>2, <1>4, <1>5 DEF RcvInv, OnePlace
<1>10. InHand'
  BY <1>1, <1>4, <1>5 DEF RcvInv, InHand
<1>11. registering' \subseteq Socket
  BY <1>1, RcvTypes
<1>12. QED
  BY <1>1, <1>4, <1>5, <1>7, <1>8, <1>9, <1>10, <1>11, RcvTypes, RcvNext

\* Down and Delete: only the life of a socket changes.
LEMMA RcvLife ==
    ASSUME RcvInv, NEW u \in Socket, Rcv!Down(u) \/ Rcv!Delete(u)
    PROVE  RcvInv'
<1>1. /\ UNCHANGED <<onList, registering, newEntry, ulist, age, hash, receiver>>
      /\ \/ life[u] = "up" /\ life' = [life EXCEPT ![u] = "down"]
         \/ ~onList[u] /\ life' = [life EXCEPT ![u] = "deleted"]
  BY DEF Rcv!Down, Rcv!Delete
<1>2. /\ life' \in [Socket -> {"idle", "up", "down", "deleted"}]
      /\ \A v \in Socket : life'[v] = "deleted" => life[v] = "deleted" \/ ~onList[v]
      /\ \A v \in Socket : life'[v] = "idle" => life[v] = "idle"
  BY <1>1, RcvTypes
<1>3. \A v \in Socket : Rcv!Known(v)' => Rcv!Known(v)
  BY <1>1 DEF Rcv!Known
<1>4. Rcv!KnownAlive'
  BY <1>1, <1>2, <1>3, RcvTypes, Zenon DEF Rcv!KnownAlive
<1>5. Rcv!ListSorted'
  BY <1>1, RcvTypes DEF Rcv!ListSorted
<1>6. OnePlace'
  BY <1>1, <1>2 DEF RcvInv, OnePlace
<1>7. InHand'
  BY <1>1 DEF RcvInv, InHand
<1>8. QED
  BY <1>1, <1>2, <1>4, <1>5, <1>6, <1>7, RcvTypes, RcvNext

\* Nothing but the worker's place changes.
LEMMA RcvMoved ==
    ASSUME RcvInv, UNCHANGED <<life, onList, registering, newEntry, ulist, age, hash>>,
           receiver' \in Receivers, receiver'.u \in hash \cup {None},
           receiver'.pc = "process" => receiver'.u \in hash,
           receiver'.pc # "off",
           receiver'.pc # "process" => receiver'.u = None
    PROVE  RcvInv'
<1>1. \A v \in Socket : Rcv!Known(v)' => Rcv!Known(v)
  BY RcvTypes DEF Rcv!Known
<1>2. Rcv!KnownAlive'
  BY <1>1, RcvTypes, Zenon DEF Rcv!KnownAlive
<1>3. Rcv!ListSorted'
  BY RcvTypes DEF Rcv!ListSorted
<1>4. OnePlace'
  BY DEF RcvInv, OnePlace
<1>5. InHand'
  BY DEF InHand
<1>6. QED
  BY <1>2, <1>3, <1>4, <1>5, RcvTypes, RcvNext

LEMMA RcvTick ==
    ASSUME RcvInv, Rcv!Tick
    PROVE  RcvInv'
<1>1. /\ age' = [u \in Socket |-> IF u \in Rcv!ToSet(ulist) /\ age[u] < Stale THEN age[u] + 1 ELSE age[u]]
      /\ UNCHANGED <<life, onList, registering, newEntry, ulist, hash, receiver>>
  BY DEF Rcv!Tick
<1>2. age' \in [Socket -> 0..Stale]
  BY <1>1, RcvTypes
<1>3. ASSUME NEW i \in DOMAIN ulist, NEW j \in DOMAIN ulist, i < j
      PROVE  age'[ulist[i]] >= age'[ulist[j]]
  <2>1. PICK u \in Socket, v \in Socket : u = ulist[i] /\ v = ulist[j]
    BY RcvTypes
  <2>2. u \in Rcv!ToSet(ulist) /\ v \in Rcv!ToSet(ulist)
    BY <2>1 DEF Rcv!ToSet
  <2>3. age[u] \in 0..Stale /\ age[v] \in 0..Stale /\ Stale \in Nat /\ age[u] >= age[v]
    BY <1>3, <2>1, RcvTypes
  <2>4. /\ age'[u] = IF age[u] < Stale THEN age[u] + 1 ELSE age[u]
        /\ age'[v] = IF age[v] < Stale THEN age[v] + 1 ELSE age[v]
    BY <1>1, <2>2
  <2>5. age'[u] >= age'[v]
    BY ONLY <2>3, <2>4
  <2>6. QED
    BY <2>1, <2>5
<1>4. Rcv!ListSorted'
  BY <1>1, <1>3, RcvTypes DEF Rcv!ListSorted
<1>5. \A v \in Socket : Rcv!Known(v)' => Rcv!Known(v)
  BY <1>1 DEF Rcv!Known
<1>6. Rcv!KnownAlive'
  BY <1>1, <1>5, RcvTypes, Zenon DEF Rcv!KnownAlive
<1>7. OnePlace'
  BY <1>1 DEF RcvInv, OnePlace
<1>8. InHand'
  BY <1>1 DEF RcvInv, InHand
<1>9. QED
  BY <1>1, <1>2, <1>4, <1>6, <1>7, <1>8, RcvTypes, RcvNext
\* A new entry: from m_vNewEntry to the end of the list and into the table.
LEMMA RcvEntry ==
    ASSUME RcvInv, receiver.pc = "entries", newEntry # <<>>,
           newEntry' = Tail(newEntry), Rcv!insert(Head(newEntry)), Rcv!HashInsert(Head(newEntry)),
           UNCHANGED <<life, onList, registering, receiver>>
    PROVE  RcvInv'
<1>1. newEntry \in Seq(Socket) /\ Rcv!IsInjective(newEntry)
  BY RcvTypes DEF RcvInv, OnePlace
<1>2. PICK u : u = Head(newEntry)
  OBVIOUS
<1>3. PICK t : t = Tail(newEntry)
  OBVIOUS
<1>4. /\ u \in Socket /\ u \in Rcv!ToSet(newEntry)
      /\ t \in Seq(Socket) /\ Rcv!IsInjective(t) /\ Rcv!ToSet(t) = Rcv!ToSet(newEntry) \ {u}
  BY <1>1, <1>2, <1>3, Tailed
<1>5. /\ newEntry' = t /\ ulist' = Append(ulist, u) /\ age' = [age EXCEPT ![u] = 0] /\ hash' = hash \cup {u}
  BY <1>2, <1>3 DEF Rcv!insert, Rcv!HashInsert
<1>6. u \notin Rcv!ToSet(ulist) /\ u \notin registering
  BY <1>4 DEF RcvInv, OnePlace
<1>7. PICK q : q = Append(ulist, u)
  OBVIOUS
<1>8. /\ q \in Seq(Socket) /\ Rcv!IsInjective(q) /\ Rcv!ToSet(q) = Rcv!ToSet(ulist) \cup {u}
      /\ DOMAIN q = DOMAIN ulist \cup {Len(ulist) + 1}
      /\ q[Len(ulist) + 1] = u /\ \A i \in DOMAIN ulist : q[i] = ulist[i]
      /\ \A i \in DOMAIN ulist : i < Len(ulist) + 1
  <2>1. ulist \in Seq(Socket) /\ Rcv!IsInjective(ulist)
    BY RcvTypes
  <2>2. QED
    BY <1>4, <1>6, <1>7, <2>1, Appended
<1>9. /\ age' \in [Socket -> 0..Stale] /\ age'[u] = 0
      /\ \A v \in Socket : v # u => age'[v] = age[v]
  BY <1>4, <1>5, RcvTypes
<1>10. \A i \in DOMAIN ulist : ulist[i] # u /\ ulist[i] \in Socket
  BY <1>6, RcvTypes DEF Rcv!ToSet
<1>11. ASSUME NEW i \in DOMAIN q, NEW j \in DOMAIN q, i < j
       PROVE  age'[q[i]] >= age'[q[j]]
  <2>1. i \in DOMAIN ulist
    <3>0. ulist \in Seq(Socket)
      BY RcvTypes
    <3>1. i \in Nat /\ j \in Nat /\ Len(ulist) \in Nat
      BY ONLY <1>8, <3>0, i \in DOMAIN q, j \in DOMAIN q
    <3>2. j <= Len(ulist) + 1
      BY <1>8, <3>1
    <3>3. QED
      BY <1>8, <1>11, <3>1, <3>2
  <2>2. CASE j \in DOMAIN ulist
    <3>1. age[ulist[i]] >= age[ulist[j]]
      BY <1>11, <2>1, <2>2, RcvTypes
    <3>2. QED
      BY <1>8, <1>9, <1>10, <2>1, <2>2, <3>1
  <2>3. CASE j = Len(ulist) + 1
    <3>1. age'[q[j]] = 0 /\ age'[q[i]] \in 0..Stale
      BY <1>8, <1>9, <1>10, <2>1, <2>3
    <3>2. QED
      BY <3>1, RcvTypes
  <2>4. QED
    BY <1>8, <2>2, <2>3
<1>12. ulist' = q
  BY <1>5, <1>7
<1>13. Rcv!ListSorted'
  <2>1. hash' = Rcv!ToSet(ulist') /\ Rcv!IsInjective(ulist')
    BY <1>5, <1>8, <1>12, RcvTypes
  <2>2. QED
    BY <1>11, <1>12, <2>1 DEF Rcv!ListSorted
<1>14. \A v \in Socket : Rcv!Known(v)' => Rcv!Known(v)
  BY <1>4, <1>5, <1>8, <1>12 DEF Rcv!Known
<1>15. Rcv!KnownAlive'
  BY <1>14, RcvTypes, Zenon DEF Rcv!KnownAlive
<1>16. OnePlace'
  <2>1. /\ Rcv!ToSet(newEntry) \cap Rcv!ToSet(ulist) = {}
        /\ registering \cap (Rcv!ToSet(newEntry) \cup Rcv!ToSet(ulist)) = {}
        /\ \A v \in Socket : life[v] = "idle" => ~onList[v]
    BY DEF RcvInv, OnePlace
  <2>2. Rcv!ToSet(t) \cap Rcv!ToSet(q) = {} /\ registering \cap (Rcv!ToSet(t) \cup Rcv!ToSet(q)) = {}
    BY ONLY <1>4, <1>6, <1>8, <2>1
  <2>3. \A v \in Socket : life'[v] = "idle" => ~onList'[v]
    BY <2>1
  <2>4. QED
    BY ONLY <1>4, <1>5, <1>12, <2>2, <2>3, registering' = registering DEF OnePlace
<1>17. InHand'
  BY DEF RcvInv, InHand
<1>18. hash' \subseteq Socket
  BY <1>4, <1>5, RcvTypes
<1>19. QED
  BY <1>4, <1>5, <1>8, <1>9, <1>12, <1>13, <1>15, <1>16, <1>17, <1>18, RcvTypes, RcvNext

\* Process and TimerCheck: a socket of the list becomes its newest, and the
\* worker has no socket in its hand after it.
LEMMA RcvServed ==
    ASSUME RcvInv, NEW u \in hash, Rcv!checkTimers(u), Rcv!update(u),
           UNCHANGED <<onList, registering, newEntry, hash>>,
           receiver' \in Receivers, receiver'.u = None, receiver'.pc \notin {"process", "off"}
    PROVE  RcvInv'
<1>1. /\ life' \in [Socket -> {"idle", "up", "down", "deleted"}]
      /\ \A v \in Socket : (life'[v] = "deleted" => life[v] = "deleted") /\ (life'[v] = "idle" => life[v] = "idle")
      /\ age' \in [Socket -> 0..Stale]
      /\ ulist' \in Seq(Socket) /\ Rcv!ToSet(ulist') = Rcv!ToSet(ulist) /\ Rcv!IsInjective(ulist')
      /\ \A i, j \in DOMAIN ulist' : i < j => age'[ulist'[i]] >= age'[ulist'[j]]
  BY RcvUpdated
<1>2. \A v \in Socket : Rcv!Known(v)' => Rcv!Known(v)
  BY <1>1, RcvTypes DEF Rcv!Known
<1>3. Rcv!KnownAlive'
  BY <1>1, <1>2, RcvTypes, Zenon DEF Rcv!KnownAlive
<1>4. Rcv!ListSorted'
  BY <1>1, RcvTypes DEF Rcv!ListSorted
<1>5. OnePlace'
  BY <1>1 DEF RcvInv, OnePlace
<1>6. InHand'
  BY DEF InHand
<1>7. QED
  BY <1>1, <1>3, <1>4, <1>5, <1>6, RcvTypes, RcvNext

LEMMA RcvUnlink ==
    ASSUME RcvInv, Rcv!Unlink
    PROVE  RcvInv'
<1>1. /\ receiver.pc = "timers" /\ ulist # <<>>
      /\ UNCHANGED <<life, onList, registering, newEntry, age>>
  BY DEF Rcv!Unlink, Rcv!Due
<1>2. PICK u : u = Head(ulist)
  OBVIOUS
<1>3. u \in Socket /\ u \in Rcv!ToSet(ulist) /\ u \in hash
  BY <1>1, <1>2, RcvTypes, Tailed
<1>4. onList[u]
  BY <1>3, RcvTypes DEF Rcv!Known
<1>5. /\ ulist' = Rcv!RemoveFirst(ulist, u) /\ hash' = hash \ {u}
      /\ receiver' = [pc |-> "off", u |-> u, due |-> receiver.due \ {u}]
  BY <1>2, <1>4 DEF Rcv!Unlink, Rcv!remove, Rcv!HashRemove, Rcv!Done
<1>6. PICK r \in Seq(Socket) :
         /\ r = Rcv!RemoveFirst(ulist, u) /\ Rcv!IsInjective(r) /\ Rcv!ToSet(r) = Rcv!ToSet(ulist) \ {u}
         /\ \A j, k \in DOMAIN r : j < k =>
               \E m, n \in DOMAIN ulist : m < n /\ ulist[m] = r[j] /\ ulist[n] = r[k]
  BY <1>3, RcvTypes, Removed
<1>7. ulist' = r
  BY <1>5, <1>6
<1>8. \A i, j \in DOMAIN r : i < j => age[r[i]] >= age[r[j]]
  BY <1>6, RcvTypes
<1>9. Rcv!ListSorted'
  BY <1>1, <1>5, <1>6, <1>7, <1>8, RcvTypes DEF Rcv!ListSorted
<1>10. \A v \in Socket : Rcv!Known(v)' => Rcv!Known(v)
  BY <1>1, <1>3, <1>5, <1>6, <1>7 DEF Rcv!Known
<1>11. Rcv!KnownAlive'
  BY <1>1, <1>10, RcvTypes, Zenon DEF Rcv!KnownAlive
<1>12. OnePlace'
  BY <1>1, <1>6, <1>7 DEF RcvInv, OnePlace
<1>13. InHand'
  <2>1. u \notin registering \cup Rcv!ToSet(newEntry)
    BY <1>3 DEF RcvInv, OnePlace
  <2>2. receiver.due \ {u} \subseteq Socket
    BY RcvTypes DEF Receivers
  <2>3. receiver' \in Receivers /\ receiver'.pc = "off" /\ receiver'.u = u
    BY <1>3, <1>5, <2>2 DEF Receivers, RcvPc
  <2>4. u \in Socket \ (registering' \cup Rcv!ToSet(newEntry') \cup hash')
    BY <1>1, <1>3, <1>5, <2>1
  <2>5. QED
    BY <2>3, <2>4 DEF InHand
<1>14. hash' \subseteq Socket
  BY <1>5, RcvTypes
<1>15. QED
  BY <1>1, <1>6, <1>7, <1>9, <1>11, <1>12, <1>13, <1>14, RcvTypes, RcvNext

LEMMA RcvOffList ==
    ASSUME RcvInv, Rcv!OffList
    PROVE  RcvInv'
<1>1. /\ receiver.pc = "off" /\ onList' = [onList EXCEPT ![receiver.u] = FALSE]
      /\ receiver' = [receiver EXCEPT !.pc = "timers", !.u = None]
      /\ UNCHANGED <<life, registering, newEntry, ulist, age, hash>>
  BY DEF Rcv!OffList
<1>2. PICK u : u = receiver.u
  OBVIOUS
<1>3. u \in Socket \ (registering \cup Rcv!ToSet(newEntry) \cup hash)
  BY <1>1, <1>2 DEF RcvInv, InHand
<1>4. /\ onList' \in [Socket -> BOOLEAN]
      /\ \A v \in Socket : v # u => onList'[v] = onList[v]
      /\ ~onList'[u]
  BY <1>1, <1>2, <1>3, RcvTypes
<1>5. receiver' \in Receivers /\ receiver'.pc = "timers" /\ receiver'.u = None
  BY <1>1, RcvTypes DEF Receivers, RcvPc
<1>6. \A v \in Socket : Rcv!Known(v)' => v # u /\ Rcv!Known(v)
  BY <1>1, <1>3, <1>5, RcvTypes DEF Rcv!Known
<1>7. Rcv!KnownAlive'
  BY <1>1, <1>4, <1>6, RcvTypes, Zenon DEF Rcv!KnownAlive
<1>8. Rcv!ListSorted'
  BY <1>1, RcvTypes DEF Rcv!ListSorted
<1>9. OnePlace'
  <2>1. \A v \in Socket : life'[v] = "idle" => ~onList'[v]
    BY <1>1, <1>4, Zenon DEF RcvInv, OnePlace
  <2>2. QED
    BY <1>1, <2>1 DEF RcvInv, OnePlace
<1>10. InHand'
  BY <1>5 DEF InHand
<1>11. QED
  BY <1>1, <1>4, <1>7, <1>8, <1>9, <1>10, RcvTypes, RcvNext

LEMMA NextRcv == RcvInv /\ [Rcv!Next]_rcvVars => RcvInv'
<1> SUFFICES ASSUME RcvInv, [Rcv!Next]_rcvVars PROVE RcvInv'
  OBVIOUS
<1>1. CASE Rcv!NewEntries
  <2>1. CASE newEntry # <<>>
    BY <1>1, <2>1, RcvEntry DEF Rcv!NewEntries, Rcv!ifNewEntry, Rcv!getNewEntry
  <2>2. CASE newEntry = <<>>
    <3>1. /\ receiver' = [receiver EXCEPT !.pc = "receive"] /\ receiver.pc = "entries"
          /\ UNCHANGED <<life, onList, registering, newEntry, ulist, age, hash>>
      BY <1>1, <2>2 DEF Rcv!NewEntries, Rcv!ifNewEntry
    <3>2. receiver.u = None
      BY <3>1 DEF RcvInv, InHand
    <3>3. receiver' \in Receivers /\ receiver'.pc = "receive" /\ receiver'.u = None
      BY <3>1, <3>2, RcvTypes DEF Receivers, RcvPc
    <3>4. QED
      BY <3>1, <3>3, RcvMoved
  <2>3. QED
    BY <2>1, <2>2
<1>2. CASE Rcv!Nothing
  <2>1. /\ receiver' = [receiver EXCEPT !.pc = "clock"] /\ receiver.pc = "receive"
        /\ UNCHANGED <<life, onList, registering, newEntry, ulist, age, hash>>
    BY <1>2 DEF Rcv!Nothing
  <2>2. receiver.u = None
    BY <2>1 DEF RcvInv, InHand
  <2>3. receiver' \in Receivers /\ receiver'.pc = "clock" /\ receiver'.u = None
    BY <2>1, <2>2, RcvTypes DEF Receivers, RcvPc
  <2>4. QED
    BY <2>1, <2>3, RcvMoved
<1>3. ASSUME NEW u \in Socket, Rcv!Receive(u)
      PROVE  RcvInv'
  <2>1. /\ receiver' = [receiver EXCEPT !.pc = "process", !.u = u] /\ u \in hash
        /\ UNCHANGED <<life, onList, registering, newEntry, ulist, age, hash>>
    BY <1>3 DEF Rcv!Receive, Rcv!lookup
  <2>2. receiver' \in Receivers /\ receiver'.pc = "process" /\ receiver'.u = u
    BY <2>1, RcvTypes DEF Receivers, RcvPc
  <2>3. QED
    BY <2>1, <2>2, RcvMoved
<1>4. CASE Rcv!Process
  <2>1. PICK u : u = receiver.u
    OBVIOUS
  <2>2. /\ receiver.pc = "process" /\ Rcv!checkTimers(u) /\ Rcv!update(u)
        /\ receiver' = [receiver EXCEPT !.pc = "clock", !.u = None]
        /\ UNCHANGED <<onList, registering, newEntry, hash>>
    BY <1>4, <2>1 DEF Rcv!Process
  <2>3. u \in hash
    BY <2>1, <2>2 DEF RcvInv, InHand
  <2>4. receiver' \in Receivers /\ receiver'.pc = "clock" /\ receiver'.u = None
    BY <2>2, RcvTypes DEF Receivers, RcvPc
  <2>5. QED
    BY <2>2, <2>3, <2>4, RcvServed
<1>5. CASE Rcv!ReadClock
  <2>1. PICK d : d = {u \in Rcv!ToSet(ulist) : age[u] >= Stale}
    OBVIOUS
  <2>2. /\ receiver' = [receiver EXCEPT !.pc = "timers", !.due = d] /\ receiver.pc = "clock"
        /\ UNCHANGED <<life, onList, registering, newEntry, ulist, age, hash>>
    BY <1>5, <2>1 DEF Rcv!ReadClock
  <2>3. d \subseteq Socket
    BY <2>1, RcvTypes
  <2>4. receiver.u = None
    BY <2>2 DEF RcvInv, InHand
  <2>5. receiver' \in Receivers /\ receiver'.pc = "timers" /\ receiver'.u = None
    BY <2>2, <2>3, <2>4, RcvTypes DEF Receivers, RcvPc
  <2>6. QED
    BY <2>2, <2>5, RcvMoved
<1>6. CASE Rcv!TimerCheck
  <2>1. PICK u : u = Head(ulist)
    OBVIOUS
  <2>2. /\ receiver.pc = "timers" /\ ulist # <<>> /\ Rcv!checkTimers(u) /\ Rcv!update(u)
        /\ receiver' = [receiver EXCEPT !.due = receiver.due \ {u}]
        /\ UNCHANGED <<onList, registering, newEntry, hash>>
    BY <1>6, <2>1 DEF Rcv!TimerCheck, Rcv!Due, Rcv!Done
  <2>3. u \in hash
    BY <2>1, <2>2, RcvTypes, Tailed
  <2>4. receiver.u = None
    BY <2>2 DEF RcvInv, InHand
  <2>5. receiver.due \ {u} \subseteq Socket
    BY RcvTypes DEF Receivers
  <2>6. receiver' \in Receivers /\ receiver'.pc = "timers" /\ receiver'.u = None
    BY <2>2, <2>4, <2>5, RcvTypes DEF Receivers, RcvPc
  <2>7. QED
    BY <2>2, <2>3, <2>6, RcvServed
<1>7. CASE Rcv!EndTimers
  <2>1. /\ receiver' = [pc |-> "entries", u |-> None, due |-> {}]
        /\ UNCHANGED <<life, onList, registering, newEntry, ulist, age, hash>>
    BY <1>7 DEF Rcv!EndTimers, Rcv!Loop
  <2>2. receiver' \in Receivers /\ receiver'.pc = "entries" /\ receiver'.u = None
    BY <2>1 DEF Receivers, RcvPc
  <2>3. QED
    BY <2>1, <2>2, RcvMoved
<1>8. CASE UNCHANGED rcvVars
  <2>1. UNCHANGED <<life, onList, registering, newEntry, ulist, age, hash, receiver>>
    BY <1>8 DEF rcvVars
  <2>2. Rcv!KnownAlive'
    BY <2>1, RcvTypes DEF Rcv!KnownAlive, Rcv!Known
  <2>3. Rcv!ListSorted' /\ OnePlace' /\ InHand'
    BY <2>1, RcvTypes DEF Rcv!ListSorted, RcvInv, OnePlace, InHand
  <2>4. QED
    BY <2>1, <2>2, <2>3, RcvTypes, RcvNext
<1>9. QED
  BY <1>1, <1>2, <1>3, <1>4, <1>5, <1>6, <1>7, <1>8, RcvUnlink, RcvOffList, RcvTick, RcvConnect,
     RcvSetNewEntry, RcvLife DEF Rcv!Next, Rcv!Worker

\* The receiving worker never holds a socket that the collector has deleted, and
\* its list stays in the order of the time stamps, each socket once, whenever
\* connections, closes and the collector come in between (CRcvQueue::worker,
\* CRcvUList, CHash, checkBrokenSockets).
THEOREM RcvSound == Rcv!Spec => []Rcv!RcvListSound
<1>1. RcvInv /\ [Rcv!Next]_Rcv!vars => RcvInv'
  BY NextRcv DEF Rcv!vars, rcvVars
<1>2. RcvInv => Rcv!RcvListSound
  BY DEF RcvInv
<1>3. QED
  BY <1>1, <1>2, RcvStarts, PTL DEF Rcv!Spec
-----------------------------------------------------------------------------
(* The path of a heap from a position to the root.                         *)

LEMMA MaxIn ==
    ASSUME NEW n \in Nat, NEW S \in SUBSET (1..n), S # {}
    PROVE  Snd!Max(S) \in S /\ \A x \in S : Snd!Max(S) >= x
<1>1. PICK D : D = {n - x : x \in S}
  OBVIOUS
<1>2. D \in SUBSET Nat /\ D # {}
  <2>1. \A x \in S : n - x \in Nat
    OBVIOUS
  <2>2. D \subseteq Nat
    BY <1>1, <2>1
  <2>3. PICK x : x \in S
    OBVIOUS
  <2>4. n - x \in D
    BY <1>1, <2>3
  <2>5. QED
    BY <2>2, <2>4
<1>3. PICK d \in D : \A y \in D : d <= y
  BY ONLY <1>2, LeastNat
<1>4. PICK m \in S : d = n - m
  BY <1>1, <1>3
<1>5. ASSUME NEW x \in S
      PROVE  m >= x
  <2>1. n - m <= n - x
    BY <1>1, <1>3, <1>4
  <2>2. x \in Nat /\ m \in Nat
    OBVIOUS
  <2>3. QED
    BY <2>1, <2>2
<1>6. QED
  BY <1>5 DEF Snd!Max

LEMMA Halved ==
    ASSUME NEW j \in Nat, j > 1
    PROVE  /\ Snd!Parent(j) \in Nat /\ Snd!Parent(j) >= 1 /\ Snd!Parent(j) < j
           /\ j = 2 * Snd!Parent(j) \/ j = 2 * Snd!Parent(j) + 1
  BY DEF Snd!Parent

LEMMA PathUp ==
    ASSUME NEW b \in Nat \ {0}
    PROVE  /\ Snd!Ancestors(b) \subseteq 1..b /\ b \in Snd!Ancestors(b) /\ 1 \in Snd!Ancestors(b)
           /\ \A j \in Snd!Ancestors(b) : j # 1 => Snd!Parent(j) \in Snd!Ancestors(b)
<1> DEFINE A == Snd!Ancestors(b)
<1>1. A \subseteq 1..b /\ b \in A
  BY DEF Snd!Ancestors
<1>2. ASSUME NEW j \in A, j # 1
      PROVE  Snd!Parent(j) \in A
  <2>1. j \in 1..b /\ j > 1
    BY <1>1, <1>2
  <2>2. Snd!Parent(j) \in 1..b
    BY <2>1, Halved
  <2>3. ASSUME NEW S \in SUBSET (1..b), b \in S, Snd!Upward(S)
        PROVE  Snd!Parent(j) \in S
    <3>1. j \in S
      BY <2>3 DEF Snd!Ancestors
    <3>2. QED
      BY <1>2, <2>3, <3>1 DEF Snd!Upward
  <2>4. QED
    BY <2>2, <2>3 DEF Snd!Ancestors
<1>3. 1 \in A
  <2> HIDE DEF A
  <2>1. A \in SUBSET Nat /\ A # {}
    BY <1>1
  <2>2. PICK m \in A : \A x \in A : m <= x
    BY ONLY <2>1, LeastNat
  <2>3. m \in Nat /\ m >= 1
    BY <1>1
  <2>4. CASE m # 1
    <3>1. Snd!Parent(m) \in A
      BY <1>2, <2>4
    <3>2. Snd!Parent(m) < m /\ Snd!Parent(m) \in Nat
      BY <2>3, <2>4, Halved
    <3>3. QED
      BY <2>2, <2>3, <3>1, <3>2
  <2>5. QED
    BY <2>4
<1>4. QED
  BY <1>1, <1>2, <1>3

LEMMA PathStep ==
    ASSUME NEW b \in Nat, b > 1
    PROVE  Snd!Ancestors(b) \subseteq {b} \cup Snd!Ancestors(Snd!Parent(b))
<1>1. PICK p \in Nat \ {0} : p = Snd!Parent(b) /\ p < b
  BY Halved
<1>2. PICK S : S = {b} \cup Snd!Ancestors(p)
  OBVIOUS
<1>3. Snd!Ancestors(p) \subseteq 1..p /\ p \in Snd!Ancestors(p)
  BY PathUp
<1>4. S \in SUBSET (1..b) /\ b \in S
  BY <1>1, <1>2, <1>3
<1>5. Snd!Upward(S)
  BY <1>1, <1>2, <1>3, PathUp DEF Snd!Upward
<1>6. Snd!Ancestors(b) \subseteq S
  BY <1>4, <1>5 DEF Snd!Ancestors
<1>7. QED
  BY <1>1, <1>2, <1>6

\* Two positions of a path are at least a generation apart.
Apart(b) == \A q, r \in Snd!Ancestors(b) : q < r => q <= Snd!Parent(r)

LEMMA PathApart == \A b \in Nat \ {0} : Apart(b)
<1> DEFINE Bad == {b \in Nat \ {0} : ~Apart(b)}
<1>1. SUFFICES ASSUME Bad # {} PROVE FALSE
  OBVIOUS
<1>2. Bad \in SUBSET Nat
  OBVIOUS
<1>3. PICK b \in Bad : \A x \in Bad : b <= x
  BY <1>1, <1>2, LeastNat
<1>4. b \in Nat \ {0} /\ ~Apart(b)
  OBVIOUS
<1>5. PICK q \in Snd!Ancestors(b), r \in Snd!Ancestors(b) : q < r /\ ~(q <= Snd!Parent(r))
  BY <1>4 DEF Apart
<1>6. q \in 1..b /\ r \in 1..b /\ b > 1
  BY <1>4, <1>5, PathUp
<1>7. PICK p \in Nat \ {0} : p = Snd!Parent(b) /\ p < b
  BY <1>6, Halved
<1>8. p \notin Bad
  BY <1>3, <1>4, <1>7
<1>9. Apart(p)
  BY <1>8
<1>10. q \in Snd!Ancestors(p)
  BY <1>5, <1>6, <1>7, PathStep
<1>11. q <= p /\ q \in Nat
  BY <1>10, PathUp
<1>12. r # b
  BY <1>5, <1>7, <1>11
<1>13. r \in Snd!Ancestors(p)
  BY <1>6, <1>7, <1>12, PathStep
<1>14. QED
  BY <1>5, <1>9, <1>10, <1>13 DEF Apart

\* Below each position of a path but the last is another.
LEMMA PathDown ==
    ASSUME NEW b \in Nat \ {0}, NEW j \in Snd!Ancestors(b), j # b
    PROVE  \E k \in Snd!Ancestors(b) : k # 1 /\ Snd!Parent(k) = j
<1>1. SUFFICES ASSUME \A k \in Snd!Ancestors(b) : k # 1 => Snd!Parent(k) # j PROVE FALSE
  OBVIOUS
<1>2. PICK S : S = Snd!Ancestors(b) \ {j}
  OBVIOUS
<1>3. S \in SUBSET (1..b) /\ b \in S
  BY <1>2, PathUp
<1>4. Snd!Upward(S)
  BY <1>1, <1>2, PathUp DEF Snd!Upward
<1>5. j \in S
  BY <1>3, <1>4 DEF Snd!Ancestors
<1>6. QED
  BY <1>2, <1>5
-----------------------------------------------------------------------------
(* The heap of the sending worker.                                         *)

Entries == [u : Socket, ts : 0..Interval]
Distinct(h) == \A i, j \in DOMAIN h : h[i].u = h[j].u => i = j
Users(h) == {h[i].u : i \in DOMAIN h}

\* Entries that are moved, each to a place of its own, stay distinct.
Moved(n, g, src, k) ==
    /\ n \in Nat /\ g \in [1..n -> Entries] /\ Distinct(g)
    /\ src \in [1..n -> 1..n] /\ \A i, j \in 1..n : src[i] = src[j] => i = j
    /\ k = [i \in 1..n |-> g[src[i]]]

LEMMA HeapMoved ==
    ASSUME NEW n, NEW g, NEW src, NEW k, Moved(n, g, src, k)
    PROVE  k \in Seq(Entries) /\ Len(k) = n /\ Distinct(k) /\ Users(k) \subseteq Users(g)
<1> USE DEF Moved
<1>1. k \in [1..n -> Entries]
  OBVIOUS
<1>2. k \in Seq(Entries) /\ Len(k) = n
  BY <1>1
<1>3. DOMAIN k = 1..n /\ DOMAIN g = 1..n
  OBVIOUS
<1>4. \A i \in 1..n : k[i] = g[src[i]] /\ src[i] \in 1..n
  OBVIOUS
<1>5. Distinct(k)
  BY <1>3, <1>4 DEF Distinct
<1>6. Users(k) \subseteq Users(g)
  BY <1>3, <1>4 DEF Users
<1>7. QED
  BY <1>2, <1>5, <1>6

LEMMA HeapInserted ==
    ASSUME NEW h \in Seq(Entries), NEW e \in Entries, Distinct(h), e.u \notin Users(h)
    PROVE  \E k \in Seq(Entries) : k = Snd!insert_(h, e) /\ Len(k) = Len(h) + 1 /\ Distinct(k)
<1>1. PICK n \in Nat \ {0} : n = Len(h) + 1
  OBVIOUS
<1>2. PICK g : g = Append(h, e)
  OBVIOUS
<1>3. /\ g \in [1..n -> Entries] /\ g[n] = e
      /\ \A i \in 1..n : i # n => i \in DOMAIN h /\ g[i] = h[i]
  <2>1. g \in Seq(Entries) /\ Len(g) = n
    BY <1>1, <1>2
  <2>2. g[n] = e /\ \A i \in 1..n : i # n => i \in DOMAIN h /\ g[i] = h[i]
    BY <1>1, <1>2
  <2>3. QED
    BY <2>1, <2>2
<1>4. Distinct(g)
  <2>1. \A i \in 1..n : i # n => g[i].u # e.u
    BY <1>3 DEF Users
  <2>2. QED
    BY <1>3, <2>1 DEF Distinct
<1>5. PICK A : A = Snd!Ancestors(n)
  OBVIOUS
<1>6. /\ A \subseteq 1..n /\ n \in A /\ 1 \in A
      /\ \A j \in A : j # 1 => Snd!Parent(j) \in A
  BY <1>5, PathUp
<1>7. \A q, r \in A : q < r => q <= Snd!Parent(r)
  BY <1>5, PathApart DEF Apart
<1>8. PICK T : T = {q \in A : q = 1 \/ g[Snd!Parent(q)].ts <= e.ts}
  OBVIOUS
<1>9. PICK top : top = Snd!Max(T)
  OBVIOUS
<1>10. top \in A /\ top \in 1..n
  <2>1. T \in SUBSET (1..n) /\ T # {}
    BY <1>6, <1>8
  <2>2. top \in T
    BY <1>9, <2>1, MaxIn
  <2>3. QED
    BY <1>6, <1>8, <2>2
<1> DEFINE Src(i) == IF i = top THEN n ELSE IF i > top /\ i \in A THEN Snd!Parent(i) ELSE i
<1>11. PICK src : src = [i \in 1..n |-> Src(i)]
  OBVIOUS
<1>12. ASSUME NEW i \in A, i > top
       PROVE  Snd!Parent(i) \in A /\ top <= Snd!Parent(i) /\ Snd!Parent(i) < i /\ Snd!Parent(i) \in 1..n
  <2>1. i \in Nat /\ i > 1
    BY <1>6, <1>10, <1>12
  <2>2. QED
    BY <1>6, <1>7, <1>10, <1>12, <2>1, Halved
<1>13. src \in [1..n -> 1..n]
  BY <1>11, <1>12
<1>14. ASSUME NEW i \in 1..n, NEW j \in 1..n, src[i] = src[j]
       PROVE  i = j
  <2> DEFINE Up == {q \in A : q > top}
  <2>1. \A q \in 1..n : q \in Up => src[q] = Snd!Parent(q) /\ src[q] \in A /\ top <= src[q] /\ src[q] < q
    BY <1>10, <1>11, <1>12
  <2>2. \A q \in 1..n : q = top => src[q] = n
    BY <1>11
  <2>3. \A q \in 1..n : q # top /\ q \notin Up => src[q] = q
    BY <1>11
  <2>4. \A q \in A : top <= q => q = top \/ q \in Up
    BY <1>6, <1>10
  <2> HIDE DEF Up
  <2>5. CASE i \in Up /\ j \in Up
    <3>1. i \in A /\ j \in A /\ i \in Nat /\ j \in Nat
      BY <2>5 DEF Up
    <3>2. /\ src[i] = Snd!Parent(i) /\ src[i] < i /\ src[j] = Snd!Parent(j) /\ src[j] < j
      BY <2>1, <2>5
    <3>3. src[i] \in Nat /\ src[j] \in Nat
      <4>1. \A x \in 1..n : src[x] \in 1..n
        BY ONLY <1>13
      <4>2. src[i] \in 1..n /\ src[j] \in 1..n
        BY <4>1
      <4>3. QED
        BY <4>2
    <3>4. i < j => i <= Snd!Parent(j)
      BY <1>7, <3>1
    <3>5. j < i => j <= Snd!Parent(i)
      BY <1>7, <3>1
    <3>6. PICK x \in Nat : x = src[i] /\ x = src[j]
      BY <1>14, <3>3
    <3>7. x < i /\ x < j /\ (i < j => i <= x) /\ (j < i => j <= x)
      BY <3>2, <3>4, <3>5, <3>6
    <3>8. QED
      BY ONLY <3>1, <3>6, <3>7
  <2>6. ASSUME NEW q \in 1..n, NEW r \in 1..n, q \in Up, r \notin Up, src[q] = src[r]
        PROVE  FALSE
    <3>1. CASE r = top
      BY <2>1, <2>2, <2>6, <3>1
    <3>2. CASE r # top
      <4>1. src[r] = r
        BY <2>3, <2>6, <3>2
      <4>2. r \in A /\ top <= r
        BY <2>1, <2>6, <4>1
      <4>3. QED
        BY <2>4, <2>6, <3>2, <4>2
    <3>3. QED
      BY <3>1, <3>2
  <2>7. ASSUME NEW q \in 1..n, q # top, q \notin Up
        PROVE  src[q] # n
    <3>1. src[q] = q
      BY <2>3, <2>7
    <3>2. top <= n
      BY <1>10
    <3>3. QED
      BY <1>6, <2>4, <2>7, <3>1, <3>2
  <2>8. CASE i \notin Up /\ j \notin Up
    BY <1>14, <2>2, <2>3, <2>7, <2>8
  <2>9. QED
    BY <1>14, <2>5, <2>6, <2>8
<1>15. Snd!insert_(h, e) = [i \in 1..n |->
           CASE i = top -> e
             [] i > top /\ i \in A -> g[Snd!Parent(i)]
             [] OTHER -> g[i]]
  BY <1>1, <1>2, <1>5, <1>8, <1>9 DEF Snd!insert_
<1>16. \A i \in 1..n : g[src[i]] = CASE i = top -> e
                                     [] i > top /\ i \in A -> g[Snd!Parent(i)]
                                     [] OTHER -> g[i]
  BY <1>3, <1>10, <1>11
<1>17. PICK k : k = [i \in 1..n |-> g[src[i]]]
  OBVIOUS
<1>18. Snd!insert_(h, e) = k
  BY <1>15, <1>16, <1>17
<1>19. k \in Seq(Entries) /\ Len(k) = n /\ Distinct(k)
  <2>1. \A i, j \in 1..n : src[i] = src[j] => i = j
    BY <1>14
  <2>2. n \in Nat
    OBVIOUS
  <2>3. g \in [1..n -> Entries]
    BY <1>3
  <2>4. Moved(n, g, src, k)
    BY ONLY <1>4, <1>13, <1>17, <2>1, <2>2, <2>3, Zenon DEF Moved
  <2>5. QED
    BY ONLY <2>4, HeapMoved
<1>20. QED
  BY <1>1, <1>18, <1>19
LEMMA HeapRemoved ==
    ASSUME NEW h \in Seq(Entries), NEW i \in DOMAIN h, Distinct(h)
    PROVE  \E k \in Seq(Entries) :
              /\ k = Snd!remove_(h, i) /\ Len(k) = Len(h) - 1 /\ Distinct(k)
              /\ h[i].u \notin Users(k)
<1>1. PICK n \in Nat : n = Len(h) - 1 /\ Len(h) = n + 1
  OBVIOUS
<1>2. i \in 1..(n + 1) /\ DOMAIN h = 1..(n + 1)
  BY <1>1
<1>3. PICK e : e = h[Len(h)]
  OBVIOUS
<1>4. PICK g : g = [j \in 1..n |-> IF j = i THEN e ELSE h[j]]
  OBVIOUS
<1>5. g \in [1..n -> Entries] /\ DOMAIN g = 1..n
  BY <1>1, <1>2, <1>3, <1>4
<1>6. \A j \in 1..n : \E m \in DOMAIN h : m # i /\ g[j] = h[m] /\ (m = j \/ (j = i /\ m = n + 1))
  <2>1. TAKE j \in 1..n
  <2>2. CASE j = i
    <3>1. n + 1 \in DOMAIN h /\ n + 1 # i /\ g[j] = h[n + 1]
      BY <1>1, <1>2, <1>3, <1>4, <2>2
    <3>2. QED
      BY <2>2, <3>1
  <2>3. CASE j # i
    <3>1. j \in DOMAIN h /\ g[j] = h[j]
      BY <1>2, <1>4, <2>3
    <3>2. QED
      BY <2>3, <3>1
  <2>4. QED
    BY <2>2, <2>3
<1>7. Distinct(g)
  BY <1>2, <1>5, <1>6 DEF Distinct
<1>8. h[i].u \notin Users(g)
  BY <1>5, <1>6 DEF Distinct, Users
<1>9. CASE i > n
  <2>1. Snd!remove_(h, i) = g
    BY <1>1, <1>3, <1>4, <1>9 DEF Snd!remove_
  <2>2. g \in Seq(Entries) /\ Len(g) = n
    BY <1>5
  <2>3. QED
    BY <1>1, <1>7, <1>8, <2>1, <2>2
<1>10. CASE ~(i > n)
  <2> DEFINE child(q) == IF 2*q + 1 <= n /\ g[2*q].ts > g[2*q + 1].ts THEN 2*q + 1 ELSE 2*q
             path(b) == {j \in Snd!Ancestors(b) : j > i}
  <2>1. i \in 1..n /\ i \in Nat \ {0}
    BY <1>2, <1>10
  <2>2. PICK B : B = {b \in i..n : /\ i \in Snd!Ancestors(b)
                                   /\ \A j \in path(b) : j = child(Snd!Parent(j)) /\ e.ts > g[j].ts}
    OBVIOUS
  <2>3. PICK bottom : bottom = Snd!Max(B)
    OBVIOUS
  <2>4. /\ bottom \in i..n /\ i \in Snd!Ancestors(bottom)
        /\ \A j \in path(bottom) : j = child(Snd!Parent(j))
    <3>1. i \in Snd!Ancestors(i) /\ path(i) = {}
      BY <2>1, PathUp
    <3>2. B \in SUBSET (1..n) /\ i \in B
      BY <2>1, <2>2, <3>1
    <3>3. bottom \in B
      BY <2>3, <3>2, MaxIn
    <3>4. QED
      BY <2>2, <3>3
  <2>5. PICK A : A = Snd!Ancestors(bottom)
    OBVIOUS
  <2>6. bottom \in 1..n /\ bottom \in Nat \ {0}
    BY <2>1, <2>4
  <2>7. A \subseteq 1..bottom /\ bottom \in A /\ i \in A /\ A \subseteq 1..n
    BY <2>4, <2>5, <2>6, PathUp
  <2>8. PICK P : P = {j \in A : j >= i}
    OBVIOUS
  <2>9. path(bottom) \cup {i} = P
    BY <2>1, <2>5, <2>7, <2>8
  <2>10. ASSUME NEW j \in P, j # bottom
         PROVE  child(j) \in P /\ child(j) # i /\ Snd!Parent(child(j)) = j
    <3>1. j \in A /\ j \in Nat /\ j >= i
      BY <2>7, <2>8, <2>10
    <3>2. PICK m \in A : m # 1 /\ Snd!Parent(m) = j
      BY <2>5, <2>6, <2>10, <3>1, PathDown
    <3>3. m \in Nat /\ m > 1
      BY <2>7, <3>2
    <3>4. m > j
      BY <3>2, <3>3, Halved
    <3>5. m \in path(bottom)
      BY <2>1, <2>5, <3>1, <3>2, <3>3, <3>4
    <3>6. m = child(j)
      BY <2>4, <3>2, <3>5
    <3> HIDE DEF child, path
    <3>7. m \in P /\ m # i
      BY <2>1, <2>8, <3>1, <3>2, <3>3, <3>4
    <3>8. QED
      BY <3>2, <3>6, <3>7
  <2> HIDE DEF child
  <2>11. PICK src : src = [j \in 1..n |-> IF j = bottom THEN i ELSE IF j \in P THEN child(j) ELSE j]
    OBVIOUS
  <2>12. P \subseteq 1..n /\ i \in P /\ bottom \in P
    <3>1. bottom >= i /\ i >= i
      BY <2>1, <2>4
    <3>2. QED
      BY ONLY <2>7, <2>8, <3>1
  <2>13. src \in [1..n -> 1..n]
    BY <2>1, <2>10, <2>11, <2>12
  <2>14. ASSUME NEW j \in 1..n, NEW m \in 1..n, src[j] = src[m]
         PROVE  j = m
    <3>1. src[bottom] = i
      BY <2>6, <2>11
    <3>2. \A q \in 1..n : q \in P /\ q # bottom => src[q] \in P /\ src[q] # i /\ Snd!Parent(src[q]) = q
      BY <2>10, <2>11
    <3>3. \A q \in 1..n : q \notin P => src[q] = q
      BY <2>11, <2>12
    <3>4. QED
      BY ONLY <2>12, <2>14, <3>1, <3>2, <3>3, Zenon
  <2>15. PICK k : k = [j \in 1..n |-> g[src[j]]]
    OBVIOUS
  <2>16. Moved(n, g, src, k)
    <3>1. \A j, m \in 1..n : src[j] = src[m] => j = m
      BY <2>14
    <3>2. n \in Nat
      OBVIOUS
    <3>3. QED
      BY ONLY <1>5, <1>7, <2>13, <2>15, <3>1, <3>2, Zenon DEF Moved
  <2>17. k \in Seq(Entries) /\ Len(k) = n /\ Distinct(k) /\ Users(k) \subseteq Users(g)
    BY ONLY SMTT(30), <2>16, HeapMoved
  <2>18. Snd!remove_(h, i) = [j \in 1..n |->
                CASE j = bottom -> e
                  [] j # bottom /\ j \in path(bottom) \cup {i} -> g[child(j)]
                  [] OTHER -> g[j]]
    BY <1>1, <1>3, <1>4, <1>10, <2>2, <2>3 DEF Snd!remove_, child
  <2>19. g[i] = e
    BY <1>4, <2>1
  <2>20. \A j \in 1..n : g[src[j]] = CASE j = bottom -> e
                                       [] j # bottom /\ j \in path(bottom) \cup {i} -> g[child(j)]
                                       [] OTHER -> g[j]
    <3> HIDE DEF path
    <3>1. QED
      BY <2>9, <2>11, <2>12, <2>19
  <2>21. Snd!remove_(h, i) = k
    <3> HIDE DEF path
    <3>1. QED
      BY <2>15, <2>18, <2>20
  <2>22. QED
    BY <1>1, <1>8, <2>17, <2>21
<1>11. QED
  BY <1>9, <1>10
-----------------------------------------------------------------------------
(* The sending worker.                                                     *)

Workers == [pc : {"next", "sleepto", "sleeping", "pop", "window", "check", "wait", "waiting", "exit"},
            ts : 0..Interval]

SndTyped ==
    /\ heap \in Seq(Entries) /\ dead \subseteq Socket /\ list \in Thread \cup {None}
    /\ window \in BOOLEAN /\ worker \in Workers /\ sched \in 0..Interval
    /\ closing \in {"no", "set", "notified"}

\* The worker that has seen an empty list under m_WindowLock, and has not waited
\* yet, cannot be missed: who puts the first entry there notifies it, and has to
\* take m_WindowLock to do so.
Notified ==
    /\ worker.pc \in {"wait", "waiting"} /\ heap # <<>> => list # None
    /\ worker.pc \in {"check", "wait"} => window

SndInv == SndTyped /\ Distinct(heap) /\ Notified

LEMMA SndCardinality == \A S : Snd!Cardinality(S) = Cardinality(S)
  BY DEF Snd!Cardinality, Cardinality

LEMMA SndAttended ==
    ASSUME SndInv
    PROVE  Snd!Attended
<1>1. ASSUME NEW u \in Socket
      PROVE  Snd!Cardinality(Snd!Places(u)) <= 1
  <2>1. CASE Snd!Places(u) = {}
    BY <2>1, FS_EmptySet, SndCardinality
  <2>2. CASE Snd!Places(u) # {}
    <3>1. PICK i \in Snd!Places(u) : TRUE
      BY <2>2
    <3>2. Snd!Places(u) = {i}
      BY <3>1 DEF Snd!Places, SndInv, Distinct
    <3>3. Cardinality({i}) = 1
      BY FS_Singleton
    <3>4. QED
      BY <3>2, <3>3, SndCardinality
  <2>3. QED
    BY <2>1, <2>2
<1>2. Snd!TypeOK
  BY <1>1 DEF Snd!TypeOK, SndInv, SndTyped, Entries, Workers
<1>3. Snd!NoLostNotify
  BY DEF SndInv, Notified, Snd!NoLostNotify
<1>4. QED
  BY <1>2, <1>3 DEF Snd!Attended

LEMMA SndStarts == Snd!Init => SndInv
<1> SUFFICES ASSUME Snd!Init PROVE SndInv
  OBVIOUS
<1>1. worker = [pc |-> "next", ts |-> 0] /\ heap = <<>> /\ Interval \in Nat
  BY QueuesAssumption DEF Snd!Init
<1>2. SndTyped
  <2>1. worker \in Workers
    BY <1>1 DEF Workers
  <2>2. <<>> \in Seq(Entries)
    OBVIOUS
  <2>3. window \in BOOLEAN
    BY DEF Snd!Init
  <2>4. dead \subseteq Socket /\ list \in Thread \cup {None} /\ sched \in 0..Interval
    BY <1>1 DEF Snd!Init
  <2>5. closing \in {"no", "set", "notified"}
    BY DEF Snd!Init
  <2>6. QED
    BY <1>1, <2>1, <2>2, <2>3, <2>4, <2>5 DEF SndTyped
<1>3. Distinct(heap)
  BY <1>1 DEF Distinct
<1>4. Notified
  BY <1>1 DEF Notified
<1>5. QED
  BY <1>2, <1>3, <1>4 DEF SndInv

\* The place of a socket of the list.
LEMMA SndPlace ==
    ASSUME NEW u, Snd!OnList(u)
    PROVE  Snd!Place(u) \in DOMAIN heap /\ heap[Snd!Place(u)].u = u
<1>1. Snd!Place(u) \in Snd!Places(u)
  BY DEF Snd!OnList, Snd!Place
<1>2. QED
  BY <1>1 DEF Snd!Places

LEMMA SndRemove ==
    ASSUME SndInv, NEW u, Snd!OnList(u)
    PROVE  \E k \in Seq(Entries) :
              /\ k = Snd!remove_(heap, Snd!Place(u)) /\ Len(k) = Len(heap) - 1 /\ Distinct(k)
              /\ u \notin Users(k)
<1>1. PICK h, i : h = heap /\ i = Snd!Place(u)
  OBVIOUS
<1>2. h \in Seq(Entries) /\ Distinct(h) /\ i \in DOMAIN h /\ h[i].u = u
  BY <1>1, SndPlace DEF SndInv, SndTyped
<1>3. PICK k \in Seq(Entries) : k = Snd!remove_(h, i) /\ Len(k) = Len(h) - 1 /\ Distinct(k) /\ h[i].u \notin Users(k)
  BY ONLY <1>2, HeapRemoved
<1>4. QED
  BY <1>1, <1>2, <1>3

\* A step that leaves the heap alone.
LEMMA SndKept ==
    ASSUME SndInv, UNCHANGED heap, SndTyped', Notified'
    PROVE  SndInv'
  BY DEF SndInv, Distinct

LEMMA SndUpdate ==
    ASSUME SndInv, NEW t \in Thread, NEW u \in Socket, NEW reschedule \in BOOLEAN,
           Snd!update(t, u, reschedule)
    PROVE  SndInv'
<1>t. /\ heap \in Seq(Entries) /\ dead \subseteq Socket /\ window \in BOOLEAN /\ worker \in Workers
      /\ sched \in 0..Interval /\ closing \in {"no", "set", "notified"} /\ Interval \in Nat /\ None \notin Thread
      /\ Distinct(heap)
  BY QueuesAssumption DEF SndInv, SndTyped
<1>0. list = None /\ UNCHANGED <<dead, window, worker, closing>>
  BY DEF Snd!update
<1>n. /\ worker.pc \in {"wait", "waiting"} => heap = <<>>
      /\ worker.pc \in {"check", "wait"} => window
  BY <1>0 DEF SndInv, Notified
<1>1. CASE Snd!OnList(u) /\ ~reschedule
  <2>1. UNCHANGED <<heap, sched, list>>
    BY <1>1, Zenon DEF Snd!update
  <2>2. SndTyped' /\ Notified'
    BY <1>0, <2>1 DEF SndInv, SndTyped, Notified
  <2>3. QED
    BY <2>1, <2>2, SndKept
<1>2. CASE Snd!OnList(u) /\ reschedule /\ Snd!Place(u) = 1
  <2>1. heap' = [heap EXCEPT ![1].ts = 0] /\ sched' = 0 /\ UNCHANGED list
    BY <1>2 DEF Snd!update, Snd!interrupt
  <2>2. 1 \in DOMAIN heap
    BY <1>2, SndPlace
  <2>3. heap[1] \in Entries
    BY <1>t, <2>2
  <2>4. [heap[1] EXCEPT !.ts = 0] \in Entries /\ [heap[1] EXCEPT !.ts = 0].u = heap[1].u
    BY <1>t, <2>3 DEF Entries
  <2>5. heap' = [heap EXCEPT ![1] = [heap[1] EXCEPT !.ts = 0]]
    BY <2>1
  <2>6. heap' \in Seq(Entries) /\ DOMAIN heap' = DOMAIN heap
    BY <1>t, <2>2, <2>4, <2>5
  <2>7. \A i \in DOMAIN heap : heap'[i].u = heap[i].u
    BY <1>t, <2>2, <2>4, <2>5
  <2>8. Distinct(heap')
    BY <1>t, <2>6, <2>7 DEF Distinct
  <2>9. SndTyped'
    BY <1>0, <1>t, <2>1, <2>6 DEF SndInv, SndTyped
  <2>10. heap # <<>>
    BY <2>2
  <2>11. Notified'
    BY <1>0, <1>n, <2>1, <2>10 DEF Notified
  <2>12. QED
    BY <2>8, <2>9, <2>11 DEF SndInv
<1>3. CASE ~(Snd!OnList(u) /\ ~reschedule) /\ ~(Snd!OnList(u) /\ Snd!Place(u) = 1)
  <2>1. PICK rest : rest = IF Snd!OnList(u) THEN Snd!remove_(heap, Snd!Place(u)) ELSE heap
    OBVIOUS
  <2>2. PICK e : e = [u |-> u, ts |-> 0]
    OBVIOUS
  <2>3. /\ heap' = Snd!insert_(rest, e) /\ (sched' = 0 \/ sched' = sched)
        /\ list' = IF Len(heap') = 1 THEN t ELSE None
    BY <1>3, <2>1, <2>2 DEF Snd!update, Snd!interrupt
  <2>4. /\ rest \in Seq(Entries) /\ Distinct(rest) /\ u \notin Users(rest)
        /\ heap = <<>> => Len(rest) = 0
    <3>1. CASE Snd!OnList(u)
      <4>1. heap # <<>>
        BY <3>1, SndPlace
      <4>2. QED
        BY <2>1, <3>1, <4>1, SndRemove
    <3>2. CASE ~Snd!OnList(u)
      <4>1. u \notin Users(heap)
        BY <3>2 DEF Snd!OnList, Snd!Places, Users
      <4>2. QED
        BY <1>t, <2>1, <3>2, <4>1
    <3>3. QED
      BY <3>1, <3>2
  <2>5. e \in Entries /\ e.u = u
    BY <1>t, <2>2 DEF Entries
  <2>6. PICK k \in Seq(Entries) : k = Snd!insert_(rest, e) /\ Len(k) = Len(rest) + 1 /\ Distinct(k)
    BY <2>4, <2>5, HeapInserted
  <2>7. heap' = k
    BY <2>3, <2>6
  <2>8. SndTyped'
    BY <1>0, <1>t, <2>3, <2>6, <2>7 DEF SndTyped
  <2>9. heap = <<>> => list' = t
    BY <2>3, <2>4, <2>6, <2>7
  <2>10. Notified'
    BY <1>0, <1>n, <1>t, <2>9 DEF Notified
  <2>11. QED
    BY <2>6, <2>7, <2>8, <2>10 DEF SndInv
<1>4. QED
  BY <1>1, <1>2, <1>3

LEMMA SndRemoveStep ==
    ASSUME SndInv, NEW u \in Socket, Snd!remove(u)
    PROVE  SndInv'
<1>1. list = None /\ UNCHANGED <<dead, list, window, worker, closing>> /\ (sched' = 0 \/ sched' = sched)
  BY DEF Snd!remove, Snd!interrupt
<1>2. Interval \in Nat
  BY QueuesAssumption
<1>3. CASE ~Snd!OnList(u)
  <2>1. UNCHANGED heap
    BY <1>3 DEF Snd!remove
  <2>2. SndTyped' /\ Notified'
    BY <1>1, <1>2, <2>1 DEF SndInv, SndTyped, Notified
  <2>3. QED
    BY <2>1, <2>2, SndKept
<1>4. CASE Snd!OnList(u)
  <2>1. PICK k \in Seq(Entries) : k = Snd!remove_(heap, Snd!Place(u)) /\ Distinct(k)
    BY <1>4, SndRemove
  <2>2. heap' = k
    BY <1>4, <2>1 DEF Snd!remove
  <2>3. heap # <<>>
    BY <1>4, SndPlace
  <2>4. SndTyped'
    BY <1>1, <1>2, <2>1, <2>2 DEF SndInv, SndTyped
  <2>5. Notified'
    BY <1>1, <2>3 DEF SndInv, Notified
  <2>6. QED
    BY <2>1, <2>2, <2>4, <2>5 DEF SndInv
<1>5. QED
  BY <1>3, <1>4
\* pop: the first entry leaves the list, or is put back with a later time.
LEMMA SndPop ==
    ASSUME SndInv, Snd!pop
    PROVE  SndInv'
<1>t. /\ heap \in Seq(Entries) /\ dead \subseteq Socket /\ list \in Thread \cup {None} /\ window \in BOOLEAN
      /\ worker \in Workers /\ sched \in 0..Interval /\ closing \in {"no", "set", "notified"}
      /\ Interval \in Nat /\ Distinct(heap)
  BY QueuesAssumption DEF SndInv, SndTyped
<1>1. worker.pc = "pop" /\ worker' = [worker EXCEPT !.pc = "next"] /\ UNCHANGED <<dead, list, window, closing>>
  BY DEF Snd!pop, Snd!Goto
<1>2. worker' \in Workers /\ worker'.pc = "next"
  BY <1>1, <1>t DEF Workers
<1>3. Notified'
  BY <1>2 DEF Notified
<1>4. CASE UNCHANGED <<heap, sched>>
  <2>1. SndTyped'
    BY <1>1, <1>2, <1>4, <1>t DEF SndTyped
  <2>2. QED
    BY <1>3, <1>4, <2>1, SndKept
<1>5. CASE ~(heap = <<>> \/ heap[1].ts > 0)
  <2>1. PICK h : h = heap
    OBVIOUS
  <2>2. h \in Seq(Entries) /\ Distinct(h) /\ 1 \in DOMAIN h
    BY <1>5, <1>t, <2>1
  <2>3. PICK r \in Seq(Entries) : r = Snd!remove_(h, 1) /\ Distinct(r) /\ h[1].u \notin Users(r)
    BY ONLY <2>2, HeapRemoved
  <2>4. PICK u \in Socket : u = h[1].u
    <3>1. h[1] \in Entries
      BY <2>2
    <3>2. QED
      BY <3>1 DEF Entries
  <2>5. /\ sched' = 0 \/ sched' = sched
        /\ \/ heap' = r
           \/ \E ts \in 0..Interval : heap' = Snd!insert_(r, [u |-> u, ts |-> ts])
    BY <1>5, <2>1, <2>3, <2>4 DEF Snd!pop, Snd!interrupt
  <2>6. PICK k \in Seq(Entries) : heap' = k /\ Distinct(k)
    <3>1. CASE heap' = r
      BY <2>3, <3>1
    <3>2. ASSUME NEW ts \in 0..Interval, heap' = Snd!insert_(r, [u |-> u, ts |-> ts])
          PROVE  \E k \in Seq(Entries) : heap' = k /\ Distinct(k)
      <4>1. PICK e \in Entries : e = [u |-> u, ts |-> ts]
        BY DEF Entries
      <4>2. e.u \notin Users(r)
        BY <2>3, <2>4, <4>1
      <4>3. PICK k \in Seq(Entries) : k = Snd!insert_(r, e) /\ Distinct(k)
        BY ONLY <2>3, <4>2, HeapInserted, e \in Entries
      <4>4. QED
        BY <3>2, <4>1, <4>3
    <3>3. QED
      BY <2>5, <3>1, <3>2
  <2>7. SndTyped'
    BY <1>1, <1>2, <1>t, <2>5, <2>6 DEF SndTyped
  <2>8. QED
    BY <1>3, <2>6, <2>7 DEF SndInv
<1>6. QED
  BY <1>4, <1>5 DEF Snd!pop

LEMMA SndTick ==
    ASSUME SndInv, Snd!Tick
    PROVE  SndInv'
<1>t. /\ heap \in Seq(Entries) /\ dead \subseteq Socket /\ list \in Thread \cup {None} /\ window \in BOOLEAN
      /\ worker \in Workers /\ sched \in 0..Interval /\ closing \in {"no", "set", "notified"}
      /\ Interval \in Nat /\ Distinct(heap)
  BY QueuesAssumption DEF SndInv, SndTyped
<1>1. /\ heap' = [i \in DOMAIN heap |-> [heap[i] EXCEPT !.ts = Snd!Sooner(@)]]
      /\ sched' = Snd!Sooner(sched) /\ worker' = [worker EXCEPT !.ts = Snd!Sooner(@)]
      /\ UNCHANGED <<dead, list, window, closing>>
  BY DEF Snd!Tick
<1>2. \A n \in 0..Interval : Snd!Sooner(n) \in 0..Interval
  BY <1>t DEF Snd!Sooner
<1>3. worker' \in Workers /\ worker'.pc = worker.pc
  BY <1>1, <1>2, <1>t DEF Workers
<1>4. ASSUME NEW x \in Entries
      PROVE  [x EXCEPT !.ts = Snd!Sooner(@)] \in Entries /\ [x EXCEPT !.ts = Snd!Sooner(@)].u = x.u
  BY <1>2 DEF Entries
<1>5. \A i \in DOMAIN heap : heap[i] \in Entries
  BY <1>t
<1>6. /\ DOMAIN heap' = DOMAIN heap
      /\ \A i \in DOMAIN heap : heap'[i] \in Entries /\ heap'[i].u = heap[i].u
  BY <1>1, <1>4, <1>5
<1>7. heap' \in Seq(Entries) /\ Len(heap') = Len(heap)
  <2>1. PICK n \in Nat : n = Len(heap) /\ DOMAIN heap = 1..n
    BY <1>t
  <2>2. heap' = [i \in 1..n |-> [heap[i] EXCEPT !.ts = Snd!Sooner(@)]]
    BY <1>1, <2>1
  <2>3. heap' \in [1..n -> Entries]
    BY <1>4, <1>5, <2>1, <2>2
  <2>4. QED
    BY <2>1, <2>3
<1>8. Distinct(heap')
  BY <1>6, <1>t DEF Distinct
<1>9. SndTyped'
  BY <1>1, <1>2, <1>3, <1>7, <1>t DEF SndTyped
<1>10. heap' # <<>> => heap # <<>>
  BY <1>7, <1>t
<1>11. Notified'
  BY <1>1, <1>3, <1>10 DEF SndInv, Notified
<1>12. QED
  BY <1>8, <1>9, <1>11 DEF SndInv

LEMMA NextSnd == SndInv /\ [Snd!Next]_sndVars => SndInv'
<1> SUFFICES ASSUME SndInv, [Snd!Next]_sndVars PROVE SndInv'
  OBVIOUS
<1>t. /\ heap \in Seq(Entries) /\ dead \subseteq Socket /\ list \in Thread \cup {None} /\ window \in BOOLEAN
      /\ worker \in Workers /\ sched \in 0..Interval /\ closing \in {"no", "set", "notified"}
      /\ Interval \in Nat /\ None \notin Thread
      /\ worker.pc \in {"wait", "waiting"} /\ heap # <<>> => list # None
      /\ worker.pc \in {"check", "wait"} => window
  BY QueuesAssumption DEF SndInv, SndTyped, Notified
<1>w. \A pc \in {"next", "pop", "window", "check", "wait", "waiting", "exit"} :
         [worker EXCEPT !.pc = pc] \in Workers /\ [worker EXCEPT !.pc = pc].pc = pc
  BY <1>t DEF Workers
<1>1. ASSUME NEW t \in Thread, Snd!Notify(t)
      PROVE  SndInv'
  <2>1. /\ list = t /\ ~window /\ list' = None /\ UNCHANGED <<heap, dead, window, sched, closing>>
        /\ worker' = IF worker.pc = "waiting" THEN [worker EXCEPT !.pc = "next"] ELSE worker
    BY <1>1 DEF Snd!Notify, Snd!WakeWorker
  <2>2. worker' \in Workers /\ worker'.pc # "waiting" /\ (worker'.pc = worker.pc \/ worker'.pc = "next")
    BY <1>t, <1>w, <2>1
  <2>3. SndTyped'
    BY <1>t, <2>1, <2>2 DEF SndTyped
  <2>4. Notified'
    BY <1>t, <2>1, <2>2 DEF Notified
  <2>5. QED
    BY <2>1, <2>3, <2>4, SndKept
<1>2. ASSUME NEW u \in Socket, Snd!Die(u)
      PROVE  SndInv'
  <2>1. dead' = dead \cup {u} /\ UNCHANGED <<heap, list, window, worker, sched, closing>>
    BY <1>2 DEF Snd!Die
  <2>2. SndTyped' /\ Notified'
    BY <1>t, <2>1 DEF SndTyped, Notified
  <2>3. QED
    BY <2>1, <2>2, SndKept
<1>3. CASE Snd!Destroy
  <2>1. /\ UNCHANGED <<heap, dead, list, window, sched>> /\ closing' \in {"set", "notified"}
        /\ worker' = worker \/ (worker.pc = "waiting" /\ worker' = [worker EXCEPT !.pc = "next"])
    BY <1>3 DEF Snd!Destroy, Snd!WakeWorker
  <2>2. worker' \in Workers /\ (worker'.pc = worker.pc \/ worker'.pc = "next")
    BY <1>t, <1>w, <2>1
  <2>3. SndTyped'
    BY <1>t, <2>1, <2>2 DEF SndTyped
  <2>4. Notified'
    BY <1>t, <2>1, <2>2 DEF Notified
  <2>5. QED
    BY <2>1, <2>3, <2>4, SndKept
<1>4. CASE Snd!NextProcTime
  <2>1. UNCHANGED <<heap, dead, list, window, sched, closing>> /\ worker.pc = "next"
    BY <1>4 DEF Snd!NextProcTime
  <2>2. worker' \in Workers /\ worker'.pc \in {"exit", "window", "sleepto", "pop"}
    <3>1. CASE closing # "no"
      BY <1>4, <1>w, <3>1 DEF Snd!NextProcTime, Snd!Goto
    <3>2. CASE closing = "no" /\ heap = <<>>
      <4>1. worker' = [pc |-> "window", ts |-> 0]
        BY <1>4, <3>2 DEF Snd!NextProcTime
      <4>2. QED
        BY <1>t, <4>1 DEF Workers
    <3>3. CASE closing = "no" /\ heap # <<>>
      <4>1. 1 \in DOMAIN heap
        BY <1>t, <3>3
      <4>2. heap[1] \in Entries
        BY <1>t, <4>1
      <4>3. heap[1].ts \in 0..Interval
        BY <4>2 DEF Entries
      <4>4. worker' = [pc |-> "sleepto", ts |-> heap[1].ts] \/ worker' = [pc |-> "pop", ts |-> 0]
        BY <1>4, <1>t, <3>3, <4>3 DEF Snd!NextProcTime
      <4>5. QED
        BY <1>t, <4>3, <4>4 DEF Workers
    <3>4. QED
      BY <3>1, <3>2, <3>3
  <2>3. SndTyped'
    BY <1>t, <2>1, <2>2 DEF SndTyped
  <2>4. Notified'
    BY <2>2 DEF Notified
  <2>5. QED
    BY <2>1, <2>3, <2>4, SndKept
<1>5. CASE Snd!SleepTo
  <2>1. /\ UNCHANGED <<heap, dead, list, window, closing>> /\ sched' = worker.ts
        /\ worker' = [pc |-> "sleeping", ts |-> 0]
    BY <1>5 DEF Snd!SleepTo
  <2>2. worker' \in Workers /\ worker'.pc = "sleeping" /\ sched' \in 0..Interval
    BY <1>t, <2>1 DEF Workers
  <2>3. SndTyped' /\ Notified'
    BY <1>t, <2>1, <2>2 DEF SndTyped, Notified
  <2>4. QED
    BY <2>1, <2>3, SndKept
<1>6. CASE Snd!Awake
  <2>1. UNCHANGED <<heap, dead, list, window, sched, closing>> /\ worker' = [worker EXCEPT !.pc = "pop"]
    BY <1>6 DEF Snd!Awake, Snd!Goto
  <2>2. SndTyped' /\ Notified'
    BY <1>t, <1>w, <2>1 DEF SndTyped, Notified
  <2>3. QED
    BY <2>1, <2>2, SndKept
<1>7. CASE Snd!LockWindow
  <2>1. UNCHANGED <<heap, dead, list, sched, closing>> /\ worker' = [worker EXCEPT !.pc = "check"] /\ window'
    BY <1>7 DEF Snd!LockWindow, Snd!Goto
  <2>2. window' \in BOOLEAN
    BY <1>7 DEF Snd!LockWindow
  <2>3. SndTyped' /\ Notified'
    BY <1>t, <1>w, <2>1, <2>2 DEF SndTyped, Notified
  <2>4. QED
    BY <2>1, <2>3, SndKept
<1>8. CASE Snd!CheckWindow
  <2>1. /\ UNCHANGED <<heap, dead, list, sched, closing>> /\ worker.pc = "check"
        /\ \/ heap = <<>> /\ worker' = [worker EXCEPT !.pc = "wait"] /\ window' = window
           \/ worker' = [worker EXCEPT !.pc = "next"] /\ window' = FALSE
    BY <1>8 DEF Snd!CheckWindow, Snd!Goto
  <2>2. SndTyped'
    BY <1>t, <1>w, <2>1 DEF SndTyped
  <2>3. Notified'
    BY <1>t, <1>w, <2>1 DEF Notified
  <2>4. QED
    BY <2>1, <2>2, <2>3, SndKept
<1>9. CASE Snd!WaitWindow
  <2>1. /\ UNCHANGED <<heap, dead, list, sched, closing>> /\ worker.pc = "wait"
        /\ worker' = [worker EXCEPT !.pc = "waiting"] /\ window' = FALSE
    BY <1>9 DEF Snd!WaitWindow, Snd!Goto
  <2>2. SndTyped'
    BY <1>t, <1>w, <2>1 DEF SndTyped
  <2>3. Notified'
    BY <1>t, <1>w, <2>1 DEF Notified
  <2>4. QED
    BY <2>1, <2>2, <2>3, SndKept
<1>10. CASE UNCHANGED sndVars
  <2>1. UNCHANGED <<heap, dead, list, window, worker, sched, closing>>
    BY <1>10 DEF sndVars
  <2>2. SndTyped' /\ Notified'
    BY <1>t, <2>1 DEF SndTyped, Notified
  <2>3. QED
    BY <2>1, <2>2, SndKept
<1>11. QED
  BY <1>1, <1>2, <1>3, <1>4, <1>5, <1>6, <1>7, <1>8, <1>9, <1>10, SndUpdate, SndRemoveStep, SndPop, SndTick
     DEF Snd!Next, Snd!Worker

\* A socket is on the sending list once, and the worker does not wait while there
\* is something on the list and nobody left to notify it, however the threads
\* that put sockets there race with its wait (CSndUList, CSndQueue::worker).
THEOREM SndSound == Snd!Spec => []Snd!Attended
<1>1. SndInv /\ [Snd!Next]_Snd!vars => SndInv'
  BY NextSnd DEF Snd!vars, sndVars
<1>2. SndInv => Snd!Attended
  BY SndAttended
<1>3. QED
  BY <1>1, <1>2, SndStarts, PTL DEF Snd!Spec
-----------------------------------------------------------------------------
(* The queues together.                                                    *)

\* A queue is in use and its invariant holds, or it is not and nothing begins.
QueuesInv == (NoSnd \/ SndInv) /\ (NoRcv \/ RcvInv) /\ (NoPool \/ PoolInv)

LEMMA SndUnused == NoSnd => ~Snd!Next
<1> SUFFICES ASSUME NoSnd, Snd!Next PROVE FALSE
  OBVIOUS
<1>1. /\ heap = <<>> /\ dead = Socket /\ list = "unused" /\ worker = [pc |-> "unused", ts |-> 0] /\ sched = 0
      /\ "unused" # None /\ "unused" \notin Thread
  BY QueuesAssumption DEF NoSnd
<1>2. worker.pc = "unused" /\ worker.ts = 0
  BY <1>1
<1>3. ~Snd!Worker
  BY <1>2 DEF Snd!Worker, Snd!NextProcTime, Snd!SleepTo, Snd!Awake, Snd!pop, Snd!LockWindow,
     Snd!CheckWindow, Snd!WaitWindow
<1>4. ~Snd!Tick
  BY <1>1, <1>2 DEF Snd!Tick
<1>5. ~Snd!Destroy
  BY <1>1 DEF Snd!Destroy
<1>6. \A t \in Thread : ~Snd!Notify(t)
  BY <1>1 DEF Snd!Notify
<1>7. \A t \in Thread, u \in Socket, reschedule \in BOOLEAN : ~Snd!update(t, u, reschedule)
  BY <1>1, Zenon DEF Snd!update
<1>8. \A u \in Socket : ~Snd!remove(u) /\ ~Snd!Die(u)
  BY <1>1, Zenon DEF Snd!remove, Snd!Die
<1>9. QED
  BY <1>3, <1>4, <1>5, <1>6, <1>7, <1>8, Zenon DEF Snd!Next

LEMMA RcvUnused == NoRcv => ~Rcv!Next
<1> SUFFICES ASSUME NoRcv, Rcv!Next PROVE FALSE
  OBVIOUS
<1>1. /\ \A u \in Socket : life[u] = "deleted" /\ registering = {} /\ ulist = <<>>
      /\ receiver.pc = "unused"
  BY DEF NoRcv
<1>2. ~Rcv!Worker
  BY <1>1 DEF Rcv!Worker, Rcv!NewEntries, Rcv!Nothing, Rcv!Process, Rcv!ReadClock, Rcv!TimerCheck,
     Rcv!Unlink, Rcv!OffList, Rcv!EndTimers, Rcv!Receive
<1>3. ~Rcv!Tick
  <2>1. Rcv!ToSet(ulist) = {}
    BY DEF NoRcv, Rcv!ToSet
  <2>2. QED
    BY <2>1 DEF Rcv!Tick
<1>4. \A u \in Socket : ~Rcv!Connect(u) /\ ~Rcv!setNewEntry(u) /\ ~Rcv!Down(u) /\ ~Rcv!Delete(u)
  <2>1. registering = {} /\ \A u \in Socket : life[u] = "deleted"
    BY DEF NoRcv
  <2>2. QED
    BY <2>1 DEF Rcv!Connect, Rcv!setNewEntry, Rcv!Down, Rcv!Delete
<1>5. QED
  BY <1>2, <1>3, <1>4, Zenon DEF Rcv!Next

LEMMA PoolUnused == NoPool => ~Pool!Next
<1> SUFFICES ASSUME NoPool, Pool!Next PROVE FALSE
  OBVIOUS
<1>1. taker.pc = "unused"
  BY DEF NoPool
<1>2. ~Pool!Worker
  BY <1>1 DEF Pool!Worker, Pool!GetUnit, Pool!Recount, Pool!increase, Pool!Scan, Pool!Pass, Pool!Counted,
     Pool!addData
<1>3. \A b \in Buffer : freeing[b] = Pool!NoLoad /\ held[b] = {}
  BY DEF NoPool
<1>4. \A b \in Buffer : ~Pool!Uncounted(b)
  BY <1>3 DEF Pool!Uncounted
<1>5. QED
  BY <1>2, <1>3, <1>4 DEF Pool!Next

\* The event, the sending worker, the receiving worker and the pool of units of
\* a multiplexer are sound for every number of sockets, threads, buffers and
\* units: a socket is on the sending list once and attended to, the receiving
\* list is sorted and holds no deleted socket, and no unit is handed out that is
\* still in a buffer.
THEOREM QueuesAreSound == QueuesSpec => []QueuesSound
<1>1. QueuesInit => QueuesInv
  BY SndStarts, RcvStarts, PoolStarts DEF QueuesInit, QueuesInv
<1>2. QueuesInv /\ [QueuesNext]_allVars => QueuesInv'
  <2> SUFFICES ASSUME QueuesInv, [QueuesNext]_allVars PROVE QueuesInv'
    OBVIOUS
  <2>1. /\ [Snd!Next]_sndVars /\ [Rcv!Next]_rcvVars /\ [Pool!Next]_poolVars
    BY DEF QueuesNext, allVars
  <2>2. (NoSnd \/ SndInv)'
    <3>1. CASE SndInv
      BY <2>1, <3>1, NextSnd
    <3>2. CASE NoSnd
      <4>1. UNCHANGED sndVars
        BY <2>1, <3>2, SndUnused
      <4>2. NoSnd'
        BY <3>2, <4>1 DEF NoSnd, sndVars
      <4>3. QED
        BY <4>2
    <3>3. QED
      BY <3>1, <3>2 DEF QueuesInv
  <2>3. (NoRcv \/ RcvInv)'
    <3>1. CASE RcvInv
      BY <2>1, <3>1, NextRcv
    <3>2. CASE NoRcv
      <4>1. UNCHANGED rcvVars
        BY <2>1, <3>2, RcvUnused
      <4>2. NoRcv'
        BY <3>2, <4>1 DEF NoRcv, rcvVars
      <4>3. QED
        BY <4>2
    <3>3. QED
      BY <3>1, <3>2 DEF QueuesInv
  <2>4. (NoPool \/ PoolInv)'
    <3>1. CASE PoolInv
      BY <2>1, <3>1, NextPool
    <3>2. CASE NoPool
      <4>1. UNCHANGED poolVars
        BY <2>1, <3>2, PoolUnused
      <4>2. NoPool'
        BY <3>2, <4>1 DEF NoPool, poolVars
      <4>3. QED
        BY <4>2
    <3>3. QED
      BY <3>1, <3>2 DEF QueuesInv
  <2>5. QED
    BY <2>2, <2>3, <2>4 DEF QueuesInv
<1>3. QueuesInv => QueuesSound
  <2> SUFFICES ASSUME QueuesInv PROVE QueuesSound
    OBVIOUS
  <2>1. worker.pc # "unused" => Snd!Attended
    BY SndAttended DEF QueuesInv, NoSnd
  <2>2. receiver.pc # "unused" => Rcv!RcvListSound
    BY DEF QueuesInv, NoRcv, RcvInv
  <2>3. taker.pc # "unused" => Pool!UnitsExact
    BY DEF QueuesInv, NoPool, PoolInv
  <2>4. QED
    BY <2>1, <2>2, <2>3 DEF QueuesSound
<1>4. QED
  BY <1>1, <1>2, <1>3, PTL DEF QueuesSpec
=============================================================================
