----------------------------- MODULE RsynchEvent -----------------------------
(***************************************************************************)
(* AutoResetEvent (udt-sys/udt/rsynch.h): the event that CTimer and the    *)
(* collector sleep on.  An atomic counter says whether the event is set    *)
(* (1), or how many wait for it (-N), and a semaphore wakes who waits.     *)
(*                                                                         *)
(* A set takes two steps, the counter and then the semaphore; a wait_for   *)
(* takes three: the counter, the semaphore, and the counter again when the *)
(* semaphore timed out.                                                    *)
(***************************************************************************)
EXTENDS Integers, FiniteSets

CONSTANTS Setter, Waiter,
          MaxSets        \* bound: calls of set

ASSUME EventAssumption ==
    IsFiniteSet(Setter) /\ IsFiniteSet(Waiter) /\ MaxSets \in Nat

VARIABLES
    status, sem,      \* the counter, and the count of the semaphore
    setters,          \* where a set is
    waiters,          \* where a wait_for is, or what the last one returned
    sets, wakes,      \* history: sets that have begun, wait_fors that returned true
    owed              \* history: a set ended and no wait_for returned true since it began

vars == <<status, sem, setters, waiters, sets, wakes, owed>>

Init ==
    /\ status = 0 /\ sem = 0
    /\ setters = [s \in Setter |-> "idle"]
    /\ waiters = [w \in Waiter |-> "idle"]
    /\ sets = 0 /\ wakes = 0 /\ owed = FALSE

-----------------------------------------------------------------------------
(* set                                                                     *)

\* Mutant: the semaphore is left out when nobody seems to wait any more.
SetStatus_NoPost(s) ==
    /\ setters[s] = "idle" /\ sets < MaxSets
    /\ status' = IF status < 1 THEN status + 1 ELSE 1
    /\ setters' = [setters EXCEPT ![s] = IF status < -1 THEN "post" ELSE "idle"]
    /\ sets' = sets + 1
    /\ owed' = (owed \/ status >= -1)
    /\ UNCHANGED <<sem, waiters, wakes>>

\* The compare-and-exchange that succeeds.
SetStatus(s) ==
    /\ setters[s] = "idle" /\ sets < MaxSets
    /\ status' = IF status < 1 THEN status + 1 ELSE 1
    /\ setters' = [setters EXCEPT ![s] = IF status < 0 THEN "post" ELSE "idle"]
    /\ sets' = sets + 1
    /\ owed' = (owed \/ status >= 0)
    /\ UNCHANGED <<sem, waiters, wakes>>

\* sem.post.  A wait_for that returned since set began has had its share.
Post(s) ==
    /\ setters[s] \in {"post", "late"}
    /\ sem' = sem + 1
    /\ setters' = [setters EXCEPT ![s] = "idle"]
    /\ owed' = (owed \/ setters[s] = "post")
    /\ UNCHANGED <<status, waiters, sets, wakes>>

-----------------------------------------------------------------------------
(* wait_for                                                                *)

\* It returns true: the sets that have begun are no longer owed.
ReturnTrue(w) ==
    /\ waiters' = [waiters EXCEPT ![w] = "idle"]
    /\ wakes' = wakes + 1
    /\ owed' = FALSE
    /\ setters' = [s \in Setter |-> IF setters[s] = "post" THEN "late" ELSE setters[s]]

\* fetch_sub.
Sub(w) ==
    /\ waiters[w] = "idle"
    /\ status' = status - 1
    /\ IF status = 1 THEN ReturnTrue(w)
       ELSE waiters' = [waiters EXCEPT ![w] = "sem"] /\ UNCHANGED <<wakes, owed, setters>>
    /\ UNCHANGED <<sem, sets>>

\* sem.wait_for succeeds.
Take(w) ==
    /\ waiters[w] = "sem" /\ sem > 0
    /\ sem' = sem - 1
    /\ ReturnTrue(w)
    /\ UNCHANGED <<status, sets>>

\* sem.wait_for times out: it found the semaphore at 0.
TimeOut(w) ==
    /\ waiters[w] = "sem" /\ sem = 0
    /\ waiters' = [waiters EXCEPT ![w] = "undo"]
    /\ UNCHANGED <<status, sem, setters, sets, wakes, owed>>

\* Mutant: one is added in every case.
Undo_AlwaysAdds(w) ==
    /\ waiters[w] = "undo"
    /\ status' = status + 1
    /\ IF status = 1 THEN ReturnTrue(w)
       ELSE waiters' = [waiters EXCEPT ![w] = "idle"] /\ UNCHANGED <<wakes, owed, setters>>
    /\ UNCHANGED <<sem, sets>>

\* "Adding is a dangerous game because we don't want to accidentally signal."
Undo(w) ==
    /\ waiters[w] = "undo"
    /\ status' = IF status < 0 THEN status + 1 ELSE 0
    /\ IF status = 1 THEN ReturnTrue(w)
       ELSE waiters' = [waiters EXCEPT ![w] = "idle"] /\ UNCHANGED <<wakes, owed, setters>>
    /\ UNCHANGED <<sem, sets>>

-----------------------------------------------------------------------------
Wait(w) == Sub(w) \/ Take(w) \/ TimeOut(w) \/ Undo(w)
Next == \/ \E s \in Setter : SetStatus(s) \/ Post(s)
        \/ \E w \in Waiter : Wait(w)

Spec == Init /\ [][Next]_vars

\* A set that has begun ends, and the waiters wait again and again, as sleepto
\* and garbageCollect do.
Fairness == (\A s \in Setter : WF_vars(Post(s))) /\ \A w \in Waiter : WF_vars(Wait(w))

-----------------------------------------------------------------------------
(* Properties.                                                             *)

\* Every variable has its type; the counter never counts two sets.
TypeOK ==
    /\ status \in Int /\ status <= 1 /\ sem \in Nat
    /\ setters \in [Setter -> {"idle", "post", "late"}]
    /\ waiters \in [Waiter -> {"idle", "sem", "undo"}]
    /\ sets \in 0..MaxSets /\ wakes \in Nat /\ owed \in BOOLEAN

\* No wait_for returns true without a set of its own: the spurious wake-up that
\* the comment at wait_for speaks of is one that another set has paid for.
WakesPaid == wakes <= sets

\* A set is not lost, however it races with timeouts: once it has ended, the
\* event is set or the semaphore has a count, until a wait_for returns true.
SetKept == owed => status = 1 \/ sem > 0

\* What is owed is paid: a waiter that keeps waiting returns true (set, and the
\* loops of sleepto and garbageCollect).
SetSeen == owed ~> ~owed
=============================================================================
