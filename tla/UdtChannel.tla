----------------------------- MODULE UdtChannel -----------------------------
(***************************************************************************)
(* What a UDT connection promises to the two applications, in one          *)
(* direction (udt/src/lib.rs, Sender and Receiver): messages that arrive   *)
(* whole, at most once and, if they were sent in order, after every        *)
(* message sent before them.                                               *)
(***************************************************************************)
EXTENDS Naturals, Sequences

CONSTANT Msgs        \* the messages, as in UdtTransfer

VARIABLES sent,      \* how many messages were sent
          received   \* the messages received, each the sequence of its packets

vars == <<sent, received>>

Whole(no) == [k \in 1..Msgs[no].pkts |-> [no |-> no, k |-> k]]

Init == sent = 0 /\ received = <<>>

Send == sent < Len(Msgs) /\ sent' = sent + 1 /\ UNCHANGED received

Got(no) == \E i \in DOMAIN received : received[i] = Whole(no)

Receive(no) ==
    /\ received' = Append(received, Whole(no))
    /\ no <= sent /\ UNCHANGED sent
    /\ ~Got(no)
    /\ Msgs[no].order => \A n \in 1..(no - 1) : Got(n)

Next == Send \/ \E no \in 1..Len(Msgs) : Receive(no)

Spec == Init /\ [][Next]_vars
=============================================================================
