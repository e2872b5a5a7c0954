----------------------------- MODULE MCMeeting -----------------------------
(***************************************************************************)
(* How a client and a server come together: the mediator by which one      *)
(* finds the other, and the secure transport between them.  The two share  *)
(* nothing, so a behaviour uses one of them, and in the other nothing may  *)
(* begin.                                                                  *)
(*                                                                         *)
(* Of the transport the responder sends more than the initiator, so that   *)
(* its first datagrams follow the handshake at once.  The mediator has two *)
(* calls, and three streams of which two want one name; the names fall     *)
(* into one bucket, which is where they can stand in each other's way.     *)
(***************************************************************************)
EXTENDS SecureTransport

CONSTANTS Name, Bucket, BucketOf, Call, Asks, Stream, Holds, NoOne

VARIABLES mappings, locked, calls, streams, server, approved

Med == INSTANCE Mediator WITH None <- NoOne

ASSUME MeetingAssumption == Med!MediatorAssumption

Sends == [s \in Side |-> IF s = "initiator" THEN 1 ELSE 2]
TheBucket == [n \in Name |-> "b"]
TheAsks == [c \in Call |-> "n1"]
TheHolds == [s \in Stream |-> IF s = "s3" THEN "n2" ELSE "n1"]

medVars == <<mappings, locked, calls, streams, server, approved>>
allVars == <<vars, medVars>>

\* What is not used: connects that have failed, calls and streams that are over.
NoTransport ==
    /\ keys = FALSE /\ up = FALSE /\ faults = 0
    /\ hs = [s \in Side |-> Failed]
    /\ chan = [s \in Side |-> <<>>]
    /\ outgoing = [s \in Side |-> 0] /\ incoming = [s \in Side |-> {}]
    /\ sending = [s \in Side |-> [t \in SendTask |-> None]]
    /\ holding = [s \in Side |-> [t \in RecvTask |-> <<>>]]
    /\ panicked = [s \in Side |-> {}]
    /\ sealed = [s \in Side |-> <<>>]
    /\ arrived = [s \in Side |-> {}] /\ opened = [s \in Side |-> <<>>]

NoMediator ==
    /\ mappings = [n \in Name |-> NoOne] /\ locked = [b \in Bucket |-> NoOne]
    /\ calls = [c \in Call |-> [pc |-> "done", reply |-> NoOne]]
    /\ streams = [s \in Stream |-> [pc |-> "ended", queue |-> <<>>, ctr |-> 1, inflight |-> <<>>]]
    /\ server = [s \in Stream |-> [asked |-> <<>>, says |-> <<>>]]
    /\ approved = {}

MeetingInit == (Init /\ NoMediator) \/ (NoTransport /\ Med!Init)

MeetingNext ==
    \/ Next /\ UNCHANGED medVars
    \/ Med!Next /\ UNCHANGED vars

MeetingSpec == MeetingInit /\ [][MeetingNext]_allVars /\ Fairness /\ Med!Fairness

\* What the mediator keeps of names and streams, and that each of its calls ends
\* (register and rendezvous).
NamesSound == Med!NamesSound
CallsEnd == Med!CallsEnd
=============================================================================
