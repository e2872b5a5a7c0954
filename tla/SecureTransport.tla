--------------------------- MODULE SecureTransport ---------------------------
(***************************************************************************)
(* Both ends of a SecureTransport (transport/src/lib.rs): the Noise NK     *)
(* handshake of connect, and the tasks that send and receive afterwards.   *)
(*                                                                         *)
(* The UDT connection below is a sequence of datagrams per direction; it   *)
(* is external here (UdtTransfer models it).  The code does not rely on    *)
(* it to deliver a datagram once, in order or intact ("we prefix the nonce *)
(* regardless"), so that the connection may repeat, exchange, damage and   *)
(* cut short datagrams.                                                    *)
(***************************************************************************)
EXTENDS Integers, FiniteSets, SequencesExt

CONSTANTS
    SendTask, RecvTask,  \* the tasks of a side that send, and that receive
    MaxSent,             \* bound: datagrams sealed by each side
    Cap,                 \* datagrams the connection holds before send waits
    MaxFaults            \* bound: datagrams repeated, exchanged, damaged or cut

Side == {"initiator", "responder"}
Peer(s) == IF s = "initiator" THEN "responder" ELSE "initiator"

ASSUME TransportAssumption ==
    MaxSent \in [Side -> Nat] /\ Cap \in Nat \ {0} /\ MaxFaults \in Nat

VARIABLES
    keys,        \* the initiator's remote_public_key is that of the responder
    hs,          \* how far each connect is: messages of the handshake it has done
    up,          \* the connection stands
    chan,        \* chan[s]: datagrams on the way to s
    outgoing,    \* nonce_outgoing
    incoming,    \* nonce_incoming
    sending,     \* the nonce and body a send_with waits with, or none
    holding,     \* the datagram a recv has taken from the connection, or none
    panicked,    \* the tasks that receive which ended in a panic
    faults,      \* faults that happened
    sealed,      \* history: the nonces used by each side, one for each body
    arrived,     \* history: bodies of the intact datagrams taken by a recv of s
    opened       \* history: bodies that the recvs of s returned

vars == <<keys, hs, up, chan, outgoing, incoming, sending, holding, panicked,
          faults, sealed, arrived, opened>>

\* A handshake message has its number; a datagram has the nonce in front, and
\* the body that was sealed with it, or 0 when its seal is broken, which it also is
\* when the datagram was longer than the buffer of recv and is cut off.  A datagram
\* of fewer bytes than a nonce has neither.
Short == -1
None == [nonce |-> 0, body |-> 0]
TooShort == [nonce |-> 0, body |-> Short]
HsMessage(n) == [hs |-> n]
IsHs(d) == DOMAIN d = {"hs"}
Nonce == 0..Max(Range(MaxSent))
Datagram == [nonce : Nonce, body : Nat \cup {Short}]

Init ==
    /\ keys \in BOOLEAN
    /\ hs = [s \in Side |-> 0]
    /\ up = TRUE
    /\ chan = [s \in Side |-> <<>>]
    /\ outgoing = [s \in Side |-> 0]
    /\ incoming = [s \in Side |-> {}]
    /\ sending = [s \in Side |-> [t \in SendTask |-> None]]
    /\ holding = [s \in Side |-> [t \in RecvTask |-> <<>>]]
    /\ panicked = [s \in Side |-> {}]
    /\ faults = 0
    /\ sealed = [s \in Side |-> <<>>]
    /\ arrived = [s \in Side |-> {}]
    /\ opened = [s \in Side |-> <<>>]

-----------------------------------------------------------------------------
(* connect.  NK has two messages: the initiator's, sealed for the          *)
(* responder's static key, and the answer.  hs[s] counts up to 2; Failed   *)
(* is an error returned by connect, which drops and so closes the          *)
(* connection.                                                             *)

Finished == 2
Failed == 9
Connecting(s) == hs[s] < Finished
Connected(s) == hs[s] = Finished

is_my_turn(s) == hs[s] = (IF s = "initiator" THEN 0 ELSE 1)

\* snow's read_message: the message is the next of the handshake, and the
\* first one was sealed for this responder.
Reads(s, d) == d = HsMessage(hs[s]) /\ (hs[s] = 0 => keys)

\* Mutant: the connection outlives a connect that failed.
Fails_KeepsOpen(s) == hs' = [hs EXCEPT ![s] = Failed] /\ UNCHANGED up

Fails(s) == hs' = [hs EXCEPT ![s] = Failed] /\ up' = FALSE

WriteHandshake(s) ==
    /\ Connecting(s) /\ is_my_turn(s)
    /\ IF up
       THEN /\ hs' = [hs EXCEPT ![s] = @ + 1]
            /\ chan' = [chan EXCEPT ![Peer(s)] = Append(@, HsMessage(hs[s]))]
            /\ UNCHANGED up
       ELSE Fails(s) /\ UNCHANGED chan
    /\ UNCHANGED <<keys, outgoing, incoming, sending, holding, faults, sealed, arrived, opened, panicked>>

ReadHandshake(s) ==
    /\ Connecting(s) /\ ~is_my_turn(s)
    /\ \/ /\ chan[s] # <<>>
          /\ chan' = [chan EXCEPT ![s] = Tail(@)]
          /\ IF Reads(s, Head(chan[s]))
             THEN hs' = [hs EXCEPT ![s] = @ + 1] /\ UNCHANGED up
             ELSE Fails(s)
       \/ chan[s] = <<>> /\ ~up /\ Fails(s) /\ UNCHANGED chan
    /\ UNCHANGED <<keys, outgoing, incoming, sending, holding, faults, sealed, arrived, opened, panicked>>

-----------------------------------------------------------------------------
(* send_with, in two steps: a nonce is taken and the body sealed with it;  *)
(* then the connection takes the datagram, fails, or the future is dropped *)
(* while it waits.                                                         *)

Idle(s, t) == sending[s][t] = None
Done(s, t) == sending' = [sending EXCEPT ![s][t] = None]

\* Mutant: a load and a store apart; a send that overlaps loads the same value.
Seal_LoadStore(s, t) ==
    /\ Connected(s) /\ Idle(s, t) /\ Len(sealed[s]) < MaxSent[s]
    /\ sending' = [sending EXCEPT ![s][t] = [nonce |-> outgoing[s], body |-> Len(sealed[s]) + 1]]
    /\ outgoing' = IF \A u \in SendTask : Idle(s, u) THEN outgoing
                   ELSE [outgoing EXCEPT ![s] = @ + 1]
    /\ sealed' = [sealed EXCEPT ![s] = Append(@, outgoing[s])]
    /\ UNCHANGED <<keys, hs, up, chan, incoming, holding, faults, arrived, opened, panicked>>

Seal(s, t) ==
    /\ Connected(s) /\ Idle(s, t) /\ Len(sealed[s]) < MaxSent[s]
    /\ sending' = [sending EXCEPT ![s][t] = [nonce |-> outgoing[s], body |-> Len(sealed[s]) + 1]]
    /\ outgoing' = [outgoing EXCEPT ![s] = @ + 1]
    /\ sealed' = [sealed EXCEPT ![s] = Append(@, outgoing[s])]
    /\ UNCHANGED <<keys, hs, up, chan, incoming, holding, faults, arrived, opened, panicked>>

\* Mutant: a datagram without the in-order flag may overtake those before it.
Hand_Unordered(s, t) ==
    /\ ~Idle(s, t) /\ up /\ Len(chan[Peer(s)]) < Cap
    /\ \E i \in 1..(Len(chan[Peer(s)]) + 1) :
           chan' = [chan EXCEPT ![Peer(s)] = InsertAt(@, i, sending[s][t])]
    /\ Done(s, t)
    /\ UNCHANGED <<keys, hs, up, outgoing, incoming, holding, faults, sealed, arrived, opened, panicked>>

\* inner.send_with succeeds; in order, whatever the caller asked for.
Hand(s, t) ==
    /\ ~Idle(s, t) /\ up /\ Len(chan[Peer(s)]) < Cap
    /\ chan' = [chan EXCEPT ![Peer(s)] = Append(@, sending[s][t])]
    /\ Done(s, t)
    /\ UNCHANGED <<keys, hs, up, outgoing, incoming, holding, faults, sealed, arrived, opened, panicked>>

\* inner.send_with fails, or the future is dropped at the await (the client's
\* calls and the server's loop may be).  The nonce is spent.
GiveUp(s, t) ==
    /\ ~Idle(s, t)
    /\ Done(s, t)
    /\ UNCHANGED <<keys, hs, up, chan, outgoing, incoming, holding, faults, sealed, arrived, opened, panicked>>

-----------------------------------------------------------------------------
(* recv, in two steps: inner.recv returns a datagram; the nonce is checked *)
(* and entered under the mutex, with the opening of the seal in between.   *)
(* Between the two there is no await: a recv that is dropped holds no      *)
(* datagram.                                                               *)

\* crypto.read_message(nonce, ...): the body was sealed with this nonce.
Authentic(d) == d.body > 0

\* What recv makes of the bytes: a handshake message has those of a key where the
\* nonce is, one that is too short leaves there what the buffer held.
Seen(d, n) ==
    IF IsHs(d) THEN [nonce |-> n, body |-> 0]
    ELSE IF d = TooShort THEN [TooShort EXCEPT !.nonce = n] ELSE d

Take(s, t) ==
    /\ Connected(s) /\ t \notin panicked[s] /\ holding[s][t] = <<>> /\ chan[s] # <<>>
    /\ LET d == Head(chan[s]) IN
       /\ \E n \in Nonce : holding' = [holding EXCEPT ![s][t] = <<Seen(d, n)>>]
       /\ arrived' = [arrived EXCEPT ![s] =
                          IF ~IsHs(d) /\ Authentic(d) THEN @ \cup {d.body} ELSE @]
    /\ chan' = [chan EXCEPT ![s] = Tail(@)]
    /\ UNCHANGED <<keys, hs, up, outgoing, incoming, sending, faults, sealed, opened, panicked>>

\* Mutant: the nonce is entered before the seal is opened.
Open_EntersFirst(s, t) ==
    /\ holding[s][t] # <<>>
    /\ LET d == Head(holding[s][t]) IN
       /\ incoming' = [incoming EXCEPT ![s] = @ \cup {d.nonce}]
       /\ opened' = IF d.nonce \notin incoming[s] /\ Authentic(d)
                    THEN [opened EXCEPT ![s] = Append(@, d.body)] ELSE opened
    /\ holding' = [holding EXCEPT ![s][t] = <<>>]
    /\ UNCHANGED <<keys, hs, up, chan, outgoing, sending, faults, sealed, arrived, panicked>>

\* Mutant: the nonces below the highest are forgotten, as a counter would.
Open_KeepsHighest(s, t) ==
    /\ holding[s][t] # <<>>
    /\ LET d == Head(holding[s][t])
           new == d.nonce \notin incoming[s] /\ Authentic(d) IN
       /\ incoming' = IF new THEN [incoming EXCEPT ![s] = {d.nonce}] ELSE incoming
       /\ opened' = IF new THEN [opened EXCEPT ![s] = Append(@, d.body)] ELSE opened
    /\ holding' = [holding EXCEPT ![s][t] = <<>>]
    /\ UNCHANGED <<keys, hs, up, chan, outgoing, sending, faults, sealed, arrived, panicked>>

\* A datagram that is refused is dropped, and the recv goes on; but &tmp[8..n]
\* panics when n < 8, unless the nonce makes it a duplicate.  The panic gives the
\* mutex back and ends the task; handle_client's drops the connection (Break).
Open(s, t) ==
    /\ holding[s][t] # <<>>
    /\ LET d == Head(holding[s][t])
           new == d.nonce \notin incoming[s] /\ Authentic(d) IN
       /\ incoming' = IF new THEN [incoming EXCEPT ![s] = @ \cup {d.nonce}] ELSE incoming
       /\ opened' = IF new THEN [opened EXCEPT ![s] = Append(@, d.body)] ELSE opened
       /\ panicked' = IF d.body = Short /\ d.nonce \notin incoming[s]
                      THEN [panicked EXCEPT ![s] = @ \cup {t}] ELSE panicked
    /\ holding' = [holding EXCEPT ![s][t] = <<>>]
    /\ UNCHANGED <<keys, hs, up, chan, outgoing, sending, faults, sealed, arrived>>

-----------------------------------------------------------------------------
(* The connection.                                                         *)

Broken == {TooShort} \cup [nonce : Nonce, body : {0}]

Fault(s) ==
    /\ faults < MaxFaults /\ faults' = faults + 1
    /\ \E i \in DOMAIN chan[s] :
       \* repeated
       \/ Len(chan[s]) < Cap /\ chan' = [chan EXCEPT ![s] = Append(@, @[i])]
       \* exchanged with the next
       \/ /\ i < Len(chan[s])
          /\ chan' = [chan EXCEPT ![s] = [@ EXCEPT ![i] = chan[s][i + 1], ![i + 1] = chan[s][i]]]
       \* damaged, in its nonce or elsewhere, or cut short
       \/ \E d \in Broken : chan' = [chan EXCEPT ![s][i] = d]
    /\ UNCHANGED <<keys, hs, up, outgoing, incoming, sending, holding, sealed, arrived, opened, panicked>>

\* It breaks or is closed; what is on the way to either side may be lost.
Break ==
    /\ up /\ up' = FALSE
    /\ faults < MaxFaults /\ faults' = MaxFaults
    /\ \E lost \in SUBSET Side : chan' = [s \in Side |-> IF s \in lost THEN <<>> ELSE chan[s]]
    /\ UNCHANGED <<keys, hs, outgoing, incoming, sending, holding, sealed, arrived, opened, panicked>>

-----------------------------------------------------------------------------
Connect(s) == WriteHandshake(s) \/ ReadHandshake(s)
Recv(s) == \E t \in RecvTask : Take(s, t) \/ Open(s, t)

Next ==
    \/ \E s \in Side :
        \/ Connect(s)
        \/ \E t \in SendTask : Seal(s, t) \/ Hand(s, t) \/ GiveUp(s, t)
        \/ Recv(s)
        \/ Fault(s)
    \/ Break

Spec == Init /\ [][Next]_vars

\* connect is awaited, and each side keeps a recv going (handle_client, and the
\* client's receiving task).  Nothing makes a side send.
Fairness == \A s \in Side : WF_vars(Connect(s)) /\ WF_vars(Recv(s))

-----------------------------------------------------------------------------
(* Properties.                                                             *)

Bodies(s) == Range(opened[s])
Held(s) == {holding[s][t][1].body : t \in {u \in RecvTask : holding[s][u] # <<>>}}

\* Every variable has its type.
TypeOK ==
    /\ keys \in BOOLEAN /\ up \in BOOLEAN /\ faults \in 0..MaxFaults
    /\ hs \in [Side -> 0..Finished \cup {Failed}]
    /\ outgoing \in [Side -> Nat] /\ incoming \in [Side -> SUBSET Nonce]
    /\ chan \in [Side -> Seq([hs : 0..1] \cup Datagram)]
    /\ sending \in [Side -> [SendTask -> Datagram]]
    /\ holding \in [Side -> [RecvTask -> Seq(Datagram)]]
    /\ \A s \in Side, t \in RecvTask : Len(holding[s][t]) <= 1
    /\ panicked \in [Side -> SUBSET RecvTask]
    /\ sealed \in [Side -> Seq(Nonce)]
    /\ arrived \in [Side -> SUBSET Nat] /\ opened \in [Side -> Seq(Nat)]

\* No nonce seals two bodies, however the tasks that send overlap or are dropped
\* (the fetch_add of send_with): the cipher is not safe otherwise.
NonceOnce == \A s \in Side : IsInjective(sealed[s])

\* Both of these: the types, and a nonce for one body only (send_with).
NonceSound == TypeOK /\ NonceOnce

\* What was refused is a repetition or damaged: a recv returns every body that
\* arrives intact for the first time, in whatever order, also after a damaged
\* datagram with the same nonce (recv enters the nonce under the mutex, once the
\* seal is open).
NothingRefused == \A s \in Side : arrived[s] \subseteq Bodies(s) \cup Held(s)

\* connect fails only for a cause: keys that do not match, a fault of the
\* connection, or the end of it.  In particular a datagram that the responder
\* sends at once does not overtake the handshake ("Force inorder if the nonce is
\* 0").  And an initiator that is connected is connected to the holder of the
\* key, who is connected too.
HandshakeSound ==
    /\ (\E s \in Side : hs[s] = Failed) => ~keys \/ faults > 0
    /\ Connected("initiator") => keys /\ Connected("responder")

\* In each direction the connection promises again what UDT did: a body is
\* returned once, and was sent (UdtChannel; in no order).
Messages(s) == [no \in 1..MaxSent[s] |-> [pkts |-> 1, order |-> FALSE]]
Received(s) == [i \in DOMAIN opened[s] |-> <<[no |-> opened[s][i], k |-> 1]>>]
Requests == INSTANCE UdtChannel WITH Msgs <- Messages("initiator"),
                sent <- Len(sealed["initiator"]), received <- Received("responder")
Answers == INSTANCE UdtChannel WITH Msgs <- Messages("responder"),
                sent <- Len(sealed["responder"]), received <- Received("initiator")
ImplementsChannel == Requests!Spec /\ Answers!Spec

\* The parts of the inductive invariant.  The nonces of a side are 0, 1, 2, ...
SealInv ==
    \A s \in Side :
        /\ outgoing[s] = Len(sealed[s]) /\ Len(sealed[s]) <= MaxSent[s]
        /\ \A i \in 1..Len(sealed[s]) : sealed[s][i] = i - 1

\* A datagram for s whose seal is not broken is one that the other side sealed,
\* under the nonce it was sealed with, wherever it is.
Genuine(s, d) == Authentic(d) => d.body = d.nonce + 1 /\ d.body <= Len(sealed[Peer(s)])
DatagramInv ==
    \A s \in Side :
        /\ \A t \in SendTask : Genuine(Peer(s), sending[s][t])
        /\ \A i \in DOMAIN chan[s] : ~IsHs(chan[s][i]) => Genuine(s, chan[s][i])
        /\ \A t \in RecvTask : holding[s][t] # <<>> => Genuine(s, holding[s][t][1])

\* The nonces entered are those of the bodies returned, each of them once.
OpenInv ==
    \A s \in Side :
        /\ IsInjective(opened[s])
        /\ \A i \in 1..Len(opened[s]) : opened[s][i] \in 1..Len(sealed[Peer(s)])
        /\ incoming[s] = {b - 1 : b \in Bodies(s)}
        /\ 0 \notin arrived[s]

\* The order of the handshake: with matching keys and without a fault, its two
\* messages come one after the other, and what a side sends comes after them; and
\* with any, the second message comes from a responder that has read the first.
HandshakeInv ==
    LET i == "initiator" r == "responder" IN
    /\ \A s \in Side : ~Connected(s) => \A t \in SendTask : Idle(s, t)
    /\ hs[r] \in {1, 2} => keys
    /\ \A k \in DOMAIN chan[i] : chan[i][k] = HsMessage(1) => Connected(r)
    /\ keys /\ faults = 0 =>
         /\ up /\ hs[i] # Failed /\ hs[r] # Failed
         /\ hs[i] = 0 => hs[r] = 0 /\ chan[r] = <<>>
         /\ hs[i] = 1 /\ hs[r] = 0 => chan[r] = <<HsMessage(0)>>
         /\ hs[i] < 2 /\ hs[r] < 2 => chan[i] = <<>>
         /\ hs[i] = 1 /\ hs[r] > 0 => chan[r] = <<>>
         /\ hs[i] = 1 /\ hs[r] = 2 => chan[i] # <<>> /\ chan[i][1] = HsMessage(1)

\* A connect ends, with an error if need be, also when the other one failed; and
\* what the connection holds for a connected side is received, unless datagrams
\* that are too short have ended every task that receives.  A task does not panic
\* without a fault of the connection.
TransportGoesOn ==
    \A s \in Side :
        /\ <>~Connecting(s)
        /\ []<>(Connected(s) => \/ chan[s] = <<>> /\ arrived[s] \subseteq Bodies(s)
                                \/ panicked[s] = RecvTask)
        /\ [](faults = 0 => panicked[s] = {})
=============================================================================
