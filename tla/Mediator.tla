------------------------------ MODULE Mediator ------------------------------
(***************************************************************************)
(* The mediator (mediator/src/main.rs), by which a client finds a server.  *)
(* A server keeps a Register stream open under a name; a Rendezvous call   *)
(* of a client is passed to the stream of the name it asks for, put to the *)
(* server with an id, and ends with what the server answers to that id.    *)
(*                                                                         *)
(* The map of names locks a bucket for as long as an entry of it is held,  *)
(* and a call holds its entry until it ends.  A call can be dropped where  *)
(* it awaits, and a stream can end at any time.                            *)
(***************************************************************************)
EXTENDS Naturals, Sequences, Functions, FiniteSets

CONSTANTS Name, Bucket,     \* names, and the buckets of the map
          BucketOf,         \* the bucket of a name
          Call, Asks,       \* Rendezvous calls, and the name each asks for
          Stream, Holds,    \* Register streams, and the name each asks to hold
          None

\* What a call ends with; None stands for no answer yet.
Outcome == [kind : {"found"}, by : Stream] \cup
           [kind : {"denied", "unavailable", "broken", "unknown", "invalid", "dropped"}]

\* What is assumed of the constants.
MediatorAssumption ==
    /\ BucketOf \in [Name -> Bucket]
    /\ Asks \in [Call -> Name]
    /\ Holds \in [Stream -> Name]
    /\ None \notin Call \cup Stream \cup Outcome

VARIABLES
    mappings,    \* Handler.mappings: the stream a name's sender belongs to
    locked,      \* the call that holds an entry of the bucket
    calls,       \* where a call is, and what its oneshot has received
    streams,     \* where a stream is, its channel, ctr and inflight
    server,      \* the server of a stream: what it was asked, what it says
    approved     \* history: <<s, c>>, the server of s agreed to call c

vars == <<mappings, locked, calls, streams, server, approved>>

Ok(s) == [kind |-> "found", by |-> s]
Failed(why) == [kind |-> why]

CallState == [pc : {"new", "get", "send", "wait", "done"}, reply : Outcome \cup {None}]

Init ==
    /\ mappings = [n \in Name |-> None]
    /\ locked = [b \in Bucket |-> None]
    /\ calls = [c \in Call |-> [pc |-> "new", reply |-> None]]
    /\ streams = [s \in Stream |-> [pc |-> "new", queue |-> <<>>, ctr |-> 1, inflight |-> <<>>]]
    /\ server = [s \in Stream |-> [asked |-> <<>>, says |-> <<>>]]
    /\ approved = {}

Live(s) == streams[s].pc \in {"loop", "yield"}

\* is_closed of a oneshot's sender: its call no longer waits.
Closed(c) == calls[c].pc # "wait"

\* inflight.retain(...)
Retain(inflight) == Restrict(inflight, {id \in DOMAIN inflight : ~Closed(inflight[id])})

-----------------------------------------------------------------------------
(* Rendezvous.                                                             *)

End(c, outcome) == calls' = [calls EXCEPT ![c] = [pc |-> "done", reply |-> outcome]]
Lock(c, by) == locked' = [locked EXCEPT ![BucketOf[Asks[c]]] = by]

\* validate_endpoint.
Begin(c) ==
    /\ calls[c].pc = "new"
    /\ \/ End(c, Failed("invalid"))
       \/ calls' = [calls EXCEPT ![c].pc = "get"]
    /\ UNCHANGED <<mappings, locked, streams, server, approved>>

\* mappings.get_async: the entry is kept.
Get(c) ==
    /\ calls[c].pc = "get" /\ locked[BucketOf[Asks[c]]] = None
    /\ IF mappings[Asks[c]] = None
       THEN End(c, Failed("unknown")) /\ UNCHANGED locked
       ELSE calls' = [calls EXCEPT ![c].pc = "send"] /\ Lock(c, c)
    /\ UNCHANGED <<mappings, streams, server, approved>>

\* pls_sender.send: the channel has room for one, or is broken.
Send(c) ==
    LET s == mappings[Asks[c]] IN
    /\ calls[c].pc = "send"
    /\ \/ /\ Live(s) /\ streams[s].queue = <<>>
          /\ streams' = [streams EXCEPT ![s].queue = <<c>>]
          /\ calls' = [calls EXCEPT ![c].pc = "wait"]
          /\ UNCHANGED locked
       \/ /\ ~Live(s)
          /\ End(c, Failed("broken")) /\ Lock(c, None)
          /\ UNCHANGED streams
    /\ UNCHANGED <<mappings, server, approved>>

\* The sender of the call's oneshot still exists.
Pending(c) == \E s \in Stream : c \in Range(streams[s].queue) \cup Range(streams[s].inflight)

\* pls_rep.await: what was sent, or an error when the sender is gone.
Finish(c) ==
    /\ calls[c].pc = "wait"
    /\ \/ calls[c].reply # None /\ End(c, calls[c].reply)
       \/ calls[c].reply = None /\ ~Pending(c) /\ End(c, Failed("unavailable"))
    /\ Lock(c, None)
    /\ UNCHANGED <<mappings, streams, server, approved>>

\* The client goes away: the call is dropped, with the entry it holds.
Drop(c) ==
    /\ calls[c].pc \in {"get", "send", "wait"}
    /\ End(c, Failed("dropped"))
    /\ locked' = [b \in Bucket |-> IF locked[b] = c THEN None ELSE locked[b]]
    /\ UNCHANGED <<mappings, streams, server, approved>>

-----------------------------------------------------------------------------
(* Register.                                                               *)

\* mappings.entry_async: the sender of a name is replaced when it is closed.
Register(s) ==
    LET n == Holds[s] IN
    /\ streams[s].pc = "new" /\ locked[BucketOf[n]] = None
    /\ IF mappings[n] # None /\ Live(mappings[n])
       THEN streams' = [streams EXCEPT ![s].pc = "refused"] /\ UNCHANGED mappings
       ELSE streams' = [streams EXCEPT ![s].pc = "loop"] /\ mappings' = [mappings EXCEPT ![n] = s]
    /\ UNCHANGED <<locked, calls, server, approved>>

\* Mutant: ids are numbered by what is in flight.
Recv_NumbersInflight(s) ==
    LET c == Head(streams[s].queue)
        inflight == streams[s].inflight
        id == Cardinality(DOMAIN inflight) + 1 IN
    /\ streams[s].pc = "loop" /\ streams[s].queue # <<>>
    /\ streams' = [streams EXCEPT ![s] = [@ EXCEPT !.pc = "yield", !.queue = <<>>, !.ctr = id + 1,
           !.inflight = [i \in DOMAIN inflight \cup {id} |-> IF i = id THEN c ELSE inflight[i]]]]
    /\ UNCHANGED <<mappings, locked, calls, server, approved>>

\* rdv_requests.recv: an id is given and the reply is to be yielded.
Recv(s) ==
    LET c == Head(streams[s].queue)
        id == streams[s].ctr
        inflight == streams[s].inflight IN
    /\ streams[s].pc = "loop" /\ streams[s].queue # <<>>
    /\ streams' = [streams EXCEPT ![s] = [@ EXCEPT !.pc = "yield", !.queue = <<>>, !.ctr = id + 1,
           !.inflight = [i \in DOMAIN inflight \cup {id} |-> IF i = id THEN c ELSE inflight[i]]]]
    /\ UNCHANGED <<mappings, locked, calls, server, approved>>

\* yield RegisterReply: the server reads it, and the loop goes on.
Yield(s) ==
    LET id == streams[s].ctr - 1 IN
    /\ streams[s].pc = "yield"
    /\ server' = [server EXCEPT ![s].asked = Append(@, [id |-> id, call |-> streams[s].inflight[id]])]
    /\ streams' = [streams EXCEPT ![s].pc = "loop", ![s].inflight = Retain(@)]
    /\ UNCHANGED <<mappings, locked, calls, approved>>

\* req.message: the answer to an id that is in flight goes to its call.
Message(s) ==
    LET answer == Head(server[s].says)
        inflight == streams[s].inflight IN
    /\ streams[s].pc = "loop" /\ server[s].says # <<>>
    /\ server' = [server EXCEPT ![s].says = Tail(@)]
    /\ calls' = [c \in Call |->
           IF answer.id \in DOMAIN inflight /\ inflight[answer.id] = c /\ ~Closed(c)
           THEN [calls[c] EXCEPT !.reply = IF answer.yes THEN Ok(s) ELSE Failed("denied")]
           ELSE calls[c]]
    /\ streams' = [streams EXCEPT ![s].inflight = Retain(Restrict(@, DOMAIN @ \ {answer.id}))]
    /\ UNCHANGED <<mappings, locked, approved>>

\* Mutant: what is in flight outlives the stream.
Close_KeepsInflight(s) ==
    /\ streams[s].pc \in {"new", "loop", "yield"}
    /\ streams' = [streams EXCEPT ![s] = [@ EXCEPT !.pc = "ended", !.queue = <<>>]]
    /\ UNCHANGED <<mappings, locked, calls, server, approved>>

\* The stream is over (the server closes it, its connection is lost, or it did
\* not begin with a valid registration): everything in it is dropped.
Close(s) ==
    /\ streams[s].pc \in {"new", "loop", "yield"}
    /\ streams' = [streams EXCEPT ![s] = [@ EXCEPT !.pc = "ended", !.queue = <<>>, !.inflight = <<>>]]
    /\ UNCHANGED <<mappings, locked, calls, server, approved>>

-----------------------------------------------------------------------------
(* The server at the other end of a stream (server/src/main.rs): it answers *)
(* each request once, 16 at a time and so in any order.  It says yes; the  *)
(* protocol lets it say no.                                                *)

Answer(s) ==
    /\ Live(s)
    /\ \E i \in DOMAIN server[s].asked, yes \in BOOLEAN :
         LET req == server[s].asked[i] IN
         /\ server' = [server EXCEPT ![s].asked = [j \in 1..(Len(@) - 1) |-> @[IF j < i THEN j ELSE j + 1]],
                                     ![s].says = Append(@, [id |-> req.id, yes |-> yes])]
         /\ approved' = IF yes THEN approved \cup {<<s, req.call>>} ELSE approved
    /\ UNCHANGED <<mappings, locked, calls, streams>>

-----------------------------------------------------------------------------
Rendezvous(c) == Begin(c) \/ Get(c) \/ Send(c) \/ Finish(c)
StreamStep(s) == Recv(s) \/ Yield(s) \/ Message(s)

Next ==
    \/ \E c \in Call : Rendezvous(c) \/ Drop(c)
    \/ \E s \in Stream : Register(s) \/ StreamStep(s) \/ Close(s) \/ Answer(s)

Spec == Init /\ [][Next]_vars

\* What has begun is scheduled, and a server answers while its stream is open.
\* No call has to begin, and no stream has to end.
Fairness ==
    /\ \A c \in Call : WF_vars(Get(c)) /\ WF_vars(Send(c)) /\ WF_vars(Finish(c))
    /\ \A s \in Stream : WF_vars(Register(s)) /\ WF_vars(StreamStep(s)) /\ WF_vars(Answer(s))

-----------------------------------------------------------------------------
(* Properties.                                                             *)

\* A stream is what register keeps of it: a channel that holds no more than one
\* request, and calls in flight under the ids that were given.
StreamTypes ==
    /\ streams = [s \in Stream |-> [pc |-> streams[s].pc, queue |-> streams[s].queue,
                                    ctr |-> streams[s].ctr, inflight |-> streams[s].inflight]]
    /\ \A s \in Stream :
         /\ streams[s].pc \in {"new", "refused", "loop", "yield", "ended"}
         /\ streams[s].queue \in Seq(Call) /\ Len(streams[s].queue) <= 1
         /\ streams[s].ctr \in Nat \ {0}
         /\ DOMAIN streams[s].inflight \subseteq 1..(streams[s].ctr - 1)
         /\ streams[s].inflight \in [DOMAIN streams[s].inflight -> Call]

\* Every variable has its type.
TypeOK ==
    /\ mappings \in [Name -> Stream \cup {None}]
    /\ locked \in [Bucket -> Call \cup {None}]
    /\ calls \in [Call -> CallState]
    /\ StreamTypes
    /\ server \in [Stream -> [asked : Seq([id : Nat, call : Call]), says : Seq([id : Nat, yes : BOOLEAN])]]
    /\ approved \subseteq Stream \X Call

\* A client is sent to a server that agreed to meet this very client, under the
\* name it asked for, whatever calls were dropped and whatever streams came and
\* went in between (ctr, inflight.remove and inflight.retain of register).
RightServer ==
    \A c \in Call, s \in Stream :
        calls[c].reply = Ok(s) => <<s, c>> \in approved /\ Holds[s] = Asks[c]

\* A name has at most one open stream (Entry::Occupied and is_closed).
OneStream == \A s, t \in Stream : Live(s) /\ Live(t) /\ Holds[s] = Holds[t] => s = t

\* Every rendezvous ends: it is answered, or it learns that its server is gone.
EveryRendezvousEnds == \A c \in Call : calls[c].pc = "get" ~> calls[c].pc = "done"

\* A server that registers gets its name or is told that it is in use: no call
\* keeps the bucket from it for ever.
EveryRegisterEnds == \A s \in Stream : <>(streams[s].pc # "new")

\* The table, the streams and the answers agree: one open stream for a name, no
\* more than one request in its channel (mpsc::channel(1)), and every client that
\* is sent to a server is sent to the one it asked for.
NamesSound == TypeOK /\ OneStream /\ RightServer

\* The parts of the inductive invariant.  The map knows every open stream under its
\* name, and forgets no name.
TableInv ==
    /\ \A s \in Stream : Live(s) => mappings[Holds[s]] = s
    /\ \A n \in Name : mappings[n] # None => Holds[mappings[n]] = n
    /\ \A c \in Call : calls[c].pc = "send" => mappings[Asks[c]] # None

\* What a stream has to do with a call: the call asks for its name, and an id stands
\* for one call wherever it is, on its way to the server or back.
RequestsOf(s) ==
    /\ \A i \in DOMAIN streams[s].queue : Asks[streams[s].queue[i]] = Holds[s]
    /\ \A id \in DOMAIN streams[s].inflight : Asks[streams[s].inflight[id]] = Holds[s]
    /\ streams[s].pc = "yield" => streams[s].ctr - 1 \in DOMAIN streams[s].inflight
    /\ \A i \in DOMAIN server[s].asked :
         LET req == server[s].asked[i] IN
         /\ req.id < streams[s].ctr
         /\ req.id \in DOMAIN streams[s].inflight => streams[s].inflight[req.id] = req.call
    /\ \A i \in DOMAIN server[s].says :
         LET answer == server[s].says[i] IN
         /\ answer.id < streams[s].ctr
         /\ answer.yes /\ answer.id \in DOMAIN streams[s].inflight
              => <<s, streams[s].inflight[answer.id]>> \in approved
RequestInv == \A s \in Stream : RequestsOf(s)

\* No call of the service hangs, a rendezvous and a registration in the bucket
\* it keeps locked included.
CallsEnd == EveryRendezvousEnds /\ EveryRegisterEnds
=============================================================================
