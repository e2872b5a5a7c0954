------------------------------ MODULE NpServer ------------------------------
(***************************************************************************)
(* One connection of the 9P server: the loop of handle_client and the      *)
(* dispatch of one request (server/src/np/client.rs), generic in the       *)
(* resources it serves, as the code is generic in S: Serve.                *)
(*                                                                         *)
(* handle_client is one task.  It owns a FuturesUnordered of dispatch      *)
(* futures (inflight) and runs a biased select! over "receive a datagram"  *)
(* and "some future is ready".  The futures share the fid table under a    *)
(* tokio RwLock that they keep over their awaits, so their steps           *)
(* interleave at the awaits and nowhere else.                              *)
(*                                                                         *)
(* Every datagram gets a number, its position in the order of arrival      *)
(* (recvd); the numbers only serve to name requests in the properties.     *)
(***************************************************************************)
EXTENDS Naturals, FiniteSets, Sequences

CONSTANTS
    Fid, NoFid,        \* fids a client may use, and NOFID (!0 as u32)
    Tag, NoTag,        \* tags a client may use, and NOTAG (!0 as u16)
    Requests,          \* the bodies of the requests the client may send
    UniqueTags,        \* TRUE: the client never reuses a tag in flight
    MaxInFlight,       \* MAX_IN_FLIGHT
    MaxRecv            \* bound: datagrams received on the connection

AnyFid == Fid \cup {NoFid}
AnyTag == Tag \cup {NoTag}

\* Requests that take the table's lock exclusively, and shared.
WriteType == {"Tauth", "Tattach", "Twalk", "Topen", "Tcreate", "Tclunk", "Tremove"}
ReadType == {"Tread", "Twrite", "Tstat", "Twstat"}

\* What a future was made from: a request, or an answer that is ready as it
\* is ("rerror", "rflush").  fid2 is newfid of Twalk and afid of Tattach;
\* old is the oldtag of the Tflush that a ready Rflush answers.
Body == [type : WriteType \cup ReadType \cup {"Treads", "rerror", "rflush"},
         fid : AnyFid, fid2 : AnyFid, old : AnyTag]

Req(type, fid, fid2) == [type |-> type, fid |-> fid, fid2 |-> fid2, old |-> NoTag]
ReadyError == Req("rerror", NoFid, NoFid)
ReadyFlush(oldtag) == [type |-> "rflush", fid |-> NoFid, fid2 |-> NoFid, old |-> oldtag]

ASSUME ConstAssumption ==
    /\ NoFid \notin Fid /\ NoTag \notin Tag
    /\ Requests \subseteq {b \in Body : b.type \notin {"rerror", "rflush"}}
    /\ UniqueTags \in BOOLEAN
    /\ MaxInFlight \in Nat \ {0} /\ MaxRecv \in Nat

VARIABLES
    pc,            \* where handle_client is suspended
    initialized,   \* a Tversion has been accepted
    nextSession,   \* the Tversion that waits for inflight to drain
    inflight,      \* the futures of the FuturesUnordered
    resources,     \* the fid table
    tickets,       \* number of lock requests made so far (the lock is a FIFO)
    cur,           \* the answer being sent
    out,           \* history: the answers sent, in order
    recvd,         \* history: datagrams received
    discarded,     \* history: datagrams thrown out without an answer
    superseded     \* history: Tflush requests whose place another one took

vars == <<pc, initialized, nextSession, inflight, resources, tickets, cur,
          out, recvd, discarded, superseded>>

\* The Tflush attached to a future; id 0 is None.
NoFlush == [id |-> 0, tag |-> NoTag, old |-> NoTag]
Flush == [id : 0..MaxRecv, tag : AnyTag, old : AnyTag]

\* A TaggedFuture.  ticket is 0 until the future's first poll, then its place
\* in the queue of the table's lock.
Future == [id : 1..MaxRecv, tag : AnyTag, body : Body, flush : Flush,
           ticket : Nat]

\* What a fid denotes: nothing, or a Path or Open resource; obj names the
\* request that made the resource.
NoResource == [kind |-> "none", obj |-> 0]
Resource == {NoResource} \cup [kind : {"path", "open"}, obj : 1..MaxRecv]

Answer == [id : 1..MaxRecv, tag : AnyTag, old : AnyTag, ok : BOOLEAN,
           kind : {"immediate", "read", "write", "flush", "version"}]
NoAnswer == [id |-> 0, tag |-> NoTag, old |-> NoTag, ok |-> FALSE, kind |-> "immediate"]

NoSession == [id |-> 0, ok |-> FALSE]

EmptyTable == [f \in AnyFid |-> NoResource]

Init ==
    /\ pc = "select"
    /\ initialized = FALSE
    /\ nextSession = NoSession
    /\ inflight = {}
    /\ resources = EmptyTable
    /\ tickets = 0
    /\ cur = [ans |-> NoAnswer, flush |-> NoFlush]
    /\ out = <<>>
    /\ recvd = 0
    /\ discarded = {}
    /\ superseded = {}

-----------------------------------------------------------------------------
(* Receiving a datagram: the first branch of the select!.                  *)

CanRecv ==
    /\ pc = "select"
    /\ Cardinality(inflight) < MaxInFlight
    /\ nextSession = NoSession
    /\ recvd < MaxRecv

\* The tags of the requests that still have an answer coming.
TagsInUse ==
    {f.tag : f \in inflight} \cup {f.flush.tag : f \in {g \in inflight : g.flush.id # 0}}

\* What the client may choose as the tag of a new request.
Fresh(tag) == UniqueTags => tag \notin TagsInUse

Push(tag, body) ==
    inflight' = inflight \cup {[id |-> recvd + 1, tag |-> tag, body |-> body,
                                flush |-> NoFlush, ticket |-> 0]}

\* Nothing happens to a datagram that is not a Tversion before the first
\* Tversion has been accepted, or that is too short to hold a tag.
RecvIgnored ==
    /\ CanRecv
    /\ recvd' = recvd + 1
    /\ discarded' = discarded \cup {recvd + 1}
    /\ UNCHANGED <<pc, initialized, nextSession, inflight, resources, tickets,
                   cur, out, superseded>>

\* A Tversion with NOTAG waits for the requests in flight; with any other tag
\* it is answered with an error.  ok: its msize is at least 256.
RecvTversion(tag, ok) ==
    /\ CanRecv
    /\ Fresh(tag)
    /\ IF tag = NoTag
       THEN /\ nextSession' = [id |-> recvd + 1, ok |-> ok]
            /\ UNCHANGED inflight
       ELSE /\ Push(tag, ReadyError)
            /\ UNCHANGED nextSession
    /\ recvd' = recvd + 1
    /\ UNCHANGED <<pc, initialized, resources, tickets, cur, out, discarded, superseded>>

\* find(|h| h.tag == oldtag) meets the most recently pushed future first.
Flushed(oldtag) ==
    {f \in inflight : /\ f.tag = oldtag
                      /\ \A g \in inflight : g.tag = oldtag => g.id <= f.id}

\* Mutant: the Tflush is attached and answered.
RecvTflush_AttachAndAnswer(tag, oldtag) ==
    /\ CanRecv /\ initialized /\ Fresh(tag)
    /\ \E f \in Flushed(oldtag) :
          inflight' = (inflight \ {f}) \cup
            {[f EXCEPT !.flush = [id |-> recvd + 1, tag |-> tag, old |-> oldtag]],
             [id |-> recvd + 1, tag |-> tag, body |-> ReadyFlush(oldtag),
              flush |-> NoFlush, ticket |-> 0]}
    /\ recvd' = recvd + 1
    /\ UNCHANGED <<pc, initialized, nextSession, resources, tickets, cur, out,
                   discarded, superseded>>

\* Mutant: the Tflush is answered at once.
RecvTflush_AnswersAtOnce(tag, oldtag) ==
    /\ CanRecv /\ initialized /\ Fresh(tag)
    /\ Push(tag, ReadyFlush(oldtag))
    /\ recvd' = recvd + 1
    /\ UNCHANGED <<pc, initialized, nextSession, resources, tickets, cur, out,
                   discarded, superseded>>

\* A Tflush is attached to the future it names and takes the place of an
\* earlier one; it is answered at once when there is no such future.
RecvTflush(tag, oldtag) ==
    /\ CanRecv
    /\ initialized
    /\ Fresh(tag)
    /\ IF Flushed(oldtag) = {}
       THEN Push(tag, ReadyFlush(oldtag)) /\ UNCHANGED superseded
       ELSE \E f \in Flushed(oldtag) :
              /\ inflight' = (inflight \ {f}) \cup
                   {[f EXCEPT !.flush = [id |-> recvd + 1, tag |-> tag, old |-> oldtag]]}
              /\ superseded' = superseded \cup ({f.flush.id} \ {0})
    /\ recvd' = recvd + 1
    /\ UNCHANGED <<pc, initialized, nextSession, resources, tickets, cur, out, discarded>>

\* Any other request becomes a dispatch future, and a datagram that has a tag
\* but cannot be decoded an error that is ready.
RecvRequest(tag, body) ==
    /\ CanRecv
    /\ initialized
    /\ Fresh(tag)
    /\ Push(tag, body)
    /\ recvd' = recvd + 1
    /\ UNCHANGED <<pc, initialized, nextSession, resources, tickets, cur, out,
                   discarded, superseded>>

-----------------------------------------------------------------------------
(* Polling the futures: the second branch of the select!, and the          *)
(* poll_no_context that follows every answer (whether a future is ready    *)
(* there or only at the next turn of the loop makes no difference).        *)

\* Futures are polled for the first time in the order they were pushed.
FirstPoll(f) ==
    /\ pc = "select"
    /\ f.ticket = 0
    /\ \A g \in inflight : g.ticket = 0 => f.id <= g.id

\* Answered by the first poll, before the lock is asked for.
Immediate(b) ==
    \/ b.type \in {"rerror", "rflush", "Treads"}
    \/ b.type \in {"Tauth", "Tattach"} /\ b.fid = NoFid
    \/ b.type = "Twalk" /\ b.fid2 = NoFid

Kind(b) == CASE b.type = "rflush" -> "flush"
             [] Immediate(b) /\ b.type # "rflush" -> "immediate"
             [] ~Immediate(b) /\ b.type \in WriteType -> "write"
             [] OTHER -> "read"

\* The future is ready: it leaves inflight (and its guard the lock's queue)
\* and the loop starts to send the answer.
Complete(f, ok) ==
    /\ cur' = [ans |-> [id |-> f.id, tag |-> f.tag, old |-> f.body.old,
                        ok |-> ok, kind |-> Kind(f.body)],
               flush |-> f.flush]
    /\ inflight' = inflight \ {f}
    /\ pc' = "send"
    /\ UNCHANGED <<initialized, nextSession, tickets, out, recvd, discarded, superseded>>

PollReady(f) ==
    /\ FirstPoll(f)
    /\ Immediate(f.body)
    /\ Complete(f, f.body.type = "rflush")
    /\ UNCHANGED resources

\* The first poll of a dispatch future asks for the lock.  The order of the
\* first polls is the order of the lock's queue.
PollDispatch(f) ==
    /\ FirstPoll(f)
    /\ ~Immediate(f.body)
    /\ tickets' = tickets + 1
    /\ inflight' = (inflight \ {f}) \cup {[f EXCEPT !.ticket = tickets + 1]}
    /\ UNCHANGED <<pc, initialized, nextSession, resources, cur, out, recvd,
                   discarded, superseded>>

\* tokio's RwLock is fair: a request is granted when everything queued before
\* it has been released, or is shared like itself.
Holds(f) ==
    /\ f.ticket # 0
    /\ \A g \in inflight : g.ticket \in 1..(f.ticket - 1) =>
          f.body.type \in ReadType /\ g.body.type \in ReadType

\* Mutant: the lock is not held.
Running_NoGuard(f, type) ==
    /\ pc = "select"
    /\ f.body.type = type
    /\ f.ticket # 0

\* The future is polled while it has the lock, and the call of the handler it
\* waits for (a file system operation) has come to an end.  The guard lives
\* to the end of dispatch, so what it read of the table is still so.
Running(f, type) ==
    /\ pc = "select"
    /\ f.body.type = type
    /\ Holds(f)

Bound(fid) == resources[fid] # NoResource
IsOpen(fid) == resources[fid].kind = "open"

Bind(fid, kind, obj) == resources' = [resources EXCEPT ![fid] = [kind |-> kind, obj |-> obj]]
Unbind(fid) == resources' = [resources EXCEPT ![fid] = NoResource]

\* An Err of the handler, or of a check of the table, leaves the table alone.
Fails(f) == UNCHANGED resources /\ Complete(f, FALSE)

FinishAuth(f) ==
    /\ Running(f, "Tauth")
    /\ \/ /\ ~Bound(f.body.fid)
          /\ Bind(f.body.fid, "open", f.id)
          /\ Complete(f, TRUE)
       \/ Fails(f)

FinishAttach(f) ==
    /\ Running(f, "Tattach")
    /\ \/ /\ ~Bound(f.body.fid)
          /\ f.body.fid2 = NoFid \/ IsOpen(f.body.fid2)
          /\ Bind(f.body.fid, "path", f.id)
          /\ Complete(f, TRUE)
       \/ Fails(f)

\* Mutant: a fid that is in use is bound again.
FinishWalk_Rebinds(f) ==
    /\ Running(f, "Twalk")
    /\ \/ /\ Bound(f.body.fid) /\ ~IsOpen(f.body.fid)
          /\ Bind(f.body.fid2, "path", f.id) \/ UNCHANGED resources
          /\ Complete(f, TRUE)
       \/ Fails(f)

\* A walk that stops half way is answered with an Rwalk but binds nothing.
FinishWalk(f) ==
    /\ Running(f, "Twalk")
    /\ \/ /\ ~Bound(f.body.fid2)
          /\ Bound(f.body.fid) /\ ~IsOpen(f.body.fid)
          /\ Bind(f.body.fid2, "path", f.id) \/ UNCHANGED resources
          /\ Complete(f, TRUE)
       \/ Fails(f)

\* Topen and Tcreate turn the path resource of the fid into an open one.
FinishOpen(f) ==
    /\ Running(f, "Topen") \/ Running(f, "Tcreate")
    /\ \/ /\ Bound(f.body.fid) /\ ~IsOpen(f.body.fid)
          /\ Bind(f.body.fid, "open", f.id)
          /\ Complete(f, TRUE)
       \/ Fails(f)

FinishReadWrite(f) ==
    /\ Running(f, "Tread") \/ Running(f, "Twrite")
    /\ \E ok \in BOOLEAN :
          /\ ok => IsOpen(f.body.fid)
          /\ Complete(f, ok)
    /\ UNCHANGED resources

FinishStat(f) ==
    /\ Running(f, "Tstat") \/ Running(f, "Twstat")
    /\ \E ok \in BOOLEAN :
          /\ ok => Bound(f.body.fid)
          /\ Complete(f, ok)
    /\ UNCHANGED resources

FinishClunk(f) ==
    /\ Running(f, "Tclunk")
    /\ Unbind(f.body.fid)
    /\ Complete(f, Bound(f.body.fid))

\* Tremove gives up the fid whether or not the resource can be removed.
FinishRemove(f) ==
    /\ Running(f, "Tremove")
    /\ Unbind(f.body.fid)
    /\ \E ok \in BOOLEAN :
          /\ ok => Bound(f.body.fid)
          /\ Complete(f, ok)

Poll(f) ==
    \/ PollReady(f) \/ PollDispatch(f)
    \/ FinishAuth(f) \/ FinishAttach(f) \/ FinishWalk(f) \/ FinishOpen(f)
    \/ FinishReadWrite(f) \/ FinishStat(f) \/ FinishClunk(f) \/ FinishRemove(f)

-----------------------------------------------------------------------------
(* Sending.  handle_client awaits each send: no future is polled meanwhile.*)

\* Mutant: the Rflush is forgotten.
SendAnswer_NoFlush ==
    /\ pc = "send"
    /\ out' = Append(out, cur.ans)
    /\ pc' = "select"
    /\ cur' = [ans |-> NoAnswer, flush |-> NoFlush]
    /\ UNCHANGED <<initialized, nextSession, inflight, resources, tickets, recvd,
                   discarded, superseded>>

\* The answer of a completed future, and then the Rflush of the Tflush that
\* waited for it.
SendAnswer ==
    /\ pc = "send"
    /\ out' = Append(out, cur.ans)
    /\ pc' = IF cur.flush.id = 0 THEN "select" ELSE "flush"
    /\ cur' = [cur EXCEPT !.ans = NoAnswer]
    /\ UNCHANGED <<initialized, nextSession, inflight, resources, tickets, recvd,
                   discarded, superseded>>

SendFlush ==
    /\ pc = "flush"
    /\ out' = Append(out, [id |-> cur.flush.id, tag |-> cur.flush.tag,
                           old |-> cur.flush.old, ok |-> TRUE, kind |-> "flush"])
    /\ pc' = "select"
    /\ cur' = [cur EXCEPT !.flush = NoFlush]
    /\ UNCHANGED <<initialized, nextSession, inflight, resources, tickets, recvd,
                   discarded, superseded>>

-----------------------------------------------------------------------------
(* A new session: the top of the loop.                                     *)

\* Mutant: the futures in flight are not waited for.
TakeSession_NotDrained ==
    /\ pc = "select"
    /\ nextSession # NoSession
    /\ pc' = "clear"
    /\ UNCHANGED <<initialized, nextSession, inflight, resources, tickets, cur, out,
                   recvd, discarded, superseded>>

\* With nothing in flight, handle_client itself asks for the lock ...
TakeSession ==
    /\ pc = "select"
    /\ inflight = {}
    /\ nextSession # NoSession
    /\ pc' = "clear"
    /\ UNCHANGED <<initialized, nextSession, inflight, resources, tickets, cur, out,
                   recvd, discarded, superseded>>

\* ... and clears the table when it has it.
ClearTable ==
    /\ pc = "clear"
    /\ \A f \in inflight : f.ticket = 0
    /\ resources' = EmptyTable
    /\ pc' = "version"
    /\ UNCHANGED <<initialized, nextSession, inflight, tickets, cur, out, recvd,
                   discarded, superseded>>

\* An msize below 256 is refused; the table is empty all the same.
SendVersion ==
    /\ pc = "version"
    /\ out' = Append(out, [id |-> nextSession.id, tag |-> NoTag, old |-> NoTag,
                           ok |-> nextSession.ok, kind |-> "version"])
    /\ initialized' = (initialized \/ nextSession.ok)
    /\ nextSession' = NoSession
    /\ pc' = "select"
    /\ UNCHANGED <<inflight, resources, tickets, cur, recvd, discarded, superseded>>

-----------------------------------------------------------------------------
\* A receive or a send fails: handle_client returns, the futures and the
\* table are dropped where they stand.
Disconnect ==
    /\ pc \in {"send", "flush", "version"} \/ CanRecv
    /\ pc' = "closed"
    /\ inflight' = {}
    /\ resources' = EmptyTable
    /\ cur' = [ans |-> NoAnswer, flush |-> NoFlush]
    /\ nextSession' = NoSession
    /\ UNCHANGED <<initialized, tickets, out, recvd, discarded, superseded>>

Receive ==
    \/ RecvIgnored
    \/ \E tag \in AnyTag, ok \in BOOLEAN : RecvTversion(tag, ok)
    \/ \E tag, oldtag \in AnyTag : RecvTflush(tag, oldtag)
    \/ \E tag \in AnyTag, body \in Requests \cup {ReadyError} : RecvRequest(tag, body)

Next ==
    \/ Receive
    \/ \E f \in inflight : Poll(f)
    \/ SendAnswer \/ SendFlush
    \/ TakeSession \/ ClearTable \/ SendVersion
    \/ Disconnect

Spec == Init /\ [][Next]_vars

\* The task is scheduled, file system calls end and the transport takes what
\* it is given (or fails).  Nothing makes a client send.
Fairness ==
    /\ WF_vars(\E f \in inflight : Poll(f))
    /\ WF_vars(SendAnswer \/ SendFlush \/ TakeSession \/ ClearTable \/ SendVersion)

FairSpec == Spec /\ Fairness

-----------------------------------------------------------------------------
(* Properties.                                                             *)

\* Every variable has its type; no more than MAX_IN_FLIGHT futures are in
\* flight (handle_client, the guard of the first select! branch).
TypeOK ==
    /\ pc \in {"select", "send", "flush", "clear", "version", "closed"}
    /\ initialized \in BOOLEAN
    /\ nextSession \in [id : 0..MaxRecv, ok : BOOLEAN]
    /\ inflight \subseteq Future
    /\ resources \in [AnyFid -> Resource]
    /\ tickets \in Nat
    /\ cur \in [ans : Answer \cup {NoAnswer}, flush : Flush]
    /\ out \in Seq(Answer)
    /\ recvd \in 0..MaxRecv
    /\ discarded \subseteq 1..MaxRecv
    /\ superseded \subseteq 1..MaxRecv

InFlightIds == {f.id : f \in inflight}
FlushIds == {f.flush.id : f \in inflight} \ {0}
CurIds == {cur.ans.id, cur.flush.id} \ {0}
SessionIds == {nextSession.id} \ {0}
OutIds == {out[i].id : i \in DOMAIN out}

\* The requests that wait for their answer.
Waiting == InFlightIds \cup FlushIds \cup CurIds \cup SessionIds

\* No request is answered twice, and none that was answered, thrown out or
\* superseded still has an answer coming (handle_client: a future that was
\* yielded, a flush that was sent or a session that was taken is gone from
\* where it was kept).
AnsweredOnce ==
    /\ \A i, j \in DOMAIN out : out[i].id = out[j].id => i = j
    /\ \A f, g \in inflight : f # g => f.id # g.id /\ (f.flush.id = g.flush.id => f.flush.id = 0)
    /\ InFlightIds \cap FlushIds = {}
    /\ (InFlightIds \cup FlushIds) \cap (CurIds \cup SessionIds) = {}
    /\ CurIds \cap SessionIds = {}
    /\ Waiting \cap (OutIds \cup discarded \cup superseded) = {}

\* No request is forgotten: as long as the connection stands, everything that
\* was received waits for its answer, or has it, or was thrown out before the
\* session began, or is a Tflush whose place another Tflush of the same
\* request took (the assignment to flushes in handle_client).
NothingForgotten ==
    pc # "closed" =>
        1..recvd = Waiting \cup OutIds \cup discarded \cup superseded

\* The promise of Rflush: a client that got Rflush for oldtag may use that tag
\* again, because no answer to a request it sent before the Tflush under that
\* tag will follow (only another Rflush may).
FlushBarrier ==
    UniqueTags =>
        \A i, j \in DOMAIN out :
            (/\ i < j
             /\ out[i].kind = "flush"
             /\ out[j].kind # "flush"
             /\ out[j].tag = out[i].old)
                => out[j].id > out[i].id

\* The comment of handle_client, "in-flight requests have been completely
\* flushed out", as the client sees it: the answer to a Tversion comes after
\* the answer to every request before it and before every one after it.
VersionFence ==
    \A i, j \in DOMAIN out :
        out[i].kind = "version" => (i < j <=> out[i].id < out[j].id)

\* Requests that conflict on the fid table take effect in the order they
\* arrived, although their futures are polled concurrently: a client may send
\* Twalk and then Tclunk of the new fid without waiting.
ConflictOrder ==
    \A i, j \in DOMAIN out :
        (/\ i < j
         /\ {out[i].kind, out[j].kind} \in {{"write"}, {"read", "write"}})
            => out[i].id < out[j].id

\* What the request of future g is there to do to fid f: Tauth, Tattach and Twalk
\* bind a fid that is free, Topen and Tcreate open the path it stands for, Tclunk
\* and Tremove give it up.
ChangesFid(g, f) ==
    \/ /\ g.body.type \in {"Tauth", "Tattach"} /\ g.body.fid = f
       /\ ~Bound(f) /\ resources'[f].obj = g.id
    \/ /\ g.body.type = "Twalk" /\ g.body.fid2 = f
       /\ ~Bound(f) /\ resources'[f].obj = g.id
    \/ /\ g.body.type \in {"Topen", "Tcreate"} /\ g.body.fid = f
       /\ resources[f].kind = "path" /\ resources'[f] = [kind |-> "open", obj |-> g.id]
    \/ /\ g.body.type \in {"Tclunk", "Tremove"} /\ g.body.fid = f
       /\ resources'[f] = NoResource

\* The request completes in this step, and every other one in flight that names
\* the fid arrived later.
OldestOf(g, f) ==
    /\ g \notin inflight'
    /\ \A h \in inflight \ {g} : f \in {h.body.fid, h.body.fid2} => g.id < h.id

FidStep ==
    \A f \in AnyFid : resources'[f] # resources[f] =>
        \/ \E g \in inflight : ChangesFid(g, f) /\ OldestOf(g, f)
        \/ inflight = {} /\ pc = "clear"
        \/ pc' = "closed"

\* A fid changes only by a request about it: the oldest in flight that names it,
\* in the step that completes it, and as that request says.  A fid in use is never
\* given to another resource, and no request finds a fid otherwise than the ones
\* before it have left it.  Apart from that a Tversion with nothing in flight, or
\* the end of the connection, empties the table.
FidKept == [][FidStep]_resources

\* Every request is answered in the end, unless the connection is lost or the
\* request is a Tflush that was superseded.  In particular handle_client never
\* waits for a lock that a future it does not poll keeps.
EventuallyAnswered ==
    \A k \in 1..MaxRecv :
        (k \in Waiting) ~> (k \in OutIds \cup superseded \/ pc = "closed")

-----------------------------------------------------------------------------
(* The inductive invariant: what the properties above rest on.             *)

\* What is kept where, in each state of the loop.
LoopInv ==
    /\ pc = "send" => cur.ans.id # 0 /\ cur.ans.kind # "version"
    /\ pc # "send" => cur.ans = NoAnswer
    /\ pc = "flush" => cur.flush.id # 0
    /\ pc \notin {"send", "flush"} => cur.flush.id = 0
    /\ nextSession.id = 0 => nextSession = NoSession
    /\ nextSession.id # 0 => nextSession.id = recvd
    /\ pc \in {"clear", "version"} => nextSession.id # 0
    /\ pc \in {"clear", "version", "closed"} => inflight = {}
    /\ pc = "closed" => nextSession.id = 0

\* Numbers are given out in order.
IdInv == Waiting \cup OutIds \cup discarded \cup superseded \subseteq 1..recvd

\* What still has an answer coming arrived after every Tversion answered.
FenceInv ==
    \A i \in DOMAIN out : out[i].kind = "version" =>
        \A k \in Waiting : out[i].id < k

\* The lock's queue is in order of arrival, and what is not yet in it arrived
\* after what is.
TicketInv ==
    /\ \A f \in inflight : f.ticket <= tickets
    /\ \A f \in inflight : f.ticket # 0 => ~Immediate(f.body)
    /\ \A f, g \in inflight : f.ticket # 0 /\ f # g =>
          /\ g.ticket # f.ticket
          /\ g.ticket = 0 \/ f.ticket < g.ticket => f.id < g.id

Conflict(k, l) == {k, l} \in {{"write"}, {"read", "write"}}

\* What took effect arrived before everything it conflicts with that did not.
OrderInv ==
    /\ \A i \in DOMAIN out : \A f \in inflight :
          Conflict(out[i].kind, Kind(f.body)) => out[i].id < f.id
    /\ pc = "send" =>
          /\ \A f \in inflight : Conflict(cur.ans.kind, Kind(f.body)) => cur.ans.id < f.id
          /\ \A i \in DOMAIN out :
                Conflict(out[i].kind, cur.ans.kind) => out[i].id < cur.ans.id

\* What FlushBarrier rests on, as long as no tag is used twice: a Tflush that is
\* attached is attached to the only future of its oldtag, whose answer goes first;
\* one that is answered at once found no future of that tag.
FlushInv ==
    UniqueTags =>
        /\ \A f, g \in inflight : f.tag = g.tag => f = g
        /\ \A f \in inflight : f.flush.id # 0 => f.flush.old = f.tag
        /\ cur.flush.id # 0 => \A f \in inflight : f.tag # cur.flush.old
        /\ \A f \in inflight : Kind(f.body) # "flush" =>
              /\ \A h \in inflight : Kind(h.body) = "flush" /\ h.body.old = f.tag => h.id < f.id
              /\ \A i \in DOMAIN out : out[i].kind = "flush" /\ out[i].old = f.tag => out[i].id < f.id
              /\ pc = "send" /\ cur.ans.kind = "flush" /\ cur.ans.old = f.tag => cur.ans.id < f.id
        /\ pc = "send" /\ cur.ans.kind # "flush" =>
              \A i \in DOMAIN out :
                 out[i].kind = "flush" /\ out[i].old = cur.ans.tag => out[i].id < cur.ans.id
=============================================================================
