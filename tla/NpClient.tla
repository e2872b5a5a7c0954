------------------------------ MODULE NpClient ------------------------------
(***************************************************************************)
(* The 9P client after its Tversion (client/src/fs, util/src/fidpool.rs):  *)
(* calls of the application that run concurrently, the tags and the fids   *)
(* they share, and the task that receives the replies.  A handle           *)
(* (Directory, File, ReadDir) owns a fid; dropping it spawns a task that   *)
(* clunks the fid and then gives it back to the pool.  A call is a future  *)
(* and may be dropped (cancelled) where it awaits.                         *)
(*                                                                         *)
(* The transport keeps the order of what is sent.  The server is the one   *)
(* of NpServer as a client sees it: requests that conflict on the fid      *)
(* table take effect in the order they were sent, others in any order.     *)
(***************************************************************************)
EXTENDS Naturals, FiniteSets, SequencesExt

CONSTANTS MaxTag,      \* bound: tags, 0..(MaxTag - 1)
          MaxFid,      \* bound: fids, 0..(MaxFid - 1)
          LongPaths    \* TRUE: a path may have more than MAXWELEM components, and
                       \* a Tattach, a Twalk or its Rwalk may be larger than the
                       \* buffer it is received in

ASSUME ClientAssumption == MaxTag \in Nat \ {0} /\ MaxFid \in Nat \ {0} /\ LongPaths \in BOOLEAN

Tag == 0..(MaxTag - 1)
Fid == 0..(MaxFid - 1)
NoTag == MaxTag
NoFid == MaxFid

\* Names of calls: one for each that runs, and for each dropped one that a tag
\* is still kept for.
CallId == 1..(2 * MaxTag)

VARIABLES
    next, freeList,   \* FidPoolInner
    handles,          \* the FidHandles that are alive
    calls,            \* the calls that are running
    inflight,         \* for every tag the call whose oneshot::Sender it has, or 0
    broken,           \* the connection has failed
    requests,         \* sent and not yet served
    table,            \* the server's fid table
    replies           \* sent by the server and not yet received

client == <<next, freeList, handles, calls, inflight>>
wire == <<broken, requests, table, replies>>
vars == <<next, freeList, handles, calls, inflight, broken, requests, table, replies>>

\* Who has the handle: a call that is still making it, the application, or the
\* task that clunks it.
Handle == [fid : Fid, kind : {"new", "dir", "file", "clunk"}]

\* fid is the fid of the handle the call borrows, own of the one it has.
Call == [id : CallId, op : {"attach", "openDir", "openFile", "readDir", "io", "clunk"},
         req : {"Tattach", "Twalk", "Topen", "Tio", "Tclunk"}, more : BOOLEAN,
         fid : Fid \cup {NoFid}, own : Fid \cup {NoFid}, tag : Tag \cup {NoTag},
         pc : {"begin", "send", "wait"}]

Request == [tag : Tag, call : CallId,
            type : {"Tattach", "Twalk", "Topen", "Tio", "Tclunk"}, more : BOOLEAN,
            fid : Fid \cup {NoFid}, own : Fid \cup {NoFid}]

Reply == [tag : Tag, call : CallId,
          type : {"Tattach", "Twalk", "Topen", "Tio", "Tclunk"}, more : BOOLEAN,
          result : {"ok", "no", "inuse", "unknown", "long"}]

Init ==
    /\ next = 0 /\ freeList = {}
    /\ handles = {} /\ calls = {}
    /\ inflight = [t \in Tag |-> 0]
    /\ broken = FALSE /\ requests = <<>>
    /\ table = [f \in Fid |-> "none"] /\ replies = <<>>

-----------------------------------------------------------------------------
(* Fids.                                                                   *)

Least(S) == CHOOSE x \in S : \A y \in S : x <= y

\* FidPool::get takes the smallest fid that was given back, or a new one.
get == IF freeList = {} THEN next ELSE Least(freeList)

Get == /\ get \in Fid
       /\ freeList' = freeList \ {get}
       /\ next' = IF freeList = {} THEN next + 1 ELSE next

\* A name that nothing refers to.
FreshId == Least(CallId \ ({c.id : c \in calls} \cup {inflight[t] : t \in Tag}
                              \cup {requests[i].call : i \in DOMAIN requests}
                              \cup {replies[i].call : i \in DOMAIN replies}))

NewCall(op, req, fid, own, more) ==
    [id |-> FreshId, op |-> op, req |-> req, more |-> more, fid |-> fid, own |-> own,
     tag |-> NoTag, pc |-> "begin"]

Owned(fid, kind) == [fid |-> fid, kind |-> kind]

-----------------------------------------------------------------------------
(* The calls of the application.                                           *)

\* Bound: there is a tag for every call, for the clunk of every handle and for
\* k more.
Start(k) ==
    /\ Cardinality({t \in Tag : inflight[t] # 0}) + Cardinality({c \in calls : c.pc = "begin"})
          + Cardinality({h \in handles : h.kind # "clunk"}) + k <= MaxTag
    /\ UNCHANGED <<inflight, wire>>

Attach ==
    /\ Start(2)
    /\ Get
    /\ handles' = handles \cup {Owned(get, "new")}
    /\ calls' = calls \cup {NewCall("attach", "Tattach", NoFid, get, FALSE)}

\* open_dir_at and open_at.
OpenAt(h, op, more) ==
    /\ h.kind = "dir"
    /\ Start(2)
    /\ Get
    /\ handles' = handles \cup {Owned(get, "new")}
    /\ calls' = calls \cup {NewCall(op, "Twalk", h.fid, get, more)}

\* open_at of an empty path has made the handle before it fails.
OpenAtEmpty(h) ==
    /\ h.kind = "dir"
    /\ Start(2)
    /\ Get
    /\ handles' = handles \cup {Owned(get, "clunk")}
    /\ calls' = calls \cup {NewCall("clunk", "Tclunk", NoFid, get, FALSE)}

\* Rust's borrows: a handle is neither dropped nor moved while a call uses it.
Borrowed(h) == \E c \in calls : c.fid = h.fid

\* read_dir takes the Directory's fid into a File of its own.
ReadDir(h) ==
    /\ h.kind = "dir" /\ ~Borrowed(h)
    /\ Start(1)
    /\ handles' = (handles \ {h}) \cup {Owned(h.fid, "new")}
    /\ calls' = calls \cup {NewCall("readDir", "Topen", NoFid, h.fid, FALSE)}
    /\ UNCHANGED <<next, freeList>>

\* stat, read_at, write_at.
Io(h) ==
    /\ h.kind \in {"dir", "file"}
    /\ Start(1)
    /\ calls' = calls \cup {NewCall("io", "Tio", h.fid, NoFid, FALSE)}
    /\ UNCHANGED <<next, freeList, handles>>

\* Drop for Directory and for File: the fid goes to a task that clunks it.
\* Mutant: the fid is free as soon as the handle is dropped.
Clunk_FreesAtOnce(fid, running) ==
    /\ handles' = {h \in handles : h.fid # fid}
    /\ freeList' = freeList \cup {fid}
    /\ calls' = running \cup {NewCall("clunk", "Tclunk", NoFid, fid, FALSE)}
    /\ UNCHANGED next

Clunk(fid, running) ==
    /\ handles' = {h \in handles : h.fid # fid} \cup {Owned(fid, "clunk")}
    /\ calls' = running \cup {NewCall("clunk", "Tclunk", NoFid, fid, FALSE)}
    /\ UNCHANGED <<next, freeList>>

DropHandle(h) ==
    /\ h.kind \in {"dir", "file"} /\ ~Borrowed(h)
    /\ Clunk(h.fid, calls)
    /\ UNCHANGED <<inflight, wire>>

-----------------------------------------------------------------------------
(* transact.                                                               *)

\* The smallest tag that is not in use gets the call's oneshot.
Begin(c) ==
    LET tag == Least({t \in Tag : inflight[t] = 0}) IN
    /\ c.pc = "begin"
    /\ inflight' = [inflight EXCEPT ![tag] = c.id]
    /\ calls' = (calls \ {c}) \cup {[c EXCEPT !.pc = "send", !.tag = tag]}
    /\ UNCHANGED <<next, freeList, handles, wire>>

RequestOf(c) ==
    [tag |-> c.tag, call |-> c.id, type |-> c.req, more |-> c.more, fid |-> c.fid, own |-> c.own]

Send(c) ==
    /\ c.pc = "send" /\ ~broken
    /\ requests' = Append(requests, RequestOf(c))
    /\ calls' = (calls \ {c}) \cup {[c EXCEPT !.pc = "wait"]}
    /\ UNCHANGED <<next, freeList, handles, inflight, broken, table, replies>>

Release(c) ==
    /\ freeList' = freeList \cup {c.own}
    /\ handles' = {h \in handles : h.fid # c.own}
    /\ calls' = calls \ {c}
    /\ UNCHANGED next

Fail(c) ==
    CASE c.op = "clunk" -> Release(c)
      [] c.op = "io" -> calls' = calls \ {c} /\ UNCHANGED <<next, freeList, handles>>
      [] OTHER -> Clunk(c.own, calls \ {c})

\* A request that names a path, or a user and a tree, of any length.
Lengthy(type) == LongPaths /\ type \in {"Tattach", "Twalk"}

\* The connection has failed, or the request is larger than a Noise message may
\* be.  The tag of a call that ends before its reply stays in inflight.
SendError(c) ==
    /\ c.pc = "send" /\ (broken \/ Lengthy(c.req))
    /\ Fail(c)
    /\ UNCHANGED <<inflight, wire>>

\* Mutant: the tag is free again when the call is dropped.
Cancel_FreesTag(c) ==
    /\ c.op # "clunk" /\ c.pc # "begin"
    /\ Fail(c)
    /\ inflight' = [inflight EXCEPT ![c.tag] = 0]
    /\ UNCHANGED wire

Cancel(c) ==
    /\ c.op # "clunk" /\ c.pc # "begin"
    /\ Fail(c)
    /\ UNCHANGED <<inflight, wire>>

-----------------------------------------------------------------------------
(* The task that receives replies.                                         *)

\* The next request of a call that has made one of several steps.
Continue(c, req) ==
    /\ calls' = (calls \ {c}) \cup {[c EXCEPT !.req = req, !.more = FALSE, !.pc = "begin", !.tag = NoTag]}
    /\ UNCHANGED <<next, freeList, handles>>

\* The call returns its handle.
Finish(c) ==
    /\ calls' = calls \ {c}
    /\ handles' = {h \in handles : h.fid # c.own} \cup
          {[fid |-> c.own, kind |-> IF c.op \in {"attach", "openDir"} THEN "dir" ELSE "file"]}
    /\ UNCHANGED <<next, freeList>>

\* A reply comes to the call: an error, or the wrong type of file, ends it.
Resume(c, ok) ==
    \/ ~(ok /\ c.more) /\ Fail(c)
    \/ ok /\ c.more /\ Continue(c, "Twalk")
    \/ ok /\ c.op = "openFile" /\ c.req = "Twalk" /\ Continue(c, "Topen")
    \/ ok /\ ~c.more /\ c.op \in {"attach", "openDir"} /\ Finish(c)
    \/ ok /\ c.req = "Topen" /\ Finish(c)

\* Mutant: the task waits for a receiver.
RecvReply_NeedsReceiver ==
    LET r == Head(replies)
        waiting == {c \in calls : c.id = inflight[r.tag] /\ c.tag = r.tag /\ c.pc = "wait"}
    IN
    /\ replies # <<>>
    /\ replies' = Tail(replies)
    /\ \/ r.result = "long" /\ UNCHANGED client
       \/ /\ r.result # "long"
          /\ inflight' = [inflight EXCEPT ![r.tag] = 0]
          /\ \E c \in waiting : Resume(c, r.result = "ok")
    /\ UNCHANGED <<broken, requests, table>>

\* The oneshot of a call that was dropped leads nowhere.  A reply that is larger
\* than the buffer is cut and then not opened by the transport; one that does not
\* decode is dropped in the same way.  Its tag and its call are left as they are.
RecvReply ==
    LET r == Head(replies)
        waiting == {c \in calls : c.id = inflight[r.tag] /\ c.tag = r.tag /\ c.pc = "wait"}
    IN
    /\ replies # <<>>
    /\ replies' = Tail(replies)
    /\ \/ r.result = "long" /\ UNCHANGED client
       \/ /\ r.result # "long"
          /\ inflight' = [inflight EXCEPT ![r.tag] = 0]
          /\ IF waiting = {} THEN UNCHANGED <<next, freeList, handles, calls>>
             ELSE \E c \in waiting : Resume(c, r.result = "ok")
    /\ UNCHANGED <<broken, requests, table>>

-----------------------------------------------------------------------------
(* The server: dispatch on its fid table.                                  *)

\* Only stat, read and write take the lock shared.
Turn(i) == \A j \in 1..(i - 1) : requests[j].type = "Tio" /\ requests[i].type = "Tio"

Answer(q, result, t) ==
    /\ table' = t
    /\ replies' = Append(replies, [tag |-> q.tag, call |-> q.call, type |-> q.type,
                                   more |-> q.more, result |-> result])

Dispatch(q) ==
    \/ /\ q.type \in {"Tattach", "Twalk"} /\ table[q.own] # "none"
       /\ Answer(q, "inuse", table)
    \/ /\ q.type \in {"Twalk", "Tio"} /\ table[q.fid] = "none"
       /\ Answer(q, "unknown", table)
    \/ /\ q.type \in {"Topen", "Tclunk"} /\ table[q.own] = "none"
       /\ Answer(q, "unknown", table)
    \/ /\ q.type \in {"Tattach", "Twalk"} /\ table[q.own] = "none"
       /\ q.type = "Twalk" => table[q.fid] = "path"
       /\ \/ Answer(q, "ok", [table EXCEPT ![q.own] = "path"])
          \/ Answer(q, "no", table)
          \/ /\ q.type = "Twalk" /\ Lengthy("Twalk")
             /\ \E t \in {table, [table EXCEPT ![q.own] = "path"]} : Answer(q, "long", t)
    \/ /\ q.type = "Twalk" /\ table[q.fid] = "open"
       /\ Answer(q, "no", table)
    \/ /\ q.type = "Topen" /\ table[q.own] = "path"
       /\ Answer(q, "ok", [table EXCEPT ![q.own] = "open"]) \/ Answer(q, "no", table)
    \/ /\ q.type = "Topen" /\ table[q.own] = "open"
       /\ Answer(q, "no", table)
    \/ /\ q.type = "Tio" /\ table[q.fid] # "none"
       /\ Answer(q, "ok", table) \/ Answer(q, "no", table)
    \/ /\ q.type = "Tclunk" /\ table[q.own] # "none"
       /\ Answer(q, "ok", [table EXCEPT ![q.own] = "none"])

\* A request that the server's buffer has no room for is not received, and so
\* waits for no lock.
Serve(i) ==
    LET q == requests[i] IN
    /\ requests' = RemoveAt(requests, i)
    /\ \/ Turn(i) /\ Dispatch(q)
       \/ Lengthy(q.type) /\ UNCHANGED <<table, replies>>
    /\ UNCHANGED <<client, broken>>

\* The connection fails; what had arrived can still be received.
Break ==
    /\ ~broken
    /\ broken' = TRUE
    /\ requests' = <<>>
    /\ replies' \in {SubSeq(replies, 1, k) : k \in 0..Len(replies)}
    /\ UNCHANGED <<client, table>>

-----------------------------------------------------------------------------
Application ==
    \/ Attach
    \/ \E h \in handles :
          \/ OpenAt(h, "openFile", FALSE)
          \/ \E more \in {FALSE, LongPaths} : OpenAt(h, "openDir", more)
          \/ OpenAtEmpty(h) \/ ReadDir(h) \/ Io(h) \/ DropHandle(h)
    \/ \E c \in calls : Cancel(c)

Tasks == \E c \in calls : Begin(c) \/ Send(c) \/ SendError(c)

Next == Application \/ Tasks \/ RecvReply \/ (\E i \in DOMAIN requests : Serve(i)) \/ Break

Spec == Init /\ [][Next]_vars

\* The tasks of the client are scheduled, the server answers what it gets and
\* the transport delivers it.
Fairness ==
    /\ \A k \in CallId : WF_vars(\E c \in calls : c.id = k /\ (Begin(c) \/ Send(c) \/ SendError(c)))
    /\ \A t \in Tag : WF_vars(\E i \in DOMAIN requests : requests[i].tag = t /\ Serve(i))
    /\ WF_vars(RecvReply)

-----------------------------------------------------------------------------
(* Properties.                                                             *)

\* Every variable has its type; a fid that is in the pool was handed out before
\* (the first assertion of Drop for FidHandle).
TypeOK ==
    /\ next \in 0..MaxFid /\ freeList \subseteq {f \in Fid : f < next}
    /\ handles \subseteq Handle /\ calls \subseteq Call
    /\ inflight \in [Tag -> CallId \cup {0}]
    /\ broken \in BOOLEAN /\ requests \in Seq(Request)
    /\ table \in [Fid -> {"none", "path", "open"}] /\ replies \in Seq(Reply)

\* Every fid that was handed out has one owner: a handle or the free list (the
\* second assertion of Drop for FidHandle: no fid is given back twice), and no two calls have the same handle.
OneOwner ==
    /\ \A f \in 0..(next - 1) :
          (f \in freeList) # (\E h \in handles : h.fid = f)
    /\ \A g, h \in handles : g.fid = h.fid => g = h
    /\ \A c, d \in calls : c # d /\ c.own = d.own => c.own = NoFid

\* A reply is for the call that inflight has under its tag: no tag is given to
\* another call as long as an answer to it may come, even when the call that
\* had it was dropped (transact).
OwnReply ==
    /\ \A i \in DOMAIN requests : inflight[requests[i].tag] = requests[i].call
    /\ \A i \in DOMAIN replies : inflight[replies[i].tag] = replies[i].call
    /\ \A i, j \in DOMAIN replies : replies[i].tag = replies[j].tag => i = j

\* The server never finds the fid of a new handle in use: the pool gets a fid
\* back only when the server has forgotten it, whatever was cancelled before.
\* The exception is open_dir_at of a path of more than MAXWELEM components,
\* whose second Twalk names the same newfid.
FidsFresh ==
    \A i \in DOMAIN replies : replies[i].result = "inuse" =>
        LongPaths /\ replies[i].type = "Twalk" /\ ~replies[i].more

\* No call uses a fid that the server does not know, except for the clunk of a
\* handle that was never made.
FidsKnown ==
    \A i \in DOMAIN replies : replies[i].result = "unknown" => replies[i].type = "Tclunk"

\* Nothing stays bound at the server that the client has forgotten: a call that
\* fails or is dropped half way leaves the clunk of its fid behind.
NoneForgotten ==
    ~broken => \A f \in Fid : table[f] # "none" => \E h \in handles : h.fid = f

\* A call that waits, and nothing that it could get is under way.
Stuck(c) ==
    /\ c.pc = "wait"
    /\ \A i \in DOMAIN requests : requests[i].tag # c.tag
    /\ \A i \in DOMAIN replies : replies[i].tag # c.tag

\* Every call ends, or its answer is lost: the task that receives replies is not
\* held up by calls that were dropped or by replies that it drops, and a call that
\* has not been sent when the connection fails returns the error.  An answer is
\* lost only with the connection, and in a standing one if the request or the
\* reply is too large for the buffer it is received in, which a clunk, an open, a
\* read, a write or a stat never is.
EveryCallEnds ==
    /\ \A k \in CallId :
          (\E c \in calls : c.id = k) ~> (\A c \in calls : c.id = k => Stuck(c))
    /\ [](\A c \in calls : Stuck(c) => broken \/ Lengthy(c.req))

\* The fid of a dropped handle can be used again (the task that Drop spawns),
\* unless the connection fails while its Tclunk waits for the answer.
FidsReturn ==
    \A f \in Fid :
        (\E h \in handles : h.fid = f /\ h.kind = "clunk") ~>
            (f \in freeList \/ \E c \in calls : c.op = "clunk" /\ c.own = f /\ Stuck(c))

\* Tags and fids are accounted for on both sides: a tag is with one call, a fid
\* goes back to the pool when the server has forgotten it and not before, and
\* the server has no fid that no handle of the client stands for.
Accounted == TypeOK /\ OneOwner /\ FidsFresh /\ FidsKnown /\ NoneForgotten

\* The parts of the inductive invariant.  A fid that was handed out has a handle, as
\* long as it is not in the pool.
PoolInv == {h.fid : h \in handles} = (0..(next - 1)) \ freeList

\* What a call asks, by its operation, and the handles that it owns and borrows.
Asks == {<<"attach", "Tattach">>, <<"openDir", "Twalk">>, <<"openFile", "Twalk">>, <<"openFile", "Topen">>,
         <<"readDir", "Topen">>, <<"io", "Tio">>, <<"clunk", "Tclunk">>}
Shape(c) ==
    /\ <<c.op, c.req>> \in Asks
    /\ c.more => LongPaths /\ c.op = "openDir"
    /\ c.op = "io" => c.own = NoFid
    /\ c.op = "clunk" => Owned(c.own, "clunk") \in handles
    /\ c.op \notin {"io", "clunk"} => Owned(c.own, "new") \in handles
    /\ c.op \in {"io", "openDir", "openFile"} => \E kind \in {"dir", "file"} : Owned(c.fid, kind) \in handles
    /\ c.op \notin {"io", "openDir", "openFile"} => c.fid = NoFid
CallInv == \A c \in calls : Shape(c)

\* There is a tag for every call that begins, and for the clunk of every handle.
BudgetInv ==
    /\ IsFiniteSet(calls) /\ IsFiniteSet(handles)
    /\ Cardinality({t \in Tag : inflight[t] # 0}) + Cardinality({c \in calls : c.pc = "begin"})
          + Cardinality({h \in handles : h.kind # "clunk"}) <= MaxTag

\* A tag stands for one call, and for one of: a request not yet sent, a request
\* under way, a reply under way.
TagInv ==
    /\ \A c \in calls : c.pc # "begin" => c.tag \in Tag /\ inflight[c.tag] = c.id
    /\ \A c \in calls : c.pc = "begin" => \A t \in Tag : inflight[t] # c.id
    /\ \A c, d \in calls : c.id = d.id => c = d
    /\ \A t, u \in Tag : inflight[t] = inflight[u] /\ inflight[t] # 0 => t = u
    /\ \A c \in calls : c.pc = "send" =>
          /\ \A i \in DOMAIN requests : requests[i].tag # c.tag
          /\ \A i \in DOMAIN replies : replies[i].tag # c.tag
    /\ \A i, j \in DOMAIN requests : requests[i].tag = requests[j].tag => i = j
    /\ \A i \in DOMAIN requests, j \in DOMAIN replies : requests[i].tag # replies[j].tag

\* A call waits for what it asked.
AskInv ==
    \A c \in calls : c.pc = "wait" =>
        /\ \A i \in DOMAIN requests : requests[i].tag = c.tag => requests[i] = RequestOf(c)
        /\ \A i \in DOMAIN replies : replies[i].tag = c.tag =>
               replies[i].type = c.req /\ replies[i].more = c.more

\* A request that makes its newfid, which is therefore not in the table yet.
Makes(type, more) == type = "Tattach" \/ (type = "Twalk" /\ (more \/ ~LongPaths))
Names(x, f) == f \in Fid /\ f \in {x.fid, x.own}

\* What the requests under way find at the server.  Those that name a fid are
\* before its clunk.
RequestInv ==
    \A i \in DOMAIN requests :
        LET q == requests[i] IN
        /\ \A f \in Fid : Names(q, f) => \E h \in handles : h.fid = f
        /\ q.type \in {"Twalk", "Tio"} => q.fid \in Fid /\ table[q.fid] # "none"
        /\ q.type # "Tio" => q.own \in Fid
        /\ q.type = "Topen" => table[q.own] # "none"
        /\ Makes(q.type, q.more) =>
              /\ table[q.own] = "none"
              /\ \A j \in DOMAIN requests : j # i /\ Names(requests[j], q.own) => requests[j].type = "Tclunk"
        /\ q.type = "Tclunk" =>
              /\ \E c \in calls : c.op = "clunk" /\ c.pc = "wait" /\ c.own = q.own
              /\ \A j \in DOMAIN requests : j > i => ~Names(requests[j], q.own)
        /\ \A c \in calls : c.own = q.own /\ c.own \in Fid =>
              c.op = "clunk" \/ (c.pc = "wait" /\ c.tag = q.tag)
        /\ \A h \in handles : h.kind \in {"dir", "file"} => h.fid # q.own

\* What a call and a handle know of the server's table.
TableInv ==
    /\ \A h \in handles : h.kind \in {"dir", "file"} => table[h.fid] # "none"
    /\ \A c \in calls :
          /\ c.pc # "wait" /\ Makes(c.req, c.more) =>
                table[c.own] = "none" /\ \A i \in DOMAIN requests : ~Names(requests[i], c.own)
          /\ c.req = "Topen" => table[c.own] # "none"
          /\ \A i \in DOMAIN replies : c.pc = "wait" /\ c.tag = replies[i].tag =>
                /\ c.req = "Tclunk" =>
                      table[c.own] = "none" /\ \A j \in DOMAIN requests : ~Names(requests[j], c.own)
                /\ replies[i].result = "ok" /\ c.req \in {"Tattach", "Twalk"} => table[c.own] # "none"

\* While the connection stands, the fids of both sides agree.
FidInv ==
    /\ broken => requests = <<>>
    /\ ~broken => RequestInv /\ TableInv
=============================================================================
