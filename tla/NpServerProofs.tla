--------------------------- MODULE NpServerProofs ---------------------------
(***************************************************************************)
(* Proofs about one connection of the 9P server, for every set of fids,    *)
(* tags and requests and for every bound.                                  *)
(***************************************************************************)
EXTENDS NpServer, TLAPS

\* A future that is polled either joins the lock's queue, or completes with
\* the table still a table.
CompletesWith(f, ok) ==
    /\ Complete(f, ok)
    /\ resources' \in [AnyFid -> Resource]
    /\ pc = "select"
    /\ (FirstPoll(f) /\ Immediate(f.body)) \/ Holds(f)

\* Every Finish action and PollReady are one and the same step for all but the
\* table: the future leaves inflight and its answer is sent next.
LEMMA PollCases ==
    ASSUME TypeOK, NEW f \in inflight, Poll(f)
    PROVE  PollDispatch(f) \/ \E ok \in BOOLEAN : CompletesWith(f, ok)
<1> USE DEF CompletesWith
<1>1. f \in Future /\ f.id \in 1..MaxRecv /\ f.body \in Body
  BY DEF TypeOK, Future
<1>2. f.body.fid \in AnyFid /\ f.body.fid2 \in AnyFid
  BY <1>1 DEF Body
<1>3. \A fid \in AnyFid, kind \in {"path", "open"} :
         Bind(fid, kind, f.id) => resources' \in [AnyFid -> Resource]
  BY <1>1 DEF TypeOK, Bind, Resource
<1>4. \A fid \in AnyFid : Unbind(fid) => resources' \in [AnyFid -> Resource]
  BY DEF TypeOK, Unbind, Resource
<1>5. UNCHANGED resources => resources' \in [AnyFid -> Resource]
  BY DEF TypeOK
<1>6. CASE PollReady(f)
  BY <1>5, <1>6 DEF PollReady, FirstPoll
<1>7. CASE PollDispatch(f)
  BY <1>7
<1>8. CASE FinishAuth(f)
  BY <1>2, <1>3, <1>5, <1>8 DEF FinishAuth, Running, Fails
<1>9. CASE FinishAttach(f)
  BY <1>2, <1>3, <1>5, <1>9 DEF FinishAttach, Running, Fails
<1>10. CASE FinishWalk(f)
  BY <1>2, <1>3, <1>5, <1>10 DEF FinishWalk, Running, Fails
<1>11. CASE FinishOpen(f)
  BY <1>2, <1>3, <1>5, <1>11 DEF FinishOpen, Running, Fails
<1>12. CASE FinishReadWrite(f)
  BY <1>5, <1>12 DEF FinishReadWrite, Running
<1>13. CASE FinishStat(f)
  BY <1>5, <1>13 DEF FinishStat, Running
<1>14. CASE FinishClunk(f)
  BY <1>2, <1>4, <1>14 DEF FinishClunk, Running, Bound
<1>15. CASE FinishRemove(f)
  BY <1>2, <1>4, <1>15 DEF FinishRemove, Running
<1>16. QED
  BY <1>6, <1>7, <1>8, <1>9, <1>10, <1>11, <1>12, <1>13, <1>14, <1>15 DEF Poll
-----------------------------------------------------------------------------
(* Type correctness, with what the loop keeps where.                       *)

\* The actions that receive a datagram.
LEMMA ReceiveTypes ==
    ASSUME TypeOK, LoopInv, Receive
    PROVE  TypeOK' /\ LoopInv'
<1> USE ConstAssumption
<1>1. recvd + 1 \in 1..MaxRecv /\ recvd + 1 # 0 /\ recvd' = recvd + 1
      /\ pc = "select" /\ nextSession = NoSession
  BY DEF TypeOK, Receive, RecvIgnored, RecvTversion, RecvTflush, RecvRequest, CanRecv
<1>2. NoFlush \in Flush /\ ReadyError \in Body
      /\ \A t \in AnyTag : ReadyFlush(t) \in Body
  BY DEF NoFlush, Flush, ReadyError, ReadyFlush, Req, Body, AnyTag, AnyFid, WriteType, ReadType
<1>3. ASSUME NEW tag \in AnyTag, NEW b \in Body, Push(tag, b)
      PROVE  inflight' \subseteq Future
  BY <1>1, <1>2, <1>3 DEF Push, Future, TypeOK, NoFlush
<1>4. CASE RecvIgnored
  BY <1>1, <1>4 DEF RecvIgnored, TypeOK, LoopInv, NoSession
<1>5. ASSUME NEW tag \in AnyTag, NEW ok \in BOOLEAN, RecvTversion(tag, ok)
      PROVE  TypeOK' /\ LoopInv'
  <2>1. CASE tag = NoTag
    BY <1>1, <1>5, <2>1 DEF RecvTversion, TypeOK, LoopInv, NoSession
  <2>2. CASE tag # NoTag
    <3>1. Push(tag, ReadyError) /\ UNCHANGED <<nextSession, pc, initialized, resources,
             tickets, cur, out, discarded, superseded>>
      BY <1>5, <2>2 DEF RecvTversion
    <3>2. inflight' \subseteq Future
      BY <1>2, <1>3, <3>1
    <3>3. QED
      BY <1>1, <3>1, <3>2 DEF TypeOK, LoopInv, NoSession
  <2>3. QED
    BY <2>1, <2>2
<1>6. ASSUME NEW tag \in AnyTag, NEW oldtag \in AnyTag, RecvTflush(tag, oldtag)
      PROVE  TypeOK' /\ LoopInv'
  <2>1. CASE Flushed(oldtag) = {}
    <3>1. Push(tag, ReadyFlush(oldtag)) /\ UNCHANGED <<nextSession, pc, initialized, resources,
             tickets, cur, out, discarded, superseded>>
      BY <1>6, <2>1 DEF RecvTflush
    <3>2. inflight' \subseteq Future
      BY <1>2, <1>3, <3>1
    <3>3. QED
      BY <1>1, <3>1, <3>2 DEF TypeOK, LoopInv, NoSession
  <2>2. CASE Flushed(oldtag) # {}
    <3>1. PICK f \in Flushed(oldtag) :
             /\ inflight' = (inflight \ {f}) \cup
                   {[f EXCEPT !.flush = [id |-> recvd + 1, tag |-> tag, old |-> oldtag]]}
             /\ superseded' = superseded \cup ({f.flush.id} \ {0})
      BY <1>6, <2>2 DEF RecvTflush
    <3>2. f \in inflight /\ f \in Future
      BY DEF Flushed, TypeOK
    <3>3. f.flush.id \in 0..MaxRecv
      BY <3>2 DEF Future, Flush
    <3>4. [f EXCEPT !.flush = [id |-> recvd + 1, tag |-> tag, old |-> oldtag]] \in Future
      BY <1>1, <3>2 DEF Future, Flush
    <3>5. inflight' \subseteq Future /\ superseded' \subseteq 1..MaxRecv
      BY SMTT(30), <3>1, <3>2, <3>3, <3>4 DEF TypeOK
    <3>6. UNCHANGED <<pc, initialized, nextSession, resources, tickets, cur, out, discarded>>
      BY <1>6 DEF RecvTflush
    <3>7. QED
      BY <1>1, <3>5, <3>6 DEF TypeOK, LoopInv, NoSession
  <2>3. QED
    BY <2>1, <2>2
<1>7. ASSUME NEW tag \in AnyTag, NEW b \in Requests \cup {ReadyError}, RecvRequest(tag, b)
      PROVE  TypeOK' /\ LoopInv'
  <2>1. b \in Body
    BY <1>2
  <2>2. inflight' \subseteq Future
    BY <1>3, <1>7, <2>1 DEF RecvRequest
  <2>3. QED
    BY <1>1, <1>7, <2>2 DEF RecvRequest, TypeOK, LoopInv, NoSession
<1>8. QED
  BY <1>4, <1>5, <1>6, <1>7 DEF Receive

\* A completed future's answer has the type of an answer.
LEMMA CompleteTypes ==
    ASSUME TypeOK, NEW f \in inflight, NEW ok \in BOOLEAN, Complete(f, ok)
    PROVE  /\ cur'.ans \in Answer /\ cur'.ans.id = f.id /\ cur'.ans.id # 0
           /\ cur'.ans.kind = Kind(f.body) /\ cur'.ans.kind # "version"
           /\ cur'.flush = f.flush /\ cur' \in [ans : Answer \cup {NoAnswer}, flush : Flush]
<1>1. f \in Future /\ f.body \in Body
  BY DEF TypeOK, Future
<1>2. f.body.old \in AnyTag /\ f.id \in 1..MaxRecv /\ f.tag \in AnyTag /\ f.flush \in Flush
  BY <1>1 DEF Future, Body
<1>3. Kind(f.body) \in {"immediate", "read", "write", "flush"}
  BY DEF Kind
<1>4. QED
  BY <1>2, <1>3 DEF Complete, Answer

\* Every step keeps the types and what the loop keeps where.
LEMMA StepTypes ==
    ASSUME TypeOK, LoopInv, [Next]_vars
    PROVE  TypeOK' /\ LoopInv'
<1> USE ConstAssumption
<1>1. CASE Receive
  BY <1>1, ReceiveTypes
<1>2. ASSUME NEW f \in inflight, PollDispatch(f)
      PROVE  TypeOK' /\ LoopInv'
  <2>1. f \in Future /\ tickets + 1 \in Nat
    BY DEF TypeOK
  <2>2. [f EXCEPT !.ticket = tickets + 1] \in Future
    BY <2>1 DEF Future
  <2>3. QED
    BY <1>2, <2>1, <2>2 DEF PollDispatch, FirstPoll, TypeOK, LoopInv
<1>3. ASSUME NEW f \in inflight, NEW ok \in BOOLEAN, CompletesWith(f, ok)
      PROVE  TypeOK' /\ LoopInv'
  <2>1. /\ cur'.ans \in Answer /\ cur'.ans.id # 0 /\ cur'.flush = f.flush
        /\ cur'.ans.kind # "version"
        /\ cur' \in [ans : Answer \cup {NoAnswer}, flush : Flush]
    BY <1>3, CompleteTypes DEF CompletesWith
  <2>2. QED
    BY <1>3, <2>1 DEF CompletesWith, Complete, TypeOK, LoopInv
<1>4. CASE SendAnswer
  <2>1. cur.ans \in Answer
    BY <1>4 DEF SendAnswer, TypeOK, LoopInv, NoAnswer
  <2>2. cur' \in [ans : Answer \cup {NoAnswer}, flush : Flush] /\ cur'.ans = NoAnswer
        /\ cur'.flush = cur.flush
    BY <1>4 DEF SendAnswer, TypeOK
  <2>3. QED
    BY <1>4, <2>1, <2>2 DEF SendAnswer, TypeOK, LoopInv
<1>5. CASE SendFlush
  <2>1. cur.flush \in Flush /\ cur.flush.id # 0 /\ NoFlush \in Flush
    BY <1>5 DEF SendFlush, TypeOK, LoopInv, NoFlush, Flush, AnyTag
  <2>2. [id |-> cur.flush.id, tag |-> cur.flush.tag,
         old |-> cur.flush.old, ok |-> TRUE, kind |-> "flush"] \in Answer
    BY <2>1 DEF Flush, Answer
  <2>3. cur' \in [ans : Answer \cup {NoAnswer}, flush : Flush] /\ cur'.ans = cur.ans
        /\ cur'.flush = NoFlush
    BY <1>5, <2>1 DEF SendFlush, TypeOK
  <2>4. QED
    BY <1>5, <2>2, <2>3 DEF SendFlush, TypeOK, LoopInv, NoFlush
<1>6. CASE TakeSession
  BY <1>6 DEF TakeSession, TypeOK, LoopInv, NoSession
<1>7. CASE ClearTable
  <2>1. EmptyTable \in [AnyFid -> Resource]
    BY DEF EmptyTable, Resource
  <2>2. QED
    BY <1>7, <2>1 DEF ClearTable, TypeOK, LoopInv
<1>8. CASE SendVersion
  <2>1. [id |-> nextSession.id, tag |-> NoTag, old |-> NoTag,
         ok |-> nextSession.ok, kind |-> "version"] \in Answer
    BY <1>8 DEF SendVersion, TypeOK, LoopInv, Answer, AnyTag
  <2>2. QED
    BY <1>8, <2>1 DEF SendVersion, TypeOK, LoopInv, NoSession
<1>9. CASE Disconnect
  <2>1. EmptyTable \in [AnyFid -> Resource] /\ NoFlush \in Flush
    BY DEF EmptyTable, Resource, NoFlush, Flush, AnyTag
  <2>2. QED
    BY <1>9, <2>1 DEF Disconnect, TypeOK, LoopInv, NoFlush, NoSession
<1>10. CASE UNCHANGED vars
  BY <1>10 DEF vars, TypeOK, LoopInv
<1>11. QED
  BY <1>1, <1>2, <1>3, <1>4, <1>5, <1>6, <1>7, <1>8, <1>9, <1>10, PollCases DEF Next

\* The types hold when the connection is accepted.
LEMMA InitTypes ==
    ASSUME Init
    PROVE  TypeOK /\ LoopInv
<1> USE ConstAssumption
<1>1. resources \in [AnyFid -> Resource]
  BY DEF Init, EmptyTable, Resource
<1>2. cur \in [ans : Answer \cup {NoAnswer}, flush : Flush] /\ cur.ans = NoAnswer
      /\ cur.flush = NoFlush
  BY DEF Init, NoFlush, Flush, AnyTag
<1>3. nextSession \in [id : 0..MaxRecv, ok : BOOLEAN] /\ 0 \in 0..MaxRecv
  BY DEF Init, NoSession
<1>4. out \in Seq(Answer)
  BY DEF Init
<1>5. TypeOK
  BY <1>1, <1>2, <1>3, <1>4 DEF Init, TypeOK
<1>6. LoopInv
  BY <1>2 DEF Init, LoopInv, NoFlush, NoSession
<1>7. QED
  BY <1>5, <1>6

\* Type correctness of a connection of the server (handle_client, dispatch):
\* in every state every variable has its type.
THEOREM TypeCorrect == Spec => []TypeOK
<1>1. Spec => [](TypeOK /\ LoopInv)
  BY InitTypes, StepTypes, PTL DEF Spec
<1>2. QED
  BY <1>1, PTL
-----------------------------------------------------------------------------
(* Every request is answered once and none is forgotten.                   *)

\* What AnsweredOnce needs to be inductive: the answer being sent is not that
\* of the Tflush which follows it, and numbers are given out in order.
OnceInv ==
    /\ AnsweredOnce
    /\ NothingForgotten
    /\ IdInv
    /\ cur.ans.id = cur.flush.id => cur.ans.id = 0

\* Appending an answer to what was sent.
LEMMA AppendOut ==
    ASSUME TypeOK, NEW a \in Answer, out' = Append(out, a)
    PROVE  /\ OutIds' = OutIds \cup {a.id}
           /\ \A i \in DOMAIN out : i \in DOMAIN out' /\ out'[i] = out[i]
           /\ DOMAIN out' = DOMAIN out \cup {Len(out) + 1}
           /\ Len(out) + 1 \notin DOMAIN out
           /\ out'[Len(out) + 1] = a
           /\ Len(out) \in Nat /\ DOMAIN out = 1..Len(out)
<1>1. out \in Seq(Answer) /\ Len(out) \in Nat /\ DOMAIN out = 1..Len(out)
  BY DEF TypeOK
<1>2. /\ DOMAIN out' = 1..(Len(out) + 1)
      /\ \A i \in 1..Len(out) : out'[i] = out[i]
      /\ out'[Len(out) + 1] = a
  BY <1>1
<1>3. DOMAIN out' = DOMAIN out \cup {Len(out) + 1} /\ Len(out) + 1 \notin DOMAIN out
  BY <1>1, <1>2
<1>4. OutIds' = {out'[i].id : i \in DOMAIN out'}
  BY DEF OutIds
<1>5. OutIds' = OutIds \cup {a.id}
  BY <1>1, <1>2, <1>3, <1>4 DEF OutIds
<1>6. QED
  BY <1>1, <1>2, <1>3, <1>5

\* A new future is a new request.
LEMMA PushOnce ==
    ASSUME TypeOK, LoopInv, OnceInv, CanRecv,
           NEW tag \in AnyTag, NEW body \in Body, Push(tag, body), recvd' = recvd + 1,
           UNCHANGED <<pc, nextSession, cur, out, discarded, superseded>>
    PROVE  OnceInv'
<1> DEFINE n == [id |-> recvd + 1, tag |-> tag, body |-> body, flush |-> NoFlush, ticket |-> 0]
<1>1. inflight' = inflight \cup {n} /\ n.id = recvd + 1 /\ n.flush.id = 0
  BY DEF Push, NoFlush
<1>2. InFlightIds' = InFlightIds \cup {recvd + 1}
  BY <1>1 DEF InFlightIds
<1>3. FlushIds' = FlushIds
  BY <1>1 DEF FlushIds
<1>4. CurIds' = CurIds /\ SessionIds' = SessionIds /\ OutIds' = OutIds
  BY DEF CurIds, SessionIds, OutIds
<1>5. Waiting' = Waiting \cup {recvd + 1}
  BY <1>2, <1>3, <1>4 DEF Waiting
<1>6. recvd \in Nat /\ recvd + 1 \notin 1..recvd /\ 1..recvd \subseteq 1..(recvd + 1)
      /\ recvd + 1 \in 1..(recvd + 1)
  BY DEF TypeOK
<1>7. recvd + 1 \notin Waiting \cup OutIds \cup discarded \cup superseded
  BY <1>6 DEF OnceInv, IdInv
<1>8. IdInv'
  BY <1>4, <1>5, <1>6 DEF OnceInv, IdInv
<1>9. \A f \in inflight : f.id # recvd + 1 /\ f.flush.id # recvd + 1
  BY <1>6, <1>7 DEF Waiting, InFlightIds, FlushIds
<1>10. AnsweredOnce'
  <2>1. \A i, j \in DOMAIN out' : out'[i].id = out'[j].id => i = j
    BY DEF OnceInv, AnsweredOnce
  <2>2. \A f, g \in inflight' :
           f # g => f.id # g.id /\ (f.flush.id = g.flush.id => f.flush.id = 0)
    BY <1>1, <1>9 DEF OnceInv, AnsweredOnce
  <2>3. QED
    BY <1>2, <1>3, <1>4, <1>5, <1>7, <2>1, <2>2 DEF OnceInv, AnsweredOnce, Waiting
<1>11. NothingForgotten'
  <2>1. 1..recvd' = 1..recvd \cup {recvd + 1}
    BY <1>6
  <2>2. QED
    BY <1>4, <1>5, <2>1 DEF OnceInv, NothingForgotten, CanRecv
<1>12. QED
  BY <1>8, <1>10, <1>11 DEF OnceInv

\* A datagram is one new request, wherever it goes.
LEMMA ReceiveOnce ==
    ASSUME TypeOK, LoopInv, OnceInv, Receive
    PROVE  OnceInv'
<1> USE ConstAssumption
<1>1. ReadyError \in Body /\ \A t \in AnyTag : ReadyFlush(t) \in Body
  BY DEF ReadyError, ReadyFlush, Req, Body, AnyTag, AnyFid, WriteType, ReadType
<1>2. /\ recvd \in Nat /\ recvd + 1 \notin 1..recvd /\ recvd + 1 # 0
      /\ 1..(recvd + 1) = 1..recvd \cup {recvd + 1}
  BY DEF TypeOK
<1>3. recvd + 1 \notin Waiting \cup OutIds \cup discarded \cup superseded
  BY <1>2 DEF OnceInv, IdInv
<1>4. pc = "select" /\ nextSession = NoSession /\ recvd' = recvd + 1 /\ CanRecv
  BY DEF Receive, RecvIgnored, RecvTversion, RecvTflush, RecvRequest, CanRecv
<1>5. CASE RecvIgnored
  <2>1. /\ InFlightIds' = InFlightIds /\ FlushIds' = FlushIds /\ CurIds' = CurIds
        /\ SessionIds' = SessionIds /\ OutIds' = OutIds /\ Waiting' = Waiting
    BY <1>5 DEF RecvIgnored, InFlightIds, FlushIds, CurIds, SessionIds, OutIds, Waiting
  <2>2. AnsweredOnce'
    BY <1>3, <1>5, <2>1 DEF RecvIgnored, OnceInv, AnsweredOnce
  <2>3. NothingForgotten' /\ IdInv'
    BY <1>2, <1>4, <1>5, <2>1 DEF RecvIgnored, OnceInv, NothingForgotten, IdInv
  <2>4. QED
    BY <1>5, <2>2, <2>3 DEF RecvIgnored, OnceInv
<1>6. ASSUME NEW tag \in AnyTag, NEW ok \in BOOLEAN, RecvTversion(tag, ok)
      PROVE  OnceInv'
  <2>1. CASE tag = NoTag
    <3>1. SessionIds' = {recvd + 1} /\ SessionIds = {}
      BY <1>2, <1>4, <1>6, <2>1 DEF RecvTversion, SessionIds, NoSession
    <3>2. /\ InFlightIds' = InFlightIds /\ FlushIds' = FlushIds /\ CurIds' = CurIds
          /\ OutIds' = OutIds
      BY <1>6, <2>1 DEF RecvTversion, InFlightIds, FlushIds, CurIds, OutIds
    <3>3. Waiting' = Waiting \cup {recvd + 1}
      BY <3>1, <3>2 DEF Waiting
    <3>4. AnsweredOnce'
      BY <1>3, <1>6, <2>1, <3>1, <3>2, <3>3 DEF RecvTversion, OnceInv, AnsweredOnce, Waiting
    <3>5. NothingForgotten' /\ IdInv'
      BY <1>2, <1>4, <1>6, <3>2, <3>3 DEF RecvTversion, OnceInv, NothingForgotten, IdInv
    <3>6. QED
      BY <1>6, <3>4, <3>5 DEF RecvTversion, OnceInv
  <2>2. CASE tag # NoTag
    <3>1. Push(tag, ReadyError) /\ UNCHANGED <<pc, nextSession, cur, out, discarded, superseded>>
      BY <1>6, <2>2 DEF RecvTversion
    <3>2. QED
      BY <1>1, <1>4, <3>1, PushOnce
  <2>3. QED
    BY <2>1, <2>2
<1>7. ASSUME NEW tag \in AnyTag, NEW oldtag \in AnyTag, RecvTflush(tag, oldtag)
      PROVE  OnceInv'
  <2>1. CASE Flushed(oldtag) = {}
    <3>1. /\ Push(tag, ReadyFlush(oldtag))
          /\ UNCHANGED <<pc, nextSession, cur, out, discarded, superseded>>
      BY <1>7, <2>1 DEF RecvTflush
    <3>2. QED
      BY <1>1, <1>4, <3>1, PushOnce
  <2>2. CASE Flushed(oldtag) # {}
    <3> DEFINE new(f) ==
                 [f EXCEPT !.flush = [id |-> recvd + 1, tag |-> tag, old |-> oldtag]]
    <3>1. PICK f \in Flushed(oldtag) :
             /\ inflight' = (inflight \ {f}) \cup {new(f)}
             /\ superseded' = superseded \cup ({f.flush.id} \ {0})
      BY <1>7, <2>2 DEF RecvTflush
    <3>2. f \in inflight /\ f \in Future
      BY DEF Flushed, TypeOK
    <3>3. PICK n : /\ inflight' = (inflight \ {f}) \cup {n}
                   /\ n.id = f.id /\ n.flush.id = recvd + 1
      <4>1. new(f).id = f.id /\ new(f).flush.id = recvd + 1
        BY <3>2 DEF Future
      <4>2. QED
        BY <3>1, <4>1
    <3>4. /\ CurIds' = CurIds /\ SessionIds' = SessionIds /\ OutIds' = OutIds
          /\ UNCHANGED <<pc, cur, nextSession, out, discarded>>
      BY <1>7 DEF RecvTflush, CurIds, SessionIds, OutIds
    <3>5. \A g, h \in inflight :
             g # h => g.id # h.id /\ (g.flush.id = h.flush.id => g.flush.id = 0)
      BY DEF OnceInv, AnsweredOnce
    <3>6. InFlightIds' = InFlightIds
      BY <3>2, <3>3 DEF InFlightIds
    <3>7. FlushIds' = (FlushIds \ {f.flush.id}) \cup {recvd + 1}
      <4>1. ASSUME NEW k \in FlushIds' PROVE k \in (FlushIds \ {f.flush.id}) \cup {recvd + 1}
        BY <3>2, <3>3, <3>5, <4>1 DEF FlushIds
      <4>2. recvd + 1 \in FlushIds'
        BY <1>2, <3>3 DEF FlushIds
      <4>3. ASSUME NEW k \in FlushIds, k # f.flush.id PROVE k \in FlushIds'
        BY <3>2, <3>3, <4>3 DEF FlushIds
      <4>4. QED
        BY <4>1, <4>2, <4>3
    <3>8. f.flush.id # 0 => f.flush.id \in FlushIds
      BY <3>2 DEF FlushIds
    <3>9. recvd + 1 \notin InFlightIds \cup FlushIds \cup CurIds \cup SessionIds
      BY <1>3 DEF Waiting
    <3>10. Waiting' = (Waiting \ ({f.flush.id} \ {0})) \cup {recvd + 1}
      <4>1. 0 \notin InFlightIds /\ 0 \notin FlushIds /\ 0 \notin CurIds /\ 0 \notin SessionIds
        BY DEF InFlightIds, FlushIds, CurIds, SessionIds, TypeOK, Future
      <4>2. f.flush.id \notin InFlightIds \cup CurIds \cup SessionIds
        BY <3>8, <4>1 DEF OnceInv, AnsweredOnce
      <4>3. QED
        BY <3>4, <3>6, <3>7, <4>1, <4>2 DEF Waiting
    <3>11. \A g, h \in inflight' :
              g # h => g.id # h.id /\ (g.flush.id = h.flush.id => g.flush.id = 0)
      <4>1. \A g \in inflight : g.flush.id # recvd + 1
        BY <1>2, <3>9 DEF FlushIds
      <4>2. QED
        BY <3>2, <3>3, <3>5, <4>1
    <3>12. AnsweredOnce'
      <4>1. \A i, j \in DOMAIN out' : out'[i].id = out'[j].id => i = j
        BY <3>4 DEF OnceInv, AnsweredOnce
      <4>2. f.flush.id # 0 => f.flush.id # recvd + 1
        BY <3>8, <3>9
      <4>3. Waiting' \cap (OutIds' \cup discarded' \cup superseded') = {}
        BY <1>3, <3>1, <3>4, <3>10, <4>2 DEF OnceInv, AnsweredOnce
      <4>4. QED
        BY <3>4, <3>6, <3>7, <3>9, <3>11, <4>1, <4>3 DEF OnceInv, AnsweredOnce
    <3>13. {f.flush.id} \ {0} \subseteq Waiting
      BY <3>8 DEF Waiting
    <3>14. NothingForgotten'
      BY <1>2, <1>4, <3>1, <3>4, <3>10, <3>13 DEF OnceInv, NothingForgotten
    <3>15. IdInv'
      BY <1>2, <1>4, <3>1, <3>4, <3>10, <3>13 DEF OnceInv, IdInv
    <3>16. QED
      BY <3>4, <3>12, <3>14, <3>15 DEF OnceInv
  <2>3. QED
    BY <2>1, <2>2
<1>8. ASSUME NEW tag \in AnyTag, NEW b \in Requests \cup {ReadyError}, RecvRequest(tag, b)
      PROVE  OnceInv'
  <2>1. /\ b \in Body /\ Push(tag, b)
        /\ UNCHANGED <<pc, nextSession, cur, out, discarded, superseded>>
    BY <1>1, <1>8 DEF RecvRequest
  <2>2. QED
    BY <1>4, <2>1, PushOnce
<1>9. QED
  BY <1>5, <1>6, <1>7, <1>8 DEF Receive

\* Taking a place in the lock's queue changes no number.
LEMMA PollDispatchOnce ==
    ASSUME TypeOK, OnceInv, NEW f \in inflight, PollDispatch(f)
    PROVE  OnceInv' /\ Waiting' = Waiting
<1>1. f \in Future
  BY DEF TypeOK
<1>2. PICK n : /\ inflight' = (inflight \ {f}) \cup {n}
               /\ n.id = f.id /\ n.flush = f.flush
  <2>1. [f EXCEPT !.ticket = tickets + 1].id = f.id
        /\ [f EXCEPT !.ticket = tickets + 1].flush = f.flush
    BY <1>1 DEF Future
  <2>2. QED
    BY <2>1 DEF PollDispatch
<1>3. InFlightIds' = InFlightIds
  BY <1>2 DEF InFlightIds
<1>4. FlushIds' = FlushIds
  BY <1>2 DEF FlushIds
<1>5. /\ UNCHANGED <<pc, nextSession, cur, out, recvd, discarded, superseded>>
      /\ CurIds' = CurIds /\ SessionIds' = SessionIds /\ OutIds' = OutIds
  BY DEF PollDispatch, CurIds, SessionIds, OutIds
<1>6. Waiting' = Waiting
  BY <1>3, <1>4, <1>5 DEF Waiting
<1>7. \A g, h \in inflight' :
         g # h => g.id # h.id /\ (g.flush.id = h.flush.id => g.flush.id = 0)
  <2>1. \A g, h \in inflight :
           g # h => g.id # h.id /\ (g.flush.id = h.flush.id => g.flush.id = 0)
    BY DEF OnceInv, AnsweredOnce
  <2>2. QED
    BY <1>2, <2>1
<1>8. \A i, j \in DOMAIN out' : out'[i].id = out'[j].id => i = j
  BY <1>5 DEF OnceInv, AnsweredOnce
<1>9. AnsweredOnce'
  BY <1>3, <1>4, <1>5, <1>6, <1>7, <1>8 DEF OnceInv, AnsweredOnce
<1>10. NothingForgotten' /\ IdInv'
  BY <1>5, <1>6 DEF OnceInv, NothingForgotten, IdInv
<1>11. QED
  BY <1>5, <1>6, <1>9, <1>10 DEF OnceInv

\* A future that is ready passes its number, and that of its Tflush, on to
\* the answer being sent.
LEMMA CompleteOnce ==
    ASSUME TypeOK, LoopInv, OnceInv, NEW f \in inflight, NEW ok \in BOOLEAN,
           CompletesWith(f, ok)
    PROVE  OnceInv' /\ Waiting' = Waiting
<1>1. f \in Future /\ f.id # 0 /\ pc = "select"
  BY DEF TypeOK, Future, CompletesWith
<1>2. /\ inflight' = inflight \ {f} /\ pc' = "send"
      /\ UNCHANGED <<nextSession, out, recvd, discarded, superseded>>
  BY DEF CompletesWith, Complete
<1>3. cur'.ans.id = f.id /\ cur'.flush = f.flush
  BY CompleteTypes DEF CompletesWith
<1>4. CurIds = {}
  BY <1>1 DEF LoopInv, CurIds, NoAnswer
<1>5. CurIds' = {f.id, f.flush.id} \ {0}
  BY <1>3 DEF CurIds
<1>6. \A g, h \in inflight :
         g # h => g.id # h.id /\ (g.flush.id = h.flush.id => g.flush.id = 0)
  BY DEF OnceInv, AnsweredOnce
<1>7. InFlightIds' = InFlightIds \ {f.id} /\ f.id \in InFlightIds
  <2>1. ASSUME NEW k \in InFlightIds' PROVE k \in InFlightIds \ {f.id}
    BY <1>2, <1>6, <2>1 DEF InFlightIds
  <2>2. ASSUME NEW k \in InFlightIds, k # f.id PROVE k \in InFlightIds'
    BY <1>2, <2>2 DEF InFlightIds
  <2>3. f.id \in InFlightIds
    BY DEF InFlightIds
  <2>4. QED
    BY <2>1, <2>2, <2>3
<1>8. FlushIds' = FlushIds \ {f.flush.id} /\ (f.flush.id # 0 => f.flush.id \in FlushIds)
  <2>1. ASSUME NEW k \in FlushIds' PROVE k \in FlushIds \ {f.flush.id}
    BY <1>2, <1>6, <2>1 DEF FlushIds
  <2>2. ASSUME NEW k \in FlushIds, k # f.flush.id PROVE k \in FlushIds'
    BY <1>2, <2>2 DEF FlushIds
  <2>3. f.flush.id # 0 => f.flush.id \in FlushIds
    BY DEF FlushIds
  <2>4. QED
    BY <2>1, <2>2, <2>3
<1>9. SessionIds' = SessionIds /\ OutIds' = OutIds
  BY <1>2 DEF SessionIds, OutIds
<1>10. f.id \notin FlushIds /\ f.flush.id \notin InFlightIds
  <2>1. 0 \notin InFlightIds
    BY DEF InFlightIds, TypeOK, Future
  <2>2. InFlightIds \cap FlushIds = {}
    BY DEF OnceInv, AnsweredOnce
  <2>3. QED
    BY <1>7, <1>8, <2>1, <2>2
<1>11. Waiting' = Waiting
  <2>1. 0 \notin FlushIds
    BY DEF FlushIds
  <2>2. FlushIds' \cup ({f.flush.id} \ {0}) = FlushIds
    BY <1>8, <2>1
  <2>3. InFlightIds' \cup {f.id} = InFlightIds
    BY <1>7
  <2>4. CurIds' = {f.id} \cup ({f.flush.id} \ {0})
    BY <1>1, <1>5
  <2>5. QED
    BY <1>4, <1>9, <2>2, <2>3, <2>4 DEF Waiting
<1>12. \A g, h \in inflight' :
          g # h => g.id # h.id /\ (g.flush.id = h.flush.id => g.flush.id = 0)
  BY <1>2, <1>6
<1>13. \A i, j \in DOMAIN out' : out'[i].id = out'[j].id => i = j
  BY <1>2 DEF OnceInv, AnsweredOnce
<1>14. AnsweredOnce'
  <2>1. /\ InFlightIds \cap FlushIds = {}
        /\ (InFlightIds \cup FlushIds) \cap SessionIds = {}
        /\ Waiting \cap (OutIds \cup discarded \cup superseded) = {}
    BY DEF OnceInv, AnsweredOnce
  <2>2. /\ InFlightIds' \cap FlushIds' = {}
        /\ (InFlightIds' \cup FlushIds') \cap (CurIds' \cup SessionIds') = {}
        /\ CurIds' \cap SessionIds' = {}
    BY <1>5, <1>7, <1>8, <1>9, <1>10, <2>1
  <2>3. QED
    BY <1>2, <1>9, <1>11, <1>12, <1>13, <2>1, <2>2 DEF AnsweredOnce
<1>15. NothingForgotten' /\ IdInv'
  BY <1>1, <1>2, <1>9, <1>11 DEF OnceInv, NothingForgotten, IdInv
<1>16. cur'.ans.id = cur'.flush.id => cur'.ans.id = 0
  BY <1>1, <1>3, <1>7, <1>10
<1>17. QED
  BY <1>11, <1>14, <1>15, <1>16 DEF OnceInv

\* An answer that is sent was waited for and is waited for no more.
LEMMA SendOnce ==
    ASSUME TypeOK, LoopInv, OnceInv, NEW a \in Answer, out' = Append(out, a),
           a.id \in Waiting, Waiting' = Waiting \ {a.id},
           CurIds' \cup SessionIds' \subseteq CurIds \cup SessionIds,
           CurIds' \subseteq CurIds, SessionIds' \subseteq SessionIds,
           cur'.ans.id = cur'.flush.id => cur'.ans.id = 0,
           pc # "closed",
           UNCHANGED <<inflight, recvd, discarded, superseded>>
    PROVE  OnceInv'
<1>1. InFlightIds' = InFlightIds /\ FlushIds' = FlushIds
  BY DEF InFlightIds, FlushIds
<1>2. OutIds' = OutIds \cup {a.id}
  BY AppendOut
<1>3. a.id \notin OutIds
  BY DEF OnceInv, AnsweredOnce
<1>4. \A i, j \in DOMAIN out' : out'[i].id = out'[j].id => i = j
  <2>1. /\ DOMAIN out' = DOMAIN out \cup {Len(out) + 1}
        /\ \A i \in DOMAIN out : out'[i] = out[i]
        /\ out'[Len(out) + 1] = a
    BY AppendOut
  <2>2. \A i \in DOMAIN out : out[i].id # a.id
    BY <1>3 DEF OutIds
  <2>3. \A i, j \in DOMAIN out : out[i].id = out[j].id => i = j
    BY DEF OnceInv, AnsweredOnce
  <2>4. QED
    BY <2>1, <2>2, <2>3
<1>5. AnsweredOnce'
  <2>1. \A f, g \in inflight' :
           f # g => f.id # g.id /\ (f.flush.id = g.flush.id => f.flush.id = 0)
    BY DEF OnceInv, AnsweredOnce
  <2>2. Waiting' \cap (OutIds' \cup discarded' \cup superseded') = {}
    BY <1>2 DEF OnceInv, AnsweredOnce
  <2>3. QED
    BY <1>1, <1>4, <2>1, <2>2 DEF OnceInv, AnsweredOnce
<1>6. NothingForgotten' /\ IdInv'
  BY <1>2 DEF OnceInv, NothingForgotten, IdInv
<1>7. QED
  BY <1>5, <1>6 DEF OnceInv

\* A step that leaves the requests alone.
LEMMA FrameOnce ==
    ASSUME OnceInv, pc' # "closed" => pc # "closed",
           UNCHANGED <<inflight, cur, nextSession, out, recvd, discarded, superseded>>
    PROVE  OnceInv'
<1>1. /\ InFlightIds' = InFlightIds /\ FlushIds' = FlushIds /\ CurIds' = CurIds
      /\ SessionIds' = SessionIds /\ OutIds' = OutIds
  BY DEF InFlightIds, FlushIds, CurIds, SessionIds, OutIds
<1>2. Waiting' = Waiting
  BY <1>1 DEF Waiting
<1>3. AnsweredOnce'
  BY <1>1, <1>2 DEF OnceInv, AnsweredOnce
<1>4. NothingForgotten' /\ IdInv'
  BY <1>1, <1>2 DEF OnceInv, NothingForgotten, IdInv
<1>5. QED
  BY <1>3, <1>4 DEF OnceInv

\* The steps of the loop that are no poll and no receive.
LEMMA LoopStepOnce ==
    ASSUME TypeOK, LoopInv, OnceInv,
           SendAnswer \/ SendFlush \/ TakeSession \/ ClearTable \/ SendVersion \/ Disconnect
    PROVE  OnceInv'
<1> USE ConstAssumption
<1>1. CASE SendAnswer
  <2>1. /\ cur.ans \in Answer /\ cur.ans.id # 0 /\ pc = "send"
        /\ cur'.ans.id = 0 /\ cur'.flush = cur.flush
    BY <1>1 DEF SendAnswer, TypeOK, LoopInv, NoAnswer
  <2>2. cur.ans.id # cur.flush.id
    BY <2>1 DEF OnceInv
  <2>3. CurIds' = CurIds \ {cur.ans.id} /\ cur.ans.id \in CurIds
    BY <2>1, <2>2 DEF CurIds
  <2>4. InFlightIds' = InFlightIds /\ FlushIds' = FlushIds /\ SessionIds' = SessionIds
    BY <1>1 DEF SendAnswer, InFlightIds, FlushIds, SessionIds
  <2>5. Waiting' = Waiting \ {cur.ans.id} /\ cur.ans.id \in Waiting
    BY <2>3, <2>4 DEF Waiting, OnceInv, AnsweredOnce
  <2>6. QED
    BY <1>1, <2>1, <2>3, <2>4, <2>5, SendOnce DEF SendAnswer
<1>2. CASE SendFlush
  <2> DEFINE a == [id |-> cur.flush.id, tag |-> cur.flush.tag,
                   old |-> cur.flush.old, ok |-> TRUE, kind |-> "flush"]
  <2>1. /\ cur.flush \in Flush /\ cur.flush.id # 0 /\ pc = "flush" /\ cur.ans.id = 0
        /\ cur'.ans.id = 0 /\ cur'.flush.id = 0
    BY <1>2 DEF SendFlush, TypeOK, LoopInv, NoAnswer, NoFlush
  <2>2. a \in Answer /\ a.id = cur.flush.id
    BY <2>1 DEF Flush, Answer
  <2>3. CurIds' = {} /\ CurIds = {a.id} /\ a.id \in CurIds
    BY <2>1, <2>2 DEF CurIds
  <2>4. InFlightIds' = InFlightIds /\ FlushIds' = FlushIds /\ SessionIds' = SessionIds
    BY <1>2 DEF SendFlush, InFlightIds, FlushIds, SessionIds
  <2>5. Waiting' = Waiting \ {a.id} /\ a.id \in Waiting
    BY <2>3, <2>4 DEF Waiting, OnceInv, AnsweredOnce
  <2>6. out' = Append(out, a) /\ UNCHANGED <<inflight, recvd, discarded, superseded>>
    BY <1>2 DEF SendFlush
  <2> HIDE DEF a
  <2>7. QED
    BY <2>1, <2>2, <2>3, <2>4, <2>5, <2>6, SendOnce
<1>3. CASE SendVersion
  <2> DEFINE a == [id |-> nextSession.id, tag |-> NoTag, old |-> NoTag,
                   ok |-> nextSession.ok, kind |-> "version"]
  <2>1. /\ nextSession.id # 0 /\ pc = "version" /\ cur.ans.id = 0 /\ cur.flush.id = 0
        /\ nextSession'.id = 0 /\ cur' = cur
    BY <1>3 DEF SendVersion, TypeOK, LoopInv, NoAnswer, NoSession
  <2>2. a \in Answer /\ a.id = nextSession.id
    BY <2>1 DEF TypeOK, Answer, AnyTag
  <2>3. CurIds' = {} /\ CurIds = {} /\ SessionIds = {a.id} /\ SessionIds' = {}
    BY <2>1, <2>2 DEF CurIds, SessionIds
  <2>4. InFlightIds' = InFlightIds /\ FlushIds' = FlushIds
    BY <1>3 DEF SendVersion, InFlightIds, FlushIds
  <2>5. Waiting' = Waiting \ {a.id} /\ a.id \in Waiting
    BY <2>3, <2>4 DEF Waiting, OnceInv, AnsweredOnce
  <2>6. out' = Append(out, a) /\ UNCHANGED <<inflight, recvd, discarded, superseded>>
    BY <1>3 DEF SendVersion
  <2> HIDE DEF a
  <2>7. QED
    BY <2>1, <2>2, <2>3, <2>4, <2>5, <2>6, SendOnce
<1>4. CASE TakeSession \/ ClearTable
  <2>1. /\ UNCHANGED <<inflight, cur, nextSession, out, recvd, discarded, superseded>>
        /\ pc # "closed"
    BY <1>4 DEF TakeSession, ClearTable
  <2>2. QED
    BY <2>1, FrameOnce
<1>5. CASE Disconnect
  <2>1. inflight' = {} /\ cur'.ans.id = 0 /\ cur'.flush.id = 0 /\ nextSession'.id = 0
        /\ pc' = "closed" /\ UNCHANGED <<out, recvd, discarded, superseded>>
    BY <1>5 DEF Disconnect, NoAnswer, NoFlush, NoSession
  <2>2. /\ InFlightIds' = {} /\ FlushIds' = {} /\ CurIds' = {} /\ SessionIds' = {}
        /\ OutIds' = OutIds
    BY <2>1 DEF InFlightIds, FlushIds, CurIds, SessionIds, OutIds
  <2>3. Waiting' = {}
    BY <2>2 DEF Waiting
  <2>4. \A i, j \in DOMAIN out' : out'[i].id = out'[j].id => i = j
    BY <2>1 DEF OnceInv, AnsweredOnce
  <2>5. QED
    BY <2>1, <2>2, <2>3, <2>4 DEF OnceInv, AnsweredOnce, NothingForgotten, IdInv
<1>6. QED
  BY <1>1, <1>2, <1>3, <1>4, <1>5

\* Every step keeps the numbers of the requests in order and apart.
LEMMA StepOnce ==
    ASSUME TypeOK, LoopInv, OnceInv, [Next]_vars
    PROVE  OnceInv'
<1>1. CASE Receive
  BY <1>1, ReceiveOnce
<1>2. ASSUME NEW f \in inflight, Poll(f)
      PROVE  OnceInv'
  BY <1>2, PollCases, PollDispatchOnce, CompleteOnce
<1>3. CASE SendAnswer \/ SendFlush \/ TakeSession \/ ClearTable \/ SendVersion \/ Disconnect
  BY <1>3, LoopStepOnce
<1>4. CASE UNCHANGED vars
  BY <1>4, FrameOnce DEF vars
<1>5. QED
  BY <1>1, <1>2, <1>3, <1>4 DEF Next

\* Nothing was received, so nothing waits and nothing was answered.
LEMMA InitOnce ==
    ASSUME Init
    PROVE  OnceInv
<1>1. /\ InFlightIds = {} /\ FlushIds = {} /\ CurIds = {} /\ SessionIds = {}
      /\ OutIds = {} /\ Waiting = {}
  BY DEF Init, InFlightIds, FlushIds, CurIds, SessionIds, OutIds, Waiting, NoAnswer,
     NoFlush, NoSession
<1>2. AnsweredOnce
  BY <1>1 DEF Init, AnsweredOnce
<1>3. NothingForgotten /\ IdInv
  BY <1>1 DEF Init, NothingForgotten, IdInv
<1>4. QED
  BY <1>2, <1>3 DEF Init, OnceInv, NoAnswer

\* All of it together, for the theorems that follow.
LEMMA OnceInvariant == Spec => [](TypeOK /\ LoopInv /\ OnceInv)
BY InitTypes, StepTypes, InitOnce, StepOnce, PTL DEF Spec

\* handle_client answers no request twice, and nothing that was answered,
\* thrown out or superseded still has an answer coming.
THEOREM AnswersOnce == Spec => []AnsweredOnce
<1>1. OnceInv => AnsweredOnce
  BY DEF OnceInv
<1>2. QED
  BY <1>1, OnceInvariant, PTL

\* As long as the connection stands, handle_client still has, or has
\* answered, or has knowingly given up, every request it received.
THEOREM ForgetsNothing == Spec => []NothingForgotten
<1>1. OnceInv => NothingForgotten
  BY DEF OnceInv
<1>2. QED
  BY <1>1, OnceInvariant, PTL
-----------------------------------------------------------------------------
(* A Tversion is a fence between the requests before and after it.         *)

\* Whatever a step does, what waits after it waited before it or is the
\* datagram just received, and nothing is sent but what waited.
LEMMA WaitingStep ==
    ASSUME TypeOK, LoopInv, OnceInv, [Next]_vars
    PROVE  /\ Waiting' \subseteq Waiting \cup {recvd + 1}
           /\ \/ out' = out
              \/ \E a \in Answer : /\ out' = Append(out, a)
                                   /\ a.id \in Waiting
                                   /\ Waiting' \subseteq Waiting
                                   /\ a.kind = "version" =>
                                        Waiting' = {} /\ a.id = recvd
<1> USE ConstAssumption
<1>1. CASE Receive
  <2>1. /\ out' = out /\ superseded' \cup discarded' \subseteq 1..recvd'
        /\ recvd' = recvd + 1 /\ OnceInv' /\ recvd \in Nat
        /\ pc = "select" /\ pc' = "select"
    <3>1. OnceInv' /\ TypeOK'
      BY <1>1, ReceiveOnce, ReceiveTypes
    <3>2. QED
      BY <1>1, <3>1 DEF Receive, RecvIgnored, RecvTversion, RecvTflush, RecvRequest, CanRecv,
         TypeOK, OnceInv, IdInv
  <2>2. OutIds' = OutIds /\ discarded \subseteq discarded' /\ superseded \subseteq superseded'
    <3>1. discarded \subseteq discarded' /\ superseded \subseteq superseded'
      BY <1>1 DEF Receive, RecvIgnored, RecvTversion, RecvTflush, RecvRequest
    <3>2. QED
      BY <2>1, <3>1 DEF OutIds
  <2>3. 1..recvd = Waiting \cup OutIds \cup discarded \cup superseded
    BY <2>1 DEF OnceInv, NothingForgotten
  <2>4. Waiting' \subseteq 1..(recvd + 1)
    BY <2>1 DEF OnceInv, IdInv
  <2>5. Waiting' \cap (OutIds' \cup discarded' \cup superseded') = {}
    BY <2>1 DEF OnceInv, AnsweredOnce
  <2>6. 1..(recvd + 1) = 1..recvd \cup {recvd + 1}
    BY <2>1
  <2>7. QED
    BY <2>1, <2>2, <2>3, <2>4, <2>5, <2>6
<1>2. ASSUME NEW f \in inflight, Poll(f)
      PROVE  Waiting' = Waiting /\ out' = out
  <2>1. PollDispatch(f) \/ \E ok \in BOOLEAN : CompletesWith(f, ok)
    BY <1>2, PollCases
  <2>2. QED
    BY <2>1, PollDispatchOnce, CompleteOnce DEF PollDispatch, CompletesWith, Complete
<1>3. CASE SendAnswer \/ SendFlush
  <2>1. /\ InFlightIds' = InFlightIds /\ FlushIds' = FlushIds /\ SessionIds' = SessionIds
    BY <1>3 DEF SendAnswer, SendFlush, InFlightIds, FlushIds, SessionIds
  <2>2. CurIds' \subseteq CurIds
    <3>1. (cur'.ans = NoAnswer /\ cur'.flush = cur.flush)
             \/ (cur'.ans = cur.ans /\ cur'.flush = NoFlush)
      BY <1>3 DEF SendAnswer, SendFlush, TypeOK
    <3>2. NoAnswer.id = 0 /\ NoFlush.id = 0
      BY DEF NoAnswer, NoFlush
    <3>3. QED
      BY <3>1, <3>2 DEF CurIds
  <2>3. Waiting' \subseteq Waiting
    BY <2>1, <2>2 DEF Waiting
  <2>4. CASE SendAnswer
    <3>1. cur.ans \in Answer /\ cur.ans.id \in CurIds /\ out' = Append(out, cur.ans)
      BY <2>4 DEF SendAnswer, TypeOK, LoopInv, NoAnswer, CurIds
    <3>2. cur.ans.kind # "version"
      BY <2>4 DEF SendAnswer, LoopInv
    <3>3. QED
      BY <2>3, <3>1, <3>2 DEF Waiting
  <2>5. CASE SendFlush
    <3> DEFINE a == [id |-> cur.flush.id, tag |-> cur.flush.tag,
                     old |-> cur.flush.old, ok |-> TRUE, kind |-> "flush"]
    <3>1. /\ cur.flush \in Flush /\ cur.flush.id # 0 /\ out' = Append(out, a)
          /\ cur.flush.id \in CurIds
      BY <2>5 DEF SendFlush, TypeOK, LoopInv, CurIds
    <3>2. a \in Answer /\ a.id = cur.flush.id /\ a.kind # "version"
      BY <3>1 DEF Flush, Answer
    <3> HIDE DEF a
    <3>3. QED
      BY <2>3, <3>1, <3>2 DEF Waiting
  <2>6. QED
    BY <1>3, <2>4, <2>5
<1>4. CASE SendVersion
  <2> DEFINE a == [id |-> nextSession.id, tag |-> NoTag, old |-> NoTag,
                   ok |-> nextSession.ok, kind |-> "version"]
  <2>1. /\ nextSession.id # 0 /\ nextSession.id = recvd /\ cur.ans.id = 0 /\ cur.flush.id = 0
        /\ inflight = {} /\ inflight' = {} /\ nextSession'.id = 0 /\ cur' = cur
    BY <1>4 DEF SendVersion, TypeOK, LoopInv, NoAnswer, NoSession
  <2>2. a \in Answer /\ a.id = nextSession.id /\ out' = Append(out, a)
    BY <1>4, <2>1 DEF SendVersion, TypeOK, Answer, AnyTag
  <2>3. InFlightIds' = {} /\ FlushIds' = {} /\ CurIds' = {} /\ SessionIds' = {}
    BY <2>1 DEF InFlightIds, FlushIds, CurIds, SessionIds
  <2>4. a.id \in SessionIds
    BY <2>1, <2>2 DEF SessionIds
  <2> HIDE DEF a
  <2>5. QED
    BY <2>1, <2>2, <2>3, <2>4 DEF Waiting
<1>5. CASE TakeSession \/ ClearTable \/ UNCHANGED vars
  <2>1. UNCHANGED <<inflight, cur, nextSession, out>>
    BY <1>5 DEF TakeSession, ClearTable, vars
  <2>2. QED
    BY <2>1 DEF Waiting, InFlightIds, FlushIds, CurIds, SessionIds
<1>6. CASE Disconnect
  <2>1. inflight' = {} /\ cur'.ans.id = 0 /\ cur'.flush.id = 0 /\ nextSession'.id = 0
        /\ out' = out
    BY <1>6 DEF Disconnect, NoAnswer, NoFlush, NoSession
  <2>2. QED
    BY <2>1 DEF Waiting, InFlightIds, FlushIds, CurIds, SessionIds
<1>7. QED
  BY <1>1, <1>2, <1>3, <1>4, <1>5, <1>6 DEF Next

\* An answer is sent after every Tversion before it and, if it answers a
\* Tversion, after everything that arrived before.
LEMMA StepFence ==
    ASSUME TypeOK, LoopInv, OnceInv, FenceInv, VersionFence, [Next]_vars
    PROVE  FenceInv' /\ VersionFence'
<1>1. OutIds \subseteq 1..recvd /\ recvd \in Nat /\ Waiting \subseteq 1..recvd
  BY DEF OnceInv, IdInv, TypeOK
<1>2. Waiting' \subseteq Waiting \cup {recvd + 1}
  BY WaitingStep
<1>3. \A i \in DOMAIN out : out[i].id \in 1..recvd
  BY <1>1 DEF OutIds
<1>4. CASE out' = out
  <2>1. VersionFence'
    BY <1>4 DEF VersionFence
  <2>2. \A i \in DOMAIN out : out[i].id < recvd + 1
    BY <1>1, <1>3
  <2>3. FenceInv'
    BY <1>2, <1>4, <2>2 DEF FenceInv
  <2>4. QED
    BY <2>1, <2>3
<1>5. ASSUME NEW a \in Answer, out' = Append(out, a), a.id \in Waiting,
             Waiting' \subseteq Waiting, a.kind = "version" => Waiting' = {} /\ a.id = recvd
      PROVE  FenceInv' /\ VersionFence'
  <2>1. /\ DOMAIN out' = DOMAIN out \cup {Len(out) + 1}
        /\ \A i \in DOMAIN out : out'[i] = out[i]
        /\ out'[Len(out) + 1] = a
        /\ Len(out) \in Nat /\ DOMAIN out = 1..Len(out)
    BY <1>5, AppendOut
  <2>2. FenceInv'
    BY <1>5, <2>1 DEF FenceInv
  <2>3. a.id \notin OutIds
    BY <1>5 DEF OnceInv, AnsweredOnce
  <2>4. \A j \in DOMAIN out : a.kind = "version" => out[j].id < a.id
    BY <1>1, <1>3, <1>5, <2>3 DEF OutIds
  <2>5. \A j \in DOMAIN out : out[j].kind = "version" => out[j].id < a.id
    <3>1. a.id \in Waiting
      BY <1>5
    <3>2. QED
      BY <3>1 DEF FenceInv
  <2>6. a.id \in Nat /\ \A j \in DOMAIN out : out[j].id \in Nat /\ j < Len(out) + 1
    <3>1. a.id \in 1..recvd
      BY <1>1, <1>5
    <3>2. \A j \in DOMAIN out : out[j].id \in Nat
      BY <1>1, <1>3
    <3>3. \A j \in DOMAIN out : j < Len(out) + 1
      BY <2>1
    <3>4. QED
      BY <1>1, <3>1, <3>2, <3>3
  <2>7. VersionFence'
    <3>1. ASSUME NEW i \in DOMAIN out', NEW j \in DOMAIN out', out'[i].kind = "version"
          PROVE  i < j <=> out'[i].id < out'[j].id
      <4>1. CASE i \in DOMAIN out /\ j \in DOMAIN out
        BY <2>1, <3>1, <4>1 DEF VersionFence
      <4>2. CASE i \in DOMAIN out /\ j = Len(out) + 1
        BY <2>1, <2>5, <2>6, <3>1, <4>2
      <4>3. CASE i = Len(out) + 1 /\ j \in DOMAIN out
        BY <2>1, <2>4, <2>6, <3>1, <4>3
      <4>4. CASE i = Len(out) + 1 /\ j = Len(out) + 1
        BY <2>1, <2>6, <4>4
      <4>5. QED
        BY <2>1, <4>1, <4>2, <4>3, <4>4
    <3>2. QED
      BY <3>1 DEF VersionFence
  <2>8. QED
    BY <2>2, <2>7
<1>6. QED
  BY <1>4, <1>5, WaitingStep

\* The answer to a Tversion follows the answers to everything before it and
\* precedes the answers to everything after it.
THEOREM VersionIsFence == Spec => []VersionFence
<1>1. Init => FenceInv /\ VersionFence
  BY DEF Init, FenceInv, VersionFence
<1>2. Spec => [](TypeOK /\ LoopInv /\ OnceInv /\ FenceInv /\ VersionFence)
  BY <1>1, InitTypes, StepTypes, InitOnce, StepOnce, StepFence, PTL DEF Spec
<1>3. QED
  BY <1>2, PTL
-----------------------------------------------------------------------------
(* Requests that conflict on the table take effect in order of arrival.    *)

\* Conflict is symmetric, and only of answers that needed the table.
LEMMA ConflictCases ==
    ASSUME NEW k, NEW l, Conflict(k, l)
    PROVE  \/ k = "write" /\ l \in {"read", "write"}
           \/ k = "read" /\ l = "write"
<1>1. {k, l} = {"write"} \/ {k, l} = {"read", "write"}
  BY DEF Conflict
<1>2. k \in {k, l} /\ l \in {k, l}
  OBVIOUS
<1>3. CASE {k, l} = {"write"}
  BY <1>2, <1>3
<1>4. CASE {k, l} = {"read", "write"}
  <2>1. k \in {"read", "write"} /\ l \in {"read", "write"}
    BY <1>2, <1>4
  <2>2. "write" \in {k, l}
    BY <1>4
  <2>3. QED
    BY <2>1, <2>2
<1>5. QED
  BY <1>1, <1>3, <1>4

\* What a step does to inflight, as the lock's queue sees it: it may add one
\* request that is later than all others and not yet queued, change what is
\* neither body nor place, or drop futures.
SameQueue ==
    \A g \in inflight' :
        \/ \E f \in inflight : g.id = f.id /\ g.body = f.body /\ g.ticket = f.ticket
        \/ g.id = recvd + 1 /\ g.ticket = 0

\* Such a step keeps the queue in order.
LEMMA SameQueueTickets ==
    ASSUME TypeOK, TypeOK', OnceInv, OnceInv', TicketInv, SameQueue, tickets' = tickets
    PROVE  TicketInv'
<1>1. \A f, g \in inflight' : f # g => f.id # g.id
  BY DEF OnceInv, AnsweredOnce
<1>2. recvd \in Nat /\ \A f \in inflight : f.id \in 1..recvd /\ f.ticket \in Nat
  <2>1. \A f \in inflight : f.id \in 1..recvd
    BY DEF OnceInv, IdInv, Waiting, InFlightIds
  <2>2. QED
    BY <2>1 DEF TypeOK, Future
<1>3. \A f \in inflight' : f.ticket <= tickets'
  BY DEF SameQueue, TicketInv, TypeOK
<1>4. \A f \in inflight' : f.ticket # 0 => ~Immediate(f.body)
  <2> USE DEF SameQueue
  <2>1. QED
    BY DEF TicketInv
<1>5. ASSUME NEW f \in inflight', NEW g \in inflight', f.ticket # 0, f # g
      PROVE  /\ g.ticket # f.ticket
             /\ g.ticket = 0 \/ f.ticket < g.ticket => f.id < g.id
  <2>1. PICK f1 \in inflight : f.id = f1.id /\ f.ticket = f1.ticket
    BY <1>5 DEF SameQueue
  <2>2. CASE g.id = recvd + 1 /\ g.ticket = 0
    BY <1>2, <1>5, <2>1, <2>2
  <2>3. CASE \E g1 \in inflight : g.id = g1.id /\ g.ticket = g1.ticket
    <3>1. PICK g1 \in inflight : g.id = g1.id /\ g.ticket = g1.ticket
      BY <2>3
    <3>2. f1 # g1
      BY <1>1, <1>5, <2>1, <3>1
    <3>3. QED
      BY <1>5, <2>1, <3>1, <3>2 DEF TicketInv
  <2>4. QED
    BY <2>2, <2>3 DEF SameQueue
<1>6. QED
  BY <1>3, <1>4, <1>5 DEF TicketInv

\* Such a step, when it sends nothing, keeps the order of effects.
LEMMA SameQueueOrder ==
    ASSUME TypeOK, OnceInv, OrderInv, SameQueue, pc' # "send", out' = out
    PROVE  OrderInv'
<1>1. recvd \in Nat /\ \A i \in DOMAIN out : out[i].id \in 1..recvd
  BY DEF TypeOK, OnceInv, IdInv, OutIds
<1>2. ASSUME NEW i \in DOMAIN out', NEW g \in inflight',
             Conflict(out'[i].kind, Kind(g.body)) 
      PROVE  out'[i].id < g.id
  <2>1. CASE g.id = recvd + 1
    BY <1>1, <2>1
  <2>2. CASE \E f \in inflight : g.id = f.id /\ g.body = f.body
    BY <1>2, <2>2 DEF OrderInv
  <2>3. QED
    BY <2>1, <2>2 DEF SameQueue
<1>3. QED
  BY <1>2 DEF OrderInv

\* A datagram joins at the end and not in the queue.
LEMMA ReceiveQueue ==
    ASSUME TypeOK, Receive
    PROVE  /\ SameQueue /\ tickets' = tickets /\ pc' = "select" /\ out' = out
<1>1. tickets' = tickets /\ pc' = "select" /\ out' = out
  BY DEF Receive, RecvIgnored, RecvTversion, RecvTflush, RecvRequest, CanRecv
<1>2. ASSUME NEW tag, NEW body, Push(tag, body)
      PROVE  SameQueue
  BY <1>2 DEF Push, SameQueue
<1>3. ASSUME NEW tag, NEW oldtag, RecvTflush(tag, oldtag), Flushed(oldtag) # {}
      PROVE  SameQueue
  <2> DEFINE new(f) ==
               [f EXCEPT !.flush = [id |-> recvd + 1, tag |-> tag, old |-> oldtag]]
  <2>1. PICK f \in Flushed(oldtag) : inflight' = (inflight \ {f}) \cup {new(f)}
    BY <1>3 DEF RecvTflush
  <2>2. f \in inflight /\ f \in Future
    BY DEF Flushed, TypeOK
  <2>3. new(f).id = f.id /\ new(f).body = f.body /\ new(f).ticket = f.ticket
    BY <2>2 DEF Future
  <2> HIDE DEF new
  <2>4. QED
    BY <2>1, <2>2, <2>3 DEF SameQueue
<1>4. inflight' = inflight => SameQueue
  BY DEF SameQueue
<1>5. QED
  BY <1>1, <1>2, <1>3, <1>4 DEF Receive, RecvIgnored, RecvTversion, RecvTflush, RecvRequest

\* A future joins the queue behind everything that arrived before it.
LEMMA PollDispatchQueue ==
    ASSUME TypeOK, OnceInv, TicketInv, OrderInv, NEW f \in inflight, PollDispatch(f)
    PROVE  TicketInv' /\ OrderInv'
<1>1. f \in Future /\ tickets \in Nat
  BY DEF TypeOK
<1>2. PICK n : /\ inflight' = (inflight \ {f}) \cup {n}
               /\ n.id = f.id /\ n.body = f.body /\ n.ticket = tickets + 1
  <2>1. /\ [f EXCEPT !.ticket = tickets + 1].id = f.id
        /\ [f EXCEPT !.ticket = tickets + 1].body = f.body
        /\ [f EXCEPT !.ticket = tickets + 1].ticket = tickets + 1
    BY <1>1 DEF Future
  <2>2. QED
    BY <2>1 DEF PollDispatch
<1>3. /\ f.ticket = 0 /\ ~Immediate(f.body) /\ tickets' = tickets + 1
      /\ \A g \in inflight : g.ticket = 0 => f.id <= g.id
  BY DEF PollDispatch, FirstPoll
<1>4. \A g, h \in inflight : g # h => g.id # h.id
  BY DEF OnceInv, AnsweredOnce
<1>5. \A g \in inflight : g.id \in Nat /\ g.ticket \in Nat
  BY DEF TypeOK, Future
<1>6. \A g \in inflight' : g.ticket <= tickets'
  BY <1>1, <1>2, <1>3, <1>5 DEF TicketInv
<1>7. \A g \in inflight' : g.ticket # 0 => ~Immediate(g.body)
  BY <1>2, <1>3 DEF TicketInv
<1>8. ASSUME NEW g \in inflight', NEW h \in inflight', g.ticket # 0, g # h
      PROVE  /\ h.ticket # g.ticket
             /\ h.ticket = 0 \/ g.ticket < h.ticket => g.id < h.id
  <2>1. CASE g \in inflight /\ h \in inflight
    BY <1>8, <2>1 DEF TicketInv
  <2>2. CASE g = n /\ h \in inflight \ {f}
    <3>1. h.ticket <= tickets /\ h.ticket \in Nat
      BY <1>5, <2>2 DEF TicketInv
    <3>2. h.ticket = 0 => f.id < h.id
      BY <1>3, <1>4, <1>5, <2>2
    <3>3. QED
      BY <1>1, <1>2, <2>2, <3>1, <3>2
  <2>3. CASE g \in inflight \ {f} /\ h = n
    <3>1. g.ticket <= tickets /\ g.ticket \in Nat
      BY <1>5, <2>3 DEF TicketInv
    <3>2. g.id < f.id
      BY <1>3, <1>8, <2>3 DEF TicketInv
    <3>3. QED
      BY <1>1, <1>2, <2>3, <3>1, <3>2
  <2>4. QED
    BY <1>2, <1>8, <2>1, <2>2, <2>3
<1>9. TicketInv'
  BY <1>6, <1>7, <1>8 DEF TicketInv
<1>10. OrderInv'
  <2>1. pc = "select" /\ pc' = "select" /\ out' = out
    BY DEF PollDispatch, FirstPoll
  <2>2. QED
    BY <1>2, <2>1 DEF OrderInv
<1>11. QED
  BY <1>9, <1>10

\* A future takes effect before everything that it conflicts with and that is
\* still in flight, because those are behind it in the queue.
LEMMA CompleteQueue ==
    ASSUME TypeOK, OnceInv, TicketInv, OrderInv, NEW f \in inflight, NEW ok \in BOOLEAN,
           CompletesWith(f, ok)
    PROVE  TicketInv' /\ OrderInv'
<1>1. /\ inflight' = inflight \ {f} /\ out' = out /\ pc' = "send" /\ tickets' = tickets
      /\ cur'.ans.id = f.id /\ cur'.ans.kind = Kind(f.body)
  BY CompleteTypes DEF CompletesWith, Complete
<1>2. TicketInv'
  BY <1>1 DEF TicketInv
<1>3. ASSUME NEW g \in inflight', Conflict(Kind(f.body), Kind(g.body))
      PROVE  f.id < g.id
  <2>1. \/ Kind(f.body) = "write" /\ Kind(g.body) \in {"read", "write"}
        \/ Kind(f.body) = "read" /\ Kind(g.body) = "write"
    BY <1>3, ConflictCases
  <2>2. ~Immediate(f.body) /\ ~Immediate(g.body)
    BY <2>1 DEF Kind, Immediate
  <2>3. Holds(f) /\ f.ticket # 0
    BY <2>2 DEF CompletesWith, Holds
  <2>4. g \in inflight /\ g # f /\ g.ticket \in Nat /\ f.ticket \in Nat
    BY <1>1 DEF TypeOK, Future
  <2>5. ~(f.body.type \in ReadType /\ g.body.type \in ReadType)
    BY <2>1, <2>2 DEF Kind, ReadType, WriteType, Immediate
  <2>6. g.ticket \notin 1..(f.ticket - 1)
    BY <2>3, <2>4, <2>5 DEF Holds
  <2>7. g.ticket # f.ticket
    BY <2>3, <2>4 DEF TicketInv
  <2>8. g.ticket = 0 \/ f.ticket < g.ticket
    BY <2>4, <2>6, <2>7
  <2>9. QED
    BY <2>3, <2>4, <2>8 DEF TicketInv
<1>4. \A g \in inflight' : Conflict(cur'.ans.kind, Kind(g.body)) => cur'.ans.id < g.id
  BY <1>1, <1>3
<1>5. \A i \in DOMAIN out' :
         Conflict(out'[i].kind, cur'.ans.kind) => out'[i].id < cur'.ans.id
  BY <1>1 DEF OrderInv
<1>6. \A i \in DOMAIN out' : \A g \in inflight' :
         Conflict(out'[i].kind, Kind(g.body)) => out'[i].id < g.id
  BY <1>1 DEF OrderInv
<1>7. QED
  BY <1>2, <1>4, <1>5, <1>6 DEF OrderInv

\* An answer that conflicts with nothing may be sent at any time.
LEMMA SendOther ==
    ASSUME TypeOK, OrderInv, ConflictOrder, NEW a \in Answer, out' = Append(out, a),
           a.kind \in {"flush", "version"}, pc' # "send", inflight' = inflight
    PROVE  OrderInv' /\ ConflictOrder'
<1>1. /\ DOMAIN out' = DOMAIN out \cup {Len(out) + 1}
      /\ \A i \in DOMAIN out : out'[i] = out[i]
      /\ out'[Len(out) + 1] = a
  BY AppendOut
<1>2. \A k : ~Conflict(a.kind, k) /\ ~Conflict(k, a.kind)
  BY ConflictCases
<1>3. OrderInv'
  BY <1>1, <1>2 DEF OrderInv
<1>4. ASSUME NEW i \in DOMAIN out', NEW j \in DOMAIN out', i < j,
             Conflict(out'[i].kind, out'[j].kind)
      PROVE  out'[i].id < out'[j].id
  <2>1. i \in DOMAIN out /\ j \in DOMAIN out
    BY <1>1, <1>2, <1>4
  <2>2. QED
    BY <1>1, <1>4, <2>1 DEF ConflictOrder, Conflict
<1>5. ConflictOrder'
  BY <1>4 DEF ConflictOrder, Conflict
<1>6. QED
  BY <1>3, <1>5

\* The answer of a future follows all the answers it conflicts with.
LEMMA SendAnswerOrder ==
    ASSUME TypeOK, LoopInv, OrderInv, ConflictOrder, SendAnswer
    PROVE  OrderInv' /\ ConflictOrder'
<1>1. /\ pc = "send" /\ pc' # "send" /\ inflight' = inflight
      /\ cur.ans \in Answer /\ out' = Append(out, cur.ans)
  BY DEF SendAnswer, TypeOK, LoopInv, NoAnswer
<1>2. /\ DOMAIN out' = DOMAIN out \cup {Len(out) + 1}
      /\ \A i \in DOMAIN out : out'[i] = out[i]
      /\ out'[Len(out) + 1] = cur.ans
      /\ Len(out) \in Nat /\ DOMAIN out = 1..Len(out)
  BY <1>1, AppendOut
<1>3. /\ \A f \in inflight : Conflict(cur.ans.kind, Kind(f.body)) => cur.ans.id < f.id
      /\ \A i \in DOMAIN out :
            Conflict(out[i].kind, cur.ans.kind) => out[i].id < cur.ans.id
      /\ \A i \in DOMAIN out : \A f \in inflight :
            Conflict(out[i].kind, Kind(f.body)) => out[i].id < f.id
  BY <1>1 DEF OrderInv
<1>4. OrderInv'
  BY <1>1, <1>2, <1>3 DEF OrderInv
<1>5. ASSUME NEW i \in DOMAIN out', NEW j \in DOMAIN out', i < j,
             Conflict(out'[i].kind, out'[j].kind)
      PROVE  out'[i].id < out'[j].id
  <2>1. i \in DOMAIN out
    BY <1>2, <1>5
  <2>2. CASE j \in DOMAIN out
    BY <1>2, <1>5, <2>1, <2>2 DEF ConflictOrder, Conflict
  <2>3. CASE j = Len(out) + 1
    BY <1>2, <1>3, <1>5, <2>1, <2>3
  <2>4. QED
    BY <1>2, <2>2, <2>3
<1>6. ConflictOrder'
  BY <1>5 DEF ConflictOrder, Conflict
<1>7. QED
  BY <1>4, <1>6

\* Every step keeps the queue and the effects in order of arrival.
LEMMA StepOrder ==
    ASSUME TypeOK, LoopInv, OnceInv, TicketInv, OrderInv, ConflictOrder, [Next]_vars
    PROVE  TicketInv' /\ OrderInv' /\ ConflictOrder'
<1> USE ConstAssumption
<1>1. TypeOK' /\ LoopInv' /\ OnceInv'
  BY StepTypes, StepOnce
<1>2. out' = out => ConflictOrder'
  BY DEF ConflictOrder
<1>3. CASE Receive
  BY <1>1, <1>2, <1>3, ReceiveQueue, SameQueueTickets, SameQueueOrder
<1>4. ASSUME NEW f \in inflight, Poll(f)
      PROVE  TicketInv' /\ OrderInv' /\ ConflictOrder'
  <2>1. PollDispatch(f) \/ \E ok \in BOOLEAN : CompletesWith(f, ok)
    BY <1>4, PollCases
  <2>2. out' = out
    BY <2>1 DEF PollDispatch, CompletesWith, Complete
  <2>3. QED
    BY <1>2, <2>1, <2>2, PollDispatchQueue, CompleteQueue
<1>5. CASE SendAnswer
  <2>1. TicketInv'
    BY <1>5 DEF SendAnswer, TicketInv
  <2>2. QED
    BY <1>5, <2>1, SendAnswerOrder
<1>6. CASE SendFlush
  <2> DEFINE a == [id |-> cur.flush.id, tag |-> cur.flush.tag,
                   old |-> cur.flush.old, ok |-> TRUE, kind |-> "flush"]
  <2>1. cur.flush \in Flush /\ cur.flush.id # 0
    BY <1>6 DEF SendFlush, TypeOK, LoopInv
  <2>2. a \in Answer /\ a.kind = "flush"
    BY <2>1 DEF Flush, Answer
  <2>3. out' = Append(out, a) /\ pc' # "send" /\ inflight' = inflight /\ tickets' = tickets
    BY <1>6 DEF SendFlush
  <2> HIDE DEF a
  <2>4. TicketInv'
    BY <2>3 DEF TicketInv
  <2>5. QED
    BY <2>2, <2>3, <2>4, SendOther
<1>7. CASE SendVersion
  <2> DEFINE a == [id |-> nextSession.id, tag |-> NoTag, old |-> NoTag,
                   ok |-> nextSession.ok, kind |-> "version"]
  <2>1. nextSession.id # 0
    BY <1>7 DEF SendVersion, LoopInv
  <2>2. a \in Answer /\ a.kind = "version"
    BY <2>1 DEF TypeOK, Answer, AnyTag
  <2>3. out' = Append(out, a) /\ pc' # "send" /\ inflight' = inflight /\ tickets' = tickets
    BY <1>7 DEF SendVersion
  <2> HIDE DEF a
  <2>4. TicketInv'
    BY <2>3 DEF TicketInv
  <2>5. QED
    BY <2>2, <2>3, <2>4, SendOther
<1>8. CASE TakeSession \/ ClearTable \/ Disconnect
  <2>1. out' = out /\ tickets' = tickets /\ pc' # "send" /\ inflight' \subseteq inflight
    BY <1>8 DEF TakeSession, ClearTable, Disconnect
  <2>2. SameQueue
    BY <2>1 DEF SameQueue
  <2>3. QED
    BY <1>1, <1>2, <2>1, <2>2, SameQueueTickets, SameQueueOrder
<1>9. CASE UNCHANGED vars
  BY <1>2, <1>9 DEF vars, TicketInv, OrderInv
<1>10. QED
  BY <1>3, <1>4, <1>5, <1>6, <1>7, <1>8, <1>9 DEF Next

LEMMA OrderInvariant ==
    Spec => [](TypeOK /\ LoopInv /\ OnceInv /\ TicketInv /\ OrderInv /\ ConflictOrder)
<1>1. Init => TicketInv /\ OrderInv /\ ConflictOrder
  BY DEF Init, TicketInv, OrderInv, ConflictOrder
<1>2. QED
  BY <1>1, InitTypes, StepTypes, InitOnce, StepOnce, StepOrder, PTL DEF Spec

\* Requests that conflict on the fid table are answered, and so took effect,
\* in the order they arrived: the FIFO of the lock is entered in that order,
\* and dispatch keeps its guard to the end.
THEOREM ConflictsInOrder == Spec => []ConflictOrder
BY OrderInvariant, PTL
-----------------------------------------------------------------------------
(* The promise of Rflush.                                                  *)

\* What a step does to inflight, as a client that flushes sees it, when it
\* neither adds nor answers a request: futures are dropped, or polled, or get
\* the Tflush that names their tag.
SameFutures ==
    \A g \in inflight' : \E f \in inflight :
        /\ g.id = f.id /\ g.tag = f.tag /\ g.body = f.body
        /\ g.flush = f.flush \/ g.flush.old = g.tag

\* Such a step keeps what FlushBarrier rests on.
LEMMA SameFuturesFlush ==
    ASSUME OnceInv', FlushInv, SameFutures, pc' # "send", out' = out,
           cur'.flush.id # 0 => cur'.flush = cur.flush
    PROVE  FlushInv'
<1> SUFFICES ASSUME UniqueTags
             PROVE  FlushInv'
  BY DEF FlushInv
<1>1. \A f, g \in inflight' : f.tag = g.tag => f = g
  <2>1. \A f, g \in inflight' : f # g => f.id # g.id
    BY DEF OnceInv, AnsweredOnce
  <2>2. \A f, g \in inflight : f.tag = g.tag => f = g
    BY DEF FlushInv
  <2>3. QED
    BY <2>1, <2>2 DEF SameFutures
<1>2. \A f \in inflight' : f.flush.id # 0 => f.flush.old = f.tag
  <2>1. \A f \in inflight : f.flush.id # 0 => f.flush.old = f.tag
    BY DEF FlushInv
  <2>2. QED
    BY <2>1 DEF SameFutures
<1>3. cur'.flush.id # 0 => \A f \in inflight' : f.tag # cur'.flush.old
  <2>1. cur.flush.id # 0 => \A f \in inflight : f.tag # cur.flush.old
    BY DEF FlushInv
  <2>2. QED
    BY <2>1 DEF SameFutures
<1>4. ASSUME NEW f \in inflight', Kind(f.body) # "flush"
      PROVE  /\ \A h \in inflight' : Kind(h.body) = "flush" /\ h.body.old = f.tag => h.id < f.id
             /\ \A i \in DOMAIN out' : out'[i].kind = "flush" /\ out'[i].old = f.tag => out'[i].id < f.id
  <2>1. PICK f1 \in inflight : f.id = f1.id /\ f.tag = f1.tag /\ f.body = f1.body
    BY DEF SameFutures
  <2>2. /\ \A h \in inflight : Kind(h.body) = "flush" /\ h.body.old = f.tag => h.id < f.id
        /\ \A i \in DOMAIN out : out[i].kind = "flush" /\ out[i].old = f.tag => out[i].id < f.id
    BY <1>4, <2>1 DEF FlushInv
  <2>3. ASSUME NEW h \in inflight', Kind(h.body) = "flush", h.body.old = f.tag
        PROVE  h.id < f.id
    <3>1. PICK h1 \in inflight : h.id = h1.id /\ h.body = h1.body
      BY DEF SameFutures
    <3>2. QED
      BY <2>2, <2>3, <3>1
  <2>4. QED
    BY <2>2, <2>3
<1>5. QED
  BY <1>1, <1>2, <1>3, <1>4 DEF FlushInv

\* A new future is later than every Tflush of its tag, and a Tflush becomes a
\* future only when it finds none of the tag it names.
LEMMA PushFlush ==
    ASSUME TypeOK, LoopInv, OnceInv, FlushInv, CanRecv,
           NEW tag, NEW body, Fresh(tag), Push(tag, body),
           Kind(body) = "flush" => \A f \in inflight : f.tag # body.old,
           UNCHANGED <<pc, cur, out>>
    PROVE  FlushInv'
<1> SUFFICES ASSUME UniqueTags
             PROVE  FlushInv'
  BY DEF FlushInv
<1> DEFINE n == [id |-> recvd + 1, tag |-> tag, body |-> body, flush |-> NoFlush, ticket |-> 0]
<1>1. /\ inflight' = inflight \cup {n} /\ n.id = recvd + 1 /\ n.flush.id = 0
      /\ n.tag = tag /\ n.body = body
  BY DEF Push, NoFlush
<1> HIDE DEF n
<1>2. \A f \in inflight : f.tag # tag
  BY DEF Fresh, TagsInUse
<1>3. recvd \in Nat
  BY DEF TypeOK
<1>4. \A f \in inflight : f.id \in 1..recvd
  BY DEF OnceInv, IdInv, Waiting, InFlightIds
<1>5. \A i \in DOMAIN out : out[i].id \in 1..recvd
  BY DEF OnceInv, IdInv, OutIds
<1>6. pc = "select" /\ cur.flush.id = 0
  BY DEF CanRecv, LoopInv
<1>7. \A f, g \in inflight' : f.tag = g.tag => f = g
  <2>1. \A f, g \in inflight : f.tag = g.tag => f = g
    BY DEF FlushInv
  <2>2. QED
    BY <1>1, <1>2, <2>1
<1>8. \A f \in inflight' : f.flush.id # 0 => f.flush.old = f.tag
  <2>1. \A f \in inflight : f.flush.id # 0 => f.flush.old = f.tag
    BY DEF FlushInv
  <2>2. QED
    BY <1>1, <2>1
<1>9. ASSUME NEW f \in inflight', Kind(f.body) # "flush"
      PROVE  /\ \A h \in inflight' : Kind(h.body) = "flush" /\ h.body.old = f.tag => h.id < f.id
             /\ \A i \in DOMAIN out' : out'[i].kind = "flush" /\ out'[i].old = f.tag => out'[i].id < f.id
  <2>1. CASE f = n
    <3>1. \A i \in DOMAIN out' : out'[i].id < f.id
      BY <1>1, <1>3, <1>5, <2>1
    <3>2. \A h \in inflight : h.id < f.id
      BY <1>1, <1>3, <1>4, <2>1
    <3>3. QED
      BY <1>1, <1>9, <2>1, <3>1, <3>2
  <2>2. CASE f \in inflight
    <3>1. /\ \A h \in inflight : Kind(h.body) = "flush" /\ h.body.old = f.tag => h.id < f.id
          /\ \A i \in DOMAIN out : out[i].kind = "flush" /\ out[i].old = f.tag => out[i].id < f.id
      BY <1>9, <2>2 DEF FlushInv
    <3>2. ~(Kind(n.body) = "flush" /\ n.body.old = f.tag)
      BY <1>1, <2>2
    <3>3. QED
      BY <1>1, <3>1, <3>2
  <2>3. QED
    BY <1>1, <2>1, <2>2
<1>10. QED
  BY <1>6, <1>7, <1>8, <1>9 DEF FlushInv

\* A Tflush that finds no future of the tag it names.
LEMMA FlushedNone ==
    ASSUME TypeOK, FlushInv, UniqueTags, NEW oldtag, Flushed(oldtag) = {}
    PROVE  \A f \in inflight : f.tag # oldtag
<1>1. SUFFICES ASSUME NEW f \in inflight, f.tag = oldtag
               PROVE  FALSE
  OBVIOUS
<1>2. f.id \in Nat
  BY DEF TypeOK, Future
<1>3. \A g \in inflight : g.tag = oldtag => g = f
  BY <1>1 DEF FlushInv
<1>4. f \in Flushed(oldtag)
  BY <1>1, <1>2, <1>3 DEF Flushed
<1>5. QED
  BY <1>4

\* A datagram, whatever it is.
LEMMA ReceiveFlush ==
    ASSUME TypeOK, LoopInv, OnceInv, OnceInv', FlushInv, Receive
    PROVE  FlushInv'
<1> USE ConstAssumption
<1>1. CanRecv /\ pc' = "select" /\ UNCHANGED <<pc, cur, out>>
  BY DEF Receive, RecvIgnored, RecvTversion, RecvTflush, RecvRequest, CanRecv
<1>2. Kind(ReadyError) # "flush" /\ \A b \in Requests : Kind(b) # "flush"
  BY DEF Kind, ReadyError, Req
<1>3. inflight' = inflight => FlushInv'
  BY <1>1, SameFuturesFlush DEF SameFutures
<1>4. ASSUME NEW tag \in AnyTag, NEW ok \in BOOLEAN, RecvTversion(tag, ok)
      PROVE  FlushInv'
  <2>1. Fresh(tag) /\ (Push(tag, ReadyError) \/ inflight' = inflight)
    BY <1>4 DEF RecvTversion
  <2>2. QED
    BY <1>1, <1>2, <1>3, <2>1, PushFlush
<1>5. ASSUME NEW tag \in AnyTag, NEW oldtag \in AnyTag, RecvTflush(tag, oldtag)
      PROVE  FlushInv'
  <2> SUFFICES ASSUME UniqueTags
               PROVE  FlushInv'
    BY DEF FlushInv
  <2>1. CASE Flushed(oldtag) = {}
    <3>1. Push(tag, ReadyFlush(oldtag)) /\ Fresh(tag)
      BY <1>5, <2>1 DEF RecvTflush
    <3>2. \A f \in inflight : f.tag # ReadyFlush(oldtag).old
      BY <2>1, FlushedNone DEF ReadyFlush
    <3>3. QED
      BY <1>1, <3>1, <3>2, PushFlush
  <2>2. CASE Flushed(oldtag) # {}
    <3> DEFINE new(f) ==
                 [f EXCEPT !.flush = [id |-> recvd + 1, tag |-> tag, old |-> oldtag]]
    <3>1. PICK f \in Flushed(oldtag) : inflight' = (inflight \ {f}) \cup {new(f)}
      BY <1>5, <2>2 DEF RecvTflush
    <3>2. f \in inflight /\ f.tag = oldtag /\ f \in Future
      BY DEF Flushed, TypeOK
    <3>3. /\ new(f).id = f.id /\ new(f).body = f.body /\ new(f).tag = f.tag
          /\ new(f).flush.old = f.tag
      BY <3>2 DEF Future
    <3> HIDE DEF new
    <3>4. SameFutures
      BY <3>1, <3>2, <3>3 DEF SameFutures
    <3>5. QED
      BY <1>1, <3>4, SameFuturesFlush
  <2>3. QED
    BY <2>1, <2>2
<1>6. ASSUME NEW tag \in AnyTag, NEW b \in Requests \cup {ReadyError}, RecvRequest(tag, b)
      PROVE  FlushInv'
  <2>1. Fresh(tag) /\ Push(tag, b)
    BY <1>6 DEF RecvRequest
  <2>2. QED
    BY <1>1, <1>2, <2>1, PushFlush
<1>7. QED
  BY <1>3, <1>4, <1>5, <1>6 DEF Receive, RecvIgnored
\* A future that completes takes the Tflush attached to it along, and no other
\* future has its tag.
LEMMA CompleteFlush ==
    ASSUME TypeOK, FlushInv, NEW f \in inflight, NEW ok \in BOOLEAN, CompletesWith(f, ok)
    PROVE  FlushInv'
<1> SUFFICES ASSUME UniqueTags
             PROVE  FlushInv'
  BY DEF FlushInv
<1>1. /\ inflight' = inflight \ {f} /\ out' = out /\ pc' = "send"
      /\ cur'.ans.id = f.id /\ cur'.ans.kind = Kind(f.body) /\ cur'.flush = f.flush
  BY CompleteTypes DEF CompletesWith, Complete
<1>2. cur'.ans.tag = f.tag /\ cur'.ans.old = f.body.old
  BY DEF CompletesWith, Complete
<1>3. \A g, h \in inflight : g.tag = h.tag => g = h
  BY DEF FlushInv
<1>4. \A g \in inflight : g.flush.id # 0 => g.flush.old = g.tag
  BY DEF FlushInv
<1>5. ASSUME NEW g \in inflight, Kind(g.body) # "flush"
      PROVE  /\ \A h \in inflight : Kind(h.body) = "flush" /\ h.body.old = g.tag => h.id < g.id
             /\ \A i \in DOMAIN out : out[i].kind = "flush" /\ out[i].old = g.tag => out[i].id < g.id
  BY <1>5 DEF FlushInv
<1>6. cur'.flush.id # 0 => \A g \in inflight' : g.tag # cur'.flush.old
  BY <1>1, <1>3, <1>4
<1>7. ASSUME NEW g \in inflight', Kind(g.body) # "flush"
      PROVE  /\ \A h \in inflight' : Kind(h.body) = "flush" /\ h.body.old = g.tag => h.id < g.id
             /\ \A i \in DOMAIN out' : out'[i].kind = "flush" /\ out'[i].old = g.tag => out'[i].id < g.id
             /\ cur'.ans.kind = "flush" /\ cur'.ans.old = g.tag => cur'.ans.id < g.id
  BY <1>1, <1>2, <1>5, <1>7
<1>8. cur'.ans.kind # "flush" => \A i \in DOMAIN out' :
         out'[i].kind = "flush" /\ out'[i].old = cur'.ans.tag => out'[i].id < cur'.ans.id
  BY <1>1, <1>2, <1>5
<1>9. QED
  BY <1>1, <1>3, <1>4, <1>6, <1>7, <1>8 DEF FlushInv

\* An answer may follow what was sent if it is later than every Rflush of its
\* tag, and, being an Rflush, if it is earlier than what is in flight under
\* the tag it names.
LEMMA SendKeepsBarrier ==
    ASSUME TypeOK, FlushInv, FlushBarrier, NEW a \in Answer, out' = Append(out, a),
           pc' # "send", inflight' = inflight, cur'.flush.id # 0 => cur'.flush = cur.flush,
           UniqueTags /\ a.kind # "flush" => \A i \in DOMAIN out :
              out[i].kind = "flush" /\ out[i].old = a.tag => out[i].id < a.id,
           UniqueTags /\ a.kind = "flush" => \A f \in inflight :
              Kind(f.body) # "flush" /\ a.old = f.tag => a.id < f.id
    PROVE  FlushInv' /\ FlushBarrier'
<1> SUFFICES ASSUME UniqueTags
             PROVE  FlushInv' /\ FlushBarrier'
  BY DEF FlushInv, FlushBarrier
<1>1. /\ DOMAIN out' = DOMAIN out \cup {Len(out) + 1}
      /\ \A i \in DOMAIN out : out'[i] = out[i]
      /\ out'[Len(out) + 1] = a
      /\ Len(out) \in Nat /\ DOMAIN out = 1..Len(out)
  BY AppendOut
<1>2. ASSUME NEW f \in inflight, Kind(f.body) # "flush"
      PROVE  /\ \A h \in inflight : Kind(h.body) = "flush" /\ h.body.old = f.tag => h.id < f.id
             /\ \A i \in DOMAIN out : out[i].kind = "flush" /\ out[i].old = f.tag => out[i].id < f.id
  BY <1>2 DEF FlushInv
<1>3. ASSUME NEW f \in inflight, Kind(f.body) # "flush", NEW i \in DOMAIN out',
             out'[i].kind = "flush", out'[i].old = f.tag
      PROVE  out'[i].id < f.id
  <2>1. CASE i \in DOMAIN out
    BY <1>1, <1>2, <1>3, <2>1
  <2>2. CASE i = Len(out) + 1
    BY <1>1, <1>3, <2>2
  <2>3. QED
    BY <1>1, <2>1, <2>2
<1>4. /\ \A f, g \in inflight : f.tag = g.tag => f = g
      /\ \A f \in inflight : f.flush.id # 0 => f.flush.old = f.tag
      /\ cur.flush.id # 0 => \A f \in inflight : f.tag # cur.flush.old
  BY DEF FlushInv
<1>5. FlushInv'
  BY <1>2, <1>3, <1>4 DEF FlushInv
<1>6. ASSUME NEW i \in DOMAIN out', NEW j \in DOMAIN out', i < j, out'[i].kind = "flush",
             out'[j].kind # "flush", out'[j].tag = out'[i].old
      PROVE  out'[j].id > out'[i].id
  <2>1. i \in DOMAIN out
    BY <1>1, <1>6
  <2>2. CASE j \in DOMAIN out
    BY <1>1, <1>6, <2>1, <2>2 DEF FlushBarrier
  <2>3. CASE j = Len(out) + 1
    <3>1. out[i].id < a.id
      BY <1>1, <1>6, <2>1, <2>3
    <3>2. out[i].id \in Nat /\ a.id \in Nat
      <4>1. out \in Seq(Answer)
        BY DEF TypeOK
      <4>2. out[i] \in Answer
        BY <2>1, <4>1
      <4>3. QED
        BY <4>2 DEF Answer
    <3>3. QED
      BY <1>1, <2>1, <2>3, <3>1, <3>2
  <2>4. QED
    BY <1>1, <2>2, <2>3
<1>7. FlushBarrier'
  BY <1>6 DEF FlushBarrier
<1>8. QED
  BY <1>5, <1>7

\* Every step keeps the promise.
LEMMA StepFlush ==
    ASSUME TypeOK, LoopInv, OnceInv, FlushInv, FlushBarrier, [Next]_vars
    PROVE  FlushInv' /\ FlushBarrier'
<1> USE ConstAssumption
<1>1. TypeOK' /\ LoopInv' /\ OnceInv'
  BY StepTypes, StepOnce
<1>2. out' = out => FlushBarrier'
  BY DEF FlushBarrier
<1>3. CASE Receive
  <2>1. out' = out
    BY <1>3, ReceiveQueue
  <2>2. QED
    BY <1>1, <1>2, <1>3, <2>1, ReceiveFlush
<1>4. ASSUME NEW f \in inflight, PollDispatch(f)
      PROVE  FlushInv' /\ FlushBarrier'
  <2> DEFINE n == [f EXCEPT !.ticket = tickets + 1]
  <2>1. inflight' = (inflight \ {f}) \cup {n} /\ UNCHANGED <<pc, cur, out>> /\ pc = "select"
    BY <1>4 DEF PollDispatch, FirstPoll
  <2>2. n.id = f.id /\ n.tag = f.tag /\ n.body = f.body /\ n.flush = f.flush
    BY DEF TypeOK, Future
  <2> HIDE DEF n
  <2>3. SameFutures
    BY <2>1, <2>2 DEF SameFutures
  <2>4. QED
    BY <1>1, <1>2, <2>1, <2>3, SameFuturesFlush
<1>5. ASSUME NEW f \in inflight, NEW ok \in BOOLEAN, CompletesWith(f, ok)
      PROVE  FlushInv' /\ FlushBarrier'
  <2>1. out' = out
    BY <1>5 DEF CompletesWith, Complete
  <2>2. QED
    BY <1>2, <1>5, <2>1, CompleteFlush
<1>6. CASE SendAnswer
  <2>1. /\ pc = "send" /\ pc' # "send" /\ inflight' = inflight
        /\ cur.ans \in Answer /\ out' = Append(out, cur.ans)
    BY <1>6 DEF SendAnswer, TypeOK, LoopInv, NoAnswer
  <2>2. cur'.flush = cur.flush
    BY <1>6 DEF SendAnswer, TypeOK
  <2>3. UniqueTags /\ cur.ans.kind # "flush" => \A i \in DOMAIN out :
           out[i].kind = "flush" /\ out[i].old = cur.ans.tag => out[i].id < cur.ans.id
    BY <2>1 DEF FlushInv
  <2>4. UniqueTags /\ cur.ans.kind = "flush" => \A f \in inflight :
           Kind(f.body) # "flush" /\ cur.ans.old = f.tag => cur.ans.id < f.id
    BY <2>1 DEF FlushInv
  <2>5. QED
    BY <2>1, <2>2, <2>3, <2>4, SendKeepsBarrier
<1>7. CASE SendFlush
  <2> DEFINE a == [id |-> cur.flush.id, tag |-> cur.flush.tag,
                   old |-> cur.flush.old, ok |-> TRUE, kind |-> "flush"]
  <2>1. cur.flush \in Flush /\ cur.flush.id # 0
    BY <1>7 DEF SendFlush, TypeOK, LoopInv
  <2>2. a \in Answer /\ a.kind = "flush" /\ a.old = cur.flush.old
    BY <2>1 DEF Flush, Answer
  <2>3. out' = Append(out, a) /\ pc' # "send" /\ inflight' = inflight
    BY <1>7 DEF SendFlush
  <2>4. cur'.flush.id = 0
    BY <1>7 DEF SendFlush, TypeOK, NoFlush
  <2>5. UniqueTags => \A f \in inflight : f.tag # cur.flush.old
    BY <2>1 DEF FlushInv
  <2> HIDE DEF a
  <2>6. QED
    BY <2>2, <2>3, <2>4, <2>5, SendKeepsBarrier
<1>8. CASE SendVersion
  <2> DEFINE a == [id |-> nextSession.id, tag |-> NoTag, old |-> NoTag,
                   ok |-> nextSession.ok, kind |-> "version"]
  <2>1. nextSession.id # 0 /\ nextSession.id = recvd
    BY <1>8 DEF SendVersion, LoopInv
  <2>2. a \in Answer /\ a.kind = "version" /\ a.id = recvd
    BY <2>1 DEF TypeOK, Answer, AnyTag
  <2>3. out' = Append(out, a) /\ pc' # "send" /\ inflight' = inflight /\ cur' = cur
    BY <1>8 DEF SendVersion
  <2> HIDE DEF a
  <2>4. recvd \in SessionIds /\ recvd \in Nat
    BY <2>1 DEF SessionIds, TypeOK
  <2>5. OutIds \subseteq 1..recvd /\ recvd \notin OutIds
    BY <2>4 DEF OnceInv, IdInv, AnsweredOnce, Waiting
  <2>6. \A i \in DOMAIN out : out[i].id < a.id
    BY <2>2, <2>4, <2>5 DEF OutIds
  <2>7. QED
    BY <2>2, <2>3, <2>6, SendKeepsBarrier
<1>9. CASE TakeSession \/ ClearTable \/ Disconnect
  <2>1. out' = out /\ pc' # "send" /\ inflight' \subseteq inflight
    BY <1>9 DEF TakeSession, ClearTable, Disconnect
  <2>2. cur'.flush.id # 0 => cur'.flush = cur.flush
    BY <1>9 DEF TakeSession, ClearTable, Disconnect, NoFlush
  <2>3. SameFutures
    BY <2>1 DEF SameFutures
  <2>4. QED
    BY <1>1, <1>2, <2>1, <2>2, <2>3, SameFuturesFlush
<1>10. CASE UNCHANGED vars
  BY <1>2, <1>10 DEF vars, FlushInv
<1>11. QED
  BY <1>3, <1>4, <1>5, <1>6, <1>7, <1>8, <1>9, <1>10, PollCases DEF Next

\* A client that does not use a tag twice and that got the Rflush of a tag may
\* use the tag again: handle_client sends no answer of an earlier request under
\* that tag after the Rflush, whether the Tflush was attached to the future of
\* the request, took the place of another one, or found nothing to wait for.
THEOREM FlushIsBarrier == Spec => []FlushBarrier
<1>1. Init => FlushInv /\ FlushBarrier
  BY DEF Init, FlushInv, FlushBarrier, NoFlush
<1>2. Spec => [](TypeOK /\ LoopInv /\ OnceInv /\ FlushInv /\ FlushBarrier)
  BY <1>1, InitTypes, StepTypes, InitOnce, StepOnce, StepFlush, PTL DEF Spec
<1>3. QED
  BY <1>2, PTL
-----------------------------------------------------------------------------
(* The fid table.                                                          *)

\* A future that has the lock for itself is the oldest in flight.
LEMMA ExclusiveIsOldest ==
    ASSUME TypeOK, TicketInv, NEW f \in inflight, Holds(f), f.body.type \in WriteType
    PROVE  \A h \in inflight \ {f} : f.id < h.id
<1>1. SUFFICES ASSUME NEW h \in inflight, h # f
               PROVE  f.id < h.id
  OBVIOUS
<1>2. f.ticket \in Nat /\ h.ticket \in Nat /\ f.ticket # 0
  BY DEF TypeOK, Future, Holds
<1>3. f.body.type \notin ReadType
  BY DEF WriteType, ReadType
<1>4. h.ticket \notin 1..(f.ticket - 1)
  BY <1>3 DEF Holds
<1>5. h.ticket # f.ticket
  BY <1>1, <1>2 DEF TicketInv
<1>6. h.ticket = 0 \/ f.ticket < h.ticket
  BY <1>2, <1>4, <1>5
<1>7. QED
  BY <1>1, <1>2, <1>6 DEF TicketInv

\* A dispatch future binds a fid that is free, opens one that is a path, or
\* gives one up, with the table's lock for itself.
LEMMA PollKeepsFids ==
    ASSUME TypeOK, TicketInv, NEW f \in inflight, Poll(f)
    PROVE  FidStep
<1>1. f.body.fid \in AnyFid /\ f.body.fid2 \in AnyFid
  BY DEF TypeOK, Future, Body
<1>2. resources \in [AnyFid -> Resource]
  BY DEF TypeOK
<1>3. UNCHANGED resources => FidStep
  BY DEF FidStep
<1>4. ASSUME NEW ok, Complete(f, ok), Holds(f), f.body.type \in WriteType,
             NEW fid \in AnyFid, ChangesFid(f, fid),
             \A g \in AnyFid : g # fid => resources'[g] = resources[g]
      PROVE  FidStep
  <2>1. f \notin inflight'
    BY <1>4 DEF Complete
  <2>2. OldestOf(f, fid)
    BY <1>4, <2>1, ExclusiveIsOldest DEF OldestOf
  <2>3. QED
    BY <1>4, <2>2 DEF FidStep
<1>5. \A fid \in AnyFid : \A kind, obj : Bind(fid, kind, obj) =>
          /\ resources'[fid] = [kind |-> kind, obj |-> obj]
          /\ \A g \in AnyFid : g # fid => resources'[g] = resources[g]
  BY <1>2 DEF Bind
<1>6. \A fid \in AnyFid : Unbind(fid) =>
          /\ resources'[fid] = NoResource
          /\ \A g \in AnyFid : g # fid => resources'[g] = resources[g]
  BY <1>2 DEF Unbind
<1>7. CASE PollReady(f) \/ PollDispatch(f) \/ FinishReadWrite(f) \/ FinishStat(f)
  BY <1>3, <1>7 DEF PollReady, PollDispatch, FinishReadWrite, FinishStat
<1>8. CASE FinishAuth(f) \/ FinishAttach(f)
  <2>1. Holds(f) /\ f.body.type \in {"Tauth", "Tattach"} /\ f.body.type \in WriteType
    BY <1>8 DEF FinishAuth, FinishAttach, Running, WriteType
  <2>2. CASE Fails(f)
    BY <1>3, <2>2 DEF Fails
  <2>3. ASSUME NEW kind, ~Bound(f.body.fid), Bind(f.body.fid, kind, f.id), Complete(f, TRUE)
        PROVE  FidStep
    <3>1. resources'[f.body.fid].obj = f.id
      BY <1>1, <1>2, <2>3 DEF Bind
    <3>2. ChangesFid(f, f.body.fid)
      BY <2>1, <2>3, <3>1 DEF ChangesFid
    <3>3. \A g \in AnyFid : g # f.body.fid => resources'[g] = resources[g]
      BY <1>1, <1>5, <2>3
    <3>4. QED
      BY <1>1, <1>4, <2>1, <2>3, <3>2, <3>3
  <2>4. QED
    BY <1>8, <2>2, <2>3 DEF FinishAuth, FinishAttach
<1>9. CASE FinishWalk(f)
  <2>1. Holds(f) /\ f.body.type = "Twalk" /\ f.body.type \in WriteType
    BY <1>9 DEF FinishWalk, Running, WriteType
  <2>2. CASE UNCHANGED resources
    BY <1>3, <2>2
  <2>3. CASE ~Bound(f.body.fid2) /\ Bind(f.body.fid2, "path", f.id) /\ Complete(f, TRUE)
    <3>1. resources'[f.body.fid2].obj = f.id
      BY <1>1, <1>2, <2>3 DEF Bind
    <3>2. ChangesFid(f, f.body.fid2)
      BY <2>1, <2>3, <3>1 DEF ChangesFid
    <3>3. QED
      BY <1>1, <1>4, <1>5, <2>1, <2>3, <3>2
  <2>4. QED
    BY <1>9, <2>2, <2>3 DEF FinishWalk, Fails
<1>10. CASE FinishOpen(f)
  <2>1. Holds(f) /\ f.body.type \in {"Topen", "Tcreate"} /\ f.body.type \in WriteType
    BY <1>10 DEF FinishOpen, Running, WriteType
  <2>2. CASE Fails(f)
    BY <1>3, <2>2 DEF Fails
  <2>3. CASE /\ Bound(f.body.fid) /\ ~IsOpen(f.body.fid)
             /\ Bind(f.body.fid, "open", f.id) /\ Complete(f, TRUE)
    <3>1. resources[f.body.fid].kind = "path"
      BY <1>1, <1>2, <2>3 DEF Bound, IsOpen, Resource
    <3>2. ChangesFid(f, f.body.fid)
      BY <1>1, <1>5, <2>1, <2>3, <3>1 DEF ChangesFid
    <3>3. QED
      BY <1>1, <1>4, <1>5, <2>1, <2>3, <3>2
  <2>4. QED
    BY <1>10, <2>2, <2>3 DEF FinishOpen
<1>11. CASE FinishClunk(f) \/ FinishRemove(f)
  <2>1. Holds(f) /\ f.body.type \in {"Tclunk", "Tremove"} /\ f.body.type \in WriteType
    BY <1>11 DEF FinishClunk, FinishRemove, Running, WriteType
  <2>2. PICK ok : Unbind(f.body.fid) /\ Complete(f, ok)
    BY <1>11 DEF FinishClunk, FinishRemove
  <2>3. ChangesFid(f, f.body.fid)
    BY <1>1, <1>6, <2>1, <2>2 DEF ChangesFid
  <2>4. QED
    BY <1>1, <1>4, <1>6, <2>1, <2>2, <2>3
<1>12. QED
  BY <1>7, <1>8, <1>9, <1>10, <1>11 DEF Poll

\* A fid changes only by a request about it (dispatch): the oldest in flight that
\* names it, when it completes.  Tauth, Tattach and Twalk bind a fid that is free,
\* Topen and Tcreate open the path they found, Tclunk and Tremove release it; only a
\* Tversion with nothing in flight, or the end of the connection, empties the table.
THEOREM FidsKept == Spec => FidKept
<1>1. ASSUME TypeOK, LoopInv, TicketInv, [Next]_vars
      PROVE  FidStep
  <2>1. UNCHANGED resources => FidStep
    BY DEF FidStep
  <2>2. Receive => UNCHANGED resources
    BY DEF Receive, RecvIgnored, RecvTversion, RecvTflush, RecvRequest
  <2>3. SendAnswer \/ SendFlush \/ TakeSession \/ SendVersion \/ UNCHANGED vars
          => UNCHANGED resources
    BY DEF SendAnswer, SendFlush, TakeSession, SendVersion, vars
  <2>4. ClearTable => FidStep
    BY <1>1 DEF ClearTable, LoopInv, FidStep
  <2>5. Disconnect => FidStep
    BY DEF Disconnect, FidStep
  <2>6. QED
    BY <1>1, <2>1, <2>2, <2>3, <2>4, <2>5, PollKeepsFids DEF Next
<1>2. QED
  BY <1>1, OrderInvariant, PTL DEF Spec, FidKept
=============================================================================
