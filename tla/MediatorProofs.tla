--------------------------- MODULE MediatorProofs ---------------------------
(***************************************************************************)
(* What the mediator promises, for any names, buckets, calls and streams.  *)
(***************************************************************************)
EXTENDS Mediator, TLAPS

IInv == MediatorAssumption /\ TypeOK /\ TableInv /\ RequestInv /\ RightServer

LEMMA InitInv == MediatorAssumption /\ Init => IInv
  <1> SUFFICES ASSUME MediatorAssumption, Init PROVE IInv
    OBVIOUS
  <1>0. /\ streams = [s \in Stream |-> [pc |-> "new", queue |-> <<>>, ctr |-> 1, inflight |-> <<>>]]
        /\ server = [s \in Stream |-> [asked |-> <<>>, says |-> <<>>]]
    BY DEF Init
  <1>1. StreamTypes
    <2>1. <<>> \in Seq(Call) /\ Len(<<>>) = 0 /\ DOMAIN <<>> = {} /\ <<>> \in [DOMAIN <<>> -> Call]
      OBVIOUS
    <2>2. \A s \in Stream : streams[s] = [pc |-> "new", queue |-> <<>>, ctr |-> 1, inflight |-> <<>>]
      BY <1>0
    <2>3. \A s \in Stream : streams[s].pc = "new" /\ streams[s].queue = <<>> /\ streams[s].ctr = 1
                              /\ streams[s].inflight = <<>>
      BY <2>2
    <2>4. streams = [s \in Stream |-> [pc |-> streams[s].pc, queue |-> streams[s].queue,
                                       ctr |-> streams[s].ctr, inflight |-> streams[s].inflight]]
      BY <1>0, <2>3
    <2> DEFINE e == <<>>
    <2>5. e \in Seq(Call) /\ Len(e) <= 1 /\ DOMAIN e \subseteq 1..0 /\ e \in [DOMAIN e -> Call]
      BY <2>1
    <2>6. \A s \in Stream : streams[s].pc = "new" /\ streams[s].queue = e /\ streams[s].ctr = 1
                              /\ streams[s].inflight = e
      BY <2>3
    <2> HIDE DEF e
    <2>7. 1 - 1 = 0 /\ 1 \in Nat \ {0}
      OBVIOUS
    <2>8. \A s \in Stream : DOMAIN streams[s].inflight \subseteq 1..(streams[s].ctr - 1) /\ streams[s].ctr \in Nat \ {0}
      BY <2>5, <2>6, <2>7
    <2>9. \A s \in Stream : streams[s].inflight \in [DOMAIN streams[s].inflight -> Call]
      BY <2>5, <2>6
    <2> QED BY <2>4, <2>5, <2>6, <2>8, <2>9 DEF StreamTypes
  <1>2. server \in [Stream -> [asked : Seq([id : Nat, call : Call]), says : Seq([id : Nat, yes : BOOLEAN])]]
    BY <1>0
  <1>3. calls \in [Call -> CallState]
    BY DEF Init, CallState
  <1>4. TypeOK
    BY <1>1, <1>2, <1>3 DEF Init, TypeOK
  <1>5. TableInv
    BY <1>0 DEF Init, TableInv, Live
  <1>6. RequestInv
    BY <1>0 DEF RequestInv, RequestsOf
  <1>7. RightServer
    <2>1. \A s \in Stream : Ok(s) # None
      BY DEF Ok, Outcome, MediatorAssumption
    <2> QED BY <2>1 DEF Init, RightServer
  <1> QED BY <1>4, <1>5, <1>6, <1>7 DEF IInv
LEMMA Steps ==
    ASSUME [Next]_vars, NEW P,
           \A c \in Call : Begin(c) => P,
           \A c \in Call : Get(c) => P,
           \A c \in Call : Send(c) => P,
           \A c \in Call : Finish(c) => P,
           \A c \in Call : Drop(c) => P,
           \A s \in Stream : Register(s) => P,
           \A s \in Stream : Recv(s) => P,
           \A s \in Stream : Yield(s) => P,
           \A s \in Stream : Message(s) => P,
           \A s \in Stream : Close(s) => P,
           \A s \in Stream : Answer(s) => P,
           UNCHANGED vars => P
    PROVE  P
  BY DEF Next, Rendezvous, StreamStep

Shape(r) == [pc |-> r.pc, queue |-> r.queue, ctr |-> r.ctr, inflight |-> r.inflight]
StreamRecord(r) ==
    /\ r = Shape(r)
    /\ r.pc \in {"new", "refused", "loop", "yield", "ended"}
    /\ r.queue \in Seq(Call) /\ Len(r.queue) <= 1
    /\ r.ctr \in Nat \ {0}
    /\ DOMAIN r.inflight \subseteq 1..(r.ctr - 1)
    /\ r.inflight \in [DOMAIN r.inflight -> Call]

LEMMA StreamTypesDef ==
    StreamTypes <=> streams = [s \in Stream |-> streams[s]] /\ \A s \in Stream : StreamRecord(streams[s])
  <1>1. ASSUME StreamTypes PROVE streams = [s \in Stream |-> streams[s]] /\ \A s \in Stream : StreamRecord(streams[s])
    <2>1. streams = [s \in Stream |-> Shape(streams[s])]
      BY <1>1 DEF StreamTypes, Shape
    <2>2. streams = [s \in Stream |-> streams[s]] /\ \A s \in Stream : streams[s] = Shape(streams[s])
      BY <2>1
    <2> QED BY <1>1, <2>2 DEF StreamTypes, StreamRecord
  <1>2. ASSUME streams = [s \in Stream |-> streams[s]], \A s \in Stream : StreamRecord(streams[s]) PROVE StreamTypes
    <2>1. streams = [s \in Stream |-> Shape(streams[s])]
      BY <1>2 DEF StreamRecord
    <2> QED BY <1>2, <2>1 DEF StreamTypes, StreamRecord, Shape
  <1> QED BY <1>1, <1>2

\* A step of one stream leaves the others as they are.
LEMMA StreamUpdate ==
    ASSUME StreamTypes, NEW s \in Stream, NEW r, StreamRecord(r), streams' = [streams EXCEPT ![s] = r]
    PROVE  /\ StreamTypes'
           /\ streams'[s] = r
           /\ \A x \in Stream : x # s => streams'[x] = streams[x]
  <1>1. streams = [x \in Stream |-> streams[x]] /\ \A x \in Stream : StreamRecord(streams[x])
    BY StreamTypesDef
  <1>2. streams'[s] = r /\ \A x \in Stream : x # s => streams'[x] = streams[x]
    BY <1>1
  <1>3. streams' = [x \in Stream |-> streams'[x]] /\ \A x \in Stream : StreamRecord(streams'[x])
    BY <1>1, <1>2
  <1>4. streams' = [x \in Stream |-> Shape(streams'[x])]
    <2>1. \A x \in Stream : streams'[x] = Shape(streams'[x])
      BY ONLY <1>3, Zenon DEF StreamRecord
    <2> QED BY ONLY <1>3, <2>1
  <1>5. StreamTypes'
    BY <1>3, <1>4, Zenon DEF StreamTypes, StreamRecord, Shape
  <1> QED BY <1>2, <1>5

\* What a call may do to the answers: an answer is kept, or is an error.
LEMMA RightKept ==
    ASSUME TypeOK, RightServer, approved \subseteq approved',
           \A c \in Call : \/ calls'[c].reply = calls[c].reply
                           \/ \E why \in {"denied", "unavailable", "broken", "unknown", "invalid", "dropped"} :
                                  calls'[c].reply = Failed(why)
    PROVE  RightServer'
  <1> SUFFICES ASSUME NEW c \in Call, NEW s \in Stream, calls'[c].reply = Ok(s)
               PROVE  <<s, c>> \in approved' /\ Holds[s] = Asks[c]
    BY DEF RightServer
  <1>1. \A why \in {"denied", "unavailable", "broken", "unknown", "invalid", "dropped"} : Ok(s) # Failed(why)
    <2>1. \A why : Ok(s).kind = "found" /\ Failed(why).kind = why
      BY DEF Ok, Failed
    <2> QED BY <2>1
  <1> QED BY <1>1 DEF RightServer

LEMMA TableKept ==
    ASSUME TypeOK, TableInv, mappings' = mappings,
           \A s \in Stream : Live(s)' => Live(s),
           \A c \in Call : calls'[c].pc = "send" => calls[c].pc = "send" \/ mappings[Asks[c]] # None
    PROVE  TableInv'
  BY DEF TableInv

LEMMA EndType ==
    ASSUME TypeOK, NEW c \in Call, NEW o \in Outcome \cup {None}, End(c, o)
    PROVE  /\ calls' \in [Call -> CallState]
           /\ calls'[c].pc = "done" /\ calls'[c].reply = o
           /\ \A d \in Call : d # c => calls'[d] = calls[d]
  <1>1. calls \in [Call -> CallState]
    BY DEF TypeOK
  <1>2. [pc |-> "done", reply |-> o] \in CallState
    BY DEF CallState
  <1> QED BY <1>1, <1>2 DEF End

LEMMA PcType ==
    ASSUME TypeOK, NEW c \in Call, NEW p \in {"new", "get", "send", "wait", "done"},
           calls' = [calls EXCEPT ![c].pc = p]
    PROVE  /\ calls' \in [Call -> CallState]
           /\ calls'[c].pc = p /\ calls'[c].reply = calls[c].reply
           /\ \A d \in Call : d # c => calls'[d] = calls[d]
  <1>1. calls \in [Call -> CallState]
    BY DEF TypeOK
  <1>2. [calls[c] EXCEPT !.pc = p] \in CallState
    BY <1>1 DEF CallState
  <1> QED BY <1>1, <1>2 DEF CallState

LEMMA FailedType == \A why \in {"denied", "unavailable", "broken", "unknown", "invalid", "dropped"} : Failed(why) \in Outcome
  BY DEF Failed, Outcome
\* A step of a call that touches no stream.
LEMMA CallStep ==
    ASSUME IInv, NEW c \in Call, Begin(c) \/ Get(c) \/ Finish(c) \/ Drop(c)
    PROVE  IInv'
  <1> DEFINE Whys == {"denied", "unavailable", "broken", "unknown", "invalid", "dropped"}
  <1>t. TypeOK /\ TableInv /\ RequestInv /\ RightServer
    BY DEF IInv
  <1>c. calls \in [Call -> CallState]
    BY DEF IInv, TypeOK
  <1>l. locked \in [Bucket -> Call \cup {None}]
    BY DEF IInv, TypeOK
  <1>u. UNCHANGED <<mappings, streams, server, approved>>
    BY DEF Begin, Get, Finish, Drop
  <1>1. \/ \E why \in Whys : End(c, Failed(why))
        \/ End(c, calls[c].reply)
        \/ calls' = [calls EXCEPT ![c].pc = "get"]
        \/ calls' = [calls EXCEPT ![c].pc = "send"] /\ mappings[Asks[c]] # None
    BY DEF Begin, Get, Finish, Drop
  <1> DEFINE G == /\ calls' \in [Call -> CallState]
                  /\ calls'[c].pc = "send" => mappings[Asks[c]] # None
                  /\ calls'[c].reply = calls[c].reply \/ \E why \in Whys : calls'[c].reply = Failed(why)
                  /\ \A d \in Call : d # c => calls'[d] = calls[d]
  <1>2. G
    <2>1. ASSUME NEW why \in Whys, End(c, Failed(why)) PROVE G
      <3>1. Failed(why) \in Outcome
        BY FailedType
      <3> QED BY <1>t, <2>1, <3>1, EndType
    <2>2. ASSUME End(c, calls[c].reply) PROVE G
      <3>1. calls[c].reply \in Outcome \cup {None}
        BY <1>c DEF CallState
      <3> QED BY <1>t, <2>2, <3>1, EndType
    <2>3. ASSUME calls' = [calls EXCEPT ![c].pc = "get"] PROVE G
      BY <1>t, <2>3, PcType
    <2>4. ASSUME calls' = [calls EXCEPT ![c].pc = "send"], mappings[Asks[c]] # None PROVE G
      BY <1>t, <2>4, PcType
    <2> HIDE DEF G
    <2> QED BY <1>1, <2>1, <2>2, <2>3, <2>4
  <1>3. locked' \in [Bucket -> Call \cup {None}]
    <2>1. CASE Drop(c)
      BY <2>1, <1>l DEF Drop
    <2>2. CASE Begin(c) \/ Get(c) \/ Finish(c)
      <3>1. locked' = locked \/ \E by \in {c, None} : locked' = [locked EXCEPT ![BucketOf[Asks[c]]] = by]
        BY <2>2 DEF Begin, Get, Finish, Lock
      <3> QED BY <1>l, <3>1
    <2> QED BY <2>1, <2>2
  <1>4. TypeOK'
    <2>1. StreamTypes'
      BY SMTT(30), <1>t, <1>u DEF TypeOK, StreamTypes
    <2> QED BY <1>t, <1>u, <1>2, <1>3, <2>1 DEF TypeOK
  <1>5. TableInv'
    <2>1. \A s \in Stream : Live(s)' => Live(s)
      BY SMTT(30), <1>u DEF Live
    <2> QED BY <1>t, <1>u, <1>2, <2>1, TableKept
  <1>6. RequestInv'
    BY <1>t, <1>u DEF RequestInv, RequestsOf
  <1>7. RightServer'
    BY <1>t, <1>u, <1>2, RightKept
  <1> QED BY <1>4, <1>5, <1>6, <1>7 DEF IInv

LEMMA SendStep ==
    ASSUME IInv, NEW c \in Call, Send(c)
    PROVE  IInv'
  <1> DEFINE s == mappings[Asks[c]]
  <1>t. TypeOK /\ TableInv /\ RequestInv /\ RightServer /\ StreamTypes
    BY DEF IInv, TypeOK
  <1>u. UNCHANGED <<mappings, server, approved>>
    BY DEF Send
  <1>s. s \in Stream /\ Holds[s] = Asks[c]
    <2>1. Asks[c] \in Name /\ calls[c].pc = "send"
      BY DEF IInv, MediatorAssumption, Send
    <2>2. s # None /\ mappings \in [Name -> Stream \cup {None}]
      BY <2>1, <1>t DEF TableInv, TypeOK
    <2> QED BY <1>t, <2>1, <2>2 DEF TableInv
  <1>l. locked \in [Bucket -> Call \cup {None}]
    BY <1>t DEF TypeOK
  <1> HIDE DEF s
  <1>1. ASSUME Live(s), streams[s].queue = <<>>,
               streams' = [streams EXCEPT ![s].queue = <<c>>],
               calls' = [calls EXCEPT ![c].pc = "wait"],
               locked' = locked
        PROVE  IInv'
    <2> DEFINE r == streams[s]  n == [r EXCEPT !.queue = <<c>>]
    <2>1. StreamRecord(r)
      BY <1>s, <1>t, StreamTypesDef
    <2>2. n = [pc |-> r.pc, queue |-> <<c>>, ctr |-> r.ctr, inflight |-> r.inflight]
      BY <2>1 DEF StreamRecord, Shape
    <2>3. n.pc = r.pc /\ n.queue = <<c>> /\ n.ctr = r.ctr /\ n.inflight = r.inflight /\ n = Shape(n)
      BY <2>2 DEF Shape
    <2>4. streams' = [streams EXCEPT ![s] = n] /\ r = streams[s]
      BY <1>1
    <2>a. <<c>> \in Seq(Call) /\ Len(<<c>>) <= 1
      OBVIOUS
    <2> HIDE DEF r, n
    <2>b. StreamRecord(n)
      BY <2>1, <2>3, <2>a DEF StreamRecord
    <2>5. StreamTypes' /\ streams'[s] = n /\ \A x \in Stream : x # s => streams'[x] = streams[x]
      BY <1>s, <1>t, <2>4, <2>b, StreamUpdate
    <2>6. /\ calls' \in [Call -> CallState]
          /\ calls'[c].pc = "wait" /\ calls'[c].reply = calls[c].reply
          /\ \A d \in Call : d # c => calls'[d] = calls[d]
      BY <1>1, <1>t, PcType
    <2>7. TypeOK'
      BY <1>t, <1>u, <1>1, <2>5, <2>6 DEF TypeOK
    <2>8. TableInv'
      <3>1. \A x \in Stream : Live(x)' => Live(x)
        BY <2>3, <2>4, <2>5 DEF Live
      <3> QED BY <1>t, <1>u, <2>6, <3>1, TableKept
    <2>9. RequestInv'
      <3>1. \A x \in Stream : /\ streams'[x].pc = streams[x].pc /\ streams'[x].ctr = streams[x].ctr
                              /\ streams'[x].inflight = streams[x].inflight
        BY <2>3, <2>4, <2>5
      <3>2. \A x \in Stream : \A i \in DOMAIN streams'[x].queue : Asks[streams'[x].queue[i]] = Holds[x]
        BY SMTT(30), <1>s, <1>t, <2>3, <2>5 DEF RequestInv, RequestsOf
      <3>3. ASSUME NEW x \in Stream PROVE RequestsOf(x)'
        <4>1. RequestsOf(x) /\ server' = server /\ approved' = approved
          BY <1>t, <1>u DEF RequestInv
        <4> QED BY ONLY SMTT(30), <3>1, <3>2, <3>3, <4>1 DEF RequestsOf
      <3> QED BY ONLY <3>3 DEF RequestInv
    <2>10. RightServer'
      BY <1>t, <1>u, <2>6, RightKept
    <2> QED BY <2>7, <2>8, <2>9, <2>10 DEF IInv
  <1>2. ASSUME End(c, Failed("broken")), Lock(c, None), streams' = streams
        PROVE  IInv'
    <2>1. Failed("broken") \in Outcome
      BY FailedType
    <2>2. /\ calls' \in [Call -> CallState]
          /\ calls'[c].pc = "done" /\ calls'[c].reply = Failed("broken")
          /\ \A d \in Call : d # c => calls'[d] = calls[d]
      BY <1>2, <1>t, <2>1, EndType
    <2>3. locked' \in [Bucket -> Call \cup {None}]
      BY <1>2, <1>l DEF Lock
    <2>4. TypeOK'
      <3>1. StreamTypes'
        BY <1>2, <1>t DEF StreamTypes
      <3> QED BY <1>t, <1>u, <2>2, <2>3, <3>1 DEF TypeOK
    <2>5. TableInv'
      <3>1. \A x \in Stream : Live(x)' => Live(x)
        BY SMTT(30), <1>2 DEF Live
      <3> QED BY <1>t, <1>u, <2>2, <3>1, TableKept
    <2>6. RequestInv'
      BY SMTT(30), <1>2, <1>t, <1>u DEF RequestInv, RequestsOf
    <2>7. RightServer'
      BY SMTT(30), <1>t, <1>u, <2>2, RightKept
    <2> QED BY <2>4, <2>5, <2>6, <2>7 DEF IInv
  <1> QED BY <1>1, <1>2 DEF Send, s
LEMMA RequestsKept ==
    ASSUME NEW x \in Stream, RequestsOf(x), streams'[x] = streams[x], server'[x] = server[x],
           approved \subseteq approved'
    PROVE  RequestsOf(x)'
  BY DEF RequestsOf

\* The calls that remain in flight keep their ids.
LEMMA RetainFacts ==
    ASSUME NEW f, NEW S, S \subseteq DOMAIN f
    PROVE  /\ DOMAIN Restrict(f, S) = S /\ \A x \in S : Restrict(f, S)[x] = f[x]
           /\ DOMAIN Retain(f) \subseteq DOMAIN f /\ \A x \in DOMAIN Retain(f) : Retain(f)[x] = f[x]
           /\ Retain(f) = [x \in DOMAIN Retain(f) |-> Retain(f)[x]]
           /\ DOMAIN Retain(Restrict(f, S)) \subseteq S
           /\ \A x \in DOMAIN Retain(Restrict(f, S)) : Retain(Restrict(f, S))[x] = f[x]
           /\ Retain(Restrict(f, S)) = [x \in DOMAIN Retain(Restrict(f, S)) |-> Retain(Restrict(f, S))[x]]
  BY DEF Retain, Restrict

LEMMA ElementType == ASSUME NEW X, NEW q \in Seq(X) PROVE \A i \in DOMAIN q : q[i] \in X
  OBVIOUS

LEMMA ServerTypes ==
    ASSUME TypeOK, NEW s \in Stream
    PROVE  /\ server[s].asked \in Seq([id : Nat, call : Call])
           /\ server[s].says \in Seq([id : Nat, yes : BOOLEAN])
           /\ \A i \in DOMAIN server[s].asked : server[s].asked[i].id \in Nat /\ server[s].asked[i].call \in Call
           /\ \A i \in DOMAIN server[s].says : server[s].says[i].id \in Nat /\ server[s].says[i].yes \in BOOLEAN
  <1> DEFINE Q == [id : Nat, call : Call]  A == [id : Nat, yes : BOOLEAN]
             q == server[s].asked  a == server[s].says
  <1>1. q \in Seq(Q) /\ a \in Seq(A)
    BY DEF TypeOK
  <1>2. (\A x \in Q : x.id \in Nat /\ x.call \in Call) /\ (\A x \in A : x.id \in Nat /\ x.yes \in BOOLEAN)
    OBVIOUS
  <1> HIDE DEF Q, A, q, a
  <1>3. (\A i \in DOMAIN q : q[i] \in Q) /\ (\A i \in DOMAIN a : a[i] \in A)
    BY <1>1, ElementType
  <1>4. /\ \A i \in DOMAIN q : q[i].id \in Nat /\ q[i].call \in Call
        /\ \A i \in DOMAIN a : a[i].id \in Nat /\ a[i].yes \in BOOLEAN
    BY <1>2, <1>3
  <1> QED BY <1>1, <1>4 DEF Q, A, q, a

\* Every field of a stream, after an assignment to each of them.
LEMMA RecordUpdate ==
    ASSUME NEW p, NEW q, NEW k, NEW f
    PROVE  LET r == [pc |-> p, queue |-> q, ctr |-> k, inflight |-> f] IN
           r.pc = p /\ r.queue = q /\ r.ctr = k /\ r.inflight = f /\ r = Shape(r)
  BY DEF Shape

LEMMA RegisterStep ==
    ASSUME IInv, NEW s \in Stream, Register(s)
    PROVE  IInv'
  <1> DEFINE n == Holds[s]  old == streams[s]
             taken == mappings[n] # None /\ Live(mappings[n])
             r == [old EXCEPT !.pc = IF taken THEN "refused" ELSE "loop"]
  <1>t. TypeOK /\ TableInv /\ RequestInv /\ RightServer /\ StreamTypes /\ n \in Name /\ s # None
    BY DEF IInv, MediatorAssumption, TypeOK
  <1>u. UNCHANGED <<locked, calls, server, approved>>
    BY DEF Register
  <1>0. StreamRecord(old)
    BY <1>t, StreamTypesDef
  <1>1. /\ r.pc = IF taken THEN "refused" ELSE "loop"
        /\ r.queue = old.queue /\ r.ctr = old.ctr /\ r.inflight = old.inflight /\ r = Shape(r)
    BY <1>0 DEF StreamRecord, Shape
  <1>2. streams' = [streams EXCEPT ![s] = r] /\ old = streams[s] /\ old.pc = "new"
    BY DEF Register
  <1>3. mappings' = IF taken THEN mappings ELSE [mappings EXCEPT ![n] = s]
    BY DEF Register
  <1> HIDE DEF r, old
  <1>4. StreamRecord(r)
    BY <1>0, <1>1 DEF StreamRecord
  <1>5. StreamTypes' /\ streams'[s] = r /\ \A x \in Stream : x # s => streams'[x] = streams[x]
    BY <1>t, <1>2, <1>4, StreamUpdate
  <1>m. mappings \in [Name -> Stream \cup {None}] /\ mappings' \in [Name -> Stream \cup {None}]
    <2>1. mappings \in [Name -> Stream \cup {None}]
      BY <1>t DEF TypeOK
    <2> QED BY <1>t, <1>3, <2>1
  <1>6. TypeOK'
    BY <1>t, <1>u, <1>5, <1>m DEF TypeOK
  <1>7. TableInv'
    <2>h. \A x \in Stream : Holds[x] \in Name
      BY DEF IInv, MediatorAssumption
    <2>1. ASSUME NEW x \in Stream, Live(x)' PROVE mappings'[Holds[x]] = x
      <3>1. CASE x = s
        BY <1>1, <1>3, <1>5, <1>m, <1>t, <2>1, <3>1 DEF Live
      <3>2. CASE x # s
        <4>1. Live(x) /\ mappings[Holds[x]] = x
          BY <1>5, <1>t, <2>1, <3>2 DEF Live, TableInv
        <4>2. x # None
          BY DEF IInv, MediatorAssumption
        <4>3. Holds[x] # n \/ taken
          BY <4>1, <4>2
        <4> QED BY <1>3, <1>m, <1>t, <2>h, <4>1, <4>3
      <3> QED BY <3>1, <3>2
    <2>2. ASSUME NEW m \in Name, mappings'[m] # None PROVE Holds[mappings'[m]] = m
      BY <1>3, <1>m, <1>t, <2>2 DEF TableInv
    <2>3. ASSUME NEW c \in Call, calls'[c].pc = "send" PROVE mappings'[Asks[c]] # None
      <3>1. Asks[c] \in Name /\ mappings[Asks[c]] # None
        BY <1>t, <1>u, <2>3 DEF IInv, MediatorAssumption, TableInv
      <3> QED BY <1>3, <1>m, <1>t, <3>1
    <2> QED BY <2>1, <2>2, <2>3 DEF TableInv
  <1>8. RequestInv'
    <2>1. ASSUME NEW x \in Stream, x # s PROVE RequestsOf(x)'
      BY SMTT(30), <1>5, <1>t, <1>u, <2>1, RequestsKept DEF RequestInv
    <2>2. RequestsOf(s)'
      <3>1. /\ streams'[s].pc # "yield" /\ streams'[s].queue = streams[s].queue
            /\ streams'[s].ctr = streams[s].ctr /\ streams'[s].inflight = streams[s].inflight
        BY <1>1, <1>2, <1>5
      <3>2. RequestsOf(s)
        BY <1>t DEF RequestInv
      <3> QED BY <1>u, <3>1, <3>2 DEF RequestsOf
    <2> QED BY <2>1, <2>2 DEF RequestInv
  <1>9. RightServer'
    BY <1>t, <1>u DEF RightServer
  <1> QED BY <1>6, <1>7, <1>8, <1>9 DEF IInv

LEMMA CloseStep ==
    ASSUME IInv, NEW s \in Stream, Close(s)
    PROVE  IInv'
  <1> DEFINE old == streams[s]  e == <<>>
             r == [old EXCEPT !.pc = "ended", !.queue = <<>>, !.inflight = <<>>]
  <1>t. TypeOK /\ TableInv /\ RequestInv /\ RightServer /\ StreamTypes
    BY DEF IInv, TypeOK
  <1>u. UNCHANGED <<mappings, locked, calls, server, approved>>
    BY DEF Close
  <1>0. StreamRecord(old)
    BY <1>t, StreamTypesDef
  <1>1. /\ r.pc = "ended" /\ r.queue = e /\ r.ctr = old.ctr /\ r.inflight = e /\ r = Shape(r)
    <2>1. r = [old EXCEPT !.pc = "ended", !.queue = e, !.inflight = e] /\ old = Shape(old)
      BY <1>0 DEF StreamRecord
    <2> HIDE DEF r, e, old
    <2>2. r = [pc |-> "ended", queue |-> e, ctr |-> old.ctr, inflight |-> e]
      BY <2>1 DEF Shape
    <2> QED BY <2>2, RecordUpdate
  <1>2. streams' = [streams EXCEPT ![s] = r] /\ old = streams[s]
    BY DEF Close
  <1>e. e \in Seq(Call) /\ Len(e) <= 1 /\ DOMAIN e = {} /\ e \in [DOMAIN e -> Call]
    OBVIOUS
  <1> HIDE DEF r, old, e
  <1>4. StreamRecord(r)
    BY <1>0, <1>1, <1>e DEF StreamRecord
  <1>5. StreamTypes' /\ streams'[s] = r /\ \A x \in Stream : x # s => streams'[x] = streams[x]
    BY <1>t, <1>2, <1>4, StreamUpdate
  <1>6. TypeOK'
    BY <1>t, <1>u, <1>5 DEF TypeOK
  <1>7. TableInv'
    <2>1. \A x \in Stream : Live(x)' => Live(x)
      BY <1>1, <1>5 DEF Live
    <2> QED BY <1>t, <1>u, <2>1, TableKept
  <1>8. RequestInv'
    <2>1. ASSUME NEW x \in Stream, x # s PROVE RequestsOf(x)'
      BY <1>5, <1>t, <1>u, <2>1, RequestsKept DEF RequestInv
    <2>2. RequestsOf(s)'
      <3>1. /\ streams'[s].pc # "yield" /\ DOMAIN streams'[s].queue = {}
            /\ streams'[s].ctr = streams[s].ctr /\ DOMAIN streams'[s].inflight = {}
        BY <1>1, <1>2, <1>5, <1>e
      <3>2. RequestsOf(s)
        BY <1>t DEF RequestInv
      <3> QED BY <1>u, <3>1, <3>2 DEF RequestsOf
    <2> QED BY <2>1, <2>2 DEF RequestInv
  <1>9. RightServer'
    BY <1>t, <1>u DEF RightServer
  <1> QED BY <1>6, <1>7, <1>8, <1>9 DEF IInv

\* The id is new: no request and no answer on the way has it.
LEMMA RecvStep ==
    ASSUME IInv, NEW s \in Stream, Recv(s)
    PROVE  IInv'
  <1> DEFINE old == streams[s]  c == Head(old.queue)  id == old.ctr  e == <<>>
             f == [i \in DOMAIN old.inflight \cup {id} |-> IF i = id THEN c ELSE old.inflight[i]]
             r == [old EXCEPT !.pc = "yield", !.queue = <<>>, !.ctr = id + 1, !.inflight = f]
  <1>t. TypeOK /\ TableInv /\ RequestInv /\ RightServer /\ StreamTypes /\ RequestsOf(s)
    BY DEF IInv, TypeOK, RequestInv
  <1>u. UNCHANGED <<mappings, locked, calls, server, approved>>
    BY DEF Recv
  <1>0. StreamRecord(old)
    BY <1>t, StreamTypesDef
  <1>1. /\ r.pc = "yield" /\ r.queue = e /\ r.ctr = id + 1 /\ r.inflight = f /\ r = Shape(r)
    <2>1. r = [old EXCEPT !.pc = "yield", !.queue = e, !.ctr = id + 1, !.inflight = f] /\ old = Shape(old)
      BY <1>0 DEF StreamRecord
    <2> HIDE DEF r, e, old, id, f
    <2>2. r = [pc |-> "yield", queue |-> e, ctr |-> id + 1, inflight |-> f]
      BY <2>1 DEF Shape
    <2> QED BY <2>2, RecordUpdate
  <1>2. streams' = [streams EXCEPT ![s] = r] /\ old = streams[s] /\ old.pc = "loop" /\ old.queue # <<>>
    <2>1. old.pc = "loop" /\ old.queue # <<>>
      BY DEF Recv
    <2>2. streams' = [streams EXCEPT ![s] = r]
      BY DEF Recv
    <2> QED BY <2>1, <2>2
  <1>c. c \in Call /\ Asks[c] = Holds[s]
    <2>1. old.queue \in Seq(Call) /\ 1 \in DOMAIN old.queue /\ c = old.queue[1]
      BY <1>0, <1>2 DEF StreamRecord
    <2> QED BY <1>t, <2>1 DEF RequestsOf
  <1>i. id \in Nat \ {0} /\ DOMAIN old.inflight \subseteq 1..(id - 1) /\ old.inflight \in [DOMAIN old.inflight -> Call]
        /\ id = streams[s].ctr
    BY <1>0 DEF StreamRecord
  <1>e. e \in Seq(Call) /\ Len(e) <= 1 /\ DOMAIN e = {}
    OBVIOUS
  <1> HIDE DEF c, id, old
  <1>f. /\ DOMAIN f = DOMAIN old.inflight \cup {id} /\ DOMAIN f \subseteq 1..id
        /\ f[id] = c /\ f \in [DOMAIN f -> Call]
        /\ \A i \in DOMAIN old.inflight : i < id /\ f[i] = old.inflight[i]
    BY <1>c, <1>i
  <1> HIDE DEF r, e, f
  <1>4. StreamRecord(r)
    <2>1. (id + 1) - 1 = id /\ id + 1 \in Nat \ {0}
      BY <1>i
    <2> QED BY <1>1, <1>e, <1>f, <2>1 DEF StreamRecord
  <1>5. StreamTypes' /\ streams'[s] = r /\ \A x \in Stream : x # s => streams'[x] = streams[x]
    BY <1>t, <1>2, <1>4, StreamUpdate
  <1>6. TypeOK'
    BY <1>t, <1>u, <1>5 DEF TypeOK
  <1>7. TableInv'
    <2>1. \A x \in Stream : Live(x)' => Live(x)
      BY <1>2, <1>5 DEF Live
    <2> QED BY <1>t, <1>u, <2>1, TableKept
  <1>8. RequestInv'
    <2>1. ASSUME NEW x \in Stream, x # s PROVE RequestsOf(x)'
      BY <1>5, <1>t, <1>u, <2>1, RequestsKept DEF RequestInv
    <2>2. RequestsOf(s)'
      <3>1. /\ streams'[s].pc = "yield" /\ DOMAIN streams'[s].queue = {}
            /\ streams'[s].ctr = id + 1 /\ streams'[s].inflight = f
        BY <1>1, <1>5, <1>e
      <3>2. \A j \in DOMAIN f : Asks[f[j]] = Holds[s]
        BY <1>2, <1>c, <1>f, <1>t DEF RequestsOf
      <3>3. (id + 1) - 1 \in DOMAIN f
        BY <1>f, <1>i
      <3>4. ASSUME NEW i \in DOMAIN server[s].asked
            PROVE  LET req == server[s].asked[i] IN
                   req.id < id + 1 /\ (req.id \in DOMAIN f => f[req.id] = req.call)
        <4> DEFINE q == server[s].asked[i]
        <4>1. q.id < id /\ (q.id \in DOMAIN old.inflight => old.inflight[q.id] = q.call)
          BY <1>2, <1>i, <1>t DEF RequestsOf
        <4>2. q.id \in Nat
          BY <1>t, ServerTypes
        <4> HIDE DEF q
        <4>3. q.id < id + 1 /\ (q.id \in DOMAIN f => f[q.id] = q.call)
          BY <1>f, <1>i, <4>1, <4>2
        <4> QED BY <4>3 DEF q
      <3>5. ASSUME NEW i \in DOMAIN server[s].says
            PROVE  LET answer == server[s].says[i] IN
                   /\ answer.id < id + 1
                   /\ answer.yes /\ answer.id \in DOMAIN f => <<s, f[answer.id]>> \in approved
        <4> DEFINE a == server[s].says[i]
        <4>1. a.id < id /\ (a.yes /\ a.id \in DOMAIN old.inflight => <<s, old.inflight[a.id]>> \in approved)
          BY <1>2, <1>i, <1>t DEF RequestsOf
        <4>2. a.id \in Nat
          BY <1>t, ServerTypes
        <4> HIDE DEF a
        <4>3. a.id < id + 1 /\ (a.yes /\ a.id \in DOMAIN f => <<s, f[a.id]>> \in approved)
          BY <1>f, <1>i, <4>1, <4>2
        <4> QED BY SMTT(30), <4>3 DEF a
      <3> QED BY <1>u, <3>1, <3>2, <3>3, <3>4, <3>5 DEF RequestsOf
    <2> QED BY <2>1, <2>2 DEF RequestInv
  <1>9. RightServer'
    BY <1>t, <1>u DEF RightServer
  <1> QED BY <1>6, <1>7, <1>8, <1>9 DEF IInv
\* The server of one stream is asked, or answers.
LEMMA ServerUpdate ==
    ASSUME TypeOK, NEW s \in Stream,
           NEW q \in Seq([id : Nat, call : Call]), NEW a \in Seq([id : Nat, yes : BOOLEAN]),
           server' = [server EXCEPT ![s] = [asked |-> q, says |-> a]]
    PROVE  /\ server' \in [Stream -> [asked : Seq([id : Nat, call : Call]), says : Seq([id : Nat, yes : BOOLEAN])]]
           /\ server'[s].asked = q /\ server'[s].says = a
           /\ \A x \in Stream : x # s => server'[x] = server[x]
  <1> DEFINE Q == Seq([id : Nat, call : Call])  A == Seq([id : Nat, yes : BOOLEAN])
             v == [asked |-> q, says |-> a]
  <1>1. server \in [Stream -> [asked : Q, says : A]] /\ v \in [asked : Q, says : A] /\ v.asked = q /\ v.says = a
    BY DEF TypeOK
  <1>2. server' = [server EXCEPT ![s] = v]
    OBVIOUS
  <1> HIDE DEF v, Q, A
  <1>3. server' \in [Stream -> [asked : Q, says : A]] /\ server'[s] = v
        /\ \A x \in Stream : x # s => server'[x] = server[x]
    BY <1>1, <1>2
  <1> QED BY <1>1, <1>3 DEF Q, A

\* The new request has the id under which its call is in flight.
LEMMA YieldStep ==
    ASSUME IInv, NEW s \in Stream, Yield(s)
    PROVE  IInv'
  <1> DEFINE old == streams[s]  id == old.ctr - 1  f == Retain(old.inflight)
             r == [old EXCEPT !.pc = "loop", !.inflight = f]
             new == [id |-> id, call |-> old.inflight[id]]
             q == server[s].asked  a == server[s].says
  <1>t. TypeOK /\ TableInv /\ RequestInv /\ RightServer /\ StreamTypes /\ RequestsOf(s)
    BY DEF IInv, TypeOK, RequestInv
  <1>u. UNCHANGED <<mappings, locked, calls, approved>>
    BY DEF Yield
  <1>0. StreamRecord(old)
    BY <1>t, StreamTypesDef
  <1>2. streams' = [streams EXCEPT ![s] = r] /\ old = streams[s] /\ old.pc = "yield"
    BY DEF Yield
  <1>s. server' = [server EXCEPT ![s].asked = Append(q, new)]
    BY DEF Yield
  <1>i. old.ctr \in Nat \ {0} /\ id \in Nat /\ id < old.ctr /\ id \in DOMAIN old.inflight
    BY <1>0, <1>2, <1>t DEF StreamRecord, RequestsOf
  <1>c. old.inflight \in [DOMAIN old.inflight -> Call] /\ old.inflight[id] \in Call
    BY <1>0, <1>i DEF StreamRecord
  <1>n. new \in [id : Nat, call : Call] /\ new.id = id /\ new.call = old.inflight[id]
    BY <1>c, <1>i
  <1>f. /\ DOMAIN f \subseteq DOMAIN old.inflight /\ (\A x \in DOMAIN f : f[x] = old.inflight[x])
        /\ f = [x \in DOMAIN f |-> f[x]]
    BY ZenonT(60), RetainFacts
  <1> HIDE DEF f
  <1>1. /\ r.pc = "loop" /\ r.queue = old.queue /\ r.ctr = old.ctr /\ r.inflight = f /\ r = Shape(r)
    <2>1. r = [old EXCEPT !.pc = "loop", !.inflight = f] /\ old = Shape(old)
      BY <1>0 DEF StreamRecord
    <2> HIDE DEF r, old
    <2>2. r = [pc |-> "loop", queue |-> old.queue, ctr |-> old.ctr, inflight |-> f]
      BY <2>1 DEF Shape
    <2> QED BY <2>2, RecordUpdate
  <1>v. q \in Seq([id : Nat, call : Call]) /\ a \in Seq([id : Nat, yes : BOOLEAN])
    BY <1>t, ServerTypes
  <1>w. server' = [server EXCEPT ![s] = [asked |-> Append(q, new), says |-> a]]
    <2>1. server[s] = [asked |-> q, says |-> a]
      BY <1>t DEF TypeOK
    <2> HIDE DEF new, q, a
    <2>2. server' = [server EXCEPT ![s] = [server[s] EXCEPT !.asked = Append(q, new)]]
      BY <1>s
    <2>3. [server[s] EXCEPT !.asked = Append(q, new)] = [asked |-> Append(q, new), says |-> a]
      BY <2>1
    <2> QED BY <2>2, <2>3
  <1> HIDE DEF r, old, new, id
  <1>4. StreamRecord(r)
    <2>1. f \in [DOMAIN f -> Call]
      BY <1>c, <1>f
    <2> QED BY <1>0, <1>1, <1>f, <2>1 DEF StreamRecord
  <1>5. StreamTypes' /\ streams'[s] = r /\ \A x \in Stream : x # s => streams'[x] = streams[x]
    BY <1>t, <1>2, <1>4, StreamUpdate
  <1>x. /\ Append(q, new) \in Seq([id : Nat, call : Call])
        /\ \A j \in DOMAIN Append(q, new) : Append(q, new)[j] = new \/ (j \in DOMAIN q /\ Append(q, new)[j] = q[j])
    BY <1>n, <1>v
  <1>y. /\ server' \in [Stream -> [asked : Seq([id : Nat, call : Call]), says : Seq([id : Nat, yes : BOOLEAN])]]
        /\ server'[s].asked = Append(q, new) /\ server'[s].says = a
        /\ \A x \in Stream : x # s => server'[x] = server[x]
    BY <1>t, <1>v, <1>w, <1>x, ServerUpdate
  <1>6. TypeOK'
    BY <1>t, <1>u, <1>5, <1>y DEF TypeOK
  <1>7. TableInv'
    <2>1. \A x \in Stream : Live(x)' => Live(x)
      BY <1>2, <1>5 DEF Live
    <2> QED BY <1>t, <1>u, <2>1, TableKept
  <1>8. RequestInv'
    <2>1. ASSUME NEW x \in Stream, x # s PROVE RequestsOf(x)'
      BY <1>5, <1>y, <1>t, <1>u, <2>1, RequestsKept DEF RequestInv
    <2>2. RequestsOf(s)'
      <3>1. /\ streams'[s].pc = "loop" /\ streams'[s].queue = streams[s].queue
            /\ streams'[s].ctr = streams[s].ctr /\ streams'[s].inflight = f
        BY <1>1, <1>2, <1>5
      <3>2. \A j \in DOMAIN f : Asks[f[j]] = Holds[s]
        BY <1>2, <1>f, <1>t DEF RequestsOf
      <3>3. ASSUME NEW j \in DOMAIN server'[s].asked
            PROVE  LET req == server'[s].asked[j] IN
                   req.id < streams[s].ctr /\ (req.id \in DOMAIN f => f[req.id] = req.call)
        <4>1. CASE server'[s].asked[j] = new
          BY SMTT(30), <1>2, <1>f, <1>i, <1>n, <4>1
        <4>2. CASE j \in DOMAIN q /\ server'[s].asked[j] = q[j]
          BY <1>2, <1>f, <1>t, <4>2 DEF RequestsOf
        <4> QED BY ZenonT(60), <1>x, <1>y, <3>3, <4>1, <4>2
      <3>4. ASSUME NEW j \in DOMAIN server'[s].says
            PROVE  LET answer == server'[s].says[j] IN
                   /\ answer.id < streams[s].ctr
                   /\ answer.yes /\ answer.id \in DOMAIN f => <<s, f[answer.id]>> \in approved
        <4>1. j \in DOMAIN server[s].says /\ server'[s].says[j] = server[s].says[j]
          BY SMTT(30), <1>y
        <4> DEFINE z == server[s].says[j]
        <4>2. /\ z.id < streams[s].ctr
              /\ z.yes /\ z.id \in DOMAIN old.inflight => <<s, old.inflight[z.id]>> \in approved
          BY <1>2, <1>t, <4>1 DEF RequestsOf
        <4> HIDE DEF z
        <4>3. z.yes /\ z.id \in DOMAIN f => <<s, f[z.id]>> \in approved
          BY <1>f, <4>2
        <4> QED BY <4>1, <4>2, <4>3 DEF z
      <3>5. \A j \in DOMAIN streams[s].queue : Asks[streams[s].queue[j]] = Holds[s]
        BY <1>t DEF RequestsOf
      <3> QED BY <1>u, <3>1, <3>2, <3>3, <3>4, <3>5 DEF RequestsOf
    <2> QED BY <2>1, <2>2 DEF RequestInv
  <1>9. RightServer'
    BY <1>t, <1>u DEF RightServer
  <1> QED BY <1>6, <1>7, <1>8, <1>9 DEF IInv
\* An answer reaches the call that its id stands for, and no other.
LEMMA MessageStep ==
    ASSUME IInv, NEW s \in Stream, Message(s)
    PROVE  IInv'
  <1> DEFINE old == streams[s]  g == old.inflight
             q == server[s].asked  a == server[s].says  answer == a[1]
             S == DOMAIN g \ {answer.id}
             f == Retain(Restrict(g, S))
             r == [old EXCEPT !.inflight = f]
             reply == IF answer.yes THEN Ok(s) ELSE Failed("denied")
             To(c) == answer.id \in DOMAIN g /\ g[answer.id] = c /\ ~Closed(c)
  <1>t. TypeOK /\ TableInv /\ RequestInv /\ RightServer /\ StreamTypes /\ RequestsOf(s)
    BY DEF IInv, TypeOK, RequestInv
  <1>u. UNCHANGED <<mappings, locked, approved>>
    BY DEF Message
  <1>0. StreamRecord(old)
    BY <1>t, StreamTypesDef
  <1>v. q \in Seq([id : Nat, call : Call]) /\ a \in Seq([id : Nat, yes : BOOLEAN])
    BY <1>t, ServerTypes
  <1>h. a # <<>> /\ Head(a) = answer /\ 1 \in DOMAIN a /\ Tail(a) \in Seq([id : Nat, yes : BOOLEAN])
        /\ \A j \in DOMAIN Tail(a) : j + 1 \in DOMAIN a /\ Tail(a)[j] = a[j + 1]
    <2>1. a # <<>>
      BY DEF Message
    <2> QED BY SMTT(30), <1>v, <2>1
  <1>2. streams' = [streams EXCEPT ![s] = r] /\ old = streams[s] /\ old.pc = "loop"
    <2>1. streams' = [streams EXCEPT ![s].inflight = Retain(Restrict(@, DOMAIN @ \ {Head(a).id})) ]
      BY DEF Message
    <2>2. streams' = [streams EXCEPT ![s].inflight = f]
      BY <1>h, <2>1
    <2> HIDE DEF f
    <2>3. streams' = [streams EXCEPT ![s] = r]
      BY <2>2
    <2> QED BY <2>3 DEF Message
  <1>c. calls' = [c \in Call |-> IF To(c) THEN [calls[c] EXCEPT !.reply = reply] ELSE calls[c]]
    <2>1. Head(server[s].says) = answer
      BY <1>h
    <2> HIDE DEF answer
    <2> QED BY <2>1 DEF Message
  <1>s. server' = [server EXCEPT ![s].says = Tail(a)]
    BY DEF Message
  <1>f. /\ DOMAIN f \subseteq DOMAIN g /\ (\A x \in DOMAIN f : f[x] = g[x])
        /\ f = [x \in DOMAIN f |-> f[x]]
    <2>1. S \subseteq DOMAIN g
      OBVIOUS
    <2> HIDE DEF S, g
    <2> QED BY ONLY <2>1, RetainFacts
  <1> HIDE DEF f
  <1>1. /\ r.pc = old.pc /\ r.queue = old.queue /\ r.ctr = old.ctr /\ r.inflight = f /\ r = Shape(r)
    <2>1. r = [old EXCEPT !.inflight = f] /\ old = Shape(old)
      BY <1>0 DEF StreamRecord
    <2> HIDE DEF r, old
    <2>2. r = [pc |-> old.pc, queue |-> old.queue, ctr |-> old.ctr, inflight |-> f]
      BY <2>1 DEF Shape
    <2> QED BY <2>2, RecordUpdate
  <1>w. server' = [server EXCEPT ![s] = [asked |-> q, says |-> Tail(a)]]
    <2>1. server[s] = [asked |-> q, says |-> a]
      BY <1>t DEF TypeOK
    <2> HIDE DEF q, a
    <2>2. server' = [server EXCEPT ![s] = [server[s] EXCEPT !.says = Tail(a)]]
      BY <1>s
    <2>3. \A v : [server[s] EXCEPT !.says = v] = [asked |-> q, says |-> v]
      BY <2>1
    <2> QED BY <2>2, <2>3
  <1>g. g \in [DOMAIN g -> Call]
    BY SMTT(30), <1>0 DEF StreamRecord
  <1>a. answer.id \in Nat /\ answer.yes \in BOOLEAN
        /\ (answer.yes /\ answer.id \in DOMAIN g => <<s, g[answer.id]>> \in approved)
        /\ \A id \in DOMAIN g : Asks[g[id]] = Holds[s]
    BY <1>h, <1>t, ServerTypes DEF RequestsOf
  <1> HIDE DEF r, old, answer
  <1>4. StreamRecord(r)
    <2>1. f \in [DOMAIN f -> Call]
      BY <1>g, <1>f
    <2> QED BY <1>0, <1>1, <1>f, <2>1 DEF StreamRecord
  <1>5. StreamTypes' /\ streams'[s] = r /\ \A x \in Stream : x # s => streams'[x] = streams[x]
    BY <1>t, <1>2, <1>4, StreamUpdate
  <1>y. /\ server' \in [Stream -> [asked : Seq([id : Nat, call : Call]), says : Seq([id : Nat, yes : BOOLEAN])]]
        /\ server'[s].asked = q /\ server'[s].says = Tail(a)
        /\ \A x \in Stream : x # s => server'[x] = server[x]
    BY <1>t, <1>v, <1>w, <1>h, ServerUpdate
  <1>z. /\ calls' \in [Call -> CallState]
        /\ \A c \in Call : /\ calls'[c].pc = calls[c].pc
                           /\ calls'[c].reply = IF To(c) THEN reply ELSE calls[c].reply
    <2>1. calls \in [Call -> CallState]
      BY <1>t DEF TypeOK
    <2>2. reply \in Outcome
      BY DEF Ok, Failed, Outcome
    <2> HIDE DEF reply, To
    <2>3. \A c \in Call : LET d == [calls[c] EXCEPT !.reply = reply] IN
              d \in CallState /\ d.pc = calls[c].pc /\ d.reply = reply
      BY <2>1, <2>2 DEF CallState
    <2> QED BY <1>c, <2>1, <2>3
  <1>6. TypeOK'
    BY <1>t, <1>u, <1>5, <1>y, <1>z DEF TypeOK
  <1>7. TableInv'
    <2>1. \A x \in Stream : Live(x)' => Live(x)
      BY <1>1, <1>2, <1>5 DEF Live
    <2>2. \A c \in Call : calls'[c].pc = "send" => calls[c].pc = "send"
      BY <1>z
    <2> QED BY <1>t, <1>u, <2>1, <2>2, TableKept
  <1>8. RequestInv'
    <2>1. ASSUME NEW x \in Stream, x # s PROVE RequestsOf(x)'
      BY <1>5, <1>y, <1>t, <1>u, <2>1, RequestsKept DEF RequestInv
    <2>2. RequestsOf(s)'
      <3>1. /\ streams'[s].pc = "loop" /\ streams'[s].queue = streams[s].queue
            /\ streams'[s].ctr = streams[s].ctr /\ streams'[s].inflight = f
        BY <1>1, <1>2, <1>5
      <3>2. \A j \in DOMAIN f : Asks[f[j]] = Holds[s]
        BY SMTT(30), <1>2, <1>f, <1>t DEF RequestsOf
      <3>3. ASSUME NEW j \in DOMAIN server'[s].asked
            PROVE  LET req == server'[s].asked[j] IN
                   req.id < streams[s].ctr /\ (req.id \in DOMAIN f => f[req.id] = req.call)
        <4> DEFINE z == server[s].asked[j]
        <4>1. server'[s].asked[j] = z /\ z.id < streams[s].ctr /\ (z.id \in DOMAIN g => g[z.id] = z.call)
          BY SMTT(30), <1>2, <1>t, <1>y DEF RequestsOf
        <4> HIDE DEF z
        <4> QED BY SMTT(30), <1>f, <4>1
      <3>4. ASSUME NEW j \in DOMAIN server'[s].says
            PROVE  LET answered == server'[s].says[j] IN
                   /\ answered.id < streams[s].ctr
                   /\ answered.yes /\ answered.id \in DOMAIN f => <<s, f[answered.id]>> \in approved
        <4> DEFINE z == a[j + 1]
        <4>1. j + 1 \in DOMAIN a /\ server'[s].says[j] = z
          BY SMTT(30), <1>h, <1>y
        <4>2. /\ z.id < streams[s].ctr
              /\ z.yes /\ z.id \in DOMAIN g => <<s, g[z.id]>> \in approved
          BY <1>2, <1>t, <4>1 DEF RequestsOf
        <4> HIDE DEF z
        <4>3. z.yes /\ z.id \in DOMAIN f => <<s, f[z.id]>> \in approved
          BY <1>f, <4>2
        <4> QED BY SMTT(30), <4>1, <4>2, <4>3
      <3>5. \A j \in DOMAIN streams[s].queue : Asks[streams[s].queue[j]] = Holds[s]
        BY <1>t DEF RequestsOf
      <3> QED BY <1>u, <3>1, <3>2, <3>3, <3>4, <3>5 DEF RequestsOf
    <2> QED BY <2>1, <2>2 DEF RequestInv
  <1>9. RightServer'
    <2> SUFFICES ASSUME NEW c \in Call, NEW x \in Stream, calls'[c].reply = Ok(x)
                 PROVE  <<x, c>> \in approved' /\ Holds[x] = Asks[c]
      BY DEF RightServer
    <2>1. CASE ~To(c)
      <3>1. calls[c].reply = Ok(x)
        BY <1>z, <2>1
      <3> QED BY <1>t, <1>u, <3>1 DEF RightServer
    <2>2. CASE To(c)
      <3>1. reply = Ok(x)
        BY <1>z, <2>2
      <3>2. \A y : Ok(y).kind = "found" /\ Ok(y).by = y /\ Failed("denied").kind = "denied"
        BY DEF Ok, Failed
      <3>3. answer.yes /\ x = s
        <4>1. answer.yes
          BY <3>1, <3>2
        <4>2. Ok(s) = Ok(x)
          BY <3>1, <4>1
        <4> QED BY <3>2, <4>1, <4>2
      <3> QED BY <1>a, <1>u, <2>2, <3>3
    <2> QED BY <2>1, <2>2
  <1> QED BY <1>6, <1>7, <1>8, <1>9 DEF IInv
\* The server agrees to the call that it was asked about.
LEMMA AnswerStep ==
    ASSUME IInv, NEW s \in Stream, Answer(s)
    PROVE  IInv'
  <1> DEFINE q == server[s].asked  a == server[s].says  g == streams[s].inflight
  <1>t. TypeOK /\ TableInv /\ RequestInv /\ RightServer /\ StreamTypes /\ RequestsOf(s)
    BY DEF IInv, TypeOK, RequestInv
  <1>u. UNCHANGED <<mappings, locked, calls, streams>>
    BY DEF Answer
  <1>v. q \in Seq([id : Nat, call : Call]) /\ a \in Seq([id : Nat, yes : BOOLEAN])
    BY <1>t, ServerTypes
  <1>1. PICK i \in DOMAIN q, yes \in BOOLEAN :
          /\ server' = [server EXCEPT ![s].asked = [j \in 1..(Len(q) - 1) |-> q[IF j < i THEN j ELSE j + 1]],
                                      ![s].says = Append(a, [id |-> q[i].id, yes |-> yes])]
          /\ approved' = IF yes THEN approved \cup {<<s, q[i].call>>} ELSE approved
    BY DEF Answer
  <1> DEFINE p == [j \in 1..(Len(q) - 1) |-> q[IF j < i THEN j ELSE j + 1]]
             new == [id |-> q[i].id, yes |-> yes]
             b == Append(a, new)
  <1>i. /\ q[i].id \in Nat /\ q[i].call \in Call /\ q[i].id < streams[s].ctr
        /\ q[i].id \in DOMAIN g => g[q[i].id] = q[i].call
    BY <1>t, ServerTypes DEF RequestsOf
  <1>p. p \in Seq([id : Nat, call : Call]) /\ \A j \in DOMAIN p : \E k \in DOMAIN q : p[j] = q[k]
    <2> DEFINE Q == [id : Nat, call : Call]  n == Len(q)
    <2>1. q \in Seq(Q) /\ n \in Nat /\ DOMAIN q = 1..n /\ i \in 1..n
      BY <1>v
    <2> HIDE DEF Q
    <2>2. \A k \in 1..n : q[k] \in Q
      BY <2>1
    <2> HIDE DEF q, n
    <2>3. \A j \in 1..(n - 1) : (IF j < i THEN j ELSE j + 1) \in 1..n
      BY <2>1
    <2>4. p = [j \in 1..(n - 1) |-> q[IF j < i THEN j ELSE j + 1]] /\ n - 1 \in Nat
      BY <2>1 DEF n
    <2>5. p \in [1..(n - 1) -> Q] /\ \A j \in 1..(n - 1) : \E k \in DOMAIN q : p[j] = q[k]
      BY <2>1, <2>2, <2>3, <2>4
    <2> HIDE DEF p
    <2>6. \A m \in Nat : \A z \in [1..m -> Q] : z \in Seq(Q) /\ DOMAIN z = 1..m
      OBVIOUS
    <2>7. p \in Seq(Q) /\ DOMAIN p = 1..(n - 1)
      BY <2>4, <2>5, <2>6
    <2> QED BY <2>5, <2>7 DEF Q
  <1>b. /\ new \in [id : Nat, yes : BOOLEAN] /\ new.id = q[i].id /\ new.yes = yes
        /\ b \in Seq([id : Nat, yes : BOOLEAN])
        /\ \A j \in DOMAIN b : b[j] = new \/ (j \in DOMAIN a /\ b[j] = a[j])
    <2>1. new \in [id : Nat, yes : BOOLEAN] /\ new.id = q[i].id /\ new.yes = yes
      BY <1>i
    <2> HIDE DEF new
    <2> QED BY SMTT(30), <1>v, <2>1
  <1>w. server' = [server EXCEPT ![s] = [asked |-> p, says |-> b]]
    <2>0. server[s] = [asked |-> q, says |-> a]
      BY <1>t DEF TypeOK
    <2>1. server' = [server EXCEPT ![s].asked = p, ![s].says = b]
      BY <1>1
    <2> HIDE DEF p, q, a, b
    <2>2. server' = [server EXCEPT ![s] = [server[s] EXCEPT !.asked = p, !.says = b]]
      BY <2>1
    <2>3. \A v, w : [server[s] EXCEPT !.asked = v, !.says = w] = [asked |-> v, says |-> w]
      <3>1. ASSUME NEW x, NEW y, NEW v, NEW w
            PROVE  [[asked |-> x, says |-> y] EXCEPT !.asked = v, !.says = w] = [asked |-> v, says |-> w]
        <4> DEFINE z == [[asked |-> x, says |-> y] EXCEPT !.asked = v, !.says = w]
        <4>1. /\ DOMAIN z = {"asked", "says"} /\ z["asked"] = v /\ z["says"] = w
              /\ z = [k \in {"asked", "says"} |-> z[k]]
          OBVIOUS
        <4> HIDE DEF z
        <4>2. z = [asked |-> v, says |-> w]
          BY <4>1
        <4> QED BY <4>2 DEF z
      <3>2. ASSUME NEW v, NEW w
            PROVE  [server[s] EXCEPT !.asked = v, !.says = w] = [asked |-> v, says |-> w]
        <4>1. [server[s] EXCEPT !.asked = v, !.says = w] = [[asked |-> q, says |-> a] EXCEPT !.asked = v, !.says = w]
          BY ONLY <2>0
        <4> QED BY ONLY <3>1, <4>1
      <3> QED BY ONLY <3>2
    <2> QED BY ONLY <2>2, <2>3
  <1>x. approved' = IF yes THEN approved \cup {<<s, q[i].call>>} ELSE approved
    BY <1>1
  <1> HIDE DEF p, new, b
  <1>y. /\ server' \in [Stream -> [asked : Seq([id : Nat, call : Call]), says : Seq([id : Nat, yes : BOOLEAN])]]
        /\ server'[s].asked = p /\ server'[s].says = b
        /\ \A x \in Stream : x # s => server'[x] = server[x]
    BY <1>t, <1>p, <1>b, <1>w, ServerUpdate
  <1>6. TypeOK'
    <2>1. StreamTypes'
      BY <1>t, <1>u DEF StreamTypes
    <2>2. approved' \subseteq Stream \X Call
      BY <1>i, <1>t, <1>x DEF TypeOK
    <2> QED BY <1>t, <1>u, <1>y, <2>1, <2>2 DEF TypeOK
  <1>7. TableInv'
    <2>1. \A x \in Stream : Live(x)' => Live(x)
      BY <1>u DEF Live
    <2> QED BY <1>t, <1>u, <2>1, TableKept
  <1>8. RequestInv'
    <2>0. approved \subseteq approved'
      BY <1>x
    <2>1. ASSUME NEW x \in Stream, x # s PROVE RequestsOf(x)'
      BY SMTT(30), <1>y, <1>t, <1>u, <2>0, <2>1, RequestsKept DEF RequestInv
    <2>2. RequestsOf(s)'
      <3>3. ASSUME NEW j \in DOMAIN server'[s].asked
            PROVE  LET req == server'[s].asked[j] IN
                   req.id < streams[s].ctr /\ (req.id \in DOMAIN g => g[req.id] = req.call)
        <4>1. PICK k \in DOMAIN q : server'[s].asked[j] = q[k]
          BY <1>p, <1>y
        <4> QED BY <1>t, <4>1 DEF RequestsOf
      <3>4. ASSUME NEW j \in DOMAIN server'[s].says
            PROVE  LET answer == server'[s].says[j] IN
                   /\ answer.id < streams[s].ctr
                   /\ answer.yes /\ answer.id \in DOMAIN g => <<s, g[answer.id]>> \in approved'
        <4>1. CASE server'[s].says[j] = new
          BY SMTT(30), <1>b, <1>i, <1>x, <4>1
        <4>2. CASE j \in DOMAIN a /\ server'[s].says[j] = a[j]
          <5> DEFINE z == a[j]
          <5>1. z.id < streams[s].ctr /\ (z.yes /\ z.id \in DOMAIN g => <<s, g[z.id]>> \in approved)
            BY <1>t, <4>2 DEF RequestsOf
          <5>2. server'[s].says[j] = z
            BY <4>2
          <5> HIDE DEF z
          <5> QED BY SMTT(30), <2>0, <5>1, <5>2
        <4> QED BY <1>b, <1>y, <4>1, <4>2
      <3>5. /\ \A j \in DOMAIN streams[s].queue : Asks[streams[s].queue[j]] = Holds[s]
            /\ \A id \in DOMAIN streams[s].inflight : Asks[streams[s].inflight[id]] = Holds[s]
            /\ streams[s].pc = "yield" => streams[s].ctr - 1 \in DOMAIN streams[s].inflight
        BY <1>t DEF RequestsOf
      <3> QED BY SMTT(30), <1>u, <3>3, <3>4, <3>5 DEF RequestsOf
    <2> QED BY <2>1, <2>2 DEF RequestInv
  <1>9. RightServer'
    BY <1>t, <1>u, <1>x DEF RightServer
  <1> QED BY <1>6, <1>7, <1>8, <1>9 DEF IInv

-----------------------------------------------------------------------------
\* A client is sent to a server that agreed to meet it under the name it asked for,
\* and a name has one open stream (register and rendezvous), for any names, calls
\* and streams, in any order and with any of them dropped.
THEOREM NamesCorrect ==
    ASSUME MediatorAssumption
    PROVE  Spec => []NamesSound
  <1>1. IInv /\ [Next]_vars => IInv'
    <2> SUFFICES ASSUME IInv, [Next]_vars PROVE IInv'
      OBVIOUS
    <2>1. UNCHANGED vars => IInv'
      <3> SUFFICES ASSUME UNCHANGED vars PROVE IInv'
        OBVIOUS
      <3>1. TypeOK'
        <4>1. StreamTypes'
          BY SMTT(30) DEF IInv, TypeOK, vars, StreamTypes
        <4> QED BY <4>1 DEF IInv, TypeOK, vars
      <3>2. TableInv'
        BY DEF IInv, TableInv, vars, Live
      <3>3. RequestInv'
        <4>1. streams' = streams /\ server' = server /\ approved' = approved
          BY SMTT(30) DEF vars
        <4>2. ASSUME NEW s \in Stream PROVE RequestsOf(s)'
          <5>1. RequestsOf(s)
            BY DEF IInv, RequestInv
          <5> QED BY ONLY <4>1, <5>1 DEF RequestsOf
        <4> QED BY ONLY <4>2 DEF RequestInv
      <3>4. RightServer'
        BY DEF IInv, RightServer, vars
      <3> QED BY <3>1, <3>2, <3>3, <3>4 DEF IInv
    <2> QED BY <2>1, CallStep, SendStep, RegisterStep, RecvStep, YieldStep, MessageStep, CloseStep, AnswerStep, Steps
  <1>2. IInv => NamesSound
    <2>1. IInv => OneStream
      BY DEF IInv, TableInv, OneStream
    <2> QED BY <2>1 DEF IInv, NamesSound
  <1> QED BY <1>1, <1>2, InitInv, PTL DEF Spec
=============================================================================
