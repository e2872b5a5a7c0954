--------------------------- MODULE NpClientProofs ----------------------------
(***************************************************************************)
(* Proofs about the client's tags and fids, for any number of either and   *)
(* however many calls run, fail and are dropped; and about its files, for  *)
(* any tree of shares, any file, any listing and any length of a message.  *)
(***************************************************************************)
EXTENDS MCNpClient, FiniteSetTheorems, SequenceTheorems, WellFoundedInduction, TLAPS

IInv ==
    /\ TypeOK /\ OneOwner /\ PoolInv /\ CallInv /\ BudgetInv
    /\ TagInv /\ OwnReply /\ AskInv
    /\ FidsFresh /\ FidsKnown /\ NoneForgotten /\ FidInv

-----------------------------------------------------------------------------
(* Tags, fids and names.                                                   *)

LEMMA Numbers ==
    /\ MaxTag \in Nat /\ MaxTag > 0 /\ MaxFid \in Nat /\ MaxFid > 0
    /\ Tag \subseteq Nat /\ Fid \subseteq Nat /\ CallId \subseteq Nat
    /\ NoTag \notin Tag /\ NoFid \notin Fid /\ 0 \notin CallId
  BY ClientAssumption DEF Tag, Fid, CallId, NoTag, NoFid

\* The smallest element, as BTreeSet and the search for a tag take it.
LEMMA LeastIn ==
    ASSUME NEW S \in SUBSET Nat, S # {}
    PROVE  Least(S) \in S
<1> DEFINE less == {p \in Nat \X Nat : p[1] < p[2]}
<1>1. IsWellFoundedOn(less, Nat)
  BY NatLessThanWellFounded DEF OpToRel
<1>2. PICK m \in S : \A x \in S : <<x, m>> \notin less
  BY <1>1, WFMin
<1>3. ASSUME NEW x \in S
      PROVE  m <= x
  <2>1. x \in Nat /\ m \in Nat
    OBVIOUS
  <2>2. ~(x < m)
    BY <1>2, <2>1
  <2>3. QED
    BY <2>1, <2>2
<1>4. QED
  BY <1>3 DEF Least

Busy == {t \in Tag : inflight[t] # 0}
Beginning == {c \in calls : c.pc = "begin"}
Kept == {h \in handles : h.kind # "clunk"}

LEMMA Counts ==
    ASSUME TypeOK, BudgetInv
    PROVE  /\ IsFiniteSet(Tag) /\ Cardinality(Tag) = MaxTag
           /\ IsFiniteSet(Busy) /\ IsFiniteSet(Beginning) /\ IsFiniteSet(Kept)
           /\ Cardinality(Busy) \in Nat /\ Cardinality(Beginning) \in Nat /\ Cardinality(Kept) \in Nat
           /\ Cardinality(Busy) + Cardinality(Beginning) + Cardinality(Kept) <= MaxTag
<1>1. IsFiniteSet(Tag) /\ Cardinality(Tag) = MaxTag
  <2>1. 0 \in Int /\ MaxTag - 1 \in Int
    BY Numbers
  <2>2. IsFiniteSet(0..(MaxTag - 1)) /\ Cardinality(0..(MaxTag - 1)) = IF 0 > MaxTag - 1 THEN 0 ELSE (MaxTag - 1) - 0 + 1
    BY <2>1, FS_Interval
  <2>3. QED
    BY <2>2, Numbers DEF Tag
<1>2. IsFiniteSet(Busy) /\ IsFiniteSet(Beginning) /\ IsFiniteSet(Kept)
  <2>1. Busy \subseteq Tag /\ Beginning \subseteq calls /\ Kept \subseteq handles
    BY DEF Busy, Beginning, Kept
  <2>2. QED
    BY <1>1, <2>1, FS_Subset DEF BudgetInv
<1>3. QED
  BY <1>1, <1>2, FS_CardinalityType DEF BudgetInv, Busy, Beginning, Kept

\* A call that begins finds a tag.
LEMMA FreeTag ==
    ASSUME TypeOK, BudgetInv, NEW c \in calls, c.pc = "begin"
    PROVE  LET tag == Least({t \in Tag : inflight[t] = 0}) IN tag \in Tag /\ inflight[tag] = 0
<1> DEFINE free == {t \in Tag : inflight[t] = 0}
<1>1. c \in Beginning
  BY DEF Beginning
<1>2. Cardinality(Beginning) # 0
  BY <1>1, Counts, FS_EmptySet
<1>3. Cardinality(Busy) < MaxTag
  BY <1>2, Counts, Numbers
<1>4. free # {}
  <2>1. SUFFICES ASSUME free = {} PROVE FALSE
    OBVIOUS
  <2>2. Busy = Tag
    BY <2>1 DEF Busy
  <2>3. QED
    BY <1>3, <2>2, Counts
<1>5. free \subseteq Nat
  BY Numbers
<1>6. Least(free) \in free
  BY <1>4, <1>5, LeastIn
<1>7. QED
  BY <1>6

\* The images of a finite set.
LEMMA Image ==
    ASSUME NEW S, IsFiniteSet(S), NEW f, f \in [S -> {f[x] : x \in S}]
    PROVE  IsFiniteSet({f[x] : x \in S}) /\ Cardinality({f[x] : x \in S}) <= Cardinality(S)
<1> DEFINE T == {f[x] : x \in S}
<1>1. f \in Surjection(S, T)
  BY DEF Surjection
<1>2. QED
  BY <1>1, FS_Surjection

LEMMA ElementType == ASSUME NEW X, NEW q \in Seq(X) PROVE \A i \in DOMAIN q : q[i] \in X
  OBVIOUS

LEMMA Elements ==
    ASSUME TypeOK
    PROVE  /\ \A i \in DOMAIN requests : requests[i] \in Request /\ requests[i].tag \in Tag
           /\ \A i \in DOMAIN replies : replies[i] \in Reply /\ replies[i].tag \in Tag
<1>1. requests \in Seq(Request) /\ replies \in Seq(Reply)
  BY DEF TypeOK
<1>2. \A i \in DOMAIN requests : requests[i] \in Request
  BY <1>1, ElementType
<1>3. \A i \in DOMAIN replies : replies[i] \in Reply
  BY <1>1, ElementType
<1>4. QED
  BY <1>2, <1>3 DEF Request, Reply

\* A name that nothing refers to exists.
LEMMA FreshName ==
    ASSUME TypeOK, BudgetInv, TagInv, OwnReply
    PROVE  /\ FreshId \in CallId
           /\ \A c \in calls : c.id # FreshId
           /\ \A t \in Tag : inflight[t] # FreshId
<1> DEFINE ids == {c.id : c \in calls}
           tags == {inflight[t] : t \in Tag}
           asked == {requests[i].call : i \in DOMAIN requests}
           answered == {replies[i].call : i \in DOMAIN replies}
           used == ids \cup tags \cup asked \cup answered
           f == [c \in Beginning |-> c.id]
           g == [t \in Busy |-> inflight[t]]
           starting == {f[c] : c \in Beginning}
           held == {g[t] : t \in Busy}
<1>1. \A i \in DOMAIN requests : requests[i].tag \in Tag /\ inflight[requests[i].tag] = requests[i].call
  BY Elements DEF OwnReply
<1>2. \A i \in DOMAIN replies : replies[i].tag \in Tag /\ inflight[replies[i].tag] = replies[i].call
  BY Elements DEF OwnReply
<1>3. used \subseteq starting \cup held \cup {0}
  <2>1. tags \subseteq held \cup {0}
    BY DEF Busy
  <2>2. asked \subseteq tags /\ answered \subseteq tags
    BY <1>1, <1>2
  <2>3. ids \subseteq starting \cup tags
    <3>1. SUFFICES ASSUME NEW c \in calls
                   PROVE  c.id \in starting \cup tags
      OBVIOUS
    <3>2. CASE c.pc = "begin"
      <4>1. c \in Beginning
        BY <3>2 DEF Beginning
      <4>2. QED
        BY <4>1
    <3>3. CASE c.pc # "begin"
      BY <3>3 DEF TagInv
    <3>4. QED
      BY <3>2, <3>3
  <2>4. QED
    BY <2>1, <2>2, <2>3
<1>4. IsFiniteSet(starting) /\ Cardinality(starting) <= Cardinality(Beginning)
  BY Counts, Image
<1>5. IsFiniteSet(held) /\ Cardinality(held) <= Cardinality(Busy)
  BY Counts, Image
<1>6. IsFiniteSet(starting \cup held) /\ Cardinality(starting \cup held) <= MaxTag
  <2>1. IsFiniteSet(starting \cap held) /\ IsFiniteSet(starting \cup held)
    BY <1>4, <1>5, FS_Intersection, FS_Union
  <2>2. Cardinality(starting \cup held) = Cardinality(starting) + Cardinality(held) - Cardinality(starting \cap held)
    BY <1>4, <1>5, FS_Union
  <2>3. Cardinality(starting) \in Nat /\ Cardinality(held) \in Nat /\ Cardinality(starting \cap held) \in Nat
    BY <1>4, <1>5, <2>1, FS_CardinalityType
  <2>4. QED
    BY <1>4, <1>5, <2>1, <2>2, <2>3, Counts, Numbers
<1>7. IsFiniteSet(CallId) /\ Cardinality(CallId) = 2 * MaxTag
  <2>1. 1 \in Int /\ 2 * MaxTag \in Int
    BY Numbers
  <2>2. IsFiniteSet(1..(2 * MaxTag)) /\ Cardinality(1..(2 * MaxTag)) = IF 1 > 2 * MaxTag THEN 0 ELSE (2 * MaxTag) - 1 + 1
    BY <2>1, FS_Interval
  <2>3. QED
    BY <2>2, Numbers DEF CallId
<1>8. CallId \ used # {}
  <2>1. SUFFICES ASSUME CallId \subseteq starting \cup held PROVE FALSE
    BY <1>3, Numbers
  <2>2. Cardinality(CallId) <= Cardinality(starting \cup held)
    BY <1>6, <2>1, FS_Subset
  <2>3. Cardinality(starting \cup held) \in Nat
    BY <1>6, FS_CardinalityType
  <2>4. QED
    BY <1>6, <1>7, <2>2, <2>3, Numbers
<1>9. CallId \ used \subseteq Nat
  BY Numbers
<1>10. Least(CallId \ used) \in CallId \ used
  BY <1>8, <1>9, LeastIn
<1>11. FreshId = Least(CallId \ used)
  BY DEF FreshId
<1>12. QED
  BY <1>10, <1>11
-----------------------------------------------------------------------------
(* Sequences.                                                              *)

LEMMA TailIs ==
    ASSUME NEW X, NEW q \in Seq(X), q # <<>>
    PROVE  /\ Tail(q) \in Seq(X) /\ 1 \in DOMAIN q /\ Head(q) = q[1]
           /\ \A i \in DOMAIN Tail(q) : i + 1 \in DOMAIN q /\ i + 1 # 1 /\ Tail(q)[i] = q[i + 1]
  OBVIOUS

LEMMA AppendIs ==
    ASSUME NEW X, NEW q \in Seq(X), NEW x \in X
    PROVE  /\ Append(q, x) \in Seq(X) /\ DOMAIN Append(q, x) = DOMAIN q \cup {Len(q) + 1}
           /\ Len(q) + 1 \notin DOMAIN q /\ \A i \in DOMAIN q : i < Len(q) + 1
           /\ Append(q, x)[Len(q) + 1] = x /\ \A i \in DOMAIN q : Append(q, x)[i] = q[i]
  OBVIOUS

\* Where the elements come from when one is taken out.
Before(i, j) == IF j < i THEN j ELSE j + 1

LEMMA RemoveIs ==
    ASSUME NEW X, NEW q \in Seq(X), NEW i \in DOMAIN q
    PROVE  /\ RemoveAt(q, i) \in Seq(X)
           /\ \A j \in DOMAIN RemoveAt(q, i) :
                 Before(i, j) \in DOMAIN q \ {i} /\ RemoveAt(q, i)[j] = q[Before(i, j)]
           /\ \A j, k \in DOMAIN RemoveAt(q, i) : j < k => Before(i, j) < Before(i, k)
<1>1. i \in 1..Len(q) /\ Len(q) \in Nat
  OBVIOUS
<1> DEFINE a == SubSeq(q, 1, i - 1)
           b == SubSeq(q, i + 1, Len(q))
<1>2. /\ a \in Seq(X) /\ Len(a) = i - 1
      /\ \A j \in 1..(i - 1) : a[j] = q[j]
  BY <1>1
<1>3. /\ b \in Seq(X) /\ Len(b) = Len(q) - i
      /\ \A j \in 1..(Len(q) - i) : b[j] = q[i + j]
  BY <1>1
<1>4. RemoveAt(q, i) = a \o b
  BY DEF RemoveAt
<1> HIDE DEF a, b
<1>5. a \o b \in Seq(X) /\ Len(a \o b) = Len(q) - 1
  BY <1>1, <1>2, <1>3
<1>6. DOMAIN (a \o b) = 1..(Len(q) - 1)
  BY <1>5
<1>7. ASSUME NEW j \in 1..(Len(q) - 1)
      PROVE  Before(i, j) \in DOMAIN q \ {i} /\ (a \o b)[j] = q[Before(i, j)]
  <2>1. (a \o b)[j] = IF j <= Len(a) THEN a[j] ELSE b[j - Len(a)]
    BY SMTT(30), <1>1, <1>2, <1>3
  <2>2. CASE j < i
    BY <1>1, <1>2, <2>1, <2>2 DEF Before
  <2>3. CASE ~(j < i)
    <3>1. j - (i - 1) \in 1..(Len(q) - i) /\ i + (j - (i - 1)) = j + 1
      BY <1>1, <2>3
    <3>2. (a \o b)[j] = b[j - (i - 1)]
      BY <1>1, <1>2, <2>1, <2>3
    <3>3. (a \o b)[j] = q[j + 1]
      BY <1>3, <3>1, <3>2
    <3>4. QED
      BY <1>1, <2>3, <3>3 DEF Before
  <2>4. QED
    BY <2>2, <2>3
<1>8. \A j, k \in 1..(Len(q) - 1) : j < k => Before(i, j) < Before(i, k)
  BY <1>1 DEF Before
<1>9. QED
  BY <1>4, <1>5, <1>6, <1>7, <1>8

LEMMA PrefixIs ==
    ASSUME NEW X, NEW q \in Seq(X), NEW p \in {SubSeq(q, 1, k) : k \in 0..Len(q)}
    PROVE  p \in Seq(X) /\ \A i \in DOMAIN p : i \in DOMAIN q /\ p[i] = q[i]
<1>1. PICK k \in 0..Len(q) : p = SubSeq(q, 1, k)
  OBVIOUS
<1>2. QED
  BY <1>1

-----------------------------------------------------------------------------
(* The tags.                                                               *)

\* Calls end and others begin, while nothing is sent or received.
LEMMA TagKeep ==
    ASSUME TypeOK, TagInv, OwnReply, AskInv,
           NEW running \in SUBSET calls, NEW N \in SUBSET Call, calls' = running \cup N,
           UNCHANGED <<inflight, requests, replies>>,
           \A n, m \in N : n = m,
           \A n \in N : /\ n.pc = "begin" /\ \A d \in running : d.id # n.id
                        /\ \A t \in Tag : inflight[t] # n.id
    PROVE  TagInv' /\ OwnReply' /\ AskInv'
<1>1. AskInv'
  BY DEF AskInv, RequestOf
<1>2. OwnReply'
  BY DEF OwnReply
<1>3. \A c, d \in calls' : c.id = d.id => c = d
  BY DEF TagInv
<1>4. \A c \in calls' : c.pc = "begin" => \A t \in Tag : inflight[t] # c.id
  BY DEF TagInv
<1>5. TagInv'
  BY <1>3, <1>4 DEF TagInv
<1>6. QED
  BY <1>1, <1>2, <1>5

\* A reply is received, whatever its call does next.
LEMMA TagReply ==
    ASSUME TypeOK, TagInv, OwnReply, AskInv,
           replies # <<>>, replies' = Tail(replies), UNCHANGED requests,
           inflight' = [inflight EXCEPT ![Head(replies).tag] = 0],
           NEW running \in SUBSET calls, NEW N \in SUBSET Call, calls' = running \cup N,
           \A d \in running : d.pc # "begin" => d.tag # Head(replies).tag,
           \A n, m \in N : n = m,
           \A n \in N : /\ n.pc = "begin" /\ \A d \in running : d.id # n.id
                        /\ \A t \in Tag : inflight'[t] # n.id
    PROVE  TagInv' /\ OwnReply' /\ AskInv' /\ inflight' \in [Tag -> CallId \cup {0}]
<1> DEFINE r == Head(replies)
<1>1. /\ 1 \in DOMAIN replies /\ r = replies[1] /\ r.tag \in Tag
      /\ \A i \in DOMAIN replies' :
            i + 1 \in DOMAIN replies /\ i + 1 # 1 /\ replies'[i] = replies[i + 1]
  BY TailIs, Elements DEF TypeOK
<1>2. /\ inflight \in [Tag -> CallId \cup {0}] /\ inflight'[r.tag] = 0
      /\ \A t \in Tag : t # r.tag => inflight'[t] = inflight[t]
  BY <1>1 DEF TypeOK
<1>3. inflight' \in [Tag -> CallId \cup {0}]
  BY <1>2
<1> HIDE DEF r
<1>4. \A i \in DOMAIN replies' : replies'[i].tag # r.tag /\ replies'[i].tag \in Tag
  BY <1>1, Elements DEF OwnReply
<1>5. \A i \in DOMAIN requests : requests[i].tag # r.tag /\ requests[i].tag \in Tag
  BY <1>1, Elements DEF TagInv
<1>6. OwnReply'
  <2>1. \A i \in DOMAIN requests' : inflight'[requests'[i].tag] = requests'[i].call
    BY <1>2, <1>5 DEF OwnReply
  <2>2. \A i \in DOMAIN replies' : inflight'[replies'[i].tag] = replies'[i].call
    BY <1>1, <1>2, <1>4 DEF OwnReply
  <2>3. \A i, j \in DOMAIN replies' : replies'[i].tag = replies'[j].tag => i = j
    <3>1. SUFFICES ASSUME NEW i \in DOMAIN replies', NEW j \in DOMAIN replies',
                          replies'[i].tag = replies'[j].tag
                   PROVE  i = j
      OBVIOUS
    <3>2. i + 1 = j + 1
      BY <1>1, <3>1 DEF OwnReply
    <3>3. i \in Nat /\ j \in Nat
      <4>1. replies' \in Seq(Reply)
        BY TailIs DEF TypeOK
      <4>2. QED
        BY <4>1
    <3>4. QED
      BY <3>2, <3>3
  <2>4. QED
    BY <2>1, <2>2, <2>3 DEF OwnReply
<1>7. AskInv'
  BY <1>1 DEF AskInv, RequestOf
<1>8. \A c \in calls' : c.pc # "begin" =>
         /\ c \in running /\ c.tag \in Tag /\ c.tag # r.tag /\ inflight'[c.tag] = c.id
  BY <1>2 DEF TagInv, r
<1>9. \A c \in calls' : c.pc = "begin" => \A t \in Tag : inflight'[t] # c.id
  <2>1. SUFFICES ASSUME NEW c \in running, c.pc = "begin", NEW t \in Tag
                 PROVE  inflight'[t] # c.id
    OBVIOUS
  <2>2. c.id \in CallId /\ c.id # 0
    BY Numbers DEF TypeOK, Call
  <2>3. QED
    BY <1>2, <2>1, <2>2 DEF TagInv
<1>10. \A c, d \in calls' : c.id = d.id => c = d
  BY DEF TagInv
<1>11. \A t, u \in Tag : inflight'[t] = inflight'[u] /\ inflight'[t] # 0 => t = u
  BY <1>2 DEF TagInv
<1>12. \A c \in calls' : c.pc = "send" =>
          /\ \A i \in DOMAIN requests' : requests'[i].tag # c.tag
          /\ \A i \in DOMAIN replies' : replies'[i].tag # c.tag
  BY <1>1, <1>8 DEF TagInv
<1>13. TagInv'
  BY <1>1, <1>8, <1>9, <1>10, <1>11, <1>12 DEF TagInv
<1>14. QED
  BY <1>3, <1>6, <1>7, <1>13
\* transact gives a call its tag.
LEMMA TagBegin ==
    ASSUME TypeOK, BudgetInv, TagInv, OwnReply, AskInv, NEW c \in calls, Begin(c)
    PROVE  /\ TagInv' /\ OwnReply' /\ AskInv'
           /\ inflight' \in [Tag -> CallId \cup {0}] /\ calls' \subseteq Call
<1> DEFINE tag == Least({t \in Tag : inflight[t] = 0})
           n == [c EXCEPT !.pc = "send", !.tag = tag]
<1>1. tag \in Tag /\ inflight[tag] = 0
  BY FreeTag DEF Begin
<1>2. inflight' = [inflight EXCEPT ![tag] = c.id] /\ calls' = (calls \ {c}) \cup {n} /\ c.pc = "begin"
  BY DEF Begin
<1>3. UNCHANGED <<requests, replies>>
  BY DEF Begin, wire
<1>4. c \in Call /\ calls \subseteq Call
  BY DEF TypeOK
<1> HIDE DEF tag
<1>5. n \in Call /\ n.pc = "send" /\ n.tag = tag /\ n.id = c.id
  BY <1>1, <1>4 DEF Call
<1> HIDE DEF n
<1>6. c.id \in CallId /\ c.id # 0
  BY <1>4, Numbers DEF Call
<1>7. /\ inflight \in [Tag -> CallId \cup {0}] /\ inflight'[tag] = c.id
      /\ \A t \in Tag : t # tag => inflight'[t] = inflight[t]
  BY <1>1, <1>2 DEF TypeOK
<1>8. inflight' \in [Tag -> CallId \cup {0}]
  BY <1>2, <1>6, <1>7
<1>9. \A i \in DOMAIN requests : requests[i].tag # tag /\ requests[i].tag \in Tag
  <2>1. \A i \in DOMAIN requests : requests[i].call # 0
    BY Elements, Numbers DEF Request
  <2>2. QED
    BY <1>1, <2>1, Elements DEF OwnReply
<1>10. \A i \in DOMAIN replies : replies[i].tag # tag /\ replies[i].tag \in Tag
  <2>1. \A i \in DOMAIN replies : replies[i].call # 0
    BY Elements, Numbers DEF Reply
  <2>2. QED
    BY <1>1, <2>1, Elements DEF OwnReply
<1>11. OwnReply'
  BY <1>3, <1>7, <1>9, <1>10 DEF OwnReply
<1>12. AskInv'
  BY <1>2, <1>3, <1>5 DEF AskInv, RequestOf
<1>13. \A d \in calls' : d = n \/ (d \in calls /\ d # c /\ d.id # c.id)
  BY <1>2 DEF TagInv
<1>14. TagInv'
  <2>1. \A d \in calls : d.pc # "begin" => d.tag # tag /\ d.tag \in Tag
    BY <1>1, <1>4, Numbers DEF TagInv, Call
  <2>2. \A d \in calls' : d.pc # "begin" => d.tag \in Tag /\ inflight'[d.tag] = d.id
    BY <1>1, <1>5, <1>7, <1>13, <2>1 DEF TagInv
  <2>3. \A d \in calls' : d.pc = "begin" => \A t \in Tag : inflight'[t] # d.id
    BY <1>5, <1>7, <1>13 DEF TagInv
  <2>4. \A d, e \in calls' : d.id = e.id => d = e
    BY <1>5, <1>13 DEF TagInv
  <2>5. \A t, u \in Tag : inflight'[t] = inflight'[u] /\ inflight'[t] # 0 => t = u
    BY <1>2, <1>7 DEF TagInv
  <2>6. \A d \in calls' : d.pc = "send" =>
           /\ \A i \in DOMAIN requests' : requests'[i].tag # d.tag
           /\ \A i \in DOMAIN replies' : replies'[i].tag # d.tag
    BY <1>3, <1>5, <1>9, <1>10, <1>13 DEF TagInv
  <2>7. QED
    BY <1>3, <2>2, <2>3, <2>4, <2>5, <2>6 DEF TagInv
<1>15. calls' \subseteq Call
  BY <1>2, <1>4, <1>5
<1>16. QED
  BY <1>8, <1>11, <1>12, <1>14, <1>15

LEMMA RequestType ==
    ASSUME NEW c \in Call, c.tag \in Tag
    PROVE  /\ RequestOf(c) \in Request /\ RequestOf(c).tag = c.tag /\ RequestOf(c).call = c.id
           /\ RequestOf(c).type = c.req /\ RequestOf(c).more = c.more
           /\ RequestOf(c).fid = c.fid /\ RequestOf(c).own = c.own
  BY DEF RequestOf, Request, Call

\* The request is handed to the transport.
LEMMA TagSend ==
    ASSUME TypeOK, TagInv, OwnReply, AskInv, NEW c \in calls, Send(c)
    PROVE  /\ TagInv' /\ OwnReply' /\ AskInv'
           /\ requests' \in Seq(Request) /\ calls' \subseteq Call
<1> DEFINE n == [c EXCEPT !.pc = "wait"]
           q == RequestOf(c)
           k == Len(requests) + 1
<1>1. calls' = (calls \ {c}) \cup {n} /\ c.pc = "send" /\ requests' = Append(requests, q)
  BY DEF Send
<1>2. UNCHANGED <<inflight, replies>>
  BY DEF Send
<1>3. c \in Call /\ calls \subseteq Call /\ c.tag \in Tag /\ inflight[c.tag] = c.id
  BY <1>1 DEF TypeOK, TagInv
<1>4. /\ n \in Call /\ n.pc = "wait" /\ n.tag = c.tag /\ n.id = c.id
      /\ n.req = c.req /\ n.more = c.more /\ n.fid = c.fid /\ n.own = c.own
  BY <1>3 DEF Call
<1>5. q \in Request /\ q.tag = c.tag /\ q.call = c.id
  BY <1>3, RequestType
<1>6. RequestOf(n) = q
  BY <1>4 DEF RequestOf
<1> HIDE DEF n, q
<1>7. /\ requests' \in Seq(Request) /\ DOMAIN requests' = DOMAIN requests \cup {k} /\ k \notin DOMAIN requests
      /\ requests'[k] = q /\ \A i \in DOMAIN requests : requests'[i] = requests[i]
  BY <1>1, <1>5, AppendIs DEF TypeOK
<1> HIDE DEF k
<1>8. /\ \A i \in DOMAIN requests : requests[i].tag # c.tag
      /\ \A i \in DOMAIN replies : replies[i].tag # c.tag
  BY <1>1 DEF TagInv
<1>9. \A d \in calls' : d = n \/ (d \in calls /\ d # c /\ d.id # c.id)
  BY <1>1 DEF TagInv
<1>10. \A d \in calls' : d.pc # "begin" => d.tag \in Tag /\ inflight[d.tag] = d.id
  BY <1>3, <1>4, <1>9 DEF TagInv
<1>11. OwnReply'
  BY <1>2, <1>3, <1>5, <1>7 DEF OwnReply
<1>12. AskInv'
  <2>1. SUFFICES ASSUME NEW d \in calls', d.pc = "wait"
                 PROVE  /\ \A i \in DOMAIN requests' : requests'[i].tag = d.tag => requests'[i] = RequestOf(d)
                        /\ \A i \in DOMAIN replies : replies[i].tag = d.tag =>
                              replies[i].type = d.req /\ replies[i].more = d.more
    BY <1>2 DEF AskInv, RequestOf
  <2>2. CASE d = n
    BY <1>4, <1>5, <1>6, <1>7, <1>8, <2>2
  <2>3. CASE d # n
    <3>1. d \in calls /\ d.id # c.id
      BY <1>9, <2>3
    <3>2. d.tag # c.tag
      BY <1>3, <1>10, <2>1, <3>1
    <3>3. QED
      BY <1>5, <1>7, <2>1, <3>1, <3>2 DEF AskInv
  <2>4. QED
    BY <2>2, <2>3
<1>13. TagInv'
  <2>1. \A d \in calls' : d.pc = "begin" => \A t \in Tag : inflight[t] # d.id
    BY <1>4, <1>9 DEF TagInv
  <2>2. \A d, e \in calls' : d.id = e.id => d = e
    BY <1>4, <1>9 DEF TagInv
  <2>3. ASSUME NEW d \in calls', d.pc = "send"
        PROVE  /\ \A i \in DOMAIN requests' : requests'[i].tag # d.tag
               /\ \A i \in DOMAIN replies : replies[i].tag # d.tag
    <3>1. d \in calls /\ d.id # c.id
      BY <1>4, <1>9, <2>3
    <3>2. d.tag # c.tag
      BY <1>3, <1>10, <2>3, <3>1
    <3>3. QED
      BY <1>5, <1>7, <2>3, <3>1, <3>2 DEF TagInv
  <2>4. \A i, j \in DOMAIN requests' : requests'[i].tag = requests'[j].tag => i = j
    BY <1>5, <1>7, <1>8 DEF TagInv
  <2>5. \A i \in DOMAIN requests', j \in DOMAIN replies : requests'[i].tag # replies[j].tag
    BY <1>5, <1>7, <1>8 DEF TagInv
  <2>6. \A t, u \in Tag : inflight[t] = inflight[u] /\ inflight[t] # 0 => t = u
    BY DEF TagInv
  <2>7. QED
    BY <1>2, <1>10, <2>1, <2>2, <2>3, <2>4, <2>5, <2>6 DEF TagInv
<1>14. calls' \subseteq Call
  BY <1>1, <1>3, <1>4
<1>15. QED
  BY <1>7, <1>11, <1>12, <1>13, <1>14

\* The reply that the server makes of a request.
ReplyTo(q, answer) ==
    [tag |-> q.tag, call |-> q.call, type |-> q.type, more |-> q.more, result |-> answer]

LEMMA ReplyType ==
    ASSUME NEW q \in Request, NEW answer \in {"ok", "no", "inuse", "unknown", "long"}
    PROVE  /\ ReplyTo(q, answer) \in Reply /\ ReplyTo(q, answer).tag = q.tag
           /\ ReplyTo(q, answer).call = q.call /\ ReplyTo(q, answer).type = q.type
           /\ ReplyTo(q, answer).more = q.more /\ ReplyTo(q, answer).result = answer
  BY DEF ReplyTo, Reply, Request

\* A request becomes a reply.
LEMMA TagServe ==
    ASSUME TypeOK, TagInv, OwnReply, AskInv, NEW i \in DOMAIN requests,
           NEW answer \in {"ok", "no", "inuse", "unknown", "long"},
           requests' = RemoveAt(requests, i),
           replies' = Append(replies, ReplyTo(requests[i], answer)), UNCHANGED <<calls, inflight>>
    PROVE  /\ TagInv' /\ OwnReply' /\ AskInv'
           /\ requests' \in Seq(Request) /\ replies' \in Seq(Reply)
<1> DEFINE q == requests[i]
           r == ReplyTo(q, answer)
           k == Len(replies) + 1
<1>1. q \in Request /\ q.tag \in Tag
  BY Elements
<1>2. r \in Reply /\ r.tag = q.tag /\ r.call = q.call /\ r.type = q.type /\ r.more = q.more
  BY <1>1, ReplyType
<1>3. /\ replies' \in Seq(Reply) /\ DOMAIN replies' = DOMAIN replies \cup {k} /\ k \notin DOMAIN replies
      /\ replies'[k] = r /\ \A j \in DOMAIN replies : replies'[j] = replies[j]
  BY <1>2, AppendIs DEF TypeOK
<1>4. /\ requests' \in Seq(Request)
      /\ \A j \in DOMAIN requests' :
            Before(i, j) \in DOMAIN requests \ {i} /\ requests'[j] = requests[Before(i, j)]
      /\ \A j, l \in DOMAIN requests' : j < l => Before(i, j) < Before(i, l)
  BY RemoveIs DEF TypeOK
<1> HIDE DEF r, k
<1>5. \A j \in DOMAIN requests' : requests'[j].tag # q.tag
  BY <1>4 DEF TagInv
<1>6. \A j \in DOMAIN replies : replies[j].tag # q.tag
  BY DEF TagInv
<1>7. OwnReply'
  <2>1. \A j \in DOMAIN requests' : inflight[requests'[j].tag] = requests'[j].call
    BY <1>4 DEF OwnReply
  <2>2. \A j \in DOMAIN replies' : inflight[replies'[j].tag] = replies'[j].call
    BY <1>2, <1>3 DEF OwnReply
  <2>3. \A j, l \in DOMAIN replies' : replies'[j].tag = replies'[l].tag => j = l
    BY <1>2, <1>3, <1>6 DEF OwnReply
  <2>4. QED
    BY <2>1, <2>2, <2>3 DEF OwnReply
<1>8. AskInv'
  <2>1. SUFFICES ASSUME NEW d \in calls, d.pc = "wait"
                 PROVE  /\ \A j \in DOMAIN requests' : requests'[j].tag = d.tag => requests'[j] = RequestOf(d)
                        /\ \A j \in DOMAIN replies' : replies'[j].tag = d.tag =>
                              replies'[j].type = d.req /\ replies'[j].more = d.more
    BY DEF AskInv, RequestOf
  <2>2. \A j \in DOMAIN requests : requests[j].tag = d.tag => requests[j] = RequestOf(d)
    BY <2>1 DEF AskInv
  <2>3. RequestOf(d).type = d.req /\ RequestOf(d).more = d.more
    BY DEF RequestOf
  <2>4. r.tag = d.tag => r.type = d.req /\ r.more = d.more
    BY <1>2, <2>2, <2>3
  <2>5. \A j \in DOMAIN replies : replies[j].tag = d.tag => replies[j].type = d.req /\ replies[j].more = d.more
    BY <2>1 DEF AskInv
  <2>6. QED
    BY <1>3, <1>4, <2>2, <2>4, <2>5
<1>9. TagInv'
  <2>1. \A j, l \in DOMAIN requests' : requests'[j].tag = requests'[l].tag => j = l
    <3>1. SUFFICES ASSUME NEW j \in DOMAIN requests', NEW l \in DOMAIN requests',
                          requests'[j].tag = requests'[l].tag
                   PROVE  j = l
      OBVIOUS
    <3>2. Before(i, j) = Before(i, l)
      BY <1>4, <3>1 DEF TagInv
    <3>3. i \in Nat /\ j \in Nat /\ l \in Nat
      BY <1>4 DEF TypeOK
    <3>4. QED
      BY <3>2, <3>3 DEF Before
  <2>2. \A j \in DOMAIN requests', l \in DOMAIN replies' : requests'[j].tag # replies'[l].tag
    BY <1>2, <1>3, <1>4, <1>5 DEF TagInv
  <2>3. ASSUME NEW d \in calls, d.pc = "send"
        PROVE  /\ \A j \in DOMAIN requests' : requests'[j].tag # d.tag
               /\ \A j \in DOMAIN replies' : replies'[j].tag # d.tag
    BY <1>2, <1>3, <1>4, <2>3 DEF TagInv
  <2>4. QED
    BY <2>1, <2>2, <2>3 DEF TagInv
<1>10. QED
  BY <1>3, <1>4, <1>7, <1>8, <1>9

\* The connection fails: less is under way.
LEMMA TagBreak ==
    ASSUME TypeOK, TagInv, OwnReply, AskInv, Break
    PROVE  /\ TagInv' /\ OwnReply' /\ AskInv'
           /\ requests' \in Seq(Request) /\ replies' \in Seq(Reply)
<1>1. requests' = <<>> /\ UNCHANGED <<calls, inflight>>
  BY DEF Break, client
<1>2. replies' \in Seq(Reply) /\ \A i \in DOMAIN replies' : i \in DOMAIN replies /\ replies'[i] = replies[i]
  BY PrefixIs DEF Break, TypeOK
<1>3. DOMAIN requests' = {} /\ requests' \in Seq(Request)
  BY <1>1
<1>4. OwnReply'
  BY <1>1, <1>2, <1>3 DEF OwnReply
<1>5. AskInv'
  BY <1>1, <1>2, <1>3 DEF AskInv
<1>6. TagInv'
  BY <1>1, <1>2, <1>3 DEF TagInv
<1>7. QED
  BY <1>2, <1>3, <1>4, <1>5, <1>6
-----------------------------------------------------------------------------
(* The handles and the calls that use them.                                *)

\* The handle of a fid is made or changes hands; it is given up.
Put(f, mode) == {h \in handles : h.fid # f} \cup {Owned(f, mode)}
Without(f) == {h \in handles : h.fid # f}

\* Only the handle of f changes.
Touches(f) == \A h \in Handle : h.fid # f => (h \in handles <=> h \in handles')

HasHandle(f) == \E h \in handles : h.fid = f
OneHandle == \A g, h \in handles : g.fid = h.fid => g = h
OneCall == \A c, d \in calls : c # d /\ c.own = d.own => c.own = NoFid

LEMMA HandleFields ==
    /\ \A h \in Handle : h.fid \in Fid /\ h.kind \in {"new", "dir", "file", "clunk"} /\ h = Owned(h.fid, h.kind)
    /\ \A f, mode : Owned(f, mode).fid = f /\ Owned(f, mode).kind = mode
    /\ \A f \in Fid, mode \in {"new", "dir", "file", "clunk"} : Owned(f, mode) \in Handle
  BY DEF Handle, Owned

LEMMA PoolFacts ==
    ASSUME TypeOK, PoolInv
    PROVE  \A f \in Fid : HasHandle(f) <=> f < next /\ f \notin freeList
<1>1. {h.fid : h \in handles} = (0..(next - 1)) \ freeList
  BY DEF PoolInv
<1>2. \A f : HasHandle(f) <=> f \in {h.fid : h \in handles}
  BY DEF HasHandle
<1>3. \A f \in Fid : f \in 0..(next - 1) <=> f < next
  BY Numbers DEF TypeOK, Fid
<1>4. QED
  BY <1>1, <1>2, <1>3

LEMMA PoolFrom ==
    ASSUME next' \in 0..MaxFid, handles' \subseteq Handle, freeList' \subseteq Fid,
           \A f \in Fid : HasHandle(f)' <=> f < next' /\ f \notin freeList'
    PROVE  PoolInv'
<1>1. \A f \in 0..(next' - 1) : f \in Fid /\ f < next'
  <2>1. next' \in Nat /\ next' <= MaxFid /\ MaxFid \in Nat
    BY Numbers
  <2>2. \A n \in Nat : \A f \in 0..(n - 1) : f \in Nat /\ f < n
    OBVIOUS
  <2>3. \A f \in Nat : f < MaxFid => f \in Fid
    BY <2>1 DEF Fid
  <2>4. \A f \in 0..(next' - 1) : f \in Nat /\ f < next'
    BY ONLY <2>1, <2>2
  <2>5. \A n, f, m \in Nat : f < n /\ n <= m => f < m
    OBVIOUS
  <2>6. \A f \in 0..(next' - 1) : f < MaxFid
    BY ONLY <2>1, <2>4, <2>5
  <2>7. QED
    BY ONLY <2>3, <2>4, <2>6
<1>2. \A h \in handles' : h.fid \in Fid
  <2>1. \A h \in Handle : h.fid \in Fid
    BY HandleFields
  <2>2. QED
    BY <2>1
<1>3. {h.fid : h \in handles'} \subseteq (0..(next' - 1)) \ freeList'
  <2>1. SUFFICES ASSUME NEW h \in handles'
                 PROVE  h.fid \in (0..(next' - 1)) \ freeList'
    OBVIOUS
  <2>2. h.fid \in Nat /\ HasHandle(h.fid)'
    BY <1>2, Numbers DEF HasHandle
  <2>3. h.fid < next' /\ h.fid \notin freeList'
    BY <1>2, <2>2
  <2>4. QED
    BY <2>2, <2>3
<1>4. (0..(next' - 1)) \ freeList' \subseteq {h.fid : h \in handles'}
  <2>1. SUFFICES ASSUME NEW f \in 0..(next' - 1), f \notin freeList'
                 PROVE  f \in {h.fid : h \in handles'}
    OBVIOUS
  <2>2. f \in Fid /\ f < next'
    BY <1>1
  <2>3. HasHandle(f)'
    BY <2>1, <2>2
  <2>4. QED
    BY <2>3 DEF HasHandle
<1>5. QED
  BY <1>3, <1>4 DEF PoolInv

LEMMA OwnerFrom ==
    ASSUME TypeOK', PoolInv', OneHandle', OneCall'
    PROVE  OneOwner'
<1>1. \A f \in 0..(next' - 1) : (f \in freeList') # (\E h \in handles' : h.fid = f)
  BY DEF PoolInv
<1>2. QED
  BY <1>1 DEF OneOwner, OneHandle, OneCall

LEMMA OwnerTo == OneOwner => OneHandle /\ OneCall
  BY DEF OneOwner, OneHandle, OneCall

LEMMA PutFacts ==
    ASSUME handles \subseteq Handle, OneHandle,
           NEW f \in Fid, NEW mode \in {"new", "dir", "file", "clunk"}, handles' = Put(f, mode)
    PROVE  /\ handles' \subseteq Handle /\ OneHandle' /\ Touches(f)
           /\ Owned(f, mode) \in handles' /\ \A h \in handles' : h.fid = f => h = Owned(f, mode)
           /\ \A g \in Fid : HasHandle(g)' <=> HasHandle(g) \/ g = f
  BY HandleFields DEF Put, OneHandle, Touches, HasHandle

LEMMA WithoutFacts ==
    ASSUME handles \subseteq Handle, OneHandle, NEW f \in Fid, handles' = Without(f)
    PROVE  /\ handles' \subseteq Handle /\ OneHandle' /\ Touches(f)
           /\ \A g \in Fid : HasHandle(g)' <=> HasHandle(g) /\ g # f
  BY HandleFields DEF Without, OneHandle, Touches, HasHandle

\* FidPool::get: the fid is nobody's.
LEMMA GetFacts ==
    ASSUME TypeOK, PoolInv, Get
    PROVE  /\ get \in Fid /\ ~HasHandle(get) /\ next' \in 0..MaxFid
           /\ freeList' \subseteq {f \in Fid : f < next'}
           /\ \A f \in Fid : (f < next' /\ f \notin freeList') <=> (f < next /\ f \notin freeList) \/ f = get
<1>1. /\ next \in 0..MaxFid /\ freeList \subseteq {f \in Fid : f < next} /\ next \in Nat
      /\ freeList \subseteq Nat /\ get \in Fid
  BY Numbers DEF TypeOK, Get
<1>2. CASE freeList = {}
  <2>1. get = next /\ next' = next + 1 /\ freeList' = {}
    BY <1>2 DEF get, Get
  <2>2. next < MaxFid
    BY <1>1, <2>1, Numbers DEF Fid
  <2>3. ~HasHandle(get)
    BY <1>1, <2>1, PoolFacts
  <2>4. \A f \in Fid : f < next + 1 <=> f < next \/ f = next
    BY <1>1, Numbers
  <2>5. QED
    BY <1>1, <1>2, <2>1, <2>2, <2>3, <2>4, Numbers
<1>3. CASE freeList # {}
  <2>1. get \in freeList
    BY <1>1, <1>3, LeastIn DEF get
  <2>2. next' = next /\ freeList' = freeList \ {get}
    BY <1>3 DEF Get
  <2>3. ~HasHandle(get)
    BY <1>1, <2>1, PoolFacts
  <2>4. QED
    BY <1>1, <2>1, <2>2, <2>3
<1>4. QED
  BY <1>2, <1>3

\* A call owns and borrows what is a handle.
LEMMA ShapeFacts ==
    ASSUME TypeOK, CallInv, NEW c \in calls
    PROVE  /\ c \in Call
           /\ c.op = "io" => c.own = NoFid
           /\ c.op = "clunk" => c.own \in Fid /\ Owned(c.own, "clunk") \in handles
           /\ c.op \notin {"io", "clunk"} => c.own \in Fid /\ Owned(c.own, "new") \in handles
           /\ c.op \in {"io", "openDir", "openFile"} =>
                 c.fid \in Fid /\ (Owned(c.fid, "dir") \in handles \/ Owned(c.fid, "file") \in handles)
           /\ c.op \notin {"io", "openDir", "openFile"} => c.fid = NoFid
<1>1. Shape(c) /\ c \in Call /\ handles \subseteq Handle
  BY DEF CallInv, TypeOK
<1>2. \A f, mode : Owned(f, mode) \in handles => f \in Fid
  BY <1>1, HandleFields
<1>3. QED
  BY <1>1, <1>2 DEF Shape

\* Of the calls that go on nothing is taken away.
LEMMA CallsKept ==
    ASSUME TypeOK, CallInv, OneCall,
           NEW running \in SUBSET calls, NEW N \in SUBSET Call, calls' = running \cup N,
           NEW f, Touches(f), handles' \subseteq Handle,
           \A d \in running : f \in Fid => d.own # f /\ d.fid # f,
           \A n, m \in N : n = m,
           \A n \in N : Shape(n)' /\ (n.own \in Fid => \A d \in running : d.own # n.own)
    PROVE  CallInv' /\ OneCall' /\ calls' \subseteq Call
<1>1. ASSUME NEW d \in running
      PROVE  Shape(d)'
  <2>1. d \in Call /\ Shape(d)
    BY DEF TypeOK, CallInv
  <2>2. \A g \in {d.own, d.fid}, mode \in {"new", "dir", "file", "clunk"} :
           Owned(g, mode) \in handles => Owned(g, mode) \in handles'
    <3>1. SUFFICES ASSUME NEW g \in {d.own, d.fid}, NEW mode \in {"new", "dir", "file", "clunk"},
                          Owned(g, mode) \in handles
                   PROVE  Owned(g, mode) \in handles'
      OBVIOUS
    <3>2. Owned(g, mode) \in Handle /\ g \in Fid /\ Owned(g, mode).fid = g
      BY <3>1, HandleFields DEF TypeOK
    <3>3. g # f
      BY <3>2
    <3>4. QED
      BY <3>1, <3>2, <3>3 DEF Touches
  <2>3. QED
    BY <2>1, <2>2 DEF Shape
<1>2. CallInv'
  BY <1>1 DEF CallInv
<1>3. calls' \subseteq Call
  BY DEF TypeOK
<1>4. OneCall'
  <2>1. SUFFICES ASSUME NEW c \in calls', NEW d \in calls', c # d, c.own = d.own
                 PROVE  c.own = NoFid
    BY DEF OneCall
  <2>2. c.own \in Fid \cup {NoFid}
    BY <1>3 DEF Call
  <2>3. QED
    BY <2>1, <2>2 DEF OneCall
<1>5. QED
  BY <1>2, <1>3, <1>4
-----------------------------------------------------------------------------
(* The tags that are needed.                                               *)

LEMMA CountLess ==
    ASSUME NEW S, IsFiniteSet(S), NEW T
    PROVE  /\ T \subseteq S => IsFiniteSet(T) /\ Cardinality(T) <= Cardinality(S)
           /\ \A x : T \subseteq S \cup {x} => IsFiniteSet(T) /\ Cardinality(T) <= Cardinality(S) + 1
           /\ \A x \in S : T \subseteq S \ {x} => IsFiniteSet(T) /\ Cardinality(T) <= Cardinality(S) - 1
           /\ \A x \in S : \A y : T \subseteq (S \ {x}) \cup {y} => IsFiniteSet(T) /\ Cardinality(T) <= Cardinality(S)
<1>1. Cardinality(S) \in Nat
  BY FS_CardinalityType
<1>2. \A X : IsFiniteSet(X) /\ T \subseteq X =>
         IsFiniteSet(T) /\ Cardinality(T) <= Cardinality(X) /\ Cardinality(T) \in Nat /\ Cardinality(X) \in Nat
  BY FS_Subset, FS_CardinalityType
<1>3. \A x : IsFiniteSet(S \cup {x}) /\ Cardinality(S \cup {x}) <= Cardinality(S) + 1
  BY <1>1, FS_AddElement
<1>4. \A x \in S : IsFiniteSet(S \ {x}) /\ Cardinality(S \ {x}) = Cardinality(S) - 1
  BY <1>1, FS_RemoveElement
<1>5. \A x \in S : \A y : IsFiniteSet((S \ {x}) \cup {y}) /\ Cardinality((S \ {x}) \cup {y}) <= Cardinality(S)
  <2>1. SUFFICES ASSUME NEW x \in S, NEW y
                 PROVE  IsFiniteSet((S \ {x}) \cup {y}) /\ Cardinality((S \ {x}) \cup {y}) <= Cardinality(S)
    OBVIOUS
  <2>2. IsFiniteSet(S \ {x}) /\ Cardinality(S \ {x}) = Cardinality(S) - 1
    BY <1>4
  <2>3. /\ IsFiniteSet((S \ {x}) \cup {y})
        /\ Cardinality((S \ {x}) \cup {y}) = Cardinality(S \ {x})
           \/ Cardinality((S \ {x}) \cup {y}) = Cardinality(S \ {x}) + 1
    BY <2>2, FS_AddElement
  <2>4. QED
    BY <1>1, <2>2, <2>3
<1>6. T \subseteq S => IsFiniteSet(T) /\ Cardinality(T) <= Cardinality(S)
  BY <1>2
<1>7. ASSUME NEW x, T \subseteq S \cup {x}
      PROVE  IsFiniteSet(T) /\ Cardinality(T) <= Cardinality(S) + 1
  <2>1. IsFiniteSet(T) /\ Cardinality(T) <= Cardinality(S \cup {x}) /\ Cardinality(T) \in Nat
        /\ Cardinality(S \cup {x}) \in Nat
    BY <1>2, <1>3, <1>7
  <2>2. Cardinality(S \cup {x}) <= Cardinality(S) + 1
    BY <1>3
  <2>3. QED
    BY ONLY <1>1, <2>1, <2>2
<1>8. ASSUME NEW x \in S, T \subseteq S \ {x}
      PROVE  IsFiniteSet(T) /\ Cardinality(T) <= Cardinality(S) - 1
  <2>1. IsFiniteSet(T) /\ Cardinality(T) <= Cardinality(S \ {x})
    BY <1>2, <1>4, <1>8
  <2>2. QED
    BY <1>4, <2>1
<1>9. ASSUME NEW x \in S, NEW y, T \subseteq (S \ {x}) \cup {y}
      PROVE  IsFiniteSet(T) /\ Cardinality(T) <= Cardinality(S)
  <2>1. IsFiniteSet(T) /\ Cardinality(T) <= Cardinality((S \ {x}) \cup {y}) /\ Cardinality(T) \in Nat
        /\ Cardinality((S \ {x}) \cup {y}) \in Nat
    BY <1>2, <1>5, <1>9
  <2>2. Cardinality((S \ {x}) \cup {y}) <= Cardinality(S)
    BY <1>5
  <2>3. QED
    BY ONLY <1>1, <2>1, <2>2
<1>10. QED
  BY <1>6, <1>7, <1>8, <1>9

\* The numbers after a step.
LEMMA CountsAfter ==
    ASSUME IsFiniteSet(calls'), IsFiniteSet(handles')
    PROVE  /\ Cardinality(Busy') \in Nat /\ Cardinality(Beginning') \in Nat /\ Cardinality(Kept') \in Nat
           /\ Cardinality(Busy') + Cardinality(Beginning') + Cardinality(Kept') <= MaxTag => BudgetInv'
<1>1. Beginning' \subseteq calls' /\ Kept' \subseteq handles' /\ Busy' \subseteq Tag
  BY DEF Beginning, Kept, Busy
<1>2. IsFiniteSet(Tag)
  BY FS_Interval, Numbers DEF Tag
<1>3. IsFiniteSet(Beginning') /\ IsFiniteSet(Kept') /\ IsFiniteSet(Busy')
  BY <1>1, <1>2, FS_Subset
<1>4. QED
  BY <1>3, FS_CardinalityType DEF BudgetInv, Busy, Beginning, Kept

-----------------------------------------------------------------------------
(* The fids, as the server knows them.                                     *)

Unnamed(f) == \A i \in DOMAIN requests : ~Names(requests[i], f)

\* Calls end and others begin, while nothing is sent or served.  A handle that goes
\* is one that the server has forgotten; one that comes to the application is one
\* that it knows.
LEMMA FidKeep ==
    ASSUME TypeOK, CallInv, NoneForgotten, FidInv,
           UNCHANGED <<requests, table, broken>>,
           replies' = replies \/ (replies # <<>> /\ replies' = Tail(replies)),
           NEW running \in SUBSET calls, NEW N \in SUBSET Call, calls' = running \cup N,
           handles' \subseteq Handle,
           ~broken => \A f \in Fid : HasHandle(f) => HasHandle(f)' \/ (table[f] = "none" /\ Unnamed(f)),
           ~broken => \A h \in handles' : h.kind \in {"dir", "file"} =>
              h \in handles \/ (table[h.fid] # "none" /\ \A i \in DOMAIN requests : requests[i].own # h.fid),
           ~broken => \A d \in calls : d.op = "clunk" /\ d.pc = "wait" => d \in running \/ Unnamed(d.own),
           \A n \in N : n.pc = "begin",
           ~broken => \A n \in N : Makes(n.req, n.more) => table[n.own] = "none" /\ Unnamed(n.own),
           ~broken => \A n \in N : n.req = "Topen" => table[n.own] # "none",
           ~broken => \A n \in N : n.own \in Fid => n.op = "clunk" \/ \A i \in DOMAIN requests : requests[i].own # n.own
    PROVE  NoneForgotten' /\ FidInv'
<1>1. CASE broken
  BY <1>1 DEF NoneForgotten, FidInv
<1>2. CASE ~broken
  <2>1. RequestInv /\ TableInv
    BY <1>2 DEF FidInv
  <2>2. \A i \in DOMAIN replies' : \E k \in DOMAIN replies : replies'[i] = replies[k]
    <3>1. CASE replies' = replies
      BY <3>1
    <3>2. CASE replies # <<>> /\ replies' = Tail(replies)
      BY <3>2, TailIs DEF TypeOK
    <3>3. QED
      BY <3>1, <3>2
  <2>3. NoneForgotten'
    <3>1. SUFFICES ASSUME NEW f \in Fid, table[f] # "none"
                   PROVE  HasHandle(f)'
      BY DEF NoneForgotten, HasHandle
    <3>2. HasHandle(f)
      BY <1>2, <3>1 DEF NoneForgotten, HasHandle
    <3>3. QED
      BY <1>2, <3>1, <3>2
  <2>4. RequestInv'
    <3>1. SUFFICES ASSUME NEW i \in DOMAIN requests
                   PROVE  LET q == requests[i] IN
                          /\ \A f \in Fid : Names(q, f) => HasHandle(f)'
                          /\ q.type \in {"Twalk", "Tio"} => q.fid \in Fid /\ table[q.fid] # "none"
                          /\ q.type # "Tio" => q.own \in Fid
                          /\ q.type = "Topen" => table[q.own] # "none"
                          /\ Makes(q.type, q.more) =>
                                /\ table[q.own] = "none"
                                /\ \A j \in DOMAIN requests : j # i /\ Names(requests[j], q.own) => requests[j].type = "Tclunk"
                          /\ q.type = "Tclunk" =>
                                /\ \E c \in calls' : c.op = "clunk" /\ c.pc = "wait" /\ c.own = q.own
                                /\ \A j \in DOMAIN requests : j > i => ~Names(requests[j], q.own)
                          /\ \A c \in calls' : c.own = q.own /\ c.own \in Fid =>
                                c.op = "clunk" \/ (c.pc = "wait" /\ c.tag = q.tag)
                          /\ \A h \in handles' : h.kind \in {"dir", "file"} => h.fid # q.own
      BY DEF RequestInv, HasHandle, Names
    <3> DEFINE q == requests[i]
    <3>2. /\ \A f \in Fid : Names(q, f) => HasHandle(f)
          /\ q.type \in {"Twalk", "Tio"} => q.fid \in Fid /\ table[q.fid] # "none"
          /\ q.type # "Tio" => q.own \in Fid
          /\ q.type = "Topen" => table[q.own] # "none"
          /\ Makes(q.type, q.more) =>
                /\ table[q.own] = "none"
                /\ \A j \in DOMAIN requests : j # i /\ Names(requests[j], q.own) => requests[j].type = "Tclunk"
          /\ q.type = "Tclunk" =>
                /\ \E c \in calls : c.op = "clunk" /\ c.pc = "wait" /\ c.own = q.own
                /\ \A j \in DOMAIN requests : j > i => ~Names(requests[j], q.own)
      BY <2>1 DEF RequestInv, HasHandle
    <3>3. \A c \in calls : c.own = q.own /\ c.own \in Fid => c.op = "clunk" \/ (c.pc = "wait" /\ c.tag = q.tag)
      BY <2>1 DEF RequestInv
    <3>4. \A h \in handles : h.kind \in {"dir", "file"} => h.fid # q.own
      BY <2>1 DEF RequestInv
    <3>5. \A f \in Fid : Names(q, f) => HasHandle(f)'
      BY <1>2, <3>2 DEF Unnamed
    <3>6. q.type = "Tclunk" => \E c \in calls' : c.op = "clunk" /\ c.pc = "wait" /\ c.own = q.own
      <4>1. SUFFICES ASSUME q.type = "Tclunk"
                     PROVE  \E c \in calls' : c.op = "clunk" /\ c.pc = "wait" /\ c.own = q.own
        OBVIOUS
      <4>2. PICK c \in calls : c.op = "clunk" /\ c.pc = "wait" /\ c.own = q.own
        BY <3>2, <4>1
      <4>3. Names(q, c.own)
        BY <3>2, <4>1, <4>2 DEF Names
      <4>4. c \in running
        BY <1>2, <4>2, <4>3 DEF Unnamed
      <4>5. QED
        BY <4>2, <4>4
    <3>7. \A c \in calls' : c.own = q.own /\ c.own \in Fid => c.op = "clunk" \/ (c.pc = "wait" /\ c.tag = q.tag)
      BY <1>2, <3>3
    <3>8. \A h \in handles' : h.kind \in {"dir", "file"} => h.fid # q.own
      BY <1>2, <3>4
    <3>9. QED
      BY <3>2, <3>5, <3>6, <3>7, <3>8
  <2>5. TableInv'
    <3>1. \A h \in handles' : h.kind \in {"dir", "file"} => table[h.fid] # "none"
      BY <1>2, <2>1 DEF TableInv
    <3>2. \A c \in calls' : c.pc # "wait" /\ Makes(c.req, c.more) => table[c.own] = "none" /\ Unnamed(c.own)
      BY <1>2, <2>1 DEF TableInv, Unnamed
    <3>3. \A c \in calls' : c.req = "Topen" => table[c.own] # "none"
      BY <1>2, <2>1 DEF TableInv
    <3>4. ASSUME NEW c \in calls', NEW i \in DOMAIN replies', c.pc = "wait", c.tag = replies'[i].tag
          PROVE  /\ c.req = "Tclunk" => table[c.own] = "none" /\ Unnamed(c.own)
                 /\ replies'[i].result = "ok" /\ c.req \in {"Tattach", "Twalk"} => table[c.own] # "none"
      <4>1. c \in calls
        BY <3>4
      <4>2. PICK k \in DOMAIN replies : replies'[i] = replies[k]
        BY <2>2
      <4>3. QED
        BY <2>1, <3>4, <4>1, <4>2 DEF TableInv, Unnamed
    <3>5. QED
      BY <3>1, <3>2, <3>3, <3>4 DEF TableInv, Unnamed, Makes, Names
  <2>6. QED
    BY <2>3, <2>4, <2>5 DEF FidInv
<1>3. QED
  BY <1>1, <1>2
-----------------------------------------------------------------------------
(* A step of the client: some calls go on, at most one begins, at most one *)
(* handle changes.                                                         *)

LEMMA RepliesKept ==
    ASSUME TypeOK, FidsFresh, FidsKnown,
           replies' = replies \/ (replies # <<>> /\ replies' = Tail(replies))
    PROVE  FidsFresh' /\ FidsKnown' /\ replies' \in Seq(Reply)
<1>1. CASE replies' = replies
  BY <1>1 DEF FidsFresh, FidsKnown, TypeOK
<1>2. CASE replies # <<>> /\ replies' = Tail(replies)
  BY <1>2, TailIs DEF FidsFresh, FidsKnown, TypeOK
<1>3. QED
  BY <1>1, <1>2

LEMMA ClientStep ==
    ASSUME IInv, TagInv', OwnReply', AskInv', inflight' \in [Tag -> CallId \cup {0}],
           UNCHANGED <<requests, table, broken>>,
           replies' = replies \/ (replies # <<>> /\ replies' = Tail(replies)),
           next' \in 0..MaxFid, freeList' \subseteq {f \in Fid : f < next'},
           handles' \subseteq Handle, OneHandle', PoolInv', BudgetInv',
           NEW running \in SUBSET calls, NEW N \in SUBSET Call, calls' = running \cup N,
           NEW f, Touches(f),
           \A d \in running : f \in Fid => d.own # f /\ d.fid # f,
           \A n, m \in N : n = m,
           \A n \in N : n.pc = "begin" /\ Shape(n)' /\ (n.own \in Fid => \A d \in running : d.own # n.own),
           ~broken => \A g \in Fid : HasHandle(g) => HasHandle(g)' \/ (table[g] = "none" /\ Unnamed(g)),
           ~broken => \A h \in handles' : h.kind \in {"dir", "file"} =>
              h \in handles \/ (table[h.fid] # "none" /\ \A i \in DOMAIN requests : requests[i].own # h.fid),
           ~broken => \A d \in calls : d.op = "clunk" /\ d.pc = "wait" => d \in running \/ Unnamed(d.own),
           ~broken => \A n \in N : Makes(n.req, n.more) => table[n.own] = "none" /\ Unnamed(n.own),
           ~broken => \A n \in N : n.req = "Topen" => table[n.own] # "none",
           ~broken => \A n \in N : n.own \in Fid => n.op = "clunk" \/ \A i \in DOMAIN requests : requests[i].own # n.own
    PROVE  IInv'
<1>1. TypeOK /\ OneOwner /\ CallInv /\ NoneForgotten /\ FidInv /\ FidsFresh /\ FidsKnown
  BY DEF IInv
<1>2. OneCall
  BY <1>1, OwnerTo
<1>3. CallInv' /\ OneCall' /\ calls' \subseteq Call
  <2>1. /\ TypeOK /\ CallInv /\ OneCall
        /\ running \in SUBSET calls /\ N \in SUBSET Call /\ calls' = running \cup N
        /\ Touches(f) /\ handles' \subseteq Handle
        /\ \A d \in running : f \in Fid => d.own # f /\ d.fid # f
        /\ \A n, m \in N : n = m
        /\ \A n \in N : Shape(n)' /\ (n.own \in Fid => \A d \in running : d.own # n.own)
    BY <1>1, <1>2
  <2>2. QED
    BY ONLY <2>1, CallsKept
<1>4. FidsFresh' /\ FidsKnown' /\ replies' \in Seq(Reply)
  <2>1. TypeOK /\ FidsFresh /\ FidsKnown /\ (replies' = replies \/ (replies # <<>> /\ replies' = Tail(replies)))
    BY <1>1
  <2>2. QED
    BY ONLY <2>1, RepliesKept
<1>5. NoneForgotten' /\ FidInv'
  <2>1. \A n \in N : n.pc = "begin"
    OBVIOUS
  <2>2. QED
    BY <1>1, <2>1, FidKeep
<1>6. TypeOK'
  <2>1. broken' \in BOOLEAN /\ requests' \in Seq(Request) /\ table' \in [Fid -> {"none", "path", "open"}]
    BY <1>1 DEF TypeOK
  <2>2. QED
    BY <1>3, <1>4, <2>1 DEF TypeOK
<1>7. OneOwner'
  BY <1>3, <1>6, OwnerFrom
<1>8. QED
  BY <1>3, <1>4, <1>5, <1>6, <1>7 DEF IInv

LEMMA NewCallType ==
    ASSUME TypeOK, BudgetInv, TagInv, OwnReply,
           NEW op \in {"attach", "openDir", "openFile", "readDir", "io", "clunk"},
           NEW req \in {"Tattach", "Twalk", "Topen", "Tio", "Tclunk"},
           NEW fid \in Fid \cup {NoFid}, NEW own \in Fid \cup {NoFid},
           NEW n, n = [id |-> FreshId, op |-> op, req |-> req, more |-> FALSE, fid |-> fid, own |-> own,
                       tag |-> NoTag, pc |-> "begin"]
    PROVE  /\ n \in Call /\ n.op = op /\ n.req = req /\ n.fid = fid /\ n.own = own /\ ~n.more
           /\ n.pc = "begin" /\ (\A d \in calls : d.id # n.id)
           /\ \A t \in Tag : inflight[t] # n.id
<1>1. /\ FreshId \in CallId /\ \A d \in calls : d.id # FreshId
      /\ \A t \in Tag : inflight[t] # FreshId
  BY FreshName
<1>2. n \in Call /\ n.id = FreshId
  BY <1>1 DEF Call
<1>3. n.op = op /\ n.req = req /\ n.fid = fid /\ n.own = own /\ n.more = FALSE /\ n.pc = "begin"
  OBVIOUS
<1>4. QED
  BY <1>1, <1>2, <1>3

\* What the application may begin: there is a tag for it.
LEMMA StartFacts ==
    ASSUME NEW k \in {1, 2}, Start(k)
    PROVE  /\ UNCHANGED <<inflight, requests, table, broken, replies>>
           /\ Cardinality(Busy) + Cardinality(Beginning) + Cardinality(Kept) + k <= MaxTag
  BY DEF Start, wire, Busy, Beginning, Kept

\* Attach and the calls that open a path make a handle.
LEMMA MakeStep ==
    ASSUME IInv, Start(2), Get,
           NEW op \in {"attach", "openDir", "openFile", "clunk"},
           NEW req \in {"Tattach", "Twalk", "Tclunk"}, <<op, req>> \in Asks,
           NEW fid \in Fid \cup {NoFid}, NEW more \in BOOLEAN, more => LongPaths /\ op = "openDir",
           op \in {"openDir", "openFile"} => \E mode \in {"dir", "file"} : Owned(fid, mode) \in handles,
           op \notin {"openDir", "openFile"} => fid = NoFid,
           handles' = handles \cup {Owned(get, IF op = "clunk" THEN "clunk" ELSE "new")},
           calls' = calls \cup {NewCall(op, req, fid, get, more)}
    PROVE  IInv'
<1>a. PICK f : f = get
  OBVIOUS
<1>b. PICK mode : mode = IF op = "clunk" THEN "clunk" ELSE "new"
  OBVIOUS
<1>c. PICK n : n = NewCall(op, req, fid, f, more)
  OBVIOUS
<1>1. TypeOK /\ OneOwner /\ PoolInv /\ CallInv /\ BudgetInv /\ TagInv /\ OwnReply /\ AskInv
  BY DEF IInv
<1>2. /\ f \in Fid /\ ~HasHandle(f) /\ next' \in 0..MaxFid
      /\ freeList' \subseteq {g \in Fid : g < next'}
      /\ \A g \in Fid : (g < next' /\ g \notin freeList') <=> (g < next /\ g \notin freeList) \/ g = f
  BY <1>a, <1>1, GetFacts
<1>3. /\ UNCHANGED <<inflight, requests, table, broken, replies>>
      /\ Cardinality(Busy) + Cardinality(Beginning) + Cardinality(Kept) + 2 <= MaxTag
  BY StartFacts
<1>4. mode \in {"new", "clunk"}
  BY <1>b
<1>5. handles' = handles \cup {Owned(f, mode)}
  BY <1>a, <1>b
<1>6. handles \subseteq Handle /\ OneHandle
  BY <1>1, OwnerTo DEF TypeOK
<1>7. /\ handles' \subseteq Handle /\ OneHandle' /\ Touches(f)
      /\ Owned(f, mode) \in handles' /\ \A h \in handles' : h.fid = f => h = Owned(f, mode)
      /\ \A g \in Fid : HasHandle(g)' <=> HasHandle(g) \/ g = f
  <2>1. handles' = Put(f, mode)
    BY <1>2, <1>5 DEF Put, HasHandle
  <2>2. QED
    BY <1>2, <1>4, <1>6, <2>1, PutFacts
<1>8. PoolInv'
  <2>1. \A g \in Fid : HasHandle(g)' <=> g < next' /\ g \notin freeList'
    BY <1>1, <1>2, <1>7, PoolFacts
  <2>2. freeList' \subseteq Fid
    BY <1>2
  <2>3. QED
    BY <1>2, <1>7, <2>1, <2>2, PoolFrom
<1>9. /\ n \in Call /\ n.op = op /\ n.req = req /\ n.fid = fid /\ n.own = f /\ n.more = more
      /\ n.pc = "begin" /\ (\A d \in calls : d.id # n.id) /\ \A t \in Tag : inflight[t] # n.id
  <2>1. /\ op \in {"attach", "openDir", "openFile", "readDir", "io", "clunk"}
        /\ req \in {"Tattach", "Twalk", "Topen", "Tio", "Tclunk"}
        /\ f \in Fid \cup {NoFid} /\ fid \in Fid \cup {NoFid} /\ more \in BOOLEAN
    BY <1>2
  <2>2. /\ FreshId \in CallId /\ \A d \in calls : d.id # FreshId
        /\ \A t \in Tag : inflight[t] # FreshId
    BY ONLY <1>1, FreshName
  <2>3. /\ n.op = op /\ n.req = req /\ n.fid = fid /\ n.own = f /\ n.more = more
        /\ n.pc = "begin" /\ n.id = FreshId
    BY ONLY <1>c DEF NewCall
  <2>4. n \in Call
    BY ONLY <1>c, <2>1, <2>2 DEF NewCall, Call
  <2>5. QED
    BY ONLY <2>2, <2>3, <2>4
<1> DEFINE N == {n}
<1>10. calls \in SUBSET calls /\ calls' = calls \cup N /\ N \in SUBSET Call /\ (\A x \in N : x = n) /\ \A x, y \in N : x = y
  BY <1>a, <1>c, <1>9
<1> HIDE DEF N
<1>11. TagInv' /\ OwnReply' /\ AskInv' /\ inflight' \in [Tag -> CallId \cup {0}]
  <2>1. \A x \in N : x.pc = "begin" /\ (\A d \in calls : d.id # x.id) /\ \A t \in Tag : inflight[t] # x.id
    BY <1>9, <1>10
  <2>2. UNCHANGED <<inflight, requests, replies>>
    BY <1>3
  <2>3. TagInv' /\ OwnReply' /\ AskInv'
    BY ONLY <1>1, <1>10, <2>1, <2>2, TagKeep
  <2>4. QED
    BY <1>1, <1>3, <2>3 DEF TypeOK
<1>12. BudgetInv'
  <2>1. IsFiniteSet(calls) /\ IsFiniteSet(handles)
    BY <1>1 DEF BudgetInv
  <2>2. IsFiniteSet(calls') /\ IsFiniteSet(handles')
    BY <2>1, FS_AddElement
  <2>3. Busy' = Busy /\ IsFiniteSet(Busy) /\ IsFiniteSet(Beginning) /\ IsFiniteSet(Kept)
    BY <1>1, <1>3, Counts DEF Busy
  <2>4. Beginning' \subseteq Beginning \cup {n}
    BY <1>10 DEF Beginning
  <2>5. Cardinality(Beginning') <= Cardinality(Beginning) + 1
    BY <2>3, <2>4, CountLess
  <2>6. Kept' \subseteq Kept \cup {Owned(f, mode)}
    BY <1>5 DEF Kept
  <2>7. Cardinality(Kept') <= Cardinality(Kept) + 1
    BY <2>3, <2>6, CountLess
  <2>8. Cardinality(Busy) \in Nat /\ Cardinality(Beginning) \in Nat /\ Cardinality(Kept) \in Nat /\ MaxTag \in Nat
    BY <1>1, Counts, Numbers
  <2>9. Cardinality(Busy') + Cardinality(Beginning') + Cardinality(Kept') <= MaxTag
    BY <1>3, <2>2, <2>3, <2>5, <2>7, <2>8, CountsAfter
  <2>10. QED
    BY <2>2, <2>9, CountsAfter
<1>13. \A d \in calls : d.own # f /\ d.fid # f
  BY <1>1, <1>2, ShapeFacts, HandleFields, Numbers DEF HasHandle
<1>14. Shape(n)'
  <2>1. \A g, k : Owned(g, k) \in handles => Owned(g, k) \in handles'
    OBVIOUS
  <2>2. op = "clunk" => Owned(f, "clunk") \in handles'
    BY <1>7, <1>b
  <2>3. op # "clunk" => Owned(f, "new") \in handles'
    BY <1>7, <1>b
  <2>4. op # "io"
    OBVIOUS
  <2>5. QED
    BY <1>9, <2>1, <2>2, <2>3, <2>4 DEF Shape
<1>15. ~broken => table[f] = "none" /\ Unnamed(f)
  <2>1. NoneForgotten /\ FidInv
    BY DEF IInv
  <2>2. ~broken => table[f] = "none"
    BY <1>2, <2>1 DEF NoneForgotten, HasHandle
  <2>3. ~broken => Unnamed(f)
    BY <1>2, <2>1 DEF FidInv, RequestInv, HasHandle, Unnamed
  <2>4. QED
    BY <2>2, <2>3
<1>16. \A x \in N : x.pc = "begin" /\ Shape(x)' /\ (x.own \in Fid => \A d \in calls : d.own # x.own)
  BY <1>9, <1>10, <1>13, <1>14
<1>17. ~broken => \A g \in Fid : HasHandle(g) => HasHandle(g)' \/ (table[g] = "none" /\ Unnamed(g))
  BY <1>7
<1>18. ~broken => \A h \in handles' : h.kind \in {"dir", "file"} =>
          h \in handles \/ (table[h.fid] # "none" /\ \A i \in DOMAIN requests : requests[i].own # h.fid)
  BY <1>4, <1>5, HandleFields
<1>19. /\ ~broken => \A x \in N : Makes(x.req, x.more) => table[x.own] = "none" /\ Unnamed(x.own)
       /\ ~broken => \A x \in N : x.req = "Topen" => table[x.own] # "none"
       /\ ~broken => \A x \in N : x.own \in Fid => x.op = "clunk" \/ \A i \in DOMAIN requests : requests[i].own # x.own
  BY <1>2, <1>9, <1>10, <1>15 DEF Unnamed, Names
<1>20. /\ \A d \in calls : f \in Fid => d.own # f /\ d.fid # f
       /\ ~broken => \A d \in calls : d.op = "clunk" /\ d.pc = "wait" => d \in calls \/ Unnamed(d.own)
       /\ UNCHANGED <<requests, table, broken>> /\ replies' = replies
  BY <1>3, <1>13
<1>21. IInv
  OBVIOUS
<1>22. QED
  BY ONLY <1>2, <1>7, <1>8, <1>10, <1>11, <1>12, <1>16, <1>17, <1>18, <1>19, <1>20, <1>21, ClientStep
\* The handle of f goes to a call that begins: read_dir, or the task that clunks it.
LEMMA HandOverStep ==
    ASSUME IInv, TagInv', OwnReply', AskInv', inflight' \in [Tag -> CallId \cup {0}],
           UNCHANGED <<next, freeList, requests, table, broken>>,
           replies' = replies \/ (replies # <<>> /\ replies' = Tail(replies)),
           NEW running \in SUBSET calls, NEW f \in Fid, NEW old \in {"new", "dir", "file"}, Owned(f, old) \in handles,
           NEW mode \in {"new", "clunk"}, handles' = Put(f, mode),
           NEW n \in Call, calls' = running \cup {n},
           n.pc = "begin", n.own = f, n.fid = NoFid, ~n.more,
           mode = "clunk" => n.op = "clunk" /\ n.req = "Tclunk",
           mode = "new" => n.op = "readDir" /\ n.req = "Topen" /\ old \in {"dir", "file"},
           \A d \in running : d.own # f /\ d.fid # f,
           \A d \in calls : d.op = "clunk" /\ d.pc = "wait" => d \in running,
           Cardinality(Busy') <= Cardinality(Busy),
           mode = "new" => Cardinality(Busy) + Cardinality(Beginning) + Cardinality(Kept) + 1 <= MaxTag
    PROVE  IInv'
<1>1. TypeOK /\ OneOwner /\ PoolInv /\ CallInv /\ BudgetInv
  BY DEF IInv
<1>2. handles \subseteq Handle /\ OneHandle /\ mode \in {"new", "dir", "file", "clunk"}
  BY <1>1, OwnerTo DEF TypeOK
<1>3. /\ handles' \subseteq Handle /\ OneHandle' /\ Touches(f)
      /\ Owned(f, mode) \in handles' /\ \A h \in handles' : h.fid = f => h = Owned(f, mode)
      /\ \A g \in Fid : HasHandle(g)' <=> HasHandle(g) \/ g = f
  BY <1>2, PutFacts
<1>4. HasHandle(f)
  BY HandleFields DEF HasHandle
<1>5. next' \in 0..MaxFid /\ freeList' \subseteq {g \in Fid : g < next'} /\ freeList' \subseteq Fid
  BY <1>1 DEF TypeOK
<1>6. PoolInv'
  <2>1. \A g \in Fid : HasHandle(g)' <=> g < next' /\ g \notin freeList'
    BY <1>1, <1>3, <1>4, PoolFacts
  <2>2. QED
    BY <1>3, <1>5, <2>1, PoolFrom
<1>7. BudgetInv'
  <2>1. IsFiniteSet(calls) /\ IsFiniteSet(handles)
    BY <1>1 DEF BudgetInv
  <2>2. calls' \subseteq calls \cup {n} /\ handles' \subseteq handles \cup {Owned(f, mode)}
    BY DEF Put
  <2>3. IsFiniteSet(calls') /\ IsFiniteSet(handles')
    <3>1. IsFiniteSet(calls \cup {n}) /\ IsFiniteSet(handles \cup {Owned(f, mode)})
      BY <2>1, FS_AddElement
    <3>2. QED
      BY <2>2, <3>1, FS_Subset
  <2>4. IsFiniteSet(Beginning) /\ IsFiniteSet(Kept)
    BY <1>1, Counts
  <2>5. Beginning' \subseteq Beginning \cup {n}
    BY DEF Beginning
  <2>6. Cardinality(Beginning') <= Cardinality(Beginning) + 1
    BY <2>4, <2>5, CountLess
  <2>7. Owned(f, old) \in Kept
    BY HandleFields DEF Kept
  <2>8. Cardinality(Busy) \in Nat /\ Cardinality(Beginning) \in Nat /\ Cardinality(Kept) \in Nat /\ MaxTag \in Nat
        /\ Cardinality(Busy) + Cardinality(Beginning) + Cardinality(Kept) <= MaxTag
    BY <1>1, Counts, Numbers
  <2>9. /\ Cardinality(Busy') \in Nat /\ Cardinality(Beginning') \in Nat /\ Cardinality(Kept') \in Nat
        /\ Cardinality(Busy') + Cardinality(Beginning') + Cardinality(Kept') <= MaxTag => BudgetInv'
    BY <2>3, CountsAfter
  <2>10. CASE mode = "new"
    <3>1. Kept' \subseteq (Kept \ {Owned(f, old)}) \cup {Owned(f, mode)}
      BY HandleFields DEF Kept, Put
    <3>2. Cardinality(Kept') <= Cardinality(Kept)
      BY <2>4, <2>7, <3>1, CountLess
    <3>3. QED
      BY <2>6, <2>8, <2>9, <2>10, <3>2
  <2>11. CASE mode = "clunk"
    <3>1. Kept' \subseteq Kept \ {Owned(f, old)}
      BY <2>11, HandleFields DEF Kept, Put
    <3>2. Cardinality(Kept') <= Cardinality(Kept) - 1
      BY <2>4, <2>7, <3>1, CountLess
    <3>3. QED
      BY SMTT(30), <2>6, <2>8, <2>9, <3>2
  <2>12. QED
    BY <2>10, <2>11
<1>8. Shape(n)'
  BY <1>3 DEF Shape, Asks
<1> DEFINE N == {n}
<1>9. /\ N \in SUBSET Call /\ calls' = running \cup N /\ \A x, y \in N : x = y
      /\ \A x \in N : x.pc = "begin" /\ Shape(x)' /\ (x.own \in Fid => \A d \in running : d.own # x.own)
  BY <1>8
<1>10. ~broken /\ old \in {"dir", "file"} =>
          table[f] # "none" /\ \A i \in DOMAIN requests : requests[i].own # f
  <2>1. FidInv
    BY DEF IInv
  <2>2. QED
    BY <2>1, HandleFields DEF FidInv, TableInv, RequestInv
<1>11. /\ ~broken => \A x \in N : Makes(x.req, x.more) => table[x.own] = "none" /\ Unnamed(x.own)
       /\ ~broken => \A x \in N : x.req = "Topen" => table[x.own] # "none"
       /\ ~broken => \A x \in N : x.own \in Fid => x.op = "clunk" \/ \A i \in DOMAIN requests : requests[i].own # x.own
  BY <1>10 DEF Makes
<1> HIDE DEF N
<1>12. ~broken => \A g \in Fid : HasHandle(g) => HasHandle(g)' \/ (table[g] = "none" /\ Unnamed(g))
  BY <1>3
<1>13. ~broken => \A h \in handles' : h.kind \in {"dir", "file"} =>
          h \in handles \/ (table[h.fid] # "none" /\ \A i \in DOMAIN requests : requests[i].own # h.fid)
  BY HandleFields DEF Put
<1>14. /\ \A d \in running : f \in Fid => d.own # f /\ d.fid # f
       /\ ~broken => \A d \in calls : d.op = "clunk" /\ d.pc = "wait" => d \in running \/ Unnamed(d.own)
  OBVIOUS
<1>15. /\ IInv /\ TagInv' /\ OwnReply' /\ AskInv' /\ inflight' \in [Tag -> CallId \cup {0}]
       /\ UNCHANGED <<requests, table, broken>>
       /\ replies' = replies \/ (replies # <<>> /\ replies' = Tail(replies))
       /\ running \in SUBSET calls
  OBVIOUS
<1>16. QED
  BY ONLY <1>3, <1>5, <1>6, <1>7, <1>9, <1>11, <1>12, <1>13, <1>14, <1>15, ClientStep

\* What a borrowed handle is not.
LEMMA NotBorrowed ==
    ASSUME IInv, NEW h \in handles, h.kind \in {"dir", "file"}
    PROVE  /\ h.fid \in Fid /\ Owned(h.fid, h.kind) \in handles
           /\ \A d \in calls : d.own # h.fid
           /\ ~Borrowed(h) => \A d \in calls : d.fid # h.fid
<1>1. TypeOK /\ OneHandle /\ CallInv
  BY OwnerTo DEF IInv
<1>2. h \in Handle /\ h.fid \in Fid /\ h = Owned(h.fid, h.kind)
  BY <1>1, HandleFields DEF TypeOK
<1>3. ASSUME NEW d \in calls, d.own = h.fid
      PROVE  FALSE
  <2>1. Owned(d.own, "clunk") \in handles \/ Owned(d.own, "new") \in handles
    BY <1>1, <1>2, <1>3, ShapeFacts, Numbers
  <2>2. QED
    BY <1>1, <1>2, <1>3, <2>1, HandleFields DEF OneHandle
<1>4. QED
  BY <1>2, <1>3 DEF Borrowed

LEMMA ReadDirStep ==
    ASSUME IInv, NEW h \in handles, ReadDir(h)
    PROVE  IInv'
<1>1. TypeOK /\ OneHandle /\ BudgetInv /\ TagInv /\ OwnReply /\ AskInv
  BY OwnerTo DEF IInv
<1>2. h.kind = "dir" /\ ~Borrowed(h) /\ Start(1) /\ UNCHANGED <<next, freeList>>
  BY DEF ReadDir
<1>3. /\ h.fid \in Fid /\ Owned(h.fid, h.kind) \in handles
      /\ \A d \in calls : d.own # h.fid /\ d.fid # h.fid
  BY <1>2, NotBorrowed
<1>4. /\ UNCHANGED <<inflight, requests, table, broken, replies>>
      /\ Cardinality(Busy) + Cardinality(Beginning) + Cardinality(Kept) + 1 <= MaxTag
  BY <1>2, StartFacts
<1>5. PICK n : n = NewCall("readDir", "Topen", NoFid, h.fid, FALSE)
  OBVIOUS
<1>6. /\ n \in Call /\ n.op = "readDir" /\ n.req = "Topen" /\ n.fid = NoFid /\ n.own = h.fid /\ ~n.more
      /\ n.pc = "begin" /\ (\A d \in calls : d.id # n.id) /\ \A t \in Tag : inflight[t] # n.id
  BY <1>1, <1>3, <1>5, NewCallType DEF NewCall
<1>7. calls' = calls \cup {n} /\ handles' = Put(h.fid, "new")
  BY <1>1, <1>5, HandleFields DEF ReadDir, Put, OneHandle, TypeOK
<1>8. TagInv' /\ OwnReply' /\ AskInv'
  <2>1. calls \in SUBSET calls /\ {n} \in SUBSET Call /\ UNCHANGED <<inflight, requests, replies>>
    BY <1>4, <1>6
  <2>2. QED
    BY <1>1, <1>6, <1>7, <2>1, TagKeep
<1>9. inflight' \in [Tag -> CallId \cup {0}] /\ Busy' = Busy /\ Cardinality(Busy) \in Nat
  BY <1>1, <1>4, Counts DEF TypeOK, Busy
<1>10. Cardinality(Busy') <= Cardinality(Busy)
  BY <1>9
<1>11. /\ IInv /\ calls \in SUBSET calls /\ UNCHANGED <<next, freeList, requests, table, broken>> /\ replies' = replies
       /\ h.kind \in {"new", "dir", "file"} /\ "new" \in {"new", "clunk"} /\ h.kind \in {"dir", "file"}
       /\ "new" # "clunk"
  BY <1>2, <1>4
<1>12. PICK f, old, mode : f = h.fid /\ old = h.kind /\ mode = "new"
  OBVIOUS
<1>13. /\ f \in Fid /\ old \in {"new", "dir", "file"} /\ Owned(f, old) \in handles
       /\ mode \in {"new", "clunk"} /\ handles' = Put(f, mode)
       /\ n.own = f /\ \A d \in calls : d.own # f /\ d.fid # f
  BY <1>3, <1>6, <1>7, <1>11, <1>12
<1>14. /\ mode = "clunk" => n.op = "clunk" /\ n.req = "Tclunk"
       /\ mode = "new" => n.op = "readDir" /\ n.req = "Topen" /\ old \in {"dir", "file"}
       /\ \A d \in calls : d.op = "clunk" /\ d.pc = "wait" => d \in calls
  BY <1>6, <1>11, <1>12
<1>15. QED
  BY ONLY <1>4, <1>6, <1>7, <1>8, <1>9, <1>10, <1>11, <1>13, <1>14, HandOverStep

LEMMA DropStep ==
    ASSUME IInv, NEW h \in handles, DropHandle(h)
    PROVE  IInv'
<1>1. TypeOK /\ OneHandle /\ BudgetInv /\ TagInv /\ OwnReply /\ AskInv
  BY OwnerTo DEF IInv
<1>2. h.kind \in {"dir", "file"} /\ ~Borrowed(h) /\ UNCHANGED <<next, freeList, inflight, requests, table, broken, replies>>
  BY DEF DropHandle, Clunk, wire
<1>3. /\ h.fid \in Fid /\ Owned(h.fid, h.kind) \in handles
      /\ \A d \in calls : d.own # h.fid /\ d.fid # h.fid
  BY <1>2, NotBorrowed
<1>5. PICK n : n = NewCall("clunk", "Tclunk", NoFid, h.fid, FALSE)
  OBVIOUS
<1>6. /\ n \in Call /\ n.op = "clunk" /\ n.req = "Tclunk" /\ n.fid = NoFid /\ n.own = h.fid /\ ~n.more
      /\ n.pc = "begin" /\ (\A d \in calls : d.id # n.id) /\ \A t \in Tag : inflight[t] # n.id
  BY <1>1, <1>3, <1>5, NewCallType DEF NewCall
<1>7. calls' = calls \cup {n} /\ handles' = Put(h.fid, "clunk")
  BY <1>5 DEF DropHandle, Clunk, Put
<1>8. TagInv' /\ OwnReply' /\ AskInv'
  <2>1. calls \in SUBSET calls /\ {n} \in SUBSET Call /\ UNCHANGED <<inflight, requests, replies>>
    BY <1>2, <1>6
  <2>2. QED
    BY <1>1, <1>6, <1>7, <2>1, TagKeep
<1>9. inflight' \in [Tag -> CallId \cup {0}] /\ Busy' = Busy /\ Cardinality(Busy) \in Nat
  BY <1>1, <1>2, Counts DEF TypeOK, Busy
<1>10. Cardinality(Busy') <= Cardinality(Busy)
  BY <1>9
<1>11. /\ IInv /\ calls \in SUBSET calls /\ UNCHANGED <<next, freeList, requests, table, broken>> /\ replies' = replies
       /\ h.kind \in {"new", "dir", "file"} /\ "clunk" \in {"new", "clunk"} /\ "new" # "clunk"
  BY <1>2
<1>12. PICK f, old, mode : f = h.fid /\ old = h.kind /\ mode = "clunk"
  OBVIOUS
<1>13. /\ f \in Fid /\ old \in {"new", "dir", "file"} /\ Owned(f, old) \in handles
       /\ mode \in {"new", "clunk"} /\ handles' = Put(f, mode)
       /\ n.own = f /\ \A d \in calls : d.own # f /\ d.fid # f
  BY <1>3, <1>6, <1>7, <1>11, <1>12
<1>14. /\ mode = "clunk" => n.op = "clunk" /\ n.req = "Tclunk"
       /\ mode # "new"
       /\ \A d \in calls : d.op = "clunk" /\ d.pc = "wait" => d \in calls
  BY <1>6, <1>11, <1>12
<1>15. QED
  BY ONLY <1>6, <1>7, <1>8, <1>9, <1>10, <1>11, <1>13, <1>14, HandOverStep, ZenonT(60)
\* Only calls change: nothing is needed of the handles.
LEMMA SameHandles ==
    ASSUME TypeOK, OneOwner, PoolInv, UNCHANGED <<next, freeList, handles>>
    PROVE  /\ next' \in 0..MaxFid /\ freeList' \subseteq {f \in Fid : f < next'}
           /\ handles' \subseteq Handle /\ OneHandle' /\ PoolInv' /\ Touches(NoFid)
           /\ \A g \in Fid : HasHandle(g)' <=> HasHandle(g)
  BY OwnerTo DEF TypeOK, OneHandle, PoolInv, Touches, HasHandle

\* stat, read_at and write_at borrow a handle.
LEMMA IoStep ==
    ASSUME IInv, NEW h \in handles, Io(h)
    PROVE  IInv'
<1>1. TypeOK /\ OneOwner /\ PoolInv /\ BudgetInv /\ TagInv /\ OwnReply /\ AskInv
  BY DEF IInv
<1>2. h.kind \in {"dir", "file"} /\ Start(1) /\ UNCHANGED <<next, freeList, handles>>
  BY DEF Io
<1>3. h.fid \in Fid /\ Owned(h.fid, h.kind) \in handles /\ NoFid \in Fid \cup {NoFid} /\ NoFid \notin Fid
  BY <1>2, NotBorrowed, Numbers
<1>4. /\ UNCHANGED <<inflight, requests, table, broken, replies>>
      /\ Cardinality(Busy) + Cardinality(Beginning) + Cardinality(Kept) + 1 <= MaxTag
  BY <1>2, StartFacts
<1>5. PICK n : n = NewCall("io", "Tio", h.fid, NoFid, FALSE)
  OBVIOUS
<1>6. /\ n \in Call /\ n.op = "io" /\ n.req = "Tio" /\ n.fid = h.fid /\ n.own = NoFid /\ ~n.more
      /\ n.pc = "begin" /\ (\A d \in calls : d.id # n.id) /\ \A t \in Tag : inflight[t] # n.id
  BY <1>1, <1>3, <1>5, NewCallType DEF NewCall
<1> DEFINE N == {n}
<1>7. calls \in SUBSET calls /\ calls' = calls \cup N /\ N \in SUBSET Call /\ (\A x \in N : x = n) /\ \A x, y \in N : x = y
  BY <1>5, <1>6 DEF Io
<1> HIDE DEF N
<1>8. TagInv' /\ OwnReply' /\ AskInv' /\ inflight' \in [Tag -> CallId \cup {0}]
  <2>1. \A x \in N : x.pc = "begin" /\ (\A d \in calls : d.id # x.id) /\ \A t \in Tag : inflight[t] # x.id
    BY <1>6, <1>7
  <2>2. UNCHANGED <<inflight, requests, replies>>
    BY <1>4
  <2>3. TagInv' /\ OwnReply' /\ AskInv'
    BY ONLY <1>1, <1>7, <2>1, <2>2, TagKeep
  <2>4. QED
    BY <1>1, <1>4, <2>3 DEF TypeOK
<1>9. /\ next' \in 0..MaxFid /\ freeList' \subseteq {f \in Fid : f < next'}
      /\ handles' \subseteq Handle /\ OneHandle' /\ PoolInv' /\ Touches(NoFid)
      /\ \A g \in Fid : HasHandle(g)' <=> HasHandle(g)
  BY <1>1, <1>2, SameHandles
<1>10. BudgetInv'
  <2>1. IsFiniteSet(calls) /\ IsFiniteSet(handles)
    BY <1>1 DEF BudgetInv
  <2>2. IsFiniteSet(calls') /\ IsFiniteSet(handles')
    BY <1>2, <1>7, <2>1, FS_AddElement DEF N
  <2>3. Busy' = Busy /\ Kept' = Kept /\ IsFiniteSet(Beginning)
    BY <1>1, <1>2, <1>4, Counts DEF Busy, Kept
  <2>4. Beginning' \subseteq Beginning \cup {n}
    BY <1>7 DEF Beginning
  <2>5. Cardinality(Beginning') <= Cardinality(Beginning) + 1
    BY <2>3, <2>4, CountLess
  <2>6. Cardinality(Busy) \in Nat /\ Cardinality(Beginning) \in Nat /\ Cardinality(Kept) \in Nat /\ MaxTag \in Nat
    BY <1>1, Counts, Numbers
  <2>7. QED
    BY <1>4, <2>2, <2>3, <2>5, <2>6, CountsAfter
<1>11. \A x \in N : x.pc = "begin" /\ Shape(x)' /\ (x.own \in Fid => \A d \in calls : d.own # x.own)
  <2>1. Shape(n)'
    BY <1>2, <1>3, <1>6 DEF Shape, Asks
  <2>2. QED
    BY <1>3, <1>6, <1>7, <2>1
<1>12. /\ ~broken => \A x \in N : Makes(x.req, x.more) => table[x.own] = "none" /\ Unnamed(x.own)
       /\ ~broken => \A x \in N : x.req = "Topen" => table[x.own] # "none"
       /\ ~broken => \A x \in N : x.own \in Fid => x.op = "clunk" \/ \A i \in DOMAIN requests : requests[i].own # x.own
  BY <1>3, <1>6, <1>7 DEF Makes
<1>13. /\ ~broken => \A g \in Fid : HasHandle(g) => HasHandle(g)' \/ (table[g] = "none" /\ Unnamed(g))
       /\ ~broken => \A g \in handles' : g.kind \in {"dir", "file"} =>
             g \in handles \/ (table[g.fid] # "none" /\ \A i \in DOMAIN requests : requests[i].own # g.fid)
       /\ \A d \in calls : NoFid \in Fid => d.own # NoFid /\ d.fid # NoFid
       /\ ~broken => \A d \in calls : d.op = "clunk" /\ d.pc = "wait" => d \in calls \/ Unnamed(d.own)
       /\ UNCHANGED <<requests, table, broken>> /\ replies' = replies /\ IInv
  BY <1>2, <1>3, <1>4, <1>9
<1>14. QED
  BY ONLY <1>7, <1>8, <1>9, <1>10, <1>11, <1>12, <1>13, ClientStep

-----------------------------------------------------------------------------
(* Calls that fail.                                                        *)

\* The handle that a call owns is that of no other call.
LEMMA OwnAlone ==
    ASSUME IInv, NEW c \in calls, c.own \in Fid
    PROVE  /\ \A d \in calls \ {c} : d.own # c.own /\ d.fid # c.own
           /\ c.fid # c.own
           /\ c.op # "io"
           /\ c.op = "clunk" => Owned(c.own, "clunk") \in handles
           /\ c.op # "clunk" => Owned(c.own, "new") \in handles
<1>1. TypeOK /\ OneHandle /\ OneCall /\ CallInv
  BY OwnerTo DEF IInv
<1>2. c.op # "io"
  BY <1>1, ShapeFacts, Numbers
<1>3. /\ c.op = "clunk" => Owned(c.own, "clunk") \in handles
      /\ c.op # "clunk" => Owned(c.own, "new") \in handles
  BY <1>1, <1>2, ShapeFacts
<1>4. \A d \in calls : d.fid # c.own
  <2>1. SUFFICES ASSUME NEW d \in calls, d.fid = c.own
                 PROVE  FALSE
    OBVIOUS
  <2>2. Owned(c.own, "dir") \in handles \/ Owned(c.own, "file") \in handles
    BY <1>1, <2>1, ShapeFacts, Numbers
  <2>3. QED
    BY <1>1, <1>3, <2>2, HandleFields DEF OneHandle
<1>5. \A d \in calls \ {c} : d.own # c.own
  BY <1>1, Numbers DEF OneCall
<1>6. QED
  BY <1>2, <1>3, <1>4, <1>5

\* Which calls there are when one has failed.
LEMMA FailCalls ==
    ASSUME IInv, NEW c \in calls, Fail(c)
    PROVE  \E N \in SUBSET Call :
              /\ calls' = (calls \ {c}) \cup N /\ \A n, m \in N : n = m
              /\ c.op \in {"io", "clunk"} => N = {}
              /\ c.op \notin {"io", "clunk"} => \E n \in N : n.op = "clunk" /\ n.req = "Tclunk" /\ n.own = c.own /\ n.fid = NoFid /\ ~n.more
              /\ \A n \in N : n.pc = "begin" /\ (\A d \in calls : d.id # n.id) /\ \A t \in Tag : inflight[t] # n.id
<1>1. TypeOK /\ BudgetInv /\ TagInv /\ OwnReply /\ CallInv
  BY DEF IInv
<1>2. CASE c.op \in {"io", "clunk"}
  <2>1. calls' = calls \ {c}
    BY <1>2 DEF Fail, Release
  <2>2. PICK N : N = {}
    OBVIOUS
  <2>3. N \in SUBSET Call /\ calls' = (calls \ {c}) \cup N /\ N = {} /\ \A n \in N : FALSE
    BY <2>1, <2>2
  <2>4. QED
    BY ONLY <1>2, <2>3
<1>3. CASE c.op \notin {"io", "clunk"}
  <2>1. PICK n : n = NewCall("clunk", "Tclunk", NoFid, c.own, FALSE)
    OBVIOUS
  <2>2. calls' = (calls \ {c}) \cup {n}
    BY <1>3, <2>1 DEF Fail, Clunk
  <2>3. c.own \in Fid
    BY <1>1, <1>3, ShapeFacts
  <2>4. /\ n \in Call /\ n.op = "clunk" /\ n.req = "Tclunk" /\ n.fid = NoFid /\ n.own = c.own /\ ~n.more
        /\ n.pc = "begin" /\ (\A d \in calls : d.id # n.id) /\ \A t \in Tag : inflight[t] # n.id
    BY <1>1, <2>1, <2>3, NewCallType DEF NewCall
  <2>5. PICK N : N = {n}
    OBVIOUS
  <2>6. N \in SUBSET Call /\ n \in N /\ (\A x \in N : x = n) /\ calls' = (calls \ {c}) \cup N
    BY <2>2, <2>4, <2>5
  <2>7. \A x \in N : x.pc = "begin" /\ (\A d \in calls : d.id # x.id) /\ \A t \in Tag : inflight[t] # x.id
    BY <2>4, <2>6
  <2>8. \E x \in N : x.op = "clunk" /\ x.req = "Tclunk" /\ x.own = c.own /\ x.fid = NoFid /\ ~x.more
    BY <2>4, <2>6
  <2>9. \A x, y \in N : x = y
    BY <2>6
  <2>10. QED
    BY ONLY <1>3, <2>6, <2>7, <2>8, <2>9
<1>4. QED
  BY <1>2, <1>3
\* A call that fails leaves the clunk of its fid behind; a clunk that ends gives the
\* fid back.
LEMMA FailStep ==
    ASSUME IInv, NEW c \in calls, Fail(c), c.pc # "begin",
           UNCHANGED <<requests, table, broken>>,
           replies' = replies \/ (replies # <<>> /\ replies' = Tail(replies)),
           TagInv', OwnReply', AskInv', inflight' \in [Tag -> CallId \cup {0}],
           Cardinality(Busy') <= Cardinality(Busy),
           ~broken /\ c.op = "clunk" => table[c.own] = "none" /\ Unnamed(c.own)
    PROVE  IInv'
<1>1. TypeOK /\ OneOwner /\ PoolInv /\ CallInv /\ BudgetInv /\ OneHandle
  BY OwnerTo DEF IInv
<1>2. PICK running : running = calls \ {c}
  OBVIOUS
<1>3. running \in SUBSET calls /\ c \notin running /\ \A d \in calls : d = c \/ d \in running
  BY <1>2
<1>4. PICK N \in SUBSET Call :
        /\ calls' = running \cup N /\ \A n, m \in N : n = m
        /\ c.op \in {"io", "clunk"} => N = {}
        /\ c.op \notin {"io", "clunk"} => \E n \in N : n.op = "clunk" /\ n.req = "Tclunk" /\ n.own = c.own /\ n.fid = NoFid /\ ~n.more
        /\ \A n \in N : n.pc = "begin" /\ (\A d \in calls : d.id # n.id) /\ \A t \in Tag : inflight[t] # n.id
  BY <1>2, FailCalls
<1>5. /\ IInv /\ TagInv' /\ OwnReply' /\ AskInv' /\ inflight' \in [Tag -> CallId \cup {0}]
      /\ UNCHANGED <<requests, table, broken>>
      /\ replies' = replies \/ (replies # <<>> /\ replies' = Tail(replies))
      /\ running \in SUBSET calls /\ N \in SUBSET Call /\ calls' = running \cup N /\ \A n, m \in N : n = m
  BY <1>3, <1>4
<1>6. ASSUME N = {}, IsFiniteSet(handles'), Kept' \subseteq Kept
      PROVE  BudgetInv'
  <2>1. IsFiniteSet(calls) /\ IsFiniteSet(Beginning) /\ IsFiniteSet(Kept)
    BY <1>1, Counts DEF BudgetInv
  <2>2. calls' \subseteq calls /\ Beginning' \subseteq Beginning
    BY <1>3, <1>4, <1>6 DEF Beginning
  <2>3. IsFiniteSet(calls') /\ Cardinality(Beginning') <= Cardinality(Beginning) /\ Cardinality(Kept') <= Cardinality(Kept)
    BY <1>6, <2>1, <2>2, CountLess
  <2>4. /\ Cardinality(Busy) \in Nat /\ Cardinality(Beginning) \in Nat /\ Cardinality(Kept) \in Nat /\ MaxTag \in Nat
        /\ Cardinality(Busy) + Cardinality(Beginning) + Cardinality(Kept) <= MaxTag
    BY <1>1, Counts, Numbers
  <2>5. QED
    BY <1>6, <2>3, <2>4, CountsAfter
<1>7. CASE c.op = "clunk"
  <2>1. PICK f : f = c.own
    OBVIOUS
  <2>2. /\ f \in Fid /\ Owned(f, "clunk") \in handles /\ HasHandle(f)
        /\ \A d \in running : d.own # f /\ d.fid # f
    BY <1>1, <1>2, <1>7, <2>1, ShapeFacts, OwnAlone, HandleFields DEF HasHandle
  <2>3. handles' = Without(f) /\ freeList' = freeList \cup {f} /\ next' = next /\ N = {}
    BY <1>4, <1>7, <2>1 DEF Fail, Release, Without
  <2>4. /\ handles' \subseteq Handle /\ OneHandle' /\ Touches(f)
        /\ \A g \in Fid : HasHandle(g)' <=> HasHandle(g) /\ g # f
    BY <1>1, <2>2, <2>3, WithoutFacts DEF TypeOK
  <2>5. /\ next' \in 0..MaxFid /\ freeList' \subseteq {g \in Fid : g < next'} /\ freeList' \subseteq Fid
    BY <1>1, <2>2, <2>3, PoolFacts DEF TypeOK
  <2>6. PoolInv'
    <3>1. \A g \in Fid : HasHandle(g)' <=> g < next' /\ g \notin freeList'
      BY <1>1, <2>2, <2>3, <2>4, PoolFacts
    <3>2. QED
      BY <2>4, <2>5, <3>1, PoolFrom
  <2>7. BudgetInv'
    <3>1. handles' \subseteq handles /\ IsFiniteSet(handles)
      BY <1>1, <2>3 DEF Without, BudgetInv
    <3>2. IsFiniteSet(handles') /\ Kept' \subseteq Kept
      BY <3>1, FS_Subset DEF Kept
    <3>3. QED
      BY <1>6, <2>3, <3>2
  <2>8. /\ \A n \in N : n.pc = "begin" /\ Shape(n)' /\ (n.own \in Fid => \A d \in running : d.own # n.own)
        /\ ~broken => \A x \in N : Makes(x.req, x.more) => table[x.own] = "none" /\ Unnamed(x.own)
        /\ ~broken => \A x \in N : x.req = "Topen" => table[x.own] # "none"
        /\ ~broken => \A x \in N : x.own \in Fid => x.op = "clunk" \/ \A i \in DOMAIN requests : requests[i].own # x.own
    BY <2>3
  <2>9. /\ ~broken => \A g \in Fid : HasHandle(g) => HasHandle(g)' \/ (table[g] = "none" /\ Unnamed(g))
        /\ \A d \in running : f \in Fid => d.own # f /\ d.fid # f
        /\ ~broken => \A d \in calls : d.op = "clunk" /\ d.pc = "wait" => d \in running \/ Unnamed(d.own)
    BY <1>3, <1>7, <2>1, <2>2, <2>4
  <2>10. ~broken => \A h \in handles' : h.kind \in {"dir", "file"} =>
            h \in handles \/ (table[h.fid] # "none" /\ \A i \in DOMAIN requests : requests[i].own # h.fid)
    BY <2>3 DEF Without
  <2>11. QED
    BY ONLY <1>5, <2>4, <2>5, <2>6, <2>7, <2>8, <2>9, <2>10, ClientStep
<1>8. CASE c.op = "io"
  <2>1. UNCHANGED <<next, freeList, handles>> /\ N = {} /\ NoFid \notin Fid
    BY <1>4, <1>8, Numbers DEF Fail
  <2>2. /\ next' \in 0..MaxFid /\ freeList' \subseteq {f \in Fid : f < next'}
        /\ handles' \subseteq Handle /\ OneHandle' /\ PoolInv' /\ Touches(NoFid)
        /\ \A g \in Fid : HasHandle(g)' <=> HasHandle(g)
    BY <1>1, <2>1, SameHandles
  <2>3. BudgetInv'
    BY <1>1, <1>6, <2>1 DEF BudgetInv, Kept
  <2>4. /\ \A n \in N : n.pc = "begin" /\ Shape(n)' /\ (n.own \in Fid => \A d \in running : d.own # n.own)
        /\ ~broken => \A x \in N : Makes(x.req, x.more) => table[x.own] = "none" /\ Unnamed(x.own)
        /\ ~broken => \A x \in N : x.req = "Topen" => table[x.own] # "none"
        /\ ~broken => \A x \in N : x.own \in Fid => x.op = "clunk" \/ \A i \in DOMAIN requests : requests[i].own # x.own
    BY <2>1
  <2>5. /\ ~broken => \A g \in Fid : HasHandle(g) => HasHandle(g)' \/ (table[g] = "none" /\ Unnamed(g))
        /\ \A d \in running : NoFid \in Fid => d.own # NoFid /\ d.fid # NoFid
        /\ ~broken => \A d \in calls : d.op = "clunk" /\ d.pc = "wait" => d \in running \/ Unnamed(d.own)
        /\ ~broken => \A h \in handles' : h.kind \in {"dir", "file"} =>
              h \in handles \/ (table[h.fid] # "none" /\ \A i \in DOMAIN requests : requests[i].own # h.fid)
    BY <1>3, <1>8, <2>1, <2>2
  <2>6. QED
    BY ONLY <1>5, <2>2, <2>3, <2>4, <2>5, ClientStep
<1>9. CASE c.op \notin {"io", "clunk"}
  <2>1. PICK n \in N : n.op = "clunk" /\ n.req = "Tclunk" /\ n.own = c.own /\ n.fid = NoFid /\ ~n.more
    BY <1>4, <1>9
  <2>2. PICK f, old, mode : f = c.own /\ old = "new" /\ mode = "clunk"
    OBVIOUS
  <2>3. /\ f \in Fid /\ Owned(f, old) \in handles
        /\ \A d \in running : d.own # f /\ d.fid # f
    BY <1>1, <1>2, <1>9, <2>2, ShapeFacts, OwnAlone
  <2>4. handles' = Put(f, mode) /\ UNCHANGED <<next, freeList, requests, table, broken>>
    <3>1. Clunk(c.own, calls \ {c})
      BY <1>9 DEF Fail
    <3>2. handles' = Put(c.own, "clunk") /\ UNCHANGED <<next, freeList>>
      BY <3>1 DEF Clunk, Put
    <3>3. Put(f, mode) = Put(c.own, "clunk")
      BY ONLY <2>2
    <3>4. UNCHANGED <<requests, table, broken>>
      BY <1>5
    <3>5. QED
      BY ONLY <3>2, <3>3, <3>4
  <2>5. /\ n \in Call /\ calls' = running \cup {n} /\ n.pc = "begin" /\ n.own = f /\ n.fid = NoFid /\ ~n.more
        /\ old \in {"new", "dir", "file"} /\ mode \in {"new", "clunk"} /\ mode # "new"
        /\ mode = "clunk" => n.op = "clunk" /\ n.req = "Tclunk"
    BY <1>4, <2>1, <2>2
  <2>6. \A d \in calls : d.op = "clunk" /\ d.pc = "wait" => d \in running
    BY <1>3, <1>9
  <2>7. Cardinality(Busy') <= Cardinality(Busy)
    OBVIOUS
  <2>8. /\ mode = "new" => n.op = "readDir" /\ n.req = "Topen" /\ old \in {"dir", "file"}
        /\ mode = "new" => Cardinality(Busy) + Cardinality(Beginning) + Cardinality(Kept) + 1 <= MaxTag
    BY ONLY <2>5
  <2>9. /\ IInv /\ TagInv' /\ OwnReply' /\ AskInv' /\ inflight' \in [Tag -> CallId \cup {0}]
        /\ UNCHANGED <<next, freeList, requests, table, broken>>
        /\ replies' = replies \/ (replies # <<>> /\ replies' = Tail(replies))
        /\ running \in SUBSET calls
    BY ONLY <1>5, <2>4
  <2>10. QED
    BY ONLY <2>3, <2>4, <2>5, <2>6, <2>7, <2>8, <2>9, HandOverStep, ZenonT(60)
<1>10. QED
  BY <1>7, <1>8, <1>9

\* A call that is dropped, or that cannot send.
LEMMA DroppedStep ==
    ASSUME IInv, NEW c \in calls, Cancel(c) \/ SendError(c)
    PROVE  IInv'
<1>1. TypeOK /\ BudgetInv /\ TagInv /\ OwnReply /\ AskInv
  BY DEF IInv
<1>2. Fail(c) /\ c.pc # "begin" /\ UNCHANGED <<inflight, requests, table, broken, replies>> /\ (broken \/ c.op # "clunk")
  <2>1. <<c.op, c.req>> \in Asks
    BY DEF IInv, CallInv, Shape
  <2>2. Lengthy(c.req) => c.op # "clunk"
    BY <2>1 DEF Asks, Lengthy
  <2>3. QED
    BY <2>2 DEF Cancel, SendError, wire
<1>3. PICK running : running = calls \ {c}
  OBVIOUS
<1>4. PICK N \in SUBSET Call :
        /\ calls' = running \cup N /\ \A n, m \in N : n = m
        /\ \A n \in N : n.pc = "begin" /\ (\A d \in calls : d.id # n.id) /\ \A t \in Tag : inflight[t] # n.id
  BY <1>2, <1>3, FailCalls
<1>5. running \in SUBSET calls /\ UNCHANGED <<inflight, requests, replies>>
  BY <1>2, <1>3
<1>6. \A n \in N : n.pc = "begin" /\ (\A d \in running : d.id # n.id) /\ \A t \in Tag : inflight[t] # n.id
  BY <1>4, <1>5
<1>7. TagInv' /\ OwnReply' /\ AskInv'
  BY ONLY <1>1, <1>4, <1>5, <1>6, TagKeep
<1>8. inflight' \in [Tag -> CallId \cup {0}] /\ Busy' = Busy /\ Cardinality(Busy) \in Nat
  BY <1>1, <1>2, Counts DEF TypeOK, Busy
<1>9. Cardinality(Busy') <= Cardinality(Busy)
  BY <1>8
<1>10. QED
  BY <1>2, <1>7, <1>8, <1>9, FailStep
\* What a call knows of the server when its reply is received.
LEMMA ReplyFacts ==
    ASSUME IInv, replies # <<>>, NEW c \in calls, c.pc = "wait", c.tag = Head(replies).tag
    PROVE  /\ ~broken /\ c.req = "Tclunk" => table[c.own] = "none" /\ Unnamed(c.own)
           /\ ~broken /\ Head(replies).result = "ok" /\ c.req \in {"Tattach", "Twalk"} => table[c.own] # "none"
           /\ ~broken /\ c.req = "Topen" => table[c.own] # "none"
           /\ ~broken /\ c.own \in Fid /\ c.op # "clunk" =>
                 \A i \in DOMAIN requests : requests[i].own # c.own
<1>1. TypeOK /\ TagInv /\ FidInv /\ replies \in Seq(Reply)
  BY DEF IInv, TypeOK
<1>2. 1 \in DOMAIN replies /\ Head(replies) = replies[1]
  BY <1>1, TailIs
<1>3. ASSUME ~broken
      PROVE  /\ c.req = "Tclunk" => table[c.own] = "none" /\ Unnamed(c.own)
             /\ Head(replies).result = "ok" /\ c.req \in {"Tattach", "Twalk"} => table[c.own] # "none"
             /\ c.req = "Topen" => table[c.own] # "none"
  BY <1>1, <1>2, <1>3 DEF FidInv, TableInv, Unnamed
<1>4. ASSUME ~broken, c.own \in Fid, c.op # "clunk", NEW i \in DOMAIN requests
      PROVE  requests[i].own # c.own
  <2>1. requests[i].tag # replies[1].tag
    BY <1>1, <1>2 DEF TagInv
  <2>2. c.own = requests[i].own => c.op = "clunk" \/ (c.pc = "wait" /\ c.tag = requests[i].tag)
    BY <1>1, <1>4 DEF FidInv, RequestInv
  <2>3. QED
    BY <1>2, <1>4, <2>1, <2>2
<1>5. QED
  BY <1>3, <1>4

\* The tag of a reply is free once it is received.
LEMMA TagFreed ==
    ASSUME IInv, replies # <<>>, inflight' = [inflight EXCEPT ![Head(replies).tag] = 0]
    PROVE  /\ Head(replies).tag \in Tag /\ inflight[Head(replies).tag] \in CallId
           /\ inflight'[Head(replies).tag] = 0
           /\ \A t \in Tag : t # Head(replies).tag => inflight'[t] = inflight[t]
           /\ Cardinality(Busy') \in Nat /\ Cardinality(Busy') <= Cardinality(Busy) - 1
<1>1. TypeOK /\ BudgetInv /\ OwnReply /\ replies \in Seq(Reply) /\ inflight \in [Tag -> CallId \cup {0}]
  BY DEF IInv, TypeOK
<1>2. 1 \in DOMAIN replies /\ Head(replies) = replies[1]
  BY <1>1, TailIs
<1>3. replies[1] \in Reply /\ replies[1].tag \in Tag
  BY <1>1, <1>2, Elements
<1>4. replies[1].call \in CallId /\ inflight[replies[1].tag] = replies[1].call
  BY <1>1, <1>2, <1>3 DEF Reply, OwnReply
<1>5. PICK t : t = Head(replies).tag
  OBVIOUS
<1>6. t \in Tag /\ inflight[t] \in CallId /\ inflight'[t] = 0 /\ \A u \in Tag : u # t => inflight'[u] = inflight[u]
  BY <1>1, <1>2, <1>3, <1>4, <1>5
<1>7. t \in Busy /\ Busy' \subseteq Busy \ {t} /\ IsFiniteSet(Busy)
  BY <1>1, <1>6, Numbers, Counts DEF Busy
<1>8. IsFiniteSet(Busy') /\ Cardinality(Busy') <= Cardinality(Busy) - 1
  BY <1>7, CountLess
<1>9. QED
  BY <1>5, <1>6, <1>8, FS_CardinalityType

\* A call has a name of its own, and the reply was for it alone.
LEMMA ReplyAlone ==
    ASSUME IInv, replies # <<>>, inflight' = [inflight EXCEPT ![Head(replies).tag] = 0],
           NEW c \in calls, c.pc = "wait", c.tag = Head(replies).tag
    PROVE  /\ \A d \in calls \ {c} : d.id # c.id /\ (d.pc # "begin" => d.tag # Head(replies).tag)
           /\ \A t \in Tag : inflight'[t] # c.id
<1>1. TypeOK /\ TagInv /\ c.id \in CallId /\ c.tag \in Tag /\ inflight[c.tag] = c.id
  BY DEF IInv, TypeOK, TagInv, Call
<1>2. \A d \in calls \ {c} : d.id # c.id
  BY <1>1 DEF TagInv
<1>3. \A d \in calls : d.pc # "begin" => inflight[d.tag] = d.id
  BY <1>1 DEF TagInv
<1>4. \A d \in calls \ {c} : d.pc # "begin" => d.tag # c.tag
  BY <1>1, <1>2, <1>3
<1>5. \A t, u \in Tag : inflight[t] = inflight[u] /\ inflight[t] # 0 => t = u
  BY <1>1 DEF TagInv
<1>6. \A t \in Tag : t # c.tag => inflight[t] # c.id
  BY <1>1, <1>5, Numbers
<1>7. \A t \in Tag : inflight'[t] # c.id
  BY <1>1, <1>6, TagFreed, Numbers
<1>8. QED
  BY <1>2, <1>4, <1>7

\* A reply that nothing waits for.
LEMMA LateReply ==
    ASSUME IInv, replies # <<>>, replies' = Tail(replies),
           inflight' = [inflight EXCEPT ![Head(replies).tag] = 0],
           UNCHANGED <<broken, requests, table, next, freeList, handles, calls>>,
           \A c \in calls : ~(c.id = inflight[Head(replies).tag] /\ c.tag = Head(replies).tag /\ c.pc = "wait")
    PROVE  IInv'
<1>1. TypeOK /\ OneOwner /\ PoolInv /\ BudgetInv /\ TagInv /\ OwnReply /\ AskInv
  BY DEF IInv
<1>2. PICK N : N = {}
  OBVIOUS
<1>3. /\ N \in SUBSET Call /\ \A n, m \in N : n = m
      /\ calls \in SUBSET calls /\ calls' = calls \cup N
  BY <1>2
<1>4. \A d \in calls : d.pc # "begin" => d.tag # Head(replies).tag
  <2>1. SUFFICES ASSUME NEW d \in calls, d.pc # "begin", d.tag = Head(replies).tag
                 PROVE  FALSE
    OBVIOUS
  <2>2. replies \in Seq(Reply) /\ d \in Call
    BY <1>1 DEF TypeOK
  <2>3. 1 \in DOMAIN replies /\ Head(replies) = replies[1]
    BY <2>2, TailIs
  <2>4. d.pc # "send" /\ inflight[d.tag] = d.id
    BY <1>1, <2>1, <2>3 DEF TagInv
  <2>5. d.pc = "wait"
    BY <2>1, <2>2, <2>4 DEF Call
  <2>6. QED
    BY <2>1, <2>4, <2>5
<1>5. \A n \in N : /\ n.pc = "begin" /\ \A d \in calls : d.id # n.id
                   /\ \A t \in Tag : inflight'[t] # n.id
  BY <1>2
<1>6. UNCHANGED requests
  OBVIOUS
<1>7. TagInv' /\ OwnReply' /\ AskInv' /\ inflight' \in [Tag -> CallId \cup {0}]
  <2>1. replies # <<>> /\ replies' = Tail(replies) /\ inflight' = [inflight EXCEPT ![Head(replies).tag] = 0]
    OBVIOUS
  <2>2. QED
    BY ONLY <1>1, <1>3, <1>4, <1>5, <1>6, <2>1, TagReply
<1>8. /\ next' \in 0..MaxFid /\ freeList' \subseteq {f \in Fid : f < next'}
      /\ handles' \subseteq Handle /\ OneHandle' /\ PoolInv' /\ Touches(NoFid)
      /\ \A g \in Fid : HasHandle(g)' <=> HasHandle(g)
  BY <1>1, SameHandles
<1>9. BudgetInv'
  <2>1. Beginning' = Beginning /\ Kept' = Kept /\ IsFiniteSet(calls') /\ IsFiniteSet(handles')
    BY <1>1 DEF Beginning, Kept, BudgetInv
  <2>2. Cardinality(Busy') \in Nat /\ Cardinality(Busy') <= Cardinality(Busy) - 1
    BY TagFreed
  <2>3. /\ Cardinality(Busy) \in Nat /\ Cardinality(Beginning) \in Nat /\ Cardinality(Kept) \in Nat /\ MaxTag \in Nat
        /\ Cardinality(Busy) + Cardinality(Beginning) + Cardinality(Kept) <= MaxTag
    BY <1>1, Counts, Numbers
  <2>4. QED
    BY <2>1, <2>2, <2>3, CountsAfter
<1>10. /\ IInv /\ UNCHANGED <<requests, table, broken>>
       /\ replies' = replies \/ (replies # <<>> /\ replies' = Tail(replies))
  OBVIOUS
<1>11. /\ \A n \in N : n.pc = "begin" /\ Shape(n)' /\ (n.own \in Fid => \A d \in calls : d.own # n.own)
       /\ ~broken => \A x \in N : Makes(x.req, x.more) => table[x.own] = "none" /\ Unnamed(x.own)
       /\ ~broken => \A x \in N : x.req = "Topen" => table[x.own] # "none"
       /\ ~broken => \A x \in N : x.own \in Fid => x.op = "clunk" \/ \A i \in DOMAIN requests : requests[i].own # x.own
  BY <1>2
<1>12. /\ ~broken => \A g \in Fid : HasHandle(g) => HasHandle(g)' \/ (table[g] = "none" /\ Unnamed(g))
       /\ \A d \in calls : NoFid \in Fid => d.own # NoFid /\ d.fid # NoFid
       /\ ~broken => \A d \in calls : d.op = "clunk" /\ d.pc = "wait" => d \in calls \/ Unnamed(d.own)
       /\ ~broken => \A h \in handles' : h.kind \in {"dir", "file"} =>
             h \in handles \/ (table[h.fid] # "none" /\ \A i \in DOMAIN requests : requests[i].own # h.fid)
  BY <1>8, Numbers
<1>13. QED
  BY ONLY <1>3, <1>7, <1>8, <1>9, <1>10, <1>11, <1>12, ClientStep
\* The next request of a call.
LEMMA ContinueStep ==
    ASSUME IInv, replies # <<>>, replies' = Tail(replies),
           inflight' = [inflight EXCEPT ![Head(replies).tag] = 0],
           UNCHANGED <<broken, requests, table>>,
           NEW c \in calls, c.pc = "wait", c.tag = Head(replies).tag, Head(replies).result = "ok",
           NEW req \in {"Twalk", "Topen"}, Continue(c, req),
           (req = "Twalk" /\ c.more) \/ (req = "Topen" /\ c.op = "openFile" /\ c.req = "Twalk")
    PROVE  IInv'
<1>1. TypeOK /\ OneOwner /\ PoolInv /\ CallInv /\ BudgetInv /\ TagInv /\ OwnReply /\ AskInv /\ c \in Call /\ Shape(c)
  BY DEF IInv, TypeOK, CallInv
<1>2. PICK n : n = [c EXCEPT !.req = req, !.more = FALSE, !.pc = "begin", !.tag = NoTag]
  OBVIOUS
<1>3. PICK running : running = calls \ {c}
  OBVIOUS
<1>4. PICK N : N = {n}
  OBVIOUS
<1>5. /\ n \in Call /\ n.id = c.id /\ n.op = c.op /\ n.req = req /\ ~n.more /\ n.fid = c.fid
      /\ n.own = c.own /\ n.pc = "begin" /\ n.more \in BOOLEAN
  BY <1>1, <1>2 DEF Call
<1>6. c.op \in {"openDir", "openFile"} /\ c.own \in Fid /\ (req = "Twalk" => LongPaths /\ c.op = "openDir")
  <2>1. c.more => LongPaths /\ c.op = "openDir"
    BY <1>1 DEF Shape
  <2>2. c.op \in {"openDir", "openFile"}
    BY <2>1
  <2>3. c.own \in Fid
    BY <1>1, <2>2, ShapeFacts
  <2>4. QED
    BY <2>1, <2>2, <2>3
<1>7. /\ N \in SUBSET Call /\ (\A x, m \in N : x = m) /\ UNCHANGED <<next, freeList, handles>>
      /\ running \in SUBSET calls /\ calls' = running \cup N
  BY <1>2, <1>3, <1>4, <1>5 DEF Continue
<1>8. /\ \A d \in running : d.pc # "begin" => d.tag # Head(replies).tag
      /\ \A x \in N : /\ x.pc = "begin" /\ \A d \in running : d.id # x.id
                      /\ \A t \in Tag : inflight'[t] # x.id
  BY <1>3, <1>4, <1>5, ReplyAlone
<1>9. TagInv' /\ OwnReply' /\ AskInv' /\ inflight' \in [Tag -> CallId \cup {0}]
  <2>1. /\ replies # <<>> /\ replies' = Tail(replies) /\ inflight' = [inflight EXCEPT ![Head(replies).tag] = 0]
        /\ UNCHANGED requests
    OBVIOUS
  <2>2. QED
    BY ONLY <1>1, <1>7, <1>8, <2>1, TagReply
<1>10. /\ next' \in 0..MaxFid /\ freeList' \subseteq {f \in Fid : f < next'}
       /\ handles' \subseteq Handle /\ OneHandle' /\ PoolInv' /\ Touches(NoFid)
       /\ \A g \in Fid : HasHandle(g)' <=> HasHandle(g)
  BY <1>1, <1>7, SameHandles
<1>11. BudgetInv'
  <2>1. IsFiniteSet(calls) /\ IsFiniteSet(handles) /\ IsFiniteSet(Beginning)
    BY <1>1, Counts DEF BudgetInv
  <2>2. calls' \subseteq calls \cup {n} /\ Beginning' \subseteq Beginning \cup {n} /\ Kept' = Kept /\ IsFiniteSet(handles')
    BY <1>3, <1>4, <1>7, <2>1 DEF Beginning, Kept
  <2>3. IsFiniteSet(calls') /\ Cardinality(Beginning') <= Cardinality(Beginning) + 1
    BY <2>1, <2>2, CountLess
  <2>4. Cardinality(Busy') \in Nat /\ Cardinality(Busy') <= Cardinality(Busy) - 1
    BY TagFreed
  <2>5. /\ Cardinality(Busy) \in Nat /\ Cardinality(Beginning) \in Nat /\ Cardinality(Kept) \in Nat /\ MaxTag \in Nat
        /\ Cardinality(Busy) + Cardinality(Beginning) + Cardinality(Kept) <= MaxTag
    BY <1>1, Counts, Numbers
  <2>6. QED
    BY SMTT(30), <2>2, <2>3, <2>4, <2>5, CountsAfter
<1>12. /\ IInv /\ UNCHANGED <<requests, table, broken>>
       /\ replies' = replies \/ (replies # <<>> /\ replies' = Tail(replies))
  OBVIOUS
<1>13. Shape(n)'
  <2>1. <<n.op, n.req>> \in Asks
    BY <1>5, <1>6 DEF Asks
  <2>2. handles' = handles
    BY <1>7
  <2>3. Owned(n.own, "new") \in handles /\ \E mode \in {"dir", "file"} : Owned(n.fid, mode) \in handles
    BY <1>1, <1>5, <1>6 DEF Shape
  <2>4. n.op \in {"openDir", "openFile"} /\ ~n.more
    BY <1>5, <1>6
  <2>5. QED
    BY ONLY <2>1, <2>2, <2>3, <2>4 DEF Shape
<1>14. /\ ~broken /\ req = "Topen" => table[c.own] # "none"
       /\ ~broken => \A i \in DOMAIN requests : requests[i].own # c.own
  BY <1>6, ReplyFacts
<1>15. ~Makes(n.req, n.more)
  BY <1>5, <1>6 DEF Makes
<1>16. /\ \A x \in N : x.pc = "begin" /\ Shape(x)' /\ (x.own \in Fid => \A d \in running : d.own # x.own)
       /\ ~broken => \A x \in N : Makes(x.req, x.more) => table[x.own] = "none" /\ Unnamed(x.own)
       /\ ~broken => \A x \in N : x.req = "Topen" => table[x.own] # "none"
       /\ ~broken => \A x \in N : x.own \in Fid => x.op = "clunk" \/ \A i \in DOMAIN requests : requests[i].own # x.own
  <2>1. \A d \in running : d.own # c.own
    BY <1>3, <1>6, OwnAlone
  <2>2. \A x \in N : x = n
    BY <1>4
  <2>3. QED
    BY <1>5, <1>13, <1>14, <1>15, <2>1, <2>2
<1>17. /\ ~broken => \A g \in Fid : HasHandle(g) => HasHandle(g)' \/ (table[g] = "none" /\ Unnamed(g))
       /\ \A d \in running : NoFid \in Fid => d.own # NoFid /\ d.fid # NoFid
       /\ ~broken => \A d \in calls : d.op = "clunk" /\ d.pc = "wait" => d \in running \/ Unnamed(d.own)
       /\ ~broken => \A h \in handles' : h.kind \in {"dir", "file"} =>
             h \in handles \/ (table[h.fid] # "none" /\ \A i \in DOMAIN requests : requests[i].own # h.fid)
  BY <1>3, <1>6, <1>7, <1>10, Numbers
<1>18. QED
  BY ONLY <1>7, <1>9, <1>10, <1>11, <1>12, <1>16, <1>17, ClientStep

\* A call that returns its handle.
LEMMA FinishStep ==
    ASSUME IInv, replies # <<>>, replies' = Tail(replies),
           inflight' = [inflight EXCEPT ![Head(replies).tag] = 0],
           UNCHANGED <<broken, requests, table>>,
           NEW c \in calls, c.pc = "wait", c.tag = Head(replies).tag, Head(replies).result = "ok",
           c.op \in {"attach", "openDir"} \/ c.req = "Topen", Finish(c)
    PROVE  IInv'
<1>1. TypeOK /\ OneOwner /\ PoolInv /\ CallInv /\ BudgetInv /\ TagInv /\ OwnReply /\ AskInv /\ c \in Call /\ Shape(c) /\ OneHandle
  BY OwnerTo DEF IInv, TypeOK, CallInv
<1>2. PICK f, mode : f = c.own /\ mode = IF c.op \in {"attach", "openDir"} THEN "dir" ELSE "file"
  OBVIOUS
<1>3. PICK running : running = calls \ {c}
  OBVIOUS
<1>4. PICK N : N = {}
  OBVIOUS
<1>5. c.op \notin {"io", "clunk"} /\ c.req \in {"Tattach", "Twalk", "Topen"}
  BY <1>1 DEF Shape, Asks
<1>6. f \in Fid /\ Owned(f, "new") \in handles /\ mode \in {"dir", "file"} /\ \A d \in running : d.own # f /\ d.fid # f
  BY <1>1, <1>2, <1>3, <1>5, ShapeFacts, OwnAlone
<1>7. /\ N \in SUBSET Call /\ (\A x, m \in N : x = m) /\ UNCHANGED <<next, freeList>>
      /\ running \in SUBSET calls /\ calls' = running \cup N
  BY <1>3, <1>4 DEF Finish
<1>8. handles' = Put(f, mode)
  BY <1>2 DEF Finish, Put, Owned
<1>9. /\ \A d \in running : d.pc # "begin" => d.tag # Head(replies).tag
      /\ \A x \in N : /\ x.pc = "begin" /\ \A d \in running : d.id # x.id
                      /\ \A t \in Tag : inflight'[t] # x.id
  BY <1>3, <1>4, ReplyAlone
<1>10. TagInv' /\ OwnReply' /\ AskInv' /\ inflight' \in [Tag -> CallId \cup {0}]
  <2>1. /\ replies # <<>> /\ replies' = Tail(replies) /\ inflight' = [inflight EXCEPT ![Head(replies).tag] = 0]
        /\ UNCHANGED requests
    OBVIOUS
  <2>2. QED
    BY ONLY <1>1, <1>7, <1>9, <2>1, TagReply
<1>11. /\ handles' \subseteq Handle /\ OneHandle' /\ Touches(f)
       /\ \A h \in handles' : h.fid = f => h = Owned(f, mode)
       /\ \A g \in Fid : HasHandle(g)' <=> HasHandle(g) \/ g = f
  <2>1. handles \subseteq Handle /\ mode \in {"new", "dir", "file", "clunk"}
    BY <1>1, <1>6 DEF TypeOK
  <2>2. QED
    BY ONLY <1>1, <1>6, <1>8, <2>1, PutFacts
<1>12. HasHandle(f)
  BY <1>6, HandleFields DEF HasHandle
<1>13. next' \in 0..MaxFid /\ freeList' \subseteq {g \in Fid : g < next'} /\ PoolInv'
  <2>1. next' \in 0..MaxFid /\ freeList' \subseteq {g \in Fid : g < next'} /\ freeList' \subseteq Fid
    BY <1>1, <1>7 DEF TypeOK
  <2>2. \A g \in Fid : HasHandle(g)' <=> g < next' /\ g \notin freeList'
    BY <1>1, <1>7, <1>11, <1>12, PoolFacts
  <2>3. QED
    BY <1>11, <2>1, <2>2, PoolFrom
<1>14. BudgetInv'
  <2>1. IsFiniteSet(calls) /\ IsFiniteSet(handles) /\ IsFiniteSet(Beginning) /\ IsFiniteSet(Kept)
    BY <1>1, Counts DEF BudgetInv
  <2>2. calls' \subseteq calls /\ Beginning' \subseteq Beginning
    BY <1>3, <1>4, <1>7 DEF Beginning
  <2>3. PICK old, new : old = Owned(f, "new") /\ new = Owned(f, mode)
    OBVIOUS
  <2>4. old \in Kept /\ handles' \subseteq handles \cup {new}
    BY <1>6, <1>8, <2>3, HandleFields DEF Kept, Put
  <2>5. Kept' \subseteq (Kept \ {old}) \cup {new}
    BY <1>8, <2>3, HandleFields DEF Kept, Put
  <2>6. /\ IsFiniteSet(calls') /\ IsFiniteSet(handles') /\ Cardinality(Beginning') <= Cardinality(Beginning)
        /\ Cardinality(Kept') <= Cardinality(Kept)
    BY <2>1, <2>2, <2>4, <2>5, CountLess
  <2>7. Cardinality(Busy') \in Nat /\ Cardinality(Busy') <= Cardinality(Busy) - 1
    BY TagFreed
  <2>8. /\ Cardinality(Busy) \in Nat /\ Cardinality(Beginning) \in Nat /\ Cardinality(Kept) \in Nat /\ MaxTag \in Nat
        /\ Cardinality(Busy) + Cardinality(Beginning) + Cardinality(Kept) <= MaxTag
    BY <1>1, Counts, Numbers
  <2>9. QED
    BY SMTT(30), <2>6, <2>7, <2>8, CountsAfter
<1>15. /\ IInv /\ UNCHANGED <<requests, table, broken>>
       /\ replies' = replies \/ (replies # <<>> /\ replies' = Tail(replies))
  OBVIOUS
<1>16. ~broken => table[f] # "none" /\ \A i \in DOMAIN requests : requests[i].own # f
  BY <1>2, <1>5, <1>6, ReplyFacts
<1>17. /\ \A x \in N : x.pc = "begin" /\ Shape(x)' /\ (x.own \in Fid => \A d \in running : d.own # x.own)
       /\ ~broken => \A x \in N : Makes(x.req, x.more) => table[x.own] = "none" /\ Unnamed(x.own)
       /\ ~broken => \A x \in N : x.req = "Topen" => table[x.own] # "none"
       /\ ~broken => \A x \in N : x.own \in Fid => x.op = "clunk" \/ \A i \in DOMAIN requests : requests[i].own # x.own
  BY <1>4
<1>18. /\ ~broken => \A g \in Fid : HasHandle(g) => HasHandle(g)' \/ (table[g] = "none" /\ Unnamed(g))
       /\ \A d \in running : f \in Fid => d.own # f /\ d.fid # f
       /\ ~broken => \A d \in calls : d.op = "clunk" /\ d.pc = "wait" => d \in running \/ Unnamed(d.own)
  BY <1>3, <1>5, <1>6, <1>11
<1>19. ~broken => \A h \in handles' : h.kind \in {"dir", "file"} =>
             h \in handles \/ (table[h.fid] # "none" /\ \A i \in DOMAIN requests : requests[i].own # h.fid)
  BY <1>8, <1>16, HandleFields DEF Put
<1>20. QED
  BY ONLY <1>7, <1>10, <1>11, <1>13, <1>14, <1>15, <1>17, <1>18, <1>19, ClientStep

\* A call that ends with an error.
LEMMA FailedStep ==
    ASSUME IInv, replies # <<>>, replies' = Tail(replies),
           inflight' = [inflight EXCEPT ![Head(replies).tag] = 0],
           UNCHANGED <<broken, requests, table>>,
           NEW c \in calls, c.pc = "wait", c.tag = Head(replies).tag, Fail(c)
    PROVE  IInv'
<1>1. TypeOK /\ CallInv /\ BudgetInv /\ TagInv /\ OwnReply /\ AskInv
  BY DEF IInv
<1>2. PICK running : running = calls \ {c}
  OBVIOUS
<1>3. PICK N \in SUBSET Call :
        /\ calls' = running \cup N /\ \A n, m \in N : n = m
        /\ \A n \in N : n.pc = "begin" /\ (\A d \in calls : d.id # n.id) /\ \A t \in Tag : inflight[t] # n.id
  BY <1>2, FailCalls
<1>4. /\ N \in SUBSET Call /\ (\A x, m \in N : x = m)
      /\ running \in SUBSET calls /\ calls' = running \cup N
  BY <1>2, <1>3
<1>5. \A d \in running : d.pc # "begin" => d.tag # Head(replies).tag
  BY <1>2, ReplyAlone
<1>6. \A x \in N : /\ x.pc = "begin" /\ \A d \in running : d.id # x.id
                   /\ \A t \in Tag : inflight'[t] # x.id
  <2>1. \A x \in N : x.id \in CallId /\ x.id # 0
    BY <1>3, Numbers DEF Call
  <2>2. \A t \in Tag : inflight'[t] = 0 \/ inflight'[t] = inflight[t]
    BY TagFreed
  <2>3. QED
    BY <1>3, <1>4, <2>1, <2>2
<1>7. TagInv' /\ OwnReply' /\ AskInv' /\ inflight' \in [Tag -> CallId \cup {0}]
  <2>1. /\ replies # <<>> /\ replies' = Tail(replies) /\ inflight' = [inflight EXCEPT ![Head(replies).tag] = 0]
        /\ UNCHANGED requests
    OBVIOUS
  <2>2. QED
    BY ONLY <1>1, <1>4, <1>5, <1>6, <2>1, TagReply
<1>8. Cardinality(Busy') <= Cardinality(Busy)
  <2>1. Cardinality(Busy) \in Nat
    BY <1>1, Counts
  <2>2. QED
    BY <2>1, TagFreed
<1>9. ~broken /\ c.op = "clunk" => table[c.own] = "none" /\ Unnamed(c.own)
  <2>1. c.op = "clunk" => c.req = "Tclunk"
    BY <1>1 DEF CallInv, Shape, Asks
  <2>2. QED
    BY <2>1, ReplyFacts
<1>10. QED
  BY <1>7, <1>8, <1>9, FailStep

\* A reply is lost.
LEMMA ReplyLost ==
    ASSUME IInv, replies # <<>>, replies' = Tail(replies),
           UNCHANGED <<next, freeList, handles, calls, inflight, broken, requests, table>>
    PROVE  IInv'
<1>1. /\ TypeOK /\ OneOwner /\ PoolInv /\ CallInv /\ BudgetInv /\ TagInv /\ OwnReply /\ AskInv
      /\ FidsFresh /\ FidsKnown /\ NoneForgotten /\ FidInv /\ replies \in Seq(Reply)
  BY DEF IInv, TypeOK
<1>2. /\ replies' \in Seq(Reply)
      /\ \A j \in DOMAIN replies' : j + 1 \in DOMAIN replies /\ replies'[j] = replies[j + 1]
      /\ \A j \in DOMAIN replies' : j \in Nat
  BY <1>1, TailIs
<1>3. TypeOK' /\ FidsFresh' /\ FidsKnown'
  BY <1>1, <1>2 DEF TypeOK, FidsFresh, FidsKnown
<1>4. OneOwner' /\ PoolInv' /\ BudgetInv' /\ NoneForgotten'
  BY <1>1 DEF OneOwner, PoolInv, BudgetInv, NoneForgotten
<1>5. CallInv'
  BY <1>1 DEF CallInv, Shape
<1>6. OwnReply'
  <2>1. \A j, k \in DOMAIN replies' : j + 1 = k + 1 => j = k
    BY <1>2
  <2>2. QED
    BY <1>1, <1>2, <2>1 DEF OwnReply
<1>7. TagInv' /\ AskInv'
  BY <1>1, <1>2 DEF TagInv, AskInv, RequestOf
<1>8. FidInv'
  <2>1. RequestInv => RequestInv'
    BY DEF RequestInv
  <2>2. TableInv => TableInv'
    BY <1>2 DEF TableInv
  <2>3. QED
    BY <1>1, <2>1, <2>2 DEF FidInv
<1>9. QED
  BY <1>3, <1>4, <1>5, <1>6, <1>7, <1>8 DEF IInv

LEMMA AnswerStep ==
    ASSUME IInv, RecvReply, Head(replies).result # "long"
    PROVE  IInv'
<1>1. /\ replies # <<>> /\ replies' = Tail(replies)
      /\ inflight' = [inflight EXCEPT ![Head(replies).tag] = 0]
      /\ UNCHANGED <<broken, requests, table>>
  BY DEF RecvReply
<1>2. \/ /\ \A c \in calls : ~(c.id = inflight[Head(replies).tag] /\ c.tag = Head(replies).tag /\ c.pc = "wait")
         /\ UNCHANGED <<next, freeList, handles, calls>>
      \/ \E c \in calls : c.pc = "wait" /\ c.tag = Head(replies).tag /\ Resume(c, Head(replies).result = "ok")
  BY DEF RecvReply
<1>3. CASE /\ \A c \in calls : ~(c.id = inflight[Head(replies).tag] /\ c.tag = Head(replies).tag /\ c.pc = "wait")
           /\ UNCHANGED <<next, freeList, handles, calls>>
  BY <1>1, <1>3, LateReply
<1>4. ASSUME NEW c \in calls, c.pc = "wait", c.tag = Head(replies).tag, Resume(c, Head(replies).result = "ok")
      PROVE  IInv'
  <2>1. CASE Fail(c)
    BY <1>1, <1>4, <2>1, FailedStep
  <2>2. CASE Head(replies).result = "ok" /\ c.more /\ Continue(c, "Twalk")
    BY <1>1, <1>4, <2>2, ContinueStep
  <2>3. CASE Head(replies).result = "ok" /\ c.op = "openFile" /\ c.req = "Twalk" /\ Continue(c, "Topen")
    BY <1>1, <1>4, <2>3, ContinueStep
  <2>4. CASE Head(replies).result = "ok" /\ (c.op \in {"attach", "openDir"} \/ c.req = "Topen") /\ Finish(c)
    BY <1>1, <1>4, <2>4, FinishStep
  <2>5. QED
    BY <1>4, <2>1, <2>2, <2>3, <2>4 DEF Resume
<1>5. QED
  BY <1>2, <1>3, <1>4

LEMMA RecvStep ==
    ASSUME IInv, RecvReply
    PROVE  IInv'
<1>1. CASE Head(replies).result = "long"
  <2>1. /\ replies # <<>> /\ replies' = Tail(replies)
        /\ UNCHANGED <<next, freeList, handles, calls, inflight, broken, requests, table>>
    BY <1>1 DEF RecvReply, client
  <2>2. QED
    BY <2>1, ReplyLost
<1>2. CASE Head(replies).result # "long"
  BY <1>2, AnswerStep
<1>3. QED
  BY <1>1, <1>2

\* A call that goes on: the same operation, with the same handles.
SameAsk(c, n) ==
    /\ n.id = c.id /\ n.op = c.op /\ n.req = c.req /\ n.more = c.more /\ n.fid = c.fid /\ n.own = c.own
    /\ n.pc # "begin"

LEMMA GoesOn ==
    ASSUME IInv, NEW c \in calls, NEW n \in Call, SameAsk(c, n),
           calls' = (calls \ {c}) \cup {n}, UNCHANGED <<next, freeList, handles>>
    PROVE  /\ CallInv' /\ OneCall' /\ OneHandle' /\ PoolInv' /\ calls' \subseteq Call
           /\ next' \in 0..MaxFid /\ freeList' \subseteq {f \in Fid : f < next'} /\ handles' \subseteq Handle
           /\ IsFiniteSet(calls') /\ IsFiniteSet(handles') /\ Kept' = Kept /\ Beginning' \subseteq Beginning \ {c}
<1>1. TypeOK /\ OneOwner /\ PoolInv /\ CallInv /\ BudgetInv /\ OneCall /\ Shape(c)
  BY OwnerTo DEF IInv, CallInv
<1>2. /\ next' \in 0..MaxFid /\ freeList' \subseteq {f \in Fid : f < next'}
      /\ handles' \subseteq Handle /\ OneHandle' /\ PoolInv' /\ Touches(NoFid)
  BY <1>1, SameHandles
<1>3. PICK running, N : running = calls \ {c} /\ N = {n}
  OBVIOUS
<1>4. /\ running \in SUBSET calls /\ N \in SUBSET Call /\ calls' = running \cup N
      /\ (\A x, y \in N : x = y) /\ NoFid \notin Fid
  BY <1>3, Numbers
<1>5. Shape(n)'
  <2>1. handles' = handles
    OBVIOUS
  <2>2. QED
    BY ONLY <1>1, <2>1, SameAsk(c, n) DEF SameAsk, Shape
<1>6. \A x \in N : Shape(x)' /\ (x.own \in Fid => \A d \in running : d.own # x.own)
  BY <1>3, <1>5, OwnAlone DEF SameAsk
<1>7. \A d \in running : NoFid \in Fid => d.own # NoFid /\ d.fid # NoFid
  BY <1>4
<1>8. CallInv' /\ OneCall' /\ calls' \subseteq Call
  BY ONLY <1>1, <1>2, <1>4, <1>6, <1>7, CallsKept
<1>9. IsFiniteSet(calls) /\ IsFiniteSet(handles)
  BY <1>1 DEF BudgetInv
<1>10. IsFiniteSet(calls')
  <2>1. calls' \subseteq calls \cup {n}
    OBVIOUS
  <2>2. QED
    BY ONLY <1>9, <2>1, CountLess
<1>11. IsFiniteSet(handles') /\ Kept' = Kept
  BY <1>9 DEF Kept
<1>12. Beginning' \subseteq Beginning \ {c}
  BY DEF SameAsk, Beginning
<1>13. QED
  BY <1>2, <1>8, <1>10, <1>11, <1>12

\* A call that gets its tag.
LEMMA BeginStep ==
    ASSUME IInv, NEW c \in calls, Begin(c)
    PROVE  IInv'
<1>1. /\ TypeOK /\ OneOwner /\ PoolInv /\ CallInv /\ BudgetInv /\ TagInv /\ OwnReply /\ AskInv
      /\ FidsFresh /\ FidsKnown /\ NoneForgotten /\ FidInv /\ c \in Call
  BY DEF IInv, TypeOK
<1>2. PICK tag : tag = Least({t \in Tag : inflight[t] = 0})
  OBVIOUS
<1>3. PICK n : n = [c EXCEPT !.pc = "send", !.tag = tag]
  OBVIOUS
<1>4. /\ c.pc = "begin" /\ inflight' = [inflight EXCEPT ![tag] = c.id] /\ calls' = (calls \ {c}) \cup {n}
      /\ UNCHANGED <<next, freeList, handles, broken, requests, table, replies>>
  BY <1>2, <1>3 DEF Begin, wire
<1>5. tag \in Tag /\ inflight[tag] = 0
  BY <1>1, <1>2, <1>4, FreeTag
<1>6. n \in Call /\ SameAsk(c, n) /\ n.pc = "send" /\ n.tag = tag
  BY <1>1, <1>3, <1>5 DEF Call, SameAsk
<1>7. /\ TagInv' /\ OwnReply' /\ AskInv' /\ inflight' \in [Tag -> CallId \cup {0}]
  BY <1>1, TagBegin
<1>8. /\ CallInv' /\ OneCall' /\ OneHandle' /\ PoolInv' /\ calls' \subseteq Call
      /\ next' \in 0..MaxFid /\ freeList' \subseteq {f \in Fid : f < next'} /\ handles' \subseteq Handle
      /\ IsFiniteSet(calls') /\ IsFiniteSet(handles') /\ Kept' = Kept /\ Beginning' \subseteq Beginning \ {c}
  BY <1>4, <1>6, GoesOn
<1>9. TypeOK'
  BY <1>1, <1>4, <1>7, <1>8 DEF TypeOK
<1>10. OneOwner'
  BY <1>8, <1>9, OwnerFrom
<1>11. BudgetInv'
  <2>1. IsFiniteSet(Busy) /\ IsFiniteSet(Beginning) /\ c \in Beginning
    BY <1>1, <1>4, Counts DEF Beginning
  <2>2. Busy' \subseteq Busy \cup {tag}
    BY <1>1, <1>4, <1>5 DEF Busy, TypeOK
  <2>3. Cardinality(Busy') <= Cardinality(Busy) + 1
    BY ONLY <2>1, <2>2, CountLess
  <2>4. Cardinality(Beginning') <= Cardinality(Beginning) - 1
    BY ONLY <1>8, <2>1, CountLess
  <2>5. /\ Cardinality(Busy) \in Nat /\ Cardinality(Beginning) \in Nat /\ Cardinality(Kept) \in Nat /\ MaxTag \in Nat
        /\ Cardinality(Busy) + Cardinality(Beginning) + Cardinality(Kept) <= MaxTag
    BY <1>1, Counts, Numbers
  <2>6. QED
    BY <1>8, <2>3, <2>4, <2>5, CountsAfter
<1>12. FidsFresh' /\ FidsKnown' /\ NoneForgotten'
  BY <1>1, <1>4 DEF FidsFresh, FidsKnown, NoneForgotten
<1>13. FidInv'
  <2>1. SUFFICES ASSUME ~broken PROVE RequestInv' /\ TableInv'
    BY <1>1, <1>4 DEF FidInv
  <2>2. RequestInv /\ TableInv
    BY <1>1, <2>1 DEF FidInv
  <2>3. \A d \in calls' : d = n \/ (d \in calls /\ d # c)
    BY <1>4
  <2>4. RequestInv'
    <3>1. SUFFICES ASSUME NEW i \in DOMAIN requests
                   PROVE  /\ requests[i].type = "Tclunk" =>
                                \E d \in calls' : d.op = "clunk" /\ d.pc = "wait" /\ d.own = requests[i].own
                          /\ \A d \in calls' : d.own = requests[i].own /\ d.own \in Fid =>
                                d.op = "clunk" \/ (d.pc = "wait" /\ d.tag = requests[i].tag)
      BY <1>4, <2>2 DEF RequestInv
    <3>2. requests[i].type = "Tclunk" => \E d \in calls' : d.op = "clunk" /\ d.pc = "wait" /\ d.own = requests[i].own
      BY <1>4, <2>2 DEF RequestInv
    <3>3. \A d \in calls : d.own = requests[i].own /\ d.own \in Fid => d.op = "clunk" \/ (d.pc = "wait" /\ d.tag = requests[i].tag)
      BY <2>2 DEF RequestInv
    <3>4. n.own = requests[i].own /\ n.own \in Fid => n.op = "clunk"
      BY <1>4, <1>6, <3>3 DEF SameAsk
    <3>5. QED
      BY <2>3, <3>2, <3>3, <3>4
  <2>5. TableInv'
    <3>1. SUFFICES ASSUME NEW d \in calls'
                   PROVE  /\ d.pc # "wait" /\ Makes(d.req, d.more) => table[d.own] = "none" /\ Unnamed(d.own)
                          /\ d.req = "Topen" => table[d.own] # "none"
                          /\ \A i \in DOMAIN replies : d.pc = "wait" /\ d.tag = replies[i].tag =>
                                /\ d.req = "Tclunk" => table[d.own] = "none" /\ Unnamed(d.own)
                                /\ replies[i].result = "ok" /\ d.req \in {"Tattach", "Twalk"} => table[d.own] # "none"
      BY <1>4, <2>2 DEF TableInv, Unnamed
    <3>2. CASE d = n
      BY <1>4, <1>6, <2>2, <3>2 DEF TableInv, Unnamed, SameAsk
    <3>3. CASE d \in calls
      BY <2>2, <3>3 DEF TableInv, Unnamed
    <3>4. QED
      BY <2>3, <3>2, <3>3
  <2>6. QED
    BY <2>4, <2>5
<1>14. QED
  BY <1>7, <1>8, <1>9, <1>10, <1>11, <1>12, <1>13 DEF IInv
\* The parts of RequestInv, for one request.
ReqSees(q) ==
    /\ \A f \in Fid : Names(q, f) => HasHandle(f)
    /\ q.type \in {"Twalk", "Tio"} => q.fid \in Fid /\ table[q.fid] # "none"
    /\ q.type # "Tio" => q.own \in Fid
    /\ q.type = "Topen" => table[q.own] # "none"
    /\ Makes(q.type, q.more) => table[q.own] = "none"
    /\ q.type = "Tclunk" => \E c \in calls : c.op = "clunk" /\ c.pc = "wait" /\ c.own = q.own
    /\ \A c \in calls : c.own = q.own /\ c.own \in Fid => c.op = "clunk" \/ (c.pc = "wait" /\ c.tag = q.tag)
    /\ \A h \in handles : h.kind \in {"dir", "file"} => h.fid # q.own

ReqMeets(i, j) ==
    /\ Makes(requests[i].type, requests[i].more) /\ j # i /\ Names(requests[j], requests[i].own) =>
          requests[j].type = "Tclunk"
    /\ requests[i].type = "Tclunk" /\ j > i => ~Names(requests[j], requests[i].own)

LEMMA RequestParts ==
    RequestInv <=> /\ \A i \in DOMAIN requests : ReqSees(requests[i])
                   /\ \A i, j \in DOMAIN requests : ReqMeets(i, j)
<1>1. ASSUME RequestInv, NEW i \in DOMAIN requests
      PROVE  ReqSees(requests[i])
  BY <1>1 DEF RequestInv, ReqSees, HasHandle
<1>2. ASSUME RequestInv, NEW i \in DOMAIN requests, NEW j \in DOMAIN requests
      PROVE  ReqMeets(i, j)
  BY <1>2 DEF RequestInv, ReqMeets
<1>3. ASSUME \A i \in DOMAIN requests : ReqSees(requests[i]), \A i, j \in DOMAIN requests : ReqMeets(i, j)
      PROVE  RequestInv
  BY <1>3 DEF RequestInv, ReqSees, ReqMeets, HasHandle
<1>4. QED
  BY <1>1, <1>2, <1>3

LEMMA RequestFrom ==
    ASSUME \A i \in DOMAIN requests' : ReqSees(requests[i])', \A i, j \in DOMAIN requests' : ReqMeets(i, j)'
    PROVE  RequestInv'
  BY DEF RequestInv, ReqSees, ReqMeets, HasHandle, Makes, Names

\* What the calls know of the server, for one call and one reply to it.
CallSees(c) ==
    /\ c.pc # "wait" /\ Makes(c.req, c.more) => table[c.own] = "none" /\ Unnamed(c.own)
    /\ c.req = "Topen" => table[c.own] # "none"

ReplySees(c, r) ==
    c.pc = "wait" /\ c.tag = r.tag =>
        /\ c.req = "Tclunk" => table[c.own] = "none" /\ Unnamed(c.own)
        /\ r.result = "ok" /\ c.req \in {"Tattach", "Twalk"} => table[c.own] # "none"

LEMMA TableParts ==
    TableInv <=> /\ \A h \in handles : h.kind \in {"dir", "file"} => table[h.fid] # "none"
                 /\ \A c \in calls : CallSees(c)
                 /\ \A c \in calls, i \in DOMAIN replies : ReplySees(c, replies[i])
  BY DEF TableInv, CallSees, ReplySees, Unnamed

LEMMA TableFrom ==
    ASSUME \A h \in handles' : h.kind \in {"dir", "file"} => table'[h.fid] # "none",
           \A c \in calls' : CallSees(c)',
           \A c \in calls', i \in DOMAIN replies' : ReplySees(c, replies[i])'
    PROVE  TableInv'
  BY DEF TableInv, CallSees, ReplySees, Unnamed, Makes, Names

\* A call that sends its request.
LEMMA FidSend ==
    ASSUME IInv, NEW c \in calls, c.pc = "send", ~broken, NEW q, q = RequestOf(c), q \in Request,
           requests' = Append(requests, q), NEW n \in Call, SameAsk(c, n), n.pc = "wait", n.tag = c.tag,
           calls' = (calls \ {c}) \cup {n}, UNCHANGED <<handles, table, replies, broken>>
    PROVE  RequestInv' /\ TableInv'
<1>1. TypeOK /\ CallInv /\ TagInv /\ RequestInv /\ TableInv /\ c \in Call /\ Shape(c)
  BY DEF IInv, FidInv, TypeOK, CallInv
<1>2. requests \in Seq(Request) /\ q.tag = c.tag /\ q.type = c.req /\ q.more = c.more /\ q.fid = c.fid /\ q.own = c.own
  BY <1>1 DEF TypeOK, RequestOf
<1>3. PICK l : l = Len(requests) + 1
  OBVIOUS
<1>4. /\ DOMAIN requests' = DOMAIN requests \cup {l} /\ l \notin DOMAIN requests
      /\ \A i \in DOMAIN requests : i < l /\ requests'[i] = requests[i]
      /\ requests'[l] = q
  BY <1>2, <1>3, AppendIs
<1>5. DOMAIN requests \subseteq Nat /\ l \in Nat
  BY <1>2, <1>3
<1>6. /\ \A d \in calls' : d = n \/ (d \in calls /\ d # c)
      /\ \A d \in calls : d # c => d \in calls'
      /\ n \in calls'
  OBVIOUS
<1>7. n.op = c.op /\ n.req = c.req /\ n.more = c.more /\ n.fid = c.fid /\ n.own = c.own
  BY DEF SameAsk
<1>8. \A d \in calls : d # c /\ d.own \in Fid => ~Names(q, d.own)
  <2>1. SUFFICES ASSUME NEW d \in calls, d # c, d.own \in Fid
                 PROVE  c.own # d.own /\ c.fid # d.own
    BY <1>2 DEF Names
  <2>2. QED
    BY <2>1, OwnAlone
<1>9. c.op = "io" <=> c.req = "Tio"
  BY <1>1 DEF Shape, Asks
<1>10. c.op = "clunk" <=> c.req = "Tclunk"
  BY <1>1 DEF Shape, Asks
<1>11. RequestInv'
  <2>1. ASSUME NEW i \in DOMAIN requests
        PROVE  ReqSees(requests[i])'
    <3>1. PICK p : p = requests[i]
      OBVIOUS
    <3>2. ReqSees(p)
      BY <1>1, <3>1, RequestParts
    <3>3. /\ \A f \in Fid : Names(p, f) => HasHandle(f)'
          /\ \A h \in handles' : h.kind \in {"dir", "file"} => h.fid # p.own
      BY <3>2 DEF ReqSees, HasHandle
    <3>4. p.type = "Tclunk" => \E d \in calls' : d.op = "clunk" /\ d.pc = "wait" /\ d.own = p.own
      BY <1>6, <3>2 DEF ReqSees
    <3>5. \A d \in calls : d.own = p.own /\ d.own \in Fid => d.op = "clunk" \/ (d.pc = "wait" /\ d.tag = p.tag)
      BY <3>2 DEF ReqSees
    <3>6. \A d \in calls' : d.own = p.own /\ d.own \in Fid => d.op = "clunk" \/ (d.pc = "wait" /\ d.tag = p.tag)
      BY <1>6, <1>7, <3>5
    <3>7. /\ p.type \in {"Twalk", "Tio"} => p.fid \in Fid /\ table'[p.fid] # "none"
          /\ p.type # "Tio" => p.own \in Fid
          /\ p.type = "Topen" => table'[p.own] # "none"
          /\ Makes(p.type, p.more) => table'[p.own] = "none"
      BY <3>2 DEF ReqSees
    <3>8. ReqSees(p)'
      BY ONLY <3>3, <3>4, <3>6, <3>7 DEF ReqSees, Makes, Names
    <3>9. requests'[i] = p
      BY <1>4, <3>1
    <3>10. QED
      BY ONLY <3>8, <3>9 DEF ReqSees, Makes, Names
  <2>2. ReqSees(q)'
    <3>1. \A f \in Fid : Names(q, f) => HasHandle(f)'
      <4>1. \A f \in Fid : Names(q, f) => HasHandle(f)
        BY <1>1, <1>2, ShapeFacts, HandleFields, Numbers DEF Names, HasHandle
      <4>2. QED
        BY <4>1 DEF HasHandle
    <3>2. \A h \in handles' : h.kind \in {"dir", "file"} => h.fid # q.own
      BY <1>2, NotBorrowed
    <3>3. q.type = "Tclunk" => \E d \in calls' : d.op = "clunk" /\ d.pc = "wait" /\ d.own = q.own
      BY <1>2, <1>6, <1>7, <1>10
    <3>4. \A d \in calls' : d.own = q.own /\ d.own \in Fid => d.op = "clunk" \/ (d.pc = "wait" /\ d.tag = q.tag)
      BY <1>2, <1>6, <1>8 DEF Names
    <3>5. q.type \in {"Twalk", "Tio"} => q.fid \in Fid /\ table'[q.fid] # "none"
      <4>1. SUFFICES ASSUME c.req \in {"Twalk", "Tio"}
                     PROVE  c.fid \in Fid /\ table[c.fid] # "none"
        BY <1>2
      <4>2. c.op \in {"io", "openDir", "openFile"}
        BY <1>1, <4>1 DEF Shape, Asks
      <4>3. c.fid \in Fid /\ (Owned(c.fid, "dir") \in handles \/ Owned(c.fid, "file") \in handles)
        BY <1>1, <4>2, ShapeFacts
      <4>4. QED
        BY <1>1, <4>3, TableParts, HandleFields
    <3>6. q.type # "Tio" => q.own \in Fid
      BY <1>1, <1>2, <1>9, ShapeFacts
    <3>7. /\ q.type = "Topen" => table'[q.own] # "none"
          /\ Makes(q.type, q.more) => table'[q.own] = "none"
      BY <1>1, <1>2, TableParts DEF CallSees
    <3>8. QED
      BY ONLY <3>1, <3>2, <3>3, <3>4, <3>5, <3>6, <3>7 DEF ReqSees, Makes, Names
  <2>3. \A i \in DOMAIN requests' : ReqSees(requests[i])'
    <3>1. ReqSees(requests[l])'
      BY ONLY <1>4, <2>2 DEF ReqSees, Makes, Names
    <3>2. QED
      BY <1>4, <2>1, <3>1
  <2>4. ASSUME NEW i \in DOMAIN requests', NEW j \in DOMAIN requests'
        PROVE  ReqMeets(i, j)'
    <3>1. CASE i \in DOMAIN requests /\ j \in DOMAIN requests
      <4>1. ReqMeets(i, j)
        BY <1>1, <3>1, RequestParts
      <4>2. requests'[i] = requests[i] /\ requests'[j] = requests[j]
        BY <1>4, <3>1
      <4>3. QED
        BY ONLY <4>1, <4>2 DEF ReqMeets, Makes, Names
    <3>2. CASE i \in DOMAIN requests /\ j = l
      <4>1. requests'[i] = requests[i] /\ requests'[j] = q
        BY <1>4, <3>2
      <4>2. ReqSees(requests[i])
        BY <1>1, <3>2, RequestParts
      <4>3. Makes(requests[i].type, requests[i].more) /\ Names(q, requests[i].own) => q.type = "Tclunk"
        <5>1. SUFFICES ASSUME Names(q, requests[i].own) PROVE q.type = "Tclunk"
          OBVIOUS
        <5>2. CASE c.own = requests[i].own
          BY <1>2, <1>10, <4>2, <5>1, <5>2 DEF ReqSees, Names
        <5>3. CASE c.fid = requests[i].own
          <6>1. c.fid \in Fid
            BY <5>1, <5>3 DEF Names
          <6>2. Owned(c.fid, "dir") \in handles \/ Owned(c.fid, "file") \in handles
            BY <1>1, <6>1, ShapeFacts, Numbers
          <6>3. QED
            BY <4>2, <5>3, <6>2, HandleFields DEF ReqSees
        <5>4. QED
          BY <1>2, <5>1, <5>2, <5>3 DEF Names
      <4>4. requests[i].type = "Tclunk" => ~Names(q, requests[i].own)
        <5>1. SUFFICES ASSUME requests[i].type = "Tclunk", requests[i].own \in Fid PROVE ~Names(q, requests[i].own)
          BY DEF Names
        <5>2. PICK d \in calls : d.op = "clunk" /\ d.pc = "wait" /\ d.own = requests[i].own
          BY <4>2, <5>1 DEF ReqSees
        <5>3. QED
          BY <1>8, <5>1, <5>2
      <4>5. QED
        BY ONLY <4>1, <4>3, <4>4 DEF ReqMeets, Makes, Names
    <3>3. CASE i = l /\ j \in DOMAIN requests
      <4>1. requests'[i] = q /\ requests'[j] = requests[j] /\ ~(j > i)
        BY <1>4, <1>5, <3>3
      <4>2. Makes(q.type, q.more) => ~Names(requests[j], q.own)
        BY <1>1, <1>2, <3>3, TableParts DEF CallSees, Unnamed
      <4>3. QED
        BY ONLY <4>1, <4>2 DEF ReqMeets, Makes, Names
    <3>4. CASE i = l /\ j = l
      <4>1. ~(j > i) /\ j = i
        BY <1>5, <3>4
      <4>2. QED
        BY ONLY <4>1 DEF ReqMeets
    <3>5. QED
      BY <1>4, <3>1, <3>2, <3>3, <3>4
  <2>5. QED
    BY <2>3, <2>4, RequestFrom
<1>12. TableInv'
  <2>1. \A h \in handles' : h.kind \in {"dir", "file"} => table'[h.fid] # "none"
    BY <1>1, TableParts
  <2>2. ASSUME NEW d \in calls, d # c, Unnamed(d.own)
        PROVE  Unnamed(d.own)'
    BY <1>4, <1>8, <2>2 DEF Unnamed, Names
  <2>3. \A d \in calls' : CallSees(d)'
    <3>1. ASSUME NEW d \in calls, d # c
          PROVE  CallSees(d)'
      <4>1. CallSees(d) /\ table' = table
        BY <1>1, TableParts
      <4>2. Unnamed(d.own) => Unnamed(d.own)'
        BY <2>2, <3>1
      <4>3. QED
        BY ONLY <4>1, <4>2 DEF CallSees, Makes
    <3>2. CallSees(n)'
      <4>1. CallSees(c)
        BY <1>1, TableParts
      <4>2. n.pc = "wait" /\ n.req = c.req /\ n.own = c.own /\ table' = table
        BY <1>7
      <4>3. QED
        BY ONLY <4>1, <4>2 DEF CallSees
    <3>3. QED
      BY <1>6, <3>1, <3>2
  <2>4. \A d \in calls', i \in DOMAIN replies' : ReplySees(d, replies[i])'
    <3>1. ASSUME NEW d \in calls, d # c, NEW i \in DOMAIN replies
          PROVE  ReplySees(d, replies[i])'
      <4>1. ReplySees(d, replies[i]) /\ table' = table /\ replies' = replies
        BY <1>1, TableParts
      <4>2. Unnamed(d.own) => Unnamed(d.own)'
        BY <2>2, <3>1
      <4>3. QED
        BY ONLY <4>1, <4>2 DEF ReplySees
    <3>2. ASSUME NEW i \in DOMAIN replies
          PROVE  ReplySees(n, replies[i])'
      <4>1. replies[i].tag # c.tag
        BY <1>1 DEF TagInv
      <4>2. QED
        BY <4>1 DEF ReplySees
    <3>3. QED
      BY <1>6, <3>1, <3>2
  <2>5. QED
    BY <2>1, <2>3, <2>4, TableFrom
<1>13. QED
  BY <1>11, <1>12
LEMMA SendStep ==
    ASSUME IInv, NEW c \in calls, Send(c)
    PROVE  IInv'
<1>1. /\ TypeOK /\ OneOwner /\ PoolInv /\ CallInv /\ BudgetInv /\ TagInv /\ OwnReply /\ AskInv
      /\ FidsFresh /\ FidsKnown /\ NoneForgotten /\ FidInv /\ c \in Call
  BY DEF IInv, TypeOK
<1>2. PICK n, q : n = [c EXCEPT !.pc = "wait"] /\ q = RequestOf(c)
  OBVIOUS
<1>3. /\ c.pc = "send" /\ ~broken /\ requests' = Append(requests, q) /\ calls' = (calls \ {c}) \cup {n}
      /\ UNCHANGED <<next, freeList, handles, inflight, broken, table, replies>>
  BY <1>2 DEF Send
<1>4. n \in Call /\ SameAsk(c, n) /\ n.pc = "wait" /\ n.tag = c.tag
  BY <1>1, <1>2 DEF Call, SameAsk
<1>5. c.tag \in Tag /\ q \in Request
  BY <1>1, <1>2, <1>3, RequestType DEF TagInv
<1>6. TagInv' /\ OwnReply' /\ AskInv' /\ requests' \in Seq(Request)
  BY <1>1, TagSend
<1>7. /\ CallInv' /\ OneCall' /\ OneHandle' /\ PoolInv' /\ calls' \subseteq Call
      /\ next' \in 0..MaxFid /\ freeList' \subseteq {f \in Fid : f < next'} /\ handles' \subseteq Handle
      /\ IsFiniteSet(calls') /\ IsFiniteSet(handles') /\ Kept' = Kept /\ Beginning' \subseteq Beginning \ {c}
  BY <1>3, <1>4, GoesOn
<1>8. TypeOK'
  BY <1>1, <1>3, <1>6, <1>7 DEF TypeOK
<1>9. OneOwner'
  BY <1>7, <1>8, OwnerFrom
<1>10. BudgetInv'
  <2>1. IsFiniteSet(Beginning) /\ Beginning' \subseteq Beginning /\ Busy' = Busy
    BY <1>1, <1>3, <1>7, Counts DEF Busy
  <2>2. Cardinality(Beginning') <= Cardinality(Beginning)
    BY ONLY <2>1, CountLess
  <2>3. /\ Cardinality(Busy) \in Nat /\ Cardinality(Beginning) \in Nat /\ Cardinality(Kept) \in Nat /\ MaxTag \in Nat
        /\ Cardinality(Busy) + Cardinality(Beginning) + Cardinality(Kept) <= MaxTag
    BY <1>1, Counts, Numbers
  <2>4. QED
    BY <1>7, <2>1, <2>2, <2>3, CountsAfter
<1>11. FidsFresh' /\ FidsKnown' /\ NoneForgotten'
  BY <1>1, <1>3 DEF FidsFresh, FidsKnown, NoneForgotten
<1>12. RequestInv' /\ TableInv'
  BY <1>2, <1>3, <1>4, <1>5, FidSend
<1>13. FidInv'
  BY <1>3, <1>12 DEF FidInv
<1>14. QED
  BY <1>6, <1>7, <1>8, <1>9, <1>10, <1>11, <1>13 DEF IInv

-----------------------------------------------------------------------------
(* A step of the server.                                                   *)

\* What a request and its answer do to the table.
Serves(q, answer) ==
    /\ table' \in [Fid -> {"none", "path", "open"}]
    /\ \A g \in Fid : g # q.own => table'[g] = table[g]
    /\ q.type = "Tclunk" => table'[q.own] = "none"
    /\ q.type # "Tclunk" => \A g \in Fid : table[g] # "none" => table'[g] # "none"
    /\ q.type \notin {"Tattach", "Twalk"} => \A g \in Fid : table[g] = "none" => table'[g] = "none"
    /\ q.type \in {"Tattach", "Twalk"} /\ answer = "ok" => table'[q.own] # "none"
    /\ answer = "inuse" => q.type \in {"Tattach", "Twalk"} /\ table[q.own] # "none"
    /\ answer = "unknown" => \/ q.type \in {"Twalk", "Tio"} /\ table[q.fid] = "none"
                             \/ q.type \in {"Topen", "Tclunk"} /\ table[q.own] = "none"

LEMMA ServeFacts ==
    ASSUME TypeOK, NEW i \in DOMAIN requests, Dispatch(requests[i]), requests[i].type # "Tio" => requests[i].own \in Fid
    PROVE  \E answer \in {"ok", "no", "inuse", "unknown", "long"} :
              replies' = Append(replies, ReplyTo(requests[i], answer)) /\ Serves(requests[i], answer)
<1>1. PICK q : q = requests[i]
  OBVIOUS
<1>2. q \in Request /\ (q.type # "Tio" => q.own \in Fid) /\ table \in [Fid -> {"none", "path", "open"}]
  BY <1>1, Elements DEF TypeOK
<1>3. q.type \in {"Tattach", "Twalk", "Topen", "Tio", "Tclunk"}
  BY <1>2 DEF Request
<1>4. ASSUME NEW answer \in {"ok", "no", "inuse", "unknown", "long"}, NEW t, Answer(q, answer, t)
      PROVE  table' = t /\ replies' = Append(replies, ReplyTo(q, answer))
  BY <1>4 DEF Answer, ReplyTo
<1>5. ASSUME NEW answer \in {"no", "inuse", "unknown", "long"}, Answer(q, answer, table),
             q.type = "Tclunk" => table[q.own] = "none",
             answer = "inuse" => q.type \in {"Tattach", "Twalk"} /\ table[q.own] # "none",
             answer = "unknown" => \/ q.type \in {"Twalk", "Tio"} /\ table[q.fid] = "none"
                                   \/ q.type \in {"Topen", "Tclunk"} /\ table[q.own] = "none"
      PROVE  replies' = Append(replies, ReplyTo(q, answer)) /\ Serves(q, answer)
  <2>1. table' = table /\ replies' = Append(replies, ReplyTo(q, answer))
    BY <1>4, <1>5
  <2>2. QED
    BY <1>2, <1>5, <2>1 DEF Serves
<1>6. CASE q.type \in {"Tattach", "Twalk"} /\ table[q.own] # "none" /\ Answer(q, "inuse", table)
  BY <1>1, <1>5, <1>6
<1>7. CASE q.type \in {"Twalk", "Tio"} /\ table[q.fid] = "none" /\ Answer(q, "unknown", table)
  BY <1>1, <1>5, <1>7
<1>8. CASE q.type \in {"Topen", "Tclunk"} /\ table[q.own] = "none" /\ Answer(q, "unknown", table)
  BY <1>1, <1>5, <1>8
<1>9. CASE q.type # "Tclunk" /\ Answer(q, "no", table)
  BY <1>1, <1>5, <1>9
<1>10. ASSUME NEW answer \in {"ok", "long"}, q.type \in {"Tattach", "Twalk"},
              Answer(q, answer, [table EXCEPT ![q.own] = "path"])
       PROVE  replies' = Append(replies, ReplyTo(q, answer)) /\ Serves(q, answer)
  <2>1. table' = [table EXCEPT ![q.own] = "path"] /\ replies' = Append(replies, ReplyTo(q, answer))
    BY <1>4, <1>10
  <2>2. q.own \in Fid
    BY <1>2, <1>10
  <2>3. QED
    BY <1>2, <1>10, <2>1, <2>2 DEF Serves
<1>11. CASE q.type = "Topen" /\ table[q.own] = "path" /\ Answer(q, "ok", [table EXCEPT ![q.own] = "open"])
  <2>1. table' = [table EXCEPT ![q.own] = "open"] /\ replies' = Append(replies, ReplyTo(q, "ok"))
    BY <1>4, <1>11
  <2>2. q.own \in Fid
    BY <1>2, <1>11
  <2>3. Serves(q, "ok")
    BY <1>2, <1>11, <2>1, <2>2 DEF Serves
  <2>4. QED
    BY <1>1, <2>1, <2>3
<1>12. CASE q.type = "Tio" /\ Answer(q, "ok", table)
  <2>1. table' = table /\ replies' = Append(replies, ReplyTo(q, "ok"))
    BY <1>4, <1>12
  <2>2. Serves(q, "ok")
    BY <1>2, <1>12, <2>1 DEF Serves
  <2>3. QED
    BY <1>1, <2>1, <2>2
<1>13. CASE q.type = "Tclunk" /\ Answer(q, "ok", [table EXCEPT ![q.own] = "none"])
  <2>1. table' = [table EXCEPT ![q.own] = "none"] /\ replies' = Append(replies, ReplyTo(q, "ok"))
    BY <1>4, <1>13
  <2>2. q.own \in Fid
    BY <1>2, <1>13
  <2>3. Serves(q, "ok")
    BY <1>2, <1>13, <2>1, <2>2 DEF Serves
  <2>4. QED
    BY <1>1, <2>1, <2>3
<1>14. CASE /\ q.type = "Twalk"
            /\ \E t \in {table, [table EXCEPT ![q.own] = "path"]} : Answer(q, "long", t)
  BY <1>1, <1>5, <1>10, <1>14
<1>15. CASE q.type \in {"Tattach", "Twalk"} /\ Answer(q, "ok", [table EXCEPT ![q.own] = "path"])
  BY <1>1, <1>10, <1>15
<1>16. QED
  BY <1>1, <1>6, <1>7, <1>8, <1>9, <1>11, <1>12, <1>13, <1>14, <1>15 DEF Dispatch
\* A fid that is clunked is used by no other call.
LEMMA ClunkAlone ==
    ASSUME IInv, ~broken, NEW i \in DOMAIN requests, requests[i].type = "Tclunk"
    PROVE  /\ requests[i].own \in Fid
           /\ \A c \in calls : c.req # "Tclunk" => c.own # requests[i].own
           /\ \A h \in handles : h.kind \in {"dir", "file"} => h.fid # requests[i].own
<1>1. CallInv /\ RequestInv
  BY DEF IInv, FidInv
<1>2. ReqSees(requests[i])
  BY <1>1, RequestParts
<1>3. requests[i].own \in Fid /\ \A h \in handles : h.kind \in {"dir", "file"} => h.fid # requests[i].own
  BY <1>2 DEF ReqSees
<1>4. PICK d \in calls : d.op = "clunk" /\ d.own = requests[i].own
  BY <1>2 DEF ReqSees
<1>5. d.req = "Tclunk"
  BY <1>1, <1>4 DEF CallInv, Shape, Asks
<1>6. \A c \in calls \ {d} : c.own # d.own
  BY <1>3, <1>4, OwnAlone
<1>7. QED
  BY <1>3, <1>4, <1>5, <1>6

\* A clunk waits for its turn.
LEMMA ClunkFirst ==
    ASSUME TypeOK, NEW i \in DOMAIN requests, Turn(i), requests[i].type = "Tclunk"
    PROVE  \A j \in DOMAIN requests \ {i} : j > i
<1>1. requests \in Seq(Request)
  BY DEF TypeOK
<1>2. i \in 1..Len(requests) /\ DOMAIN requests = 1..Len(requests) /\ Len(requests) \in Nat
  BY <1>1
<1>3. ~\E j \in 1..(i - 1) : TRUE
  BY DEF Turn
<1>4. i = 1
  BY <1>2, <1>3
<1>5. QED
  BY <1>2, <1>4

LEMMA FidServe ==
    ASSUME IInv, ~broken, NEW i \in DOMAIN requests, Turn(i),
           NEW answer \in {"ok", "no", "inuse", "unknown", "long"}, Serves(requests[i], answer),
           requests' = RemoveAt(requests, i),
           replies' = Append(replies, ReplyTo(requests[i], answer)),
           UNCHANGED <<handles, calls>>
    PROVE  RequestInv' /\ TableInv'
<1>1. TypeOK /\ CallInv /\ RequestInv /\ TableInv /\ AskInv /\ requests \in Seq(Request) /\ replies \in Seq(Reply)
  BY DEF IInv, FidInv, TypeOK
<1>2. PICK q : q = requests[i]
  OBVIOUS
<1>3. q \in Request /\ Serves(q, answer) /\ ReqSees(q)
  BY <1>1, <1>2, Elements, RequestParts
<1>4. /\ \A j \in DOMAIN requests' : Before(i, j) \in DOMAIN requests \ {i} /\ requests'[j] = requests[Before(i, j)]
      /\ \A j, k \in DOMAIN requests' : j < k => Before(i, j) < Before(i, k)
  BY <1>1, RemoveIs
<1>5. DOMAIN requests' \subseteq Nat /\ DOMAIN requests \subseteq Nat /\ i \in Nat
  <2>1. requests' \in Seq(Request)
    BY <1>1, RemoveIs
  <2>2. QED
    BY <1>1, <2>1
<1>6. q.type = "Tclunk" => \A k \in DOMAIN requests \ {i} : k > i /\ ~Names(requests[k], q.own)
  <2>1. SUFFICES ASSUME q.type = "Tclunk", NEW k \in DOMAIN requests \ {i}
                 PROVE  k > i /\ ~Names(requests[k], q.own)
    OBVIOUS
  <2>2. k > i
    BY <1>1, <1>2, <2>1, ClunkFirst
  <2>3. ReqMeets(i, k)
    BY <1>1, RequestParts
  <2>4. QED
    BY <1>2, <2>1, <2>2, <2>3 DEF ReqMeets
<1>7. \A g \in Fid : table[g] # "none" /\ ~(q.type = "Tclunk" /\ q.own = g) => table'[g] # "none"
  BY <1>3 DEF Serves
<1>8. \A g \in Fid : table[g] = "none" /\ ~(q.type \in {"Tattach", "Twalk"} /\ q.own = g) => table'[g] = "none"
  BY <1>3 DEF Serves
<1>9. RequestInv'
  <2>1. ASSUME NEW j \in DOMAIN requests'
        PROVE  ReqSees(requests[j])'
    <3>1. PICK k : k = Before(i, j)
      OBVIOUS
    <3>2. PICK p : p = requests[k]
      OBVIOUS
    <3>3. k \in DOMAIN requests \ {i} /\ requests'[j] = p
      BY <1>4, <3>1, <3>2
    <3>4. ReqSees(p) /\ ReqMeets(k, i)
      BY <1>1, <3>2, <3>3, RequestParts
    <3>5. /\ \A f \in Fid : Names(p, f) => HasHandle(f)'
          /\ p.type # "Tio" => p.own \in Fid
          /\ p.type = "Tclunk" => \E c \in calls' : c.op = "clunk" /\ c.pc = "wait" /\ c.own = p.own
          /\ \A c \in calls' : c.own = p.own /\ c.own \in Fid => c.op = "clunk" \/ (c.pc = "wait" /\ c.tag = p.tag)
          /\ \A h \in handles' : h.kind \in {"dir", "file"} => h.fid # p.own
      BY <3>4 DEF ReqSees, HasHandle
    <3>6. q.type = "Tclunk" => ~Names(p, q.own)
      BY <1>6, <3>2, <3>3
    <3>7. p.type \in {"Twalk", "Tio"} => p.fid \in Fid /\ table'[p.fid] # "none"
      BY <1>7, <3>4, <3>6 DEF ReqSees, Names
    <3>8. p.type = "Topen" => table'[p.own] # "none"
      BY <1>7, <3>4, <3>5, <3>6 DEF ReqSees, Names
    <3>9. Makes(p.type, p.more) => table'[p.own] = "none"
      <4>1. SUFFICES ASSUME Makes(p.type, p.more) PROVE table'[p.own] = "none"
        OBVIOUS
      <4>2. p.own \in Fid /\ table[p.own] = "none"
        BY <3>4, <3>5, <4>1 DEF ReqSees, Makes
      <4>3. Names(q, p.own) => q.type = "Tclunk"
        BY <1>2, <3>2, <3>3, <3>4, <4>1 DEF ReqMeets
      <4>4. QED
        BY <1>8, <4>2, <4>3 DEF Names
    <3>10. ReqSees(p)'
      BY ONLY <3>5, <3>7, <3>8, <3>9 DEF ReqSees, Makes, Names
    <3>11. QED
      BY ONLY <3>3, <3>10 DEF ReqSees, Makes, Names
  <2>2. ASSUME NEW j \in DOMAIN requests', NEW m \in DOMAIN requests'
        PROVE  ReqMeets(j, m)'
    <3>1. PICK k, l : k = Before(i, j) /\ l = Before(i, m)
      OBVIOUS
    <3>2. /\ k \in DOMAIN requests /\ l \in DOMAIN requests
          /\ requests'[j] = requests[k] /\ requests'[m] = requests[l]
      BY <1>4, <3>1
    <3>3. (m > j => l > k) /\ (m # j => l # k)
      <4>1. j \in Nat /\ m \in Nat /\ k \in Nat /\ l \in Nat
        BY <1>5, <3>2
      <4>2. (j < m => k < l) /\ (m < j => l < k)
        BY <1>4, <3>1
      <4>3. QED
        BY ONLY <4>1, <4>2
    <3>4. ReqMeets(k, l)
      BY <1>1, <3>2, RequestParts
    <3>5. QED
      BY ONLY <3>2, <3>3, <3>4 DEF ReqMeets, Makes, Names
  <2>3. QED
    BY <2>1, <2>2, RequestFrom
<1>10. \A f : Unnamed(f) => Unnamed(f)' /\ ~Names(q, f)
  BY <1>2, <1>4 DEF Unnamed, Names
<1>11. ASSUME NEW c \in calls, c.own \in Fid, c.req # "Tclunk", table[c.own] # "none"
       PROVE  table'[c.own] # "none"
  BY <1>2, <1>7, <1>11, ClunkAlone
<1>12. ASSUME NEW c \in calls, c.own \in Fid, table[c.own] = "none", Unnamed(c.own)
       PROVE  table'[c.own] = "none"
  BY <1>3, <1>10, <1>12 DEF Serves, Names
<1>13. \A c \in calls : c.req # "Tio" => c.own \in Fid
  <2>1. SUFFICES ASSUME NEW c \in calls, c.req # "Tio" PROVE c.own \in Fid
    OBVIOUS
  <2>2. c.op # "io"
    BY <1>1, <2>1 DEF CallInv, Shape, Asks
  <2>3. QED
    BY <1>1, <2>2, ShapeFacts
<1>14. TableInv'
  <2>1. \A h \in handles' : h.kind \in {"dir", "file"} => table'[h.fid] # "none"
    <3>1. SUFFICES ASSUME NEW h \in handles, h.kind \in {"dir", "file"} PROVE table'[h.fid] # "none"
      OBVIOUS
    <3>2. h.fid \in Fid /\ table[h.fid] # "none"
      BY <1>1, <3>1, TableParts DEF TypeOK, Handle
    <3>3. h.fid # q.own
      BY <1>3, <3>1 DEF ReqSees
    <3>4. QED
      BY <1>7, <3>2, <3>3
  <2>2. ASSUME NEW c \in calls
        PROVE  CallSees(c)'
    <3>1. CallSees(c)
      BY <1>1, TableParts
    <3>2. c.pc # "wait" /\ Makes(c.req, c.more) => table'[c.own] = "none" /\ Unnamed(c.own)'
      <4>1. SUFFICES ASSUME c.pc # "wait", Makes(c.req, c.more) PROVE table'[c.own] = "none" /\ Unnamed(c.own)'
        OBVIOUS
      <4>2. c.own \in Fid
        BY <1>13, <4>1 DEF Makes
      <4>3. table[c.own] = "none" /\ Unnamed(c.own)
        BY <3>1, <4>1 DEF CallSees
      <4>4. QED
        BY <1>10, <1>12, <4>2, <4>3
    <3>3. c.req = "Topen" => table'[c.own] # "none"
      <4>1. SUFFICES ASSUME c.req = "Topen" PROVE table'[c.own] # "none"
        OBVIOUS
      <4>2. c.own \in Fid /\ c.req # "Tclunk" /\ table[c.own] # "none"
        BY <1>13, <3>1, <4>1 DEF CallSees
      <4>3. QED
        BY <1>11, <4>2
    <3>4. QED
      BY ONLY <3>2, <3>3 DEF CallSees, Makes
  <2>3. ASSUME NEW c \in calls, NEW r, NEW k \in DOMAIN replies, r = replies[k]
        PROVE  ReplySees(c, r)'
    <3>1. ReplySees(c, r)
      BY <1>1, <2>3, TableParts
    <3>2. ASSUME c.pc = "wait", c.tag = r.tag, c.req = "Tclunk"
          PROVE  table'[c.own] = "none" /\ Unnamed(c.own)'
      <4>1. c.own \in Fid /\ table[c.own] = "none" /\ Unnamed(c.own)
        BY <1>13, <3>1, <3>2 DEF ReplySees
      <4>2. QED
        BY <1>10, <1>12, <4>1
    <3>3. ASSUME c.pc = "wait", c.tag = r.tag, r.result = "ok", c.req \in {"Tattach", "Twalk"}
          PROVE  table'[c.own] # "none"
      <4>1. c.own \in Fid /\ c.req # "Tclunk" /\ table[c.own] # "none"
        BY <1>13, <3>1, <3>3 DEF ReplySees
      <4>2. QED
        BY <1>11, <4>1
    <3>4. QED
      BY ONLY <3>2, <3>3 DEF ReplySees
  <2>4. ASSUME NEW c \in calls, NEW r, r = ReplyTo(q, answer)
        PROVE  ReplySees(c, r)'
    <3>1. SUFFICES ASSUME c.pc = "wait", c.tag = r.tag
                   PROVE  /\ c.req = "Tclunk" => table'[c.own] = "none" /\ Unnamed(c.own)'
                          /\ r.result = "ok" /\ c.req \in {"Tattach", "Twalk"} => table'[c.own] # "none"
      BY DEF ReplySees
    <3>2. r.tag = q.tag /\ r.result = answer
      BY <1>3, <2>4, ReplyType
    <3>3. q = RequestOf(c)
      BY <1>1, <1>2, <3>1, <3>2 DEF AskInv
    <3>4. q.type = c.req /\ q.own = c.own
      BY <3>3 DEF RequestOf
    <3>5. c.req = "Tclunk" => table'[c.own] = "none"
      BY <1>3, <3>4 DEF Serves
    <3>6. c.req = "Tclunk" => Unnamed(c.own)'
      BY <1>4, <1>6, <3>4 DEF Unnamed, Names
    <3>7. r.result = "ok" /\ c.req \in {"Tattach", "Twalk"} => table'[c.own] # "none"
      BY <1>3, <3>2, <3>4 DEF Serves
    <3>8. QED
      BY <3>5, <3>6, <3>7
  <2>5. \A c \in calls', k \in DOMAIN replies' : ReplySees(c, replies[k])'
    <3>1. SUFFICES ASSUME NEW c \in calls, NEW k \in DOMAIN replies'
                   PROVE  ReplySees(c, replies[k])'
      OBVIOUS
    <3>2. PICK r : r = replies'[k]
      OBVIOUS
    <3>3. ReplyTo(q, answer) \in Reply
      BY <1>3, ReplyType
    <3>4. r = ReplyTo(q, answer) \/ \E m \in DOMAIN replies : r = replies[m]
      BY <1>1, <1>2, <3>2, <3>3, AppendIs
    <3>5. ReplySees(c, r)'
      BY <2>3, <2>4, <3>4
    <3>6. QED
      BY ONLY <3>2, <3>5 DEF ReplySees
  <2>6. QED
    BY <2>1, <2>2, <2>5, TableFrom
<1>15. QED
  BY <1>9, <1>14
LEMMA DispatchStep ==
    ASSUME IInv, NEW i \in DOMAIN requests, Turn(i), Dispatch(requests[i]),
           requests' = RemoveAt(requests, i), UNCHANGED <<client, broken>>
    PROVE  IInv'
<1>1. /\ TypeOK /\ OneOwner /\ PoolInv /\ CallInv /\ BudgetInv /\ TagInv /\ OwnReply /\ AskInv
      /\ FidsFresh /\ FidsKnown /\ NoneForgotten /\ FidInv /\ requests \in Seq(Request) /\ replies \in Seq(Reply)
  BY DEF IInv, TypeOK
<1>2. /\ Turn(i) /\ requests' = RemoveAt(requests, i)
      /\ UNCHANGED <<next, freeList, handles, calls, inflight, broken>>
  BY DEF client
<1>3. ~broken /\ RequestInv
  BY <1>1 DEF FidInv
<1>4. PICK q : q = requests[i]
  OBVIOUS
<1>5. q \in Request /\ ReqSees(q) /\ (q.type # "Tio" => q.own \in Fid)
  BY <1>1, <1>3, <1>4, Elements, RequestParts DEF ReqSees
<1>6. PICK answer \in {"ok", "no", "inuse", "unknown", "long"} :
         replies' = Append(replies, ReplyTo(requests[i], answer)) /\ Serves(requests[i], answer)
  BY <1>1, <1>4, <1>5, ServeFacts
<1>7. TagInv' /\ OwnReply' /\ AskInv' /\ requests' \in Seq(Request) /\ replies' \in Seq(Reply)
  BY <1>1, <1>2, <1>6, TagServe
<1>8. TypeOK'
  BY <1>1, <1>2, <1>6, <1>7 DEF TypeOK, Serves
<1>9. OneOwner' /\ PoolInv' /\ BudgetInv'
  BY <1>1, <1>2 DEF OneOwner, PoolInv, BudgetInv
<1>10. CallInv'
  BY <1>1, <1>2 DEF CallInv, Shape
<1>11. PICK r : r = ReplyTo(q, answer)
  OBVIOUS
<1>12. r \in Reply /\ r.type = q.type /\ r.more = q.more /\ r.result = answer /\ Serves(q, answer)
  BY <1>4, <1>5, <1>6, <1>11, ReplyType
<1>13. \A k \in DOMAIN replies' : replies'[k] = r \/ \E m \in DOMAIN replies : replies'[k] = replies[m]
  BY <1>1, <1>4, <1>6, <1>11, <1>12, AppendIs
<1>14. FidsFresh'
  <2>1. answer = "inuse" => LongPaths /\ q.type = "Twalk" /\ ~q.more
    BY <1>5, <1>12 DEF Serves, ReqSees, Makes
  <2>2. QED
    BY <1>1, <1>12, <1>13, <2>1 DEF FidsFresh
<1>15. FidsKnown'
  <2>1. answer = "unknown" => q.type = "Tclunk"
    BY <1>5, <1>12 DEF Serves, ReqSees
  <2>2. QED
    BY <1>1, <1>12, <1>13, <2>1 DEF FidsKnown
<1>16. NoneForgotten'
  <2>1. SUFFICES ASSUME NEW f \in Fid, table'[f] # "none" PROVE HasHandle(f)
    BY <1>2 DEF NoneForgotten, HasHandle
  <2>2. CASE table[f] # "none"
    BY <1>1, <1>3, <2>2 DEF NoneForgotten, HasHandle
  <2>3. CASE table[f] = "none"
    <3>1. f = q.own
      BY <1>12, <2>1, <2>3 DEF Serves
    <3>2. QED
      BY <1>5, <3>1 DEF ReqSees, Names
  <2>4. QED
    BY <2>2, <2>3
<1>17. RequestInv' /\ TableInv'
  BY <1>2, <1>3, <1>6, FidServe
<1>18. FidInv'
  BY <1>2, <1>3, <1>17 DEF FidInv
<1>19. QED
  BY <1>7, <1>8, <1>9, <1>10, <1>14, <1>15, <1>16, <1>18 DEF IInv

\* A request is lost.
LEMMA RequestLost ==
    ASSUME IInv, NEW i \in DOMAIN requests, requests' = RemoveAt(requests, i),
           UNCHANGED <<next, freeList, handles, calls, inflight, broken, table, replies>>
    PROVE  IInv'
<1>1. /\ TypeOK /\ OneOwner /\ PoolInv /\ CallInv /\ BudgetInv /\ TagInv /\ OwnReply /\ AskInv
      /\ FidsFresh /\ FidsKnown /\ NoneForgotten /\ FidInv /\ requests \in Seq(Request)
  BY DEF IInv, TypeOK
<1>2. /\ requests' \in Seq(Request)
      /\ \A j \in DOMAIN requests' :
            Before(i, j) \in DOMAIN requests \ {i} /\ requests'[j] = requests[Before(i, j)]
      /\ \A j, k \in DOMAIN requests' : j < k => Before(i, j) < Before(i, k)
  BY <1>1, RemoveIs
<1>3. ~broken /\ RequestInv /\ TableInv
  BY <1>1 DEF FidInv
<1>4. ASSUME NEW j \in DOMAIN requests', NEW k \in DOMAIN requests'
      PROVE  (k > j => Before(i, k) > Before(i, j)) /\ (k # j => Before(i, k) # Before(i, j))
  <2>1. i \in Nat /\ j \in Nat /\ k \in Nat
    BY <1>1, <1>2
  <2>2. QED
    BY <2>1 DEF Before
<1>5. TypeOK'
  BY <1>1, <1>2 DEF TypeOK
<1>6. OneOwner' /\ PoolInv' /\ BudgetInv'
  BY <1>1 DEF OneOwner, PoolInv, BudgetInv
<1>7. CallInv'
  BY <1>1 DEF CallInv, Shape
<1>8. OwnReply' /\ AskInv' /\ FidsFresh' /\ FidsKnown' /\ NoneForgotten'
  BY <1>1, <1>2 DEF OwnReply, AskInv, RequestOf, FidsFresh, FidsKnown, NoneForgotten
<1>9. TagInv'
  <2>1. \A j, k \in DOMAIN requests' : requests'[j].tag = requests'[k].tag => j = k
    BY <1>1, <1>2, <1>4 DEF TagInv
  <2>2. QED
    BY <1>1, <1>2, <2>1 DEF TagInv
<1>10. RequestInv'
  <2>1. ASSUME NEW j \in DOMAIN requests'
        PROVE  ReqSees(requests[j])'
    <3>1. PICK p : p = requests[Before(i, j)]
      OBVIOUS
    <3>2. requests'[j] = p /\ ReqSees(p)
      BY <1>2, <1>3, <3>1, RequestParts
    <3>3. ReqSees(p)'
      BY <3>2 DEF ReqSees, HasHandle, Makes, Names
    <3>4. QED
      BY ONLY <3>2, <3>3 DEF ReqSees, Makes, Names
  <2>2. ASSUME NEW j \in DOMAIN requests', NEW m \in DOMAIN requests'
        PROVE  ReqMeets(j, m)'
    <3>1. PICK k, l : k = Before(i, j) /\ l = Before(i, m)
      OBVIOUS
    <3>2. /\ requests'[j] = requests[k] /\ requests'[m] = requests[l]
          /\ (m > j => l > k) /\ (m # j => l # k)
      BY <1>2, <1>4, <3>1
    <3>3. ReqMeets(k, l)
      BY <1>2, <1>3, <3>1, RequestParts
    <3>4. QED
      BY ONLY <3>2, <3>3 DEF ReqMeets, Makes, Names
  <2>3. QED
    BY <2>1, <2>2, RequestFrom
<1>11. TableInv'
  <2>1. \A f : Unnamed(f) => Unnamed(f)'
    BY <1>2 DEF Unnamed, Names
  <2>2. ASSUME NEW c \in calls
        PROVE  CallSees(c)' /\ \A k \in DOMAIN replies : ReplySees(c, replies[k])'
    BY <1>3, <2>1, <2>2, TableParts DEF CallSees, ReplySees, Makes
  <2>3. QED
    BY <1>3, <2>2, TableParts, TableFrom
<1>12. FidInv'
  BY <1>3, <1>10, <1>11 DEF FidInv
<1>13. QED
  BY <1>5, <1>6, <1>7, <1>8, <1>9, <1>12 DEF IInv

LEMMA ServeStep ==
    ASSUME IInv, NEW i \in DOMAIN requests, Serve(i)
    PROVE  IInv'
<1>1. requests' = RemoveAt(requests, i) /\ UNCHANGED <<client, broken>>
  BY DEF Serve
<1>2. CASE Turn(i) /\ Dispatch(requests[i])
  BY <1>1, <1>2, DispatchStep
<1>3. CASE UNCHANGED <<table, replies>>
  <2>1. UNCHANGED <<next, freeList, handles, calls, inflight, broken, table, replies>>
    BY <1>1, <1>3 DEF client
  <2>2. QED
    BY <1>1, <2>1, RequestLost
<1>4. QED
  BY <1>2, <1>3 DEF Serve

\* The connection fails.
LEMMA BreakStep ==
    ASSUME IInv, Break
    PROVE  IInv'
<1>1. /\ TypeOK /\ OneOwner /\ PoolInv /\ CallInv /\ BudgetInv /\ TagInv /\ OwnReply /\ AskInv
      /\ FidsFresh /\ FidsKnown /\ replies \in Seq(Reply)
  BY DEF IInv, TypeOK
<1>2. /\ broken' = TRUE /\ requests' = <<>>
      /\ UNCHANGED <<next, freeList, handles, calls, inflight, table>>
      /\ replies' \in {SubSeq(replies, 1, k) : k \in 0..Len(replies)}
  BY DEF Break, client
<1>3. TagInv' /\ OwnReply' /\ AskInv' /\ requests' \in Seq(Request) /\ replies' \in Seq(Reply)
  BY <1>1, TagBreak
<1>4. TypeOK'
  BY <1>1, <1>2, <1>3 DEF TypeOK
<1>5. OneOwner' /\ PoolInv' /\ BudgetInv'
  BY <1>1, <1>2 DEF OneOwner, PoolInv, BudgetInv
<1>6. CallInv'
  BY <1>1, <1>2 DEF CallInv, Shape
<1>7. \A i \in DOMAIN replies' : i \in DOMAIN replies /\ replies'[i] = replies[i]
  BY <1>1, <1>2, PrefixIs
<1>8. FidsFresh' /\ FidsKnown'
  BY <1>1, <1>7 DEF FidsFresh, FidsKnown
<1>9. NoneForgotten' /\ FidInv'
  BY <1>2 DEF NoneForgotten, FidInv
<1>10. QED
  BY <1>3, <1>4, <1>5, <1>6, <1>8, <1>9 DEF IInv

-----------------------------------------------------------------------------
(* The theorems.                                                           *)

LEMMA InitInv == Init => IInv
<1> SUFFICES ASSUME Init PROVE IInv
  OBVIOUS
<1>1. /\ next = 0 /\ freeList = {} /\ handles = {} /\ calls = {} /\ inflight = [t \in Tag |-> 0]
      /\ broken = FALSE /\ requests = <<>> /\ table = [f \in Fid |-> "none"] /\ replies = <<>>
  BY DEF Init
<1>2. TypeOK
  <2>1. next \in 0..MaxFid /\ freeList \subseteq {f \in Fid : f < next} /\ handles \subseteq Handle /\ calls \subseteq Call
    BY <1>1, Numbers
  <2>2. inflight \in [Tag -> CallId \cup {0}] /\ table \in [Fid -> {"none", "path", "open"}]
    BY <1>1
  <2>3. \A S : <<>> \in Seq(S)
    OBVIOUS
  <2>4. requests \in Seq(Request) /\ replies \in Seq(Reply)
    BY <1>1, <2>3
  <2>5. broken \in BOOLEAN
    BY <1>1
  <2>6. QED
    BY ONLY <2>1, <2>2, <2>4, <2>5 DEF TypeOK
<1>3. OneOwner /\ PoolInv /\ CallInv
  <2>1. 0..(next - 1) = {}
    BY <1>1
  <2>2. QED
    BY <1>1, <2>1 DEF OneOwner, PoolInv, CallInv
<1>4. BudgetInv
  <2>1. Busy = {} /\ Beginning = {} /\ Kept = {}
    BY <1>1 DEF Busy, Beginning, Kept
  <2>2. IsFiniteSet(calls) /\ IsFiniteSet(handles) /\ Cardinality({}) = 0
    BY <1>1, FS_EmptySet
  <2>3. Cardinality(Busy) + Cardinality(Beginning) + Cardinality(Kept) <= MaxTag
    BY <2>1, <2>2, Numbers
  <2>4. QED
    BY <2>2, <2>3 DEF BudgetInv, Busy, Beginning, Kept
<1>5. TagInv /\ OwnReply /\ AskInv /\ FidsFresh /\ FidsKnown
  BY <1>1 DEF TagInv, OwnReply, AskInv, FidsFresh, FidsKnown
<1>6. NoneForgotten /\ FidInv
  BY <1>1 DEF NoneForgotten, FidInv, RequestInv, TableInv
<1>7. QED
  BY <1>2, <1>3, <1>4, <1>5, <1>6 DEF IInv

LEMMA OpenSteps ==
    ASSUME IInv, NEW h \in handles,
           \/ OpenAt(h, "openFile", FALSE)
           \/ \E more \in {FALSE, LongPaths} : OpenAt(h, "openDir", more)
           \/ OpenAtEmpty(h)
    PROVE  IInv'
<1>1. TypeOK
  BY DEF IInv
<1>2. h.fid \in Fid /\ h = Owned(h.fid, h.kind)
  BY <1>1, HandleFields DEF TypeOK
<1>3. ASSUME NEW op \in {"openFile", "openDir"}, NEW more \in BOOLEAN, more => LongPaths /\ op = "openDir", OpenAt(h, op, more)
      PROVE  IInv'
  <2>1. PICK fid : fid = h.fid
    OBVIOUS
  <2>2. /\ Start(2) /\ Get /\ handles' = handles \cup {Owned(get, IF op = "clunk" THEN "clunk" ELSE "new")}
        /\ calls' = calls \cup {NewCall(op, "Twalk", fid, get, more)}
        /\ h.kind = "dir"
    BY <1>3, <2>1 DEF OpenAt
  <2>3. /\ <<op, "Twalk">> \in Asks /\ fid \in Fid \cup {NoFid}
        /\ \E mode \in {"dir", "file"} : Owned(fid, mode) \in handles
    BY <1>2, <1>3, <2>1, <2>2 DEF Asks
  <2>4. QED
    BY <1>3, <2>2, <2>3, MakeStep
<1>4. CASE OpenAtEmpty(h)
  <2>1. PICK op : op = "clunk"
    OBVIOUS
  <2>2. /\ Start(2) /\ Get /\ handles' = handles \cup {Owned(get, IF op = "clunk" THEN "clunk" ELSE "new")}
        /\ calls' = calls \cup {NewCall(op, "Tclunk", NoFid, get, FALSE)}
    BY <1>4, <2>1 DEF OpenAtEmpty
  <2>3. <<op, "Tclunk">> \in Asks /\ op \notin {"openDir", "openFile"} /\ NoFid \in Fid \cup {NoFid}
    BY <2>1 DEF Asks
  <2>4. op \in {"attach", "openDir", "openFile", "clunk"}
    BY <2>1
  <2>5. QED
    BY <2>2, <2>3, <2>4, MakeStep
<1>5. LongPaths \in BOOLEAN
  BY ClientAssumption
<1>6. QED
  BY <1>3, <1>4, <1>5

LEMMA AttachStep ==
    ASSUME IInv, Attach
    PROVE  IInv'
<1>1. PICK op : op = "attach"
  OBVIOUS
<1>2. /\ Start(2) /\ Get /\ handles' = handles \cup {Owned(get, IF op = "clunk" THEN "clunk" ELSE "new")}
      /\ calls' = calls \cup {NewCall(op, "Tattach", NoFid, get, FALSE)}
  BY <1>1 DEF Attach
<1>3. <<op, "Tattach">> \in Asks /\ op \notin {"openDir", "openFile"} /\ NoFid \in Fid \cup {NoFid}
  BY <1>1 DEF Asks
<1>4. op \in {"attach", "openDir", "openFile", "clunk"}
  BY <1>1
<1>5. QED
  BY <1>2, <1>3, <1>4, MakeStep

LEMMA StepInv ==
    ASSUME IInv, [Next]_vars
    PROVE  IInv'
<1>1. CASE Application
  <2>1. CASE Attach
    BY <2>1, AttachStep
  <2>2. ASSUME NEW h \in handles,
               \/ OpenAt(h, "openFile", FALSE)
               \/ \E more \in {FALSE, LongPaths} : OpenAt(h, "openDir", more)
               \/ OpenAtEmpty(h)
        PROVE  IInv'
    BY <2>2, OpenSteps
  <2>3. ASSUME NEW h \in handles, ReadDir(h) \/ Io(h) \/ DropHandle(h)
        PROVE  IInv'
    BY <2>3, ReadDirStep, IoStep, DropStep
  <2>4. ASSUME NEW c \in calls, Cancel(c)
        PROVE  IInv'
    BY <2>4, DroppedStep
  <2>5. QED
    BY <1>1, <2>1, <2>2, <2>3, <2>4 DEF Application
<1>2. CASE Tasks
  BY <1>2, BeginStep, SendStep, DroppedStep DEF Tasks
<1>3. CASE RecvReply
  BY <1>3, RecvStep
<1>4. CASE \E i \in DOMAIN requests : Serve(i)
  BY <1>4, ServeStep
<1>5. CASE Break
  BY <1>5, BreakStep
<1>6. CASE UNCHANGED vars
  <2>1. TypeOK' /\ OneOwner' /\ PoolInv' /\ BudgetInv'
    BY <1>6 DEF vars, IInv, TypeOK, OneOwner, PoolInv, BudgetInv
  <2>2. CallInv'
    BY <1>6 DEF vars, IInv, CallInv, Shape
  <2>3. TagInv' /\ OwnReply' /\ AskInv'
    BY <1>6 DEF vars, IInv, TagInv, OwnReply, AskInv
  <2>4. FidsFresh' /\ FidsKnown' /\ NoneForgotten'
    BY <1>6 DEF vars, IInv, FidsFresh, FidsKnown, NoneForgotten
  <2>5. FidInv'
    <3>1. (RequestInv => RequestInv') /\ (TableInv => TableInv')
      BY <1>6 DEF vars, RequestInv, TableInv
    <3>2. QED
      BY <1>6, <3>1 DEF vars, IInv, FidInv
  <2>6. QED
    BY <2>1, <2>2, <2>3, <2>4, <2>5 DEF IInv
<1>7. QED
  BY <1>1, <1>2, <1>3, <1>4, <1>5, <1>6 DEF Next

LEMMA InvHolds == Spec => []IInv
<1>1. IInv /\ [Next]_vars => IInv'
  BY StepInv
<1>2. QED
  BY <1>1, InitInv, PTL DEF Spec

\* A reply that is received, or that is still to come, is for the call that
\* inflight has under its tag, however many calls were dropped while they
\* waited (transact, and the task that receives replies).
THEOREM RepliesCorrect == Spec => []OwnReply
<1>1. IInv => OwnReply
  BY DEF IInv
<1>2. QED
  BY <1>1, InvHolds, PTL

\* The pool, the handles and the server's table agree: a fid is in the pool only
\* when the server has forgotten it, no new handle's fid is in use there, no call
\* names a fid the server does not know, and nothing is left bound that no handle
\* stands for (FidPool, Drop for FidHandle, Drop for Directory and File).
THEOREM FidsCorrect == Spec => []Accounted
<1>1. IInv => Accounted
  BY DEF IInv, Accounted
<1>2. QED
  BY <1>1, InvHolds, PTL

-----------------------------------------------------------------------------
(* The files: least and greatest numbers, and the lengths of listings.     *)

LEMMA LeastNat ==
    ASSUME NEW S \in SUBSET Nat, S # {}
    PROVE  \E m \in S : \A x \in S : m <= x
<1> DEFINE less == {p \in Nat \X Nat : p[1] < p[2]}
<1>1. IsWellFoundedOn(less, Nat)
  BY NatLessThanWellFounded DEF OpToRel
<1>2. PICK m \in S : \A x \in S : <<x, m>> \notin less
  BY <1>1, WFMin
<1>3. ASSUME NEW x \in S
      PROVE  m <= x
  <2>1. x \in Nat /\ m \in Nat
    OBVIOUS
  <2>2. ~(x < m)
    BY <1>2, <2>1
  <2>3. QED
    BY <2>1, <2>2
<1>4. QED
  BY <1>3

\* A set of numbers that has 0 and with each number below n the next has all.
LEMMA Climbs ==
    ASSUME NEW n \in Nat, NEW S, 0 \in S, \A k \in 0..n : k < n /\ k \in S => k + 1 \in S
    PROVE  \A k \in 0..n : k \in S
<1>1. SUFFICES ASSUME (0..n) \ S # {}
               PROVE  FALSE
  OBVIOUS
<1>2. PICK m \in (0..n) \ S : \A x \in (0..n) \ S : m <= x
  <2>1. (0..n) \ S \in SUBSET Nat
    OBVIOUS
  <2>2. QED
    BY ONLY <1>1, <2>1, LeastNat
<1>3. m # 0 /\ m \in 0..n
  OBVIOUS
<1>4. m - 1 \in 0..n /\ m - 1 < n /\ (m - 1) + 1 = m
  BY <1>3
<1>5. m - 1 \in S
  <2>1. CASE m - 1 \notin S
    <3>1. m <= m - 1
      BY <1>2, <1>4, <2>1
    <3>2. QED
      BY <3>1, <1>3
  <2>2. QED
    BY <2>1
<1>6. QED
  BY <1>4, <1>5

\* The sum of the first k lengths.
IsSum(f, e, n) == f = [k \in 0..n |-> IF k = 0 THEN 0 ELSE f[k - 1] + Size[e[k]]]

LEMMA SumExists ==
    ASSUME NEW e
    PROVE  \A n \in Nat : \E f : IsSum(f, e, n)
<1>1. SUFFICES ASSUME NEW n \in Nat
               PROVE  \E f : IsSum(f, e, n)
  OBVIOUS
<1>2. PICK S : S = {k \in 0..n : \E f : IsSum(f, e, k)}
  OBVIOUS
<1>3. 0 \in S
  <2>1. IsSum([k \in 0..0 |-> 0], e, 0)
    BY DEF IsSum
  <2>2. QED
    BY <2>1, <1>2
<1>4. ASSUME NEW k \in 0..n, k < n, k \in S
      PROVE  k + 1 \in S
  <2>1. PICK f : IsSum(f, e, k)
    BY <1>2, <1>4
  <2>2. PICK g : g = [j \in 0..(k + 1) |-> IF j = 0 THEN 0 ELSE f[j - 1] + Size[e[j]]]
    OBVIOUS
  <2>3. ASSUME NEW j \in 0..(k + 1), j # 0
        PROVE  g[j - 1] = f[j - 1]
    <3>1. j - 1 \in 0..k /\ j - 1 \in 0..(k + 1)
      BY <2>3
    <3>2. QED
      BY <3>1, <2>1, <2>2 DEF IsSum
  <2>4. g = [j \in 0..(k + 1) |-> IF j = 0 THEN 0 ELSE g[j - 1] + Size[e[j]]]
    BY <2>2, <2>3
  <2>5. IsSum(g, e, k + 1)
    BY ONLY <2>4 DEF IsSum
  <2>6. k + 1 \in 0..n
    BY <1>4
  <2>7. QED
    BY <2>5, <2>6, <1>2
<1>5. \A k \in 0..n : k \in S
  BY ONLY <1>3, <1>4, Climbs, n \in Nat
<1>6. QED
  BY <1>2, <1>5

LEMMA BytesIs ==
    ASSUME NEW e, Len(e) \in Nat
    PROVE  \E f : IsSum(f, e, Len(e)) /\ Files!Bytes(e) = f[Len(e)]
<1>1. PICK g : IsSum(g, e, Len(e))
  BY SumExists
<1>2. PICK f : f = CHOOSE h : IsSum(h, e, Len(e))
  OBVIOUS
<1>3. IsSum(f, e, Len(e))
  BY <1>1, <1>2
<1>4. Files!Bytes(e) = f[Len(e)]
  BY <1>2, Zenon DEF Files!Bytes, IsSum
<1>5. QED
  BY <1>3, <1>4
Entries == Seq(DOMAIN Size)

LEMMA BytesSum ==
    ASSUME NEW e \in Entries
    PROVE  /\ Files!Bytes(e) \in Nat /\ Files!Bytes(e) >= Len(e)
           /\ e = <<>> => Files!Bytes(e) = 0
<1>1. Len(e) \in Nat /\ DOMAIN e = 1..Len(e) /\ \A k \in 1..Len(e) : e[k] \in DOMAIN Size
  BY DEF Entries
<1>2. PICK f : IsSum(f, e, Len(e)) /\ Files!Bytes(e) = f[Len(e)]
  BY ONLY <1>1, BytesIs
<1>3. PICK S : S = {k \in 0..Len(e) : f[k] \in Nat /\ f[k] >= k}
  OBVIOUS
<1>4. f[0] = 0
  BY <1>1, <1>2 DEF IsSum
<1>5. 0 \in S
  BY <1>1, <1>3, <1>4
<1>6. ASSUME NEW k \in 0..Len(e), k < Len(e), k \in S
      PROVE  k + 1 \in S
  <2>1. k + 1 \in 1..Len(e) /\ k + 1 \in 0..Len(e) /\ (k + 1) - 1 = k /\ k + 1 # 0
    BY <1>1, <1>6
  <2>2. f[k + 1] = f[k] + Size[e[k + 1]]
    <3>1. f[k + 1] = IF k + 1 = 0 THEN 0 ELSE f[(k + 1) - 1] + Size[e[k + 1]]
      BY <1>2, <2>1 DEF IsSum
    <3>2. QED
      BY <3>1, <2>1
  <2>3. Size[e[k + 1]] \in Nat \ {0}
    <3>1. e[k + 1] \in DOMAIN Size
      BY <1>1, <2>1
    <3>2. QED
      BY <3>1, FilesAssumption
  <2>4. f[k] \in Nat /\ f[k] >= k
    BY <1>3, <1>6
  <2>5. f[k + 1] \in Nat /\ f[k + 1] >= k + 1
    BY <2>2, <2>3, <2>4, <2>1
  <2>6. QED
    BY <2>5, <2>1, <1>3
<1>7. \A k \in 0..Len(e) : k \in S
  BY ONLY <1>1, <1>5, <1>6, Climbs
<1>8. Len(e) \in 0..Len(e)
  BY <1>1
<1>9. f[Len(e)] \in Nat /\ f[Len(e)] >= Len(e)
  BY <1>3, <1>7, <1>8
<1>10. e = <<>> => Len(e) = 0
  OBVIOUS
<1>11. QED
  BY <1>2, <1>4, <1>9, <1>10

LEMMA MaxIn ==
    ASSUME NEW n \in Nat, NEW S \in SUBSET (0..n), S # {}
    PROVE  Files!Max(S) \in S /\ \A x \in S : Files!Max(S) >= x
<1>1. PICK D : D = {n - x : x \in S}
  OBVIOUS
<1>2. D \in SUBSET Nat /\ D # {}
  <2>1. \A x \in S : n - x \in Nat
    OBVIOUS
  <2>2. D \subseteq Nat
    BY <1>1, <2>1
  <2>3. PICK x : x \in S
    OBVIOUS
  <2>4. n - x \in D
    BY <1>1, <2>3
  <2>5. QED
    BY <2>2, <2>4
<1>3. PICK d \in D : \A y \in D : d <= y
  BY ONLY <1>2, LeastNat
<1>4. PICK m \in S : d = n - m
  BY <1>1, <1>3
<1>5. ASSUME NEW x \in S
      PROVE  m >= x
  <2>1. n - m <= n - x
    BY <1>1, <1>3, <1>4
  <2>2. x \in Nat /\ m \in Nat
    OBVIOUS
  <2>3. QED
    BY <2>1, <2>2
<1>6. QED
  BY <1>5 DEF Files!Max

LEMMA MaxOfTwo ==
    ASSUME NEW a \in Nat, NEW b \in Nat
    PROVE  Files!Max({a, b}) = IF a >= b THEN a ELSE b
  BY DEF Files!Max

LEMMA MinOfTwo ==
    ASSUME NEW a \in Nat, NEW b \in Nat
    PROVE  Files!Min({a, b}) = IF a <= b THEN a ELSE b
  BY DEF Files!Min

\* What the loop of a read takes from the entries: a beginning of them, which has
\* room, and all of them when they have room.
LEMMA FilledIs ==
    ASSUME NEW e \in Entries, NEW c \in Nat
    PROVE  /\ \E k \in 0..Len(e) : Files!Filled(e, c) = SubSeq(e, 1, k)
           /\ Files!Filled(e, c) \in Entries
           /\ Files!Bytes(Files!Filled(e, c)) <= c
           /\ Files!Bytes(e) <= c => Files!Filled(e, c) = e
<1>1. Len(e) \in Nat /\ SubSeq(e, 1, 0) = <<>> /\ SubSeq(e, 1, Len(e)) = e
  BY DEF Entries
<1>2. PICK room : room = {k \in 0..Len(e) : Files!Bytes(SubSeq(e, 1, k)) <= c}
  OBVIOUS
<1>3. Files!Filled(e, c) = SubSeq(e, 1, Files!Max(room))
  BY <1>2 DEF Files!Filled
<1>4. 0 \in room
  <2>1. <<>> \in Entries
    BY DEF Entries
  <2>2. Files!Bytes(<<>>) = 0
    BY <2>1, BytesSum
  <2>3. Files!Bytes(SubSeq(e, 1, 0)) = 0
    BY <1>1, <2>2, Zenon
  <2>4. 0 \in 0..Len(e) /\ Files!Bytes(SubSeq(e, 1, 0)) <= c
    BY <1>1, <2>3
  <2>5. QED
    BY <2>4, <1>2
<1>5. room \in SUBSET (0..Len(e)) /\ room # {}
  BY <1>2, <1>4
<1>6. Files!Max(room) \in room /\ \A x \in room : Files!Max(room) >= x
  BY ONLY <1>1, <1>5, MaxIn
<1>7. PICK k : k = Files!Max(room)
  OBVIOUS
<1>8. k \in 0..Len(e) /\ Files!Bytes(SubSeq(e, 1, k)) <= c
  BY <1>2, <1>6, <1>7
<1>9. SubSeq(e, 1, k) \in Entries
  BY <1>8 DEF Entries
<1>10. ASSUME Files!Bytes(e) <= c
       PROVE  k = Len(e)
  <2>a. Files!Bytes(SubSeq(e, 1, Len(e))) <= c
    BY <1>1, <1>10, Zenon
  <2>b. Len(e) \in 0..Len(e)
    BY <1>1
  <2>1. Len(e) \in room
    BY <1>2, <2>a, <2>b
  <2>2. k >= Len(e)
    BY <1>6, <1>7, <2>1
  <2>3. QED
    BY <2>2, <1>8
<1>11. QED
  BY <1>1, <1>3, <1>7, <1>8, <1>9, <1>10
\* A reply with entries, as a message has room for it: everything if it fits, and
\* else a beginning that is not empty or is followed by a part of an entry.
LEMMA TruncatedIs ==
    ASSUME NEW e \in Entries, NEW all, NEW t, t = Files!Truncated(e, all)
    PROVE  /\ t = [whole |-> t.whole, len |-> t.len, cut |-> t.cut, all |-> all]
           /\ t.cut \in BOOLEAN /\ t.len \in Nat
           /\ \E k \in 0..Len(e) : t.whole = SubSeq(e, 1, k)
           /\ Files!Bytes(e) <= MaxData => t.whole = e /\ t.len = Files!Bytes(e) /\ ~t.cut
           /\ Files!Bytes(e) > MaxData => t.len = MaxData /\ (t.whole = <<>> => t.cut)
<1>1. PICK len : len = Files!Min({Files!Bytes(e), MaxData})
  OBVIOUS
<1>2. Files!Bytes(e) \in Nat /\ MaxData \in Nat \ {0}
  BY BytesSum, FilesAssumption
<1>3. len = (IF Files!Bytes(e) <= MaxData THEN Files!Bytes(e) ELSE MaxData) /\ len \in Nat
  BY <1>1, <1>2, MinOfTwo
<1>4. PICK whole : whole = Files!Filled(e, len)
  OBVIOUS
<1>5. PICK cut : cut = (Files!Bytes(whole) < len)
  OBVIOUS
<1>6. Files!Truncated(e, all) = [whole |-> whole, len |-> len, cut |-> cut, all |-> all]
  BY <1>1, <1>4, <1>5, Zenon DEF Files!Truncated
<1>7. /\ \E k \in 0..Len(e) : whole = SubSeq(e, 1, k)
      /\ whole \in Entries /\ Files!Bytes(whole) <= len
      /\ Files!Bytes(e) <= len => whole = e
  BY ONLY <1>3, <1>4, FilledIs, e \in Entries, ZenonT(40)
<1>8. Files!Bytes(e) <= MaxData => whole = e /\ len = Files!Bytes(e) /\ ~cut
  <2>1. SUFFICES ASSUME Files!Bytes(e) <= MaxData
                 PROVE  whole = e /\ len = Files!Bytes(e) /\ ~cut
    OBVIOUS
  <2>2. len = Files!Bytes(e) /\ Files!Bytes(e) <= len
    BY <2>1, <1>2, <1>3
  <2>3. whole = e
    BY <2>2, <1>7
  <2>4. ~(Files!Bytes(whole) < len)
    BY <2>2, <2>3, <1>2
  <2>5. QED
    BY <2>2, <2>3, <2>4, <1>5
<1>9. Files!Bytes(e) > MaxData => len = MaxData /\ (whole = <<>> => cut)
  <2>1. SUFFICES ASSUME Files!Bytes(e) > MaxData
                 PROVE  len = MaxData /\ (whole = <<>> => cut)
    OBVIOUS
  <2>2. len = MaxData /\ len > 0
    BY <2>1, <1>2, <1>3
  <2>3. whole = <<>> => Files!Bytes(whole) < len
    BY <2>2, <1>2, <1>7, BytesSum
  <2>4. QED
    BY <2>2, <2>3, <1>5
<1>10. cut \in BOOLEAN
  BY <1>5
<1>11. t.whole = whole /\ t.len = len /\ t.cut = cut /\ t.all = all
  BY <1>6
<1>12. t = [whole |-> t.whole, len |-> t.len, cut |-> t.cut, all |-> all]
  BY <1>6, <1>11, Zenon
<1>13. t.cut \in BOOLEAN /\ t.len \in Nat /\ \E k \in 0..Len(e) : t.whole = SubSeq(e, 1, k)
  BY <1>3, <1>7, <1>10, <1>11, Zenon
<1>14. Files!Bytes(e) <= MaxData => t.whole = e /\ t.len = Files!Bytes(e) /\ ~t.cut
  BY <1>8, <1>11, Zenon
<1>15. Files!Bytes(e) > MaxData => t.len = MaxData /\ (t.whole = <<>> => t.cut)
  BY <1>9, <1>11, Zenon
<1>16. QED
  BY <1>12, <1>13, <1>14, <1>15

-----------------------------------------------------------------------------
(* Bytes laid over others.                                                 *)

Data == Seq(Nat)

LEMMA LayIs ==
    ASSUME NEW bytes \in Data, NEW off \in Nat, NEW data \in Data, data # <<>>,
           NEW lay, lay = Files!Lay(bytes, off, data)
    PROVE  /\ lay \in Data
           /\ Len(lay) = IF Len(bytes) >= off + Len(data) THEN Len(bytes) ELSE off + Len(data)
           /\ \A i \in 1..Len(lay) :
                 lay[i] = IF off < i /\ i <= off + Len(data) THEN data[i - off]
                          ELSE IF i <= Len(bytes) THEN bytes[i] ELSE 0
<1>1. Len(bytes) \in Nat /\ Len(data) \in Nat /\ off + Len(data) \in Nat
  BY DEF Data
<1>2. PICK n : n = IF Len(bytes) >= off + Len(data) THEN Len(bytes) ELSE off + Len(data)
  OBVIOUS
<1>3. n \in Nat /\ n = Files!Max({Len(bytes), off + Len(data)})
  BY <1>1, <1>2, MaxOfTwo
<1>5. lay = [i \in 1..n |-> IF i \in (off + 1)..(off + Len(data)) THEN data[i - off]
                            ELSE IF i <= Len(bytes) THEN bytes[i] ELSE 0]
  BY <1>3, Zenon DEF Files!Lay
<1>6. ASSUME NEW i \in 1..n
      PROVE  /\ lay[i] = IF off < i /\ i <= off + Len(data) THEN data[i - off]
                         ELSE IF i <= Len(bytes) THEN bytes[i] ELSE 0
             /\ lay[i] \in Nat
  <2>1. i \in (off + 1)..(off + Len(data)) <=> off < i /\ i <= off + Len(data)
    BY <1>1, <1>3
  <2>2. lay[i] = IF off < i /\ i <= off + Len(data) THEN data[i - off]
                 ELSE IF i <= Len(bytes) THEN bytes[i] ELSE 0
    BY <1>5, <2>1
  <2>3. off < i /\ i <= off + Len(data) => data[i - off] \in Nat
    BY <1>1, <1>3 DEF Data
  <2>4. i <= Len(bytes) => bytes[i] \in Nat
    BY <1>1, <1>3 DEF Data
  <2>5. QED
    BY <2>2, <2>3, <2>4
<1>7. lay \in [1..n -> Nat]
  BY <1>5, <1>6
<1>8. lay \in Data /\ Len(lay) = n
  <2>1. lay \in Seq(Nat)
    BY ONLY <1>3, <1>7, SeqDef
  <2>2. Len(lay) = n
    BY ONLY <1>3, <1>7, <2>1, LenProperties
  <2>3. QED
    BY <2>1, <2>2 DEF Data
<1>9. \A i \in 1..Len(lay) :
         lay[i] = IF off < i /\ i <= off + Len(data) THEN data[i - off]
                  ELSE IF i <= Len(bytes) THEN bytes[i] ELSE 0
  BY <1>6, <1>8, Zenon
<1>10. Len(lay) = IF Len(bytes) >= off + Len(data) THEN Len(bytes) ELSE off + Len(data)
  BY <1>2, <1>8
<1>11. QED
  BY <1>8, <1>9, <1>10

LEMMA SameData ==
    ASSUME NEW s \in Data, NEW t \in Data, Len(s) = Len(t), \A i \in 1..Len(s) : s[i] = t[i]
    PROVE  s = t
  BY SMTT(30) DEF Data

LEMMA LayNone ==
    ASSUME NEW bytes, NEW off
    PROVE  Files!Lay(bytes, off, <<>>) = bytes
  BY DEF Files!Lay
LEMMA Prefixed ==
    ASSUME NEW X, NEW data \in Seq(X), NEW n \in 0..Len(data)
    PROVE  /\ SubSeq(data, 1, n) \in Seq(X) /\ Len(SubSeq(data, 1, n)) = n
           /\ \A i \in 1..n : SubSeq(data, 1, n)[i] = data[i]
           /\ SubSeq(data, n + 1, Len(data)) \in Seq(X)
           /\ Len(SubSeq(data, n + 1, Len(data))) = Len(data) - n
           /\ \A i \in 1..(Len(data) - n) : SubSeq(data, n + 1, Len(data))[i] = data[n + i]
           /\ (SubSeq(data, 1, n) = <<>> <=> n = 0)
           /\ (SubSeq(data, n + 1, Len(data)) = <<>> <=> n = Len(data))
<1>1. Len(data) \in Nat /\ n \in Nat /\ n <= Len(data)
  OBVIOUS
<1>2. PICK a, b : a = SubSeq(data, 1, n) /\ b = SubSeq(data, n + 1, Len(data))
  OBVIOUS
<1>3. a \in Seq(X) /\ Len(a) = n /\ \A i \in 1..n : a[i] = data[i]
  BY <1>1, <1>2
<1>4. b \in Seq(X) /\ Len(b) = Len(data) - n
  BY <1>1, <1>2
<1>5. \A i \in 1..(Len(data) - n) : b[i] = data[n + i]
  BY <1>1, <1>2
<1>6. (a = <<>> <=> n = 0) /\ (b = <<>> <=> n = Len(data))
  BY <1>1, <1>3, <1>4
<1>7. QED
  BY <1>2, <1>3, <1>4, <1>5, <1>6, Zenon

\* What is written first and then again with what follows it is written once.
LEMMA LayTwice ==
    ASSUME NEW bytes \in Data, NEW off \in Nat, NEW data \in Data, NEW n \in 0..Len(data)
    PROVE  /\ Files!Lay(bytes, off, SubSeq(data, 1, n)) \in Data
           /\ Files!Lay(Files!Lay(bytes, off, SubSeq(data, 1, n)), off, data) = Files!Lay(bytes, off, data)
           /\ n > 0 => /\ Len(Files!Lay(bytes, off, SubSeq(data, 1, n))) >= off + n
                       /\ \A i \in 1..n : Files!Lay(bytes, off, SubSeq(data, 1, n))[off + i] = data[i]
<1>1. PICK d : d = SubSeq(data, 1, n)
  OBVIOUS
<1>2. Len(data) \in Nat /\ n \in Nat /\ n <= Len(data) /\ Len(bytes) \in Nat
  BY DEF Data
<1>3. d \in Data /\ Len(d) = n /\ (d = <<>> <=> n = 0) /\ \A i \in 1..n : d[i] = data[i]
  <2>1. data \in Seq(Nat) /\ n \in 0..Len(data)
    BY DEF Data
  <2>2. /\ SubSeq(data, 1, n) \in Seq(Nat) /\ Len(SubSeq(data, 1, n)) = n
        /\ \A i \in 1..n : SubSeq(data, 1, n)[i] = data[i]
        /\ (SubSeq(data, 1, n) = <<>> <=> n = 0)
    BY ONLY <2>1
  <2>3. QED
    BY <1>1, <2>2, Zenon DEF Data
<1>4. PICK b : b = Files!Lay(bytes, off, d)
  OBVIOUS
<1>5. CASE n = 0
  <2>1. d = <<>> /\ ~(n > 0)
    BY <1>3, <1>5
  <2>2. b = bytes
    BY <1>4, <2>1, LayNone, Zenon
  <2>3. QED
    BY <1>1, <1>4, <2>1, <2>2, Zenon
<1>6. CASE n # 0
  <2>1. d # <<>> /\ data # <<>> /\ n > 0
    BY <1>2, <1>3, <1>6
  <2>2. /\ b \in Data
        /\ Len(b) = IF Len(bytes) >= off + n THEN Len(bytes) ELSE off + n
        /\ \A i \in 1..Len(b) : b[i] = IF off < i /\ i <= off + n THEN d[i - off]
                                       ELSE IF i <= Len(bytes) THEN bytes[i] ELSE 0
    <3>1. /\ b \in Data
          /\ Len(b) = IF Len(bytes) >= off + Len(d) THEN Len(bytes) ELSE off + Len(d)
          /\ \A i \in 1..Len(b) : b[i] = IF off < i /\ i <= off + Len(d) THEN d[i - off]
                                         ELSE IF i <= Len(bytes) THEN bytes[i] ELSE 0
      BY ONLY <1>3, <1>4, <2>1, LayIs, bytes \in Data, off \in Nat
    <3>2. QED
      BY <3>1, <1>3
  <2>3. PICK x, y : x = Files!Lay(b, off, data) /\ y = Files!Lay(bytes, off, data)
    OBVIOUS
  <2>4. /\ x \in Data
        /\ Len(x) = IF Len(b) >= off + Len(data) THEN Len(b) ELSE off + Len(data)
        /\ \A i \in 1..Len(x) : x[i] = IF off < i /\ i <= off + Len(data) THEN data[i - off]
                                       ELSE IF i <= Len(b) THEN b[i] ELSE 0
    BY ONLY <2>1, <2>2, <2>3, LayIs, data \in Data, off \in Nat
  <2>5. /\ y \in Data
        /\ Len(y) = IF Len(bytes) >= off + Len(data) THEN Len(bytes) ELSE off + Len(data)
        /\ \A i \in 1..Len(y) : y[i] = IF off < i /\ i <= off + Len(data) THEN data[i - off]
                                       ELSE IF i <= Len(bytes) THEN bytes[i] ELSE 0
    BY ONLY <2>1, <2>3, LayIs, data \in Data, off \in Nat, bytes \in Data
  <2>6. Len(x) = Len(y) /\ Len(x) \in Nat
    BY <1>2, <2>2, <2>4, <2>5, SMTT(30)
  <2>7. ASSUME NEW i \in 1..Len(x)
        PROVE  x[i] = y[i]
    <3>1. i \in Nat /\ i > 0 /\ i \in 1..Len(y)
      BY <2>6
    <3>2. CASE off < i /\ i <= off + Len(data)
      BY <3>1, <3>2, <2>4, <2>5
    <3>3. CASE ~(off < i /\ i <= off + Len(data))
      <4>1. y[i] = IF i <= Len(bytes) THEN bytes[i] ELSE 0
        BY <3>1, <3>3, <2>5
      <4>2. x[i] = IF i <= Len(b) THEN b[i] ELSE 0
        BY <3>3, <2>4
      <4>3. i <= Len(b) => b[i] = IF i <= Len(bytes) THEN bytes[i] ELSE 0
        <5>1. ~(off < i /\ i <= off + n)
          BY <1>2, <3>1, <3>3
        <5>2. i <= Len(b) => i \in 1..Len(b)
          BY <3>1, <1>2, <2>2
        <5>3. QED
          BY <5>1, <5>2, <2>2
      <4>4. ~(i <= Len(b)) => ~(i <= Len(bytes))
        BY <1>2, <2>2, <3>1
      <4>5. QED
        BY <4>1, <4>2, <4>3, <4>4
    <3>4. QED
      BY <3>2, <3>3
  <2>8. x = y
    BY ONLY <2>4, <2>5, <2>6, <2>7, SameData
  <2>9. Len(b) >= off + n
    BY <1>2, <2>2
  <2>10. ASSUME NEW i \in 1..n
         PROVE  b[off + i] = data[i]
    <3>1. off + i \in 1..Len(b) /\ off < off + i /\ off + i <= off + n /\ (off + i) - off = i
      BY <1>2, <2>2, <2>9
    <3>2. b[off + i] = d[(off + i) - off]
      BY <2>2, <3>1
    <3>3. QED
      BY <3>1, <3>2, <1>3
  <2>11. QED
    BY <1>1, <1>4, <2>1, <2>2, <2>3, <2>8, <2>9, <2>10, Zenon
<1>7. QED
  BY <1>5, <1>6

\* What has been written already need not be written with the rest.
LEMMA LayRest ==
    ASSUME NEW bytes \in Data, NEW off \in Nat, NEW data \in Data, NEW n \in 0..Len(data),
           n > 0 => Len(bytes) >= off + n, \A i \in 1..n : bytes[off + i] = data[i]
    PROVE  Files!Lay(bytes, off + n, SubSeq(data, n + 1, Len(data))) = Files!Lay(bytes, off, data)
<1>1. PICK d : d = SubSeq(data, n + 1, Len(data))
  OBVIOUS
<1>2. /\ Len(data) \in Nat /\ n \in Nat /\ n <= Len(data) /\ Len(bytes) \in Nat /\ off + n \in Nat
      /\ (data = <<>> <=> Len(data) = 0) /\ SubSeq(data, 1, Len(data)) = data
  BY DEF Data
<1>3. /\ d \in Data /\ Len(d) = Len(data) - n /\ (d = <<>> <=> n = Len(data))
      /\ \A i \in 1..(Len(data) - n) : d[i] = data[n + i]
  BY <1>1, Prefixed, SMTT(30) DEF Data
<1>4. CASE n = 0
  <2>1. off + n = off /\ n + 1 = 1
    BY <1>4
  <2>2. d = data
    BY <1>1, <1>2, <2>1
  <2>3. QED
    BY <1>1, <2>1, <2>2, Zenon
<1>5. PICK x, y : x = Files!Lay(bytes, off + n, d) /\ y = Files!Lay(bytes, off, data)
  OBVIOUS
<1>6. CASE n # 0
  <2>1. data # <<>> /\ n > 0 /\ Len(bytes) >= off + n
    BY <1>2, <1>6
  <2>2. /\ y \in Data
        /\ Len(y) = IF Len(bytes) >= off + Len(data) THEN Len(bytes) ELSE off + Len(data)
        /\ \A i \in 1..Len(y) : y[i] = IF off < i /\ i <= off + Len(data) THEN data[i - off]
                                       ELSE IF i <= Len(bytes) THEN bytes[i] ELSE 0
    BY ONLY <2>1, <1>5, LayIs, data \in Data, off \in Nat, bytes \in Data
  <2>3. ASSUME NEW i \in 1..n
        PROVE  bytes[off + i] = data[i]
    OBVIOUS
  <2>4. ASSUME NEW i \in 1..Len(y), i <= off + n
        PROVE  y[i] = bytes[i]
    <3>1. i \in Nat /\ i > 0 /\ i <= Len(bytes) /\ i <= off + Len(data)
      BY <1>2, <2>1, <2>2, <2>4
    <3>2. CASE off < i
      <4>1. y[i] = data[i - off]
        BY <2>2, <3>1, <3>2
      <4>2. i - off \in 1..n /\ off + (i - off) = i
        BY <3>1, <3>2, <2>4, <1>2
      <4>3. QED
        BY <4>1, <4>2, <2>3
    <3>3. CASE ~(off < i)
      BY <2>2, <3>1, <3>3
    <3>4. QED
      BY <3>2, <3>3
  <2>5. CASE d = <<>>
    <3>1. x = bytes /\ n = Len(data)
      BY <1>3, <1>5, <2>5, LayNone, Zenon
    <3>2. Len(y) = Len(bytes)
      BY <3>1, <2>1, <2>2
    <3>3. ASSUME NEW i \in 1..Len(y)
          PROVE  y[i] = bytes[i]
      <4>1. CASE i <= off + n
        BY <4>1, <2>4
      <4>2. CASE ~(i <= off + n)
        BY <4>2, <3>1, <3>2, <2>2, <1>2
      <4>3. QED
        BY <4>1, <4>2
    <3>4. y = bytes
      BY ONLY <2>2, <3>2, <3>3, SameData, bytes \in Data
    <3>5. QED
      BY <1>1, <1>5, <3>1, <3>4, Zenon
  <2>6. CASE d # <<>>
    <3>a. PICK o \in Nat : o = off + n
      BY <1>2
    <3>b. x = Files!Lay(bytes, o, d)
      BY <1>5, <3>a, Zenon
    <3>c. /\ x \in Data
          /\ Len(x) = IF Len(bytes) >= o + Len(d) THEN Len(bytes) ELSE o + Len(d)
          /\ \A i \in 1..Len(x) : x[i] = IF o < i /\ i <= o + Len(d) THEN d[i - o]
                                         ELSE IF i <= Len(bytes) THEN bytes[i] ELSE 0
      BY ONLY <2>6, <1>3, <3>a, <3>b, LayIs, bytes \in Data, SMTT(30)
    <3>1. /\ x \in Data
          /\ Len(x) = IF Len(bytes) >= (off + n) + Len(d) THEN Len(bytes) ELSE (off + n) + Len(d)
          /\ \A i \in 1..Len(x) : x[i] = IF off + n < i /\ i <= (off + n) + Len(d) THEN d[i - (off + n)]
                                         ELSE IF i <= Len(bytes) THEN bytes[i] ELSE 0
      BY ONLY <3>a, <3>c, ZenonT(40)
    <3>2. (off + n) + Len(d) = off + Len(data)
      <4>1. off \in Nat /\ n \in Nat /\ Len(data) \in Nat /\ Len(d) = Len(data) - n
        BY ONLY <1>2, <1>3, off \in Nat, Zenon
      <4>2. \A k \in Nat : (off + n) + (k - n) = off + k
        BY ONLY <4>1
      <4>3. QED
        BY ONLY <4>1, <4>2, Zenon
    <3>3. Len(x) = Len(y) /\ Len(y) \in Nat
      BY <3>1, <3>2, <2>2, <1>2
    <3>4. ASSUME NEW i \in 1..Len(x)
          PROVE  x[i] = y[i]
      <4>1. i \in Nat /\ i \in 1..Len(y) /\ i > 0
        BY <3>3
      <4>2. CASE i <= off + n
        <5>1. ~(off + n < i) /\ i <= Len(bytes)
          BY <4>1, <4>2, <2>1, <1>2
        <5>2. x[i] = bytes[i]
          BY <5>1, <3>1
        <5>3. QED
          BY <5>2, <4>1, <4>2, <2>4
      <4>3. CASE ~(i <= off + n) /\ i <= off + Len(data)
        <5>1. off + n < i /\ off < i /\ i - (off + n) \in 1..(Len(data) - n) /\ n + (i - (off + n)) = i - off
          BY <4>1, <4>3, <1>2
        <5>2. x[i] = d[i - (off + n)]
          BY <5>1, <4>3, <3>1, <3>2
        <5>3. y[i] = data[i - off]
          BY <5>1, <4>1, <4>3, <2>2
        <5>4. d[i - (off + n)] = data[n + (i - (off + n))]
          BY <5>1, <1>3
        <5>5. QED
          BY <5>1, <5>2, <5>3, <5>4
      <4>4. CASE ~(i <= off + Len(data))
        BY <4>1, <4>4, <3>1, <3>2, <2>2
      <4>5. QED
        BY <4>2, <4>3, <4>4
    <3>5. x = y
      BY ONLY <3>1, <3>3, <3>4, <2>2, SameData
    <3>6. QED
      BY <1>1, <1>5, <3>5, Zenon
  <2>7. QED
    BY <2>5, <2>6
<1>7. QED
  BY <1>4, <1>6
-----------------------------------------------------------------------------
(* Paths.                                                                  *)

PathNames == {"rpc"} \cup UNION {ToSet(p) : p \in DOMAIN Tree}

LEMMA NodesAre ==
    /\ Files!Root = <<>> /\ Files!Rpc = <<"rpc">> /\ Files!Root \in Files!Nodes /\ Files!Rpc \in Files!Nodes
    /\ Files!Nodes \subseteq Seq(PathNames)
    /\ \A p \in Files!Nodes \ {Files!Root} :
          p # <<>> /\ Files!Last(p) # ".." /\ Files!Front(p) \in Files!Nodes
    /\ \A p \in Files!Nodes \ {Files!Root, Files!Rpc} : p \in DOMAIN Tree /\ Tree[p] \in {"dir", "file"} /\ p[1] # "rpc"
<1>1. Files!Root = <<>> /\ Files!Rpc = <<"rpc">> /\ Files!Root \in Files!Nodes /\ Files!Rpc \in Files!Nodes
  BY DEF Files!Root, Files!Rpc, Files!Nodes
<1>2. ASSUME NEW p \in DOMAIN Tree
      PROVE  p \in Seq(PathNames) /\ p # <<>> /\ ".." \notin ToSet(p) /\ p[1] # "rpc" /\ Tree[p] \in {"dir", "file", "symlink"}
  <2>1. p \in Seq(ToSet(p)) /\ p # <<>> /\ ".." \notin ToSet(p) /\ p[1] # "rpc" /\ Tree[p] \in {"dir", "file", "symlink"}
    BY FilesAssumption
  <2>2. ToSet(p) \subseteq PathNames
    BY DEF PathNames
  <2>3. QED
    BY <2>1, <2>2, SeqMonotonic
<1>3. Files!Rpc \in Seq(PathNames) /\ Files!Root \in Seq(PathNames)
  BY <1>1 DEF PathNames
<1>4. Files!Nodes \subseteq Seq(PathNames)
  BY <1>2, <1>3 DEF Files!Nodes
<1>5. ASSUME NEW p \in Files!Nodes \ {Files!Root, Files!Rpc}
      PROVE  /\ p \in DOMAIN Tree /\ Tree[p] \in {"dir", "file"} /\ p[1] # "rpc"
             /\ p # <<>> /\ Files!Last(p) # ".." /\ Files!Front(p) \in Files!Nodes
  <2>1. p \in DOMAIN Tree /\ Tree[p] # "symlink"
    BY DEF Files!Nodes
  <2>2. p \in Seq(PathNames) /\ p # <<>> /\ ".." \notin ToSet(p)
    BY <1>2, <2>1
  <2>3. Files!Last(p) \in ToSet(p)
    <3>1. Len(p) \in DOMAIN p
      BY <2>2
    <3>2. QED
      BY <3>1 DEF Files!Last, ToSet
  <2>4. Files!Front(p) \in Files!Nodes
    <3>1. CASE Len(p) = 1
      <4>1. Files!Front(p) = <<>>
        BY <2>2, <3>1 DEF Files!Front
      <4>2. QED
        BY <4>1, <1>1
    <3>2. CASE Len(p) # 1
      <4>1. Len(p) > 1
        <5>1. Len(p) \in Nat /\ Len(p) # 0
          BY <2>2, EmptySeq, SMTT(30)
        <5>2. \A k \in Nat : k # 0 /\ k # 1 => k > 1
          OBVIOUS
        <5>3. QED
          BY <5>1, <5>2, <3>2, Zenon
      <4>2. Front(p) \in DOMAIN Tree /\ Tree[Front(p)] = "dir"
        BY <2>1, <4>1, FilesAssumption
      <4>3. Files!Front(p) = Front(p)
        BY DEF Files!Front, Front
      <4>4. QED
        BY <4>2, <4>3 DEF Files!Nodes
    <3>3. QED
      BY <3>1, <3>2
  <2>5. QED
    BY <1>2, <2>1, <2>2, <2>3, <2>4
<1>6. /\ Files!Rpc # <<>> /\ Files!Last(Files!Rpc) # ".." /\ Files!Front(Files!Rpc) \in Files!Nodes
  <2>1. Files!Last(Files!Rpc) = "rpc"
    BY <1>1 DEF Files!Last
  <2>2. Files!Front(Files!Rpc) = <<>>
    BY <1>1 DEF Files!Front
  <2>3. QED
    BY <1>1, <2>1, <2>2
<1>7. QED
  BY <1>1, <1>4, <1>5, <1>6

LEMMA FrontLast ==
    ASSUME NEW X, NEW p \in Seq(X), NEW q \in Seq(X), q # <<>>, NEW c
    PROVE  Files!Front(q) = p /\ Files!Last(q) = c <=> q = Append(p, c)
<1>1. Len(q) \in Nat /\ Len(q) > 0 /\ Len(p) \in Nat
  BY EmptySeq
<1>2. ASSUME q = Append(p, c)
      PROVE  Files!Front(q) = p /\ Files!Last(q) = c
  <2>1. Len(q) = Len(p) + 1 /\ q[Len(p) + 1] = c /\ \A i \in 1..Len(p) : q[i] = p[i]
    BY <1>2, AppendProperties
  <2>2. QED
    BY <1>1, <2>1 DEF Files!Front, Files!Last
<1>3. ASSUME Files!Front(q) = p, Files!Last(q) = c
      PROVE  q = Append(p, c)
  BY <1>1, <1>3 DEF Files!Front, Files!Last
<1>4. QED
  BY <1>2, <1>3

\* One step of a walk leads where the name leads in the tree.
LEMMA WalkOne ==
    ASSUME NEW r \in Files!Nodes, NEW c, NEW f, f = Files!walk_one(r, c)
    PROVE  /\ f.ok \in BOOLEAN
           /\ f.ok => f.at \in Files!Nodes /\ {q \in Files!Nodes : Files!Leads(r, c, q)} = {f.at}
           /\ ~f.ok => {q \in Files!Nodes : Files!Leads(r, c, q)} = {}
<1>1. \A q : Files!Found(q).ok = TRUE /\ Files!Found(q).at = q
  BY DEF Files!Found
<1>2. Files!NotFound.ok = FALSE
  BY DEF Files!NotFound
<1>3. r \in Seq(PathNames) /\ Files!Root = <<>> /\ Files!Root \in Files!Nodes /\ (r # <<>> => Len(r) > 0) /\ Len(r) \in Nat
  BY NodesAre, EmptySeq
<1>4. ASSUME NEW q \in Files!Nodes
      PROVE  <<q, c, r>> \in Files!Edges <=> q # Files!Root /\ q = Append(r, c)
  <2>1. <<q, c, r>> \in Files!Edges <=> q # Files!Root /\ Files!Last(q) = c /\ Files!Front(q) = r
    BY DEF Files!Edges
  <2>2. q # Files!Root => (Files!Front(q) = r /\ Files!Last(q) = c <=> q = Append(r, c))
    <3>1. q \in Seq(PathNames) /\ (q # Files!Root => q # <<>>)
      BY NodesAre
    <3>2. QED
      BY ONLY <1>3, <3>1, FrontLast
  <2>3. QED
    BY <2>1, <2>2
<1>5. CASE c = ".."
  <2>1. PICK up : up = IF r = Files!Root THEN Files!Root ELSE Files!Front(r)
    OBVIOUS
  <2>2. up \in Files!Nodes
    BY <2>1, NodesAre
  <2>3. up = IF Len(r) <= 1 THEN Files!Root ELSE Files!Front(r)
    <3>1. CASE r = <<>>
      BY <3>1, <1>3, <2>1
    <3>2. CASE r # <<>> /\ Len(r) <= 1
      <4>0. PICK n : n = Len(r)
        OBVIOUS
      <4>1. Len(r) = 1
        <5>1. n \in Nat /\ n > 0 /\ n <= 1
          BY <3>2, <4>0, <1>3, Zenon
        <5>2. n = 1
          BY ONLY <5>1
        <5>3. QED
          BY <4>0, <5>2
      <4>2. Files!Front(r) = <<>>
        BY <4>1, <1>3 DEF Files!Front
      <4>3. QED
        BY <4>1, <4>2, <3>2, <1>3, <2>1
    <3>3. CASE r # <<>> /\ ~(Len(r) <= 1)
      BY <3>3, <1>3, <2>1
    <3>4. QED
      BY <3>1, <3>2, <3>3
  <2>4. f = Files!Found(up)
    BY <1>5, <2>3, Zenon DEF Files!walk_one
  <2>5. ASSUME NEW q \in Files!Nodes
        PROVE  Files!Leads(r, c, q) <=> q = up
    <3>1. ~(<<q, c, r>> \in Files!Edges)
      <4>1. q # Files!Root => Files!Last(q) # ".."
        BY NodesAre
      <4>2. QED
        BY <4>1, <1>5 DEF Files!Edges
    <3>2. QED
      BY <3>1, <1>5, <2>1, Zenon DEF Files!Leads
  <2>6. QED
    BY <1>1, <2>2, <2>4, <2>5, Zenon
<1>6. CASE c # ".."
  <2>1. ASSUME NEW q \in Files!Nodes
        PROVE  Files!Leads(r, c, q) <=> q # Files!Root /\ q = Append(r, c)
    BY <1>4, <1>6, Zenon DEF Files!Leads
  <2>2. Append(r, c) # Files!Root
    <3>1. Append(r, c) # <<>>
      OBVIOUS
    <3>2. QED
      BY <3>1, <1>3
  <2>3. {q \in Files!Nodes : Files!Leads(r, c, q)} = IF Append(r, c) \in Files!Nodes THEN {Append(r, c)} ELSE {}
    BY <2>1, <2>2, Zenon
  <2>4. PICK p : p = Append(r, c)
    OBVIOUS
  <2>5. Len(p) = Len(r) + 1 /\ Len(r) \in Nat /\ (r # <<>> => p[1] = r[1])
    BY <1>3, <2>4
  <2>6. (p \in Files!Nodes => f = Files!Found(p)) /\ (p \notin Files!Nodes => f = Files!NotFound)
    <3>1. CASE r = Files!Root
      <4>1. p = <<c>> /\ Len(p) = 1 /\ p[1] = c
        BY <1>3, <2>4, <3>1
      <4>2. f = IF c = "rpc" \/ c \in Files!ShareNames THEN Files!Found(p) ELSE Files!NotFound
        BY <1>6, <3>1, <4>1, Zenon DEF Files!walk_one
      <4>3. c = "rpc" => p \in Files!Nodes
        BY <4>1, NodesAre
      <4>4. ASSUME c \in Files!ShareNames
            PROVE  p \in Files!Nodes
        <5>1. PICK q \in DOMAIN Tree : Len(q) = 1 /\ q[1] = c
          BY <4>4 DEF Files!ShareNames
        <5>2. q \in Seq(ToSet(q)) /\ Tree[q] # "symlink"
          BY <5>1, FilesAssumption
        <5>3. q = <<c>>
          BY <5>1, <5>2
        <5>4. QED
          BY <5>2, <5>3, <4>1 DEF Files!Nodes
      <4>5. ASSUME p \in Files!Nodes
            PROVE  c = "rpc" \/ c \in Files!ShareNames
        <5>1. p \in DOMAIN Tree \/ p = <<"rpc">>
          BY <4>5, <4>1, NodesAre
        <5>2. p = <<"rpc">> => c = "rpc"
          BY <4>1
        <5>3. p \in DOMAIN Tree => c \in Files!ShareNames
          BY <4>1 DEF Files!ShareNames
        <5>4. QED
          BY <5>1, <5>2, <5>3
      <4>6. QED
        BY <4>2, <4>3, <4>4, <4>5
    <3>2. CASE r = Files!Rpc
      <4>1. r = <<"rpc">> /\ r # Files!Root
        BY <3>2, NodesAre
      <4>2. p[1] = "rpc" /\ Len(p) = 2
        BY <4>1, <2>5
      <4>3. p # Files!Rpc /\ p # Files!Root
        BY <4>1, <4>2, <3>2, <1>3
      <4>4. p \notin Files!Nodes
        BY <4>2, <4>3, NodesAre
      <4>5. f = Files!NotFound
        BY <1>6, <3>2, <4>1, Zenon DEF Files!walk_one
      <4>6. QED
        BY <4>4, <4>5
    <3>3. CASE r # Files!Root /\ r # Files!Rpc
      <4>0. PICK m, n : m = Len(p) /\ n = Len(r)
        OBVIOUS
      <4>1. Len(p) # 0 /\ Len(p) # 1
        <5>1. n \in Nat /\ n > 0 /\ m = n + 1
          BY <3>3, <4>0, <2>5, <1>3, Zenon
        <5>2. m # 0 /\ m # 1
          BY ONLY <5>1
        <5>3. QED
          BY <4>0, <5>2
      <4>2. p # Files!Root /\ p # Files!Rpc
        <5>1. Len(Files!Root) = 0 /\ Len(Files!Rpc) = 1
          BY DEF Files!Root, Files!Rpc
        <5>2. QED
          BY ONLY <4>1, <5>1, Zenon
      <4>3. p \in Files!Nodes <=> p \in DOMAIN Tree /\ Tree[p] # "symlink"
        BY <4>2 DEF Files!Nodes
      <4>4. f = IF p \in DOMAIN Tree /\ Tree[p] # "symlink" THEN Files!Found(p) ELSE Files!NotFound
        BY <1>6, <2>4, <3>3, Zenon DEF Files!walk_one
      <4>5. QED
        BY <4>3, <4>4, Zenon
    <3>4. QED
      BY <3>1, <3>2, <3>3
  <2>7. {q \in Files!Nodes : Files!Leads(r, c, q)} = IF p \in Files!Nodes THEN {p} ELSE {}
    BY <2>3, <2>4, Zenon
  <2>8. QED
    BY <2>6, <2>7, <1>1, <1>2, Zenon
<1>7. QED
  BY <1>5, <1>6
\* The steps of a walk of n names, and the nodes that as many of them lead to.
IsWalk(g, r, w, n) ==
    g = [i \in 0..n |->
            IF i = 0 THEN Files!Found(r)
            ELSE IF g[i - 1].ok THEN Files!walk_one(g[i - 1].at, w[i]) ELSE Files!NotFound]
IsMeant(f, r, w, n) ==
    f = [i \in 0..n |->
            IF i = 0 THEN {r}
            ELSE {q \in Files!Nodes : \E p \in f[i - 1] : Files!Leads(p, w[i], q)}]

LEMMA WalkExists ==
    ASSUME NEW r, NEW w
    PROVE  \A n \in Nat : \E g : IsWalk(g, r, w, n)
<1>1. SUFFICES ASSUME NEW n \in Nat
               PROVE  \E g : IsWalk(g, r, w, n)
  OBVIOUS
<1>2. PICK S : S = {k \in 0..n : \E g : IsWalk(g, r, w, k)}
  OBVIOUS
<1>3. 0 \in S
  <2>1. IsWalk([k \in 0..0 |-> Files!Found(r)], r, w, 0)
    BY DEF IsWalk
  <2>2. QED
    BY <2>1, <1>2
<1>4. ASSUME NEW k \in 0..n, k < n, k \in S
      PROVE  k + 1 \in S
  <2>1. PICK g : IsWalk(g, r, w, k)
    BY <1>2, <1>4
  <2>2. PICK h : h = [j \in 0..(k + 1) |->
                         IF j = 0 THEN Files!Found(r)
                         ELSE IF g[j - 1].ok THEN Files!walk_one(g[j - 1].at, w[j]) ELSE Files!NotFound]
    OBVIOUS
  <2>3. ASSUME NEW j \in 0..(k + 1), j # 0
        PROVE  h[j - 1] = g[j - 1]
    <3>1. j - 1 \in 0..k /\ j - 1 \in 0..(k + 1)
      BY <2>3
    <3>2. QED
      BY <3>1, <2>1, <2>2 DEF IsWalk
  <2>4. h = [j \in 0..(k + 1) |->
                IF j = 0 THEN Files!Found(r)
                ELSE IF h[j - 1].ok THEN Files!walk_one(h[j - 1].at, w[j]) ELSE Files!NotFound]
    BY <2>2, <2>3
  <2>5. IsWalk(h, r, w, k + 1)
    BY ONLY <2>4 DEF IsWalk
  <2>6. k + 1 \in 0..n
    BY <1>4
  <2>7. QED
    BY <2>5, <2>6, <1>2
<1>5. \A k \in 0..n : k \in S
  BY ONLY <1>3, <1>4, Climbs, n \in Nat
<1>6. QED
  BY <1>2, <1>5

LEMMA MeantExists ==
    ASSUME NEW r, NEW w
    PROVE  \A n \in Nat : \E f : IsMeant(f, r, w, n)
<1>1. SUFFICES ASSUME NEW n \in Nat
               PROVE  \E f : IsMeant(f, r, w, n)
  OBVIOUS
<1>2. PICK S : S = {k \in 0..n : \E f : IsMeant(f, r, w, k)}
  OBVIOUS
<1>3. 0 \in S
  <2>1. IsMeant([k \in 0..0 |-> {r}], r, w, 0)
    BY DEF IsMeant
  <2>2. QED
    BY <2>1, <1>2
<1>4. ASSUME NEW k \in 0..n, k < n, k \in S
      PROVE  k + 1 \in S
  <2>1. PICK f : IsMeant(f, r, w, k)
    BY <1>2, <1>4
  <2>2. PICK h : h = [j \in 0..(k + 1) |->
                         IF j = 0 THEN {r}
                         ELSE {q \in Files!Nodes : \E p \in f[j - 1] : Files!Leads(p, w[j], q)}]
    OBVIOUS
  <2>3. ASSUME NEW j \in 0..(k + 1), j # 0
        PROVE  h[j - 1] = f[j - 1]
    <3>1. j - 1 \in 0..k /\ j - 1 \in 0..(k + 1)
      BY <2>3
    <3>2. QED
      BY <3>1, <2>1, <2>2 DEF IsMeant
  <2>4. h = [j \in 0..(k + 1) |->
                IF j = 0 THEN {r}
                ELSE {q \in Files!Nodes : \E p \in h[j - 1] : Files!Leads(p, w[j], q)}]
    BY <2>2, <2>3
  <2>5. IsMeant(h, r, w, k + 1)
    BY ONLY <2>4 DEF IsMeant
  <2>6. k + 1 \in 0..n
    BY <1>4
  <2>7. QED
    BY <2>5, <2>6, <1>2
<1>5. \A k \in 0..n : k \in S
  BY ONLY <1>3, <1>4, Climbs, n \in Nat
<1>6. QED
  BY <1>2, <1>5
\* A walk follows what the names mean, as far as it goes.
LEMMA WalkMeans ==
    ASSUME NEW r \in Files!Nodes, NEW w, NEW v, NEW m \in Nat, NEW n \in 0..m, \A i \in 1..n : v[i] = w[i],
           NEW g, IsWalk(g, r, v, n), NEW f, IsMeant(f, r, w, m)
    PROVE  \A i \in 0..n : /\ g[i].ok \in BOOLEAN
                           /\ g[i].ok => g[i].at \in Files!Nodes /\ f[i] = {g[i].at}
                           /\ ~g[i].ok => f[i] = {}
<1>1. PICK S : S = {i \in 0..n : /\ g[i].ok \in BOOLEAN
                                 /\ g[i].ok => g[i].at \in Files!Nodes /\ f[i] = {g[i].at}
                                 /\ ~g[i].ok => f[i] = {}}
  OBVIOUS
<1>2. 0 \in S
  <2>1. 0 \in 0..n /\ 0 \in 0..m
    OBVIOUS
  <2>2. g[0] = Files!Found(r) /\ f[0] = {r}
    BY <2>1 DEF IsWalk, IsMeant
  <2>3. g[0].ok = TRUE /\ g[0].at = r
    BY <2>2 DEF Files!Found
  <2>4. QED
    BY <1>1, <2>1, <2>2, <2>3, Zenon
<1>3. ASSUME NEW k \in 0..n, k < n, k \in S
      PROVE  k + 1 \in S
  <2>1. k + 1 \in 0..n /\ k + 1 \in 0..m /\ (k + 1) - 1 = k /\ k + 1 # 0 /\ k + 1 \in 1..n
    BY <1>3
  <2>2. PICK j : j = k + 1
    OBVIOUS
  <2>3. j \in 0..n /\ j \in 0..m /\ j - 1 = k /\ j # 0 /\ j \in 1..n
    BY <2>1, <2>2
  <2>4. g[j] = IF g[k].ok THEN Files!walk_one(g[k].at, w[j]) ELSE Files!NotFound
    <3>1. g[j] = IF j = 0 THEN Files!Found(r)
                 ELSE IF g[j - 1].ok THEN Files!walk_one(g[j - 1].at, v[j]) ELSE Files!NotFound
      BY <2>3 DEF IsWalk
    <3>2. v[j] = w[j]
      BY <2>3
    <3>3. QED
      BY <3>1, <3>2, <2>3, Zenon
  <2>5. f[j] = {q \in Files!Nodes : \E p \in f[k] : Files!Leads(p, w[j], q)}
    <3>1. f[j] = IF j = 0 THEN {r}
                 ELSE {q \in Files!Nodes : \E p \in f[j - 1] : Files!Leads(p, w[j], q)}
      BY <2>3 DEF IsMeant
    <3>2. QED
      BY <3>1, <2>3, Zenon
  <2>6. /\ g[k].ok \in BOOLEAN
        /\ g[k].ok => g[k].at \in Files!Nodes /\ f[k] = {g[k].at}
        /\ ~g[k].ok => f[k] = {}
    BY <1>1, <1>3, Zenon
  <2>7. CASE g[k].ok
    <3>1. PICK p : p = g[k].at
      OBVIOUS
    <3>2. p \in Files!Nodes /\ f[k] = {p} /\ g[j] = Files!walk_one(p, w[j])
      BY <2>4, <2>6, <2>7, <3>1, Zenon
    <3>3. f[j] = {q \in Files!Nodes : Files!Leads(p, w[j], q)}
      BY <2>5, <3>2, Zenon
    <3>4. /\ g[j].ok \in BOOLEAN
          /\ g[j].ok => g[j].at \in Files!Nodes /\ {q \in Files!Nodes : Files!Leads(p, w[j], q)} = {g[j].at}
          /\ ~g[j].ok => {q \in Files!Nodes : Files!Leads(p, w[j], q)} = {}
      BY ONLY <3>2, WalkOne, Zenon
    <3>5. QED
      BY <1>1, <2>2, <2>3, <3>3, <3>4, Zenon
  <2>8. CASE ~g[k].ok
    <3>1. g[j].ok = FALSE
      BY <2>4, <2>8 DEF Files!NotFound
    <3>2. f[j] = {}
      BY <2>5, <2>6, <2>8, Zenon
    <3>3. QED
      BY <1>1, <2>2, <2>3, <3>1, <3>2, Zenon
  <2>9. QED
    BY <2>7, <2>8
<1>4. \A k \in 0..n : k \in S
  <2>1. n \in Nat
    OBVIOUS
  <2>2. QED
    BY ONLY <1>2, <1>3, <2>1, Climbs
<1>5. QED
  BY <1>1, <1>4, Zenon

\* Where nothing is meant, nothing is meant further on.
LEMMA MeantNothing ==
    ASSUME NEW r, NEW w, NEW m \in Nat, NEW f, IsMeant(f, r, w, m), NEW i \in 0..m, f[i] = {}
    PROVE  f[m] = {}
<1>1. PICK S : S = {k \in 0..m : k >= i => f[k] = {}}
  OBVIOUS
<1>2. 0 \in S
  <2>1. 0 >= i => i = 0
    OBVIOUS
  <2>2. QED
    BY <1>1, <2>1
<1>3. ASSUME NEW k \in 0..m, k < m, k \in S
      PROVE  k + 1 \in S
  <2>1. PICK j : j = k + 1
    OBVIOUS
  <2>2. j \in 0..m /\ j - 1 = k /\ j # 0
    BY <1>3, <2>1
  <2>3. f[j] = {q \in Files!Nodes : \E p \in f[k] : Files!Leads(p, w[j], q)}
    <3>1. f[j] = IF j = 0 THEN {r}
                 ELSE {q \in Files!Nodes : \E p \in f[j - 1] : Files!Leads(p, w[j], q)}
      BY <2>2 DEF IsMeant
    <3>2. QED
      BY <3>1, <2>2, Zenon
  <2>4. CASE k >= i
    <3>1. f[k] = {}
      BY <1>1, <1>3, <2>4
    <3>2. f[j] = {}
      BY <2>3, <3>1, Zenon
    <3>3. QED
      BY <1>1, <2>1, <2>2, <3>2
  <2>5. CASE ~(k >= i)
    <3>1. j >= i => j = i
      BY <2>1, <2>5
    <3>2. j >= i => f[j] = {}
      BY <3>1
    <3>3. QED
      BY <1>1, <2>1, <2>2, <3>2
  <2>6. QED
    BY <2>4, <2>5
<1>4. \A k \in 0..m : k \in S
  BY ONLY <1>2, <1>3, Climbs, m \in Nat
<1>5. QED
  BY <1>1, <1>4

LEMMA MeantIs ==
    ASSUME NEW r, NEW w, Len(w) \in Nat
    PROVE  \E f : IsMeant(f, r, w, Len(w)) /\ Files!Meant(r, w) = f[Len(w)]
<1>1. PICK g : IsMeant(g, r, w, Len(w))
  BY MeantExists
<1>2. PICK f : f = CHOOSE h : IsMeant(h, r, w, Len(w))
  OBVIOUS
<1>3. IsMeant(f, r, w, Len(w))
  BY <1>1, <1>2
<1>4. Files!Meant(r, w) = f[Len(w)]
  BY <1>2, Zenon DEF Files!Meant, IsMeant
<1>5. QED
  BY <1>3, <1>4

\* What Twalk answers: how far the names are found.
Walked(r, w, g, n) ==
    [error |-> n = 0 /\ w # <<>>,
     wqid |-> [i \in 1..n |-> Files!qid(g[i].at)],
     new |-> IF n = Len(w) THEN Files!Found(g[n].at) ELSE Files!NotFound]

LEMMA WalkIs ==
    ASSUME NEW r, NEW w, Len(w) \in Nat
    PROVE  \E g : /\ IsWalk(g, r, w, Len(w))
                  /\ \E n \in 0..Len(w) : /\ g[n].ok /\ (n < Len(w) => ~g[n + 1].ok)
                                          /\ Files!walk(r, w) = Walked(r, w, g, n)
<1>1. PICK h : IsWalk(h, r, w, Len(w))
  BY WalkExists
<1>2. PICK g : g = CHOOSE x : IsWalk(x, r, w, Len(w))
  OBVIOUS
<1>3. IsWalk(g, r, w, Len(w))
  BY <1>1, <1>2
<1>4. PICK n : n = Files!Max({i \in 0..Len(w) : g[i].ok})
  OBVIOUS
<1>5. Files!walk(r, w) = Walked(r, w, g, n)
  <2> DEFINE G == CHOOSE x : IsWalk(x, r, w, Len(w))
             N == Files!Max({i \in 0..Len(w) : G[i].ok})
  <2>1. Files!walk(r, w) = Walked(r, w, G, N)
    BY Zenon DEF Files!walk, IsWalk, Walked
  <2>2. g = G
    BY <1>2
  <2>3. n = N
    BY <1>4, <2>2, Zenon
  <2> HIDE DEF G, N
  <2>4. QED
    BY <2>1, <2>2, <2>3, Zenon
<1>6. PICK S : S = {i \in 0..Len(w) : g[i].ok}
  OBVIOUS
<1>7. 0 \in S
  <2>1. 0 \in 0..Len(w)
    OBVIOUS
  <2>2. g[0] = Files!Found(r)
    BY <1>3, <2>1 DEF IsWalk
  <2>3. g[0].ok
    BY <2>2 DEF Files!Found
  <2>4. QED
    BY <1>6, <2>1, <2>3
<1>8. S \in SUBSET (0..Len(w)) /\ S # {}
  BY <1>6, <1>7
<1>9. n \in S /\ \A x \in S : n >= x
  BY ONLY <1>4, <1>6, <1>8, MaxIn, Len(w) \in Nat
<1>10. n \in 0..Len(w) /\ g[n].ok
  BY <1>6, <1>9
<1>11. n < Len(w) => ~g[n + 1].ok
  <2>1. SUFFICES ASSUME n < Len(w), g[n + 1].ok
                 PROVE  FALSE
    OBVIOUS
  <2>2. n + 1 \in 0..Len(w) /\ ~(n >= n + 1)
    BY <2>1, <1>10
  <2>3. n + 1 \in S
    BY <1>6, <2>1, <2>2
  <2>4. QED
    BY <1>9, <2>2, <2>3
<1>12. QED
  BY <1>3, <1>5, <1>10, <1>11
LEMMA WalkedIs ==
    ASSUME NEW r, NEW w, NEW g, NEW n \in Nat, NEW a, a = Walked(r, w, g, n)
    PROVE  /\ a.error <=> n = 0 /\ w # <<>>
           /\ Len(a.wqid) = n /\ (a.wqid = <<>> <=> n = 0)
           /\ n > 0 => Files!Last(a.wqid) = Files!qid(g[n].at)
           /\ n = Len(w) => a.new.at = g[n].at
<1>1. PICK q : q = [i \in 1..n |-> Files!qid(g[i].at)]
  OBVIOUS
<1>2. a.wqid = q /\ a.error = (n = 0 /\ w # <<>>)
      /\ a.new = IF n = Len(w) THEN Files!Found(g[n].at) ELSE Files!NotFound
  BY <1>1 DEF Walked
<1>3. q \in Seq({Files!qid(g[i].at) : i \in 1..n}) /\ Len(q) = n
  <2>1. q \in [1..n -> {Files!qid(g[i].at) : i \in 1..n}]
    BY <1>1, Zenon
  <2>2. PICK X : X = {Files!qid(g[i].at) : i \in 1..n}
    OBVIOUS
  <2>3. q \in [1..n -> X]
    BY <2>1, <2>2, Zenon
  <2>4. q \in Seq(X)
    BY ONLY <2>3, SeqDef, n \in Nat
  <2>5. Len(q) = n
    BY ONLY <2>3, <2>4, LenProperties, n \in Nat
  <2>6. QED
    BY <2>2, <2>4, <2>5, Zenon
<1>4. q = <<>> <=> n = 0
  BY <1>3, EmptySeq
<1>5. n > 0 => Files!Last(q) = Files!qid(g[n].at)
  <2>1. n > 0 => n \in 1..n
    OBVIOUS
  <2>2. n > 0 => q[n] = Files!qid(g[n].at)
    BY <1>1, <2>1, Zenon
  <2>3. Files!Last(q) = q[n]
    BY <1>3, Zenon DEF Files!Last
  <2>4. QED
    BY <2>2, <2>3, Zenon
<1>6. n = Len(w) => a.new.at = g[n].at
  BY <1>2 DEF Files!Found
<1>7. QED
  BY <1>2, <1>3, <1>4, <1>5, <1>6, Zenon

\* What open_at and open_dir_at do is what the path means, or fails.
Opens(from, w, was, ofDir) ==
    \/ /\ was.result = "ok" /\ was.at \in Files!Nodes /\ was.kind = Files!open(was.at)
       /\ {r \in Files!Meant(from, w) : (Files!qid(r) = "dir") = ofDir} = {was.at}
    \/ was.result \in {"error", "not found"} /\ Files!Meant(from, w) = {}
    \/ was.result = "fid in use" /\ Len(w) > MAXWELEM /\ ofDir
    \/ was.result = "no answer" /\ Len(w) > MaxQids /\ ~ofDir
    \/ /\ was.result \in {"is a directory", "not a directory"} /\ Files!Meant(from, w) # {}
       /\ {r \in Files!Meant(from, w) : (Files!qid(r) = "dir") = ofDir} = {}

LEMMA Outcomes ==
    /\ \A e : Files!Failure(e).result = e
    /\ \A k, r : /\ Files!Opened(k, r).result = "ok"
                 /\ Files!Opened(k, r).kind = k /\ Files!Opened(k, r).at = r
  BY DEF Files!Failure, Files!Opened

LEMMA OpensFile ==
    ASSUME NEW X, NEW from \in Files!Nodes, Files!qid(from) = "dir", NEW w \in Seq(X),
           NEW was, was = Files!open_at(from, w)
    PROVE  Opens(from, w, was, FALSE)
<1>1. Len(w) \in Nat /\ (w = <<>> <=> Len(w) = 0)
  BY EmptySeq
<1>2. PICK m : m = Len(w)
  OBVIOUS
<1>3. PICK f : IsMeant(f, from, w, m) /\ Files!Meant(from, w) = f[m]
  BY ONLY <1>1, <1>2, MeantIs
<1>4. PICK g : /\ IsWalk(g, from, w, m)
               /\ \E n \in 0..m : /\ g[n].ok /\ (n < m => ~g[n + 1].ok)
                                  /\ Files!walk(from, w) = Walked(from, w, g, n)
  BY ONLY <1>1, <1>2, WalkIs
<1>5. PICK n \in 0..m : /\ g[n].ok /\ (n < m => ~g[n + 1].ok)
                        /\ Files!walk(from, w) = Walked(from, w, g, n)
  BY <1>4
<1>6. m \in Nat /\ n \in Nat /\ n <= m /\ m \in 0..m
  BY <1>1, <1>2
<1>7. \A i \in 0..m : /\ g[i].ok \in BOOLEAN
                      /\ g[i].ok => g[i].at \in Files!Nodes /\ f[i] = {g[i].at}
                      /\ ~g[i].ok => f[i] = {}
  BY ONLY <1>3, <1>4, <1>6, WalkMeans, from \in Files!Nodes
<1>8. PICK a : a = Files!walk(from, w)
  OBVIOUS
<1>9. /\ a.error <=> n = 0 /\ w # <<>>
      /\ Len(a.wqid) = n /\ (a.wqid = <<>> <=> n = 0)
      /\ n > 0 => Files!Last(a.wqid) = Files!qid(g[n].at)
      /\ n = Len(w) => a.new.at = g[n].at
  <2>1. a = Walked(from, w, g, n)
    BY <1>5, <1>8, Zenon
  <2>2. QED
    BY ONLY <2>1, <1>6, WalkedIs
<1>10. was = IF w = <<>> THEN Files!Failure("is a directory")
             ELSE IF a.error THEN Files!Failure("error")
             ELSE IF Len(a.wqid) > MaxQids THEN Files!Failure("no answer")
             ELSE IF Len(a.wqid) < Len(w) THEN Files!Failure("not found")
             ELSE IF Files!Last(a.wqid) = "dir" THEN Files!Failure("is a directory")
             ELSE Files!Opened(Files!open(a.new.at), a.new.at)
  BY <1>8, Zenon DEF Files!open_at
<1>11. CASE w = <<>>
  <2>1. m = 0 /\ n = 0
    BY <1>1, <1>2, <1>6, <1>11
  <2>2. Files!Meant(from, w) = {from}
    BY <1>3, <1>6, <2>1 DEF IsMeant
  <2>3. was.result = "is a directory"
    BY <1>10, <1>11, Outcomes, Zenon
  <2>4. {r \in Files!Meant(from, w) : (Files!qid(r) = "dir") = FALSE} = {}
    BY <2>2
  <2>5. QED
    BY <2>2, <2>3, <2>4 DEF Opens
<1>12. CASE w # <<>> /\ n < m /\ ~(n > MaxQids)
  <2>1. was.result \in {"error", "not found"}
    <3>1. Len(a.wqid) < Len(w) /\ ~(Len(a.wqid) > MaxQids)
      BY <1>2, <1>9, <1>12
    <3>2. CASE a.error
      BY <1>10, <1>12, <3>2, Outcomes, Zenon
    <3>3. CASE ~a.error
      BY <1>10, <1>12, <3>1, <3>3, Outcomes, Zenon
    <3>4. QED
      BY <3>2, <3>3
  <2>2. n + 1 \in 0..m /\ ~g[n + 1].ok
    BY <1>5, <1>6, <1>12
  <2>3. f[n + 1] = {}
    BY <1>7, <2>2
  <2>4. f[m] = {}
    BY ONLY <1>3, <1>6, <2>2, <2>3, MeantNothing
  <2>5. QED
    BY <2>1, <2>4, <1>3 DEF Opens
<1>13. CASE w # <<>> /\ ~(n < m) /\ ~(n > MaxQids)
  <2>1. /\ n = m /\ n > 0 /\ n = Len(w) /\ ~a.error
        /\ ~(Len(a.wqid) < Len(w)) /\ ~(Len(a.wqid) > MaxQids)
    BY <1>1, <1>2, <1>6, <1>9, <1>13
  <2>2. PICK p : p = g[n].at
    OBVIOUS
  <2>3. p \in Files!Nodes /\ Files!Meant(from, w) = {p}
    BY <1>3, <1>5, <1>6, <1>7, <2>1, <2>2
  <2>4. a.new.at = p /\ Files!Last(a.wqid) = Files!qid(p)
    BY <1>9, <2>1, <2>2
  <2>5. CASE Files!qid(p) = "dir"
    <3>1. was.result = "is a directory"
      BY <1>10, <1>13, <2>1, <2>4, <2>5, Outcomes, Zenon
    <3>2. {r \in Files!Meant(from, w) : (Files!qid(r) = "dir") = FALSE} = {}
      BY <2>3, <2>5
    <3>3. QED
      BY <2>3, <3>1, <3>2 DEF Opens
  <2>6. CASE Files!qid(p) # "dir"
    <3>1. was = Files!Opened(Files!open(p), p)
      BY <1>10, <1>13, <2>1, <2>4, <2>6, Zenon
    <3>2. was.result = "ok" /\ was.at = p /\ was.kind = Files!open(p)
      BY <3>1, Outcomes
    <3>3. {r \in Files!Meant(from, w) : (Files!qid(r) = "dir") = FALSE} = {p}
      BY <2>3, <2>6
    <3>4. QED
      BY <2>3, <3>2, <3>3, Zenon DEF Opens
  <2>7. QED
    BY <2>5, <2>6
<1>14. CASE w # <<>> /\ n > MaxQids
  <2>1. Len(a.wqid) > MaxQids /\ ~a.error /\ Len(w) > MaxQids
    BY <1>1, <1>2, <1>6, <1>9, <1>14, FilesAssumption
  <2>2. was.result = "no answer"
    BY <1>10, <1>14, <2>1, Outcomes, Zenon
  <2>3. QED
    BY <2>1, <2>2, Zenon DEF Opens
<1>15. QED
  BY <1>11, <1>12, <1>13, <1>14

LEMMA OpensDir ==
    ASSUME NEW X, NEW from \in Files!Nodes, Files!qid(from) = "dir", NEW w \in Seq(X),
           NEW was, was = Files!open_dir_at(from, w)
    PROVE  Opens(from, w, was, TRUE)
<1>1. Len(w) \in Nat /\ (w = <<>> <=> Len(w) = 0) /\ MAXWELEM \in Nat \ {0}
  BY EmptySeq, FilesAssumption
<1>2. PICK m : m = Len(w)
  OBVIOUS
<1>3. PICK nc : nc = Files!Min({Len(w), MAXWELEM})
  OBVIOUS
<1>4. nc = (IF m <= MAXWELEM THEN m ELSE MAXWELEM) /\ nc \in 0..m /\ m \in Nat /\ nc \in Nat
  BY <1>1, <1>2, <1>3, MinOfTwo
<1>5. PICK v : v = SubSeq(w, 1, nc)
  OBVIOUS
<1>6. /\ Len(v) = nc /\ \A i \in 1..nc : v[i] = w[i]
  BY <1>2, <1>4, <1>5
<1>a. v = <<>> <=> nc = 0
  BY <1>2, <1>4, <1>5
<1>7. PICK f : IsMeant(f, from, w, m) /\ Files!Meant(from, w) = f[m]
  BY ONLY <1>1, <1>2, MeantIs
<1>8. PICK g : /\ IsWalk(g, from, v, nc)
               /\ \E n \in 0..nc : /\ g[n].ok /\ (n < nc => ~g[n + 1].ok)
                                   /\ Files!walk(from, v) = Walked(from, v, g, n)
  <2>1. Len(v) \in Nat
    BY <1>4, <1>6
  <2>2. PICK g : /\ IsWalk(g, from, v, Len(v))
                 /\ \E n \in 0..Len(v) : /\ g[n].ok /\ (n < Len(v) => ~g[n + 1].ok)
                                         /\ Files!walk(from, v) = Walked(from, v, g, n)
    BY ONLY <2>1, WalkIs
  <2>3. QED
    BY <2>2, <1>6, Zenon
<1>9. PICK n \in 0..nc : /\ g[n].ok /\ (n < nc => ~g[n + 1].ok)
                         /\ Files!walk(from, v) = Walked(from, v, g, n)
  BY <1>8
<1>10. n \in Nat /\ n <= nc /\ nc \in 0..nc
  BY <1>4
<1>11. \A i \in 0..nc : /\ g[i].ok \in BOOLEAN
                        /\ g[i].ok => g[i].at \in Files!Nodes /\ f[i] = {g[i].at}
                        /\ ~g[i].ok => f[i] = {}
  <2>1. /\ IsWalk(g, from, v, nc) /\ IsMeant(f, from, w, m) /\ \A i \in 1..nc : v[i] = w[i]
        /\ nc \in 0..m /\ m \in Nat /\ from \in Files!Nodes
    BY <1>4, <1>6, <1>7, <1>8
  <2>2. QED
    BY ONLY <2>1, WalkMeans, Zenon
<1>12. PICK a : a = Files!walk(from, v)
  OBVIOUS
<1>13. /\ a.error <=> n = 0 /\ v # <<>>
       /\ Len(a.wqid) = n /\ (a.wqid = <<>> <=> n = 0)
       /\ n > 0 => Files!Last(a.wqid) = Files!qid(g[n].at)
       /\ n = Len(v) => a.new.at = g[n].at
  <2>1. a = Walked(from, v, g, n)
    BY <1>9, <1>12, Zenon
  <2>2. QED
    BY ONLY <2>1, <1>10, WalkedIs
<1>14. was = IF a.error THEN Files!Failure("error")
             ELSE IF Len(a.wqid) < nc THEN Files!Failure("not found")
             ELSE IF Len(w) > nc THEN Files!Failure("fid in use")
             ELSE IF a.wqid # <<>> /\ Files!Last(a.wqid) # "dir" THEN Files!Failure("not a directory")
             ELSE Files!Opened(Files!open(a.new.at), a.new.at)
  BY <1>3, <1>5, <1>12, Zenon DEF Files!open_dir_at
<1>15. CASE n < nc
  <2>1. was.result \in {"error", "not found"}
    <3>1. Len(a.wqid) < nc
      BY <1>13, <1>15
    <3>2. CASE a.error
      BY <1>14, <3>2, Outcomes, Zenon
    <3>3. CASE ~a.error
      BY <1>14, <3>1, <3>3, Outcomes, Zenon
    <3>4. QED
      BY <3>2, <3>3
  <2>2. n + 1 \in 0..nc /\ n + 1 \in 0..m /\ ~g[n + 1].ok
    <3>1. n \in Nat /\ nc \in Nat /\ m \in Nat /\ n < nc /\ nc <= m
      BY <1>4, <1>10, <1>15
    <3>2. n + 1 \in 0..nc /\ n + 1 \in 0..m
      BY ONLY <3>1
    <3>3. QED
      BY <3>2, <1>9, <1>15, Zenon
  <2>3. f[n + 1] = {}
    BY <1>11, <2>2
  <2>4. f[m] = {}
    BY ONLY <1>4, <1>7, <2>2, <2>3, MeantNothing
  <2>5. QED
    BY <2>1, <2>4, <1>7 DEF Opens
<1>16. CASE ~(n < nc)
  <2>1. n = nc /\ n = Len(v) /\ ~(Len(a.wqid) < nc) /\ ~a.error
    BY <1>a, <1>4, <1>6, <1>10, <1>13, <1>16
  <2>2. CASE Len(w) > nc
    <3>1. was.result = "fid in use"
      BY <1>14, <2>1, <2>2, Outcomes, Zenon
    <3>2. Len(w) > MAXWELEM
      BY <1>1, <1>2, <1>4, <2>2
    <3>3. QED
      BY <3>1, <3>2 DEF Opens
  <2>3. CASE ~(Len(w) > nc)
    <3>1. n = m
      BY <1>2, <1>4, <2>1, <2>3
    <3>2. PICK p : p = g[n].at
      OBVIOUS
    <3>3. p \in Files!Nodes /\ Files!Meant(from, w) = {p}
      BY <1>7, <1>9, <1>11, <3>1, <3>2
    <3>4. a.new.at = p /\ (n > 0 => Files!Last(a.wqid) = Files!qid(p)) /\ (a.wqid = <<>> <=> n = 0)
      BY <1>13, <2>1, <3>2
    <3>5. n = 0 => p = from
      <4>1. n = 0 => g[0] = Files!Found(from)
        BY <1>4, <1>8 DEF IsWalk
      <4>2. QED
        BY <3>2, <4>1 DEF Files!Found
    <3>6. CASE Files!qid(p) # "dir"
      <4>1. n > 0
        BY <3>5, <3>6, <1>10
      <4>2. a.wqid # <<>> /\ Files!Last(a.wqid) # "dir"
        BY <3>4, <3>6, <4>1
      <4>3. was.result = "not a directory"
        BY <1>14, <2>1, <2>3, <4>2, Outcomes, Zenon
      <4>4. {r \in Files!Meant(from, w) : (Files!qid(r) = "dir") = TRUE} = {}
        BY <3>3, <3>6
      <4>5. QED
        BY <3>3, <4>3, <4>4 DEF Opens
    <3>7. CASE Files!qid(p) = "dir"
      <4>1. ~(a.wqid # <<>> /\ Files!Last(a.wqid) # "dir")
        BY <3>4, <3>7, <1>10
      <4>2. was = Files!Opened(Files!open(p), p)
        BY <1>14, <2>1, <2>3, <3>4, <4>1, Zenon
      <4>3. was.result = "ok" /\ was.at = p /\ was.kind = Files!open(p)
        BY <4>2, Outcomes
      <4>4. {r \in Files!Meant(from, w) : (Files!qid(r) = "dir") = TRUE} = {p}
        BY <3>3, <3>7
      <4>5. QED
        BY <3>3, <4>3, <4>4, Zenon DEF Opens
    <3>8. QED
      BY <3>6, <3>7
  <2>4. QED
    BY <2>2, <2>3
<1>17. QED
  BY <1>15, <1>16
-----------------------------------------------------------------------------
(* The files: the invariant.                                               *)

Used == kind \in {"file", "rpc"}

\* What a file is opened by, and what it is before it is used.
NamedInv ==
    /\ named # Files!NoName =>
          /\ kind = "none" /\ named.op \in {"open_at", "open_dir_at"}
          /\ Opens(named.from, named.wname, named.was, named.op = "open_dir_at")
    /\ kind = "none" =>
          /\ offset = 0 /\ buffer = <<>> /\ fut = Files!NoCall /\ valid = FALSE /\ dir = <<>>
          /\ rem = <<>> /\ lastOffset = 0 /\ late = <<>> /\ written = <<>> /\ want = <<>>
          /\ result = "none" /\ panicked = FALSE /\ listed = <<>> /\ mine = <<>>
          /\ starts = 0 /\ failures = 0 /\ got.next = 0

\* A future that has ended is polled again only after an error.
FutureInv ==
    /\ valid \/ panicked => Used
    /\ panicked => valid /\ fut.st = "over"
    /\ valid /\ fut.st = "over" => result = "error"
    /\ Used \/ kind = "none" => late = <<>>

Calling(s) == fut.st \in s
Pending == {"waiting", "ready"}

\* Bytes of the file from off on, and none only at its end.
FileBytes == Seq(ToSet(File))
IsRead(off, data) ==
    /\ off \in Nat /\ data \in FileBytes /\ data = SubSeq(File, off + 1, off + Len(data))
    /\ IF data = <<>> THEN off >= Len(File) ELSE off + Len(data) <= Len(File)

\* A read that is valid is one where the reader is.
ReaderInv ==
    /\ got = [off |-> got.off, data |-> got.data, next |-> got.next]
    /\ IsRead(got.off, got.data) /\ got.next \in Nat
    /\ kind = "file" =>
          /\ got.next = offset
          /\ Calling(Pending) => fut.off \in Nat
          /\ valid /\ Calling(Pending) => fut.off = offset
          /\ Calling({"waiting"}) => fut.arg \in Nat \ {0}
          /\ Calling({"ready"}) /\ fut.reply.error = "none" => IsRead(fut.off, fut.reply.data)

\* What Twrites have brought of the buffer's beginning when one was answered.
Holds(n) ==
    /\ n \in 1..Len(buffer) /\ Len(written) >= offset + n
    /\ \A i \in 1..n : written[offset + i] = buffer[i]

WriterInv ==
    kind = "rpc" =>
    /\ buffer \in Data /\ written \in Data /\ want \in Data
    /\ Files!Lay(written, offset, buffer) = want
    /\ Calling(Pending) => valid /\ fut.off = offset
    /\ Calling({"waiting"}) => \E n \in 1..Len(buffer) : fut.arg = SubSeq(buffer, 1, n)
    /\ Calling({"ready"}) /\ fut.reply.error = "none" => Holds(fut.reply.data)

\* What the server remembers of the reads of a listing.
ServerInv ==
    /\ dir \in Entries /\ rem \in Entries /\ lastOffset \in Nat
    /\ starts \in Nat /\ failures \in Nat /\ late \in Seq(Nat)
    /\ starts = 0 => lastOffset = 0
    /\ rem # <<>> => lastOffset = 0
    /\ kind = "root" => /\ lastOffset \in {0, Files!Bytes(dir)}
                        /\ starts > 0 /\ failures = 0 => lastOffset = Files!Bytes(dir)

\* The listing l has been read from the start: where the server's count is.
Served(l) ==
    /\ l \in Listings \cup {<<>>} /\ starts > 0
    /\ starts = 1 => lastOffset = Files!Bytes(l)
    /\ kind = "dir" => lastOffset >= Files!Bytes(l)
    /\ kind = "root" => l = dir

\* Why a read is refused, other than by the file system.
Refusable == Files!Bytes(mine) > MaxData \/ (starts > 1 /\ (kind = "dir" \/ failures > 0))

ClientInv ==
    /\ mine \in Listings \cup {<<>>} /\ listed \in Entries /\ buffer \in Entries
    /\ offset = 0 => listed = <<>> /\ buffer = <<>> /\ mine = <<>>
    /\ offset > 0 =>
          /\ Served(mine)
          /\ Files!Bytes(mine) <= MaxData => offset = Files!Bytes(mine) /\ listed \o buffer = mine
          /\ Files!Bytes(mine) > MaxData =>
                offset = MaxData /\ \E k \in 0..Len(mine) : listed \o buffer = SubSeq(mine, 1, k)
    /\ result = "end" => listed = mine
    /\ result = "too short" => Files!Bytes(mine) > MaxData
    /\ result = "Invalid argument" => Refusable

ReplyInv ==
    /\ fut = Files!NoCall \/ Calling(Pending)
    /\ Calling(Pending) => buffer = <<>> /\ fut.off = offset
    /\ Calling({"ready"}) =>
          /\ fut.reply.error \in {"none", "error", "Invalid argument"}
          /\ fut.reply.error = "Invalid argument" => Refusable
          /\ fut.reply.error = "none" /\ offset = 0 =>
                \E l : Served(l) /\ fut.reply.data = Files!Truncated(l, l)
          /\ fut.reply.error = "none" /\ offset > 0 =>
                /\ fut.reply.data.whole = <<>> /\ fut.reply.data.len = 0 /\ fut.reply.data.cut = FALSE
                /\ Files!Bytes(mine) <= MaxData

ListInv == Files!Lists => ServerInv /\ ClientInv /\ ReplyInv

FilesInv ==
    /\ Files!TypeOK /\ NamedInv /\ FutureInv /\ ReaderInv /\ WriterInv /\ ListInv

LEMMA FilesStart == Files!Init => FilesInv
<1> SUFFICES ASSUME Files!Init
             PROVE  FilesInv
  OBVIOUS
<1>i. /\ named = Files!NoName /\ kind = "none"
      /\ offset = 0 /\ buffer = <<>> /\ fut = Files!NoCall /\ valid = FALSE /\ begun = 0
      /\ dir = <<>> /\ rem = <<>> /\ lastOffset = 0 /\ late = <<>> /\ written = <<>>
      /\ result = "none" /\ panicked = FALSE
      /\ got = [off |-> 0, data |-> File, next |-> 0] /\ want = <<>> /\ listed = <<>> /\ mine = <<>>
      /\ starts = 0 /\ failures = 0
  BY DEF Files!Init
<1>1. Files!TypeOK
  <2>1. begun \in 0..MaxCalls
    BY <1>i, FilesAssumption
  <2>2. fut.st = "none"
    BY <1>i DEF Files!NoCall
  <2>3. QED
    BY <1>i, <2>1, <2>2 DEF Files!TypeOK
<1>2. NamedInv /\ FutureInv
  BY <1>i DEF NamedInv, FutureInv, Used
<1>3. ReaderInv
  <2>1. File \in FileBytes /\ File = SubSeq(File, 1, Len(File)) /\ Len(File) \in Nat /\ (File = <<>> => Len(File) = 0)
    BY FilesAssumption DEF FileBytes
  <2>2. got.off = 0 /\ got.data = File /\ got.next = 0
    BY <1>i
  <2>3. IsRead(0, File)
    BY <2>1 DEF IsRead
  <2>4. QED
    BY <1>i, <2>2, <2>3, Zenon DEF ReaderInv
<1>4. WriterInv /\ ListInv
  BY <1>i DEF WriterInv, ListInv, Files!Lists
<1>5. QED
  BY <1>1, <1>2, <1>3, <1>4 DEF FilesInv

LEMMA FilesOpen ==
    ASSUME FilesInv, Files!Open
    PROVE  FilesInv'
<1>1. /\ named = Files!NoName /\ kind = "none"
      /\ UNCHANGED <<kind, offset, buffer, fut, valid, begun, result, panicked, dir, rem, lastOffset, late,
                     written, got, want, listed, mine, starts, failures>>
  BY DEF Files!Open, Files!client, Files!server, Files!histories
<1>2. PICK from \in {r \in Files!Nodes : Files!qid(r) = "dir"}, w \in Files!Paths :
         \/ named' = [op |-> "open_at", from |-> from, wname |-> w, was |-> Files!open_at(from, w)]
         \/ named' = [op |-> "open_dir_at", from |-> from, wname |-> w, was |-> Files!open_dir_at(from, w)]
  BY DEF Files!Open
<1>3. PICK X : w \in Seq(X)
  <2>1. PICK n \in 0..MaxNames : w \in [1..n -> Files!Components]
    BY DEF Files!Paths
  <2>2. n \in Nat
    BY FilesAssumption
  <2>3. w \in Seq(Files!Components)
    BY ONLY <2>1, <2>2, SeqDef
  <2>4. QED
    BY <2>3
<1>4. Opens(from, w, Files!open_at(from, w), FALSE) /\ Opens(from, w, Files!open_dir_at(from, w), TRUE)
  BY ONLY <1>2, <1>3, OpensFile, OpensDir
<1>5. /\ named'.op \in {"open_at", "open_dir_at"}
      /\ Opens(named'.from, named'.wname, named'.was, named'.op = "open_dir_at")
  <2>1. CASE named' = [op |-> "open_at", from |-> from, wname |-> w, was |-> Files!open_at(from, w)]
    <3>1. named'.op = "open_at" /\ named'.from = from /\ named'.wname = w /\ named'.was = Files!open_at(from, w)
      BY <2>1
    <3>2. (named'.op = "open_dir_at") = FALSE
      BY <3>1
    <3>3. QED
      BY <1>4, <3>1, <3>2, Zenon
  <2>2. CASE named' = [op |-> "open_dir_at", from |-> from, wname |-> w, was |-> Files!open_dir_at(from, w)]
    <3>1. named'.op = "open_dir_at" /\ named'.from = from /\ named'.wname = w /\ named'.was = Files!open_dir_at(from, w)
      BY <2>2
    <3>2. (named'.op = "open_dir_at") = TRUE
      BY <3>1
    <3>3. QED
      BY <1>4, <3>1, <3>2, Zenon
  <2>3. QED
    BY <1>2, <2>1, <2>2
<1>6. NamedInv'
  BY <1>1, <1>5 DEF NamedInv, FilesInv, Opens
<1>7. Files!TypeOK' /\ FutureInv' /\ WriterInv' /\ ListInv'
  BY <1>1 DEF FilesInv, Files!TypeOK, FutureInv, WriterInv, ListInv, Files!Lists, Used
<1>8. ReaderInv'
  BY <1>1 DEF FilesInv, ReaderInv, IsRead, FileBytes
<1>9. QED
  BY <1>6, <1>7, <1>8 DEF FilesInv

LEMMA FilesBegin ==
    ASSUME FilesInv, Files!Begin
    PROVE  FilesInv'
<1>1. /\ named # Files!NoName /\ named.was.result = "ok" /\ named' = Files!NoName /\ kind' = named.was.kind
      /\ dir' \in IF kind' \in {"dir", "root"} THEN Listings ELSE {dir}
      /\ UNCHANGED <<offset, buffer, fut, valid, begun, result, panicked, rem, lastOffset, late,
                     written, got, want, listed, mine, starts, failures>>
  BY DEF Files!Begin, Files!client, Files!histories
<1>2. kind' \in {"file", "rpc", "dir", "root"}
  <2>1. named.was.at \in Files!Nodes /\ named.was.kind = Files!open(named.was.at)
    BY <1>1 DEF FilesInv, NamedInv, Opens
  <2>2. QED
    BY <1>1, <2>1, NodesAre DEF Files!open, Files!qid
<1>3. /\ offset = 0 /\ buffer = <<>> /\ fut = Files!NoCall /\ valid = FALSE /\ dir = <<>>
      /\ rem = <<>> /\ lastOffset = 0 /\ late = <<>> /\ written = <<>> /\ want = <<>>
      /\ result = "none" /\ panicked = FALSE /\ listed = <<>> /\ mine = <<>>
      /\ starts = 0 /\ failures = 0 /\ got.next = 0
  BY <1>1 DEF FilesInv, NamedInv
<1>4. fut'.st = "none"
  BY <1>1, <1>3 DEF Files!NoCall
<1>5. Files!TypeOK'
  BY <1>1, <1>2, <1>4 DEF FilesInv, Files!TypeOK
<1>6. NamedInv' /\ FutureInv'
  BY <1>1, <1>2, <1>3, <1>4 DEF NamedInv, FutureInv
<1>7. ReaderInv'
  BY <1>1, <1>3, <1>4 DEF FilesInv, ReaderInv, IsRead, FileBytes, Calling, Pending
<1>8. WriterInv'
  <2>1. Files!Lay(<<>>, 0, <<>>) = <<>>
    BY LayNone
  <2>2. <<>> \in Data
    BY DEF Data
  <2>3. buffer' = <<>> /\ written' = <<>> /\ want' = <<>> /\ offset' = 0
    BY <1>1, <1>3
  <2>4. Files!Lay(written', offset', buffer') = want'
    BY <2>1, <2>3, Zenon
  <2>5. ~Calling(Pending)' /\ ~Calling({"waiting"})' /\ ~Calling({"ready"})'
    BY <1>4 DEF Calling, Pending
  <2>6. QED
    BY <2>2, <2>3, <2>4, <2>5 DEF WriterInv
<1>9. ListInv'
  <2>1. SUFFICES ASSUME Files!Lists'
                 PROVE  ServerInv' /\ ClientInv' /\ ReplyInv'
    BY DEF ListInv
  <2>2. <<>> \in Entries /\ dir' \in Entries
    <3>1. dir' \in Listings
      BY <1>1, <2>1 DEF Files!Lists
    <3>2. QED
      BY <3>1, FilesAssumption DEF Entries
  <2>3. ServerInv'
    BY <1>1, <1>3, <2>2 DEF ServerInv
  <2>4. ClientInv'
    BY <1>1, <1>3, <2>2 DEF ClientInv
  <2>5. ReplyInv'
    BY <1>1, <1>3, <1>4 DEF ReplyInv, Calling, Pending
  <2>6. QED
    BY <2>3, <2>4, <2>5
<1>10. QED
  BY <1>5, <1>6, <1>7, <1>8, <1>9 DEF FilesInv

-----------------------------------------------------------------------------
(* The files: the steps of a reader.                                       *)

LEMMA Bounds ==
    /\ MaxCalls \in Nat /\ MaxLen \in Nat /\ U32Max \in Nat
    /\ MaxData \in Nat \ {0} /\ MaxWrite \in Nat \ {0}
  BY FilesAssumption

\* What a step of a reader or a writer leaves alone.
LEMMA UsedFrame ==
    ASSUME FilesInv, Used, UNCHANGED <<named, kind, late>>
    PROVE  /\ named = Files!NoName /\ late = <<>> /\ ~Files!Lists
           /\ NamedInv' /\ ListInv' /\ Used'
<1>1. named = Files!NoName /\ late = <<>> /\ kind \in {"file", "rpc"}
  BY DEF FilesInv, NamedInv, FutureInv, Used
<1>2. QED
  BY <1>1 DEF NamedInv, ListInv, Files!Lists, Used

LEMMA MinOfThree ==
    ASSUME NEW a \in Nat, NEW b \in Nat, NEW c \in Nat, NEW m, m = Files!Min({a, b, c})
    PROVE  m \in {a, b, c} /\ m <= a /\ m <= b /\ m <= c
<1>1. \E x \in {a, b, c} : \A y \in {a, b, c} : x <= y
  <2>1. CASE a <= b /\ a <= c
    BY <2>1
  <2>2. CASE b <= a /\ b <= c
    BY <2>2
  <2>3. CASE c <= a /\ c <= b
    BY <2>3
  <2>4. QED
    BY <2>1, <2>2, <2>3
<1>2. m = CHOOSE x \in {a, b, c} : \A y \in {a, b, c} : x <= y
  BY DEF Files!Min
<1>3. m \in {a, b, c} /\ \A y \in {a, b, c} : m <= y
  BY <1>1, <1>2, Zenon
<1>4. QED
  BY <1>3, Zenon

\* Bytes of the file, and a beginning of them that has one if they have.
LEMMA ReadOf ==
    ASSUME NEW off \in Nat, NEW n \in Nat, n > 0 => off + n <= Len(File), n = 0 => off >= Len(File),
           NEW data, data = SubSeq(File, off + 1, off + n)
    PROVE  IsRead(off, data) /\ Len(data) = n
<1>1. File \in FileBytes /\ Len(File) \in Nat
  BY FilesAssumption DEF FileBytes
<1>2. CASE n = 0
  <2>1. data = <<>>
    BY <1>1, <1>2 DEF FileBytes
  <2>2. <<>> \in FileBytes /\ Len(<<>>) = 0
    BY DEF FileBytes
  <2>3. SubSeq(File, off + 1, off + 0) = <<>>
    BY <2>1, <1>2
  <2>4. QED
    BY <1>2, <2>1, <2>2, <2>3 DEF IsRead
<1>3. CASE n > 0
  <2>1. data \in FileBytes /\ Len(data) = n
    <3>1. off + 1 \in 1..Len(File) /\ off + n \in 1..Len(File) /\ off + n <= Len(File) /\ off + n >= off + 1
      BY <1>1, <1>3
    <3>2. QED
      BY <1>1, <1>3, <3>1, SubSeqProperties DEF FileBytes
  <2>2. data # <<>>
    BY <2>1, <1>3
  <2>3. QED
    BY <2>1, <2>2 DEF IsRead
<1>4. QED
  BY <1>2, <1>3

LEMMA ReadPrefix ==
    ASSUME NEW off, NEW data, IsRead(off, data), NEW n \in Nat \ {0}, NEW some,
           some = SubSeq(data, 1, Files!Min({Len(data), n}))
    PROVE  IsRead(off, some) /\ Len(some) \in Nat /\ off \in Nat
<1>1. /\ off \in Nat /\ data \in FileBytes /\ data = SubSeq(File, off + 1, off + Len(data))
      /\ IF data = <<>> THEN off >= Len(File) ELSE off + Len(data) <= Len(File)
  BY DEF IsRead
<1>2. PICK l : l = Len(data)
  OBVIOUS
<1>3. l \in Nat /\ (l = 0 <=> data = <<>>)
  BY <1>1, <1>2 DEF FileBytes
<1>4. PICK m \in Nat : m = Files!Min({l, n}) /\ m <= l /\ (m = 0 => l = 0)
  BY <1>3, MinOfTwo
<1>5. some = SubSeq(data, 1, m)
  BY <1>2, <1>4, Zenon
<1>6. CASE m = 0
  <2>1. data = <<>> /\ some = <<>>
    BY <1>1, <1>3, <1>4, <1>5, <1>6 DEF FileBytes
  <2>2. Len(some) = 0 /\ some = data
    BY <2>1
  <2>3. Len(some) \in Nat
    <3>1. \A k : k = 0 => k \in Nat
      OBVIOUS
    <3>2. QED
      BY <2>2, <3>1, Zenon
  <2>4. QED
    BY <1>1, <2>2, <2>3, Zenon
<1>7. CASE m > 0
  <2>1. File \in FileBytes /\ Len(File) \in Nat
    BY FilesAssumption DEF FileBytes
  <2>2. data # <<>> /\ off + l <= Len(File)
    BY <1>1, <1>2, <1>3, <1>4, <1>7
  <2>3. data = SubSeq(File, off + 1, off + l)
    BY <1>1, <1>2, Zenon
  <2>4. some = SubSeq(File, off + 1, off + m)
    <3>1. m \in 1..l /\ off + 1 \in 1..Len(File) /\ off + l \in 1..Len(File) /\ off + m \in 1..Len(File)
      BY <1>1, <1>3, <1>4, <1>7, <2>1, <2>2
    <3>2. SubSeq(data, 1, m) = [i \in 1..m |-> data[i]]
      BY <1>1, <1>2, <1>3, <3>1 DEF FileBytes
    <3>3. \A i \in 1..m : data[i] = File[off + i]
      BY <1>1, <1>3, <2>1, <2>3, <3>1 DEF FileBytes
    <3>4. SubSeq(File, off + 1, off + m) = [i \in 1..m |-> File[off + i]]
      BY <1>1, <1>3, <2>1, <3>1 DEF FileBytes
    <3>5. QED
      BY <1>5, <3>2, <3>3, <3>4
  <2>5. m > 0 => off + m <= Len(File)
    BY <1>1, <1>3, <1>4, <2>1, <2>2
  <2>6. m > 0 /\ ~(m = 0) /\ m \in Nat /\ off \in Nat
    BY <1>1, <1>4, <1>7
  <2>7. IsRead(off, some) /\ Len(some) = m
    BY ONLY <2>4, <2>5, <2>6, ReadOf, ZenonT(40)
  <2>8. QED
    BY <2>6, <2>7, Zenon
<1>8. QED
  <2>1. m = 0 \/ m > 0
    BY <1>4
  <2>2. QED
    BY <1>6, <1>7, <2>1, Zenon
LEMMA FilesReadBegins ==
    ASSUME FilesInv, NEW n \in 1..MaxLen, Files!ReadBegins(n)
    PROVE  FilesInv'
<1>1. /\ kind = "file" /\ ~valid /\ ~panicked /\ valid' = TRUE
      /\ begun < MaxCalls /\ begun' = begun + 1
      /\ fut' = [st |-> "waiting", off |-> offset, arg |-> n]
      /\ UNCHANGED <<named, kind, offset, buffer, result, panicked, dir, rem, lastOffset, late,
                     written, got, want, listed, mine, starts, failures>>
  BY DEF Files!ReadBegins, Files!Count, Files!Call, Files!server, Files!histories
<1>2. fut'.st = "waiting" /\ fut'.off = offset /\ fut'.arg = n
  BY <1>1
<1>3. Files!TypeOK'
  <2>1. begun' \in 0..MaxCalls
    <3>1. begun \in 0..MaxCalls
      BY DEF FilesInv, Files!TypeOK
    <3>2. QED
      BY ONLY <1>1, <3>1, Bounds
  <2>2. QED
    BY <1>1, <1>2, <2>1 DEF FilesInv, Files!TypeOK
<1>4. NamedInv' /\ ListInv' /\ late = <<>>
  BY <1>1, UsedFrame DEF Used
<1>5. FutureInv' /\ WriterInv'
  BY <1>1, <1>2, <1>4 DEF FilesInv, FutureInv, WriterInv, Used
<1>6. ReaderInv'
  <2>1. offset \in Nat /\ n \in Nat \ {0} /\ got.next = offset
    <3>1. n \in Nat \ {0}
      BY Bounds
    <3>2. QED
      BY <1>1, <3>1 DEF FilesInv, Files!TypeOK, ReaderInv
  <2>2. Calling({"waiting"})' /\ ~Calling({"ready"})'
    BY <1>2 DEF Calling
  <2>3. got = [off |-> got.off, data |-> got.data, next |-> got.next] /\ IsRead(got.off, got.data) /\ got.next \in Nat
    BY DEF FilesInv, ReaderInv
  <2>4. QED
    BY <1>1, <1>2, <2>1, <2>2, <2>3 DEF ReaderInv, IsRead, FileBytes
<1>7. QED
  BY <1>3, <1>4, <1>5, <1>6 DEF FilesInv

LEMMA FilesReadEnds ==
    ASSUME FilesInv, NEW n \in 1..MaxLen, Files!ReadEnds(n)
    PROVE  FilesInv'
<1>1. /\ kind = "file" /\ valid /\ fut.st = "ready" /\ fut' = Files!Over
      /\ UNCHANGED <<named, kind, buffer, begun, panicked, dir, rem, lastOffset, late,
                     written, want, listed, mine, starts, failures>>
  BY DEF Files!ReadEnds, Files!Ready, Files!server
<1>2. fut'.st = "over" /\ ~panicked /\ ~Calling(Pending)' /\ ~Calling({"waiting"})' /\ ~Calling({"ready"})'
  <2>1. fut'.st = "over"
    BY <1>1 DEF Files!Over
  <2>2. QED
    BY <1>1, <2>1 DEF FilesInv, FutureInv, Calling, Pending
<1>3. NamedInv' /\ ListInv' /\ late = <<>>
  BY <1>1, UsedFrame DEF Used
<1>4. n \in Nat \ {0}
  BY FilesAssumption
<1>5. CASE fut.reply.error = "none"
  <2>1. PICK data : data = SubSeq(fut.reply.data, 1, Files!Min({Len(fut.reply.data), n}))
    OBVIOUS
  <2>2. /\ got' = [off |-> got.next, data |-> data, next |-> got.next + Len(data)]
        /\ offset' = offset + Len(data) /\ valid' = FALSE /\ result' = "ok"
    BY <1>5, <2>1, Zenon DEF Files!ReadEnds, Files!Succeeds
  <2>3. IsRead(fut.off, fut.reply.data) /\ fut.off = offset /\ got.next = offset
    BY <1>1, <1>5 DEF FilesInv, ReaderInv, Calling, Pending
  <2>4. IsRead(offset, data) /\ Len(data) \in Nat /\ offset \in Nat
    <3>1. PICK all : all = fut.reply.data
      OBVIOUS
    <3>2. IsRead(offset, all) /\ data = SubSeq(all, 1, Files!Min({Len(all), n}))
      BY <2>1, <2>3, <3>1, Zenon
    <3>3. QED
      BY ONLY <1>4, <3>2, ReadPrefix
  <2>5. got'.off = got.next /\ got'.data = data /\ got'.next = got.next + Len(data)
    BY <2>2
  <2>6. /\ got' = [off |-> got'.off, data |-> got'.data, next |-> got'.next]
        /\ IsRead(got'.off, got'.data) /\ got'.next \in Nat /\ got'.next = offset'
    <3>1. got' = [off |-> got'.off, data |-> got'.data, next |-> got'.next]
      BY <2>2, <2>5, Zenon
    <3>2. IsRead(got'.off, got'.data)
      BY <2>3, <2>4, <2>5, Zenon
    <3>3. got'.next \in Nat /\ got'.next = offset'
      BY <2>2, <2>3, <2>4, <2>5
    <3>4. QED
      BY <3>1, <3>2, <3>3
  <2>7. ReaderInv'
    BY <1>1, <1>2, <2>6 DEF ReaderInv, IsRead, FileBytes
  <2>8. Files!TypeOK'
    BY <1>1, <1>2, <2>2, <2>3, <2>6 DEF FilesInv, Files!TypeOK
  <2>9. FutureInv' /\ WriterInv'
    BY <1>1, <1>2, <1>3, <2>2 DEF FilesInv, FutureInv, WriterInv, Used
  <2>10. QED
    BY <1>3, <2>7, <2>8, <2>9 DEF FilesInv
<1>6. CASE fut.reply.error # "none"
  <2>1. result' = "error" /\ UNCHANGED <<got, offset, valid>>
    BY <1>6 DEF Files!ReadEnds, Files!Succeeds
  <2>2. Files!TypeOK'
    BY <1>1, <1>2, <2>1 DEF FilesInv, Files!TypeOK
  <2>3. FutureInv' /\ WriterInv'
    BY <1>1, <1>2, <1>3, <2>1 DEF FilesInv, FutureInv, WriterInv, Used
  <2>4. ReaderInv'
    BY <1>1, <1>2, <2>1 DEF FilesInv, ReaderInv, IsRead, FileBytes
  <2>5. QED
    BY <1>3, <2>2, <2>3, <2>4 DEF FilesInv
<1>7. QED
  BY <1>5, <1>6

LEMMA FilesSeekReader ==
    ASSUME FilesInv, NEW to \in Files!Offsets, Files!SeekReader(to)
    PROVE  FilesInv'
<1>1. /\ kind = "file" /\ ~panicked /\ valid' = (valid /\ to = offset)
      /\ offset' = to /\ got' = [got EXCEPT !.next = to]
      /\ UNCHANGED <<named, kind, buffer, fut, begun, result, panicked, dir, rem, lastOffset, late,
                     written, want, listed, mine, starts, failures>>
  BY DEF Files!SeekReader, Files!server
<1>2. to \in Nat
  <2>1. Len(File) \in Nat
    BY FilesAssumption
  <2>2. QED
    BY <2>1 DEF Files!Offsets
<1>3. NamedInv' /\ ListInv' /\ late = <<>>
  BY <1>1, UsedFrame DEF Used
<1>4. Files!TypeOK'
  BY <1>1, <1>2 DEF FilesInv, Files!TypeOK
<1>5. FutureInv' /\ WriterInv'
  <2>1. valid' => valid
    BY <1>1
  <2>2. QED
    BY <1>1, <1>3, <2>1 DEF FilesInv, FutureInv, WriterInv, Used
<1>6. ReaderInv'
  <2>1. got = [off |-> got.off, data |-> got.data, next |-> got.next] /\ IsRead(got.off, got.data)
    BY DEF FilesInv, ReaderInv
  <2>2. got' = [off |-> got.off, data |-> got.data, next |-> to]
    BY <1>1, <2>1
  <2>3. got'.off = got.off /\ got'.data = got.data /\ got'.next = to
    BY <2>2
  <2>4. got' = [off |-> got'.off, data |-> got'.data, next |-> got'.next] /\ IsRead(got'.off, got'.data)
    BY <2>1, <2>2, <2>3, Zenon
  <2>5. /\ Calling(Pending)' => fut'.off \in Nat
        /\ valid' /\ Calling(Pending)' => fut'.off = offset'
        /\ Calling({"waiting"})' => fut'.arg \in Nat \ {0}
        /\ Calling({"ready"})' /\ fut'.reply.error = "none" => IsRead(fut'.off, fut'.reply.data)
    BY <1>1 DEF FilesInv, ReaderInv, Calling, Pending
  <2>6. QED
    BY <1>1, <1>2, <2>3, <2>4, <2>5 DEF ReaderInv, IsRead, FileBytes
<1>7. QED
  BY <1>3, <1>4, <1>5, <1>6 DEF FilesInv

\* The file system answers a read, with less than was asked for or an error.
LEMMA FilesReadFile ==
    ASSUME FilesInv, Files!ReadFile
    PROVE  FilesInv'
<1>1. /\ kind = "file" /\ fut.st = "waiting"
      /\ UNCHANGED <<named, kind, offset, buffer, valid, begun, result, panicked, dir, rem, lastOffset, late,
                     written, got, want, listed, mine, starts, failures>>
  BY DEF Files!ReadFile, Files!Waiting, Files!server, Files!histories
<1>2. fut.off \in Nat /\ fut.arg \in Nat \ {0} /\ (valid => fut.off = offset)
  BY <1>1 DEF FilesInv, ReaderInv, Calling, Pending
<1>3. PICK off, reply : /\ off = fut.off /\ fut' = [st |-> "ready", off |-> off, reply |-> reply]
                        /\ reply.error = "none" => IsRead(off, reply.data)
  <2>1. CASE fut' = [st |-> "ready", off |-> fut.off, reply |-> Files!Error("error")]
    <3>1. Files!Error("error").error # "none"
      BY DEF Files!Error
    <3>2. QED
      BY <2>1, <3>1, Zenon
  <2>2. CASE \E left, most : /\ left = (IF fut.off < Len(File) THEN Len(File) - fut.off ELSE 0)
                             /\ most = Files!Min({left, fut.arg, MaxData})
                             /\ \E n \in Files!Min({1, most})..most :
                                   fut' = [st |-> "ready", off |-> fut.off,
                                           reply |-> Files!Ok(SubSeq(File, fut.off + 1, fut.off + n))]
    <3>1. PICK left, most : /\ left = (IF fut.off < Len(File) THEN Len(File) - fut.off ELSE 0)
                            /\ most = Files!Min({left, fut.arg, MaxData})
                            /\ \E n \in Files!Min({1, most})..most :
                                   fut' = [st |-> "ready", off |-> fut.off,
                                           reply |-> Files!Ok(SubSeq(File, fut.off + 1, fut.off + n))]
      BY <2>2
    <3>2. PICK off, arg : off = fut.off /\ arg = fut.arg
      OBVIOUS
    <3>3. off \in Nat /\ arg \in Nat \ {0} /\ MaxData \in Nat \ {0} /\ Len(File) \in Nat
      BY <1>2, <3>2, FilesAssumption
    <3>4. /\ left = (IF off < Len(File) THEN Len(File) - off ELSE 0)
          /\ most = Files!Min({left, arg, MaxData})
      BY <3>1, <3>2, Zenon
    <3>5. left \in Nat /\ (left = 0 => off >= Len(File)) /\ (left > 0 => off + left <= Len(File))
      BY ONLY <3>3, <3>4
    <3>6. most \in Nat /\ most <= left /\ (most = 0 => left = 0)
      <4>1. most \in {left, arg, MaxData} /\ most <= left
        BY ONLY <3>3, <3>4, <3>5, MinOfThree
      <4>2. QED
        BY ONLY <3>3, <3>5, <4>1
    <3>7. PICK n \in Files!Min({1, most})..most :
             fut' = [st |-> "ready", off |-> off, reply |-> Files!Ok(SubSeq(File, off + 1, off + n))]
      BY <3>1, <3>2, Zenon
    <3>8. n \in Nat /\ n <= most /\ (n = 0 => most = 0)
      <4>1. Files!Min({1, most}) = IF 1 <= most THEN 1 ELSE most
        BY ONLY <3>6, MinOfTwo
      <4>2. QED
        BY ONLY <3>6, <3>7, <4>1
    <3>9. (n > 0 => off + n <= Len(File)) /\ (n = 0 => off >= Len(File))
      BY ONLY <3>3, <3>5, <3>6, <3>8
    <3>10. IsRead(off, SubSeq(File, off + 1, off + n))
      BY ONLY <3>3, <3>8, <3>9, ReadOf
    <3>11. Files!Ok(SubSeq(File, off + 1, off + n)).data = SubSeq(File, off + 1, off + n)
      BY DEF Files!Ok
    <3>12. QED
      BY <3>2, <3>7, <3>10, <3>11, Zenon
  <2>3. QED
    BY <2>1, <2>2, Zenon DEF Files!ReadFile, Files!Answer
<1>4. fut'.st = "ready" /\ fut'.off = off /\ fut'.reply = reply
  BY <1>3
<1>5. NamedInv' /\ ListInv' /\ late = <<>>
  BY <1>1, UsedFrame DEF Used
<1>6. Files!TypeOK'
  BY <1>1, <1>4 DEF FilesInv, Files!TypeOK
<1>7. FutureInv' /\ WriterInv'
  <2>1. ~panicked
    BY <1>1 DEF FilesInv, FutureInv
  <2>2. QED
    BY <1>1, <1>4, <1>5, <2>1 DEF FilesInv, FutureInv, WriterInv, Used
<1>8. ReaderInv'
  <2>1. /\ got = [off |-> got.off, data |-> got.data, next |-> got.next]
        /\ IsRead(got.off, got.data) /\ got.next \in Nat /\ got.next = offset
    BY <1>1 DEF FilesInv, ReaderInv
  <2>2. Calling(Pending)' /\ ~Calling({"waiting"})'
    BY <1>4 DEF Calling, Pending
  <2>3. fut'.off \in Nat /\ (valid' => fut'.off = offset')
    BY <1>1, <1>2, <1>3, <1>4
  <2>4. fut'.reply.error = "none" => IsRead(fut'.off, fut'.reply.data)
    BY <1>3, <1>4, Zenon
  <2>5. QED
    BY <1>1, <2>1, <2>2, <2>3, <2>4 DEF ReaderInv, IsRead, FileBytes
<1>9. QED
  BY <1>5, <1>6, <1>7, <1>8 DEF FilesInv
-----------------------------------------------------------------------------
(* The files: the steps of a writer.                                       *)

LEMMA FilesSeekWriter ==
    ASSUME FilesInv, NEW to \in Files!Offsets, Files!SeekWriter(to)
    PROVE  FilesInv'
<1>1. /\ kind = "rpc" /\ ~panicked /\ buffer = <<>> /\ ~valid /\ offset' = to
      /\ UNCHANGED <<named, kind, buffer, fut, valid, begun, result, panicked, dir, rem, lastOffset, late,
                     written, got, want, listed, mine, starts, failures>>
  BY DEF Files!SeekWriter, Files!server, Files!histories
<1>2. to \in Nat
  <2>1. Len(File) \in Nat
    BY FilesAssumption
  <2>2. QED
    BY <2>1 DEF Files!Offsets
<1>3. NamedInv' /\ ListInv' /\ late = <<>>
  BY <1>1, UsedFrame DEF Used
<1>4. Files!TypeOK' /\ FutureInv' /\ ReaderInv'
  BY <1>1, <1>2, <1>3 DEF FilesInv, Files!TypeOK, FutureInv, ReaderInv, IsRead, FileBytes, Used
<1>5. WriterInv'
  <2>1. /\ buffer \in Data /\ written \in Data /\ want \in Data
        /\ Files!Lay(written, offset, buffer) = want /\ ~Calling(Pending)
    BY <1>1 DEF FilesInv, WriterInv
  <2>2. Files!Lay(written, offset, <<>>) = written /\ Files!Lay(written, to, <<>>) = written
    BY LayNone
  <2>3. Files!Lay(written', offset', buffer') = want'
    BY <1>1, <2>1, <2>2, Zenon
  <2>4. ~Calling(Pending)' /\ ~Calling({"waiting"})' /\ ~Calling({"ready"})'
    BY <1>1, <2>1 DEF Calling, Pending
  <2>5. QED
    BY <1>1, <2>1, <2>3, <2>4 DEF WriterInv
<1>6. QED
  BY <1>3, <1>4, <1>5 DEF FilesInv

LEMMA FilesPollsAgain ==
    ASSUME FilesInv, Files!PollsAgain
    PROVE  FilesInv'
<1>1. /\ Used /\ valid /\ fut = Files!Over /\ ~panicked /\ panicked' = TRUE
      /\ UNCHANGED <<named, kind, offset, buffer, fut, valid, begun, result, dir, rem, lastOffset, late,
                     written, got, want, listed, mine, starts, failures>>
  BY DEF Files!PollsAgain, Files!Panic, Files!server, Files!histories, Used
<1>2. NamedInv' /\ ListInv' /\ late = <<>>
  BY <1>1, UsedFrame
<1>3. Files!TypeOK' /\ FutureInv'
  BY <1>1, <1>2 DEF FilesInv, Files!TypeOK, FutureInv, Used, Files!Over
<1>4. ReaderInv'
  BY <1>1 DEF FilesInv, ReaderInv, IsRead, FileBytes, Calling
<1>5. WriterInv'
  BY <1>1 DEF FilesInv, WriterInv, Calling, Holds, Files!Lay
<1>6. QED
  BY <1>2, <1>3, <1>4, <1>5 DEF FilesInv

\* A Twrite brings all that it was begun with, or could not be sent.
LEMMA FilesWriteRpc ==
    ASSUME FilesInv, Files!WriteRpc
    PROVE  FilesInv'
<1>1. /\ kind = "rpc" /\ fut.st = "waiting"
      /\ UNCHANGED <<named, kind, offset, buffer, valid, begun, result, panicked, dir, rem, lastOffset, late,
                     got, want, listed, mine, starts, failures>>
  BY DEF Files!WriteRpc, Files!Waiting, Files!server
<1>2. /\ buffer \in Data /\ written \in Data /\ want \in Data /\ offset \in Nat
      /\ Files!Lay(written, offset, buffer) = want /\ valid /\ fut.off = offset
      /\ \E m \in 1..Len(buffer) : fut.arg = SubSeq(buffer, 1, m)
  BY <1>1 DEF FilesInv, Files!TypeOK, WriterInv, Calling, Pending
<1>3. PICK m \in 1..Len(buffer) : fut.arg = SubSeq(buffer, 1, m)
  BY <1>2
<1>4. Len(buffer) \in Nat /\ m \in Nat /\ m <= Len(buffer) /\ m > 0
  BY <1>2, <1>3 DEF Data
<1>5. PICK n, reply :
         /\ n \in 0..m /\ written' = Files!Lay(written, offset, SubSeq(buffer, 1, n))
         /\ fut' = [st |-> "ready", off |-> offset, reply |-> reply]
         /\ reply.error = "none" => reply.data = n /\ n > 0
  <2>1. PICK arg : arg = SubSeq(buffer, 1, m) /\ arg = fut.arg
    BY <1>3
  <2>2. Len(arg) = m /\ arg \in Data
    BY <1>2, <1>3, <2>1, Prefixed DEF Data
  <2>3. CASE /\ fut' = [st |-> "ready", off |-> offset, reply |-> Files!Ok(m)]
             /\ written' = Files!Lay(written, offset, SubSeq(buffer, 1, m))
    <3>1. m \in 0..m /\ m > 0 /\ Files!Ok(m).data = m
      BY <1>4 DEF Files!Ok
    <3>2. QED
      BY <2>3, <3>1, Zenon
  <2>4. CASE /\ fut' = [st |-> "ready", off |-> offset, reply |-> Files!Error("error")]
             /\ written' = written
    <3>1. 0 \in 0..m /\ Files!Error("error").error # "none"
      BY <1>4 DEF Files!Error
    <3>2. SubSeq(buffer, 1, 0) = <<>>
      BY <1>2 DEF Data
    <3>3. written' = Files!Lay(written, offset, SubSeq(buffer, 1, 0))
      BY <2>4, <3>2, Zenon DEF Files!Lay
    <3>4. QED
      BY <2>4, <3>1, <3>3, Zenon
  <2>5. QED
    <3>1. \/ /\ fut' = [st |-> "ready", off |-> offset, reply |-> Files!Ok(Len(arg))]
             /\ written' = Files!Lay(written, offset, arg)
          \/ /\ fut' = [st |-> "ready", off |-> offset, reply |-> Files!Error("error")]
             /\ written' = written
      BY <1>2, <2>1, Zenon DEF Files!WriteRpc, Files!Answer
    <3>2. QED
      BY <2>1, <2>2, <2>3, <2>4, <3>1, Zenon
<1>6. fut'.st = "ready" /\ fut'.off = offset /\ fut'.reply = reply
  BY <1>5
<1>7. NamedInv' /\ ListInv' /\ late = <<>>
  BY <1>1, UsedFrame DEF Used
<1>8. Files!TypeOK' /\ FutureInv'
  <2>1. ~panicked
    BY <1>1 DEF FilesInv, FutureInv
  <2>2. QED
    BY <1>1, <1>6, <1>7, <2>1 DEF FilesInv, Files!TypeOK, FutureInv, Used
<1>9. ReaderInv'
  BY <1>1 DEF FilesInv, ReaderInv, IsRead, FileBytes
<1>10. WriterInv'
  <2>1. PICK s, b, o, l : s = written /\ b = buffer /\ o = offset /\ l = Files!Lay(s, o, SubSeq(b, 1, n))
    OBVIOUS
  <2>2. s \in Data /\ b \in Data /\ o \in Nat /\ n \in 0..Len(b) /\ n \in Nat
    BY <1>2, <1>4, <1>5, <2>1
  <2>3. /\ l \in Data /\ Files!Lay(l, o, b) = Files!Lay(s, o, b)
        /\ n > 0 => Len(l) >= o + n /\ \A i \in 1..n : l[o + i] = b[i]
    <3>1. /\ Files!Lay(s, o, SubSeq(b, 1, n)) \in Data
          /\ Files!Lay(Files!Lay(s, o, SubSeq(b, 1, n)), o, b) = Files!Lay(s, o, b)
          /\ n > 0 => /\ Len(Files!Lay(s, o, SubSeq(b, 1, n))) >= o + n
                      /\ \A i \in 1..n : Files!Lay(s, o, SubSeq(b, 1, n))[o + i] = b[i]
      BY ONLY <2>2, LayTwice
    <3>2. l = Files!Lay(s, o, SubSeq(b, 1, n))
      BY <2>1
    <3>3. QED
      BY ONLY <3>1, <3>2, Zenon
  <2>4. written' = l /\ offset' = o /\ buffer' = b /\ want' = Files!Lay(s, o, b)
    BY <1>1, <1>2, <1>5, <2>1, Zenon
  <2>5. Files!Lay(written', offset', buffer') = want'
    BY <2>3, <2>4, Zenon
  <2>6. fut'.reply.error = "none" => Holds(fut.reply.data)'
    <3>1. SUFFICES ASSUME fut'.reply.error = "none"
                   PROVE  Holds(fut.reply.data)'
      OBVIOUS
    <3>2. fut'.reply.data = n /\ n > 0
      BY <1>5, <1>6, <3>1
    <3>3. n \in 1..Len(b)
      BY <2>2, <3>2
    <3>4. /\ n \in 1..Len(buffer') /\ Len(written') >= offset' + n
          /\ \A i \in 1..n : written'[offset' + i] = buffer'[i]
      BY <2>3, <2>4, <3>2, <3>3, Zenon
    <3>5. QED
      BY <3>2, <3>4, Zenon DEF Holds
  <2>7. ~Calling({"waiting"})' /\ valid' /\ fut'.off = offset'
    BY <1>1, <1>2, <1>6 DEF Calling
  <2>8. buffer' \in Data /\ written' \in Data /\ want' \in Data
    BY <1>1, <1>2, <2>3, <2>4
  <2>9. QED
    BY <2>5, <2>6, <2>7, <2>8, Zenon DEF WriterInv
<1>11. QED
  BY <1>7, <1>8, <1>9, <1>10 DEF FilesInv
LEMMA LayData ==
    ASSUME NEW bytes \in Data, NEW off \in Nat, NEW data \in Data
    PROVE  Files!Lay(bytes, off, data) \in Data
<1>1. CASE data = <<>>
  BY <1>1, LayNone
<1>2. CASE data # <<>>
  BY <1>2, LayIs
<1>3. QED
  BY <1>1, <1>2

\* The writer goes on after what was written, with the rest or with new bytes.
LEMMA FilesWritePoll ==
    ASSUME FilesInv, NEW data \in Data, Files!WritePoll(data)
    PROVE  FilesInv'
<1>1. /\ kind = "rpc" /\ ~panicked
      /\ UNCHANGED <<named, kind, panicked, dir, rem, lastOffset, late, written, got, listed, mine, starts, failures>>
  BY DEF Files!WritePoll, Files!server
<1>2. /\ buffer \in Data /\ written \in Data /\ want \in Data /\ offset \in Nat /\ begun \in 0..MaxCalls
      /\ Files!Lay(written, offset, buffer) = want
  BY <1>1 DEF FilesInv, Files!TypeOK, WriterInv
<1>3. NamedInv' /\ ListInv' /\ late = <<>> /\ Used'
  BY <1>1, UsedFrame DEF Used
<1>4. ReaderInv'
  BY <1>1 DEF FilesInv, ReaderInv, IsRead, FileBytes
<1>5. CASE valid /\ Files!Ready(fut) /\ ~Files!Succeeds(fut)
  <2>1. fut' = Files!Over /\ result' = "error" /\ UNCHANGED <<buffer, offset, valid, begun, want>>
    BY <1>5 DEF Files!WritePoll
  <2>2. fut'.st = "over" /\ ~Calling(Pending)' /\ ~Calling({"waiting"})' /\ ~Calling({"ready"})'
    <3>1. fut'.st = "over"
      BY <2>1 DEF Files!Over
    <3>2. QED
      BY <3>1 DEF Calling, Pending
  <2>3. Files!TypeOK' /\ FutureInv'
    BY <1>1, <1>3, <2>1, <2>2 DEF FilesInv, Files!TypeOK, FutureInv
  <2>4. Files!Lay(written', offset', buffer') = want'
    BY <1>1, <1>2, <2>1, Zenon
  <2>5. WriterInv'
    BY <1>1, <1>2, <2>1, <2>2, <2>4 DEF WriterInv
  <2>6. QED
    BY <1>3, <1>4, <2>3, <2>5 DEF FilesInv
<1>6. CASE ~valid \/ (Files!Ready(fut) /\ Files!Succeeds(fut))
  <2>1. PICK n : n = IF valid THEN fut.reply.data ELSE 0
    OBVIOUS
  <2>2. PICK rest : rest = SubSeq(buffer, n + 1, Len(buffer))
    OBVIOUS
  <2>3. \/ rest # <<>> /\ Files!Writes(offset + n, rest)
        \/ rest = <<>> /\ Files!Accepts(offset + n, data)
    BY <1>6, <2>1, <2>2, Zenon DEF Files!WritePoll
  <2>4. PICK b, s, o : b = buffer /\ s = written /\ o = offset
    OBVIOUS
  <2>5. b \in Data /\ s \in Data /\ o \in Nat /\ Len(b) \in Nat
    BY <1>2, <2>4 DEF Data
  <2>6. /\ n \in 0..Len(b) /\ (n > 0 => Len(s) >= o + n) /\ \A i \in 1..n : s[o + i] = b[i]
    <3>1. CASE ~valid
      BY <2>1, <2>5, <3>1
    <3>2. CASE valid
      <4>1. fut.st = "ready" /\ fut.reply.error = "none" /\ n = fut.reply.data
        BY <1>6, <2>1, <3>2 DEF Files!Ready, Files!Succeeds
      <4>2. Holds(n)
        BY <1>1, <4>1 DEF FilesInv, WriterInv, Calling
      <4>3. n \in 1..Len(b) /\ Len(s) >= o + n /\ \A i \in 1..n : s[o + i] = b[i]
        BY <2>4, <4>2, Zenon DEF Holds
      <4>4. QED
        BY <2>5, <4>3
    <3>3. QED
      BY <3>1, <3>2
  <2>7. Files!Lay(s, o + n, SubSeq(b, n + 1, Len(b))) = Files!Lay(s, o, b)
    BY ONLY <2>5, <2>6, LayRest
  <2>8. rest = SubSeq(b, n + 1, Len(b)) /\ want = Files!Lay(s, o + n, rest)
    BY <1>2, <2>2, <2>4, <2>7, Zenon
  <2>9. rest \in Data /\ o + n \in Nat
    <3>1. rest \in Data
      BY ONLY <2>5, <2>6, <2>8, Prefixed DEF Data
    <3>2. QED
      BY <2>5, <2>6, <3>1
  <2>10. CASE rest # <<>> /\ Files!Writes(offset + n, rest)
    <3>1. PICK m : m = Files!Min({Len(rest), MaxWrite})
      OBVIOUS
    <3>2. m \in 1..Len(rest)
      <4>1. Len(rest) \in Nat \ {0} /\ MaxWrite \in Nat \ {0}
        BY <2>9, <2>10, Bounds DEF Data
      <4>2. m = IF Len(rest) <= MaxWrite THEN Len(rest) ELSE MaxWrite
        BY ONLY <3>1, <4>1, MinOfTwo
      <4>3. QED
        BY ONLY <4>1, <4>2
    <3>3. /\ buffer' = rest /\ offset' = o + n /\ valid' = TRUE /\ UNCHANGED <<begun, want, result>>
          /\ fut' = [st |-> "waiting", off |-> o + n, arg |-> SubSeq(rest, 1, m)]
      BY <2>4, <2>10, <3>1, Zenon DEF Files!Writes, Files!Call
    <3>4. fut'.st = "waiting" /\ fut'.off = o + n /\ fut'.arg = SubSeq(rest, 1, m)
      BY <3>3
    <3>5. Calling({"waiting"})' /\ ~Calling({"ready"})'
      BY <3>4 DEF Calling
    <3>6. Files!TypeOK' /\ FutureInv'
      BY <1>1, <1>2, <1>3, <2>9, <3>3, <3>4 DEF FilesInv, Files!TypeOK, FutureInv
    <3>7. Files!Lay(written', offset', buffer') = want'
      BY <1>1, <2>4, <2>8, <3>3, Zenon
    <3>8. buffer' \in Data /\ written' \in Data /\ want' \in Data /\ valid' /\ fut'.off = offset'
      BY <1>1, <1>2, <2>9, <3>3, <3>4
    <3>9. \E k \in 1..Len(buffer') : fut'.arg = SubSeq(buffer', 1, k)
      BY <3>2, <3>3, <3>4, Zenon
    <3>10. WriterInv'
      BY <3>5, <3>7, <3>8, <3>9, Zenon DEF WriterInv
    <3>11. QED
      BY <1>3, <1>4, <3>6, <3>10 DEF FilesInv
  <2>11. CASE rest = <<>> /\ Files!Accepts(offset + n, data)
    <3>1. /\ buffer' = data /\ offset' = o + n /\ valid' = FALSE /\ fut' = Files!Over
          /\ want' = Files!Lay(want, o + n, data) /\ result' = "ok"
      BY <2>4, <2>11, Zenon DEF Files!Accepts
    <3>2. begun' \in 0..MaxCalls
      <4>1. begun' = begun \/ (begun < MaxCalls /\ begun' = begun + 1)
        BY <2>11, Zenon DEF Files!Accepts, Files!Count
      <4>2. QED
        BY ONLY <1>2, <4>1, Bounds
    <3>3. fut'.st = "over" /\ ~Calling(Pending)' /\ ~Calling({"waiting"})' /\ ~Calling({"ready"})'
      <4>1. fut'.st = "over"
        BY <3>1 DEF Files!Over
      <4>2. QED
        BY <4>1 DEF Calling, Pending
    <3>4. Files!TypeOK' /\ FutureInv'
      BY <1>1, <1>3, <2>9, <3>1, <3>2, <3>3 DEF FilesInv, Files!TypeOK, FutureInv
    <3>5. want = s
      <4>1. rest = <<>>
        BY <2>11
      <4>2. QED
        BY <2>8, <4>1, LayNone, Zenon
    <3>6. Files!Lay(written', offset', buffer') = want'
      BY <1>1, <2>4, <3>1, <3>5, Zenon
    <3>7. buffer' \in Data /\ written' \in Data /\ want' \in Data
      BY <1>1, <1>2, <2>9, <3>1, LayData
    <3>8. WriterInv'
      BY <3>3, <3>6, <3>7, Zenon DEF WriterInv
    <3>9. QED
      BY <1>3, <1>4, <3>4, <3>8 DEF FilesInv
  <2>12. QED
    BY <2>3, <2>10, <2>11
<1>7. QED
  BY <1>5, <1>6 DEF Files!WritePoll

LEMMA FilesWrites ==
    ASSUME FilesInv, Files!WriteSome \/ Files!Flush
    PROVE  FilesInv'
<1>1. CASE Files!Flush
  <2>1. <<>> \in Data
    BY DEF Data
  <2>2. QED
    BY <1>1, <2>1, FilesWritePoll DEF Files!Flush
<1>2. CASE Files!WriteSome
  <2>1. PICK n \in 1..MaxLen : Files!WritePoll([i \in 1..n |-> 10 * (begun + 1) + i])
    BY <1>2 DEF Files!WriteSome
  <2>2. PICK b : b = begun
    OBVIOUS
  <2>3. PICK data : data = [i \in 1..n |-> 10 * (b + 1) + i]
    OBVIOUS
  <2>4. b \in Nat /\ n \in Nat
    <3>1. begun \in 0..MaxCalls
      BY DEF FilesInv, Files!TypeOK
    <3>2. QED
      BY <2>2, <3>1, Bounds
  <2>5. data \in Data
    BY ONLY <2>3, <2>4, SeqDef DEF Data
  <2>6. Files!WritePoll(data)
    BY <2>1, <2>2, <2>3, Zenon
  <2>7. QED
    BY <2>5, <2>6, FilesWritePoll
<1>3. QED
  BY <1>1, <1>2

-----------------------------------------------------------------------------
(* The files: the steps of a listing.                                      *)

\* What a step of a listing leaves alone.
LEMMA ListFrame ==
    ASSUME FilesInv, Files!Lists, UNCHANGED <<named, kind, valid, panicked, got>>
    PROVE  /\ ServerInv /\ ClientInv /\ ReplyInv /\ Files!Lists' /\ kind \in {"dir", "root"}
           /\ NamedInv' /\ FutureInv' /\ ReaderInv' /\ WriterInv'
<1>1. ServerInv /\ ClientInv /\ ReplyInv /\ Files!Lists' /\ kind \in {"dir", "root"} /\ kind' = kind
  BY DEF FilesInv, ListInv, Files!Lists
<1>2. named = Files!NoName /\ ~valid /\ ~panicked
  BY <1>1 DEF FilesInv, NamedInv, FutureInv, Used
<1>3. NamedInv' /\ FutureInv' /\ WriterInv'
  BY <1>1, <1>2 DEF NamedInv, FutureInv, WriterInv, Used
<1>4. ReaderInv'
  BY <1>1 DEF FilesInv, ReaderInv, IsRead, FileBytes
<1>5. QED
  BY <1>1, <1>3, <1>4

LEMMA ListingsAre ==
    ASSUME NEW l \in Listings \cup {<<>>}
    PROVE  l \in Entries /\ Files!Bytes(l) \in Nat /\ Files!Bytes(l) <= U32Max
<1>1. l \in Entries
  <2>1. Listings \subseteq Entries
    BY FilesAssumption DEF Entries
  <2>2. <<>> \in Entries
    BY DEF Entries
  <2>3. QED
    BY <2>1, <2>2
<1>2. Files!Bytes(l) \in Nat
  BY <1>1, BytesSum
<1>3. CASE l = <<>>
  <2>1. Files!Bytes(l) = 0
    BY <1>1, <1>3, BytesSum
  <2>2. QED
    BY <1>1, <1>2, <2>1, Bounds
<1>4. CASE l \in Listings
  BY <1>1, <1>2, <1>4, FilesAssumption
<1>5. QED
  BY <1>3, <1>4

\* What is taken from the beginning of a sequence and put behind another.
LEMMA MoveHead ==
    ASSUME NEW X, NEW s \in Seq(X), NEW t \in Seq(X), t # <<>>
    PROVE  /\ Append(s, Head(t)) \in Seq(X) /\ Tail(t) \in Seq(X)
           /\ Append(s, Head(t)) \o Tail(t) = s \o t
<1>1. Head(t) \in X /\ Tail(t) \in Seq(X) /\ Len(t) \in Nat \ {0} /\ Len(Tail(t)) = Len(t) - 1
  OBVIOUS
<1>2. Append(s, Head(t)) \in Seq(X) /\ Len(Append(s, Head(t))) = Len(s) + 1
  BY <1>1
<1>3. QED
  BY <1>1, <1>2

LEMMA FilesNextEntry ==
    ASSUME FilesInv, Files!NextEntry
    PROVE  FilesInv'
<1>1. /\ Files!Lists /\ fut = Files!NoCall
      /\ UNCHANGED <<named, kind, offset, valid, panicked, dir, rem, lastOffset, late, written,
                     got, want, mine, starts, failures>>
  BY DEF Files!NextEntry, Files!server
<1>2. /\ ServerInv /\ ClientInv /\ ReplyInv /\ Files!Lists' /\ kind \in {"dir", "root"}
      /\ NamedInv' /\ FutureInv' /\ ReaderInv' /\ WriterInv'
  BY <1>1, ListFrame
<1>3. ServerInv'
  BY <1>1, <1>2 DEF ServerInv
<1>4. \A l : Served(l) => Served(l)'
  BY <1>1 DEF Served
<1>5. fut.st = "none"
  BY <1>1 DEF Files!NoCall
<1>6. CASE buffer # <<>>
  <2>1. /\ listed' = Append(listed, Head(buffer)) /\ buffer' = Tail(buffer) /\ result' = "entry"
        /\ UNCHANGED <<fut, begun>>
    BY <1>6 DEF Files!NextEntry
  <2>2. listed \in Entries /\ buffer \in Entries /\ offset > 0
    <3>1. listed \in Entries /\ buffer \in Entries /\ offset # 0
      BY <1>2, <1>6 DEF ClientInv
    <3>2. offset \in Nat
      BY DEF FilesInv, Files!TypeOK
    <3>3. QED
      BY <3>1, <3>2
  <2>3. listed' \in Entries /\ buffer' \in Entries /\ listed' \o buffer' = listed \o buffer
    BY <1>6, <2>1, <2>2, MoveHead DEF Entries
  <2>4. ClientInv'
    <3>1. /\ mine \in Listings \cup {<<>>} /\ Served(mine)
          /\ Files!Bytes(mine) <= MaxData => offset = Files!Bytes(mine) /\ listed \o buffer = mine
          /\ Files!Bytes(mine) > MaxData =>
                offset = MaxData /\ \E k \in 0..Len(mine) : listed \o buffer = SubSeq(mine, 1, k)
      BY <1>2, <2>2 DEF ClientInv
    <3>2. Served(mine)'
      BY <1>1, <1>4, <3>1 DEF Served
    <3>3. /\ Files!Bytes(mine') <= MaxData => offset' = Files!Bytes(mine') /\ listed' \o buffer' = mine'
          /\ Files!Bytes(mine') > MaxData =>
                offset' = MaxData /\ \E k \in 0..Len(mine') : listed' \o buffer' = SubSeq(mine', 1, k)
      BY <1>1, <2>3, <3>1, Zenon
    <3>4. offset' # 0
      BY <1>1, <2>2
    <3>5. QED
      BY <1>1, <2>1, <2>3, <3>1, <3>2, <3>3, <3>4 DEF ClientInv
  <2>5. ReplyInv'
    BY <1>1, <1>5, <2>1 DEF ReplyInv, Calling, Pending
  <2>6. Files!TypeOK'
    BY <1>1, <2>1 DEF FilesInv, Files!TypeOK
  <2>7. QED
    BY <1>2, <1>3, <2>4, <2>5, <2>6 DEF FilesInv, ListInv
<1>7. CASE buffer = <<>>
  <2>1. /\ begun < MaxCalls /\ begun' = begun + 1 /\ UNCHANGED <<buffer, listed, result>>
        /\ fut' = [st |-> "waiting", off |-> offset, arg |-> U32Max]
    BY <1>7 DEF Files!NextEntry, Files!Count, Files!Call
  <2>2. fut'.st = "waiting" /\ fut'.off = offset
    BY <2>1
  <2>3. ClientInv'
    BY <1>1, <1>2, <2>1 DEF ClientInv, Served, Refusable
  <2>4. ReplyInv'
    BY <1>1, <1>7, <2>1, <2>2 DEF ReplyInv, Calling, Pending
  <2>5. begun' \in 0..MaxCalls
    <3>1. begun \in 0..MaxCalls
      BY DEF FilesInv, Files!TypeOK
    <3>2. QED
      BY ONLY <2>1, <3>1, Bounds
  <2>6. Files!TypeOK'
    BY <1>1, <2>1, <2>2, <2>5 DEF FilesInv, Files!TypeOK
  <2>7. QED
    BY <1>2, <1>3, <2>3, <2>4, <2>6 DEF FilesInv, ListInv
<1>8. QED
  BY <1>6, <1>7

LEMMA FilesDropNextEntry ==
    ASSUME FilesInv, Files!DropNextEntry
    PROVE  FilesInv'
<1>1. /\ Files!Lists /\ fut # Files!NoCall /\ fut' = Files!NoCall
      /\ late' = IF fut.st = "waiting" THEN Append(late, fut.off) ELSE late
      /\ UNCHANGED <<named, kind, offset, buffer, valid, begun, result, panicked, dir, rem, lastOffset,
                     written, got, want, listed, mine, starts, failures>>
  BY DEF Files!DropNextEntry, Files!Waiting, Files!histories
<1>2. /\ ServerInv /\ ClientInv /\ ReplyInv /\ Files!Lists' /\ kind \in {"dir", "root"}
      /\ NamedInv' /\ FutureInv' /\ ReaderInv' /\ WriterInv'
  BY <1>1, ListFrame
<1>3. late' \in Seq(Nat)
  <2>1. late \in Seq(Nat) /\ fut.off = offset /\ offset \in Nat
    BY <1>1, <1>2 DEF ServerInv, ReplyInv, FilesInv, Files!TypeOK
  <2>2. QED
    BY <1>1, <2>1
<1>4. ServerInv' /\ ClientInv'
  BY <1>1, <1>2, <1>3, ZenonT(40) DEF ServerInv, ClientInv, Served, Refusable
<1>5. fut'.st = "none"
  BY <1>1 DEF Files!NoCall
<1>6. ReplyInv' /\ Files!TypeOK'
  BY <1>1, <1>5 DEF ReplyInv, Calling, Pending, FilesInv, Files!TypeOK
<1>7. QED
  BY <1>2, <1>4, <1>6 DEF FilesInv, ListInv

LEMMA FilesRewind ==
    ASSUME FilesInv, Files!rewind
    PROVE  FilesInv'
<1>1. /\ Files!Lists /\ fut = Files!NoCall /\ offset' = 0 /\ buffer' = <<>>
      /\ listed' = <<>> /\ mine' = <<>> /\ result' = "none"
      /\ UNCHANGED <<named, kind, fut, valid, begun, panicked, dir, rem, lastOffset, late, written, got, want,
                     starts, failures>>
  BY DEF Files!rewind, Files!server
<1>2. /\ ServerInv /\ ClientInv /\ ReplyInv /\ Files!Lists' /\ kind \in {"dir", "root"}
      /\ NamedInv' /\ FutureInv' /\ ReaderInv' /\ WriterInv'
  BY <1>1, ListFrame
<1>3. ServerInv'
  BY <1>1, <1>2 DEF ServerInv
<1>4. ClientInv'
  <2>1. <<>> \in Entries
    BY DEF Entries
  <2>2. QED
    BY <1>1, <2>1 DEF ClientInv
<1>5. fut'.st = "none"
  BY <1>1 DEF Files!NoCall
<1>6. ReplyInv' /\ Files!TypeOK'
  BY <1>1, <1>5 DEF ReplyInv, Calling, Pending, FilesInv, Files!TypeOK
<1>7. QED
  BY <1>2, <1>3, <1>4, <1>6 DEF FilesInv, ListInv

LEMMA FilesChange ==
    ASSUME FilesInv, Files!Change
    PROVE  FilesInv'
<1>1. /\ kind = "dir" /\ dir' \in Listings /\ Files!Lists
      /\ UNCHANGED <<named, kind, offset, buffer, fut, valid, begun, result, panicked, rem, lastOffset, late,
                     written, got, want, listed, mine, starts, failures>>
  BY DEF Files!Change, Files!client, Files!histories, Files!Lists
<1>2. /\ ServerInv /\ ClientInv /\ ReplyInv /\ Files!Lists' /\ kind \in {"dir", "root"}
      /\ NamedInv' /\ FutureInv' /\ ReaderInv' /\ WriterInv'
  BY <1>1, ListFrame
<1>3. dir' \in Entries
  BY <1>1, ListingsAre
<1>4. ServerInv' /\ ClientInv'
  BY <1>1, <1>2, <1>3 DEF ServerInv, ClientInv, Served, Refusable
<1>5. ReplyInv'
  BY <1>1, <1>2 DEF ReplyInv, Calling, Served, Refusable
<1>6. Files!TypeOK'
  BY <1>1 DEF FilesInv, Files!TypeOK
<1>7. QED
  BY <1>2, <1>4, <1>5, <1>6 DEF FilesInv, ListInv
LEMMA OkOutcome ==
    ASSUME NEW left, NEW last, NEW data, NEW o, o = Files!Outcome(left, last, Files!Ok(data))
    PROVE  o.left = left /\ o.last = last /\ o.reply.error = "none" /\ o.reply.data = data
  BY DEF Files!Outcome, Files!Ok

LEMMA ErrorOutcome ==
    ASSUME NEW left, NEW last, NEW name, NEW o, o = Files!Outcome(left, last, Files!Error(name))
    PROVE  o.left = left /\ o.last = last /\ o.reply.error = name
  BY DEF Files!Outcome, Files!Error

\* What a read of the listing comes to: it has all of it, or nothing that is left,
\* or it is at the wrong offset, or it fails.
LEMMA ReadOutcomes ==
    ASSUME FilesInv, Files!Lists, NEW off \in Nat, NEW o,
           o \in {Files!ReadEntries(off)} \cup Files!ReadEntriesFails(off)
    PROVE  \/ /\ off = 0 /\ o.left = <<>> /\ o.reply.error = "none" /\ o.reply.data = Files!Truncated(dir, dir)
              /\ o.last = (IF kind = "root" THEN 0 ELSE lastOffset) + Files!Bytes(dir)
           \/ /\ off > 0 /\ off = lastOffset /\ o.left = <<>> /\ o.last = lastOffset
              /\ o.reply.error = "none" /\ o.reply.data = Files!Truncated(<<>>, <<>>)
           \/ /\ off \notin {0, lastOffset} /\ o.left = rem /\ o.last = lastOffset
              /\ o.reply.error = "Invalid argument"
           \/ /\ kind = "dir" /\ off = 0 /\ o.left = <<>> /\ o.last = lastOffset /\ o.reply.error = "error"
           \/ /\ kind = "root" /\ off = 0 /\ o.left \in Entries /\ o.last = 0 /\ o.reply.error = "error"
<1>1. ServerInv /\ kind \in {"dir", "root"} /\ dir \in Listings \cup {<<>>}
  BY DEF FilesInv, ListInv, Files!Lists, Files!TypeOK
<1>2. dir \in Entries /\ rem \in Entries /\ lastOffset \in Nat /\ (rem # <<>> => lastOffset = 0)
  BY <1>1 DEF ServerInv
<1>4. ASSUME NEW e \in Listings \cup {<<>>}
      PROVE  Files!Filled(e, U32Max) = e /\ SubSeq(e, Len(e) + 1, Len(e)) = <<>>
  <2>1. e \in Entries /\ Files!Bytes(e) <= U32Max
    BY ListingsAre
  <2>2. U32Max \in Nat
    BY Bounds
  <2>3. SubSeq(e, Len(e) + 1, Len(e)) = <<>>
    BY <2>1 DEF Entries
  <2>4. QED
    BY <2>1, <2>2, <2>3, FilledIs
<1>5. CASE o = Files!ReadEntries(off)
  <2>1. CASE off \notin {0, lastOffset}
    <3>1. o = Files!Outcome(rem, lastOffset, Files!Error("Invalid argument"))
      BY <1>5, <2>1 DEF Files!ReadEntries
    <3>2. PICK left, last, name : left = rem /\ last = lastOffset /\ name = "Invalid argument"
      BY Zenon
    <3>3. o = Files!Outcome(left, last, Files!Error(name))
      BY <3>1, <3>2, Zenon
    <3>4. o.left = left /\ o.last = last /\ o.reply.error = name
      BY ONLY <3>3, ErrorOutcome
    <3>5. QED
      BY <2>1, <3>2, <3>4, Zenon
  <2>2. CASE off = 0
    <3>1. PICK base, d : base = (IF kind = "root" THEN 0 ELSE lastOffset) /\ d = dir
      OBVIOUS
    <3>2. o = Files!Outcome(SubSeq(d, Len(Files!Filled(d, U32Max)) + 1, Len(d)),
                            base + Files!Bytes(Files!Filled(d, U32Max)),
                            Files!Ok(Files!Truncated(Files!Filled(d, U32Max), d)))
      BY <1>5, <2>2, <3>1 DEF Files!ReadEntries
    <3>3. Files!Filled(d, U32Max) = d /\ SubSeq(d, Len(d) + 1, Len(d)) = <<>>
      BY <1>1, <1>4, <3>1
    <3>4. o = Files!Outcome(<<>>, base + Files!Bytes(d), Files!Ok(Files!Truncated(d, d)))
      BY <3>2, <3>3, Zenon
    <3>5. /\ o.left = <<>> /\ o.last = base + Files!Bytes(d) /\ o.reply.error = "none"
          /\ o.reply.data = Files!Truncated(d, d)
      BY ONLY <3>4, OkOutcome
    <3>6. QED
      BY <2>2, <3>1, <3>5, Zenon
  <2>3. CASE off # 0 /\ off = lastOffset
    <3>1. rem = <<>> /\ off > 0
      BY <1>2, <2>3
    <3>2. o = Files!Outcome(SubSeq(rem, Len(Files!Filled(rem, U32Max)) + 1, Len(rem)),
                            lastOffset + Files!Bytes(Files!Filled(rem, U32Max)),
                            Files!Ok(Files!Truncated(Files!Filled(rem, U32Max), rem)))
      BY <1>5, <2>3 DEF Files!ReadEntries
    <3>3. Files!Filled(<<>>, U32Max) = <<>> /\ SubSeq(<<>>, Len(<<>>) + 1, Len(<<>>)) = <<>>
      BY <1>4
    <3>4. lastOffset + Files!Bytes(<<>>) = lastOffset
      <4>1. <<>> \in Entries
        BY DEF Entries
      <4>2. Files!Bytes(<<>>) = 0
        BY <4>1, BytesSum
      <4>3. QED
        BY <1>2, <4>2
    <3>5. o = Files!Outcome(<<>>, lastOffset, Files!Ok(Files!Truncated(<<>>, <<>>)))
      BY <3>1, <3>2, <3>3, <3>4, Zenon
    <3>6. /\ o.left = <<>> /\ o.last = lastOffset /\ o.reply.error = "none"
          /\ o.reply.data = Files!Truncated(<<>>, <<>>)
      BY ONLY <3>5, OkOutcome
    <3>7. QED
      BY <2>3, <3>1, <3>6, Zenon
  <2>4. QED
    BY <2>1, <2>2, <2>3
<1>6. CASE o \in Files!ReadEntriesFails(off)
  <2>1. CASE kind = "dir"
    <3>1. off = 0 /\ o = Files!Outcome(<<>>, lastOffset, Files!Error("error"))
      BY <1>6, <2>1 DEF Files!ReadEntriesFails
    <3>2. o.left = <<>> /\ o.last = lastOffset /\ o.reply.error = "error"
      BY ONLY <3>1, ErrorOutcome
    <3>3. QED
      BY <2>1, <3>1, <3>2, Zenon
  <2>2. CASE kind = "root"
    <3>1. PICK e : e = IF off = 0 THEN dir ELSE rem
      OBVIOUS
    <3>2. PICK k \in DOMAIN e : /\ off \in {0, lastOffset}
                                /\ o = Files!Outcome(SubSeq(e, k, Len(e)), off, Files!Error("error"))
      BY <1>6, <2>2, <3>1 DEF Files!ReadEntriesFails
    <3>3. off = 0
      <4>1. SUFFICES ASSUME off # 0
                     PROVE  FALSE
        OBVIOUS
      <4>2. e = <<>>
        BY <1>2, <3>1, <3>2, <4>1
      <4>3. QED
        BY <3>2, <4>2
    <3>4. SubSeq(e, k, Len(e)) \in Entries
      BY <1>2, <3>1, <3>2 DEF Entries
    <3>5. PICK left : left = SubSeq(e, k, Len(e))
      OBVIOUS
    <3>6. o = Files!Outcome(left, 0, Files!Error("error")) /\ left \in Entries
      BY <3>2, <3>3, <3>4, <3>5, Zenon
    <3>7. o.left = left /\ o.last = 0 /\ o.reply.error = "error"
      BY ONLY <3>6, ErrorOutcome
    <3>8. QED
      BY <2>2, <3>3, <3>6, <3>7, Zenon
  <2>3. QED
    BY <1>1, <2>1, <2>2
<1>7. QED
  BY <1>5, <1>6
\* What a read leaves true, whoever asked for it.
LEMMA ListReads ==
    ASSUME FilesInv, Files!Lists, NEW off \in Nat, NEW o,
           o \in {Files!ReadEntries(off)} \cup Files!ReadEntriesFails(off),
           rem' = o.left, lastOffset' = o.last, late' \in Seq(Nat),
           starts' = starts + (IF off = 0 THEN 1 ELSE 0),
           failures' = failures + (IF o.reply.error = "error" THEN 1 ELSE 0),
           UNCHANGED <<kind, dir, mine, listed, buffer, offset, result>>
    PROVE  /\ ServerInv' /\ ClientInv' /\ (\A l : Served(l) => Served(l)') /\ (Refusable => Refusable')
           /\ o.reply.error \in {"none", "error", "Invalid argument"}
           /\ o.reply.error = "Invalid argument" /\ off = offset => Refusable
           /\ o.reply.error = "none" /\ off = 0 => Served(dir)' /\ o.reply.data = Files!Truncated(dir, dir)
           /\ o.reply.error = "none" /\ off > 0 /\ off = offset =>
                 o.reply.data = Files!Truncated(<<>>, <<>>) /\ Files!Bytes(mine) <= MaxData
<1>1. /\ ServerInv /\ ClientInv /\ kind \in {"dir", "root"} /\ dir \in Listings \cup {<<>>}
      /\ dir \in Entries /\ rem \in Entries /\ lastOffset \in Nat /\ starts \in Nat /\ failures \in Nat
      /\ mine \in Listings \cup {<<>>} /\ offset \in Nat
  BY DEF FilesInv, ListInv, Files!Lists, Files!TypeOK, ServerInv, ClientInv
<1>2. PICK bd : bd = Files!Bytes(dir) /\ bd \in Nat
  BY <1>1, ListingsAre
<1>3. PICK bm : bm = Files!Bytes(mine) /\ bm \in Nat
  BY <1>1, ListingsAre
<1>4. <<>> \in Entries
  BY DEF Entries
<1>5. MaxData \in Nat \ {0}
  BY Bounds
<1>6. /\ starts = 0 => lastOffset = 0
      /\ rem # <<>> => lastOffset = 0
      /\ kind = "root" => lastOffset \in {0, bd} /\ (starts > 0 /\ failures = 0 => lastOffset = bd)
  BY <1>1, <1>2 DEF ServerInv
<1>7. offset > 0 => /\ starts > 0 /\ (starts = 1 => lastOffset = bm) /\ (kind = "dir" => lastOffset >= bm)
                    /\ (kind = "root" => mine = dir /\ bm = bd)
                    /\ (bm <= MaxData => offset = bm) /\ (bm > MaxData => offset = MaxData)
  BY <1>1, <1>2, <1>3 DEF ClientInv, Served
<1>8. ASSUME /\ rem' \in Entries /\ lastOffset' \in Nat /\ starts' \in Nat /\ failures' \in Nat
             /\ starts' = 0 => lastOffset' = 0
             /\ rem' # <<>> => lastOffset' = 0
             /\ kind = "root" => lastOffset' \in {0, bd} /\ (starts' > 0 /\ failures' = 0 => lastOffset' = bd),
             starts' >= starts, failures' >= failures,
             kind = "dir" => lastOffset' >= lastOffset,
             starts' = starts => lastOffset' = lastOffset
      PROVE  ServerInv' /\ ClientInv' /\ (\A l : Served(l) => Served(l)') /\ (Refusable => Refusable')
  <2>1. ServerInv'
    BY <1>1, <1>2, <1>8 DEF ServerInv
  <2>2. ASSUME NEW l, Served(l)
        PROVE  Served(l)'
    <3>1. l \in Listings \cup {<<>>}
      BY <2>2 DEF Served
    <3>2. PICK b : b = Files!Bytes(l) /\ b \in Nat
      BY <3>1, ListingsAre
    <3>3. /\ starts > 0 /\ (starts = 1 => lastOffset = b) /\ (kind = "dir" => lastOffset >= b)
          /\ (kind = "root" => l = dir)
      BY <2>2, <3>2 DEF Served
    <3>4. /\ starts' > 0 /\ (starts' = 1 => lastOffset' = b) /\ (kind = "dir" => lastOffset' >= b)
      BY ONLY <1>1, <1>8, <3>2, <3>3
    <3>5. QED
      BY <3>1, <3>2, <3>3, <3>4 DEF Served
  <2>3. Refusable => Refusable'
    BY <1>1, <1>3, <1>5, <1>8 DEF Refusable
  <2>4. ClientInv'
    BY <1>1, <2>2, <2>3 DEF ClientInv, Served
  <2>5. QED
    BY <2>1, <2>2, <2>3, <2>4
<1>9. CASE /\ off = 0 /\ o.left = <<>> /\ o.reply.error = "none" /\ o.reply.data = Files!Truncated(dir, dir)
           /\ o.last = (IF kind = "root" THEN 0 ELSE lastOffset) + Files!Bytes(dir)
  <2>1. /\ starts' = starts + 1 /\ failures' = failures /\ rem' = <<>>
        /\ lastOffset' = (IF kind = "root" THEN 0 ELSE lastOffset) + bd
    BY <1>1, <1>2, <1>9
  <2>2. /\ rem' \in Entries /\ lastOffset' \in Nat /\ starts' \in Nat /\ failures' \in Nat
        /\ starts' # 0 /\ starts' # starts /\ starts' >= starts /\ failures' >= failures
        /\ (kind = "root" => lastOffset' = bd) /\ (kind = "dir" => lastOffset' >= lastOffset /\ lastOffset' >= bd)
        /\ starts' > 0 /\ (starts' = 1 => lastOffset' = bd)
    BY <1>1, <1>2, <1>4, <1>6, <2>1
  <2>3. ServerInv' /\ ClientInv' /\ (\A l : Served(l) => Served(l)') /\ (Refusable => Refusable')
    BY <1>8, <2>1, <2>2
  <2>4. Served(dir)'
    BY <1>1, <1>2, <2>2 DEF Served
  <2>5. QED
    BY <1>9, <2>3, <2>4
<1>10. CASE /\ off > 0 /\ off = lastOffset /\ o.left = <<>> /\ o.last = lastOffset
            /\ o.reply.error = "none" /\ o.reply.data = Files!Truncated(<<>>, <<>>)
  <2>1. starts' = starts /\ failures' = failures /\ rem' = <<>> /\ lastOffset' = lastOffset
    BY <1>1, <1>10
  <2>2. ServerInv' /\ ClientInv' /\ (\A l : Served(l) => Served(l)') /\ (Refusable => Refusable')
    BY <1>1, <1>4, <1>6, <1>8, <2>1
  <2>3. off = offset => bm <= MaxData
    BY <1>1, <1>2, <1>3, <1>5, <1>6, <1>7, <1>10
  <2>4. QED
    BY <1>3, <1>10, <2>2, <2>3
<1>11. CASE /\ off \notin {0, lastOffset} /\ o.left = rem /\ o.last = lastOffset
            /\ o.reply.error = "Invalid argument"
  <2>a. o.reply.error # "error" /\ off \notin {0, lastOffset} /\ o.left = rem /\ o.last = lastOffset
    BY <1>11, Zenon
  <2>1. starts' = starts /\ failures' = failures /\ rem' = rem /\ lastOffset' = lastOffset
    BY <1>1, <2>a
  <2>2. ServerInv' /\ ClientInv' /\ (\A l : Served(l) => Served(l)') /\ (Refusable => Refusable')
    BY <1>1, <1>6, <1>8, <2>1
  <2>3. off = offset => bm > MaxData \/ (starts > 1 /\ (kind = "dir" \/ failures > 0))
    BY <1>1, <1>2, <1>3, <1>5, <1>6, <1>7, <2>a
  <2>4. QED
    BY <1>3, <1>11, <2>2, <2>3 DEF Refusable
<1>12. CASE kind = "dir" /\ off = 0 /\ o.left = <<>> /\ o.last = lastOffset /\ o.reply.error = "error"
  <2>1. starts' = starts + 1 /\ failures' = failures + 1 /\ rem' = <<>> /\ lastOffset' = lastOffset
    BY <1>1, <1>12
  <2>2. ServerInv' /\ ClientInv' /\ (\A l : Served(l) => Served(l)') /\ (Refusable => Refusable')
    <3>1. starts' \in Nat /\ failures' \in Nat /\ starts' >= starts /\ failures' >= failures /\ starts' # 0 /\ starts' # starts
      BY <1>1, <2>1
    <3>2. QED
      BY <1>1, <1>4, <1>8, <1>12, <2>1, <3>1
  <2>3. QED
    BY <1>12, <2>2
<1>13. CASE kind = "root" /\ off = 0 /\ o.left \in Entries /\ o.last = 0 /\ o.reply.error = "error"
  <2>1. starts' = starts + 1 /\ failures' = failures + 1 /\ rem' \in Entries /\ lastOffset' = 0
    BY <1>1, <1>13
  <2>2. ServerInv' /\ ClientInv' /\ (\A l : Served(l) => Served(l)') /\ (Refusable => Refusable')
    <3>1. starts' \in Nat /\ failures' \in Nat /\ starts' >= starts /\ failures' >= failures /\ starts' # starts /\ failures' # 0
      BY <1>1, <2>1
    <3>2. QED
      BY <1>1, <1>8, <1>13, <2>1, <3>1
  <2>3. QED
    BY <1>13, <2>2
<1>14. QED
  <2>1. \/ /\ off = 0 /\ o.left = <<>> /\ o.reply.error = "none" /\ o.reply.data = Files!Truncated(dir, dir)
           /\ o.last = (IF kind = "root" THEN 0 ELSE lastOffset) + Files!Bytes(dir)
        \/ /\ off > 0 /\ off = lastOffset /\ o.left = <<>> /\ o.last = lastOffset
           /\ o.reply.error = "none" /\ o.reply.data = Files!Truncated(<<>>, <<>>)
        \/ /\ off \notin {0, lastOffset} /\ o.left = rem /\ o.last = lastOffset
           /\ o.reply.error = "Invalid argument"
        \/ /\ kind = "dir" /\ off = 0 /\ o.left = <<>> /\ o.last = lastOffset /\ o.reply.error = "error"
        \/ /\ kind = "root" /\ off = 0 /\ o.left \in Entries /\ o.last = 0 /\ o.reply.error = "error"
    BY ReadOutcomes
  <2>2. QED
    BY <2>1, <1>9, <1>10, <1>11, <1>12, <1>13
LEMMA Shorter ==
    ASSUME NEW s \in Seq(Nat), NEW i \in DOMAIN s, NEW t, t = Files!RemoveAt(s, i)
    PROVE  t \in Seq(Nat) /\ t # s
<1>1. i \in 1..Len(s) /\ Len(s) \in Nat
  OBVIOUS
<1>2. SubSeq(s, 1, i - 1) \in Seq(Nat) /\ Len(SubSeq(s, 1, i - 1)) = i - 1
  BY <1>1
<1>3. SubSeq(s, i + 1, Len(s)) \in Seq(Nat) /\ Len(SubSeq(s, i + 1, Len(s))) = Len(s) - i
  BY <1>1, SMTT(30)
<1>4. t = SubSeq(s, 1, i - 1) \o SubSeq(s, i + 1, Len(s))
  BY DEF Files!RemoveAt
<1>5. t \in Seq(Nat) /\ Len(t) = (i - 1) + (Len(s) - i)
  <2>1. PICK a, b : a = SubSeq(s, 1, i - 1) /\ b = SubSeq(s, i + 1, Len(s))
    OBVIOUS
  <2>2. a \in Seq(Nat) /\ b \in Seq(Nat) /\ t = a \o b /\ Len(a) = i - 1 /\ Len(b) = Len(s) - i
    BY <1>2, <1>3, <1>4, <2>1, Zenon
  <2>3. t \in Seq(Nat) /\ Len(t) = Len(a) + Len(b)
    BY ONLY <2>2, ConcatProperties
  <2>4. QED
    BY <2>2, <2>3, Zenon
<1>6. Len(t) # Len(s)
  BY <1>1, <1>5
<1>7. QED
  BY <1>5, <1>6

LEMMA FilesReads ==
    ASSUME FilesInv, Files!Lists, NEW off \in Nat, Files!Reads(off), late' \in Seq(Nat),
           late' = late => fut.st = "waiting" /\ off = fut.off
    PROVE  FilesInv'
<1>1. UNCHANGED <<named, kind, offset, buffer, valid, begun, result, panicked, dir, written, got, want, listed, mine>>
  BY DEF Files!Reads
<1>2. PICK o \in {Files!ReadEntries(off)} \cup Files!ReadEntriesFails(off) :
         /\ rem' = o.left /\ lastOffset' = o.last
         /\ IF late' = late THEN fut' = [st |-> "ready", off |-> fut.off, reply |-> o.reply] ELSE fut' = fut
         /\ starts' = starts + (IF off = 0 THEN 1 ELSE 0)
         /\ failures' = failures + (IF o.reply.error = "error" THEN 1 ELSE 0)
  BY DEF Files!Reads, Files!Answer
<1>3. /\ ServerInv' /\ ClientInv' /\ (\A l : Served(l) => Served(l)') /\ (Refusable => Refusable')
      /\ o.reply.error \in {"none", "error", "Invalid argument"}
      /\ o.reply.error = "Invalid argument" /\ off = offset => Refusable
      /\ o.reply.error = "none" /\ off = 0 => Served(dir)' /\ o.reply.data = Files!Truncated(dir, dir)
      /\ o.reply.error = "none" /\ off > 0 /\ off = offset =>
            o.reply.data = Files!Truncated(<<>>, <<>>) /\ Files!Bytes(mine) <= MaxData
  BY <1>1, <1>2, ListReads
<1>4. /\ ServerInv /\ ClientInv /\ ReplyInv /\ Files!Lists' /\ kind \in {"dir", "root"}
      /\ NamedInv' /\ FutureInv' /\ ReaderInv' /\ WriterInv'
  BY <1>1, ListFrame
<1>5. ReplyInv' /\ fut'.st \in {"none", "waiting", "ready", "over"}
  <2>1. CASE late' # late
    <3>1. fut' = fut /\ offset' = offset /\ buffer' = buffer /\ mine' = mine
      BY <1>1, <1>2, <2>1
    <3>2. fut'.st \in {"none", "waiting", "ready", "over"}
      BY <3>1 DEF FilesInv, Files!TypeOK
    <3>3. /\ fut' = Files!NoCall \/ Calling(Pending)'
          /\ Calling(Pending)' => buffer' = <<>> /\ fut'.off = offset'
      BY <1>4, <3>1 DEF ReplyInv, Calling
    <3>4. ASSUME Calling({"ready"})'
          PROVE  /\ fut'.reply.error \in {"none", "error", "Invalid argument"}
                 /\ fut'.reply.error = "Invalid argument" => Refusable'
                 /\ fut'.reply.error = "none" /\ offset' = 0 =>
                       \E l : Served(l)' /\ fut'.reply.data = Files!Truncated(l, l)
                 /\ fut'.reply.error = "none" /\ offset' > 0 =>
                       /\ fut'.reply.data.whole = <<>> /\ fut'.reply.data.len = 0 /\ fut'.reply.data.cut = FALSE
                       /\ Files!Bytes(mine') <= MaxData
      <4>1. Calling({"ready"})
        BY <3>1, <3>4 DEF Calling
      <4>2. /\ fut.reply.error \in {"none", "error", "Invalid argument"}
            /\ fut.reply.error = "Invalid argument" => Refusable
            /\ fut.reply.error = "none" /\ offset = 0 =>
                  \E l : Served(l) /\ fut.reply.data = Files!Truncated(l, l)
            /\ fut.reply.error = "none" /\ offset > 0 =>
                  /\ fut.reply.data.whole = <<>> /\ fut.reply.data.len = 0 /\ fut.reply.data.cut = FALSE
                  /\ Files!Bytes(mine) <= MaxData
        BY <1>4, <4>1, Zenon DEF ReplyInv
      <4>3. QED
        BY <1>3, <3>1, <4>2, Zenon
    <3>5. QED
      BY <3>2, <3>3, <3>4, Zenon DEF ReplyInv
  <2>2. CASE late' = late
    <3>1. fut.off = offset /\ buffer = <<>> /\ off = offset /\ offset \in Nat
      BY <1>4, <2>2 DEF ReplyInv, Calling, Pending, FilesInv, Files!TypeOK
    <3>2. fut' = [st |-> "ready", off |-> fut.off, reply |-> o.reply]
      BY <1>2, <2>2
    <3>3. fut'.st = "ready" /\ fut'.off = offset /\ fut'.reply = o.reply
      BY <3>1, <3>2
    <3>4. Calling(Pending)' /\ buffer' = <<>> /\ fut'.off = offset' /\ mine' = mine /\ dir' = dir
      BY <1>1, <3>1, <3>3 DEF Calling, Pending
    <3>5. fut'.reply.error = "none" /\ offset' = 0 =>
             \E l : Served(l)' /\ fut'.reply.data = Files!Truncated(l, l)
      <4>1. SUFFICES ASSUME fut'.reply.error = "none", offset' = 0
                     PROVE  \E l : Served(l)' /\ fut'.reply.data = Files!Truncated(l, l)
        OBVIOUS
      <4>2. o.reply.error = "none" /\ off = 0
        BY <1>1, <3>1, <3>3, <4>1
      <4>3. PICK d : d = dir
        OBVIOUS
      <4>4. Served(d)'
        BY <1>1, <1>3, <4>2, <4>3 DEF Served
      <4>5. fut'.reply.data = Files!Truncated(d, d)
        BY <1>3, <3>3, <4>2, <4>3, Zenon
      <4>6. QED
        BY <4>4, <4>5, Zenon
    <3>6. fut'.reply.error = "none" /\ offset' > 0 =>
             /\ fut'.reply.data.whole = <<>> /\ fut'.reply.data.len = 0 /\ fut'.reply.data.cut = FALSE
             /\ Files!Bytes(mine') <= MaxData
      <4>1. SUFFICES ASSUME fut'.reply.error = "none", offset' > 0
                     PROVE  /\ fut'.reply.data.whole = <<>> /\ fut'.reply.data.len = 0
                            /\ fut'.reply.data.cut = FALSE /\ Files!Bytes(mine') <= MaxData
        OBVIOUS
      <4>2. o.reply.error = "none" /\ off > 0 /\ off = offset
        BY <1>1, <3>1, <3>3, <4>1
      <4>3. PICK t : t = fut'.reply.data
        OBVIOUS
      <4>4. t = Files!Truncated(<<>>, <<>>) /\ Files!Bytes(mine) <= MaxData
        BY <1>3, <3>3, <4>2, <4>3, Zenon
      <4>5. Files!Bytes(<<>>) = 0 /\ <<>> \in Entries /\ Files!Bytes(<<>>) <= MaxData
        <5>1. <<>> \in Entries
          BY DEF Entries
        <5>2. Files!Bytes(<<>>) = 0
          BY <5>1, BytesSum
        <5>3. QED
          BY <5>1, <5>2, Bounds
      <4>6. t.whole = <<>> /\ t.len = 0 /\ t.cut = FALSE
        <5>1. t.cut \in BOOLEAN /\ t.whole = <<>> /\ t.len = Files!Bytes(<<>>) /\ ~t.cut
          BY ONLY <4>4, <4>5, TruncatedIs
        <5>2. QED
          BY <4>5, <5>1
      <4>7. QED
        BY <3>4, <4>3, <4>4, <4>6, Zenon
    <3>7. /\ fut'.reply.error \in {"none", "error", "Invalid argument"}
          /\ fut'.reply.error = "Invalid argument" => Refusable'
      BY <1>3, <3>1, <3>3, Zenon
    <3>8. ReplyInv'
      BY <3>4, <3>5, <3>6, <3>7, Zenon DEF ReplyInv
    <3>9. QED
      BY <3>3, <3>8
  <2>3. QED
    BY <2>1, <2>2
<1>6. Files!TypeOK'
  <2>1. lastOffset' \in Nat
    BY <1>3 DEF ServerInv
  <2>2. QED
    BY <1>1, <1>5, <2>1 DEF FilesInv, Files!TypeOK
<1>7. QED
  BY <1>3, <1>4, <1>5, <1>6 DEF FilesInv, ListInv

LEMMA FilesServeListing ==
    ASSUME FilesInv, Files!ReadDirectory \/ Files!ReadLate
    PROVE  FilesInv'
<1>1. CASE Files!ReadDirectory
  <2>1. Files!Lists /\ fut.st = "waiting" /\ late' = late /\ Files!Reads(fut.off)
    BY <1>1 DEF Files!ReadDirectory, Files!Waiting
  <2>2. fut.off \in Nat /\ late \in Seq(Nat)
    BY <2>1 DEF FilesInv, ListInv, ReplyInv, ServerInv, Calling, Pending, Files!TypeOK
  <2>3. PICK off \in Nat : off = fut.off
    BY <2>2
  <2>4. Files!Reads(off)
    BY <2>1, <2>3, Zenon
  <2>5. QED
    BY <2>1, <2>2, <2>3, <2>4, FilesReads
<1>2. CASE Files!ReadLate
  <2>1. PICK i \in DOMAIN late : late' = Files!RemoveAt(late, i) /\ Files!Reads(late[i])
    BY <1>2 DEF Files!ReadLate
  <2>2. Files!Lists
    <3>1. late # <<>>
      BY <2>1
    <3>2. QED
      BY <3>1 DEF FilesInv, FutureInv, Files!TypeOK, Files!Lists, Used
  <2>3. late \in Seq(Nat)
    BY <2>2 DEF FilesInv, ListInv, ServerInv
  <2>4. late' \in Seq(Nat) /\ late' # late
    <3>1. PICK s, t : s = late /\ t = late'
      OBVIOUS
    <3>2. s \in Seq(Nat) /\ i \in DOMAIN s /\ t = Files!RemoveAt(s, i)
      BY <2>1, <2>3, <3>1, Zenon
    <3>3. t \in Seq(Nat) /\ t # s
      BY ONLY <3>2, Shorter
    <3>4. QED
      BY <3>1, <3>3
  <2>5. PICK off \in Nat : off = late[i]
    BY <2>1, <2>3
  <2>6. Files!Reads(off)
    BY <2>1, <2>5, Zenon
  <2>7. QED
    BY <2>2, <2>4, <2>6, FilesReads
<1>3. QED
  BY <1>1, <1>2
\* The entries of the first reply: all of them, or as many as a message takes.
LEMMA FirstEntries ==
    ASSUME NEW l \in Entries, NEW t, t = Files!Truncated(l, l), NEW new, new = t.whole
    PROVE  /\ t.all = l /\ t.len \in Nat /\ new \in Entries
           /\ \E k \in 0..Len(l) : new = SubSeq(l, 1, k)
           /\ Files!Bytes(l) <= MaxData => new = l /\ t.len = Files!Bytes(l) /\ ~t.cut
           /\ Files!Bytes(l) > MaxData => t.len = MaxData /\ (new = <<>> => t.cut)
           /\ t.len = 0 => l = <<>>
<1>1. /\ t = [whole |-> t.whole, len |-> t.len, cut |-> t.cut, all |-> l]
      /\ t.cut \in BOOLEAN /\ t.len \in Nat
      /\ \E k \in 0..Len(l) : t.whole = SubSeq(l, 1, k)
      /\ Files!Bytes(l) <= MaxData => t.whole = l /\ t.len = Files!Bytes(l) /\ ~t.cut
      /\ Files!Bytes(l) > MaxData => t.len = MaxData /\ (t.whole = <<>> => t.cut)
  <2>1. l \in Entries /\ t = Files!Truncated(l, l)
    OBVIOUS
  <2>2. QED
    BY ONLY <2>1, TruncatedIs
<1>2. t.all = l
  BY <1>1
<1>3. PICK k \in 0..Len(l) : new = SubSeq(l, 1, k)
  BY <1>1, Zenon
<1>4. new \in Entries
  BY <1>3, Prefixed DEF Entries
<1>5. t.len = 0 => l = <<>>
  <2>1. Files!Bytes(l) \in Nat /\ Files!Bytes(l) >= Len(l)
    BY BytesSum
  <2>2. MaxData \in Nat \ {0}
    BY Bounds
  <2>3. t.len = 0 => Files!Bytes(l) = 0
    BY <1>1, <2>1, <2>2
  <2>4. Len(l) \in Nat /\ (Len(l) = 0 => l = <<>>)
    BY DEF Entries
  <2>5. QED
    BY <2>1, <2>3, <2>4
<1>6. QED
  BY <1>1, <1>2, <1>3, <1>4, <1>5, Zenon

LEMMA FilesEntriesCome ==
    ASSUME FilesInv, Files!EntriesCome
    PROVE  FilesInv'
<1>1. /\ Files!Lists /\ fut.st = "ready" /\ fut' = Files!NoCall
      /\ UNCHANGED <<named, kind, valid, begun, panicked, dir, rem, lastOffset, late, written, got, want,
                     starts, failures>>
  BY DEF Files!EntriesCome, Files!Ready, Files!server
<1>2. /\ ServerInv /\ ClientInv /\ ReplyInv /\ Files!Lists' /\ kind \in {"dir", "root"}
      /\ NamedInv' /\ FutureInv' /\ ReaderInv' /\ WriterInv'
  BY <1>1, ListFrame
<1>3. ServerInv'
  BY <1>1, <1>2 DEF ServerInv
<1>4. \A l : Served(l) => Served(l)'
  BY <1>1 DEF Served
<1>5. fut'.st = "none" /\ ReplyInv'
  <2>1. fut'.st = "none"
    BY <1>1 DEF Files!NoCall
  <2>2. QED
    BY <1>1, <2>1 DEF ReplyInv, Calling, Pending
<1>6. /\ buffer = <<>> /\ fut.off = offset /\ offset \in Nat /\ mine \in Listings \cup {<<>>} /\ listed \in Entries
  BY <1>1, <1>2 DEF ReplyInv, ClientInv, Calling, Pending, FilesInv, Files!TypeOK
<1>7. /\ fut.reply.error \in {"none", "error", "Invalid argument"}
      /\ fut.reply.error = "Invalid argument" => Refusable
      /\ fut.reply.error = "none" /\ offset = 0 =>
            \E l : Served(l) /\ fut.reply.data = Files!Truncated(l, l)
      /\ fut.reply.error = "none" /\ offset > 0 =>
            /\ fut.reply.data.whole = <<>> /\ fut.reply.data.len = 0 /\ fut.reply.data.cut = FALSE
            /\ Files!Bytes(mine) <= MaxData
  <2>1. Calling({"ready"})
    BY <1>1 DEF Calling
  <2>2. QED
    BY <1>2, <2>1, Zenon DEF ReplyInv
<1>8. <<>> \in Entries
  BY DEF Entries
<1>9. SUFFICES /\ ClientInv' /\ offset' \in Nat
               /\ result' \in {"error", "Invalid argument", "too short", "entry", "end"}
  <2>1. ASSUME /\ ClientInv' /\ offset' \in Nat
               /\ result' \in {"error", "Invalid argument", "too short", "entry", "end"}
        PROVE  FilesInv'
    <3>1. Files!TypeOK'
      BY <1>1, <1>5, <2>1 DEF FilesInv, Files!TypeOK
    <3>2. QED
      BY <1>2, <1>3, <1>5, <2>1, <3>1 DEF FilesInv, ListInv
  <2>2. QED
    BY <2>1
<1>10. CASE ~Files!Succeeds(fut)
  <2>1. result' = fut.reply.error /\ UNCHANGED <<offset, buffer, listed, mine>>
    BY <1>10 DEF Files!EntriesCome
  <2>2. result' \in {"error", "Invalid argument"} /\ (result' = "Invalid argument" => Refusable)
    BY <1>7, <1>10, <2>1, Zenon DEF Files!Succeeds
  <2>3. (Refusable => Refusable') /\ result' # "end" /\ result' # "too short"
    <3>1. Refusable => Refusable'
      BY <1>1, <2>1 DEF Refusable
    <3>2. QED
      BY <2>2, <3>1, Zenon
  <2>4. ClientInv'
    BY <1>1, <1>2, <2>1, <2>2, <2>3 DEF ClientInv, Served
  <2>5. QED
    BY <1>6, <2>1, <2>2, <2>4
<1>11. CASE Files!Succeeds(fut)
  <2>1. PICK t, new : t = fut.reply.data /\ new = t.whole
    OBVIOUS
  <2>2. /\ offset' = offset + t.len
        /\ IF t.cut
           THEN buffer' = new /\ result' = "too short" /\ listed' = listed
           ELSE IF new = <<>>
           THEN result' = "end" /\ listed' = listed /\ buffer' = buffer
           ELSE listed' = Append(listed, Head(new)) /\ buffer' = Tail(new) /\ result' = "entry"
        /\ mine' = IF offset = 0 THEN t.all ELSE mine
    BY <1>11, <2>1, Zenon DEF Files!EntriesCome
  <2>3. result' \in {"error", "Invalid argument", "too short", "entry", "end"} /\ result' # "Invalid argument"
    BY <2>2, Zenon
  <2>4. CASE offset > 0
    <3>1. t.whole = <<>> /\ t.len = 0 /\ t.cut = FALSE /\ Files!Bytes(mine) <= MaxData
      BY <1>7, <1>11, <2>1, <2>4, Zenon DEF Files!Succeeds
    <3>2. /\ offset' = offset /\ result' = "end" /\ listed' = listed /\ buffer' = <<>> /\ mine' = mine
      <4>1. offset' = offset /\ offset # 0 /\ ~t.cut
        <5>1. offset' = offset + t.len
          BY <2>2, Zenon
        <5>2. QED
          BY <1>6, <2>4, <3>1, <5>1
      <4>2. QED
        BY <1>6, <2>1, <2>2, <3>1, <4>1, Zenon
    <3>3. Served(mine) /\ offset = Files!Bytes(mine) /\ listed \o <<>> = mine
      BY <1>2, <1>6, <2>4, <3>1 DEF ClientInv
    <3>4. listed = mine
      BY <1>6, <3>3 DEF Entries
    <3>5. Served(mine)'
      BY <1>1, <3>2, <3>3 DEF Served
    <3>6. /\ offset' # 0 /\ offset' \in Nat /\ mine' \in Listings \cup {<<>>} /\ listed' \in Entries /\ buffer' \in Entries
          /\ offset' = Files!Bytes(mine') /\ listed' \o buffer' = mine' /\ Files!Bytes(mine') <= MaxData
          /\ listed' = mine'
      <4>1. offset # 0 /\ offset \in Nat
        BY <1>6, <2>4
      <4>2. QED
        BY <1>6, <1>8, <3>1, <3>2, <3>3, <3>4, <4>1, Zenon
    <3>7. ~(Files!Bytes(mine') > MaxData)
      <4>1. Files!Bytes(mine') \in Nat
        BY <3>6, ListingsAre
      <4>2. QED
        BY <3>6, <4>1, Bounds
    <3>8. ClientInv'
      <4>1. result' # "too short"
        BY <3>2, Zenon
      <4>2. QED
        BY <2>3, <3>5, <3>6, <3>7, <4>1, Zenon DEF ClientInv
    <3>9. QED
      BY <2>3, <3>6, <3>8
  <2>5. CASE offset = 0
    <3>1. listed = <<>>
      BY <1>2, <2>5 DEF ClientInv
    <3>2. PICK l : Served(l) /\ t = Files!Truncated(l, l)
      BY <1>7, <1>11, <2>1, <2>5, Zenon DEF Files!Succeeds
    <3>3. l \in Listings \cup {<<>>} /\ l \in Entries
      BY <3>2, ListingsAre DEF Served
    <3>4. /\ t.all = l /\ t.len \in Nat /\ new \in Entries
          /\ \E k \in 0..Len(l) : new = SubSeq(l, 1, k)
          /\ Files!Bytes(l) <= MaxData => new = l /\ t.len = Files!Bytes(l) /\ ~t.cut
          /\ Files!Bytes(l) > MaxData => t.len = MaxData /\ (new = <<>> => t.cut)
          /\ t.len = 0 => l = <<>>
      BY ONLY <2>1, <3>2, <3>3, FirstEntries
    <3>5. offset' = t.len /\ mine' = l
      <4>1. offset' = offset + t.len /\ mine' = t.all
        BY <2>2, <2>5, Zenon
      <4>2. QED
        BY <2>5, <3>4, <4>1
    <3>6. listed' \in Entries /\ buffer' \in Entries /\ listed' \o buffer' = new
      <4>1. CASE t.cut
        <5>1. listed' = <<>> /\ buffer' = new
          BY <2>2, <3>1, <4>1, Zenon
        <5>2. <<>> \o new = new
          BY <3>4 DEF Entries
        <5>3. QED
          BY <1>8, <3>4, <5>1, <5>2, Zenon
      <4>2. CASE ~t.cut /\ new = <<>>
        <5>1. listed' = <<>> /\ buffer' = <<>>
          BY <1>6, <2>2, <3>1, <4>2, Zenon
        <5>2. <<>> \o <<>> = <<>>
          OBVIOUS
        <5>3. QED
          BY <1>8, <4>2, <5>1, <5>2, Zenon
      <4>3. CASE ~t.cut /\ new # <<>>
        <5>1. listed' = Append(<<>>, Head(new)) /\ buffer' = Tail(new)
          BY <2>2, <3>1, <4>3, Zenon
        <5>2. /\ Append(<<>>, Head(new)) \in Entries /\ Tail(new) \in Entries
              /\ Append(<<>>, Head(new)) \o Tail(new) = <<>> \o new
          BY <1>8, <3>4, <4>3, MoveHead DEF Entries
        <5>3. <<>> \o new = new
          BY <3>4 DEF Entries
        <5>4. QED
          BY <5>1, <5>2, <5>3, Zenon
      <4>4. QED
        BY <4>1, <4>2, <4>3
    <3>7. PICK b : b = Files!Bytes(l) /\ b \in Nat
      BY <3>3, ListingsAre
    <3>8. offset' = 0 => listed' = <<>> /\ buffer' = <<>> /\ mine' = <<>>
      <4>1. SUFFICES ASSUME offset' = 0
                     PROVE  listed' = <<>> /\ buffer' = <<>> /\ mine' = <<>>
        OBVIOUS
      <4>2. l = <<>> /\ mine' = <<>> /\ t.len = 0
        BY <3>4, <3>5, <4>1
      <4>3. b = 0
        BY <3>3, <3>7, <4>2, BytesSum
      <4>4. new = <<>> /\ ~t.cut
        BY <3>4, <3>7, <4>2, <4>3, Bounds
      <4>5. QED
        BY <1>6, <2>2, <3>1, <4>2, <4>4, Zenon
    <3>9. /\ b <= MaxData => new = l /\ offset' = b /\ ~t.cut
          /\ b > MaxData => offset' = MaxData /\ (new = <<>> => t.cut)
      BY <3>4, <3>5, <3>7, Zenon
    <3>10. result' = "end" => listed' = mine'
      <4>1. SUFFICES ASSUME result' = "end"
                     PROVE  listed' = mine'
        OBVIOUS
      <4>2. ~t.cut /\ new = <<>> /\ listed' = <<>>
        BY <2>2, <3>1, <4>1, Zenon
      <4>3. b <= MaxData
        BY <3>7, <3>9, <4>2, Bounds
      <4>4. QED
        BY <3>5, <3>9, <4>2, <4>3, Zenon
    <3>11. result' = "too short" => b > MaxData
      <4>1. result' = "too short" => t.cut
        BY <2>2, Zenon
      <4>2. t.cut => b > MaxData
        BY <3>7, <3>9, Bounds
      <4>3. QED
        BY <4>1, <4>2, Zenon
    <3>12. Served(mine)'
      BY <1>1, <3>2, <3>5 DEF Served
    <3>13. /\ b <= MaxData => offset' = b /\ listed' \o buffer' = l
           /\ b > MaxData => offset' = MaxData /\ \E k \in 0..Len(l) : listed' \o buffer' = SubSeq(l, 1, k)
      BY <3>4, <3>6, <3>9, Zenon
    <3>14. ClientInv'
      <4>1. /\ Files!Bytes(mine') <= MaxData => offset' = Files!Bytes(mine') /\ listed' \o buffer' = mine'
            /\ Files!Bytes(mine') > MaxData =>
                  offset' = MaxData /\ \E k \in 0..Len(mine') : listed' \o buffer' = SubSeq(mine', 1, k)
            /\ result' = "too short" => Files!Bytes(mine') > MaxData
            /\ mine' \in Listings \cup {<<>>}
        BY <3>3, <3>5, <3>7, <3>11, <3>13, Zenon
      <4>2. QED
        BY <2>3, <3>6, <3>8, <3>10, <3>12, <4>1, Zenon DEF ClientInv
    <3>15. QED
      BY <2>3, <3>4, <3>5, <3>14
  <2>6. offset > 0 \/ offset = 0
    BY <1>6
  <2>7. QED
    BY <2>4, <2>5, <2>6, Zenon
<1>12. QED
  BY <1>10, <1>11

-----------------------------------------------------------------------------
(* The files: every step, and what follows.                                *)

LEMMA FilesStutter ==
    ASSUME FilesInv, UNCHANGED filesVars
    PROVE  FilesInv'
<1>1. UNCHANGED <<named, kind, offset, buffer, fut, valid, begun, dir, rem, lastOffset, late, written,
                  result, panicked, got, want, listed, mine, starts, failures>>
  BY DEF filesVars
<1>2. Files!TypeOK' /\ NamedInv' /\ FutureInv'
  BY <1>1, ZenonT(40) DEF FilesInv, Files!TypeOK, NamedInv, FutureInv, Used, Opens
<1>3. ReaderInv'
  BY <1>1 DEF FilesInv, ReaderInv, IsRead, FileBytes, Calling
<1>4. WriterInv'
  BY <1>1 DEF FilesInv, WriterInv, Calling, Holds
<1>5. ListInv'
  <2>1. SUFFICES ASSUME Files!Lists'
                 PROVE  ServerInv' /\ ClientInv' /\ ReplyInv'
    BY DEF ListInv
  <2>2. ServerInv /\ ClientInv /\ ReplyInv
    BY <1>1, <2>1 DEF FilesInv, ListInv, Files!Lists
  <2>3. ServerInv'
    BY <1>1, <2>2 DEF ServerInv
  <2>4. ClientInv'
    BY <1>1, <2>2 DEF ClientInv, Served, Refusable
  <2>5. ReplyInv'
    BY <1>1, <2>2 DEF ReplyInv, Served, Refusable, Calling
  <2>6. QED
    BY <2>3, <2>4, <2>5
<1>6. QED
  BY <1>2, <1>3, <1>4, <1>5 DEF FilesInv

LEMMA FilesNext ==
    ASSUME FilesInv, Files!Next
    PROVE  FilesInv'
<1>1. CASE Files!PollRead
  <2>1. PICK n \in 1..MaxLen : Files!ReadBegins(n) \/ Files!ReadEnds(n)
    BY <1>1 DEF Files!PollRead
  <2>2. QED
    BY <2>1, FilesReadBegins, FilesReadEnds
<1>2. CASE \E to \in Files!Offsets : Files!SeekReader(to) \/ Files!SeekWriter(to)
  <2>1. PICK to \in Files!Offsets : Files!SeekReader(to) \/ Files!SeekWriter(to)
    BY <1>2
  <2>2. QED
    BY <2>1, FilesSeekReader, FilesSeekWriter
<1>3. CASE Files!Serve
  BY <1>3, FilesReadFile, FilesWriteRpc, FilesServeListing DEF Files!Serve
<1>4. CASE Files!Open \/ Files!Begin \/ Files!WriteSome \/ Files!Flush \/ Files!PollsAgain
  BY <1>4, FilesOpen, FilesBegin, FilesWrites, FilesPollsAgain
<1>5. CASE Files!NextEntry \/ Files!EntriesCome \/ Files!DropNextEntry \/ Files!rewind \/ Files!Change
  BY <1>5, FilesNextEntry, FilesEntriesCome, FilesDropNextEntry, FilesRewind, FilesChange
<1>6. QED
  BY <1>1, <1>2, <1>3, <1>4, <1>5 DEF Files!Next

\* A behaviour that uses the calls does not use a file.
LEMMA UnusedStays ==
    ASSUME NoFile, Files!Next
    PROVE  FALSE
<1>1. kind = "unused" /\ late = <<>>
  BY DEF NoFile
<1>2. ~Files!Open /\ ~Files!Begin
  BY <1>1 DEF Files!Open, Files!Begin, NoFile
<1>3. ~Files!PollRead /\ ~(\E to \in Files!Offsets : Files!SeekReader(to) \/ Files!SeekWriter(to))
  BY <1>1 DEF Files!PollRead, Files!ReadBegins, Files!ReadEnds, Files!SeekReader, Files!SeekWriter
<1>4. ~Files!WriteSome /\ ~Files!Flush /\ ~Files!PollsAgain
  <2>1. \A data : ~Files!WritePoll(data)
    BY <1>1 DEF Files!WritePoll
  <2>2. QED
    BY <1>1, <2>1 DEF Files!WriteSome, Files!Flush, Files!PollsAgain
<1>5. ~Files!NextEntry /\ ~Files!EntriesCome /\ ~Files!DropNextEntry /\ ~Files!rewind /\ ~Files!Change
  BY <1>1 DEF Files!NextEntry, Files!EntriesCome, Files!DropNextEntry, Files!rewind, Files!Change, Files!Lists
<1>6. ~Files!Serve
  <2>1. ~Files!ReadLate
    BY <1>1 DEF Files!ReadLate
  <2>2. QED
    BY <1>1, <2>1 DEF Files!Serve, Files!ReadFile, Files!WriteRpc, Files!ReadDirectory, Files!Lists
<1>7. QED
  BY <1>2, <1>3, <1>4, <1>5, <1>6 DEF Files!Next

FileInv == NoFile \/ FilesInv

LEMMA FileInvHolds == ClientSpec => []FileInv
<1>1. ClientInit => FileInv
  BY FilesStart DEF ClientInit, FileInv
<1>2. FileInv /\ [ClientNext]_allVars => FileInv'
  <2>1. SUFFICES ASSUME FileInv, [ClientNext]_allVars
                 PROVE  FileInv'
    OBVIOUS
  <2>2. UNCHANGED filesVars \/ Files!Next
    BY <2>1 DEF ClientNext, allVars
  <2>3. CASE UNCHANGED filesVars
    <3>1. NoFile => NoFile'
      BY <2>3 DEF NoFile, filesVars
    <3>2. FilesInv => FilesInv'
      BY <2>3, FilesStutter
    <3>3. QED
      BY <2>1, <3>1, <3>2 DEF FileInv
  <2>4. CASE Files!Next
    BY <2>1, <2>4, FilesNext, UnusedStays DEF FileInv
  <2>5. QED
    BY <2>2, <2>3, <2>4
<1>3. QED
  BY <1>1, <1>2, PTL DEF ClientSpec

LEMMA OpensAreMeant == FileInv => OpensMeant
<1> SUFFICES ASSUME FileInv, named # Files!NoName
             PROVE  OpensMeant
  BY DEF OpensMeant, Files!OpensMeant
<1>1. FilesInv
  BY DEF FileInv, NoFile
<1>2. PICK was, from, w, op : was = named.was /\ from = named.from /\ w = named.wname /\ op = named.op
  OBVIOUS
<1>3. op \in {"open_at", "open_dir_at"} /\ Opens(from, w, was, op = "open_dir_at")
  BY <1>1, <1>2, Zenon DEF FilesInv, NamedInv
<1>4. PICK meant, fits : /\ meant = Files!Meant(from, w)
                         /\ fits = {r \in meant : (Files!qid(r) = "dir") = (op = "open_dir_at")}
  OBVIOUS
<1>5. \/ was.result = "ok" /\ fits = {was.at}
      \/ was.result \in {"error", "not found"} /\ meant = {}
      \/ was.result = "fid in use" /\ Len(w) > MAXWELEM /\ op = "open_dir_at"
      \/ was.result = "no answer" /\ Len(w) > MaxQids /\ op = "open_at"
      \/ was.result \in {"is a directory", "not a directory"} /\ meant # {} /\ fits = {}
  BY <1>3, <1>4, Zenon DEF Opens
<1>6. (CASE was.result = "ok" -> fits = {was.at}
         [] was.result = "fid in use" -> Len(w) > MAXWELEM /\ op = "open_dir_at"
         [] was.result = "no answer" -> Len(w) > MaxQids /\ op = "open_at"
         [] was.result \in {"error", "not found"} -> meant = {}
         [] OTHER -> meant # {} /\ fits = {})
  BY <1>5, Zenon
<1>7. QED
  BY <1>2, <1>4, <1>6, Zenon DEF OpensMeant, Files!OpensMeant

LEMMA ListsSound == FileInv => ListingSound
<1> SUFFICES ASSUME FileInv, Files!Lists
             PROVE  ListingSound
  BY DEF ListingSound, Files!ListingSound
<1>1. FilesInv
  BY DEF FileInv, NoFile, Files!Lists
<1>2. ServerInv /\ ClientInv /\ offset \in Nat
  BY <1>1 DEF FilesInv, ListInv, Files!TypeOK
<1>3. mine \in Entries /\ listed \in Entries /\ buffer \in Entries /\ Files!Bytes(mine) \in Nat
  BY <1>2, ListingsAre DEF ClientInv
<1>4. \E k \in 0..Len(mine) : listed \o buffer = SubSeq(mine, 1, k)
  <2>1. Len(mine) \in Nat /\ SubSeq(mine, 1, Len(mine)) = mine /\ Len(mine) \in 0..Len(mine)
    BY <1>3 DEF Entries
  <2>2. CASE offset = 0
    <3>1. listed \o buffer = mine
      <4>1. listed = <<>> /\ buffer = <<>> /\ mine = <<>>
        BY <1>2, <2>2, Zenon DEF ClientInv
      <4>2. <<>> \o <<>> = <<>>
        OBVIOUS
      <4>3. QED
        BY <4>1, <4>2, Zenon
    <3>2. QED
      BY <2>1, <3>1, Zenon
  <2>3. CASE offset > 0
    <3>1. CASE Files!Bytes(mine) <= MaxData
      <4>1. listed \o buffer = mine
        BY <1>2, <2>3, <3>1 DEF ClientInv
      <4>2. QED
        BY <2>1, <4>1, Zenon
    <3>2. CASE Files!Bytes(mine) > MaxData
      BY <1>2, <2>3, <3>2 DEF ClientInv
    <3>3. QED
      BY <1>3, <3>1, <3>2, Bounds, SMTT(30)
  <2>4. QED
    BY <1>2, <2>2, <2>3
<1>5. Files!IsPrefix(listed, mine)
  <2>1. PICK k \in 0..Len(mine) : listed \o buffer = SubSeq(mine, 1, k)
    BY <1>4
  <2>2. PICK s, t, m : s = listed /\ t = buffer /\ m = mine
    OBVIOUS
  <2>3. s \in Entries /\ t \in Entries /\ m \in Entries /\ k \in 0..Len(m) /\ s \o t = SubSeq(m, 1, k)
    BY <1>3, <2>1, <2>2, Zenon
  <2>4. Len(s) \in Nat /\ Len(t) \in Nat /\ Len(m) \in Nat
    BY <2>3 DEF Entries
  <2>5. Len(SubSeq(m, 1, k)) = k /\ \A i \in 1..k : SubSeq(m, 1, k)[i] = m[i]
    BY ONLY <2>3, Prefixed DEF Entries
  <2>6. Len(s \o t) = Len(s) + Len(t) /\ \A i \in 1..Len(s) : (s \o t)[i] = s[i]
    BY <2>3 DEF Entries
  <2>7. Len(s) + Len(t) = k
    BY <2>3, <2>5, <2>6, Zenon
  <2>8. Len(s) <= Len(m) /\ \A i \in 1..Len(s) : i \in 1..k
    BY <2>3, <2>4, <2>7
  <2>9. \A i \in 1..Len(s) : s[i] = m[i]
    BY <2>3, <2>5, <2>6, <2>8, Zenon
  <2>10. SubSeq(s, 1, Len(s)) = SubSeq(m, 1, Len(s))
    <3>1. SubSeq(s, 1, Len(s)) = [i \in 1..Len(s) |-> s[i]]
      BY <2>3, <2>4 DEF Entries
    <3>2. SubSeq(m, 1, Len(s)) = [i \in 1..Len(s) |-> m[i]]
      BY <2>3, <2>4, <2>8 DEF Entries
    <3>3. QED
      BY <2>9, <3>1, <3>2
  <2>11. Files!IsPrefix(s, m)
    BY <2>8, <2>10 DEF Files!IsPrefix
  <2>12. QED
    BY <2>2, <2>11, Zenon
<1>6. /\ result = "end" => listed = mine
      /\ result = "too short" => Files!Bytes(mine) > MaxData
      /\ result = "Invalid argument" => Refusable
  BY <1>2 DEF ClientInv
<1>7. QED
  BY <1>5, <1>6, Zenon DEF ListingSound, Files!ListingSound, Refusable

\* Whatever path a file or a directory is opened by, and from whatever directory,
\* what is opened is what the path means, and an error has its reason (open_at,
\* open_dir_at; walk and walk_one), as has a call without an answer: for any tree of
\* shares.
THEOREM OpensCorrect == ClientSpec => []OpensMeant
  BY OpensAreMeant, FileInvHolds, PTL

\* A future that has ended is polled again only after an error, however polls, seeks
\* and answers are interleaved (poll_read and poll_flush).
THEOREM PollsCorrect == ClientSpec => []PolledOnce
<1>1. FileInv => PolledOnce
  BY DEF FileInv, NoFile, FilesInv, FutureInv, PolledOnce, Files!PolledOnce
<1>2. QED
  BY <1>1, FileInvHolds, PTL

\* What is read are the bytes of the file where the reader is, and Twrites send what
\* is written once, with the offsets it is written at: for files, buffers and
\* messages of any size, however short the server's reads are and whichever Twrites
\* fail (poll_read, poll_flush and start_seek).
THEOREM BytesCorrect == ClientSpec => []BytesExact
<1>1. FileInv => BytesExact
  <2>1. NoFile => BytesExact
    BY DEF NoFile, BytesExact
  <2>2. FilesInv => Files!ReadsExact
    BY DEF FilesInv, ReaderInv, IsRead, Files!ReadsExact
  <2>3. FilesInv => Files!WritesExact
    BY DEF FilesInv, WriterInv, Files!WritesExact
  <2>4. QED
    BY <2>1, <2>2, <2>3 DEF FileInv, BytesExact
<1>2. QED
  BY <1>1, FileInvHolds, PTL

\* A listing has the entries of the directory as it was at the first read, in order
\* and each once, and fails on its own account only when it does not fit or was read
\* from the start twice: for directories of any size and however reads are dropped,
\* fail or come late (next_entry, rewind, OpenResource::read).
THEOREM ListingCorrect == ClientSpec => []ListingSound
  BY ListsSound, FileInvHolds, PTL
=============================================================================
