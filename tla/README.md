# ninewire, specified and checked

ninewire serves files over 9P.  A server registers a name with a *mediator*; a
client asks the mediator for the name; both sides then connect to each other by
a UDT *rendezvous*, put a Noise handshake on top and speak 9P over datagrams.
The Rust crates are small and asynchronous; the UDT library under them
(`udt-sys/udt`, C++) is large, old and threaded.  These modules say what the
parts that carry the logic do, TLC checks them on small instances, and TLAPS
proves for every instance the safety of the server loop, the client's tags and
fids, its files, listings and paths, the mediator, the secure transport, the
rendezvous connection, the sockets and their collector, the waits of RPoll, the
event, and the structures that the workers of a multiplexer share.

Paths below are relative to the repository root.

## 1. Inventory

| Component | State | Operations | Talks to | Hard because | Correct when |
|---|---|---|---|---|---|
| 9P server loop, `server/src/np/client.rs` | `FuturesUnordered` of requests, fid table under an `RwLock`, session | receive, poll a dispatch future, send, flush, version | transport, resources | futures interleave at awaits; flush and version cut requests off; one task polls everything, itself included | each datagram is answered once or cut off for a stated reason; nothing crosses a version; conflicting requests keep their order |
| resources, `server/src/res` | path or open file, directory offset | walk, open, read, write, stat | file system | partial walks, `..`, symbolic links; offsets of a listing that changes | a path leads to what it means; a listing has each entry once |
| 9P client, `client/src/fs`, `util/src/fidpool.rs` | tags with a `oneshot` each, pool of fids, handles; a pinned future, offset and buffer per reader, writer and listing | every call of `Directory`, `File`, `ReadDir`; poll, seek, rewind; drop | transport | a call may be dropped at any await; a handle's clunk runs in a spawned task; a future is kept between polls | a reply goes to its own call; a fid is in use by one handle, and comes back; bytes are asked for and sent once and with their place |
| mediator, `mediator/src/main.rs` | map of names, per-stream channel and table of requests | Rendezvous, Register | client and server | a call keeps a map entry locked over two awaits; streams end at any time | a client gets the server that said yes to it; every call ends |
| secure transport, `transport/src/lib.rs` | outgoing nonce, set of nonces seen | connect, send, recv | UDT | concurrent senders and receivers, dropped sends, datagrams repeated or out of order | a nonce seals one body; a body is opened once, and none is refused for another's fault |
| UDT wrapper, `udt/src/lib.rs`, `udt-sys/src/rpoll.rs` | map of `Notify` pairs | recv, send, flush, drop | UDT threads | try, register, try again, await, against four threads | no wakeup is lost, no wait outlives the socket |
| UDT transfer, `core.cpp`, `buffer.cpp`, `window.cpp` | both ends of a connection | sendmsg, recvmsg, packData, processData, processCtrl, checkTimers | queues | loss, duplication, reordering, wrap of the numbers, three threads a side | messages arrive whole, once, and in order where asked; they do arrive |
| loss lists, `list.cpp` | ring of slots with links | insert, remove, getLostSeq | transfer | links in an array, ranges across the wrap | they are sets of sequence numbers (one operation is not, section 6) |
| sending queue, `queue.cpp`, `udtCommon.cpp` | heap, two locks, sleep | insert, update, remove, pop, worker | transfer | check without the lock, then wait | the worker does not sleep through work |
| receiving queue, `queue.cpp` | timer list, hash, new entries; pool of units | register, worker, timer check; getNextAvailUnit, free | transfer, sockets, collector | the collector deletes what the worker lists; the pool's count is changed by two threads without a lock | nothing listed is deleted, timers of all sockets run, a free unit is found |
| event, `rsynch.h` | counter, semaphore | set, wait_for | timer, collector | two words changed in separate steps | a set wakes one, none is invented |
| sockets, `api.cpp` | socket tables, multiplexer, listener queue | newSocket, bind, listen, accept, newConnection, close, collect | all threads | three threads, tables under several locks, memory freed by a timer | nothing is freed while it is referred to, everything closed is freed |
| rendezvous, `core.cpp`, `queue.cpp` | `m_lRendezvousID`, `m_mBuffer`, `m_ConnReq`, `m_ConnRes` | connect, connect(response), updateConnStatus, storePkt, close | peer, receiving worker | symmetric handshake over UDP, TTL checked by two threads | both ends connect, to each other |

What is not modelled, and why, is in section 7.

What is hard to test in this code is listed under `hazards` in `PROJECT.json`,
each at its line with the properties that watch it.

## 2. Modules and how they correspond to the code

`PROJECT.json`, `map`, names the lines behind every definition.  Operators keep
the source's names where a function is translated as such (`addData`, `scanMsg`,
`insert_`, `newSocket`); actions that are a part of a function are named for
what they do.  Operators called `X_Something` are deliberately wrong variants
of `X`: each property is violated when `X` is replaced by one of them, which
shows that the property depends on the code.

- **NpServer**: one connection of the 9P server.  `handle_client` is the variable
  `pc`; a dispatch future is a record with its place in the queue of the table's
  lock (`ticket`; tokio's `RwLock` is first come, first served, modelled as
  external).  `Recv*` are the receiving arm of the `select!`, `Poll` one step of
  a future, `Finish*` the body of dispatch per request type, `SendAnswer`,
  `SendFlush`, `TakeSession`, `ClearTable`, `SendVersion` the rest of the loop.
  `out`, `recvd`, `discarded`, `superseded` are histories.
- **NpClient**: calls, tags, fids, handles, the receiving task; the server is
  reduced to what a client relies on (conflicting requests in order), which is
  what NpServer's `ConflictOrder` states.  A request that names a path, and the
  answer to a walk, may be too large for a message (`Lengthy`, result `"long"`):
  the one is not received by the server, the other not by the client.
- **NpPath**: `walk`, `walk_one`, `open` of the server and `open_at`,
  `open_dir_at` of the client as operators, and next to them what a path means
  (`Meant`), a relation on the tree of shares that knows nothing of Twalk.
  **NpFiles**: a file is opened by its path and used by a `FileReader`, a
  `FileWriter` or a `ReadDir`; each poll of their futures is an action, the
  server's `OpenResource::read` and `write` are the others.  `written` is a history
  of the bytes that the Twrites carried; the server keeps none of them.
- **Mediator**: both calls step by step between awaits; `locked` is the map's
  bucket, kept by a Rendezvous until it ends.
- **UdtSeq**, **UdtRcvBuffer**: `CSeqNo` and `CRcvBuffer` as operators.
  **UdtTransfer**: two connected ends, the application and worker threads of
  each, and a network that loses, repeats and reorders.  **UdtChannel**: what a
  connection promises; UdtTransfer implements it (`Implements`).
- **UdtLossRing**, **UdtSndLossList**, **UdtRcvLossList**: the lists slot by slot;
  **UdtLossSet**: the set they stand for (`ImplementsSet`).  The receiving list
  implements it but for a range removed over the wrap (`ImplementsSetButWrap`).
- **UdtSndBuffer**: `CSndBuffer` as a ring of linked blocks that grows, with the
  application that fills it, the sending worker that reads it and the receiving
  worker that lets blocks go; filling, `m_pLastBlock` and `m_iCount` are apart, as
  are the reading of a packet and its sending.  **UdtSndStore**: the queue that
  UdtTransfer takes it for (`ImplementsStore`).
- **UdtAckWindow**: `CACKWindow` slot by slot; **UdtAckLog**: the sequence that
  UdtTransfer takes it for (`ImplementsLog`).
- **UdtSndUList**, **UdtSndQueue**: heap operators, and the worker with both
  locks, the wait and the interruptible sleep.  The loops of `insert_` and `remove_`
  are written by where they end: the highest, or lowest, position on the path to
  the root up to which the entries are exchanged.
- **UdtRcvQueue**: the receiving worker's turn (new entries, a packet, the
  timers) with `CRcvUList`, `CHash` and `m_vNewEntry`, against the threads that
  connect and close and the collector, which waits for `m_bOnList`.
- **UdtUnitQueue**: `CUnitQueue`.  `++` and `--` of `m_iCount` are a load and a
  store, so that one of two may be lost; the flags have one writer at a time.
- **RsynchEvent**: `AutoResetEvent`, every atomic step apart.
- **SecureTransport**: `connect`, `send_with` and `recv` of both sides, several
  tasks each.  Sealing takes a nonce in one step and hands the datagram to the
  connection in another; a receive takes a datagram and opens it, or panics when
  it is shorter than a nonce (`Short`).  The connection below it is external and
  may repeat, exchange, damage and shorten datagrams, which is what the code
  guards against; it implements **UdtChannel** again in each direction
  (`ImplementsChannel`).
- **UdtReady**: `Connection::recv/send/flush`, RPoll, the receiving worker,
  `CUDT::close` in its four steps and the collector, for one connection.
- **UdtSockets**: `CUDTUnited` with application, receiving worker and collector
  on one port.
- **UdtRendezvous**: `CUDT::connect` with `m_bRendezvous`, which is the only way
  in which the program connects (`transport/src/lib.rs`, `connect_datagram(addr,
  true)`), with the receiving worker of each side.
- **NpServerProofs**, **NpClientProofs**, **MediatorProofs**, **SecureTransportProofs**,
  **UdtReadyProofs**, **UdtSocketsProofs**, **UdtRendezvousProofs**,
  **UdtQueuesProofs**: theorems about the module of that name (NpClientProofs also
  about NpFiles and NpPath, which MCNpClient puts beside NpClient; the last about
  RsynchEvent, UdtSndQueue, UdtRcvQueue and UdtUnitQueue, which MCUdtQueues puts
  together).  **MC...**: constants for TLC.  MCNpClient, MCMeeting, MCUdtQueues and
  MCUdtStructures put several components that share nothing into one run: an
  initial state starts one of them and leaves the others "unused", with no step
  enabled (or, in MCUdtStructures, a step uses one while the others are as at
  first), so that the states are the sum and not the product.

## 3. Runs

Deadlock checking is off where the system stops by design: a connection is
closed, all messages are delivered, every socket is freed.  `udt_structures`
checks it.

A property that a run checks may be the conjunction of several, given in
parentheses, so that one question has one name; such an invariant also includes
the module's type invariant `TypeOK`.

| Run | What it checks | Bounds, and why they are enough |
|---|---|---|
| `server` | `AnsweredOnce`, `NothingForgotten`, `FlushBarrier`, `VersionFence`, `ConflictOrder`, `FidKept`, `EventuallyAnswered` | 4 datagrams, 2 in flight, 2 tags, 2 fids, all request types: a request, its flush, a second flush of it or a version, and a request after; two in flight are enough to reach the limit and to interleave |
| `udt_transfer` | `Consistent` (`SameSeqSamePacket`, `LossHeld`, `LossListExact`, `AckKnown`, `NeverBroken`), `NothingLost`, `Implements` | 3 messages of which the second may overtake and the third, of two packets, may not, 16 sequence numbers from 14 so that they wrap, buffers of 2 and 3, 2 packets on the way: each timer, NAK, lite ACK, full window and full buffer occurs |
| `udt_transfer_live` | `EventuallyReceived` | a message of two packets that fills the buffer behind an unread one, 8 numbers from 7 |
| `udt_structures` | `RingsSound` (of the loss lists `NoResidue`, `LastInChain`, `ChainsAgree`; of the sending buffer `RingExact`, `PayloadOwn`; of the ACKs `NumbersFollow`), `RingsImplement` (`ImplementsSet` of the sending list, `ImplementsSetButWrap` of the receiving one, `ImplementsStore`, `ImplementsLog`) | rings of 4 slots, ranges across the wrap; a buffer that grows from 2 to 4 blocks, messages of 1 to 3 packets; 2 ACKs of 4 numbers, so that the ring turns, starts over and overwrites |
| `udt_structures_wrap` | `RcvImplementsSet`, violated | as above; see section 6 |
| `client` | of the calls `Accounted` (`OneOwner`, `FidsFresh`, `FidsKnown`, `NoneForgotten`), `OwnReply`; of the files `OpensMeant`, `BytesExact` (`ReadsExact`, `WritesExact`), `PolledOnce`, `ListingSound`; `ClientGoesOn` (`EveryCallEnds`, `FidsReturn`, `FlushEnds`) | 3 tags, 2 fids, paths that need two walks or do not fit a message: a call, a cancelled one and a clunk at once.  2 shares with a directory, a file and a symbolic link, every path of up to 3 names from every directory with `MAXWELEM` and `MaxQids` 2; a file of 3 bytes, writes of 1 to 3 bytes of which 2 fit a message; listings that are empty, fit, fill the message and exceed it; 3 uses of the file, so that one follows a rewind or a seek with another under way |
| `meeting` | of the transport `NonceSound` (`NonceOnce`), `NothingRefused`, `HandshakeSound`, `ImplementsChannel`, `TransportGoesOn`; of the mediator `NamesSound` (`RightServer`, `OneStream`), `CallsEnd` (`EveryRendezvousEnds`, `EveryRegisterEnds`) | 2 tasks that send and 2 that receive on each side, 1 and 2 datagrams, 2 faults, keys that match or do not: a repetition of a damaged datagram, a late one behind two, or short ones for both tasks.  2 names in one bucket, 2 calls, 3 streams of which two want the same name |
| `udt_ready` | `WaitsSound` (`NoLostWakeup`, `Reachable`, `NoPanic`), `EveryWaitEnds` | one task of each kind, 2 messages, 1 block |
| `udt_queues` | of the event `WakesPaid`, `SetKept`, `SetSeen`; `QueuesSound` (of the sending queue `Attended`, of the receiving one `RcvListSound`, of the pool `UnitsExact`); `WorkersGoOn` (`ListServed`, `JoinEnds`, `TimersRun`), `PoolGoesOn` (`PoolServes`) | 2 setters, 2 waiters, 6 sets; 3 sockets (a heap with two children, a list with a middle), 2 threads, times to 3; a pool of two `CQEntry` of 3 units, one buffer that reads while the worker fills it, and the limit of 9/10 as 1/2, so that the pool grows as it does in the code: there 31 of 32 units can be handed out, which is more than 9/10, here 2 of 3 |
| `udt_sockets` | `TablesAgree` (`RefsExact`, `UnacceptedOpen`, `OnePerRequest`), `NoDangling`, `CollectorGoesOn` (`ClosedIsFreed`, `CleanupEnds`) | a listener, 2 peers, 2 connections, backlog 1 |
| `udt_rendezvous` | `EndsAgree` (`Agreement`, `PeerKnows`, `NoFalseSuccess`), `BothConnect` | one socket a side, one packet kept by `storePkt` so that it also drops, an unfilled request from one side |
| `udt_rendezvous_dangling` | `NoStaleConnector`, violated | as above; see section 6 |

Every bound is a named constant of its module.

## 4. Fairness

Liveness is checked under a specification with `Fairness` only (`FairSpec`, or the
specification of the MC module where several components share a run).

- Threads and tasks are scheduled: weak fairness of each worker, of the task of
  `handle_client`, of the applications where the property is about them.  The
  receiving worker returns from `recvfrom` every few milliseconds whether or not
  something came, and the timers are checked in the same loop.
- `recvfrom` returns after 10 ms at the latest, so that in UdtRcvQueue time passes
  in every turn, and a pool that is full is tried again (UdtUnitQueue); nobody has
  to read from a buffer.
- Each side of a SecureTransport keeps a receive going (`handle_client` and the
  client's receiving task do) until it panics, and `connect` is awaited; nothing
  makes a side send.
- A writer that flushes polls until the flush ends (NpFiles).
- File system calls end, the transport takes a datagram or fails (NpServer).
- Nothing makes a client send, a peer close or a TTL pass.
- The network (UdtTransfer, UdtRendezvous) is fair-lossy: what is sent again
  and again arrives again and again.  Nothing is assumed of what is sent once:
  in UdtRendezvous only the current request of a waiting socket (repeated every
  250 ms) and what a connected socket sends to it are fair.
- Strong fairness where a mutex is taken that others take and release again and
  again (`pop`, `NextProcTime` in UdtSndQueue; `Unlist` in UdtSockets).

## 5. Proofs

Every proof has the same shape: the types, then one lemma per action (or group of
actions) that says what it does to each part of the inductive invariant, then the
theorem.  The parts are defined in the component's module, after its properties,
or, for the files of the client and the structures of the multiplexer, in front of
the proof; TLC has checked that they hold.

`NpServerProofs`, from `ConstAssumption` alone (the reserved tag and fid are not
ordinary ones, `MAX_IN_FLIGHT` is positive), for any tags, fids, requests and
number of datagrams:

- `TypeCorrect`: `TypeOK`, action by action (`ReceiveTypes`, `CompleteTypes`,
  `StepTypes`).
- `AnswersOnce` and `ForgetsNothing`: `AnsweredOnce` is not inductive, because
  nothing in it says that the number of the next datagram is new, nor what the
  loop holds in each of its states.  The strengthening is `LoopInv` (what `pc`
  says of the answer being sent and of the session that waits) with `OnceInv`:
  `AnsweredOnce` and `NothingForgotten` together, `IdInv` (every number is one
  that was given out), and the answer being sent is not the flush it carries.
  Each step moves one number from one of these places to another.
- `VersionIsFence`: with `FenceInv`, what still has an answer coming arrived after
  every Tversion that was answered.
- `ConflictsInOrder`: with `TicketInv` (the lock's queue is in order of arrival,
  and what has not joined it arrived later) and `OrderInv` (what took effect
  arrived before everything in conflict with it that did not).
- `FlushIsBarrier`: with `FlushInv`, as long as the client uses no tag twice: a
  Tflush that is attached is attached to the only future of its oldtag, and one
  that is answered at once found none.
- `FidsKept`: the action property, step by step.  What a request does to its fids is
  seen action by action; that it is the oldest in flight which names the fid follows
  from `TicketInv`: a request that changes the table has the lock alone, so that all
  that arrived before it have ended (`ExclusiveIsOldest`).

`SecureTransportProofs`, from `TransportAssumption` (numbers are numbers, the
connection holds at least one datagram), for any tasks, datagrams and faults:

- `NonceCorrect`: with `SealInv`, the nonces of a side are 0, 1, 2, ..., the
  counter is the next, and each body has its own.
- `RefusedCorrect`: with `DatagramInv` (wherever a datagram is whose seal holds,
  the other side sealed it, with the nonce in front of it) and `OpenInv` (the
  nonces entered are those of the bodies returned): a datagram whose nonce was
  entered is one whose body was returned.
- `HandshakeCorrect`: with `HandshakeInv`, which says what is on the way for each
  pair of states of the two connects, as long as the keys match and nothing has
  gone wrong; that the datagrams of a fast responder stay behind its handshake
  message is the part that is not inductive without it.
- `ChannelCorrect`: each direction implements **UdtChannel**; `Open` maps to
  `Receive`, `Seal` to `Send`, all other steps to a stutter.

`MediatorProofs`, from `MediatorAssumption` (a hypothesis of the theorem, and an
assumption of MCMeeting: each call and stream has a name, each
name a bucket, and `None` is none of them), for any number of each:

- `NamesCorrect`: with `TableInv` (the map knows every open stream under its name
  and no name stands for another's stream; an entry that a call keeps locked does
  not vanish) and `RequestInv` (ids are given once in a stream, and an id on its
  way to the server, in flight or on its way back stands for one call).

`NpClientProofs`, from `ClientAssumption` (there is a tag and a fid), for any number
of tags and fids and with paths of any length:

- `RepliesCorrect`: with `TagInv` (a tag stands for one call, and for a request to
  be sent, a request under way or a reply under way, never two of them), `AskInv`
  (a call waits for the answer to what it asked) and `BudgetInv`, which counts the
  tags in use, the calls that begin and the handles that are still to be clunked.
  The last is why there is a tag for every call that begins; the application of
  the model starts a call only while that is so (`Start`), as the code has 65535
  tags and no limit on calls.  From it also follows that a name is left for
  every call, by counting what refers to one.
- `FidsCorrect`: with `PoolInv` and `CallInv` (who has each handle), `RequestInv`
  (what a request under way will find at the server: the fids that it names have
  a handle, those that name a fid go before its clunk) and `TableInv` (what a
  handle and a call know of the server's table).  A call that is dropped leaves
  its request under way, so that these say more than a call knows: the clunk of
  the dropped handle is behind it.  A request or a reply that is lost because it is
  too large leaves less under way than before (`RequestLost`, `ReplyLost`).

The same module proves of the calls and the files together (`ClientSpec`), from
`FilesAssumption`, for any file, any listings and any tree of shares, what follows.
The assumption says that an Rwalk has room for as many qids as a Twalk of `open_dir_at`
has names, a message has room for a byte (an `msize` below 256 is refused,
`server/src/np/client.rs:263`), an entry of a listing has a length and a listing is
shorter than 2^32; and that the shares are a tree: every node but a share is in a
directory, `..` is no name and `rpc` no share, and a share is no symbolic link,
because `walk_one` finds a share with `fs::metadata`, which follows links.  The
invariant is `FilesInv`, for a file that is used:

- `OpensCorrect`: `NamedInv` says of what is open what `OpensMeant` does (`Opens`).
  The work is in the lemmas: what `walk_one` finds is the one node that the name
  leads to, if there is one (`WalkOne`, over `NodesAre`), so that the walk of the
  server and the meaning of the path agree name by name (`WalkMeans`), and once a
  name means nothing the rest does not either (`MeantNothing`).
- `PollsCorrect`: `FutureInv`; a future that has ended is valid only after an error.
- `BytesCorrect`: `ReadsExact` and `WritesExact` are not inductive: they say nothing
  of the call under way.  `ReaderInv` has that a read which is valid is one at the
  reader's offset, and that its reply is of the bytes there (`IsRead`); `WriterInv`
  that what is being written is a beginning of the buffer, and that a reply means
  that the Twrites have carried that many of its bytes already (`Holds`), so that to
  take them off the buffer and to move the offset changes nothing (`LayRest`), and to
  send a part of the buffer neither (`LayTwice`).
- `ListingCorrect`: `ServerInv` (a read leaves something in `rem` only when it failed
  at the start), `ClientInv` (where the client is in the listing that it began with,
  and what it has returned and has in its buffer are a beginning of it) and
  `ReplyInv` (what a reply holds, whatever reads without a caller run before it is
  received).  `Served` ties the two sides: where the server's count is once a listing
  was read from the start, and that it is elsewhere only after a second such read.

The library's induction theorems cannot be used here, since they have an operator
for a parameter.  What these proofs need of it (the length of a listing, the walk
along a path) is the lemma `Climbs` about a set of numbers, from the well-founded
order of the naturals; for a recursive function a predicate says that a function
satisfies the recursion (`IsSum`, `IsWalk`, `IsMeant`), and `Climbs` that there is one.

`UdtReadyProofs`, from `ReadyAssumption` (bounds are positive):

- `WaitsCorrect`: with `WaitInv`, which says how far the two closes are when a
  task is between its attempt and its wait: the application closes when no task
  runs, the collector when no call can find the socket, and nobody else takes
  RPoll's entry away.

`UdtSocketsProofs`, from `SocketsAssumption` (ids of listeners and connections are
different numbers, finitely many listeners; the backlog is positive), for any
number of listeners, connections and peers:

- `TablesCorrect`: `RefsExact` is a cardinality of a set that every step which
  binds, makes, breaks or frees a socket changes by one.  Beside it the
  invariant has what each actor relies on about the others: `AppInv` (a
  listener that the application holds is in the table), `MuxInv` (who uses the
  multiplexer, and when it may be deleted), `QueueInv` (what waits on a listener
  is its own and nobody else's), `PeerInv` (of the connections of one request all
  but the newest are dead, since ids count down) and `WorkerInv` (what
  `newConnection` knows of its listener, its request and the socket that it makes
  in each of its steps, while the collector and the application go on).
- `NothingDangles`: what the collector frees is not on the worker's list, and no
  listener is freed while the worker has it, from the same invariant.

`UdtRendezvousProofs`, from `RendezvousAssumption` (a pair of addresses is used
once, and 0 is no socket), for any number of hosts and sockets and any limit on
the packets kept:

- `RendezvousCorrect`: `EndsAgree` says what two sockets know of each other, and the
  steps see only packets, of which any that was ever sent may arrive at any time.
  The invariant ties the two through them: `NetInv` (a packet says something of its
  sender that stays true: a request of type -1 comes from a socket that has a
  response, -2 or data from a connected one, a shutdown from a closed one),
  `BufferInv` (a packet is kept for the one socket that its sender calls, which
  is where `CRendezvousQueue::retrieve` and the uniqueness of the pair come in)
  and `SocketInv` (a recorded response is one that the other end has sent, and a
  connection is made only when both ends have one).  `NoFalseSuccess` is part of the
  inductive invariant, `Agreement` and `PeerKnows` follow from it.

`UdtQueuesProofs`, from `EventAssumption` (finitely many threads) and
`QueuesAssumption` (`None` is no socket and no thread, the pool and its parts are
not empty), for any sockets, threads, buffers and sizes:

- `NoWakeInvented` and `SetIsKept`, from `PaidInv`: the sets begun are at least
  the wakes, plus the count of the semaphore, plus the posts still to come, plus
  one when the counter is 1.  The cardinality of the threads about to post is
  handled with the finite set theorems.
- `PoolSound` (`UnitsExact`), from `PoolInv`: beside `UnitsExact`, the worker holds a unit
  only while it receives into it, and what it has counted is no more than the
  pool.  That `Scan` finds a unit of the right queue is the lemma `ScanFinds`.
- `RcvSound` (`RcvListSound`), from `RcvInv`: `KnownAlive` is not inductive, because a socket
  that is in two places would be taken off one of them and deleted; `OnePlace`
  says that it is in one, and `InHand` where the one in the worker's hand is.
- `SndSound` (`Attended`), from `SndInv`: `NoLostNotify` also holds in the step before the
  wait, since the worker has `m_WindowLock` from its look at the list on
  (`Notified`).  That no socket is in the heap twice rests on `insert_` and `remove_`
  moving each entry to a place of its own (`HeapInserted`, `HeapRemoved`, from
  `HeapMoved`): the path from a node to the root has one node for each distance
  (`PathApart`), for a heap of any size.
- `QueuesAreSound`: `QueuesSound` of the composition.

Only model-checked: everything about liveness (the prover has no fairness or
ENABLED); `RingsSound` and `RingsImplement` of the loss lists, whose operators are
RECURSIVE, which the prover does not take; and `Consistent`, `NothingLost` and
`Implements` of UdtTransfer, whose sequence numbers wrap and whose invariant would
have to tie the windows, loss lists and buffers of both ends to every packet on the
way, in arithmetic modulo the size of the sequence space.

## 6. Disagreements met while modelling

Shown by a run:

- **A timed-out rendezvous leaves a dangling pointer** (`udt_rendezvous_dangling`).
  At the TTL `updateConnStatus` (`queue.cpp:768`) clears `m_bConnecting` and keeps
  the entry; `CUDT::close` (`core.cpp:885`) removes the entry only when
  `m_bConnecting` is set.  The socket is then closed and deleted with its entry in
  `m_lRendezvousID`.  UdtRendezvous does not follow what the worker does with it.
- **A range removed over the wrap keeps the largest number** (`udt_structures_wrap`).
  `CRcvLossList::remove(seqno1, seqno2)` is to "remove all packets between seqno1 and
  seqno2" (`list.h:137`); over the wrap its loop ends before the largest sequence
  number (`list.cpp:618`), which stays in the list, so that the ACKs stop there.  It
  is called for a drop request only, which the sender of a message with a TTL
  makes; the program sends none.  `RingsImplement` states that nothing else differs
  from the set (`RemoveRangeOverWrap`).

Visible in the models, without a run of their own; the properties name the case
they except:

- `connect()` ends its loop on `connect(response) <= 0` and then succeeds unless
  the response says 1002 (`core.cpp:598`): after the worker's TTL, or when the
  peer's shutdown overtakes its handshake, it returns success without a
  connection.  `NoFalseSuccess` states these are the only ways.
- `addBuffer` shows a message to the worker (`m_pLastBlock`, `buffer.cpp:143`)
  before it adds it to `m_iCount`, the "number of used blocks" (`buffer.h`): sent
  and acknowledged in between, it makes the count negative for a moment.
  `UDT_SNDDATA` returns it as it is and `send_data` (`udt/src/lib.rs:75`) converts it
  to an unsigned number with `unwrap()`.  The program flushes only in the task that
  sends, so it does not see this.  `RingExact` states how far the count is off.
- An ACK2 that comes within a microsecond of its ACK is taken for an unknown one
  (`rtt <= 0`, `core.cpp:1412`) although it is dropped from the history; the ACK is
  then sent again.  UdtTransfer has both outcomes.
- `m_llLastReqTime` has no initial value, so the worker may send `m_ConnReq`
  before it is filled in; the peer may then record ISN 0 (`Torn` in `Agreement`).
- When a pair of addresses is used for a second attempt while packets of the
  first are on the way, the last recorded response may be of the wrong attempt.
  The program uses a pair once (each client binds its own port), and
  `RendezvousAssumption` says so.
- The collector joins the receiving worker with `m_ControlLock` held
  (`api.cpp:862`), for which the worker may be waiting in `newConnection`:
  `JoinsInVain` in UdtSockets.  And the collector's last pass may free a listener
  whose un-accepted sockets are closed already (`api.cpp:828`), so `UnacceptedOpen`
  is stated while it runs.
- A comment in `send_with` says that "datagrams can still arrive out of order even
  with this set" (`transport/src/lib.rs:107`), of messages that are sent in order.
  `Implements` shows that on one connection, read by one thread, a message sent in
  order overtakes none.  What may still be out of order are the nonces: taking one
  and handing the datagram over are two steps (`Seal`, `Hand`), so that of two tasks
  that send the later nonce may go first; and of two tasks that receive, either may
  open its datagram first.  SecureTransport, as the comment concludes, relies on no
  order.
- `recv` slices the datagram behind the nonce without looking at its length
  (`transport/src/lib.rs:95`): one that is shorter panics and ends the task, unless
  the eight bytes, some of which are of an older datagram, are a nonce that was
  opened.  The mutex is released, so that other tasks go on; a server drops the
  connection with its task, a client's stays open with nobody to receive.  No
  sender of the program makes one.  `TransportGoesOn` excepts a side of which every
  receiving task has panicked, and says that none does without a fault.  A
  datagram that is too long is cut and does not open.
- `open_at` sends a path of any length as one Twalk (`client/src/fs/file.rs:36`).
  A Twalk that is larger than 1192 bytes, or an Rwalk of more than 91 qids, is cut
  by the receiver and does not open, and a reply that does not decode is dropped
  (`client/src/fs/mod.rs:104`): the call and its tag wait for ever although the
  connection stands.  (One that is too large even for a Noise message fails when it
  is sent, and keeps its tag.)  `EveryCallEnds` states that only requests which name a path,
  or the user and tree of an attach, come to this, and `OpensMeant` that only an
  `open_at` gets no answer because of its number of names.
- `OpenResource::write` ignores its `_offset` (`server/src/res/open.rs:227`) and hands
  the bytes to tokio's `Empty`, which keeps none.  `WritesExact` is about the Twrites
  that a `FileWriter` sends, not about a file at the server.
- A message as large as the receiving buffer is found by `scanMsg` and not
  returned (`buffer.cpp:503`): `Overlong` in UdtRcvBuffer.
- `CSndUList::remove_` (`queue.cpp:394`) only sifts down, so that the heap may be
  out of order; and sockets with equal times may keep one from the root.
  `ListServed` says what remains: the list is served.
- An interrupt between the reading of a time and the sleep is overwritten
  (`udtCommon.cpp:192`); the sleep then lasts one interval.
- `close` removes the RPoll entry before it sets `m_bClosing` (`core.cpp:863`): an
  event in between creates it again, and it stays.
- The comment at `AutoResetEvent` says that the counter is -N when N threads
  wait; between a post and the end of its wait it is not.
- A client whose receiving task has ended waits for ever
  (`client/src/fs/mod.rs:44`, which has a todo): `EveryCallEnds` excepts a call that
  waits with nothing under way (`Stuck`), and states that calls which are not sent
  yet end with the error.
- `Tread` truncates the reply (`server/src/np/client.rs:175`) after
  `OpenResource::read` has counted all of it (`res/open.rs:177`), so a listing
  larger than a message cannot be read: the client gets an entry that is cut off,
  and its next offset is not the server's.  `ListingSound` states that a listing
  that fits is complete.
- Reading a `Dir` from offset 0 again does not reset `last_offset`
  (`res/open.rs:144`; the root's does, `:186`), so that after `rewind` the second read
  fails with "Invalid argument"; so does a read after a `next_entry` was dropped.
- An error in `poll_read` or `poll_flush` returns with `fut_valid` set
  (`client/src/fs/file.rs:142`, `:221`): the next poll polls a completed future,
  which panics.  `PolledOnce` states that nothing else leads to it.
- `open_dir_at` walks a path of more than `MAXWELEM` names in several Twalks from
  the same fid to the same newfid (`client/src/fs/dir.rs:72`), and the server refuses
  the second: "fid in use".
- `queue.h` says that `increase` doubles the pool of units; it adds one
  `CQEntry` of the size of the first.
- A `++` or `--` of `m_iCount` that is lost lets the count drift away from the number
  of units in use, in both directions.  `PoolServes` shows that the recount in
  `increase` makes up for it; the run cuts the drift off at 0 and at the size of
  the pool (`MaxDrift`).
- `CRcvQueue::recvfrom` takes the packet from its queue before it compares the
  lengths (`queue.cpp:990`) and leaves an empty entry behind when it does not fit.
- The worker calls `m_pListener->listen` (`queue.cpp:891`) with `m_LSLock` not taken:
  the collector may free the listener while the call is under way, and `listen`
  goes on with its queue and id after `newConnection` (`Reply` in UdtSockets).
  `NoDangling` states what holds, that no freed listener is found in
  `m_pListener`.

## 7. Not modelled, and what is left

- **Wire formats** (`npwire`): stateless, one field after another; the models take
  messages as records, and the lengths that matter (`Truncated`, `MaxWrite`,
  `MaxQids`) as numbers.  The bytes of a name are not counted: whether a request that
  has a path fits a message is a free choice in NpClient, and NpPath takes every
  Twalk as one that does.
- **`Listener::accept`** of the UDT wrapper waits for its event as `recv` does; UdtReady
  has the waits of a connection only.
- **Congestion control** (`ccc.cpp`, rates of `window.cpp`): floating-point rates.
  UdtTransfer allows every window the code allows, so that nothing it shows
  depends on them.
- **Packets, channel, cache**: header layout, system calls on the UDP socket, a
  cache of round trip times that only sets initial rates.
- **The regular (client and listener) handshake** beyond the listener's side, the
  stream mode and file transfer of UDT: the program does not call them.
- **Readiness list draft** (`udt-sys/src`): not a module of the crate.
- **Command line, UI, examples**: no state of their own.
- The version handshake of the client is one exchange before any other call.

Theorems still worth proving, in this order: lemmas on `UdtSeq`, for numbers of which
any two are less than half the sequence space apart; that UdtAckWindow implements
UdtAckLog; `Consistent` and `NothingLost` of UdtTransfer from both; and, once the
walks along the links are recursive functions, `RingsSound`.  An abstract 9P service
which NpServer implements and NpClient uses would join the two.
