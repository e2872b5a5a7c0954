------------------------------ MODULE NpFiles ------------------------------
(***************************************************************************)
(* A file of the client and the open resource of the server behind it: it  *)
(* is opened by its path (NpPath) and then used by a FileReader (a file),  *)
(* a FileWriter ("rpc") or a ReadDir (a directory, or the root).  The code *)
(* is client/src/fs/file.rs and readdir.rs; server/src/res/open.rs; Tread  *)
(* and Twrite of server/src/np/client.rs.                                  *)
(*                                                                         *)
(* The client's objects keep a call to the server in a future between two  *)
(* polls.  A call is answered some time after it was begun; a call whose   *)
(* future is dropped is still carried out.                                 *)
(***************************************************************************)
EXTENDS NpPath

CONSTANTS
    File,           \* the bytes of the file
    Listings,       \* the contents a directory may have: sequences of entries
    Size,           \* length of an entry's stat, by entry
    MaxData,        \* maxlen - RREAD_OVERHEAD: bytes an Rread has room for
    MaxWrite,       \* maxlen - TWRITE_OVERHEAD: bytes a Twrite has room for
    U32Max,         \* the count ReadDir asks for: more than any listing has
    MaxCalls,       \* bound: reads, writes and listings begun
    MaxLen,         \* bound: length of a buffer that is read into or written
    MaxNames        \* bound: components of a path

VARIABLES
    named,          \* the path it is opened by, and what came of that
    kind,           \* OpenInner: "file", "rpc", "dir" or "root"; "none" before
    offset,         \* the client's offset
    buffer,         \* FileWriter: bytes to write; ReadDir: entries to return
    fut, valid,     \* the future, and fut_valid
    begun,          \* reads, writes and listings begun by the application
    dir,            \* what the directory or the root has now
    rem, lastOffset,\* DirState or RootState
    late,           \* offsets of reads whose caller has gone
    result,         \* what the last call of the client's object returned
    panicked,       \* it polled a future that had ended
    got,            \* history: the bytes of the last read, where it was by the
                    \* application's count, and where the next one will be
    want,           \* history: what the application wrote, by position
    written,        \* history: what Twrites have brought to the server, each byte
                    \* at the offset it was sent for.  The server itself keeps
                    \* nothing: OpenResource::write leaves _offset unused and
                    \* hands the bytes to tokio's Empty, which takes them all
    listed, mine,   \* history: entries returned since rewind; those it began with
    starts, failures\* history: reads run from the start, and reads that failed

client == <<offset, buffer, fut, valid, begun, result, panicked>>
server == <<dir, rem, lastOffset, late>>
histories == <<got, want, written, listed, mine, starts, failures>>
vars == <<named, kind, client, server, histories>>

NoCall == [st |-> "none"]
Waiting(c) == c.st = "waiting"
Ready(c) == c.st = "ready"
\* A future that has returned its result.
Over == [st |-> "over"]

Ok(data) == [error |-> "none", data |-> data]
Error(name) == [error |-> name]
Succeeds(c) == c.reply.error = "none"

NoName == [op |-> "none"]

Init ==
    /\ named = NoName /\ kind = "none"
    /\ offset = 0 /\ buffer = <<>> /\ fut = NoCall /\ valid = FALSE /\ begun = 0
    /\ dir = <<>> /\ rem = <<>> /\ lastOffset = 0 /\ late = <<>>
    /\ result = "none" /\ panicked = FALSE
    /\ got = [off |-> 0, data |-> File, next |-> 0] /\ want = <<>> /\ written = <<>>
    /\ listed = <<>> /\ mine = <<>>
    /\ starts = 0 /\ failures = 0

\* read_at and write_at, up to their first await.
Call(off, arg) == fut' = [st |-> "waiting", off |-> off, arg |-> arg]

\* The application uses the file once more.
Count == begun < MaxCalls /\ begun' = begun + 1

Panic == panicked' = TRUE /\ UNCHANGED <<offset, buffer, fut, valid, begun, result>>

-----------------------------------------------------------------------------
(* The file is opened, from a directory that was opened before.            *)

Components == UNION {{p[i] : i \in DOMAIN p} : p \in DOMAIN Tree} \cup {"rpc", ".."}
Paths == UNION {[1..n -> Components] : n \in 0..MaxNames}

Open ==
    /\ named = NoName /\ kind = "none"
    /\ \E from \in {r \in Nodes : qid(r) = "dir"}, wname \in Paths :
        \/ named' = [op |-> "open_at", from |-> from, wname |-> wname, was |-> open_at(from, wname)]
        \/ named' = [op |-> "open_dir_at", from |-> from, wname |-> wname,
                     was |-> open_dir_at(from, wname)]
    /\ UNCHANGED <<kind, client, server, histories>>

Begin ==
    /\ named # NoName /\ named.was.result = "ok"
    /\ named' = NoName /\ kind' = named.was.kind
    /\ dir' \in IF kind' \in {"dir", "root"} THEN Listings ELSE {dir}
    /\ UNCHANGED <<client, rem, lastOffset, late, histories>>

-----------------------------------------------------------------------------
(* FileReader.  n is what the caller's buffer has left.                    *)

\* poll_read begins a read, unless one is under way.
ReadBegins(n) ==
    /\ kind = "file" /\ ~valid /\ ~panicked
    /\ Count /\ Call(offset, n) /\ valid' = TRUE
    /\ UNCHANGED <<named, kind, offset, buffer, result, panicked, server, histories>>

\* Mutant: fut_valid is not reset.
ReadEnds_StaysValid(n) ==
    /\ kind = "file" /\ valid /\ Ready(fut)
    /\ IF Succeeds(fut)
       THEN LET data == SubSeq(fut.reply.data, 1, Min({Len(fut.reply.data), n})) IN
            /\ got' = [off |-> got.next, data |-> data, next |-> got.next + Len(data)]
            /\ offset' = offset + Len(data)
            /\ fut' = Over /\ result' = "ok" /\ UNCHANGED valid
       ELSE fut' = Over /\ result' = "error" /\ UNCHANGED <<got, offset, valid>>
    /\ UNCHANGED <<named, kind, buffer, begun, panicked, server, want, written, listed, mine, starts, failures>>

\* The read has ended; an error is returned with the future left as it is.
ReadEnds(n) ==
    /\ kind = "file" /\ valid /\ Ready(fut)
    /\ IF Succeeds(fut)
       THEN LET data == SubSeq(fut.reply.data, 1, Min({Len(fut.reply.data), n})) IN
            /\ got' = [off |-> got.next, data |-> data, next |-> got.next + Len(data)]
            /\ offset' = offset + Len(data)
            /\ valid' = FALSE /\ fut' = Over /\ result' = "ok"
       ELSE fut' = Over /\ result' = "error" /\ UNCHANGED <<got, offset, valid>>
    /\ UNCHANGED <<named, kind, buffer, begun, panicked, server, want, written, listed, mine, starts, failures>>

PollRead == \E n \in 1..MaxLen : ReadBegins(n) \/ ReadEnds(n)

\* Mutant: a read that was begun is kept.
SeekReader_KeepsRead(to) ==
    /\ kind = "file" /\ ~panicked
    /\ offset' = to /\ got' = [got EXCEPT !.next = to]
    /\ UNCHANGED <<named, kind, buffer, fut, valid, begun, result, panicked, server,
                   want, written, listed, mine, starts, failures>>

\* start_seek of the reader.
SeekReader(to) ==
    /\ kind = "file" /\ ~panicked
    /\ valid' = (valid /\ to = offset)
    /\ offset' = to /\ got' = [got EXCEPT !.next = to]
    /\ UNCHANGED <<named, kind, buffer, fut, begun, result, panicked, server,
                   want, written, listed, mine, starts, failures>>

-----------------------------------------------------------------------------
(* FileWriter.                                                             *)

\* The bytes of data at off and after, over those that were there.
Lay(bytes, off, data) ==
    IF data = <<>> THEN bytes ELSE
    [i \in 1..Max({Len(bytes), off + Len(data)}) |->
        IF i \in (off + 1)..(off + Len(data)) THEN data[i - off]
        ELSE IF i <= Len(bytes) THEN bytes[i] ELSE 0]

\* poll_flush ends and, when it is poll_write that begun it, data is accepted.
Accepts(off, data) ==
    /\ buffer' = data /\ offset' = off
    /\ valid' = FALSE
    /\ fut' = Over
    /\ want' = Lay(want, off, data)
    /\ IF data = <<>> THEN UNCHANGED begun ELSE Count
    /\ result' = "ok"

\* poll_flush goes on with rest: a write is begun, of what fits into a message.
Writes(off, rest) ==
    /\ buffer' = rest /\ offset' = off
    /\ Call(off, SubSeq(rest, 1, Min({Len(rest), MaxWrite}))) /\ valid' = TRUE
    /\ UNCHANGED <<begun, want, result>>

\* poll_write(data), and for empty data poll_flush, poll_shutdown and
\* poll_complete: poll_flush goes round its loop until the buffer is empty or a
\* write is under way.
WritePoll(data) ==
    /\ kind = "rpc" /\ ~panicked
    /\ \/ /\ ~valid \/ (Ready(fut) /\ Succeeds(fut))
          /\ LET n == IF valid THEN fut.reply.data ELSE 0
                 rest == SubSeq(buffer, n + 1, Len(buffer)) IN
             \/ rest # <<>> /\ Writes(offset + n, rest)
             \/ rest = <<>> /\ Accepts(offset + n, data)
       \/ /\ valid /\ Ready(fut) /\ ~Succeeds(fut)
          /\ fut' = Over /\ result' = "error"
          /\ UNCHANGED <<buffer, offset, valid, begun, want>>
    /\ UNCHANGED <<named, kind, panicked, server, got, written, listed, mine, starts, failures>>

\* The application writes bytes that are all different, and flushes.
WriteSome ==
    \E n \in 1..MaxLen : WritePoll([i \in 1..n |-> 10 * (begun + 1) + i])
Flush == WritePoll(<<>>)

\* start_seek of the writer is refused with a write outstanding.
SeekWriter(to) ==
    /\ kind = "rpc" /\ ~panicked
    /\ buffer = <<>> /\ ~valid
    /\ offset' = to
    /\ UNCHANGED <<named, kind, buffer, fut, valid, begun, result, panicked, server, histories>>

\* poll_read or poll_flush with a future that has ended: an async fn panics.
PollsAgain ==
    /\ kind \in {"file", "rpc"} /\ valid /\ fut = Over /\ ~panicked
    /\ Panic
    /\ UNCHANGED <<named, kind, server, histories>>

-----------------------------------------------------------------------------
(* ReadDir.                                                                *)

Lists == kind \in {"dir", "root"}
Bytes(entries) ==
    LET sum[k \in 0..Len(entries)] == IF k = 0 THEN 0 ELSE sum[k - 1] + Size[entries[k]]
    IN sum[Len(entries)]

\* next_entry returns an entry that it has, or begins a read.
NextEntry ==
    /\ Lists /\ fut = NoCall
    /\ \/ /\ buffer # <<>>
          /\ listed' = Append(listed, Head(buffer)) /\ buffer' = Tail(buffer)
          /\ result' = "entry"
          /\ UNCHANGED <<fut, begun>>
       \/ buffer = <<>> /\ Count /\ Call(offset, U32Max) /\ UNCHANGED <<buffer, listed, result>>
    /\ UNCHANGED <<named, kind, offset, valid, panicked, server, got, want, written, mine, starts, failures>>

\* The reply has come: its entries are taken apart; the last may be cut off, and
\* those before it are then kept in the buffer.
EntriesCome ==
    /\ Lists /\ Ready(fut) /\ fut' = NoCall
    /\ IF Succeeds(fut)
       THEN LET new == fut.reply.data.whole IN
            /\ offset' = offset + fut.reply.data.len
            /\ IF fut.reply.data.cut
               THEN buffer' = new /\ result' = "too short" /\ UNCHANGED listed
               ELSE IF new = <<>>
               THEN result' = "end" /\ UNCHANGED <<listed, buffer>>
               ELSE listed' = Append(listed, Head(new)) /\ buffer' = Tail(new) /\ result' = "entry"
            /\ mine' = IF offset = 0 THEN fut.reply.data.all ELSE mine
       ELSE result' = fut.reply.error /\ UNCHANGED <<offset, buffer, listed, mine>>
    /\ UNCHANGED <<named, kind, valid, begun, panicked, server, got, want, written, starts, failures>>

\* The future of next_entry is dropped; the server may not have run the read yet.
DropNextEntry ==
    /\ Lists /\ fut # NoCall
    /\ fut' = NoCall
    /\ late' = IF Waiting(fut) THEN Append(late, fut.off) ELSE late
    /\ UNCHANGED <<named, kind, offset, buffer, valid, begun, result, panicked, dir, rem, lastOffset,
                   histories>>

rewind ==
    /\ Lists /\ fut = NoCall /\ (offset > 0 \/ buffer # <<>>)
    /\ offset' = 0 /\ buffer' = <<>>
    /\ listed' = <<>> /\ mine' = <<>> /\ result' = "none"
    /\ UNCHANGED <<named, kind, fut, valid, begun, panicked, server, got, want, written, starts, failures>>

-----------------------------------------------------------------------------
(* The server: OpenResource::read and write.                               *)

Answer(reply) == fut' = [st |-> "ready", off |-> fut.off, reply |-> reply]

\* Of a file: the file system may return less than was asked for.
ReadFile ==
    /\ kind = "file" /\ Waiting(fut)
    /\ \/ LET left == IF fut.off < Len(File) THEN Len(File) - fut.off ELSE 0
              most == Min({left, fut.arg, MaxData}) IN
          \E n \in Min({1, most})..most : Answer(Ok(SubSeq(File, fut.off + 1, fut.off + n)))
       \/ Answer(Error("error"))
    /\ UNCHANGED <<named, kind, offset, buffer, valid, begun, result, panicked, server, histories>>

\* Of "rpc".  Empty takes all that a Twrite brings; an error means that the
\* Twrite could not be sent.
WriteRpc ==
    /\ kind = "rpc" /\ Waiting(fut)
    /\ \/ Answer(Ok(Len(fut.arg))) /\ written' = Lay(written, fut.off, fut.arg)
       \/ Answer(Error("error")) /\ UNCHANGED written
    /\ UNCHANGED <<named, kind, offset, buffer, valid, begun, result, panicked, server,
                   got, want, listed, mine, starts, failures>>

\* The entries that the loop takes from rem: as many as count has room for.
Filled(entries, count) ==
    LET room == {k \in 0..Len(entries) : Bytes(SubSeq(entries, 1, k)) <= count} IN
    SubSeq(entries, 1, Max(room))

\* data.truncate(maxlen - RREAD_OVERHEAD): whole entries, and whether a part of
\* one follows.
Truncated(entries, all) ==
    LET len == Min({Bytes(entries), MaxData})
        whole == Filled(entries, len) IN
    [whole |-> whole, len |-> len, cut |-> Bytes(whole) < len, all |-> all]

\* What a read comes to.
Outcome(left, last, reply) == [left |-> left, last |-> last, reply |-> reply]

\* Mutant: a read may be anywhere.
ReadEntries_AnyOffset(off) ==
    LET entries == IF off = 0 THEN dir ELSE rem
        out == Filled(entries, U32Max)
        base == IF off = 0 /\ kind = "root" THEN 0 ELSE lastOffset IN
    Outcome(SubSeq(entries, Len(out) + 1, Len(entries)), base + Bytes(out),
            Ok(Truncated(out, entries)))

\* A read of a directory or the root at off.  At 0 it reads the directory
\* again; only the root starts to count again too.  Elsewhere the offset must be
\* where the last read ended.
ReadEntries(off) ==
    LET entries == IF off = 0 THEN dir ELSE rem
        out == Filled(entries, U32Max)
        base == IF off = 0 /\ kind = "root" THEN 0 ELSE lastOffset IN
    IF off \notin {0, lastOffset} THEN Outcome(rem, lastOffset, Error("Invalid argument"))
    ELSE Outcome(SubSeq(entries, Len(out) + 1, Len(entries)), base + Bytes(out),
                 Ok(Truncated(out, entries)))

\* It fails at the file system.  A directory is read as a whole before its first
\* entry is put into the reply; the metadata of the root's shares are read one by
\* one, and entries before the one that fails have left rem.
ReadEntriesFails(off) ==
    LET entries == IF off = 0 THEN dir ELSE rem IN
    IF kind = "dir"
    THEN {Outcome(<<>>, lastOffset, Error("error")) : x \in {0} \cap {off}}
    ELSE {Outcome(SubSeq(entries, k, Len(entries)), off, Error("error")) :
             k \in {i \in DOMAIN entries : off \in {0, lastOffset}}}

Reads(off) ==
    \E o \in {ReadEntries(off)} \cup ReadEntriesFails(off) :
        /\ rem' = o.left /\ lastOffset' = o.last
        /\ IF late' = late THEN Answer(o.reply) ELSE UNCHANGED fut
        /\ starts' = starts + (IF off = 0 THEN 1 ELSE 0)
        /\ failures' = failures + (IF o.reply.error = "error" THEN 1 ELSE 0)
        /\ UNCHANGED <<named, kind, offset, buffer, valid, begun, result, panicked, dir, written,
                       got, want, listed, mine>>

ReadDirectory == Lists /\ Waiting(fut) /\ UNCHANGED late /\ Reads(fut.off)

\* A read of which the caller has gone.
ReadLate == \E i \in DOMAIN late : late' = RemoveAt(late, i) /\ Reads(late[i])

\* Somebody changes the directory.  The shares are fixed.
Change ==
    /\ kind = "dir" /\ dir' \in Listings \ {dir}
    /\ UNCHANGED <<named, kind, client, rem, lastOffset, late, histories>>

-----------------------------------------------------------------------------
Offsets == 0..(Len(File) + 1)
Serve == ReadFile \/ WriteRpc \/ ReadDirectory \/ ReadLate

Next ==
    \/ Open \/ Begin
    \/ PollRead \/ \E to \in Offsets : SeekReader(to) \/ SeekWriter(to)
    \/ WriteSome \/ Flush \/ PollsAgain
    \/ NextEntry \/ EntriesCome \/ DropNextEntry \/ rewind
    \/ Serve \/ Change

Spec == Init /\ [][Next]_vars

\* The server answers a write (NpServer), and an application that flushes polls
\* until the flush has ended.
Fairness == WF_vars(WriteRpc) /\ WF_vars(Flush)

-----------------------------------------------------------------------------
(* Properties.                                                             *)

\* Every variable has its type.
TypeOK ==
    /\ kind \in {"none", "file", "rpc", "dir", "root"} /\ offset \in Nat /\ valid \in BOOLEAN
    /\ fut.st \in {"none", "waiting", "ready", "over"} /\ begun \in 0..MaxCalls
    /\ dir \in Listings \cup {<<>>} /\ lastOffset \in Nat /\ panicked \in BOOLEAN
    /\ result \in {"none", "ok", "error", "Invalid argument", "too short", "entry", "end"}

\* What is opened is what the path means: the same node, by whatever names, and
\* never a symbolic link; an error means that there is none, or that it is of the
\* wrong kind.  There are two exceptions: open_dir_at with more than MAXWELEM names
\* fails with "fid in use", and open_at with more names than an Rwalk has room for
\* may get no answer (dir.rs; walk and walk_one).
OpensMeant ==
    named # NoName =>
    LET was == named.was
        meant == Meant(named.from, named.wname)
        fits == {r \in meant : (qid(r) = "dir") = (named.op = "open_dir_at")} IN
    CASE was.result = "ok" -> fits = {was.at}
      [] was.result = "fid in use" -> Len(named.wname) > MAXWELEM /\ named.op = "open_dir_at"
      [] was.result = "no answer" -> Len(named.wname) > MaxQids /\ named.op = "open_at"
      [] was.result \in {"error", "not found"} -> meant = {}
      [] OTHER -> meant # {} /\ fits = {}

\* What a read returns are the bytes of the file that follow those of the read
\* before, or where the reader was moved to, and nothing only at the end of the
\* file: however the reader is moved while a read is under way, and whatever
\* buffers it is polled with (poll_read, start_seek).
ReadsExact ==
    /\ TypeOK
    /\ got.data = SubSeq(File, got.off + 1, got.off + Len(got.data))
    /\ got.data = <<>> => got.off >= Len(File)

\* The Twrites that were carried out, with the bytes still in the buffer laid
\* over them at the writer's offset, are what the application wrote and where it
\* wrote it: Twrites of a part of the buffer, Twrites that fail and moves of the
\* writer neither lose nor repeat nor misplace a byte in what is sent
\* (poll_flush, start_seek).  What the server makes of the offset is its own
\* matter: it ignores it.
WritesExact == kind = "rpc" => Lay(written, offset, buffer) = want

\* A future is polled again after its end only when its result was an error: the
\* ? in poll_read and poll_flush leaves fut_valid set.
PolledOnce == panicked => result = "error"

\* next_entry returns the entries of the directory as it was at the first read,
\* in order, each once, and its end only after the last of them.  It fails on
\* its own account in two cases only: the listing does not fit into a message
\* (the server truncates it after it has counted it), and the directory has been
\* read from the start twice (rewind, or a dropped next_entry): a Dir does not
\* reset last_offset, and of the root only a read that fails spoils it.
ListingSound ==
    Lists =>
    /\ IsPrefix(listed, mine)
    /\ result = "end" => listed = mine
    /\ result = "too short" => Bytes(mine) > MaxData
    /\ result = "Invalid argument" =>
        Bytes(mine) > MaxData \/ (starts > 1 /\ (kind = "dir" \/ failures > 0))

\* A flush ends, or fails, after however many Twrites (poll_flush).
FlushEnds == kind = "rpc" /\ buffer # <<>> ~> buffer = <<>> \/ result = "error"
=============================================================================
