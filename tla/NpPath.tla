------------------------------- MODULE NpPath -------------------------------
(***************************************************************************)
(* Paths: how the server walks (server/src/res/path.rs, and Twalk and      *)
(* Topen of server/src/np/client.rs), and how the client has it walk       *)
(* (client/src/fs/dir.rs and file.rs).                                     *)
(*                                                                         *)
(* A path resource is a sequence of names: empty for the root, <<"rpc">>,  *)
(* or the name of a share and what follows it.  The file system does not   *)
(* change while a path is walked.                                          *)
(***************************************************************************)
EXTENDS Naturals, SequencesExt

CONSTANTS
    Tree,        \* the shares: for each path "dir", "file" or "symlink"
    MAXWELEM,    \* components that open_dir_at puts into one Twalk
    MaxQids      \* qids that an Rwalk has room for in the client's buffer

Root == <<>>
Rpc == <<"rpc">>
ShareNames == {p[1] : p \in {q \in DOMAIN Tree : Len(q) = 1}}

\* The type in the qid of a resource.
qid(r) == IF r = Root THEN "dir" ELSE IF r = Rpc THEN "file" ELSE Tree[r]

Found(r) == [ok |-> TRUE, at |-> r]
NotFound == [ok |-> FALSE, at |-> Root]

\* Mutant: ".." stays at the top of a share.
walk_one_StaysInShare(r, component) ==
    IF component = ".." THEN Found(IF Len(r) <= 1 THEN r ELSE Front(r))
    ELSE IF r = Root
    THEN IF component = "rpc" \/ component \in ShareNames THEN Found(<<component>>) ELSE NotFound
    ELSE IF r # Rpc /\ Append(r, component) \in DOMAIN Tree /\ Tree[Append(r, component)] # "symlink"
    THEN Found(Append(r, component))
    ELSE NotFound

\* Symbolic links are not followed and not found.
walk_one(r, component) ==
    IF component = ".." THEN Found(IF Len(r) <= 1 THEN Root ELSE Front(r))
    ELSE IF r = Root
    THEN IF component = "rpc" \/ component \in ShareNames THEN Found(<<component>>) ELSE NotFound
    ELSE IF r # Rpc /\ Append(r, component) \in DOMAIN Tree /\ Tree[Append(r, component)] # "symlink"
    THEN Found(Append(r, component))
    ELSE NotFound

\* walk, with the end of Twalk, which adds the last qid: an error if the first
\* name is not found, else the qids as far as the names are, and the resource if
\* all of them are.
walk(r, wname) ==
    LET step[i \in 0..Len(wname)] ==
            IF i = 0 THEN Found(r)
            ELSE IF step[i - 1].ok THEN walk_one(step[i - 1].at, wname[i]) ELSE NotFound
        n == Max({i \in 0..Len(wname) : step[i].ok}) IN
    [error |-> n = 0 /\ wname # <<>>,
     wqid |-> [i \in 1..n |-> qid(step[i].at)],
     new |-> IF n = Len(wname) THEN Found(step[n].at) ELSE NotFound]

\* The file that open(mode) makes of a path resource; mode is 0 in every call of
\* the client, which all of them allow.
open(r) == IF r = Root THEN "root" ELSE IF r = Rpc THEN "rpc" ELSE qid(r)

Opened(kind, r) == [result |-> "ok", kind |-> kind, at |-> r]
Failure(error) == [result |-> error, kind |-> "none", at |-> Root]

\* Directory::open_at: one Twalk, whatever the length, and Topen.  An Rwalk that
\* is larger than the client's buffer is lost, and the call goes on waiting.
open_at(r, wname) ==
    LET w == walk(r, wname) IN
    IF wname = <<>> THEN Failure("is a directory")
    ELSE IF w.error THEN Failure("error")
    ELSE IF Len(w.wqid) > MaxQids THEN Failure("no answer")
    ELSE IF Len(w.wqid) < Len(wname) THEN Failure("not found")
    ELSE IF Last(w.wqid) = "dir" THEN Failure("is a directory")
    ELSE Opened(open(w.new.at), w.new.at)

\* Directory::open_dir_at, then read_dir: MAXWELEM names at a time, each Twalk
\* from the same fid and to the same newfid, which the server refuses to use
\* twice.
open_dir_at(r, wname) ==
    LET nc == Min({Len(wname), MAXWELEM})
        w == walk(r, SubSeq(wname, 1, nc)) IN
    IF w.error THEN Failure("error")
    ELSE IF Len(w.wqid) < nc THEN Failure("not found")
    ELSE IF Len(wname) > nc THEN Failure("fid in use")
    ELSE IF w.wqid # <<>> /\ Last(w.wqid) # "dir" THEN Failure("not a directory")
    ELSE Opened(open(w.new.at), w.new.at)

-----------------------------------------------------------------------------
(* What a path means, for comparison.                                      *)

Nodes == {Root, Rpc} \cup {p \in DOMAIN Tree : Tree[p] # "symlink"}
Edges == {<<p, Last(p), Front(p)>> : p \in Nodes \ {Root}}

Leads(p, name, q) ==
    \/ <<q, name, p>> \in Edges
    \/ name = ".." /\ q = (IF p = Root THEN Root ELSE Front(p))

\* The nodes that the names lead to from r: at most one.
Meant(r, wname) ==
    LET nodes[i \in 0..Len(wname)] ==
            IF i = 0 THEN {r}
            ELSE {q \in Nodes : \E p \in nodes[i - 1] : Leads(p, wname[i], q)}
    IN nodes[Len(wname)]
=============================================================================
