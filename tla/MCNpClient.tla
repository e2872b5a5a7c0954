----------------------------- MODULE MCNpClient -----------------------------
(***************************************************************************)
(* The client's calls and its files.  The two share nothing that the model *)
(* has, so a behaviour uses one of them.                                   *)
(*                                                                         *)
(* The calls: every one of them can be in flight at the same time as the   *)
(* clunk of a handle.  The files: two shares, one of them with a           *)
(* directory, a file and a symbolic link; a file of 3 bytes; a directory   *)
(* that is empty, fits into a message of 4 bytes, fills it, or does not    *)
(* fit.                                                                    *)
(***************************************************************************)
EXTENDS NpClient, TLC

CONSTANTS File, Listings, Size, MaxData, MaxWrite, U32Max, MaxCalls, MaxLen, MaxNames, MAXWELEM, MaxQids, Tree

VARIABLES named, kind, offset, buffer, fut, valid, begun, dir, rem, lastOffset, late, written, result,
          panicked, got, want, listed, mine, starts, failures

Files == INSTANCE NpFiles

\* A message has room for a byte (msize is at least 256), an entry has a length,
\* a listing is shorter than 2^32, and an Rwalk has room for MAXWELEM qids.  The
\* shares are a tree of names, in which neither ".." nor, at the top, "rpc" is a
\* name; a share is what its path leads to (fs::metadata in walk_one), so it is no
\* symbolic link.
ASSUME FilesAssumption ==
    /\ File \in Seq(ToSet(File))
    /\ MaxData \in Nat \ {0} /\ MaxWrite \in Nat \ {0} /\ MAXWELEM \in Nat \ {0}
    /\ MaxQids \in Nat /\ MAXWELEM <= MaxQids
    /\ MaxCalls \in Nat /\ MaxLen \in Nat /\ MaxNames \in Nat
    /\ Size \in [DOMAIN Size -> Nat \ {0}] /\ Listings \subseteq Seq(DOMAIN Size)
    /\ U32Max \in Nat /\ \A l \in Listings : Files!Bytes(l) <= U32Max
    /\ \A p \in DOMAIN Tree :
        /\ Tree[p] \in {"dir", "file", "symlink"}
        /\ p \in Seq(ToSet(p)) /\ p # <<>> /\ ".." \notin ToSet(p) /\ p[1] # "rpc"
        /\ Len(p) = 1 => Tree[p] # "symlink"
        /\ Len(p) > 1 => Front(p) \in DOMAIN Tree /\ Tree[Front(p)] = "dir"

filesVars == <<named, kind, offset, buffer, fut, valid, begun, dir, rem, lastOffset, late, written,
               result, panicked, got, want, listed, mine, starts, failures>>
allVars == <<vars, filesVars>>

Shares ==
    << "s" >> :> "dir" @@ << "s", "d" >> :> "dir" @@ << "s", "d", "f" >> :> "file"
    @@ << "s", "l" >> :> "symlink" @@ << "t" >> :> "dir"
Abc == <<"a", "b", "c">>
Directories == {<<>>, <<"x">>, <<"y", "x">>, <<"x", "y", "z">>}
Sizes == [e \in {"x", "y", "z"} |-> IF e = "y" THEN 3 ELSE 1]

\* What is not used: no tag is free for a call; the file is of no kind.
NoCalls ==
    /\ next = 0 /\ freeList = {} /\ handles = {} /\ calls = {}
    /\ inflight = [t \in Tag |-> 1] /\ broken = TRUE /\ requests = <<>>
    /\ table = [f \in Fid |-> "none"] /\ replies = <<>>

NoFile ==
    /\ named = Files!NoName /\ kind = "unused"
    /\ offset = 0 /\ buffer = <<>> /\ fut = Files!NoCall /\ valid = FALSE /\ begun = 0
    /\ dir = <<>> /\ rem = <<>> /\ lastOffset = 0 /\ late = <<>> /\ written = <<>>
    /\ result = "none" /\ panicked = FALSE
    /\ got = [off |-> 0, data |-> File, next |-> 0] /\ want = <<>> /\ listed = <<>> /\ mine = <<>>
    /\ starts = 0 /\ failures = 0

ClientInit == (Init /\ NoFile) \/ (NoCalls /\ Files!Init)
ClientNext == (Next /\ UNCHANGED filesVars) \/ (Files!Next /\ UNCHANGED vars)
ClientSpec == ClientInit /\ [][ClientNext]_allVars /\ Fairness /\ Files!Fairness

\* A path opens what it means, or fails for a reason (dir.rs).
OpensMeant == Files!OpensMeant

\* Reads return every byte from its place, and Twrites send every byte once, with
\* the offset of its place (file.rs).
BytesExact == kind # "unused" => Files!ReadsExact /\ Files!WritesExact

\* A future is polled again after its end only when that was an error (file.rs).
PolledOnce == Files!PolledOnce

\* A listing has every entry once, or fails for a reason (readdir.rs, open.rs).
ListingSound == Files!ListingSound

\* What goes on: every call ends and every fid returns, unless the connection
\* fails or a message is too large for it, and a flush ends or fails.
ClientGoesOn == EveryCallEnds /\ FidsReturn /\ Files!FlushEnds
=============================================================================
