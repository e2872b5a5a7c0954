----------------------------- MODULE MCNpServer -----------------------------
(* Small instances of NpServer for TLC. *)
EXTENDS NpServer

\* Every request of the protocol over two fids.
TableRequests ==
    [type : {"Tauth", "Topen", "Tclunk", "Tremove", "Tstat"}, fid : {"f1"},
     fid2 : {NoFid}, old : {NoTag}]
      \cup {Req("Tauth", NoFid, NoFid), Req("Tattach", "f1", NoFid),
            Req("Tattach", "f2", "f1"), Req("Twalk", "f1", "f2"),
            Req("Twalk", "f1", NoFid), Req("Twalk", "f2", "f2"),
            Req("Tcreate", "f2", NoFid), Req("Tread", "f2", NoFid),
            Req("Twrite", "f1", NoFid), Req("Twstat", "f2", NoFid),
            Req("Treads", "f1", NoFid), Req("Tclunk", "f2", NoFid)}
=============================================================================
