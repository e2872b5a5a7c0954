----------------------------- MODULE MCUdtReady -----------------------------
(***************************************************************************)
(* UdtReady with one task of each kind, as the server and the client have  *)
(* them, and buffers that are full at once.                                *)
(***************************************************************************)
EXTENDS UdtReady
=============================================================================
