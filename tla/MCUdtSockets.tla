----------------------------- MODULE MCUdtSockets -----------------------------
(***************************************************************************)
(* UdtSockets with one listener of the application on one port, as         *)
(* Endpoint and Listener make it, and up to MaxConn connections.           *)
(***************************************************************************)
EXTENDS UdtSockets
=============================================================================
