--------------------------- MODULE MCUdtRendezvous ---------------------------
(***************************************************************************)
(* UdtRendezvous for TLC: a client and a server that call each other.      *)
(***************************************************************************)
EXTENDS UdtRendezvous

MCSock == {11, 21}
MCHost == {"client", "server"}
MCAt == [s \in MCSock |-> IF s = 11 THEN "client" ELSE "server"]
MCTo == [s \in MCSock |-> IF s = 11 THEN "server" ELSE "client"]

=============================================================================
