--------------------------- MODULE MCUdtTransfer ----------------------------
(***************************************************************************)
(* Small instances of UdtTransfer: 16 sequence numbers of which the ones   *)
(* around the wrap are used.                                               *)
(***************************************************************************)
EXTENDS UdtTransfer

Msg(pkts, order) == [pkts |-> pkts, order |-> order]

\* The second message may overtake the first; the third has two packets, must be
\* received whole and overtakes none.
Overtaking == <<Msg(1, TRUE), Msg(1, FALSE), Msg(2, TRUE)>>

\* A message of two packets, which fill the buffer when the first was not read.
LongSecond == <<Msg(1, TRUE), Msg(2, TRUE)>>
=============================================================================
