---------------------------- MODULE MCFecArrivals ----------------------------
(***************************************************************************)
(* The decoder together with the set of datagrams that have reached it, to *)
(* say what must have come out by then.                                    *)
(***************************************************************************)
EXTENDS MCFecDecode

VARIABLE arrived   \* the datagrams input() has been called with

ArrivalInit == Init /\ arrived = {}

ArrivalNext ==
  \E p \in Packets : Receive(p) /\ arrived' = arrived \cup {p}

ArrivalSpec == ArrivalInit /\ [][ArrivalNext]_<<vars, arrived>>

-----------------------------------------------------------------------------

\* One mode-1 group, as the encoder sends it with -f 2:2.
Mode1Packets == PacketGroup(0, 2, 2, w0)

\* A mode-1 data packet is handed out when it arrives, without waiting for
\* the redundant packets of its group (misc.cpp, unit_test: n == 1 after the
\* first data packet).
DataPacketIsDelivered ==
  \A p \in arrived :
    p.type = 1 /\ p.data_num = 0 => <<p.seq, p.inner_index>> \in delivered
=============================================================================
