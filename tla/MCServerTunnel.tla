---------------------------- MODULE MCServerTunnel ----------------------------
(* Small instances of ServerTunnel for TLC: addresses, conversations and End  *)
(* are model values, given in the cfgs.                                       *)
EXTENDS ServerTunnel

TwoFds == 3 .. 4

\* Due until a clearing sets it, or only until the clock gets there.
DueStamps == {Ancient, -1}

AnyStamp == Stamps
===============================================================================
