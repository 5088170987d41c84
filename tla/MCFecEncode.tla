---------------------------- MODULE MCFecEncode ----------------------------
(* Small instances of FecEncode for TLC. *)
EXTENDS FecEncode

\* -f 1:1,2:1 --mtu 10 -q 3: a blob holds 20 bytes, two short packets or one
\* long one; x = 1 is cheaper for a single short packet.
BlobPar ==
  [version |-> 0, mtu |-> 10, queue_len |-> 3, timeout |-> 2, mode |-> 0,
   rs |-> <<1, 1>>]

\* 18 does not fit an empty blob, 9 does not fit behind another 9.
BlobLens == {2, 9, 18}

FecCommands ==
  {[cmd |-> "fec", value |-> <<0, 2, 1>>],
   [cmd |-> "mode", value |-> 1],
   [cmd |-> "mode", value |-> 0]}

AllCommands ==
  FecCommands \cup
  {[cmd |-> "mtu", value |-> 12],
   [cmd |-> "queue-len", value |-> 2],
   [cmd |-> "timeout", value |-> 0]}

NoCommands == {}
=============================================================================
