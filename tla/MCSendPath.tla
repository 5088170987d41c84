----------------------------- MODULE MCSendPath -----------------------------
(* Small instances of SendPath for TLC. *)
EXTENDS SendPath

\* -f 1:1,2:1 --mtu 10 -q 3: a group may collect for its whole timeout.
BlobPar ==
  [version |-> 0, mtu |-> 10, queue_len |-> 3, timeout |-> 2, mode |-> 0,
   rs |-> <<1, 1>>]

BlobLens == {2, 9}

ModeCommands ==
  {[cmd |-> "mode", value |-> 1], [cmd |-> "timeout", value |-> 1],
   [cmd |-> "fec", value |-> <<0, 1>>]}

NoOptions ==
  [disable_fec |-> FALSE, fix_latency |-> FALSE, random_drop |-> FALSE, rewrites |-> TRUE,
   capacity |-> 0, jitter |-> [min |-> 0, max |-> 0], interval |-> [min |-> 0, max |-> 0]]

\* --fix-latency; -j with and without a least delay; -i; --random-drop and
\* --delay-capacity; --disable-fec, with and without a jitter that then has no effect.
SomeOptions ==
  {NoOptions,
   [NoOptions EXCEPT !.fix_latency = TRUE, !.interval.max = 2],
   [NoOptions EXCEPT !.jitter.max = 1],
   [NoOptions EXCEPT !.jitter = [min |-> 1, max |-> 1], !.rewrites = FALSE, !.random_drop = TRUE,
                     !.capacity = 2],
   [NoOptions EXCEPT !.disable_fec = TRUE],
   [NoOptions EXCEPT !.disable_fec = TRUE, !.jitter.max = 1, !.random_drop = TRUE]}

\* The default options, in mode 1.
Defaults == {NoOptions}

Mode1Par == [BlobPar EXCEPT !.mode = 1]

NoCommands == {}
=============================================================================
