---------------------------- MODULE MCDelayQueue ----------------------------
(* Small instances of DelayQueue for TLC. *)
EXTENDS DelayQueue

ShortDelays == {0, 1, 3}
==============================================================================
