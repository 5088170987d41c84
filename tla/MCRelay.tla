-------------------------------- MODULE MCRelay --------------------------------
(* Small instance of Relay for TLC: applications and conversation numbers are *)
(* model values, given in the cfg.                                            *)
EXTENDS Relay

TwoFds == 3 .. 4

\* After a collision nothing more is claimed.
UntilCollision == ~collided

Symmetric == Permutations(Apps) \cup Permutations(Conv)
================================================================================
