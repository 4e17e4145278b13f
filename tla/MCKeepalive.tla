---------------------------- MODULE MCKeepalive ----------------------------
(* Constant values for Keepalive, in half seconds: the floor is one second, *)
(* and sleeps are just long enough to clear it behind a correction.         *)
EXTENDS Keepalive

MCSleepLengths == {3, 5}
MCCorrections == {-1, 1}
=============================================================================
