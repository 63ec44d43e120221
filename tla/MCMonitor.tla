---------------------------- MODULE MCMonitor ----------------------------
(***************************************************************************)
(* A small instance of Monitor for TLC: two brokers, the program in either *)
(* mode.  The times keep their order in the code (period < loop timeout <  *)
(* expiry, here with equal bounds where that still separates the cases)    *)
(* and are scaled down.                                                    *)
(***************************************************************************)
EXTENDS Monitor, TLC

CONSTANTS s1, s2

TwoServices == {s1, s2}
BothModes == {TRUE, FALSE}
ShortAndLong == {0, 3}

Symmetry == Permutations(Services)
=============================================================================
