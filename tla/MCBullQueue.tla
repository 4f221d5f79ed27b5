---------------------------- MODULE MCBullQueue ----------------------------
(* Constants of the runs of BullQueue. *)
EXTENDS BullQueue, TLC

CONSTANTS j1, j2, r1, r2, p1, p2, h1
=============================================================================
