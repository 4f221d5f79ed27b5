------------------------- MODULE MCChangeNowOrders -------------------------
(* Constants of the runs of ChangeNowOrders. *)
EXTENDS ChangeNowOrders, TLC

CONSTANTS o1, o2, w1, w2, c0

OrderSymmetry == Permutations({o1, o2}) \cup Permutations({w1, w2})
=============================================================================
