-------------------------- MODULE MCSocketManager --------------------------
(* Constants of the runs of SocketManager. *)
EXTENDS SocketManager, TLC

CONSTANTS k1, k2, k3, alice, bob, r1, e1

MCUserOf == [c \in Clients |-> alice]
=============================================================================
