-------------------------- MODULE MCNodeConnection --------------------------
(* The runs of NodeConnection; its constants are numbers. *)
EXTENDS NodeConnection
=============================================================================
