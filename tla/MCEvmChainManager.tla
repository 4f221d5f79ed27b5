------------------------- MODULE MCEvmChainManager -------------------------
(***************************************************************************)
(* The chains of the runs of EvmChainManager.                              *)
(***************************************************************************)
EXTENDS EvmChainManager, TLC

CONSTANTS c1, c2

ChainSymmetry == Permutations(Chains)
=============================================================================
