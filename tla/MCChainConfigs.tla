---------------------------- MODULE MCChainConfigs ----------------------------
(* Instances of ChainConfigs.                                              *)
EXTENDS ChainConfigs

CONSTANTS c1, c2, i1, i2
=============================================================================
