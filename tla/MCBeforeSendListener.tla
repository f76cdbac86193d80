------------------------ MODULE MCBeforeSendListener ------------------------
(* Hook contracts with four units of gas: deep enough for two nested calls *)
(* and for running out of gas at every level.                              *)
EXTENDS BeforeSendListener

CONSTANT infinite

MCTxGasLimits == {3, 6, infinite}
=============================================================================
