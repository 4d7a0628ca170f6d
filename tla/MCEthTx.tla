------------------------------ MODULE MCEthTx ------------------------------
(* Three descriptors, so that a frame of two finds one free, none, or room. *)
EXTENDS EthTx
=============================================================================
