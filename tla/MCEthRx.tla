------------------------------ MODULE MCEthRx ------------------------------
(* Three descriptors and two pbufs, so that the ring and the pool run out. *)
EXTENDS EthRx
=============================================================================
