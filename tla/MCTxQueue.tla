----------------------------- MODULE MCTxQueue -----------------------------
(* A ring of three rows whose tail index wraps at six. *)
EXTENDS TxQueue

CONSTANTS tlv, dataprocess

MCWriter == {tlv, dataprocess}
=============================================================================
