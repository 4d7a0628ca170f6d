------------------------------ MODULE MCNetIn ------------------------------
(* A mailbox smaller than the pool, so that it is found full. *)
EXTENDS NetIn
=============================================================================
