---------------------------- MODULE MCServerLink ----------------------------
(* A pool of three netconns, so that one or two can be lost. *)
EXTENDS ServerLink

CONSTANTS n1, n2, n3

MCNetconn == {n1, n2, n3}
=============================================================================
