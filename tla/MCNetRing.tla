----------------------------- MODULE MCNetRing -----------------------------
(* A ring of three slots, so that it fills, wraps and drops bytes. *)
EXTENDS NetRing

MCData == {1, 2}
=============================================================================
