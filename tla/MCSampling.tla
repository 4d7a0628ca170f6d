----------------------------- MODULE MCSampling -----------------------------
(* Halves of two rows, seconds of four, frames of three points, and a channel *)
(* that keeps every second sample.                                            *)
EXTENDS Sampling

CONSTANTS ch0, ch1

MCChannel == {ch0, ch1}
MCSparse  == [i \in MCChannel |-> IF i = ch0 THEN 1 ELSE 2]
=============================================================================
