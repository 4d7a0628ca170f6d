---------------------------- MODULE MCTelParser ----------------------------
(* The parser on telegrams of at most four bytes of V. *)
EXTENDS TelParser

MCCommand == {0, 1, 2, 4}
MCRxByte  == {0, 1, 2, 4, 126}
MCSN      == <<0, 1, 126, 255, 200, 3, 0, 255>>
=============================================================================
