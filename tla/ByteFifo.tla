------------------------------ MODULE ByteFifo ------------------------------
(****************************************************************************)
(* What the receive buffer between the connection task and the TLV task     *)
(* promises: a first-in first-out queue of bounded capacity that refuses a  *)
(* byte only when it is full, and hands each byte it took to the parser     *)
(* once, in order.                                                          *)
(****************************************************************************)
EXTENDS Integers, Sequences

CONSTANTS Capacity, Data

VARIABLES q,        \* the bytes held
          offered,  \* how many bytes the connection task came with
          parsed    \* the last byte the parser is through with

NoByte == -1

Init ==
  /\ q = << >>
  /\ offered = 0
  /\ parsed = NoByte

Offer(c) ==
  /\ offered' = offered + 1
  /\ q' = IF Len(q) < Capacity THEN Append(q, c) ELSE q
  /\ UNCHANGED parsed

Take ==
  /\ q # << >>
  /\ parsed' = Head(q)
  /\ q' = Tail(q)
  /\ UNCHANGED offered

Next == (\E c \in Data : Offer(c)) \/ Take

Spec == Init /\ [][Next]_<<q, offered, parsed>>
=============================================================================
