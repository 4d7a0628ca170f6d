--------------------------- MODULE NetRingProofs ---------------------------
(****************************************************************************)
(* The receive ring, of any size, implements the bounded queue ByteFifo.    *)
(****************************************************************************)
EXTENDS NetRing, SequenceTheorems, TLAPS

RingInv == TypeOK /\ CopyWithinPbuf /\ ParsedSlotStable

\* The index after x in the ring.
LEMMA IncreaseWraps ==
  ASSUME NEW x \in Slots
  PROVE  /\ IncreaseNetReceiveBuf(x) = IF x + 1 = NetReceiveBufSize THEN 0 ELSE x + 1
         /\ IncreaseNetReceiveBuf(x) \in Slots
  BY RingAssumption DEF IncreaseNetReceiveBuf, Slots

\* What netconn_recv returns is a sequence of sequences of bytes.
LEMMA NetbufsType ==
  ASSUME NEW s \in Netbufs
  PROVE  s \in Seq(Seq(Data))
<1>1. \A S, n : \A t \in BoundedSeq(S, n) : t \in Seq(S)
  BY DEF BoundedSeq, SeqOf
<1>2. s \in Seq(BoundedSeq(Data, MaxPbufLen) \ {<< >>})
  BY <1>1 DEF Netbufs
<1>3. BoundedSeq(Data, MaxPbufLen) \ {<< >>} \subseteq Seq(Data)
  BY <1>1
<1> QED
  BY <1>2, <1>3, SeqMonotonic

\* The ring starts empty and in its types.
LEMMA RingInit == Init => RingInv
  BY RingAssumption DEF Init, RingInv, TypeOK, CopyWithinPbuf, ParsedSlotStable, Slots

\* RingInv is inductive: one step per action of either task.
LEMMA RingStep == RingInv /\ [Next]_vars => RingInv'
<1> SUFFICES ASSUME RingInv, [Next]_vars
             PROVE  RingInv'
  OBVIOUS
<1> USE DEF ring, vars
<1>1. CASE Recv
  <2>1. pbufs' \in Seq(Seq(Data))
    BY <1>1, NetbufsType DEF Recv
  <2> QED
    BY <1>1, <2>1 DEF Recv, RingInv, TypeOK, CopyWithinPbuf, ParsedSlotStable, isNetReceiveBufEmpty
<1>2. CASE PbufBegin
  <2>1. Head(pbufs) \in Seq(Data) /\ Tail(pbufs) \in Seq(Seq(Data)) /\ Len(Head(pbufs)) \in Nat
    BY <1>2 DEF PbufBegin, RingInv, TypeOK
  <2> QED
    BY <1>2, <2>1 DEF PbufBegin, RingInv, TypeOK, CopyWithinPbuf, ParsedSlotStable, isNetReceiveBufEmpty
<1>3. CASE CopyByte
  <2>1. CASE isNetReceiveBufFull
    BY <1>3, <2>1 DEF CopyByte, RingInv, TypeOK, CopyWithinPbuf, ParsedSlotStable, isNetReceiveBufEmpty
  <2>2. CASE ~ isNetReceiveBufFull
    <3>1. Len(NetPbuf) >= 1 /\ NetPbuf # << >> /\ NetPbuf \in Seq(Data)
      BY <1>3 DEF CopyByte, RingInv, TypeOK, CopyWithinPbuf
    <3>2. Head(NetPbuf) \in Data /\ Tail(NetPbuf) \in Seq(Data) /\ Len(Tail(NetPbuf)) = Len(NetPbuf) - 1
      BY <3>1, HeadTailProperties
    <3>3. TypeOK'
      BY <1>3, <2>2, <3>2, IncreaseWraps DEF CopyByte, RingInv, TypeOK
    <3>4. CopyWithinPbuf'
      BY <1>3, <2>2, <3>1, <3>2 DEF CopyByte, RingInv, TypeOK, CopyWithinPbuf
    <3>5. ParsedSlotStable'
      BY <1>3, <2>2 DEF CopyByte, RingInv, TypeOK, ParsedSlotStable, isNetReceiveBufEmpty, isNetReceiveBufFull
    <3> QED
      BY <3>3, <3>4, <3>5 DEF RingInv
  <2> QED
    BY <2>1, <2>2
<1>4. CASE PbufEnd
  BY <1>4 DEF PbufEnd, RingInv, TypeOK, CopyWithinPbuf, ParsedSlotStable, isNetReceiveBufEmpty
<1>5. CASE NetbufDelete
  BY <1>5 DEF NetbufDelete, RingInv, TypeOK, CopyWithinPbuf, ParsedSlotStable, isNetReceiveBufEmpty
<1>6. CASE Poll
  BY <1>6 DEF Poll, RingInv, TypeOK, CopyWithinPbuf, ParsedSlotStable, isNetReceiveBufEmpty
<1>7. CASE Parsed
  BY <1>7, IncreaseWraps DEF Parsed, RingInv, TypeOK, CopyWithinPbuf, ParsedSlotStable
<1>8. CASE UNCHANGED vars
  BY <1>8 DEF RingInv, TypeOK, CopyWithinPbuf, ParsedSlotStable, isNetReceiveBufEmpty
<1> QED
  BY <1>1, <1>2, <1>3, <1>4, <1>5, <1>6, <1>7, <1>8 DEF Next, LwipStep, TlvStep

\* The three parts together, by induction over the steps of the two tasks.
LEMMA RingInvariant == Spec => []RingInv
  BY RingInit, RingStep, PTL DEF Spec

\* Head and tail stay inside the ring, whatever its size.
THEOREM RingTypeCorrect == Spec => []TypeOK
<1>1. RingInv => TypeOK
  BY DEF RingInv
<1> QED
  BY <1>1, RingInvariant, PTL

\* The copy loop of the connection task never reads beyond the pbuf, however many
\* bytes it drops on the way.
THEOREM RingCopyWithinPbuf == Spec => []CopyWithinPbuf
<1>1. RingInv => CopyWithinPbuf
  BY DEF RingInv
<1> QED
  BY <1>1, RingInvariant, PTL

\* The slot the TLV task is parsing is not written until its tail has moved on.
THEOREM RingParsedSlotStable == Spec => []ParsedSlotStable
<1>1. RingInv => ParsedSlotStable
  BY DEF RingInv
<1> QED
  BY <1>1, RingInvariant, PTL

----------------------------------------------------------------------------
(* The refinement.                                                          *)

Ring == [Slots -> Data \cup {0}]

\* The bytes in the ring form a sequence of at most Size - 1 bytes.
LEMMA QueuedType ==
  ASSUME NEW buf \in Ring, NEW h \in Slots, NEW t \in Slots
  PROVE  /\ CountOf(h, t) \in Nat
         /\ CountOf(h, t) <= NetReceiveBufSize - 1
         /\ \A i \in 1 .. CountOf(h, t) : SlotOf(t, i) \in Slots
         /\ QueuedOf(buf, h, t) \in Seq(Data \cup {0})
         /\ Len(QueuedOf(buf, h, t)) = CountOf(h, t)
         /\ \A i \in 1 .. CountOf(h, t) : QueuedOf(buf, h, t)[i] = buf[SlotOf(t, i)]
<1>1. CountOf(h, t) \in Nat /\ CountOf(h, t) <= NetReceiveBufSize - 1
  BY RingAssumption DEF CountOf, Slots
<1>2. \A i \in 1 .. CountOf(h, t) : SlotOf(t, i) \in Slots
  BY RingAssumption, <1>1 DEF SlotOf, Slots
<1>3. \A i \in 1 .. CountOf(h, t) : buf[SlotOf(t, i)] \in Data \cup {0}
  BY <1>2 DEF Ring
<1>4. QueuedOf(buf, h, t) \in Seq(Data \cup {0}) /\ Len(QueuedOf(buf, h, t)) = CountOf(h, t)
  BY <1>1, <1>3, IsASeq DEF QueuedOf
<1> QED
  BY <1>1, <1>2, <1>4 DEF QueuedOf

\* The code's test for a full ring is that of the abstract queue.
LEMMA FullMeansCapacity ==
  ASSUME NEW h \in Slots, NEW t \in Slots
  PROVE  IncreaseNetReceiveBuf(h) = t <=> ~ (CountOf(h, t) < NetReceiveBufSize - 1)
<1>1. IncreaseNetReceiveBuf(h) = IF h + 1 = NetReceiveBufSize THEN 0 ELSE h + 1
  BY IncreaseWraps
<1> QED
  BY <1>1, RingAssumption DEF CountOf, Slots

\* A copied byte goes to the end of the queue.
LEMMA CopyAppends ==
  ASSUME NEW buf \in Ring, NEW h \in Slots, NEW t \in Slots, NEW d \in Data,
         IncreaseNetReceiveBuf(h) # t
  PROVE  QueuedOf([buf EXCEPT ![h] = d], IncreaseNetReceiveBuf(h), t)
           = Append(QueuedOf(buf, h, t), d)
<1> DEFINE h2 == IncreaseNetReceiveBuf(h)
           buf2 == [buf EXCEPT ![h] = d]
           n == CountOf(h, t)
           Q == QueuedOf(buf, h, t)
           Q2 == QueuedOf(buf2, h2, t)
<1>0. h2 \in Slots /\ h2 = IF h + 1 = NetReceiveBufSize THEN 0 ELSE h + 1
  BY IncreaseWraps
<1>1. buf2 \in Ring /\ buf2[h] = d /\ \A x \in Slots : x # h => buf2[x] = buf[x]
  BY DEF Ring
<1>2. CountOf(h2, t) = n + 1
  BY <1>0, RingAssumption DEF CountOf, Slots
<1>3. SlotOf(t, n + 1) = h
  BY RingAssumption DEF CountOf, SlotOf, Slots
<1>4. \A i \in 1 .. n : SlotOf(t, i) # h
  BY RingAssumption DEF CountOf, SlotOf, Slots
<1>5. /\ n \in Nat /\ Q \in Seq(Data \cup {0}) /\ Len(Q) = n
      /\ \A i \in 1 .. n : Q[i] = buf[SlotOf(t, i)] /\ SlotOf(t, i) \in Slots
  BY QueuedType
<1>6. /\ Q2 \in Seq(Data \cup {0}) /\ Len(Q2) = CountOf(h2, t)
      /\ \A i \in 1 .. CountOf(h2, t) : Q2[i] = buf2[SlotOf(t, i)]
  BY <1>0, <1>1, QueuedType
<1> HIDE DEF h2, buf2, n, Q, Q2
<1>7. /\ Append(Q, d) \in Seq(Data \cup {0})
      /\ Len(Append(Q, d)) = n + 1
      /\ \A i \in 1 .. n : Append(Q, d)[i] = Q[i]
      /\ Append(Q, d)[n + 1] = d
  BY <1>5, AppendProperties
<1>8. ASSUME NEW i \in 1 .. (n + 1)
      PROVE  Q2[i] = Append(Q, d)[i]
  <2>1. Q2[i] = buf2[SlotOf(t, i)]
    BY <1>2, <1>6
  <2>2. CASE i = n + 1
    BY <1>1, <1>3, <1>7, <2>1, <2>2
  <2>3. CASE i \in 1 .. n
    BY <1>1, <1>4, <1>5, <1>7, <2>1, <2>3
  <2> QED
    BY <1>5, <2>2, <2>3
<1>9. Q2 = Append(Q, d)
  BY <1>2, <1>6, <1>7, <1>8, SeqEqual
<1> QED
  BY <1>9 DEF Q, Q2, h2, buf2

\* Advancing the tail removes the oldest byte.
LEMMA ParsedRemovesHead ==
  ASSUME NEW buf \in Ring, NEW h \in Slots, NEW t \in Slots, h # t
  PROVE  /\ QueuedOf(buf, h, t) # << >>
         /\ Head(QueuedOf(buf, h, t)) = buf[t]
         /\ QueuedOf(buf, h, IncreaseNetReceiveBuf(t)) = Tail(QueuedOf(buf, h, t))
<1> DEFINE t2 == IncreaseNetReceiveBuf(t)
           n == CountOf(h, t)
           Q == QueuedOf(buf, h, t)
           Q2 == QueuedOf(buf, h, t2)
<1>0. t2 \in Slots /\ t2 = IF t + 1 = NetReceiveBufSize THEN 0 ELSE t + 1
  BY IncreaseWraps
<1>1. n >= 1 /\ n \in Nat /\ n <= NetReceiveBufSize - 1
  BY RingAssumption DEF CountOf, Slots
<1>2. CountOf(h, t2) = n - 1
  BY <1>0, RingAssumption DEF CountOf, Slots
<1>3. \A i \in 1 .. (n - 1) : SlotOf(t2, i) = SlotOf(t, i + 1)
  <2> SUFFICES ASSUME NEW i \in 1 .. (n - 1)
               PROVE  SlotOf(t2, i) = SlotOf(t, i + 1)
    OBVIOUS
  <2>1. i \in Nat /\ i >= 1 /\ i <= NetReceiveBufSize - 2
    BY <1>1, RingAssumption
  <2> HIDE DEF n, t2
  <2> QED
    BY <1>0, <2>1, RingAssumption DEF SlotOf, Slots
<1>4. SlotOf(t, 1) = t
  BY RingAssumption DEF SlotOf, Slots
<1>5. /\ Q \in Seq(Data \cup {0}) /\ Len(Q) = n
      /\ \A i \in 1 .. n : Q[i] = buf[SlotOf(t, i)]
  BY QueuedType
<1>6. /\ Q2 \in Seq(Data \cup {0}) /\ Len(Q2) = CountOf(h, t2)
      /\ \A i \in 1 .. CountOf(h, t2) : Q2[i] = buf[SlotOf(t2, i)]
  BY <1>0, QueuedType
<1> HIDE DEF t2, n, Q, Q2
<1>7. Q # << >>
  BY <1>1, <1>5
<1>8. /\ Tail(Q) \in Seq(Data \cup {0})
      /\ Len(Tail(Q)) = n - 1
      /\ \A i \in 1 .. (n - 1) : Tail(Q)[i] = Q[i + 1]
      /\ Head(Q) = Q[1]
  BY <1>5, <1>7, HeadTailProperties
<1>9. ASSUME NEW i \in 1 .. (n - 1)
      PROVE  Q2[i] = Tail(Q)[i]
  <2>1. i + 1 \in 1 .. n
    BY <1>1
  <2>2. Q2[i] = buf[SlotOf(t2, i)]
    BY <1>2, <1>6
  <2> QED
    BY <1>3, <1>5, <1>8, <2>1, <2>2
<1>10. Q2 = Tail(Q)
  BY <1>2, <1>6, <1>8, <1>9, SeqEqual
<1>11. 1 \in 1 .. n
  BY <1>1
<1>12. Head(Q) = buf[t]
  BY <1>4, <1>5, <1>8, <1>11
<1> QED
  BY <1>7, <1>10, <1>12 DEF Q, Q2, t2

\* The steps that leave the ring and the two auxiliary variables alone are
\* stuttering steps of the queue.
LEMMA RingStutters ==
  ASSUME UNCHANGED <<ring, offered, parsed>>
  PROVE  UNCHANGED <<Queued, offered, parsed>>
  BY DEF ring, Queued

\* Every step of the ring is a step of the bounded queue or leaves it alone.
LEMMA RingSimulates ==
  ASSUME RingInv, RingInv', [Next]_vars
  PROVE  [Fifo!Next]_<<Queued, offered, parsed>>
<1> DEFINE h == NetReceiveBufHeadIndex
           t == NetReceiveBufTailIndex
<1>0. NetReceiveBuf \in Ring /\ h \in Slots /\ t \in Slots
  BY DEF RingInv, TypeOK, Ring
<1>1. CASE Recv \/ PbufBegin \/ PbufEnd \/ NetbufDelete \/ Poll \/ UNCHANGED vars
  BY <1>1, RingStutters DEF Recv, PbufBegin, PbufEnd, NetbufDelete, Poll, vars
<1>2. CASE CopyByte
  <2>1. NetPbuf # << >> /\ NetPbuf \in Seq(Data)
    BY <1>2 DEF CopyByte, RingInv, TypeOK, CopyWithinPbuf
  <2>2. Head(NetPbuf) \in Data
    BY <2>1, HeadTailProperties
  <2>3. Len(Queued) = CountOf(h, t)
    BY <1>0, QueuedType DEF Queued
  <2>4. CASE isNetReceiveBufFull
    <3>1. Queued' = Queued /\ parsed' = parsed /\ offered' = offered + 1
      BY <1>2, <2>4 DEF CopyByte, Queued
    <3>2. ~ (Len(Queued) < NetReceiveBufSize - 1)
      BY <1>0, <2>3, <2>4, FullMeansCapacity DEF isNetReceiveBufFull
    <3> QED
      BY <2>2, <3>1, <3>2 DEF Fifo!Next, Fifo!Offer
  <2>5. CASE ~ isNetReceiveBufFull
    <3>1. Len(Queued) < NetReceiveBufSize - 1
      BY <1>0, <2>3, <2>5, FullMeansCapacity DEF isNetReceiveBufFull
    <3>2. /\ NetReceiveBuf' = [NetReceiveBuf EXCEPT ![h] = Head(NetPbuf)]
          /\ h' = IncreaseNetReceiveBuf(h) /\ t' = t
          /\ parsed' = parsed /\ offered' = offered + 1
      BY <1>2, <2>5 DEF CopyByte
    <3>3. Queued' = Append(Queued, Head(NetPbuf))
      BY <1>0, <2>2, <2>5, <3>2, CopyAppends DEF Queued, isNetReceiveBufFull
    <3> QED
      BY <2>2, <3>1, <3>2, <3>3 DEF Fifo!Next, Fifo!Offer
  <2> QED
    BY <2>4, <2>5
<1>3. CASE Parsed
  <2>1. h # t /\ NetReceiveBuf[t] = c
    BY <1>3 DEF Parsed, RingInv, ParsedSlotStable, isNetReceiveBufEmpty
  <2>2. /\ NetReceiveBuf' = NetReceiveBuf /\ h' = h /\ t' = IncreaseNetReceiveBuf(t)
        /\ parsed' = c /\ offered' = offered
    BY <1>3 DEF Parsed
  <2>3. Queued # << >> /\ Head(Queued) = c /\ Queued' = Tail(Queued)
    BY <1>0, <2>1, <2>2, ParsedRemovesHead DEF Queued
  <2> QED
    BY <2>2, <2>3 DEF Fifo!Next, Fifo!Take
<1> QED
  BY <1>1, <1>2, <1>3 DEF Next, LwipStep, TlvStep

\* The empty ring is the empty queue.
LEMMA RingStartsEmpty == Init => Fifo!Init
<1> SUFFICES ASSUME Init PROVE Fifo!Init
  OBVIOUS
<1>1. CountOf(0, 0) = 0
  BY DEF CountOf
<1>2. Queued = [i \in 1 .. 0 |-> NetReceiveBuf[SlotOf(0, i)]]
  BY <1>1 DEF Init, Queued, QueuedOf
<1>3. Queued = << >>
  BY <1>2
<1> QED
  BY <1>3 DEF Init, Fifo!Init, NoByte, Fifo!NoByte

\* The receive ring implements the bounded queue: whatever the sizes of the ring
\* and of the pbufs and however the two tasks interleave, the parser gets the
\* bytes that found room, once and in order.
THEOREM RingImplementsFifo == Spec => RingIsFifo
<1>1. RingInv /\ RingInv' /\ [Next]_vars => [Fifo!Next]_<<Queued, offered, parsed>>
  BY RingSimulates
<1> QED
  BY RingInvariant, <1>1, RingStartsEmpty, PTL DEF Spec, RingIsFifo, Fifo!Spec
=============================================================================
