---------------------------- MODULE TxQueueProofs ----------------------------
(****************************************************************************)
(* The safety properties of TxQueue for every set of writers, every ring    *)
(* size and every wrap-around limit of the tail.                            *)
(****************************************************************************)
EXTENDS TxQueue, TLAPS

\* The rows beyond the ring are never written.
BlankBeyond == \A r \in Rows : r >= TxdBufLine => TXD_BUFFER_NET[r] = Blank

\* Head and tail are as far apart as there are unsent frames, and a writer that
\* copies has a row for itself.
Distance ==
  ~ overran =>
    /\ Unsent \in 0 .. (TxdBufLine - 1)
    /\ TxdBufHeadIndex = RowAfter(Unsent)
    /\ \A w \in Writer : pc[w] = "copy" => Unsent < TxdBufLine - 1

\* What is being written is an unsent frame, or a row outside the ring.
Sending ==
  sender = "write" /\ ~ overran =>
    \/ sending = Blank /\ TxdBufTailIndex >= TxdBufLine
    \/ sending = sent + 1 /\ TxdBufTailIndex < TxdBufLine /\ Unsent > 0

TxInv == TypeOK /\ WriterExclusion /\ BlankBeyond /\ Distance /\ KeptUnlessOverrun /\ Sending

----------------------------------------------------------------------------

\* The head index goes round the ring.
LEMMA IncreaseWraps ==
  ASSUME NEW x \in 0 .. (TxdBufLine - 1)
  PROVE  Increase(x) = IF x + 1 < TxdBufLine THEN x + 1 ELSE 0
BY TxAssumption DEF Increase

\* The tail index goes round its own, larger ring.
LEMMA TailWraps ==
  ASSUME NEW x \in 0 .. (NetReceiveBufSize - 1)
  PROVE  IncreaseNetReceiveBuf(x) = IF x + 1 < NetReceiveBufSize THEN x + 1 ELSE 0
BY TxAssumption DEF IncreaseNetReceiveBuf

\* What KeptUnlessOverrun says of one unsent frame.
LEMMA KeptAt ==
  ASSUME KeptUnlessOverrun, ~ overran, NEW i \in 0 .. (Unsent - 1)
  PROVE  TXD_BUFFER_NET[RowAfter(i)] = sent + 1 + i
BY DEF KeptUnlessOverrun

\* The initial state satisfies the inductive invariant.
LEMMA TxInit == Init => TxInv
<1> SUFFICES ASSUME Init PROVE TxInv
  OBVIOUS
<1> USE TxAssumption DEF Init, Blank, Torn
<1>1. TypeOK
  <2>1. TXD_BUFFER_NET \in [Rows -> Nat \cup {Torn}] OBVIOUS
  <2>2. TxdBufHeadIndex \in 0 .. (TxdBufLine - 1) /\ TxdBufTailIndex \in 0 .. (NetReceiveBufSize - 1)
    OBVIOUS
  <2>3. pc \in [Writer -> {"idle", "take", "check", "copy", "give"}] OBVIOUS
  <2> QED BY <2>1, <2>2, <2>3 DEF TypeOK
<1>2. WriterExclusion BY DEF WriterExclusion, Holding
<1>3. BlankBeyond BY DEF BlankBeyond
<1>4. Unsent = 0 /\ Oldest = 0 BY DEF Unsent, Oldest
<1>5. RowAfter(0) = 0 BY <1>4 DEF RowAfter
<1>6. Distance BY <1>4, <1>5 DEF Distance
<1>7. KeptUnlessOverrun /\ Sending BY <1>4 DEF KeptUnlessOverrun, Sending
<1> QED BY <1>1, <1>2, <1>3, <1>6, <1>7 DEF TxInv

\* Types are preserved.
LEMMA TxTypeStep == TypeOK /\ [Next]_vars => TypeOK'
<1> SUFFICES ASSUME TypeOK, [Next]_vars PROVE TypeOK'
  OBVIOUS
<1> USE TxAssumption DEF TypeOK, Rows, Blank, Torn
<1>1. ASSUME NEW w \in Writer, Call(w) \/ Take(w) \/ Refuse(w) \/ Give(w) PROVE TypeOK'
  BY <1>1 DEF Call, Take, Refuse, Give
<1>2. ASSUME NEW w \in Writer, CopyBegin(w) PROVE TypeOK'
  BY <1>2 DEF CopyBegin
<1>3. ASSUME NEW w \in Writer, Publish(w) PROVE TypeOK'
  <2>1. TxdBufHeadIndex' \in 0 .. (TxdBufLine - 1) BY <1>3, IncreaseWraps DEF Publish
  <2> QED BY <1>3, <2>1 DEF Publish
<1>4. CASE SendBegin \/ SendErr \/ ConnAssigned
  BY <1>4 DEF SendBegin, SendErr, ConnAssigned
<1>5. CASE SendOk
  <2>1. TxdBufTailIndex' \in 0 .. (NetReceiveBufSize - 1) BY <1>5, TailWraps DEF SendOk
  <2> QED BY <1>5, <2>1 DEF SendOk
<1>6. CASE UNCHANGED vars BY <1>6 DEF vars
<1> QED BY <1>1, <1>2, <1>3, <1>4, <1>5, <1>6 DEF Next, Write

\* The semaphore protocol is preserved.
LEMMA TxExclusionStep == TypeOK /\ WriterExclusion /\ [Next]_vars => WriterExclusion'
<1> SUFFICES ASSUME TypeOK, WriterExclusion, [Next]_vars PROVE WriterExclusion'
  OBVIOUS
<1> USE DEF TypeOK, WriterExclusion, Holding
<1>1. ASSUME NEW w \in Writer, Call(w) PROVE WriterExclusion' BY <1>1 DEF Call
<1>2. ASSUME NEW w \in Writer, Take(w) PROVE WriterExclusion' BY <1>2 DEF Take
<1>3. ASSUME NEW w \in Writer, Refuse(w) PROVE WriterExclusion' BY <1>3 DEF Refuse
<1>4. ASSUME NEW w \in Writer, CopyBegin(w) PROVE WriterExclusion' BY <1>4 DEF CopyBegin
<1>5. ASSUME NEW w \in Writer, Publish(w) PROVE WriterExclusion' BY <1>5 DEF Publish
<1>6. ASSUME NEW w \in Writer, Give(w) PROVE WriterExclusion' BY <1>6 DEF Give
<1>7. CASE SendBegin \/ SendOk \/ SendErr \/ ConnAssigned
  BY <1>7 DEF SendBegin, SendOk, SendErr, ConnAssigned
<1>8. CASE UNCHANGED vars BY <1>8 DEF vars
<1> QED BY <1>1, <1>2, <1>3, <1>4, <1>5, <1>6, <1>7, <1>8 DEF Next, Write

\* The queue is preserved: one step per action.
LEMMA TxQueueStep ==
  TxInv /\ [Next]_vars => BlankBeyond' /\ Distance' /\ KeptUnlessOverrun' /\ Sending'
<1> DEFINE Goal == BlankBeyond' /\ Distance' /\ KeptUnlessOverrun' /\ Sending'
<1> SUFFICES ASSUME TxInv, [Next]_vars PROVE Goal
  OBVIOUS
<1>t. TypeOK' BY TxTypeStep DEF TxInv
<1> USE TxAssumption DEF TxInv, Unsent, Oldest, RowAfter, Rows, Blank, Torn
<1>1. ASSUME NEW w \in Writer, Call(w) \/ Take(w) \/ Refuse(w) \/ Give(w) PROVE Goal
  BY <1>1 DEF Call, Take, Refuse, Give, TypeOK, BlankBeyond, Distance, KeptUnlessOverrun, Sending
<1>2. ASSUME NEW w \in Writer, CopyBegin(w) PROVE Goal
  <2> USE <1>2 DEF CopyBegin, TypeOK
  <2>1. BlankBeyond' BY DEF BlankBeyond
  <2>0. ~ overran' => ~ overran /\ ~ (accepted - sent >= TxdBufLine - 1) OBVIOUS
  <2>2. Distance'
    <3> SUFFICES ASSUME ~ overran' PROVE Distance'
      BY DEF Distance
    <3>1. ~ overran /\ accepted - sent < TxdBufLine - 1 BY <2>0
    <3> QED BY <3>1 DEF Distance
  <2>3. KeptUnlessOverrun'
    <3> SUFFICES ASSUME ~ overran', NEW i \in 0 .. (accepted - sent - 1)
                 PROVE  TXD_BUFFER_NET'[RowAfter(i)] = sent + 1 + i
      BY DEF KeptUnlessOverrun
    <3>1. ~ overran BY <2>0
    <3>2. TXD_BUFFER_NET[RowAfter(i)] = sent + 1 + i BY <3>1 DEF KeptUnlessOverrun
    <3>3. RowAfter(i) # TxdBufHeadIndex BY <3>1 DEF Distance
    <3> QED BY <3>2, <3>3
  <2>4. Sending' BY DEF Sending
  <2> QED BY <2>1, <2>2, <2>3, <2>4
<1>3. ASSUME NEW w \in Writer, Publish(w) PROVE Goal
  <2> USE <1>3 DEF Publish, TypeOK
  <2>0. TxdBufHeadIndex' = IF TxdBufHeadIndex + 1 < TxdBufLine THEN TxdBufHeadIndex + 1 ELSE 0
    BY IncreaseWraps
  <2>1. BlankBeyond' BY DEF BlankBeyond
  <2>2. Distance' BY <2>0 DEF Distance, WriterExclusion, Holding
  <2>3. KeptUnlessOverrun'
    <3> SUFFICES ASSUME ~ overran', NEW i \in 0 .. (Unsent' - 1)
                 PROVE  TXD_BUFFER_NET'[RowAfter(i)'] = sent' + 1 + i
      BY DEF KeptUnlessOverrun
    <3>0. ~ overran /\ RowAfter(i)' = RowAfter(i) /\ i \in 0 .. Unsent OBVIOUS
    <3>1. Unsent \in 0 .. (TxdBufLine - 1) /\ TxdBufHeadIndex = RowAfter(Unsent)
      BY <3>0 DEF Distance
    <3>2. CASE i = Unsent
      <4>1. TXD_BUFFER_NET'[TxdBufHeadIndex] = accepted + 1 OBVIOUS
      <4>2. RowAfter(i) = TxdBufHeadIndex BY <3>1, <3>2
      <4>3. sent' + 1 + i = accepted + 1 BY <3>2
      <4> QED BY <3>0, <4>1, <4>2, <4>3
    <3>3. CASE i < Unsent
      <4>0. i \in 0 .. (Unsent - 1) BY <3>0, <3>1, <3>3
      <4>1. TXD_BUFFER_NET[RowAfter(i)] = sent + 1 + i BY <3>0, <4>0, KeptAt
      <4>2. RowAfter(i) # TxdBufHeadIndex BY <3>0, <3>1, <3>3
      <4> QED BY <3>0, <4>1, <4>2
    <3> QED BY <3>0, <3>2, <3>3
  <2>4. Sending' BY DEF Sending
  <2> QED BY <2>1, <2>2, <2>3, <2>4
<1>4. CASE SendBegin
  <2> USE <1>4 DEF SendBegin, TypeOK
  <2>1. BlankBeyond' /\ Distance' /\ KeptUnlessOverrun'
    BY DEF BlankBeyond, Distance, KeptUnlessOverrun
  <2>2. Sending'
    BY DEF Sending, BlankBeyond, Distance, KeptUnlessOverrun, isTxdBufEmpty
  <2> QED BY <2>1, <2>2
<1>5. CASE SendOk
  <2> USE <1>5 DEF SendOk, TypeOK
  <2>0. TxdBufTailIndex' = IF TxdBufTailIndex + 1 < NetReceiveBufSize THEN TxdBufTailIndex + 1 ELSE 0
    BY TailWraps
  <2>1. BlankBeyond' /\ Sending' BY DEF BlankBeyond, Sending
  <2>2. Distance' BY <2>0 DEF Distance, Sending
  <2>3. KeptUnlessOverrun'
    <3> SUFFICES ASSUME ~ overran', NEW i \in 0 .. (Unsent' - 1)
                 PROVE  TXD_BUFFER_NET'[RowAfter(i)'] = sent' + 1 + i
      BY DEF KeptUnlessOverrun
    <3>0. ~ overran OBVIOUS
    <3>1. CASE sending = Blank
      <4>1. TxdBufTailIndex >= TxdBufLine /\ sent' = sent BY <3>0, <3>1 DEF Sending
      <4>2. i \in 0 .. (Unsent - 1) BY <4>1
      <4>3. RowAfter(i)' = RowAfter(i) BY <2>0, <4>1
      <4>4. TXD_BUFFER_NET[RowAfter(i)] = sent + 1 + i BY <3>0, <4>2, KeptAt
      <4> QED BY <4>1, <4>3, <4>4
    <3>2. CASE sending # Blank
      <4>1. sending = sent + 1 /\ TxdBufTailIndex < TxdBufLine /\ sent' = sent + 1
        BY <3>0, <3>2 DEF Sending
      <4>2. i + 1 \in 0 .. (Unsent - 1) BY <4>1
      <4>3. RowAfter(i)' = RowAfter(i + 1)
        BY <2>0, <3>0, <4>1, <4>2 DEF Distance
      <4>4. TXD_BUFFER_NET[RowAfter(i + 1)] = sent + 1 + (i + 1) BY <3>0, <4>2, KeptAt
      <4> QED BY <4>1, <4>3, <4>4
    <3> QED BY <3>1, <3>2
  <2> QED BY <2>1, <2>2, <2>3
<1>6. CASE SendErr \/ ConnAssigned
  BY <1>6 DEF SendErr, ConnAssigned, TypeOK, BlankBeyond, Distance, KeptUnlessOverrun, Sending
<1>7. CASE UNCHANGED vars
  BY <1>7 DEF vars, TypeOK, BlankBeyond, Distance, KeptUnlessOverrun, Sending
<1> QED BY <1>1, <1>2, <1>3, <1>4, <1>5, <1>6, <1>7 DEF Next, Write

\* TxInv is inductive.
LEMMA TxInductive == TxInv /\ [Next]_vars => TxInv'
BY TxTypeStep, TxExclusionStep, TxQueueStep DEF TxInv

\* What netconn_write gets, from the inductive invariant.
LEMMA TxSendingOrder == TxInv => SentInOrderUnlessOverrun
<1> SUFFICES ASSUME TxInv, ~ overran, sender = "write"
             PROVE  /\ TXD_BUFFER_NET[TxdBufTailIndex] = sending
                    /\ sending \in {Blank, sent + 1}
                    /\ sending = Blank => TxdBufTailIndex >= TxdBufLine
  BY DEF SentInOrderUnlessOverrun
<1> USE TxAssumption DEF TxInv, TypeOK
<1>1. CASE sending = Blank /\ TxdBufTailIndex >= TxdBufLine
  BY <1>1 DEF BlankBeyond, Rows
<1>2. CASE sending = sent + 1 /\ TxdBufTailIndex < TxdBufLine /\ Unsent > 0
  <2>1. 0 \in 0 .. (Unsent - 1) BY <1>2 DEF Unsent
  <2>2. RowAfter(0) = TxdBufTailIndex BY <1>2 DEF RowAfter, Oldest
  <2>3. TXD_BUFFER_NET[RowAfter(0)] = sent + 1 + 0 BY <2>1, KeptAt
  <2> QED BY <1>2, <2>2, <2>3 DEF Blank
<1> QED BY <1>1, <1>2 DEF Sending

\* The only step that can accept a frame into a full queue is CopyBegin, and with
\* the tail inside the ring isTxdBufFull stops it.
LEMMA TxOverrunStep ==
  TxInv /\ [Next]_vars /\ ~ overran /\ overran' => TxdBufTailIndex >= TxdBufLine
<1> SUFFICES ASSUME TxInv, [Next]_vars, ~ overran, overran'
             PROVE  TxdBufTailIndex >= TxdBufLine
  OBVIOUS
<1>1. PICK w \in Writer : CopyBegin(w)
  BY DEF Next, Write, Call, Take, Refuse, Publish, Give, SendBegin, SendOk, SendErr, ConnAssigned, vars
<1>2. ~ isTxdBufFull /\ Unsent >= TxdBufLine - 1 BY <1>1 DEF CopyBegin, Unsent
<1>3. Unsent = TxdBufLine - 1 /\ TxdBufHeadIndex = RowAfter(Unsent)
  BY <1>2, TxAssumption DEF TxInv, Distance
<1>4. SUFFICES ASSUME TxdBufTailIndex < TxdBufLine PROVE isTxdBufFull
  BY <1>2, TxAssumption DEF TxInv, TypeOK
<1>5. TxdBufHeadIndex = IF TxdBufTailIndex = 0 THEN TxdBufLine - 1 ELSE TxdBufTailIndex - 1
  BY <1>3, <1>4, TxAssumption DEF RowAfter, Oldest, TxInv, TypeOK
<1> QED BY <1>4, <1>5, IncreaseWraps, TxAssumption DEF isTxdBufFull, TxInv, TypeOK

\* TxInv holds in every reachable state, for every number of writers and every
\* pair of wrap-around limits.
THEOREM TxInvariant == Spec => []TxInv
BY TxInit, TxInductive, PTL DEF Spec

\* Every variable of the transmit queue keeps its type; in particular the head
\* stays in the ring and the tail in its own range.
THEOREM TxTypeCorrect == Spec => []TypeOK
<1>1. TxInv => TypeOK BY DEF TxInv
<1> QED BY <1>1, TxInvariant, PTL

\* At most one task is inside WriteDataToTXDBUF, and the semaphore is out exactly
\* while one is.
THEOREM TxWriterExclusion == Spec => []WriterExclusion
<1>1. TxInv => WriterExclusion BY DEF TxInv
<1> QED BY <1>1, TxInvariant, PTL

\* Until a frame is accepted with the queue full, every unsent frame is in its row.
THEOREM TxKept == Spec => []KeptUnlessOverrun
<1>1. TxInv => KeptUnlessOverrun BY DEF TxInv
<1> QED BY <1>1, TxInvariant, PTL

\* Until then send_buffer_task hands the frames to netconn_write whole and in the
\* order of their acceptance.
THEOREM TxSentInOrder == Spec => []SentInOrderUnlessOverrun
BY TxSendingOrder, TxInvariant, PTL

\* A full queue accepts a frame only while the tail index is outside the ring.
THEOREM TxOverrunOnlyOutside == Spec => OverrunOnlyOutsideRing
<1>1. TxInv /\ [Next]_vars => [~ overran /\ overran' => TxdBufTailIndex >= TxdBufLine]_vars
  BY TxOverrunStep
<1> QED BY <1>1, TxInvariant, PTL DEF Spec, OverrunOnlyOutsideRing
=============================================================================
