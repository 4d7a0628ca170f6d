---------------------------- MODULE NetInProofs ----------------------------
(****************************************************************************)
(* The path of a frame from the ring to the application: every step of the  *)
(* composition is a step of the receive ring or leaves it alone, so that    *)
(* what EthRxProofs proves holds here too, and no pbuf is lost, doubled or  *)
(* overtaken on the way, for every size of ring, pool and mailbox.          *)
(****************************************************************************)
EXTENDS NetIn, EthRxProofs, SequenceTheorems

\* The pbuf of the frame being worked on has been made, and its descriptor not yet
\* given back.
Pending == task \in {"build", "give"} /\ p = "pbuf"

\* The link stays up, so that no descriptor is ever taken for a context descriptor.
NoContext == ctxt = {} /\ AppContextDesc = 0

\* Whatever the interrupts do, the task works on a descriptor that is not the
\* DMA's, and gives back the one it has made a pbuf for.
WorkedOn ==
  /\ (AppDescNbr = 1 /\ task # "reset") => ~ own[FirstAppDesc]
  /\ task \in {"cur", "first"} => ~ own[scan]
  /\ task = "nbr" => ~ own[FirstAppDesc]
  /\ Pending => AppDescNbr = 1
  /\ (Pending /\ task = "give") => descidx = FirstAppDesc

\* A frame that waits in the ring has no pbuf yet.
Fresh ==
  /\ \A d \in Descs : Rx_Buff[d] <= received
  /\ \A d \in Descs : ~ own[d] => Rx_Buff[d] > 0
  /\ \A b \in pbufs : b.frame > 0 /\ b.frame <= received
  /\ \A d \in Descs : \A b \in pbufs :
       (~ own[d] /\ ~ (Pending /\ d = FirstAppDesc)) => b.frame # Rx_Buff[d]

Mbox == 1 .. Len(tcpip_mbox)

\* Where the tcpip thread is, and whether it has a message.
Fetched ==
  /\ tcpip = "handle" => msg # NoPbuf
  /\ tcpip \in {"again", "fetch", "check"} => msg = NoPbuf

\* Each pbuf is in the mailbox, fetched or kept, and in one of them.
Placed ==
  /\ \A i \in Mbox : tcpip_mbox[i] \in pbufs /\ tcpip_mbox[i] # msg /\ tcpip_mbox[i] \notin kept
  /\ \A i, j \in Mbox : tcpip_mbox[i] = tcpip_mbox[j] => i = j
  /\ msg # NoPbuf => msg \in pbufs /\ msg \notin kept
  /\ kept \subseteq pbufs
  /\ \A b \in pbufs : b \in kept \/ b = msg \/ \E i \in Mbox : tcpip_mbox[i] = b

\* The newest frame that may have a pbuf.
Newest == received - Count + (IF Pending THEN 1 ELSE 0)

\* Handled, fetched, in the mailbox: older before newer, and all before the ring.
Ordered ==
  ~ raced =>
    /\ handled <= Newest
    /\ msg # NoPbuf => handled < msg.frame /\ msg.frame <= Newest
    /\ \A i \in Mbox : /\ handled < tcpip_mbox[i].frame /\ tcpip_mbox[i].frame <= Newest
                       /\ msg # NoPbuf => msg.frame < tcpip_mbox[i].frame
    /\ \A i, j \in Mbox : i < j => tcpip_mbox[i].frame < tcpip_mbox[j].frame

NetInv == RxInv /\ NoContext /\ NetTypeOK /\ WorkedOn /\ Fresh /\ Fetched /\ Placed /\ Ordered
----------------------------------------------------------------------------
(* The receive ring in the composition.                                     *)

\* A step of the composition is one of the receive side, or leaves it alone.
LEMMA RingStep == [NetNext]_netvars => [Next]_vars
<1> SUFFICES ASSUME [NetNext]_netvars PROVE [Next]_vars
  OBVIOUS
<1>1. CASE Input(Hardware)
  BY <1>1 DEF Input, Hardware, Next
<1>2. CASE InputTaskStep
  <2>1. CASE InputLock
    BY <2>1 DEF InputLock
  <2>2. CASE LowLevelInput
    BY <2>2 DEF LowLevelInput, Input, Next, InputStep
  <2>3. CASE InputPass
    BY <2>3 DEF InputPass, Next, InputStep
  <2>4. CASE InputUnlock
    BY <2>4 DEF InputUnlock, Next, InputStep
  <2> QED
    BY <1>2, <2>1, <2>2, <2>3, <2>4 DEF InputTaskStep, Input, Next, InputStep
<1>3. CASE TcpipStep
  <2>1. CASE HandleFree
    <3>1. pbuf_free_custom(msg)
      BY <2>1 DEF HandleFree
    <3>2. CASE msg \in pbufs
      BY <3>1, <3>2 DEF Next
    <3>3. CASE msg \notin pbufs
      BY <3>1, <3>3 DEF pbuf_free_custom, vars
    <3> QED
      BY <3>2, <3>3
  <2>2. CASE ~ HandleFree
    BY <1>3, <2>2 DEF TcpipStep, Sleep, Fetch, FetchTimeout, TcpipLock, sys_check_timeouts, HandleKeep
  <2> QED
    BY <2>1, <2>2
<1>4. CASE AppFree
  <2>1. PICK b \in kept : pbuf_free_custom(b)
    BY <1>4 DEF AppFree
  <2>2. CASE b \in pbufs
    BY <2>1, <2>2 DEF Next
  <2>3. CASE b \notin pbufs
    BY <2>1, <2>3 DEF pbuf_free_custom, vars
  <2> QED
    BY <2>2, <2>3
<1>5. CASE AppLock \/ AppUnlock \/ TimerExpires \/ UNCHANGED netvars
  BY <1>5 DEF AppLock, AppUnlock, TimerExpires, netvars
<1> QED
  BY <1>1, <1>2, <1>3, <1>4, <1>5 DEF NetNext

\* It starts as the receive side does.
LEMMA RingInit == NetInit => Init
BY DEF NetInit

\* The composition implements the receive side: interrupts, task and ring take no
\* step in it that EthRx does not have.
THEOREM ImplementsEthRx == NetSpec => Init /\ [][Next]_vars
  BY RingInit, RingStep, PTL DEF NetSpec
----------------------------------------------------------------------------
(* The descriptor the task works on, and the frames without a pbuf.         *)

\* No step of the composition starts or stops the interface.
LEMMA NoRestart ==
  ASSUME [NetNext]_netvars
  PROVE  ~ Start /\ ~ Stop
<1>1. running' = running
  <2>1. CASE Input(Hardware)
    BY <2>1 DEF Input, Hardware, Receive, IrqCheck, IrqClear
  <2>2. CASE InputTaskStep
    BY <2>2 DEF InputTaskStep, InputLock, LowLevelInput, InputPass, InputUnlock, Input, TakeSemaphore, GetRxDataBuffer,
       TestAppDescNbr, IsRxDataAvailable, ScanDesc, NoData, NoteCur, NoteFirst, NoteNbr, PassPbuf, RefusePbuf, MakePbuf,
       PoolEmpty, BuildRxDescriptors, GiveBack, ResetAppDescNbr, Loop, vars, irq
  <2>3. CASE TcpipStep
    BY <2>3 DEF TcpipStep, Sleep, Fetch, FetchTimeout, TcpipLock, sys_check_timeouts, HandleFree, HandleKeep,
       pbuf_free_custom, vars, irq
  <2>4. CASE AppLock \/ AppUnlock \/ AppFree \/ TimerExpires \/ UNCHANGED netvars
    BY <2>4 DEF AppLock, AppUnlock, AppFree, TimerExpires, pbuf_free_custom, netvars, vars, irq
  <2> QED
    BY <2>1, <2>2, <2>3, <2>4 DEF NetNext
<1> QED
  BY <1>1 DEF Start, Stop

\* Without a restart no descriptor is built twice.
LEMMA NoBuildAgain == Filled /\ NoContext => ~ BuildAgain
BY DEF Filled, NoContext, BuildAgain, At

\* Without a restart no unread frame gets the bit of a context descriptor.
LEMMA NoContextStep ==
  ASSUME TypeOK, NoContext, [NetNext]_netvars
  PROVE  NoContext'
<1>1. ~ Start /\ ~ Stop
  BY NoRestart
<1>2. ctxt' = {}
  BY <1>1, RingStep DEF NoContext, Next, InputStep, Receive, IrqCheck, IrqClear, TakeSemaphore, GetRxDataBuffer,
     TestAppDescNbr, IsRxDataAvailable, ScanDesc, NoData, NoteCur, NoteFirst, NoteNbr, PassPbuf, RefusePbuf, MakePbuf,
     PoolEmpty, BuildRxDescriptors, GiveBack, BuildAgain, ToDma, ResetAppDescNbr, Loop, pbuf_free_custom, vars, ring
<1>3. AppContextDesc' = 0
  <2>1. CASE IrqCheck
    <3>1. PassTo(CurRxDesc) \/ UNCHANGED list
      BY <2>1 DEF IrqCheck, NoteRxDesc
    <3> QED
      BY <3>1 DEF PassTo, ContextAfter, NoContext, list
  <2>2. CASE NoteCur
    <3>1. PassTo(scan)
      BY <2>2 DEF NoteCur
    <3> QED
      BY <3>1 DEF PassTo, ContextAfter, NoContext
  <2>3. CASE ~ IrqCheck /\ ~ NoteCur
    BY <2>3, RingStep DEF NoContext, Next, InputStep, Receive, IrqClear, TakeSemaphore, GetRxDataBuffer,
       TestAppDescNbr, IsRxDataAvailable, ScanDesc, NoData, NoteFirst, NoteNbr, PassPbuf, RefusePbuf, MakePbuf,
       PoolEmpty, BuildRxDescriptors, GiveBack, BuildAgain, ResetAppDescNbr, Loop, pbuf_free_custom, Start, Stop, vars, list
  <2> QED
    BY <2>1, <2>2, <2>3
<1> QED
  BY <1>2, <1>3 DEF NoContext

\* The descriptor being worked on stays the task's until it is given back.
LEMMA WorkedOnStep ==
  ASSUME TypeOK, NotedWhen, Filled, NoContext, WorkedOn, [Next]_vars
  PROVE  WorkedOn'
<1>20. ~ BuildAgain
  BY NoBuildAgain
<1>1. CASE Receive
  <2>1. \A d \in Descs : ~ own[d] => ~ own'[d]
    BY <1>1 DEF Receive, TypeOK
  <2>2. UNCHANGED <<list, task, local>>
    BY <1>1 DEF Receive
  <2> QED
    BY <2>1, <2>2 DEF WorkedOn, Pending, TypeOK, list, local
<1>2. CASE IrqCheck
  <2>1. UNCHANGED <<own, task, descidx, scan, p>>
    BY <1>2 DEF IrqCheck, ring, local
  <2>2. CASE RxDataAvailable /\ NoteRxDesc
    <3>1. /\ AppDescNbr = 0 /\ ~ own[CurRxDesc] /\ FirstAppDesc' = CurRxDesc /\ AppDescNbr' = 1
      BY <2>2 DEF RxDataAvailable, NoteRxDesc
    <3> QED
      BY <2>1, <3>1 DEF WorkedOn, Pending, TypeOK
  <2>3. CASE UNCHANGED list
    BY <2>1, <2>3 DEF WorkedOn, Pending, list
  <2> QED
    BY <1>2, <2>2, <2>3 DEF IrqCheck
<1>3. CASE IrqClear
  BY <1>3 DEF IrqClear, At, WorkedOn, Pending, NotedWhen, TypeOK, ring, list, local
<1>4. CASE TakeSemaphore
  BY <1>4 DEF TakeSemaphore, At, WorkedOn, Pending, NotedWhen, TypeOK, ring, list, local
<1>5. CASE GetRxDataBuffer
  BY <1>5 DEF GetRxDataBuffer, At, WorkedOn, Pending, NotedWhen, TypeOK, ring, list, local
<1>6. CASE TestAppDescNbr
  BY <1>6 DEF TestAppDescNbr, At, WorkedOn, Pending, NotedWhen, TypeOK, ring, list, local
<1>7. CASE IsRxDataAvailable
  BY <1>7 DEF IsRxDataAvailable, At, WorkedOn, Pending, NotedWhen, TypeOK, ring, list, local
<1>8. CASE ScanDesc
  BY <1>8 DEF ScanDesc, At, WorkedOn, Pending, NotedWhen, TypeOK, ring, list, local
<1>9. CASE NoData
  BY <1>9 DEF NoData, At, WorkedOn, Pending, NotedWhen, TypeOK, ring, list, local
<1>10. CASE NoteCur
  BY <1>10 DEF NoteCur, At, WorkedOn, Pending, NotedWhen, TypeOK, ring, list, local
<1>11. CASE NoteFirst
  BY <1>11 DEF NoteFirst, At, WorkedOn, Pending, NotedWhen, TypeOK, ring, list, local
<1>12. CASE NoteNbr
  BY <1>12 DEF NoteNbr, At, WorkedOn, Pending, NotedWhen, TypeOK, ring, list, local
<1>13. CASE MakePbuf
  BY <1>13 DEF MakePbuf, At, WorkedOn, Pending, NotedWhen, TypeOK, ring, list, local
<1>14. CASE PoolEmpty
  BY <1>14 DEF PoolEmpty, At, WorkedOn, Pending, NotedWhen, TypeOK, ring, list, local
<1>15. CASE BuildRxDescriptors
  BY <1>15 DEF BuildRxDescriptors, At, WorkedOn, Pending, NotedWhen, TypeOK, ring, list, local
<1>16. CASE GiveBack
  <2>1. /\ task = "give" /\ UNCHANGED <<list, local>>
        /\ \/ AppDescNbr = 0 /\ task' = "loop"
           \/ AppDescNbr # 0 /\ task' = "reset"
    BY <1>16 DEF GiveBack, Built, NoContext, At
  <2> QED
    BY <2>1 DEF WorkedOn, Pending, TypeOK, list, local
<1>17. CASE ResetAppDescNbr
  BY <1>17 DEF ResetAppDescNbr, At, WorkedOn, Pending, NotedWhen, TypeOK, ring, list, local
<1>18. CASE Loop
  BY <1>18 DEF Loop, At, WorkedOn, Pending, NotedWhen, TypeOK, ring, list, local
<1>19. CASE UNCHANGED <<own, Rx_Buff, dma, received, ri, isr, RxPktSemaphore, list, task, local, exhausted, raced>>
  BY <1>19 DEF WorkedOn, Pending, ring, list, local
<1> QED
  BY <1>1, <1>2, <1>3, <1>4, <1>5, <1>6, <1>7, <1>8, <1>9, <1>10, <1>11, <1>12, <1>13, <1>14, <1>15, <1>16, <1>17, <1>18, <1>19, <1>20, Steps

\* No two buffers hold the same frame.
LEMMA FrameOnce ==
  ASSUME TypeOK, RoundInv, NEW d \in Descs, NEW e \in Descs, Rx_Buff[d] = Rx_Buff[e], Rx_Buff[d] > 0
  PROVE  d = e
<1>1. PICK i \in Descs : d = Ahead(dma, i)
  BY AheadAll DEF TypeOK
<1>2. PICK k \in Descs : e = Ahead(dma, k)
  BY AheadAll DEF TypeOK
<1>3. /\ Rx_Buff[d] = IF received >= ETH_RX_DESC_CNT - i THEN received - ETH_RX_DESC_CNT + 1 + i ELSE 0
      /\ Rx_Buff[e] = IF received >= ETH_RX_DESC_CNT - k THEN received - ETH_RX_DESC_CNT + 1 + k ELSE 0
  BY <1>1, <1>2 DEF RoundInv, Ahead
<1>4. i \in Nat /\ k \in Nat /\ received \in Nat /\ ETH_RX_DESC_CNT \in Nat
  BY CountType DEF TypeOK, Descs
<1>5. Rx_Buff[d] = received - ETH_RX_DESC_CNT + 1 + i /\ Rx_Buff[e] = received - ETH_RX_DESC_CNT + 1 + k
  <2>1. ~ (0 > 0)
    OBVIOUS
  <2>2. Rx_Buff[d] # 0 /\ Rx_Buff[e] # 0
    BY <2>1
  <2> QED
    BY <1>3, <2>2
<1>6. i = k
  <2>1. received - ETH_RX_DESC_CNT + 1 + i = received - ETH_RX_DESC_CNT + 1 + k
    BY <1>5
  <2> QED
    BY <1>4, <2>1
<1> QED
  BY <1>1, <1>2, <1>6

\* So the pbuf made for a frame is a new one.
LEMMA NewPbufIsNew ==
  ASSUME TypeOK, NotedWhen, WorkedOn, Fresh, MakePbuf
  PROVE  /\ NewPbuf.frame > 0 /\ NewPbuf.frame <= received /\ NewPbuf.frame = Rx_Buff[FirstAppDesc]
         /\ \A b \in pbufs : b.frame # NewPbuf.frame
         /\ ~ own[FirstAppDesc]
<1>1. task = "alloc" /\ AppDescNbr = 1 /\ FirstAppDesc \in Descs
  BY DEF MakePbuf, At, NotedWhen, TypeOK
<1>2. ~ own[FirstAppDesc] /\ ~ Pending
  BY <1>1 DEF WorkedOn, Pending
<1>3. NewPbuf.frame = Rx_Buff[FirstAppDesc]
  BY DEF NewPbuf
<1> QED
  BY <1>1, <1>2, <1>3 DEF Fresh

\* A frame gets a pbuf once: its descriptor goes back with it.
LEMMA FreshStep ==
  ASSUME TypeOK, NotedWhen, Filled, NoContext, RoundInv, WorkedOn, Fresh, [Next]_vars
  PROVE  Fresh'
<1>0. received \in Nat /\ Rx_Buff \in [Descs -> Nat] /\ own \in [Descs -> BOOLEAN] /\ dma \in Descs
  BY DEF TypeOK
<1>1. CASE Receive
  <2>1. /\ received' = received + 1 /\ Rx_Buff' = [Rx_Buff EXCEPT ![dma] = received + 1] /\ own[dma]
        /\ own' = [own EXCEPT ![dma] = FALSE] /\ UNCHANGED <<pbufs, task, p, FirstAppDesc>>
    BY <1>1 DEF Receive, list, local
  <2>2. \A b \in pbufs : b.frame \in Nat
    BY DEF TypeOK
  <2>3. ASSUME NEW d \in Descs
        PROVE  Rx_Buff'[d] <= received' /\ (~ own'[d] => Rx_Buff'[d] > 0)
    BY <1>0, <2>1 DEF Fresh
  <2>4. ASSUME NEW b \in pbufs
        PROVE  b.frame > 0 /\ b.frame <= received'
    BY <1>0, <2>1, <2>2 DEF Fresh
  <2>5. ASSUME NEW d \in Descs, NEW b \in pbufs, ~ own'[d], ~ (Pending /\ d = FirstAppDesc)
        PROVE  b.frame # Rx_Buff'[d]
    <3>1. CASE d = dma
      <4>1. Rx_Buff'[d] = received + 1
        BY <1>0, <2>1, <3>1
      <4>2. b.frame <= received
        BY DEF Fresh
      <4> QED
        BY <1>0, <2>2, <4>1, <4>2
    <3>2. CASE d # dma
      <4>1. Rx_Buff'[d] = Rx_Buff[d] /\ ~ own[d]
        BY <1>0, <2>1, <2>5, <3>2
      <4> QED
        BY <2>5, <4>1 DEF Fresh
    <3> QED
      BY <3>1, <3>2
  <2>6. Pending' = Pending
    BY <2>1 DEF Pending
  <2> QED
    BY <2>1, <2>3, <2>4, <2>5, <2>6 DEF Fresh
<1>2. CASE GiveBack
  <2>1. /\ UNCHANGED <<Rx_Buff, received, pbufs, FirstAppDesc, p>> /\ task = "give" /\ task' \in {"loop", "again", "reset"}
        /\ (AppDescNbr = 0 /\ own' = own) \/ (AppDescNbr # 0 /\ own' = [own EXCEPT ![descidx] = TRUE])
    BY <1>2 DEF GiveBack, Built, ToDma, At, list, local
  <2>2. \A d \in Descs : ~ own'[d] => ~ own[d]
    BY <1>0, <2>1
  <2>3. ASSUME Pending PROVE own'[FirstAppDesc]
    <3>1. AppDescNbr = 1 /\ descidx = FirstAppDesc /\ descidx \in Descs
      BY <2>1, <2>3 DEF WorkedOn, TypeOK
    <3> QED
      BY <1>0, <2>1, <3>1
  <2>4. ~ Pending'
    BY <2>1 DEF Pending
  <2> QED
    BY <2>1, <2>2, <2>3, <2>4 DEF Fresh
<1>3. CASE MakePbuf
  <2>1. /\ UNCHANGED <<Rx_Buff, received, own, FirstAppDesc>> /\ task' = "build" /\ p' = "pbuf" /\ task = "alloc"
    BY <1>3 DEF MakePbuf, At, ring, list
  <2>2. Pending' /\ ~ Pending
    BY <2>1 DEF Pending
  <2>3. pbufs' \subseteq pbufs \cup {NewPbuf}
    <3>1. CASE PassPbuf
      BY <3>1 DEF PassPbuf
    <3>2. CASE ~ PassPbuf
      BY <3>2, PbufsStep
    <3> QED
      BY <3>1, <3>2
  <2>4. \A b \in pbufs' : b.frame > 0 /\ b.frame <= received
    BY <1>3, <2>3, NewPbufIsNew DEF Fresh
  <2>5. ASSUME NEW d \in Descs, NEW b \in pbufs', ~ own[d], d # FirstAppDesc
        PROVE  b.frame # Rx_Buff[d]
    <3>1. CASE b \in pbufs
      BY <2>2, <2>5, <3>1 DEF Fresh
    <3>2. CASE b = NewPbuf
      <4>1. FirstAppDesc \in Descs /\ b.frame = Rx_Buff[FirstAppDesc] /\ Rx_Buff[FirstAppDesc] > 0
        BY <1>3, <3>2, NewPbufIsNew DEF TypeOK
      <4> QED
        BY <2>5, <4>1, FrameOnce
    <3> QED
      BY <2>3, <3>1, <3>2
  <2> QED
    BY <2>1, <2>2, <2>4, <2>5 DEF Fresh
<1>4. CASE ~ Receive /\ ~ GiveBack /\ ~ MakePbuf
  <2>0. ~ BuildAgain
    BY NoBuildAgain
  <2>1. UNCHANGED <<own, Rx_Buff, received>> /\ pbufs' \subseteq pbufs
    BY <1>4, <2>0, RingSame, PbufsStep DEF PassPbuf
  <2>2. Pending => Pending' /\ FirstAppDesc' = FirstAppDesc
    <3> SUFFICES ASSUME Pending PROVE Pending' /\ FirstAppDesc' = FirstAppDesc
      OBVIOUS
    <3>0. task \in {"build", "give"} /\ p = "pbuf" /\ AppDescNbr = 1
      BY DEF WorkedOn, Pending
    <3>1. CASE IrqCheck
      BY <3>0, <3>1 DEF IrqCheck, RxDataAvailable, Pending, list, local
    <3>2. CASE BuildRxDescriptors
      BY <3>0, <3>2 DEF BuildRxDescriptors, Pending, list
    <3>3. CASE ~ IrqCheck /\ ~ BuildRxDescriptors
      <4>1. UNCHANGED <<task, p, FirstAppDesc>>
        BY <1>4, <2>0, <3>0, <3>3, Steps DEF At, IrqClear, TakeSemaphore, GetRxDataBuffer, TestAppDescNbr, IsRxDataAvailable,
           ScanDesc, NoData, NoteCur, NoteFirst, NoteNbr, PoolEmpty, ResetAppDescNbr, Loop, list, local
      <4> QED
        BY <4>1 DEF Pending
    <3> QED
      BY <3>1, <3>2, <3>3
  <2> QED
    BY <2>1, <2>2 DEF Fresh
<1> QED
  BY <1>1, <1>2, <1>3, <1>4
----------------------------------------------------------------------------
(* The pbufs on their way.                                                  *)

\* ethernetif_input posts a pbuf.
Posting == PassPbuf /\ sys_mbox_trypost(NewPbuf) /\ UNCHANGED stack

\* The steps that move a pbuf.
LEMMA PathSteps ==
  [NetNext]_netvars =>
    \/ Posting \/ Fetch \/ HandleFree \/ HandleKeep \/ AppFree
    \/ UNCHANGED <<pbufs, tcpip_mbox, msg, kept, handled>>
<1> SUFFICES ASSUME [NetNext]_netvars, ~ Posting, ~ Fetch, ~ HandleFree, ~ HandleKeep, ~ AppFree
             PROVE  UNCHANGED <<pbufs, tcpip_mbox, msg, kept, handled>>
  OBVIOUS
<1>1. CASE Input(Hardware)
  BY <1>1 DEF Input, Hardware, Receive, IrqCheck, IrqClear, arch, stack
<1>2. CASE InputTaskStep
  <2>1. CASE InputLock
    BY <2>1 DEF InputLock, vars, stack
  <2>2. CASE LowLevelInput
    BY <2>2 DEF LowLevelInput, Input, GetRxDataBuffer, arch, stack
  <2>3. CASE InputPass
    <3>1. RefusePbuf /\ sys_mbox_trypost_Full /\ UNCHANGED stack
      BY <2>3 DEF InputPass, Posting
    <3> QED
      BY <3>1 DEF RefusePbuf, sys_mbox_trypost_Full, stack
  <2>4. CASE InputUnlock
    BY <2>4 DEF InputUnlock, Loop, stack
  <2>5. CASE \/ Input(TakeSemaphore) \/ Input(TestAppDescNbr) \/ Input(IsRxDataAvailable) \/ Input(ScanDesc)
             \/ Input(NoData) \/ Input(NoteCur) \/ Input(NoteFirst) \/ Input(NoteNbr) \/ Input(PoolEmpty)
             \/ Input(BuildRxDescriptors) \/ Input(GiveBack) \/ Input(ResetAppDescNbr)
    BY <2>5 DEF Input, TakeSemaphore, TestAppDescNbr, IsRxDataAvailable, ScanDesc, NoData, NoteCur, NoteFirst, NoteNbr,
       PoolEmpty, BuildRxDescriptors, GiveBack, ResetAppDescNbr, arch, stack
  <2> QED
    BY <1>2, <2>1, <2>2, <2>3, <2>4, <2>5 DEF InputTaskStep
<1>3. CASE TcpipStep
  BY <1>3 DEF TcpipStep, Sleep, FetchTimeout, TcpipLock, sys_check_timeouts, sys_arch_mbox_fetch_Timeout, vars, arch
<1>4. CASE AppLock \/ AppUnlock \/ TimerExpires \/ UNCHANGED netvars
  BY <1>4 DEF AppLock, AppUnlock, TimerExpires, netvars, vars, arch, stack
<1> QED
  BY <1>1, <1>2, <1>3, <1>4 DEF NetNext

\* The thread has a message from the fetch until it has handled it.
LEMMA FetchedStep ==
  ASSUME Fetched, [NetNext]_netvars, NoPbuf \notin pbufs
  PROVE  Fetched'
<1>1. CASE TcpipStep
  <2>1. CASE Sleep
    BY <2>1 DEF Sleep, Tcpip, Fetched
  <2>2. CASE Fetch
    <3>1. tcpip' = "lock"
      BY <2>2 DEF Fetch, Tcpip
    <3> QED
      BY <3>1 DEF Fetched
  <2>3. CASE FetchTimeout
    BY <2>3 DEF FetchTimeout, Tcpip, Fetched
  <2>4. CASE TcpipLock
    <3>1. tcpip' = (IF msg = NoPbuf THEN "check" ELSE "handle") /\ msg' = msg
      BY <2>4 DEF TcpipLock, Tcpip
    <3> QED
      BY <3>1 DEF Fetched, NoPbuf
  <2>5. CASE sys_check_timeouts
    <3>1. tcpip \in {"check", "again"} /\ tcpip' = "again" /\ msg' = msg
      BY <2>5 DEF sys_check_timeouts, Tcpip
    <3> QED
      BY <3>1 DEF Fetched, NoPbuf
  <2>6. CASE HandleFree \/ HandleKeep
    <3>1. tcpip' = "again" /\ msg' = NoPbuf
      BY <2>6 DEF HandleFree, HandleKeep, Tcpip
    <3> QED
      BY <3>1 DEF Fetched, NoPbuf
  <2> QED
    BY <1>1, <2>1, <2>2, <2>3, <2>4, <2>5, <2>6 DEF TcpipStep
<1>2. CASE ~ TcpipStep
  <2>1. UNCHANGED <<tcpip, msg>>
    BY <1>2 DEF NetNext, Input, InputTaskStep, InputLock, LowLevelInput, InputPass, InputUnlock, AppLock, AppUnlock,
       AppFree, TimerExpires, netvars, stack
  <2> QED
    BY <2>1 DEF Fetched, NoPbuf
<1> QED
  BY <1>1, <1>2

\* NoPbuf is no pbuf.
LEMMA NoPbufApart == Fresh => NoPbuf \notin pbufs
<1>1. NoPbuf.frame = 0 /\ ~ (0 > 0)
  BY DEF NoPbuf
<1> QED
  BY <1>1 DEF Fresh

\* A pbuf moves from place to place, and is freed where it is.
LEMMA PlacedStep ==
  ASSUME NetTypeOK, NotedWhen, WorkedOn, Fresh, Fetched, Placed, [NetNext]_netvars
  PROVE  Placed'
<1>0. /\ TypeOK /\ tcpip_mbox \in Seq(pbufs) /\ Len(tcpip_mbox) \in Nat /\ NoPbuf \notin pbufs
  BY NoPbufApart DEF NetTypeOK
<1>1. CASE Posting
  <2>1. pbufs' = pbufs \cup {NewPbuf} /\ tcpip_mbox' = Append(tcpip_mbox, NewPbuf) /\ UNCHANGED <<msg, kept>>
    BY <1>1 DEF Posting, PassPbuf, sys_mbox_trypost, stack
  <2>2. NewPbuf \notin pbufs /\ NewPbuf # NoPbuf
    <3>1. MakePbuf
      BY <1>1 DEF Posting, PassPbuf
    <3>2. NewPbuf.frame > 0 /\ \A b \in pbufs : b.frame # NewPbuf.frame
      BY <1>0, <3>1, NewPbufIsNew
    <3>3. NoPbuf.frame = 0 /\ ~ (0 > 0)
      BY DEF NoPbuf
    <3> QED
      BY <3>2, <3>3
  <2>3. /\ Len(tcpip_mbox') = Len(tcpip_mbox) + 1 /\ tcpip_mbox'[Len(tcpip_mbox) + 1] = NewPbuf
        /\ \A i \in 1 .. Len(tcpip_mbox) : tcpip_mbox'[i] = tcpip_mbox[i]
    <3>1. tcpip_mbox \in Seq(pbufs \cup {NewPbuf}) /\ NewPbuf \in pbufs \cup {NewPbuf}
      BY <1>0
    <3> QED
      BY <2>1, <3>1, AppendProperties
  <2>4. msg \in pbufs \cup {NoPbuf} /\ kept \subseteq pbufs
    BY DEF NetTypeOK
  <2>5. \A i \in Mbox' : i \in Mbox \/ i = Len(tcpip_mbox) + 1
    BY <1>0, <2>3 DEF Mbox
  <2>6. Mbox \subseteq Mbox' /\ Len(tcpip_mbox) + 1 \in Mbox' /\ Len(tcpip_mbox) + 1 \notin Mbox
    BY <1>0, <2>3 DEF Mbox
  <2>7. \A i \in Mbox : tcpip_mbox'[i] = tcpip_mbox[i]
    BY <2>3 DEF Mbox
  <2>8. \A i \in Mbox' : tcpip_mbox'[i] \in pbufs' /\ tcpip_mbox'[i] # msg' /\ tcpip_mbox'[i] \notin kept'
    BY <2>1, <2>2, <2>3, <2>4, <2>5, <2>7 DEF Placed
  <2>9. \A i, j \in Mbox' : tcpip_mbox'[i] = tcpip_mbox'[j] => i = j
    <3>1. \A i \in Mbox : tcpip_mbox'[i] \in pbufs
      BY <2>7 DEF Placed
    <3>2. \A i, j \in Mbox : tcpip_mbox'[i] = tcpip_mbox'[j] => i = j
      BY <2>7 DEF Placed
    <3> QED
      BY <2>2, <2>3, <2>5, <3>1, <3>2
  <2>10. \A b \in pbufs' : b \in kept' \/ b = msg' \/ \E i \in Mbox' : tcpip_mbox'[i] = b
    <3> TAKE b \in pbufs'
    <3>1. CASE b = NewPbuf
      BY <2>3, <2>6, <3>1
    <3>2. CASE b \in pbufs
      BY <2>1, <2>6, <2>7, <3>2 DEF Placed
    <3> QED
      BY <2>1, <3>1, <3>2
  <2>11. (msg # NoPbuf => msg \in pbufs' /\ msg \notin kept) /\ kept \subseteq pbufs'
    BY <2>1 DEF Placed
  <2> QED
    BY <2>1, <2>8, <2>9, <2>10, <2>11 DEF Placed, NoPbuf
<1>2. CASE Fetch
  <2>1. /\ msg = NoPbuf /\ tcpip_mbox # <<>> /\ msg' = Head(tcpip_mbox) /\ tcpip_mbox' = Tail(tcpip_mbox)
        /\ UNCHANGED <<pbufs, kept>>
    BY <1>2 DEF Fetch, Tcpip, sys_arch_mbox_fetch, Fetched, vars
  <2>2. /\ Len(tcpip_mbox) > 0 /\ msg' = tcpip_mbox[1] /\ Len(tcpip_mbox') = Len(tcpip_mbox) - 1
        /\ \A i \in 1 .. (Len(tcpip_mbox) - 1) : tcpip_mbox'[i] = tcpip_mbox[i + 1]
    BY <1>0, <2>1, HeadTailProperties
  <2>3. 1 \in Mbox /\ msg' \in pbufs
    BY <1>0, <2>2 DEF Mbox, Placed
  <2>4. ASSUME NEW i \in Mbox'
        PROVE  i + 1 \in Mbox /\ i + 1 # 1 /\ tcpip_mbox'[i] = tcpip_mbox[i + 1] /\ i \in Nat
    <3>1. i \in 1 .. (Len(tcpip_mbox) - 1)
      BY <2>2 DEF Mbox
    <3> QED
      BY <1>0, <2>2, <3>1 DEF Mbox
  <2>5. ASSUME NEW i \in Mbox, i # 1
        PROVE  i - 1 \in Mbox' /\ tcpip_mbox'[i - 1] = tcpip_mbox[i]
    <3>1. i - 1 \in 1 .. (Len(tcpip_mbox) - 1) /\ (i - 1) + 1 = i
      BY <1>0, <2>5 DEF Mbox
    <3> QED
      BY <2>2, <3>1 DEF Mbox
  <2>6. \A i \in Mbox' : tcpip_mbox'[i] \in pbufs /\ tcpip_mbox'[i] # msg' /\ tcpip_mbox'[i] \notin kept
    BY <2>2, <2>3, <2>4 DEF Placed
  <2>7. ASSUME NEW i \in Mbox', NEW j \in Mbox', tcpip_mbox'[i] = tcpip_mbox'[j]
        PROVE  i = j
    <3>1. i + 1 = j + 1
      BY <2>4, <2>7 DEF Placed
    <3>2. i \in Nat /\ j \in Nat
      BY <2>4
    <3> QED
      BY <3>1, <3>2
  <2>8. msg' \notin kept
    BY <2>2, <2>3 DEF Placed
  <2>9. ASSUME NEW b \in pbufs
        PROVE  b \in kept \/ b = msg' \/ \E i \in Mbox' : tcpip_mbox'[i] = b
    <3>1. b \in kept \/ \E i \in Mbox : tcpip_mbox[i] = b
      BY <1>0, <2>1 DEF Placed
    <3> QED
      BY <2>2, <2>5, <3>1
  <2>10. kept \subseteq pbufs
    BY DEF Placed
  <2> QED
    BY <2>1, <2>3, <2>6, <2>7, <2>8, <2>9, <2>10 DEF Placed
<1>3. CASE HandleFree
  <2>1. /\ msg # NoPbuf /\ pbufs' = pbufs \ {msg} /\ msg' = NoPbuf /\ UNCHANGED <<tcpip_mbox, kept>>
    BY <1>3 DEF HandleFree, Tcpip, Fetched, pbuf_free_custom, arch
  <2>2. Mbox' = Mbox
    BY <2>1 DEF Mbox
  <2> QED
    BY <1>0, <2>1, <2>2 DEF Placed
<1>4. CASE HandleKeep
  <2>1. /\ msg # NoPbuf /\ kept' = kept \cup {msg} /\ msg' = NoPbuf /\ UNCHANGED <<tcpip_mbox, pbufs>>
    BY <1>4 DEF HandleKeep, Tcpip, Fetched, arch, vars
  <2>2. Mbox' = Mbox
    BY <2>1 DEF Mbox
  <2> QED
    BY <1>0, <2>1, <2>2 DEF Placed
<1>5. CASE AppFree
  <2>1. PICK b \in kept : pbufs' = pbufs \ {b} /\ kept' = kept \ {b} /\ UNCHANGED <<tcpip_mbox, msg>>
    BY <1>5 DEF AppFree, pbuf_free_custom, arch
  <2>2. Mbox' = Mbox
    BY <2>1 DEF Mbox
  <2> QED
    BY <1>0, <2>1, <2>2 DEF Placed
<1>6. CASE UNCHANGED <<pbufs, tcpip_mbox, msg, kept, handled>>
  BY <1>6 DEF Placed, Mbox, NoPbuf
<1> QED
  BY <1>1, <1>2, <1>3, <1>4, <1>5, <1>6, PathSteps
\* A sequence is one over whatever set its elements are in.
LEMMA SeqOver ==
  ASSUME NEW S, NEW T, NEW q \in Seq(S), \A i \in 1 .. Len(q) : q[i] \in T
  PROVE  q \in Seq(T)
OBVIOUS

\* The types are kept.
LEMMA NetTypeStep ==
  ASSUME NetTypeOK, Fetched, Placed', [NetNext]_netvars
  PROVE  NetTypeOK'
<1>1. TypeOK'
  BY RingStep, TypeStep DEF NetTypeOK
<1>2. lock_tcpip_core' \in {"none", "input", "tcpip", "app"}
  BY DEF NetNext, Input, InputTaskStep, InputLock, LowLevelInput, InputPass, InputUnlock, TcpipStep, Sleep, Fetch, FetchTimeout,
     TcpipLock, sys_check_timeouts, HandleFree, HandleKeep, AppLock, AppUnlock, AppFree, TimerExpires, sys_mutex_lock,
     sys_mutex_unlock, netvars, arch, NetTypeOK
<1>3. tcpip' \in {"again", "fetch", "lock", "check", "handle"}
  BY DEF NetNext, Input, InputTaskStep, InputLock, LowLevelInput, InputPass, InputUnlock, TcpipStep, Sleep, Fetch, FetchTimeout,
     TcpipLock, sys_check_timeouts, HandleFree, HandleKeep, AppLock, AppUnlock, AppFree, TimerExpires, Tcpip,
     netvars, stack, NetTypeOK
<1>4. due' \in BOOLEAN
  BY DEF NetNext, Input, InputTaskStep, InputLock, LowLevelInput, InputPass, InputUnlock, TcpipStep, Sleep, Fetch, FetchTimeout,
     TcpipLock, sys_check_timeouts, HandleFree, HandleKeep, AppLock, AppUnlock, AppFree, TimerExpires,
     netvars, stack, NetTypeOK
<1>5. tcpip_mbox' \in Seq(pbufs \cup {NewPbuf}) /\ Len(tcpip_mbox') <= MboxLength /\ handled' \in Nat
  <2>0. /\ tcpip_mbox \in Seq(pbufs) /\ Len(tcpip_mbox) \in Nat /\ Len(tcpip_mbox) <= MboxLength /\ MboxLength \in Nat
        /\ handled \in Nat /\ msg.frame \in Nat
    <3>1. NoPbuf.frame = 0
      BY DEF NoPbuf
    <3> QED
      BY <3>1, SysArchAssumption DEF NetTypeOK, TypeOK, MboxLength
  <2>1. tcpip_mbox \in Seq(pbufs \cup {NewPbuf})
    BY <2>0
  <2>2. CASE Posting
    <3>1. Len(tcpip_mbox) < MboxLength /\ tcpip_mbox' = Append(tcpip_mbox, NewPbuf) /\ handled' = handled
      BY <2>2 DEF Posting, sys_mbox_trypost, stack
    <3>2. tcpip_mbox' \in Seq(pbufs \cup {NewPbuf}) /\ Len(tcpip_mbox') = Len(tcpip_mbox) + 1
      BY <2>1, <3>1, AppendProperties
    <3> QED
      BY <2>0, <3>1, <3>2
  <2>3. CASE Fetch
    <3>1. tcpip_mbox # <<>> /\ tcpip_mbox' = Tail(tcpip_mbox) /\ handled' = handled
      BY <2>3 DEF Fetch, sys_arch_mbox_fetch
    <3>2. tcpip_mbox' \in Seq(pbufs \cup {NewPbuf}) /\ Len(tcpip_mbox') = Len(tcpip_mbox) - 1
      BY <2>1, <3>1, HeadTailProperties
    <3> QED
      BY <2>0, <3>1, <3>2
  <2>4. CASE HandleFree \/ HandleKeep
    BY <2>0, <2>1, <2>4 DEF HandleFree, HandleKeep, arch
  <2>5. CASE AppFree \/ UNCHANGED <<pbufs, tcpip_mbox, msg, kept, handled>>
    BY <2>0, <2>1, <2>5 DEF AppFree, arch
  <2> QED
    BY <2>2, <2>3, <2>4, <2>5, PathSteps
<1>6. tcpip_mbox' \in Seq(pbufs')
  <2>1. \A i \in 1 .. Len(tcpip_mbox') : tcpip_mbox'[i] \in pbufs'
    BY DEF Placed, Mbox
  <2> QED
    BY <1>5, <2>1, SeqOver
<1>7. msg' \in pbufs' \cup {NoPbuf} /\ kept' \subseteq pbufs'
  BY DEF Placed, NoPbuf
<1> QED
  BY <1>1, <1>2, <1>3, <1>4, <1>5, <1>6, <1>7 DEF NetTypeOK, NoPbuf, MboxLength

\* No step of the ring makes the newest frame older; a pbuf is made for the next.
LEMMA NewestGrows ==
  ASSUME TypeOK, Filled, NoContext, WorkedOn, [Next]_vars
  PROVE  Newest \in Int /\ Newest' \in Int /\ Newest' >= Newest
<1>0. Count \in Nat /\ Count' \in Nat /\ received \in Nat /\ received' \in Nat
  <2>1. Waiting' \in SUBSET Descs
    BY DEF Waiting
  <2> QED
    BY <2>1, CountFacts, SetCount, TypeStep DEF TypeOK, Count
<1>1. CASE Receive
  <2>1. received' = received + 1 /\ Count' = Count + 1
    BY <1>1, CountAfterReceive DEF Receive
  <2>2. Pending' <=> Pending
    BY <1>1 DEF Receive, Pending, local
  <2> QED
    BY <1>0, <2>1, <2>2 DEF Newest
<1>2. CASE GiveBack
  <2>1. received' = received /\ task = "give" /\ ~ Pending'
    BY <1>2 DEF GiveBack, Built, At, Pending
  <2>2. CASE Pending
    <3>1. AppDescNbr # 0 /\ ~ own[descidx]
      BY <2>1, <2>2 DEF WorkedOn
    <3>2. Count' = Count - 1
      BY <1>2, <3>1, CountAfterGiveBack
    <3> QED
      BY <1>0, <2>1, <2>2, <3>2 DEF Newest
  <2>3. CASE ~ Pending
    <3>1. Count' <= Count
      BY <1>0, <1>2, CountAfterGiveBack
    <3>2. Newest = received - Count + 0 /\ Newest' = received - Count' + 0
      BY <2>1, <2>3 DEF Newest
    <3>3. \A r, c, d \in Nat : d <= c => r - c + 0 \in Int /\ r - d + 0 \in Int /\ r - d + 0 >= r - c + 0
      OBVIOUS
    <3>4. received - Count + 0 \in Int /\ received - Count' + 0 \in Int /\ received - Count' + 0 >= received - Count + 0
      BY <1>0, <3>1, <3>3
    <3> QED
      BY <3>2, <3>4
  <2> QED
    BY <2>2, <2>3
<1>3. CASE ~ Receive /\ ~ GiveBack
  <2>0. ~ BuildAgain
    BY NoBuildAgain
  <2>1. received' = received /\ Count' = Count
    BY <1>3, <2>0, RingSame
  <2>2. Pending => Pending'
    BY <1>3, <2>0, Steps DEF Pending, At, IrqCheck, IrqClear, TakeSemaphore, GetRxDataBuffer, TestAppDescNbr, IsRxDataAvailable,
       ScanDesc, NoData, NoteCur, NoteFirst, NoteNbr, MakePbuf, PoolEmpty, BuildRxDescriptors, ResetAppDescNbr, Loop, local
  <2> QED
    BY <1>0, <2>1, <2>2 DEF Newest
<1> QED
  BY <1>1, <1>2, <1>3

\* The pbuf being made is for the frame after the newest that has one.
LEMMA NewPbufNext ==
  ASSUME TypeOK, NotedWhen, NoContext, ListInv, DescriptorsInOrder, WorkedOn, Fresh, MakePbuf, ~ raced
  PROVE  NewPbuf.frame = Newest + 1 /\ NewPbuf.frame = Newest'
<1>1. /\ task = "alloc" /\ AppDescNbr = 1 /\ FirstAppDesc \in Descs /\ UNCHANGED <<own, received>>
      /\ task' = "build" /\ p' = "pbuf"
  BY DEF MakePbuf, At, NotedWhen, TypeOK, ring
<1>2. ~ Pending /\ Pending' /\ OldestDesc = FirstAppDesc
  BY <1>1 DEF Pending, OldestDesc
<1>3. ~ own[FirstAppDesc] /\ NewPbuf.frame = Rx_Buff[FirstAppDesc]
  BY NewPbufIsNew
<1>4. Count \in Nat /\ Count > 0 /\ received \in Nat
  BY <1>1, <1>3, CountFacts DEF TypeOK
<1>5. NewPbuf.frame = received - Count + 1
  BY <1>2, <1>3, <1>4, OldestWaits DEF NoContext, NothingPassedOver
<1>6. Count' = Count
  BY <1>1 DEF Count, Waiting
<1>7. Newest = received - Count /\ Newest' = received - Count + 1
  BY <1>1, <1>2, <1>4, <1>6 DEF Newest
<1> QED
  BY <1>5, <1>7

\* Posting, fetching and handling keep the frames in order.
LEMMA OrderedStep ==
  ASSUME NetTypeOK, NotedWhen, Filled, NoContext, ListInv, DescriptorsInOrder, WorkedOn, Fresh, Fetched, Placed, Ordered,
         [NetNext]_netvars
  PROVE  Ordered'
<1> SUFFICES ASSUME ~ raced'
             PROVE  /\ handled' <= Newest'
                    /\ msg' # NoPbuf => handled' < msg'.frame /\ msg'.frame <= Newest'
                    /\ \A i \in Mbox' : /\ handled' < tcpip_mbox'[i].frame /\ tcpip_mbox'[i].frame <= Newest'
                                        /\ msg' # NoPbuf => msg'.frame < tcpip_mbox'[i].frame
                    /\ \A i, j \in Mbox' : i < j => tcpip_mbox'[i].frame < tcpip_mbox'[j].frame
  BY DEF Ordered, NoPbuf
<1>0. /\ TypeOK /\ ~ raced /\ tcpip_mbox \in Seq(pbufs) /\ Len(tcpip_mbox) \in Nat /\ NoPbuf \notin pbufs
      /\ handled \in Nat /\ Newest \in Int /\ Newest' \in Int /\ Newest' >= Newest
  BY NoPbufApart, RingStep, RacedStays, NewestGrows DEF NetTypeOK
<1>f. /\ \A b \in pbufs : b.frame \in Nat
      /\ \A i \in Mbox : tcpip_mbox[i].frame \in Nat
      /\ msg # NoPbuf => msg.frame \in Nat
  BY <1>0 DEF TypeOK, Placed
<1>o. /\ handled <= Newest
      /\ msg # NoPbuf => handled < msg.frame /\ msg.frame <= Newest
      /\ \A i \in Mbox : /\ handled < tcpip_mbox[i].frame /\ tcpip_mbox[i].frame <= Newest
                         /\ msg # NoPbuf => msg.frame < tcpip_mbox[i].frame
      /\ \A i, j \in Mbox : i < j => tcpip_mbox[i].frame < tcpip_mbox[j].frame
  BY <1>0 DEF Ordered
<1>n. /\ handled <= Newest'
      /\ msg # NoPbuf => msg.frame <= Newest'
      /\ \A i \in Mbox : tcpip_mbox[i].frame <= Newest'
  BY <1>0, <1>f, <1>o
<1>1. CASE Posting
  <2>1. tcpip_mbox' = Append(tcpip_mbox, NewPbuf) /\ UNCHANGED <<msg, handled>> /\ MakePbuf
    BY <1>1 DEF Posting, PassPbuf, sys_mbox_trypost, stack
  <2>2. NewPbuf.frame = Newest + 1 /\ NewPbuf.frame = Newest'
    BY <1>0, <2>1, NewPbufNext
  <2>3. /\ Len(tcpip_mbox') = Len(tcpip_mbox) + 1 /\ tcpip_mbox'[Len(tcpip_mbox) + 1] = NewPbuf
        /\ \A i \in 1 .. Len(tcpip_mbox) : tcpip_mbox'[i] = tcpip_mbox[i]
    <3>1. tcpip_mbox \in Seq(pbufs \cup {NewPbuf}) /\ NewPbuf \in pbufs \cup {NewPbuf}
      BY <1>0
    <3> QED
      BY <2>1, <3>1, AppendProperties
  <2>4. \A i \in Mbox' : i \in Nat /\ (i \in Mbox \/ i = Len(tcpip_mbox) + 1)
    BY <1>0, <2>3 DEF Mbox
  <2>5. \A i \in Mbox : tcpip_mbox'[i] = tcpip_mbox[i] /\ i < Len(tcpip_mbox) + 1
    BY <1>0, <2>3 DEF Mbox
  <2>6. /\ handled < NewPbuf.frame /\ NewPbuf.frame <= Newest'
        /\ msg # NoPbuf => msg.frame < NewPbuf.frame
        /\ \A i \in Mbox : tcpip_mbox[i].frame < NewPbuf.frame
    BY <1>0, <1>f, <1>o, <2>2
  <2>7. ASSUME NEW i \in Mbox'
        PROVE  /\ handled < tcpip_mbox'[i].frame /\ tcpip_mbox'[i].frame <= Newest'
               /\ msg # NoPbuf => msg.frame < tcpip_mbox'[i].frame
    BY <1>o, <1>n, <2>3, <2>4, <2>5, <2>6
  <2>8. ASSUME NEW i \in Mbox', NEW j \in Mbox', i < j
        PROVE  tcpip_mbox'[i].frame < tcpip_mbox'[j].frame
    <3>1. i \in Mbox
      BY <1>0, <2>4, <2>8, <2>3 DEF Mbox
    <3> QED
      BY <1>o, <2>3, <2>4, <2>5, <2>6, <2>8, <3>1
  <2> QED
    BY <1>o, <1>n, <2>1, <2>7, <2>8
<1>2. CASE Fetch
  <2>1. /\ msg = NoPbuf /\ tcpip_mbox # <<>> /\ msg' = Head(tcpip_mbox) /\ tcpip_mbox' = Tail(tcpip_mbox)
        /\ handled' = handled
    BY <1>2 DEF Fetch, Tcpip, sys_arch_mbox_fetch, Fetched
  <2>2. /\ Len(tcpip_mbox) > 0 /\ msg' = tcpip_mbox[1] /\ Len(tcpip_mbox') = Len(tcpip_mbox) - 1
        /\ \A i \in 1 .. (Len(tcpip_mbox) - 1) : tcpip_mbox'[i] = tcpip_mbox[i + 1]
    BY <1>0, <2>1, HeadTailProperties
  <2>3. 1 \in Mbox
    BY <1>0, <2>2 DEF Mbox
  <2>4. ASSUME NEW i \in Mbox'
        PROVE  i + 1 \in Mbox /\ 1 < i + 1 /\ tcpip_mbox'[i] = tcpip_mbox[i + 1] /\ i \in Nat
    <3>1. i \in 1 .. (Len(tcpip_mbox) - 1)
      BY <2>2 DEF Mbox
    <3> QED
      BY <1>0, <2>2, <3>1 DEF Mbox
  <2>5. handled < msg'.frame /\ msg'.frame <= Newest'
    BY <1>o, <1>n, <2>2, <2>3
  <2>6. \A i \in Mbox' : /\ handled < tcpip_mbox'[i].frame /\ tcpip_mbox'[i].frame <= Newest'
                         /\ msg'.frame < tcpip_mbox'[i].frame
    BY <1>o, <1>n, <2>2, <2>3, <2>4
  <2>7. ASSUME NEW i \in Mbox', NEW j \in Mbox', i < j
        PROVE  tcpip_mbox'[i].frame < tcpip_mbox'[j].frame
    <3>1. i + 1 < j + 1
      BY <2>4, <2>7
    <3> QED
      BY <1>o, <2>4, <3>1
  <2> QED
    BY <1>n, <2>1, <2>5, <2>6, <2>7
<1>3. CASE HandleFree \/ HandleKeep
  <2>1. msg # NoPbuf /\ handled' = msg.frame /\ msg' = NoPbuf /\ tcpip_mbox' = tcpip_mbox
    BY <1>3 DEF HandleFree, HandleKeep, Tcpip, Fetched, arch
  <2>2. Mbox' = Mbox
    BY <2>1 DEF Mbox
  <2> QED
    BY <1>o, <1>n, <2>1, <2>2
<1>4. CASE AppFree \/ UNCHANGED <<pbufs, tcpip_mbox, msg, kept, handled>>
  <2>1. UNCHANGED <<tcpip_mbox, msg, handled>>
    BY <1>4 DEF AppFree, arch
  <2>2. Mbox' = Mbox
    BY <2>1 DEF Mbox
  <2> QED
    BY <1>o, <1>n, <2>1, <2>2
<1> QED
  BY <1>1, <1>2, <1>3, <1>4, PathSteps
----------------------------------------------------------------------------
(* The theorems.                                                            *)

\* The invariant holds at the start ...
LEMMA NetInvInit == NetInit => NetInv
<1> SUFFICES ASSUME NetInit PROVE NetInv
  OBVIOUS
<1>1. RxInv /\ TypeOK
  BY RingInit, RxInit DEF RxInv
<1>2. /\ tcpip_mbox = <<>> /\ lock_tcpip_core = "tcpip" /\ tcpip = "again" /\ msg = NoPbuf
      /\ due \in BOOLEAN /\ kept = {} /\ handled = 0
  BY DEF NetInit
<1>3. /\ own = [d \in Descs |-> TRUE] /\ Rx_Buff = [d \in Descs |-> 0] /\ AppDescNbr = 0 /\ task = "wait"
      /\ pbufs = {} /\ received = 0 /\ ctxt = {} /\ AppContextDesc = 0
  BY Zenon DEF NetInit, Init
<1>4. Len(tcpip_mbox) = 0 /\ Mbox = {} /\ 0 <= MboxLength /\ tcpip_mbox \in Seq(pbufs)
  BY <1>2, SysArchAssumption DEF Mbox, MboxLength
<1>5. NetTypeOK
  BY <1>1, <1>2, <1>3, <1>4 DEF NetTypeOK
<1>6. NoContext /\ WorkedOn /\ Fresh /\ Fetched
  BY <1>2, <1>3 DEF NoContext, WorkedOn, Pending, Fresh, Fetched
<1>7. Placed
  BY <1>2, <1>3, <1>4 DEF Placed
<1>8. Ordered
  <2>1. Waiting = {}
    BY <1>3 DEF Waiting
  <2>2. Count = 0 /\ ~ Pending
    BY <1>3, <2>1, CountFacts DEF Pending
  <2>3. Newest = 0
    BY <1>3, <2>2 DEF Newest
  <2> QED
    BY <1>2, <1>4, <2>3 DEF Ordered
<1> QED
  BY <1>1, <1>5, <1>6, <1>7, <1>8 DEF NetInv

\* ... and is kept by every step.
LEMMA NetInvStep == NetInv /\ [NetNext]_netvars => NetInv'
<1> SUFFICES ASSUME NetInv, [NetNext]_netvars PROVE NetInv'
  OBVIOUS
<1>1. /\ RxInv /\ NoContext /\ NetTypeOK /\ WorkedOn /\ Fresh /\ Fetched /\ Placed /\ Ordered /\ TypeOK
      /\ NotedWhen /\ Filled /\ ListInv /\ DescriptorsInOrder /\ RoundInv /\ [Next]_vars
  BY RingStep DEF NetInv, RxInv
<1>2. RxInv'
  BY <1>1, RxStep
<1>3. NoContext' /\ WorkedOn' /\ Fresh' /\ Fetched' /\ Placed' /\ Ordered'
  BY <1>1, NoContextStep, WorkedOnStep, FreshStep, NoPbufApart, FetchedStep, PlacedStep, OrderedStep
<1>4. NetTypeOK'
  BY <1>1, <1>3, NetTypeStep
<1> QED
  BY <1>2, <1>3, <1>4 DEF NetInv

\* The inductive invariant of the whole path: that of the receive ring, and what
\* the ring, the mailbox, the fetched message and the pbufs kept for the
\* application have to do with one another.
THEOREM PathInvariant == NetSpec => []NetInv
  BY NetInvInit, NetInvStep, PTL DEF NetSpec

\* Every variable keeps its type: the mailbox never holds more than MboxLength
\* messages, and every message in it, fetched or kept is a pbuf still in use.
THEOREM NetTypeCorrect == NetSpec => []NetTypeOK
<1>1. NetInv => NetTypeOK
  BY DEF NetInv
<1> QED
  BY <1>1, PathInvariant, PTL

\* What OnTheirWay is, by the message fetched and the mailbox.
LEMMA WayIs ==
  ASSUME NetTypeOK
  PROVE  /\ msg = NoPbuf => OnTheirWay = tcpip_mbox
         /\ msg # NoPbuf =>
              /\ OnTheirWay \in Seq(pbufs) /\ Len(OnTheirWay) = Len(tcpip_mbox) + 1 /\ OnTheirWay[1] = msg
              /\ \A i \in 1 .. Len(tcpip_mbox) : OnTheirWay[i + 1] = tcpip_mbox[i]
<1>1. tcpip_mbox \in Seq(pbufs)
  BY DEF NetTypeOK
<1>2. CASE msg = NoPbuf
  BY <1>1, <1>2 DEF OnTheirWay
<1>3. CASE msg # NoPbuf
  <2>1. <<msg>> \in Seq(pbufs) /\ OnTheirWay = <<msg>> \o tcpip_mbox
    BY <1>3 DEF NetTypeOK, OnTheirWay
  <2> QED
    BY <1>1, <1>3, <2>1
<1> QED
  BY <1>2, <1>3

\* The pbufs reach the stack in the order in which their frames were received, one
\* for a frame, and those made for a frame noted in time hold it until the DMA has
\* come round to their buffers; whichever of the three tasks has the core lock or
\* the processor, unless the interrupt handler met ethernetif_input in the middle of
\* an update of RxDescList.
THEOREM FramesDeliveredInOrder == NetSpec => []DeliveredInOrder
<1>1. NetInv => DeliveredInOrder
  <2> SUFFICES ASSUME NetInv, ~ raced
               PROVE  /\ \A i \in 1 .. Len(OnTheirWay) :
                           Readable(OnTheirWay[i]) => Rx_Buff[OnTheirWay[i].buffer] = OnTheirWay[i].frame
                      /\ \A i \in 1 .. Len(OnTheirWay) : handled < OnTheirWay[i].frame
                      /\ \A i, j \in 1 .. Len(OnTheirWay) : i < j => OnTheirWay[i].frame < OnTheirWay[j].frame
                      /\ (OnTheirWay # <<>> /\ task \in {"wait", "get", "loop"}) =>
                           OnTheirWay[Len(OnTheirWay)].frame <= received - Count
    BY DEF DeliveredInOrder, Count
  <2>0. NetTypeOK /\ Ordered /\ tcpip_mbox \in Seq(pbufs) /\ Len(tcpip_mbox) \in Nat /\ Count \in Nat /\ received \in Nat
    BY CountFacts DEF NetInv, NetTypeOK, TypeOK
  <2>n. task \in {"wait", "get", "loop"} => Newest = received - Count
    BY <2>0 DEF Newest, Pending
  <2>o. /\ msg # NoPbuf => handled < msg.frame /\ msg.frame <= Newest
        /\ \A i \in Mbox : /\ handled < tcpip_mbox[i].frame /\ tcpip_mbox[i].frame <= Newest
                           /\ msg # NoPbuf => msg.frame < tcpip_mbox[i].frame
        /\ \A i, j \in Mbox : i < j => tcpip_mbox[i].frame < tcpip_mbox[j].frame
    BY <2>0 DEF Ordered
  <2>r. \A i \in 1 .. Len(OnTheirWay) :
          Readable(OnTheirWay[i]) => Rx_Buff[OnTheirWay[i].buffer] = OnTheirWay[i].frame
    <3>1. OnTheirWay \in Seq(pbufs)
      BY <2>0, WayIs
    <3>2. \A i \in 1 .. Len(OnTheirWay) : OnTheirWay[i] \in pbufs
      BY <3>1
    <3>3. BufferIntactForARound
      BY DEF NetInv, RxInv
    <3> QED
      BY <3>2, <3>3 DEF BufferIntactForARound, Readable
  <2>1. CASE msg = NoPbuf
    <3>1. OnTheirWay = tcpip_mbox
      BY <2>0, <2>1, WayIs
    <3>2. tcpip_mbox # <<>> => Len(tcpip_mbox) \in Mbox
      BY <2>0 DEF Mbox
    <3> QED
      BY <2>n, <2>o, <2>r, <3>1, <3>2 DEF Mbox
  <2>2. CASE msg # NoPbuf
    <3>1. /\ Len(OnTheirWay) = Len(tcpip_mbox) + 1 /\ OnTheirWay[1] = msg
          /\ \A i \in Mbox : OnTheirWay[i + 1] = tcpip_mbox[i]
      BY <2>0, <2>2, WayIs DEF Mbox
    <3>2. ASSUME NEW i \in 1 .. Len(OnTheirWay), i # 1
          PROVE  i - 1 \in Mbox /\ OnTheirWay[i] = tcpip_mbox[i - 1]
      <4>1. i - 1 \in Mbox /\ (i - 1) + 1 = i
        BY <2>0, <3>1, <3>2 DEF Mbox
      <4> QED
        BY <3>1, <4>1
    <3>3. ASSUME NEW i \in 1 .. Len(OnTheirWay)
          PROVE  handled < OnTheirWay[i].frame /\ OnTheirWay[i].frame <= Newest
      BY <2>2, <2>o, <3>1, <3>2
    <3>4. ASSUME NEW i \in 1 .. Len(OnTheirWay), NEW j \in 1 .. Len(OnTheirWay), i < j
          PROVE  OnTheirWay[i].frame < OnTheirWay[j].frame
      <4>1. j # 1
        BY <3>4
      <4>2. CASE i = 1
        BY <2>2, <2>o, <3>1, <3>2, <4>1, <4>2
      <4>3. CASE i # 1
        <5>1. i - 1 < j - 1
          BY <3>4
        <5> QED
          BY <2>o, <3>2, <4>1, <4>3, <5>1
      <4> QED
        BY <4>2, <4>3
    <3>5. Len(OnTheirWay) \in 1 .. Len(OnTheirWay)
      BY <2>0, <3>1
    <3> QED
      BY <2>n, <2>r, <3>3, <3>4, <3>5
  <2> QED
    BY <2>1, <2>2
<1> QED
  BY <1>1, PathInvariant, PTL

\* A pbuf is in exactly one place: on its way or kept for the application.  None is
\* lost when the mailbox is full and none is freed that is still to be handled.
THEOREM PbufsPlaced == NetSpec => []EveryPbufSomewhere
<1>1. NetInv => EveryPbufSomewhere
  <2> DEFINE way == {OnTheirWay[i] : i \in DOMAIN OnTheirWay}
  <2> SUFFICES ASSUME NetInv
               PROVE  way \cup kept = pbufs /\ way \cap kept = {}
    BY DEF EveryPbufSomewhere
  <2>0. NetTypeOK /\ Placed /\ tcpip_mbox \in Seq(pbufs) /\ Len(tcpip_mbox) \in Nat /\ NoPbuf \notin pbufs
    BY NoPbufApart DEF NetInv, NetTypeOK
  <2>1. CASE msg = NoPbuf
    <3>1. OnTheirWay = tcpip_mbox /\ DOMAIN tcpip_mbox = Mbox
      BY <2>0, <2>1, WayIs DEF Mbox
    <3> QED
      BY <2>0, <2>1, <3>1 DEF Placed
  <2>2. CASE msg # NoPbuf
    <3>1. /\ OnTheirWay \in Seq(pbufs) /\ Len(OnTheirWay) = Len(tcpip_mbox) + 1 /\ OnTheirWay[1] = msg
          /\ \A i \in Mbox : OnTheirWay[i + 1] = tcpip_mbox[i]
      BY <2>0, <2>2, WayIs DEF Mbox
    <3>2. DOMAIN OnTheirWay = 1 .. (Len(tcpip_mbox) + 1)
      BY <3>1
    <3>3. \A i \in Mbox : i + 1 \in DOMAIN OnTheirWay
      BY <2>0, <3>2 DEF Mbox
    <3>4. 1 \in DOMAIN OnTheirWay
      BY <2>0, <3>2
    <3>5. ASSUME NEW i \in DOMAIN OnTheirWay, i # 1
          PROVE  \E k \in Mbox : OnTheirWay[i] = tcpip_mbox[k]
      <4>1. i - 1 \in Mbox /\ (i - 1) + 1 = i
        BY <2>0, <3>2, <3>5 DEF Mbox
      <4> QED
        BY <3>1, <4>1
    <3>6. \A b : b \in way <=> b = msg \/ \E k \in Mbox : b = tcpip_mbox[k]
      BY <3>1, <3>3, <3>4, <3>5
    <3> HIDE DEF way
    <3> QED
      BY <2>0, <2>2, <3>6 DEF Placed
  <2> QED
    BY <2>1, <2>2
<1> QED
  BY <1>1, PathInvariant, PTL
----------------------------------------------------------------------------
(* The core lock.                                                           *)

\* ethernetif_input is in low_level_input or netif->input.
InDriver == task \in {"test", "avail", "scan", "nodata", "cur", "first", "nbr", "alloc", "build", "give", "again", "reset", "loop"}

\* Who runs code of the stack has the lock, and the lock is free or with someone
\* who will release it.
CoreLocked ==
  /\ tcpip \in {"again", "check", "handle"} <=> lock_tcpip_core = "tcpip"
  /\ InDriver => lock_tcpip_core = "input"
  /\ lock_tcpip_core = "input" => task # "wait"

\* Whoever takes or gives the lock, it stays with the task that runs the stack.
LEMMA CoreLockedStep ==
  ASSUME NetTypeOK, CoreLocked, [NetNext]_netvars
  PROVE  CoreLocked'
<1>1. CASE Input(Hardware)
  <2>1. UNCHANGED <<task, lock_tcpip_core, tcpip>>
    BY <1>1 DEF Input, Hardware, Receive, IrqCheck, IrqClear, arch, stack
  <2> QED
    BY <2>1 DEF CoreLocked, InDriver
<1>2. CASE InputTaskStep
  <2>0. tcpip' = tcpip
    BY <1>2 DEF InputTaskStep, Input, InputLock, LowLevelInput, InputPass, InputUnlock, stack
  <2>1. CASE InputLock
    <3>1. lock_tcpip_core = "none" /\ lock_tcpip_core' = "input" /\ task = "get" /\ task' = task
      BY <2>1 DEF InputLock, At, sys_mutex_lock, vars
    <3> QED
      BY <2>0, <3>1 DEF CoreLocked, InDriver
  <2>2. CASE LowLevelInput
    <3>1. lock_tcpip_core = "input" /\ lock_tcpip_core' = "input" /\ task' = "test"
      BY <2>2 DEF LowLevelInput, Input, GetRxDataBuffer, arch
    <3> QED
      BY <2>0, <3>1 DEF CoreLocked, InDriver
  <2>3. CASE InputPass
    <3>1. task = "alloc" /\ task' = "build" /\ lock_tcpip_core' = lock_tcpip_core
      BY <2>3 DEF InputPass, PassPbuf, RefusePbuf, MakePbuf, At
    <3> QED
      BY <2>0, <3>1 DEF CoreLocked, InDriver
  <2>4. CASE InputUnlock
    <3>1. lock_tcpip_core = "input" /\ lock_tcpip_core' = "none" /\ task' \in {"get", "wait"}
      BY <2>4 DEF InputUnlock, Loop, sys_mutex_unlock
    <3> QED
      BY <2>0, <3>1 DEF CoreLocked, InDriver
  <2>5. CASE Input(TakeSemaphore)
    <3>1. task = "wait" /\ task' = "get" /\ lock_tcpip_core' = lock_tcpip_core
      BY <2>5 DEF Input, TakeSemaphore, At, arch
    <3> QED
      BY <2>0, <3>1 DEF CoreLocked, InDriver
  <2>6. CASE \/ Input(TestAppDescNbr) \/ Input(IsRxDataAvailable) \/ Input(ScanDesc)
             \/ Input(NoData) \/ Input(NoteCur) \/ Input(NoteFirst) \/ Input(NoteNbr) \/ Input(PoolEmpty)
             \/ Input(BuildRxDescriptors) \/ Input(GiveBack) \/ Input(ResetAppDescNbr)
    <3>1. InDriver /\ InDriver' /\ lock_tcpip_core' = lock_tcpip_core
      BY <2>6 DEF Input, At, TestAppDescNbr, IsRxDataAvailable, ScanDesc, NoData, NoteCur, NoteFirst, NoteNbr,
         PoolEmpty, BuildRxDescriptors, GiveBack, Built, ResetAppDescNbr, arch, InDriver
    <3>2. task' # "wait"
      BY <3>1 DEF InDriver
    <3> QED
      BY <2>0, <3>1, <3>2 DEF CoreLocked
  <2> QED
    BY <1>2, <2>1, <2>2, <2>3, <2>4, <2>5, <2>6 DEF InputTaskStep
<1>3. CASE TcpipStep
  <2>0. task' = task
    BY <1>3 DEF TcpipStep, Sleep, Fetch, FetchTimeout, TcpipLock, sys_check_timeouts, HandleFree, HandleKeep,
       pbuf_free_custom, vars
  <2>1. CASE Sleep
    <3>1. lock_tcpip_core = "tcpip" /\ lock_tcpip_core' = "none" /\ tcpip' = "fetch"
      BY <2>1 DEF Sleep, Tcpip, sys_mutex_unlock
    <3> QED
      BY <2>0, <3>1 DEF CoreLocked, InDriver
  <2>2. CASE Fetch \/ FetchTimeout
    <3>1. lock_tcpip_core' = lock_tcpip_core /\ tcpip = "fetch" /\ tcpip' = "lock"
      BY <2>2 DEF Fetch, FetchTimeout, Tcpip
    <3> QED
      BY <2>0, <3>1 DEF CoreLocked, InDriver
  <2>3. CASE TcpipLock
    <3>1. lock_tcpip_core = "none" /\ lock_tcpip_core' = "tcpip" /\ tcpip' \in {"check", "handle"}
      BY <2>3 DEF TcpipLock, Tcpip, sys_mutex_lock
    <3> QED
      BY <2>0, <3>1 DEF CoreLocked, InDriver
  <2>4. CASE sys_check_timeouts \/ HandleFree \/ HandleKeep
    <3>1. lock_tcpip_core' = lock_tcpip_core /\ tcpip \in {"again", "check", "handle"} /\ tcpip' = "again"
      BY <2>4 DEF sys_check_timeouts, HandleFree, HandleKeep, Tcpip, arch
    <3> QED
      BY <2>0, <3>1 DEF CoreLocked, InDriver
  <2> QED
    BY <1>3, <2>1, <2>2, <2>3, <2>4 DEF TcpipStep
<1>4. CASE AppLock \/ AppUnlock
  <2>1. /\ UNCHANGED <<task, tcpip>> /\ lock_tcpip_core \in {"none", "app"} /\ lock_tcpip_core' \in {"none", "app"}
    BY <1>4 DEF AppLock, AppUnlock, sys_mutex_lock, sys_mutex_unlock, vars, stack
  <2> QED
    BY <2>1 DEF CoreLocked, InDriver
<1>5. CASE AppFree \/ TimerExpires \/ UNCHANGED netvars
  <2>1. UNCHANGED <<task, tcpip, lock_tcpip_core>>
    BY <1>5 DEF AppFree, pbuf_free_custom, TimerExpires, netvars, vars, arch, stack
  <2> QED
    BY <2>1 DEF CoreLocked, InDriver
<1> QED
  BY <1>1, <1>2, <1>3, <1>4, <1>5 DEF NetNext

\* The stack is entered by one task at a time: tcpip_thread handles messages and
\* timers, and ethernetif_input works on the ring and posts, only with
\* lock_tcpip_core, and each gives back the lock it has itself.
THEOREM CoreLockHeld == NetSpec => []CoreLocked
<1>1. NetInit => CoreLocked
  <2> SUFFICES ASSUME NetInit PROVE CoreLocked
    OBVIOUS
  <2>1. task = "wait" /\ lock_tcpip_core = "tcpip" /\ tcpip = "again"
    BY Zenon DEF NetInit, Init
  <2> QED
    BY <2>1 DEF CoreLocked, InDriver
<1>2. NetTypeOK /\ CoreLocked /\ [NetNext]_netvars => CoreLocked'
  BY CoreLockedStep
<1> QED
  BY <1>1, <1>2, NetTypeCorrect, PTL DEF NetSpec
=============================================================================
