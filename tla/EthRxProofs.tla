---------------------------- MODULE EthRxProofs ----------------------------
(****************************************************************************)
(* The safety properties of the receive ring, for every number of           *)
(* descriptors and of pbufs.                                                *)
(****************************************************************************)
EXTENDS EthRx, FiniteSetTheorems, TLAPS

\* The frames in the ring.
Count == Cardinality(Waiting)

\* What the task does is undisturbed by an interrupt that is still pending.
IrqInv ==
  /\ ri => running /\ Count > 0
  /\ isr = "clear" => ri
  /\ Count <= received

\* A frame is noted while the task makes a pbuf for it or forgets it.
NotedWhen == task \in {"alloc", "again", "reset"} => AppDescNbr = 1

\* A descriptor that is not the DMA's has a frame; one is built twice only after
\* another was passed over.
Filled ==
  /\ \A d \in Descs : ~ own[d] => Rx_Buff[d] > 0
  /\ task = "again" => AppContextDesc = 1

\* Where the software's indices stand at each point of the task.
ListInv ==
  ~ raced =>
    /\ (AppDescNbr = 1 /\ task \notin {"first", "nbr"}) =>
         /\ NothingPassedOver => CurRxDesc = INCR_RX_DESC_INDEX(FirstAppDesc)
         /\ task \notin {"again", "reset"} => ~ own[FirstAppDesc]
    /\ task \in {"scan", "nodata", "cur"} => scan = IF AppDescNbr = 1 THEN FirstAppDesc ELSE CurRxDesc
    /\ task \in {"first", "nbr"} =>
         /\ NothingPassedOver => CurRxDesc = INCR_RX_DESC_INDEX(scan)
         /\ AppDescNbr = 1 => FirstAppDesc = scan
    /\ task \in {"cur", "first", "nbr"} => ~ own[scan]
    /\ task = "nodata" => AppDescNbr = 0
    /\ task = "nbr" => FirstAppDesc = scan
    /\ task = "give" => descidx = FirstAppDesc

\* The task is on its way back to waiting, with nothing found.
Settling ==
  \/ task \in {"wait", "nodata"}
  \/ task \in {"build", "give", "again", "reset", "loop"} /\ p = "none"

\* A frame that comes while it is will be signalled.
SignalInv ==
  /\ p = "nomem" => exhausted
  /\ (task = "avail" /\ ~ raced /\ AppDescNbr = 1) => RxPktSemaphore
  /\ (Settling /\ ~ raced /\ ~ exhausted /\ NothingPassedOver) =>
       /\ AppDescNbr = 1 => RxPktSemaphore
       /\ isr = "clear" => RxPktSemaphore
       /\ Count > 0 => RxPktSemaphore \/ (ri /\ isr = "idle")

\* The buffers, from the DMA's place on: the last frames, oldest first.
RoundInv ==
  \A i \in Descs :
    Rx_Buff[(dma + i) % ETH_RX_DESC_CNT] =
      IF received >= ETH_RX_DESC_CNT - i THEN received - ETH_RX_DESC_CNT + 1 + i ELSE 0

\* What known says of descidx.
KnownInv ==
  /\ (task \in {"test", "alloc"} /\ known) => descidx = FirstAppDesc /\ AppDescNbr = 1
  /\ task \in {"avail", "scan", "nodata", "cur", "first", "nbr"} => ~ known

\* A pbuf made for a frame that was noted in time has a number.
Numbered == \A b \in pbufs : (b.known /\ ~ raced) => b.frame > 0

RxInv ==
  /\ TypeOK /\ IrqInv /\ NotedWhen /\ Filled /\ ListInv /\ DescriptorsInOrder
  /\ SignalInv /\ RoundInv /\ KnownInv /\ Numbered /\ BufferIntactForARound
----------------------------------------------------------------------------
(* Arithmetic of the ring.                                                  *)

Ahead(d, i) == (d + i) % ETH_RX_DESC_CNT

\* The ring has a descriptor.
LEMMA CountType == ETH_RX_DESC_CNT \in Nat /\ ETH_RX_DESC_CNT > 0
  BY EthRxAssumption

\* At most once round the ring.
LEMMA AheadIs ==
  ASSUME NEW d \in Descs, NEW i \in 0 .. ETH_RX_DESC_CNT
  PROVE  /\ Ahead(d, i) = IF d + i < ETH_RX_DESC_CNT THEN d + i ELSE d + i - ETH_RX_DESC_CNT
         /\ Ahead(d, i) \in Descs
<1>1. /\ ETH_RX_DESC_CNT \in Nat /\ ETH_RX_DESC_CNT > 0 /\ d \in Nat /\ d < ETH_RX_DESC_CNT
      /\ i \in Nat /\ i <= ETH_RX_DESC_CNT
  BY CountType DEF Descs
<1>2. \A n \in Nat \ {0} : \A x \in 0 .. (n - 1) : x % n = x
  OBVIOUS
<1>3. \A n \in Nat \ {0} : \A x \in n .. (2 * n - 1) : x % n = x - n
  OBVIOUS
<1>4. Ahead(d, i) = IF d + i < ETH_RX_DESC_CNT THEN d + i ELSE d + i - ETH_RX_DESC_CNT
  BY <1>1, <1>2, <1>3 DEF Ahead
<1> QED
  BY <1>1, <1>4 DEF Descs

\* Different distances lead to different descriptors.
LEMMA AheadDistinct ==
  ASSUME NEW d \in Descs, NEW i \in Descs, NEW k \in Descs, Ahead(d, i) = Ahead(d, k)
  PROVE  i = k
<1>1. /\ ETH_RX_DESC_CNT \in Nat /\ d \in Nat /\ d < ETH_RX_DESC_CNT
      /\ i \in Nat /\ i < ETH_RX_DESC_CNT /\ k \in Nat /\ k < ETH_RX_DESC_CNT
      /\ i \in 0 .. ETH_RX_DESC_CNT /\ k \in 0 .. ETH_RX_DESC_CNT
  BY CountType DEF Descs
<1> QED
  BY <1>1, AheadIs

\* Every descriptor is some way ahead.
LEMMA AheadAll ==
  ASSUME NEW d \in Descs, NEW e \in Descs
  PROVE  \E i \in Descs : e = Ahead(d, i)
<1>1. /\ ETH_RX_DESC_CNT \in Nat /\ ETH_RX_DESC_CNT > 0 /\ d \in Nat /\ d < ETH_RX_DESC_CNT
      /\ e \in Nat /\ e < ETH_RX_DESC_CNT
  BY CountType DEF Descs
<1>2. CASE e >= d
  <2>1. e - d \in Descs /\ e - d \in 0 .. ETH_RX_DESC_CNT
    BY <1>1, <1>2 DEF Descs
  <2>2. e = Ahead(d, e - d)
    BY <1>1, <1>2, <2>1, AheadIs
  <2> QED
    BY <2>1, <2>2
<1>3. CASE ~ (e >= d)
  <2>1. e - d + ETH_RX_DESC_CNT \in Descs /\ e - d + ETH_RX_DESC_CNT \in 0 .. ETH_RX_DESC_CNT
    BY <1>1, <1>3 DEF Descs
  <2>2. e = Ahead(d, e - d + ETH_RX_DESC_CNT)
    BY <1>1, <1>3, <2>1, AheadIs
  <2> QED
    BY <2>1, <2>2
<1> QED
  BY <1>2, <1>3

\* Two ways in one, up to once round the ring.
LEMMA AheadTwice ==
  ASSUME NEW d \in Descs, NEW i \in Nat, NEW k \in Nat, i + k <= ETH_RX_DESC_CNT
  PROVE  Ahead(Ahead(d, i), k) = Ahead(d, i + k)
<1> DEFINE e == Ahead(d, i)
<1>1. /\ ETH_RX_DESC_CNT \in Nat /\ ETH_RX_DESC_CNT > 0 /\ d \in Nat /\ d < ETH_RX_DESC_CNT
      /\ i \in 0 .. ETH_RX_DESC_CNT /\ k \in 0 .. ETH_RX_DESC_CNT /\ i + k \in 0 .. ETH_RX_DESC_CNT
  BY CountType DEF Descs
<1>2. e \in Descs /\ e = IF d + i < ETH_RX_DESC_CNT THEN d + i ELSE d + i - ETH_RX_DESC_CNT
  BY <1>1, AheadIs
<1>3. Ahead(d, i + k) = IF d + (i + k) < ETH_RX_DESC_CNT THEN d + (i + k) ELSE d + (i + k) - ETH_RX_DESC_CNT
  BY <1>1, AheadIs
<1>4. e \in Nat /\ e < ETH_RX_DESC_CNT
  BY <1>1, <1>2 DEF Descs
<1> HIDE DEF e
<1>5. Ahead(e, k) = IF e + k < ETH_RX_DESC_CNT THEN e + k ELSE e + k - ETH_RX_DESC_CNT
  BY <1>1, <1>2, AheadIs
<1>6. Ahead(e, k) = Ahead(d, i + k)
  BY <1>1, <1>2, <1>3, <1>4, <1>5
<1> QED
  BY <1>6 DEF e

\* INCR_RX_DESC_INDEX is one step ahead, inside the ring.
LEMMA IncrIs ==
  ASSUME NEW d \in Descs
  PROVE  /\ INCR_RX_DESC_INDEX(d) = Ahead(d, 1) /\ INCR_RX_DESC_INDEX(d) \in Descs
         /\ Ahead(d, 0) = d
<1>1. INCR_RX_DESC_INDEX(d) = Ahead(d, 1)
  BY DEF INCR_RX_DESC_INDEX, Ahead
<1>2. 1 \in 0 .. ETH_RX_DESC_CNT /\ 0 \in 0 .. ETH_RX_DESC_CNT
  BY CountType
<1>3. Ahead(d, 1) \in Descs
  BY <1>2, AheadIs
<1>4. Ahead(d, 0) = d
  BY <1>2, AheadIs, CountType DEF Descs
<1> QED
  BY <1>1, <1>3, <1>4
\* The next place of the software, with or without a descriptor passed over.
LEMMA PassFacts ==
  ASSUME TypeOK, NEW d \in Descs, PassTo(d)
  PROVE  /\ CurRxDesc' \in Descs /\ AppContextDesc' \in {0, 1}
         /\ AppContextDesc' = 0 => AppContextDesc = 0 /\ CurRxDesc' = INCR_RX_DESC_INDEX(d)
<1>1. INCR_RX_DESC_INDEX(d) \in Descs /\ AppContextDesc \in {0, 1}
  BY IncrIs DEF TypeOK
<1>2. INCR_RX_DESC_INDEX(INCR_RX_DESC_INDEX(d)) \in Descs
  BY <1>1, IncrIs
<1> QED
  BY <1>1, <1>2 DEF PassTo
----------------------------------------------------------------------------
(* Types.                                                                   *)

\* What no task step changes, and what some do.
LEMMA TypeStep == TypeOK /\ [Next]_vars => TypeOK'
<1> SUFFICES ASSUME TypeOK, [Next]_vars
             PROVE  TypeOK'
  OBVIOUS
<1>1. CASE Receive
  <2>1. /\ received' = received + 1 /\ Rx_Buff' = [Rx_Buff EXCEPT ![dma] = received + 1]
        /\ own' = [own EXCEPT ![dma] = FALSE] /\ dma' = INCR_RX_DESC_INDEX(dma) /\ ri' \in BOOLEAN
        /\ ctxt' \subseteq ctxt
        /\ UNCHANGED <<running, isr, RxPktSemaphore, list, task, local, pbufs, exhausted, raced>>
    BY <1>1 DEF Receive
  <2>2. dma' \in Descs
    BY <2>1, IncrIs DEF TypeOK
  <2>3. own' \in [Descs -> BOOLEAN] /\ Rx_Buff' \in [Descs -> Nat] /\ received' \in Nat
    BY <2>1 DEF TypeOK
  <2> QED
    BY <2>1, <2>2, <2>3 DEF TypeOK, list, local
<1>2. CASE IrqCheck
  <2>1. isr' = "clear" /\ UNCHANGED <<ring, running, ri, task, local, pbufs, exhausted>>
    BY <1>2 DEF IrqCheck
  <2>2. \/ UNCHANGED <<list, RxPktSemaphore, raced>>
        \/ /\ FirstAppDesc' = CurRxDesc /\ PassTo(CurRxDesc) /\ AppDescNbr' = 1
           /\ raced' \in BOOLEAN /\ RxPktSemaphore' \in BOOLEAN
    BY <1>2 DEF IrqCheck, NoteRxDesc
  <2>3. /\ CurRxDesc' \in Descs /\ FirstAppDesc' \in Descs /\ AppDescNbr' \in {0, 1}
        /\ AppContextDesc' \in {0, 1}
    BY <2>2, PassFacts DEF TypeOK, list
  <2>4. raced' \in BOOLEAN /\ RxPktSemaphore' \in BOOLEAN
    BY <2>2 DEF TypeOK
  <2> QED
    BY <2>1, <2>3, <2>4 DEF TypeOK, ring, local
<1>3. CASE IrqClear
  <2>1. isr' = "idle" /\ ri' \in BOOLEAN
        /\ UNCHANGED <<ring, running, RxPktSemaphore, list, task, local, pbufs, exhausted, raced>>
    BY <1>3 DEF IrqClear
  <2> QED
    BY <2>1 DEF TypeOK, ring, list, local
<1>4. CASE TakeSemaphore
  <2>1. RxPktSemaphore' \in BOOLEAN /\ task' = "get"
        /\ UNCHANGED <<ring, running, ri, isr, list, local, pbufs, exhausted, raced>>
    BY <1>4 DEF TakeSemaphore
  <2> QED
    BY <2>1 DEF TypeOK, ring, list, local
<1>5. CASE GetRxDataBuffer
  BY <1>5 DEF GetRxDataBuffer, TypeOK, ring, irq, list
<1>6. CASE TestAppDescNbr \/ ScanDesc \/ Loop
  <2>1. task' \in {"avail", "alloc", "nodata", "cur", "get", "wait"}
        /\ UNCHANGED <<ring, irq, list, local, pbufs, exhausted, raced>>
    BY <1>6 DEF TestAppDescNbr, ScanDesc, Loop
  <2> QED
    BY <2>1 DEF TypeOK, ring, irq, list, local
<1>7. CASE IsRxDataAvailable
  <2>1. scan' = CurRxDesc /\ task' \in {"build", "scan"} /\ p' \in {"none", p}
        /\ UNCHANGED <<ring, irq, list, descidx, known, pbufs, exhausted, raced>>
    BY <1>7 DEF IsRxDataAvailable
  <2> QED
    BY <2>1 DEF TypeOK, ring, irq, list
<1>8. CASE NoData
  BY <1>8 DEF NoData, TypeOK, ring, irq
<1>9. CASE NoteCur
  <2>1. PassTo(scan) /\ scan \in Descs /\ task' = "first"
        /\ UNCHANGED <<ring, irq, FirstAppDesc, AppDescNbr, local, pbufs, exhausted, raced>>
    BY <1>9 DEF NoteCur, TypeOK
  <2>2. CurRxDesc' \in Descs /\ AppContextDesc' \in {0, 1}
    BY <2>1, PassFacts
  <2> QED
    BY <2>1, <2>2 DEF TypeOK, ring, irq, local
<1>10. CASE NoteFirst
  BY <1>10 DEF NoteFirst, TypeOK, ring, irq, local
<1>11. CASE NoteNbr
  BY <1>11 DEF NoteNbr, TypeOK, ring, irq, local
<1>12. CASE PassPbuf \/ RefusePbuf
  <2>1. p' = "pbuf" /\ task' = "build" /\ UNCHANGED <<ring, irq, list, descidx, scan, known, exhausted, raced>>
    BY <1>12 DEF PassPbuf, RefusePbuf, MakePbuf
  <2>2. NewPbuf \in [buffer : Descs, frame : Nat, known : BOOLEAN]
    BY DEF NewPbuf, TypeOK
  <2>3. pbufs' \subseteq [buffer : Descs, frame : Nat, known : BOOLEAN]
    BY <1>12, <2>2 DEF PassPbuf, RefusePbuf, TypeOK
  <2> QED
    BY <2>1, <2>3 DEF TypeOK, ring, irq, list
<1>13. CASE PoolEmpty
  <2>1. p' = "nomem" /\ task' = "build" /\ exhausted' \in BOOLEAN
        /\ UNCHANGED <<ring, irq, list, descidx, scan, known, pbufs, raced>>
    BY <1>13 DEF PoolEmpty
  <2> QED
    BY <2>1 DEF TypeOK, ring, irq, list
<1>14. CASE BuildRxDescriptors
  BY <1>14 DEF BuildRxDescriptors, TypeOK, ring, irq, list
<1>15. CASE GiveBack \/ BuildAgain
  <2>1. own' \in [Descs -> BOOLEAN] /\ ctxt' \subseteq Descs
    BY <1>15 DEF GiveBack, BuildAgain, ToDma, TypeOK
  <2>2. task' \in {"loop", "again", "reset"}
        /\ UNCHANGED <<Rx_Buff, dma, received, irq, list, local, pbufs, exhausted, raced>>
    BY <1>15 DEF GiveBack, BuildAgain, Built
  <2> QED
    BY <2>1, <2>2 DEF TypeOK, irq, list, local
<1>16. CASE ResetAppDescNbr
  BY <1>16 DEF ResetAppDescNbr, TypeOK, ring, irq, local
<1>17. CASE \E b \in pbufs : pbuf_free_custom(b)
  <2>1. pbufs' \subseteq pbufs /\ UNCHANGED <<ring, irq, list, task, local, exhausted, raced>>
    BY <1>17 DEF pbuf_free_custom
  <2> QED
    BY <2>1 DEF TypeOK, ring, irq, list, local
<1>18. CASE Start \/ Stop
  <2>1. running' \in BOOLEAN
        /\ UNCHANGED <<own, Rx_Buff, dma, received, ri, isr, RxPktSemaphore, list, task, local, pbufs, exhausted, raced>>
    BY <1>18 DEF Start, Stop
  <2>2. ctxt' \subseteq Descs
    BY <1>18 DEF Start, Stop, Waiting, TypeOK
  <2> QED
    BY <2>1, <2>2 DEF TypeOK, list, local
<1>19. CASE UNCHANGED vars
  BY <1>19 DEF vars, TypeOK, ring, irq, list, local
<1> QED
  BY <1>1, <1>2, <1>3, <1>4, <1>5, <1>6, <1>7, <1>8, <1>9, <1>10, <1>11, <1>12, <1>13, <1>14, <1>15, <1>16, <1>17,
     <1>18, <1>19 DEF Next, InputStep

\* The types at the start.
LEMMA TypeInit == Init => TypeOK
<1> SUFFICES ASSUME Init PROVE TypeOK
  OBVIOUS
<1>1. 0 \in Descs
  BY CountType DEF Descs
<1>2. ri \in BOOLEAN /\ RxPktSemaphore \in BOOLEAN /\ running \in BOOLEAN /\ known \in BOOLEAN
      /\ exhausted \in BOOLEAN /\ raced \in BOOLEAN
  BY DEF Init
<1>3. own \in [Descs -> BOOLEAN] /\ Rx_Buff \in [Descs -> Nat] /\ ctxt \subseteq Descs
  BY DEF Init
<1>4. /\ dma = 0 /\ CurRxDesc = 0 /\ FirstAppDesc = 0 /\ AppDescNbr = 0 /\ AppContextDesc = 0 /\ descidx = 0 /\ scan = 0
      /\ isr = "idle" /\ task = "wait" /\ p = "none" /\ pbufs = {} /\ received = 0
  BY DEF Init
<1> QED
  BY <1>1, <1>2, <1>3, <1>4 DEF TypeOK

\* Every variable keeps its type; every index stays inside the ring.
THEOREM TypeCorrect == Spec => []TypeOK
  BY TypeInit, TypeStep, PTL DEF Spec
----------------------------------------------------------------------------
(* Counting the frames in the ring, and the interrupt.                      *)

\* A set of descriptors is finite and no larger than the ring.
LEMMA SetCount ==
  ASSUME NEW S \in SUBSET Descs
  PROVE  /\ IsFiniteSet(S) /\ Cardinality(S) \in Nat /\ Cardinality(S) <= ETH_RX_DESC_CNT
         /\ Cardinality(S) = 0 <=> S = {}
<1>1. IsFiniteSet(Descs) /\ Cardinality(Descs) = ETH_RX_DESC_CNT
  <2>1. 0 \in Int /\ ETH_RX_DESC_CNT - 1 \in Int /\ ~ (0 > ETH_RX_DESC_CNT - 1)
        /\ (ETH_RX_DESC_CNT - 1) - 0 + 1 = ETH_RX_DESC_CNT
    BY CountType
  <2> QED
    BY <2>1, FS_Interval DEF Descs
<1>2. IsFiniteSet(S) /\ Cardinality(S) <= ETH_RX_DESC_CNT
  BY <1>1, FS_Subset
<1>3. Cardinality(S) \in Nat
  BY <1>2, FS_CardinalityType
<1> QED
  BY <1>2, <1>3, FS_EmptySet

\* The frames in the ring are no more than its descriptors.
LEMMA CountFacts ==
  /\ Count \in Nat /\ Count <= ETH_RX_DESC_CNT /\ IsFiniteSet(Waiting)
  /\ Count = 0 <=> Waiting = {}
  /\ \A d \in Descs : ~ own[d] => Count > 0
<1>1. Waiting \in SUBSET Descs
  BY DEF Waiting
<1>2. /\ Count \in Nat /\ Count <= ETH_RX_DESC_CNT /\ IsFiniteSet(Waiting)
      /\ Count = 0 <=> Waiting = {}
  BY <1>1, SetCount DEF Count
<1>3. \A d \in Descs : ~ own[d] => Waiting # {}
  BY DEF Waiting
<1> QED
  BY <1>2, <1>3

\* The DMA fills a descriptor that was its own: one frame more.
LEMMA CountAfterReceive ==
  ASSUME TypeOK, Receive
  PROVE  Count' = Count + 1 /\ Count' <= ETH_RX_DESC_CNT
<1>1. own[dma] /\ own' = [own EXCEPT ![dma] = FALSE] /\ dma \in Descs
  BY DEF Receive, TypeOK
<1>2. Waiting' = Waiting \cup {dma} /\ dma \notin Waiting
  BY <1>1 DEF Waiting, TypeOK
<1>3. Waiting' \in SUBSET Descs
  BY DEF Waiting
<1>4. Count' = Count + 1
  BY <1>2, CountFacts, FS_AddElement DEF Count
<1>5. Count' <= ETH_RX_DESC_CNT
  BY <1>3, SetCount DEF Count
<1> QED
  BY <1>4, <1>5

\* A descriptor given to the DMA: one frame less if it was not the DMA's.
LEMMA CountAfterToDma ==
  ASSUME TypeOK, NEW d \in Descs, ToDma(d)
  PROVE  Count' \in Nat /\ Count' = IF own[d] THEN Count ELSE Count - 1
<1>1. Waiting' \in SUBSET Descs
  BY DEF Waiting
<1>2. Count' \in Nat
  BY <1>1, SetCount DEF Count
<1>3. Waiting' = Waiting \ {d}
  BY DEF ToDma, Waiting, TypeOK
<1>4. Count' = IF d \in Waiting THEN Count - 1 ELSE Count
  BY <1>3, CountFacts, FS_RemoveElement DEF Count
<1>5. d \in Waiting <=> ~ own[d]
  BY DEF Waiting
<1> QED
  BY <1>2, <1>4, <1>5

\* HAL_ETH_BuildRxDescriptors gives back one descriptor or none: one frame less
\* if that descriptor was not the DMA's.
LEMMA CountAfterGiveBack ==
  ASSUME TypeOK, GiveBack
  PROVE  /\ Count' \in {Count, Count - 1} /\ Count' \in Nat
         /\ (AppDescNbr # 0 /\ ~ own[descidx]) => Count' = Count - 1
         /\ AppDescNbr = 0 => Count' = Count
<1>1. CASE AppDescNbr = 0
  <2>1. own' = own
    BY <1>1 DEF GiveBack
  <2> QED
    BY <1>1, <2>1, CountFacts DEF Count, Waiting
<1>2. CASE AppDescNbr # 0
  <2>1. PICK d \in Descs : d = descidx
    BY DEF TypeOK
  <2>2. ToDma(d)
    BY <1>2, <2>1 DEF GiveBack
  <2> QED
    BY <1>2, <2>1, <2>2, CountAfterToDma
<1> QED
  BY <1>1, <1>2

\* The same for the descriptor that is built twice.
LEMMA CountAfterAgain ==
  ASSUME TypeOK, BuildAgain
  PROVE  Count' \in {Count, Count - 1} /\ Count' \in Nat
<1>1. PICK d \in Descs : d = descidx
  BY DEF TypeOK
<1>2. ToDma(d)
  BY <1>1 DEF BuildAgain
<1> QED
  BY <1>2, CountAfterToDma

\* Who writes the ring.
LEMMA RingSame ==
  ASSUME [Next]_vars, ~ Receive, ~ GiveBack, ~ BuildAgain
  PROVE  UNCHANGED <<own, Rx_Buff, dma, received>> /\ Count' = Count
<1>1. UNCHANGED <<own, Rx_Buff, dma, received>>
  BY DEF Next, InputStep, IrqCheck, IrqClear, TakeSemaphore, GetRxDataBuffer, TestAppDescNbr, IsRxDataAvailable, ScanDesc,
         NoData, NoteCur, NoteFirst, NoteNbr, PassPbuf, RefusePbuf, MakePbuf, PoolEmpty, BuildRxDescriptors,
         ResetAppDescNbr, Loop, pbuf_free_custom, Start, Stop, vars, ring
<1> QED
  BY <1>1 DEF Count, Waiting

\* The task runs between the interrupts only.
LEMMA Undisturbed ==
  ASSUME IrqInv, TaskMayRun
  PROVE  ~ ri /\ isr # "clear"
BY DEF IrqInv, TaskMayRun

\* An interrupt is pending only for a frame that is still in the ring.
LEMMA IrqInvStep ==
  ASSUME TypeOK, IrqInv, [Next]_vars
  PROVE  IrqInv'
<1>0. Count \in Nat /\ received \in Nat
  BY CountFacts DEF TypeOK
<1>1. CASE Receive
  <2>1. ri' /\ running' /\ isr' = isr /\ received' = received + 1
    BY <1>1 DEF Receive
  <2> QED
    BY <1>0, <1>1, <2>1, CountAfterReceive DEF IrqInv
<1>2. CASE GiveBack
  <2>1. TaskMayRun /\ UNCHANGED <<running, ri, isr, received>>
    BY <1>2 DEF GiveBack, At, irq
  <2>2. Count' <= Count
    BY <1>0, <1>2, CountAfterGiveBack
  <2> QED
    BY <1>0, <1>2, <2>1, <2>2, Undisturbed, CountAfterGiveBack DEF IrqInv
<1>3. CASE BuildAgain
  <2>1. TaskMayRun /\ UNCHANGED <<running, ri, isr, received>>
    BY <1>3 DEF BuildAgain, At, irq
  <2>2. Count' <= Count
    BY <1>0, <1>3, CountAfterAgain
  <2> QED
    BY <1>0, <1>3, <2>1, <2>2, Undisturbed, CountAfterAgain DEF IrqInv
<1>4. CASE ~ Receive /\ ~ GiveBack /\ ~ BuildAgain
  <2>1. Count' = Count /\ received' = received
    BY <1>4, RingSame
  <2>2. CASE IrqCheck
    BY <2>1, <2>2 DEF IrqCheck, IrqInv
  <2>3. CASE IrqClear
    BY <2>1, <2>3 DEF IrqClear, IrqInv
  <2>4. CASE Start \/ Stop
    BY <2>1, <2>4, Undisturbed DEF Start, Stop, IrqInv
  <2>5. CASE ~ IrqCheck /\ ~ IrqClear /\ ~ Start /\ ~ Stop
    <3>1. UNCHANGED <<running, ri, isr>>
      BY <1>4, <2>5 DEF Next, InputStep, TakeSemaphore, GetRxDataBuffer, TestAppDescNbr, IsRxDataAvailable, ScanDesc,
         NoData, NoteCur, NoteFirst, NoteNbr, PassPbuf, RefusePbuf, MakePbuf, PoolEmpty, BuildRxDescriptors,
         ResetAppDescNbr, Loop, pbuf_free_custom, vars, irq
    <3> QED
      BY <2>1, <3>1 DEF IrqInv
  <2> QED
    BY <2>2, <2>3, <2>4, <2>5
<1> QED
  BY <1>1, <1>2, <1>4, <1>3

\* The steps that change the list of descriptors or move the task.
LEMMA Steps ==
  [Next]_vars =>
    \/ Receive \/ IrqCheck \/ IrqClear
    \/ TakeSemaphore \/ GetRxDataBuffer \/ TestAppDescNbr \/ IsRxDataAvailable \/ ScanDesc \/ NoData
    \/ NoteCur \/ NoteFirst \/ NoteNbr \/ MakePbuf \/ PoolEmpty
    \/ BuildRxDescriptors \/ GiveBack \/ BuildAgain \/ ResetAppDescNbr \/ Loop
    \/ UNCHANGED <<own, Rx_Buff, dma, received, ri, isr, RxPktSemaphore, list, task, local, exhausted, raced>>
<1> SUFFICES ASSUME [Next]_vars, ~ Receive, ~ IrqCheck, ~ IrqClear, ~ InputStep
             PROVE  UNCHANGED <<own, Rx_Buff, dma, received, ri, isr, RxPktSemaphore, list, task, local, exhausted, raced>>
  BY DEF InputStep, PassPbuf, RefusePbuf
<1> QED
  BY DEF Next, pbuf_free_custom, Start, Stop, vars, irq, ring

\* A frame stays noted until the task forgets it.
LEMMA NotedWhenStep ==
  ASSUME TypeOK, NotedWhen, [Next]_vars
  PROVE  NotedWhen'
<1>1. CASE Receive
  BY <1>1 DEF Receive, NotedWhen, TypeOK, list
<1>2. CASE IrqCheck
  BY <1>2 DEF IrqCheck, NoteRxDesc, NotedWhen, list
<1>3. CASE IrqClear
  BY <1>3 DEF IrqClear, NotedWhen, TypeOK, list
<1>4. CASE TakeSemaphore
  BY <1>4 DEF TakeSemaphore, NotedWhen, TypeOK, list
<1>5. CASE GetRxDataBuffer
  BY <1>5 DEF GetRxDataBuffer, NotedWhen, TypeOK, list
<1>6. CASE TestAppDescNbr
  BY <1>6 DEF TestAppDescNbr, NotedWhen, TypeOK, list
<1>7. CASE IsRxDataAvailable
  BY <1>7 DEF IsRxDataAvailable, NotedWhen, TypeOK, list
<1>8. CASE ScanDesc
  BY <1>8 DEF ScanDesc, NotedWhen, TypeOK, list
<1>9. CASE NoData
  BY <1>9 DEF NoData, NotedWhen, TypeOK, list
<1>10. CASE NoteCur
  BY <1>10 DEF NoteCur, NotedWhen, TypeOK, list
<1>11. CASE NoteFirst
  BY <1>11 DEF NoteFirst, NotedWhen, TypeOK, list
<1>12. CASE NoteNbr
  BY <1>12 DEF NoteNbr, NotedWhen, TypeOK, list
<1>13. CASE MakePbuf
  BY <1>13 DEF MakePbuf, NotedWhen, TypeOK, list
<1>14. CASE PoolEmpty
  BY <1>14 DEF PoolEmpty, NotedWhen, TypeOK, list
<1>15. CASE BuildRxDescriptors
  BY <1>15 DEF BuildRxDescriptors, NotedWhen, TypeOK, list
<1>16. CASE GiveBack
  BY <1>16 DEF GiveBack, Built, NotedWhen, TypeOK, list
<1>17. CASE ResetAppDescNbr
  BY <1>17 DEF ResetAppDescNbr, NotedWhen, TypeOK, list
<1>18. CASE Loop
  BY <1>18 DEF Loop, NotedWhen, TypeOK, list
<1>19. CASE UNCHANGED <<own, Rx_Buff, dma, received, ri, isr, RxPktSemaphore, list, task, local, exhausted, raced>>
  BY <1>19 DEF NotedWhen, TypeOK, list
<1>20. CASE BuildAgain
  BY <1>20 DEF BuildAgain, At, NotedWhen, TypeOK, list
<1> QED
  BY <1>1, <1>2, <1>3, <1>4, <1>5, <1>6, <1>7, <1>8, <1>9, <1>10, <1>11, <1>12, <1>13, <1>14, <1>15, <1>16, <1>17, <1>18, <1>19, <1>20, Steps

\* AppContextDesc is never reset.
LEMMA ContextStays ==
  ASSUME TypeOK, [Next]_vars, AppContextDesc' = 0
  PROVE  AppContextDesc = 0
<1>1. CASE IrqCheck
  <2>1. PassTo(CurRxDesc) \/ UNCHANGED list
    BY <1>1 DEF IrqCheck, NoteRxDesc
  <2> QED
    BY <2>1, PassFacts DEF TypeOK, list
<1>2. CASE NoteCur
  <2>1. PassTo(scan)
    BY <1>2 DEF NoteCur
  <2> QED
    BY <2>1, PassFacts DEF TypeOK
<1>3. CASE ~ IrqCheck /\ ~ NoteCur
  <2>1. AppContextDesc' = AppContextDesc
    BY <1>3 DEF Next, InputStep, Receive, IrqClear, TakeSemaphore, GetRxDataBuffer, TestAppDescNbr, IsRxDataAvailable,
         ScanDesc, NoData, NoteFirst, NoteNbr, PassPbuf, RefusePbuf, MakePbuf, PoolEmpty, BuildRxDescriptors, GiveBack,
         BuildAgain, ResetAppDescNbr, Loop, pbuf_free_custom, Start, Stop, vars, list
  <2> QED
    BY <2>1
<1> QED
  BY <1>1, <1>2, <1>3

\* Only the DMA takes a descriptor from itself, and it leaves a frame there.
LEMMA FilledStep ==
  ASSUME TypeOK, Filled, [Next]_vars
  PROVE  Filled'
<1>1. \A d \in Descs : ~ own'[d] => Rx_Buff'[d] > 0
  <2>1. CASE Receive
    <3>1. /\ received \in Nat /\ Rx_Buff' = [Rx_Buff EXCEPT ![dma] = received + 1]
          /\ own' = [own EXCEPT ![dma] = FALSE]
      BY <2>1 DEF Receive, TypeOK
    <3>2. own \in [Descs -> BOOLEAN] /\ Rx_Buff \in [Descs -> Nat]
      BY DEF TypeOK
    <3> QED
      BY <3>1, <3>2 DEF Filled
  <2>2. CASE GiveBack \/ BuildAgain
    <3>1. Rx_Buff' = Rx_Buff /\ own' \in {own, [own EXCEPT ![descidx] = TRUE]}
      BY <2>2 DEF GiveBack, BuildAgain, ToDma
    <3> QED
      BY <3>1 DEF Filled, TypeOK
  <2>3. CASE ~ Receive /\ ~ GiveBack /\ ~ BuildAgain
    BY <2>3, RingSame DEF Filled
  <2> QED
    BY <2>1, <2>2, <2>3
<1>2. task' = "again" => AppContextDesc' = 1
  <2> SUFFICES ASSUME task' = "again" PROVE AppContextDesc' = 1
    OBVIOUS
  <2>1. AppContextDesc = 1
    <3>1. CASE GiveBack
      BY <3>1 DEF GiveBack, Built, TypeOK
    <3>2. CASE ~ GiveBack
      <4>1. task' = task
        BY <3>2, Steps DEF Receive, IrqCheck, IrqClear, TakeSemaphore, GetRxDataBuffer, TestAppDescNbr,
           IsRxDataAvailable, ScanDesc, NoData, NoteCur, NoteFirst, NoteNbr, MakePbuf, PoolEmpty, BuildRxDescriptors,
           BuildAgain, ResetAppDescNbr, Loop
      <4> QED
        BY <4>1 DEF Filled
    <3> QED
      BY <3>1, <3>2
  <2>2. AppContextDesc' \in {0, 1}
    BY TypeStep DEF TypeOK
  <2> QED
    BY <2>1, <2>2, ContextStays
<1> QED
  BY <1>1, <1>2 DEF Filled

\* The indices stay where each point of the task expects them.
LEMMA ListInvStep ==
  ASSUME TypeOK, NotedWhen, ListInv, [Next]_vars
  PROVE  ListInv'
<1> USE DEF NothingPassedOver
<1>1. CASE Receive
  <2>1. \A d \in Descs : ~ own[d] => ~ own'[d]
    BY <1>1 DEF Receive, TypeOK
  <2>2. UNCHANGED <<list, task, local, raced>>
    BY <1>1 DEF Receive
  <2> QED
    BY <2>1, <2>2 DEF ListInv, TypeOK, list, local
<1>2. CASE IrqCheck
  <2>1. UNCHANGED <<own, task, descidx, scan>>
    BY <1>2 DEF IrqCheck, ring, local
  <2>2. CASE RxDataAvailable /\ NoteRxDesc
    <3>1. /\ AppDescNbr = 0 /\ ~ own[CurRxDesc] /\ FirstAppDesc' = CurRxDesc
          /\ PassTo(CurRxDesc) /\ AppDescNbr' = 1
      BY <2>2 DEF RxDataAvailable, NoteRxDesc
    <3>3. AppContextDesc' = 0 => CurRxDesc' = INCR_RX_DESC_INDEX(CurRxDesc)
      BY <3>1, PassFacts DEF TypeOK
    <3>2. ASSUME ~ raced' PROVE ~ raced /\ task \notin {"nodata", "first", "nbr", "give"}
      BY <2>2, <3>2 DEF NoteRxDesc
    <3> QED
      BY <2>1, <3>1, <3>2, <3>3 DEF ListInv, TypeOK, NotedWhen
  <2>3. CASE UNCHANGED <<list, raced>>
    BY <2>1, <2>3 DEF ListInv, list
  <2> QED
    BY <1>2, <2>2, <2>3 DEF IrqCheck
<1>3. CASE IrqClear
  BY <1>3 DEF IrqClear, ListInv, TypeOK, ring, list, local
<1>4. CASE TakeSemaphore
  BY <1>4 DEF TakeSemaphore, At, ListInv, TypeOK, ring, list, local
<1>5. CASE GetRxDataBuffer
  BY <1>5 DEF GetRxDataBuffer, At, ListInv, TypeOK, ring, list, local
<1>6. CASE TestAppDescNbr
  BY <1>6 DEF TestAppDescNbr, At, ListInv, TypeOK, ring, list, local
<1>7. CASE IsRxDataAvailable
  BY <1>7 DEF IsRxDataAvailable, At, ListInv, TypeOK, ring, list, local
<1>8. CASE ScanDesc
  BY <1>8 DEF ScanDesc, At, ListInv, TypeOK, ring, list, local
<1>9. CASE NoData
  BY <1>9 DEF NoData, At, ListInv, TypeOK, ring, list, local
<1>10. CASE NoteCur
  <2>1. /\ task = "cur" /\ task' = "first" /\ PassTo(scan) /\ scan \in Descs
        /\ UNCHANGED <<own, FirstAppDesc, AppDescNbr, local, raced>>
    BY <1>10 DEF NoteCur, At, TypeOK, ring
  <2>2. AppContextDesc' = 0 => CurRxDesc' = INCR_RX_DESC_INDEX(scan)
    BY <2>1, PassFacts
  <2> QED
    BY <2>1, <2>2 DEF ListInv, TypeOK, local
<1>11. CASE NoteFirst
  BY <1>11 DEF NoteFirst, At, ListInv, TypeOK, ring, list, local
<1>12. CASE NoteNbr
  BY <1>12 DEF NoteNbr, At, ListInv, TypeOK, ring, list, local
<1>13. CASE MakePbuf
  BY <1>13 DEF MakePbuf, At, ListInv, TypeOK, ring, list, local
<1>14. CASE PoolEmpty
  BY <1>14 DEF PoolEmpty, At, ListInv, TypeOK, ring, list, local
<1>15. CASE BuildRxDescriptors
  BY <1>15 DEF BuildRxDescriptors, At, ListInv, TypeOK, ring, list, local
<1>16. CASE GiveBack
  <2>1. /\ task = "give" /\ UNCHANGED <<list, local, raced>>
        /\ \/ AppDescNbr = 0 /\ task' = "loop" /\ own' = own
           \/ AppDescNbr # 0 /\ task' \in {"again", "reset"}
    BY <1>16 DEF GiveBack, Built, At
  <2> QED
    BY <2>1 DEF ListInv, TypeOK, list, local
<1>17. CASE ResetAppDescNbr
  BY <1>17 DEF ResetAppDescNbr, ListInv, TypeOK, ring, list, local
<1>18. CASE Loop
  BY <1>18 DEF Loop, At, ListInv, TypeOK, ring, list, local
<1>19. CASE UNCHANGED <<own, Rx_Buff, dma, received, ri, isr, RxPktSemaphore, list, task, local, exhausted, raced>>
  BY <1>19 DEF ListInv, TypeOK, ring, list, local
<1>20. CASE BuildAgain
  <2>1. task = "again" /\ task' = "reset" /\ UNCHANGED <<list, local, raced>>
    BY <1>20 DEF BuildAgain, At
  <2> QED
    BY <2>1 DEF ListInv, list, local
<1> QED
  BY <1>1, <1>2, <1>3, <1>4, <1>5, <1>6, <1>7, <1>8, <1>9, <1>10, <1>11, <1>12, <1>13, <1>14, <1>15, <1>16, <1>17, <1>18, <1>19, <1>20, Steps

\* The oldest frame stays the oldest until its descriptor is given back.
LEMMA OldestKept ==
  ASSUME TypeOK, NotedWhen, Filled, ListInv, [Next]_vars, ~ raced', NothingPassedOver',
         ~ (GiveBack /\ AppDescNbr # 0)
  PROVE  ~ raced /\ OldestDesc' = OldestDesc
<1>1. CASE Receive
  BY <1>1 DEF Receive, At, ListInv, TypeOK, OldestDesc, ring, list, local
<1>2. CASE IrqCheck
  <2>1. UNCHANGED <<task, scan>>
    BY <1>2 DEF IrqCheck, local
  <2>2. CASE RxDataAvailable /\ NoteRxDesc
    <3>1. AppDescNbr = 0 /\ FirstAppDesc' = CurRxDesc /\ AppDescNbr' = 1
      BY <2>2 DEF RxDataAvailable, NoteRxDesc
    <3>2. ~ raced /\ task \notin {"nodata", "first", "nbr", "give"}
      BY <2>2 DEF NoteRxDesc
    <3> QED
      BY <2>1, <3>1, <3>2 DEF NotedWhen, OldestDesc
  <2>3. CASE UNCHANGED <<list, raced>>
    BY <2>1, <2>3 DEF OldestDesc, list
  <2> QED
    BY <1>2, <2>2, <2>3 DEF IrqCheck
<1>3. CASE IrqClear
  BY <1>3 DEF IrqClear, At, ListInv, TypeOK, OldestDesc, ring, list, local
<1>4. CASE TakeSemaphore
  BY <1>4 DEF TakeSemaphore, At, ListInv, TypeOK, OldestDesc, ring, list, local
<1>5. CASE GetRxDataBuffer
  BY <1>5 DEF GetRxDataBuffer, At, ListInv, TypeOK, OldestDesc, ring, list, local
<1>6. CASE TestAppDescNbr
  BY <1>6 DEF TestAppDescNbr, At, ListInv, TypeOK, OldestDesc, ring, list, local
<1>7. CASE IsRxDataAvailable
  BY <1>7 DEF IsRxDataAvailable, At, ListInv, TypeOK, OldestDesc, ring, list, local
<1>8. CASE ScanDesc
  BY <1>8 DEF ScanDesc, At, ListInv, TypeOK, OldestDesc, ring, list, local
<1>9. CASE NoData
  BY <1>9 DEF NoData, At, ListInv, TypeOK, OldestDesc, ring, list, local
<1>10. CASE NoteCur
  BY <1>10 DEF NoteCur, At, ListInv, TypeOK, OldestDesc, local
<1>11. CASE NoteFirst
  BY <1>11 DEF NoteFirst, At, ListInv, TypeOK, OldestDesc, ring, list, local
<1>12. CASE NoteNbr
  BY <1>12 DEF NoteNbr, At, ListInv, TypeOK, OldestDesc, ring, list, local
<1>13. CASE MakePbuf
  BY <1>13 DEF MakePbuf, At, ListInv, TypeOK, OldestDesc, ring, list, local
<1>14. CASE PoolEmpty
  BY <1>14 DEF PoolEmpty, At, ListInv, TypeOK, OldestDesc, ring, list, local
<1>15. CASE BuildRxDescriptors
  BY <1>15 DEF BuildRxDescriptors, At, ListInv, TypeOK, OldestDesc, ring, list, local
<1>16. CASE GiveBack
  BY <1>16 DEF GiveBack, At, ListInv, TypeOK, OldestDesc, ring, list, local
<1>17. CASE ResetAppDescNbr
  BY <1>17 DEF ResetAppDescNbr, At, ListInv, TypeOK, OldestDesc, ring, list, local
<1>18. CASE Loop
  BY <1>18 DEF Loop, At, ListInv, TypeOK, OldestDesc, ring, list, local
<1>19. CASE UNCHANGED <<own, Rx_Buff, dma, received, ri, isr, RxPktSemaphore, list, task, local, exhausted, raced>>
  BY <1>19 DEF OldestDesc, list, local
<1>20. CASE BuildAgain
  BY <1>20 DEF BuildAgain, At, Filled, NothingPassedOver, list
<1> QED
  BY <1>1, <1>2, <1>3, <1>4, <1>5, <1>6, <1>7, <1>8, <1>9, <1>10, <1>11, <1>12, <1>13, <1>14, <1>15, <1>16, <1>17, <1>18, <1>19, <1>20, Steps

\* The one that follows it is then the oldest.
LEMMA OldestGiven ==
  ASSUME TypeOK, ListInv, GiveBack, AppDescNbr # 0, ~ raced, NothingPassedOver
  PROVE  /\ OldestDesc = descidx /\ ~ own[descidx]
         /\ OldestDesc' = INCR_RX_DESC_INDEX(OldestDesc)
<1>1. task = "give" /\ task' = "reset" /\ CurRxDesc' = CurRxDesc /\ AppDescNbr = 1
  BY DEF GiveBack, Built, NothingPassedOver, At, TypeOK, list
<1>2. OldestDesc = FirstAppDesc /\ OldestDesc' = CurRxDesc
  BY <1>1 DEF OldestDesc
<1> QED
  BY <1>1, <1>2 DEF ListInv

\* The oldest frame is in a descriptor of the ring.
LEMMA OldestType == TypeOK => OldestDesc \in Descs
BY DEF TypeOK, OldestDesc

\* The n descriptors from o on wait, with the last n frames.
OrderFrom(o, n) ==
  /\ dma = Ahead(o, n)
  /\ \A i \in 0 .. (n - 1) : ~ own[Ahead(o, i)] /\ Rx_Buff[Ahead(o, i)] = received - n + 1 + i

\* DescriptorsInOrder, before and after a step, in terms of OrderFrom.
LEMMA OrderIs ==
  /\ DescriptorsInOrder <=> ((~ raced /\ NothingPassedOver) => OrderFrom(OldestDesc, Count))
  /\ DescriptorsInOrder' <=> ((~ raced' /\ NothingPassedOver')
         => \A o, n : (o = OldestDesc' /\ n = Count') => OrderFrom(o, n)')
<1>1. DescriptorsInOrder <=> ((~ raced /\ NothingPassedOver) => OrderFrom(OldestDesc, Count))
  BY DEF DescriptorsInOrder, OrderFrom, Count, Ahead
<1>2. DescriptorsInOrder' <=> ((~ raced' /\ NothingPassedOver')
         => \A o, n : (o = OldestDesc' /\ n = Count') => OrderFrom(o, n)')
  BY DEF DescriptorsInOrder, OrderFrom, Count, Ahead
<1> QED
  BY <1>1, <1>2

\* A frame received joins them at the end.
LEMMA OrderReceive ==
  ASSUME TypeOK, Receive, NEW o \in Descs, NEW n \in Nat, n = Count, OrderFrom(o, n)
  PROVE  OrderFrom(o, n + 1)'
<1>1. n \in Nat /\ n + 1 <= ETH_RX_DESC_CNT /\ received \in Nat
  BY CountFacts, CountAfterReceive DEF TypeOK
<1>2. /\ own[dma] /\ received' = received + 1 /\ Rx_Buff' = [Rx_Buff EXCEPT ![dma] = received + 1]
      /\ own' = [own EXCEPT ![dma] = FALSE] /\ dma' = INCR_RX_DESC_INDEX(dma) /\ dma \in Descs
  BY DEF Receive, TypeOK
<1>3. dma = Ahead(o, n)
  BY DEF OrderFrom
<1>4. dma' = Ahead(o, n + 1)
  BY <1>1, <1>2, <1>3, IncrIs, AheadTwice
<1>5. ASSUME NEW i \in 0 .. n
      PROVE  ~ own'[Ahead(o, i)] /\ Rx_Buff'[Ahead(o, i)] = received' - (n + 1) + 1 + i
  <2>1. CASE i = n
    BY <1>1, <1>2, <1>3, <2>1 DEF TypeOK
  <2>2. CASE i # n
    <3>1. i \in 0 .. (n - 1) /\ i \in 0 .. ETH_RX_DESC_CNT
      <4>1. i \in Int /\ 0 <= i /\ i <= n
        OBVIOUS
      <4>2. 0 <= i /\ i <= n - 1 /\ i <= ETH_RX_DESC_CNT
        BY <1>1, <2>2, <4>1, CountType
      <4> QED
        BY <4>1, <4>2
    <3>2. ~ own[Ahead(o, i)] /\ Rx_Buff[Ahead(o, i)] = received - n + 1 + i /\ Ahead(o, i) \in Descs
      BY <3>1, AheadIs DEF OrderFrom
    <3>3. Ahead(o, i) # dma
      BY <1>2, <3>2
    <3>4. ~ own'[Ahead(o, i)] /\ Rx_Buff'[Ahead(o, i)] = Rx_Buff[Ahead(o, i)]
      BY <1>2, <3>2, <3>3 DEF TypeOK
    <3>5. received - n + 1 + i = received' - (n + 1) + 1 + i
      BY <1>1, <1>2, <3>1
    <3> QED
      BY <3>2, <3>4, <3>5
  <2> QED
    BY <2>1, <2>2
<1>6. (n + 1) - 1 = n
  BY <1>1
<1> QED
  BY <1>4, <1>5, <1>6 DEF OrderFrom, Ahead

\* The oldest of them leaves.
LEMMA OrderGiven ==
  ASSUME TypeOK, NEW o \in Descs, NEW n \in Nat, n = Count, OrderFrom(o, n), n > 0,
         own' = [own EXCEPT ![o] = TRUE], UNCHANGED <<Rx_Buff, dma, received>>
  PROVE  OrderFrom(INCR_RX_DESC_INDEX(o), n - 1)'
<1> DEFINE o1 == INCR_RX_DESC_INDEX(o)
<1>1. n \in Nat /\ n <= ETH_RX_DESC_CNT /\ received \in Nat
  BY CountFacts DEF TypeOK
<1>2. o1 = Ahead(o, 1) /\ o1 \in Descs /\ Ahead(o, 0) = o
  BY IncrIs
<1> HIDE DEF o1
<1>3. \A i \in 0 .. (n - 1) : Ahead(o1, i) = Ahead(o, i + 1)
  <2> TAKE i \in 0 .. (n - 1)
  <2>0. i \in Int /\ 0 <= i /\ i <= n - 1
    OBVIOUS
  <2>1. i \in Nat /\ 1 \in Nat /\ 1 + i <= ETH_RX_DESC_CNT /\ 1 + i = i + 1
    BY <1>1, <2>0, CountType
  <2>2. Ahead(Ahead(o, 1), i) = Ahead(o, 1 + i)
    BY <2>1, AheadTwice
  <2> QED
    BY <1>2, <2>1, <2>2
<1>4. dma' = Ahead(o1, n - 1)
  <2>1. n - 1 \in 0 .. (n - 1) /\ (n - 1) + 1 = n
    BY <1>1
  <2>2. Ahead(o1, n - 1) = Ahead(o, (n - 1) + 1)
    BY <1>3, <2>1
  <2> QED
    BY <2>1, <2>2 DEF OrderFrom
<1>5. ASSUME NEW i \in 0 .. ((n - 1) - 1)
      PROVE  ~ own'[Ahead(o1, i)] /\ Rx_Buff'[Ahead(o1, i)] = received' - (n - 1) + 1 + i
  <2>1. /\ i \in 0 .. (n - 1) /\ i + 1 \in 0 .. (n - 1) /\ i + 1 \in 0 .. ETH_RX_DESC_CNT
        /\ i + 1 \in Descs /\ 0 \in Descs /\ i + 1 # 0
        /\ received - n + 1 + (i + 1) = received - (n - 1) + 1 + i
    BY <1>1, CountType DEF Descs
  <2>2. ~ own[Ahead(o, i + 1)] /\ Rx_Buff[Ahead(o, i + 1)] = received - n + 1 + (i + 1) /\ Ahead(o, i + 1) \in Descs
    BY <2>1, AheadIs DEF OrderFrom
  <2>3. Ahead(o, i + 1) # o
    BY <1>2, <2>1, AheadDistinct
  <2>4. ~ own'[Ahead(o, i + 1)]
    BY <2>2, <2>3 DEF TypeOK
  <2> QED
    BY <1>3, <2>1, <2>2, <2>4
<1> QED
  BY <1>4, <1>5 DEF OrderFrom, Ahead, o1

\* Whoever writes next, the frames stay in order from the oldest to the DMA's place.
LEMMA OrderStep ==
  ASSUME TypeOK, NotedWhen, Filled, ListInv, DescriptorsInOrder, [Next]_vars
  PROVE  DescriptorsInOrder'
<1> SUFFICES ASSUME ~ raced', NothingPassedOver', NEW o, NEW n, o = OldestDesc', n = Count'
             PROVE  OrderFrom(o, n)'
  BY OrderIs
<1>0. NothingPassedOver
  BY ContextStays DEF NothingPassedOver
<1>1. CASE GiveBack /\ AppDescNbr # 0
  <2>1. ~ raced /\ UNCHANGED <<Rx_Buff, dma, received>> /\ own' = [own EXCEPT ![descidx] = TRUE]
    BY <1>1 DEF GiveBack, ToDma
  <2>2. OldestDesc = descidx /\ ~ own[descidx] /\ o = INCR_RX_DESC_INDEX(OldestDesc) /\ descidx \in Descs
    BY <1>0, <1>1, <2>1, OldestGiven DEF TypeOK
  <2>3. Count > 0 /\ n = Count - 1
    BY <1>1, <2>2, CountFacts, CountAfterGiveBack
  <2>4. OrderFrom(descidx, Count)
    BY <1>0, <2>1, <2>2, OrderIs
  <2>5. ASSUME NEW d \in Descs, d = descidx, NEW m \in Nat, m = Count
        PROVE  OrderFrom(INCR_RX_DESC_INDEX(d), m - 1)'
    <3>1. OrderFrom(d, m) /\ m > 0 /\ own' = [own EXCEPT ![d] = TRUE]
      BY <2>1, <2>3, <2>4, <2>5
    <3> QED
      BY <2>1, <2>5, <3>1, OrderGiven
  <2>6. PICK d \in Descs : d = descidx
    BY <2>2
  <2>7. PICK m \in Nat : m = Count
    BY CountFacts
  <2>8. OrderFrom(INCR_RX_DESC_INDEX(d), m - 1)'
    BY <2>5, <2>6, <2>7
  <2>9. o = INCR_RX_DESC_INDEX(d) /\ n = m - 1
    BY <2>2, <2>3, <2>6, <2>7
  <2> QED
    BY <2>8, <2>9
<1>2. CASE ~ (GiveBack /\ AppDescNbr # 0)
  <2>1. ~ raced /\ o = OldestDesc /\ o \in Descs
    BY <1>2, OldestKept, OldestType
  <2>2. OrderFrom(o, Count)
    BY <1>0, <2>1, OrderIs
  <2>3. CASE Receive
    <3>1. PICK m \in Nat : m = Count
      BY CountFacts
    <3>2. OrderFrom(o, m) /\ n = m + 1
      BY <2>2, <2>3, <3>1, CountAfterReceive
    <3>3. OrderFrom(o, m + 1)'
      BY <2>1, <2>3, <3>1, <3>2, OrderReceive
    <3> QED
      BY <3>2, <3>3
  <2>4. CASE ~ Receive
    <3>1. UNCHANGED <<own, Rx_Buff, dma, received>> /\ n = Count
      <4>1. CASE GiveBack
        BY <1>2, <4>1, CountAfterGiveBack DEF GiveBack
      <4>2. CASE ~ GiveBack
        <5>1. ~ BuildAgain
          BY <1>0 DEF BuildAgain, At, Filled, NothingPassedOver
        <5> QED
          BY <2>4, <4>2, <5>1, RingSame
      <4> QED
        BY <4>1, <4>2
    <3> QED
      BY <2>2, <3>1 DEF OrderFrom, Ahead
  <2> QED
    BY <2>3, <2>4
<1> QED
  BY <1>1, <1>2

\* An update that was disturbed stays on record.
LEMMA RacedStays == [Next]_vars /\ raced => raced'
BY DEF Next, InputStep, Receive, IrqCheck, NoteRxDesc, IrqClear, TakeSemaphore, GetRxDataBuffer, TestAppDescNbr,
       IsRxDataAvailable, ScanDesc, NoData, NoteCur, NoteFirst, NoteNbr, PassPbuf, RefusePbuf, MakePbuf, PoolEmpty,
       BuildRxDescriptors, GiveBack, BuildAgain, ResetAppDescNbr, Loop, pbuf_free_custom, Start, Stop, vars

\* Frames in the ring begin with the oldest.
LEMMA OldestWaits ==
  ASSUME TypeOK, DescriptorsInOrder, ~ raced, NothingPassedOver, Count > 0
  PROVE  ~ own[OldestDesc] /\ Rx_Buff[OldestDesc] = received - Count + 1
<1>1. OldestDesc \in Descs /\ Ahead(OldestDesc, 0) = OldestDesc
  BY OldestType, IncrIs
<1>2. Count \in Nat /\ 0 \in 0 .. (Count - 1) /\ received \in Nat /\ received - Count + 1 + 0 = received - Count + 1
  BY CountFacts DEF TypeOK
<1>3. ~ own[Ahead(OldestDesc, 0)] /\ Rx_Buff[Ahead(OldestDesc, 0)] = received - Count + 1 + 0
  BY <1>2, OrderIs DEF OrderFrom
<1> QED
  BY <1>1, <1>2, <1>3
----------------------------------------------------------------------------
(* No frame is forgotten in the ring.                                       *)

\* With its indices in place the task finds every frame it is not signalled.
LEMMA SignalStep ==
  ASSUME TypeOK, IrqInv, NotedWhen, ListInv, DescriptorsInOrder, SignalInv, [Next]_vars
  PROVE  SignalInv'
<1> USE DEF NothingPassedOver
<1>0. Count \in Nat
  BY CountFacts
<1>1. CASE Receive
  <2>1. ri' /\ UNCHANGED <<isr, RxPktSemaphore, list, task, local, exhausted, raced>>
    BY <1>1 DEF Receive
  <2> QED
    BY <2>1 DEF SignalInv, Settling, TypeOK, list, local
<1>2. CASE IrqCheck
  <2>1. ri /\ isr' = "clear" /\ UNCHANGED <<ri, task, p, exhausted>>
    BY <1>2 DEF IrqCheck, local
  <2>2. CASE NoteRxDesc /\ RxPktSemaphore'
    <3>1. ~ raced' => ~ raced
      BY <2>2 DEF NoteRxDesc
    <3> QED
      BY <2>1, <2>2, <3>1, ContextStays DEF SignalInv, Settling
  <2>3. CASE ~ RxDataAvailable /\ UNCHANGED <<list, RxPktSemaphore, raced>>
    <3>1. (Settling /\ ~ raced /\ NothingPassedOver /\ AppDescNbr = 0) => FALSE
      <4> SUFFICES ASSUME Settling, ~ raced, NothingPassedOver, AppDescNbr = 0
                   PROVE  FALSE
        OBVIOUS
      <4>1. own[CurRxDesc]
        BY <2>3 DEF RxDataAvailable
      <4>2. OldestDesc = CurRxDesc
        BY DEF OldestDesc, Settling
      <4> QED
        BY <2>1, <4>1, <4>2, OldestWaits DEF IrqInv
    <3>2. (Settling /\ ~ raced /\ ~ exhausted /\ NothingPassedOver) => RxPktSemaphore
      BY <3>1 DEF SignalInv, TypeOK
    <3> QED
      BY <2>1, <2>3, <3>2 DEF SignalInv, Settling, list
  <2> QED
    BY <1>2, <2>2, <2>3 DEF IrqCheck
<1>3. CASE IrqClear
  <2>1. isr = "clear" /\ isr' = "idle" /\ UNCHANGED <<RxPktSemaphore, list, task, local, exhausted, raced>>
    BY <1>3 DEF IrqClear
  <2> QED
    BY <2>1 DEF SignalInv, Settling, list, local
<1>4. CASE TakeSemaphore
  <2>1. task' = "get" /\ UNCHANGED <<p, exhausted>>
    BY <1>4 DEF TakeSemaphore, local
  <2> QED
    BY <2>1 DEF SignalInv, Settling
<1>5. CASE GetRxDataBuffer
  <2>1. task' \in {"test"} /\ UNCHANGED <<p, exhausted>>
    BY <1>5 DEF GetRxDataBuffer, local
  <2> QED
    BY <2>1 DEF SignalInv, Settling
<1>6. CASE TestAppDescNbr
  <2>1. /\ task' \in {"avail", "alloc"}
        /\ task' = "avail" => AppDescNbr' = 0
        /\ UNCHANGED <<p, exhausted>>
    BY <1>6 DEF TestAppDescNbr, local, list
  <2> QED
    BY <2>1 DEF SignalInv, Settling
<1>7. CASE IsRxDataAvailable
  <2>1. /\ task = "avail" /\ TaskMayRun
        /\ \/ AppDescNbr = 1 /\ task' = "build" /\ p' = "none"
           \/ task' = "scan" /\ p' = p
        /\ UNCHANGED <<RxPktSemaphore, AppDescNbr, AppContextDesc, exhausted, raced, isr>>
    BY <1>7 DEF IsRxDataAvailable, At, TypeOK, list, irq
  <2>2. isr # "clear"
    BY <2>1, Undisturbed
  <2> QED
    BY <2>1, <2>2 DEF SignalInv, Settling
<1>8. CASE ScanDesc
  <2>1. /\ task = "scan" /\ TaskMayRun /\ task' = IF own[scan] THEN "nodata" ELSE "cur"
        /\ UNCHANGED <<RxPktSemaphore, AppDescNbr, AppContextDesc, exhausted, raced, isr, p, own>>
    BY <1>8 DEF ScanDesc, At, list, irq, local, ring
  <2>2. isr # "clear" /\ Count' = Count
    BY <2>1, Undisturbed DEF Count, Waiting
  <2>3. ASSUME ~ raced, NothingPassedOver, own[scan] PROVE AppDescNbr = 0 /\ Count = 0
    <3>1. AppDescNbr = 0
      BY <2>1, <2>3 DEF ListInv, TypeOK
    <3>2. OldestDesc = scan
      BY <2>1, <2>3, <3>1 DEF ListInv, OldestDesc
    <3> QED
      BY <1>0, <2>3, <3>1, <3>2, OldestWaits
  <2> QED
    BY <2>1, <2>2, <2>3 DEF SignalInv, Settling
<1>9. CASE NoData
  <2>1. /\ task = "nodata" /\ task' = "build" /\ p' = "none" /\ AppDescNbr' = 0
        /\ UNCHANGED <<RxPktSemaphore, AppContextDesc, exhausted, raced, isr, ri, own>>
    BY <1>9 DEF NoData, At, irq, ring
  <2>2. Count' = Count
    BY <2>1 DEF Count, Waiting
  <2> QED
    BY <2>1, <2>2 DEF SignalInv, Settling
<1>10. CASE NoteCur
  <2>1. task' \in {"first"} /\ UNCHANGED <<p, exhausted>>
    BY <1>10 DEF NoteCur, local
  <2> QED
    BY <2>1 DEF SignalInv, Settling
<1>11. CASE NoteFirst
  <2>1. task' \in {"nbr"} /\ UNCHANGED <<p, exhausted>>
    BY <1>11 DEF NoteFirst, local
  <2> QED
    BY <2>1 DEF SignalInv, Settling
<1>12. CASE NoteNbr
  <2>1. task' \in {"alloc"} /\ UNCHANGED <<p, exhausted>>
    BY <1>12 DEF NoteNbr, local
  <2> QED
    BY <2>1 DEF SignalInv, Settling
<1>13. CASE MakePbuf
  <2>1. task' = "build" /\ p' = "pbuf"
    BY <1>13 DEF MakePbuf
  <2> QED
    BY <2>1 DEF SignalInv, Settling
<1>14. CASE PoolEmpty
  <2>1. task' = "build" /\ p' = "nomem" /\ exhausted'
    BY <1>14 DEF PoolEmpty
  <2> QED
    BY <2>1 DEF SignalInv, Settling
<1>15. CASE BuildRxDescriptors
  <2>1. /\ task = "build" /\ task' = "give"
        /\ UNCHANGED <<RxPktSemaphore, AppDescNbr, AppContextDesc, exhausted, raced, isr, ri, p, own>>
    BY <1>15 DEF BuildRxDescriptors, At, irq, ring, list
  <2>2. Count' = Count
    BY <2>1 DEF Count, Waiting
  <2> QED
    BY <2>1, <2>2 DEF SignalInv, Settling
<1>16. CASE GiveBack
  <2>1. /\ task = "give" /\ task' \in {"loop", "again", "reset"}
        /\ UNCHANGED <<RxPktSemaphore, AppDescNbr, AppContextDesc, exhausted, raced, isr, ri, p>>
    BY <1>16 DEF GiveBack, Built, At, irq, list, local
  <2>2. Count' > 0 => Count > 0
    BY <1>0, <1>16, CountAfterGiveBack
  <2> QED
    BY <2>1, <2>2 DEF SignalInv, Settling
<1>17. CASE ResetAppDescNbr
  <2>1. /\ task = "reset" /\ task' = "loop" /\ AppDescNbr' = 0
        /\ UNCHANGED <<RxPktSemaphore, AppContextDesc, exhausted, raced, isr, ri, p, own>>
    BY <1>17 DEF ResetAppDescNbr, At, irq, local, ring
  <2>2. Count' = Count
    BY <2>1 DEF Count, Waiting
  <2> QED
    BY <2>1, <2>2 DEF SignalInv, Settling
<1>18. CASE Loop
  <2>1. /\ task = "loop" /\ task' = IF p = "pbuf" THEN "get" ELSE "wait"
        /\ UNCHANGED <<RxPktSemaphore, AppDescNbr, AppContextDesc, exhausted, raced, isr, ri, p, own>>
    BY <1>18 DEF Loop, At, irq, list, local, ring
  <2>2. Count' = Count
    BY <2>1 DEF Count, Waiting
  <2> QED
    BY <2>1, <2>2 DEF SignalInv, Settling, TypeOK
<1>19. CASE UNCHANGED <<own, Rx_Buff, dma, received, ri, isr, RxPktSemaphore, list, task, local, exhausted, raced>>
  BY <1>19 DEF SignalInv, Settling, Count, Waiting, ring, list, local
<1>20. CASE BuildAgain
  <2>1. /\ task = "again" /\ task' = "reset"
        /\ UNCHANGED <<RxPktSemaphore, AppDescNbr, AppContextDesc, exhausted, raced, isr, ri, p>>
    BY <1>20 DEF BuildAgain, At, irq, list, local
  <2>2. Count' > 0 => Count > 0
    BY <1>0, <1>20, CountAfterAgain
  <2> QED
    BY <2>1, <2>2 DEF SignalInv, Settling
<1> QED
  BY <1>1, <1>2, <1>3, <1>4, <1>5, <1>6, <1>7, <1>8, <1>9, <1>10, <1>11, <1>12, <1>13, <1>14, <1>15, <1>16, <1>17, <1>18, <1>19, <1>20, Steps
----------------------------------------------------------------------------
(* The buffers over a round of the ring.                                    *)

\* A frame received overwrites the oldest buffer and no other.
LEMMA RoundStep ==
  ASSUME TypeOK, RoundInv, [Next]_vars
  PROVE  RoundInv'
<1>1. CASE Receive
  <2>1. ETH_RX_DESC_CNT \in Nat /\ ETH_RX_DESC_CNT > 0 /\ received \in Nat /\ dma \in Descs
    BY CountType DEF TypeOK
  <2>2. /\ received' = received + 1 /\ Rx_Buff' = [Rx_Buff EXCEPT ![dma] = received + 1]
        /\ dma' = INCR_RX_DESC_INDEX(dma)
    BY <1>1 DEF Receive
  <2>3. dma' = Ahead(dma, 1) /\ Ahead(dma, 0) = dma
    BY <2>1, <2>2, IncrIs
  <2> SUFFICES ASSUME NEW i \in Descs
               PROVE  Rx_Buff'[Ahead(dma', i)] = IF received' >= ETH_RX_DESC_CNT - i
                                                   THEN received' - ETH_RX_DESC_CNT + 1 + i ELSE 0
    BY DEF RoundInv, Ahead
  <2>4. i \in Nat /\ i < ETH_RX_DESC_CNT /\ 1 \in Nat /\ 1 + i <= ETH_RX_DESC_CNT /\ 1 + i = i + 1
    BY <2>1 DEF Descs
  <2>5. Ahead(dma', i) = Ahead(dma, i + 1)
    BY <2>1, <2>3, <2>4, AheadTwice
  <2>6. CASE i + 1 = ETH_RX_DESC_CNT
    <3>1. Ahead(dma, i + 1) = dma
      <4>1. ETH_RX_DESC_CNT \in 0 .. ETH_RX_DESC_CNT /\ dma \in Nat
        BY <2>1 DEF Descs
      <4>2. Ahead(dma, ETH_RX_DESC_CNT) = IF dma + ETH_RX_DESC_CNT < ETH_RX_DESC_CNT
                                            THEN dma + ETH_RX_DESC_CNT ELSE dma + ETH_RX_DESC_CNT - ETH_RX_DESC_CNT
        BY <2>1, <4>1, AheadIs
      <4>3. Ahead(dma, ETH_RX_DESC_CNT) = dma
        BY <2>1, <4>1, <4>2
      <4> QED
        BY <2>6, <4>3
    <3>2. Rx_Buff'[dma] = received + 1
      BY <2>1, <2>2 DEF TypeOK
    <3>3. received' >= ETH_RX_DESC_CNT - i /\ received' - ETH_RX_DESC_CNT + 1 + i = received + 1
      BY <2>1, <2>2, <2>4, <2>6
    <3> QED
      BY <2>5, <3>1, <3>2, <3>3
  <2>7. CASE i + 1 # ETH_RX_DESC_CNT
    <3>1. i + 1 \in Descs /\ 0 \in Descs /\ i + 1 # 0 /\ i + 1 \in 0 .. ETH_RX_DESC_CNT
      BY <2>1, <2>4, <2>7 DEF Descs
    <3>2. Ahead(dma, i + 1) # dma /\ Ahead(dma, i + 1) \in Descs
      BY <2>1, <2>3, <3>1, AheadDistinct, AheadIs
    <3>3. Rx_Buff'[Ahead(dma, i + 1)] = Rx_Buff[Ahead(dma, i + 1)]
      BY <2>2, <3>2 DEF TypeOK
    <3>4. Rx_Buff[Ahead(dma, i + 1)] = IF received >= ETH_RX_DESC_CNT - (i + 1)
                                          THEN received - ETH_RX_DESC_CNT + 1 + (i + 1) ELSE 0
      BY <3>1 DEF RoundInv, Ahead
    <3>5. /\ received >= ETH_RX_DESC_CNT - (i + 1) <=> received' >= ETH_RX_DESC_CNT - i
          /\ received - ETH_RX_DESC_CNT + 1 + (i + 1) = received' - ETH_RX_DESC_CNT + 1 + i
      BY <2>1, <2>2, <2>4
    <3> QED
      BY <2>5, <3>3, <3>4, <3>5
  <2> QED
    BY <2>6, <2>7
<1>2. CASE ~ Receive
  <2>1. UNCHANGED <<Rx_Buff, dma, received>>
    <3>1. CASE GiveBack \/ BuildAgain
      BY <3>1 DEF GiveBack, BuildAgain
    <3>2. CASE ~ GiveBack /\ ~ BuildAgain
      BY <1>2, <3>2, RingSame
    <3> QED
      BY <3>1, <3>2
  <2> QED
    BY <2>1 DEF RoundInv
<1> QED
  BY <1>1, <1>2

\* No interrupt changes FirstAppDesc under a descidx read with a frame noted.
LEMMA KnownStep ==
  ASSUME TypeOK, KnownInv, [Next]_vars
  PROVE  KnownInv'
<1>1. CASE Receive
  <2>1. UNCHANGED <<list, task, local>>
    BY <1>1 DEF Receive
  <2> QED
    BY <2>1 DEF KnownInv, list, local
<1>2. CASE IrqCheck
  <2>1. UNCHANGED <<task, local>> /\ (UNCHANGED list \/ AppDescNbr = 0)
    BY <1>2 DEF IrqCheck, RxDataAvailable
  <2> QED
    BY <2>1 DEF KnownInv, list, local
<1>3. CASE IrqClear
  <2>1. UNCHANGED <<list, task, local>>
    BY <1>3 DEF IrqClear
  <2> QED
    BY <2>1 DEF KnownInv, list, local
<1>4. CASE TakeSemaphore
  <2>1. task' = "get"
    BY <1>4 DEF TakeSemaphore, At, local, list
  <2> QED
    BY <2>1 DEF KnownInv
<1>5. CASE GetRxDataBuffer
  <2>1. task' = "test" /\ known' = (AppDescNbr = 1) /\ descidx' = FirstAppDesc /\ UNCHANGED <<FirstAppDesc, AppDescNbr>>
    BY <1>5 DEF GetRxDataBuffer, At, local, list
  <2> QED
    BY <2>1 DEF KnownInv
<1>6. CASE TestAppDescNbr
  <2>1. task = "test" /\ task' = (IF AppDescNbr = 0 THEN "avail" ELSE "alloc") /\ UNCHANGED <<FirstAppDesc, AppDescNbr, descidx, known>>
    BY <1>6 DEF TestAppDescNbr, At, local, list
  <2> QED
    BY <2>1 DEF KnownInv
<1>7. CASE IsRxDataAvailable
  <2>1. task = "avail" /\ task' \in {"build", "scan"} /\ known' = known
    BY <1>7 DEF IsRxDataAvailable, At, local, list
  <2> QED
    BY <2>1 DEF KnownInv
<1>8. CASE ScanDesc
  <2>1. task = "scan" /\ task' \in {"nodata", "cur"} /\ known' = known
    BY <1>8 DEF ScanDesc, At, local, list
  <2> QED
    BY <2>1 DEF KnownInv
<1>9. CASE NoData
  <2>1. task' = "build"
    BY <1>9 DEF NoData, At, local, list
  <2> QED
    BY <2>1 DEF KnownInv
<1>10. CASE NoteCur
  <2>1. task = "cur" /\ task' = "first" /\ known' = known
    BY <1>10 DEF NoteCur, At, local, list
  <2> QED
    BY <2>1 DEF KnownInv
<1>11. CASE NoteFirst
  <2>1. task = "first" /\ task' = "nbr" /\ known' = known
    BY <1>11 DEF NoteFirst, At, local, list
  <2> QED
    BY <2>1 DEF KnownInv
<1>12. CASE NoteNbr
  <2>1. task = "nbr" /\ task' = "alloc" /\ known' = known
    BY <1>12 DEF NoteNbr, At, local, list
  <2> QED
    BY <2>1 DEF KnownInv
<1>13. CASE MakePbuf
  <2>1. task' = "build"
    BY <1>13 DEF MakePbuf, At, local, list
  <2> QED
    BY <2>1 DEF KnownInv
<1>14. CASE PoolEmpty
  <2>1. task' = "build"
    BY <1>14 DEF PoolEmpty, At, local, list
  <2> QED
    BY <2>1 DEF KnownInv
<1>15. CASE BuildRxDescriptors
  <2>1. task' = "give"
    BY <1>15 DEF BuildRxDescriptors, At, local, list
  <2> QED
    BY <2>1 DEF KnownInv
<1>16. CASE GiveBack
  <2>1. task' \in {"loop", "again", "reset"}
    BY <1>16 DEF GiveBack, Built, At, local, list
  <2> QED
    BY <2>1 DEF KnownInv
<1>17. CASE ResetAppDescNbr
  <2>1. task' = "loop"
    BY <1>17 DEF ResetAppDescNbr, At, local, list
  <2> QED
    BY <2>1 DEF KnownInv
<1>18. CASE Loop
  <2>1. task' \in {"get", "wait"}
    BY <1>18 DEF Loop, At, local, list
  <2> QED
    BY <2>1 DEF KnownInv
<1>19. CASE UNCHANGED <<own, Rx_Buff, dma, received, ri, isr, RxPktSemaphore, list, task, local, exhausted, raced>>
  BY <1>19 DEF KnownInv, list, local
<1>20. CASE BuildAgain
  <2>1. task' = "reset"
    BY <1>20 DEF BuildAgain
  <2> QED
    BY <2>1 DEF KnownInv
<1> QED
  BY <1>1, <1>2, <1>3, <1>4, <1>5, <1>6, <1>7, <1>8, <1>9, <1>10, <1>11, <1>12, <1>13, <1>14, <1>15, <1>16, <1>17, <1>18, <1>19, <1>20, Steps

\* Only PassPbuf adds a pbuf.
LEMMA PbufsStep == [Next]_vars => PassPbuf \/ pbufs' \subseteq pbufs
BY DEF Next, InputStep, Receive, IrqCheck, IrqClear, TakeSemaphore, GetRxDataBuffer, TestAppDescNbr, IsRxDataAvailable,
       ScanDesc, NoData, NoteCur, NoteFirst, NoteNbr, RefusePbuf, PoolEmpty, BuildRxDescriptors, GiveBack,
       BuildAgain, ResetAppDescNbr, Loop, pbuf_free_custom, Start, Stop, vars

\* A pbuf made for a frame that was noted in time is made for a frame received.
LEMMA NumberedStep ==
  ASSUME TypeOK, Filled, ListInv, KnownInv, Numbered, [Next]_vars
  PROVE  Numbered'
<1> SUFFICES ASSUME NEW b \in pbufs', b.known, ~ raced'
             PROVE  b.frame > 0
  BY DEF Numbered
<1>1. ~ raced
  BY RacedStays
<1>2. CASE b \in pbufs
  BY <1>1, <1>2 DEF Numbered
<1>3. CASE b \notin pbufs
  <2>1. PassPbuf /\ b = NewPbuf
    BY <1>3, PbufsStep DEF PassPbuf
  <2>2. task = "alloc" /\ known /\ b.frame = Rx_Buff[FirstAppDesc]
    BY <2>1 DEF PassPbuf, MakePbuf, At, NewPbuf
  <2>3. AppDescNbr = 1
    BY <2>2 DEF KnownInv
  <2>4. ~ own[FirstAppDesc] /\ FirstAppDesc \in Descs
    BY <1>1, <2>2, <2>3 DEF ListInv, TypeOK
  <2> QED
    BY <2>2, <2>4 DEF Filled
<1> QED
  BY <1>2, <1>3

\* The DMA comes back to a buffer only after a whole round.
LEMMA IntactStep ==
  ASSUME TypeOK, KnownInv, RoundInv, Numbered, BufferIntactForARound, [Next]_vars
  PROVE  BufferIntactForARound'
<1> SUFFICES ASSUME NEW b \in pbufs', b.known, ~ raced', received' < b.frame + ETH_RX_DESC_CNT
             PROVE  Rx_Buff'[b.buffer] = b.frame
  BY DEF BufferIntactForARound
<1>1. ~ raced /\ received \in Nat /\ ETH_RX_DESC_CNT \in Nat /\ ETH_RX_DESC_CNT > 0
  BY RacedStays, CountType DEF TypeOK
<1>2. CASE Receive
  <2>1. pbufs' = pbufs /\ received' = received + 1 /\ Rx_Buff' = [Rx_Buff EXCEPT ![dma] = received + 1]
    BY <1>2 DEF Receive
  <2>2. b.buffer \in Descs /\ b.frame \in Nat /\ b.frame > 0 /\ dma \in Descs
    BY <1>1, <2>1 DEF TypeOK, Numbered
  <2>3. Rx_Buff[b.buffer] = b.frame
    BY <1>1, <2>1, <2>2 DEF BufferIntactForARound
  <2>4. b.buffer # dma
    <3>1. 0 \in Descs /\ (dma + 0) % ETH_RX_DESC_CNT = dma
      <4>1. Ahead(dma, 0) = dma
        BY <2>2, IncrIs
      <4>2. 0 \in Descs
        BY <1>1 DEF Descs
      <4> QED
        BY <4>1, <4>2 DEF Ahead
    <3>2. Rx_Buff[dma] = IF received >= ETH_RX_DESC_CNT - 0 THEN received - ETH_RX_DESC_CNT + 1 + 0 ELSE 0
      BY <3>1 DEF RoundInv
    <3> QED
      BY <1>1, <2>1, <2>2, <2>3, <3>2
  <2> QED
    BY <2>1, <2>2, <2>3, <2>4 DEF TypeOK
<1>3. CASE ~ Receive
  <2>1. UNCHANGED <<Rx_Buff, received>>
    <3>1. CASE GiveBack \/ BuildAgain
      BY <3>1 DEF GiveBack, BuildAgain
    <3>2. CASE ~ GiveBack /\ ~ BuildAgain
      BY <1>3, <3>2, RingSame
    <3> QED
      BY <3>1, <3>2
  <2>2. CASE b \in pbufs
    BY <1>1, <2>1, <2>2 DEF BufferIntactForARound
  <2>3. CASE b \notin pbufs
    <3>1. PassPbuf /\ b = NewPbuf
      BY <2>3, PbufsStep DEF PassPbuf
    <3>2. task = "alloc" /\ known /\ b.frame = Rx_Buff[FirstAppDesc] /\ b.buffer = descidx
      BY <3>1 DEF PassPbuf, MakePbuf, At, NewPbuf
    <3> QED
      BY <2>1, <3>2 DEF KnownInv
  <2> QED
    BY <2>2, <2>3
<1> QED
  BY <1>2, <1>3
----------------------------------------------------------------------------
(* The theorems.                                                            *)

\* The invariant holds at the start ...
LEMMA RxInit == Init => RxInv
<1> SUFFICES ASSUME Init PROVE RxInv
  OBVIOUS
<1>1. TypeOK
  BY TypeInit
<1>2. /\ own = [d \in Descs |-> TRUE] /\ Rx_Buff = [d \in Descs |-> 0] /\ dma = 0 /\ ~ ri /\ isr = "idle"
      /\ CurRxDesc = 0 /\ FirstAppDesc = 0 /\ AppDescNbr = 0 /\ task = "wait" /\ p = "none"
      /\ pbufs = {} /\ received = 0
  BY Zenon DEF Init
<1>3. Waiting = {} /\ Count = 0
  BY <1>2, CountFacts DEF Waiting
<1>4. ETH_RX_DESC_CNT \in Nat /\ ETH_RX_DESC_CNT > 0
  BY CountType
<1>5. IrqInv /\ NotedWhen /\ Filled /\ ListInv /\ SignalInv /\ KnownInv /\ Numbered /\ BufferIntactForARound
  BY <1>2, <1>3 DEF IrqInv, NotedWhen, Filled, ListInv, SignalInv, KnownInv, Numbered, BufferIntactForARound
<1>6. RoundInv
  <2> SUFFICES ASSUME NEW i \in Descs
               PROVE  Rx_Buff[Ahead(dma, i)] = IF received >= ETH_RX_DESC_CNT - i
                                                 THEN received - ETH_RX_DESC_CNT + 1 + i ELSE 0
    BY DEF RoundInv, Ahead
  <2>1. i \in 0 .. ETH_RX_DESC_CNT /\ i \in Nat /\ i < ETH_RX_DESC_CNT
    BY <1>4 DEF Descs
  <2>2. Ahead(dma, i) \in Descs
    BY <1>1, <2>1, AheadIs DEF TypeOK
  <2> QED
    BY <1>2, <1>4, <2>1, <2>2
<1>7. DescriptorsInOrder
  <2>1. OldestDesc = 0 /\ 0 \in Descs
    BY <1>1, <1>2 DEF OldestDesc, TypeOK
  <2>2. OrderFrom(OldestDesc, Count)
    BY <1>2, <1>3, <2>1, IncrIs DEF OrderFrom
  <2> QED
    BY <2>2, OrderIs
<1> QED
  BY <1>1, <1>5, <1>6, <1>7 DEF RxInv

\* ... and is kept by every step.
LEMMA RxStep == RxInv /\ [Next]_vars => RxInv'
BY TypeStep, IrqInvStep, NotedWhenStep, FilledStep, ListInvStep, OrderStep, SignalStep, RoundStep, KnownStep, NumberedStep,
   IntactStep DEF RxInv

\* The inductive invariant: what the indices, the count of the frames in the ring,
\* the signal and the buffers have to do with one another at each point of the
\* task and of the interrupt handler.
THEOREM RingInvariant == Spec => []RxInv
  BY RxInit, RxStep, PTL DEF Spec

\* The software's place in the ring and the DMA's never run apart, unless the
\* handler interrupts the task in the middle of an update of RxDescList or a restart
\* of the interface has made the descriptor of an unread frame look like a context
\* descriptor and it was passed over.
THEOREM FramesStayInOrder == Spec => []DescriptorsInOrder
<1>1. RxInv => DescriptorsInOrder
  BY DEF RxInv
<1> QED
  BY <1>1, RingInvariant, PTL

\* ethernetif_input never waits for the semaphore with a frame in the ring and no
\* signal to come, although IRQs are cleared unseen and the handler does not
\* signal while a frame is being worked on, with the exceptions the property names.
THEOREM NoFrameForgotten == Spec => []DrainedBeforeWaiting
<1>1. RxInv => DrainedBeforeWaiting
  <2> SUFFICES ASSUME RxInv, task = "wait", ~ RxPktSemaphore, ~ ri, isr = "idle", ~ exhausted, ~ raced,
                      NothingPassedOver
               PROVE  Waiting = {}
    BY DEF DrainedBeforeWaiting
  <2>1. ~ (Count > 0)
    BY DEF RxInv, SignalInv, Settling
  <2> QED
    BY <2>1, CountFacts
<1> QED
  BY <1>1, RingInvariant, PTL

\* A pbuf of a frame noted in time keeps the frame in its buffer for a whole round
\* of the ring, although the descriptor goes back to the DMA at once.
THEOREM BufferKeptARound == Spec => []BufferIntactForARound
<1>1. RxInv => BufferIntactForARound
  BY DEF RxInv
<1> QED
  BY <1>1, RingInvariant, PTL
=============================================================================
