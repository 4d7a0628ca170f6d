------------------------------- MODULE EthRx -------------------------------
(****************************************************************************)
(* The receive side of the Ethernet interface                               *)
(* (User/lwip/src/port/netif_port.c over the HAL driver                     *)
(* Libraries/STM32H7xx_HAL_Driver/Src/stm32h7xx_hal_eth.c): the DMA fills a *)
(* ring of descriptors, the interrupt handler gives RxPktSemaphore, the     *)
(* task ethernetif_input wraps the buffer of each received frame into a     *)
(* pbuf of RX_POOL, hands it to the stack and gives the descriptor back.    *)
(*                                                                          *)
(* A frame is its number in the order of reception.  A frame fits into one  *)
(* descriptor (RxBuffLen is 1536), so AppDescNbr is 0 or 1.  The MAC writes *)
(* no context descriptors, but IOC of a descriptor given to the DMA and     *)
(* CTXT of one written back are the same bit 30 of DESC3: HAL_ETH_Start_IT  *)
(* sets it in all descriptors and so makes those of unread frames look like *)
(* context descriptors.  Of the DMA's own descriptors IOC needs no state:   *)
(* while reception runs all of them have it.  The interrupt handler and the *)
(* task share the fields of RxDescList without a lock.                      *)
(****************************************************************************)
EXTENDS Integers, FiniteSets

CONSTANTS ETH_RX_DESC_CNT,  \* 4
          PoolSize,         \* pbufs in RX_POOL: 4
          MaxFrames         \* bound: frames received

ASSUME EthRxAssumption ==
  /\ ETH_RX_DESC_CNT \in Nat \ {0}
  /\ PoolSize \in Nat /\ MaxFrames \in Nat

VARIABLES
  own,             \* the OWN bit of each descriptor: it belongs to the DMA
  ctxt,            \* the descriptors not the DMA's that have bit 30 set
  Rx_Buff,         \* the frame in the buffer of each descriptor, 0 for none
  dma,             \* the descriptor the DMA fills next
  running,         \* reception and its interrupt are enabled
  ri,              \* the receive interrupt is pending
  isr,             \* ETH_IRQHandler: "idle", or "clear" after the callback
  CurRxDesc, FirstAppDesc, AppDescNbr, AppContextDesc,  \* RxDescList
  RxPktSemaphore,
  task,            \* where ethernetif_input is
  descidx,         \* the local variable of HAL_ETH_GetRxDataBuffer and, as
                   \* descindex, of HAL_ETH_BuildRxDescriptors
  scan,            \* that of HAL_ETH_IsRxDataAvailable, run by the task
  p,               \* "none": no frame, "nomem": no pbuf, "pbuf": passed on
  pbufs,           \* the pbufs the stack holds, each with its buffer, the frame
                   \* it was made for and the value of known at the time
  received,        \* auxiliary: frames received
  known,           \* auxiliary: descidx was read from FirstAppDesc with a frame
                   \* noted there
  exhausted,       \* auxiliary: RX_POOL was found empty
  raced            \* auxiliary: the interrupt handler noted a frame between a
                   \* read of RxDescList by the task and the write it decides

ring == <<own, ctxt, Rx_Buff, dma, received>>
list == <<CurRxDesc, FirstAppDesc, AppDescNbr, AppContextDesc>>
irq  == <<running, ri, isr, RxPktSemaphore>>
local == <<descidx, scan, p, known>>
vars == <<ring, irq, list, task, local, pbufs, exhausted, raced>>

Descs == 0 .. (ETH_RX_DESC_CNT - 1)

\* Mutant: the index wraps one descriptor late.
INCR_RX_DESC_INDEX_Late(d) == (d + 1) % (ETH_RX_DESC_CNT + 1)

INCR_RX_DESC_INDEX(d) == (d + 1) % ETH_RX_DESC_CNT

Waiting == {d \in Descs : ~ own[d]}

----------------------------------------------------------------------------
(* The DMA and the interrupt.                                               *)

\* The DMA stores a frame.  With no descriptor of its own it drops the frame.
Receive ==
  /\ running
  /\ own[dma]
  /\ received < MaxFrames
  /\ received' = received + 1
  /\ Rx_Buff' = [Rx_Buff EXCEPT ![dma] = received + 1]
  /\ own' = [own EXCEPT ![dma] = FALSE]
  /\ ctxt' = ctxt \ {dma}
  /\ dma' = INCR_RX_DESC_INDEX(dma)
  /\ ri' = TRUE
  /\ UNCHANGED <<running, isr, RxPktSemaphore, list, task, local, pbufs, exhausted, raced>>

\* Mutant: a frame is noted although another one is being worked on.
RxDataAvailable_Busy == ~ own[CurRxDesc]

\* HAL_ETH_IsRxDataAvailable in the interrupt handler returns 1 ...
RxDataAvailable == AppDescNbr = 0 /\ ~ own[CurRxDesc]

\* The descriptor after the frame's is taken for a context descriptor ...
ContextAfter(d) ==
  ~ own[INCR_RX_DESC_INDEX(d)] /\ INCR_RX_DESC_INDEX(d) \in ctxt

\* ... and passed over.
PassTo(d) ==
  IF ContextAfter(d)
    THEN /\ CurRxDesc' = INCR_RX_DESC_INDEX(INCR_RX_DESC_INDEX(d))
         /\ AppContextDesc' = 1
    ELSE /\ CurRxDesc' = INCR_RX_DESC_INDEX(d)
         /\ AppContextDesc' = AppContextDesc

\* ... and notes the descriptor of the frame.
NoteRxDesc ==
  /\ FirstAppDesc' = CurRxDesc
  /\ PassTo(CurRxDesc)
  /\ AppDescNbr' = 1
  /\ raced' = (raced \/ task \in {"nodata", "first", "nbr", "give"})

\* Mutant: the callback does not give the semaphore.
IrqCheck_NoGive ==
  /\ running /\ ri /\ isr = "idle"
  /\ isr' = "clear"
  /\ \/ RxDataAvailable /\ NoteRxDesc /\ UNCHANGED RxPktSemaphore
     \/ ~ RxDataAvailable /\ UNCHANGED <<list, RxPktSemaphore, raced>>
  /\ UNCHANGED <<ring, running, ri, task, local, pbufs, exhausted>>

\* HAL_ETH_IRQHandler: a frame that is available is noted and signalled by
\* HAL_ETH_RxCpltCallback.
IrqCheck ==
  /\ running /\ ri /\ isr = "idle"
  /\ isr' = "clear"
  /\ \/ RxDataAvailable /\ NoteRxDesc /\ RxPktSemaphore' = TRUE
     \/ ~ RxDataAvailable /\ UNCHANGED <<list, RxPktSemaphore, raced>>
  /\ UNCHANGED <<ring, running, ri, task, local, pbufs, exhausted>>

\* The pending bit is cleared, and with it that of a frame received meanwhile.
IrqClear ==
  /\ isr = "clear"
  /\ isr' = "idle"
  /\ ri' = FALSE
  /\ UNCHANGED <<ring, running, RxPktSemaphore, list, task, local, pbufs, exhausted, raced>>

\* An interrupt goes before the tasks.
TaskMayRun == isr = "idle" /\ ~ (running /\ ri)

----------------------------------------------------------------------------
(* ethernetif_input, one step for each access to what it shares with the    *)
(* interrupt handler.                                                       *)

At(pc) == TaskMayRun /\ task = pc

\* xSemaphoreTake(RxPktSemaphore); after a timeout it is tried again.
TakeSemaphore ==
  /\ At("wait")
  /\ RxPktSemaphore
  /\ RxPktSemaphore' = FALSE
  /\ task' = "get"
  /\ UNCHANGED <<ring, running, ri, isr, list, local, pbufs, exhausted, raced>>

\* HAL_ETH_GetRxDataBuffer: descidx is set ...
GetRxDataBuffer ==
  /\ At("get")
  /\ descidx' = FirstAppDesc
  /\ known' = (AppDescNbr = 1)
  /\ task' = "test"
  /\ UNCHANGED <<ring, irq, list, scan, p, pbufs, exhausted, raced>>

\* ... and then AppDescNbr is looked at.
TestAppDescNbr ==
  /\ At("test")
  /\ task' = IF AppDescNbr = 0 THEN "avail" ELSE "alloc"
  /\ UNCHANGED <<ring, irq, list, local, pbufs, exhausted, raced>>

\* HAL_ETH_IsRxDataAvailable returns 0, so HAL_ERROR and NULL are returned, if
\* the interrupt handler has just noted a frame.
IsRxDataAvailable ==
  /\ At("avail")
  /\ scan' = CurRxDesc
  /\ \/ AppDescNbr # 0 /\ task' = "build" /\ p' = "none"
     \/ AppDescNbr = 0 /\ task' = "scan" /\ p' = p
  /\ UNCHANGED <<ring, irq, list, descidx, known, pbufs, exhausted, raced>>

\* The OWN bit decides.
ScanDesc ==
  /\ At("scan")
  /\ task' = IF own[scan] THEN "nodata" ELSE "cur"
  /\ UNCHANGED <<ring, irq, list, local, pbufs, exhausted, raced>>

\* No received packet.
NoData ==
  /\ At("nodata")
  /\ AppDescNbr' = 0
  /\ p' = "none"
  /\ task' = "build"
  /\ UNCHANGED <<ring, irq, CurRxDesc, FirstAppDesc, AppContextDesc, descidx, scan, known, pbufs,
                 exhausted, raced>>

\* The three assignments to RxDescList for a frame that was found.
NoteCur ==
  /\ At("cur")
  /\ PassTo(scan)
  /\ task' = "first"
  /\ UNCHANGED <<ring, irq, FirstAppDesc, AppDescNbr, local, pbufs, exhausted, raced>>

NoteFirst ==
  /\ At("first")
  /\ FirstAppDesc' = scan
  /\ task' = "nbr"
  /\ UNCHANGED <<ring, irq, CurRxDesc, AppDescNbr, AppContextDesc, local, pbufs, exhausted, raced>>

NoteNbr ==
  /\ At("nbr")
  /\ AppDescNbr' = 1
  /\ task' = "alloc"
  /\ UNCHANGED <<ring, irq, CurRxDesc, FirstAppDesc, AppContextDesc, local, pbufs, exhausted, raced>>

\* Mutant: the pbuf wraps the buffer of the descriptor that comes next.
NewPbuf_Current == [buffer |-> CurRxDesc, frame |-> Rx_Buff[FirstAppDesc], known |-> known]

\* low_level_input: a pbuf of RX_POOL is made for the buffer of descidx, whatever
\* that holds.  The frame it ought to hold is FirstAppDesc's.
NewPbuf == [buffer |-> descidx, frame |-> Rx_Buff[FirstAppDesc], known |-> known]

MakePbuf ==
  /\ At("alloc")
  /\ Cardinality(pbufs) < PoolSize
  /\ p' = "pbuf"
  /\ task' = "build"
  /\ UNCHANGED <<ring, irq, list, descidx, scan, known, exhausted, raced>>

\* netif->input takes it ...
PassPbuf == MakePbuf /\ pbufs' = pbufs \cup {NewPbuf}

\* Mutant: the refused pbuf is not freed.
RefusePbuf_Leak == MakePbuf /\ pbufs' = pbufs \cup {NewPbuf}

\* ... or refuses it and it is freed.
RefusePbuf == MakePbuf /\ pbufs' = pbufs

\* RX_POOL is empty.  The null pointer is written through, into the memory at
\* address 0, and pbuf_alloced_custom returns its first member: NULL.
PoolEmpty ==
  /\ At("alloc")
  /\ Cardinality(pbufs) >= PoolSize
  /\ p' = "nomem"
  /\ exhausted' = TRUE
  /\ task' = "build"
  /\ UNCHANGED <<ring, irq, list, descidx, scan, known, pbufs, raced>>

\* HAL_ETH_BuildRxDescriptors: descindex is set ...
BuildRxDescriptors ==
  /\ At("build")
  /\ descidx' = FirstAppDesc
  /\ task' = "give"
  /\ UNCHANGED <<ring, irq, list, scan, p, known, pbufs, exhausted, raced>>

ToDma(d) == own' = [own EXCEPT ![d] = TRUE] /\ ctxt' = ctxt \ {d}

Built == IF AppContextDesc = 0 THEN "reset" ELSE "again"

\* Mutant: the descriptor after the frame's is given back.
GiveBack_Current ==
  /\ At("give")
  /\ \/ AppDescNbr = 0 /\ task' = "loop" /\ UNCHANGED <<own, ctxt>>
     \/ AppDescNbr # 0 /\ task' = Built /\ ToDma(CurRxDesc)
  /\ UNCHANGED <<Rx_Buff, dma, received, irq, list, local, pbufs, exhausted, raced>>

\* ... if a frame is noted, by whomever, that descriptor goes to the DMA ...
GiveBack ==
  /\ At("give")
  /\ \/ AppDescNbr = 0 /\ task' = "loop" /\ UNCHANGED <<own, ctxt>>
     \/ AppDescNbr # 0 /\ task' = Built /\ ToDma(descidx)
  /\ UNCHANGED <<Rx_Buff, dma, received, irq, list, local, pbufs, exhausted, raced>>

\* ... the one passed over should follow, but descindex has not moved on: the
\* same descriptor is given once more, with what may have been received into it ...
BuildAgain ==
  /\ At("again")
  /\ ToDma(descidx)
  /\ task' = "reset"
  /\ UNCHANGED <<Rx_Buff, dma, received, irq, list, local, pbufs, exhausted, raced>>

\* ... and the frame is forgotten.
ResetAppDescNbr ==
  /\ At("reset")
  /\ AppDescNbr' = 0
  /\ task' = "loop"
  /\ UNCHANGED <<ring, irq, CurRxDesc, FirstAppDesc, AppContextDesc, local, pbufs, exhausted, raced>>

\* Mutant: one frame for each time the semaphore is given.
Loop_Once ==
  /\ At("loop")
  /\ task' = "wait"
  /\ UNCHANGED <<ring, irq, list, local, pbufs, exhausted, raced>>

\* while(p!=NULL)
Loop ==
  /\ At("loop")
  /\ task' = IF p = "pbuf" THEN "get" ELSE "wait"
  /\ UNCHANGED <<ring, irq, list, local, pbufs, exhausted, raced>>

InputStep ==
  \/ TakeSemaphore \/ GetRxDataBuffer \/ TestAppDescNbr
  \/ IsRxDataAvailable \/ ScanDesc \/ NoData \/ NoteCur \/ NoteFirst \/ NoteNbr
  \/ PassPbuf \/ RefusePbuf \/ PoolEmpty
  \/ BuildRxDescriptors \/ GiveBack \/ BuildAgain \/ ResetAppDescNbr \/ Loop

\* pbuf_free_custom: the stack or the application is through with a pbuf.
pbuf_free_custom(b) ==
  /\ TaskMayRun
  /\ pbufs' = pbufs \ {b}
  /\ UNCHANGED <<ring, irq, list, task, local, exhausted, raced>>

----------------------------------------------------------------------------
(* ethernet_link_thread starts and stops reception.                         *)

\* HAL_ETH_Start_IT sets bit 30 in every descriptor, whoever has it.
Start ==
  /\ TaskMayRun
  /\ ~ running
  /\ running' = TRUE
  /\ ctxt' = ctxt \cup Waiting
  /\ UNCHANGED <<own, Rx_Buff, dma, received, ri, isr, RxPktSemaphore, list, task, local, pbufs,
                 exhausted, raced>>

\* HAL_ETH_Stop_IT: frames and a pending interrupt stay; the loop that clears bit
\* 30 never leaves descriptor 0.
Stop ==
  /\ TaskMayRun
  /\ running
  /\ running' = FALSE
  /\ ctxt' = ctxt \ {0}
  /\ UNCHANGED <<own, Rx_Buff, dma, received, ri, isr, RxPktSemaphore, list, task, local, pbufs,
                 exhausted, raced>>

----------------------------------------------------------------------------

Init ==
  /\ own = [d \in Descs |-> TRUE] /\ ctxt = {}
  /\ Rx_Buff = [d \in Descs |-> 0]
  /\ dma = 0
  /\ running \in BOOLEAN
  /\ ri = FALSE
  /\ isr = "idle"
  /\ CurRxDesc = 0 /\ FirstAppDesc = 0 /\ AppDescNbr = 0 /\ AppContextDesc = 0
  /\ RxPktSemaphore = FALSE
  /\ task = "wait"
  /\ descidx = 0 /\ scan = 0
  /\ p = "none" /\ known = FALSE
  /\ pbufs = {}
  /\ received = 0
  /\ exhausted = FALSE /\ raced = FALSE

Next ==
  \/ Receive \/ IrqCheck \/ IrqClear
  \/ InputStep
  \/ \E b \in pbufs : pbuf_free_custom(b)
  \/ Start \/ Stop

\* The interrupt is served, and the task runs again and again between the
\* interrupts: it has the highest priority there is, in turn with its equals.
Fairness == WF_vars(IrqCheck) /\ WF_vars(IrqClear) /\ SF_vars(InputStep)

Spec == Init /\ [][Next]_vars /\ Fairness

----------------------------------------------------------------------------
(* Properties.                                                              *)

TypeOK ==
  /\ own \in [Descs -> BOOLEAN] /\ ctxt \subseteq Descs
  /\ Rx_Buff \in [Descs -> Nat]
  /\ dma \in Descs /\ CurRxDesc \in Descs /\ FirstAppDesc \in Descs
  /\ descidx \in Descs /\ scan \in Descs
  /\ AppDescNbr \in {0, 1} /\ AppContextDesc \in {0, 1}
  /\ running \in BOOLEAN /\ ri \in BOOLEAN /\ RxPktSemaphore \in BOOLEAN
  /\ isr \in {"idle", "clear"}
  /\ task \in {"wait", "get", "test", "avail", "scan", "nodata", "cur", "first", "nbr",
               "alloc", "build", "give", "again", "reset", "loop"}
  /\ p \in {"none", "nomem", "pbuf"}
  /\ pbufs \subseteq [buffer : Descs, frame : Nat, known : BOOLEAN]
  /\ received \in Nat /\ known \in BOOLEAN /\ exhausted \in BOOLEAN /\ raced \in BOOLEAN

\* The descriptor of the oldest frame not given back yet, if there is one.
OldestDesc ==
  IF task \in {"first", "nbr"}
    THEN scan
    ELSE IF AppDescNbr = 1 /\ task # "reset" THEN FirstAppDesc ELSE CurRxDesc

\* A restart with unread frames in the ring has not led the software to take one
\* of their descriptors for a context descriptor.  Once it has, that descriptor is
\* left behind with its frame, and the DMA stops when it comes round to it.
NothingPassedOver == AppContextDesc = 0

\* Unless the handler interrupts the task in the middle of an update, or a restart
\* makes them pass over a frame, the two never let the software's place in the ring
\* and the DMA's run apart: the descriptors that are not the DMA's follow one
\* another from the oldest to the DMA's place and hold the last frames received,
\* in order.
DescriptorsInOrder ==
  LET n == Cardinality(Waiting)
      Desc(i) == (OldestDesc + i) % ETH_RX_DESC_CNT
  IN  (~ raced /\ NothingPassedOver) =>
        /\ dma = Desc(n)
        /\ \A i \in 0 .. (n - 1) : ~ own[Desc(i)] /\ Rx_Buff[Desc(i)] = received - n + 1 + i

\* Although the handler does not signal a frame while another is being worked on,
\* and clears the interrupt of a frame it has not seen, the task never waits with
\* a frame in the ring, unless RX_POOL was empty, it was interrupted in the middle
\* of an update or a restart made it pass over a frame.  Drained does not mean read:
\* a frame the handler notes between the task's look at AppDescNbr and its call of
\* HAL_ETH_BuildRxDescriptors is given back unread, and so is one without a pbuf.
DrainedBeforeWaiting ==
  (/\ task = "wait" /\ ~ RxPktSemaphore /\ ~ ri /\ isr = "idle"
   /\ ~ exhausted /\ ~ raced /\ NothingPassedOver) => Waiting = {}

\* As long as none of these happens and the link comes back, each descriptor goes
\* back to the DMA.
DescriptorsReturn ==
  ([]<>running /\ []~ exhausted /\ []~ raced /\ []NothingPassedOver)
    => \A d \in Descs : ~ own[d] ~> own[d]

\* The note at the top of netif_port.c: receive buffers return to the DMA after
\* they have been processed by the stack.  So a buffer keeps its frame for as long
\* as a pbuf made for it exists.
BufferKeptForStack == \A b \in pbufs : Rx_Buff[b.buffer] = b.frame

\* What the stack can rely on instead: unless the task was interrupted in the
\* middle of an update, the pbuf of a frame that was noted before the task looked
\* at the list has that frame in its buffer until as many further frames have come
\* as there are descriptors.  For a frame noted later HAL_ETH_GetRxDataBuffer has
\* read descidx too early, and the pbuf wraps the buffer of an earlier frame.
BufferIntactForARound ==
  \A b \in pbufs :
    (b.known /\ ~ raced /\ received < b.frame + ETH_RX_DESC_CNT) => Rx_Buff[b.buffer] = b.frame
=============================================================================
