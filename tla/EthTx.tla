------------------------------- MODULE EthTx -------------------------------
(****************************************************************************)
(* The transmit side of the Ethernet interface and its link thread          *)
(* (User/lwip/src/port/netif_port.c over the HAL driver                     *)
(* Libraries/STM32H7xx_HAL_Driver/Src/stm32h7xx_hal_eth.c).                 *)
(*                                                                          *)
(* low_level_output runs in two contexts: "stack", whoever holds the core   *)
(* lock of lwIP, and "link", ethernet_link_thread, which calls              *)
(* netif_set_link_up without that lock and so sends a gratuitous ARP.  Both *)
(* describe their frame to the HAL driver in the global TxConfig and fill   *)
(* the ring of transmit descriptors; nothing keeps them apart.              *)
(*                                                                          *)
(* A frame is its number, in the order of the calls, and the number of      *)
(* descriptors it takes.  The PHY is "down" (which stands for a failed read *)
(* too), "nego" (autonegotiation not done) or in one of Modes, a speed and  *)
(* a duplex mode.                                                           *)
(****************************************************************************)
EXTENDS Integers

CONSTANTS ETH_TX_DESC_CNT,  \* 4
          Modes,            \* speed and duplex mode: four of them
          DefaultMode,      \* 100 Mbit/s, full duplex
          MaxFrames,        \* bound: frames sent when the stack stops sending
          MaxChanges        \* bound: changes of the PHY

ASSUME EthTxAssumption ==
  /\ ETH_TX_DESC_CNT \in Nat \ {0}
  /\ DefaultMode \in Modes
  /\ {"down", "nego", "none"} \cap Modes = {}
  /\ MaxFrames \in Nat /\ MaxChanges \in Nat

VARIABLES
  own,           \* the OWN bit of each descriptor: it belongs to the DMA
  DMATxDscrTab,  \* what each descriptor describes: a part of a frame
  CurTxDesc,     \* TxDescList.CurTxDesc
  dma,           \* the descriptor the DMA reads next
  kicked,        \* descriptors from there to the tail pointer
  wire,          \* auxiliary: the part of a frame read last
  TxConfig,      \* the frame to send, and the context it belongs to
  pc,            \* where each context is in low_level_output
  txbuffer,      \* in ETH_Prepare_Tx_Descriptors: the frame, ...
  firstdescidx,  \* ... its first descriptor ...
  descnbr,       \* ... and how many are filled
  gState, RxState,
  running,       \* MAC and DMA are started
  macMode,       \* speed and duplex mode of the MAC
  up, linkup,    \* NETIF_FLAG_UP and NETIF_FLAG_LINK_UP
  thread,        \* where ethernet_link_thread is
  mode,          \* its speed and duplex
  linkchanged,
  phy,           \* the state of the PHY
  changes,       \* auxiliary: changes of the PHY
  frames,        \* auxiliary: frames sent
  raced          \* auxiliary: both contexts were in low_level_output

ring    == <<own, DMATxDscrTab, CurTxDesc, dma, kicked, wire>>
local   == <<txbuffer, firstdescidx, descnbr>>
call    == <<TxConfig, pc, local, frames, raced>>
mac     == <<RxState, running, macMode>>
netif   == <<up, linkup>>
link    == <<thread, mode, linkchanged>>
env     == <<phy, changes>>
vars    == <<ring, call, gState, mac, netif, link, env>>

Descs    == 0 .. (ETH_TX_DESC_CNT - 1)
Contexts == {"stack", "link"}

\* Mutant: the index wraps one descriptor late.
INCR_TX_DESC_INDEX_Late(d, offset) == (d + offset) % (ETH_TX_DESC_CNT + 1)

\* A number of descriptors further; INCR_TX_DESC_INDEX for one.
INCR_TX_DESC_INDEX(d, offset) == (d + offset) % ETH_TX_DESC_CNT

----------------------------------------------------------------------------
(* low_level_output, HAL_ETH_Transmit and ETH_Prepare_Tx_Descriptors.       *)

At(c, label)   == pc[c] = label
Goto(c, label) == pc' = [pc EXCEPT ![c] = label]

\* A frame takes a descriptor for each two of its pbufs.  A chain of more than
\* ETH_TX_DESC_CNT pbufs is refused and changes nothing.
low_level_output(c, chain) ==
  /\ At(c, "idle")
  /\ chain <= ETH_TX_DESC_CNT
  /\ frames' = frames + 1
  /\ TxConfig' = [num |-> frames + 1, size |-> (chain + 1) \div 2, by |-> c]
  /\ raced' = (raced \/ \E o \in Contexts \ {c} : ~ At(o, "idle"))
  /\ Goto(c, "transmit")
  /\ UNCHANGED <<ring, local, gState, mac, env>>

NoFrame == [num |-> 0, size |-> 1]
NoPart  == [num |-> 0, size |-> 1, part |-> 1]

\* The local variables end with the call.
Return(c) ==
  /\ Goto(c, "idle")
  /\ txbuffer' = [txbuffer EXCEPT ![c] = NoFrame]
  /\ firstdescidx' = [firstdescidx EXCEPT ![c] = 0]
  /\ descnbr' = [descnbr EXCEPT ![c] = 0]

\* What TxConfig.TxBuffer points to: an array on the stack of the context that
\* set it, which may have returned.
TxBuffers(c) ==
  {[num |-> TxConfig.num, size |-> TxConfig.size]}
    \cup (IF TxConfig.by # c /\ At(TxConfig.by, "idle") THEN {NoFrame} ELSE {})

\* The frame is dropped, and ERR_OK returned, if the MAC is being started or
\* stopped or the DMA has not sent the current descriptor yet.
Transmit_Refused(c) ==
  /\ At(c, "transmit")
  /\ gState # "READY" \/ own[CurTxDesc]
  /\ Goto(c, "idle")
  /\ UNCHANGED <<ring, TxConfig, local, frames, raced, gState, mac, netif, link, env>>

\* Mutant: the owner of the descriptor is not looked at.
Transmit_Unchecked(c) ==
  /\ At(c, "transmit")
  /\ gState = "READY"
  /\ \E f \in TxBuffers(c) : txbuffer' = [txbuffer EXCEPT ![c] = f]
  /\ firstdescidx' = [firstdescidx EXCEPT ![c] = CurTxDesc]
  /\ descnbr' = [descnbr EXCEPT ![c] = 0]
  /\ Goto(c, "fill")
  /\ UNCHANGED <<ring, TxConfig, frames, raced, gState, mac, netif, link, env>>

\* Otherwise its first descriptor is the current one.
Transmit(c) ==
  /\ At(c, "transmit")
  /\ gState = "READY" /\ ~ own[CurTxDesc]
  /\ \E f \in TxBuffers(c) : txbuffer' = [txbuffer EXCEPT ![c] = f]
  /\ firstdescidx' = [firstdescidx EXCEPT ![c] = CurTxDesc]
  /\ descnbr' = [descnbr EXCEPT ![c] = 0]
  /\ Goto(c, "fill")
  /\ UNCHANGED <<ring, TxConfig, frames, raced, gState, mac, netif, link, env>>

\* The descriptor the context fills next.
NextDesc(c) == INCR_TX_DESC_INDEX(firstdescidx[c], descnbr[c])

\* The first descriptor has been tested already, each further one is now.
FillDesc(c) ==
  /\ At(c, "fill")
  /\ descnbr[c] = 0 \/ ~ own[NextDesc(c)]
  /\ DMATxDscrTab' = [DMATxDscrTab EXCEPT ![NextDesc(c)] =
       [num |-> txbuffer[c].num, size |-> txbuffer[c].size, part |-> descnbr[c] + 1]]
  /\ own' = [own EXCEPT ![NextDesc(c)] = TRUE]
  /\ descnbr' = [descnbr EXCEPT ![c] = @ + 1]
  /\ Goto(c, IF descnbr[c] + 1 = txbuffer[c].size THEN "commit" ELSE "fill")
  /\ UNCHANGED <<CurTxDesc, dma, kicked, wire, TxConfig, txbuffer, firstdescidx, frames, raced,
                 gState, mac, netif, link, env>>

\* Mutant: the first descriptor is not taken back.
Rollback_Late(c) ==
  /\ At(c, "fill")
  /\ descnbr[c] > 0 /\ own[NextDesc(c)]
  /\ Return(c)
  /\ UNCHANGED <<ring, TxConfig, frames, raced, gState, mac, netif, link, env>>

\* There is no room for the rest of the frame: it is dropped.
Rollback(c) ==
  /\ At(c, "fill")
  /\ descnbr[c] > 0 /\ own[NextDesc(c)]
  /\ own' = [d \in Descs |->
       own[d] /\ \A i \in 0 .. (descnbr[c] - 1) : d # INCR_TX_DESC_INDEX(firstdescidx[c], i)]
  /\ Return(c)
  /\ UNCHANGED <<DMATxDscrTab, CurTxDesc, dma, kicked, wire, TxConfig, frames, raced, gState, mac,
                 netif, link, env>>

\* Mutant: CurTxDesc becomes the second descriptor of a longer frame.
Commit_First(c) ==
  /\ At(c, "commit")
  /\ LET tail == INCR_TX_DESC_INDEX(firstdescidx[c], 1)
         n    == (tail - dma) % ETH_TX_DESC_CNT
     IN  /\ CurTxDesc' = tail
         /\ kicked' = IF n = 0 THEN ETH_TX_DESC_CNT ELSE n
  /\ gState' = "READY"
  /\ Return(c)
  /\ UNCHANGED <<own, DMATxDscrTab, dma, wire, TxConfig, frames, raced, mac, netif, link, env>>

\* CurTxDesc becomes the descriptor after the last one of the frame, and that is
\* the tail pointer.  With a timeout of 0 HAL_ETH_Transmit does not wait for the
\* DMA.
Commit(c) ==
  /\ At(c, "commit")
  /\ LET tail == INCR_TX_DESC_INDEX(firstdescidx[c], descnbr[c])
         n    == (tail - dma) % ETH_TX_DESC_CNT
     IN  /\ CurTxDesc' = tail
         /\ kicked' = IF n = 0 THEN ETH_TX_DESC_CNT ELSE n
  /\ gState' = "READY"
  /\ Return(c)
  /\ UNCHANGED <<own, DMATxDscrTab, dma, wire, TxConfig, frames, raced, mac, netif, link, env>>

OutputStep(c) ==
  \/ Transmit_Refused(c) \/ Transmit(c)
  \/ FillDesc(c) \/ Rollback(c) \/ Commit(c)

\* The stack finds a route over the interface and sends a frame.
StackSends ==
  /\ up /\ linkup
  /\ frames < MaxFrames
  /\ \E chain \in 1 .. ETH_TX_DESC_CNT : low_level_output("stack", chain)
  /\ UNCHANGED <<netif, link>>

\* The DMA reads a descriptor and the data it describes, and writes its status
\* into it.
Send ==
  /\ running
  /\ kicked > 0 /\ own[dma]
  /\ wire' = DMATxDscrTab[dma]
  /\ DMATxDscrTab' = [DMATxDscrTab EXCEPT ![dma] = NoPart]
  /\ own' = [own EXCEPT ![dma] = FALSE]
  /\ dma' = INCR_TX_DESC_INDEX(dma, 1)
  /\ kicked' = kicked - 1
  /\ UNCHANGED <<CurTxDesc, call, gState, mac, netif, link, env>>

----------------------------------------------------------------------------
(* ethernet_link_thread.                                                    *)

Thread(from, to) == thread = from /\ thread' = to

\* LAN8742_GetLinkState, and what it decides.  The mode read with the link down
\* is kept, and so is linkchanged.  vTaskDelay(100) is the time spent here.
Poll ==
  /\ LET found == ~ linkup /\ phy \in Modes
     IN  /\ mode' = IF found THEN phy ELSE mode
         /\ linkchanged' = (linkchanged \/ found)
         /\ Thread("poll", CASE linkup /\ phy = "down"                      -> "stop"
                             [] ~ linkup /\ phy # "down" /\ linkchanged'    -> "config"
                             [] OTHER                                       -> "poll")
  /\ UNCHANGED <<ring, call, gState, mac, netif, env>>

\* HAL_ETH_Stop_IT.
Stop ==
  /\ Thread("stop", "stopped")
  /\ gState' = "BUSY"
  /\ running' = FALSE
  /\ UNCHANGED <<ring, call, RxState, macMode, netif, mode, linkchanged, env>>

\* Mutant: the reception still counts as busy.
Stopped_Busy ==
  /\ Thread("stopped", "setdown")
  /\ gState' = "READY"
  /\ UNCHANGED <<ring, call, RxState, running, macMode, netif, mode, linkchanged, env>>

Stopped ==
  /\ Thread("stopped", "setdown")
  /\ gState' = "READY"
  /\ RxState' = "READY"
  /\ UNCHANGED <<ring, call, running, macMode, netif, mode, linkchanged, env>>

netif_set_down ==
  /\ Thread("setdown", "linkdown")
  /\ up' = FALSE
  /\ UNCHANGED <<ring, call, gState, mac, linkup, mode, linkchanged, env>>

netif_set_link_down ==
  /\ Thread("linkdown", "poll")
  /\ linkup' = FALSE
  /\ UNCHANGED <<ring, call, gState, mac, up, mode, linkchanged, env>>

\* HAL_ETH_SetMACConfig, refused unless the reception is stopped; the result is
\* not looked at.
SetMACConfig ==
  /\ Thread("config", "start")
  /\ macMode' = IF RxState = "READY" THEN mode ELSE macMode
  /\ UNCHANGED <<ring, call, gState, RxState, running, netif, mode, linkchanged, env>>

\* HAL_ETH_Start_IT.
Start ==
  /\ Thread("start", IF gState = "READY" THEN "started" ELSE "setup")
  /\ gState' = IF gState = "READY" THEN "BUSY" ELSE gState
  /\ running' = (running \/ gState = "READY")
  /\ UNCHANGED <<ring, call, RxState, macMode, netif, mode, linkchanged, env>>

Started ==
  /\ Thread("started", "setup")
  /\ gState' = "READY"
  /\ RxState' = "BUSY_RX"
  /\ UNCHANGED <<ring, call, running, macMode, netif, mode, linkchanged, env>>

netif_set_up ==
  /\ Thread("setup", "linkup")
  /\ up' = TRUE
  /\ UNCHANGED <<ring, call, gState, mac, linkup, mode, linkchanged, env>>

netif_set_link_up ==
  /\ Thread("linkup", "report")
  /\ linkup' = TRUE
  /\ UNCHANGED <<ring, call, gState, mac, up, mode, linkchanged, env>>

\* netif_issue_reports: the gratuitous ARP is sent from this thread.
netif_issue_reports ==
  /\ Thread("report", "reporting")
  /\ low_level_output("link", 1)
  /\ UNCHANGED <<netif, mode, linkchanged>>

Reported ==
  /\ At("link", "idle")
  /\ Thread("reporting", "poll")
  /\ UNCHANGED <<ring, call, gState, mac, netif, mode, linkchanged, env>>

LinkStep ==
  \/ Poll
  \/ Stop \/ Stopped \/ netif_set_down \/ netif_set_link_down
  \/ SetMACConfig \/ Start \/ Started \/ netif_set_up \/ netif_set_link_up
  \/ netif_issue_reports \/ Reported

----------------------------------------------------------------------------

PhyStates == {"down", "nego"} \cup Modes

\* The cable is plugged or pulled, or the other side renegotiates.
PhyChanges ==
  /\ changes < MaxChanges
  /\ changes' = changes + 1
  /\ phy' \in PhyStates \ {phy}
  /\ UNCHANGED <<ring, call, gState, mac, netif, link>>

\* low_level_init: with a link the MAC is started, in the default mode if the
\* autonegotiation is not done, and the ARP is sent.
Init ==
  /\ own = [d \in Descs |-> FALSE]
  /\ DMATxDscrTab = [d \in Descs |-> NoPart]
  /\ CurTxDesc = 0 /\ dma = 0 /\ kicked = 0
  /\ wire = NoPart
  /\ TxConfig = [num |-> 0, size |-> 1, by |-> "stack"]
  /\ pc = [c \in Contexts |-> "idle"]
  /\ txbuffer = [c \in Contexts |-> NoFrame]
  /\ firstdescidx = [c \in Contexts |-> 0]
  /\ descnbr = [c \in Contexts |-> 0]
  /\ phy \in PhyStates /\ changes = 0
  /\ LET isup == phy # "down"
     IN  /\ running = isup /\ up = isup /\ linkup = isup
         /\ RxState = IF isup THEN "BUSY_RX" ELSE "READY"
         /\ thread = IF isup THEN "report" ELSE "poll"
  /\ gState = "READY"
  /\ macMode = IF phy \in Modes THEN phy ELSE DefaultMode
  /\ mode = "none" /\ linkchanged = FALSE
  /\ frames = 0 /\ raced = FALSE

Next ==
  \/ StackSends \/ \E c \in Contexts : OutputStep(c)
  \/ Send
  \/ LinkStep
  \/ PhyChanges

\* Each context and the link thread run again and again, and a started DMA sends.
Fairness == (\A c \in Contexts : WF_vars(OutputStep(c))) /\ WF_vars(LinkStep) /\ WF_vars(Send)

Spec == Init /\ [][Next]_vars /\ Fairness

----------------------------------------------------------------------------
(* Properties.                                                              *)

Parts == [num : Nat, size : Nat \ {0}, part : Nat \ {0}]

TypeOK ==
  /\ own \in [Descs -> BOOLEAN]
  /\ DMATxDscrTab \in [Descs -> Parts] /\ wire \in Parts
  /\ CurTxDesc \in Descs /\ dma \in Descs /\ kicked \in 0 .. ETH_TX_DESC_CNT
  /\ TxConfig \in [num : Nat, size : Nat \ {0}, by : Contexts]
  /\ pc \in [Contexts -> {"idle", "transmit", "fill", "commit"}]
  /\ txbuffer \in [Contexts -> [num : Nat, size : Nat \ {0}]]
  /\ firstdescidx \in [Contexts -> Descs] /\ descnbr \in [Contexts -> Nat]
  /\ gState \in {"READY", "BUSY"} /\ RxState \in {"READY", "BUSY_RX"}
  /\ running \in BOOLEAN /\ up \in BOOLEAN /\ linkup \in BOOLEAN /\ linkchanged \in BOOLEAN
  /\ macMode \in Modes /\ mode \in Modes \cup {"none"}
  /\ thread \in {"poll", "stop", "stopped", "setdown", "linkdown", "config", "start", "started",
                 "setup", "linkup", "report", "reporting"}
  /\ phy \in PhyStates /\ changes \in Nat /\ frames \in Nat /\ raced \in BOOLEAN

\* Descriptors filled by a context and not handed to the DMA yet.
Filled ==
  LET InHand(c) == IF pc[c] \in {"fill", "commit"} THEN descnbr[c] ELSE 0
  IN  InHand("stack") + InHand("link")

\* As long as the two contexts do not meet in low_level_output, the driver's place
\* in the ring and the DMA's never run apart, whatever is rolled back, dropped,
\* stopped or started: from the DMA's place on come the descriptors handed to it,
\* then those being filled, then free ones only.
RingInStep ==
  ~ raced =>
    /\ \A i \in Descs : own[INCR_TX_DESC_INDEX(dma, i)] <=> i < kicked + Filled
    /\ CurTxDesc = INCR_TX_DESC_INDEX(dma, kicked)

\* As long as they do not meet, what the DMA sends is whole frames in the order of
\* the calls, none twice, none mixed with another, over stops of the MAC too.
FramesWhole ==
  [][wire' # wire =>
       \/ raced
       \/ wire'.part = 1 /\ wire.part = wire.size /\ wire'.num > wire.num
       \/ wire' = [wire EXCEPT !.part = @ + 1]]_vars

\* With the link up for good, each descriptor the driver has filled is sent.
RingDrains ==
  (<>[]running /\ []~ raced) => \A d \in Descs : own[d] ~> ~ own[d]

\* The interface follows the PHY, whatever the thread was doing when it changed.  A
\* link that stays down stops the MAC and takes the interface down.  A link the
\* thread has seen down, and that stays in a mode from its next look on, gets a
\* MAC running in that mode and an interface that is up.  A change of mode between
\* two looks, and a mode not negotiated yet, are not noticed.
FollowsPhy ==
  /\ <>[](phy = "down") => <>[](~ running /\ ~ up /\ ~ linkup)
  /\ \A m \in Modes :
       []((thread = "poll" /\ ~ linkup /\ [](phy = m))
            => <>[](running /\ macMode = m /\ up /\ linkup))
=============================================================================
