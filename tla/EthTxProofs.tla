---------------------------- MODULE EthTxProofs ----------------------------
(****************************************************************************)
(* The safety properties of the transmit ring, for every number of          *)
(* descriptors and every set of modes.                                      *)
(****************************************************************************)
EXTENDS EthTx, TLAPS

Idle(c)    == pc[c] = "idle"
Filling(c) == pc[c] \in {"fill", "commit"}

\* As long as the contexts do not meet, one of them is idle, and the other one's
\* frame is the last one, starts at the current descriptor and has room.
OneSender ==
  ~ raced =>
    /\ Idle("stack") \/ Idle("link")
    /\ \A c \in Contexts :
         /\ pc[c] = "transmit" => TxConfig.by = c /\ TxConfig.num = frames
         /\ Filling(c) => /\ firstdescidx[c] = CurTxDesc
                          /\ txbuffer[c].num = frames
         /\ pc[c] = "fill" => descnbr[c] < txbuffer[c].size
         /\ (pc[c] = "fill" /\ descnbr[c] = 0) => kicked < ETH_TX_DESC_CNT
         /\ pc[c] = "commit" => descnbr[c] = txbuffer[c].size
    /\ kicked + Filled <= ETH_TX_DESC_CNT

\* What was sent last, then what the descriptors after it describe.
Entry(i) == IF i = 0 THEN wire ELSE DMATxDscrTab[INCR_TX_DESC_INDEX(dma, i - 1)]

\* The part b may be sent after the part a.
Follows(a, b) ==
  \/ b.part = 1 /\ a.part = a.size /\ b.num > a.num
  \/ b = [a EXCEPT !.part = @ + 1]

\* The descriptors describe whole frames in order, and then the beginning of the
\* one being filled.
InOrder ==
  ~ raced =>
    /\ \A i \in 0 .. (kicked + Filled - 1) : Follows(Entry(i), Entry(i + 1))
    /\ Entry(kicked).part = Entry(kicked).size /\ Entry(kicked).num <= frames
    /\ \A c \in Contexts :
         /\ ~ Idle(c) => Entry(kicked).num < frames
         /\ Filling(c) =>
              \A i \in 1 .. descnbr[c] :
                Entry(kicked + i) = [num |-> txbuffer[c].num, size |-> txbuffer[c].size, part |-> i]

RingInv == TypeOK /\ OneSender /\ RingInStep /\ InOrder
----------------------------------------------------------------------------
(* Arithmetic of the ring.                                                  *)

\* The ring has a descriptor.
LEMMA CountType == ETH_TX_DESC_CNT \in Nat /\ ETH_TX_DESC_CNT > 0
  BY EthTxAssumption

\* At most once round the ring.
LEMMA Incr ==
  ASSUME NEW d \in Descs, NEW i \in 0 .. ETH_TX_DESC_CNT
  PROVE  /\ INCR_TX_DESC_INDEX(d, i) = IF d + i < ETH_TX_DESC_CNT THEN d + i ELSE d + i - ETH_TX_DESC_CNT
         /\ INCR_TX_DESC_INDEX(d, i) \in Descs
<1>1. ETH_TX_DESC_CNT \in Nat /\ ETH_TX_DESC_CNT > 0 /\ d \in Nat /\ d < ETH_TX_DESC_CNT
      /\ i \in Nat /\ i <= ETH_TX_DESC_CNT
  BY CountType DEF Descs
<1>2. \A n \in Nat \ {0} : \A x \in 0 .. (n - 1) : x % n = x
  OBVIOUS
<1>3. \A n \in Nat \ {0} : \A x \in n .. (2 * n - 1) : x % n = x - n
  OBVIOUS
<1>4. INCR_TX_DESC_INDEX(d, i) = IF d + i < ETH_TX_DESC_CNT THEN d + i ELSE d + i - ETH_TX_DESC_CNT
  BY <1>1, <1>2, <1>3 DEF INCR_TX_DESC_INDEX
<1> QED
  BY <1>1, <1>4 DEF Descs

\* Different distances lead to different descriptors.
LEMMA IncrDistinct ==
  ASSUME NEW d \in Descs, NEW i \in Descs, NEW k \in Descs,
         INCR_TX_DESC_INDEX(d, i) = INCR_TX_DESC_INDEX(d, k)
  PROVE  i = k
<1>1. /\ ETH_TX_DESC_CNT \in Nat /\ d \in Nat /\ d < ETH_TX_DESC_CNT
      /\ i \in Nat /\ i < ETH_TX_DESC_CNT /\ k \in Nat /\ k < ETH_TX_DESC_CNT
      /\ i \in 0 .. ETH_TX_DESC_CNT /\ k \in 0 .. ETH_TX_DESC_CNT
  BY CountType DEF Descs
<1> QED
  BY <1>1, Incr

\* Two ways in one, up to once round the ring.
LEMMA IncrTwice ==
  ASSUME NEW d \in Descs, NEW i \in Nat, NEW k \in Nat, i + k <= ETH_TX_DESC_CNT
  PROVE  INCR_TX_DESC_INDEX(INCR_TX_DESC_INDEX(d, i), k) = INCR_TX_DESC_INDEX(d, i + k)
<1> DEFINE e == INCR_TX_DESC_INDEX(d, i)
<1>1. /\ ETH_TX_DESC_CNT \in Nat /\ ETH_TX_DESC_CNT > 0 /\ d \in Nat /\ d < ETH_TX_DESC_CNT
      /\ i \in 0 .. ETH_TX_DESC_CNT /\ k \in 0 .. ETH_TX_DESC_CNT /\ i + k \in 0 .. ETH_TX_DESC_CNT
  BY CountType DEF Descs
<1>2. e \in Descs /\ e = IF d + i < ETH_TX_DESC_CNT THEN d + i ELSE d + i - ETH_TX_DESC_CNT
  BY <1>1, Incr
<1>3. INCR_TX_DESC_INDEX(e, k) = IF e + k < ETH_TX_DESC_CNT THEN e + k ELSE e + k - ETH_TX_DESC_CNT
  <2> HIDE DEF e
  <2> QED BY <1>1, <1>2, Incr
<1>4. INCR_TX_DESC_INDEX(d, i + k) = IF d + (i + k) < ETH_TX_DESC_CNT THEN d + (i + k) ELSE d + (i + k) - ETH_TX_DESC_CNT
  BY <1>1, Incr
<1>5. e \in Nat /\ e < ETH_TX_DESC_CNT
  BY <1>1, <1>2 DEF Descs
<1> HIDE DEF e
<1>6. INCR_TX_DESC_INDEX(e, k) = INCR_TX_DESC_INDEX(d, i + k)
  BY <1>1, <1>2, <1>3, <1>4, <1>5
<1> QED
  BY <1>6 DEF e

\* The way back: the tail pointer says how far it is from the DMA's place.
LEMMA Distance ==
  ASSUME NEW d \in Descs, NEW i \in 1 .. ETH_TX_DESC_CNT
  PROVE  (INCR_TX_DESC_INDEX(d, i) - d) % ETH_TX_DESC_CNT = IF i = ETH_TX_DESC_CNT THEN 0 ELSE i
<1>1. /\ ETH_TX_DESC_CNT \in Nat /\ ETH_TX_DESC_CNT > 0 /\ d \in Nat /\ d < ETH_TX_DESC_CNT
      /\ i \in Nat /\ i <= ETH_TX_DESC_CNT /\ i > 0
  BY CountType DEF Descs
<1>2. \A n \in Nat \ {0} : \A x \in 0 .. (n - 1) : x % n = x
  OBVIOUS
<1>3. \A n \in Nat \ {0} : \A x \in (1 - n) .. (0 - 1) : x % n = x + n
  OBVIOUS
<1> DEFINE x == INCR_TX_DESC_INDEX(d, i) - d
<1>4. x = IF d + i < ETH_TX_DESC_CNT THEN i ELSE i - ETH_TX_DESC_CNT
  BY <1>1, Incr
<1> HIDE DEF x
<1>5. x % ETH_TX_DESC_CNT = IF i = ETH_TX_DESC_CNT THEN 0 ELSE i
  <2>1. CASE x = i /\ d + i < ETH_TX_DESC_CNT
    BY <1>1, <1>2, <2>1
  <2>2. CASE x = i - ETH_TX_DESC_CNT /\ i = ETH_TX_DESC_CNT
    BY <1>1, <1>2, <2>2
  <2>3. CASE x = i - ETH_TX_DESC_CNT /\ i # ETH_TX_DESC_CNT
    BY <1>1, <1>3, <2>3
  <2> QED
    BY <1>1, <1>4, <2>1, <2>2, <2>3
<1> QED
  BY <1>5 DEF x
----------------------------------------------------------------------------
(* Types.                                                                   *)

RingTypes ==
  /\ own \in [Descs -> BOOLEAN]
  /\ DMATxDscrTab \in [Descs -> Parts] /\ wire \in Parts
  /\ CurTxDesc \in Descs /\ dma \in Descs /\ kicked \in 0 .. ETH_TX_DESC_CNT

CallTypes ==
  /\ TxConfig \in [num : Nat, size : Nat \ {0}, by : Contexts]
  /\ pc \in [Contexts -> {"idle", "transmit", "fill", "commit"}]
  /\ txbuffer \in [Contexts -> [num : Nat, size : Nat \ {0}]]
  /\ firstdescidx \in [Contexts -> Descs] /\ descnbr \in [Contexts -> Nat]
  /\ frames \in Nat /\ raced \in BOOLEAN

MacTypes ==
  /\ gState \in {"READY", "BUSY"} /\ RxState \in {"READY", "BUSY_RX"}
  /\ running \in BOOLEAN /\ up \in BOOLEAN /\ linkup \in BOOLEAN /\ linkchanged \in BOOLEAN
  /\ macMode \in Modes /\ mode \in Modes \cup {"none"}
  /\ phy \in PhyStates /\ changes \in Nat

ThreadTypes ==
  thread \in {"poll", "stop", "stopped", "setdown", "linkdown", "config", "start", "started",
              "setup", "linkup", "report", "reporting"}

\* The link thread knows the mode when it configures the MAC.
ModeRead ==
  /\ linkchanged => mode \in Modes
  /\ thread = "config" => linkchanged

\* What TypeOK says of the variables one by one.
LEMMA TypeParts ==
  /\ TypeOK <=> RingTypes /\ CallTypes /\ MacTypes /\ ThreadTypes
  /\ TypeOK' <=> RingTypes' /\ CallTypes' /\ MacTypes' /\ ThreadTypes'
<1>1. TypeOK <=> RingTypes /\ CallTypes /\ MacTypes /\ ThreadTypes
  BY DEF TypeOK, RingTypes, CallTypes, MacTypes, ThreadTypes
<1>2. TypeOK' <=> RingTypes' /\ CallTypes' /\ MacTypes' /\ ThreadTypes'
  BY DEF TypeOK, RingTypes, CallTypes, MacTypes, ThreadTypes
<1> QED
  BY <1>1, <1>2

\* The link thread and the PHY.
LEMMA LinkTypeStep ==
  ASSUME TypeOK, ModeRead, LinkStep \/ PhyChanges, ~ netif_issue_reports
  PROVE  TypeOK' /\ ModeRead' /\ UNCHANGED <<ring, call>>
<1>0. RingTypes /\ CallTypes /\ MacTypes /\ ThreadTypes
  BY TypeParts
<1>1. UNCHANGED <<ring, call>>
  BY DEF LinkStep, Poll, Stop, Stopped, netif_set_down, netif_set_link_down, SetMACConfig, Start, Started, netif_set_up, netif_set_link_up, Reported, PhyChanges
<1>2. RingTypes' /\ CallTypes'
  BY <1>0, <1>1 DEF RingTypes, CallTypes, ring, call, local
<1>3. MacTypes' /\ ThreadTypes' /\ ModeRead'
  <2>1. CASE Poll
    BY <1>0, <2>1 DEF Poll, Thread, MacTypes, ThreadTypes, ModeRead, mac, netif, link, env, PhyStates
  <2>2. CASE Stop
    BY <1>0, <2>2 DEF Stop, Thread, MacTypes, ThreadTypes, ModeRead, mac, netif, link, env, PhyStates
  <2>3. CASE Stopped
    BY <1>0, <2>3 DEF Stopped, Thread, MacTypes, ThreadTypes, ModeRead, mac, netif, link, env, PhyStates
  <2>4. CASE netif_set_down
    BY <1>0, <2>4 DEF netif_set_down, Thread, MacTypes, ThreadTypes, ModeRead, mac, netif, link, env, PhyStates
  <2>5. CASE netif_set_link_down
    BY <1>0, <2>5 DEF netif_set_link_down, Thread, MacTypes, ThreadTypes, ModeRead, mac, netif, link, env, PhyStates
  <2>6. CASE SetMACConfig
    BY <1>0, <2>6 DEF SetMACConfig, Thread, MacTypes, ThreadTypes, ModeRead, mac, netif, link, env, PhyStates
  <2>7. CASE Start
    BY <1>0, <2>7 DEF Start, Thread, MacTypes, ThreadTypes, ModeRead, mac, netif, link, env, PhyStates
  <2>8. CASE Started
    BY <1>0, <2>8 DEF Started, Thread, MacTypes, ThreadTypes, ModeRead, mac, netif, link, env, PhyStates
  <2>9. CASE netif_set_up
    BY <1>0, <2>9 DEF netif_set_up, Thread, MacTypes, ThreadTypes, ModeRead, mac, netif, link, env, PhyStates
  <2>10. CASE netif_set_link_up
    BY <1>0, <2>10 DEF netif_set_link_up, Thread, MacTypes, ThreadTypes, ModeRead, mac, netif, link, env, PhyStates
  <2>11. CASE Reported
    BY <1>0, <2>11 DEF Reported, Thread, MacTypes, ThreadTypes, ModeRead, mac, netif, link, env, PhyStates
  <2>12. CASE PhyChanges
    BY <1>0, <2>12 DEF PhyChanges, Thread, MacTypes, ThreadTypes, ModeRead, mac, netif, link, env, PhyStates
  <2> QED
    BY <2>1, <2>2, <2>3, <2>4, <2>5, <2>6, <2>7, <2>8, <2>9, <2>10, <2>11, <2>12 DEF LinkStep
<1> QED
  BY <1>1, <1>2, <1>3, TypeParts

\* A call of low_level_output.
LEMMA OutputTypeStep ==
  ASSUME TypeOK, NEW c \in Contexts, NEW chain \in 1 .. ETH_TX_DESC_CNT, low_level_output(c, chain)
  PROVE  RingTypes' /\ CallTypes'
<1>0. RingTypes /\ CallTypes
  BY TypeParts
<1>1. (chain + 1) \div 2 \in Nat \ {0}
  BY CountType
<1>2. raced' \in BOOLEAN
  BY <1>0 DEF low_level_output, CallTypes
<1>3. /\ frames' = frames + 1
      /\ TxConfig' = [num |-> frames + 1, size |-> (chain + 1) \div 2, by |-> c]
      /\ pc' = [pc EXCEPT ![c] = "transmit"]
      /\ UNCHANGED <<ring, txbuffer, firstdescidx, descnbr>>
  BY DEF low_level_output, Goto, local
<1>4. TxConfig' \in [num : Nat, size : Nat \ {0}, by : Contexts]
  BY <1>0, <1>1, <1>3 DEF CallTypes
<1>5. CallTypes'
  BY <1>0, <1>2, <1>3, <1>4 DEF CallTypes
<1> QED
  BY <1>0, <1>3, <1>5 DEF RingTypes, ring

\* What a frame is, as a context reads it.
LEMMA FrameTypes ==
  ASSUME TypeOK, NEW c \in Contexts
  PROVE  TxBuffers(c) \subseteq [num : Nat, size : Nat \ {0}] /\ NoFrame \in [num : Nat, size : Nat \ {0}]
BY DEF TypeOK, TxBuffers, NoFrame

\* A step of a context in low_level_output.
LEMMA ContextTypeStep ==
  ASSUME TypeOK, ModeRead, NEW c \in Contexts, OutputStep(c)
  PROVE  TypeOK' /\ ModeRead'
<1>0. RingTypes /\ CallTypes /\ MacTypes /\ ThreadTypes
  BY TypeParts
<1>1. MacTypes' /\ ThreadTypes' /\ ModeRead'
  <2>1. UNCHANGED <<mac, netif, link, env>> /\ gState' \in {gState, "READY"}
    BY DEF OutputStep, Transmit_Refused, Transmit, FillDesc, Rollback, Commit
  <2> QED
    BY <1>0, <2>1 DEF MacTypes, ThreadTypes, ModeRead, mac, netif, link, env, PhyStates
<1>2. CASE Transmit_Refused(c)
  <2>1. pc' = [pc EXCEPT ![c] = "idle"] /\ UNCHANGED <<ring, TxConfig, txbuffer, firstdescidx, descnbr, frames, raced>>
    BY <1>2 DEF Transmit_Refused, Goto, local
  <2>2. RingTypes' /\ CallTypes'
    BY <1>0, <2>1 DEF RingTypes, CallTypes, ring
  <2> QED
    BY <1>1, <2>2, TypeParts
<1>3. CASE Transmit(c)
  <2>1. PICK f \in TxBuffers(c) : txbuffer' = [txbuffer EXCEPT ![c] = f]
    BY <1>3 DEF Transmit
  <2>2. /\ firstdescidx' = [firstdescidx EXCEPT ![c] = CurTxDesc]
        /\ descnbr' = [descnbr EXCEPT ![c] = 0]
        /\ pc' = [pc EXCEPT ![c] = "fill"]
        /\ UNCHANGED <<ring, TxConfig, frames, raced>>
    BY <1>3 DEF Transmit, Goto
  <2>3. f \in [num : Nat, size : Nat \ {0}]
    BY FrameTypes
  <2>4. RingTypes' /\ CallTypes'
    BY <1>0, <2>1, <2>2, <2>3 DEF RingTypes, CallTypes, ring
  <2> QED
    BY <1>1, <2>4, TypeParts
<1>4. ASSUME Return(c)
      PROVE  /\ pc' \in [Contexts -> {"idle", "transmit", "fill", "commit"}]
             /\ txbuffer' \in [Contexts -> [num : Nat, size : Nat \ {0}]]
             /\ firstdescidx' \in [Contexts -> Descs] /\ descnbr' \in [Contexts -> Nat]
  <2>1. 0 \in Descs
    BY CountType DEF Descs
  <2> QED
    BY <1>0, <1>4, <2>1, FrameTypes DEF Return, Goto, CallTypes
<1>5. CASE FillDesc(c)
  <2> DEFINE d == NextDesc(c)
             new == [num |-> txbuffer[c].num, size |-> txbuffer[c].size, part |-> descnbr[c] + 1]
  <2>1. /\ DMATxDscrTab' = [DMATxDscrTab EXCEPT ![d] = new]
        /\ own' = [own EXCEPT ![d] = TRUE]
        /\ descnbr' = [descnbr EXCEPT ![c] = @ + 1]
        /\ pc' \in {[pc EXCEPT ![c] = "commit"], [pc EXCEPT ![c] = "fill"]}
        /\ UNCHANGED <<CurTxDesc, dma, kicked, wire, TxConfig, txbuffer, firstdescidx, frames, raced>>
    BY <1>5 DEF FillDesc, Goto
  <2>2. new \in Parts
    <3>1. txbuffer[c] \in [num : Nat, size : Nat \ {0}] /\ descnbr[c] \in Nat
      BY <1>0 DEF CallTypes
    <3> QED
      BY <3>1 DEF Parts
  <2> HIDE DEF d, new
  <2>3. RingTypes'
    BY <1>0, <2>1, <2>2 DEF RingTypes
  <2>4. CallTypes'
    BY <1>0, <2>1 DEF CallTypes
  <2> QED
    BY <1>1, <2>3, <2>4, TypeParts
<1>6. CASE Rollback(c)
  <2>1. own' \in [Descs -> BOOLEAN]
    BY <1>0, <1>6 DEF Rollback, RingTypes
  <2>2. Return(c) /\ UNCHANGED <<DMATxDscrTab, CurTxDesc, dma, kicked, wire, TxConfig, frames, raced>>
    BY <1>6 DEF Rollback
  <2>3. RingTypes' /\ CallTypes'
    BY <1>0, <1>4, <2>1, <2>2 DEF RingTypes, CallTypes
  <2> QED
    BY <1>1, <2>3, TypeParts
<1>7. CASE Commit(c)
  <2> DEFINE tail == INCR_TX_DESC_INDEX(firstdescidx[c], descnbr[c])
             n == (tail - dma) % ETH_TX_DESC_CNT
  <2>1. CurTxDesc' = tail /\ kicked' = IF n = 0 THEN ETH_TX_DESC_CNT ELSE n
    BY <1>7 DEF Commit
  <2>2. Return(c) /\ UNCHANGED <<own, DMATxDscrTab, dma, wire, TxConfig, frames, raced>>
    BY <1>7 DEF Commit
  <2>3. tail \in Descs
    BY <1>0, CountType DEF CallTypes, Descs, INCR_TX_DESC_INDEX
  <2> HIDE DEF tail
  <2>4. n \in Descs
    BY <1>0, <2>3, CountType DEF RingTypes, Descs
  <2> HIDE DEF n
  <2>5. kicked' \in 0 .. ETH_TX_DESC_CNT
    BY <2>1, <2>4, CountType DEF Descs
  <2>6. RingTypes' /\ CallTypes'
    BY <1>0, <1>4, <2>1, <2>2, <2>3, <2>5 DEF RingTypes, CallTypes
  <2> QED
    BY <1>1, <2>6, TypeParts
<1> QED
  BY <1>2, <1>3, <1>5, <1>6, <1>7 DEF OutputStep

\* Types are preserved by every step.
LEMMA TypeStep == TypeOK /\ ModeRead /\ [Next]_vars => TypeOK' /\ ModeRead'
<1> SUFFICES ASSUME TypeOK, ModeRead, [Next]_vars
             PROVE  TypeOK' /\ ModeRead'
  OBVIOUS
<1>0. RingTypes /\ CallTypes /\ MacTypes /\ ThreadTypes
  BY TypeParts
<1>1. CASE StackSends
  <2>1. RingTypes' /\ CallTypes'
    BY <1>1, OutputTypeStep DEF StackSends, Contexts
  <2>2. UNCHANGED <<gState, mac, env, netif, link>>
    BY <1>1 DEF StackSends, low_level_output
  <2>3. MacTypes' /\ ThreadTypes' /\ ModeRead'
    BY <1>0, <2>2 DEF MacTypes, ThreadTypes, ModeRead, mac, netif, link, env, PhyStates
  <2> QED
    BY <2>1, <2>3, TypeParts
<1>2. CASE \E c \in Contexts : OutputStep(c)
  BY <1>2, ContextTypeStep
<1>3. CASE Send
  <2>1. /\ kicked > 0 /\ wire' = DMATxDscrTab[dma]
        /\ DMATxDscrTab' = [DMATxDscrTab EXCEPT ![dma] = NoPart]
        /\ own' = [own EXCEPT ![dma] = FALSE]
        /\ dma' = INCR_TX_DESC_INDEX(dma, 1) /\ kicked' = kicked - 1
        /\ UNCHANGED <<CurTxDesc, call, gState, mac, netif, link, env>>
    BY <1>3 DEF Send
  <2>2. dma' \in Descs
    BY <1>0, <2>1, Incr, CountType DEF RingTypes
  <2>3. RingTypes'
    BY <1>0, <2>1, <2>2, CountType DEF RingTypes, Parts, NoPart
  <2>4. CallTypes' /\ MacTypes' /\ ThreadTypes' /\ ModeRead'
    BY <1>0, <2>1 DEF CallTypes, call, local, MacTypes, ThreadTypes, ModeRead, mac, netif, link, env, PhyStates
  <2> QED
    BY <2>3, <2>4, TypeParts
<1>4. CASE netif_issue_reports
  <2>1. RingTypes' /\ CallTypes'
    BY <1>4, OutputTypeStep, CountType DEF netif_issue_reports, Contexts
  <2>2. UNCHANGED <<gState, mac, env, netif, mode, linkchanged>> /\ thread' = "reporting"
    BY <1>4 DEF netif_issue_reports, low_level_output, Thread
  <2>3. MacTypes' /\ ThreadTypes' /\ ModeRead'
    BY <1>0, <2>2 DEF MacTypes, ThreadTypes, ModeRead, mac, netif, env, PhyStates
  <2> QED
    BY <2>1, <2>3, TypeParts
<1>5. CASE (LinkStep \/ PhyChanges) /\ ~ netif_issue_reports
  BY <1>5, LinkTypeStep
<1>6. CASE UNCHANGED vars
  <2>1. RingTypes' /\ CallTypes'
    BY <1>0, <1>6 DEF vars, RingTypes, ring, CallTypes, call, local
  <2>2. MacTypes' /\ ThreadTypes' /\ ModeRead'
    BY <1>0, <1>6 DEF vars, MacTypes, ThreadTypes, ModeRead, mac, netif, link, env, PhyStates
  <2> QED
    BY <2>1, <2>2, TypeParts
<1> QED
  BY <1>1, <1>2, <1>3, <1>4, <1>5, <1>6 DEF Next

\* The types at the start.
LEMMA TypeInit == Init => TypeOK /\ ModeRead
<1> SUFFICES ASSUME Init PROVE TypeOK /\ ModeRead
  OBVIOUS
<1>0. 0 \in Descs /\ ETH_TX_DESC_CNT \in Nat
  BY CountType DEF Descs
<1>1. RingTypes
  BY <1>0 DEF Init, RingTypes, Parts, NoPart
<1>2. CallTypes
  <2>1. TxConfig \in [num : Nat, size : Nat \ {0}, by : Contexts]
    BY DEF Init, Contexts
  <2>2. txbuffer \in [Contexts -> [num : Nat, size : Nat \ {0}]]
    BY DEF Init, NoFrame
  <2>3. raced \in BOOLEAN /\ frames \in Nat
    BY DEF Init
  <2>4. /\ pc \in [Contexts -> {"idle", "transmit", "fill", "commit"}]
        /\ firstdescidx \in [Contexts -> Descs] /\ descnbr \in [Contexts -> Nat]
    BY <1>0 DEF Init
  <2> QED
    BY <2>1, <2>2, <2>3, <2>4 DEF CallTypes
<1>3. MacTypes
  <2>1. running \in BOOLEAN /\ up \in BOOLEAN /\ linkup \in BOOLEAN /\ linkchanged \in BOOLEAN
    BY DEF Init
  <2>2. gState \in {"READY", "BUSY"} /\ RxState \in {"READY", "BUSY_RX"} /\ mode \in Modes \cup {"none"}
    BY DEF Init
  <2>3. macMode \in Modes /\ phy \in PhyStates /\ changes \in Nat
    BY EthTxAssumption DEF Init
  <2> QED
    BY <2>1, <2>2, <2>3 DEF MacTypes
<1>4. ThreadTypes /\ ModeRead
  BY DEF Init, ThreadTypes, ModeRead
<1> QED
  BY <1>1, <1>2, <1>3, <1>4, TypeParts

\* Every variable keeps its type; the MAC is never given a mode that was not read
\* from the PHY.
THEOREM TypeCorrect == Spec => []TypeOK
  BY TypeInit, TypeStep, PTL DEF Spec
----------------------------------------------------------------------------
(* The ring, as long as the contexts do not meet.                           *)

\* A context in the call is alone there.
LEMMA Alone ==
  ASSUME TypeOK, OneSender, ~ raced, NEW c \in Contexts, ~ Idle(c)
  PROVE  /\ \A o \in Contexts \ {c} : Idle(o)
         /\ Filled = IF Filling(c) THEN descnbr[c] ELSE 0
         /\ descnbr[c] \in Nat
         /\ pc[c] = "transmit" => TxConfig.by = c /\ TxConfig.num = frames
         /\ Filling(c) => firstdescidx[c] = CurTxDesc /\ txbuffer[c].num = frames
         /\ pc[c] = "fill" => descnbr[c] < txbuffer[c].size
         /\ (pc[c] = "fill" /\ descnbr[c] = 0) => kicked < ETH_TX_DESC_CNT
         /\ pc[c] = "commit" => descnbr[c] = txbuffer[c].size
         /\ kicked + Filled <= ETH_TX_DESC_CNT
<1>1. \A o \in Contexts \ {c} : Idle(o)
  BY DEF OneSender, Contexts
<1>2. descnbr[c] \in Nat /\ pc[c] \in {"transmit", "fill", "commit"}
  BY DEF TypeOK, Idle
<1>3. Filled = IF Filling(c) THEN descnbr[c] ELSE 0
  BY <1>1, <1>2 DEF Filled, Filling, Idle, Contexts
<1> QED
  BY <1>1, <1>2, <1>3 DEF OneSender

\* Nothing is filled while both are idle or about to transmit.
LEMMA NothingFilled ==
  ASSUME \A c \in Contexts : ~ Filling(c)
  PROVE  Filled = 0
BY DEF Filled, Filling, Contexts

\* The number of descriptors being filled is a natural number.
LEMMA FilledType ==
  ASSUME TypeOK
  PROVE  Filled \in Nat
<1>1. descnbr["stack"] \in Nat /\ descnbr["link"] \in Nat
  BY DEF TypeOK, Contexts
<1> QED
  BY <1>1 DEF Filled

\* What was sent last, and what each descriptor holds, is a part of a frame.
LEMMA EntryType ==
  ASSUME TypeOK, NEW i \in 0 .. ETH_TX_DESC_CNT
  PROVE  Entry(i) \in Parts
<1>1. CASE i = 0
  BY <1>1 DEF Entry, TypeOK
<1>2. CASE i # 0
  <2>1. i - 1 \in 0 .. ETH_TX_DESC_CNT
    BY <1>2, CountType
  <2>2. INCR_TX_DESC_INDEX(dma, i - 1) \in Descs
    BY <2>1, Incr DEF TypeOK
  <2> QED
    BY <1>2, <2>2 DEF Entry, TypeOK
<1> QED
  BY <1>1, <1>2

\* The call begins.
LEMMA OutputStepRing ==
  ASSUME RingInv, TypeOK', ~ raced', NEW c \in Contexts, NEW chain, low_level_output(c, chain)
  PROVE  (OneSender /\ RingInStep /\ InOrder)'
<1>1. /\ Idle(c) /\ ~ raced /\ \A o \in Contexts \ {c} : Idle(o)
  BY DEF low_level_output, At, Idle
<1>2. /\ frames' = frames + 1 /\ TxConfig'.num = frames' /\ TxConfig'.by = c
      /\ pc' = [pc EXCEPT ![c] = "transmit"]
      /\ UNCHANGED <<own, DMATxDscrTab, CurTxDesc, dma, kicked, wire, txbuffer, firstdescidx, descnbr>>
  BY DEF low_level_output, Goto, ring, local
<1>3. /\ \A o \in Contexts : pc[o] = "idle"
      /\ pc'[c] = "transmit" /\ \A o \in Contexts \ {c} : pc'[o] = "idle"
  BY <1>1, <1>2 DEF RingInv, TypeOK, Idle
<1>4. Filled = 0 /\ Filled' = 0
  BY <1>3 DEF Filled, Contexts
<1>5. kicked \in Nat /\ kicked <= ETH_TX_DESC_CNT /\ frames \in Nat
  BY CountType DEF RingInv, TypeOK
<1>6. OneSender'
  BY <1>2, <1>3, <1>4, <1>5 DEF OneSender, Idle, Filling, Contexts
<1>7. RingInStep'
  BY <1>1, <1>2, <1>4 DEF RingInv, RingInStep
<1>8. \A i : Entry(i)' = Entry(i)
  BY <1>2 DEF Entry
<1>9. Entry(kicked) \in Parts
  BY EntryType DEF RingInv, TypeOK
<1>10. InOrder'
  <2>1. \A i \in 0 .. (kicked - 1) : Follows(Entry(i), Entry(i + 1))
    BY <1>1, <1>4, <1>5 DEF RingInv, InOrder
  <2>2. \A i \in 0 .. (kicked' + Filled' - 1) : Follows(Entry(i)', Entry(i + 1)')
    BY <1>2, <1>4, <1>5, <1>8, <2>1
  <2>3. Entry(kicked).part = Entry(kicked).size /\ Entry(kicked).num <= frames
    BY <1>1 DEF RingInv, InOrder
  <2>4. Entry(kicked)' = Entry(kicked)
    BY <1>2 DEF Entry
  <2>5. Entry(kicked)'.part = Entry(kicked)'.size /\ Entry(kicked)'.num <= frames' /\ Entry(kicked)'.num < frames'
    BY <1>2, <1>5, <1>9, <2>3, <2>4 DEF Parts
  <2>6. \A o \in Contexts : ~ (pc'[o] \in {"fill", "commit"})
    BY <1>3
  <2> QED
    BY <2>2, <2>5, <2>6 DEF InOrder, Filling
<1> QED
  BY <1>6, <1>7, <1>10

\* The frame is dropped.
LEMMA RefusedRing ==
  ASSUME RingInv, ~ raced', NEW c \in Contexts, Transmit_Refused(c)
  PROVE  (OneSender /\ RingInStep /\ InOrder)'
<1>1. /\ pc[c] = "transmit" /\ pc' = [pc EXCEPT ![c] = "idle"] /\ ~ raced /\ ~ Idle(c)
      /\ UNCHANGED <<own, DMATxDscrTab, CurTxDesc, dma, kicked, wire, TxConfig, txbuffer, firstdescidx, descnbr, frames>>
  BY DEF Transmit_Refused, At, Goto, Idle, ring, local
<1>2. \A o \in Contexts : pc'[o] = "idle"
  BY <1>1, Alone DEF RingInv, TypeOK, Idle
<1>3. Filled = 0 /\ Filled' = 0
  BY <1>1, <1>2, Alone DEF RingInv, Filled, Filling, Contexts
<1>4. kicked \in Nat /\ kicked <= ETH_TX_DESC_CNT
  BY CountType DEF RingInv, TypeOK
<1>5. OneSender'
  BY <1>1, <1>2, <1>3, <1>4 DEF OneSender, Idle, Filling, Contexts
<1>6. RingInStep'
  BY <1>1, <1>3 DEF RingInv, RingInStep
<1>7. (\A i : Entry(i)' = Entry(i)) /\ Entry(kicked)' = Entry(kicked)
  BY <1>1 DEF Entry
<1>8. InOrder'
  <2>1. \A o \in Contexts : Idle(o)' /\ ~ Filling(o)'
    BY <1>2 DEF Idle, Filling
  <2> QED
    BY <1>1, <1>3, <1>7, <2>1 DEF RingInv, InOrder
<1> QED
  BY <1>5, <1>6, <1>8

\* The current descriptor is free, so the ring is not full.
LEMMA TransmitRing ==
  ASSUME RingInv, ~ raced', NEW c \in Contexts, Transmit(c)
  PROVE  (OneSender /\ RingInStep /\ InOrder)'
<1>1. /\ pc[c] = "transmit" /\ pc' = [pc EXCEPT ![c] = "fill"] /\ ~ raced /\ ~ Idle(c) /\ ~ own[CurTxDesc]
      /\ firstdescidx' = [firstdescidx EXCEPT ![c] = CurTxDesc]
      /\ descnbr' = [descnbr EXCEPT ![c] = 0]
      /\ UNCHANGED <<own, DMATxDscrTab, CurTxDesc, dma, kicked, wire, TxConfig, frames>>
  BY DEF Transmit, At, Goto, Idle, ring
<1>2. pc'[c] = "fill" /\ descnbr'[c] = 0 /\ firstdescidx'[c] = CurTxDesc
      /\ \A o \in Contexts \ {c} : pc'[o] = "idle"
  BY <1>1, Alone DEF RingInv, TypeOK, Idle
<1>3. Filled = 0 /\ Filled' = 0
  <2>1. Filled = 0
    BY <1>1, Alone DEF RingInv, Filling
  <2> QED
    BY <1>2, <2>1 DEF Filled, Contexts
<1>4. kicked \in Nat /\ kicked <= ETH_TX_DESC_CNT /\ dma \in Descs
  BY CountType DEF RingInv, TypeOK
<1>5. kicked < ETH_TX_DESC_CNT
  <2> SUFFICES ASSUME kicked = ETH_TX_DESC_CNT PROVE FALSE
    BY <1>4, CountType
  <2>1. CurTxDesc = dma /\ INCR_TX_DESC_INDEX(dma, 0) = dma
    BY <1>1, <1>4, Incr, CountType DEF RingInv, RingInStep, Descs
  <2>2. 0 \in Descs /\ 0 < kicked + Filled
    BY <1>3, CountType DEF Descs
  <2> QED
    BY <1>1, <2>1, <2>2 DEF RingInv, RingInStep
<1>6. txbuffer'[c].num = frames /\ txbuffer'[c].size \in Nat \ {0}
  <2>1. TxBuffers(c) = {[num |-> TxConfig.num, size |-> TxConfig.size]} /\ TxConfig.num = frames
    BY <1>1, Alone DEF RingInv, TxBuffers
  <2>2. txbuffer' = [txbuffer EXCEPT ![c] = [num |-> TxConfig.num, size |-> TxConfig.size]]
    BY <2>1 DEF Transmit
  <2> QED
    BY <2>1, <2>2 DEF RingInv, TypeOK
<1>7. OneSender'
  BY <1>1, <1>2, <1>3, <1>4, <1>5, <1>6 DEF OneSender, Idle, Filling, Contexts
<1>8. RingInStep'
  BY <1>1, <1>3 DEF RingInv, RingInStep
<1>9. (\A i : Entry(i)' = Entry(i)) /\ Entry(kicked)' = Entry(kicked)
  BY <1>1 DEF Entry
<1>10. InOrder'
  <2>1. \A o \in Contexts : Idle(o)' <=> o # c
    BY <1>2 DEF Idle
  <2>2. Filling(c)' /\ \A o \in Contexts \ {c} : ~ Filling(o)'
    BY <1>2 DEF Filling
  <2>3. 1 .. descnbr'[c] = {}
    BY <1>2
  <2> QED
    BY <1>1, <1>3, <1>9, <2>1, <2>2, <2>3 DEF RingInv, InOrder
<1> QED
  BY <1>7, <1>8, <1>10

\* Steps that leave the ring and the calls alone.
LEMMA QuietRing ==
  ASSUME RingInv, UNCHANGED <<ring, call>>
  PROVE  (OneSender /\ RingInStep /\ InOrder)'
<1>1. UNCHANGED <<own, DMATxDscrTab, CurTxDesc, dma, kicked, wire, TxConfig, pc, txbuffer, firstdescidx, descnbr,
                  frames, raced>>
  BY DEF ring, call, local
<1>2. Filled' = Filled
  BY <1>1 DEF Filled
<1>3. (\A i : Entry(i)' = Entry(i)) /\ Entry(kicked)' = Entry(kicked)
      /\ \A i : Entry(kicked + i)' = Entry(kicked + i)
  BY <1>1 DEF Entry
<1>4. OneSender'
  BY <1>1, <1>2 DEF RingInv, OneSender, Idle, Filling
<1>5. RingInStep'
  BY <1>1, <1>2 DEF RingInv, RingInStep
<1>6. InOrder'
  BY <1>1, <1>2, <1>3 DEF RingInv, InOrder, Idle, Filling
<1> QED
  BY <1>4, <1>5, <1>6

\* The descriptor a context fills next comes after all those that are taken, and
\* is free.
LEMMA NextFree ==
  ASSUME RingInv, ~ raced, NEW c \in Contexts, pc[c] = "fill", descnbr[c] = 0 \/ ~ own[NextDesc(c)]
  PROVE  /\ kicked + descnbr[c] < ETH_TX_DESC_CNT
         /\ NextDesc(c) = INCR_TX_DESC_INDEX(dma, kicked + descnbr[c])
<1>1. /\ kicked \in Nat /\ descnbr[c] \in Nat /\ kicked + descnbr[c] <= ETH_TX_DESC_CNT /\ dma \in Descs
      /\ Filled = descnbr[c] /\ ETH_TX_DESC_CNT \in Nat /\ ETH_TX_DESC_CNT > 0
      /\ firstdescidx[c] = CurTxDesc /\ (descnbr[c] = 0 => kicked < ETH_TX_DESC_CNT)
  BY Alone, CountType DEF RingInv, TypeOK, Idle, Filling
<1>2. NextDesc(c) = INCR_TX_DESC_INDEX(dma, kicked + descnbr[c])
  BY <1>1, IncrTwice DEF NextDesc, RingInv, RingInStep
<1>3. kicked + descnbr[c] < ETH_TX_DESC_CNT
  <2> SUFFICES ASSUME kicked + descnbr[c] = ETH_TX_DESC_CNT, descnbr[c] # 0 PROVE FALSE
    BY <1>1
  <2>1. NextDesc(c) = dma /\ INCR_TX_DESC_INDEX(dma, 0) = dma
    BY <1>1, <1>2, Incr DEF Descs
  <2>2. 0 \in Descs /\ 0 < kicked + Filled
    BY <1>1 DEF Descs
  <2> QED
    BY <2>1, <2>2 DEF RingInv, RingInStep
<1> QED
  BY <1>2, <1>3

\* Filling the next free descriptor keeps the ring in step.
LEMMA FillRing ==
  ASSUME RingInv, ~ raced', NEW c \in Contexts, FillDesc(c)
  PROVE  (OneSender /\ RingInStep /\ InOrder)'
<1> DEFINE m == descnbr[c]
           d == NextDesc(c)
           new == [num |-> txbuffer[c].num, size |-> txbuffer[c].size, part |-> m + 1]
<1>1. /\ pc[c] = "fill" /\ ~ raced /\ ~ Idle(c) /\ Filling(c) /\ (descnbr[c] = 0 \/ ~ own[NextDesc(c)])
      /\ DMATxDscrTab' = [DMATxDscrTab EXCEPT ![d] = new]
      /\ own' = [own EXCEPT ![d] = TRUE]
      /\ descnbr' = [descnbr EXCEPT ![c] = @ + 1]
      /\ pc' = [pc EXCEPT ![c] = IF m + 1 = txbuffer[c].size THEN "commit" ELSE "fill"]
      /\ UNCHANGED <<CurTxDesc, dma, kicked, wire, TxConfig, txbuffer, firstdescidx, frames>>
  BY DEF FillDesc, At, Goto, Idle, Filling
<1>2. /\ kicked \in Nat /\ m \in Nat /\ kicked + m < ETH_TX_DESC_CNT /\ dma \in Descs /\ Filled = m
      /\ ETH_TX_DESC_CNT \in Nat /\ frames \in Nat
      /\ d = INCR_TX_DESC_INDEX(dma, kicked + m) /\ firstdescidx[c] = CurTxDesc /\ txbuffer[c].num = frames
      /\ txbuffer[c].size \in Nat /\ m < txbuffer[c].size
  BY <1>1, Alone, NextFree, CountType DEF RingInv, TypeOK
<1>3. kicked + m \in Descs /\ d \in Descs
  BY <1>2, Incr DEF Descs
<1>4. /\ pc'[c] \in {"fill", "commit"} /\ (pc'[c] = "commit" <=> m + 1 = txbuffer[c].size) /\ descnbr'[c] = m + 1
      /\ \A o \in Contexts \ {c} : pc[o] = "idle" /\ pc'[o] = "idle"
  BY <1>1, Alone DEF RingInv, TypeOK, Idle
<1>5. Filled' = m + 1
  BY <1>2, <1>4 DEF Filled, Contexts
<1> HIDE DEF d, m
<1>6. OneSender'
  <2>1. kicked' + Filled' <= ETH_TX_DESC_CNT
    BY <1>1, <1>2, <1>5
  <2>2. \A o \in Contexts : o # c => Idle(o)' /\ ~ Filling(o)'
    BY <1>4 DEF Idle, Filling
  <2>3. /\ firstdescidx'[c] = CurTxDesc' /\ txbuffer'[c].num = frames' /\ pc'[c] # "transmit"
        /\ pc'[c] = "fill" => descnbr'[c] < txbuffer'[c].size
        /\ descnbr'[c] # 0
        /\ pc'[c] = "commit" => descnbr'[c] = txbuffer'[c].size
    BY <1>1, <1>2, <1>4
  <2> QED
    BY <2>1, <2>2, <2>3 DEF OneSender, Idle, Contexts
<1>7. RingInStep'
  <2>1. \A i \in Descs : INCR_TX_DESC_INDEX(dma, i) \in Descs /\ (INCR_TX_DESC_INDEX(dma, i) = d <=> i = kicked + m)
    <3>1. \A i \in Descs : INCR_TX_DESC_INDEX(dma, i) \in Descs
      BY <1>2, Incr DEF Descs
    <3>2. \A i \in Descs : INCR_TX_DESC_INDEX(dma, i) = d => i = kicked + m
      BY <1>2, <1>3, IncrDistinct
    <3> QED
      BY <1>2, <3>1, <3>2
  <2>2. \A i \in Descs : own'[INCR_TX_DESC_INDEX(dma, i)] <=> (i = kicked + m \/ own[INCR_TX_DESC_INDEX(dma, i)])
    BY <1>1, <2>1 DEF RingInv, TypeOK
  <2>3. \A i \in Descs : own[INCR_TX_DESC_INDEX(dma, i)] <=> i < kicked + m
    BY <1>1, <1>2 DEF RingInv, RingInStep
  <2>4. \A i \in Descs : own'[INCR_TX_DESC_INDEX(dma, i)] <=> i < kicked + (m + 1)
    BY <1>2, <2>2, <2>3 DEF Descs
  <2> QED
    BY <1>1, <1>5, <2>4 DEF RingInv, RingInStep
<1>8. InOrder'
  <2>1. ASSUME NEW i \in 0 .. (kicked + m)
        PROVE  Entry(i)' = Entry(i)
    <3>1. CASE i = 0
      BY <1>1, <3>1 DEF Entry
    <3>2. CASE i # 0
      <4>1. i - 1 \in Descs /\ i - 1 # kicked + m
        BY <1>2, <3>2 DEF Descs
      <4>2. INCR_TX_DESC_INDEX(dma, i - 1) # d
        BY <1>2, <1>3, <4>1, IncrDistinct
      <4> QED
        BY <1>1, <3>2, <4>2 DEF Entry, RingInv, TypeOK
    <3> QED
      BY <3>1, <3>2
  <2>2. ASSUME NEW i, i = kicked + m + 1
        PROVE  Entry(i)' = new
    <3>1. i # 0 /\ i - 1 = kicked + m
      BY <1>2, <2>2
    <3>2. DMATxDscrTab'[d] = new
      BY <1>1, <1>3 DEF RingInv, TypeOK
    <3> QED
      BY <1>1, <1>2, <3>1, <3>2 DEF Entry
  <2> HIDE DEF new
  <2>3. Entry(kicked)' = Entry(kicked)
    <3>1. kicked' = kicked /\ kicked \in 0 .. (kicked + m)
      BY <1>1, <1>2
    <3>2. \A i : i = kicked => Entry(i)' = Entry(i)
      BY <2>1, <3>1
    <3>3. \A i : i = kicked' => Entry(i)' = Entry(kicked)'
      BY DEF Entry
    <3> QED
      BY <3>1, <3>2, <3>3
  <2>4. /\ \A i \in 0 .. (kicked + m - 1) : Follows(Entry(i), Entry(i + 1))
        /\ Entry(kicked).part = Entry(kicked).size /\ Entry(kicked).num < frames /\ Entry(kicked).num <= frames
        /\ \A i \in 1 .. m : Entry(kicked + i) = [num |-> txbuffer[c].num, size |-> txbuffer[c].size, part |-> i]
    BY <1>1, <1>2 DEF RingInv, InOrder, m
  <2>5. Follows(Entry(kicked + m), new)
    <3>1. CASE m = 0
      <4>1. kicked + m = kicked
        BY <1>2, <3>1
      <4>2. new.part = 1 /\ new.num = frames /\ Entry(kicked).num \in Nat
        BY <1>2, <3>1, EntryType DEF new, RingInv, TypeOK, Parts
      <4> QED
        BY <1>2, <2>4, <4>1, <4>2 DEF Follows
    <3>2. CASE m # 0
      <4>1. Entry(kicked + m) = [num |-> txbuffer[c].num, size |-> txbuffer[c].size, part |-> m]
        BY <1>2, <2>4, <3>2
      <4>2. new = [Entry(kicked + m) EXCEPT !.part = @ + 1]
        BY <4>1 DEF new
      <4> QED
        BY <4>2 DEF Follows
    <3> QED
      BY <3>1, <3>2
  <2>6. ASSUME NEW i \in 0 .. (kicked' + Filled' - 1)
        PROVE  Follows(Entry(i)', Entry(i + 1)')
    <3>1. i \in 0 .. (kicked + m)
      BY <1>1, <1>2, <1>5
    <3>2. CASE i = kicked + m
      <4>1. Entry(i)' = Entry(kicked + m)
        BY <2>1, <3>1, <3>2
      <4>2. Entry(i + 1)' = new
        BY <2>2, <3>2
      <4> QED
        BY <2>5, <4>1, <4>2
    <3>3. CASE i # kicked + m
      <4>1. i \in 0 .. (kicked + m - 1) /\ i + 1 \in 0 .. (kicked + m)
        BY <1>2, <3>1, <3>3
      <4> QED
        BY <2>1, <2>4, <3>1, <4>1
    <3> QED
      BY <3>2, <3>3
  <2>7. ASSUME NEW i \in 1 .. descnbr'[c]
        PROVE  Entry(kicked + i)' = [num |-> txbuffer'[c].num, size |-> txbuffer'[c].size, part |-> i]
    <3>0. UNCHANGED <<kicked, txbuffer>> /\ i \in 1 .. (m + 1)
      BY <1>1, <1>4
    <3>1. \A k : k = kicked' + i => Entry(k)' = Entry(kicked + i)'
      BY DEF Entry
    <3>2. CASE i = m + 1
      <4>1. \A k : k = kicked + i => Entry(k)' = new
        BY <1>2, <2>2, <3>2
      <4> QED
        BY <3>0, <3>1, <3>2, <4>1 DEF new
    <3>3. CASE i # m + 1
      <4>1. kicked + i \in 0 .. (kicked + m) /\ i \in 1 .. m
        BY <1>2, <3>0, <3>3
      <4>2. \A k : k = kicked + i => Entry(k)' = Entry(k)
        BY <2>1, <4>1
      <4>3. Entry(kicked + i) = [num |-> txbuffer[c].num, size |-> txbuffer[c].size, part |-> i]
        BY <2>4, <4>1
      <4> QED
        BY <3>0, <3>1, <4>2, <4>3
    <3> QED
      BY <3>2, <3>3
  <2>8. \A o \in Contexts : o # c => Idle(o)' /\ ~ Filling(o)'
    BY <1>4 DEF Idle, Filling
  <2>9. Entry(kicked)'.part = Entry(kicked)'.size /\ Entry(kicked)'.num < frames' /\ Entry(kicked)'.num <= frames'
    BY <1>1, <2>3, <2>4
  <2> QED
    BY <2>6, <2>7, <2>8, <2>9 DEF InOrder
<1> QED
  BY <1>6, <1>7, <1>8

\* The context gives back what it filled.
LEMMA RollbackRing ==
  ASSUME RingInv, ~ raced', NEW c \in Contexts, Rollback(c)
  PROVE  (OneSender /\ RingInStep /\ InOrder)'
<1> DEFINE m == descnbr[c]
<1>1. /\ pc[c] = "fill" /\ ~ raced /\ ~ Idle(c) /\ Filling(c)
      /\ own' = [d \in Descs |-> own[d] /\ \A i \in 0 .. (m - 1) : d # INCR_TX_DESC_INDEX(firstdescidx[c], i)]
      /\ pc' = [pc EXCEPT ![c] = "idle"]
      /\ UNCHANGED <<DMATxDscrTab, CurTxDesc, dma, kicked, wire, TxConfig, frames>>
  BY DEF Rollback, Return, At, Goto, Idle, Filling
<1>2. /\ kicked \in Nat /\ m \in Nat /\ kicked + m <= ETH_TX_DESC_CNT /\ dma \in Descs /\ Filled = m
      /\ ETH_TX_DESC_CNT \in Nat /\ firstdescidx[c] = INCR_TX_DESC_INDEX(dma, kicked)
  BY <1>1, Alone, CountType DEF RingInv, TypeOK, RingInStep
<1>3. \A o \in Contexts : pc'[o] = "idle"
  BY <1>1, Alone DEF RingInv, TypeOK, Idle
<1>4. Filled' = 0
  BY <1>3 DEF Filled, Contexts
<1> HIDE DEF m
<1>5. OneSender'
  BY <1>1, <1>2, <1>3, <1>4 DEF OneSender, Idle, Filling, Contexts
<1>6. RingInStep'
  <2>1. ASSUME NEW i \in Descs
        PROVE  own'[INCR_TX_DESC_INDEX(dma, i)] <=> i < kicked
    <3> DEFINE d == INCR_TX_DESC_INDEX(dma, i)
    <3>1. d \in Descs /\ i \in Nat /\ i < ETH_TX_DESC_CNT
      BY <1>2, Incr DEF Descs
    <3>2. own[d] <=> i < kicked + m
      BY <1>1, <1>2 DEF RingInv, RingInStep
    <3>3. ASSUME NEW k \in 0 .. (m - 1)
          PROVE  d = INCR_TX_DESC_INDEX(firstdescidx[c], k) <=> i = kicked + k
      <4>1. kicked + k \in Descs /\ k \in Nat /\ kicked + k <= ETH_TX_DESC_CNT
        BY <1>2 DEF Descs
      <4>2. INCR_TX_DESC_INDEX(firstdescidx[c], k) = INCR_TX_DESC_INDEX(dma, kicked + k)
        BY <1>2, <4>1, IncrTwice
      <4> QED
        BY <1>2, <4>1, <4>2, IncrDistinct
    <3> HIDE DEF d
    <3>4. own'[d] <=> own[d] /\ \A k \in 0 .. (m - 1) : d # INCR_TX_DESC_INDEX(firstdescidx[c], k)
      BY <1>1, <3>1
    <3>5. own'[d] <=> i < kicked + m /\ \A k \in 0 .. (m - 1) : i # kicked + k
      BY <3>2, <3>3, <3>4
    <3>6. CASE i < kicked + m /\ ~ (i < kicked)
      <4>1. i - kicked \in 0 .. (m - 1) /\ i = kicked + (i - kicked)
        BY <1>2, <3>1, <3>6
      <4> QED
        BY <3>5, <3>6, <4>1 DEF d
    <3>7. CASE ~ (i < kicked + m) \/ i < kicked
      <4>1. i < kicked => i < kicked + m /\ \A k \in 0 .. (m - 1) : i # kicked + k
        BY <1>2, <3>1
      <4> QED
        BY <1>2, <3>1, <3>5, <3>7, <4>1 DEF d
    <3> QED
      BY <3>6, <3>7
  <2> QED
    BY <1>1, <1>2, <1>4, <2>1 DEF RingInv, RingInStep
<1>7. (\A i : Entry(i)' = Entry(i)) /\ Entry(kicked)' = Entry(kicked)
  BY <1>1 DEF Entry
<1>8. InOrder'
  <2>1. \A o \in Contexts : Idle(o)' /\ ~ Filling(o)'
    BY <1>3 DEF Idle, Filling
  <2>2. \A i \in 0 .. (kicked' + Filled' - 1) : i \in 0 .. (kicked + Filled - 1)
    BY <1>1, <1>2, <1>4
  <2> QED
    BY <1>1, <1>7, <2>1, <2>2 DEF RingInv, InOrder
<1> QED
  BY <1>5, <1>6, <1>8

\* The context hands what it filled to the DMA.
LEMMA CommitRing ==
  ASSUME RingInv, ~ raced', NEW c \in Contexts, Commit(c)
  PROVE  (OneSender /\ RingInStep /\ InOrder)'
<1> DEFINE m == descnbr[c]
           tail == INCR_TX_DESC_INDEX(firstdescidx[c], m)
           n == (tail - dma) % ETH_TX_DESC_CNT
<1>1. /\ pc[c] = "commit" /\ ~ raced /\ ~ Idle(c) /\ Filling(c)
      /\ CurTxDesc' = tail /\ kicked' = IF n = 0 THEN ETH_TX_DESC_CNT ELSE n
      /\ pc' = [pc EXCEPT ![c] = "idle"]
      /\ UNCHANGED <<own, DMATxDscrTab, dma, wire, TxConfig, frames>>
  BY DEF Commit, Return, At, Goto, Idle, Filling
<1>2. /\ kicked \in Nat /\ m \in Nat /\ m > 0 /\ kicked + m <= ETH_TX_DESC_CNT /\ dma \in Descs /\ Filled = m
      /\ ETH_TX_DESC_CNT \in Nat /\ firstdescidx[c] = INCR_TX_DESC_INDEX(dma, kicked)
      /\ m = txbuffer[c].size /\ txbuffer[c].num = frames /\ frames \in Nat
  BY <1>1, Alone, CountType DEF RingInv, TypeOK, RingInStep
<1>3. \A o \in Contexts : pc'[o] = "idle"
  BY <1>1, Alone DEF RingInv, TypeOK, Idle
<1>4. Filled' = 0
  BY <1>3 DEF Filled, Contexts
<1> HIDE DEF m
<1>5. tail = INCR_TX_DESC_INDEX(dma, kicked + m)
  BY <1>2, IncrTwice
<1>6. kicked' = kicked + m
  <2>1. kicked + m \in 1 .. ETH_TX_DESC_CNT
    BY <1>2
  <2>2. n = IF kicked + m = ETH_TX_DESC_CNT THEN 0 ELSE kicked + m
    BY <1>2, <1>5, <2>1, Distance
  <2> HIDE DEF n
  <2> QED
    BY <1>1, <1>2, <2>1, <2>2
<1> HIDE DEF tail, n
<1>7. OneSender'
  BY <1>1, <1>2, <1>3, <1>4, <1>6 DEF OneSender, Idle, Filling, Contexts
<1>8. RingInStep'
  BY <1>1, <1>2, <1>4, <1>5, <1>6 DEF RingInv, RingInStep
<1>9. \A i : Entry(i)' = Entry(i)
  BY <1>1 DEF Entry
<1>10. InOrder'
  <2>1. \A o \in Contexts : Idle(o)' /\ ~ Filling(o)'
    BY <1>3 DEF Idle, Filling
  <2>2. \A i \in 0 .. (kicked' + Filled' - 1) : Follows(Entry(i)', Entry(i + 1)')
    <3>1. \A i \in 0 .. (kicked' + Filled' - 1) : i \in 0 .. (kicked + Filled - 1)
      BY <1>1, <1>2, <1>4, <1>6
    <3> QED
      BY <1>1, <1>9, <3>1 DEF RingInv, InOrder
  <2>3. Entry(kicked + m) = [num |-> frames, size |-> txbuffer[c].size, part |-> m]
    BY <1>1, <1>2 DEF RingInv, InOrder, m
  <2>4. Entry(kicked)' = Entry(kicked + m)
    <3>1. \A i : i = kicked' => Entry(i)' = Entry(kicked)'
      BY DEF Entry
    <3> QED
      BY <1>6, <1>9, <3>1
  <2>5. Entry(kicked)'.part = Entry(kicked)'.size /\ Entry(kicked)'.num <= frames'
    BY <1>1, <1>2, <2>3, <2>4
  <2> QED
    BY <2>1, <2>2, <2>5 DEF InOrder
<1> QED
  BY <1>7, <1>8, <1>10

\* The DMA goes on by one descriptor, and every entry moves up.
LEMMA SendEntries ==
  ASSUME RingInv, ~ raced, Send, NEW i \in 0 .. (kicked + Filled - 1)
  PROVE  Entry(i)' = Entry(i + 1)
<1>1. /\ wire' = DMATxDscrTab[dma]
      /\ DMATxDscrTab' = [DMATxDscrTab EXCEPT ![dma] = NoPart]
      /\ dma' = INCR_TX_DESC_INDEX(dma, 1)
  BY DEF Send
<1>2. /\ dma \in Descs /\ kicked \in Nat /\ Filled \in Nat /\ kicked + Filled <= ETH_TX_DESC_CNT
      /\ ETH_TX_DESC_CNT \in Nat /\ ETH_TX_DESC_CNT > 0 /\ i \in Nat /\ i < ETH_TX_DESC_CNT
  BY FilledType, CountType DEF RingInv, TypeOK, OneSender
<1>3. INCR_TX_DESC_INDEX(dma, 0) = dma /\ 0 \in Descs
  BY <1>2, Incr DEF Descs
<1>4. CASE i = 0
  BY <1>1, <1>3, <1>4 DEF Entry
<1>5. CASE i # 0
  <2>1. INCR_TX_DESC_INDEX(dma', i - 1) = INCR_TX_DESC_INDEX(dma, i)
    <3>1. i - 1 \in Nat /\ 1 + (i - 1) = i
      BY <1>2, <1>5
    <3> QED
      BY <1>1, <1>2, <3>1, IncrTwice
  <2>2. i \in Descs
    BY <1>2 DEF Descs
  <2>3. INCR_TX_DESC_INDEX(dma, i) \in Descs /\ INCR_TX_DESC_INDEX(dma, i) # dma
    BY <1>2, <1>3, <1>5, <2>2, Incr, IncrDistinct
  <2>4. DMATxDscrTab'[INCR_TX_DESC_INDEX(dma, i)] = DMATxDscrTab[INCR_TX_DESC_INDEX(dma, i)]
    BY <1>1, <2>3 DEF RingInv, TypeOK
  <2>5. i + 1 # 0 /\ (i + 1) - 1 = i
    BY <1>2
  <2> QED
    BY <1>5, <2>1, <2>4, <2>5 DEF Entry
<1> QED
  BY <1>4, <1>5

\* Sending the oldest descriptor keeps the ring in step.
LEMMA SendRing ==
  ASSUME RingInv, ~ raced', Send
  PROVE  (OneSender /\ RingInStep /\ InOrder)'
<1>1. /\ kicked > 0 /\ kicked' = kicked - 1
      /\ own' = [own EXCEPT ![dma] = FALSE]
      /\ dma' = INCR_TX_DESC_INDEX(dma, 1)
      /\ UNCHANGED <<CurTxDesc, TxConfig, pc, txbuffer, firstdescidx, descnbr, frames, raced>>
  BY DEF Send, call, local
<1>2. /\ dma \in Descs /\ kicked \in Nat /\ Filled \in Nat /\ kicked + Filled <= ETH_TX_DESC_CNT
      /\ ETH_TX_DESC_CNT \in Nat /\ ETH_TX_DESC_CNT > 0 /\ ~ raced
  BY <1>1, FilledType, CountType DEF RingInv, TypeOK, OneSender
<1>3. Filled' = Filled
  BY <1>1 DEF Filled
<1>4. INCR_TX_DESC_INDEX(dma, 0) = dma /\ 0 \in Descs
  BY <1>2, Incr DEF Descs
<1>5. OneSender'
  <2>1. kicked' + Filled' <= ETH_TX_DESC_CNT /\ (kicked < ETH_TX_DESC_CNT => kicked' < ETH_TX_DESC_CNT)
    BY <1>1, <1>2, <1>3
  <2> QED
    BY <1>1, <1>2, <2>1 DEF RingInv, OneSender, Idle, Filling
<1>6. RingInStep'
  <2>1. ASSUME NEW i \in Descs
        PROVE  own'[INCR_TX_DESC_INDEX(dma', i)] <=> i < kicked' + Filled'
    <3>1. /\ i \in Nat /\ i < ETH_TX_DESC_CNT
      BY <1>2 DEF Descs
    <3>2. INCR_TX_DESC_INDEX(dma', i) = INCR_TX_DESC_INDEX(dma, 1 + i)
      BY <1>1, <1>2, <3>1, IncrTwice
    <3>3. CASE i + 1 = ETH_TX_DESC_CNT
      <4>1. INCR_TX_DESC_INDEX(dma, 1 + i) = dma
        BY <1>2, <3>1, <3>3, Incr DEF Descs
      <4>2. ~ own'[dma]
        BY <1>1, <1>2 DEF RingInv, TypeOK
      <4>3. ~ (i < kicked' + Filled')
        BY <1>1, <1>2, <1>3, <3>1, <3>3
      <4> QED
        BY <3>2, <4>1, <4>2, <4>3
    <3>4. CASE i + 1 # ETH_TX_DESC_CNT
      <4>1. 1 + i \in Descs /\ 1 + i # 0
        BY <1>2, <3>1, <3>4 DEF Descs
      <4>2. INCR_TX_DESC_INDEX(dma, 1 + i) \in Descs /\ INCR_TX_DESC_INDEX(dma, 1 + i) # dma
        <5>1. 1 + i \in 0 .. ETH_TX_DESC_CNT
          BY <1>2, <3>1
        <5>2. INCR_TX_DESC_INDEX(dma, 1 + i) \in Descs
          BY <1>2, <5>1, Incr
        <5> QED
          BY <1>2, <1>4, <4>1, <5>2, IncrDistinct
      <4>3. own'[INCR_TX_DESC_INDEX(dma, 1 + i)] = own[INCR_TX_DESC_INDEX(dma, 1 + i)]
        BY <1>1, <4>2 DEF RingInv, TypeOK
      <4>4. own[INCR_TX_DESC_INDEX(dma, 1 + i)] <=> 1 + i < kicked + Filled
        BY <1>2, <4>1 DEF RingInv, RingInStep
      <4>5. 1 + i < kicked + Filled <=> i < kicked' + Filled'
        BY <1>1, <1>2, <1>3, <3>1
      <4> QED
        BY <3>2, <4>3, <4>4, <4>5
    <3> QED
      BY <3>3, <3>4
  <2>2. CurTxDesc' = INCR_TX_DESC_INDEX(dma', kicked')
    <3>1. kicked' \in Nat /\ 1 + kicked' = kicked /\ kicked <= ETH_TX_DESC_CNT
      BY <1>1, <1>2
    <3>2. INCR_TX_DESC_INDEX(dma', kicked') = INCR_TX_DESC_INDEX(dma, kicked)
      BY <1>1, <1>2, <3>1, IncrTwice
    <3> QED
      BY <1>1, <1>2, <3>2 DEF RingInv, RingInStep
  <2> QED
    BY <2>1, <2>2 DEF RingInStep
<1>7. InOrder'
  <2>1. ASSUME NEW i \in 0 .. (kicked' + Filled' - 1)
        PROVE  Follows(Entry(i)', Entry(i + 1)')
    <3>1. i \in 0 .. (kicked + Filled - 1) /\ i + 1 \in 0 .. (kicked + Filled - 1)
      BY <1>1, <1>2, <1>3
    <3>2. Entry(i)' = Entry(i + 1) /\ Entry(i + 1)' = Entry(i + 1 + 1)
      BY <1>2, <3>1, SendEntries
    <3>3. Follows(Entry(i + 1), Entry(i + 1 + 1))
      BY <1>2, <3>1 DEF RingInv, InOrder
    <3> QED
      BY <3>2, <3>3
  <2>2. Entry(kicked)' = Entry(kicked)
    <3>1. \A i : i = kicked' => Entry(i)' = Entry(kicked)'
      BY DEF Entry
    <3>2. kicked' \in 0 .. (kicked + Filled - 1) /\ kicked' + 1 = kicked
      BY <1>1, <1>2
    <3>3. \A i : i = kicked' => Entry(i)' = Entry(kicked)
      BY <1>2, <3>2, SendEntries
    <3> QED
      BY <3>1, <3>3
  <2>3. /\ Entry(kicked)'.part = Entry(kicked)'.size /\ Entry(kicked)'.num <= frames'
        /\ \A c \in Contexts : ~ Idle(c)' => Entry(kicked)'.num < frames'
    BY <1>1, <1>2, <2>2 DEF RingInv, InOrder, Idle
  <2>4. ASSUME NEW c \in Contexts, Filling(c)', NEW i \in 1 .. descnbr'[c]
        PROVE  Entry(kicked + i)' = [num |-> txbuffer'[c].num, size |-> txbuffer'[c].size, part |-> i]
    <3>1. Filling(c) /\ ~ Idle(c) /\ i \in 1 .. descnbr[c]
      BY <1>1, <2>4 DEF Filling, Idle
    <3>2. Filled = descnbr[c]
      BY <1>2, <3>1, Alone DEF RingInv
    <3>3. kicked' + i \in 0 .. (kicked + Filled - 1) /\ kicked' + i + 1 = kicked + i
      BY <1>1, <1>2, <3>1, <3>2
    <3>4. \A k : k = kicked' + i => Entry(k)' = Entry(kicked + i)'
      BY DEF Entry
    <3>5. \A k : k = kicked' + i => Entry(k)' = Entry(kicked + i)
      BY <1>2, <3>3, SendEntries
    <3>6. Entry(kicked + i) = [num |-> txbuffer[c].num, size |-> txbuffer[c].size, part |-> i]
      BY <1>2, <3>1 DEF RingInv, InOrder
    <3> QED
      BY <1>1, <3>4, <3>5, <3>6
  <2> QED
    BY <2>1, <2>3, <2>4 DEF InOrder
<1> QED
  BY <1>5, <1>6, <1>7

\* The invariant holds at the start ...
LEMMA RingInvInit == Init => RingInv
<1> SUFFICES ASSUME Init PROVE RingInv
  OBVIOUS
<1>1. /\ kicked = 0 /\ dma = 0 /\ CurTxDesc = 0 /\ frames = 0 /\ wire = NoPart
      /\ \A c \in Contexts : pc[c] = "idle"
      /\ \A d \in Descs : ~ own[d]
  BY DEF Init
<1>2. Filled = 0
  BY <1>1 DEF Filled, Contexts
<1>3. OneSender
  BY <1>1, <1>2, CountType DEF OneSender, Idle, Filling, Contexts
<1>4. RingInStep
  <2>1. dma \in Descs /\ \A i \in Descs : INCR_TX_DESC_INDEX(dma, i) \in Descs /\ i \in Nat
    BY <1>1, Incr, CountType DEF Descs
  <2>2. INCR_TX_DESC_INDEX(dma, kicked) = 0
    BY <1>1, <2>1, Incr, CountType
  <2> QED
    <3>1. \A i \in Descs : ~ own[INCR_TX_DESC_INDEX(dma, i)]
      BY <1>1, <2>1
    <3>2. \A i \in Descs : ~ (i < kicked + Filled)
      BY <1>1, <1>2, <2>1
    <3> QED
      BY <1>1, <2>2, <3>1, <3>2 DEF RingInStep
<1>5. InOrder
  <2>1. Entry(kicked) = NoPart
    BY <1>1 DEF Entry
  <2>2. 0 .. (kicked + Filled - 1) = {}
    BY <1>1, <1>2
  <2> QED
    BY <1>1, <2>1, <2>2 DEF InOrder, NoPart, Idle, Filling
<1> QED
  BY <1>3, <1>4, <1>5, TypeInit DEF RingInv

\* raced is never taken back.
LEMMA RacedStays == [Next]_vars /\ raced => raced'
<1> SUFFICES ASSUME [Next]_vars, raced PROVE raced'
  OBVIOUS
<1>1. CASE StackSends \/ netif_issue_reports
  BY <1>1 DEF StackSends, netif_issue_reports, low_level_output
<1>2. CASE \E c \in Contexts : OutputStep(c)
  BY <1>2 DEF OutputStep, Transmit_Refused, Transmit, FillDesc, Rollback, Commit
<1>3. CASE Send \/ PhyChanges \/ UNCHANGED vars
  BY <1>3 DEF Send, PhyChanges, vars, call
<1>4. CASE LinkStep /\ ~ netif_issue_reports
  BY <1>4 DEF LinkStep, Poll, Stop, Stopped, netif_set_down, netif_set_link_down, SetMACConfig, Start, Started,
              netif_set_up, netif_set_link_up, Reported, call
<1> QED
  BY <1>1, <1>2, <1>3, <1>4 DEF Next

\* ... and is kept by every step.
LEMMA RingInvStep == RingInv /\ ModeRead /\ [Next]_vars => RingInv' /\ ModeRead'
<1> SUFFICES ASSUME RingInv, ModeRead, [Next]_vars
             PROVE  RingInv' /\ ModeRead'
  OBVIOUS
<1>1. TypeOK' /\ ModeRead'
  BY TypeStep DEF RingInv
<1>2. CASE raced'
  BY <1>1, <1>2 DEF RingInv, OneSender, RingInStep, InOrder
<1>3. CASE ~ raced'
  <2>1. CASE StackSends \/ netif_issue_reports
    BY <1>1, <1>3, <2>1, OutputStepRing DEF StackSends, netif_issue_reports, RingInv, Contexts
  <2>2. ASSUME NEW c \in Contexts, OutputStep(c)
        PROVE  (OneSender /\ RingInStep /\ InOrder)'
    BY <1>3, <2>2, RefusedRing, TransmitRing, FillRing, RollbackRing, CommitRing DEF OutputStep
  <2>3. CASE Send
    BY <1>1, <1>3, <2>3, SendRing DEF RingInv
  <2>4. CASE (LinkStep \/ PhyChanges) /\ ~ netif_issue_reports
    BY <2>4, LinkTypeStep, QuietRing DEF RingInv
  <2>5. CASE UNCHANGED vars
    BY <1>1, <2>5, QuietRing DEF vars, RingInv
  <2> QED
    BY <1>1, <2>1, <2>2, <2>3, <2>4, <2>5 DEF Next, RingInv
<1> QED
  BY <1>2, <1>3

\* The inductive invariant of the transmit ring holds throughout.
THEOREM RingInvariant == Spec => []RingInv
  BY RingInvInit, TypeInit, RingInvStep, PTL DEF Spec

\* The driver's place in the ring and the DMA's never run apart as long as the two
\* contexts do not meet in low_level_output.
THEOREM RingStaysInStep == Spec => []RingInStep
<1>1. RingInv => RingInStep
  BY DEF RingInv
<1> QED
  BY <1>1, RingInvariant, PTL

\* Until they meet, the DMA sends whole frames in the order of the calls, none
\* twice and none mixed with another.
THEOREM WholeFramesOnly == Spec => FramesWhole
<1>1. RingInv /\ [Next]_vars =>
        [wire' # wire =>
           \/ raced
           \/ wire'.part = 1 /\ wire.part = wire.size /\ wire'.num > wire.num
           \/ wire' = [wire EXCEPT !.part = @ + 1]]_vars
  <2> SUFFICES ASSUME RingInv, [Next]_vars, wire' # wire, ~ raced
               PROVE  Follows(wire, wire')
    BY DEF Follows
  <2>1. CASE Send
    <3>1. kicked \in Nat /\ kicked > 0 /\ Filled \in Nat
      BY <2>1, FilledType DEF Send, RingInv, TypeOK
    <3>2. 0 \in 0 .. (kicked + Filled - 1)
      BY <3>1
    <3>3. Follows(Entry(0), Entry(0 + 1))
      BY <3>2 DEF RingInv, InOrder
    <3>4. Entry(0)' = Entry(0 + 1)
      BY <2>1, <3>2, SendEntries
    <3> QED
      BY <3>3, <3>4 DEF Entry
  <2>2. CASE ~ Send
    <3>1. CASE StackSends \/ netif_issue_reports
      BY <3>1 DEF StackSends, netif_issue_reports, low_level_output, ring
    <3>2. CASE \E c \in Contexts : OutputStep(c)
      BY <3>2 DEF OutputStep, Transmit_Refused, Transmit, FillDesc, Rollback, Commit, ring
    <3>3. CASE UNCHANGED vars
      BY <3>3 DEF vars, ring
    <3>4. CASE (LinkStep \/ PhyChanges) /\ ~ netif_issue_reports
      BY <3>4 DEF LinkStep, PhyChanges, Poll, Stop, Stopped, netif_set_down, netif_set_link_down, SetMACConfig, Start,
                  Started, netif_set_up, netif_set_link_up, Reported, ring
    <3> QED
      BY <2>2, <3>1, <3>2, <3>3, <3>4 DEF Next
  <2> QED
    BY <2>1, <2>2
<1> QED
  BY <1>1, RingInvariant, PTL DEF Spec, FramesWhole
=============================================================================
