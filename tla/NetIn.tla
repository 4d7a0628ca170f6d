------------------------------- MODULE NetIn -------------------------------
(****************************************************************************)
(* The path of a received frame from the DMA to the application: the        *)
(* receive side of the interface (EthRx), the mailbox and the core lock     *)
(* (SysArch), and the users of both: ethernetif_input, which posts each     *)
(* pbuf while it has the lock, tcpip_thread, which fetches them and looks   *)
(* after the timers of the stack (User/lwip/src/api/tcpip.c), and a task of *)
(* the application that calls the stack and frees the pbufs it was given.   *)
(*                                                                          *)
(* The timers are one flag: the next one is due.  There is always a next    *)
(* one.  The link stays up, so no descriptor is passed over (EthRx's        *)
(* BuildAgain has no place here).                                           *)
(****************************************************************************)
EXTENDS EthRx, SysArch

VARIABLES
  tcpip,    \* where tcpip_thread is
  msg,      \* the pbuf of the message it has fetched, if any
  due,      \* the time of next_timeout has come
  kept,     \* pbufs the stack keeps for the application
  handled   \* auxiliary: the newest frame whose pbuf was given to the stack

arch    == <<tcpip_mbox, lock_tcpip_core>>
stack   == <<tcpip, msg, due, kept, handled>>
netvars == <<vars, arch, stack>>

NoPbuf == [buffer |-> 0, frame |-> 0, known |-> FALSE]

----------------------------------------------------------------------------
(* ethernetif_input with its calls of sys_arch.c.                           *)

Input(step) == step /\ UNCHANGED <<arch, stack>>

InputLock ==
  /\ At("get")
  /\ sys_mutex_lock("input")
  /\ UNCHANGED <<vars, tcpip_mbox, stack>>

\* low_level_input, with the lock.
LowLevelInput == lock_tcpip_core = "input" /\ Input(GetRxDataBuffer)

\* tcpip_inpkt posts the pbuf; with the mailbox full it is freed again.
InputPass ==
  /\ \/ PassPbuf /\ sys_mbox_trypost(NewPbuf)
     \/ RefusePbuf /\ sys_mbox_trypost_Full
  /\ UNCHANGED <<lock_tcpip_core, stack>>

InputUnlock ==
  /\ Loop
  /\ sys_mutex_unlock("input")
  /\ UNCHANGED <<tcpip_mbox, stack>>

InputTaskStep ==
  \/ Input(TakeSemaphore) \/ InputLock \/ LowLevelInput
  \/ Input(TestAppDescNbr) \/ Input(IsRxDataAvailable) \/ Input(ScanDesc) \/ Input(NoData)
  \/ Input(NoteCur) \/ Input(NoteFirst) \/ Input(NoteNbr)
  \/ InputPass \/ Input(PoolEmpty)
  \/ Input(BuildRxDescriptors) \/ Input(GiveBack) \/ Input(ResetAppDescNbr) \/ InputUnlock

----------------------------------------------------------------------------
(* tcpip_thread.                                                            *)

Tcpip(from, to) == TaskMayRun /\ tcpip = from /\ tcpip' = to

\* tcpip_timeouts_mbox_fetch: with no timer due the thread unlocks the core and
\* waits for a message until one is.
Sleep ==
  /\ ~ due
  /\ Tcpip("again", "fetch")
  /\ sys_mutex_unlock("tcpip")
  /\ UNCHANGED <<vars, tcpip_mbox, msg, due, kept, handled>>

Fetch ==
  /\ Tcpip("fetch", "lock")
  /\ \E b \in pbufs : sys_arch_mbox_fetch(b) /\ msg' = b
  /\ UNCHANGED <<vars, lock_tcpip_core, due, kept, handled>>

FetchTimeout ==
  /\ Tcpip("fetch", "lock")
  /\ sys_arch_mbox_fetch_Timeout(due)
  /\ UNCHANGED <<vars, lock_tcpip_core, msg, due, kept, handled>>

\* Mutant: what the fetch returns is always taken for a timeout.
TcpipLock_Timeout ==
  /\ Tcpip("lock", "check")
  /\ sys_mutex_lock("tcpip")
  /\ UNCHANGED <<vars, tcpip_mbox, msg, due, kept, handled>>

TcpipLock ==
  /\ Tcpip("lock", IF msg = NoPbuf THEN "check" ELSE "handle")
  /\ sys_mutex_lock("tcpip")
  /\ UNCHANGED <<vars, tcpip_mbox, msg, due, kept, handled>>

\* The timers that are due are called and set again, after a timeout and also
\* before the thread would wait.
sys_check_timeouts ==
  /\ Tcpip("check", "again") \/ (due /\ Tcpip("again", "again"))
  /\ due' = FALSE
  /\ UNCHANGED <<vars, arch, msg, kept, handled>>

\* tcpip_thread_handle_msg: ethernet_input frees the pbuf ...
HandleFree ==
  /\ Tcpip("handle", "again")
  /\ pbuf_free_custom(msg)
  /\ msg' = NoPbuf /\ handled' = msg.frame
  /\ UNCHANGED <<arch, due, kept>>

\* ... or passes it on to a connection.
HandleKeep ==
  /\ Tcpip("handle", "again")
  /\ kept' = kept \cup {msg}
  /\ msg' = NoPbuf /\ handled' = msg.frame
  /\ UNCHANGED <<vars, arch, due>>

TcpipStep ==
  \/ Sleep \/ Fetch \/ FetchTimeout \/ TcpipLock
  \/ sys_check_timeouts \/ HandleFree \/ HandleKeep

----------------------------------------------------------------------------
(* The application, and time.                                               *)

\* A call of the stack, from the lock to the unlock.
AppLock ==
  /\ TaskMayRun
  /\ sys_mutex_lock("app")
  /\ UNCHANGED <<vars, tcpip_mbox, stack>>

AppUnlock ==
  /\ TaskMayRun
  /\ sys_mutex_unlock("app")
  /\ UNCHANGED <<vars, tcpip_mbox, stack>>

\* The data has been copied to the caller of recv: the pbuf is freed, without
\* the lock.
AppFree ==
  /\ \E b \in kept : pbuf_free_custom(b) /\ kept' = kept \ {b}
  /\ UNCHANGED <<arch, tcpip, msg, due, handled>>

TimerExpires ==
  /\ ~ due
  /\ due' = TRUE
  /\ UNCHANGED <<vars, arch, tcpip, msg, kept, handled>>

Hardware == Receive \/ IrqCheck \/ IrqClear

NetInit ==
  /\ Init /\ running
  /\ tcpip_mbox = <<>> /\ lock_tcpip_core = "tcpip"
  /\ tcpip = "again" /\ msg = NoPbuf
  /\ due = FALSE
  /\ kept = {} /\ handled = 0

NetNext ==
  \/ Input(Hardware)
  \/ InputTaskStep
  \/ TcpipStep
  \/ AppLock \/ AppUnlock \/ AppFree
  \/ TimerExpires

\* The interrupt is served; the tasks run in turn, and one that waits for the
\* core lock is not passed over for ever: the input task stops for want of a
\* frame or of a pbuf, a call of the application ends.  The timers of the stack
\* are further apart than the time their handlers take, so the thread gets to
\* wait for a message.
NetFairness ==
  /\ WF_netvars(Input(IrqCheck)) /\ WF_netvars(Input(IrqClear))
  /\ SF_netvars(InputTaskStep) /\ SF_netvars(TcpipStep) /\ SF_netvars(Sleep)
  /\ WF_netvars(AppUnlock)

NetSpec == NetInit /\ [][NetNext]_netvars /\ NetFairness

----------------------------------------------------------------------------
(* Properties.                                                              *)

NetTypeOK ==
  /\ TypeOK
  /\ tcpip_mbox \in Seq(pbufs) /\ Len(tcpip_mbox) <= MboxLength
  /\ lock_tcpip_core \in {"none", "input", "tcpip", "app"}
  /\ tcpip \in {"again", "fetch", "lock", "check", "handle"}
  /\ msg \in pbufs \cup {NoPbuf} /\ kept \subseteq pbufs
  /\ due \in BOOLEAN /\ handled \in Nat

\* The frames on their way to the stack, the oldest first.
OnTheirWay ==
  (IF msg = NoPbuf THEN <<>> ELSE <<msg>>) \o tcpip_mbox

\* What the stack reads from a pbuf it is given is the frame the pbuf was made for:
\* the frame had been noted when HAL_ETH_GetRxDataBuffer read descidx, and the DMA
\* has not come round to the buffer since.
Readable(b) == b.known /\ received < b.frame + ETH_RX_DESC_CNT

\* The pbufs reach the stack in the order in which their frames were received, one
\* for a frame, and those that are Readable hold their frames, so that the stack
\* reads these in order and none twice; whichever task has the lock or the
\* processor, unless the interrupt handler met the task in the middle of an update.
\* Of what the other pbufs hold nothing is said: one made for a frame that the loop
\* found itself wraps the buffer descidx was read for, mostly that of the frame
\* before it, which the stack then reads twice.
DeliveredInOrder ==
  LET q == OnTheirWay
  IN  ~ raced =>
        /\ \A i \in 1 .. Len(q) : Readable(q[i]) => Rx_Buff[q[i].buffer] = q[i].frame
        /\ \A i \in 1 .. Len(q) : handled < q[i].frame
        /\ \A i, j \in 1 .. Len(q) : i < j => q[i].frame < q[j].frame
        /\ (q # <<>> /\ task \in {"wait", "get", "loop"}) =>
             q[Len(q)].frame <= received - Cardinality(Waiting)

\* A pbuf of RX_POOL is in exactly one place: on its way, or kept for the
\* application; none is lost when the mailbox is full, and none is freed that is
\* still to be handled.
EveryPbufSomewhere ==
  LET way == {OnTheirWay[i] : i \in DOMAIN OnTheirWay}
  IN  way \cup kept = pbufs /\ way \cap kept = {}

\* A pbuf that was posted is handled, although three tasks take the lock and the
\* poster has it while it posts.
PbufsHandled == tcpip_mbox # <<>> ~> tcpip = "handle"

\* A timer that is due is called, although messages keep coming.
TimersCalled == due ~> ~ due
=============================================================================
