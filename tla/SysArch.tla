------------------------------ MODULE SysArch ------------------------------
(****************************************************************************)
(* The operating system layer of lwIP (User/lwip/src/port/sys_arch.c over   *)
(* FreeRTOS), as far as the receive path uses it: the mailbox tcpip_mbox    *)
(* and the mutex lock_tcpip_core.                                           *)
(****************************************************************************)
EXTENDS Naturals, Sequences

CONSTANTS TCPIP_MBOX_SIZE,            \* 12
          archMAX_MESG_QUEUE_LENGTH   \* 12

ASSUME SysArchAssumption ==
  TCPIP_MBOX_SIZE \in Nat \ {0} /\ archMAX_MESG_QUEUE_LENGTH \in Nat \ {0}

VARIABLES tcpip_mbox,       \* the messages in the mailbox
          lock_tcpip_core   \* the task that has the mutex, or "none"

\* sys_mbox_new: a longer mailbox than the port allows is cut.
MboxLength ==
  IF TCPIP_MBOX_SIZE > archMAX_MESG_QUEUE_LENGTH THEN archMAX_MESG_QUEUE_LENGTH
                                                 ELSE TCPIP_MBOX_SIZE

\* Mutant: one message too many.
sys_mbox_trypost_Late(msg) ==
  /\ Len(tcpip_mbox) <= MboxLength
  /\ tcpip_mbox' = Append(tcpip_mbox, msg)

\* sys_mbox_trypost returns ERR_OK, ...
sys_mbox_trypost(msg) ==
  /\ Len(tcpip_mbox) < MboxLength
  /\ tcpip_mbox' = Append(tcpip_mbox, msg)

\* ... or at once ERR_MEM.
sys_mbox_trypost_Full ==
  /\ Len(tcpip_mbox) >= MboxLength
  /\ UNCHANGED tcpip_mbox

\* sys_arch_mbox_fetch returns a message, also one that comes with the timeout ...
sys_arch_mbox_fetch(msg) ==
  /\ tcpip_mbox # <<>>
  /\ msg = Head(tcpip_mbox)
  /\ tcpip_mbox' = Tail(tcpip_mbox)

\* Mutant: the time is never over.
sys_arch_mbox_fetch_Timeout_Never(over) ==
  /\ over /\ MboxLength = 0
  /\ UNCHANGED tcpip_mbox

\* ... or SYS_ARCH_TIMEOUT once the time is over.
sys_arch_mbox_fetch_Timeout(over) ==
  /\ over
  /\ tcpip_mbox = <<>>
  /\ UNCHANGED tcpip_mbox

\* LOCK_TCPIP_CORE waits for the mutex, whoever has it.
sys_mutex_lock(t) == lock_tcpip_core = "none" /\ lock_tcpip_core' = t

sys_mutex_unlock(t) == lock_tcpip_core = t /\ lock_tcpip_core' = "none"
=============================================================================
