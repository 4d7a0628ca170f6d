--------------------------- MODULE ServerLinkProofs ---------------------------
(****************************************************************************)
(* The safety properties of ServerLink for every pool of netconns and every *)
(* bound of the queue.                                                      *)
(****************************************************************************)
EXTENDS ServerLink, TLAPS

\* What the place of the connection task says about its netconn.
ConnInv ==
  /\ lwip \in {"connect", "connecting", "recv", "close", "delete"} =>
       tcp_client_server_conn \in Netconn /\ tcp_client_server_conn \notin leaked
  /\ lwip \in {"start", "new", "delay"} =>
       \A c \in Netconn : c = tcp_client_server_conn /\ c \notin leaked => state[c] = "free"
  /\ lwip = "connect" => state[tcp_client_server_conn] = "idle"
  /\ lwip = "connecting" =>
       /\ state[tcp_client_server_conn] \in {"connecting", "up", "half", "closed"}
       /\ state[tcp_client_server_conn] \in {"up", "half"} => err = ERR_OK
  /\ lwip = "recv" => state[tcp_client_server_conn] \in {"up", "half", "closed"}
  /\ lwip = "close" => state[tcp_client_server_conn] \in {"idle", "half", "closed"}
  /\ lwip = "delete" => state[tcp_client_server_conn] \in {"half", "closed"}

\* A netconn that was lost is one its peer closed.
LeakInv == \A c \in leaked : state[c] \in {"half", "closed"}

\* A blocked write has its frame and its netconn.
WriteInv == sender = "write" => target \in Netconn /\ Writable(target) /\ frames > 0

\* A pending notification says what the connection task is about.
LedInv ==
  /\ lwip \in {"new", "connect", "connecting"} => notified \in {0, Disconnected}
  /\ lwip = "recv" => notified \in {0, Connected}
  /\ LedTruthful

LinkInv == TypeOK /\ ConnInv /\ LeakInv /\ WriteInv /\ OwnedOrLeaked /\ LedInv

----------------------------------------------------------------------------

\* The initial state satisfies the inductive invariant.
LEMMA LinkInit == Init => LinkInv
<1> SUFFICES ASSUME Init PROVE LinkInv
  OBVIOUS
<1> USE LinkAssumption DEF Init, NULL, ERR_OK, ERR_CONN, Connected, Disconnected
<1>1. TypeOK BY DEF TypeOK
<1>2. ConnInv /\ LeakInv /\ WriteInv /\ OwnedOrLeaked
  BY DEF ConnInv, LeakInv, WriteInv, OwnedOrLeaked
<1>3. LedInv BY DEF LedInv, LedTruthful, LedReady
<1> QED BY <1>1, <1>2, <1>3 DEF LinkInv

\* Every step of every task and of the network preserves it.
LEMMA LinkStep == LinkInv /\ [Next]_vars => LinkInv'
<1> SUFFICES ASSUME LinkInv, [Next]_vars PROVE LinkInv'
  OBVIOUS
<1> USE DEF LinkInv, TypeOK, ConnInv, LeakInv, WriteInv, OwnedOrLeaked, LedInv, LedTruthful
<1> USE LinkAssumption DEF NULL, ERR_OK, ERR_CONN, Connected, Disconnected,
        conns, led, send, Writable, Writing, SenderReady, LedReady, LedMayRun, LwipMayRun
<1>1. CASE Announce
  BY <1>1 DEF Announce
<1>2. CASE NewOk
  BY <1>2 DEF NewOk
<1>3. CASE NewFails
  BY <1>3 DEF NewFails
<1>4. CASE ConnectBegin
  BY <1>4 DEF ConnectBegin
<1>5. CASE ConnectRefused
  BY <1>5 DEF ConnectRefused
<1>6. CASE ConnectOk
  BY <1>6 DEF ConnectOk
<1>7. CASE ConnectErr
  BY <1>7 DEF ConnectErr
<1>8. CASE RecvErr
  BY <1>8 DEF RecvErr
<1>9. CASE Close
  BY <1>9 DEF Close
<1>10. CASE Delete
  BY <1>10 DEF Delete
<1>11. CASE Retry
  BY <1>11 DEF Retry
<1>12. CASE SendIdle
  BY <1>12 DEF SendIdle
<1>13. CASE SendWakes
  BY <1>13 DEF SendWakes
<1>14. CASE SendOk
  BY <1>14 DEF SendOk
<1>15. CASE SendBlocks
  BY <1>15 DEF SendBlocks
<1>16. CASE SendFails
  BY <1>16 DEF SendFails, vars
<1>17. CASE SendReturns
  BY <1>17 DEF SendReturns
<1>18. CASE Produce
  BY <1>18 DEF Produce
<1>19. CASE LedTake
  BY <1>19 DEF LedTake
<1>20. ASSUME NEW c \in Netconn, Established(c) PROVE LinkInv'
  BY <1>20 DEF Established
<1>21. ASSUME NEW c \in Netconn, PeerCloses(c) PROVE LinkInv'
  BY <1>21 DEF PeerCloses
<1>22. ASSUME NEW c \in Netconn, Abort(c) PROVE LinkInv'
  BY <1>22 DEF Abort
<1>23. CASE UNCHANGED vars
  BY <1>23 DEF vars
<1> QED
  BY <1>1, <1>2, <1>3, <1>4, <1>5, <1>6, <1>7, <1>8, <1>9, <1>10, <1>11, <1>12, <1>13, <1>14, <1>15, <1>16, <1>17, <1>18, <1>19, <1>20, <1>21, <1>22, <1>23
  DEF Next, LwipStep, SendStep, Network

\* The invariant holds throughout.
THEOREM LinkInvariant == Spec => []LinkInv
<1>1. Init => LinkInv BY LinkInit
<1>2. LinkInv /\ [Next]_vars => LinkInv' BY LinkStep
<1> QED BY <1>1, <1>2, PTL DEF Spec

\* Every variable keeps its type; in particular a frame is taken out of the queue
\* only when there is one, also by a write that was blocked meanwhile.
THEOREM LinkTypeCorrect == Spec => []TypeOK
<1>1. LinkInv => TypeOK BY DEF LinkInv
<1> QED BY <1>1, LinkInvariant, PTL

\* netconn_delete never takes away the netconn the send task is blocked on.
THEOREM LinkBlockedWrite == Spec => []BlockedWriteHasNetconn
<1>1. LinkInv => BlockedWriteHasNetconn BY DEF LinkInv, WriteInv, BlockedWriteHasNetconn
<1> QED BY <1>1, LinkInvariant, PTL

\* A netconn that exists is the one in use or was lost by a refused deletion, and
\* a lost one is neither connecting nor up.
THEOREM LinkOwnership == Spec => []OwnedOrLeaked
<1>1. LinkInv => OwnedOrLeaked BY DEF LinkInv
<1> QED BY <1>1, LinkInvariant, PTL

\* The LED tells the truth about the link once it has taken its notifications.
THEOREM LinkLed == Spec => []LedTruthful
<1>1. LinkInv => LedTruthful BY DEF LinkInv, LedInv
<1> QED BY <1>1, LinkInvariant, PTL
=============================================================================
