----------------------------- MODULE ServerLink -----------------------------
(****************************************************************************)
(* The life of the connection to the server: the connection task of         *)
(* User/tcp_client.c (tcp_client_conn_server_task), the send task of        *)
(* User/send_buffer_task.c that writes to the same netconn, and the LED     *)
(* task of User/main.c that shows the state of the link.                    *)
(*                                                                          *)
(* The tasks are scheduled by fixed priority with preemption.  The send     *)
(* task is created with priority 5 and runs with 4 (the highest there is),  *)
(* as do the tasks that produce frames and the tcpip thread; the LED task   *)
(* has 3 and the connection task 2.  A task takes a step here only when no  *)
(* task of a higher priority is ready.                                      *)
(*                                                                          *)
(* The netconn interface of lwIP is modelled from its use: a netconn is     *)
(*   "free"        not allocated                                            *)
(*   "idle"        made by netconn_new, not connected                       *)
(*   "connecting"  netconn_connect is waiting                               *)
(*   "up"          connected                                                *)
(*   "half"        the peer has closed its side; writes still go out        *)
(*   "closed"      without a pcb: closed, refused, reset or timed out       *)
(****************************************************************************)
EXTENDS Integers, FiniteSets

CONSTANTS Netconn,    \* the pool of netconns, MEMP_NUM_NETCONN of them
          MaxFrames   \* bound: frames waiting in the transmit queue

NULL == "NULL"

ASSUME LinkAssumption ==
  /\ IsFiniteSet(Netconn) /\ NULL \notin Netconn
  /\ MaxFrames \in Nat

VARIABLES
  state,      \* state of each netconn
  tcp_client_server_conn,
  leaked,     \* auxiliary: netconns that netconn_delete refused to free
  lwip,       \* where the connection task is
  err,        \* what netconn_connect returned
  sender,     \* send_buffer_task: "poll", "write" (blocked) or "delay"
  target,     \* the netconn of the blocked netconn_write
  frames,     \* frames in the transmit queue
  notified,   \* the LED task's pending notification, 0 for none
  ledToggleIntervalMs

conns == <<state, tcp_client_server_conn, leaked>>
led   == <<notified, ledToggleIntervalMs>>
send  == <<sender, target, frames>>
vars  == <<conns, lwip, err, send, led>>

ERR_OK   == "ERR_OK"
ERR_CONN == "ERR_CONN"

Disconnected == 200
Connected    == 1000

Writable(c) == state[c] \in {"up", "half"}
Writing(c)  == sender = "write" /\ target = c

----------------------------------------------------------------------------
(* Who may run.                                                             *)

SenderReady == sender = "poll"
LedReady    == notified # 0

LedMayRun  == ~ SenderReady
LwipMayRun == ~ SenderReady /\ ~ LedReady

----------------------------------------------------------------------------
(* tcp_client_conn_server_task.                                             *)

\* The top of the loop: xTaskNotify(xHandleTaskLED, 200).
Announce ==
  /\ LwipMayRun
  /\ lwip = "start"
  /\ notified' = Disconnected
  /\ lwip' = "new"
  /\ UNCHANGED <<conns, err, send, ledToggleIntervalMs>>

\* netconn_new found a netconn; SOF_KEEPALIVE is set on its pcb.
NewOk ==
  /\ LwipMayRun
  /\ lwip = "new"
  /\ \E c \in Netconn :
       /\ state[c] = "free"
       /\ state' = [state EXCEPT ![c] = "idle"]
       /\ tcp_client_server_conn' = c
  /\ lwip' = "connect"
  /\ UNCHANGED <<leaked, err, send, led>>

\* netconn_new returned NULL: the pool or the heap is exhausted.
NewFails ==
  /\ LwipMayRun
  /\ lwip = "new"
  /\ tcp_client_server_conn' = NULL
  /\ lwip' = "delay"
  /\ UNCHANGED <<state, leaked, err, send, led>>

\* netconn_connect sends the SYN and waits.
ConnectBegin ==
  /\ LwipMayRun
  /\ lwip = "connect"
  /\ state' = [state EXCEPT ![tcp_client_server_conn] = "connecting"]
  /\ lwip' = "connecting"
  /\ UNCHANGED <<tcp_client_server_conn, leaked, err, send, led>>

\* netconn_connect fails at once: no route while the cable is out.
ConnectRefused ==
  /\ LwipMayRun
  /\ lwip = "connect"
  /\ err' = ERR_CONN
  /\ lwip' = "close"
  /\ UNCHANGED <<conns, send, led>>

\* netconn_connect returned ERR_OK: xTaskNotify(xHandleTaskLED, 1000).
ConnectOk ==
  /\ LwipMayRun
  /\ lwip = "connecting"
  /\ state[tcp_client_server_conn] # "connecting"
  /\ err = ERR_OK
  /\ notified' = Connected
  /\ lwip' = "recv"
  /\ UNCHANGED <<conns, err, send, ledToggleIntervalMs>>

\* Mutant: after a failed connect the task starts over without cleaning up.
ConnectErr_NoDelete ==
  /\ LwipMayRun
  /\ lwip = "connecting"
  /\ state[tcp_client_server_conn] # "connecting"
  /\ err # ERR_OK
  /\ lwip' = "delay"
  /\ UNCHANGED <<conns, err, send, led>>

ConnectErr ==
  /\ LwipMayRun
  /\ lwip = "connecting"
  /\ state[tcp_client_server_conn] # "connecting"
  /\ err # ERR_OK
  /\ lwip' = "close"
  /\ UNCHANGED <<conns, err, send, led>>

\* Mutant: the receive loop is left although the connection is fine.
RecvErr_Any ==
  /\ LwipMayRun
  /\ lwip = "recv"
  /\ lwip' = "close"
  /\ UNCHANGED <<conns, err, send, led>>

\* netconn_recv failed: the peer closed, or the connection was lost.
RecvErr ==
  /\ LwipMayRun
  /\ lwip = "recv"
  /\ state[tcp_client_server_conn] # "up"
  /\ lwip' = "close"
  /\ UNCHANGED <<conns, err, send, led>>

\* netconn_close: ERR_INPROGRESS, and no effect, while a write is blocked on it.
Close ==
  /\ LwipMayRun
  /\ lwip = "close"
  /\ state' = IF Writing(tcp_client_server_conn) THEN state
              ELSE [state EXCEPT ![tcp_client_server_conn] = "closed"]
  /\ lwip' = "delete"
  /\ UNCHANGED <<tcp_client_server_conn, leaked, err, send, led>>

\* Mutant: the netconn is freed under a blocked write.
Delete_Always ==
  /\ LwipMayRun
  /\ lwip = "delete"
  /\ state' = [state EXCEPT ![tcp_client_server_conn] = "free"]
  /\ lwip' = "delay"
  /\ UNCHANGED <<tcp_client_server_conn, leaked, err, send, led>>

\* netconn_delete: frees the netconn, or returns ERR_INPROGRESS, which is
\* ignored, and the netconn is never freed.  The pointer keeps its value.
Delete ==
  /\ LwipMayRun
  /\ lwip = "delete"
  /\ \/ /\ ~ Writing(tcp_client_server_conn)
        /\ state' = [state EXCEPT ![tcp_client_server_conn] = "free"]
        /\ UNCHANGED leaked
     \/ /\ Writing(tcp_client_server_conn)
        /\ leaked' = leaked \cup {tcp_client_server_conn}
        /\ UNCHANGED state
  /\ lwip' = "delay"
  /\ UNCHANGED <<tcp_client_server_conn, err, send, led>>

\* Mutant: the delay never ends.
Retry_Never ==
  /\ LwipMayRun
  /\ lwip = "delay"
  /\ UNCHANGED vars

\* vTaskDelay(1000) is over.
Retry ==
  /\ LwipMayRun
  /\ lwip = "delay"
  /\ lwip' = "start"
  /\ UNCHANGED <<conns, err, send, led>>

LwipStep == \/ Announce \/ NewOk \/ NewFails
            \/ ConnectBegin \/ ConnectRefused \/ ConnectOk \/ ConnectErr
            \/ RecvErr \/ Close \/ Delete \/ Retry

----------------------------------------------------------------------------
(* send_buffer_task.                                                        *)

\* Mutant: the tail index is advanced twice for one frame.
SendReturns_Twice ==
  /\ sender = "write"
  /\ sender' = "poll"
  /\ target' = NULL
  /\ frames' = frames - 2
  /\ UNCHANGED <<conns, lwip, err, led>>

\* The queue is empty: vTaskDelay(2).
SendIdle ==
  /\ sender = "poll"
  /\ frames = 0
  /\ sender' = "delay"
  /\ UNCHANGED <<conns, lwip, err, target, frames, led>>

SendWakes ==
  /\ sender = "delay"
  /\ sender' = "poll"
  /\ UNCHANGED <<conns, lwip, err, target, frames, led>>

\* There is a frame and a connection that takes it at once.
SendOk ==
  /\ sender = "poll"
  /\ frames > 0
  /\ tcp_client_server_conn # NULL
  /\ Writable(tcp_client_server_conn)
  /\ frames' = frames - 1
  /\ UNCHANGED <<conns, lwip, err, sender, target, led>>

\* The send buffer of the connection is full: netconn_write blocks.
SendBlocks ==
  /\ sender = "poll"
  /\ frames > 0
  /\ tcp_client_server_conn # NULL
  /\ Writable(tcp_client_server_conn)
  /\ sender' = "write"
  /\ target' = tcp_client_server_conn
  /\ UNCHANGED <<conns, lwip, err, frames, led>>

\* No connection, or netconn_write failed (it does at once for a netconn that is
\* not connected, and for a pointer to a freed one): the loop goes round.
SendFails ==
  /\ sender = "poll"
  /\ frames > 0
  /\ UNCHANGED vars

\* The peer acknowledged: the blocked write returns ERR_OK.
SendReturns ==
  /\ sender = "write"
  /\ sender' = "poll"
  /\ target' = NULL
  /\ frames' = frames - 1
  /\ UNCHANGED <<conns, lwip, err, led>>

SendStep == SendIdle \/ SendWakes \/ SendOk \/ SendBlocks \/ SendFails \/ SendReturns

\* The data-processing or the TLV task put a frame into the queue.
Produce ==
  /\ frames < MaxFrames
  /\ frames' = frames + 1
  /\ UNCHANGED <<conns, lwip, err, sender, target, led>>

----------------------------------------------------------------------------
(* vTaskLED: xTaskNotifyWait returned a value.  A timeout only toggles.     *)

\* Mutant: the value is not taken over.
LedTake_Ignore ==
  /\ LedMayRun
  /\ notified # 0
  /\ notified' = 0
  /\ UNCHANGED <<conns, lwip, err, send, ledToggleIntervalMs>>

LedTake ==
  /\ LedMayRun
  /\ notified # 0
  /\ ledToggleIntervalMs' = IF notified < 2000 THEN notified ELSE Connected
  /\ notified' = 0
  /\ UNCHANGED <<conns, lwip, err, send>>

----------------------------------------------------------------------------
(* What the tcpip thread does with the segments and timeouts of a netconn.  *)

Established(c) ==
  /\ state[c] = "connecting"
  /\ state' = [state EXCEPT ![c] = "up"]
  /\ err' = ERR_OK
  /\ UNCHANGED <<tcp_client_server_conn, leaked, lwip, send, led>>

\* A FIN from the peer.
PeerCloses(c) ==
  /\ state[c] = "up"
  /\ state' = [state EXCEPT ![c] = "half"]
  /\ UNCHANGED <<tcp_client_server_conn, leaked, lwip, err, send, led>>

\* err_tcp: reset, retransmissions or keepalive probes without answer.  It wakes
\* whoever waits on the netconn; a blocked write returns the error.
Abort(c) ==
  /\ state[c] \in {"connecting", "up", "half"}
  /\ state' = [state EXCEPT ![c] = "closed"]
  /\ err' = IF state[c] = "connecting" THEN ERR_CONN ELSE err
  /\ sender' = IF Writing(c) THEN "poll" ELSE sender
  /\ target' = IF Writing(c) THEN NULL ELSE target
  /\ UNCHANGED <<tcp_client_server_conn, leaked, lwip, frames, led>>

Network == \E c \in Netconn : Established(c) \/ PeerCloses(c) \/ Abort(c)

----------------------------------------------------------------------------

Init ==
  /\ state = [c \in Netconn |-> "free"]
  /\ tcp_client_server_conn = NULL
  /\ leaked = {}
  /\ lwip = "start"
  /\ err = ERR_OK
  /\ sender = "poll"
  /\ target = NULL
  /\ frames = 0
  /\ notified = 0
  /\ ledToggleIntervalMs = Connected

Next == LwipStep \/ SendStep \/ Produce \/ LedTake \/ Network

\* A task runs whenever no task of a higher priority is ready, so a step that is
\* possible again and again is taken.  Of the network: a blocked write ends, and
\* the server is reachable, and memory for a netconn available, again and again.
Fairness ==
  /\ WF_vars(SendIdle) /\ WF_vars(SendWakes) /\ WF_vars(SendOk \/ SendBlocks)
  /\ WF_vars(SendReturns)
  /\ SF_vars(LedTake)
  /\ SF_vars(LwipStep)
  /\ SF_vars(NewOk) /\ SF_vars(ConnectBegin)
  /\ \A c \in Netconn : SF_vars(Established(c))

Spec == Init /\ [][Next]_vars /\ Fairness

----------------------------------------------------------------------------
(* Properties.                                                              *)

TypeOK ==
  /\ state \in [Netconn -> {"free", "idle", "connecting", "up", "half", "closed"}]
  /\ tcp_client_server_conn \in Netconn \cup {NULL}
  /\ leaked \subseteq Netconn
  /\ lwip \in {"start", "new", "connect", "connecting", "recv", "close", "delete", "delay"}
  /\ err \in {ERR_OK, ERR_CONN}
  /\ sender \in {"poll", "write", "delay"}
  /\ target \in Netconn \cup {NULL}
  /\ frames \in 0 .. MaxFrames
  /\ notified \in {0, Disconnected, Connected}
  /\ ledToggleIntervalMs \in {Disconnected, Connected}

\* The connection task never frees the netconn the send task is blocked on,
\* although it closes and deletes whatever tcp_client_server_conn points to
\* without asking.
BlockedWriteHasNetconn == sender = "write" => Writable(target)

\* The only netconns the program loses are those whose deletion was refused
\* because a write was blocked on them, and their peer has closed: none is still
\* connecting or up beside the connection in use.
OwnedOrLeaked ==
  \A c \in Netconn :
    /\ state[c] # "free" => c = tcp_client_server_conn \/ c \in leaked
    /\ c \in leaked => state[c] \notin {"connecting", "up"}

\* Once it has taken its notifications, the LED shows a fast blink while the
\* task tries to connect and a slow one while it receives, even when the send
\* task kept the LED task from running in between.
LedTruthful ==
  ~ LedReady =>
    /\ lwip \in {"new", "connect", "connecting"} => ledToggleIntervalMs = Disconnected
    /\ lwip = "recv" => ledToggleIntervalMs = Connected

\* A lost connection is replaced, provided the send task sleeps again and again
\* (its queue does not stay filled) and not every netconn has been lost.
RecoversIfSenderYields ==
  ([]<>(sender = "delay") /\ [](leaked # Netconn)) => (lwip = "close" ~> lwip = "recv")

Lost == lwip = "recv" /\ state[tcp_client_server_conn] # "up"

\* The README's sixth point, hot plugging and keepalive of the TCP client: when the
\* connection is lost the task starts a new attempt.
Reconnects == Lost ~> lwip = "start"
=============================================================================
