------------------------------ MODULE TxQueue ------------------------------
(****************************************************************************)
(* The transmit queue (User/send_buffer_task.c with the macros of           *)
(* User/app.h): WriteDataToTXDBUF, called by the TLV task for replies and   *)
(* by the data-processing task for wave frames, puts a frame into the ring  *)
(* TXD_BUFFER_NET; send_buffer_task writes the frames to the connection.    *)
(*                                                                          *)
(* The head index wraps at TxdBufLine (Increase).  The tail index is        *)
(* advanced with the macro of the receive ring, IncreaseNetReceiveBuf, and  *)
(* wraps at NetReceiveBufSize: it leaves the ring and walks over slots that *)
(* were never written, whose length is 0, before it comes back to slot 0.   *)
(*                                                                          *)
(* A frame is its number in the order of acceptance.  A slot is 0 when it   *)
(* was never written and Torn while a writer copies into it.                *)
(****************************************************************************)
EXTENDS Integers, Sequences, FiniteSets

CONSTANTS Writer,             \* the tasks that call WriteDataToTXDBUF
          TxdBufLine,         \* 256
          NetReceiveBufSize,  \* 2048
          BufLines,           \* rows of TXD_BUFFER_NET: 5000
          MaxFrames           \* bound: frames accepted

ASSUME TxAssumption ==
  /\ TxdBufLine \in Nat /\ TxdBufLine >= 2
  /\ NetReceiveBufSize \in Nat /\ NetReceiveBufSize >= TxdBufLine
  /\ BufLines \in Nat /\ BufLines >= NetReceiveBufSize
  /\ MaxFrames \in Nat

VARIABLES
  TXD_BUFFER_NET,   \* the rows, with TXD_BUFFER_NET_Length
  TxdBufHeadIndex,
  TxdBufTailIndex,
  WRITE_ready,      \* the binary semaphore is available
  pc,               \* where each writer is in WriteDataToTXDBUF
  sender,           \* send_buffer_task: "poll", or "write" in netconn_write
  sending,          \* what the row held when netconn_write was called
  conn,             \* tcp_client_server_conn is not NULL
  accepted,         \* auxiliary: frames accepted (WriteDataToTXDBUF returned 1)
  sent,             \* auxiliary: frames netconn_write took
  overran           \* auxiliary: a frame was accepted with the queue full

vars == <<TXD_BUFFER_NET, TxdBufHeadIndex, TxdBufTailIndex, WRITE_ready, pc,
          sender, sending, conn, accepted, sent, overran>>

Rows  == 0 .. (BufLines - 1)
Blank == 0
Torn  == -1

----------------------------------------------------------------------------
(* The macros of User/app.h.                                                *)

\* Mutant: the head index wraps one row late.
Increase_Late(x) == (x + 1) % (TxdBufLine + 1)

Increase(x) == (x + 1) % TxdBufLine

IncreaseNetReceiveBuf(x) == (x + 1) % NetReceiveBufSize

\* Mutant: the ring may fill up to the last slot.
isTxdBufFull_Never == FALSE

isTxdBufFull == Increase(TxdBufHeadIndex) = TxdBufTailIndex

isTxdBufEmpty == TxdBufHeadIndex = TxdBufTailIndex

----------------------------------------------------------------------------
(* WriteDataToTXDBUF.                                                       *)

\* Frames accepted, or that calls now running may still have accepted.
Claimed == accepted + Cardinality({w \in Writer : pc[w] \in {"take", "check", "copy"}})

Call(w) ==
  /\ pc[w] = "idle"
  /\ Claimed < MaxFrames
  /\ pc' = [pc EXCEPT ![w] = "take"]
  /\ UNCHANGED <<TXD_BUFFER_NET, TxdBufHeadIndex, TxdBufTailIndex, WRITE_ready,
                 sender, sending, conn, accepted, sent, overran>>

\* Mutant: the semaphore is not waited for.
Take_NoWait(w) ==
  /\ pc[w] = "take"
  /\ WRITE_ready' = FALSE
  /\ pc' = [pc EXCEPT ![w] = "check"]
  /\ UNCHANGED <<TXD_BUFFER_NET, TxdBufHeadIndex, TxdBufTailIndex,
                 sender, sending, conn, accepted, sent, overran>>

\* xSemaphoreTake(WRITE_ready, portMAX_DELAY)
Take(w) ==
  /\ pc[w] = "take"
  /\ WRITE_ready
  /\ WRITE_ready' = FALSE
  /\ pc' = [pc EXCEPT ![w] = "check"]
  /\ UNCHANGED <<TXD_BUFFER_NET, TxdBufHeadIndex, TxdBufTailIndex,
                 sender, sending, conn, accepted, sent, overran>>

\* Mutant: a refused frame leaves the semaphore taken.
Refuse_KeepLock(w) ==
  /\ pc[w] = "check"
  /\ isTxdBufFull
  /\ pc' = [pc EXCEPT ![w] = "idle"]
  /\ UNCHANGED <<TXD_BUFFER_NET, TxdBufHeadIndex, TxdBufTailIndex, WRITE_ready,
                 sender, sending, conn, accepted, sent, overran>>

\* The ring is full: give the semaphore back and return 0; the caller goes on.
Refuse(w) ==
  /\ pc[w] = "check"
  /\ isTxdBufFull
  /\ WRITE_ready' = TRUE
  /\ pc' = [pc EXCEPT ![w] = "idle"]
  /\ UNCHANGED <<TXD_BUFFER_NET, TxdBufHeadIndex, TxdBufTailIndex,
                 sender, sending, conn, accepted, sent, overran>>

\* Mutant: the head is advanced before the frame is in its row.
CopyBegin_PublishFirst(w) ==
  /\ pc[w] = "check"
  /\ ~ isTxdBufFull
  /\ TXD_BUFFER_NET' = [TXD_BUFFER_NET EXCEPT ![TxdBufHeadIndex] = Torn]
  /\ TxdBufHeadIndex' = Increase(TxdBufHeadIndex)
  /\ overran' = (overran \/ accepted - sent >= TxdBufLine - 1)
  /\ pc' = [pc EXCEPT ![w] = "copy"]
  /\ UNCHANGED <<TxdBufTailIndex, WRITE_ready, sender, sending, conn, accepted, sent>>

\* There is room: interrupts are enabled again and the copy begins.
CopyBegin(w) ==
  /\ pc[w] = "check"
  /\ ~ isTxdBufFull
  /\ TXD_BUFFER_NET' = [TXD_BUFFER_NET EXCEPT ![TxdBufHeadIndex] = Torn]
  /\ overran' = (overran \/ accepted - sent >= TxdBufLine - 1)
  /\ pc' = [pc EXCEPT ![w] = "copy"]
  /\ UNCHANGED <<TxdBufHeadIndex, TxdBufTailIndex, WRITE_ready,
                 sender, sending, conn, accepted, sent>>

\* The last byte and the length are in place, and the head is advanced.
Publish(w) ==
  /\ pc[w] = "copy"
  /\ TXD_BUFFER_NET' = [TXD_BUFFER_NET EXCEPT ![TxdBufHeadIndex] = accepted + 1]
  /\ TxdBufHeadIndex' = Increase(TxdBufHeadIndex)
  /\ accepted' = accepted + 1
  /\ pc' = [pc EXCEPT ![w] = "give"]
  /\ UNCHANGED <<TxdBufTailIndex, WRITE_ready, sender, sending, conn, sent, overran>>

\* xSemaphoreGive, return 1.
Give(w) ==
  /\ pc[w] = "give"
  /\ WRITE_ready' = TRUE
  /\ pc' = [pc EXCEPT ![w] = "idle"]
  /\ UNCHANGED <<TXD_BUFFER_NET, TxdBufHeadIndex, TxdBufTailIndex,
                 sender, sending, conn, accepted, sent, overran>>

Write(w) == Call(w) \/ Take(w) \/ Refuse(w) \/ CopyBegin(w) \/ Publish(w) \/ Give(w)

----------------------------------------------------------------------------
(* send_buffer_task.                                                        *)

\* Not empty and a connection: netconn_write reads the row until it returns.
SendBegin ==
  /\ sender = "poll"
  /\ ~ isTxdBufEmpty
  /\ conn
  /\ sending' = TXD_BUFFER_NET[TxdBufTailIndex]
  /\ sender' = "write"
  /\ UNCHANGED <<TXD_BUFFER_NET, TxdBufHeadIndex, TxdBufTailIndex, WRITE_ready,
                 pc, conn, accepted, sent, overran>>

\* netconn_write returned ERR_OK; for a row of length 0 it does so at once.
SendOk ==
  /\ sender = "write"
  /\ TxdBufTailIndex' = IncreaseNetReceiveBuf(TxdBufTailIndex)
  /\ sent' = IF sending = Blank THEN sent ELSE sent + 1
  /\ sending' = Blank
  /\ sender' = "poll"
  /\ UNCHANGED <<TXD_BUFFER_NET, TxdBufHeadIndex, WRITE_ready, pc, conn, accepted, overran>>

\* Mutant: the frame is given up when netconn_write fails.
SendErr_Skip ==
  /\ sender = "write"
  /\ TxdBufTailIndex' = IncreaseNetReceiveBuf(TxdBufTailIndex)
  /\ sending' = Blank
  /\ sender' = "poll"
  /\ UNCHANGED <<TXD_BUFFER_NET, TxdBufHeadIndex, WRITE_ready, pc, conn, accepted, sent, overran>>

\* netconn_write failed: the same row is tried again.
SendErr ==
  /\ sender = "write"
  /\ sending' = Blank
  /\ sender' = "poll"
  /\ UNCHANGED <<TXD_BUFFER_NET, TxdBufHeadIndex, TxdBufTailIndex, WRITE_ready,
                 pc, conn, accepted, sent, overran>>

\* The connection task stored what netconn_new returned.
ConnAssigned ==
  /\ conn' \in BOOLEAN
  /\ UNCHANGED <<TXD_BUFFER_NET, TxdBufHeadIndex, TxdBufTailIndex, WRITE_ready,
                 pc, sender, sending, accepted, sent, overran>>

----------------------------------------------------------------------------

Init ==
  /\ TXD_BUFFER_NET = [r \in Rows |-> Blank]
  /\ TxdBufHeadIndex = 0
  /\ TxdBufTailIndex = 0
  /\ WRITE_ready = TRUE
  /\ pc = [w \in Writer |-> "idle"]
  /\ sender = "poll"
  /\ sending = Blank
  /\ conn = FALSE
  /\ accepted = 0
  /\ sent = 0
  /\ overran = FALSE

Next ==
  \/ \E w \in Writer : Write(w)
  \/ SendBegin \/ SendOk \/ SendErr
  \/ ConnAssigned

\* The kernel runs a writer that holds the semaphore, and hands the semaphore to
\* the waiting writers in turn (they have the same priority).
Fairness ==
  \A w \in Writer :
    /\ WF_vars(Refuse(w) \/ CopyBegin(w) \/ Publish(w) \/ Give(w))
    /\ SF_vars(Take(w))

Spec == Init /\ [][Next]_vars /\ Fairness

----------------------------------------------------------------------------
(* Properties.                                                              *)

TypeOK ==
  /\ TXD_BUFFER_NET \in [Rows -> Nat \cup {Torn}]
  /\ TxdBufHeadIndex \in 0 .. (TxdBufLine - 1)
  /\ TxdBufTailIndex \in 0 .. (NetReceiveBufSize - 1)
  /\ WRITE_ready \in BOOLEAN
  /\ pc \in [Writer -> {"idle", "take", "check", "copy", "give"}]
  /\ sender \in {"poll", "write"}
  /\ sending \in Nat \cup {Torn}
  /\ conn \in BOOLEAN
  /\ accepted \in Nat /\ sent \in Nat
  /\ overran \in BOOLEAN

Holding(w) == pc[w] \in {"check", "copy", "give"}

\* At most one task is between the take and the give of WRITE_ready, and the
\* semaphore is out exactly then: it is neither lost nor given twice on any path
\* through WriteDataToTXDBUF.
WriterExclusion ==
  /\ \A v, w \in Writer : Holding(v) /\ Holding(w) => v = w
  /\ WRITE_ready <=> \A w \in Writer : ~ Holding(w)

\* The row of the oldest unsent frame, and the i-th row after it in the ring.
Oldest == IF TxdBufTailIndex < TxdBufLine THEN TxdBufTailIndex ELSE 0

RowAfter(i) == IF Oldest + i < TxdBufLine THEN Oldest + i ELSE Oldest + i - TxdBufLine

Unsent == accepted - sent

\* Unless a frame was accepted with the queue full, every accepted frame is in
\* its row until it is sent.
KeptUnlessOverrun ==
  ~ overran => \A i \in 0 .. (Unsent - 1) : TXD_BUFFER_NET[RowAfter(i)] = sent + 1 + i

\* Unless a frame was accepted with the queue full, netconn_write gets the frames
\* in order, one after the other, and no writer touches a row while it is read.
SentInOrderUnlessOverrun ==
  ~ overran /\ sender = "write" =>
    /\ TXD_BUFFER_NET[TxdBufTailIndex] = sending
    /\ sending \in {Blank, sent + 1}
    /\ sending = Blank => TxdBufTailIndex >= TxdBufLine

\* A frame is accepted with the queue full only while the tail index is outside
\* the ring, where isTxdBufFull cannot hold.
OverrunOnlyOutsideRing == [][~ overran /\ overran' => TxdBufTailIndex >= TxdBufLine]_vars

\* WriteDataToTXDBUF returns, whatever becomes of the connection.
WriterReturns == \A w \in Writer : pc[w] = "take" ~> pc[w] = "idle"

\* The comment at the full test of WriteDataToTXDBUF: a full queue takes no frame.
FullQueueRefuses == Unsent <= TxdBufLine - 1
=============================================================================
