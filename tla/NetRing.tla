------------------------------ MODULE NetRing ------------------------------
(****************************************************************************)
(* The receive path of User/tcp_client.c.  The connection task copies what  *)
(* netconn_recv returned, pbuf by pbuf and with interrupts disabled, into   *)
(* the ring NetReceiveBuf; the TLV task takes the bytes out one at a time   *)
(* and runs the parser on each.  The ring has no lock: each index is        *)
(* written by one task only.                                                *)
(****************************************************************************)
EXTENDS Integers, Sequences, SequencesExt

CONSTANTS NetReceiveBufSize,  \* 2048
          Data,               \* the bytes of the stream
          MaxPbufLen,         \* bound: bytes in a pbuf
          MaxPbufs,           \* bound: pbufs in a netbuf
          MaxBytes            \* bound: bytes received altogether

NoByte == -1

ASSUME RingAssumption ==
  /\ NetReceiveBufSize \in Nat /\ NetReceiveBufSize >= 2
  /\ NoByte \notin Data
  /\ {MaxPbufLen, MaxPbufs, MaxBytes} \subseteq Nat

VARIABLES
  NetReceiveBuf,           \* the ring
  NetReceiveBufHeadIndex,  \* where the connection task writes next
  NetReceiveBufTailIndex,  \* where the TLV task reads next
  lwip,                    \* the connection task: "recv", "pbuf" or "copy"
  pbufs,                   \* the pbufs of the netbuf still to copy
  NetPbuf,                 \* the bytes of the current pbuf from NetPbuf on
  left,                    \* iterations of the copy loop left
  tlv,                     \* the TLV task: "poll" or "parse"
  c,                       \* the byte RxdByte is called with
  offered, parsed          \* auxiliary: bytes met by the copy loop, last byte done

ring == <<NetReceiveBuf, NetReceiveBufHeadIndex, NetReceiveBufTailIndex>>
vars == <<ring, lwip, pbufs, NetPbuf, left, tlv, c, offered, parsed>>

Slots == 0 .. (NetReceiveBufSize - 1)

----------------------------------------------------------------------------
(* The macros of User/app.h.                                                *)

\* Mutant: the index wraps one slot late.
IncreaseNetReceiveBuf_Late(x) == (x + 1) % (NetReceiveBufSize + 1)

IncreaseNetReceiveBuf(x) == (x + 1) % NetReceiveBufSize

\* Mutant: all slots are used, so that a full ring looks empty.
isNetReceiveBufFull_Never == FALSE

isNetReceiveBufFull ==
  IncreaseNetReceiveBuf(NetReceiveBufHeadIndex) = NetReceiveBufTailIndex

isNetReceiveBufEmpty == NetReceiveBufHeadIndex = NetReceiveBufTailIndex

\* The copy runs with interrupts disabled: no other task gets the processor.
IrqEnabled == lwip # "copy"

----------------------------------------------------------------------------
(* The connection task.                                                     *)

Netbufs == BoundedSeq(BoundedSeq(Data, MaxPbufLen) \ {<< >>}, MaxPbufs) \ {<< >>}

\* netconn_recv returned ERR_OK with a chain of pbufs.
Recv ==
  /\ lwip = "recv"
  /\ pbufs' \in Netbufs
  /\ offered + Len(FlattenSeq(pbufs')) <= MaxBytes
  /\ lwip' = "pbuf"
  /\ UNCHANGED <<ring, NetPbuf, left, tlv, c, offered, parsed>>

\* Mutant: the copy loop runs once too often.
PbufBegin_OneTooMany ==
  /\ lwip = "pbuf"
  /\ pbufs # << >>
  /\ NetPbuf' = Head(pbufs)
  /\ left' = Len(Head(pbufs)) + 1
  /\ pbufs' = Tail(pbufs)
  /\ lwip' = "copy"
  /\ UNCHANGED <<ring, tlv, c, offered, parsed>>

\* The next pbuf of the chain: __disable_irq, NetPbuf = q->payload.
PbufBegin ==
  /\ lwip = "pbuf"
  /\ pbufs # << >>
  /\ NetPbuf' = Head(pbufs)
  /\ left' = Len(Head(pbufs))
  /\ pbufs' = Tail(pbufs)
  /\ lwip' = "copy"
  /\ UNCHANGED <<ring, tlv, c, offered, parsed>>

\* One iteration of the copy loop.  With the ring full the byte stays where it
\* is and the iteration is spent.
CopyByte ==
  /\ lwip = "copy"
  /\ left > 0
  /\ left' = left - 1
  /\ offered' = offered + 1
  /\ \/ /\ ~ isNetReceiveBufFull
        /\ NetReceiveBuf' = [NetReceiveBuf EXCEPT ![NetReceiveBufHeadIndex] = Head(NetPbuf)]
        /\ NetReceiveBufHeadIndex' = IncreaseNetReceiveBuf(NetReceiveBufHeadIndex)
        /\ NetPbuf' = Tail(NetPbuf)
     \/ /\ isNetReceiveBufFull
        /\ UNCHANGED <<NetReceiveBuf, NetReceiveBufHeadIndex, NetPbuf>>
  /\ UNCHANGED <<NetReceiveBufTailIndex, lwip, pbufs, tlv, c, parsed>>

\* The loop is done: __enable_irq; what was not copied is lost.
PbufEnd ==
  /\ lwip = "copy"
  /\ left = 0
  /\ NetPbuf' = << >>
  /\ lwip' = "pbuf"
  /\ UNCHANGED <<ring, pbufs, left, tlv, c, offered, parsed>>

\* netbuf_delete, back to netconn_recv.
NetbufDelete ==
  /\ lwip = "pbuf"
  /\ pbufs = << >>
  /\ lwip' = "recv"
  /\ UNCHANGED <<ring, pbufs, NetPbuf, left, tlv, c, offered, parsed>>

----------------------------------------------------------------------------
(* The TLV task.                                                            *)

\* Mutant: the slot is given back before the parser is through with it.
Poll_FreeEarly ==
  /\ IrqEnabled
  /\ tlv = "poll"
  /\ ~ isNetReceiveBufEmpty
  /\ c' = NetReceiveBuf[NetReceiveBufTailIndex]
  /\ NetReceiveBufTailIndex' = IncreaseNetReceiveBuf(NetReceiveBufTailIndex)
  /\ tlv' = "parse"
  /\ UNCHANGED <<NetReceiveBuf, NetReceiveBufHeadIndex, lwip, pbufs, NetPbuf, left, offered, parsed>>

\* The ring is not empty: RxdByte is called with the byte at the tail.  It may
\* block in WriteDataToTXDBUF; with the ring empty the task sleeps two ticks and
\* polls again.
Poll ==
  /\ IrqEnabled
  /\ tlv = "poll"
  /\ ~ isNetReceiveBufEmpty
  /\ c' = NetReceiveBuf[NetReceiveBufTailIndex]
  /\ tlv' = "parse"
  /\ UNCHANGED <<ring, lwip, pbufs, NetPbuf, left, offered, parsed>>

\* RxdByte has returned.
Parsed ==
  /\ IrqEnabled
  /\ tlv = "parse"
  /\ parsed' = c
  /\ NetReceiveBufTailIndex' = IncreaseNetReceiveBuf(NetReceiveBufTailIndex)
  /\ c' = NoByte
  /\ tlv' = "poll"
  /\ UNCHANGED <<NetReceiveBuf, NetReceiveBufHeadIndex, lwip, pbufs, NetPbuf, left, offered>>

----------------------------------------------------------------------------

Init ==
  /\ NetReceiveBuf = [i \in Slots |-> 0]
  /\ NetReceiveBufHeadIndex = 0
  /\ NetReceiveBufTailIndex = 0
  /\ lwip = "recv"
  /\ pbufs = << >>
  /\ NetPbuf = << >>
  /\ left = 0
  /\ tlv = "poll"
  /\ c = NoByte
  /\ offered = 0
  /\ parsed = NoByte

LwipStep == Recv \/ PbufBegin \/ CopyByte \/ PbufEnd \/ NetbufDelete
TlvStep  == Poll \/ Parsed

Next == LwipStep \/ TlvStep

Spec == Init /\ [][Next]_vars

----------------------------------------------------------------------------
(* Properties.                                                              *)

TypeOK ==
  /\ NetReceiveBuf \in [Slots -> Data \cup {0}]
  /\ NetReceiveBufHeadIndex \in Slots
  /\ NetReceiveBufTailIndex \in Slots
  /\ lwip \in {"recv", "pbuf", "copy"}
  /\ pbufs \in Seq(Seq(Data))
  /\ NetPbuf \in Seq(Data)
  /\ left \in Nat
  /\ tlv \in {"poll", "parse"}
  /\ c \in Data \cup {0, NoByte}
  /\ offered \in Nat
  /\ parsed \in Data \cup {0, NoByte}

\* The copy loop never runs past the pbuf it copies from.
CopyWithinPbuf == lwip = "copy" => left <= Len(NetPbuf)

\* While the parser works on a byte (and may be blocked in a reply) its slot is
\* still in the ring and still holds that byte: no copy overtakes it.
ParsedSlotStable ==
  tlv = "parse" =>
    /\ ~ isNetReceiveBufEmpty
    /\ NetReceiveBuf[NetReceiveBufTailIndex] = c

\* The number of bytes in a ring with head h and tail t, the slot of the i-th of
\* them, and the bytes themselves, oldest first.
CountOf(h, t) == IF h >= t THEN h - t ELSE h - t + NetReceiveBufSize

SlotOf(t, i) ==
  IF t + i - 1 < NetReceiveBufSize THEN t + i - 1 ELSE t + i - 1 - NetReceiveBufSize

QueuedOf(buf, h, t) == [i \in 1 .. CountOf(h, t) |-> buf[SlotOf(t, i)]]

Queued == QueuedOf(NetReceiveBuf, NetReceiveBufHeadIndex, NetReceiveBufTailIndex)

Fifo == INSTANCE ByteFifo
        WITH Capacity <- NetReceiveBufSize - 1, q <- Queued

\* The ring implements the bounded queue: bytes reach the parser once, in order,
\* and a byte is dropped only when the ring is full.
RingIsFifo == Fifo!Spec
=============================================================================
