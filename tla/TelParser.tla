------------------------------ MODULE TelParser ------------------------------
(****************************************************************************)
(* The command parser of the TLV task (User/tcp_client.c): RxdByte is       *)
(* called with each byte the server sent, gathers it in RxdTelBuf, throws   *)
(* away bytes that cannot start a telegram, and hands a complete telegram   *)
(* to AnalyCmd.                                                             *)
(*                                                                          *)
(*   telegram = 0x7e | command | length lo, hi | V ... | sum | 0x7e         *)
(*                                                                          *)
(* RxdTelBuf is modelled by its first RxdBytes bytes (the others are dead): *)
(* RxdTelBuf[i] of the C code is RxdTelBuf[i + 1] here, and RxdBytes is its *)
(* length.  All of this state belongs to the TLV task alone, so one call of *)
(* RxdByte is one step.  RXDCmdBuf, CmdBufLength and CmdBuf (reply) are     *)
(* written before they are read in every call that uses them: the model     *)
(* keeps them for the call that wrote them and forgets them with the next.  *)
(****************************************************************************)
EXTENDS Integers, Sequences, Functions, FiniteSetsExt

CONSTANTS MaxTelLength,  \* the longest V accepted: 200 in isVaildTel
          Command,       \* the command bytes isVaildTel accepts
          RxByte,        \* the bytes the server may send
          SN             \* config.SNnumber as eight bytes, high byte first

Byte == 0 .. 255

TEL_FLAG      == 126     \* 0x7e
COMMAND_STOP  == 0
COMMAND_START == 1
COMMAND_ID    == 2

\* The overhead of a telegram beyond V, and what uint8_t loop counters reach.
TelOverhead == 6
LoopLimit   == 256

ASSUME TelAssumption ==
  /\ MaxTelLength \in Nat
  /\ MaxTelLength + TelOverhead < LoopLimit
  /\ Command \subseteq Byte
  /\ {COMMAND_STOP, COMMAND_START, COMMAND_ID} \subseteq Command
  /\ RxByte \subseteq Byte
  /\ SN \in [1 .. 8 -> Byte]

VARIABLES
  RxdTelBuf,     \* the bytes gathered so far
  RXDCmdBuf,     \* what the last call of RxdByte passed to AnalyCmd, or <<>>
  CmdBufLength,  \* the length AnalyCmd worked with in that call, or 0
  reply,         \* what it handed to WriteDataToTXDBUF, <<>> for nothing
  recording,     \* the conversion clock of the AD7606 is running
  resync         \* auxiliary: bytes were skipped on a sum error since the last
                 \* telegram

vars == <<RxdTelBuf, RXDCmdBuf, CmdBufLength, reply, recording, resync>>

----------------------------------------------------------------------------
(* What the parser asks of the bytes it holds.                              *)

getTelLength(b) == b[4] * 256 + b[3]

\* Mutant: the bound on the declared length is missing.
isVaildTel_NoLimit(b) ==
  /\ Len(b) >= 1 => b[1] = TEL_FLAG
  /\ Len(b) >= 2 => b[2] \in Command

\* The header that has arrived is that of a telegram.
isVaildTel(b) ==
  /\ Len(b) >= 1 => b[1] = TEL_FLAG
  /\ Len(b) >= 2 => b[2] \in Command
  /\ Len(b) >= 4 => getTelLength(b) <= MaxTelLength

sumofRxdBuf(b, l) == SumFunctionOnSet(b, 2 .. (l - 2)) % 256

TelEnd(b) == getTelLength(b) + TelOverhead

\* 0: not all there yet, 1: sum error, 2: correct.
isTelComplete(b) ==
  IF Len(b) < 4 \/ Len(b) < TelEnd(b) THEN 0
  ELSE IF b[TelEnd(b)] = TEL_FLAG THEN 2
  ELSE IF b[TelEnd(b) - 1] = sumofRxdBuf(b, TelEnd(b)) THEN 2
  ELSE 1

leftRxdTel(b) == SubSeq(b, 2, Len(b))

From(b, k) == SubSeq(b, k, Len(b))

\* The loop that calls leftRxdTel until isVaildTel holds; nothing is valid.
DropInvalid(b) == From(b, Min({k \in 1 .. (Len(b) + 1) : isVaildTel(From(b, k))}))

----------------------------------------------------------------------------
(* The commands.                                                            *)

\* The loop over CmdBuf[1] to CmdBuf[11] in command_id.
HeadSum(t) == t[2] + t[3] + t[4] + t[5] + t[6] + t[7] + t[8] + t[9] + t[10] + t[11] + t[12]

IdHead == <<TEL_FLAG, COMMAND_ID, 8, 0, SN[1], SN[2], SN[3], SN[4], SN[5], SN[6], SN[7], SN[8]>>

\* Mutant: the sum is kept in a type wider than a byte.
IdReply_WideSum == IdHead \o <<HeadSum(IdHead), TEL_FLAG>>

\* The reply of command_id: the serial number as a telegram.
IdReply == IdHead \o <<HeadSum(IdHead) % 256, TEL_FLAG>>

\* command_start echoes the telegram and starts the converter.
command_start(b) ==
  /\ reply' = b
  /\ CmdBufLength' = Len(b)
  /\ recording' = TRUE

\* command_stop stops the converter and answers nothing.
command_stop(b) ==
  /\ reply' = << >>
  /\ CmdBufLength' = Len(b)
  /\ recording' = FALSE

command_id(b) ==
  /\ reply' = IdReply
  /\ CmdBufLength' = Len(IdReply)
  /\ UNCHANGED recording

\* A command that isVaildTel lets through and AnalyCmd does not handle.
command_ignored(b) ==
  /\ reply' = << >>
  /\ CmdBufLength' = Len(b)
  /\ UNCHANGED recording

AnalyCmd(b) ==
  \/ b[2] = COMMAND_ID /\ command_id(b)
  \/ b[2] = COMMAND_STOP /\ command_stop(b)
  \/ b[2] = COMMAND_START /\ command_start(b)
  \/ b[2] \notin {COMMAND_ID, COMMAND_STOP, COMMAND_START} /\ command_ignored(b)

----------------------------------------------------------------------------
(* RxdByte, by what the switch and isTelComplete find; b is the buffer with *)
(* the new byte appended.                                                   *)

NoCommand ==
  /\ RXDCmdBuf' = << >>
  /\ CmdBufLength' = 0
  /\ reply' = << >>
  /\ UNCHANGED recording

RxdHeader(b) ==
  /\ Len(b) \in {1, 2, 4}
  /\ RxdTelBuf' = DropInvalid(b)
  /\ NoCommand /\ UNCHANGED resync

RxdLengthLow(b) ==
  /\ Len(b) = 3
  /\ RxdTelBuf' = b
  /\ NoCommand /\ UNCHANGED resync

RxdIncomplete(b) ==
  /\ Len(b) >= 5
  /\ isTelComplete(b) = 0
  /\ RxdTelBuf' = b
  /\ NoCommand /\ UNCHANGED resync

\* Mutant: no validity loop after the shift.
RxdSumError_NoLoop(b) ==
  /\ Len(b) >= 5
  /\ isTelComplete(b) = 1
  /\ RxdTelBuf' = leftRxdTel(b)
  /\ resync' = TRUE
  /\ NoCommand

\* Mutant: a sum error empties the buffer.
RxdSumError_Flush(b) ==
  /\ Len(b) >= 5
  /\ isTelComplete(b) = 1
  /\ RxdTelBuf' = << >>
  /\ resync' = TRUE
  /\ NoCommand

RxdSumError(b) ==
  /\ Len(b) >= 5
  /\ isTelComplete(b) = 1
  /\ RxdTelBuf' = DropInvalid(leftRxdTel(b))
  /\ resync' = TRUE
  /\ NoCommand

\* Mutant: RxdBytes is not reset.
RxdComplete_NoReset(b) ==
  /\ Len(b) >= 5
  /\ isTelComplete(b) = 2
  /\ RXDCmdBuf' = b
  /\ AnalyCmd(b)
  /\ RxdTelBuf' = b
  /\ resync' = FALSE

RxdComplete(b) ==
  /\ Len(b) >= 5
  /\ isTelComplete(b) = 2
  /\ RXDCmdBuf' = b
  /\ AnalyCmd(b)
  /\ RxdTelBuf' = << >>
  /\ resync' = FALSE

RxdByte(c) ==
  LET b == Append(RxdTelBuf, c)
  IN  \/ RxdHeader(b)
      \/ RxdLengthLow(b)
      \/ RxdIncomplete(b)
      \/ RxdSumError(b)
      \/ RxdComplete(b)

Init ==
  /\ RxdTelBuf = << >>
  /\ RXDCmdBuf = << >>
  /\ CmdBufLength = 0
  /\ reply = << >>
  /\ recording = FALSE
  /\ resync = FALSE

Next == \E c \in RxByte : RxdByte(c)

Spec == Init /\ [][Next]_vars

----------------------------------------------------------------------------
(* Properties.                                                              *)

TypeOK ==
  /\ RxdTelBuf \in Seq(Byte)
  /\ RXDCmdBuf \in Seq(Byte)
  /\ CmdBufLength \in Nat
  /\ reply \in Seq(Byte)
  /\ recording \in BOOLEAN
  /\ resync \in BOOLEAN

\* The buffer never outgrows the longest telegram isVaildTel admits, whatever
\* the server sends and however often the parser resynchronises; and a length
\* handed to AnalyCmd stays below 256, so that the uint8_t loops of
\* command_start and command_stop end.
BufferBounded ==
  /\ Len(RxdTelBuf) < MaxTelLength + TelOverhead
  /\ Len(RXDCmdBuf) <= MaxTelLength + TelOverhead
  /\ CmdBufLength < LoopLimit

\* Between two bytes the buffer holds a telegram header, even though RxdByte
\* checks it only at some lengths: no telegram is cut out of bytes whose header
\* was never checked.
HeaderChecked == isVaildTel(RxdTelBuf)

\* What AnalyCmd looks at starts with a whole telegram of a known command.
CommandIsTelegram ==
  RXDCmdBuf # << >> =>
    /\ isVaildTel(RXDCmdBuf)
    /\ Len(RXDCmdBuf) >= TelOverhead
    /\ Len(RXDCmdBuf) >= TelEnd(RXDCmdBuf)

\* A telegram is acted on with its last byte: only after a sum error may a
\* complete one lie in the buffer and wait for the byte after it (with which it
\* is then consumed).
CompleteWaitsOnlyAfterSumError == ~ resync => isTelComplete(RxdTelBuf) = 0

\* A start position is dead when no telegram that AnalyCmd would get begins there.
Dead(b) == ~ isVaildTel(b) \/ isTelComplete(b) = 1

\* Whether position j of b is given up with a telegram that RxdByte hands to
\* AnalyCmd: as a byte of the telegram at the front of b or, which happens only
\* when bytes were skipped on a sum error before it, as a byte behind it that
\* RxdBytes = 0 forgets unread.
Consumed(b, j) ==
  /\ RXDCmdBuf' = b
  /\ j <= TelEnd(b) \/ resync

\* What RxdByte gives up, in every branch: it keeps a tail of what it had, and
\* each position before the tail is dead or consumed.  So resynchronisation
\* itself never skips a telegram, and bytes where one may begin are lost in one
\* case only: behind a telegram that is found whole after a sum error, when
\* RxdBytes = 0 (tcp_client.c:439) empties the buffer.  On a stream without sum
\* errors no byte is lost.
LosesOnlyAfterSumError ==
  [][\A c \in RxByte :
       LET b == Append(RxdTelBuf, c)
       IN  RxdByte(c) =>
             \E k \in 1 .. (Len(b) + 1) :
                /\ RxdTelBuf' = From(b, k)
                /\ \A j \in 1 .. (k - 1) : Dead(From(b, j)) \/ Consumed(b, j)]_vars

\* The comment of isTelComplete: 1 for a sum error, 2 for a correct telegram.
\* So what reaches AnalyCmd has the sum it carries.
SumChecked ==
  RXDCmdBuf # << >> =>
    RXDCmdBuf[TelEnd(RXDCmdBuf) - 1] = sumofRxdBuf(RXDCmdBuf, TelEnd(RXDCmdBuf))
=============================================================================
