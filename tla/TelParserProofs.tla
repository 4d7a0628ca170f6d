-------------------------- MODULE TelParserProofs --------------------------
(****************************************************************************)
(* What the command parser guarantees for every limit, command set and      *)
(* input, by the inductive invariant TelInv.                                *)
(****************************************************************************)
EXTENDS TelParser, SequenceTheorems, WellFoundedInduction, TLAPS

\* Every non-empty set of naturals has the least element Min picks.
LEMMA MinIsLeast ==
  ASSUME NEW T \in SUBSET Nat, T # {}
  PROVE  Min(T) \in T /\ \A y \in T : Min(T) <= y
<1> DEFINE R == OpToRel(<, Nat)
<1>1. IsWellFoundedOn(R, Nat)
  BY NatLessThanWellFounded
<1> HIDE DEF R
<1>2. PICK x \in T : \A y \in T : ~ (<<y, x>> \in R)
  BY <1>1, WFMin
<1>3. \A y \in T : ~ (y < x)
  BY <1>2 DEF R, OpToRel
<1>4. \A y \in T : x <= y
  BY <1>3
<1> QED
  BY <1>4 DEF Min

\* A tail of a byte string: its length and its bytes.
LEMMA FromProperties ==
  ASSUME NEW b \in Seq(Byte), NEW k \in 1 .. (Len(b) + 1)
  PROVE  /\ From(b, k) \in Seq(Byte)
         /\ Len(From(b, k)) = Len(b) - k + 1
         /\ \A i \in 1 .. (Len(b) - k + 1) : From(b, k)[i] = b[k + i - 1]
<1>1. Len(b) \in Nat
  BY LenProperties
<1>2. CASE k <= Len(b)
  BY <1>1, <1>2, SubSeqProperties DEF From
<1>3. CASE k = Len(b) + 1
  <2>1. From(b, k) = << >>
    BY <1>1, <1>3, SubSeqEmpty DEF From
  <2>2. << >> \in Seq(Byte) /\ Len(<< >>) = 0
    OBVIOUS
  <2>3. Len(b) - k + 1 = 0
    BY <1>1, <1>3
  <2>4. 1 .. (Len(b) - k + 1) = {}
    BY <2>3
  <2> QED
    BY <2>1, <2>2, <2>3, <2>4
<1> QED
  BY <1>1, <1>2, <1>3

\* Appending a byte leaves the others in place.
LEMMA AppendByte ==
  ASSUME NEW s \in Seq(Byte), NEW c \in Byte
  PROVE  /\ Append(s, c) \in Seq(Byte)
         /\ Len(Append(s, c)) = Len(s) + 1
         /\ \A i \in 1 .. Len(s) : Append(s, c)[i] = s[i]
  BY AppendProperties, LenProperties

\* The loop over leftRxdTel ends, on the longest tail that isVaildTel accepts.
LEMMA DropInvalidProperties ==
  ASSUME NEW b \in Seq(Byte)
  PROVE  \E k \in 1 .. (Len(b) + 1) :
           /\ DropInvalid(b) = From(b, k)
           /\ isVaildTel(From(b, k))
           /\ \A j \in 1 .. (k - 1) : ~ isVaildTel(From(b, j))
<1> DEFINE K == {k \in 1 .. (Len(b) + 1) : isVaildTel(From(b, k))}
<1>0. Len(b) \in Nat
  BY LenProperties
<1>1. isVaildTel(From(b, Len(b) + 1))
  <2>0. Len(b) + 1 \in 1 .. (Len(b) + 1)
    BY <1>0
  <2>1. Len(From(b, Len(b) + 1)) = Len(b) - (Len(b) + 1) + 1
    BY <2>0, FromProperties
  <2> QED
    BY <1>0, <2>1 DEF isVaildTel
<1>2. K \in SUBSET Nat /\ K # {}
  BY <1>0, <1>1
<1>3. Min(K) \in K /\ \A y \in K : Min(K) <= y
  BY <1>2, MinIsLeast
<1>4. DropInvalid(b) = From(b, Min(K))
  BY DEF DropInvalid
<1>5. \A j \in 1 .. (Min(K) - 1) : ~ isVaildTel(From(b, j))
  <2> SUFFICES ASSUME NEW j \in 1 .. (Min(K) - 1), isVaildTel(From(b, j))
               PROVE  FALSE
    OBVIOUS
  <2> HIDE DEF K
  <2>1. Min(K) \in 1 .. (Len(b) + 1)
    BY <1>3 DEF K
  <2>2. j \in 1 .. (Len(b) + 1)
    BY <1>0, <2>1
  <2>3. j \in K
    BY <2>2 DEF K
  <2> QED
    BY <1>0, <1>3, <2>1, <2>3
<1> QED
  BY <1>3, <1>4, <1>5

\* A header that was valid stays valid where RxdByte does not look again: with
\* the third byte, and from the fifth on.
LEMMA HeaderKept ==
  ASSUME NEW s \in Seq(Byte), NEW c \in Byte, isVaildTel(s),
         Len(Append(s, c)) = 3 \/ Len(Append(s, c)) >= 5
  PROVE  isVaildTel(Append(s, c))
<1>1. Len(s) \in Nat
  BY LenProperties
<1>2. /\ Len(Append(s, c)) = Len(s) + 1
      /\ \A i \in 1 .. Len(s) : Append(s, c)[i] = s[i]
  BY AppendByte
<1>3. CASE Len(Append(s, c)) = 3
  BY <1>1, <1>2, <1>3 DEF isVaildTel
<1>4. CASE Len(Append(s, c)) >= 5
  BY <1>1, <1>2, <1>4 DEF isVaildTel, getTelLength
<1> QED
  BY <1>3, <1>4

\* A telegram is at least six bytes and, with a valid header, at most the limit.
LEMMA TelEndBounds ==
  ASSUME NEW b \in Seq(Byte), Len(b) >= 4, isVaildTel(b)
  PROVE  TelEnd(b) \in TelOverhead .. (MaxTelLength + TelOverhead)
<1>1. b[3] \in Byte /\ b[4] \in Byte
  BY ElementOfSeq, LenProperties
<1>2. getTelLength(b) \in 0 .. MaxTelLength
  <2>1. \A x, y \in 0 .. 255 : y * 256 + x \in Nat
    OBVIOUS
  <2>2. getTelLength(b) \in Nat
    BY <1>1, <2>1 DEF getTelLength, Byte
  <2>3. getTelLength(b) <= MaxTelLength
    BY DEF isVaildTel
  <2> QED
    BY <2>2, <2>3, TelAssumption
<1> QED
  BY <1>2, TelAssumption DEF TelEnd, TelOverhead

----------------------------------------------------------------------------
TelInv ==
  /\ TypeOK
  /\ BufferBounded
  /\ HeaderChecked
  /\ CommandIsTelegram
  /\ CompleteWaitsOnlyAfterSumError

\* The empty buffer satisfies the inductive invariant.
LEMMA TelInit == Init => TelInv
<1> SUFFICES ASSUME Init PROVE TelInv
  OBVIOUS
<1>1. << >> \in Seq(Byte) /\ Len(<< >>) = 0
  OBVIOUS
<1>2. isVaildTel(<< >>) /\ isTelComplete(<< >>) = 0
  BY DEF isVaildTel, isTelComplete
<1>3. TypeOK
  BY <1>1 DEF Init, TypeOK
<1>4. BufferBounded
  BY <1>1, TelAssumption DEF Init, BufferBounded, TelOverhead, LoopLimit
<1> QED
  BY <1>2, <1>3, <1>4 DEF Init, TelInv, HeaderChecked, CommandIsTelegram,
     CompleteWaitsOnlyAfterSumError

\* What DropInvalid leaves: shorter, and with a valid header.
LEMMA DropInvalidKeeps ==
  ASSUME NEW b \in Seq(Byte)
  PROVE  /\ DropInvalid(b) \in Seq(Byte)
         /\ Len(DropInvalid(b)) <= Len(b)
         /\ isVaildTel(DropInvalid(b))
<1>1. PICK k \in 1 .. (Len(b) + 1) : DropInvalid(b) = From(b, k) /\ isVaildTel(From(b, k))
  BY DropInvalidProperties
<1>2. Len(b) \in Nat
  BY LenProperties
<1> QED
  BY <1>1, <1>2, FromProperties

\* The identity reply is fourteen bytes.
LEMMA IdReplyType == IdReply \in Seq(Byte) /\ Len(IdReply) = 14
<1>1. \A i \in 1 .. 8 : SN[i] \in 0 .. 255
  BY TelAssumption DEF Byte
<1>2. IdHead \in Seq(Byte) /\ Len(IdHead) = 12
  BY <1>1 DEF IdHead, Byte, TEL_FLAG, COMMAND_ID
<1>3. HeadSum(IdHead) \in Int
  <2>1. \A i \in 1 .. 12 : IdHead[i] \in Int
    <3>1. \A i \in 1 .. 12 : IdHead[i] \in Byte
      BY <1>2, ElementOfSeq
    <3> QED
      BY <3>1 DEF Byte
  <2> HIDE DEF IdHead
  <2>2. /\ IdHead[2] \in Int /\ IdHead[3] \in Int /\ IdHead[4] \in Int
        /\ IdHead[5] \in Int /\ IdHead[6] \in Int /\ IdHead[7] \in Int
        /\ IdHead[8] \in Int /\ IdHead[9] \in Int /\ IdHead[10] \in Int
        /\ IdHead[11] \in Int /\ IdHead[12] \in Int
    BY <2>1
  <2> QED
    BY <2>2 DEF HeadSum
<1>4. HeadSum(IdHead) % 256 \in Byte /\ TEL_FLAG \in Byte
  BY <1>3 DEF Byte, TEL_FLAG
<1> DEFINE end == <<HeadSum(IdHead) % 256, TEL_FLAG>>
<1>5. end \in Seq(Byte) /\ Len(end) = 2
  BY <1>4
<1>6. IdReply = IdHead \o end
  BY DEF IdReply
<1> HIDE DEF IdHead, end
<1>7. IdHead \o end \in Seq(Byte) /\ Len(IdHead \o end) = Len(IdHead) + Len(end)
  BY <1>2, <1>5, ConcatProperties
<1> QED
  BY <1>2, <1>5, <1>6, <1>7

\* The step RxdByte(c) for each outcome of the switch.
LEMMA TelStep ==
  ASSUME TelInv, NEW c \in RxByte, RxdByte(c)
  PROVE  TelInv'
<1> DEFINE b == Append(RxdTelBuf, c)
<1>0. c \in Byte /\ RxdTelBuf \in Seq(Byte) /\ Len(RxdTelBuf) \in Nat
  BY TelAssumption, LenProperties DEF TelInv, TypeOK
<1>1. b \in Seq(Byte) /\ Len(b) = Len(RxdTelBuf) + 1
  BY <1>0, AppendByte
<1>2. isVaildTel(RxdTelBuf) /\ Len(RxdTelBuf) < MaxTelLength + TelOverhead
  BY DEF TelInv, HeaderChecked, BufferBounded
<1>3. Len(b) >= 5 \/ Len(b) = 3 => isVaildTel(b)
  BY <1>0, <1>2, HeaderKept
<1>4. MaxTelLength + TelOverhead \in Nat /\ MaxTelLength + TelOverhead < LoopLimit
      /\ TelOverhead = 6 /\ LoopLimit = 256
  BY TelAssumption DEF TelOverhead, LoopLimit
<1>5. << >> \in Seq(Byte) /\ Len(<< >>) = 0 /\ isVaildTel(<< >>) /\ isTelComplete(<< >>) = 0
  BY DEF isVaildTel, isTelComplete
<1>6. ASSUME NEW d \in Seq(Byte), Len(d) <= 4, isVaildTel(d)
      PROVE  isTelComplete(d) = 0
  <2>1. Len(d) \in Nat
    BY LenProperties
  <2>2. CASE Len(d) < 4
    BY <2>2 DEF isTelComplete
  <2>3. CASE Len(d) >= 4
    <3>1. TelEnd(d) \in TelOverhead .. (MaxTelLength + TelOverhead)
      BY <1>6, <2>3, TelEndBounds
    <3> QED
      BY <1>4, <1>6, <2>1, <3>1 DEF isTelComplete
  <2>4. Len(d) < 4 \/ Len(d) >= 4
    BY <2>1
  <2> QED
    BY <2>2, <2>3, <2>4
<1>7. CASE NoCommand /\ RxdTelBuf' \in Seq(Byte) /\ Len(RxdTelBuf') < MaxTelLength + TelOverhead
           /\ isVaildTel(RxdTelBuf') /\ resync' \in BOOLEAN
           /\ (resync' \/ isTelComplete(RxdTelBuf') = 0)
  BY <1>4, <1>5, <1>7 DEF TelInv, TypeOK, BufferBounded, HeaderChecked, CommandIsTelegram,
     CompleteWaitsOnlyAfterSumError, NoCommand
<1> HIDE DEF b
<1>8. CASE RxdHeader(b)
  <2>1. /\ RxdTelBuf' \in Seq(Byte)
        /\ Len(RxdTelBuf') <= 4
        /\ isVaildTel(RxdTelBuf')
        /\ Len(RxdTelBuf') \in Nat
    BY <1>1, <1>8, DropInvalidKeeps, LenProperties DEF RxdHeader
  <2>2. isTelComplete(RxdTelBuf') = 0
    BY <1>6, <2>1
  <2>3. NoCommand /\ resync' \in BOOLEAN
    BY <1>8 DEF RxdHeader, TelInv, TypeOK
  <2>4. Len(RxdTelBuf') < MaxTelLength + TelOverhead
    BY <1>4, <2>1, TelAssumption
  <2> QED
    BY <1>7, <2>1, <2>2, <2>3, <2>4
<1>9. CASE RxdLengthLow(b)
  <2>1. RxdTelBuf' = b /\ Len(b) = 3 /\ NoCommand /\ resync' \in BOOLEAN
    BY <1>9 DEF RxdLengthLow, TelInv, TypeOK
  <2>2. isVaildTel(b)
    BY <1>3, <2>1
  <2>4. isTelComplete(b) = 0
    BY <2>1 DEF isTelComplete
  <2>3. 3 < MaxTelLength + TelOverhead
    BY <1>4, TelAssumption
  <2> QED
    BY <1>1, <1>7, <2>1, <2>2, <2>3, <2>4
<1>10. CASE RxdIncomplete(b)
  <2>1. RxdTelBuf' = b /\ Len(b) >= 5 /\ isTelComplete(b) = 0 /\ NoCommand /\ resync' \in BOOLEAN
    BY <1>10 DEF RxdIncomplete, TelInv, TypeOK
  <2>2. isVaildTel(b)
    BY <1>3, <2>1
  <2>3. TelEnd(b) \in TelOverhead .. (MaxTelLength + TelOverhead)
    BY <1>0, <1>1, <2>1, <2>2, TelEndBounds
  <2>4. Len(b) < TelEnd(b)
    BY <1>0, <1>1, <2>1 DEF isTelComplete
  <2>5. Len(b) < MaxTelLength + TelOverhead
    BY <1>0, <1>1, <1>4, <2>3, <2>4
  <2> QED
    BY <1>1, <1>7, <2>1, <2>2, <2>5
<1>11. CASE RxdSumError(b)
  <2>1. RxdTelBuf' = DropInvalid(leftRxdTel(b)) /\ Len(b) >= 5 /\ NoCommand /\ resync'
    BY <1>11 DEF RxdSumError
  <2>2. 2 \in 1 .. (Len(b) + 1)
    BY <1>0, <1>1
  <2>3. leftRxdTel(b) \in Seq(Byte) /\ Len(leftRxdTel(b)) = Len(b) - 1
    BY <1>0, <1>1, <2>2, FromProperties DEF leftRxdTel, From
  <2>4. RxdTelBuf' \in Seq(Byte) /\ Len(RxdTelBuf') <= Len(b) - 1 /\ isVaildTel(RxdTelBuf')
    BY <2>1, <2>3, DropInvalidKeeps
  <2>5. Len(RxdTelBuf') \in Nat
    BY <2>4, LenProperties
  <2>6. Len(RxdTelBuf') < MaxTelLength + TelOverhead
    BY <1>0, <1>1, <1>2, <1>4, <2>4, <2>5
  <2>7. resync' = TRUE
    BY <1>11 DEF RxdSumError
  <2> QED
    BY <1>7, <2>1, <2>4, <2>6, <2>7
<1>12. CASE RxdComplete(b)
  <2>1. /\ RXDCmdBuf' = b /\ RxdTelBuf' = << >> /\ resync' = FALSE
        /\ Len(b) >= 5 /\ isTelComplete(b) = 2 /\ AnalyCmd(b)
    BY <1>12 DEF RxdComplete
  <2>2. isVaildTel(b)
    BY <1>3, <2>1
  <2>3. TelEnd(b) \in TelOverhead .. (MaxTelLength + TelOverhead) /\ Len(b) >= TelEnd(b)
    <3>1. TelEnd(b) \in TelOverhead .. (MaxTelLength + TelOverhead)
      BY <1>0, <1>1, <2>1, <2>2, TelEndBounds
    <3>2. ~ (Len(b) < TelEnd(b))
      BY <2>1 DEF isTelComplete
    <3> QED
      BY <1>0, <1>1, <3>1, <3>2, <1>4
  <2>4. Len(b) \in Nat /\ Len(b) <= MaxTelLength + TelOverhead /\ Len(b) >= TelOverhead
    BY <1>0, <1>1, <1>2, <1>4, <2>3
  <2>5. IdReply \in Seq(Byte) /\ Len(IdReply) = 14
    BY IdReplyType
  <2>6. reply' \in {b, << >>, IdReply} /\ CmdBufLength' \in {Len(b), Len(IdReply)}
        /\ recording' \in BOOLEAN
    <3>1. recording \in BOOLEAN
      BY DEF TelInv, TypeOK
    <3> QED
      BY <2>1, <3>1 DEF AnalyCmd, command_id, command_start, command_stop, command_ignored
  <2>7. reply' \in Seq(Byte)
    BY <1>1, <1>5, <2>5, <2>6
  <2>8. CmdBufLength' \in Nat /\ CmdBufLength' < LoopLimit
    BY <1>4, <2>4, <2>5, <2>6
  <2>9. TypeOK'
    BY <1>1, <1>5, <2>1, <2>6, <2>7, <2>8 DEF TypeOK
  <2>10. BufferBounded'
    BY <1>4, <1>5, <2>1, <2>4, <2>8, TelAssumption DEF BufferBounded
  <2>11. HeaderChecked' /\ CommandIsTelegram' /\ CompleteWaitsOnlyAfterSumError'
    BY <1>5, <2>1, <2>2, <2>3, <2>4 DEF HeaderChecked, CommandIsTelegram,
       CompleteWaitsOnlyAfterSumError
  <2> QED
    BY <2>9, <2>10, <2>11 DEF TelInv
<1> QED
  BY <1>8, <1>9, <1>10, <1>11, <1>12 DEF RxdByte, b

\* A stuttering step changes nothing.
LEMMA TelStutter == TelInv /\ UNCHANGED vars => TelInv'
  BY DEF TelInv, vars, TypeOK, BufferBounded, HeaderChecked, CommandIsTelegram,
     CompleteWaitsOnlyAfterSumError

\* TelInv holds in every reachable state.
LEMMA TelInductive == Spec => []TelInv
<1>1. TelInv /\ [Next]_vars => TelInv'
  BY TelStep, TelStutter DEF Next
<1> QED
  BY TelInit, <1>1, PTL DEF Spec

----------------------------------------------------------------------------
\* The parser's state keeps its types: the buffers hold bytes.
THEOREM TelTypeCorrect == Spec => []TypeOK
<1>1. TelInv => TypeOK
  BY DEF TelInv
<1> QED
  BY <1>1, TelInductive, PTL

\* Whatever the server sends, the receive buffer stays within one telegram of
\* the admitted length, and every length AnalyCmd works with ends a uint8_t loop.
THEOREM TelBufferBounded == Spec => []BufferBounded
<1>1. TelInv => BufferBounded
  BY DEF TelInv
<1> QED
  BY <1>1, TelInductive, PTL

\* Checking the header at 1, 2 and 4 bytes and after each shift is enough: what is
\* in the buffer always has a valid one.
THEOREM TelHeaderChecked == Spec => []HeaderChecked
<1>1. TelInv => HeaderChecked
  BY DEF TelInv
<1> QED
  BY <1>1, TelInductive, PTL

\* Only whole telegrams reach AnalyCmd.
THEOREM TelCommandIsTelegram == Spec => []CommandIsTelegram
<1>1. TelInv => CommandIsTelegram
  BY DEF TelInv
<1> QED
  BY <1>1, TelInductive, PTL

\* Without a sum error, no complete telegram waits in the buffer.
THEOREM TelPrompt == Spec => []CompleteWaitsOnlyAfterSumError
<1>1. TelInv => CompleteWaitsOnlyAfterSumError
  BY DEF TelInv
<1> QED
  BY <1>1, TelInductive, PTL

----------------------------------------------------------------------------
\* What a call of RxdByte gives up of the buffer b.
Skipped(b) ==
  \E k \in 1 .. (Len(b) + 1) :
     /\ RxdTelBuf' = From(b, k)
     /\ \A j \in 1 .. (k - 1) : Dead(From(b, j)) \/ Consumed(b, j)

\* The whole is a tail.
LEMMA FromOne ==
  ASSUME NEW b \in Seq(Byte)
  PROVE  From(b, 1) = b
  BY SubSeqFull DEF From

\* A tail of the shifted buffer is a tail of the buffer.
LEMMA FromLeft ==
  ASSUME NEW b \in Seq(Byte), Len(b) >= 1, NEW j \in 1 .. Len(b)
  PROVE  From(leftRxdTel(b), j) = From(b, j + 1)
<1>0. Len(b) \in Nat
  BY LenProperties
<1>1. 2 \in 1 .. (Len(b) + 1)
  BY <1>0
<1>2. /\ leftRxdTel(b) \in Seq(Byte)
      /\ Len(leftRxdTel(b)) = Len(b) - 1
      /\ \A i \in 1 .. (Len(b) - 1) : leftRxdTel(b)[i] = b[i + 1]
  <2>1. leftRxdTel(b) = From(b, 2)
    BY DEF leftRxdTel, From
  <2>2. /\ From(b, 2) \in Seq(Byte)
        /\ Len(From(b, 2)) = Len(b) - 2 + 1
        /\ \A i \in 1 .. (Len(b) - 2 + 1) : From(b, 2)[i] = b[2 + i - 1]
    BY <1>1, FromProperties
  <2>3. Len(b) - 2 + 1 = Len(b) - 1 /\ \A i \in Int : 2 + i - 1 = i + 1
    BY <1>0
  <2> QED
    BY <2>1, <2>2, <2>3
<1>3. j \in 1 .. (Len(leftRxdTel(b)) + 1) /\ j + 1 \in 1 .. (Len(b) + 1)
  BY <1>0, <1>2
<1> DEFINE l == From(leftRxdTel(b), j)
           r == From(b, j + 1)
           n == Len(b) - j
<1>4. /\ l \in Seq(Byte) /\ Len(l) = n
      /\ \A i \in 1 .. n : l[i] = leftRxdTel(b)[j + i - 1]
  BY <1>0, <1>2, <1>3, FromProperties
<1>5. /\ r \in Seq(Byte) /\ Len(r) = n
      /\ \A i \in 1 .. n : r[i] = b[j + 1 + i - 1]
  <2>1. /\ r \in Seq(Byte)
        /\ Len(r) = Len(b) - (j + 1) + 1
        /\ \A i \in 1 .. (Len(b) - (j + 1) + 1) : r[i] = b[j + 1 + i - 1]
    BY <1>3, FromProperties
  <2>2. Len(b) - (j + 1) + 1 = n
    BY <1>0
  <2> HIDE DEF r, n
  <2> QED
    BY <2>1, <2>2
<1>6. ASSUME NEW i \in 1 .. n PROVE l[i] = r[i]
  <2>1. j + i - 1 \in 1 .. (Len(b) - 1) /\ j + i - 1 + 1 = j + 1 + i - 1
    BY <1>0
  <2> QED
    BY <1>2, <1>4, <1>5, <2>1
<1> HIDE DEF l, r
<1>7. \A i \in 1 .. Len(l) : l[i] = r[i]
  BY <1>4, <1>6
<1>8. Len(l) = Len(r)
  BY <1>4, <1>5
<1>9. l = r
  BY <1>4, <1>5, <1>7, <1>8, SeqEqual
<1> QED
  BY <1>9 DEF l, r

\* Without a sum error before it, a telegram is handed over with its last byte:
\* nothing lies behind it.
LEMMA CompleteIsExact ==
  ASSUME TelInv, NEW c \in Byte, ~ resync, RxdComplete(Append(RxdTelBuf, c))
  PROVE  Len(Append(RxdTelBuf, c)) <= TelEnd(Append(RxdTelBuf, c))
<1> DEFINE b == Append(RxdTelBuf, c)
<1>1. RxdTelBuf \in Seq(Byte) /\ Len(RxdTelBuf) \in Nat
  BY LenProperties DEF TelInv, TypeOK
<1>2. b \in Seq(Byte) /\ Len(b) = Len(RxdTelBuf) + 1 /\ \A i \in 1 .. Len(RxdTelBuf) : b[i] = RxdTelBuf[i]
  BY <1>1, AppendByte
<1>3. Len(b) >= 5
  BY DEF RxdComplete, b
<1> HIDE DEF b
<1>4. Len(RxdTelBuf) >= 4 /\ 3 \in 1 .. Len(RxdTelBuf) /\ 4 \in 1 .. Len(RxdTelBuf)
  BY <1>1, <1>2, <1>3
<1>5. TelEnd(b) = TelEnd(RxdTelBuf)
  BY <1>2, <1>4 DEF TelEnd, getTelLength
<1>6. TelEnd(RxdTelBuf) \in Nat
  <2>1. TelEnd(RxdTelBuf) \in TelOverhead .. (MaxTelLength + TelOverhead)
    BY <1>1, <1>4, TelEndBounds DEF TelInv, HeaderChecked
  <2> QED
    BY <2>1, TelAssumption DEF TelOverhead
<1>7. isTelComplete(RxdTelBuf) = 0
  BY DEF TelInv, CompleteWaitsOnlyAfterSumError
<1>8. Len(RxdTelBuf) < TelEnd(RxdTelBuf)
  BY <1>1, <1>4, <1>7 DEF isTelComplete
<1>9. Len(b) <= TelEnd(b)
  BY <1>1, <1>2, <1>5, <1>6, <1>8
<1> QED
  BY <1>9 DEF b

\* Every position a step of the parser gives up is dead or consumed.
LEMMA SkippedStep ==
  ASSUME TelInv, NEW c \in RxByte, RxdByte(c)
  PROVE  Skipped(Append(RxdTelBuf, c))
<1> DEFINE b == Append(RxdTelBuf, c)
<1>0. c \in Byte /\ RxdTelBuf \in Seq(Byte) /\ Len(RxdTelBuf) \in Nat
  BY TelAssumption, LenProperties DEF TelInv, TypeOK
<1>1. b \in Seq(Byte) /\ Len(b) = Len(RxdTelBuf) + 1 /\ Len(b) \in Nat
  BY <1>0, AppendByte
<1> SUFFICES Skipped(b)
  OBVIOUS
<1> HIDE DEF b
<1>2. CASE RxdHeader(b)
  <2>1. PICK k \in 1 .. (Len(b) + 1) :
           /\ DropInvalid(b) = From(b, k)
           /\ \A j \in 1 .. (k - 1) : ~ isVaildTel(From(b, j))
    BY <1>1, DropInvalidProperties
  <2> QED
    BY <1>2, <2>1 DEF RxdHeader, Skipped, Dead
<1>3. CASE RxdTelBuf' = b
  <2>1. 1 \in 1 .. (Len(b) + 1) /\ 1 .. (1 - 1) = {}
    BY <1>1
  <2>2. From(b, 1) = b
    BY <1>1, FromOne
  <2> QED
    BY <1>3, <2>1, <2>2 DEF Skipped
<1>4. CASE RxdSumError(b)
  <2>1. 2 \in 1 .. (Len(b) + 1)
    BY <1>0, <1>1
  <2>2. leftRxdTel(b) \in Seq(Byte) /\ Len(leftRxdTel(b)) = Len(b) - 1
    BY <1>0, <1>1, <2>1, FromProperties DEF leftRxdTel, From
  <2>3. PICK k \in 1 .. (Len(leftRxdTel(b)) + 1) :
           /\ DropInvalid(leftRxdTel(b)) = From(leftRxdTel(b), k)
           /\ \A j \in 1 .. (k - 1) : ~ isVaildTel(From(leftRxdTel(b), j))
    BY <2>2, DropInvalidProperties
  <2>4. k \in 1 .. Len(b) /\ k + 1 \in 1 .. (Len(b) + 1)
    BY <1>1, <2>2, <2>3
  <2>5. Len(b) >= 1
    BY <1>0, <1>1
  <2>6. RxdTelBuf' = From(b, k + 1)
    BY <1>1, <1>4, <2>3, <2>4, <2>5, FromLeft DEF RxdSumError
  <2>7. ASSUME NEW j \in 1 .. (k + 1 - 1) PROVE Dead(From(b, j))
    <3>1. CASE j = 1
      BY <1>1, <1>4, <3>1, FromOne DEF RxdSumError, Dead
    <3>2. CASE j > 1
      <4>1. j - 1 \in 1 .. (k - 1) /\ j - 1 \in 1 .. Len(b) /\ (j - 1) + 1 = j
        BY <1>1, <2>4, <3>2
      <4>2. From(leftRxdTel(b), j - 1) = From(b, j)
        BY <1>1, <2>5, <4>1, FromLeft
      <4> QED
        BY <2>3, <4>1, <4>2 DEF Dead
    <3> QED
      BY <2>4, <3>1, <3>2
  <2> QED
    BY <2>4, <2>6, <2>7 DEF Skipped
<1>5. CASE RxdComplete(b)
  <2>1. Len(b) + 1 \in 1 .. (Len(b) + 1)
    BY <1>1
  <2>2. RxdTelBuf' = From(b, Len(b) + 1)
    BY <1>1, <1>5, <2>1, SubSeqEmpty DEF RxdComplete, From
  <2>3. RXDCmdBuf' = b
    BY <1>5 DEF RxdComplete
  <2>4. resync \/ Len(b) <= TelEnd(b)
    BY <1>0, <1>5, CompleteIsExact DEF b
  <2>5. ASSUME NEW j \in 1 .. (Len(b) + 1 - 1) PROVE Consumed(b, j)
    <3>1. CASE resync
      BY <2>3, <3>1 DEF Consumed
    <3>2. CASE ~ resync
      <4>1. Len(b) <= TelEnd(b)
        BY <2>4, <3>2
      <4>2. Len(b) >= 4 /\ isVaildTel(b)
        <5>1. Len(b) >= 5
          BY <1>5 DEF RxdComplete
        <5> QED
          BY <1>0, <1>1, <5>1, HeaderKept DEF b, TelInv, HeaderChecked
      <4>3. TelEnd(b) \in TelOverhead .. (MaxTelLength + TelOverhead)
        BY <1>1, <4>2, TelEndBounds
      <4>4. j <= TelEnd(b)
        BY <1>1, <4>1, <4>3, TelAssumption DEF TelOverhead
      <4> QED
        BY <2>3, <4>4 DEF Consumed
    <3> QED
      BY <3>1, <3>2
  <2> QED
    BY <2>1, <2>2, <2>5 DEF Skipped
<1>6. RxdHeader(b) \/ RxdTelBuf' = b \/ RxdSumError(b) \/ RxdComplete(b)
  BY DEF RxdByte, RxdLengthLow, RxdIncomplete, b
<1> QED
  BY <1>2, <1>3, <1>4, <1>5, <1>6 DEF b

\* What RxdByte gives up is dead, or belongs to the telegram it hands over, or,
\* only after a sum error, lies behind that telegram.
THEOREM TelLosesOnlyAfterSumError == Spec => LosesOnlyAfterSumError
<1>1. TelInv => [\A c \in RxByte :
       LET b == Append(RxdTelBuf, c)
       IN  RxdByte(c) =>
             \E k \in 1 .. (Len(b) + 1) :
                /\ RxdTelBuf' = From(b, k)
                /\ \A j \in 1 .. (k - 1) : Dead(From(b, j)) \/ Consumed(b, j)]_vars
  BY SkippedStep DEF Skipped
<1> QED
  BY <1>1, TelInductive, PTL DEF LosesOnlyAfterSumError
=============================================================================
