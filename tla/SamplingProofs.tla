--------------------------- MODULE SamplingProofs ---------------------------
(****************************************************************************)
(* The safety properties of Sampling for every size of a half, a second and *)
(* a wave frame, every set of channels and every decimation that divides    *)
(* the second.                                                              *)
(****************************************************************************)
EXTENDS Sampling, FiniteSetTheorems, TLAPS

\* The task's counters: it has rows left while it runs, and of each channel at
\* most one sample was stored for each row of the second.
Counting ==
  /\ task = "run" => j < Half
  /\ \A i \in Channel : StoreDateIndex[i] <= ActualIndex

\* The rows of the current round and, behind them, of the round before.
RowsInOrder ==
  /\ stored = AD7606DataCounter \/ stored >= AD7606DataCounter + 2 * Half
  /\ \A r \in Rows :
       /\ r < AD7606DataCounter => Ad7606_Data[r] = stored - AD7606DataCounter + r + 1
       /\ (r >= AD7606DataCounter /\ stored >= 2 * Half) =>
            Ad7606_Data[r] = stored - AD7606DataCounter - 2 * Half + r + 1

\* The conversions in completed halves.
Complete ==
  stored - IF AD7606DataCounter < Half THEN AD7606DataCounter ELSE AD7606DataCounter - Half

\* As long as the task keeps up, the half announced is the one completed last, and
\* the task has processed all before it, or all of it.
InStep ==
  ~ late =>
    /\ Complete > 0 =>
         CurrentAD7606DataCounter = IF AD7606DataCounter < Half THEN Half ELSE 0
    /\ AD7606_ready => task = "wait"
    /\ AD7606_ready \/ task # "wait" => Complete > 0
    /\ task = "run" => p = CurrentAD7606DataCounter
    /\ task = "run" => processed = Complete - Half + j
    /\ (task = "taken" \/ AD7606_ready) => processed = Complete - Half
    /\ (task = "wait" /\ ~ AD7606_ready) => processed = Complete

\* Each channel keeps one row of sparse_index and starts afresh with the second.
Decimated ==
  \A i \in Channel :
    /\ sprase_counter[i] < sparse_index[i]
    /\ ActualIndex = StoreDateIndex[i] * sparse_index[i] + sprase_counter[i]

\* The points of a frame are sparse_index rows apart.
Spaced ==
  ~ late =>
    \A i \in Channel : \A k \in 1 .. (Len(WaveToSend[i]) - 1) :
      WaveToSend[i][k + 1] = WaveToSend[i][k] + sparse_index[i]

\* They are rows the task has met.
Points ==
  ~ late =>
    \A i \in Channel : \A k \in 1 .. Len(WaveToSend[i]) :
      WaveToSend[i][k] >= 1 /\ WaveToSend[i][k] <= processed

\* The last point of an unfinished frame is as old as the decimation counter says.
LastPoint ==
  ~ late =>
    \A i \in SendChannel :
      WaveToSend[i] # << >> => WaveToSend[i][Len(WaveToSend[i])] = processed - sprase_counter[i]

\* The conversions before the current second.
Before == processed - ActualIndex

\* The current block has the samples of this second, the other one those of the
\* second before.
Blocks ==
  ~ late =>
    /\ \E n \in Nat : Before = n * ADfrequence
    /\ \A i \in Channel : \A k \in 0 .. (StoreDateIndex[i] - 1) :
         emu_data[currentSAMPLEblock][i][k] = Before + (k + 1) * sparse_index[i]
    /\ Before > 0 =>
         \A i \in Channel : \A k \in 0 .. (ADfrequence \div sparse_index[i] - 1) :
           emu_data[1 - currentSAMPLEblock][i][k] = Before - ADfrequence + (k + 1) * sparse_index[i]

\* No channel has stored more than its share of a second in either block.
Unwritten ==
  \A b \in {0, 1} : \A i \in Channel : \A k \in Index :
    k >= ADfrequence \div sparse_index[i] => emu_data[b][i][k] = 0

\* Rows are stored in the order of their conversions, and before the one under
\* transfer, which was made before the one in the converter.
Stamped ==
  /\ Len(when) = stored
  /\ \A x, y \in 1 .. stored : x < y => when[x] < when[y]
  /\ \A x \in 1 .. stored : when[x] <= clock
  /\ transfer => reading <= clock /\ \A x \in 1 .. stored : when[x] < reading
  /\ busy => converted <= clock /\ \A x \in 1 .. stored : when[x] < converted
  /\ busy /\ transfer => reading < converted

\* Every period gave a row, or is lost, or has its conversion under way.
Accounted ==
  \A t \in 1 .. clock :
    \/ t \in lost
    \/ \E x \in 1 .. stored : when[x] = t
    \/ busy /\ t = converted
    \/ transfer /\ t = reading

\* Rows between which nothing is lost are on time.
Exact == \A x, y \in 1 .. stored : x < y => (NoneLost(x, y) => OnTime(x, y))

\* As long as the evaluation keeps up, it is at work on the other block.
Evaluating ==
  (~ late /\ ~ emuLate) =>
    /\ SAMPLEDATA_ready => emu = "wait"
    /\ (SAMPLEDATA_ready \/ emu # "wait") => Before > 0
    /\ emu = "run" => SAMPLEblock = 1 - currentSAMPLEblock

SamplingInv ==
  /\ TypeOK /\ Counting
  /\ RowsInOrder /\ InStep
  /\ Decimated /\ Spaced /\ LastPoint /\ Points
  /\ Blocks /\ Evaluating /\ Unwritten
  /\ Stamped /\ Accounted /\ Exact
----------------------------------------------------------------------------
(* Types.                                                                   *)

\* What a row leaves in the variables the processing task writes.
LEMMA RowTypes ==
  ASSUME TypeOK, Counting, Row
  PROVE  /\ p + j \in Rows
         /\ processed' \in Nat
         /\ emu_data' \in [{0, 1} -> [Channel -> [Index -> Nat]]]
         /\ WaveToSend' \in [Channel -> Seq(Nat)]
         /\ wave_packege_flag' \in Nat /\ wave_packege_flag' < 65536
         /\ task' \in {"wait", "run"} /\ j' \in 0 .. Half /\ (task' = "run" => j' < Half)
<1> USE SamplingAssumption
<1> DEFINE y == Ad7606_Data[p + j]
<1>1. p + j \in Rows
  BY DEF TypeOK, Counting, Row, Rows, Half
<1>2. y \in Nat
  BY <1>1 DEF TypeOK
<1>3. emu_data' \in [{0, 1} -> [Channel -> [Index -> Nat]]]
  <2>1. emu_data[currentSAMPLEblock] \in [Channel -> [Index -> Nat]]
    BY DEF TypeOK
  <2>2. \A i \in Channel : [emu_data[currentSAMPLEblock][i] EXCEPT ![StoreDateIndex[i]] = y] \in [Index -> Nat]
    BY <1>2, <2>1
  <2>3. emu_data' = [emu_data EXCEPT ![currentSAMPLEblock] =
                 [i \in Channel |->
                    IF i \in Due THEN [emu_data[currentSAMPLEblock][i] EXCEPT ![StoreDateIndex[i]] = y]
                                 ELSE emu_data[currentSAMPLEblock][i]]]
    BY DEF Row, UpdateAccelerationData
  <2>4. emu_data \in [{0, 1} -> [Channel -> [Index -> Nat]]] /\ currentSAMPLEblock \in {0, 1}
    BY DEF TypeOK
  <2> QED
    BY <2>1, <2>2, <2>3, <2>4
<1>4. \A i \in Channel : Extended(i, y) \in Seq(Nat)
  BY <1>2 DEF Extended, TypeOK
<1>5. WaveToSend' \in [Channel -> Seq(Nat)]
  BY <1>4 DEF Row, UpdateWave
<1>6. wave_packege_flag' \in Nat /\ wave_packege_flag' < 65536
  <2>1. Cardinality(FullFrames(y)) \in Nat
    BY FS_Subset, FS_CardinalityType DEF FullFrames
  <2> QED
    BY <2>1 DEF Row, UpdateWave, TypeOK
<1>7. task' \in {"wait", "run"} /\ j' \in 0 .. Half /\ (task' = "run" => j' < Half)
  BY DEF Row, TypeOK, Counting, Half
<1> QED
  BY <1>1, <1>2, <1>3, <1>5, <1>6, <1>7 DEF Row

\* Types and counters are preserved by every step.
LEMMA TypeStep == TypeOK /\ Counting /\ [Next]_vars => TypeOK' /\ Counting'
<1> SUFFICES ASSUME TypeOK, Counting, [Next]_vars
             PROVE  TypeOK' /\ Counting'
  OBVIOUS
<1>0. Half \in Nat /\ Half > 0 /\ ADfrequence \in Nat /\ ADfrequence > 0
  BY SamplingAssumption DEF Half
<1>1. CASE AD7606_StartRecord
  <2>1. /\ recording' \in BOOLEAN /\ clock' = clock + 1 /\ lost' = lost \cup {clock + 1}
        /\ UNCHANGED <<busy, transfer, converted, reading, rows, AD7606_ready, late, task, proc, SAMPLEDATA_ready, emuLate, eval>>
    BY <1>1 DEF AD7606_StartRecord
  <2>2. clock' \in Nat /\ lost' \subseteq Nat
    BY <2>1 DEF TypeOK
  <2> QED
    BY <2>1, <2>2 DEF TypeOK, Counting, rows, proc, eval
<1>2. CASE AD7606_StopRecord
  <2>1. recording' \in BOOLEAN /\ UNCHANGED <<busy, transfer, timing, rows, AD7606_ready, late, task, proc, SAMPLEDATA_ready, emuLate, eval>>
    BY <1>2 DEF AD7606_StopRecord
  <2> QED
    BY <2>1 DEF TypeOK, Counting, timing, rows, proc, eval
<1>3. CASE Convst
  <2>1. /\ busy' \in BOOLEAN /\ clock' = clock + 1 /\ converted' = clock + 1
        /\ UNCHANGED <<recording, transfer, reading, lost, rows, AD7606_ready, late, task, proc, SAMPLEDATA_ready, emuLate, eval>>
    BY <1>3 DEF Convst
  <2>2. clock' \in Nat /\ converted' \in Nat
    BY <2>1 DEF TypeOK
  <2> QED
    BY <2>1, <2>2 DEF TypeOK, Counting, rows, proc, eval
<1>4. CASE AD7606_ReadNowAdc
  <2>1. /\ busy' = FALSE
        /\ UNCHANGED <<recording, clock, converted, rows, AD7606_ready, late, task, proc, SAMPLEDATA_ready, emuLate, eval>>
    BY <1>4 DEF AD7606_ReadNowAdc
  <2>2. /\ transfer' = TRUE \/ (transfer /\ transfer' = transfer)
        /\ reading' \in {reading, converted} /\ lost' \subseteq lost \cup {converted}
    BY <1>4 DEF AD7606_ReadNowAdc, ReadStarts, ReadRefused
  <2>3. transfer' \in BOOLEAN
    <3>1. transfer \in BOOLEAN
      BY DEF TypeOK
    <3> QED
      BY <2>2, <3>1
  <2>4. reading' \in Nat /\ lost' \subseteq Nat
    BY <2>2 DEF TypeOK
  <2>5. busy' \in BOOLEAN
    BY <2>1
  <2>6. UNCHANGED <<recording, clock, converted, rows, AD7606_ready, late, task, proc, SAMPLEDATA_ready, emuLate, eval>>
    BY <2>1
  <2> QED
    BY <2>3, <2>4, <2>5, <2>6 DEF TypeOK, Counting, rows, proc, eval
<1>5. CASE HAL_SPI_ErrorCallback
  <2>1. /\ transfer' \in BOOLEAN /\ lost' = lost \cup {reading}
        /\ UNCHANGED <<recording, busy, clock, converted, reading, rows, AD7606_ready, late, task, proc, SAMPLEDATA_ready, emuLate, eval>>
    BY <1>5 DEF HAL_SPI_ErrorCallback
  <2>2. lost' \subseteq Nat
    BY <2>1 DEF TypeOK
  <2> QED
    BY <2>1, <2>2 DEF TypeOK, Counting, rows, proc, eval
<1>6. CASE HAL_SPI_TxRxCpltCallback
  <2>1. /\ transfer' \in BOOLEAN
        /\ Ad7606_Data' = [Ad7606_Data EXCEPT ![AD7606DataCounter] = stored + 1]
        /\ stored' = stored + 1 /\ when' = Append(when, reading)
        /\ UNCHANGED <<recording, busy, timing, task, proc, SAMPLEDATA_ready, emuLate, eval>>
    BY <1>6 DEF HAL_SPI_TxRxCpltCallback, StoreRow, StoreFirstHalf, StoreSecondHalf, Store
  <2>2. Ad7606_Data' \in [Rows -> Nat] /\ stored' \in Nat /\ when' \in Seq(Nat)
    BY <2>1 DEF TypeOK
  <2>3. AD7606DataCounter' \in Rows
    <3>1. \/ AD7606DataCounter + 1 \notin {Half, 2 * Half} /\ AD7606DataCounter' = AD7606DataCounter + 1
          \/ AD7606DataCounter' \in {Half, 0}
      BY <1>6 DEF HAL_SPI_TxRxCpltCallback, StoreRow, StoreFirstHalf, StoreSecondHalf, Store
    <3> QED
      BY <1>0, <3>1 DEF TypeOK, Rows
  <2>4. /\ CurrentAD7606DataCounter' \in {0, Half}
        /\ AD7606_ready' \in BOOLEAN /\ late' \in BOOLEAN
    <3>1. \/ UNCHANGED <<CurrentAD7606DataCounter, AD7606_ready, late>>
          \/ CurrentAD7606DataCounter' \in {0, Half} /\ AD7606_ready' \in BOOLEAN /\ late' \in BOOLEAN
      BY <1>6 DEF HAL_SPI_TxRxCpltCallback, StoreRow, StoreFirstHalf, StoreSecondHalf, GiveHalf
    <3> QED
      BY <3>1 DEF TypeOK
  <2> QED
    BY <2>1, <2>2, <2>3, <2>4 DEF TypeOK, Counting, timing, proc, eval
<1>9. CASE TakeHalf
  <2>1. /\ AD7606_ready' \in BOOLEAN /\ task' = "taken"
        /\ UNCHANGED <<adc, late, proc, SAMPLEDATA_ready, emuLate, eval>>
    BY <1>9 DEF TakeHalf
  <2> QED
    BY <2>1 DEF TypeOK, Counting, adc, timing, rows, proc, eval
<1>10. CASE PointToHalf
  BY <1>0, <1>10 DEF TypeOK, Counting, PointToHalf, adc, timing, rows, eval
<1>7. CASE RowWithinSecond
  <2>1. Row
    BY <1>7 DEF RowWithinSecond
  <2>2. ActualIndex' \in Index /\ ActualIndex' = ActualIndex + 1
    BY <1>0, <1>7 DEF RowWithinSecond, TypeOK, Index
  <2>3. sprase_counter' \in [Channel -> Nat]
    BY <1>7 DEF RowWithinSecond, TypeOK
  <2>4. \A i \in Channel : StoreDateIndex'[i] \in Nat /\ StoreDateIndex'[i] <= StoreDateIndex[i] + 1
    BY <1>0, <1>7 DEF RowWithinSecond, TypeOK, Index
  <2>5. \A i \in Channel : StoreDateIndex'[i] \in Index /\ StoreDateIndex'[i] <= ActualIndex'
    BY <1>0, <2>2, <2>4 DEF Counting, TypeOK, Index
  <2>6. StoreDateIndex' \in [Channel -> Index]
    BY <1>7, <2>5 DEF RowWithinSecond
  <2>7. UNCHANGED <<currentSAMPLEblock, SAMPLEDATA_ready, emuLate>>
    BY <1>7 DEF RowWithinSecond
  <2>8. UNCHANGED <<adc, AD7606_ready, late, p, eval>>
    BY <2>1 DEF Row
  <2> QED
    BY <2>1, <2>2, <2>3, <2>5, <2>6, <2>7, <2>8, RowTypes DEF TypeOK, Counting, adc, timing, rows, eval
<1>8. CASE RowEndsSecond
  <2>1. Row
    BY <1>8 DEF RowEndsSecond
  <2>2. ActualIndex' = 0 /\ ActualIndex' \in Index
    BY <1>0, <1>8 DEF RowEndsSecond, Index
  <2>3. /\ sprase_counter' \in [Channel -> Nat]
        /\ StoreDateIndex' \in [Channel -> Index]
        /\ \A i \in Channel : StoreDateIndex'[i] <= ActualIndex'
    BY <1>0, <1>8, <2>2 DEF RowEndsSecond, Index
  <2>4. /\ currentSAMPLEblock' \in {0, 1}
        /\ SAMPLEDATA_ready' \in BOOLEAN /\ emuLate' \in BOOLEAN
    BY <1>8 DEF RowEndsSecond, TypeOK
  <2>5. UNCHANGED <<adc, AD7606_ready, late, p, eval>>
    BY <2>1 DEF Row
  <2> QED
    BY <2>1, <2>2, <2>3, <2>4, <2>5, RowTypes DEF TypeOK, Counting, adc, timing, rows, eval
<1>11. CASE TakeBlock
  <2>1. /\ SAMPLEDATA_ready' \in BOOLEAN /\ emu' = "taken"
        /\ UNCHANGED <<adc, AD7606_ready, late, task, proc, emuLate, SAMPLEblock>>
    BY <1>11 DEF TakeBlock
  <2> QED
    BY <2>1 DEF TypeOK, Counting, adc, timing, rows, proc
<1>12. CASE EmuData
  BY <1>12 DEF TypeOK, Counting, EmuData, adc, timing, rows, proc
<1>13. CASE EmuDone
  BY <1>13 DEF TypeOK, Counting, EmuDone, adc, timing, rows, proc
<1>14. CASE UNCHANGED vars
  BY <1>14 DEF TypeOK, Counting, vars, adc, timing, rows, proc, eval
<1> QED
  BY <1>1, <1>2, <1>3, <1>4, <1>5, <1>6, <1>7, <1>8, <1>9, <1>10, <1>11, <1>12, <1>13, <1>14
  DEF Next, AD7606_TASK, DATA_EMU_TASK

\* The initial values have their types.
LEMMA InitTypes == Init => TypeOK /\ Counting
<1> SUFFICES ASSUME Init PROVE TypeOK /\ Counting
  OBVIOUS
<1>1. Half \in Nat /\ Half > 0 /\ ADfrequence \in Nat /\ ADfrequence > 0
  BY SamplingAssumption DEF Half
<1>2. emu_data \in [{0, 1} -> [Channel -> [Index -> Nat]]]
  BY DEF Init
<1>3. WaveToSend \in [Channel -> Seq(Nat)]
  BY DEF Init
<1>4. /\ sprase_counter \in [Channel -> Nat] /\ StoreDateIndex \in [Channel -> Index]
      /\ \A i \in Channel : StoreDateIndex[i] <= ActualIndex
      /\ ActualIndex \in Index
  BY <1>1 DEF Init, Index
<1>5. Ad7606_Data \in [Rows -> Nat] /\ 0 \in Rows
  BY <1>1 DEF Init, Rows
<1> QED
  <2>1. /\ recording \in BOOLEAN /\ busy \in BOOLEAN /\ transfer \in BOOLEAN
        /\ AD7606_ready \in BOOLEAN /\ SAMPLEDATA_ready \in BOOLEAN
        /\ late \in BOOLEAN /\ emuLate \in BOOLEAN
    BY DEF Init
  <2>2. /\ AD7606DataCounter = 0 /\ CurrentAD7606DataCounter = 0
        /\ task = "wait" /\ p = 0 /\ j = 0 /\ wave_packege_flag = 0
        /\ currentSAMPLEblock = 0 /\ emu = "wait" /\ SAMPLEblock = 0
        /\ stored = 0 /\ processed = 0
    BY DEF Init
  <2>3. clock = 0 /\ converted = 0 /\ reading = 0 /\ when = << >> /\ lost = {}
    BY DEF Init
  <2>4. clock \in Nat /\ converted \in Nat /\ reading \in Nat /\ when \in Seq(Nat) /\ lost \subseteq Nat
    BY <2>3
  <2> QED
    BY <1>1, <1>2, <1>3, <1>4, <1>5, <2>1, <2>2, <2>4 DEF TypeOK, Counting

\* Every variable keeps its type.
THEOREM TypeCorrect == Spec => []TypeOK
  BY InitTypes, TypeStep, PTL DEF Spec
----------------------------------------------------------------------------
(* The two halves and the task.                                             *)

\* What the assumption says of the sizes and rates.
LEMMA Sizes ==
  /\ Half \in Nat /\ Half > 0
  /\ ADfrequence \in Nat /\ ADfrequence > 0
  /\ \A i \in Channel : sparse_index[i] \in Nat /\ sparse_index[i] > 0 /\ ADfrequence % sparse_index[i] = 0
  /\ SendChannel \subseteq Channel
BY SamplingAssumption DEF Half

\* Who writes the rows, the semaphore between interrupt and task, and the
\* variables of the task.
LEMMA Writers ==
  [Next]_vars =>
    \/ HAL_SPI_TxRxCpltCallback
    \/ TakeHalf \/ PointToHalf \/ RowWithinSecond \/ RowEndsSecond
    \/ UNCHANGED <<rows, AD7606_ready, late, task, proc>>
<1> SUFFICES ASSUME [Next]_vars, ~ HAL_SPI_TxRxCpltCallback, ~ AD7606_TASK
             PROVE  UNCHANGED <<rows, AD7606_ready, late, task, proc>>
  BY DEF AD7606_TASK
<1>1. CASE UNCHANGED vars
  BY <1>1 DEF vars, adc
<1> QED
  BY <1>1 DEF Next, AD7606_StartRecord, AD7606_StopRecord, Convst, AD7606_ReadNowAdc, HAL_SPI_ErrorCallback,
              DATA_EMU_TASK, TakeBlock, EmuData, EmuDone, adc

\* What the interrupt does to the rows.
LEMMA StoreFacts ==
  ASSUME TypeOK, HAL_SPI_TxRxCpltCallback
  PROVE  /\ Ad7606_Data' = [Ad7606_Data EXCEPT ![AD7606DataCounter] = stored + 1]
         /\ stored' = stored + 1
         /\ AD7606DataCounter' = IF AD7606DataCounter + 1 = 2 * Half THEN 0 ELSE AD7606DataCounter + 1
         /\ UNCHANGED <<task, proc, SAMPLEDATA_ready, emuLate, eval>>
         /\ late => late'
<1>1. Half \in Nat /\ Half > 0 /\ AD7606DataCounter \in Nat /\ 2 * Half # Half
  BY Sizes DEF TypeOK, Rows
<1>2. /\ Ad7606_Data' = [Ad7606_Data EXCEPT ![AD7606DataCounter] = stored + 1]
      /\ stored' = stored + 1
      /\ UNCHANGED <<task, proc, SAMPLEDATA_ready, emuLate, eval>>
  BY DEF HAL_SPI_TxRxCpltCallback, StoreRow, StoreFirstHalf, StoreSecondHalf, Store
<1>3. late => late'
  BY DEF HAL_SPI_TxRxCpltCallback, StoreRow, StoreFirstHalf, StoreSecondHalf, GiveHalf
<1>4. AD7606DataCounter' = IF AD7606DataCounter + 1 = 2 * Half THEN 0 ELSE AD7606DataCounter + 1
  BY <1>1 DEF HAL_SPI_TxRxCpltCallback, StoreRow, StoreFirstHalf, StoreSecondHalf, Store
<1> QED
  BY <1>2, <1>3, <1>4

\* Each row stored takes its place in the order.
LEMMA RowsInOrderStep ==
  ASSUME TypeOK, RowsInOrder, [Next]_vars
  PROVE  RowsInOrder'
<1>1. CASE HAL_SPI_TxRxCpltCallback
  <2> DEFINE c == AD7606DataCounter
  <2>1. /\ Half \in Nat /\ Half > 0 /\ c \in Nat /\ c < 2 * Half /\ stored \in Nat
        /\ c \in Rows
    BY Sizes DEF TypeOK, Rows
  <2>2. /\ stored' = stored + 1
        /\ c' = IF c + 1 = 2 * Half THEN 0 ELSE c + 1
        /\ \A r \in Rows : Ad7606_Data'[r] = IF r = c THEN stored + 1 ELSE Ad7606_Data[r]
    BY <1>1, <2>1, StoreFacts DEF TypeOK
  <2>3. \A r \in Rows : r \in Nat /\ r < 2 * Half
    BY <2>1 DEF Rows
  <2>4. stored' = c' \/ stored' >= c' + 2 * Half
    BY <2>1, <2>2 DEF RowsInOrder
  <2>5. ASSUME NEW r \in Rows
        PROVE  /\ r < c' => Ad7606_Data'[r] = stored' - c' + r + 1
               /\ (r >= c' /\ stored' >= 2 * Half) => Ad7606_Data'[r] = stored' - c' - 2 * Half + r + 1
    <3>1. CASE c + 1 = 2 * Half
      BY <2>1, <2>2, <2>3, <3>1 DEF RowsInOrder
    <3>2. CASE c + 1 # 2 * Half
      BY <2>1, <2>2, <2>3, <3>2 DEF RowsInOrder
    <3> QED
      BY <3>1, <3>2
  <2> QED
    BY <2>4, <2>5 DEF RowsInOrder, Rows
<1>2. CASE ~ HAL_SPI_TxRxCpltCallback
  <2>1. UNCHANGED rows
    BY <1>2, Writers DEF TakeHalf, PointToHalf, RowWithinSecond, RowEndsSecond, Row, adc
  <2> QED
    BY <2>1 DEF rows, RowsInOrder, Rows
<1> QED
  BY <1>1, <1>2

\* The row the task works on is the one after the row it processed last.
LEMMA OnceFromOrder == TypeOK /\ Counting /\ RowsInOrder /\ InStep => EverySampleOnce
<1> SUFFICES ASSUME TypeOK, Counting, RowsInOrder, InStep, task = "run", ~ late
             PROVE  Ad7606_Data[p + j] = processed + 1
  BY DEF EverySampleOnce
<1> DEFINE c == AD7606DataCounter
<1>1. /\ Half \in Nat /\ Half > 0 /\ c \in Nat /\ c < 2 * Half /\ stored \in Nat /\ processed \in Nat
      /\ j \in Nat /\ j < Half
  BY Sizes DEF TypeOK, Counting, Rows
<1>2. /\ Complete > 0
      /\ p = IF c < Half THEN Half ELSE 0
      /\ processed = Complete - Half + j
  BY DEF InStep
<1>3. p + j \in Rows
  BY <1>1, <1>2 DEF Rows
<1> QED
  BY <1>1, <1>2, <1>3 DEF RowsInOrder, Complete

\* What a row does to the counters of the task.
LEMMA RowFacts ==
  ASSUME TypeOK, Row
  PROVE  /\ task = "run" /\ processed' = Ad7606_Data[p + j]
         /\ j' = j + 1 /\ task' = IF j + 1 = Half THEN "wait" ELSE "run"
         /\ UNCHANGED <<AD7606DataCounter, CurrentAD7606DataCounter, stored, AD7606_ready, late, p, emu, SAMPLEblock>>
BY DEF Row, adc, rows, eval

\* Interrupt and task stay in step until late is set.
LEMMA InStepStep ==
  ASSUME TypeOK, Counting, RowsInOrder, InStep, [Next]_vars
  PROVE  InStep'
<1> DEFINE c == AD7606DataCounter
<1>1. /\ Half \in Nat /\ Half > 0 /\ c \in Nat /\ c < 2 * Half /\ stored \in Nat /\ processed \in Nat
      /\ j \in Nat
  BY Sizes DEF TypeOK, Rows
<1> SUFFICES ASSUME ~ late' PROVE InStep'
  BY DEF InStep
<1>2. CASE StoreRow
  <2>1. /\ UNCHANGED <<CurrentAD7606DataCounter, AD7606_ready, late, task, p, j, processed>>
        /\ c + 1 # Half /\ c' = c + 1 /\ stored' = stored + 1 /\ c + 1 # 2 * Half
    BY <1>2 DEF StoreRow, Store, proc
  <2>2. Complete' = Complete /\ (c' < Half <=> c < Half)
    BY <1>1, <2>1 DEF Complete
  <2> QED
    BY <2>1, <2>2 DEF InStep
<1>3. CASE StoreFirstHalf \/ StoreSecondHalf
  <2>1. /\ ~ late /\ ~ AD7606_ready /\ task = "wait" /\ AD7606_ready'
        /\ UNCHANGED <<task, p, j, processed>> /\ stored' = stored + 1
    BY <1>3 DEF StoreFirstHalf, StoreSecondHalf, Store, GiveHalf, proc
  <2>2. \/ c + 1 = Half /\ c' = Half /\ CurrentAD7606DataCounter' = 0
        \/ c + 1 = 2 * Half /\ c' = 0 /\ CurrentAD7606DataCounter' = Half
    BY <1>3 DEF StoreFirstHalf, StoreSecondHalf, Store, GiveHalf
  <2>3. /\ Complete' = Complete + Half /\ Complete' > 0
        /\ CurrentAD7606DataCounter' = IF c' < Half THEN Half ELSE 0
    BY <1>1, <2>1, <2>2 DEF Complete
  <2>4. processed = Complete /\ Complete \in Int
    BY <1>1, <2>1 DEF InStep, Complete
  <2> QED
    BY <1>1, <2>1, <2>3, <2>4 DEF InStep
<1>4. CASE TakeHalf
  <2>1. /\ task = "wait" /\ AD7606_ready /\ ~ AD7606_ready' /\ task' = "taken"
        /\ UNCHANGED <<late, c, stored, CurrentAD7606DataCounter, p, j, processed>>
    BY <1>4 DEF TakeHalf, adc, rows, proc
  <2> QED
    BY <2>1 DEF InStep, Complete
<1>5. CASE PointToHalf
  <2>1. /\ task = "taken" /\ task' = "run" /\ p' = CurrentAD7606DataCounter /\ j' = 0
        /\ UNCHANGED <<late, AD7606_ready, c, stored, CurrentAD7606DataCounter, processed>>
    BY <1>5 DEF PointToHalf, adc, rows
  <2> QED
    BY <1>1, <2>1 DEF InStep, Complete
<1>6. CASE RowWithinSecond \/ RowEndsSecond
  <2>1. Row
    BY <1>6 DEF RowWithinSecond, RowEndsSecond
  <2>2. EverySampleOnce
    BY OnceFromOrder
  <2>3. ~ late /\ processed' = processed + 1
    BY <2>1, <2>2, RowFacts DEF EverySampleOnce
  <2>4. UNCHANGED Complete /\ Complete \in Int
    BY <1>1, <2>1, RowFacts DEF Complete
  <2>5. /\ task = "run" /\ p = CurrentAD7606DataCounter /\ ~ AD7606_ready /\ Complete > 0
        /\ processed = Complete - Half + j
        /\ CurrentAD7606DataCounter = IF c < Half THEN Half ELSE 0
    BY <2>1, <2>3, RowFacts DEF InStep
  <2>6. CASE j + 1 = Half
    <3>1. task' = "wait" /\ ~ AD7606_ready' /\ UNCHANGED <<c, CurrentAD7606DataCounter>>
      BY <2>1, <2>5, <2>6, RowFacts
    <3>2. processed' = Complete
      BY <1>1, <2>3, <2>4, <2>5, <2>6
    <3> QED
      BY <2>4, <2>5, <3>1, <3>2 DEF InStep
  <2>7. CASE j + 1 # Half
    <3>1. task' = "run" /\ ~ AD7606_ready' /\ UNCHANGED <<c, p, CurrentAD7606DataCounter>> /\ j' = j + 1
      BY <2>1, <2>5, <2>7, RowFacts
    <3>2. processed' = Complete - Half + j'
      BY <1>1, <2>3, <2>4, <2>5, <3>1
    <3> QED
      BY <2>4, <2>5, <3>1, <3>2 DEF InStep
  <2> QED
    BY <2>6, <2>7
<1>7. CASE UNCHANGED <<rows, AD7606_ready, late, task, proc>>
  BY <1>7 DEF rows, proc, InStep, Complete
<1> QED
  BY <1>2, <1>3, <1>4, <1>5, <1>6, <1>7, Writers DEF HAL_SPI_TxRxCpltCallback

\* The rows are in order at the start.
LEMMA InitOrder == Init => RowsInOrder /\ InStep
<1> SUFFICES ASSUME Init PROVE RowsInOrder /\ InStep
  OBVIOUS
<1>1. RowsInOrder
  BY Sizes DEF Init, RowsInOrder, Rows
<1>2. /\ AD7606DataCounter = 0 /\ stored = 0 /\ processed = 0 /\ task = "wait" /\ ~ AD7606_ready
  BY Zenon DEF Init
<1>3. Complete = 0
  <2>1. AD7606DataCounter < Half
    BY <1>2, Sizes
  <2> QED
    BY <1>2, <2>1 DEF Complete
<1>4. InStep
  BY <1>2, <1>3 DEF InStep
<1> QED
  BY <1>1, <1>4
----------------------------------------------------------------------------
(* Decimation, wave frames and blocks.                                      *)

\* Arithmetic of rows: one more row ...
LEMMA Distribute == \A a, b \in Nat : (a + 1) * b = a * b + b
  OBVIOUS

\* ... and no fewer rows.
LEMMA Monotone == \A a, b, c \in Nat : a <= b => a * c <= b * c
<1> SUFFICES ASSUME NEW a \in Nat, NEW b \in Nat, NEW c \in Nat, a <= b
             PROVE  a * c <= b * c
  OBVIOUS
<1>1. PICK d \in Nat : b = a + d
  BY b - a \in Nat
<1>2. b * c = a * c + d * c /\ d * c \in Nat /\ a * c \in Nat
  BY <1>1
<1> QED
  BY <1>2

\* The second ends with a row that every channel keeps.
LEMMA EndOfSecond ==
  ASSUME NEW f \in Nat, NEW n \in Nat, NEW s \in Nat, NEW c \in Nat,
         n > 0, f % n = 0, c < n, f = s * n + c + 1
  PROVE  c + 1 = n /\ s + 1 = f \div n
<1> DEFINE q == f \div n
<1>1. q \in Nat /\ f = q * n
  <2>1. q \in Nat
    OBVIOUS
  <2>2. f = n * q + (f % n)
    OBVIOUS
  <2> QED
    BY <2>1, <2>2
<1> HIDE DEF q
<1>2. s * n \in Nat /\ q * n \in Nat
  BY <1>1
<1>3. ~ (q <= s)
  <2> SUFFICES ASSUME q <= s PROVE FALSE
    OBVIOUS
  <2>1. q * n <= s * n
    BY <1>1, Monotone
  <2> QED
    BY <1>1, <1>2, <2>1
<1>4. (s + 1) * n <= q * n
  BY <1>1, <1>3, Monotone
<1>5. (s + 1) * n = s * n + n
  BY Distribute
<1>6. c + 1 = n
  BY <1>1, <1>2, <1>4, <1>5
<1>7. ~ (s + 2 <= q)
  <2> SUFFICES ASSUME s + 2 <= q PROVE FALSE
    OBVIOUS
  <2>1. (s + 2) * n <= q * n
    BY <1>1, Monotone
  <2>2. (s + 2) * n = s * n + n + n
    BY <1>5, Distribute
  <2> QED
    BY <1>1, <1>2, <1>6, <2>1, <2>2
<1> QED
  BY <1>1, <1>3, <1>6, <1>7 DEF q

\* What is due, in the two kinds of row.
LEMMA DueFacts ==
  ASSUME TypeOK, Decimated, NEW i \in Channel
  PROVE  /\ i \in Due <=> sprase_counter[i] + 1 = sparse_index[i]
         /\ ActualIndex + 1 >= ADfrequence =>
              i \in Due /\ StoreDateIndex[i] + 1 = ADfrequence \div sparse_index[i]
<1>1. /\ sparse_index[i] \in Nat /\ sparse_index[i] > 0 /\ ADfrequence % sparse_index[i] = 0
      /\ ADfrequence \in Nat
  BY Sizes
<1>2. sprase_counter[i] \in Nat /\ StoreDateIndex[i] \in Nat /\ ActualIndex \in Nat /\ ActualIndex < ADfrequence
  BY <1>1 DEF TypeOK, Index
<1>3. sprase_counter[i] < sparse_index[i] /\ ActualIndex = StoreDateIndex[i] * sparse_index[i] + sprase_counter[i]
  BY DEF Decimated
<1>4. i \in Due <=> sprase_counter[i] + 1 = sparse_index[i]
  BY <1>1, <1>2, <1>3 DEF Due
<1>5. ASSUME ActualIndex + 1 >= ADfrequence
      PROVE  i \in Due /\ StoreDateIndex[i] + 1 = ADfrequence \div sparse_index[i]
  <2>1. ADfrequence = StoreDateIndex[i] * sparse_index[i] + sprase_counter[i] + 1
    BY <1>1, <1>2, <1>3, <1>5
  <2>2. sprase_counter[i] + 1 = sparse_index[i] /\ StoreDateIndex[i] + 1 = ADfrequence \div sparse_index[i]
    <3> DEFINE n == sparse_index[i]
               s == StoreDateIndex[i]
               c == sprase_counter[i]
    <3>1. n \in Nat /\ s \in Nat /\ c \in Nat /\ n > 0 /\ ADfrequence % n = 0 /\ c < n /\ ADfrequence = s * n + c + 1
      BY <1>1, <1>2, <1>3, <2>1
    <3> HIDE DEF n, s, c
    <3>2. c + 1 = n /\ s + 1 = ADfrequence \div n
      BY <1>1, <3>1, EndOfSecond
    <3> QED
      BY <3>2 DEF n, s, c
  <2> QED
    BY <1>4, <2>2
<1> QED
  BY <1>4, <1>5

\* Decimation stays aligned to the second.
LEMMA DecimatedStep ==
  ASSUME TypeOK, Decimated, [Next]_vars
  PROVE  Decimated'
<1>0. \A i \in Channel :
        /\ sparse_index[i] \in Nat /\ sparse_index[i] > 0
        /\ sprase_counter[i] \in Nat /\ StoreDateIndex[i] \in Nat
        /\ StoreDateIndex[i] * sparse_index[i] \in Nat
        /\ (StoreDateIndex[i] + 1) * sparse_index[i] = StoreDateIndex[i] * sparse_index[i] + sparse_index[i]
  <2> SUFFICES ASSUME NEW i \in Channel
               PROVE  /\ sparse_index[i] \in Nat /\ sparse_index[i] > 0
                      /\ sprase_counter[i] \in Nat /\ StoreDateIndex[i] \in Nat
                      /\ StoreDateIndex[i] * sparse_index[i] \in Nat
                      /\ (StoreDateIndex[i] + 1) * sparse_index[i] = StoreDateIndex[i] * sparse_index[i] + sparse_index[i]
    OBVIOUS
  <2>1. /\ sparse_index[i] \in Nat /\ sparse_index[i] > 0
        /\ sprase_counter[i] \in Nat /\ StoreDateIndex[i] \in Nat
    BY Sizes DEF TypeOK, Index
  <2> QED
    BY <2>1, Distribute
<1>1. CASE RowWithinSecond
  <2> SUFFICES ASSUME NEW i \in Channel
               PROVE  /\ sprase_counter'[i] < sparse_index[i]
                      /\ ActualIndex' = StoreDateIndex'[i] * sparse_index[i] + sprase_counter'[i]
    BY DEF Decimated
  <2>1. /\ ActualIndex' = ActualIndex + 1
        /\ sprase_counter'[i] = IF i \in Due THEN 0 ELSE sprase_counter[i] + 1
        /\ StoreDateIndex'[i] = StoreDateIndex[i] + IF i \in Due THEN 1 ELSE 0
    BY <1>1 DEF RowWithinSecond
  <2>2. sprase_counter[i] < sparse_index[i] /\ ActualIndex = StoreDateIndex[i] * sparse_index[i] + sprase_counter[i]
    BY DEF Decimated
  <2>3. CASE i \in Due
    <3>1. sprase_counter[i] + 1 = sparse_index[i]
      BY <2>3, DueFacts
    <3>2. sprase_counter'[i] = 0 /\ StoreDateIndex'[i] = StoreDateIndex[i] + 1
      BY <2>1, <2>3
    <3>3. ActualIndex' = (StoreDateIndex[i] + 1) * sparse_index[i]
      BY <1>0, <2>1, <2>2, <3>1
    <3> QED
      BY <1>0, <3>2, <3>3
  <2>4. CASE i \notin Due
    <3>1. sprase_counter[i] + 1 # sparse_index[i]
      BY <2>4, DueFacts
    <3>2. sprase_counter'[i] = sprase_counter[i] + 1 /\ StoreDateIndex'[i] = StoreDateIndex[i]
      BY <1>0, <2>1, <2>4
    <3>3. sprase_counter'[i] < sparse_index[i]
      <4>1. sparse_index[i] \in Nat /\ sprase_counter[i] \in Nat /\ sprase_counter[i] < sparse_index[i]
        BY <1>0, <2>2
      <4> QED
        BY <3>1, <3>2, <4>1
    <3>4. ActualIndex' = StoreDateIndex[i] * sparse_index[i] + (sprase_counter[i] + 1)
      BY <1>0, <2>1, <2>2
    <3> QED
      BY <3>2, <3>3, <3>4
  <2> QED
    BY <2>3, <2>4
<1>2. CASE RowEndsSecond
  BY <1>0, <1>2 DEF RowEndsSecond, Decimated
<1>3. CASE ~ RowWithinSecond /\ ~ RowEndsSecond
  <2>1. UNCHANGED <<ActualIndex, sprase_counter, StoreDateIndex>>
    <3>1. CASE HAL_SPI_TxRxCpltCallback
      BY <3>1, StoreFacts DEF proc
    <3>2. CASE TakeHalf \/ PointToHalf
      BY <3>2 DEF TakeHalf, PointToHalf, proc
    <3> QED
      BY <1>3, <3>1, <3>2, Writers DEF proc
  <2> QED
    BY <2>1 DEF Decimated
<1> QED
  BY <1>1, <1>2, <1>3

\* The frames change with a row only.
LEMMA OnlyRows ==
  ASSUME TypeOK, [Next]_vars, ~ RowWithinSecond, ~ RowEndsSecond
  PROVE  /\ UNCHANGED <<sprase_counter, StoreDateIndex, ActualIndex, WaveToSend, emu_data, currentSAMPLEblock, processed>>
         /\ late => late'
<1>1. CASE HAL_SPI_TxRxCpltCallback
  BY <1>1, StoreFacts DEF proc
<1>2. CASE TakeHalf \/ PointToHalf
  BY <1>2 DEF TakeHalf, PointToHalf, proc
<1> QED
  BY <1>1, <1>2, Writers DEF proc

\* The decimation counter after a row.
LEMMA SparseAfterRow ==
  ASSUME TypeOK, Decimated, RowWithinSecond \/ RowEndsSecond, NEW i \in Channel
  PROVE  sprase_counter'[i] = IF i \in Due THEN 0 ELSE sprase_counter[i] + 1
<1>1. CASE RowWithinSecond
  BY <1>1 DEF RowWithinSecond
<1>2. CASE RowEndsSecond
  <2>1. ActualIndex + 1 >= ADfrequence /\ sprase_counter'[i] = 0
    BY <1>2 DEF RowEndsSecond
  <2> QED
    BY <2>1, DueFacts
<1> QED
  BY <1>1, <1>2

\* A point added to a frame is one decimation step after the last.
LEMMA WaveStep ==
  ASSUME TypeOK, Counting, EverySampleOnce, Decimated, Spaced, LastPoint, [Next]_vars
  PROVE  Spaced' /\ LastPoint'
<1>1. CASE RowWithinSecond \/ RowEndsSecond
  <2>1. Row
    BY <1>1 DEF RowWithinSecond, RowEndsSecond
  <2> SUFFICES ASSUME ~ late' PROVE Spaced' /\ LastPoint'
    BY DEF Spaced, LastPoint
  <2> DEFINE y == Ad7606_Data[p + j]
  <2>2. ~ late /\ y = processed + 1 /\ processed' = y /\ processed \in Nat
    BY <2>1, RowFacts DEF EverySampleOnce, TypeOK
  <2>3. \A i \in Channel : WaveToSend'[i] = << >> \/ WaveToSend'[i] = Extended(i, y)
    BY <2>1 DEF Row, UpdateWave
  <2> HIDE DEF y
  <2>4. ASSUME NEW i \in Channel
        PROVE  /\ \A k \in 1 .. (Len(WaveToSend'[i]) - 1) : WaveToSend'[i][k + 1] = WaveToSend'[i][k] + sparse_index[i]
               /\ (i \in SendChannel /\ WaveToSend'[i] # << >>) =>
                    WaveToSend'[i][Len(WaveToSend'[i])] = processed' - sprase_counter'[i]
    <3> DEFINE w == WaveToSend[i]
               x == WaveToSend'[i]
    <3>1. w \in Seq(Nat) /\ Len(w) \in Nat /\ sprase_counter[i] \in Nat /\ sparse_index[i] \in Nat
      BY Sizes DEF TypeOK
    <3>2. /\ \A k \in 1 .. (Len(w) - 1) : w[k + 1] = w[k] + sparse_index[i]
          /\ (i \in SendChannel /\ w # << >>) => w[Len(w)] = processed - sprase_counter[i]
      BY <2>2 DEF Spaced, LastPoint
    <3>3. sprase_counter'[i] = IF i \in Due THEN 0 ELSE sprase_counter[i] + 1
      BY <1>1, SparseAfterRow
    <3>4. x = << >> \/ x = Extended(i, y)
      BY <2>3
    <3> HIDE DEF w, x
    <3>5. CASE x = << >>
      BY <3>5 DEF x
    <3>6. CASE x = w /\ (i \notin SendChannel \/ i \notin Due)
      <4>1. ASSUME i \in SendChannel, x # << >> PROVE x[Len(x)] = processed' - sprase_counter'[i]
        <5>1. sprase_counter'[i] = sprase_counter[i] + 1
          BY <3>3, <3>6, <4>1
        <5>2. x[Len(x)] = processed - sprase_counter[i]
          BY <3>2, <3>6, <4>1
        <5> QED
          BY <2>2, <3>1, <5>1, <5>2
      <4> QED
        BY <3>2, <3>6, <4>1 DEF x
    <3>7. CASE x = Append(w, y) /\ i \in Due /\ i \in SendChannel
      <4>1. Len(x) = Len(w) + 1 /\ x[Len(w) + 1] = y /\ \A k \in 1 .. Len(w) : x[k] = w[k]
        BY <3>1, <3>7
      <4>2. sprase_counter[i] + 1 = sparse_index[i] /\ sprase_counter'[i] = 0
        BY <3>3, <3>7, DueFacts
      <4>3. ASSUME NEW k \in 1 .. (Len(x) - 1) PROVE x[k + 1] = x[k] + sparse_index[i]
        <5>1. CASE k = Len(w)
          <6>1. w # << >> /\ x[k] = w[Len(w)]
            BY <3>1, <4>1, <4>3, <5>1
          <6> QED
            BY <2>2, <3>1, <3>2, <3>7, <4>1, <4>2, <5>1, <6>1
        <5>2. CASE k # Len(w)
          <6>1. k \in 1 .. (Len(w) - 1) /\ k \in 1 .. Len(w) /\ k + 1 \in 1 .. Len(w)
            BY <3>1, <4>1, <5>2
          <6> QED
            BY <3>2, <4>1, <6>1
        <5> QED
          BY <5>1, <5>2
      <4>4. x[Len(x)] = processed' - sprase_counter'[i]
        BY <2>2, <4>1, <4>2
      <4> QED
        BY <4>3, <4>4 DEF x
    <3>8. \/ x = w /\ (i \notin SendChannel \/ i \notin Due)
          \/ x = << >>
          \/ x = Append(w, y) /\ i \in Due /\ i \in SendChannel
      BY <3>4 DEF Extended, w
    <3> QED
      BY <3>5, <3>6, <3>7, <3>8
  <2> QED
    BY <2>4, Sizes DEF Spaced, LastPoint
<1>2. CASE ~ RowWithinSecond /\ ~ RowEndsSecond
  BY <1>2, OnlyRows DEF Spaced, LastPoint
<1> QED
  BY <1>1, <1>2

\* A point added to a frame is the row the task has just met.
LEMMA PointsStep ==
  ASSUME TypeOK, Counting, EverySampleOnce, Points, [Next]_vars
  PROVE  Points'
<1>1. CASE RowWithinSecond \/ RowEndsSecond
  <2>1. Row
    BY <1>1 DEF RowWithinSecond, RowEndsSecond
  <2> SUFFICES ASSUME ~ late', NEW i \in Channel, NEW k \in 1 .. Len(WaveToSend'[i])
               PROVE  WaveToSend'[i][k] >= 1 /\ WaveToSend'[i][k] <= processed'
    BY DEF Points
  <2> DEFINE y == Ad7606_Data[p + j]
             w == WaveToSend[i]
             x == WaveToSend'[i]
  <2>2. ~ late /\ y = processed + 1 /\ processed' = y /\ processed \in Nat
    BY <2>1, RowFacts DEF EverySampleOnce, TypeOK
  <2>3. x = << >> \/ x = w \/ x = Append(w, y)
    BY <2>1 DEF Row, UpdateWave, Extended
  <2>4. /\ w \in Seq(Nat) /\ Len(w) \in Nat
        /\ \A n \in 1 .. Len(w) : w[n] \in Nat /\ w[n] >= 1 /\ w[n] <= processed
    <3>1. w \in Seq(Nat)
      BY DEF TypeOK
    <3>2. Len(w) \in Nat /\ \A n \in 1 .. Len(w) : w[n] \in Nat
      BY <3>1
    <3>3. \A n \in 1 .. Len(w) : w[n] >= 1 /\ w[n] <= processed
      BY <2>2 DEF Points
    <3> QED
      BY <3>1, <3>2, <3>3
  <2>5. k \in 1 .. Len(x)
    OBVIOUS
  <2> HIDE DEF y, w, x
  <2>6. CASE x = << >>
    BY <2>5, <2>6
  <2>7. CASE x = w
    BY <2>2, <2>4, <2>5, <2>7 DEF x
  <2>8. CASE x = Append(w, y)
    <3>1. Len(x) = Len(w) + 1 /\ x[Len(w) + 1] = y /\ \A n \in 1 .. Len(w) : x[n] = w[n]
      BY <2>2, <2>4, <2>8
    <3>2. CASE k = Len(w) + 1
      BY <2>2, <3>1, <3>2 DEF x
    <3>3. CASE k \in 1 .. Len(w)
      BY <2>2, <2>4, <3>1, <3>3 DEF x
    <3> QED
      BY <2>4, <2>5, <3>1, <3>2, <3>3
  <2> QED
    BY <2>3, <2>6, <2>7, <2>8
<1>2. CASE ~ RowWithinSecond /\ ~ RowEndsSecond
  BY <1>2, OnlyRows DEF Points
<1> QED
  BY <1>1, <1>2

\* What a row writes into the blocks.
LEMMA BlockAfterRow ==
  ASSUME TypeOK, Counting, Row, NEW i \in Channel
  PROVE  /\ \A k \in Index :
              emu_data'[currentSAMPLEblock][i][k] =
                IF i \in Due /\ k = StoreDateIndex[i] THEN Ad7606_Data[p + j] ELSE emu_data[currentSAMPLEblock][i][k]
         /\ emu_data'[1 - currentSAMPLEblock] = emu_data[1 - currentSAMPLEblock]
<1> DEFINE y == Ad7606_Data[p + j]
           b == currentSAMPLEblock
           new == [n \in Channel |-> IF n \in Due THEN [emu_data[b][n] EXCEPT ![StoreDateIndex[n]] = y]
                                                 ELSE emu_data[b][n]]
<1>1. b \in {0, 1} /\ 1 - b \in {0, 1} /\ 1 - b # b
  BY DEF TypeOK
<1>2. emu_data[b][i] \in [Index -> Nat] /\ StoreDateIndex[i] \in Index
  BY <1>1 DEF TypeOK
<1>3. emu_data' = [emu_data EXCEPT ![b] = new]
  BY DEF Row, UpdateAccelerationData
<1>4. new[i] = IF i \in Due THEN [emu_data[b][i] EXCEPT ![StoreDateIndex[i]] = y] ELSE emu_data[b][i]
  OBVIOUS
<1>5. DOMAIN emu_data = {0, 1}
  BY DEF TypeOK
<1> HIDE DEF new, b, y
<1>6. emu_data'[b] = new /\ emu_data'[1 - b] = emu_data[1 - b]
  BY <1>1, <1>3, <1>5
<1>7. \A k \in Index : emu_data'[b][i][k] = IF i \in Due /\ k = StoreDateIndex[i] THEN y ELSE emu_data[b][i][k]
  BY <1>2, <1>4, <1>6
<1> QED
  BY <1>6, <1>7 DEF b, y

\* The conversions before the second, and the indices a channel uses in it.
LEMMA SecondFacts ==
  ASSUME TypeOK, NEW i \in Channel
  PROVE  /\ ADfrequence \div sparse_index[i] \in Nat /\ ADfrequence \div sparse_index[i] <= ADfrequence
         /\ StoreDateIndex[i] \in Nat /\ StoreDateIndex[i] < ADfrequence
         /\ sparse_index[i] \in Nat /\ sprase_counter[i] \in Nat /\ ActualIndex \in Nat /\ processed \in Nat
<1>1. /\ ADfrequence \in Nat /\ sparse_index[i] \in Nat /\ sparse_index[i] > 0
  BY Sizes
<1>2. ADfrequence \div sparse_index[i] \in Nat
  BY <1>1
<1>3. ADfrequence \div sparse_index[i] <= ADfrequence
  BY <1>1
<1> QED
  BY <1>1, <1>2, <1>3 DEF TypeOK, Index

\* The value a channel stores is the one its place in the second calls for.
LEMMA StoredInPlace ==
  ASSUME TypeOK, EverySampleOnce, Decimated, Row, ~ late, NEW i \in Due
  PROVE  Ad7606_Data[p + j] = Before + (StoreDateIndex[i] + 1) * sparse_index[i]
<1>1. i \in Channel
  BY DEF Due
<1> DEFINE m == StoreDateIndex[i] * sparse_index[i]
<1>2. m \in Nat /\ (StoreDateIndex[i] + 1) * sparse_index[i] = m + sparse_index[i]
  BY <1>1, SecondFacts, Distribute
<1>3. ActualIndex = m + sprase_counter[i] /\ sprase_counter[i] + 1 = sparse_index[i]
  BY <1>1, DueFacts DEF Decimated
<1>4. Ad7606_Data[p + j] = processed + 1
  BY RowFacts DEF EverySampleOnce
<1>5. processed \in Nat /\ sparse_index[i] \in Nat /\ sprase_counter[i] \in Nat
  BY <1>1, SecondFacts
<1> HIDE DEF m
<1> QED
  BY <1>2, <1>3, <1>4, <1>5 DEF Before

\* A channel that stores a sample has not had its share of the second yet.
LEMMA StoreWithinShare ==
  ASSUME TypeOK, Decimated, NEW i \in Due
  PROVE  StoreDateIndex[i] < ADfrequence \div sparse_index[i]
<1>1. i \in Channel
  BY DEF Due
<1> DEFINE n == sparse_index[i]
           s == StoreDateIndex[i]
           c == sprase_counter[i]
           q == ADfrequence \div sparse_index[i]
<1>2. n \in Nat /\ n > 0 /\ ADfrequence \in Nat /\ ADfrequence % n = 0
  BY <1>1, Sizes
<1>3. /\ s \in Nat /\ c \in Nat /\ ActualIndex \in Nat /\ ActualIndex < ADfrequence
      /\ ActualIndex = s * n + c /\ c + 1 = n
  <2>1. s \in Nat /\ c \in Nat /\ ActualIndex \in Nat
    BY <1>1, SecondFacts
  <2>2. ActualIndex < ADfrequence
    BY <1>2, <2>1 DEF TypeOK, Index
  <2>3. ActualIndex = s * n + c
    BY <1>1 DEF Decimated
  <2>4. c + 1 = n
    BY <1>1, DueFacts
  <2> QED
    BY <2>1, <2>2, <2>3, <2>4
<1>4. q \in Nat /\ ADfrequence = n * q
  <2>1. q \in Nat
    BY <1>2
  <2>2. ADfrequence = n * q + (ADfrequence % n)
    BY <1>2
  <2> QED
    BY <1>2, <2>1, <2>2
<1> HIDE DEF n, s, c, q
<1>5. ~ (q <= s)
  <2> SUFFICES ASSUME q <= s PROVE FALSE
    OBVIOUS
  <2>1. q * n <= s * n /\ q * n = n * q /\ s * n \in Nat
    BY <1>2, <1>3, <1>4, Monotone
  <2> QED
    BY <1>2, <1>3, <1>4, <2>1
<1>6. s < q
  BY <1>3, <1>4, <1>5
<1> QED
  BY <1>6 DEF s, q

\* No row goes behind a channel's share of the second.
LEMMA UnwrittenStep ==
  ASSUME TypeOK, Counting, Decimated, Unwritten, [Next]_vars
  PROVE  Unwritten'
<1>1. CASE RowWithinSecond \/ RowEndsSecond
  <2>1. Row
    BY <1>1 DEF RowWithinSecond, RowEndsSecond
  <2> SUFFICES ASSUME NEW b \in {0, 1}, NEW i \in Channel, NEW k \in Index, k >= ADfrequence \div sparse_index[i]
               PROVE  emu_data'[b][i][k] = 0
    BY DEF Unwritten, Index
  <2>2. emu_data[b][i][k] = 0
    BY DEF Unwritten
  <2>3. currentSAMPLEblock \in {0, 1} /\ (b = currentSAMPLEblock \/ b = 1 - currentSAMPLEblock)
    BY DEF TypeOK
  <2>4. ~ (i \in Due /\ k = StoreDateIndex[i])
    <3> SUFFICES ASSUME i \in Due, k = StoreDateIndex[i] PROVE FALSE
      OBVIOUS
    <3>1. StoreDateIndex[i] < ADfrequence \div sparse_index[i]
      BY StoreWithinShare
    <3> QED
      BY <3>1, SecondFacts
  <2> QED
    BY <2>1, <2>2, <2>3, <2>4, BlockAfterRow
<1>2. CASE ~ RowWithinSecond /\ ~ RowEndsSecond
  BY <1>2, OnlyRows DEF Unwritten, Index
<1> QED
  BY <1>1, <1>2

\* The blocks hold the seconds they should.
LEMMA BlocksStep ==
  ASSUME TypeOK, Counting, EverySampleOnce, Decimated, Blocks, [Next]_vars
  PROVE  Blocks'
<1>0. ADfrequence \in Nat /\ ADfrequence > 0 /\ processed \in Nat /\ ActualIndex \in Nat
      /\ currentSAMPLEblock \in {0, 1}
  BY Sizes DEF TypeOK, Index
<1> SUFFICES ASSUME ~ late' PROVE Blocks'
  BY DEF Blocks
<1>1. CASE RowWithinSecond
  <2>1. Row /\ ActualIndex' = ActualIndex + 1 /\ currentSAMPLEblock' = currentSAMPLEblock
    BY <1>1 DEF RowWithinSecond
  <2>2. ~ late /\ processed' = processed + 1
    BY <2>1, RowFacts DEF EverySampleOnce
  <2>3. UNCHANGED Before
    BY <1>0, <2>1, <2>2 DEF Before
  <2>4. ASSUME NEW i \in Channel, NEW k \in 0 .. (StoreDateIndex'[i] - 1)
        PROVE  emu_data'[currentSAMPLEblock][i][k] = Before + (k + 1) * sparse_index[i]
    <3>1. StoreDateIndex'[i] = StoreDateIndex[i] + IF i \in Due THEN 1 ELSE 0
      BY <1>1 DEF RowWithinSecond
    <3>2. k \in Nat /\ k <= StoreDateIndex[i] /\ k \in Index /\ (k = StoreDateIndex[i] => i \in Due)
      BY <1>0, <2>4, <3>1, SecondFacts DEF Index
    <3>3. CASE k = StoreDateIndex[i]
      BY <2>1, <2>2, <3>2, <3>3, BlockAfterRow, StoredInPlace
    <3>4. CASE k # StoreDateIndex[i]
      <4>1. k \in 0 .. (StoreDateIndex[i] - 1)
        BY <3>2, <3>4, SecondFacts
      <4>2. emu_data[currentSAMPLEblock][i][k] = Before + (k + 1) * sparse_index[i]
        BY <2>2, <4>1 DEF Blocks
      <4> QED
        BY <2>1, <3>2, <3>4, <4>2, BlockAfterRow
    <3> QED
      BY <3>3, <3>4
  <2>5. emu_data'[1 - currentSAMPLEblock] = emu_data[1 - currentSAMPLEblock] \/ Channel = {}
    BY <2>1, BlockAfterRow
  <2> QED
    BY <2>1, <2>2, <2>3, <2>4, <2>5 DEF Blocks
<1>2. CASE RowEndsSecond
  <2>1. /\ Row /\ ActualIndex + 1 >= ADfrequence /\ ActualIndex' = 0
        /\ currentSAMPLEblock' = (currentSAMPLEblock + 1) % 2
        /\ \A i \in Channel : StoreDateIndex'[i] = 0
    BY <1>2 DEF RowEndsSecond
  <2>2. ~ late /\ processed' = processed + 1
    BY <2>1, RowFacts DEF EverySampleOnce
  <2>3. Before' = Before + ADfrequence /\ Before \in Int
    BY <1>0, <2>1, <2>2 DEF Before, TypeOK, Index
  <2>4. 1 - currentSAMPLEblock' = currentSAMPLEblock
    BY <1>0, <2>1
  <2>5. \E n \in Nat : Before' = n * ADfrequence
    <3>1. PICK n \in Nat : Before = n * ADfrequence
      BY <2>2 DEF Blocks
    <3>2. Before' = (n + 1) * ADfrequence
      BY <1>0, <2>3, <3>1, Distribute
    <3> QED
      BY <3>2
  <2>6. ASSUME NEW i \in Channel, NEW k \in 0 .. (ADfrequence \div sparse_index[i] - 1)
        PROVE  emu_data'[currentSAMPLEblock][i][k] = Before + (k + 1) * sparse_index[i]
    <3>1. i \in Due /\ StoreDateIndex[i] + 1 = ADfrequence \div sparse_index[i]
      BY <2>1, DueFacts
    <3>2. k \in Nat /\ k <= StoreDateIndex[i] /\ k \in Index
      BY <1>0, <2>6, <3>1, SecondFacts DEF Index
    <3>3. CASE k = StoreDateIndex[i]
      BY <2>1, <2>2, <3>1, <3>2, <3>3, BlockAfterRow, StoredInPlace
    <3>4. CASE k # StoreDateIndex[i]
      <4>1. k \in 0 .. (StoreDateIndex[i] - 1)
        BY <3>2, <3>4, SecondFacts
      <4>2. emu_data[currentSAMPLEblock][i][k] = Before + (k + 1) * sparse_index[i]
        BY <2>2, <4>1 DEF Blocks
      <4> QED
        BY <2>1, <3>2, <3>4, <4>2, BlockAfterRow
    <3> QED
      BY <3>3, <3>4
  <2>7. \A i \in Channel : \A k \in 0 .. (ADfrequence \div sparse_index[i] - 1) :
          emu_data'[1 - currentSAMPLEblock'][i][k] = Before' - ADfrequence + (k + 1) * sparse_index[i]
    BY <1>0, <2>3, <2>4, <2>6
  <2>8. \A i \in Channel : 0 .. (StoreDateIndex'[i] - 1) = {}
    BY <2>1
  <2> QED
    BY <2>5, <2>7, <2>8 DEF Blocks
<1>3. CASE ~ RowWithinSecond /\ ~ RowEndsSecond
  BY <1>3, OnlyRows DEF Blocks, Before
<1> QED
  BY <1>1, <1>2, <1>3

\* The evaluation stays on the block that is not being filled.
LEMMA EvaluatingStep ==
  ASSUME TypeOK, Counting, EverySampleOnce, Blocks, Evaluating, [Next]_vars
  PROVE  Evaluating'
<1>0. /\ ADfrequence \in Nat /\ ADfrequence > 0 /\ processed \in Nat /\ ActualIndex \in Nat
      /\ currentSAMPLEblock \in {0, 1} /\ ActualIndex < ADfrequence
  BY Sizes DEF TypeOK, Index
<1> SUFFICES ASSUME ~ late', ~ emuLate' PROVE Evaluating'
  BY DEF Evaluating
<1>1. CASE RowWithinSecond
  <2>1. Row /\ ActualIndex' = ActualIndex + 1 /\ UNCHANGED <<currentSAMPLEblock, SAMPLEDATA_ready, emuLate>>
    BY <1>1 DEF RowWithinSecond
  <2>2. ~ late /\ processed' = processed + 1 /\ UNCHANGED <<emu, SAMPLEblock>>
    BY <2>1, RowFacts DEF EverySampleOnce
  <2>3. UNCHANGED Before
    BY <1>0, <2>1, <2>2 DEF Before
  <2> QED
    BY <2>1, <2>2, <2>3 DEF Evaluating
<1>2. CASE RowEndsSecond
  <2>1. /\ Row /\ ActualIndex' = 0
        /\ ~ emuLate /\ ~ SAMPLEDATA_ready /\ emu = "wait"
    BY <1>2 DEF RowEndsSecond
  <2>2. ~ late /\ processed' = processed + 1 /\ UNCHANGED <<emu, SAMPLEblock>>
    BY <2>1, RowFacts DEF EverySampleOnce
  <2>3. Before' > 0
    BY <1>0, <2>1, <2>2 DEF Before
  <2> QED
    BY <2>1, <2>2, <2>3 DEF Evaluating
<1>3. CASE TakeBlock
  <2>1. /\ emu = "wait" /\ SAMPLEDATA_ready /\ emu' = "taken" /\ ~ SAMPLEDATA_ready'
        /\ UNCHANGED <<late, emuLate, processed, ActualIndex>>
    BY <1>3 DEF TakeBlock, proc
  <2> QED
    BY <2>1 DEF Evaluating, Before
<1>4. CASE EmuData
  <2>1. /\ emu = "taken" /\ emu' = "run" /\ SAMPLEblock' = (currentSAMPLEblock + 1) % 2
        /\ UNCHANGED <<late, emuLate, processed, ActualIndex, SAMPLEDATA_ready, currentSAMPLEblock>>
    BY <1>4 DEF EmuData, proc
  <2>2. SAMPLEblock' = 1 - currentSAMPLEblock'
    BY <1>0, <2>1
  <2> QED
    BY <2>1, <2>2 DEF Evaluating, Before
<1>5. CASE EmuDone
  <2>1. /\ emu = "run" /\ emu' = "wait"
        /\ UNCHANGED <<late, emuLate, processed, ActualIndex, SAMPLEDATA_ready>>
    BY <1>5 DEF EmuDone, proc
  <2> QED
    BY <2>1 DEF Evaluating, Before
<1>6. CASE ~ RowWithinSecond /\ ~ RowEndsSecond /\ ~ DATA_EMU_TASK
  <2>1. UNCHANGED <<ActualIndex, currentSAMPLEblock, processed>> /\ ~ late
    BY <1>6, OnlyRows
  <2>2. UNCHANGED <<SAMPLEDATA_ready, emuLate, emu, SAMPLEblock>>
    <3>1. CASE HAL_SPI_TxRxCpltCallback
      BY <3>1, StoreFacts DEF eval
    <3>2. CASE UNCHANGED vars
      BY <3>2 DEF vars, eval
    <3> QED
      BY <1>6, <3>1, <3>2 DEF Next, AD7606_StartRecord, AD7606_StopRecord, Convst, AD7606_ReadNowAdc,
           HAL_SPI_ErrorCallback, AD7606_TASK, TakeHalf, PointToHalf, eval
  <2> QED
    BY <2>1, <2>2 DEF Evaluating, Before
<1> QED
  BY <1>1, <1>2, <1>3, <1>4, <1>5, <1>6 DEF DATA_EMU_TASK

----------------------------------------------------------------------------
(* The sampling periods and the rows.                                       *)

\* What a step does to the periods: the recording is restarted, a conversion is
\* made, read, refused, spoilt or stored, or nothing of this happens.
Paused ==
  /\ clock' = clock + 1 /\ lost' = lost \cup {clock + 1}
  /\ UNCHANGED <<busy, transfer, converted, reading, when, stored>>

Converted ==
  /\ ~ busy /\ busy' /\ clock' = clock + 1 /\ converted' = clock + 1
  /\ UNCHANGED <<transfer, reading, lost, when, stored>>

Read ==
  /\ busy /\ ~ busy' /\ ~ transfer /\ transfer' /\ reading' = converted
  /\ UNCHANGED <<clock, converted, lost, when, stored>>

Refused ==
  /\ busy /\ ~ busy' /\ lost' = lost \cup {converted}
  /\ UNCHANGED <<transfer, clock, converted, reading, when, stored>>

Spoilt ==
  /\ transfer /\ ~ transfer' /\ lost' = lost \cup {reading}
  /\ UNCHANGED <<busy, clock, converted, reading, when, stored>>

Stored ==
  /\ transfer /\ ~ transfer' /\ when' = Append(when, reading) /\ stored' = stored + 1
  /\ UNCHANGED <<busy, clock, converted, reading, lost>>

Idle == UNCHANGED <<busy, transfer, clock, converted, reading, lost, when, stored>>

\* Every step is one of these.
LEMMA Clockwork ==
  [Next]_vars => Paused \/ Converted \/ Read \/ Refused \/ Spoilt \/ Stored \/ Idle
<1> SUFFICES ASSUME [Next]_vars
             PROVE  Paused \/ Converted \/ Read \/ Refused \/ Spoilt \/ Stored \/ Idle
  OBVIOUS
<1> USE DEF Paused, Converted, Read, Refused, Spoilt, Stored, Idle
<1>1. CASE AD7606_StartRecord
  BY <1>1 DEF AD7606_StartRecord, rows
<1>2. CASE AD7606_StopRecord
  BY <1>2 DEF AD7606_StopRecord, rows, timing
<1>3. CASE Convst
  BY <1>3 DEF Convst, rows
<1>4. CASE AD7606_ReadNowAdc
  BY <1>4 DEF AD7606_ReadNowAdc, ReadStarts, ReadRefused, rows
<1>5. CASE HAL_SPI_ErrorCallback
  BY <1>5 DEF HAL_SPI_ErrorCallback, rows
<1>6. CASE HAL_SPI_TxRxCpltCallback
  BY <1>6 DEF HAL_SPI_TxRxCpltCallback, StoreRow, StoreFirstHalf, StoreSecondHalf, Store, timing
<1>7. CASE AD7606_TASK \/ DATA_EMU_TASK \/ UNCHANGED vars
  <2>1. UNCHANGED adc
    BY <1>7 DEF AD7606_TASK, DATA_EMU_TASK, TakeHalf, PointToHalf, RowWithinSecond, RowEndsSecond, Row,
                TakeBlock, EmuData, EmuDone, vars
  <2> QED
    BY <2>1 DEF adc, timing, rows
<1> QED
  BY <1>1, <1>2, <1>3, <1>4, <1>5, <1>6, <1>7 DEF Next

\* The stamps after a row is stored.
LEMMA StampAfter ==
  ASSUME TypeOK, Stamped, Stored
  PROVE  /\ Len(when') = stored'
         /\ when'[stored + 1] = reading
         /\ \A x \in 1 .. stored : when'[x] = when[x] /\ when[x] \in Nat
         /\ \A x \in 1 .. stored' : x \in 1 .. stored \/ x = stored + 1
<1>1. when \in Seq(Nat) /\ Len(when) = stored /\ reading \in Nat /\ stored \in Nat
  BY DEF TypeOK, Stamped
<1>2. when' = Append(when, reading) /\ stored' = stored + 1
  BY DEF Stored
<1> QED
  BY <1>1, <1>2

\* The stamps stay in order.
LEMMA StampedStep ==
  ASSUME TypeOK, Stamped, [Next]_vars
  PROVE  Stamped'
<1>0. /\ clock \in Nat /\ converted \in Nat /\ reading \in Nat /\ stored \in Nat /\ when \in Seq(Nat)
      /\ \A x \in 1 .. stored : when[x] \in Nat
  <2>1. /\ clock \in Nat /\ converted \in Nat /\ reading \in Nat /\ stored \in Nat /\ when \in Seq(Nat)
        /\ Len(when) = stored
    BY DEF TypeOK, Stamped
  <2> QED
    BY <2>1
<1>1. CASE Paused
  BY <1>0, <1>1 DEF Stamped, Paused
<1>2. CASE Converted
  BY <1>0, <1>2 DEF Stamped, Converted
<1>3. CASE Read
  BY <1>0, <1>3 DEF Stamped, Read
<1>4. CASE Refused
  BY <1>0, <1>4 DEF Stamped, Refused
<1>5. CASE Spoilt
  BY <1>0, <1>5 DEF Stamped, Spoilt
<1>6. CASE Stored
  <2>1. /\ transfer /\ ~ transfer' /\ stored' = stored + 1
        /\ UNCHANGED <<busy, clock, converted, reading, lost>>
    BY <1>6 DEF Stored
  <2>2. \A x, y \in 1 .. stored' : x < y => when'[x] < when'[y]
    BY <1>0, <1>6, <2>1, StampAfter DEF Stamped
  <2>3. \A x \in 1 .. stored' : when'[x] <= clock'
    BY <1>0, <1>6, <2>1, StampAfter DEF Stamped
  <2>4. busy' => converted' <= clock' /\ \A x \in 1 .. stored' : when'[x] < converted'
    BY <1>0, <1>6, <2>1, StampAfter DEF Stamped
  <2> QED
    BY <1>6, <2>1, <2>2, <2>3, <2>4, StampAfter DEF Stamped
<1>7. CASE Idle
  BY <1>7 DEF Stamped, Idle
<1> QED
  BY <1>1, <1>2, <1>3, <1>4, <1>5, <1>6, <1>7, Clockwork

\* No period is forgotten.
LEMMA AccountedStep ==
  ASSUME TypeOK, Stamped, Accounted, [Next]_vars
  PROVE  Accounted'
<1>0. clock \in Nat /\ stored \in Nat
  BY DEF TypeOK
<1>1. CASE Paused
  BY <1>0, <1>1 DEF Accounted, Paused
<1>2. CASE Converted
  BY <1>0, <1>2 DEF Accounted, Converted
<1>3. CASE Read
  BY <1>0, <1>3 DEF Accounted, Read
<1>4. CASE Refused
  BY <1>0, <1>4 DEF Accounted, Refused
<1>5. CASE Spoilt
  BY <1>0, <1>5 DEF Accounted, Spoilt
<1>6. CASE Stored
  <2>1. /\ transfer /\ ~ transfer' /\ stored' = stored + 1
        /\ UNCHANGED <<busy, clock, converted, reading, lost>>
    BY <1>6 DEF Stored
  <2>2. stored + 1 \in 1 .. stored' /\ \A x \in 1 .. stored : x \in 1 .. stored'
    BY <1>0, <2>1
  <2>3. ASSUME NEW t \in 1 .. clock'
        PROVE  \/ t \in lost'
               \/ \E x \in 1 .. stored' : when'[x] = t
               \/ busy' /\ t = converted'
               \/ transfer' /\ t = reading'
    <3>1. \/ t \in lost
          \/ \E x \in 1 .. stored : when[x] = t
          \/ busy /\ t = converted
          \/ t = reading
      BY <2>1 DEF Accounted
    <3> QED
      BY <1>6, <2>1, <2>2, <3>1, StampAfter
  <2> QED
    BY <2>3 DEF Accounted
<1>7. CASE Idle
  BY <1>7 DEF Accounted, Idle
<1> QED
  BY <1>1, <1>2, <1>3, <1>4, <1>5, <1>6, <1>7, Clockwork

\* The row stored next comes right after the last one, unless a period between
\* them is lost.
LEMMA NextRowOnTime ==
  ASSUME TypeOK, Stamped, Accounted, transfer, stored > 0,
         \A t \in when[stored] .. reading : t \notin lost
  PROVE  reading = when[stored] + 1
<1>1. /\ stored \in 1 .. stored /\ when[stored] \in Nat /\ reading \in Nat /\ clock \in Nat /\ stored \in Nat
      /\ converted \in Nat
  <2>1. when \in Seq(Nat) /\ Len(when) = stored /\ stored \in Nat
    BY DEF TypeOK, Stamped
  <2> QED
    BY <2>1 DEF TypeOK
<1>2. when[stored] < reading /\ reading <= clock /\ (busy => reading < converted)
  BY <1>1 DEF Stamped
<1> SUFFICES ASSUME when[stored] + 1 < reading PROVE FALSE
  BY <1>1, <1>2
<1> DEFINE t == when[stored] + 1
<1>3. t \in 1 .. clock /\ t \in when[stored] .. reading /\ t < reading /\ t > when[stored] /\ t \in Nat
  BY <1>1, <1>2
<1> HIDE DEF t
<1>4. t \notin lost
  BY <1>3
<1>5. ~ (\E x \in 1 .. stored : when[x] = t)
  <2> SUFFICES ASSUME NEW x \in 1 .. stored, when[x] = t PROVE FALSE
    OBVIOUS
  <2>1. CASE x < stored
    BY <1>1, <1>3, <2>1 DEF Stamped
  <2>2. CASE x = stored
    BY <1>1, <1>3, <2>2
  <2> QED
    BY <1>1, <2>1, <2>2
<1>6. ~ (busy /\ t = converted) /\ t # reading
  BY <1>1, <1>2, <1>3
<1> QED
  BY <1>3, <1>4, <1>5, <1>6 DEF Accounted

\* Rows between which nothing is lost stay on time.
LEMMA ExactStep ==
  ASSUME TypeOK, Stamped, Accounted, Exact, [Next]_vars
  PROVE  Exact'
<1>0. stored \in Nat /\ reading \in Nat /\ \A x \in 1 .. stored : when[x] \in Nat
  <2>1. when \in Seq(Nat) /\ Len(when) = stored /\ stored \in Nat /\ reading \in Nat
    BY DEF TypeOK, Stamped
  <2> QED
    BY <2>1
<1>1. CASE Stored
  <2>1. lost' = lost /\ stored' = stored + 1 /\ transfer
    BY <1>1 DEF Stored
  <2> SUFFICES ASSUME NEW x \in 1 .. stored', NEW y \in 1 .. stored', x < y,
                      \A t \in when'[x] .. when'[y] : t \notin lost
               PROVE  when'[y] - when'[x] = y - x
    BY <2>1 DEF Exact, NoneLost, OnTime
  <2>2. x \in 1 .. stored /\ when'[x] = when[x] /\ when[x] \in Nat
    BY <1>0, <1>1, <2>1, StampAfter
  <2>3. CASE y \in 1 .. stored
    <3>1. when'[y] = when[y]
      BY <1>1, <2>3, StampAfter
    <3> QED
      BY <2>2, <2>3, <3>1 DEF Exact, NoneLost, OnTime
  <2>4. CASE y = stored + 1
    <3>1. when'[y] = reading
      BY <1>1, <2>4, StampAfter
    <3>2. stored \in 1 .. stored /\ stored > 0 /\ when[stored] \in Nat
      BY <1>0, <2>2
    <3>3. when[stored] < reading /\ (x < stored => when[x] < when[stored])
      BY <2>1, <2>2, <3>2 DEF Stamped
    <3>4. when[x] <= when[stored]
      <4>1. x < stored \/ x = stored
        BY <1>0, <2>2
      <4> QED
        BY <2>2, <3>2, <3>3, <4>1
    <3>5. \A t \in when[stored] .. reading : t \in when[x] .. reading
      BY <1>0, <2>2, <3>2, <3>4
    <3>6. reading = when[stored] + 1
      BY <2>1, <2>2, <3>1, <3>2, <3>5, NextRowOnTime
    <3>7. \A t \in when[x] .. when[stored] : t \in when[x] .. reading
      BY <1>0, <2>2, <3>2, <3>3
    <3>8. when[stored] - when[x] = stored - x
      <4>1. CASE x = stored
        BY <1>0, <2>2, <4>1
      <4>2. CASE x < stored
        BY <2>2, <3>1, <3>2, <3>7, <4>2 DEF Exact, NoneLost, OnTime
      <4> QED
        BY <1>0, <2>2, <4>1, <4>2
    <3> QED
      BY <1>0, <2>2, <2>4, <3>1, <3>2, <3>6, <3>8
  <2> QED
    BY <1>1, <2>3, <2>4, StampAfter
<1>2. CASE ~ Stored
  <2>1. UNCHANGED <<when, stored>> /\ lost \subseteq lost'
    BY <1>2, Clockwork DEF Paused, Converted, Read, Refused, Spoilt, Idle
  <2> QED
    BY <2>1 DEF Exact, NoneLost, OnTime
<1> QED
  BY <1>1, <1>2

----------------------------------------------------------------------------
(* The invariant of the whole path, and what follows from it.               *)

\* The invariant holds at the start ...
LEMMA InvInit == Init => SamplingInv
<1> SUFFICES ASSUME Init PROVE SamplingInv
  OBVIOUS
<1>1. /\ processed = 0 /\ ActualIndex = 0 /\ emu = "wait" /\ ~ SAMPLEDATA_ready
      /\ \A i \in Channel : sprase_counter[i] = 0 /\ StoreDateIndex[i] = 0 /\ WaveToSend[i] = << >>
  BY DEF Init
<1>2. Before = 0
  BY <1>1 DEF Before
<1>3. Decimated
  BY <1>1, Sizes DEF Decimated
<1>4. Spaced /\ LastPoint
  BY <1>1, Sizes DEF Spaced, LastPoint
<1>5. Blocks
  <2>1. 0 = 0 * ADfrequence
    BY Sizes
  <2>2. \A i \in Channel : 0 .. (StoreDateIndex[i] - 1) = {}
    BY <1>1
  <2> QED
    BY <1>2, <2>1, <2>2 DEF Blocks
<1>6. Evaluating
  BY <1>1 DEF Evaluating
<1>7. Points
  BY <1>1 DEF Points
<1>8. Unwritten
  <2>1. \A b \in {0, 1} : \A i \in Channel : \A k \in Index : emu_data[b][i][k] = 0
    BY DEF Init
  <2> QED
    BY <2>1 DEF Unwritten
<1>9. Stamped /\ Accounted /\ Exact
  <2>1. ~ busy /\ ~ transfer /\ stored = 0 /\ clock = 0 /\ when = << >>
    BY Zenon DEF Init
  <2>2. Len(when) = 0 /\ 1 .. stored = {} /\ 1 .. clock = {}
    BY <2>1
  <2> QED
    BY <2>1, <2>2 DEF Stamped, Accounted, Exact
<1> QED
  BY InitTypes, InitOrder, <1>3, <1>4, <1>5, <1>6, <1>7, <1>8, <1>9 DEF SamplingInv

\* ... and is kept by every step.
LEMMA InvStep == SamplingInv /\ [Next]_vars => SamplingInv'
  BY TypeStep, RowsInOrderStep, InStepStep, OnceFromOrder, DecimatedStep, WaveStep, PointsStep, BlocksStep,
     EvaluatingStep, UnwrittenStep, StampedStep, AccountedStep, ExactStep
  DEF SamplingInv

\* The inductive invariant holds throughout.
THEOREM SamplingInvariant == Spec => []SamplingInv
  BY InvInit, InvStep, PTL DEF Spec

\* As long as no half was completed while the task was busy, the task meets every
\* row stored once and in order, over changes of half, stops and restarts.
THEOREM SamplesMetOnce == Spec => []EverySampleOnce
<1>1. SamplingInv => EverySampleOnce
  BY OnceFromOrder DEF SamplingInv
<1> QED
  BY <1>1, SamplingInvariant, PTL

\* The task is not ahead of the interrupt.
LEMMA ProcessedStored ==
  ASSUME SamplingInv, ~ late
  PROVE  processed \in Nat /\ stored \in Nat /\ processed <= stored
<1>1. /\ processed \in Nat /\ stored \in Nat
      /\ AD7606DataCounter \in Nat /\ Half \in Nat /\ j \in Nat /\ j <= Half
  BY Sizes DEF SamplingInv, TypeOK, Index, Rows
<1>2. Complete \in Int /\ Complete <= stored
  BY <1>1 DEF Complete
<1>3. processed <= Complete
  BY <1>1, <1>2 DEF SamplingInv, InStep, TypeOK
<1> QED
  BY <1>1, <1>2, <1>3

\* As long as the task keeps up, neighbouring points of a wave frame are exactly
\* sparse_index rows apart, over the ends of halves and of seconds, and exactly
\* sparse_index sampling periods apart unless a conversion was lost or the
\* recording restarted between them.
THEOREM FramesEquallySpaced == Spec => []WaveEquallySpaced
<1>1. SamplingInv => WaveEquallySpaced
  <2> SUFFICES ASSUME SamplingInv, ~ late, NEW i \in Channel, NEW k \in 1 .. (Len(WaveToSend[i]) - 1)
               PROVE  /\ WaveToSend[i][k + 1] = WaveToSend[i][k] + sparse_index[i]
                      /\ NoneLost(WaveToSend[i][k], WaveToSend[i][k + 1]) =>
                           OnTime(WaveToSend[i][k], WaveToSend[i][k + 1])
    BY DEF WaveEquallySpaced
  <2> DEFINE x == WaveToSend[i][k]
             y == WaveToSend[i][k + 1]
  <2>1. y = x + sparse_index[i]
    BY DEF SamplingInv, Spaced
  <2>2. WaveToSend[i] \in Seq(Nat)
    BY DEF SamplingInv, TypeOK
  <2>3. k \in 1 .. Len(WaveToSend[i]) /\ k + 1 \in 1 .. Len(WaveToSend[i])
    BY <2>2
  <2>4. x \in Nat /\ y \in Nat
    BY <2>2, <2>3
  <2>5. x >= 1 /\ y >= 1 /\ x <= processed /\ y <= processed
    BY <2>3 DEF SamplingInv, Points
  <2> HIDE DEF x, y
  <2>6. x \in 1 .. stored /\ y \in 1 .. stored /\ x < y
    BY <2>1, <2>4, <2>5, ProcessedStored, Sizes
  <2>7. NoneLost(x, y) => OnTime(x, y)
    BY <2>6 DEF SamplingInv, Exact
  <2> QED
    BY <2>1, <2>7 DEF x, y
<1> QED
  BY <1>1, SamplingInvariant, PTL

\* As long as both tasks keep up, the block under evaluation holds ADfrequence
\* rows stored one after the other, the same for all channels, in time one second
\* unless a conversion was lost or the recording restarted among them; and the
\* entries behind the share of a decimated channel were never written.
THEOREM EvaluatedBlockWhole == Spec => []BlockIsOneSecond
<1>1. SamplingInv => BlockIsOneSecond
  <2> SUFFICES ASSUME SamplingInv, emu = "run", ~ late, ~ emuLate
               PROVE  \E s \in 0 .. stored :
                        /\ s * ADfrequence + ADfrequence <= stored
                        /\ NoneLost(s * ADfrequence + 1, s * ADfrequence + ADfrequence) =>
                             OnTime(s * ADfrequence + 1, s * ADfrequence + ADfrequence)
                        /\ \A i \in Channel : \A k \in Index :
                             emu_data[SAMPLEblock][i][k] =
                               IF k < ADfrequence \div sparse_index[i]
                                 THEN s * ADfrequence + (k + 1) * sparse_index[i] ELSE 0
    BY DEF BlockIsOneSecond
  <2>1. ADfrequence \in Nat /\ ADfrequence > 0 /\ processed \in Nat /\ ActualIndex \in Nat /\ stored \in Nat
    BY Sizes DEF SamplingInv, TypeOK, Index, Rows
  <2>2. processed <= stored
    BY ProcessedStored
  <2>3. Before > 0 /\ SAMPLEblock = 1 - currentSAMPLEblock
    BY DEF SamplingInv, Evaluating
  <2>4. PICK n \in Nat : Before = n * ADfrequence
    BY DEF SamplingInv, Blocks
  <2>5. n # 0 /\ Before <= stored /\ Before \in Nat
    BY <2>1, <2>2, <2>3, <2>4 DEF Before
  <2>6. PICK s \in Nat : n = s + 1
    BY <2>5, n - 1 \in Nat
  <2>7. s * ADfrequence = Before - ADfrequence
    BY <2>1, <2>4, <2>6, Distribute
  <2>8. s \in 0 .. stored
    <3>1. s * 1 <= s * ADfrequence
      BY <2>1, Monotone
    <3> QED
      BY <2>1, <2>5, <2>7, <3>1
  <2>9. \A i \in Channel : \A k \in 0 .. (ADfrequence \div sparse_index[i] - 1) :
          emu_data[SAMPLEblock][i][k] = s * ADfrequence + (k + 1) * sparse_index[i]
    BY <2>3, <2>7 DEF SamplingInv, Blocks
  <2> DEFINE a == s * ADfrequence
  <2>10. a \in Nat /\ a + ADfrequence <= stored
    BY <2>1, <2>5, <2>7
  <2> HIDE DEF a
  <2>11. NoneLost(a + 1, a + ADfrequence) => OnTime(a + 1, a + ADfrequence)
    <3>1. a + 1 \in 1 .. stored /\ a + ADfrequence \in 1 .. stored
      BY <2>1, <2>10
    <3>2. CASE ADfrequence = 1
      <4>1. a + 1 = a + ADfrequence
        BY <3>2
      <4>2. when[a + 1] \in Nat
        <5>1. when \in Seq(Nat) /\ Len(when) = stored
          BY DEF SamplingInv, TypeOK, Stamped
        <5> QED
          BY <3>1, <5>1
      <4>3. when[a + 1] - when[a + 1] = 0 /\ (a + 1) - (a + 1) = 0
        BY <2>10, <4>2
      <4> QED
        BY <4>1, <4>3 DEF OnTime
    <3>3. CASE ADfrequence # 1
      <4>1. a + 1 < a + ADfrequence
        BY <2>1, <2>10, <3>3
      <4> QED
        BY <3>1, <4>1 DEF SamplingInv, Exact
    <3> QED
      BY <3>2, <3>3
  <2>12. ASSUME NEW i \in Channel, NEW k \in Index
         PROVE  emu_data[SAMPLEblock][i][k] =
                  IF k < ADfrequence \div sparse_index[i] THEN a + (k + 1) * sparse_index[i] ELSE 0
    <3>1. k \in Nat /\ ADfrequence \div sparse_index[i] \in Nat /\ SAMPLEblock \in {0, 1}
      BY <2>1, SecondFacts DEF Index, SamplingInv, TypeOK
    <3>2. CASE k < ADfrequence \div sparse_index[i]
      <4>1. k \in 0 .. (ADfrequence \div sparse_index[i] - 1)
        BY <3>1, <3>2
      <4> QED
        BY <2>9, <3>2, <4>1 DEF a
    <3>3. CASE ~ (k < ADfrequence \div sparse_index[i])
      <4>1. k >= ADfrequence \div sparse_index[i]
        BY <3>1, <3>3
      <4> QED
        BY <3>1, <3>3, <4>1 DEF SamplingInv, Unwritten
    <3> QED
      BY <3>2, <3>3
  <2> QED
    BY <2>8, <2>10, <2>11, <2>12 DEF a
<1> QED
  BY <1>1, SamplingInvariant, PTL
=============================================================================
