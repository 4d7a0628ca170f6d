------------------------------ MODULE Sampling ------------------------------
(****************************************************************************)
(* From the converter to the evaluation: the interrupt handlers of          *)
(* User/bsp/src/bsp_spi_ad7606.c store each conversion in the two halves of *)
(* Ad7606_Data; AD7606_TASK (User/date_process_task.c) processes a half     *)
(* when AD7606_ready is given, fills wave frames and the block of emu_data  *)
(* of the current second; DATA_EMU_TASK (User/emu_data_task.c) evaluates    *)
(* the block of the second before.                                          *)
(*                                                                          *)
(* A conversion of all channels is one row, and a sample is its number in   *)
(* the order of storing, so AD7606DataCounter counts rows here (the test of *)
(* its alignment to rows cannot fail).  Conversions are also lost between   *)
(* the converter and the rows, and a recording may stop and start again:    *)
(* the sampling periods are counted too, each row is stamped with the       *)
(* period of its conversion, and the periods that gave no row are recorded. *)
(* The configuration is the built-in one: wave mode, which also fills the   *)
(* blocks.  Nothing but speed keeps the interrupt from overrunning the      *)
(* task, and the task from overrunning the evaluation: late and emuLate     *)
(* record when it did.                                                      *)
(****************************************************************************)
EXTENDS Integers, Sequences, FiniteSets

CONSTANTS AD7606SAMPLEPOINTS,  \* rows in a half: 200
          ADfrequence,         \* rows in a second: config.ADfrequence
          WavePoints,          \* points in a wave frame: BOARDPOINTS / 2
          Channel,             \* the channels of type IEPE
          SendChannel,         \* the channels of config.DataToSendChannel
          sparse_index,        \* of each channel, ADfrequence / channel_freq
          MaxSamples,          \* bound: conversions stored
          MaxLost              \* bound: periods without a row

ASSUME SamplingAssumption ==
  /\ {AD7606SAMPLEPOINTS, ADfrequence, WavePoints} \subseteq Nat \ {0}
  /\ IsFiniteSet(Channel) /\ SendChannel \subseteq Channel
  /\ sparse_index \in [Channel -> Nat \ {0}]
  /\ \A i \in Channel : ADfrequence % sparse_index[i] = 0
  /\ MaxSamples \in Nat /\ MaxLost \in Nat

VARIABLES
  recording,                 \* the timer drives CONVST
  busy,                      \* the converter has a conversion to deliver: BUSY
  transfer,                  \* an SPI transfer is running
  Ad7606_Data,               \* the rows of the two halves
  AD7606DataCounter,         \* the next row to store
  CurrentAD7606DataCounter,  \* the first row of the half stored last
  AD7606_ready,              \* binary semaphore
  task,                      \* AD7606_TASK: "wait", "taken" or "run"
  p, j,                      \* the half it works on, rows done
  sprase_counter, StoreDateIndex, ActualIndex,
  WaveToSend,                \* the points of each channel's unfinished frame
  wave_packege_flag,         \* frames so far
  emu_data,                  \* the two blocks
  currentSAMPLEblock,
  SAMPLEDATA_ready,          \* binary semaphore
  emu,                       \* DATA_EMU_TASK: "wait", "taken" or "run"
  SAMPLEblock,               \* the block it evaluates
  stored, processed,         \* auxiliary: number of the sample last stored, processed
  late, emuLate,             \* auxiliary: a task was still busy when its next
                             \* half, or block, was complete
  clock,                     \* auxiliary: sampling periods so far
  converted, reading,        \* auxiliary: the period of the conversion in the
                             \* converter, and of the one being transferred
  when,                      \* auxiliary: the period of each row stored
  lost                       \* auxiliary: the periods that give no row

rows   == <<Ad7606_Data, AD7606DataCounter, CurrentAD7606DataCounter, stored, when>>
timing == <<clock, converted, reading, lost>>
adc    == <<recording, busy, transfer, timing, rows>>
proc == <<p, j, sprase_counter, StoreDateIndex, ActualIndex, WaveToSend,
          wave_packege_flag, emu_data, currentSAMPLEblock, processed>>
eval == <<emu, SAMPLEblock>>
vars == <<adc, AD7606_ready, late, task, proc, SAMPLEDATA_ready, emuLate, eval>>

Half  == AD7606SAMPLEPOINTS
Rows  == 0 .. (2 * Half - 1)
Index == 0 .. (ADfrequence - 1)

----------------------------------------------------------------------------
(* The commands of the TLV task, and the interrupts.                        *)

\* The timer is stopped, if it ran, and started: one period, or however many,
\* passes without a conversion.  The counters of the interrupt handler keep
\* their values, so the recording goes on in the half, the frame and the second
\* where the last one was stopped.  The pulse of AD7606_StartConvst does not
\* reach the converter: AD7606_StopRecord made the pin an input.
AD7606_StartRecord ==
  /\ Cardinality(lost) < MaxLost
  /\ recording' = TRUE
  /\ clock' = clock + 1
  /\ lost' = lost \cup {clock + 1}
  /\ UNCHANGED <<busy, transfer, converted, reading, rows, AD7606_ready, late, task, proc,
                 SAMPLEDATA_ready, emuLate, eval>>

\* The timer is stopped.  A conversion or a transfer under way is not: the
\* interrupt disabled here is not the one BUSY is connected to.
AD7606_StopRecord ==
  /\ recording' = FALSE
  /\ UNCHANGED <<busy, transfer, timing, rows, AD7606_ready, late, task, proc, SAMPLEDATA_ready, emuLate, eval>>

\* A pulse of the timer on CONVST starts a conversion.
Convst ==
  /\ recording
  /\ ~ busy
  /\ stored < MaxSamples
  /\ busy' = TRUE
  /\ clock' = clock + 1
  /\ converted' = clock + 1
  /\ UNCHANGED <<recording, transfer, reading, lost, rows, AD7606_ready, late, task, proc,
                 SAMPLEDATA_ready, emuLate, eval>>

\* BUSY falls: AD7606_ISR starts a transfer of the conversion.
ReadStarts ==
  /\ ~ transfer
  /\ transfer' = TRUE
  /\ reading' = converted
  /\ UNCHANGED lost

\* The last transfer still runs: HAL_BUSY is returned and ignored, and the
\* conversion is lost.
ReadRefused ==
  /\ transfer
  /\ Cardinality(lost) < MaxLost
  /\ lost' = lost \cup {converted}
  /\ UNCHANGED <<transfer, reading>>

AD7606_ReadNowAdc ==
  /\ busy
  /\ busy' = FALSE
  /\ ReadStarts \/ ReadRefused
  /\ UNCHANGED <<recording, clock, converted, rows, AD7606_ready, late, task, proc,
                 SAMPLEDATA_ready, emuLate, eval>>

\* The transfer failed: wTransferState is set, nobody acts on it, and the
\* conversion is lost.
HAL_SPI_ErrorCallback ==
  /\ transfer
  /\ Cardinality(lost) < MaxLost
  /\ transfer' = FALSE
  /\ lost' = lost \cup {reading}
  /\ UNCHANGED <<recording, busy, clock, converted, reading, rows, AD7606_ready, late, task, proc,
                 SAMPLEDATA_ready, emuLate, eval>>

\* The row is stored; next is the counter after it.
Store(next) ==
  /\ transfer
  /\ transfer' = FALSE
  /\ Ad7606_Data' = [Ad7606_Data EXCEPT ![AD7606DataCounter] = stored + 1]
  /\ stored' = stored + 1
  /\ when' = Append(when, reading)
  /\ AD7606DataCounter' = next
  /\ UNCHANGED <<recording, busy, timing, task, proc, SAMPLEDATA_ready, emuLate, eval>>

StoreRow ==
  /\ AD7606DataCounter + 1 \notin {Half, 2 * Half}
  /\ Store(AD7606DataCounter + 1)
  /\ UNCHANGED <<CurrentAD7606DataCounter, AD7606_ready, late>>

\* xSemaphoreGiveFromISR; the half that starts at base is complete.
GiveHalf(base) ==
  /\ CurrentAD7606DataCounter' = base
  /\ AD7606_ready' = TRUE
  /\ late' = (late \/ AD7606_ready \/ task # "wait")

\* Mutant: the other half is announced.
StoreFirstHalf_Swapped ==
  /\ AD7606DataCounter + 1 = Half
  /\ Store(Half)
  /\ GiveHalf(Half)

StoreFirstHalf ==
  /\ AD7606DataCounter + 1 = Half
  /\ Store(Half)
  /\ GiveHalf(0)

StoreSecondHalf ==
  /\ AD7606DataCounter + 1 = 2 * Half
  /\ Store(0)
  /\ GiveHalf(Half)

HAL_SPI_TxRxCpltCallback == StoreRow \/ StoreFirstHalf \/ StoreSecondHalf

----------------------------------------------------------------------------
(* AD7606_TASK.                                                             *)

\* xSemaphoreTake(AD7606_ready).
TakeHalf ==
  /\ task = "wait"
  /\ AD7606_ready
  /\ AD7606_ready' = FALSE
  /\ task' = "taken"
  /\ UNCHANGED <<adc, late, proc, SAMPLEDATA_ready, emuLate, eval>>

\* p = &Ad7606_Data[CurrentAD7606DataCounter].
PointToHalf ==
  /\ task = "taken"
  /\ p' = CurrentAD7606DataCounter
  /\ j' = 0
  /\ task' = "run"
  /\ UNCHANGED <<adc, AD7606_ready, late, sprase_counter, StoreDateIndex, ActualIndex,
                 WaveToSend, wave_packege_flag, emu_data, currentSAMPLEblock, processed,
                 SAMPLEDATA_ready, emuLate, eval>>

\* The channels whose decimation counter is due.
Due == {i \in Channel : sprase_counter[i] + 1 >= sparse_index[i]}

\* The sample goes into the current block.
UpdateAccelerationData(y) ==
  emu_data' = [emu_data EXCEPT ![currentSAMPLEblock] =
                 [i \in Channel |->
                    IF i \in Due THEN [@[i] EXCEPT ![StoreDateIndex[i]] = y] ELSE @[i]]]

\* The frame of channel i with the point y added.
Extended(i, y) == IF i \in Due \cap SendChannel THEN Append(WaveToSend[i], y) ELSE WaveToSend[i]

FullFrames(y) == {i \in Channel : Len(Extended(i, y)) >= WavePoints}

\* Mutant: the point that fills a frame is counted for the next one too.
UpdateWave_KeepLast(y) ==
  /\ WaveToSend' = [i \in Channel |-> IF i \in FullFrames(y) THEN <<y, y>> ELSE Extended(i, y)]
  /\ wave_packege_flag' = (wave_packege_flag + Cardinality(FullFrames(y))) % 65536

\* The point goes into the wave frames; a full one is handed to
\* WriteDataToTXDBUF, whose refusal is ignored, and begun anew.
UpdateWave(y) ==
  /\ WaveToSend' = [i \in Channel |-> IF i \in FullFrames(y) THEN << >> ELSE Extended(i, y)]
  /\ wave_packege_flag' = (wave_packege_flag + Cardinality(FullFrames(y))) % 65536

\* One row: all channels of one conversion.
Row ==
  LET y == Ad7606_Data[p + j]
  IN  /\ task = "run"
      /\ processed' = y
      /\ UpdateAccelerationData(y)
      /\ UpdateWave(y)
      /\ j' = j + 1
      /\ task' = IF j + 1 = Half THEN "wait" ELSE "run"
      /\ UNCHANGED <<adc, AD7606_ready, late, p, eval>>

\* The second goes on.
RowWithinSecond ==
  /\ Row
  /\ ActualIndex + 1 < ADfrequence
  /\ ActualIndex' = ActualIndex + 1
  /\ sprase_counter' = [i \in Channel |-> IF i \in Due THEN 0 ELSE sprase_counter[i] + 1]
  /\ StoreDateIndex' = [i \in Channel |-> StoreDateIndex[i] + IF i \in Due THEN 1 ELSE 0]
  /\ UNCHANGED <<currentSAMPLEblock, SAMPLEDATA_ready, emuLate>>

\* Mutant: the store indices keep running over the end of the second.
RowEndsSecond_NoReset ==
  /\ Row
  /\ ActualIndex + 1 >= ADfrequence
  /\ ActualIndex' = 0
  /\ sprase_counter' = [i \in Channel |-> 0]
  /\ StoreDateIndex' = [i \in Channel |-> StoreDateIndex[i] + IF i \in Due THEN 1 ELSE 0]
  /\ currentSAMPLEblock' = (currentSAMPLEblock + 1) % 2
  /\ SAMPLEDATA_ready' = TRUE
  /\ emuLate' = (emuLate \/ SAMPLEDATA_ready \/ emu # "wait")

\* Mutant: the evaluation is started on the block that is being filled.
RowEndsSecond_NoSwap ==
  /\ Row
  /\ ActualIndex + 1 >= ADfrequence
  /\ ActualIndex' = 0
  /\ sprase_counter' = [i \in Channel |-> 0]
  /\ StoreDateIndex' = [i \in Channel |-> 0]
  /\ SAMPLEDATA_ready' = TRUE
  /\ emuLate' = (emuLate \/ SAMPLEDATA_ready \/ emu # "wait")
  /\ UNCHANGED currentSAMPLEblock

\* The last row of a second: the blocks change places and the evaluation starts.
RowEndsSecond ==
  /\ Row
  /\ ActualIndex + 1 >= ADfrequence
  /\ ActualIndex' = 0
  /\ sprase_counter' = [i \in Channel |-> 0]
  /\ StoreDateIndex' = [i \in Channel |-> 0]
  /\ currentSAMPLEblock' = (currentSAMPLEblock + 1) % 2
  /\ SAMPLEDATA_ready' = TRUE
  /\ emuLate' = (emuLate \/ SAMPLEDATA_ready \/ emu # "wait")

AD7606_TASK == TakeHalf \/ PointToHalf \/ RowWithinSecond \/ RowEndsSecond

----------------------------------------------------------------------------
(* DATA_EMU_TASK.                                                           *)

\* xSemaphoreTake(SAMPLEDATA_ready).
TakeBlock ==
  /\ emu = "wait"
  /\ SAMPLEDATA_ready
  /\ SAMPLEDATA_ready' = FALSE
  /\ emu' = "taken"
  /\ UNCHANGED <<adc, AD7606_ready, late, task, proc, emuLate, SAMPLEblock>>

\* EmuData begins: it works on the block that is not being filled.
EmuData ==
  /\ emu = "taken"
  /\ SAMPLEblock' = (currentSAMPLEblock + 1) % 2
  /\ emu' = "run"
  /\ UNCHANGED <<adc, AD7606_ready, late, task, proc, SAMPLEDATA_ready, emuLate>>

\* EmuData has gone through the block for the last time and returns.
EmuDone ==
  /\ emu = "run"
  /\ emu' = "wait"
  /\ UNCHANGED <<adc, AD7606_ready, late, task, proc, SAMPLEDATA_ready, emuLate, SAMPLEblock>>

DATA_EMU_TASK == TakeBlock \/ EmuData \/ EmuDone

----------------------------------------------------------------------------

Init ==
  /\ recording = FALSE /\ busy = FALSE /\ transfer = FALSE
  /\ Ad7606_Data = [r \in Rows |-> 0]
  /\ AD7606DataCounter = 0 /\ CurrentAD7606DataCounter = 0
  /\ AD7606_ready = FALSE
  /\ task = "wait" /\ p = 0 /\ j = 0
  /\ sprase_counter = [i \in Channel |-> 0]
  /\ StoreDateIndex = [i \in Channel |-> 0]
  /\ ActualIndex = 0
  /\ WaveToSend = [i \in Channel |-> << >>]
  /\ wave_packege_flag = 0
  /\ emu_data = [b \in {0, 1} |-> [i \in Channel |-> [k \in Index |-> 0]]]
  /\ currentSAMPLEblock = 0
  /\ SAMPLEDATA_ready = FALSE
  /\ emu = "wait" /\ SAMPLEblock = 0
  /\ stored = 0 /\ processed = 0
  /\ late = FALSE /\ emuLate = FALSE
  /\ clock = 0 /\ converted = 0 /\ reading = 0
  /\ when = << >> /\ lost = {}

Next ==
  \/ AD7606_StartRecord \/ AD7606_StopRecord
  \/ Convst \/ AD7606_ReadNowAdc \/ HAL_SPI_TxRxCpltCallback \/ HAL_SPI_ErrorCallback
  \/ AD7606_TASK
  \/ DATA_EMU_TASK

Spec == Init /\ [][Next]_vars

----------------------------------------------------------------------------
(* Properties.                                                              *)

TypeOK ==
  /\ recording \in BOOLEAN /\ busy \in BOOLEAN /\ transfer \in BOOLEAN
  /\ Ad7606_Data \in [Rows -> Nat]
  /\ AD7606DataCounter \in Rows
  /\ CurrentAD7606DataCounter \in {0, Half}
  /\ AD7606_ready \in BOOLEAN
  /\ task \in {"wait", "taken", "run"}
  /\ p \in {0, Half} /\ j \in 0 .. Half
  /\ sprase_counter \in [Channel -> Nat]
  /\ StoreDateIndex \in [Channel -> Index]
  /\ ActualIndex \in Index
  /\ WaveToSend \in [Channel -> Seq(Nat)]
  /\ wave_packege_flag \in Nat /\ wave_packege_flag < 65536
  /\ emu_data \in [{0, 1} -> [Channel -> [Index -> Nat]]]
  /\ currentSAMPLEblock \in {0, 1}
  /\ SAMPLEDATA_ready \in BOOLEAN
  /\ emu \in {"wait", "taken", "run"}
  /\ SAMPLEblock \in {0, 1}
  /\ stored \in Nat /\ processed \in Nat
  /\ late \in BOOLEAN /\ emuLate \in BOOLEAN
  /\ clock \in Nat /\ converted \in Nat /\ reading \in Nat
  /\ when \in Seq(Nat) /\ lost \subseteq Nat

\* As long as the task is through with a half when the next one is complete, it
\* meets every row that was stored once and in order, over the changes of half
\* and over stops and restarts of the recording in the middle of a half.
EverySampleOnce == (task = "run" /\ ~ late) => Ad7606_Data[p + j] = processed + 1

\* Rows x and y are as many sampling periods apart as they are rows apart.  It
\* fails when a conversion between them was lost on its way or the recording was
\* restarted between them, and the rows themselves show nothing of it.
OnTime(x, y) == when[y] - when[x] = y - x

\* No period between rows x and y went without a row.
NoneLost(x, y) == \A t \in when[x] .. when[y] : t \notin lost

\* Then also two neighbouring points of a wave frame are sparse_index rows apart,
\* no matter where the second or the half ends between them, and sparse_index
\* sampling periods, unless a conversion was lost (HAL_BUSY or an SPI error) or
\* the recording restarted between them: nothing else in the chain bends the
\* time axis of a frame.
WaveEquallySpaced ==
  ~ late =>
    \A i \in Channel : \A k \in 1 .. (Len(WaveToSend[i]) - 1) :
      LET x == WaveToSend[i][k]
          y == WaveToSend[i][k + 1]
      IN  /\ y = x + sparse_index[i]
          /\ NoneLost(x, y) => OnTime(x, y)

\* If both tasks keep up, the block under evaluation is made of ADfrequence rows
\* that were stored one after the other, the same for all channels, and nobody
\* writes to it meanwhile.  They are one second of the signal unless a conversion
\* was lost or the recording restarted among them.  EmuData goes through
\* ADfrequence entries of every channel: those of a decimated channel behind its
\* ADfrequence / sparse_index samples were never written (0 stands for that).
BlockIsOneSecond ==
  (emu = "run" /\ ~ late /\ ~ emuLate) =>
    \E s \in 0 .. stored :
      LET x == s * ADfrequence + 1
          y == s * ADfrequence + ADfrequence
      IN  /\ y <= stored
          /\ NoneLost(x, y) => OnTime(x, y)
          /\ \A i \in Channel : \A k \in Index :
               emu_data[SAMPLEblock][i][k] =
                 IF k < ADfrequence \div sparse_index[i]
                   THEN s * ADfrequence + (k + 1) * sparse_index[i] ELSE 0
=============================================================================
