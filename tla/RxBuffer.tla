------------------------------ MODULE RxBuffer ------------------------------
(***************************************************************************)
(* The RX buffer (src/src/rx_buffer): its state machine, memory pointers,  *)
(* free-memory counters, RAM and the registers seen by software, with the  *)
(* CAN core that stores received frames as its environment.                *)
(*                                                                         *)
(* One step is one clock cycle.  In it the core gives at most one command  *)
(* (cmd, "none" for no command), software may read a word (rd) and clear   *)
(* the overrun flag (clr).  A word of the RAM is abstracted to the frame   *)
(* it belongs to, its place in the frame and, in the FRAME_FORMAT word,    *)
(* RWCNT.  A timestamp is abstracted to the frame it was captured for.     *)
(***************************************************************************)
EXTENDS Naturals, Sequences

CONSTANTS buff_size,     \* words of the RAM
          Tags,          \* distinguishable frame contents
          DataWords,     \* numbers of data words a frame may have
          RtsOpt,        \* timestamp options tried: subset of {"beg", "end"}
          EraseWhen,     \* software releases the buffer "never", "between"
                         \* receptions or at "any" time
          CoreDisable    \* software disables the core in a reception "never",
                         \* and "release"s the buffer before it enables it
                         \* again, or at "any" time

\* Every frame fits into an empty buffer: 20 words at most, 32 in the RAM.
ASSUME RxBufferAssumption ==
  /\ DataWords \subseteq Nat
  /\ buff_size \in Nat
  /\ \A d \in DataWords : 4 + d < buff_size
  /\ RtsOpt \subseteq {"beg", "end"}
  /\ EraseWhen \in {"never", "between", "any"}
  /\ CoreDisable \in {"never", "release", "any"}

VARIABLES
  rx_fsm, drv_rtsopt, timestamp_capture,
  read_pointer, write_pointer, write_pointer_raw, write_pointer_extra_ts,
  rx_mem_free_int, rx_mem_free_raw,
  read_frame_counter, message_count,
  commit_rx_frame, commit_overrun_abort, data_overrun_int, data_overrun_r,
  RAM, RAM_data_out,
  rec,         \* CAN core: "off", "idle", "sof" (header), "storing"
  frame,       \* the frame on the bus
  data_left,   \* data words of it still to be stored
  age          \* clock cycles since store_metadata or the end of a frame

coreVars == <<rec, frame, data_left, age>>
pointerVars == <<read_pointer, write_pointer, write_pointer_raw,
                 write_pointer_extra_ts, rx_mem_free_int, rx_mem_free_raw>>
flagVars == <<commit_rx_frame, commit_overrun_abort, data_overrun_int,
              data_overrun_r>>
vars == <<rx_fsm, drv_rtsopt, timestamp_capture, pointerVars,
          read_frame_counter, message_count, flagVars, RAM, RAM_data_out,
          coreVars>>

Frame == [tag : Tags, data : DataWords]

Addr == 0..(buff_size - 1)

inc_1(p) == (p + 1) % buff_size

Word(tag, pos, rwcnt) == [tag |-> tag, pos |-> pos, rwcnt |-> rwcnt]
Words == [tag : Tags, pos : Addr, rwcnt : Addr]

MetadataStates == {"rxb_store_frame_format", "rxb_store_identifier",
                   "rxb_store_beg_ts_low", "rxb_store_beg_ts_high"}
EndTsStates == {"rxb_store_end_ts_low", "rxb_store_end_ts_high"}
RxFsmState == {"rxb_idle", "rxb_store_data"} \cup MetadataStates \cup EndTsStates
Command == {"none", "sof_pulse", "store_metadata", "store_data",
            "rec_message_valid", "rec_abort"}

-----------------------------------------------------------------------------
(* Signals of the current cycle.                                           *)

write_raw_intent(cmd) ==
  \/ rx_fsm \in MetadataStates
  \/ rx_fsm = "rxb_store_data" /\ cmd = "store_data"

write_extra_ts == rx_fsm \in EndTsStates

\* Mutant: the committed pointer, not the raw one, decides on free space.
MutFreeWord == ~(read_pointer = write_pointer /\ message_count > 0)

is_free_word == ~(read_pointer = write_pointer_raw /\ message_count > 0)

overrun_condition(cmd) == write_raw_intent(cmd) /\ ~is_free_word

write_raw_OK(cmd) ==
  write_raw_intent(cmd) /\ ~overrun_condition(cmd) /\ ~data_overrun_int

read_increment(rd) == rd /\ message_count > 0

\* What the memory-free counters and the raw pointer are restored by.
revert(cmd) == cmd = "rec_abort" \/ commit_overrun_abort

-----------------------------------------------------------------------------
(* The state machine that stores a frame.                                  *)

NextMetadata ==
  [s \in MetadataStates |->
     IF s = "rxb_store_frame_format" THEN "rxb_store_identifier"
     ELSE IF s = "rxb_store_identifier" THEN "rxb_store_beg_ts_low"
     ELSE IF s = "rxb_store_beg_ts_low" THEN "rxb_store_beg_ts_high"
     ELSE "rxb_store_data"]

\* Mutant: an abort of a frame whose data is being stored is not seen.
MutRxFsmStep(cmd) ==
  rx_fsm' =
    IF rx_fsm = "rxb_idle"
      THEN IF cmd = "store_metadata" THEN "rxb_store_frame_format" ELSE "rxb_idle"
    ELSE IF rx_fsm \in MetadataStates THEN NextMetadata[rx_fsm]
    ELSE IF rx_fsm = "rxb_store_data"
      THEN IF cmd # "rec_message_valid" THEN "rxb_store_data"
           ELSE IF drv_rtsopt = "end" THEN "rxb_store_end_ts_low" ELSE "rxb_idle"
    ELSE IF rx_fsm = "rxb_store_end_ts_low" THEN "rxb_store_end_ts_high"
    ELSE "rxb_idle"

RxFsmStep(cmd) ==
  rx_fsm' =
    IF rx_fsm = "rxb_idle"
      THEN IF cmd = "store_metadata" THEN "rxb_store_frame_format" ELSE "rxb_idle"
    ELSE IF rx_fsm \in MetadataStates
      THEN IF cmd = "rec_abort" THEN "rxb_idle" ELSE NextMetadata[rx_fsm]
    ELSE IF rx_fsm = "rxb_store_data"
      THEN IF cmd = "rec_abort" THEN "rxb_idle"
           ELSE IF cmd = "rec_message_valid"
             THEN IF drv_rtsopt = "end" THEN "rxb_store_end_ts_low" ELSE "rxb_idle"
           ELSE "rxb_store_data"
    ELSE IF rx_fsm = "rxb_store_end_ts_low" THEN "rxb_store_end_ts_high"
    ELSE "rxb_idle"

CaptureTimestamp(cmd, f) ==
  timestamp_capture' =
    IF (drv_rtsopt = "end" /\ cmd = "rec_message_valid")
       \/ (drv_rtsopt = "beg" /\ cmd = "sof_pulse")
      THEN f.tag ELSE timestamp_capture

-----------------------------------------------------------------------------
(* Memory pointers and free-memory counters.                               *)

ReadPointerStep(rd) ==
  read_pointer' = IF read_increment(rd) THEN inc_1(read_pointer) ELSE read_pointer

WritePointerStep(cmd) ==
  /\ write_pointer' = IF commit_rx_frame THEN write_pointer_raw ELSE write_pointer
  /\ write_pointer_raw' =
       IF write_raw_OK(cmd) THEN inc_1(write_pointer_raw)
       ELSE IF revert(cmd) THEN write_pointer ELSE write_pointer_raw

ExtraPointerStep ==
  write_pointer_extra_ts' =
    IF rx_fsm = "rxb_store_frame_format" THEN write_pointer
    ELSE IF rx_fsm \in {"rxb_store_identifier", "rxb_store_beg_ts_low",
                        "rxb_store_end_ts_low"}
      THEN inc_1(write_pointer_extra_ts)
    ELSE write_pointer_extra_ts

MemFreeStep(cmd, rd) ==
  /\ rx_mem_free_raw' =
       IF read_increment(rd)
         THEN IF revert(cmd) THEN rx_mem_free_int + 1
              ELSE IF ~write_raw_OK(cmd) THEN rx_mem_free_raw + 1
              ELSE rx_mem_free_raw
         ELSE IF revert(cmd) THEN rx_mem_free_int
              ELSE IF write_raw_OK(cmd) THEN rx_mem_free_raw - 1
              ELSE rx_mem_free_raw
  /\ rx_mem_free_int' =
       IF read_increment(rd)
         THEN IF commit_rx_frame THEN rx_mem_free_raw + 1 ELSE rx_mem_free_int + 1
         ELSE IF commit_rx_frame THEN rx_mem_free_raw ELSE rx_mem_free_int

-----------------------------------------------------------------------------
(* Reading, committing and overrun.                                        *)

ReadFrameStep(rd) ==
  read_frame_counter' =
    IF ~read_increment(rd) THEN read_frame_counter
    ELSE IF read_frame_counter = 0 THEN RAM_data_out.rwcnt
    ELSE read_frame_counter - 1

\* Mutant: a commit that meets the read of a last word is lost.
MutMessageCountStep(rd) ==
  message_count' =
    IF read_increment(rd) /\ read_frame_counter = 1 THEN message_count - 1
    ELSE IF commit_rx_frame THEN message_count + 1
    ELSE message_count

MessageCountStep(rd) ==
  message_count' =
    IF read_increment(rd) /\ read_frame_counter = 1
      THEN IF commit_rx_frame THEN message_count ELSE message_count - 1
    ELSE IF commit_rx_frame THEN message_count + 1
    ELSE message_count

\* The end of a frame either commits or drops it; when both registers are
\* not driven they keep their value.
CommitStep(cmd) ==
  IF (cmd = "rec_message_valid" /\ drv_rtsopt = "beg")
     \/ rx_fsm = "rxb_store_end_ts_high"
    THEN /\ commit_rx_frame' = (commit_rx_frame \/ ~data_overrun_int)
         /\ commit_overrun_abort' = (commit_overrun_abort \/ data_overrun_int)
    ELSE commit_rx_frame' = FALSE /\ commit_overrun_abort' = FALSE

OverrunStep(cmd, clr) ==
  /\ data_overrun_int' =
       IF rx_fsm = "rxb_idle" THEN FALSE
       ELSE data_overrun_int \/ overrun_condition(cmd)
  /\ data_overrun_r' =
       IF clr THEN FALSE ELSE data_overrun_r \/ overrun_condition(cmd)

memory_write_pointer ==
  IF write_extra_ts THEN write_pointer_extra_ts ELSE write_pointer_raw

memory_write_data ==
  IF rx_fsm = "rxb_store_frame_format" THEN Word(frame.tag, 0, 3 + frame.data)
  ELSE IF rx_fsm = "rxb_store_identifier" THEN Word(frame.tag, 1, 0)
  ELSE IF rx_fsm \in {"rxb_store_beg_ts_low", "rxb_store_end_ts_low"}
    THEN Word(timestamp_capture, 2, 0)
  ELSE IF rx_fsm \in {"rxb_store_beg_ts_high", "rxb_store_end_ts_high"}
    THEN Word(timestamp_capture, 3, 0)
  ELSE Word(frame.tag, 4 + (frame.data - data_left), 0)

\* Mutant: the RAM is not read ahead when a word is taken.
MutRamStep(cmd, rd) ==
  /\ RAM' = IF \/ write_raw_OK(cmd)
               \/ write_extra_ts /\ ~data_overrun_int /\ ~overrun_condition(cmd)
              THEN [RAM EXCEPT ![memory_write_pointer] = memory_write_data]
              ELSE RAM
  /\ RAM_data_out' = RAM[read_pointer]

RamStep(cmd, rd) ==
  /\ RAM' = IF \/ write_raw_OK(cmd)
               \/ write_extra_ts /\ ~data_overrun_int /\ ~overrun_condition(cmd)
              THEN [RAM EXCEPT ![memory_write_pointer] = memory_write_data]
              ELSE RAM
  /\ RAM_data_out' = RAM[IF read_increment(rd) THEN inc_1(read_pointer)
                         ELSE read_pointer]

-----------------------------------------------------------------------------
(* The CAN core.  Commands of a frame are a bit time apart, which is longer *)
(* than the Settle cycles the state machine needs for the metadata or for   *)
(* the end-of-frame timestamp.                                             *)

Settle == 4
settled == age = Settle
older == IF settled THEN age ELSE age + 1

\* A frame begins on the bus.
CoreSof(cmd) ==
  /\ cmd = "sof_pulse" /\ rec = "idle" /\ settled
  /\ rec' = "sof" /\ frame' \in Frame /\ data_left' = 0
  /\ UNCHANGED age

\* The header is received and the frame filters accept the frame.
CoreMetadata(cmd) ==
  /\ cmd = "store_metadata" /\ rec = "sof"
  /\ rec' = "storing" /\ data_left' = frame.data /\ age' = 0
  /\ UNCHANGED frame

\* The node transmits, or the filters reject the frame: nothing is stored.
CoreIgnore(cmd) ==
  /\ cmd = "none" /\ rec = "sof" /\ rec' = "idle"
  /\ UNCHANGED <<frame, data_left, age>>

\* Four bytes, or the last bytes of the data field, are received.
CoreData(cmd) ==
  /\ cmd = "store_data" /\ rec = "storing" /\ settled /\ data_left > 0
  /\ data_left' = data_left - 1
  /\ UNCHANGED <<rec, frame, age>>

\* The last but one bit of EOF is received.
CoreValid(cmd) ==
  /\ cmd = "rec_message_valid" /\ rec = "storing" /\ settled /\ data_left = 0
  /\ rec' = "idle" /\ age' = 0
  /\ UNCHANGED <<frame, data_left>>

\* An error frame, of a reception or of any other frame.
CoreAbort(cmd) ==
  /\ cmd = "rec_abort" /\ rec # "off" /\ settled
  /\ rec' = "idle" /\ data_left' = 0
  /\ UNCHANGED <<frame, age>>

CoreWait(cmd) ==
  /\ cmd = "none" /\ age' = older
  /\ UNCHANGED <<rec, frame, data_left>>

\* MODE[ENA] is cleared: protocol control goes off without any command.
CoreOff(cmd) ==
  /\ CoreDisable # "never" /\ cmd = "none" /\ rec = "storing"
  /\ rec' = "off" /\ data_left' = 0 /\ age' = older
  /\ UNCHANGED frame

\* MODE[ENA] is set again.  While the core is off only a release of the
\* buffer takes the state machine back to rxb_idle.
CoreOn(cmd) ==
  /\ cmd = "none" /\ rec = "off" /\ settled
  /\ CoreDisable = "any" \/ rx_fsm = "rxb_idle"
  /\ rec' = "idle"
  /\ UNCHANGED <<frame, data_left, age>>

Core(cmd) ==
  \/ CoreSof(cmd) \/ CoreMetadata(cmd) \/ CoreIgnore(cmd) \/ CoreData(cmd)
  \/ CoreValid(cmd) \/ CoreAbort(cmd) \/ CoreWait(cmd) \/ CoreOff(cmd)
  \/ CoreOn(cmd)

-----------------------------------------------------------------------------
Init ==
  /\ rx_fsm = "rxb_idle" /\ drv_rtsopt \in RtsOpt
  /\ read_pointer = 0 /\ write_pointer = 0 /\ write_pointer_raw = 0
  /\ write_pointer_extra_ts = 0
  /\ rx_mem_free_int = buff_size /\ rx_mem_free_raw = buff_size
  /\ read_frame_counter = 0 /\ message_count = 0
  /\ commit_rx_frame = FALSE /\ commit_overrun_abort = FALSE
  /\ data_overrun_int = FALSE /\ data_overrun_r = FALSE
  /\ timestamp_capture \in Tags
  /\ RAM = [a \in Addr |-> Word(timestamp_capture, 0, 0)]
  /\ RAM_data_out = Word(timestamp_capture, 0, 0)
  /\ rec = "idle" /\ frame \in Frame /\ frame.tag = timestamp_capture
  /\ data_left = 0 /\ age = Settle

\* A read of an empty buffer and a clear of a flag that is neither set nor
\* being set change nothing; they are not enumerated.
Cycle(cmd, rd, clr) ==
  /\ rd => message_count > 0
  /\ clr => data_overrun_r \/ overrun_condition(cmd)
  /\ Core(cmd)
  /\ RxFsmStep(cmd)
  /\ CaptureTimestamp(cmd, frame')
  /\ ReadPointerStep(rd) /\ WritePointerStep(cmd) /\ ExtraPointerStep
  /\ MemFreeStep(cmd, rd)
  /\ ReadFrameStep(rd) /\ MessageCountStep(rd)
  /\ CommitStep(cmd) /\ OverrunStep(cmd, clr)
  /\ RamStep(cmd, rd)
  /\ UNCHANGED drv_rtsopt

\* COMMAND[RRB]: drv_erase_rx resets every register of the buffer but not
\* the RAM; a command the core gives in this cycle is lost.
Erase(cmd) ==
  /\ \/ EraseWhen = "any"
     \/ EraseWhen = "between" /\ rec \in {"idle", "off"} /\ settled
  /\ Core(cmd)
  /\ rx_fsm' = "rxb_idle"
  /\ read_pointer' = 0 /\ write_pointer' = 0 /\ write_pointer_raw' = 0
  /\ write_pointer_extra_ts' = 0
  /\ rx_mem_free_int' = buff_size /\ rx_mem_free_raw' = buff_size
  /\ read_frame_counter' = 0 /\ message_count' = 0
  /\ commit_rx_frame' = FALSE /\ commit_overrun_abort' = FALSE
  /\ data_overrun_int' = FALSE /\ data_overrun_r' = FALSE
  /\ RAM_data_out' = RAM[0]
  /\ CaptureTimestamp(cmd, frame')
  /\ UNCHANGED <<RAM, drv_rtsopt>>

Next ==
  \/ \E cmd \in Command : \E rd, clr \in BOOLEAN : Cycle(cmd, rd, clr)
  \/ \E cmd \in Command : Erase(cmd)

Spec == Init /\ [][Next]_vars

-----------------------------------------------------------------------------
(* Properties.                                                             *)

\* Pointers stay in the RAM (rx_buffer_pointers.vhd wraps them) and the
\* free-memory and frame counters within their ranges: no read or commit
\* takes one below zero or above the size of the memory.
TypeOK ==
  /\ rx_fsm \in RxFsmState
  /\ drv_rtsopt \in RtsOpt
  /\ timestamp_capture \in Tags
  /\ {read_pointer, write_pointer, write_pointer_raw, write_pointer_extra_ts}
       \subseteq Addr
  /\ rx_mem_free_int \in 0..buff_size
  /\ rx_mem_free_raw \in 0..buff_size
  /\ read_frame_counter \in Addr
  /\ message_count \in 0..buff_size
  /\ {commit_rx_frame, commit_overrun_abort, data_overrun_int, data_overrun_r}
       \subseteq BOOLEAN
  /\ RAM \in [Addr -> Words] /\ RAM_data_out \in Words
  /\ rec \in {"off", "idle", "sof", "storing"}
  /\ frame \in Frame /\ data_left \in Addr /\ age \in 0..Settle

\* The committed words in the order in which they will be read.
committed ==
  [i \in 1..(buff_size - rx_mem_free_int) |->
     RAM[(read_pointer + i - 1) % buff_size]]

Fifo == INSTANCE RxFifo WITH fifo <- committed, frames <- message_count

\* The RX buffer is a FIFO of whole frames: whatever the interleaving of
\* storing, error frames, overrun, reading and release, the committed part
\* of the RAM grows by exactly the words of one received frame, shrinks by
\* the word that is read, and RX_MEM_INFO / RX_STATUS[RXFRC] count it
\* (rx_buffer.vhd, commit_proc and message_count_ctr_proc).
ImplementsFifo == Fifo!FifoSpec

\* Software reads the oldest committed word: the RAM is read one clock ahead
\* (rx_buffer.vhd:886-899) and must nevertheless deliver the word at the
\* read pointer.
ReadsNextWord == message_count > 0 => RAM_data_out = committed[1]

\* "If there is at least one frame and pointers are equal, then memory must
\* be full" (rx_buffer.vhd:613-618): the word test that avoids a comparison
\* of counters agrees with the free-memory counter, so that a frame is
\* dropped only for lack of memory and never written over unread words.
FreeWordIffMemoryFree == is_free_word <=> rx_mem_free_raw > 0

\* A command of the core comes in the state of the machine that expects it.
CommandsInState ==
  /\ CoreSof("sof_pulse") \/ CoreMetadata("store_metadata")
       => rx_fsm = "rxb_idle"
  /\ CoreData("store_data") \/ CoreValid("rec_message_valid")
       => rx_fsm = "rxb_store_data"

\* The assertions of rx_buffer_fsm.vhd:376-416 about the commands of the
\* core: each comes in the state of the machine that expects it.
StoringProtocol == [][CommandsInState]_vars

\* A frame lost for lack of memory is reported: STATUS[DOR] is set from the
\* first word that does not fit until software clears it.
OverrunReported ==
  [][~data_overrun_int /\ data_overrun_int' => data_overrun_r']_vars
=============================================================================
