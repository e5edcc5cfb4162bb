------------------------------ MODULE TxPath -------------------------------
(***************************************************************************)
(* The transmit path, one step per clock cycle: the TXT buffers            *)
(* (TxtBuffer), the priority decoder (PriorityDecoder), the TX arbitrator  *)
(* (src/src/tx_arbitrator/tx_arbitrator.vhd, tx_arbitrator_fsm.vhd) and    *)
(* the part of protocol control that locks and unlocks TXT buffers         *)
(* (src/src/can_core/protocol_control/protocol_control.vhd).               *)
(*                                                                         *)
(* A step takes every register from its value in this cycle to its value   *)
(* in the next one.  Signals that are not registered (txt_buf_ready, the   *)
(* decoder outputs, tran_frame_valid_out) are operators over the state and *)
(* over the software command of the cycle.                                 *)
(*                                                                         *)
(* The bits of a frame are abstracted to the phase protocol control is in: *)
(* what is kept is every event on which it locks or unlocks a buffer.      *)
(***************************************************************************)
EXTENDS PriorityDecoder, TxtBuffer, FiniteSets

CONSTANTS
  TxPrio,          \* priorities software writes to TX_PRIORITY
  TxCmds,          \* combinations of command bits software writes to TX_COMMAND
  TimeTriggered,   \* do frames have timestamps that are still to come?
  CoreCommands,    \* does software use COMMAND[ABT] and switch the core off?
  DominantEof,     \* do other nodes drive the last bit of our EOF dominant?
  drv_retr_lim_ena, drv_retr_th,   \* SETTINGS[RTRLE], SETTINGS[RTRTH]
  MinGap           \* fewest cycles from an unlock, or from off, to the next lock

ASSUME TxPathAssumption ==
  /\ TxPrio \subseteq Prio
  /\ TxPrio # {}
  /\ TxCmds \subseteq SUBSET SwCmd
  /\ TimeTriggered \in BOOLEAN
  /\ CoreCommands \in BOOLEAN
  /\ DominantEof \in BOOLEAN
  /\ drv_retr_lim_ena \in BOOLEAN
  /\ drv_retr_th \in 0 .. 15
  /\ MinGap \in Nat

VARIABLES
  txt_state,            \* buf_fsm of each TXT buffer
  hw_cmd_int,           \* buffers whose txtb_hw_cmd_int was active in the last cycle
  frame_due,            \* the timestamp in each RAM is in the past
  prio,                 \* TX_PRIORITY
  tx_arb_fsm, fsm_wait_state,
  tran_frame_valid_com,
  int_txtb_index, last_txtb_index, select_buf_index_reg,
  txtb_pointer_meta,    \* word of the frame the arbitrator addresses
  word_out,             \* word on the (registered) outputs of the RAMs
  ts_low_of,            \* buffers whose present low timestamp is in ts_low_internal
  md_of,                \* buffers whose present frame format word is in tran_*_com
  pc_state,             \* phase of protocol control
  op_state,             \* operation control: transmitter, receiver, ...
  txt_hw_cmd,           \* registered command to the TXT buffers
  is_txt_locked, retr_count,
  gap,                  \* cycles until protocol control can lock again
  drv_ena,
  bus_off,              \* error_state = bus_off
  bus_off_start

arb_vars == <<tx_arb_fsm, fsm_wait_state, tran_frame_valid_com, int_txtb_index,
              last_txtb_index, select_buf_index_reg, txtb_pointer_meta, word_out>>
pc_vars == <<pc_state, op_state, txt_hw_cmd, is_txt_locked, retr_count, gap,
             bus_off, bus_off_start>>
vars == <<txt_state, hw_cmd_int, frame_due, prio, arb_vars, ts_low_of, md_of, pc_vars, drv_ena>>

ArbState == {"arb_sel_low_ts", "arb_sel_upp_ts", "arb_sel_ffw", "arb_locked"}

\* Words of a TXT buffer: low and upper timestamp, frame format; "core" is
\* whatever word the CAN core addresses while the arbitrator is locked.
MetaWord == {"ts_low", "ts_upp", "ffw"}

\* sof_preset_rx is SOF entered from suspend, as receiver; err_preset is the
\* first cycle of an error frame, err_flag its flag with superposition.
PcState == {"off", "interm", "idle", "sof_preset", "sof_preset_rx", "frame",
            "err_preset", "err_flag", "err_delim", "overload"}
OpState == {"integrating", "idle", "transciever", "reciever"}

RetrMod == 16

-----------------------------------------------------------------------------
(* Unregistered signals; cmd and bufs are the software command of the      *)
(* cycle, avail and index the outputs of the priority decoder.             *)

SwTo(cmd, bufs, b) == IF b \in bufs THEN cmd ELSE {}
HwTo(b) == IF b = int_txtb_index THEN txt_hw_cmd ELSE {}

ready(cmd, bufs) == {b \in Buf : txt_buf_ready(txt_state[b], SwTo(cmd, bufs, b))}

select_buf_avail(cmd, bufs) == OutputValid(prio, ready(cmd, bufs))
select_buf_index(cmd, bufs) == OutputIndex(prio, ready(cmd, bufs))
\* Mutant: the change is looked for in the committed index.
MutIndexChanged(index) == index # int_txtb_index

select_index_changed(index) == index # select_buf_index_reg

\* The comparison uses the upper word on the RAM output and ts_low_internal;
\* SelectionReadsOneFrame states that both belong to the selected buffer.
timestamp_valid(index) == frame_due[index]

tx_arb_locked == tx_arb_fsm = "arb_locked" /\ "unlock" \notin txt_hw_cmd

tran_frame_valid_out(avail) ==
  \/ avail /\ tran_frame_valid_com
  \/ tx_arb_locked

txtb_changed == last_txtb_index # int_txtb_index

-----------------------------------------------------------------------------
(* TX arbitrator: the clocked FSM with the registers its outputs control.  *)

ArbUnlock ==
  /\ tx_arb_fsm = "arb_locked"
  /\ "unlock" \in txt_hw_cmd
  /\ tx_arb_fsm' = "arb_sel_low_ts"
  /\ fsm_wait_state' = TRUE
  /\ txtb_pointer_meta' = "ts_low"
  /\ UNCHANGED <<tran_frame_valid_com, int_txtb_index, last_txtb_index>>

ArbHold ==
  /\ tx_arb_locked
  /\ UNCHANGED <<tx_arb_fsm, fsm_wait_state, txtb_pointer_meta, tran_frame_valid_com,
                 int_txtb_index, last_txtb_index>>

ArbLock ==
  /\ tx_arb_fsm # "arb_locked"
  /\ "lock" \in txt_hw_cmd
  /\ tx_arb_fsm' = "arb_locked"
  /\ last_txtb_index' = int_txtb_index
  /\ UNCHANGED <<fsm_wait_state, txtb_pointer_meta, tran_frame_valid_com,
                 int_txtb_index>>

\* Mutant: a change of the selected buffer wins over the lock command.
MutSelecting == tx_arb_fsm # "arb_locked"

Selecting == tx_arb_fsm # "arb_locked" /\ "lock" \notin txt_hw_cmd

ArbRestart(avail, index) ==
  /\ Selecting
  /\ ~avail \/ select_index_changed(index)
  /\ tx_arb_fsm' = "arb_sel_low_ts"
  /\ fsm_wait_state' = TRUE
  /\ txtb_pointer_meta' = "ts_low"
  /\ tran_frame_valid_com' = FALSE
  /\ UNCHANGED <<int_txtb_index, last_txtb_index>>

\* Mutant: a change of the selected buffer does not restart the selection.
MutStable(avail, index) == Selecting /\ avail

Stable(avail, index) ==
  /\ Selecting
  /\ avail
  /\ ~select_index_changed(index)

ArbWait(avail, index) ==
  /\ Stable(avail, index)
  /\ \/ fsm_wait_state
     \/ tx_arb_fsm = "arb_sel_upp_ts" /\ ~timestamp_valid(index)
  /\ fsm_wait_state' = FALSE
  /\ UNCHANGED <<tx_arb_fsm, txtb_pointer_meta, tran_frame_valid_com,
                 int_txtb_index, last_txtb_index>>

\* store_ts_l_w: the low timestamp is captured from the selected buffer.
ArbStoreLow(avail, index) ==
  /\ Stable(avail, index)
  /\ tx_arb_fsm = "arb_sel_low_ts"
  /\ ~fsm_wait_state
  /\ tx_arb_fsm' = "arb_sel_upp_ts"
  /\ fsm_wait_state' = TRUE
  /\ txtb_pointer_meta' = "ts_upp"
  /\ UNCHANGED <<tran_frame_valid_com, int_txtb_index, last_txtb_index>>

ArbTimestampValid(avail, index) ==
  /\ Stable(avail, index)
  /\ tx_arb_fsm = "arb_sel_upp_ts"
  /\ ~fsm_wait_state
  /\ timestamp_valid(index)
  /\ tx_arb_fsm' = "arb_sel_ffw"
  /\ fsm_wait_state' = TRUE
  /\ txtb_pointer_meta' = "ffw"
  /\ UNCHANGED <<tran_frame_valid_com, int_txtb_index, last_txtb_index>>

\* Mutant: the metadata are committed, the index of the buffer is not.
MutCommitNoIndex(avail, index) ==
  /\ Stable(avail, index)
  /\ tx_arb_fsm = "arb_sel_ffw"
  /\ ~fsm_wait_state
  /\ tx_arb_fsm' = "arb_sel_low_ts"
  /\ fsm_wait_state' = TRUE
  /\ txtb_pointer_meta' = "ts_low"
  /\ tran_frame_valid_com' = TRUE
  /\ UNCHANGED <<int_txtb_index, last_txtb_index>>

\* store_md_w: the selected buffer is committed to the output for the core.
ArbCommit(avail, index) ==
  /\ Stable(avail, index)
  /\ tx_arb_fsm = "arb_sel_ffw"
  /\ ~fsm_wait_state
  /\ tx_arb_fsm' = "arb_sel_low_ts"
  /\ fsm_wait_state' = TRUE
  /\ txtb_pointer_meta' = "ts_low"
  /\ tran_frame_valid_com' = TRUE
  /\ int_txtb_index' = index
  /\ UNCHANGED last_txtb_index

ArbStep(avail, index) ==
  /\ \/ ArbUnlock
     \/ ArbHold
     \/ ArbLock
     \/ ArbRestart(avail, index)
     \/ ArbWait(avail, index)
     \/ ArbStoreLow(avail, index)
     \/ ArbTimestampValid(avail, index)
     \/ ArbCommit(avail, index)
  /\ select_buf_index_reg' = index
  /\ word_out' = IF tx_arb_locked THEN "core" ELSE txtb_pointer_meta

-----------------------------------------------------------------------------
(* Protocol control and operation control.                                 *)

NoCmd == {}
GapStep == gap' = IF gap > 0 THEN gap - 1 ELSE 0

\* Retransmission bookkeeping of a lost arbitration or an error; again is the
\* command when another attempt is allowed.
Attempt(again) ==
  IF drv_retr_lim_ena => retr_count < drv_retr_th
    THEN /\ txt_hw_cmd' = {"unlock", again}
         /\ retr_count' = (retr_count + 1) % RetrMod
    ELSE /\ txt_hw_cmd' = {"unlock", "failed"}
         /\ retr_count' = 0

Unlocked ==
  /\ is_txt_locked' = FALSE
  /\ gap' = MinGap

Lock ==
  /\ txt_hw_cmd' = {"lock"}
  /\ is_txt_locked' = TRUE
  /\ retr_count' = IF txtb_changed THEN 0 ELSE retr_count

\* No command to the TXT buffers.
PcMove(pc, op) ==
  /\ pc_state' = pc
  /\ op_state' = op
  /\ txt_hw_cmd' = NoCmd
  /\ GapStep
  /\ UNCHANGED <<is_txt_locked, retr_count>>

\* An idle unit whose protocol control is not idle becomes transmitter with a
\* frame to send, or receiver with a dominant bit on the bus.
OpAfter(avail) ==
  IF op_state # "idle" THEN {op_state}
  ELSE {"idle", "reciever"} \cup {op \in {"transciever"} : tran_frame_valid_out(avail)}

\* drv_ena = '0' overrides everything else; nothing is unlocked.
PcDisabled ==
  /\ ~drv_ena
  /\ pc_state' = "off"
  /\ op_state' = "integrating"
  /\ txt_hw_cmd' = NoCmd
  /\ gap' = MinGap
  /\ UNCHANGED <<is_txt_locked, retr_count>>

\* A bit or stuff error while a frame is on the bus.
PcError == drv_ena /\ pc_state = "frame" /\ PcMove("err_preset", op_state)

\* COMMAND[ABT]: taken whenever the unit is transmitter.
PcAbortTran(abort_tran) ==
  /\ drv_ena
  /\ abort_tran
  /\ op_state = "transciever"
  /\ pc_state' = "interm"
  /\ op_state' = "idle"
  /\ txt_hw_cmd' = {"unlock", "failed"}
  /\ Unlocked
  /\ UNCHANGED retr_count

Running(abort_tran) == drv_ena /\ ~(abort_tran /\ op_state = "transciever")

\* SOF of a frame, ours if a buffer is or can be locked.
PcSof(avail) ==
  /\ pc_state = "sof_preset"
  /\ pc_state' = "frame"
  /\ GapStep
  /\ \/ /\ is_txt_locked
        /\ op_state' = "transciever"
        /\ txt_hw_cmd' = NoCmd
        /\ UNCHANGED <<is_txt_locked, retr_count>>
     \/ /\ ~is_txt_locked
        /\ tran_frame_valid_out(avail)
        /\ op_state' = "transciever"
        /\ Lock
     \/ /\ ~is_txt_locked
        /\ ~tran_frame_valid_out(avail)
        /\ op_state' = "reciever"
        /\ txt_hw_cmd' = NoCmd
        /\ UNCHANGED <<is_txt_locked, retr_count>>

PcSofReceiver == pc_state = "sof_preset_rx" /\ PcMove("frame", "reciever")

\* Bits of a frame that decide nothing here.
PcFrame == pc_state = "frame" /\ PcMove("frame", op_state)

PcArbitrationLost ==
  /\ pc_state = "frame"
  /\ op_state = "transciever"
  /\ op_state' = "reciever"
  /\ Attempt("arbl")
  /\ Unlocked
  /\ UNCHANGED pc_state

\* Last bit of EOF, recessive: the transmitter's frame is valid.
PcEof ==
  /\ pc_state = "frame"
  /\ \/ /\ op_state = "transciever"
        /\ txt_hw_cmd' = {"unlock", "valid"}
        /\ retr_count' = 0
        /\ Unlocked
        /\ pc_state' = "interm"
        /\ UNCHANGED op_state
     \/ /\ op_state = "reciever"
        /\ PcMove("interm", op_state)

\* Last bit of EOF, dominant: overload frame, for transmitter and receiver.
PcEofDominant ==
  /\ pc_state = "frame"
  /\ op_state = "transciever" => DominantEof
  /\ PcMove("overload", op_state)

PcErrorPreset ==
  /\ pc_state = "err_preset"
  /\ \/ /\ op_state = "transciever"
        /\ Attempt("err")
        /\ Unlocked
        /\ pc_state' = "err_flag"
        /\ UNCHANGED op_state
     \/ /\ op_state # "transciever"
        /\ PcMove("err_flag", op_state)

\* In the error flag: a wrong bit or the 14th dominant bit starts it again; a
\* unit that is bus-off by now goes off.
PcErrorFlag(avail) ==
  /\ pc_state = "err_flag"
  /\ \E op \in OpAfter(avail) :
       \/ PcMove("err_flag", op)
       \/ PcMove("err_preset", op)
       \/ ~bus_off /\ PcMove("err_delim", op)
       \/ bus_off /\ PcMove("off", op)

PcErrorDelim(avail) ==
  /\ pc_state = "err_delim"
  /\ \E op \in OpAfter(avail), pc \in {"err_delim", "overload", "interm"} : PcMove(pc, op)

PcOverload(avail) ==
  /\ pc_state = "overload"
  /\ \E op \in OpAfter(avail), pc \in {"overload", "err_preset", "interm"} : PcMove(pc, op)

\* Intermission and suspend; gap keeps them from being shorter than the
\* arbitrator needs for one selection.
PcInterm(avail) ==
  /\ pc_state = "interm"
  /\ \/ \E op \in OpAfter(avail) : PcMove("interm", op)
     \/ PcMove("overload", op_state)
     \/ gap = 0 /\ PcMove("sof_preset", op_state)
     \/ gap = 0 /\ op_state = "transciever" /\ PcMove("sof_preset_rx", op_state)
     \/ gap = 0 /\ PcMove("idle", "idle")

\* Idle: start of another node's frame, own frame, or nothing.
PcIdle(avail) ==
  /\ pc_state = "idle"
  /\ \/ PcMove("idle", op_state)
     \/ PcMove("sof_preset", op_state)
     \/ /\ tran_frame_valid_out(avail)
        /\ pc_state' = "sof_preset"
        /\ Lock
        /\ GapStep
        /\ UNCHANGED op_state

\* Off until integration has finished and the unit is not bus-off.
PcOff(avail) ==
  /\ pc_state = "off"
  /\ \/ \E op \in OpAfter(avail) : PcMove("off", op)
     \/ op_state = "integrating" /\ gap = 0 /\ PcMove("off", "idle")
     \/ op_state # "integrating" /\ ~bus_off /\ PcMove("idle", "idle")

PcStep(avail, abort_tran) ==
  \/ PcDisabled
  \/ PcError
  \/ PcAbortTran(abort_tran)
  \/ /\ Running(abort_tran)
     /\ \/ PcSof(avail)
        \/ PcSofReceiver
        \/ PcFrame
        \/ PcArbitrationLost
        \/ PcEof
        \/ PcEofDominant
        \/ PcErrorPreset
        \/ PcErrorFlag(avail)
        \/ PcErrorDelim(avail)
        \/ PcOverload(avail)
        \/ PcInterm(avail)
        \/ PcIdle(avail)
        \/ PcOff(avail)

\* Fault confinement: an error counter above 255 after the increments of an
\* error flag makes the unit bus-off (with ERP_LIMIT above 247 also a
\* receiver's, which comes with the bit that ends the flag); the counters are
\* erased on demand of software after 128 sequences of 11 recessive bits, the
\* last one longer than gap.
FaultStep ==
  \/ /\ bus_off_start' = FALSE
     /\ UNCHANGED bus_off
  \/ /\ ~bus_off
     /\ pc_state = "err_flag" \/ (pc_state = "err_delim" /\ op_state = "reciever")
     /\ bus_off' = TRUE
     /\ bus_off_start' = TRUE
  \/ /\ bus_off
     /\ pc_state \in {"off", "idle"} /\ gap = 0
     /\ bus_off' = FALSE
     /\ bus_off_start' = FALSE

-----------------------------------------------------------------------------
(* One clock cycle, with at most one register access of the software.      *)

\* What the captured words belong to.  written are the buffers whose RAM is
\* rewritten in this cycle: what was captured of them is no longer current.
Captured(avail, index, written) ==
  /\ ts_low_of' = (IF Stable(avail, index) /\ tx_arb_fsm = "arb_sel_low_ts" /\ ~fsm_wait_state
                     THEN {index} ELSE ts_low_of) \ written
  /\ md_of' = (IF Stable(avail, index) /\ tx_arb_fsm = "arb_sel_ffw" /\ ~fsm_wait_state
                 THEN {index} ELSE md_of) \ written

Clock(cmd, bufs, abort_tran, written) ==
  /\ txt_state' = [b \in Buf |->
       buf_fsm(txt_state[b], SwTo(cmd, bufs, b), HwTo(b), bus_off_start)]
  /\ hw_cmd_int' = {b \in Buf :
       txtb_hw_cmd_int(txt_state[b], SwTo(cmd, bufs, b), HwTo(b), b = int_txtb_index)}
  /\ LET avail == select_buf_avail(cmd, bufs)
         index == select_buf_index(cmd, bufs)
     IN  /\ ArbStep(avail, index)
         /\ Captured(avail, index, written)
         /\ PcStep(avail, abort_tran)
  /\ FaultStep

\* No access.
Cycle ==
  /\ Clock({}, {}, FALSE, {})
  /\ UNCHANGED <<frame_due, prio, drv_ena>>

\* Write of TX_COMMAND.
TxCommand(cmd, bufs) ==
  /\ Clock(cmd, bufs, FALSE, {})
  /\ UNCHANGED <<frame_due, prio, drv_ena>>

\* Write of TX_PRIORITY: the new value is seen in the next cycle.
TxPriority(b, p) ==
  /\ Clock({}, {}, FALSE, {})
  /\ prio' = [prio EXCEPT ![b] = p]
  /\ UNCHANGED <<frame_due, drv_ena>>

\* Write into the RAM of a buffer, refused while the buffer is protected.
RamWrite(b, due) ==
  /\ txtb_user_accessible(txt_state[b])
  /\ Clock({}, {}, FALSE, {b})
  /\ frame_due' = [frame_due EXCEPT ![b] = due]
  /\ UNCHANGED <<prio, drv_ena>>

\* Write of COMMAND[ABT].
AbortTran ==
  /\ Clock({}, {}, TRUE, {})
  /\ UNCHANGED <<frame_due, prio, drv_ena>>

\* Write of SETTINGS[ENA].
Enable ==
  /\ Clock({}, {}, FALSE, {})
  /\ drv_ena' = ~drv_ena
  /\ UNCHANGED <<frame_due, prio>>

\* External time reaches the timestamp of a frame.
TimestampPasses(b) ==
  /\ ~frame_due[b]
  /\ frame_due' = [frame_due EXCEPT ![b] = TRUE]
  /\ UNCHANGED <<txt_state, hw_cmd_int, prio, arb_vars, ts_low_of, md_of, pc_vars, drv_ena>>

Init ==
  /\ txt_state = [b \in Buf |-> "txt_empty"]
  /\ hw_cmd_int = {}
  /\ frame_due = [b \in Buf |-> TRUE]
  /\ prio \in [Buf -> TxPrio]
  /\ tx_arb_fsm = "arb_sel_low_ts"
  /\ fsm_wait_state = TRUE
  /\ tran_frame_valid_com = FALSE
  /\ int_txtb_index = 0
  /\ last_txtb_index = 0
  /\ select_buf_index_reg = 0
  /\ txtb_pointer_meta = "ts_low"
  /\ word_out = "ts_low"
  /\ ts_low_of = {}
  /\ md_of = {}
  /\ pc_state = "off"
  /\ op_state = "integrating"
  /\ txt_hw_cmd = NoCmd
  /\ is_txt_locked = FALSE
  /\ retr_count = 0
  /\ gap = 0
  /\ drv_ena = TRUE
  /\ bus_off = FALSE
  /\ bus_off_start = FALSE

Next ==
  \/ Cycle
  \/ \E cmd \in TxCmds, bufs \in SUBSET Buf \ {{}} : TxCommand(cmd, bufs)
  \/ \E b \in Buf : \E p \in TxPrio \ {prio[b]} : TxPriority(b, p)
  \/ \E b \in Buf, due \in BOOLEAN : (due \/ TimeTriggered) /\ RamWrite(b, due)
  \/ CoreCommands /\ (AbortTran \/ Enable)
  \/ \E b \in Buf : TimestampPasses(b)

Spec == Init /\ [][Next]_vars

-----------------------------------------------------------------------------
\* Every register stays within its type: the indices of the arbitrator name
\* existing buffers, whatever the decoder reports when no buffer is ready.
TypeOK ==
  /\ txt_state \in [Buf -> TxtState]
  /\ hw_cmd_int \subseteq Buf
  /\ frame_due \in [Buf -> BOOLEAN]
  /\ prio \in [Buf -> TxPrio]
  /\ tx_arb_fsm \in ArbState
  /\ fsm_wait_state \in BOOLEAN
  /\ tran_frame_valid_com \in BOOLEAN
  /\ {int_txtb_index, last_txtb_index, select_buf_index_reg} \subseteq Buf
  /\ txtb_pointer_meta \in MetaWord
  /\ word_out \in MetaWord \cup {"core"}
  /\ ts_low_of \subseteq Buf /\ md_of \subseteq Buf
  /\ pc_state \in PcState
  /\ op_state \in OpState
  /\ txt_hw_cmd \subseteq HwCmd
  /\ is_txt_locked \in BOOLEAN
  /\ retr_count \in 0 .. RetrMod - 1
  /\ gap \in 0 .. MinGap
  /\ drv_ena \in BOOLEAN
  /\ bus_off \in BOOLEAN
  /\ bus_off_start \in BOOLEAN

-----------------------------------------------------------------------------
(* Safety.                                                                 *)

\* What the tree of comparators hands to the arbitrator in any cycle: a buffer
\* exactly when one is ready and not aborted in this cycle, and then the one
\* of highest priority, of lowest index among equals; neither the leaves above
\* buf_count nor the modulo of the index decoder ever changes the winner.
DecoderSelectsHighest ==
  \A v \in SUBSET ready({}, {}) :
    /\ OutputValid(prio, v) <=> v # {}
    /\ v # {} => IsSelection(prio, v, OutputIndex(prio, v))

\* The three views of "a frame is being transmitted" agree.  A buffer that is
\* in progress (txt_tx_prog, txt_ab_prog) is the one buffer the arbitrator is
\* locked on; the arbitrator is locked exactly from the lock command of
\* protocol control (is_txt_locked) to its unlock command.
LockAgreement ==
  /\ \A b \in Buf : txt_state[b] \in InProgress =>
       tx_arb_fsm = "arb_locked" /\ int_txtb_index = b
  /\ tx_arb_fsm = "arb_locked" => is_txt_locked \/ "unlock" \in txt_hw_cmd
  /\ is_txt_locked => tx_arb_fsm = "arb_locked" \/ "lock" \in txt_hw_cmd

\* A selection never mixes two frames: whenever tx_arbitrator_fsm.vhd consumes
\* a word, that word is on the RAM outputs, and the low timestamp it joins
\* with the upper one is the present one of the buffer the decoder selects,
\* although priorities, buffer states and RAM contents change at any cycle.
SelectionReadsOneFrame ==
  /\ tx_arb_fsm = "arb_sel_low_ts" /\ ~fsm_wait_state => word_out = "ts_low"
  /\ tx_arb_fsm = "arb_sel_upp_ts" =>
       /\ ts_low_of = {select_buf_index_reg}
       /\ ~fsm_wait_state => word_out = "ts_upp"
  /\ tx_arb_fsm = "arb_sel_ffw" /\ ~fsm_wait_state => word_out = "ffw"

\* The frame on the bus has the frame format word (DLC, identifier type, ...)
\* that is in the RAM of the buffer it is sent from.
MetadataOfLockedBuffer ==
  \A b \in Buf : txt_state[b] \in InProgress => md_of = {b}

\* Assertion txtb_lock_only_in_rdy_asrt of txt_buffer_fsm.vhd: protocol control
\* locks only a buffer that is ready.
LockOnlyInReady == "lock" \in txt_hw_cmd => txt_state[int_txtb_index] = "txt_ready"

\* What LockOnlyInReady implies for frames that are done: no buffer is sent
\* again after it moved to txt_ok, txt_error or txt_aborted.
LockNotInFinished == "lock" \in txt_hw_cmd => txt_state[int_txtb_index] \notin Finished

\* Assertion txtb_unlock_only_in_tx_prog_asrt: protocol control unlocks only a
\* buffer that is in progress.
UnlockOnlyInProgress ==
  "unlock" \in txt_hw_cmd => txt_state[int_txtb_index] \in InProgress

-----------------------------------------------------------------------------
(* What a step may never do.                                               *)

\* Assertion txtb_no_lock_after_abort: a buffer that is aborted while ready is
\* not locked in the next cycle.
NoLockAfterAbort ==
  [][\A b \in Buf : txt_state[b] = "txt_ready" /\ txt_state'[b] = "txt_aborted"
        => ~("lock" \in txt_hw_cmd' /\ int_txtb_index' = b)]_vars

\* A buffer that the core ends for good in this cycle has its interrupt set.
EndInterrupts ==
  \A b \in Buf :
    /\ txt_state[b] \in InProgress
    /\ txt_state'[b] \in Finished
    /\ ~bus_off_start
    => b \in hw_cmd_int'

\* A transmission that ends for good (txt_ok, txt_error, txt_aborted) by a
\* command of the core raises the TXT buffer HW command interrupt.
HwCompletionInterrupts == [][EndInterrupts]_vars

\* The interrupt is raised "upon transition to Failed, Done and Aborted
\* states", whatever caused the transition.
EveryCompletionInterrupts ==
  [][\A b \in Buf : txt_state[b] \notin Finished /\ txt_state'[b] \in Finished
       => b \in hw_cmd_int']_vars

\* Protocol control leaves the state off when the unit is enabled and
\* "not (error_state = bus_off)", and in no other way.
OffWhileBusOff == [][pc_state = "off" /\ bus_off => pc_state' = "off"]_vars

-----------------------------------------------------------------------------
(* Liveness.  The clock runs, the bus moves on from every phase of a frame *)
(* (protocol control is driven by bit triggers) and time passes.           *)

PcProgress == Cycle /\ <<pc_state, op_state>>' # <<pc_state, op_state>>

FairSpec ==
  /\ Spec
  /\ WF_vars(Cycle)
  /\ WF_vars(PcProgress)
  /\ \A b \in Buf : WF_vars(TimestampPasses(b))

\* An abort of a frame that is being transmitted takes effect: the buffer
\* leaves txt_ab_prog for a finished state, it is never made ready again.
AbortCompletes ==
  \A b \in Buf : txt_state[b] = "txt_ab_prog" ~> txt_state[b] \in Finished

\* If software stops interfering, the bus stops being disturbed by errors and
\* overloads and the unit does not stay bus-off, no ready buffer waits
\* forever: the arbitrator commits one after the other, protocol control
\* locks it and, with a limit of retransmissions, finishes it.
ReadyBufferIsSent ==
  /\ drv_retr_lim_ena
  /\ <>[][Cycle \/ \E b \in Buf : TimestampPasses(b)]_vars
  /\ <>[](~bus_off /\ pc_state \notin {"err_preset", "err_flag", "err_delim", "overload"})
  => <>[](\A b \in Buf : txt_state[b] # "txt_ready")
=============================================================================
