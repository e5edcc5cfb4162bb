------------------------------ MODULE DriverHw ------------------------------
(***************************************************************************)
(* The hardware access layer of the driver (ctu_can_fd_hw.c): what a       *)
(* function of it writes is what the core understands, and what it reads   *)
(* is what the core meant.                                                 *)
(*                                                                         *)
(* A behaviour is about one case.  For the functions that are a            *)
(* computation, a case is an input and a property compares the result      *)
(* with what the core makes of it.  The functions that read more than one  *)
(* register while the core runs are steps that interleave with steps of    *)
(* the core: the 64 bit timestamp and the error state.                     *)
(***************************************************************************)
EXTENDS CanFrame, BitTiming, Userspace

CONSTANTS
  BaseIds,       \* identifiers of base format
  ExtendedIds,   \* identifiers of extended format
  WordSize,      \* values of a timestamp word (2^32 in the core)
  Counters,      \* error counters the core may have when a call begins
  MaxEvents      \* core events during a call of ctu_can_fd_read_error_state

ASSUME DriverHwAssumption ==
  /\ \A id \in BaseIds : id \in Nat /\ id < 2^11
  /\ \A id \in ExtendedIds : id \in Nat /\ id < 2^29
  /\ WordSize \in Nat \ {0, 1}
  /\ \A n \in Counters : n \in Nat /\ n < 512
  /\ MaxEvents \in Nat

VARIABLES
  job,           \* the case
  core,          \* registers of the core that change during a call
  call           \* the call in progress: what it has read

vars == <<job, core, call, bt, tool>>

-----------------------------------------------------------------------------
(* MODE and SETTINGS, interrupt enable and mask.                           *)

CtrlMode == {"LOOPBACK", "LISTENONLY", "3_SAMPLES", "FD", "PRESUME_ACK",
             "FD_NON_ISO", "ONE_SHOT", "BERR_REPORTING"}

\* The field of MODE or SETTINGS that a control mode is mapped to.
ModeField ==
  [ilbp |-> "LOOPBACK", lom |-> "LISTENONLY", tsm |-> "3_SAMPLES", fde |-> "FD",
   stm |-> "PRESUME_ACK", nisofd |-> "FD_NON_ISO"]

ResetMode == Assembled([fde |-> 1, rtrp |-> 1])

set_mode_reg(reg, flags, mask) ==
  With(mode_settings, reg,
       [f \in {f \in DOMAIN ModeField : ModeField[f] \in mask} |->
          Flag(ModeField[f] \in flags)])

CTU_CAN_FD_RETR_MAX == 15

set_ret_limit(reg, enable, limit) ==
  IF limit > CTU_CAN_FD_RETR_MAX THEN reg
  ELSE With(mode_settings, reg, [rtrle |-> Flag(enable), rtrth |-> limit % 16])

\* Mutant: the rest of the register is not read before it is written.
Mutenable(reg, ena) == Word(mode_settings, [ena |-> Flag(ena)])

enable(reg, ena) == With(mode_settings, reg, [ena |-> Flag(ena)])

\* A SET register sets bits, a CLR register clears them.
int_conf(bits, mask, val) == (bits \union (mask \cap val)) \ (mask \ val)

AllBits == 0..31

\* Interrupts that chip_start wants to be enabled.
int_ena(flags) ==
  Word(int_stat, [rbnei |-> 1, txbhci |-> 1, ewli |-> 1, epi |-> 1]
                   @@ [f \in {"ali", "bei"} |-> Flag("BERR_REPORTING" \in flags)])

is_enabled(reg) == Get(mode_settings, reg, "ena") = 1

\* The bit timing registers may be written only while the core is disabled.
set_bittiming(reg) == IF is_enabled(reg) THEN "EPERM" ELSE "0"
set_data_bittiming_checked(reg) == IF is_enabled(reg) THEN "EPERM" ELSE "0"

\* ctucan_chip_start, from the reset of the core to the enabling of it.
chip_start(flags) ==
  LET mode == set_mode_reg(ResetMode, flags, CtrlMode)
      limited == IF "ONE_SHOT" \in flags THEN set_ret_limit(mode, TRUE, 0) ELSE mode
      ena == int_ena(flags)
  IN [errs |-> {set_bittiming(ResetMode), set_data_bittiming_checked(ResetMode)},
      mode |-> enable(limited, TRUE),
      int_mask |-> int_conf({}, AllBits \ ena, AllBits),
      int_ena |-> int_conf({}, ena, AllBits)]

\* The userspace tool: reset, bit timing, optionally the loopback mode, enable.
tool_start(loopback) ==
  LET flags == {"LOOPBACK", "PRESUME_ACK"}
  IN enable(IF loopback THEN set_mode_reg(ResetMode, flags, flags) ELSE ResetMode, TRUE)

\* ctu_can_fd_set_mode, as far as it is about the bus error interrupt.
set_mode(bits, flags, mask) ==
  IF "BERR_REPORTING" \notin mask THEN bits
  ELSE int_conf(bits, Word(int_stat, [bei |-> Flag("ONE_SHOT" \in flags)]),
                Word(int_stat, [bei |-> 1]))

-----------------------------------------------------------------------------
(* TXT buffers: status, commands and priorities.                           *)

TXT_RDY == 1
TXT_TRAN == 2
TXT_ABTP == 3

Buffer == INSTANCE TxtBuffer

\* The core encodes the state of a buffer for TX_STATUS.
txtb_state ==
  [txt_ready |-> 1, txt_tx_prog |-> 2, txt_ab_prog |-> 3, txt_ok |-> 4,
   txt_error |-> 6, txt_aborted |-> 7, txt_empty |-> 8]

StatusField == <<"tx1s", "tx2s", "tx3s", "tx4s">>
BufferField == <<"txb1", "txb2", "txb3", "txb4">>

get_tx_status(word, buf) == Get(tx_status, word, StatusField[buf + 1])

is_txt_buf_accessible(word, buf) ==
  get_tx_status(word, buf) \notin {TXT_RDY, TXT_TRAN, TXT_ABTP}

\* Mutant: the command of the next bit is tested first.
Mutgive_command(cmd, buf) ==
  LET c == CASE (cmd \div 2) % 2 = 1 -> "txce" [] cmd % 2 = 1 -> "txcr"
             [] OTHER -> "txca"
  IN IF buf \notin 0..3 \/ cmd % 8 = 0 THEN {}
     ELSE Word(tx_command, [f \in {BufferField[buf + 1], c} |-> 1])

\* The word written to TX_COMMAND, {} where nothing is written.
give_command(cmd, buf) ==
  LET c == CASE cmd % 2 = 1 -> "txce" [] (cmd \div 2) % 2 = 1 -> "txcr"
             [] OTHER -> "txca"
  IN IF buf \notin 0..3 \/ cmd % 8 = 0 THEN {}
     ELSE Word(tx_command, [f \in {BufferField[buf + 1], c} |-> 1])

-----------------------------------------------------------------------------
(* Error counters.                                                         *)

read_err_ctrs(word) ==
  [txerr |-> Get(rxc_txc, word, "rxc_val"), rxerr |-> Get(rxc_txc, word, "txc_val")]

set_err_ctrs(ctr) ==
  <<Word(ctr_pres, [ctpv |-> ctr.txerr, ptx |-> 1]),
    Word(ctr_pres, [ctpv |-> ctr.rxerr, ptx |-> 0, prx |-> 1])>>

\* The core presets the counters that are selected.
Preset(c, word) ==
  [tx |-> IF Slice(word, "ptx") = 1 THEN Slice(word, "ctpv") ELSE c.tx,
   rx |-> IF Slice(word, "prx") = 1 THEN Slice(word, "ctpv") ELSE c.rx]

CounterWord(c) == Assembled([rxc_val |-> c.rx, txc_val |-> c.tx])

-----------------------------------------------------------------------------
(* ctu_can_fd_read_timestamp, while the timestamp counts.                  *)

Tick ==
  /\ job.kind = "time" /\ call.pc # "done"
  /\ core.ts - call.start < WordSize - 1    \* a call takes less than 2^32 ticks
  /\ core' = [core EXCEPT !.ts = @ + 1]
  /\ UNCHANGED <<job, call, bt, tool>>

ReadHigh ==
  /\ job.kind = "time" /\ call.pc = "high"
  /\ call' = [call EXCEPT !.pc = "low", !.high = core.ts \div WordSize]
  /\ UNCHANGED <<job, core, bt, tool>>

ReadLow ==
  /\ job.kind = "time" /\ call.pc = "low"
  /\ call' = [call EXCEPT !.pc = "high2", !.low = core.ts % WordSize]
  /\ UNCHANGED <<job, core, bt, tool>>

\* Mutant: the low word is not read again when the high word has changed.
MutReadHigh2 ==
  /\ job.kind = "time" /\ call.pc = "high2"
  /\ call' = [call EXCEPT !.pc = "done", !.high = core.ts \div WordSize]
  /\ UNCHANGED <<job, core, bt, tool>>

ReadHigh2 ==
  /\ job.kind = "time" /\ call.pc = "high2"
  /\ LET high_2 == core.ts \div WordSize
     IN call' = [call EXCEPT !.pc = IF @ = "high2" /\ call.high # high_2 THEN "low2"
                                    ELSE "done",
                             !.high = high_2]
  /\ UNCHANGED <<job, core, bt, tool>>

ReadLow2 ==
  /\ job.kind = "time" /\ call.pc = "low2"
  /\ call' = [call EXCEPT !.pc = "done", !.low = core.ts % WordSize]
  /\ UNCHANGED <<job, core, bt, tool>>

-----------------------------------------------------------------------------
(* ctu_can_fd_read_error_state, while errors are counted.                  *)

EW_LIMIT == 96
ERP_LIMIT == 128
bus_off_th == 255

Above(c, limit) == c.tx >= limit \/ c.rx >= limit

FaultState(c) ==
  IF Above(c, bus_off_th + 1) THEN "bof" ELSE IF Above(c, ERP_LIMIT) THEN "erp" ELSE "era"

\* The error state of the core: its fault state, and the warning it signals.
CoreState(c) ==
  CASE c.fault = "bof" -> "BUS_OFF"
    [] c.fault = "erp" -> "PASSIVE"
    [] OTHER -> IF Above(c, EW_LIMIT) THEN "WARNING" ELSE "ACTIVE"

\* The counters of a receiver and of a transmitter.
RxDec(n) == IF n < 127 THEN (IF n > 0 THEN n - 1 ELSE 0) ELSE 120
TxDec(n) == IF n > 0 THEN n - 1 ELSE 0

CountedCores(c) ==
  {[c EXCEPT !.tx = @ + 1], [c EXCEPT !.tx = @ + 8], [c EXCEPT !.tx = TxDec(@)],
   [c EXCEPT !.rx = @ + 1], [c EXCEPT !.rx = @ + 8], [c EXCEPT !.rx = RxDec(@)]}

\* The counters change; no more errors are counted in bus off.
Count ==
  /\ job.kind = "state" /\ call.pc # "done" /\ call.events < MaxEvents
  /\ core.fault # "bof" /\ core.fault = FaultState(core)
  /\ core' \in CountedCores(core)
  /\ call' = [call EXCEPT !.events = @ + 1, !.seen = @ \union {CoreState(core')}]
  /\ UNCHANGED <<job, bt, tool>>

\* error_state follows the counters with the next clock edge.
Confine ==
  /\ job.kind = "state" /\ call.pc # "done" /\ core.fault # FaultState(core)
  /\ core' = [core EXCEPT !.fault = FaultState(core)]
  /\ call' = [call EXCEPT !.seen = @ \union {CoreState(core')}]
  /\ UNCHANGED <<job, bt, tool>>

FaultWord(fault) ==
  Assembled([ew_limit |-> EW_LIMIT, erp_limit |-> ERP_LIMIT, era |-> Flag(fault = "era"),
             erp |-> Flag(fault = "erp"), bof |-> Flag(fault = "bof")])

ReadFault ==
  /\ job.kind = "state" /\ call.pc = "fault"
  /\ call' = [call EXCEPT !.pc = "counters", !.word = FaultWord(core.fault)]
  /\ UNCHANGED <<job, core, bt, tool>>

\* Mutant: the warning state begins above the limit.
Mutread_error_state(reg, err) ==
  LET limit == Get(ewl_erp_fault_state, reg, "ew_limit")
  IN CASE Get(ewl_erp_fault_state, reg, "era") = 1 ->
            IF limit >= Get(rxc_txc, err, "rxc_val") /\ limit >= Get(rxc_txc, err, "txc_val")
            THEN "ACTIVE" ELSE "WARNING"
       [] Get(ewl_erp_fault_state, reg, "erp") = 1 -> "PASSIVE"
       [] Get(ewl_erp_fault_state, reg, "bof") = 1 -> "BUS_OFF"
       [] OTHER -> "PASSIVE"

read_error_state(reg, err) ==
  LET limit == Get(ewl_erp_fault_state, reg, "ew_limit")
  IN CASE Get(ewl_erp_fault_state, reg, "era") = 1 ->
            IF limit > Get(rxc_txc, err, "rxc_val") /\ limit > Get(rxc_txc, err, "txc_val")
            THEN "ACTIVE" ELSE "WARNING"
       [] Get(ewl_erp_fault_state, reg, "erp") = 1 -> "PASSIVE"
       [] Get(ewl_erp_fault_state, reg, "bof") = 1 -> "BUS_OFF"
       [] OTHER -> "PASSIVE"

ReadCounters ==
  /\ job.kind = "state" /\ call.pc = "counters"
  /\ call' = [call EXCEPT !.pc = "done",
                          !.result = read_error_state(call.word, CounterWord(core))]
  /\ UNCHANGED <<job, core, bt, tool>>

-----------------------------------------------------------------------------
(* The cases.                                                              *)

CanIds ==
  [eff : {FALSE}, id : BaseIds] \union [eff : {TRUE}, id : ExtendedIds]

AFrame(id, rtr, fd, len, brs) ==
  [eff |-> id.eff, id |-> id.id, rtr |-> rtr, fd |-> fd, len |-> len, brs |-> brs,
   data |-> [k \in 1..16 |-> Data(k)]]

SentFrames ==
  {AFrame(id, rtr, FALSE, len, FALSE) : id \in CanIds, rtr \in BOOLEAN, len \in 0..8}
  \union
  {AFrame(id, FALSE, TRUE, len, brs) : id \in CanIds, len \in 0..64, brs \in BOOLEAN}

\* The length code on the bus, which another sender of a CAN 2.0 frame may
\* choose above 8.
LengthCodes(cf) ==
  IF cf.fd THEN {can_len2dlc(cf.len)}
  ELSE IF cf.len = 8 /\ ~cf.rtr THEN 8..15 ELSE {cf.len}

\* A frame that user space sends.
Frames ==
  {f \in [kind : {"frame"}, cf : SentFrames, dlc : 0..15] : f.dlc \in LengthCodes(f.cf)}

Ranges ==
  {[kind |-> "range", low |-> low, high |-> high, fd |-> fd, id |-> id] :
     low \in CanIds, high \in CanIds, fd \in BOOLEAN, id \in CanIds}

Starts == [kind : {"start"}, flags : SUBSET CtrlMode]
ToolStarts == [kind : {"tool"}, loopback : BOOLEAN]

\* The buffer a command is for is in some state, the others are in another one.
BufferStates(buf) ==
  {[b \in 0..3 |-> IF b = buf THEN s ELSE other] :
     s \in DOMAIN txtb_state, other \in {"txt_empty", "txt_ready"}}

Commands ==
  UNION {[kind : {"command"}, cmd : 0..7, buf : {buf}, states : BufferStates(buf)] : buf \in 0..4}

Layouts == [kind : {"layout"}, union : Unions]
Addresses == [kind : {"address"}, register : DOMAIN can_registers]

Presets == [kind : {"preset"}, txerr : {0, 1, 255, 256}, rxerr : {0, 7, 128}]

NoCore == [none |-> TRUE]

Init ==
  \/ /\ job \in Frames \union Ranges \union Starts \union ToolStarts \union Commands
                  \union Layouts \union Addresses \union Presets
     /\ core = NoCore /\ call = NoCore /\ bt = [pc |-> "none"] /\ tool = NoCore
  \/ /\ job = [kind |-> "timing"] /\ core = NoCore /\ call = NoCore /\ tool = NoCore
     /\ TimingInit
  \/ /\ job = [kind |-> "find"] /\ core = NoCore /\ call = NoCore /\ bt = [pc |-> "none"]
     /\ \E inst \in 0..2 : FindInit(inst)
  \/ /\ job = [kind |-> "time"] /\ bt = [pc |-> "none"] /\ tool = NoCore
     /\ core \in [ts : 0..(2 * WordSize)]
     /\ call = [pc |-> "high", start |-> core.ts, high |-> 0, low |-> 0]
  \/ /\ job = [kind |-> "state"] /\ bt = [pc |-> "none"] /\ tool = NoCore
     /\ core \in {c \in [tx : Counters, rx : Counters, fault : {"era", "erp", "bof"}] :
                    c.fault = FaultState(c)}
     /\ call = [pc |-> "fault", events |-> 0, seen |-> {CoreState(core)},
                word |-> {}, result |-> ""]

Timing == TimingNext /\ UNCHANGED <<job, core, call, tool>>
Find == job.kind = "find" /\ FindNext /\ UNCHANGED <<job, core, call, bt>>

Next ==
  \/ Timing \/ Find
  \/ Tick \/ ReadHigh \/ ReadLow \/ ReadHigh2 \/ ReadLow2
  \/ Count \/ Confine \/ ReadFault \/ ReadCounters

Spec == Init /\ [][Next]_vars

-----------------------------------------------------------------------------
(* Properties.                                                             *)

\* The register header of the driver and the core give every field the same
\* bits and every register the same address, for reading and for writing.
RegistersAgree ==
  /\ job.kind = "layout" => UnionAgrees(job.union)
  /\ job.kind = "address" => AddressAgrees(job.register)

\* A short frame that follows in the FIFO: it is read whole only if the frame
\* before it was consumed to the last word and no further.
Follower == AFrame([eff |-> FALSE, id |-> 5], FALSE, FALSE, 1, FALSE)

\* Words in the RX buffer of the receiver.
Buffered ==
  LET buf == insert_frame(job.cf, job.cf.fd)
      sent == [buf EXCEPT !.ffw = With(frame_form_w, @, [dlc |-> job.dlc])]
  IN StoredWords(sent) \o StoredWords(insert_frame(Follower, FALSE))

\* The fields that a sender chooses; the ESI flag of got is not one of them.
SameFrame(got, cf, len) ==
  /\ got.eff = cf.eff /\ got.id = cf.id /\ got.rtr = cf.rtr
  /\ got.fd = cf.fd /\ got.brs = cf.brs
  /\ got.len = len
  /\ cf.rtr \/ \A i \in 1..CeilDiv4(cf.len) : i \in DOMAIN got.data /\ got.data[i] = cf.data[i]

Delivered ==
  LET first == read_rx_frame(Buffered)
      second == read_rx_frame(first.left)
  IN /\ SameFrame(first.frame, job.cf,
                  IF job.cf.fd THEN can_dlc2len(can_len2dlc(job.cf.len)) ELSE job.cf.len)
     /\ SameFrame(second.frame, Follower, 1)
     /\ second.left = <<>>

\* A data frame that one driver inserts is the frame that another one reads,
\* in its identifier, format, bit rate switch, data and length, rounded up to a
\* length CAN FD has, and the reader consumes the words of the frame and no
\* others.  The CANFD_ESI flag is excepted: the core does not take it from the
\* bus.  (ctu_can_fd_insert_frame, ctu_can_fd_read_rx_frame_ffw)
FrameRoundTrip == job.kind = "frame" /\ ~job.cf.rtr => Delivered

\* The same for every frame, remote frames included.
RemoteRoundTrip == job.kind = "frame" => Delivered

SameType == job.low.eff = job.id.eff /\ job.high.eff = job.id.eff

\* With filter A switched off and the range filter on, the core passes the
\* frames with identifiers from low to high, for thresholds of the type of
\* the frame.  (ctu_can_fd_set_range_filter)
RangeFilterAccepts ==
  job.kind = "range" /\ SameType =>
    LET regs == set_range_filter(set_mask_filter(ResetFilters, "a", FALSE, job.low, job.low),
                                 job.low, job.high, TRUE)
    IN Accepted(regs, job.fd, job.id.eff, id_to_hwid(job.id))
         <=> job.id.id \in job.low.id..job.high.id

\* A mask filter passes the identifiers that agree with can_id in the bits of
\* can_mask.  (ctu_can_fd_set_mask_filter)
MaskFilterAccepts ==
  job.kind = "range" /\ SameType =>
    LET regs == set_mask_filter(ResetFilters, "a", TRUE, job.low, job.high)
    IN Accepted(regs, job.fd, job.id.eff, id_to_hwid(job.id))
         <=> Bits(job.id.id) \cap Bits(job.high.id) = Bits(job.low.id) \cap Bits(job.high.id)

\* pci_find_dev returns the device it is asked for.
ToolFindsDevice == job.kind = "find" => SearchFinds

\* After ctucan_chip_start the core runs in exactly the modes of ctrlmode,
\* with the settings that no control mode is about as they are after reset,
\* the interrupts that the driver handles are enabled and the others masked.
\* The userspace tool changes the loopback modes only.
StartedAsConfigured ==
  /\ job.kind = "tool" =>
       LET mode == tool_start(job.loopback)
       IN \A f \in {"rst", "lom", "stm", "afm", "fde", "rtrp", "tsm", "acf", "rtrle",
                    "rtrth", "ilbp", "ena", "nisofd"} :
            Slice(mode, f) = IF f = "ena" \/ (job.loopback /\ f \in {"ilbp", "stm"}) THEN 1
                             ELSE Slice(ResetMode, f)
  /\ job.kind = "start" =>
    LET regs == chip_start(job.flags)
    IN /\ regs.errs = {"0"}
       /\ \A f \in DOMAIN ModeField :
            Slice(regs.mode, f) = Flag(ModeField[f] \in job.flags)
       /\ Slice(regs.mode, "rtrle") = Flag("ONE_SHOT" \in job.flags)
       /\ Slice(regs.mode, "rtrth") = 0 /\ Slice(regs.mode, "ena") = 1
       /\ Slice(regs.mode, "rtrp") = 1 /\ Slice(regs.mode, "rst") = 0
       /\ Slice(regs.mode, "afm") = 0 /\ Slice(regs.mode, "acf") = 0
       /\ \A f \in DOMAIN InterruptBits :
            LET wanted == \/ f \in {"rbnei", "txbhci", "ewli", "epi"}
                          \/ f \in {"ali", "bei"} /\ "BERR_REPORTING" \in job.flags
            IN Slice(regs.int_ena, f) = Flag(wanted)
                 /\ Slice(regs.int_mask, f) = Flag(~wanted)

\* Bus error reporting that is switched off disables the bus error interrupt.
\* (ctu_can_fd_set_mode)
BusErrorsFollowMode ==
  job.kind = "start" =>
    LET bits == set_mode(Word(int_stat, [bei |-> 1]), job.flags, CtrlMode)
    IN Slice(bits, "bei") = Flag("BERR_REPORTING" \in job.flags)

\* A command reaches the addressed TXT buffer and no other, as the command
\* with the lowest bit, and a buffer is written only in a state in which the
\* core lets its memory be written.  (ctu_can_fd_txt_buf_give_command,
\* ctu_can_fd_is_txt_buf_accessible)
BufferAccess ==
  job.kind = "command" =>
    LET word == give_command(job.cmd, job.buf)
        status_word == Assembled([f \in {StatusField[i] : i \in 1..4} |->
                         txtb_state[job.states[(CHOOSE i \in 1..4 : StatusField[i] = f) - 1]]])
    IN /\ job.buf \in 0..3 /\ job.cmd # 0 =>
            /\ \A i \in 1..4 : Slice(word, BufferField[i]) = Flag(i = job.buf + 1)
            /\ Slice(word, "txce") = job.cmd % 2
            /\ Slice(word, "txcr") = Flag(job.cmd \in {2, 6})
            /\ Slice(word, "txca") = Flag(job.cmd = 4)
       /\ (job.buf = 4 \/ job.cmd = 0) => word = {}
       /\ job.buf \in 0..3 =>
            (is_txt_buf_accessible(status_word, job.buf)
               <=> Buffer!txtb_user_accessible(job.states[job.buf]))

\* The counters that were set are the ones that are read.
\* (ctu_can_fd_set_err_ctrs, ctu_can_fd_read_err_ctrs)
CountersReadBack ==
  job.kind = "preset" =>
    LET words == set_err_ctrs(job)
        after == Preset(Preset([tx |-> 0, rx |-> 0], words[1]), words[2])
    IN read_err_ctrs(CounterWord(after)) = [txerr |-> job.txerr, rxerr |-> job.rxerr]

\* The timestamp that is returned is one that the counter had during the call.
TimestampWasReal ==
  job.kind = "time" /\ call.pc = "done" =>
    call.high * WordSize + call.low \in call.start..core.ts

\* The error state that is returned is one that the core was in during the
\* call, although its two halves are read one after the other.
ErrorStateWasReal ==
  job.kind = "state" /\ call.pc = "done" => call.result \in call.seen

\* Sample points that the segments of the controller can always give.
UsualPoint == bt.req.sample_point = 0 \/ bt.req.sample_point >= 750
PropFits == bt.req.prop_seg <= IF bt.req.data THEN 63 ELSE 127

\* Success of can_get_bittiming means that the core has the bit rate and the
\* sample point that are reported.
TimingReachesCore ==
  job.kind = "timing" /\ Timed /\ UsualPoint /\ PropFits => CoreHasTiming

\* The same for every request.
TimingAlwaysReachesCore == job.kind = "timing" /\ Timed => CoreHasTiming

\* No segments and prescaler of the controller come closer to the bit rate.
\* (can_calc_bittiming)
BitrateIsClosest ==
  job.kind = "timing" /\ bt.pc = "done" /\ bt.req.tq = 0 /\ UsualPoint =>
    LET btc == Btc(bt.req)
        tsegs == (1 + btc.tseg1_min + btc.tseg2_min)..(1 + btc.tseg1_max + btc.tseg2_max)
        Error(brp, n) == abs(bt.req.bitrate - Bitrate(bt.req, brp, n))
    IN \A brp \in btc.brp_min..btc.brp_max, n \in tsegs :
         IF bt.err = "0" THEN abs(bt.req.bitrate - bt.bitrate) <= Error(brp, n)
         ELSE Error(brp, n) \div (bt.req.bitrate \div 1000) > CAN_CALC_MAX_ERROR
=============================================================================
