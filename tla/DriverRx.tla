------------------------------ MODULE DriverRx ------------------------------
(***************************************************************************)
(* Reception in the Linux driver (src/driver/ctu_can_fd.c): the interrupt  *)
(* handler ctucan_interrupt, the NAPI poll ctucan_rx_poll with ctucan_rx,  *)
(* opening and closing of the interface and the restart after bus-off.     *)
(*                                                                         *)
(* Five activities run concurrently and without a lock between them: the   *)
(* core; open and close (pc["ctl"], under the rtnl lock of the kernel);    *)
(* the restart work (pc["rst"]); the interrupt handler (isr); the poll     *)
(* (poll), whose last lines (tail) run after napi_complete_done and so     *)
(* beside the next poll.  One step is one access to a register or to a     *)
(* variable that is shared.                                                *)
(*                                                                         *)
(* A frame in the RX FIFO is two units: its first word and the rest.  The  *)
(* rest is read in one step, because only a reset of the core can come     *)
(* between its words.  What the driver reads beyond the last word of a     *)
(* frame is a step of its own: by then the next frame may have arrived.    *)
(* EPI stands for every other interrupt source.                            *)
(***************************************************************************)
EXTENDS Naturals

CONSTANTS
  FifoFrames,   \* frames the RX FIFO holds
  Quota,        \* NAPI_POLL_WEIGHT
  IrqLoops,     \* rounds of the loop of ctucan_interrupt, 10000 in the code
  Events,       \* the combinations of events that are explored (see Event)
  QuietStart    \* the core is quiet from the call of ctucan_open to napi_enable

\* "close": the interface is closed and opened again; "restart": the core goes
\* bus-off and is restarted; "nomem": allocations may fail; "shared": the
\* interrupt line is shared, so that the handler is called at any time;
\* "remote": remote frames with a length code above 0 are received.
Event == {"close", "restart", "nomem", "shared", "remote"}

ASSUME DriverRxAssumption ==
  /\ FifoFrames \in Nat \ {0} /\ Quota \in Nat \ {0} /\ IrqLoops \in Nat \ {0}
  /\ Events \subseteq SUBSET Event /\ QuietStart \in BOOLEAN

VARIABLES
  events,       \* the events of this behaviour
  units,        \* units in the RX FIFO, oldest first
  dor,          \* STATUS[DOR]: a frame was lost
  ena,          \* SETTINGS[ENA]
  int_stat, int_ena,    \* INT_STAT and the enabled sources
  rx_sched, ffw_buffered,       \* CTUCAN_FLAG_RX_SCHED, CTUCAN_FLAG_RX_FFW_BUFFERED
  napi, missed, \* struct napi_struct: state, NAPI_STATE_MISSED
  irq,          \* ctucan_interrupt is installed
  pc,           \* next step of open and close ("ctl") and of the restart ("rst")
  isr, bits, irq_loops,         \* ctucan_interrupt: next step, locals
  poll, left, work_done,        \* ctucan_rx_poll: next step, locals
  tail,         \* next step of a poll after napi_complete_done
  stale         \* the driver may be out of step with the frames in the FIFO

coreVars == <<units, dor, ena, int_stat, int_ena>>
napiVars == <<napi, missed>>
isrVars == <<isr, bits, irq_loops>>
pollVars == <<poll, left, work_done>>
vars == <<events, coreVars, rx_sched, ffw_buffered, napiVars, irq, pc, isrVars,
          pollVars, tail, stale>>

Sources == {"rbnei", "epi"}

-----------------------------------------------------------------------------
(* The core.                                                               *)

Level(u) == IF u > 0 THEN {"rbnei"} ELSE {}

\* Mutant: a clear wins against a source that is still active.
MutCleared(S) == int_stat \ S

\* int_module: a source that is active sets its bit again at once.
Cleared(S) == (int_stat \ S) \cup Level(units)

\* int_manager: the interrupt output.
Line == int_stat \cap int_ena # {}

\* A frame is received; it is lost if the FIFO is full.
Receive ==
  /\ ena /\ (QuietStart => napi # "off")
  /\ IF units + 2 <= 2 * FifoFrames
       THEN /\ units' = units + 2 /\ int_stat' = int_stat \cup {"rbnei"}
            /\ UNCHANGED dor
       ELSE dor' = TRUE /\ UNCHANGED <<units, int_stat>>
  /\ UNCHANGED <<events, ena, int_ena, rx_sched, ffw_buffered, napiVars, irq, pc,
                 isrVars, pollVars, tail, stale>>

OtherSource ==
  /\ ena /\ "epi" \notin int_stat
  /\ int_stat' = int_stat \cup {"epi"}
  /\ UNCHANGED <<events, units, dor, ena, int_ena, rx_sched, ffw_buffered, napiVars,
                 irq, pc, isrVars, pollVars, tail, stale>>

Core == Receive \/ OtherSource

-----------------------------------------------------------------------------
(* NAPI, as the driver uses it.                                            *)

\* napi_disable has set NAPI_STATE_DISABLE and waits.
Disabling == pc["ctl"] = "c_napi"

napi_schedule ==
  IF Disabling THEN UNCHANGED napiVars
  ELSE IF napi = "idle" THEN napi' = "sched" /\ UNCHANGED missed
  ELSE missed' = TRUE /\ UNCHANGED napi

-----------------------------------------------------------------------------
(* ctucan_interrupt.                                                       *)

IsrRest == <<events, ffw_buffered, irq, pollVars, tail, stale>>

\* The handler is called, or goes round its loop: read INT_STAT.
IsrRead ==
  /\ \/ isr = "idle" /\ irq /\ (Line \/ "shared" \in events)
     \/ isr = "read"
  /\ isr' = "test" /\ bits' = int_stat
  /\ UNCHANGED <<coreVars, rx_sched, napiVars, pc, irq_loops, IsrRest>>

\* The first step of a round for the given bits.
FirstFor(b) == IF "rbnei" \in b THEN "rb_clr" ELSE IF b # {} THEN "epi" ELSE "idle"

IsrTest ==
  /\ isr = "test"
  /\ \E b \in {IF rx_sched THEN bits \ {"rbnei"} ELSE bits} :
       /\ bits' = b /\ isr' = FirstFor(b)
       /\ irq_loops' = IF b = {} THEN 0 ELSE irq_loops
  /\ UNCHANGED <<coreVars, rx_sched, napiVars, pc, IsrRest>>

IsrRbClr ==
  /\ isr = "rb_clr" /\ isr' = "rb_dis"
  /\ int_stat' = Cleared({"rbnei"})
  /\ UNCHANGED <<units, dor, ena, int_ena, rx_sched, napiVars, pc, bits, irq_loops, IsrRest>>

IsrRbDis ==
  /\ isr = "rb_dis" /\ isr' = "rb_flag"
  /\ int_ena' = int_ena \ {"rbnei"}
  /\ UNCHANGED <<units, dor, ena, int_stat, rx_sched, napiVars, pc, bits, irq_loops, IsrRest>>

IsrRbFlag ==
  /\ isr = "rb_flag" /\ isr' = "rb_napi"
  /\ rx_sched' = TRUE
  /\ UNCHANGED <<coreVars, napiVars, pc, bits, irq_loops, IsrRest>>

IsrRbNapi ==
  /\ isr = "rb_napi" /\ isr' = IF "epi" \in bits THEN "epi" ELSE "loop"
  /\ napi_schedule
  /\ UNCHANGED <<coreVars, rx_sched, pc, bits, irq_loops, IsrRest>>

\* The other sources are cleared and handled; if the core is bus-off,
\* can_bus_off lets the kernel restart it after a while.
IsrOther ==
  /\ isr = "epi" /\ isr' = "loop"
  /\ int_stat' = Cleared({"epi"})
  /\ \/ UNCHANGED pc
     \/ "restart" \in events /\ pc["rst"] = "none" /\ pc' = [pc EXCEPT !["rst"] = "reset"]
  /\ UNCHANGED <<units, dor, ena, int_ena, rx_sched, napiVars, bits, irq_loops, IsrRest>>

IsrLoop ==
  /\ isr = "loop" /\ bits' = {}
  /\ IF irq_loops < IrqLoops THEN isr' = "read" /\ irq_loops' = irq_loops + 1
                             ELSE isr' = "stuck" /\ irq_loops' = 0
  /\ UNCHANGED <<coreVars, rx_sched, napiVars, pc, IsrRest>>

\* "stuck interrupt, stopping": every source is disabled.
IsrStuck ==
  /\ isr = "stuck" /\ isr' = "idle"
  /\ int_ena' = {}
  /\ UNCHANGED <<units, dor, ena, int_stat, rx_sched, napiVars, pc, bits, irq_loops, IsrRest>>

IsrStep ==
  \/ IsrRead \/ IsrTest \/ IsrRbClr \/ IsrRbDis \/ IsrRbFlag \/ IsrRbNapi
  \/ IsrOther \/ IsrLoop \/ IsrStuck

-----------------------------------------------------------------------------
(* ctucan_rx_poll and ctucan_rx.                                           *)

PollRest == <<events, ena, int_ena, rx_sched, irq, pc, isrVars>>

\* RX_STATUS[RXFRC]: a frame counts until its last word is read.
framecnt == (units + 1) \div 2

Minus1(u) == IF u > 0 THEN u - 1 ELSE 0

\* What one word more leaves in the FIFO: at a boundary it is the first word
\* of a frame, inside a frame it may be the last one.
WordRead == IF units % 2 = 1 THEN {units, units - 1} ELSE {Minus1(units)}

\* What ctu_can_fd_read_rx_frame_ffw leaves in the FIFO: it reads as many words
\* as the first word says, however many that are if it is not a first word.
RestRead == IF stale THEN 0..units ELSE {Minus1(units)}

PollStart ==
  /\ napi = "sched" /\ napi' = "poll"
  /\ poll = "idle" /\ poll' = "count"
  /\ UNCHANGED <<units, dor, int_stat, ffw_buffered, missed, left, work_done, tail, stale, PollRest>>

\* A poll that finds the FIFO empty, with no word kept, is in step again.
PollCount ==
  /\ poll = "count"
  /\ IF framecnt > 0 /\ work_done < Quota THEN left' = framecnt /\ poll' = "ffw"
                                          ELSE UNCHANGED left /\ poll' = "dor"
  /\ stale' = (stale /\ (units > 0 \/ ffw_buffered))
  /\ UNCHANGED <<units, dor, int_stat, ffw_buffered, napiVars, work_done, tail, PollRest>>

\* One round of the for loop ends.
RoundDone ==
  /\ left' = left - 1 /\ work_done' = work_done + 1
  /\ poll' = IF left > 1 THEN "ffw" ELSE "count"

\* Mutant: the first word is not kept when there is no memory.
MutRxFfw(memory) ==
  /\ poll = "ffw"
  /\ units' \in IF ffw_buffered THEN {units} ELSE WordRead
  /\ \/ memory /\ poll' = "rest" /\ ffw_buffered' = FALSE /\ UNCHANGED <<left, work_done>>
     \/ ~memory /\ "nomem" \in events /\ ffw_buffered' = FALSE /\ RoundDone
  /\ UNCHANGED <<dor, int_stat, napiVars, tail, stale, PollRest>>

\* ctucan_rx takes the first word, from the FIFO or kept from the last call,
\* and allocates a buffer; without memory it keeps the word and gives up.
RxFfw(memory) ==
  /\ poll = "ffw"
  /\ units' \in IF ffw_buffered THEN {units} ELSE WordRead
  /\ \/ memory /\ poll' = "rest" /\ ffw_buffered' = FALSE /\ UNCHANGED <<left, work_done>>
     \/ ~memory /\ "nomem" \in events /\ ffw_buffered' = TRUE /\ RoundDone
  /\ UNCHANGED <<dor, int_stat, napiVars, tail, stale, PollRest>>

\* ctu_can_fd_read_rx_frame_ffw, and the frame is delivered; it reads on if it
\* expects data words that the core did not store.
RxFrame ==
  /\ poll = "rest"
  /\ units' \in RestRead
  /\ \/ RoundDone
     \/ ("remote" \in events \/ stale) /\ poll' = "extra" /\ UNCHANGED <<left, work_done>>
  /\ UNCHANGED <<dor, int_stat, ffw_buffered, napiVars, tail, stale, PollRest>>

\* The data words of a remote frame, as many as its length code says: the core
\* stored none, so that the first words of the next frame are taken for them.
RxExtra ==
  /\ poll = "extra"
  /\ units' \in RestRead
  /\ stale' = (stale \/ units > 0)
  /\ RoundDone
  /\ UNCHANGED <<dor, int_stat, ffw_buffered, napiVars, tail, PollRest>>

PollDor ==
  /\ poll = "dor" /\ poll' = IF dor THEN "cdo" ELSE "complete"
  /\ UNCHANGED <<units, dor, int_stat, ffw_buffered, napiVars, left, work_done, tail, stale, PollRest>>

PollCdo ==
  /\ poll = "cdo" /\ poll' = "complete"
  /\ dor' = FALSE
  /\ UNCHANGED <<units, int_stat, ffw_buffered, napiVars, left, work_done, tail, stale, PollRest>>

\* With the quota used up the poll is called again.  Otherwise, and if NAPI
\* is being disabled, it is complete; napi_complete_done schedules it again,
\* and returns false, if napi_schedule was called meanwhile.
PollComplete ==
  /\ poll = "complete" /\ poll' = "idle" /\ work_done' = 0
  /\ IF work_done >= Quota
       THEN /\ napi' = IF Disabling THEN "idle" ELSE "sched"
            /\ UNCHANGED <<missed, tail>>
     ELSE IF missed
       THEN napi' = "sched" /\ missed' = FALSE /\ UNCHANGED tail
     ELSE /\ tail = "none" /\ tail' = "flag"
          /\ napi' = "idle" /\ UNCHANGED missed
  /\ UNCHANGED <<units, dor, int_stat, ffw_buffered, left, stale, PollRest>>

PollStep ==
  \/ PollStart \/ PollCount \/ RxFfw(TRUE) \/ RxFfw(FALSE) \/ RxFrame \/ RxExtra
  \/ PollDor \/ PollCdo \/ PollComplete

TailRest == <<events, units, dor, ena, ffw_buffered, napiVars, irq, pc, isrVars, pollVars, stale>>

TailFlag ==
  /\ tail = "flag" /\ tail' = "clr"
  /\ rx_sched' = FALSE
  /\ UNCHANGED <<int_stat, int_ena, TailRest>>

TailClr ==
  /\ tail = "clr" /\ tail' = "ena"
  /\ int_stat' = Cleared({"rbnei"})
  /\ UNCHANGED <<int_ena, rx_sched, TailRest>>

TailEna ==
  /\ tail = "ena" /\ tail' = "none"
  /\ int_ena' = int_ena \cup {"rbnei"}
  /\ UNCHANGED <<int_stat, rx_sched, TailRest>>

TailStep == TailFlag \/ TailClr \/ TailEna

-----------------------------------------------------------------------------
(* ctucan_chip_start, for open and for the restart.                        *)

ChipRest == <<events, ffw_buffered, napiVars, irq, isrVars, pollVars, tail>>

Goto(p, step) == pc' = [pc EXCEPT ![p] = step]

\* ctucan_reset: the core loses everything; it may not answer afterwards.  A
\* poll that has counted or begun a frame, or has kept a word, is out of step.
ChipReset(p) ==
  /\ pc[p] = "reset"
  /\ Goto(p, "flag") \/ Goto(p, IF p = "ctl" THEN "failed" ELSE "none")
  /\ units' = 0 /\ dor' = FALSE /\ ena' = FALSE /\ int_stat' = {} /\ int_ena' = {}
  /\ stale' = (ffw_buffered \/ poll \in {"ffw", "rest", "extra"})
  /\ UNCHANGED <<rx_sched, ChipRest>>

\* Mutant: CTUCAN_FLAG_RX_SCHED survives the restart.
MutChipFlag(p) ==
  /\ pc[p] = "flag" /\ Goto(p, "ena")
  /\ UNCHANGED <<coreVars, rx_sched, stale, ChipRest>>

ChipFlag(p) ==
  /\ pc[p] = "flag" /\ Goto(p, "ena")
  /\ rx_sched' = FALSE
  /\ UNCHANGED <<coreVars, stale, ChipRest>>

\* The interrupts are enabled, then the core.  Until it is enabled it does
\* nothing that could come between the two.
ChipEnable(p) ==
  /\ pc[p] = "ena" /\ Goto(p, IF p = "ctl" THEN "started" ELSE "none")
  /\ int_ena' = int_ena \cup Sources /\ ena' = TRUE
  /\ UNCHANGED <<units, dor, int_stat, rx_sched, stale, ChipRest>>

ChipStart(p) == ChipReset(p) \/ ChipFlag(p) \/ ChipEnable(p)

-----------------------------------------------------------------------------
(* ctucan_open, ctucan_close and the restart.                              *)

CtlRest == <<events, units, dor, int_stat, int_ena, ffw_buffered, isrVars, pollVars, tail, stale>>

Open ==
  /\ pc["ctl"] = "closed" /\ (QuietStart => "rbnei" \notin int_stat /\ ~ena)
  /\ Goto("ctl", "reset")
  /\ irq' = TRUE
  /\ UNCHANGED <<ena, rx_sched, napiVars, CtlRest>>

\* ctucan_chip_start failed: free_irq waits for the handler to return.
OpenFailed ==
  /\ pc["ctl"] = "failed" /\ isr = "idle" /\ Goto("ctl", "closed")
  /\ irq' = FALSE
  /\ UNCHANGED <<ena, rx_sched, napiVars, CtlRest>>

OpenNapi ==
  /\ pc["ctl"] = "started" /\ Goto("ctl", "up")
  /\ napi' = "idle"
  /\ UNCHANGED <<ena, rx_sched, missed, irq, CtlRest>>

Close ==
  /\ "close" \in events /\ pc["ctl"] = "up" /\ Goto("ctl", "c_napi")
  /\ UNCHANGED <<ena, rx_sched, napiVars, irq, CtlRest>>

CloseNapi ==
  /\ pc["ctl"] = "c_napi" /\ napi = "idle" /\ Goto("ctl", "c_dis")
  /\ napi' = "off"
  /\ UNCHANGED <<ena, rx_sched, missed, irq, CtlRest>>

\* ctucan_chip_stop.  ctu_can_fd_int_ena is called with an empty mask: it
\* changes nothing, whatever its third, uninitialised argument is.
ChipStop ==
  /\ pc["ctl"] = "c_dis" /\ Goto("ctl", "c_flag")
  /\ ena' = FALSE
  /\ UNCHANGED <<rx_sched, napiVars, irq, CtlRest>>

ChipStopFlag ==
  /\ pc["ctl"] = "c_flag" /\ Goto("ctl", "c_irq")
  /\ rx_sched' = FALSE
  /\ UNCHANGED <<ena, napiVars, irq, CtlRest>>

\* free_irq waits for the handler to return.
CloseIrq ==
  /\ pc["ctl"] = "c_irq" /\ isr = "idle" /\ Goto("ctl", "c_candev")
  /\ irq' = FALSE
  /\ UNCHANGED <<ena, rx_sched, napiVars, CtlRest>>

\* close_candev cancels the restart, or waits for its end.
CloseCandev ==
  /\ pc["ctl"] = "c_candev" /\ pc["rst"] \in {"none", "reset"}
  /\ pc' = [ctl |-> "closed", rst |-> "none"]
  /\ UNCHANGED <<ena, rx_sched, napiVars, irq, CtlRest>>

CtlStep ==
  \/ ChipStart("ctl") \/ OpenFailed \/ OpenNapi \/ CloseNapi \/ ChipStop
  \/ ChipStopFlag \/ CloseIrq \/ CloseCandev

\* can_restart calls ctucan_do_set_mode, which restarts the chip and wakes the
\* queue: pc["rst"] = "reset" from the time it is scheduled.
RstStep == ChipStart("rst")

-----------------------------------------------------------------------------
Init ==
  /\ events \in Events
  /\ units = 0 /\ dor = FALSE /\ ena = FALSE /\ int_stat = {} /\ int_ena = {}
  /\ rx_sched = FALSE /\ ffw_buffered = FALSE
  /\ napi = "off" /\ missed = FALSE /\ irq = FALSE
  /\ pc = [ctl |-> "closed", rst |-> "none"]
  /\ isr = "idle" /\ bits = {} /\ irq_loops = 0
  /\ poll = "idle" /\ left = 0 /\ work_done = 0
  /\ tail = "none" /\ stale = FALSE

Next == Core \/ IsrStep \/ PollStep \/ TailStep \/ Open \/ Close \/ CtlStep \/ RstStep

Spec == Init /\ [][Next]_vars

\* Every activity that has something to do goes on, and an allocation that
\* is repeated succeeds some time.
FairSpec ==
  /\ Spec
  /\ WF_vars(IsrStep) /\ WF_vars(PollStep) /\ WF_vars(TailStep)
  /\ SF_vars(RxFfw(TRUE))

-----------------------------------------------------------------------------
(* Properties.                                                             *)

\* States of the core, of the flags and of the five activities.
TypeOK ==
  /\ units \in 0..(2 * FifoFrames)
  /\ dor \in BOOLEAN /\ ena \in BOOLEAN /\ rx_sched \in BOOLEAN
  /\ ffw_buffered \in BOOLEAN /\ missed \in BOOLEAN /\ irq \in BOOLEAN
  /\ stale \in BOOLEAN
  /\ int_stat \subseteq Sources /\ int_ena \subseteq Sources /\ bits \subseteq Sources
  /\ napi \in {"off", "idle", "sched", "poll"}
  /\ pc["ctl"] \in {"closed", "reset", "flag", "ena", "failed", "started", "up",
                   "c_napi", "c_dis", "c_flag", "c_irq", "c_candev"}
  /\ pc["rst"] \in {"none", "reset", "flag", "ena"}
  /\ isr \in {"idle", "read", "test", "rb_clr", "rb_dis", "rb_flag", "rb_napi",
              "epi", "loop", "stuck"}
  /\ irq_loops \in 0..IrqLoops
  /\ poll \in {"idle", "count", "ffw", "rest", "extra", "dor", "cdo", "complete"}
  /\ left \in 0..FifoFrames /\ work_done \in 0..(Quota + FifoFrames - 1)
  /\ tail \in {"none", "flag", "clr", "ena"}

\* The driver and the RX FIFO agree where a frame begins: a word was read ahead
\* exactly if ctucan_rx is in the middle of a frame or has kept the first word
\* for want of memory.  Only two things end that, a reset of the core during a
\* round or with a word kept, and a remote frame with a length code that
\* another frame follows in the FIFO; and it lasts no longer than to the next
\* reset outside a round or the next poll that finds the FIFO empty, both with
\* no word kept.  (ctucan_rx, ctucan_rx_poll)
FramesAligned == ~stale => (units % 2 = 1 <=> ffw_buffered \/ poll = "rest")

\* "It is level-triggered, so there is no race condition"
\* (ctu_can_fd.c:533-534): when neither the poll nor a part of the handler
\* that will schedule it is under way, RBNEI is enabled and the handler does
\* not ignore it.
RxArmed ==
  /\ pc["ctl"] = "up" /\ pc["rst"] \in {"none", "reset"}
  /\ napi = "idle" /\ tail = "none"
  /\ isr \notin {"rb_flag", "rb_napi"} /\ int_ena # {}
  => "rbnei" \in int_ena /\ ~rx_sched

\* A frame in the RX FIFO of a running interface is delivered, unless the
\* handler gave up with "stuck interrupt", the core is restarted or the driver
\* gets out of step with the FIFO.
RxServed ==
  [](isr # "stuck") =>
    (pc["ctl"] = "up" /\ units > 0
       ~> poll = "rest" \/ stale \/ pc["ctl"] # "up" \/ pc["rst"] # "none")

\* "It will disable the interrupts and disable the controller"
\* (ctu_can_fd.c:735-736): the core of a closed interface raises no interrupt.
ClosedIsQuiet == pc["ctl"] = "closed" => ~Line

\* The core of a closed interface is disabled.
ClosedIsDisabled == pc["ctl"] = "closed" => ~ena

\* "IRQ_NONE - If CAN device is in sleep mode, IRQ_HANDLED otherwise"
\* (ctu_can_fd.c:662): the handler, called because the core raised the line
\* (no "shared" among the events), finds something to handle.
RaisedIsHandled == [][~(isr = "test" /\ irq_loops = 0 /\ isr' = "idle")]_vars

\* "Max number of rx packets to be processed" (ctu_can_fd.c:477).
QuotaKept == work_done <= Quota

\* No frame is read with the first word of another one.
NeverStale == ~stale
=============================================================================
