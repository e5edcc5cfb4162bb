------------------------------ MODULE DriverTx ------------------------------
(***************************************************************************)
(* Transmission in the Linux driver (src/driver/ctu_can_fd.c) on top of    *)
(* the TXT buffers of the core.                                            *)
(*                                                                         *)
(* ctucan_start_xmit runs on one CPU (program counter xmit), the interrupt *)
(* handler ctucan_interrupt with ctucan_tx_interrupt on another (isr); the *)
(* driver takes no lock between them.  One step is one access to a         *)
(* register of the core or to a variable the two share.  The core is       *)
(* reduced to its TXT buffers, their priority decoder and the TXBHCI bit   *)
(* of INT_STAT.                                                            *)
(*                                                                         *)
(* txb_head and txb_tail are counted modulo 2 * buf_count, which keeps     *)
(* their difference and their buffer numbers.                              *)
(***************************************************************************)
EXTENDS PriorityDecoder, TxtBuffer

CONSTANTS OneShot,      \* modes tried: with or without CAN_CTRLMODE_ONE_SHOT
          LostBus       \* the core may lose arbitration or see errors

ASSUME DriverTxAssumption == OneShot \subseteq BOOLEAN /\ LostBus \in BOOLEAN

VARIABLES
  txt_state,            \* state of each TXT buffer
  tx_priority,          \* register TX_PRIORITY
  txbhci,               \* INT_STAT[TXBHCI]
  txb_head, txb_tail, txb_prio,
  queue_stopped,        \* netif_stop_queue / netif_wake_queue
  echo_skb,             \* buffers with a frame kept for the echo
  bugs,                 \* "BUG" messages logged so far
  one_shot,             \* the retransmission limit is enabled, and 0
  xmit, txb_id,         \* ctucan_start_xmit: next step, local
  isr, first, some_buffers_processed   \* ctucan_interrupt: next step, locals

coreVars == <<txt_state, tx_priority, txbhci>>
xmitVars == <<xmit, txb_id>>
isrVars == <<isr, first, some_buffers_processed>>
vars == <<coreVars, txb_head, txb_tail, txb_prio, queue_stopped, echo_skb, bugs,
          one_shot, xmitVars, isrVars>>

Counter == 0..(2 * buf_count - 1)
Next1(c) == (c + 1) % (2 * buf_count)
InFlight == (txb_head + 2 * buf_count - txb_tail) % (2 * buf_count)
IdOf(c) == c % buf_count

-----------------------------------------------------------------------------
(* The core.                                                               *)

\* Mutant: a finished buffer counts as free.
MutTXTNF == \E b \in Buf : txtb_user_accessible(txt_state[b])

\* STATUS[TXNF]: some TXT buffer is empty.
TXTNF == \E b \in Buf : txt_state[b] = "txt_empty"

SwCommand(b, cmd) ==
  txt_state' = [txt_state EXCEPT ![b] = buf_fsm(@, {cmd}, {}, FALSE)]

HwCommand(b, hw) ==
  txt_state' = [txt_state EXCEPT ![b] = buf_fsm(@, {}, hw, FALSE)]

Ready == {b \in Buf : txt_buf_ready(txt_state[b], {})}

\* The core begins to transmit the buffer the priority decoder selects.
CoreLock ==
  /\ \A b \in Buf : txt_state[b] \notin InProgress
  /\ OutputValid(tx_priority, Ready)
  /\ HwCommand(OutputIndex(tx_priority, Ready), {"lock"})
  /\ UNCHANGED <<tx_priority, txbhci>>

\* How a transmission ends: a lost arbitration and an error are followed by
\* another attempt unless the limit of retransmissions is 0.
EndKinds ==
  {"valid"} \cup (IF ~LostBus THEN {} ELSE IF one_shot THEN {"failed"}
                  ELSE {"arbl", "err"})

CoreUnlock(kind) ==
  \E b \in Buf :
    /\ txt_state[b] \in InProgress
    /\ HwCommand(b, {"unlock", kind})
    /\ txbhci' = (txbhci \/ txtb_hw_cmd_int(txt_state[b], {}, {"unlock", kind}, TRUE))
    /\ UNCHANGED tx_priority

CoreFrame == UNCHANGED <<txb_head, txb_tail, txb_prio, queue_stopped, echo_skb,
                         bugs, one_shot, xmitVars, isrVars>>

Core == (CoreLock \/ \E kind \in EndKinds : CoreUnlock(kind)) /\ CoreFrame

-----------------------------------------------------------------------------
(* ctucan_start_xmit.                                                      *)

XmitRest == <<tx_priority, txbhci, txb_tail, txb_prio, one_shot, isrVars>>

\* The network stack submits a frame; it does so only while the queue runs.
XmitCall ==
  /\ xmit = "return" /\ ~queue_stopped
  /\ xmit' = IF TXTNF THEN "take" ELSE "busy"
  /\ UNCHANGED <<txt_state, txb_head, queue_stopped, echo_skb, bugs, txb_id, XmitRest>>

XmitBusy ==
  /\ xmit = "busy" /\ xmit' = "return"
  /\ queue_stopped' = TRUE
  /\ bugs' = bugs \cup {"no TXB free when queue awake"}
  /\ UNCHANGED <<txt_state, txb_head, echo_skb, txb_id, XmitRest>>

XmitTake ==
  /\ xmit = "take" /\ xmit' = "insert"
  /\ txb_id' = IdOf(txb_head) /\ txb_head' = Next1(txb_head)
  /\ UNCHANGED <<txt_state, queue_stopped, echo_skb, bugs, XmitRest>>

\* ctu_can_fd_insert_frame fails only if the buffer is not accessible.
XmitInsert ==
  /\ xmit = "insert"
  /\ IF txtb_user_accessible(txt_state[txb_id])
       THEN xmit' = "echo" /\ UNCHANGED bugs
       ELSE xmit' = "return" /\ bugs' = bugs \cup {"cannot insert frame"}
  /\ UNCHANGED <<txt_state, txb_head, queue_stopped, echo_skb, txb_id, XmitRest>>

\* can_put_echo_skb complains if the frame kept before was not taken back.
XmitEcho ==
  /\ xmit = "echo" /\ xmit' = "set_rdy"
  /\ echo_skb' = echo_skb \cup {txb_id}
  /\ bugs' = IF txb_id \in echo_skb THEN bugs \cup {"echo_skb is occupied"} ELSE bugs
  /\ UNCHANGED <<txt_state, txb_head, queue_stopped, txb_id, XmitRest>>

XmitSetRdy ==
  /\ xmit = "set_rdy" /\ xmit' = "check"
  /\ SwCommand(txb_id, "set_rdy")
  /\ UNCHANGED <<txb_head, queue_stopped, echo_skb, bugs, txb_id, XmitRest>>

XmitCheck ==
  /\ xmit = "check" /\ xmit' = IF TXTNF THEN "return" ELSE "stop"
  /\ UNCHANGED <<txt_state, txb_head, queue_stopped, echo_skb, bugs, txb_id, XmitRest>>

XmitStop ==
  /\ xmit = "stop" /\ xmit' = "return"
  /\ queue_stopped' = TRUE
  /\ UNCHANGED <<txt_state, txb_head, echo_skb, bugs, txb_id, XmitRest>>

\* The steps of a call that has begun.
XmitStep ==
  \/ XmitBusy \/ XmitTake \/ XmitInsert \/ XmitEcho \/ XmitSetRdy
  \/ XmitCheck \/ XmitStop

-----------------------------------------------------------------------------
(* ctucan_interrupt and ctucan_tx_interrupt.                               *)

IsrRest == <<txb_head, one_shot, xmitVars>>

\* The interrupt line is high: read INT_STAT and clear TXBHCI.
IsrEnter ==
  /\ isr = "return" /\ txbhci /\ isr' = "clear_first"
  /\ UNCHANGED <<coreVars, txb_tail, txb_prio, queue_stopped, echo_skb, bugs,
                 first, some_buffers_processed, IsrRest>>

IsrClearFirst ==
  /\ isr = "clear_first" /\ isr' = "loop"
  /\ txbhci' = FALSE
  /\ first' = TRUE /\ some_buffers_processed' = FALSE
  /\ UNCHANGED <<txt_state, tx_priority, txb_tail, txb_prio, queue_stopped,
                 echo_skb, bugs, IsrRest>>

IsrLoop ==
  /\ isr = "loop"
  /\ isr' = IF InFlight > 0 THEN "status" ELSE "clear"
  /\ UNCHANGED <<coreVars, txb_tail, txb_prio, queue_stopped, echo_skb, bugs,
                 first, some_buffers_processed, IsrRest>>

\* The status of the oldest buffer is read.  A buffer that is not finished
\* ends the pass, and is a BUG if nothing was processed.
IsrStatus ==
  /\ isr = "status"
  /\ IF txt_state[IdOf(txb_tail)] \in Finished
       THEN isr' = "processed" /\ UNCHANGED bugs
     ELSE IF first
       THEN isr' = "again" /\ bugs' = bugs \cup {"TXB not in a finished state"}
     ELSE isr' = "clear" /\ UNCHANGED bugs
  /\ UNCHANGED <<coreVars, txb_tail, txb_prio, queue_stopped, echo_skb,
                 first, some_buffers_processed, IsrRest>>

\* Mutant: the frame of a failed transmission is not freed.
MutIsrProcessed ==
  /\ isr = "processed" /\ isr' = "rotate"
  /\ echo_skb' = IF txt_state[IdOf(txb_tail)] = "txt_ok"
                   THEN echo_skb \ {IdOf(txb_tail)} ELSE echo_skb
  /\ txb_tail' = Next1(txb_tail)
  /\ first' = FALSE /\ some_buffers_processed' = TRUE
  /\ UNCHANGED <<coreVars, txb_prio, queue_stopped, bugs, IsrRest>>

\* Echo (TXT_TOK) or drop (TXT_ERR, TXT_ABT) the frame and go on to the next.
IsrProcessed ==
  /\ isr = "processed" /\ isr' = "rotate"
  /\ echo_skb' = echo_skb \ {IdOf(txb_tail)}
  /\ txb_tail' = Next1(txb_tail)
  /\ first' = FALSE /\ some_buffers_processed' = TRUE
  /\ UNCHANGED <<coreVars, txb_prio, queue_stopped, bugs, IsrRest>>

\* Mutant: the priorities are rotated the wrong way.
MutRotated(prio) == [b \in Buf |-> prio[(b + 1) % buf_count]]

\* (prio << 4) | (prio >> (nbuffers - 1) * 4) & 0xF, a nibble per buffer.
Rotated(prio) == [b \in Buf |-> prio[(b + buf_count - 1) % buf_count]]

\* ctucan_rotate_txb_prio.
IsrRotate ==
  /\ isr = "rotate" /\ isr' = "set_empty"
  /\ txb_prio' = Rotated(txb_prio) /\ tx_priority' = Rotated(txb_prio)
  /\ UNCHANGED <<txt_state, txbhci, txb_tail, queue_stopped, echo_skb, bugs,
                 first, some_buffers_processed, IsrRest>>

\* The buffer is the one before the new txb_tail.
IsrSetEmpty ==
  /\ isr = "set_empty" /\ isr' = "loop"
  /\ SwCommand(IdOf(txb_tail + 2 * buf_count - 1), "set_ety")
  /\ UNCHANGED <<tx_priority, txbhci, txb_tail, txb_prio, queue_stopped,
                 echo_skb, bugs, first, some_buffers_processed, IsrRest>>

\* Mutant: TXBHCI is not cleared again after the buffers were processed.
MutIsrClear ==
  /\ isr = "clear"
  /\ isr' = IF some_buffers_processed THEN "loop" ELSE "wake"
  /\ some_buffers_processed' = FALSE
  /\ UNCHANGED <<coreVars, txb_tail, txb_prio, queue_stopped,
                 echo_skb, bugs, first, IsrRest>>

IsrClear ==
  /\ isr = "clear"
  /\ txbhci' = FALSE
  /\ isr' = IF some_buffers_processed THEN "loop" ELSE "wake"
  /\ some_buffers_processed' = FALSE
  /\ UNCHANGED <<txt_state, tx_priority, txb_tail, txb_prio, queue_stopped,
                 echo_skb, bugs, first, IsrRest>>

\* Mutant: the queue is woken only if a buffer is still in flight.
MutIsrWake ==
  /\ isr = "wake" /\ isr' = "again"
  /\ queue_stopped' = (queue_stopped /\ InFlight = 0)
  /\ UNCHANGED <<coreVars, txb_tail, txb_prio, echo_skb, bugs,
                 first, some_buffers_processed, IsrRest>>

IsrWake ==
  /\ isr = "wake" /\ isr' = "again"
  /\ queue_stopped' = FALSE
  /\ UNCHANGED <<coreVars, txb_tail, txb_prio, echo_skb, bugs,
                 first, some_buffers_processed, IsrRest>>

\* ctucan_interrupt reads INT_STAT again.
IsrAgain ==
  /\ isr = "again" /\ isr' = IF txbhci THEN "clear_first" ELSE "return"
  /\ UNCHANGED <<coreVars, txb_tail, txb_prio, queue_stopped, echo_skb, bugs,
                 first, some_buffers_processed, IsrRest>>

IsrStep ==
  \/ IsrEnter \/ IsrClearFirst \/ IsrLoop \/ IsrStatus \/ IsrProcessed
  \/ IsrRotate \/ IsrSetEmpty \/ IsrClear \/ IsrWake \/ IsrAgain

-----------------------------------------------------------------------------
\* After ctucan_chip_start: TXB#0 has the highest priority.
Init ==
  /\ txt_state = [b \in Buf |-> "txt_empty"]
  /\ txb_prio = [b \in Buf |-> 7 - b] /\ tx_priority = txb_prio
  /\ txbhci = FALSE
  /\ txb_head = 0 /\ txb_tail = 0
  /\ queue_stopped = FALSE /\ echo_skb = {} /\ bugs = {}
  /\ one_shot \in OneShot
  /\ xmit = "return" /\ txb_id = 0
  /\ isr = "return" /\ first = TRUE /\ some_buffers_processed = FALSE

Next == Core \/ XmitCall \/ XmitStep \/ IsrStep

Spec == Init /\ [][Next]_vars

\* The CPUs run, and the bus sooner or later takes the frame that is sent.
FairSpec ==
  /\ Spec
  /\ WF_vars(IsrStep) /\ WF_vars(XmitStep)
  /\ WF_vars(CoreLock /\ CoreFrame) /\ SF_vars(CoreUnlock("valid") /\ CoreFrame)

-----------------------------------------------------------------------------
(* Properties.                                                             *)

Messages == {"no TXB free when queue awake", "cannot insert frame",
             "echo_skb is occupied", "TXB not in a finished state"}

\* The counters of the driver, kept modulo twice the number of buffers, and
\* the states of core, ctucan_start_xmit and ctucan_interrupt.
TypeOK ==
  /\ txt_state \in [Buf -> TxtState]
  /\ tx_priority \in [Buf -> Prio] /\ txb_prio \in [Buf -> Prio]
  /\ txb_head \in Counter /\ txb_tail \in Counter
  /\ txbhci \in BOOLEAN /\ queue_stopped \in BOOLEAN /\ one_shot \in BOOLEAN
  /\ first \in BOOLEAN /\ some_buffers_processed \in BOOLEAN
  /\ echo_skb \subseteq Buf /\ bugs \subseteq Messages
  /\ xmit \in {"return", "busy", "take", "insert", "echo", "set_rdy", "check", "stop"}
  /\ txb_id \in Buf
  /\ isr \in {"return", "clear_first", "loop", "status", "processed", "rotate",
              "set_empty", "clear", "wake", "again"}

\* The buffer of the i-th frame in flight, the oldest being the 0-th.
InFlightBuf(i) == IdOf(txb_tail + i)

\* "it may be assumed that buffers transition to empty state in FIFO order
\* (because we manage priorities that way)" (ctu_can_fd.c:66-67): a frame is
\* on the bus or finished only when every frame submitted before it is
\* finished, although the priorities are rotated by the interrupt handler
\* while the core transmits and ctucan_start_xmit fills buffers.
CompletesInOrder ==
  \A i, j \in 0..(InFlight - 1) :
    i < j /\ txt_state[InFlightBuf(j)] \in Finished \cup InProgress
      => txt_state[InFlightBuf(i)] \in Finished

\* "it is assumed that the buffer with ID txb_head is empty and the frame is
\* inserted there" (linux-driver.tex:139-140): STATUS[TXNF] speaks of some
\* buffer, the driver writes to one it chooses itself, and a finished buffer
\* would be overwritten silently because it is accessible.
InsertsIntoEmpty ==
  xmit \in {"insert", "echo", "set_rdy"} => txt_state[txb_id] = "txt_empty"

\* The messages "BUG! cannot insert frame into TXTB!", "BUG: TXB#%u not in a
\* finished state" and the kernel's "echo_skb is occupied" are never logged.
NoFifoBug == bugs \subseteq {"no TXB free when queue awake"}

\* "BUG!, no TXB free when queue awake!" (ctu_can_fd.c:297) is never logged.
NoBusyBug == "no TXB free when queue awake" \notin bugs

\* A frame kept for the echo is given back: the interrupt handler notices
\* every buffer that is finished.
FramesAreProcessed == \A b \in Buf : b \in echo_skb ~> b \notin echo_skb

\* With traffic that does not cease no finished buffer is forgotten, even if
\* its own interrupt was cleared unseen.
FramesAreProcessedUnderTraffic == []<>(xmit = "take") => FramesAreProcessed

\* A stopped transmit queue is woken again.
QueueIsWoken == queue_stopped ~> ~queue_stopped

\* "If all TX buffers are now full, the TX queue is stopped."
\* (linux-driver.tex:141): as long as ctucan_start_xmit and the handler do not
\* overlap, it is woken again, although the handler still clears interrupts of
\* frames that complete while it runs.  (ctu_can_fd.c has no lock between the
\* two: QueueIsWoken alone does not hold.)
StoppedQueueIsWoken ==
  [](xmit = "return" \/ isr = "return") => QueueIsWoken
=============================================================================
