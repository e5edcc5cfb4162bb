--------------------------- MODULE DriverTxProofs ---------------------------
(***************************************************************************)
(* The frames in flight stay in FIFO order, for every number of TXT        *)
(* buffers, under every interleaving of ctucan_start_xmit, the interrupt   *)
(* handler and the core.                                                   *)
(***************************************************************************)
EXTENDS DriverTx, PriorityDecoderProofs, TLAPS

\* The time limits, in seconds, of the leaves that name no prover.
USE SMTT(40), ZenonT(40)

\* The place of a buffer in the ring, counted from the buffer of txb_tail.
Place(t, b) == (b + 2 * buf_count - t) % buf_count

Ahead(h, t) == (h + 2 * buf_count - t) % (2 * buf_count)

Filling == xmit \in {"insert", "echo", "set_rdy"}
Leaving(b) == isr \in {"rotate", "set_empty"} /\ Place(txb_tail, b) = buf_count - 1

CountInv ==
  /\ InFlight <= buf_count
  /\ isr \in {"rotate", "set_empty"} => InFlight < buf_count
  /\ Filling => InFlight > 0 /\ Place(txb_tail, txb_id) = InFlight - 1
  /\ xmit = "take" => InFlight < buf_count /\ txt_state[IdOf(txb_head)] = "txt_empty"
  /\ isr \in {"status", "processed"} => InFlight > 0
  /\ isr = "processed" => txt_state[IdOf(txb_tail)] \in Finished

\* The buffers in flight are in use, the others are empty; one may be on its
\* way in, one on its way out.
BufInv ==
  \A b \in Buf :
    /\ Place(txb_tail, b) >= InFlight =>
         IF Leaving(b) THEN txt_state[b] \in Finished ELSE txt_state[b] = "txt_empty"
    /\ Place(txb_tail, b) < InFlight =>
         IF Filling /\ b = txb_id THEN txt_state[b] = "txt_empty"
         ELSE txt_state[b] \in {"txt_ready"} \cup InProgress \cup Finished

\* An interrupt the handler has not yet answered is that of the oldest frame.
SeenInv ==
  /\ \/ first /\ isr \in {"loop", "status", "processed"}
     \/ txbhci /\ isr \in {"wake", "again", "return"}
     \/ isr = "clear_first"
     => InFlight > 0 /\ txt_state[IdOf(txb_tail)] \in Finished
  /\ isr \in {"rotate", "set_empty", "clear"} => ~first

\* The priorities fall with the place; the rotation lags behind txb_tail.
PrioOf(n) == IF isr # "rotate" THEN 7 - n ELSE IF n = buf_count - 1 THEN 7 ELSE 6 - n

PrioInv ==
  /\ tx_priority = txb_prio
  /\ \A b \in Buf : txb_prio[b] = PrioOf(Place(txb_tail, b))

OrderInv ==
  \A b, c \in Buf :
    /\ Place(txb_tail, b) < Place(txb_tail, c) /\ Place(txb_tail, c) < InFlight
    /\ txt_state[c] \in Finished \cup InProgress
    => txt_state[b] \in Finished

EchoInv ==
  \A b \in echo_skb :
    Place(txb_tail, b) < InFlight /\ ~(xmit \in {"insert", "echo"} /\ b = txb_id)

FifoInv == CountInv /\ BufInv /\ SeenInv /\ PrioInv /\ OrderInv /\ EchoInv /\ NoFifoBug

-----------------------------------------------------------------------------
(* Arithmetic of the ring, by cases on the number of buffers.              *)

LEMMA Counts ==
  buf_count \in {1, 2, 3, 4, 5, 6, 7, 8}
BY BufCountAssumption

LEMMA PlaceType ==
  ASSUME NEW t \in Counter, NEW b \in Buf
  PROVE  Place(t, b) \in Buf
BY BufCountAssumption DEF Place, Buf, Counter

LEMMA PlaceUnique ==
  ASSUME NEW t \in Counter, NEW b \in Buf, NEW c \in Buf, Place(t, b) = Place(t, c)
  PROVE  b = c
BY Counts DEF Place, Buf, Counter

LEMMA PlaceNext ==
  ASSUME NEW t \in Counter, NEW b \in Buf
  PROVE  /\ Next1(t) \in Counter
         /\ Place(Next1(t), b) = IF Place(t, b) = 0 THEN buf_count - 1 ELSE Place(t, b) - 1
BY Counts DEF Place, Buf, Counter, Next1

LEMMA PlaceOfId ==
  ASSUME NEW t \in Counter, NEW i \in Buf
  PROVE  IdOf(t + i) \in Buf /\ Place(t, IdOf(t + i)) = i
BY Counts DEF Place, Buf, Counter, IdOf

LEMMA TailId ==
  ASSUME NEW t \in Counter
  PROVE  IdOf(t) \in Buf /\ Place(t, IdOf(t)) = 0
BY Counts DEF Place, Buf, Counter, IdOf

\* The buffer IsrSetEmpty frees is the last of the ring.
LEMMA LastId ==
  ASSUME NEW t \in Counter
  PROVE  /\ IdOf(t + 2 * buf_count - 1) \in Buf
         /\ Place(t, IdOf(t + 2 * buf_count - 1)) = buf_count - 1
BY Counts DEF Place, Buf, Counter, IdOf

LEMMA HeadId ==
  ASSUME NEW h \in Counter, NEW t \in Counter, Ahead(h, t) < buf_count
  PROVE  IdOf(h) \in Buf /\ Place(t, IdOf(h)) = Ahead(h, t)
BY Counts DEF Place, Ahead, Buf, Counter, IdOf

LEMMA AheadType ==
  ASSUME NEW h \in Counter, NEW t \in Counter
  PROVE  Ahead(h, t) \in Counter
BY Counts DEF Ahead, Counter

LEMMA AheadHead ==
  ASSUME NEW h \in Counter, NEW t \in Counter, Ahead(h, t) < buf_count
  PROVE  Next1(h) \in Counter /\ Ahead(Next1(h), t) = Ahead(h, t) + 1
BY Counts DEF Ahead, Counter, Next1

LEMMA AheadTail ==
  ASSUME NEW h \in Counter, NEW t \in Counter, Ahead(h, t) > 0
  PROVE  Next1(t) \in Counter /\ Ahead(h, Next1(t)) = Ahead(h, t) - 1
BY Counts DEF Ahead, Counter, Next1

\* A buffer inherits the priority of the one before it.
LEMMA RotatedPlace ==
  ASSUME NEW t \in Counter, NEW b \in Buf
  PROVE  /\ (b + buf_count - 1) % buf_count \in Buf
         /\ Place(t, (b + buf_count - 1) % buf_count) =
              IF Place(t, b) = 0 THEN buf_count - 1 ELSE Place(t, b) - 1
BY Counts DEF Place, Buf, Counter

-----------------------------------------------------------------------------
(* Type correctness.                                                       *)

LEMMA BufFsmType ==
  ASSUME NEW s \in TxtState, NEW sw, NEW hw
  PROVE  buf_fsm(s, sw, hw, FALSE) \in TxtState
BY DEF buf_fsm, FsmStep, FromEmpty, FromReady, FromTxProg, FromAbProg, FromFinished,
       UnlockTo, TxtState

Flags ==
  /\ txbhci \in BOOLEAN /\ queue_stopped \in BOOLEAN /\ one_shot \in BOOLEAN
  /\ first \in BOOLEAN /\ some_buffers_processed \in BOOLEAN

Fields ==
  /\ txt_state \in [Buf -> TxtState]
  /\ tx_priority \in [Buf -> Prio] /\ txb_prio \in [Buf -> Prio]
  /\ txb_head \in Counter /\ txb_tail \in Counter
  /\ echo_skb \subseteq Buf /\ bugs \subseteq Messages
  /\ xmit \in {"return", "busy", "take", "insert", "echo", "set_rdy", "check", "stop"}
  /\ txb_id \in Buf
  /\ isr \in {"return", "clear_first", "loop", "status", "processed", "rotate",
              "set_empty", "clear", "wake", "again"}

LEMMA FlagsKept ==
  ASSUME Flags, [Next]_vars
  PROVE  Flags'
<1> USE DEF Flags, coreVars, xmitVars, isrVars, IsrRest, XmitRest
<1>1. CASE Core
  BY <1>1, ZenonT(40) DEF Core, CoreLock, CoreUnlock, CoreFrame, txtb_hw_cmd_int
<1>2. CASE XmitCall
  BY <1>2, ZenonT(40) DEF XmitCall
<1>3. CASE XmitStep
  BY <1>3, ZenonT(40) DEF XmitStep, XmitBusy, XmitTake, XmitInsert, XmitEcho, XmitSetRdy,
                     XmitCheck, XmitStop
<1>4. CASE IsrEnter \/ IsrClearFirst \/ IsrLoop \/ IsrStatus \/ IsrProcessed
  BY <1>4, ZenonT(40) DEF IsrEnter, IsrClearFirst, IsrLoop, IsrStatus, IsrProcessed
<1>5. CASE IsrRotate \/ IsrSetEmpty \/ IsrClear \/ IsrWake \/ IsrAgain
  BY <1>5, ZenonT(40) DEF IsrRotate, IsrSetEmpty, IsrClear, IsrWake, IsrAgain
<1>6. CASE UNCHANGED vars
  BY <1>6 DEF vars
<1> QED BY <1>1, <1>2, <1>3, <1>4, <1>5, <1>6, ZenonT(40) DEF Next, IsrStep

LEMMA SwCommandType ==
  ASSUME Fields, NEW b, NEW cmd, SwCommand(b, cmd)
  PROVE  txt_state' \in [Buf -> TxtState]
BY ZenonT(40), BufFsmType DEF SwCommand, Fields

LEMMA HwCommandType ==
  ASSUME Fields, NEW b, NEW hw, HwCommand(b, hw)
  PROVE  txt_state' \in [Buf -> TxtState]
BY ZenonT(40), BufFsmType DEF HwCommand, Fields

LEMMA FieldsKept ==
  ASSUME Fields, [Next]_vars
  PROVE  Fields'
<1> USE DEF coreVars, xmitVars, isrVars, IsrRest, XmitRest
<1>0. IdOf(txb_head) \in Buf /\ Next1(txb_head) \in Counter /\ Next1(txb_tail) \in Counter
  BY TailId, PlaceNext DEF Fields, Next1, IdOf, Counter, Buf
<1>1. CASE Core
  <2>1. txt_state' \in [Buf -> TxtState]
    BY ZenonT(40), <1>1, HwCommandType DEF Core, CoreLock, CoreUnlock
  <2> QED BY ZenonT(40), <1>1, <2>1 DEF Core, CoreLock, CoreUnlock, CoreFrame, Fields
<1>2. CASE XmitCall
  BY <1>2 DEF XmitCall, Fields
<1>3. CASE XmitBusy \/ XmitTake \/ XmitInsert \/ XmitEcho \/ XmitCheck \/ XmitStop
  BY <1>0, <1>3 DEF XmitBusy, XmitTake, XmitInsert, XmitEcho, XmitCheck, XmitStop, Fields, Messages
<1>4. CASE XmitSetRdy
  BY <1>4, SwCommandType DEF XmitSetRdy, Fields
<1>5. CASE IsrEnter \/ IsrClearFirst \/ IsrLoop \/ IsrStatus \/ IsrProcessed
  BY <1>0, <1>5 DEF IsrEnter, IsrClearFirst, IsrLoop, IsrStatus, IsrProcessed, Fields, Messages
<1>6. CASE IsrRotate
  <2>1. \A b \in Buf : (b + buf_count - 1) % buf_count \in Buf
    BY RotatedPlace DEF Fields
  <2>2. Rotated(txb_prio) \in [Buf -> Prio]
    BY <2>1 DEF Fields, Rotated
  <2> QED BY <1>6, <2>2 DEF IsrRotate, Fields
<1>7. CASE IsrSetEmpty
  BY <1>7, SwCommandType DEF IsrSetEmpty, Fields
<1>8. CASE IsrClear \/ IsrWake \/ IsrAgain
  BY <1>8 DEF IsrClear, IsrWake, IsrAgain, Fields
<1>9. CASE UNCHANGED vars
  BY <1>9 DEF vars, Fields
<1> QED BY <1>1, <1>2, <1>3, <1>4, <1>5, <1>6, <1>7, <1>8, <1>9 DEF Next, XmitStep, IsrStep

\* The counters of the driver stay within the range kept here, TX_PRIORITY
\* holds valid priorities, whatever interleaves.
THEOREM DriverTxTypeCorrect == Spec => []TypeOK
<1>1. Init => Flags /\ Fields
  <2> SUFFICES ASSUME Init PROVE Flags /\ Fields
    OBVIOUS
  <2>1. 0 \in Buf /\ 0 \in Counter /\ \A b \in Buf : 7 - b \in Prio
    BY BufCountAssumption DEF Buf, Counter, Prio
  <2>2. Flags
    BY DriverTxAssumption, ZenonT(40) DEF Init, Flags
  <2> QED BY <2>1, <2>2 DEF Init, Fields, TxtState
<1>2. Flags /\ Fields /\ [Next]_vars => (Flags /\ Fields)'
  BY FlagsKept, FieldsKept
<1>3. Flags /\ Fields => TypeOK
  BY ZenonT(40) DEF Flags, Fields, TypeOK
<1> QED BY <1>1, <1>2, <1>3, PTL DEF Spec

-----------------------------------------------------------------------------
(* FifoInv, action by action.                                              *)

\* What the arithmetic says of a state.
LEMMA Ring ==
  ASSUME Fields
  PROVE  /\ InFlight = Ahead(txb_head, txb_tail) /\ InFlight \in Nat
         /\ buf_count \in Nat /\ buf_count > 0
         /\ IdOf(txb_tail) \in Buf /\ Place(txb_tail, IdOf(txb_tail)) = 0
         /\ \A b \in Buf : Place(txb_tail, b) \in 0 .. buf_count - 1
         /\ \A b, c \in Buf : Place(txb_tail, b) = Place(txb_tail, c) => b = c
         /\ InFlight < buf_count =>
              IdOf(txb_head) \in Buf /\ Place(txb_tail, IdOf(txb_head)) = InFlight
<1>1. txb_head \in Counter /\ txb_tail \in Counter
  BY DEF Fields
<1>2. InFlight = Ahead(txb_head, txb_tail)
  BY DEF InFlight, Ahead
<1>3. InFlight \in Nat
  BY <1>1, <1>2, AheadType DEF Counter
<1>4. \A b \in Buf : Place(txb_tail, b) \in 0 .. buf_count - 1
  BY <1>1, PlaceType DEF Buf
<1> QED BY <1>1, <1>2, <1>3, <1>4, BufCountAssumption, TailId, PlaceUnique, HeadId

RingVars == <<txb_head, txb_tail>>

LEMMA RingKept ==
  ASSUME Fields, UNCHANGED RingVars
  PROVE  /\ InFlight' = InFlight
         /\ IdOf(txb_tail') = IdOf(txb_tail) /\ IdOf(txb_head') = IdOf(txb_head)
         /\ \A b \in Buf : Place(txb_tail', b) = Place(txb_tail, b)
BY DEF RingVars, InFlight

\* The conjuncts that only look at the buffers and the ring.
LEMMA OrderKept ==
  ASSUME Fields, OrderInv, UNCHANGED <<RingVars, txt_state>>
  PROVE  OrderInv'
BY RingKept DEF OrderInv, RingVars

\* ctucan_start_xmit touches neither priorities nor the interrupt.
LEMMA XmitKeeps ==
  ASSUME Fields, FifoInv, UNCHANGED <<RingVars, txt_state, XmitRest>>
  PROVE  OrderInv' /\ SeenInv' /\ PrioInv'
<1> USE DEF FifoInv
<1>1. OrderInv'
  BY OrderKept
<1>2. PrioInv'
  BY RingKept DEF PrioInv, PrioOf, XmitRest, isrVars
<1>3. /\ UNCHANGED <<isr, first, txbhci, txt_state>>
      /\ InFlight' = InFlight /\ IdOf(txb_tail') = IdOf(txb_tail)
  BY RingKept DEF XmitRest, isrVars
<1>4. SeenInv'
  BY <1>3, ZenonT(40) DEF SeenInv
<1> QED BY <1>1, <1>2, <1>4

\* STATUS[TXNF] is read as set: the buffer of txb_head is empty, because an
\* empty buffer is never in flight and the one that is leaving is not empty.
LEMMA FifoXmitCall ==
  ASSUME Fields, FifoInv, XmitCall
  PROVE  FifoInv'
<1> USE DEF FifoInv
<1>1. /\ UNCHANGED <<RingVars, txt_state, XmitRest, isr, txb_id, echo_skb, bugs>>
      /\ xmit = "return" /\ xmit' = IF TXTNF THEN "take" ELSE "busy"
  BY DEF XmitCall, RingVars, XmitRest, isrVars
<1>2. OrderInv' /\ SeenInv' /\ PrioInv'
  BY <1>1, XmitKeeps
<1>3. ASSUME TXTNF PROVE InFlight < buf_count /\ txt_state[IdOf(txb_head)] = "txt_empty"
  <2>1. PICK b \in Buf : txt_state[b] = "txt_empty"
    BY <1>3 DEF TXTNF
  <2>2. Place(txb_tail, b) >= InFlight /\ ~Leaving(b)
    BY <1>1, <2>1, Ring DEF BufInv, Filling, InProgress, Finished
  <2>3. InFlight < buf_count
    BY <2>2, Ring
  <2>4. IdOf(txb_head) \in Buf /\ Place(txb_tail, IdOf(txb_head)) = InFlight
    BY <2>3, Ring
  <2>5. ~Leaving(IdOf(txb_head))
    BY <2>2, <2>4, Ring DEF Leaving
  <2> QED BY <2>3, <2>4, <2>5, Ring DEF BufInv
<1>4. CountInv'
  BY <1>1, <1>3, RingKept DEF CountInv, Filling
<1>5. BufInv'
  BY <1>1, RingKept DEF BufInv, Filling, Leaving
<1>6. EchoInv' /\ NoFifoBug'
  BY <1>1, RingKept DEF EchoInv, NoFifoBug, Fields
<1> QED BY <1>2, <1>4, <1>5, <1>6

LEMMA FifoXmitStay ==
  ASSUME Fields, FifoInv, XmitBusy \/ XmitInsert \/ XmitEcho \/ XmitCheck \/ XmitStop
  PROVE  FifoInv'
<1> USE DEF FifoInv
<1>1. UNCHANGED <<RingVars, txt_state, XmitRest, isr, txb_id>>
  BY DEF XmitBusy, XmitInsert, XmitEcho, XmitCheck, XmitStop, RingVars, XmitRest, isrVars
<1>2. OrderInv' /\ SeenInv' /\ PrioInv'
  BY <1>1, XmitKeeps
<1>3. /\ xmit' # "take" /\ (Filling' <=> Filling)
      /\ NoFifoBug'
      /\ echo_skb' = IF xmit = "echo" THEN echo_skb \cup {txb_id} ELSE echo_skb
      /\ xmit' \in {"insert", "echo"} => xmit = "insert"
      /\ xmit = "echo" => Filling /\ xmit' = "set_rdy"
  <2>1. Filling => txtb_user_accessible(txt_state[txb_id])
    BY Ring DEF BufInv, CountInv, txtb_user_accessible, InProgress, Fields
  <2>2. xmit = "echo" => txb_id \notin echo_skb
    BY DEF EchoInv
  <2> QED BY <2>1, <2>2 DEF XmitBusy, XmitInsert, XmitEcho, XmitCheck, XmitStop, Filling,
             NoFifoBug
<1>4. CountInv'
  <2>1. txb_id' \in Buf /\ txb_id' = txb_id /\ isr' = isr
    BY <1>1 DEF Fields
  <2> QED BY <1>1, <1>3, <2>1, RingKept DEF CountInv
<1>5. BufInv'
  BY <1>1, <1>3, RingKept DEF BufInv, Leaving
<1>6. EchoInv'
  BY <1>1, <1>3, RingKept, Ring DEF EchoInv, Fields, CountInv
<1> QED BY <1>2, <1>3, <1>4, <1>5, <1>6

LEMMA FifoXmitTake ==
  ASSUME Fields, FifoInv, XmitTake
  PROVE  FifoInv'
<1> USE DEF FifoInv
<1>1. /\ xmit = "take" /\ xmit' = "insert"
      /\ txb_id' = IdOf(txb_head) /\ txb_head' = Next1(txb_head)
      /\ UNCHANGED <<txb_tail, txt_state, isr, first, txbhci, tx_priority, txb_prio, echo_skb, bugs>>
  BY DEF XmitTake, XmitRest, isrVars
<1>2. /\ InFlight < buf_count /\ txt_state[IdOf(txb_head)] = "txt_empty"
      /\ IdOf(txb_head) \in Buf /\ Place(txb_tail, IdOf(txb_head)) = InFlight
      /\ InFlight \in Nat /\ buf_count \in Nat
  BY <1>1, Ring DEF CountInv
<1>3. InFlight' = InFlight + 1
  BY <1>1, <1>2, Ring, AheadHead DEF Fields, InFlight, Ahead
<1>4. isr \in {"rotate", "set_empty"} => InFlight < buf_count - 1
  BY <1>2 DEF BufInv, Leaving, Finished
<1>5. \A b \in Buf : /\ Place(txb_tail', b) = Place(txb_tail, b)
                     /\ Place(txb_tail, b) \in Nat
                     /\ Place(txb_tail, b) = InFlight => b = txb_id'
  BY <1>1, <1>2, Ring
<1>6. CountInv'
  BY <1>1, <1>2, <1>3, <1>4, <1>5 DEF CountInv, Filling
<1>7. BufInv'
  <2> SUFFICES ASSUME NEW b \in Buf
               PROVE  /\ Place(txb_tail, b) >= InFlight + 1 =>
                           IF Leaving(b) THEN txt_state[b] \in Finished ELSE txt_state[b] = "txt_empty"
                      /\ Place(txb_tail, b) < InFlight + 1 =>
                           IF b = txb_id' THEN txt_state[b] = "txt_empty"
                           ELSE txt_state[b] \in {"txt_ready"} \cup InProgress \cup Finished
    BY <1>1, <1>3, <1>5 DEF BufInv, Leaving, Filling
  <2>1. CASE Place(txb_tail, b) = InFlight
    BY <1>1, <1>2, <1>5, <2>1
  <2>2. CASE Place(txb_tail, b) # InFlight
    BY <1>1, <1>2, <1>5, <2>2 DEF BufInv, Filling
  <2> QED BY <2>1, <2>2
<1>8. SeenInv'
  <2>1. InFlight > 0 => InFlight' > 0
    BY <1>2, <1>3
  <2> QED BY <1>1, <2>1, ZenonT(40) DEF SeenInv
<1>9. PrioInv'
  BY <1>1, <1>5 DEF PrioInv, PrioOf
<1>10. OrderInv'
  <2> SUFFICES ASSUME NEW b \in Buf, NEW c \in Buf,
                      Place(txb_tail, b) < Place(txb_tail, c), Place(txb_tail, c) < InFlight + 1,
                      txt_state[c] \in Finished \cup InProgress
               PROVE  txt_state[b] \in Finished
    BY <1>1, <1>3, <1>5 DEF OrderInv
  <2>1. Place(txb_tail, c) # InFlight
    BY <1>1, <1>2, <1>5 DEF Finished, InProgress
  <2> QED BY <1>2, <1>5, <2>1 DEF OrderInv
<1>11. EchoInv' /\ NoFifoBug'
  <2>1. ASSUME NEW b \in echo_skb PROVE Place(txb_tail', b) < InFlight + 1 /\ b # txb_id'
    <3>1. b \in Buf /\ Place(txb_tail, b) < InFlight
      BY <2>1 DEF EchoInv, Fields
    <3> QED BY <1>1, <1>2, <1>5, <3>1
  <2> QED BY <1>1, <1>3, <2>1 DEF EchoInv, NoFifoBug
<1> QED BY <1>6, <1>7, <1>8, <1>9, <1>10, <1>11

LEMMA FifoXmitSetRdy ==
  ASSUME Fields, FifoInv, XmitSetRdy
  PROVE  FifoInv'
<1> USE DEF FifoInv
<1>1. /\ xmit = "set_rdy" /\ xmit' = "check" /\ txb_id' = txb_id
      /\ UNCHANGED <<RingVars, isr, first, txbhci, tx_priority, txb_prio, echo_skb, bugs>>
  BY DEF XmitSetRdy, XmitRest, isrVars, RingVars
<1>2. /\ txb_id \in Buf /\ txt_state[txb_id] = "txt_empty"
      /\ Place(txb_tail, txb_id) = InFlight - 1 /\ InFlight > 0
  BY <1>1, Ring DEF CountInv, BufInv, Filling, Fields
<1>3. /\ txt_state'[txb_id] = "txt_ready"
      /\ \A b \in Buf : b # txb_id => txt_state'[b] = txt_state[b]
  BY <1>2 DEF XmitSetRdy, SwCommand, buf_fsm, FsmStep, FromEmpty, Fields
<1>4. IdOf(txb_tail) \in Buf /\ (txt_state[IdOf(txb_tail)] \in Finished => txt_state'[IdOf(txb_tail)] \in Finished)
  BY <1>2, <1>3, Ring DEF Finished
<1>5. CountInv'
  BY <1>1, <1>4, RingKept DEF CountInv, Filling
<1>6. BufInv'
  BY <1>1, <1>2, <1>3, Ring, RingKept DEF BufInv, Filling, Leaving
<1>7. SeenInv'
  <2>1. InFlight' = InFlight /\ IdOf(txb_tail') = IdOf(txb_tail)
    BY <1>1, RingKept
  <2> QED BY <1>1, <1>4, <2>1, ZenonT(40) DEF SeenInv
<1>8. PrioInv'
  BY <1>1, RingKept DEF PrioInv, PrioOf
<1>9. OrderInv'
  <2> SUFFICES ASSUME NEW b \in Buf, NEW c \in Buf,
                      Place(txb_tail, b) < Place(txb_tail, c), Place(txb_tail, c) < InFlight,
                      txt_state'[c] \in Finished \cup InProgress
               PROVE  txt_state'[b] \in Finished
    BY <1>1, RingKept DEF OrderInv
  <2>1. c # txb_id /\ b # txb_id
    BY <1>2, <1>3, Ring DEF Finished, InProgress
  <2> QED BY <1>3, <2>1 DEF OrderInv
<1>10. EchoInv' /\ NoFifoBug'
  BY <1>1, RingKept DEF EchoInv, NoFifoBug, Fields
<1> QED BY <1>5, <1>6, <1>7, <1>8, <1>9, <1>10

LEMMA FifoCoreLock ==
  ASSUME Fields, FifoInv, CoreLock, CoreFrame
  PROVE  FifoInv'
<1> USE DEF FifoInv
<1> DEFINE c == OutputIndex(tx_priority, Ready)
<1>1. /\ UNCHANGED <<RingVars, xmit, txb_id, isr, first, txbhci, tx_priority, txb_prio, echo_skb, bugs>>
      /\ \A b \in Buf : txt_state[b] \notin InProgress
  BY DEF CoreLock, CoreFrame, xmitVars, isrVars, RingVars
<1>2. c \in Ready /\ \A b \in Ready : tx_priority[c] >= tx_priority[b]
  <2>1. Ready \in SUBSET Buf /\ tx_priority \in [Buf -> Prio]
    BY DEF Ready, Fields
  <2>2. Ready # {}
    BY <2>1, DecoderLemma DEF CoreLock
  <2>3. IsSelection(tx_priority, Ready, c)
    BY <2>1, <2>2, DecoderLemma
  <2> HIDE DEF c
  <2>4. c \in Ready /\ \A b \in Ready : tx_priority[b] < tx_priority[c] \/ tx_priority[b] = tx_priority[c]
    BY <2>3 DEF IsSelection
  <2>5. \A b \in Ready : tx_priority[b] \in Nat
    BY <2>1 DEF Prio
  <2> QED BY <2>4, <2>5
<1>3. c \in Buf /\ txt_state[c] = "txt_ready"
  BY <1>2 DEF Ready, txt_buf_ready
<1> HIDE DEF c
<1>4. /\ txt_state'[c] = "txt_tx_prog"
      /\ \A b \in Buf : b # c => txt_state'[b] = txt_state[b]
  BY <1>3 DEF c, CoreLock, HwCommand, buf_fsm, FsmStep, FromReady, abort_applied, Fields
<1>5. Place(txb_tail, c) < InFlight
  BY <1>3, Ring DEF BufInv, Finished
<1>6. CountInv'
  <2>1. \A b \in Buf : txt_state[b] \in Finished \cup {"txt_empty"} => txt_state'[b] = txt_state[b]
    BY <1>3, <1>4 DEF Finished
  <2>2. /\ xmit = "take" => txt_state'[IdOf(txb_head)] = "txt_empty"
        /\ isr = "processed" => txt_state'[IdOf(txb_tail)] \in Finished
    BY <2>1, Ring DEF CountInv
  <2>3. txb_id' = txb_id /\ xmit' = xmit /\ isr' = isr /\ txb_id \in Buf
    BY <1>1 DEF Fields
  <2> QED BY <1>1, <2>2, <2>3, RingKept DEF CountInv, Filling
<1>7. BufInv'
  <2> SUFFICES ASSUME NEW b \in Buf
               PROVE  /\ Place(txb_tail, b) >= InFlight =>
                           IF Leaving(b) THEN txt_state'[b] \in Finished ELSE txt_state'[b] = "txt_empty"
                      /\ Place(txb_tail, b) < InFlight =>
                           IF Filling /\ b = txb_id THEN txt_state'[b] = "txt_empty"
                           ELSE txt_state'[b] \in {"txt_ready"} \cup InProgress \cup Finished
    BY <1>1, RingKept DEF BufInv, Filling, Leaving
  <2>1. CASE b = c
    BY <1>3, <1>4, <1>5, <2>1, Ring DEF BufInv, InProgress
  <2>2. CASE b # c
    BY <1>4, <2>2 DEF BufInv
  <2> QED BY <2>1, <2>2
<1>8. SeenInv'
  <2>1. /\ InFlight' = InFlight /\ IdOf(txb_tail') = IdOf(txb_tail)
        /\ txt_state[IdOf(txb_tail)] \in Finished => txt_state'[IdOf(txb_tail)] \in Finished
    BY <1>1, <1>3, <1>4, Ring, RingKept DEF Finished
  <2> QED BY <1>1, <2>1, ZenonT(40) DEF SeenInv
<1>9. PrioInv' /\ EchoInv' /\ NoFifoBug'
  BY <1>1, RingKept DEF PrioInv, PrioOf, EchoInv, NoFifoBug, Fields
<1>10. OrderInv'
  <2> SUFFICES ASSUME NEW b \in Buf, NEW d \in Buf,
                      Place(txb_tail, b) < Place(txb_tail, d), Place(txb_tail, d) < InFlight,
                      txt_state'[d] \in Finished \cup InProgress
               PROVE  txt_state'[b] \in Finished
    BY <1>1, RingKept DEF OrderInv
  <2>1. CASE d # c
    BY <1>3, <1>4, <2>1 DEF OrderInv, Finished
  <2>2. CASE d = c
    <3>1. tx_priority[b] > tx_priority[c]
      <4>2. isr = "rotate" => Place(txb_tail, c) < buf_count - 1
        BY <2>2, Ring DEF CountInv
      <4>3. PrioOf(Place(txb_tail, b)) > PrioOf(Place(txb_tail, c))
        BY <1>3, <2>2, <4>2, Ring DEF PrioOf
      <4> QED BY <1>3, <4>3 DEF PrioInv
    <3>2. b \notin Ready /\ b # c
      BY <1>2, <1>3, <3>1 DEF Fields, Prio
    <3>3. txt_state[b] # "txt_ready"
      BY <3>2 DEF Ready, txt_buf_ready, abort_applied
    <3>4. ~(Filling /\ b = txb_id)
      BY <2>2, Ring DEF CountInv
    <3> QED BY <1>1, <1>4, <3>2, <3>3, <3>4, Ring DEF BufInv
  <2> QED BY <2>1, <2>2
<1> QED BY <1>6, <1>7, <1>8, <1>9, <1>10

LEMMA FifoCoreUnlock ==
  ASSUME Fields, FifoInv, NEW kind \in EndKinds, CoreUnlock(kind), CoreFrame
  PROVE  FifoInv'
<1> USE DEF FifoInv
<1>1. UNCHANGED <<RingVars, xmit, txb_id, isr, first, tx_priority, txb_prio, echo_skb, bugs>>
  BY DEF CoreUnlock, CoreFrame, xmitVars, isrVars, RingVars
<1>2. PICK c \in Buf : txt_state[c] \in InProgress /\ HwCommand(c, {"unlock", kind})
        /\ txbhci' = (txbhci \/ txtb_hw_cmd_int(txt_state[c], {}, {"unlock", kind}, TRUE))
  BY ZenonT(40) DEF CoreUnlock
<1>3. kind \in {"valid", "failed", "arbl", "err"}
  BY DEF EndKinds
<1>4. /\ txt_state'[c] = buf_fsm(txt_state[c], {}, {"unlock", kind}, FALSE)
      /\ \A b \in Buf : b # c => txt_state'[b] = txt_state[b]
  BY <1>2 DEF HwCommand, Fields
<1>5. txt_state'[c] \in {"txt_ready"} \cup Finished
  BY ZenonT(40), <1>2, <1>3, <1>4 DEF buf_fsm, FsmStep, FromTxProg, FromAbProg, UnlockTo, InProgress, Finished
<1>6. Place(txb_tail, c) < InFlight /\ ~(Filling /\ c = txb_id)
  BY <1>2, Ring DEF BufInv, Finished, InProgress
<1>7. \A b \in Buf : txt_state[b] \in Finished \cup {"txt_empty"} => txt_state'[b] = txt_state[b]
  BY <1>2, <1>4 DEF Finished, InProgress
<1>8. CountInv'
  <2>1. /\ xmit = "take" => txt_state'[IdOf(txb_head)] = "txt_empty"
        /\ isr = "processed" => txt_state'[IdOf(txb_tail)] \in Finished
    BY <1>7, Ring DEF CountInv
  <2>2. txb_id' = txb_id /\ xmit' = xmit /\ isr' = isr /\ txb_id \in Buf
    BY <1>1 DEF Fields
  <2> QED BY <1>1, <2>1, <2>2, RingKept DEF CountInv, Filling
<1>9. BufInv'
  <2> SUFFICES ASSUME NEW b \in Buf
               PROVE  /\ Place(txb_tail, b) >= InFlight =>
                           IF Leaving(b) THEN txt_state'[b] \in Finished ELSE txt_state'[b] = "txt_empty"
                      /\ Place(txb_tail, b) < InFlight =>
                           IF Filling /\ b = txb_id THEN txt_state'[b] = "txt_empty"
                           ELSE txt_state'[b] \in {"txt_ready"} \cup InProgress \cup Finished
    BY ZenonT(40), <1>1, RingKept DEF BufInv, Filling, Leaving
  <2>1. CASE b = c
    BY <1>5, <1>6, <2>1, Ring
  <2>2. CASE b # c
    BY <1>4, <2>2 DEF BufInv
  <2> QED BY <2>1, <2>2
<1>10. SeenInv'
  <2>1. /\ InFlight' = InFlight /\ IdOf(txb_tail') = IdOf(txb_tail)
        /\ txt_state[IdOf(txb_tail)] \in Finished => txt_state'[IdOf(txb_tail)] \in Finished
    BY <1>1, <1>7, Ring, RingKept
  <2>2. txtb_hw_cmd_int(txt_state[c], {}, {"unlock", kind}, TRUE) => txt_state'[c] \in Finished
    BY <1>2, <1>3, <1>4 DEF txtb_hw_cmd_int, buf_fsm, FsmStep, FromTxProg, FromAbProg, UnlockTo,
                            InProgress, Finished, abort_applied
  <2>3. txt_state'[c] \in Finished => InFlight > 0 /\ txt_state'[IdOf(txb_tail)] \in Finished
    <3>1. CASE c = IdOf(txb_tail)
      BY <1>6, <3>1, Ring
    <3>2. CASE c # IdOf(txb_tail)
      <4>1. Place(txb_tail, IdOf(txb_tail)) < Place(txb_tail, c) /\ InFlight > 0
        BY <1>6, <3>2, Ring
      <4>2. txt_state[IdOf(txb_tail)] \in Finished
        BY <1>2, <1>6, <4>1, Ring DEF OrderInv
      <4> QED BY <2>1, <4>1, <4>2
    <3> QED BY <3>1, <3>2
  <2> QED BY <1>1, <1>2, <2>1, <2>2, <2>3, ZenonT(40) DEF SeenInv
<1>11. PrioInv' /\ EchoInv' /\ NoFifoBug'
  BY <1>1, RingKept DEF PrioInv, PrioOf, EchoInv, NoFifoBug, Fields
<1>12. OrderInv'
  <2> SUFFICES ASSUME NEW b \in Buf, NEW d \in Buf,
                      Place(txb_tail, b) < Place(txb_tail, d), Place(txb_tail, d) < InFlight,
                      txt_state'[d] \in Finished \cup InProgress
               PROVE  txt_state'[b] \in Finished
    BY <1>1, RingKept DEF OrderInv
  <2>1. txt_state[d] \in Finished \cup InProgress
    BY <1>2, <1>4
  <2> QED BY <1>7, <2>1 DEF OrderInv
<1> QED BY <1>8, <1>9, <1>10, <1>11, <1>12

\* Steps of the handler that leave buffers, ring and priorities alone and do
\* not meet the states of a buffer that is leaving.
LEMMA FifoIsrStay ==
  ASSUME Fields, FifoInv,
         IsrEnter \/ IsrClearFirst \/ IsrLoop \/ IsrStatus \/ IsrClear \/ IsrWake \/ IsrAgain
  PROVE  FifoInv'
<1> USE DEF FifoInv
<1>1. /\ UNCHANGED <<RingVars, txt_state, xmit, txb_id, tx_priority, txb_prio, echo_skb>>
      /\ isr \notin {"rotate", "set_empty"} /\ isr' \notin {"rotate", "set_empty"}
      /\ isr' = "status" => InFlight > 0
      /\ isr' = "processed" => InFlight > 0 /\ txt_state[IdOf(txb_tail)] \in Finished
  BY DEF IsrEnter, IsrClearFirst, IsrLoop, IsrStatus, IsrClear, IsrWake, IsrAgain,
         IsrRest, coreVars, xmitVars, RingVars, CountInv
<1>2. txb_id \in Buf /\ txb_id' = txb_id /\ xmit' = xmit
  BY <1>1 DEF Fields
<1>3. CountInv'
  BY <1>1, <1>2, RingKept DEF CountInv, Filling
<1>4. BufInv'
  BY <1>1, <1>2, RingKept DEF BufInv, Filling, Leaving
<1>5. OrderInv'
  BY <1>1, OrderKept
<1>6. PrioInv' /\ EchoInv'
  BY <1>1, RingKept DEF PrioInv, PrioOf, EchoInv, Fields
<1>7. /\ InFlight' = InFlight /\ IdOf(txb_tail') = IdOf(txb_tail) /\ txt_state' = txt_state
  BY <1>1, RingKept
<1>8. SeenInv'
  <2>1. CASE IsrEnter
    BY <1>7, <2>1, ZenonT(40) DEF IsrEnter, SeenInv, coreVars
  <2>2. CASE IsrClearFirst
    BY <1>7, <2>2, ZenonT(40) DEF IsrClearFirst, SeenInv
  <2>3. CASE IsrLoop
    <3>1. /\ isr = "loop" /\ UNCHANGED <<first, txbhci>>
          /\ \/ isr' = "status"
             \/ isr' = "clear" /\ ~(InFlight > 0)
      BY <2>3 DEF IsrLoop, coreVars
    <3> QED BY <1>7, <3>1, ZenonT(40) DEF SeenInv
  <2>4. CASE IsrStatus
    BY <1>7, <2>4, ZenonT(40) DEF IsrStatus, SeenInv, coreVars
  <2>5. CASE IsrClear
    BY <1>7, <2>5, ZenonT(40) DEF IsrClear, SeenInv
  <2>6. CASE IsrWake
    BY <1>7, <2>6, ZenonT(40) DEF IsrWake, SeenInv, coreVars
  <2>7. CASE IsrAgain
    BY <1>7, <2>7, ZenonT(40) DEF IsrAgain, SeenInv, coreVars
  <2> QED BY <2>1, <2>2, <2>3, <2>4, <2>5, <2>6, <2>7
<1>9. NoFifoBug'
  <2>1. CASE IsrStatus
    <3>1. first => txt_state[IdOf(txb_tail)] \in Finished
      BY <2>1, ZenonT(40) DEF IsrStatus, SeenInv
    <3>2. bugs' = bugs
      BY <2>1, <3>1, ZenonT(40) DEF IsrStatus
    <3> QED BY <3>2 DEF NoFifoBug
  <2>2. CASE ~IsrStatus
    BY <2>2 DEF IsrEnter, IsrClearFirst, IsrLoop, IsrClear, IsrWake, IsrAgain, NoFifoBug
  <2> QED BY <2>1, <2>2
<1> QED BY <1>3, <1>4, <1>5, <1>6, <1>8, <1>9

\* txb_tail goes on: every place falls by one and the finished buffer is last.
LEMMA FifoIsrProcessed ==
  ASSUME Fields, FifoInv, IsrProcessed
  PROVE  FifoInv'
<1> USE DEF FifoInv
<1> DEFINE old == IdOf(txb_tail)
<1>1. /\ isr = "processed" /\ isr' = "rotate" /\ echo_skb' = echo_skb \ {old}
      /\ txb_tail' = Next1(txb_tail)
      /\ UNCHANGED <<txb_head, txt_state, xmit, txb_id, tx_priority, txb_prio, bugs>>
  BY DEF IsrProcessed, IsrRest, coreVars, xmitVars
<1>2. /\ InFlight > 0 /\ InFlight <= buf_count /\ InFlight \in Nat /\ buf_count \in Nat
      /\ old \in Buf /\ Place(txb_tail, old) = 0 /\ txt_state[old] \in Finished
  BY <1>1, Ring DEF CountInv
<1>3. InFlight' = InFlight - 1
  BY <1>1, <1>2, Ring, AheadTail DEF Fields, InFlight, Ahead
<1>4. \A b \in Buf :
        /\ Place(txb_tail', b) = IF b = old THEN buf_count - 1 ELSE Place(txb_tail, b) - 1
        /\ Place(txb_tail, b) \in 0 .. buf_count - 1
        /\ b # old => Place(txb_tail, b) > 0
  <2>1. \A b \in Buf : Place(txb_tail', b) =
           IF Place(txb_tail, b) = 0 THEN buf_count - 1 ELSE Place(txb_tail, b) - 1
    BY <1>1, PlaceNext DEF Fields
  <2>2. \A b \in Buf : Place(txb_tail, b) = 0 <=> b = old
    BY <1>2, Ring
  <2> QED BY <1>2, <2>1, <2>2, Ring
<1> HIDE DEF old
<1>5. CountInv'
  <2>1. Filling => txb_id # old /\ txb_id \in Buf /\ txt_state[txb_id] = "txt_empty"
    BY <1>2, Ring DEF CountInv, BufInv, Fields, Finished
  <2>2. Filling => InFlight - 1 > 0 /\ Place(txb_tail', txb_id) = InFlight - 1 - 1
    BY <1>2, <1>4, <2>1 DEF CountInv
  <2> QED BY <1>1, <1>2, <1>3, <2>2 DEF CountInv, Filling
<1>6. BufInv'
  <2> SUFFICES ASSUME NEW b \in Buf
               PROVE  /\ Place(txb_tail', b) >= InFlight - 1 =>
                           IF Place(txb_tail', b) = buf_count - 1 THEN txt_state[b] \in Finished
                           ELSE txt_state[b] = "txt_empty"
                      /\ Place(txb_tail', b) < InFlight - 1 =>
                           IF Filling /\ b = txb_id THEN txt_state[b] = "txt_empty"
                           ELSE txt_state[b] \in {"txt_ready"} \cup InProgress \cup Finished
    BY <1>1, <1>3 DEF BufInv, Filling, Leaving
  <2>1. CASE b = old
    BY <1>2, <1>4, <2>1
  <2>2. CASE b # old
    <3>1. Place(txb_tail', b) = Place(txb_tail, b) - 1 /\ ~Leaving(b)
          /\ Place(txb_tail', b) # buf_count - 1
      BY <1>1, <1>2, <1>4, <2>2 DEF Leaving
    <3>2. /\ Place(txb_tail', b) >= InFlight - 1 => Place(txb_tail, b) >= InFlight
          /\ Place(txb_tail', b) < InFlight - 1 => Place(txb_tail, b) < InFlight
      BY <1>2, <1>4, <3>1
    <3> QED BY <3>1, <3>2 DEF BufInv
  <2> QED BY <2>1, <2>2
<1>7. SeenInv'
  BY <1>1, ZenonT(40) DEF SeenInv, IsrProcessed
<1>8. PrioInv'
  <2>1. \A b \in Buf : txb_prio[b] = 7 - Place(txb_tail, b)
    BY <1>1 DEF PrioInv, PrioOf
  <2>2. ASSUME NEW b \in Buf
        PROVE  txb_prio[b] = IF Place(txb_tail', b) = buf_count - 1 THEN 7
                             ELSE 6 - Place(txb_tail', b)
    <3>1. CASE b = old
      BY <1>2, <1>4, <2>1, <3>1
    <3>2. CASE b # old
      BY <1>2, <1>4, <2>1, <3>2
    <3> QED BY <3>1, <3>2
  <2> QED BY <1>1, <2>2 DEF PrioInv, PrioOf
<1>9. OrderInv'
  <2> SUFFICES ASSUME NEW b \in Buf, NEW c \in Buf,
                      Place(txb_tail', b) < Place(txb_tail', c), Place(txb_tail', c) < InFlight - 1,
                      txt_state[c] \in Finished \cup InProgress
               PROVE  txt_state[b] \in Finished
    BY <1>1, <1>3 DEF OrderInv
  <2>1. b # old /\ c # old
    BY <1>2, <1>4
  <2>2. Place(txb_tail, b) < Place(txb_tail, c) /\ Place(txb_tail, c) < InFlight
    BY <1>2, <1>4, <2>1
  <2> QED BY <2>2 DEF OrderInv
<1>10. EchoInv' /\ NoFifoBug'
  <2>1. ASSUME NEW b \in echo_skb, b # old
        PROVE  Place(txb_tail', b) < InFlight - 1 /\ ~(xmit \in {"insert", "echo"} /\ b = txb_id)
    <3>1. b \in Buf /\ Place(txb_tail, b) < InFlight /\ ~(xmit \in {"insert", "echo"} /\ b = txb_id)
      BY <2>1 DEF EchoInv, Fields
    <3> QED BY <1>2, <1>4, <2>1, <3>1
  <2> QED BY <1>1, <1>3, <2>1 DEF EchoInv, NoFifoBug
<1> QED BY <1>5, <1>6, <1>7, <1>8, <1>9, <1>10

\* ctucan_rotate_txb_prio makes the priorities fall with the place again.
LEMMA FifoIsrRotate ==
  ASSUME Fields, FifoInv, IsrRotate
  PROVE  FifoInv'
<1> USE DEF FifoInv
<1>1. /\ isr = "rotate" /\ isr' = "set_empty" /\ txb_id \in Buf
      /\ UNCHANGED <<RingVars, txt_state, txbhci, first, xmit, txb_id, echo_skb, bugs>>
      /\ txb_prio' = Rotated(txb_prio) /\ tx_priority' = Rotated(txb_prio)
  BY DEF IsrRotate, IsrRest, xmitVars, RingVars, Fields
<1>2. CountInv'
  BY <1>1, RingKept DEF CountInv, Filling
<1>3. BufInv'
  BY <1>1, RingKept DEF BufInv, Filling, Leaving
<1>4. OrderInv'
  BY <1>1, OrderKept
<1>5. SeenInv'
  BY <1>1, ZenonT(40) DEF SeenInv
<1>6. EchoInv' /\ NoFifoBug'
  BY <1>1, RingKept DEF EchoInv, NoFifoBug, Fields
<1>7. PrioInv'
  <2>1. ASSUME NEW b \in Buf PROVE Rotated(txb_prio)[b] = 7 - Place(txb_tail, b)
    <3> DEFINE a == (b + buf_count - 1) % buf_count
    <3>1. /\ a \in Buf
          /\ Place(txb_tail, a) = IF Place(txb_tail, b) = 0 THEN buf_count - 1
                                   ELSE Place(txb_tail, b) - 1
      BY RotatedPlace DEF Fields
    <3>2. Rotated(txb_prio)[b] = txb_prio[a]
      BY DEF Rotated
    <3> HIDE DEF a
    <3>3. txb_prio[a] = IF Place(txb_tail, a) = buf_count - 1 THEN 7 ELSE 6 - Place(txb_tail, a)
      BY <1>1, <3>1 DEF PrioInv, PrioOf
    <3> QED BY <3>1, <3>2, <3>3, Ring
  <2> QED BY <1>1, <2>1, RingKept DEF PrioInv, PrioOf
<1> QED BY <1>2, <1>3, <1>4, <1>5, <1>6, <1>7

\* The finished buffer becomes empty: the next one txb_head will reach.
LEMMA FifoIsrSetEmpty ==
  ASSUME Fields, FifoInv, IsrSetEmpty
  PROVE  FifoInv'
<1> USE DEF FifoInv
<1> DEFINE old == IdOf(txb_tail + 2 * buf_count - 1)
<1>1. /\ isr = "set_empty" /\ isr' = "loop" /\ txb_id \in Buf
      /\ UNCHANGED <<RingVars, tx_priority, txb_prio, txbhci, first, xmit, txb_id, echo_skb, bugs>>
  BY DEF IsrSetEmpty, IsrRest, xmitVars, RingVars, Fields
<1>2. old \in Buf /\ Place(txb_tail, old) = buf_count - 1
  BY LastId DEF Fields
<1>3. InFlight < buf_count /\ InFlight \in Nat /\ buf_count \in Nat
  BY <1>1, Ring DEF CountInv
<1>4. txt_state[old] \in Finished /\ \A b \in Buf : Leaving(b) <=> b = old
  <2>1. \A b \in Buf : Leaving(b) <=> b = old
    BY <1>1, <1>2, Ring DEF Leaving
  <2> QED BY <1>2, <1>3, <2>1 DEF BufInv
<1>5. /\ txt_state'[old] = "txt_empty"
      /\ \A b \in Buf : b # old => txt_state'[b] = txt_state[b]
  <2>1. txt_state' = [txt_state EXCEPT ![old] = buf_fsm(@, {"set_ety"}, {}, FALSE)]
    BY DEF IsrSetEmpty, SwCommand
  <2> HIDE DEF old
  <2> QED BY <1>2, <1>4, <2>1 DEF buf_fsm, FsmStep, FromFinished, Finished, Fields
<1> HIDE DEF old
<1>6. \A b \in Buf : Place(txb_tail, b) < InFlight => b # old
  BY <1>2, <1>3
<1>7. CountInv'
  <2>1. xmit = "take" => txt_state'[IdOf(txb_head)] = "txt_empty"
    BY <1>4, <1>5, Ring DEF CountInv, Finished
  <2> QED BY <1>1, <2>1, RingKept DEF CountInv, Filling
<1>8. BufInv'
  <2> SUFFICES ASSUME NEW b \in Buf
               PROVE  /\ Place(txb_tail, b) >= InFlight => txt_state'[b] = "txt_empty"
                      /\ Place(txb_tail, b) < InFlight =>
                           IF Filling /\ b = txb_id THEN txt_state'[b] = "txt_empty"
                           ELSE txt_state'[b] \in {"txt_ready"} \cup InProgress \cup Finished
    BY <1>1, RingKept DEF BufInv, Filling, Leaving
  <2> QED BY <1>4, <1>5, <1>6 DEF BufInv
<1>9. SeenInv'
  BY <1>1, ZenonT(40) DEF SeenInv
<1>10. PrioInv' /\ EchoInv' /\ NoFifoBug'
  BY <1>1, RingKept DEF PrioInv, PrioOf, EchoInv, NoFifoBug, Fields
<1>11. OrderInv'
  <2> SUFFICES ASSUME NEW b \in Buf, NEW c \in Buf,
                      Place(txb_tail, b) < Place(txb_tail, c), Place(txb_tail, c) < InFlight,
                      txt_state'[c] \in Finished \cup InProgress
               PROVE  txt_state'[b] \in Finished
    BY <1>1, RingKept DEF OrderInv
  <2>1. b # old /\ c # old
    BY <1>3, <1>6, Ring
  <2> QED BY <1>5, <2>1 DEF OrderInv
<1> QED BY <1>7, <1>8, <1>9, <1>10, <1>11

-----------------------------------------------------------------------------
\* The ring of buffers, the priorities, the interrupt and the echo frames keep
\* the relation FifoInv under every interleaving.
THEOREM DriverTxInvariant == Spec => [](Flags /\ Fields /\ FifoInv)
<1>1. Init => Flags /\ Fields /\ FifoInv
  <2> SUFFICES ASSUME Init PROVE Flags /\ Fields /\ FifoInv
    OBVIOUS
  <2>1. 0 \in Buf /\ 0 \in Counter /\ \A b \in Buf : 7 - b \in Prio
    BY BufCountAssumption DEF Buf, Counter, Prio
  <2>2. Flags
    BY DriverTxAssumption, ZenonT(40) DEF Init, Flags
  <2>3. Fields
    BY <2>1 DEF Init, Fields, TxtState
  <2>4. InFlight = 0 /\ \A b \in Buf : Place(txb_tail, b) = b
    BY Counts DEF Init, InFlight, Place, Buf
  <2>5. isr = "return" /\ xmit = "return" /\ txbhci = FALSE
    BY DEF Init
  <2>6. SeenInv
    BY <2>5, ZenonT(40) DEF SeenInv
  <2>7. CountInv /\ BufInv /\ PrioInv /\ OrderInv /\ EchoInv /\ NoFifoBug
    BY <2>4, <2>5, BufCountAssumption DEF Init, CountInv, BufInv, PrioInv, PrioOf, OrderInv,
       EchoInv, NoFifoBug, Filling, Leaving, Buf
  <2> QED BY <2>2, <2>3, <2>6, <2>7 DEF FifoInv
<1>2. Flags /\ Fields /\ FifoInv /\ [Next]_vars => (Flags /\ Fields /\ FifoInv)'
  <2> SUFFICES ASSUME Flags, Fields, FifoInv, [Next]_vars PROVE FifoInv'
    BY FlagsKept, FieldsKept
  <2>1. CASE UNCHANGED vars
    <3>1. /\ UNCHANGED <<RingVars, txt_state, XmitRest, xmit, txb_id, echo_skb, bugs, isr>>
      BY <2>1 DEF vars, coreVars, xmitVars, isrVars, RingVars, XmitRest
    <3>2. OrderInv' /\ SeenInv' /\ PrioInv'
      BY <3>1, XmitKeeps
    <3>3. CountInv' /\ BufInv' /\ EchoInv' /\ NoFifoBug'
      BY <3>1, RingKept DEF FifoInv, CountInv, BufInv, EchoInv, NoFifoBug, Filling, Leaving, Fields
    <3> QED BY <3>2, <3>3 DEF FifoInv
  <2>2. CASE Core
    BY <2>2, FifoCoreLock, FifoCoreUnlock DEF Core
  <2>3. CASE XmitCall \/ XmitStep
    BY <2>3, FifoXmitCall, FifoXmitStay, FifoXmitTake, FifoXmitSetRdy DEF XmitStep
  <2>4. CASE IsrStep
    BY <2>4, FifoIsrStay, FifoIsrProcessed, FifoIsrRotate, FifoIsrSetEmpty DEF IsrStep
  <2> QED BY <2>1, <2>2, <2>3, <2>4 DEF Next
<1> QED BY <1>1, <1>2, PTL DEF Spec

\* The buffer that ctucan_start_xmit fills is empty, although STATUS[TXNF]
\* only says that some buffer is.
THEOREM DriverTxInserts == Spec => []InsertsIntoEmpty
<1>1. Flags /\ Fields /\ FifoInv => InsertsIntoEmpty
  BY Ring DEF FifoInv, CountInv, BufInv, Filling, InsertsIntoEmpty, Fields
<1> QED BY <1>1, DriverTxInvariant, PTL

\* The frames are sent in the order in which they were submitted, while the
\* handler rotates the priorities under the core.
THEOREM DriverTxInOrder == Spec => []CompletesInOrder
<1>1. Flags /\ Fields /\ FifoInv => CompletesInOrder
  <2> SUFFICES ASSUME Fields, FifoInv, NEW i \in 0 .. (InFlight - 1), NEW j \in 0 .. (InFlight - 1),
                      i < j, txt_state[InFlightBuf(j)] \in Finished \cup InProgress
               PROVE  txt_state[InFlightBuf(i)] \in Finished
    BY DEF CompletesInOrder
  <2>1. i \in Buf /\ j \in Buf /\ j < InFlight
    BY Ring DEF FifoInv, CountInv, Buf
  <2>2. /\ InFlightBuf(i) \in Buf /\ Place(txb_tail, InFlightBuf(i)) = i
        /\ InFlightBuf(j) \in Buf /\ Place(txb_tail, InFlightBuf(j)) = j
    BY <2>1, PlaceOfId DEF InFlightBuf, Fields
  <2> QED BY ZenonT(40), <2>1, <2>2 DEF FifoInv, OrderInv
<1> QED BY <1>1, DriverTxInvariant, PTL

\* The handler is never entered for nothing and never meets an occupied echo
\* slot: its "BUG" messages are unreachable.
THEOREM DriverTxNoBug == Spec => []NoFifoBug
<1>1. Flags /\ Fields /\ FifoInv => NoFifoBug
  BY DEF FifoInv
<1> QED BY <1>1, DriverTxInvariant, PTL
=============================================================================
