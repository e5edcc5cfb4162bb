---------------------------- MODULE TxPathProofs ----------------------------
(***************************************************************************)
(* Proofs about the transmit path, for every number of buffers, every      *)
(* choice of priorities and commands and every setting of the constants.   *)
(***************************************************************************)
EXTENDS TxPath, PriorityDecoderProofs, TLAPS

\* The time limits, in seconds, of the leaves that name no prover.
USE SMTT(40), ZenonT(40)

-----------------------------------------------------------------------------
(* Commands and buffers.                                                   *)

(***************************************************************************)
(* The commands protocol control can put on txt_hw_cmd, and how they go    *)
(* with is_txt_locked.                                                     *)
(***************************************************************************)
CmdInv ==
  /\ txt_hw_cmd \in {{}, {"lock"}, {"unlock", "err"}, {"unlock", "arbl"},
                     {"unlock", "failed"}, {"unlock", "valid"}}
  /\ "lock" \in txt_hw_cmd => is_txt_locked
  /\ "unlock" \in txt_hw_cmd => ~is_txt_locked

(***************************************************************************)
(* What a buffer does with the commands of one cycle.                      *)
(***************************************************************************)
LEMMA BufFsmType ==
  ASSUME NEW s \in TxtState, NEW sw, NEW hw, NEW bo \in BOOLEAN
  PROVE  buf_fsm(s, sw, hw, bo) \in TxtState
BY DEF buf_fsm, FsmStep, FromEmpty, FromReady, FromTxProg, FromAbProg, FromFinished,
       UnlockTo, TxtState, Finished

\* A buffer is in progress in the next cycle only if it is locked now, or if
\* it is in progress and not unlocked.
LEMMA BufFsmInProgress ==
  ASSUME NEW s \in TxtState, NEW sw, NEW hw, NEW bo \in BOOLEAN,
         "unlock" \in hw => hw \cap {"err", "arbl", "failed", "valid"} # {},
         buf_fsm(s, sw, hw, bo) \in InProgress
  PROVE  \/ s = "txt_ready" /\ "lock" \in hw
         \/ s \in InProgress /\ "unlock" \notin hw
BY DEF buf_fsm, FsmStep, FromEmpty, FromReady, FromTxProg, FromAbProg, FromFinished,
       UnlockTo, TxtState, Finished, InProgress

-----------------------------------------------------------------------------
(* Steps of protocol control, by their effect on the locks.                *)

Quiet == txt_hw_cmd' = {} /\ is_txt_locked' = is_txt_locked
Locks == txt_hw_cmd' = {"lock"} /\ is_txt_locked' = TRUE
Unlocks ==
  /\ \/ txt_hw_cmd' = {"unlock", "err"}
     \/ txt_hw_cmd' = {"unlock", "arbl"}
     \/ txt_hw_cmd' = {"unlock", "failed"}
     \/ txt_hw_cmd' = {"unlock", "valid"}
  /\ is_txt_locked' = FALSE

LEMMA PcStepKind ==
  ASSUME NEW avail, NEW abort_tran, PcStep(avail, abort_tran)
  PROVE  Quiet \/ Locks \/ Unlocks
<1> USE DEF Quiet, Locks, Unlocks, PcMove, Unlocked, Lock, NoCmd
<1>1. CASE PcDisabled
  BY <1>1 DEF PcDisabled
<1>2. CASE PcError
  BY <1>2 DEF PcError
<1>3. CASE PcAbortTran(abort_tran)
  BY <1>3 DEF PcAbortTran
<1>4. CASE PcSof(avail)
  BY <1>4 DEF PcSof
<1>5. CASE PcSofReceiver
  BY <1>5 DEF PcSofReceiver
<1>6. CASE PcFrame
  BY <1>6 DEF PcFrame
<1>7. CASE PcArbitrationLost
  BY <1>7 DEF PcArbitrationLost, Attempt
<1>8. CASE PcEof
  BY <1>8 DEF PcEof
<1>9. CASE PcEofDominant
  BY <1>9 DEF PcEofDominant
<1>10. CASE PcErrorPreset
  BY <1>10 DEF PcErrorPreset, Attempt
<1>11. CASE PcErrorFlag(avail)
  BY <1>11 DEF PcErrorFlag
<1>12. CASE PcErrorDelim(avail)
  BY <1>12 DEF PcErrorDelim
<1>13. CASE PcOverload(avail)
  BY <1>13 DEF PcOverload
<1>14. CASE PcInterm(avail)
  BY <1>14 DEF PcInterm
<1>15. CASE PcIdle(avail)
  BY <1>15 DEF PcIdle
<1>16. CASE PcOff(avail)
  BY <1>16 DEF PcOff
<1> QED BY ZenonT(40), <1>1, <1>2, <1>3, <1>4, <1>5, <1>6, <1>7, <1>8, <1>9, <1>10,
           <1>11, <1>12, <1>13, <1>14, <1>15, <1>16 DEF PcStep

LEMMA KindCmd ==
  ASSUME is_txt_locked \in BOOLEAN, Quiet \/ Locks \/ Unlocks
  PROVE  CmdInv' /\ is_txt_locked' \in BOOLEAN
<1>1. CASE Quiet
  BY <1>1 DEF Quiet, CmdInv
<1>2. CASE Locks
  BY <1>2 DEF Locks, CmdInv
<1>3. CASE Unlocks
  BY ZenonT(40), <1>3 DEF Unlocks, CmdInv
<1> QED BY <1>1, <1>2, <1>3

-----------------------------------------------------------------------------
(* Types.                                                                  *)

PcType ==
  /\ pc_state \in PcState
  /\ op_state \in OpState
  /\ retr_count \in 0 .. RetrMod - 1
  /\ gap \in 0 .. MinGap

ArbType ==
  /\ tx_arb_fsm \in ArbState
  /\ fsm_wait_state \in BOOLEAN
  /\ tran_frame_valid_com \in BOOLEAN
  /\ int_txtb_index \in Buf
  /\ last_txtb_index \in Buf
  /\ select_buf_index_reg \in Buf
  /\ txtb_pointer_meta \in MetaWord
  /\ word_out \in MetaWord \cup {"core"}

LEMMA GapType ==
  ASSUME gap \in 0 .. MinGap
  PROVE  (GapStep => gap' \in 0 .. MinGap) /\ MinGap \in 0 .. MinGap
<1>1. MinGap \in Nat
  BY TxPathAssumption
<1> QED BY <1>1 DEF GapStep

LEMMA RetrType ==
  ASSUME retr_count \in 0 .. RetrMod - 1, NEW again
  PROVE  /\ Attempt(again) => retr_count' \in 0 .. RetrMod - 1
         /\ Lock => retr_count' \in 0 .. RetrMod - 1
         /\ 0 \in 0 .. RetrMod - 1
BY DEF RetrMod, Attempt, Lock

LEMMA PcMoveType ==
  ASSUME PcType, NEW pc \in PcState, NEW op \in OpState, PcMove(pc, op)
  PROVE  PcType'
<1>1. gap' \in 0 .. MinGap
  BY GapType DEF PcType, PcMove
<1> QED BY <1>1 DEF PcType, PcMove

LEMMA PcStepType ==
  ASSUME PcType, NEW avail, NEW abort_tran, PcStep(avail, abort_tran)
  PROVE  PcType'
<1> DEFINE GapOK == gap' \in 0 .. MinGap
           RetrOK == retr_count' \in 0 .. RetrMod - 1
<1>0. /\ GapStep => GapOK
      /\ gap' = MinGap => GapOK
      /\ Unlocked => GapOK
      /\ \A again : Attempt(again) => RetrOK
      /\ Lock => RetrOK
      /\ retr_count' = 0 => RetrOK
      /\ retr_count' = retr_count => RetrOK
  BY GapType, RetrType DEF PcType, Unlocked
<1>1. GapOK /\ RetrOK => \/ PcType'
                         \/ pc_state' \notin PcState
                         \/ op_state' \notin OpState
  BY DEF PcType
<1>2. op_state \in OpState /\ pc_state \in PcState /\ OpAfter(avail) \subseteq OpState
  BY DEF PcType, OpAfter, OpState
<1> HIDE DEF GapOK, RetrOK
<1>3. CASE PcDisabled
  BY <1>0, <1>1, <1>3 DEF PcDisabled, PcState, OpState
<1>4. CASE PcError
  BY <1>2, <1>4, PcMoveType DEF PcError, PcState
<1>5. CASE PcAbortTran(abort_tran)
  BY <1>0, <1>1, <1>5 DEF PcAbortTran, Unlocked, PcState, OpState
<1>6. CASE PcSof(avail)
  BY <1>0, <1>1, <1>6 DEF PcSof, PcState, OpState
<1>7. CASE PcSofReceiver
  BY <1>2, <1>7, PcMoveType DEF PcSofReceiver, PcState, OpState
<1>8. CASE PcFrame
  BY <1>2, <1>8, PcMoveType DEF PcFrame, PcState
<1>9. CASE PcArbitrationLost
  BY <1>0, <1>1, <1>2, <1>9 DEF PcArbitrationLost, Unlocked, OpState
<1>10. CASE PcEof
  <2>1. CASE op_state = "transciever"
    BY <1>0, <1>1, <1>2, <1>10, <2>1 DEF PcEof, Unlocked, PcState
  <2>2. CASE op_state # "transciever"
    BY <1>2, <1>10, <2>2, PcMoveType DEF PcEof, PcState
  <2> QED BY <2>1, <2>2
<1>11. CASE PcEofDominant
  BY <1>2, <1>11, PcMoveType DEF PcEofDominant, PcState
<1>12. CASE PcErrorPreset
  <2>1. CASE op_state = "transciever"
    BY <1>0, <1>1, <1>2, <1>12, <2>1 DEF PcErrorPreset, Unlocked, PcState
  <2>2. CASE op_state # "transciever"
    BY <1>2, <1>12, <2>2, PcMoveType DEF PcErrorPreset, PcState
  <2> QED BY <2>1, <2>2
<1>13. CASE PcErrorFlag(avail)
  BY <1>2, <1>13, PcMoveType DEF PcErrorFlag, PcState
<1>14. CASE PcErrorDelim(avail)
  BY <1>2, <1>14, PcMoveType DEF PcErrorDelim, PcState
<1>15. CASE PcOverload(avail)
  BY <1>2, <1>15, PcMoveType DEF PcOverload, PcState
<1>16. CASE PcInterm(avail)
  BY <1>2, <1>16, PcMoveType DEF PcInterm, PcState, OpState
<1>17. CASE PcIdle(avail)
  <2>1. CASE PcMove("idle", op_state) \/ PcMove("sof_preset", op_state)
    BY <1>2, <2>1, PcMoveType DEF PcState
  <2>2. CASE Lock /\ GapStep /\ pc_state' = "sof_preset" /\ UNCHANGED op_state
    BY <1>0, <1>1, <1>2, <2>2 DEF PcState
  <2> QED BY <1>17, <2>1, <2>2 DEF PcIdle
<1>18. CASE PcOff(avail)
  BY <1>2, <1>18, PcMoveType DEF PcOff, PcState, OpState
<1> QED BY <1>3, <1>4, <1>5, <1>6, <1>7, <1>8, <1>9, <1>10, <1>11,
           <1>12, <1>13, <1>14, <1>15, <1>16, <1>17, <1>18 DEF PcStep

LEMMA ArbStepType ==
  ASSUME ArbType, NEW avail, NEW index \in Buf, ArbStep(avail, index)
  PROVE  ArbType'
<1> USE DEF ArbType, ArbState, MetaWord
<1>1. select_buf_index_reg' \in Buf /\ word_out' \in MetaWord \cup {"core"}
  BY DEF ArbStep
<1>2. CASE ArbUnlock
  BY <1>1, <1>2 DEF ArbUnlock
<1>3. CASE ArbHold
  BY <1>1, <1>3 DEF ArbHold
<1>4. CASE ArbLock
  BY <1>1, <1>4 DEF ArbLock
<1>5. CASE ArbRestart(avail, index)
  BY ZenonT(40), <1>1, <1>5 DEF ArbRestart
<1>6. CASE ArbWait(avail, index)
  BY ZenonT(40), <1>1, <1>6 DEF ArbWait
<1>7. CASE ArbStoreLow(avail, index)
  BY <1>1, <1>7 DEF ArbStoreLow
<1>8. CASE ArbTimestampValid(avail, index)
  BY <1>1, <1>8 DEF ArbTimestampValid
<1>9. CASE ArbCommit(avail, index)
  BY <1>1, <1>9 DEF ArbCommit
<1> QED BY <1>2, <1>3, <1>4, <1>5, <1>6, <1>7, <1>8, <1>9 DEF ArbStep

(***************************************************************************)
(* Outputs of the decoder inside the arbitrator.                           *)
(***************************************************************************)
LEMMA SelectType ==
  ASSUME TypeOK, NEW cmd, NEW bufs
  PROVE  /\ select_buf_index(cmd, bufs) \in Buf
         /\ select_buf_avail(cmd, bufs) =>
              txt_state[select_buf_index(cmd, bufs)] = "txt_ready"
<1>1. prio \in [Buf -> Prio] /\ ready(cmd, bufs) \in SUBSET Buf
  BY TxPathAssumption DEF TypeOK, ready
<1>2. \A b \in ready(cmd, bufs) : txt_state[b] = "txt_ready"
  BY DEF ready, txt_buf_ready
<1> QED BY <1>1, <1>2, DecoderLemma
         DEF select_buf_index, select_buf_avail, IsSelection

LEMMA ClockType ==
  ASSUME TypeOK, NEW cmd, NEW bufs, NEW abort_tran, NEW written,
         Clock(cmd, bufs, abort_tran, written)
  PROVE  /\ txt_state' \in [Buf -> TxtState]
         /\ hw_cmd_int' \subseteq Buf
         /\ ArbType' /\ PcType'
         /\ CmdInv' /\ is_txt_locked' \in BOOLEAN
         /\ ts_low_of' \subseteq Buf /\ md_of' \subseteq Buf
         /\ bus_off' \in BOOLEAN /\ bus_off_start' \in BOOLEAN
<1> DEFINE avail == select_buf_avail(cmd, bufs)
           index == select_buf_index(cmd, bufs)
<1>1. index \in Buf
  BY SelectType
<1>2. ArbStep(avail, index) /\ PcStep(avail, abort_tran) /\ Captured(avail, index, written)
  BY DEF Clock
<1>3. ArbType /\ PcType
  BY DEF TypeOK, ArbType, PcType
<1> HIDE DEF avail, index
<1>4. ArbType' /\ PcType'
  BY <1>1, <1>2, <1>3, ArbStepType, PcStepType
<1>5. CmdInv' /\ is_txt_locked' \in BOOLEAN
  BY <1>2, PcStepKind, KindCmd DEF TypeOK
<1>6. ts_low_of' \subseteq Buf /\ md_of' \subseteq Buf
  BY <1>1, <1>2 DEF Captured, TypeOK
<1>7. hw_cmd_int' \subseteq Buf
  BY DEF Clock
<1>8. txt_state' \in [Buf -> TxtState]
  <2>1. \A b \in Buf : txt_state[b] \in TxtState /\ bus_off_start \in BOOLEAN
    BY DEF TypeOK
  <2> QED BY <2>1, BufFsmType DEF Clock
<1>9. bus_off' \in BOOLEAN /\ bus_off_start' \in BOOLEAN
  <2>1. FaultStep /\ bus_off \in BOOLEAN
    BY DEF Clock, TypeOK
  <2> QED BY ZenonT(40), <2>1 DEF FaultStep
<1> QED BY <1>4, <1>5, <1>6, <1>7, <1>8, <1>9

\* Every step but TimestampPasses is a clock cycle.
LEMMA NextIsClock ==
  ASSUME TypeOK, Next
  PROVE  \/ /\ \E cmd, bufs : \E abort_tran \in BOOLEAN : \E written \in SUBSET Buf :
                 /\ \A b \in written : txtb_user_accessible(txt_state[b])
                 /\ Clock(cmd, bufs, abort_tran, written)
            /\ frame_due' \in [Buf -> BOOLEAN]
            /\ prio' \in [Buf -> TxPrio]
            /\ drv_ena' \in BOOLEAN
         \/ \E b \in Buf : TimestampPasses(b)
<1> USE DEF TypeOK
<1>1. CASE Cycle
  BY ZenonT(40), <1>1 DEF Cycle
<1>2. ASSUME NEW cmd \in TxCmds, NEW bufs \in SUBSET Buf, TxCommand(cmd, bufs)
      PROVE  Clock(cmd, bufs, FALSE, {}) /\ UNCHANGED <<frame_due, prio, drv_ena>>
  BY ZenonT(40), <1>2 DEF TxCommand
<1>3. ASSUME NEW b \in Buf, NEW p \in TxPrio, TxPriority(b, p)
      PROVE  /\ Clock({}, {}, FALSE, {})
             /\ UNCHANGED <<frame_due, drv_ena>> /\ prio' \in [Buf -> TxPrio]
  BY ZenonT(40), <1>3 DEF TxPriority
<1>4. ASSUME NEW b \in Buf, NEW due \in BOOLEAN, RamWrite(b, due)
      PROVE  /\ Clock({}, {}, FALSE, {b}) /\ txtb_user_accessible(txt_state[b])
             /\ UNCHANGED <<prio, drv_ena>> /\ frame_due' \in [Buf -> BOOLEAN]
  BY ZenonT(40), <1>4 DEF RamWrite
<1>5. CASE AbortTran
  BY ZenonT(40), <1>5 DEF AbortTran
<1>6. CASE Enable
  BY ZenonT(40), <1>6 DEF Enable
<1> QED BY ZenonT(40), <1>1, <1>2, <1>3, <1>4, <1>5, <1>6 DEF Next

-----------------------------------------------------------------------------
(***************************************************************************)
(* Type correctness: software, the TXT buffers, the arbitrator and         *)
(* protocol control never leave the ranges of their registers.             *)
(***************************************************************************)
THEOREM TxPathTypeCorrect == Spec => [](TypeOK /\ CmdInv)
<1>1. Init => TypeOK /\ CmdInv
  <2> SUFFICES ASSUME Init PROVE TypeOK /\ CmdInv
    OBVIOUS
  <2>1. 0 \in Buf /\ 0 \in 0 .. RetrMod - 1 /\ 0 \in 0 .. MinGap
    BY BufCountAssumption, TxPathAssumption DEF Buf, RetrMod
  <2> QED BY ZenonT(40), <2>1 DEF Init, TypeOK, CmdInv, TxtState, ArbState, MetaWord,
                      PcState, OpState, NoCmd, HwCmd
<1>2. TypeOK /\ CmdInv /\ [Next]_vars => (TypeOK /\ CmdInv)'
  <2> SUFFICES ASSUME TypeOK, CmdInv, [Next]_vars PROVE (TypeOK /\ CmdInv)'
    OBVIOUS
  <2>1. ASSUME NEW cmd, NEW bufs, NEW abort_tran, NEW written,
               Clock(cmd, bufs, abort_tran, written),
               frame_due' \in [Buf -> BOOLEAN], prio' \in [Buf -> TxPrio],
               drv_ena' \in BOOLEAN
        PROVE  (TypeOK /\ CmdInv)'
    <3>1. /\ txt_state' \in [Buf -> TxtState]
          /\ hw_cmd_int' \subseteq Buf
          /\ ArbType' /\ PcType'
          /\ CmdInv' /\ is_txt_locked' \in BOOLEAN
          /\ ts_low_of' \subseteq Buf /\ md_of' \subseteq Buf
          /\ bus_off' \in BOOLEAN /\ bus_off_start' \in BOOLEAN
      BY <2>1, ClockType
    <3>2. txt_hw_cmd' \subseteq HwCmd
      BY <3>1 DEF CmdInv, HwCmd
    <3> QED BY <2>1, <3>1, <3>2 DEF TypeOK, ArbType, PcType
  <2>2. ASSUME NEW b \in Buf, TimestampPasses(b) PROVE (TypeOK /\ CmdInv)'
    BY <2>2 DEF TimestampPasses, TypeOK, CmdInv, arb_vars, pc_vars
  <2>3. CASE UNCHANGED vars
    BY <2>3 DEF vars, TypeOK, CmdInv, arb_vars, pc_vars
  <2> QED BY <2>1, <2>2, <2>3, NextIsClock
<1> QED BY <1>1, <1>2, PTL DEF Spec

(***************************************************************************)
(* In every cycle, and whatever software aborts in it, the                 *)
(* decoder selects the ready buffer of highest priority and, among equals, *)
(* of lowest index: a buffer nobody made ready is never offered to the     *)
(* arbitrator.                                                             *)
(***************************************************************************)
THEOREM TxPathDecoder == Spec => []DecoderSelectsHighest
<1>1. TypeOK => DecoderSelectsHighest
  <2> SUFFICES ASSUME TypeOK, NEW v \in SUBSET ready({}, {})
               PROVE  /\ OutputValid(prio, v) <=> v # {}
                      /\ v # {} => IsSelection(prio, v, OutputIndex(prio, v))
    BY DEF DecoderSelectsHighest
  <2>1. prio \in [Buf -> Prio] /\ v \in SUBSET Buf
    BY TxPathAssumption DEF TypeOK, ready
  <2> QED BY <2>1, DecoderLemma
<1> QED BY <1>1, TxPathTypeCorrect, PTL

(***************************************************************************)
(* LockAgreement is inductive together with CmdInv: the one cycle by which *)
(* the registered commands lag behind is_txt_locked is exactly what CmdInv *)
(* accounts for.                                                           *)
(***************************************************************************)
LEMMA ClockLocks ==
  ASSUME TypeOK, CmdInv, LockAgreement, NEW cmd, NEW bufs, NEW abort_tran, NEW written,
         Clock(cmd, bufs, abort_tran, written)
  PROVE  LockAgreement'
<1> DEFINE avail == select_buf_avail(cmd, bufs)
           index == select_buf_index(cmd, bufs)
<1>1. ArbStep(avail, index) /\ PcStep(avail, abort_tran)
  BY DEF Clock
<1> HIDE DEF avail, index
<1>2. Quiet \/ Locks \/ Unlocks
  BY <1>1, PcStepKind
<1>3. /\ tx_arb_fsm = "arb_locked" /\ "unlock" \notin txt_hw_cmd =>
           tx_arb_fsm' = "arb_locked" /\ int_txtb_index' = int_txtb_index
      /\ tx_arb_fsm = "arb_locked" /\ "unlock" \in txt_hw_cmd =>
           tx_arb_fsm' # "arb_locked"
      /\ tx_arb_fsm # "arb_locked" /\ "lock" \in txt_hw_cmd =>
           tx_arb_fsm' = "arb_locked" /\ int_txtb_index' = int_txtb_index
      /\ tx_arb_fsm # "arb_locked" /\ "lock" \notin txt_hw_cmd =>
           tx_arb_fsm' # "arb_locked"
  BY <1>1 DEF ArbStep, ArbUnlock, ArbHold, ArbLock, ArbRestart, ArbWait, ArbStoreLow,
              ArbTimestampValid, ArbCommit, Stable, Selecting, tx_arb_locked
<1>4. ASSUME NEW b \in Buf, txt_state'[b] \in InProgress
      PROVE  tx_arb_fsm' = "arb_locked" /\ int_txtb_index' = b
  <2>1. txt_state'[b] = buf_fsm(txt_state[b], SwTo(cmd, bufs, b), HwTo(b), bus_off_start)
    BY DEF Clock
  <2>2. "unlock" \in HwTo(b) => HwTo(b) \cap {"err", "arbl", "failed", "valid"} # {}
    BY DEF HwTo, CmdInv
  <2>3. \/ txt_state[b] = "txt_ready" /\ "lock" \in HwTo(b)
        \/ txt_state[b] \in InProgress /\ "unlock" \notin HwTo(b)
    <3> HIDE DEF CmdInv
    <3> QED BY <1>4, <2>1, <2>2, BufFsmInProgress DEF TypeOK
  <2>4. CASE txt_state[b] = "txt_ready" /\ "lock" \in HwTo(b)
    <3>1. b = int_txtb_index /\ "lock" \in txt_hw_cmd /\ "unlock" \notin txt_hw_cmd
      BY <2>4 DEF HwTo, CmdInv
    <3> QED BY <1>3, <3>1
  <2>5. CASE txt_state[b] \in InProgress /\ "unlock" \notin HwTo(b)
    BY <1>3, <2>5 DEF LockAgreement, HwTo
  <2> QED BY <2>3, <2>4, <2>5
<1>5. tx_arb_fsm' = "arb_locked" => is_txt_locked' \/ "unlock" \in txt_hw_cmd'
  BY <1>2, <1>3 DEF LockAgreement, CmdInv, Quiet, Locks, Unlocks
<1>6. is_txt_locked' => tx_arb_fsm' = "arb_locked" \/ "lock" \in txt_hw_cmd'
  BY ZenonT(40), <1>2, <1>3 DEF LockAgreement, CmdInv, Quiet, Locks, Unlocks
<1> QED BY <1>4, <1>5, <1>6 DEF LockAgreement

(***************************************************************************)
(* TXT buffers, TX arbitrator and protocol control agree on the locked     *)
(* buffer at every clock cycle, whatever software does and whatever        *)
(* happens on the bus.                                                     *)
(***************************************************************************)
THEOREM TxPathLocksAgree == Spec => []LockAgreement
<1>1. Init => LockAgreement
  BY DEF Init, LockAgreement, InProgress
<1>2. LockAgreement /\ TypeOK /\ CmdInv /\ [Next]_vars => LockAgreement'
  <2> SUFFICES ASSUME LockAgreement, TypeOK, CmdInv, [Next]_vars PROVE LockAgreement'
    OBVIOUS
  <2>1. ASSUME NEW b \in Buf, TimestampPasses(b) PROVE LockAgreement'
    BY <2>1 DEF TimestampPasses, LockAgreement, arb_vars, pc_vars
  <2>2. CASE UNCHANGED vars
    BY <2>2 DEF vars, LockAgreement, arb_vars, pc_vars
  <2> QED BY <2>1, <2>2, NextIsClock, ClockLocks
<1> QED BY <1>1, <1>2, TxPathTypeCorrect, PTL DEF Spec

-----------------------------------------------------------------------------
\* The pointer into the buffers goes with the state of the arbitrator.
PointerInv ==
  /\ tx_arb_fsm = "arb_sel_low_ts" => txtb_pointer_meta = "ts_low"
  /\ tx_arb_fsm = "arb_sel_upp_ts" => txtb_pointer_meta = "ts_upp"
  /\ tx_arb_fsm = "arb_sel_ffw" => txtb_pointer_meta = "ffw"

LEMMA ClockSelection ==
  ASSUME TypeOK, PointerInv, SelectionReadsOneFrame,
         NEW cmd, NEW bufs, NEW abort_tran, NEW written,
         \A b \in written : txtb_user_accessible(txt_state[b]),
         Clock(cmd, bufs, abort_tran, written)
  PROVE  PointerInv' /\ SelectionReadsOneFrame'
<1> DEFINE avail == select_buf_avail(cmd, bufs)
           index == select_buf_index(cmd, bufs)
<1>1. ArbStep(avail, index) /\ Captured(avail, index, written)
  BY DEF Clock
<1>2. index \in Buf /\ (avail => index \notin written)
  <2>1. avail => ~txtb_user_accessible(txt_state[index])
    BY SelectType DEF txtb_user_accessible, InProgress
  <2> QED BY <2>1, SelectType
<1> HIDE DEF avail, index
<1>3. select_buf_index_reg' = index
  BY <1>1 DEF ArbStep
<1>4. tx_arb_fsm # "arb_locked" => word_out' = txtb_pointer_meta
  BY <1>1 DEF ArbStep, tx_arb_locked
<1> USE DEF PointerInv, SelectionReadsOneFrame
<1>5. CASE ArbUnlock
  BY <1>5 DEF ArbUnlock
<1>6. CASE ArbHold
  BY <1>6 DEF ArbHold, tx_arb_locked
<1>7. CASE ArbLock
  BY <1>7 DEF ArbLock
<1>8. CASE ArbRestart(avail, index)
  BY <1>8 DEF ArbRestart
<1>9. CASE ArbWait(avail, index)
  <2>1. tx_arb_fsm = "arb_sel_upp_ts" => ts_low_of' = {select_buf_index_reg'}
    BY <1>1, <1>2, <1>3, <1>9 DEF ArbWait, Captured, Stable, select_index_changed
  <2>2. tx_arb_fsm' = tx_arb_fsm /\ txtb_pointer_meta' = txtb_pointer_meta
        /\ tx_arb_fsm # "arb_locked"
    BY <1>9 DEF ArbWait, Stable, Selecting
  <2> QED BY <1>4, <2>1, <2>2
<1>10. CASE ArbStoreLow(avail, index)
  <2>1. ts_low_of' = {select_buf_index_reg'}
    BY <1>1, <1>2, <1>3, <1>10 DEF ArbStoreLow, Captured, Stable
  <2> QED BY <1>10, <2>1 DEF ArbStoreLow
<1>11. CASE ArbTimestampValid(avail, index)
  BY <1>11 DEF ArbTimestampValid
<1>12. CASE ArbCommit(avail, index)
  BY <1>12 DEF ArbCommit
<1> QED BY <1>1, <1>5, <1>6, <1>7, <1>8, <1>9, <1>10, <1>11, <1>12 DEF ArbStep

(***************************************************************************)
(* The arbitrator never compares a timestamp put together from two frames, *)
(* and never commits a word other than the frame format word: memory       *)
(* protection keeps the selected frame in place, the decoder and the wait  *)
(* states keep the selected buffer and word in place.                      *)
(***************************************************************************)
THEOREM TxPathSelection == Spec => []SelectionReadsOneFrame
<1>1. Init => PointerInv /\ SelectionReadsOneFrame
  BY DEF Init, PointerInv, SelectionReadsOneFrame
<1>2. PointerInv /\ SelectionReadsOneFrame /\ TypeOK /\ [Next]_vars
        => (PointerInv /\ SelectionReadsOneFrame)'
  <2> SUFFICES ASSUME PointerInv, SelectionReadsOneFrame, TypeOK, [Next]_vars
               PROVE  (PointerInv /\ SelectionReadsOneFrame)'
    OBVIOUS
  <2>1. ASSUME NEW b \in Buf, TimestampPasses(b)
        PROVE  (PointerInv /\ SelectionReadsOneFrame)'
    BY <2>1 DEF TimestampPasses, PointerInv, SelectionReadsOneFrame, arb_vars
  <2>2. CASE UNCHANGED vars
    BY <2>2 DEF vars, PointerInv, SelectionReadsOneFrame, arb_vars
  <2> QED BY <2>1, <2>2, NextIsClock, ClockSelection
<1> QED BY <1>1, <1>2, TxPathTypeCorrect, PTL DEF Spec

-----------------------------------------------------------------------------
\* A buffer in progress finishes only by an unlock command that raises its
\* interrupt in the same cycle.
LEMMA FinishInterrupts ==
  ASSUME CmdInv, NEW b \in Buf, NEW sw,
         txt_state[b] \in InProgress,
         buf_fsm(txt_state[b], sw, HwTo(b), FALSE) \in Finished
  PROVE  txtb_hw_cmd_int(txt_state[b], sw, HwTo(b), b = int_txtb_index)
<1>1. b = int_txtb_index /\ "unlock" \in txt_hw_cmd /\ HwTo(b) = txt_hw_cmd
  BY DEF buf_fsm, FsmStep, FromTxProg, FromAbProg, HwTo, InProgress, Finished
<1>2. CASE txt_state[b] = "txt_ab_prog"
  BY <1>1, <1>2 DEF txtb_hw_cmd_int
<1>3. CASE txt_state[b] = "txt_tx_prog"
  BY <1>1, <1>3 DEF CmdInv, buf_fsm, FsmStep, FromTxProg, UnlockTo, Finished, txtb_hw_cmd_int
<1> QED BY <1>2, <1>3 DEF InProgress

(***************************************************************************)
(* Every transmission that the core ends for good raises the HW command    *)
(* interrupt of its buffer in the very cycle (txtb_hw_cmd_int), whatever   *)
(* software commands in that cycle; only bus-off ends it silently.         *)
(***************************************************************************)
THEOREM TxPathInterrupts == Spec => HwCompletionInterrupts
<1>1. TypeOK /\ CmdInv /\ [Next]_vars => [EndInterrupts]_vars
  <2> SUFFICES ASSUME TypeOK, CmdInv, Next, NEW b \in Buf,
                      txt_state[b] \in InProgress, txt_state'[b] \in Finished,
                      ~bus_off_start
               PROVE  b \in hw_cmd_int'
    BY DEF EndInterrupts
  <2>1. ASSUME NEW c \in Buf, TimestampPasses(c) PROVE FALSE
    BY <2>1 DEF TimestampPasses, InProgress, Finished
  <2>2. ASSUME NEW cmd, NEW bufs, NEW abort_tran, NEW written,
               Clock(cmd, bufs, abort_tran, written)
        PROVE  b \in hw_cmd_int'
    <3>1. txt_state'[b] = buf_fsm(txt_state[b], SwTo(cmd, bufs, b), HwTo(b), bus_off_start)
      BY <2>2 DEF Clock
    <3>2. buf_fsm(txt_state[b], SwTo(cmd, bufs, b), HwTo(b), FALSE) \in Finished
      BY <3>1 DEF buf_fsm
    <3>3. txtb_hw_cmd_int(txt_state[b], SwTo(cmd, bufs, b), HwTo(b), b = int_txtb_index)
      BY ZenonT(40), <3>2, FinishInterrupts
    <3> QED BY <2>2, <3>3 DEF Clock
  <2> QED BY <2>1, <2>2, NextIsClock
<1> QED BY <1>1, TxPathTypeCorrect, PTL DEF Spec, HwCompletionInterrupts

-----------------------------------------------------------------------------
(***************************************************************************)
(* A core with one TXT buffer.  An abort withdraws the buffer from the     *)
(* arbitrator within the cycle, so that protocol control can not lock it   *)
(* any more; it locks a ready buffer, or, after software switched the core *)
(* off in a frame and on again, the one that is still in progress.         *)
(***************************************************************************)

\* is_txt_locked outlives a frame only if software switches the core off, and
\* a unit that enters bus-off has unlocked before.
SinglePhase ==
  /\ drv_ena \/ CoreCommands
  /\ is_txt_locked => \/ pc_state = "sof_preset"
                      \/ pc_state \in {"frame", "err_preset"} /\ op_state = "transciever"
                      \/ CoreCommands /\ pc_state \in {"off", "idle"}
  /\ bus_off_start => ~is_txt_locked /\ pc_state \notin {"idle", "sof_preset"}

SingleLock ==
  /\ "lock" \in txt_hw_cmd => \/ txt_state[int_txtb_index] = "txt_ready"
                              \/ CoreCommands /\ txt_state[int_txtb_index] \in InProgress
  /\ tx_arb_fsm = "arb_locked" => txt_state[int_txtb_index] \in InProgress

\* What a step of protocol control does for the argument.
SingleStep(avail) ==
  /\ is_txt_locked' => \/ pc_state' = "sof_preset"
                       \/ pc_state' \in {"frame", "err_preset"} /\ op_state' = "transciever"
                       \/ CoreCommands /\ pc_state' \in {"off", "idle"}
  /\ pc_state \in {"err_flag", "err_delim"} =>
       pc_state' \notin {"idle", "sof_preset"} /\ "lock" \notin txt_hw_cmd'
  /\ "lock" \in txt_hw_cmd' =>
       /\ pc_state \in {"idle", "sof_preset"} /\ tran_frame_valid_out(avail)
       /\ is_txt_locked => CoreCommands

LEMMA SingleSteps ==
  ASSUME ~DominantEof, SinglePhase, NEW avail, NEW abort_tran, PcStep(avail, abort_tran)
  PROVE  SingleStep(avail)
<1> USE DEF SingleStep, SinglePhase
<1>1. CASE PcDisabled
  BY <1>1 DEF PcDisabled, NoCmd
<1>2. CASE PcAbortTran(abort_tran)
  BY <1>2 DEF PcAbortTran, Unlocked
<1>3. CASE PcError
  BY <1>3 DEF PcError, PcMove, NoCmd
<1>4. CASE PcSof(avail)
  BY <1>4 DEF PcSof, Lock, NoCmd
<1>5. CASE PcSofReceiver \/ PcFrame
  BY <1>5 DEF PcSofReceiver, PcFrame, PcMove, NoCmd
<1>6. CASE PcArbitrationLost
  BY <1>6 DEF PcArbitrationLost, Attempt, Unlocked
<1>7. CASE PcEof
  BY <1>7 DEF PcEof, PcMove, NoCmd, Unlocked
<1>8. CASE PcEofDominant
  BY <1>8 DEF PcEofDominant, PcMove, NoCmd
<1>9. CASE PcErrorPreset
  BY <1>9 DEF PcErrorPreset, Attempt, Unlocked, PcMove, NoCmd
<1>10. CASE PcErrorFlag(avail)
  BY <1>10 DEF PcErrorFlag, PcMove, NoCmd
<1>11. CASE PcErrorDelim(avail)
  BY <1>11 DEF PcErrorDelim, PcMove, NoCmd
<1>12. CASE PcOverload(avail)
  BY <1>12 DEF PcOverload, PcMove, NoCmd
<1>13. CASE PcInterm(avail)
  BY <1>13 DEF PcInterm, PcMove, NoCmd
<1>14. CASE PcIdle(avail)
  BY <1>14 DEF PcIdle, Lock, PcMove, NoCmd
<1>15. CASE PcOff(avail)
  BY <1>15 DEF PcOff, PcMove, NoCmd
<1> QED BY ZenonT(40), <1>1, <1>2, <1>3, <1>4, <1>5, <1>6, <1>7, <1>8, <1>9, <1>10, <1>11, <1>12,
           <1>13, <1>14, <1>15 DEF PcStep

\* The one buffer in a clock cycle: what is selected is ready and not aborted,
\* and a locked buffer stays locked until the unlock command.
LEMMA SingleClock ==
  ASSUME buf_count = 1, ~DominantEof, TypeOK, CmdInv, LockAgreement, SinglePhase, SingleLock,
         NEW cmd, NEW bufs, NEW abort_tran, NEW written, Clock(cmd, bufs, abort_tran, written)
  PROVE  /\ SingleLock'
         /\ is_txt_locked' => \/ pc_state' = "sof_preset"
                              \/ pc_state' \in {"frame", "err_preset"} /\ op_state' = "transciever"
                              \/ CoreCommands /\ pc_state' \in {"off", "idle"}
         /\ bus_off_start' => ~is_txt_locked' /\ pc_state' \notin {"idle", "sof_preset"}
         /\ txt_state[0] = "txt_ready" /\ txt_state'[0] = "txt_aborted" =>
              "lock" \notin txt_hw_cmd'
<1> DEFINE avail == select_buf_avail(cmd, bufs)
           index == select_buf_index(cmd, bufs)
           sw == SwTo(cmd, bufs, 0)
<1>1. ArbStep(avail, index) /\ PcStep(avail, abort_tran) /\ FaultStep
  BY DEF Clock
<1>2. Buf = {0} /\ int_txtb_index = 0
  BY DEF Buf, TypeOK
<1>3. txt_state'[0] = buf_fsm(txt_state[0], sw, txt_hw_cmd, bus_off_start)
  BY <1>2 DEF Clock, HwTo
<1>4. avail => txt_state[0] = "txt_ready" /\ ~abort_applied(sw)
  <2>1. prio \in [Buf -> Prio] /\ ready(cmd, bufs) \in SUBSET Buf
    BY TxPathAssumption DEF TypeOK, ready
  <2>2. \A b \in ready(cmd, bufs) : b = 0 /\ txt_state[0] = "txt_ready" /\ ~abort_applied(sw)
    BY <1>2 DEF ready, txt_buf_ready
  <2> QED BY <2>1, <2>2, DecoderLemma DEF select_buf_avail, IsSelection
<1>5. int_txtb_index' = 0
  <2>1. index \in Buf
    BY SelectType
  <2> HIDE DEF avail, index
  <2> QED BY <1>1, <1>2, <2>1, ArbStepType DEF TypeOK, ArbType
<1> HIDE DEF avail, index, sw
<1>6. SingleStep(avail) /\ (Quiet \/ Locks \/ Unlocks)
  BY <1>1, SingleSteps, PcStepKind
<1>7. bus_off_start' => pc_state \in {"err_flag", "err_delim"}
  BY ZenonT(40), <1>1 DEF FaultStep
<1>8. bus_off_start' => ~is_txt_locked' /\ pc_state' \notin {"idle", "sof_preset"}
  <2> SUFFICES ASSUME bus_off_start' PROVE ~is_txt_locked' /\ pc_state' \notin {"idle", "sof_preset"}
    OBVIOUS
  <2>1. pc_state \in {"err_flag", "err_delim"} /\ ~is_txt_locked
    BY <1>7 DEF SinglePhase
  <2>2. pc_state' \notin {"idle", "sof_preset"} /\ "lock" \notin txt_hw_cmd'
    BY <1>6, <2>1 DEF SingleStep
  <2>3. ~is_txt_locked'
    BY ZenonT(40), <1>6, <2>1, <2>2 DEF Quiet, Locks, Unlocks
  <2> QED BY <2>2, <2>3
\* The buffer that is locked stays in progress.
<1>9. tx_arb_locked => is_txt_locked /\ ~bus_off_start
  BY ZenonT(40) DEF tx_arb_locked, LockAgreement, SinglePhase
<1>10. tx_arb_locked => txt_state[0] \in InProgress /\ txt_state'[0] \in InProgress
  BY <1>2, <1>3, <1>9 DEF SingleLock, tx_arb_locked, buf_fsm, FsmStep, FromTxProg, FromAbProg, InProgress
<1>11. ASSUME "lock" \in txt_hw_cmd PROVE txt_state'[0] \in InProgress
  <2>1. ~bus_off_start /\ "unlock" \notin txt_hw_cmd
    BY ZenonT(40), <1>11 DEF CmdInv, SinglePhase
  <2>2. txt_state[0] \in {"txt_ready"} \cup InProgress
    BY <1>2, <1>11 DEF SingleLock
  <2> QED BY <1>3, <1>11, <2>1, <2>2 DEF buf_fsm, FsmStep, FromReady, FromTxProg, FromAbProg, InProgress
<1>12. tx_arb_fsm' = "arb_locked" => txt_state'[int_txtb_index'] \in InProgress
  <2>1. tx_arb_fsm' = "arb_locked" => tx_arb_locked \/ "lock" \in txt_hw_cmd
    BY <1>1 DEF ArbStep, ArbUnlock, ArbHold, ArbLock, ArbRestart, ArbWait, ArbStoreLow,
                ArbTimestampValid, ArbCommit, Stable, Selecting, tx_arb_locked
  <2> QED BY <1>5, <1>10, <1>11, <2>1
\* The buffer that is about to be locked.
<1>13. ASSUME "lock" \in txt_hw_cmd'
       PROVE  /\ \/ txt_state'[0] = "txt_ready"
                 \/ CoreCommands /\ txt_state'[0] \in InProgress
              /\ ~(txt_state[0] = "txt_ready" /\ txt_state'[0] = "txt_aborted")
  <2>1. /\ pc_state \in {"idle", "sof_preset"} /\ tran_frame_valid_out(avail)
        /\ is_txt_locked => CoreCommands
    BY <1>6, <1>13 DEF SingleStep
  <2>2. ~bus_off_start
    BY <2>1 DEF SinglePhase
  <2>3. CASE tx_arb_locked
    BY <1>9, <1>10, <2>1, <2>3 DEF InProgress
  <2>4. CASE ~tx_arb_locked
    <3>1. txt_state[0] = "txt_ready" /\ ~abort_applied(sw)
      BY <1>4, <2>1, <2>4, ZenonT(40) DEF tran_frame_valid_out
    <3>2. CASE "lock" \in txt_hw_cmd
      BY <1>11, <2>1, <3>2 DEF CmdInv, InProgress
    <3>3. CASE "lock" \notin txt_hw_cmd
      BY <1>3, <2>2, <3>1, <3>3 DEF buf_fsm, FsmStep, FromReady
    <3> QED BY <3>2, <3>3
  <2> QED BY <2>3, <2>4
<1>14. SingleLock'
  BY <1>5, <1>12, <1>13 DEF SingleLock
<1>15. txt_state[0] = "txt_ready" /\ txt_state'[0] = "txt_aborted" => "lock" \notin txt_hw_cmd'
  BY <1>13
<1> QED BY <1>6, <1>8, <1>14, <1>15 DEF SingleStep

LEMMA SingleInvariant ==
  ASSUME buf_count = 1, ~DominantEof
  PROVE  Spec => [](SinglePhase /\ SingleLock)
<1>1. Init => SinglePhase /\ SingleLock
  BY DEF Init, SinglePhase, SingleLock, NoCmd
<1>2. TypeOK /\ CmdInv /\ LockAgreement /\ SinglePhase /\ SingleLock /\ [Next]_vars
        => (SinglePhase /\ SingleLock)'
  <2> SUFFICES ASSUME TypeOK, CmdInv, LockAgreement, SinglePhase, SingleLock, [Next]_vars
               PROVE  (SinglePhase /\ SingleLock)'
    OBVIOUS
  <2>1. drv_ena' \/ CoreCommands
    BY ZenonT(40) DEF SinglePhase, Next, Cycle, TxCommand, TxPriority, RamWrite, TimestampPasses, vars
  <2>2. ASSUME NEW b \in Buf, TimestampPasses(b) PROVE (SinglePhase /\ SingleLock)'
    <3>1. UNCHANGED <<is_txt_locked, bus_off_start, pc_state, op_state, txt_hw_cmd, txt_state,
                      int_txtb_index, tx_arb_fsm>>
      BY <2>2 DEF TimestampPasses, arb_vars, pc_vars
    <3> QED BY ZenonT(40), <2>1, <3>1 DEF SinglePhase, SingleLock
  <2>3. CASE UNCHANGED vars
    <3>1. UNCHANGED <<is_txt_locked, bus_off_start, pc_state, op_state, txt_hw_cmd, txt_state,
                      int_txtb_index, tx_arb_fsm>>
      BY <2>3 DEF vars, arb_vars, pc_vars
    <3> QED BY ZenonT(40), <2>1, <3>1 DEF SinglePhase, SingleLock
  <2>4. ASSUME NEW cmd, NEW bufs, NEW abort_tran, NEW written,
               Clock(cmd, bufs, abort_tran, written)
        PROVE  (SinglePhase /\ SingleLock)'
    BY <2>1, <2>4, SingleClock DEF SinglePhase
  <2> QED BY ZenonT(40), <2>2, <2>3, <2>4, NextIsClock
<1> QED BY <1>1, <1>2, TxPathTypeCorrect, TxPathLocksAgree, PTL DEF Spec

(***************************************************************************)
(* Assertion txtb_no_lock_after_abort of txt_buffer_fsm.vhd holds in a     *)
(* core with one TXT buffer, whatever else software does and whenever the  *)
(* abort comes, as long as no node drives the last bit of our EOF          *)
(* dominant: txt_buf_ready already drops in the cycle of the abort.        *)
(***************************************************************************)
THEOREM TxPathNoLockAfterAbort ==
  ASSUME buf_count = 1, ~DominantEof
  PROVE  Spec => NoLockAfterAbort
<1> DEFINE Aborts == \A b \in Buf : txt_state[b] = "txt_ready" /\ txt_state'[b] = "txt_aborted"
                       => ~("lock" \in txt_hw_cmd' /\ int_txtb_index' = b)
<1>1. TypeOK /\ CmdInv /\ LockAgreement /\ SinglePhase /\ SingleLock /\ [Next]_vars => [Aborts]_vars
  <2> SUFFICES ASSUME TypeOK, CmdInv, LockAgreement, SinglePhase, SingleLock, Next PROVE Aborts
    OBVIOUS
  <2>1. Buf = {0}
    BY DEF Buf
  <2>2. ASSUME NEW b \in Buf, TimestampPasses(b) PROVE Aborts
    <3>1. txt_state' = txt_state
      BY <2>2 DEF TimestampPasses
    <3> QED BY <3>1
  <2>3. ASSUME NEW cmd, NEW bufs, NEW abort_tran, NEW written,
               Clock(cmd, bufs, abort_tran, written)
        PROVE  Aborts
    BY <2>1, <2>3, SingleClock
  <2> QED BY ZenonT(40), <2>2, <2>3, NextIsClock
<1> QED BY <1>1, SingleInvariant, TxPathTypeCorrect, TxPathLocksAgree, PTL DEF Spec, NoLockAfterAbort

(***************************************************************************)
(* In a core with one TXT buffer that stays enabled, protocol control      *)
(* locks only a ready buffer (txtb_lock_only_in_rdy_asrt), also with       *)
(* aborts, with frames that wait for their timestamp and with an           *)
(* intermission of any length.                                             *)
(***************************************************************************)
THEOREM TxPathSingleLocksReady ==
  ASSUME buf_count = 1, ~DominantEof, ~CoreCommands
  PROVE  Spec => []LockOnlyInReady
<1>1. SingleLock => LockOnlyInReady
  BY DEF SingleLock, LockOnlyInReady
<1> QED BY <1>1, SingleInvariant, PTL

-----------------------------------------------------------------------------
(***************************************************************************)
(* The lock command reaches only a ready buffer, and the frame sent has    *)
(* the metadata of that buffer, for every number of buffers, all           *)
(* priorities and every time of the bus, if software does not abort, does  *)
(* not use COMMAND[ABT] and does not switch the core off, frames have no   *)
(* timestamp in the future, no node drives the last bit of our EOF         *)
(* dominant, and an intermission lasts at least six cycles.                *)
(***************************************************************************)
Undisturbed ==
  /\ \A cmd \in TxCmds : ~abort_applied(cmd)
  /\ ~CoreCommands /\ ~TimeTriggered /\ ~DominantEof
  /\ MinGap >= 6

\* Cycles until a selection that goes on undisturbed is committed.
Remaining ==
  (IF fsm_wait_state THEN 1 ELSE 0)
    + (IF tx_arb_fsm = "arb_sel_low_ts" THEN 5
       ELSE IF tx_arb_fsm = "arb_sel_upp_ts" THEN 3 ELSE 1)

\* Protocol control looks at tran_frame_valid_out in these phases.
Deciding == {"idle", "sof_preset"}

EnabledInv == drv_ena = TRUE /\ \A b \in Buf : frame_due[b] = TRUE

\* The phase of protocol control goes with its commands, with is_txt_locked
\* and with bus-off.
PhaseInv ==
  /\ is_txt_locked => \/ pc_state = "sof_preset"
                      \/ pc_state \in {"frame", "err_preset"} /\ op_state = "transciever"
  /\ "lock" \in txt_hw_cmd => pc_state \in {"sof_preset", "frame"}
  /\ "unlock" \in txt_hw_cmd => pc_state \in {"interm", "frame", "err_flag"} /\ gap = MinGap
  /\ bus_off_start => pc_state \in {"err_flag", "err_preset", "err_delim", "off", "overload", "interm"}
  /\ pc_state = "off" /\ ~bus_off /\ op_state # "integrating" => gap = 0

\* The committed buffer is ready, with its metadata captured.
Current == txt_state[int_txtb_index] = "txt_ready" /\ md_of = {int_txtb_index}

NoneReady == \A b \in Buf : txt_state[b] # "txt_ready"

\* A committed valid flag of a buffer that is done is replaced before protocol
\* control looks at it.
Outrun == pc_state \notin Deciding /\ Remaining <= gap + 1

CommitInv ==
  /\ "lock" \in txt_hw_cmd => Current
  /\ tx_arb_fsm # "arb_locked" /\ "lock" \notin txt_hw_cmd /\ tran_frame_valid_com =>
       Current \/ NoneReady \/ Outrun

LockInv == EnabledInv /\ PhaseInv /\ CommitInv /\ MetadataOfLockedBuffer

-----------------------------------------------------------------------------
\* A clock cycle with at most a write of TX_COMMAND, TX_PRIORITY or of a RAM.
LEMMA QuietClock ==
  ASSUME Undisturbed, TypeOK, EnabledInv, Next
  PROVE  /\ \E cmd, bufs : \E written \in SUBSET Buf :
              /\ ~abort_applied(cmd)
              /\ \A b \in written : txtb_user_accessible(txt_state[b])
              /\ Clock(cmd, bufs, FALSE, written)
         /\ EnabledInv'
<1> USE DEF TypeOK, EnabledInv, Undisturbed
<1>0. ~abort_applied({})
  BY DEF abort_applied
<1>1. CASE Cycle
  BY ZenonT(40), <1>0, <1>1 DEF Cycle
<1>2. ASSUME NEW cmd \in TxCmds, NEW bufs \in SUBSET Buf, TxCommand(cmd, bufs)
      PROVE  Clock(cmd, bufs, FALSE, {}) /\ UNCHANGED <<frame_due, drv_ena>> /\ ~abort_applied(cmd)
  BY ZenonT(40), <1>2 DEF TxCommand
<1>3. ASSUME NEW b \in Buf, NEW p \in TxPrio, TxPriority(b, p)
      PROVE  Clock({}, {}, FALSE, {}) /\ UNCHANGED <<frame_due, drv_ena>>
  BY ZenonT(40), <1>3 DEF TxPriority
<1>4. ASSUME NEW b \in Buf, RamWrite(b, TRUE)
      PROVE  /\ Clock({}, {}, FALSE, {b}) /\ txtb_user_accessible(txt_state[b])
             /\ EnabledInv'
  BY ZenonT(40), <1>4 DEF RamWrite
<1>5. ASSUME NEW b \in Buf, TimestampPasses(b) PROVE FALSE
  BY <1>5 DEF TimestampPasses
<1>6. ASSUME NEW b \in Buf, NEW due \in BOOLEAN, due \/ TimeTriggered, RamWrite(b, due)
      PROVE  RamWrite(b, TRUE)
  BY ZenonT(40), <1>6
<1> QED BY ZenonT(40), <1>0, <1>1, <1>2, <1>3, <1>4, <1>5, <1>6 DEF Next

-----------------------------------------------------------------------------
(* Protocol control.                                                       *)

\* What a step of protocol control does for the argument: a lock is decided on
\* tran_frame_valid_out, and the deciding phases are entered with gap run out.
PcFacts(avail) ==
  /\ "lock" \in txt_hw_cmd' =>
       pc_state \in Deciding /\ ~is_txt_locked /\ tran_frame_valid_out(avail)
  /\ pc_state \notin Deciding /\ pc_state' \in Deciding =>
       gap = 0 /\ pc_state \in {"interm", "off"}
  /\ gap' >= gap - 1

LEMMA MoveFacts ==
  ASSUME TypeOK, NEW avail, NEW pc, NEW op, PcMove(pc, op),
         pc \in Deciding /\ pc_state \notin Deciding => gap = 0 /\ pc_state \in {"interm", "off"}
  PROVE  PcFacts(avail)
<1>1. gap \in Nat /\ MinGap \in Nat
  BY TxPathAssumption DEF TypeOK
<1>2. gap' >= gap - 1
  BY <1>1 DEF PcMove, GapStep
<1> QED BY <1>2 DEF PcMove, PcFacts, NoCmd

LEMMA StepFacts ==
  ASSUME Undisturbed, TypeOK, CmdInv, EnabledInv, PhaseInv,
         NEW avail, PcStep(avail, FALSE)
  PROVE  PcFacts(avail)
<1>0. gap \in 0 .. MinGap /\ MinGap \in Nat
  BY TxPathAssumption DEF TypeOK
<1>1. /\ GapStep => gap' >= gap - 1
      /\ Unlocked => gap' >= gap - 1
  BY <1>0 DEF GapStep, Unlocked
<1>2. CASE PcDisabled
  BY <1>2 DEF PcDisabled, EnabledInv
<1>3. CASE PcAbortTran(FALSE)
  BY <1>3 DEF PcAbortTran
<1>4. CASE PcError
  BY <1>4, MoveFacts DEF PcError, Deciding
<1>5. CASE PcSof(avail)
  BY <1>1, <1>5 DEF PcSof, PcFacts, Deciding, Lock, NoCmd
<1>6. CASE PcSofReceiver
  BY <1>6, MoveFacts DEF PcSofReceiver, Deciding
<1>7. CASE PcFrame
  BY <1>7, MoveFacts DEF PcFrame, Deciding
<1>8. CASE PcArbitrationLost
  BY <1>1, <1>8 DEF PcArbitrationLost, Attempt, PcFacts, Deciding
<1>9. CASE PcEof
  <2>1. CASE op_state = "transciever"
    BY <1>1, <1>9, <2>1 DEF PcEof, PcFacts, Deciding
  <2>2. CASE op_state # "transciever"
    BY <1>9, <2>2, MoveFacts DEF PcEof, Deciding
  <2> QED BY <2>1, <2>2
<1>10. CASE PcEofDominant
  BY <1>10, MoveFacts DEF PcEofDominant, Deciding
<1>11. CASE PcErrorPreset
  <2>1. CASE op_state = "transciever"
    BY <1>1, <1>11, <2>1 DEF PcErrorPreset, Attempt, PcFacts, Deciding
  <2>2. CASE op_state # "transciever"
    BY <1>11, <2>2, MoveFacts DEF PcErrorPreset, Deciding
  <2> QED BY <2>1, <2>2
<1>12. CASE PcErrorFlag(avail)
  BY <1>12, MoveFacts DEF PcErrorFlag, Deciding
<1>13. CASE PcErrorDelim(avail)
  BY <1>13, MoveFacts DEF PcErrorDelim, Deciding
<1>14. CASE PcOverload(avail)
  BY <1>14, MoveFacts DEF PcOverload, Deciding
<1>15. CASE PcInterm(avail)
  BY <1>15, MoveFacts DEF PcInterm, Deciding
<1>16. CASE PcIdle(avail)
  <2>1. CASE PcMove("idle", op_state) \/ PcMove("sof_preset", op_state)
    BY <1>16, <2>1, MoveFacts DEF PcIdle, Deciding
  <2>2. CASE tran_frame_valid_out(avail) /\ Lock /\ GapStep
    <3>1. pc_state = "idle" /\ ~is_txt_locked
      BY <1>16 DEF PcIdle, PhaseInv
    <3> QED BY <1>1, <2>2, <3>1 DEF PcFacts, Deciding
  <2> QED BY <1>16, <2>1, <2>2 DEF PcIdle
<1>17. CASE PcOff(avail)
  BY <1>17, MoveFacts DEF PcOff, Deciding, PhaseInv
<1> QED BY ZenonT(40), <1>2, <1>3, <1>4, <1>5, <1>6, <1>7, <1>8, <1>9, <1>10, <1>11, <1>12,
           <1>13, <1>14, <1>15, <1>16, <1>17 DEF PcStep

\* The first three conjuncts of PhaseInv are kept by every step, and the phases
\* around bus-off follow each other as stated.
PhaseStep ==
  /\ is_txt_locked' => \/ pc_state' = "sof_preset"
                       \/ pc_state' \in {"frame", "err_preset"} /\ op_state' = "transciever"
  /\ "lock" \in txt_hw_cmd' => pc_state' \in {"sof_preset", "frame"}
  /\ "unlock" \in txt_hw_cmd' => pc_state' \in {"interm", "frame", "err_flag"} /\ gap' = MinGap
  /\ pc_state = "err_flag" => pc_state' \in {"err_flag", "err_preset", "err_delim", "off"}
  /\ pc_state = "err_delim" => pc_state' \in {"err_delim", "overload", "interm"}
  /\ pc_state' = "off" => \/ pc_state = "err_flag" /\ bus_off
                          \/ /\ pc_state = "off" /\ GapStep
                             /\ op_state = "integrating" /\ op_state' # "integrating" => gap = 0

LEMMA PhaseSteps ==
  ASSUME Undisturbed, CmdInv, EnabledInv, PhaseInv, NEW avail, PcStep(avail, FALSE)
  PROVE  PhaseStep
<1> USE DEF PhaseStep, PhaseInv
<1>1. CASE PcDisabled \/ PcAbortTran(FALSE)
  BY <1>1 DEF PcDisabled, PcAbortTran, EnabledInv
<1>2. CASE PcError
  BY <1>2 DEF PcError, PcMove, NoCmd
<1>3. CASE PcSof(avail)
  BY <1>3 DEF PcSof, Lock, NoCmd
<1>4. CASE PcSofReceiver \/ PcFrame
  BY <1>4 DEF PcSofReceiver, PcFrame, PcMove, NoCmd
<1>5. CASE PcArbitrationLost
  BY <1>5 DEF PcArbitrationLost, Attempt, Unlocked
<1>6. CASE PcEof
  BY <1>6 DEF PcEof, PcMove, NoCmd, Unlocked
<1>7. CASE PcEofDominant
  BY <1>7 DEF PcEofDominant, PcMove, NoCmd, Undisturbed
<1>8. CASE PcErrorPreset
  BY <1>8 DEF PcErrorPreset, Attempt, Unlocked, PcMove, NoCmd
<1>9. CASE PcErrorFlag(avail)
  BY <1>9 DEF PcErrorFlag, PcMove, NoCmd
<1>10. CASE PcErrorDelim(avail)
  BY <1>10 DEF PcErrorDelim, PcMove, NoCmd
<1>11. CASE PcOverload(avail)
  BY <1>11 DEF PcOverload, PcMove, NoCmd
<1>12. CASE PcInterm(avail)
  BY <1>12 DEF PcInterm, PcMove, NoCmd
<1>13. CASE PcIdle(avail)
  BY <1>13 DEF PcIdle, Lock, PcMove, NoCmd
<1>14. CASE PcOff(avail)
  BY <1>14 DEF PcOff, PcMove, NoCmd, OpAfter
<1> QED BY ZenonT(40), <1>1, <1>2, <1>3, <1>4, <1>5, <1>6, <1>7, <1>8, <1>9, <1>10, <1>11, <1>12,
           <1>13, <1>14 DEF PcStep

LEMMA PhaseKeeps ==
  ASSUME TypeOK, PhaseInv, PhaseStep, FaultStep
  PROVE  PhaseInv'
<1>1. bus_off_start' => pc_state \in {"err_flag", "err_delim"}
  BY ZenonT(40) DEF FaultStep
<1>2. ASSUME pc_state' = "off", ~bus_off', op_state' # "integrating" PROVE gap' = 0
  <2>1. gap = 0 /\ GapStep
    <3>1. \/ ~bus_off
          \/ pc_state \in {"off", "idle"} /\ gap = 0
      BY <1>2, ZenonT(40) DEF FaultStep
    <3>2. pc_state = "off" /\ GapStep
      BY <1>2, <3>1 DEF PhaseStep
    <3>3. op_state = "integrating" => gap = 0
      BY <1>2, <3>2 DEF PhaseStep
    <3> QED BY <3>1, <3>2, <3>3 DEF PhaseInv
  <2> QED BY <2>1 DEF GapStep
<1> QED BY <1>1, <1>2 DEF PhaseStep, PhaseInv

-----------------------------------------------------------------------------
(* The buffers and the arbitrator.                                         *)

LEMMA ReadyStays ==
  ASSUME TypeOK, NEW cmd, NEW bufs, NEW abort_tran, NEW written, ~abort_applied(cmd),
         Clock(cmd, bufs, abort_tran, written)
  PROVE  /\ bus_off_start => NoneReady'
         /\ ~bus_off_start /\ "lock" \notin txt_hw_cmd =>
              \A b \in Buf : txt_state[b] = "txt_ready" => txt_state'[b] = "txt_ready"
<1>1. \A b \in Buf :
        txt_state'[b] = buf_fsm(txt_state[b], SwTo(cmd, bufs, b), HwTo(b), bus_off_start)
  BY DEF Clock
<1>2. \A b : ~abort_applied(SwTo(cmd, bufs, b))
  BY DEF SwTo, abort_applied
<1>3. "lock" \notin txt_hw_cmd => \A b : "lock" \notin HwTo(b)
  BY DEF HwTo
<1>4. bus_off_start => NoneReady'
  BY <1>1 DEF buf_fsm, NoneReady
<1>5. ASSUME ~bus_off_start, "lock" \notin txt_hw_cmd,
             NEW b \in Buf, txt_state[b] = "txt_ready"
      PROVE  txt_state'[b] = "txt_ready"
  BY ZenonT(40), <1>1, <1>2, <1>3, <1>5 DEF buf_fsm, FsmStep, FromReady
<1> QED BY <1>4, <1>5

\* What a step of the arbitrator does with the committed buffer, if no buffer
\* is locked or about to be locked.
LEMMA SelectingStep ==
  ASSUME TypeOK, CmdInv, EnabledInv, NEW avail \in BOOLEAN, NEW index \in Buf, NEW written,
         Selecting, ArbStep(avail, index), Captured(avail, index, written)
  PROVE  /\ tx_arb_fsm' # "arb_locked"
         /\ \/ tran_frame_valid_com' = FALSE /\ UNCHANGED int_txtb_index
            \/ avail /\ int_txtb_index' = index /\ md_of' = {index} \ written
            \/ /\ avail /\ UNCHANGED <<int_txtb_index, tran_frame_valid_com>>
               /\ Remaining > 1 /\ Remaining' = Remaining - 1
         /\ \/ md_of' = md_of \ written
            \/ avail /\ int_txtb_index' = index /\ md_of' = {index} \ written
         /\ ~avail => tran_frame_valid_com' = FALSE
<1> USE DEF Remaining
<1>1. tx_arb_fsm \in ArbState /\ fsm_wait_state \in BOOLEAN /\ frame_due[index] = TRUE
  BY DEF TypeOK, EnabledInv
<1>2. CASE ArbUnlock \/ ArbHold \/ ArbLock
  BY <1>2 DEF ArbUnlock, ArbHold, ArbLock, Selecting, tx_arb_locked
<1>3. CASE ArbRestart(avail, index)
  <2>1. ~Stable(avail, index)
    BY <1>3, ZenonT(40) DEF ArbRestart, Stable
  <2> QED BY <1>3, <2>1 DEF ArbRestart, Captured
<1>4. CASE ArbWait(avail, index)
  <2>1. fsm_wait_state /\ ~fsm_wait_state' /\ tx_arb_fsm' = tx_arb_fsm /\ avail
        /\ tx_arb_fsm # "arb_locked" /\ UNCHANGED <<int_txtb_index, tran_frame_valid_com>>
    BY <1>1, <1>4, ZenonT(40) DEF ArbWait, Stable, Selecting, timestamp_valid
  <2>2. md_of' = md_of \ written
    BY <2>1, ZenonT(40) DEF Captured
  <2> QED BY <1>1, <2>1, <2>2
<1>5. CASE ArbStoreLow(avail, index)
  <2>1. /\ ~fsm_wait_state /\ fsm_wait_state' /\ avail
        /\ tx_arb_fsm = "arb_sel_low_ts" /\ tx_arb_fsm' = "arb_sel_upp_ts"
        /\ UNCHANGED <<int_txtb_index, tran_frame_valid_com>>
    BY <1>5, ZenonT(40) DEF ArbStoreLow, Stable
  <2>2. md_of' = md_of \ written
    BY <2>1 DEF Captured
  <2> QED BY <2>1, <2>2
<1>6. CASE ArbTimestampValid(avail, index)
  <2>1. /\ ~fsm_wait_state /\ fsm_wait_state' /\ avail
        /\ tx_arb_fsm = "arb_sel_upp_ts" /\ tx_arb_fsm' = "arb_sel_ffw"
        /\ UNCHANGED <<int_txtb_index, tran_frame_valid_com>>
    BY <1>6, ZenonT(40) DEF ArbTimestampValid, Stable
  <2>2. md_of' = md_of \ written
    BY <2>1 DEF Captured
  <2> QED BY <2>1, <2>2
<1>7. CASE ArbCommit(avail, index)
  BY <1>7 DEF ArbCommit, Stable, Captured
<1> QED BY ZenonT(40), <1>2, <1>3, <1>4, <1>5, <1>6, <1>7 DEF ArbStep

LEMMA ClockCommit ==
  ASSUME Undisturbed, TypeOK, CmdInv, LockAgreement, LockInv,
         NEW cmd, NEW bufs, NEW written \in SUBSET Buf, ~abort_applied(cmd),
         \A b \in written : txtb_user_accessible(txt_state[b]),
         Clock(cmd, bufs, FALSE, written)
  PROVE  PhaseInv' /\ CommitInv' /\ MetadataOfLockedBuffer'
<1> DEFINE avail == select_buf_avail(cmd, bufs)
           index == select_buf_index(cmd, bufs)
<1>1. /\ ArbStep(avail, index) /\ Captured(avail, index, written)
      /\ PcStep(avail, FALSE) /\ FaultStep
  BY ZenonT(40) DEF Clock
<1>2. /\ avail \in BOOLEAN /\ index \in Buf
      /\ avail => txt_state[index] = "txt_ready" /\ index \notin written
  <2>1. avail => txt_state[index] = "txt_ready"
    BY SelectType
  <2>2. txt_state[index] = "txt_ready" => index \notin written
    BY DEF txtb_user_accessible
  <2>3. avail \in BOOLEAN
    <3>1. prio \in [Buf -> Prio] /\ ready(cmd, bufs) \in SUBSET Buf
      BY TxPathAssumption DEF TypeOK, ready
    <3> QED BY ZenonT(40), <3>1, RootSummary DEF select_buf_avail, OutputValid, Summary, Node
  <2> QED BY <2>1, <2>2, <2>3, SelectType
<1> HIDE DEF avail, index
<1>3. PcFacts(avail) /\ PhaseStep
  BY ZenonT(40), <1>1, StepFacts, PhaseSteps DEF LockInv
<1>4. PhaseInv'
  BY <1>1, <1>3, PhaseKeeps DEF LockInv
<1>5. \A b \in Buf : txt_state[b] \in {"txt_ready"} \cup InProgress => b \notin written
  BY DEF txtb_user_accessible
<1>6. gap \in Nat /\ gap' \in Nat /\ MinGap \in Nat /\ MinGap >= 6 /\ gap' >= gap - 1
      /\ int_txtb_index \in Buf
  <2>1. PcType'
    BY ZenonT(40), ClockType
  <2> QED BY <1>3, <2>1, TxPathAssumption DEF PcFacts, PcType, TypeOK, Undisturbed
<1>7. ASSUME "lock" \in txt_hw_cmd' PROVE Current'
  <2>1. pc_state \in Deciding /\ ~is_txt_locked /\ tran_frame_valid_out(avail)
    BY <1>3, <1>7 DEF PcFacts
  <2>2. "lock" \notin txt_hw_cmd /\ "unlock" \notin txt_hw_cmd /\ ~bus_off_start
    BY <2>1 DEF CmdInv, LockInv, PhaseInv, Deciding
  <2>3. tx_arb_fsm # "arb_locked" /\ Selecting
    BY <2>1, <2>2 DEF LockAgreement, Selecting
  <2>4. avail /\ tran_frame_valid_com
    BY <2>1, <2>3 DEF tran_frame_valid_out, tx_arb_locked
  <2>5. Current
    <3>1. ~NoneReady /\ ~Outrun
      BY <1>2, <2>1, <2>4 DEF NoneReady, Outrun
    <3> QED BY <2>2, <2>3, <2>4, <3>1 DEF LockInv, CommitInv
  <2>6. \/ UNCHANGED int_txtb_index /\ md_of' = md_of \ written
        \/ int_txtb_index' = index /\ md_of' = {index} \ written
    BY ZenonT(40), <1>1, <1>2, <2>3, SelectingStep DEF LockInv
  <2>7. \A b \in Buf : txt_state[b] = "txt_ready" => txt_state'[b] = "txt_ready"
    BY ZenonT(40), <2>2, ReadyStays
  <2> QED BY <1>2, <1>5, <1>6, <2>4, <2>5, <2>6, <2>7 DEF Current
<1>8. ASSUME tx_arb_fsm' # "arb_locked", tran_frame_valid_com'
      PROVE  Current' \/ NoneReady' \/ Outrun'
  <2>1. CASE tx_arb_fsm = "arb_locked"
    <3>1. "unlock" \in txt_hw_cmd /\ tx_arb_fsm' = "arb_sel_low_ts" /\ fsm_wait_state'
      BY ZenonT(40), <1>1, <1>8, <2>1 DEF ArbStep, ArbUnlock, ArbHold, ArbLock, ArbRestart, ArbWait,
            ArbStoreLow, ArbTimestampValid, ArbCommit, Stable, Selecting, tx_arb_locked
    <3>2. pc_state \in {"interm", "frame", "err_flag"} /\ gap = MinGap
      BY <3>1 DEF LockInv, PhaseInv
    <3>3. pc_state' \notin Deciding
      BY <1>3, <1>6, <3>2 DEF PcFacts, Deciding
    <3>4. Remaining' = 6
      BY <3>1 DEF Remaining
    <3>5. 6 <= gap' + 1
      <4>1. \A m, h \in Nat : m >= 6 /\ h >= m - 1 => 6 <= h + 1
        OBVIOUS
      <4>2. gap' >= MinGap - 1
        BY <1>6, <3>2, ZenonT(40)
      <4> QED BY ZenonT(40), <1>6, <4>1, <4>2
    <3>6. Remaining' <= gap' + 1
      BY <3>4, <3>5, ZenonT(40)
    <3> QED BY <3>3, <3>6 DEF Outrun
  <2>2. CASE tx_arb_fsm # "arb_locked"
    <3>1. "lock" \notin txt_hw_cmd /\ Selecting
      BY ZenonT(40), <1>1, <1>8, <2>2 DEF ArbStep, ArbUnlock, ArbHold, ArbLock, ArbRestart, ArbWait,
            ArbStoreLow, ArbTimestampValid, ArbCommit, Stable, Selecting, tx_arb_locked
    <3>2. CASE bus_off_start
      BY ZenonT(40), <3>2, ReadyStays
    <3>3. CASE ~bus_off_start
      <4>1. \A b \in Buf : txt_state[b] = "txt_ready" => txt_state'[b] = "txt_ready"
        BY ZenonT(40), <3>1, <3>3, ReadyStays
      <4>2. CASE avail /\ int_txtb_index' = index /\ md_of' = {index} \ written
        BY ZenonT(40), <1>2, <4>1, <4>2 DEF Current
      <4>3. CASE /\ avail /\ UNCHANGED <<int_txtb_index, tran_frame_valid_com>>
                 /\ Remaining > 1 /\ Remaining' = Remaining - 1
                 /\ md_of' = md_of \ written
        <5>1. Current \/ NoneReady \/ Outrun
          BY <1>8, <2>2, <3>1, <4>3 DEF LockInv, CommitInv
        <5>2. ~NoneReady
          BY <1>2, <4>3 DEF NoneReady
        <5>3. CASE Current
          BY <1>5, <1>6, <4>1, <4>3, <5>3 DEF Current
        <5>4. CASE Outrun
          <6>1. Remaining \in Nat
            BY DEF Remaining
          <6>2. pc_state' \notin Deciding
            BY <1>3, <1>6, <4>3, <5>4, <6>1 DEF Outrun, PcFacts
          <6>3. Remaining' <= gap' + 1
            <7>1. \A r, g, h \in Nat : r <= g + 1 /\ h >= g - 1 => r - 1 <= h + 1
              OBVIOUS
            <7>2. Remaining <= gap + 1
              BY <5>4 DEF Outrun
            <7>3. Remaining - 1 <= gap' + 1
              BY ZenonT(40), <1>6, <6>1, <7>1, <7>2
            <7> QED BY <4>3, <7>3, ZenonT(40)
          <6> QED BY <6>2, <6>3 DEF Outrun
        <5> QED BY <5>1, <5>2, <5>3, <5>4
      <4> QED BY ZenonT(40), <1>1, <1>2, <1>8, <3>1, <4>2, <4>3, SelectingStep DEF LockInv
    <3> QED BY <3>2, <3>3 DEF TypeOK
  <2> QED BY <2>1, <2>2
<1>9. ASSUME NEW b \in Buf, txt_state'[b] \in InProgress PROVE md_of' = {b}
  <2>1. txt_state'[b] = buf_fsm(txt_state[b], SwTo(cmd, bufs, b), HwTo(b), bus_off_start)
    BY DEF Clock
  <2>2. "unlock" \in HwTo(b) => HwTo(b) \cap {"err", "arbl", "failed", "valid"} # {}
    BY DEF HwTo, CmdInv
  <2>3. \/ txt_state[b] = "txt_ready" /\ "lock" \in HwTo(b)
        \/ txt_state[b] \in InProgress /\ "unlock" \notin HwTo(b)
    <3> HIDE DEF CmdInv
    <3> QED BY <1>9, <2>1, <2>2, BufFsmInProgress DEF TypeOK
  <2>4. md_of = {b} /\ ~Selecting
    <3>1. CASE txt_state[b] = "txt_ready" /\ "lock" \in HwTo(b)
      BY <3>1 DEF HwTo, LockInv, CommitInv, Current, Selecting
    <3>2. CASE txt_state[b] \in InProgress
      BY <3>2 DEF LockInv, MetadataOfLockedBuffer, LockAgreement, Selecting
    <3> QED BY <2>3, <3>1, <3>2
  <2>5. b \notin written
    BY <1>5, <2>3
  <2> QED BY <1>1, <2>4, <2>5 DEF Captured, Stable
<1> QED BY <1>4, <1>7, <1>8, <1>9 DEF CommitInv, MetadataOfLockedBuffer

-----------------------------------------------------------------------------
\* In an undisturbed system the argument holds in every cycle.
THEOREM TxLockInvariant ==
  ASSUME Undisturbed
  PROVE  Spec => []LockInv
<1>1. Init => LockInv
  <2> SUFFICES ASSUME Init PROVE LockInv
    OBVIOUS
  <2>1. EnabledInv
    BY DEF Init, EnabledInv
  <2>2. PhaseInv
    BY DEF Init, PhaseInv, NoCmd
  <2>3. CommitInv /\ MetadataOfLockedBuffer
    BY DEF Init, CommitInv, MetadataOfLockedBuffer, InProgress, NoCmd
  <2> QED BY <2>1, <2>2, <2>3 DEF LockInv
<1>2. TypeOK /\ CmdInv /\ LockAgreement /\ LockInv /\ [Next]_vars => LockInv'
  <2> SUFFICES ASSUME TypeOK, CmdInv, LockAgreement, LockInv, [Next]_vars PROVE LockInv'
    OBVIOUS
  <2>1. CASE Next
    <3>1. EnabledInv
      BY DEF LockInv
    <3> QED BY ZenonT(40), <2>1, <3>1, QuietClock, ClockCommit DEF LockInv
  <2>2. CASE UNCHANGED vars
    BY <2>2 DEF vars, arb_vars, pc_vars, LockInv, EnabledInv, PhaseInv, CommitInv, Current,
                NoneReady, Outrun, Remaining, MetadataOfLockedBuffer
  <2> QED BY <2>1, <2>2
<1> QED BY <1>1, <1>2, TxPathTypeCorrect, TxPathLocksAgree, PTL DEF Spec

\* Protocol control locks only a buffer that is ready: the committed index and
\* valid flag of a finished transmission (tx_arbitrator.vhd:418) are replaced
\* before the intermission ends.
THEOREM TxPathLocksReady ==
  ASSUME Undisturbed
  PROVE  Spec => []LockOnlyInReady
<1>1. LockInv => LockOnlyInReady
  BY DEF LockInv, CommitInv, Current, LockOnlyInReady
<1> QED BY <1>1, TxLockInvariant, PTL

\* The frame on the bus has the frame format word of the buffer it is sent
\* from, although priorities change and software fills buffers at any cycle.
THEOREM TxPathMetadata ==
  ASSUME Undisturbed
  PROVE  Spec => []MetadataOfLockedBuffer
<1>1. LockInv => MetadataOfLockedBuffer
  BY DEF LockInv
<1> QED BY <1>1, TxLockInvariant, PTL
=============================================================================
