--------------------------- MODULE DriverRxProofs ---------------------------
(***************************************************************************)
(* Proofs about the receive side of the driver, for every size of the RX   *)
(* FIFO, quota, number of rounds of the handler and combination of events. *)
(***************************************************************************)
EXTENDS DriverRx, Integers, TLAPS

\* The time limits, in seconds, of the leaves that name no prover.
USE SMTT(40), ZenonT(40)

CtlSteps == {"closed", "reset", "flag", "ena", "failed", "started", "up",
             "c_napi", "c_dis", "c_flag", "c_irq", "c_candev"}
RstSteps == {"none", "reset", "flag", "ena"}

\* The program counters are a function, which TypeOK leaves open.
PcType ==
  /\ pc \in [{"ctl", "rst"} -> CtlSteps \cup RstSteps]
  /\ pc["ctl"] \in CtlSteps /\ pc["rst"] \in RstSteps

\* TypeOK in two parts, the flags and the rest: the provers that know flags
\* know no arithmetic.
Flags ==
  /\ dor \in BOOLEAN /\ ena \in BOOLEAN /\ rx_sched \in BOOLEAN
  /\ ffw_buffered \in BOOLEAN /\ missed \in BOOLEAN /\ irq \in BOOLEAN
  /\ stale \in BOOLEAN

Fields ==
  /\ units \in 0..(2 * FifoFrames)
  /\ int_stat \subseteq Sources /\ int_ena \subseteq Sources /\ bits \subseteq Sources
  /\ napi \in {"off", "idle", "sched", "poll"}
  /\ isr \in {"idle", "read", "test", "rb_clr", "rb_dis", "rb_flag", "rb_napi",
              "epi", "loop", "stuck"}
  /\ irq_loops \in 0..IrqLoops
  /\ poll \in {"idle", "count", "ffw", "rest", "extra", "dor", "cdo", "complete"}
  /\ left \in 0..FifoFrames /\ work_done \in 0..(Quota + FifoFrames - 1)
  /\ tail \in {"none", "flag", "clr", "ena"}

\* A round of the poll has frames left, and its work stays below the quota
\* before the round.
RoundBounded ==
  poll \in {"ffw", "rest", "extra"} =>
    left >= 1 /\ work_done + left <= Quota + FifoFrames - 1

\* The frames of the round are in the FIFO, up to the first word of one, or to
\* a frame that has been read.
RoundInFifo ==
  ~stale => /\ poll \in {"ffw", "rest"} => units >= 2 * left - 1
            /\ poll = "extra" => units >= 2 * left - 2

\* In the middle of a frame no first word is kept.
WordUsed == poll \in {"rest", "extra"} => ~ffw_buffered

IInv == Fields /\ PcType /\ RoundBounded /\ RoundInFifo /\ WordUsed /\ FramesAligned

-----------------------------------------------------------------------------
\* The driver reads as many frames as the FIFO holds, and no more.
LEMMA FrameCount ==
  ASSUME NEW u \in Nat, NEW f \in Nat, u <= 2 * f
  PROVE  /\ (u + 1) \div 2 \in 0..f
         /\ u >= 2 * ((u + 1) \div 2) - 1
  OBVIOUS

\* Reading a unit of a FIFO that is not empty changes the parity.
LEMMA UnitRead ==
  ASSUME NEW u \in Nat
  PROVE  /\ Minus1(u) \in Nat /\ Minus1(u) <= u
         /\ u > 0 => Minus1(u) = u - 1 /\ (Minus1(u) % 2 = 1 <=> u % 2 = 0)
         /\ (u % 2 = 1 => u > 0)
  BY DEF Minus1

LEMMA Parity ==
  ASSUME NEW u \in Nat
  PROVE  (u + 2) % 2 = u % 2 /\ 0 % 2 = 0
  OBVIOUS

LEMMA InitFlags == Init => Flags
  BY ZenonT(40) DEF Init, Flags

\* No step gives a flag another value than TRUE and FALSE.
LEMMA FlagsKept == Flags /\ [Next]_vars => Flags'
  <1> SUFFICES ASSUME Flags, [Next]_vars PROVE Flags'
    OBVIOUS
  <1> USE DEF Flags, coreVars, napiVars
  <1>1. CASE Core
    BY <1>1, ZenonT(40) DEF Core, Receive, OtherSource
  <1>2. CASE IsrStep
    <2>1. CASE IsrRbNapi
      BY <2>1, ZenonT(40) DEF IsrRbNapi, IsrRest, napi_schedule
    <2>2. CASE IsrRbFlag
      BY <2>2, ZenonT(40) DEF IsrRbFlag, IsrRest
    <2>3. CASE IsrRead \/ IsrTest \/ IsrLoop
      BY <2>3, ZenonT(40) DEF IsrRead, IsrTest, IsrLoop, IsrRest
    <2>4. CASE IsrRbClr \/ IsrRbDis \/ IsrOther \/ IsrStuck
      BY <2>4, ZenonT(40) DEF IsrRbClr, IsrRbDis, IsrOther, IsrStuck, IsrRest
    <2> QED BY <1>2, <2>1, <2>2, <2>3, <2>4 DEF IsrStep
  <1>3. CASE PollStep
    <2>1. CASE PollStart \/ PollCount \/ PollDor \/ PollCdo
      BY <2>1, ZenonT(40) DEF PollStart, PollCount, PollDor, PollCdo, PollRest
    <2>2. CASE RxFfw(TRUE) \/ RxFfw(FALSE) \/ RxFrame \/ RxExtra
      BY <2>2, ZenonT(40) DEF RxFfw, RxFrame, RxExtra, PollRest
    <2>3. CASE PollComplete
      BY <2>3, ZenonT(40) DEF PollComplete, PollRest
    <2> QED BY ZenonT(40), <1>3, <2>1, <2>2, <2>3 DEF PollStep
  <1>4. CASE TailStep
    BY <1>4, ZenonT(40) DEF TailStep, TailFlag, TailClr, TailEna, TailRest
  <1>5. ASSUME NEW p \in {"ctl", "rst"}, ChipStart(p) PROVE Flags'
    <2>1. CASE ChipReset(p)
      BY <2>1, ZenonT(40) DEF ChipReset, ChipRest
    <2>2. CASE ChipFlag(p) \/ ChipEnable(p)
      BY <2>2, ZenonT(40) DEF ChipFlag, ChipEnable, ChipRest
    <2> QED BY <1>5, <2>1, <2>2 DEF ChipStart
  <1>6. CASE Open \/ Close \/ OpenFailed \/ OpenNapi
    BY <1>6, ZenonT(40) DEF Open, Close, OpenFailed, OpenNapi, CtlRest
  <1>7. CASE CloseNapi \/ ChipStop \/ ChipStopFlag \/ CloseIrq \/ CloseCandev
    BY <1>7, ZenonT(40) DEF CloseNapi, ChipStop, ChipStopFlag, CloseIrq, CloseCandev, CtlRest
  <1>8. CASE UNCHANGED vars
    BY <1>8, ZenonT(40) DEF vars
  <1> QED
    BY <1>1, <1>2, <1>3, <1>4, <1>5, <1>6, <1>7, <1>8 DEF Next, CtlStep, RstStep

LEMMA InitIInv == Init => IInv
  <1> SUFFICES ASSUME Init PROVE IInv
    OBVIOUS
  <1>1. Fields
    BY DriverRxAssumption DEF Init, Fields, Sources
  <1>2. PcType
    BY DEF Init, PcType, CtlSteps, RstSteps
  <1>3. RoundBounded /\ RoundInFifo /\ WordUsed /\ FramesAligned
    BY Parity DEF Init, RoundBounded, RoundInFifo, WordUsed, FramesAligned
  <1> QED BY <1>1, <1>2, <1>3 DEF IInv

-----------------------------------------------------------------------------
\* What every step but those of the FIFO leaves alone.
FifoSame == UNCHANGED <<units, ffw_buffered, pollVars, stale>>

LEMMA FifoSameKeeps ==
  ASSUME FifoSame, RoundBounded, RoundInFifo, WordUsed, FramesAligned
  PROVE  RoundBounded' /\ RoundInFifo' /\ WordUsed' /\ FramesAligned'
  BY DEF FifoSame, pollVars, RoundBounded, RoundInFifo, WordUsed, FramesAligned

LEMMA CoreKeeps == IInv /\ Core => IInv'
  <1> SUFFICES ASSUME IInv, Core PROVE IInv'
    OBVIOUS
  <1> USE DEF IInv, coreVars, napiVars, isrVars, pollVars
  <1>1. CASE Receive
    <2>0. /\ UNCHANGED <<int_ena, napi, isrVars, pollVars, tail>>
          /\ UNCHANGED <<pc, ffw_buffered, stale>>
      BY <1>1 DEF Receive
    <2>1. /\ units' \in 0..(2 * FifoFrames) /\ units' >= units /\ units' % 2 = units % 2
          /\ int_stat' \subseteq Sources
      <3>1. CASE units + 2 <= 2 * FifoFrames
        <4>1. units' = units + 2 /\ int_stat' = int_stat \cup {"rbnei"}
          BY <1>1, <3>1, ZenonT(40) DEF Receive
        <4>2. units \in Nat
          BY DEF Fields
        <4> QED BY <3>1, <4>1, <4>2, Parity, DriverRxAssumption DEF Fields, Sources
      <3>2. CASE ~(units + 2 <= 2 * FifoFrames)
        <4>1. UNCHANGED <<units, int_stat>>
          BY <1>1, <3>2, ZenonT(40) DEF Receive
        <4> QED BY <4>1 DEF Fields
      <3> QED BY <3>1, <3>2
    <2>2. Fields'
      BY <2>0, <2>1 DEF Fields
    <2>3. PcType'
      BY <2>0 DEF PcType
    <2>4. RoundBounded' /\ WordUsed' /\ FramesAligned'
      BY ZenonT(40), <2>0, <2>1 DEF RoundBounded, WordUsed, FramesAligned
    <2>5. RoundInFifo'
      BY <2>0, <2>1 DEF Fields, RoundInFifo
    <2> QED BY <2>2, <2>3, <2>4, <2>5
  <1>2. CASE OtherSource
    <2>1. Fields' /\ PcType' /\ FifoSame
      BY <1>2 DEF OtherSource, Fields, PcType, Sources, FifoSame
    <2> QED BY <2>1, FifoSameKeeps
  <1> QED BY <1>1, <1>2 DEF Core

LEMMA IsrKeeps == IInv /\ IsrStep => IInv'
  <1> SUFFICES ASSUME IInv, IsrStep PROVE IInv'
    OBVIOUS
  <1> USE DEF IInv, coreVars, napiVars, isrVars, pollVars, IsrRest
  <1>1. FifoSame
    BY DEF IsrStep, IsrRead, IsrTest, IsrRbClr, IsrRbDis, IsrRbFlag, IsrRbNapi,
           IsrOther, IsrLoop, IsrStuck, FifoSame
  <1>2. PcType'
    <2>1. CASE UNCHANGED pc
      BY <2>1 DEF PcType
    <2>2. CASE pc' = [pc EXCEPT !["rst"] = "reset"]
      BY <2>2 DEF PcType, RstSteps
    <2> QED
      BY <2>1, <2>2 DEF IsrStep, IsrRead, IsrTest, IsrRbClr, IsrRbDis, IsrRbFlag,
                        IsrRbNapi, IsrOther, IsrLoop, IsrStuck
  <1>3. Fields'
    <2> USE DEF Fields
    <2> PcType'
      BY <1>2
    <2> USE DEF PcType, CtlSteps, RstSteps
    <2>1. CASE IsrRead
      BY <2>1 DEF IsrRead
    <2>2. CASE IsrTest
      BY <2>2, DriverRxAssumption DEF IsrTest, FirstFor
    <2>3. CASE IsrRbClr
      BY <2>3 DEF IsrRbClr, Cleared, Level, Sources
    <2>4. CASE IsrRbDis
      BY <2>4 DEF IsrRbDis
    <2>5. CASE IsrRbFlag
      BY <2>5 DEF IsrRbFlag
    <2>6. CASE IsrRbNapi
      BY <2>6 DEF IsrRbNapi, napi_schedule
    <2>7. CASE IsrOther
      BY <2>7 DEF IsrOther, Cleared, Level, Sources
    <2>8. CASE IsrLoop
      BY <2>8, DriverRxAssumption DEF IsrLoop
    <2>9. CASE IsrStuck
      BY <2>9 DEF IsrStuck
    <2> QED BY <2>1, <2>2, <2>3, <2>4, <2>5, <2>6, <2>7, <2>8, <2>9 DEF IsrStep
  <1> QED BY <1>1, <1>2, <1>3, FifoSameKeeps

\* Reading takes units from the FIFO and adds none.
LEMMA Reads ==
  ASSUME units \in Nat
  PROVE  \A u \in WordRead \cup RestRead : u \in Nat /\ u <= units
  BY UnitRead DEF WordRead, RestRead

LEMMA RoundEnds ==
  ASSUME Fields, RoundBounded, poll \in {"ffw", "rest", "extra"}, RoundDone
  PROVE  /\ left' \in 0..FifoFrames /\ work_done' \in 0..(Quota + FifoFrames - 1)
         /\ poll' \in {"ffw", "count"} /\ RoundBounded'
  BY DriverRxAssumption DEF RoundDone, RoundBounded, Fields

LEMMA PollKeeps == IInv /\ PollStep => IInv'
  <1> SUFFICES ASSUME IInv, PollStep PROVE IInv'
    OBVIOUS
  <1> USE DEF IInv, coreVars, napiVars, isrVars, PollRest
  <1>0. PcType'
    BY DEF PollStep, PollStart, PollCount, RxFfw, RxFrame, RxExtra, PollDor, PollCdo,
           PollComplete, PcType
  <1>1. CASE PollStart
    BY <1>0, <1>1 DEF PollStart, Fields, RoundBounded, RoundInFifo, WordUsed, FramesAligned
  <1>2. CASE PollCount
    <2>1. framecnt \in 0..FifoFrames /\ units >= 2 * framecnt - 1
      BY FrameCount, DriverRxAssumption DEF Fields, framecnt
    <2>2. Fields'
      BY <1>2, <2>1 DEF PollCount, Fields
    <2>3. RoundBounded'
      BY <1>2, <2>1, DriverRxAssumption DEF PollCount, Fields, RoundBounded
    <2>4. RoundInFifo'
      BY <1>2, <2>1 DEF PollCount, Fields, RoundInFifo
    <2>6. /\ poll' \in {"ffw", "dor"} /\ poll = "count" /\ UNCHANGED <<units, ffw_buffered>>
          /\ ~stale' => ~stale \/ (~(units > 0) /\ ~ffw_buffered)
      <3>1. poll' \in {"ffw", "dor"} /\ poll = "count" /\ UNCHANGED <<units, ffw_buffered>>
        BY <1>2 DEF PollCount
      <3>2. stale' = (stale /\ (units > 0 \/ ffw_buffered))
        BY <1>2 DEF PollCount
      <3> QED BY ZenonT(40), <3>1, <3>2
    <2>7. ~(units > 0) => units % 2 = 0
      BY DEF Fields
    <2>5. WordUsed' /\ FramesAligned'
      BY <2>6, <2>7 DEF WordUsed, FramesAligned
    <2> QED BY <1>0, <2>2, <2>3, <2>4, <2>5
  <1>3. ASSUME NEW memory \in BOOLEAN, RxFfw(memory)
        PROVE  IInv'
    <2>1. /\ units' \in 0..(2 * FifoFrames)
          /\ ~stale => /\ units' % 2 = 1
                       /\ units' >= 2 * left - 1
      <3>1. CASE ffw_buffered
        BY <1>3, <3>1 DEF RxFfw, Fields, RoundInFifo, WordUsed, FramesAligned
      <3>2. CASE ~ffw_buffered
        <4>1. units' \in WordRead /\ poll = "ffw"
          BY <1>3, <3>2 DEF RxFfw
        <4>2. units' \in 0..(2 * FifoFrames)
          BY <4>1, Reads, DriverRxAssumption DEF Fields
        <4>3. ASSUME ~stale PROVE units' % 2 = 1 /\ units' >= 2 * left - 1
          <5>1. units % 2 # 1 /\ units >= 2 * left - 1 /\ left >= 1
            BY <3>2, <4>1, <4>3 DEF RoundInFifo, RoundBounded, FramesAligned
          <5>2. units % 2 = 0 /\ units >= 2 * left /\ units > 0
            BY <5>1 DEF Fields
          <5>3. units' = Minus1(units) /\ units \in Nat
            BY <4>1, <5>2 DEF Fields, WordRead
          <5>4. units' = units - 1 /\ units' % 2 = 1
            BY <5>2, <5>3, UnitRead
          <5> QED BY <5>2, <5>3, <5>4 DEF Fields
        <4> QED BY ZenonT(40), <4>2, <4>3
      <3> QED BY <3>1, <3>2 DEF Fields
    <2>2. /\ UNCHANGED stale
          /\ \/ poll' = "rest" /\ ffw_buffered' = FALSE /\ UNCHANGED <<left, work_done>>
             \/ poll' \in {"ffw", "count"} /\ ffw_buffered' = TRUE /\ RoundDone
      BY <1>3 DEF RxFfw, RoundDone
    <2>3. RoundBounded'
      BY <1>3, <2>2, DriverRxAssumption DEF RxFfw, RoundDone, RoundBounded, Fields
    <2>4. Fields'
      <3>1. left' \in 0..FifoFrames /\ work_done' \in 0..(Quota + FifoFrames - 1)
        BY <1>3, <2>2, DriverRxAssumption DEF RxFfw, RoundDone, RoundBounded, Fields
      <3> QED BY <1>3, <2>1, <2>2, <3>1 DEF RxFfw, Fields
    <2>5. RoundInFifo'
      BY <2>1, <2>2, DriverRxAssumption DEF RoundDone, RoundInFifo, Fields
    <2>6. WordUsed' /\ FramesAligned'
      BY ZenonT(40), <2>1, <2>2 DEF WordUsed, FramesAligned
    <2> QED BY <1>0, <2>3, <2>4, <2>5, <2>6
  <1>4. CASE RxFrame
    <2>1. poll = "rest" /\ units' \in RestRead /\ UNCHANGED <<ffw_buffered, stale>>
      BY <1>4 DEF RxFrame
    <2>2. units' \in 0..(2 * FifoFrames)
      BY <2>1, Reads, DriverRxAssumption DEF Fields
    <2>3. ~stale => /\ units' % 2 # 1 /\ units' >= 2 * left - 2
      BY <2>1, UnitRead DEF RestRead, Fields, RoundInFifo, WordUsed, FramesAligned
    <2>7. \/ RoundDone
          \/ poll' = "extra" /\ UNCHANGED <<left, work_done>>
      BY <1>4 DEF RxFrame
    <2>4. Fields' /\ RoundBounded'
      <3>1. UNCHANGED <<int_stat, int_ena, bits, napi, isr, irq_loops, tail>>
        BY <1>4 DEF RxFrame
      <3> QED BY <2>1, <2>2, <2>7, <3>1, RoundEnds
                 DEF Fields, RoundBounded
    <2>5. RoundInFifo'
      <3>1. left \in Nat /\ units' \in Nat
        BY <2>2 DEF Fields
      <3>2. units' >= 2 * left - 2 => units' >= 2 * (left - 1) - 1
        BY <3>1
      <3> QED BY <2>1, <2>3, <2>7, <3>2 DEF RoundDone, RoundInFifo
    <2>6. WordUsed' /\ FramesAligned'
      BY <2>1, <2>3, <2>7 DEF RoundDone, WordUsed, FramesAligned
    <2> QED BY <1>0, <2>4, <2>5, <2>6
  <1>7. CASE RxExtra
    <2>1. /\ poll = "extra" /\ units' \in RestRead /\ RoundDone /\ UNCHANGED ffw_buffered
          /\ ~stale' => ~stale /\ ~(units > 0)
      BY <1>7, ZenonT(40) DEF RxExtra
    <2>2. units' \in 0..(2 * FifoFrames)
      BY <2>1, Reads, DriverRxAssumption DEF Fields
    <2>3. Fields' /\ RoundBounded'
      <3>1. UNCHANGED <<int_stat, int_ena, bits, napi, isr, irq_loops, tail>>
        BY <1>7 DEF RxExtra
      <3> QED BY <2>1, <2>2, <3>1, RoundEnds DEF Fields, RoundBounded
    <2>4. ~stale' => units' = 0 /\ poll' = "count"
      BY <2>1 DEF RestRead, Minus1, RoundDone, Fields, RoundBounded, RoundInFifo
    <2>5. poll' \in {"ffw", "count"}
      BY <2>1 DEF RoundDone
    <2>6. RoundInFifo' /\ WordUsed' /\ FramesAligned'
      BY <2>1, <2>4, <2>5, Parity DEF RoundInFifo, WordUsed, FramesAligned
    <2> QED BY <1>0, <2>3, <2>6
  <1>5. CASE PollDor \/ PollCdo
    BY <1>0, <1>5 DEF PollDor, PollCdo, Fields, RoundBounded, RoundInFifo, WordUsed, FramesAligned
  <1>6. CASE PollComplete
    <2>1. Fields'
      BY <1>6, DriverRxAssumption DEF PollComplete, Fields
    <2> QED BY <1>0, <1>6, <2>1 DEF PollComplete, RoundBounded, RoundInFifo, WordUsed, FramesAligned
  <1> QED BY ZenonT(40), <1>1, <1>2, <1>3, <1>4, <1>5, <1>6, <1>7 DEF PollStep

LEMMA TailKeeps == IInv /\ TailStep => IInv'
  <1> SUFFICES ASSUME IInv, TailStep PROVE IInv'
    OBVIOUS
  <1>1. FifoSame /\ PcType'
    BY DEF IInv, TailStep, TailFlag, TailClr, TailEna, TailRest, FifoSame, PcType, pollVars
  <1>2. Fields'
    BY ZenonT(40) DEF IInv, TailStep, TailFlag, TailClr, TailEna, TailRest, Fields, Cleared, Level,
           Sources, napiVars, isrVars, pollVars
  <1> QED BY <1>1, <1>2, FifoSameKeeps DEF IInv

LEMMA ChipKeeps ==
  ASSUME IInv, NEW p \in {"ctl", "rst"}, ChipStart(p)
  PROVE  IInv'
  <1> USE DEF IInv, coreVars, napiVars, isrVars, pollVars, ChipRest
  <1>1. PcType'
    BY DEF ChipStart, ChipReset, ChipFlag, ChipEnable, Goto, PcType, CtlSteps, RstSteps
  <1>2. CASE ChipReset(p)
    <2>1. Fields'
      BY <1>2, DriverRxAssumption DEF ChipReset, Fields, Sources
    <2>2. RoundBounded' /\ WordUsed'
      BY <1>2, ZenonT(40) DEF ChipReset, RoundBounded, WordUsed
    <2>3. units' = 0 /\ (~stale' => ~ffw_buffered' /\ poll' \notin {"ffw", "rest", "extra"})
      BY <1>2, ZenonT(40) DEF ChipReset
    <2>4. RoundInFifo' /\ FramesAligned'
      BY <2>3, Parity DEF RoundInFifo, FramesAligned
    <2> QED BY <1>1, <2>1, <2>2, <2>4
  <1>3. CASE ChipFlag(p) \/ ChipEnable(p)
    <2>1. FifoSame /\ UNCHANGED <<int_stat, napi, isrVars, tail>>
      BY <1>3, ZenonT(40) DEF ChipFlag, ChipEnable, FifoSame
    <2>2. int_ena' \subseteq Sources
      BY <1>3 DEF ChipFlag, ChipEnable, Fields
    <2>3. Fields'
      BY <2>1, <2>2 DEF FifoSame, Fields
    <2> QED BY <1>1, <2>1, <2>3, FifoSameKeeps
  <1> QED BY <1>2, <1>3 DEF ChipStart

LEMMA CtlKeeps ==
  ASSUME IInv, \/ Open \/ Close \/ OpenFailed \/ OpenNapi \/ CloseNapi
               \/ ChipStop \/ ChipStopFlag \/ CloseIrq \/ CloseCandev
  PROVE  IInv'
  <1> USE DEF Open, Close, OpenFailed, OpenNapi, CloseNapi, ChipStop, ChipStopFlag,
              CloseIrq, CloseCandev
  <1>1. FifoSame /\ UNCHANGED <<int_stat, int_ena, isrVars, tail>>
    BY ZenonT(40) DEF CtlRest, FifoSame
  <1>2. PcType'
    BY DEF IInv, Goto, PcType, CtlSteps, RstSteps
  <1>3. napi' \in {"off", "idle", "sched", "poll"}
    BY DEF IInv, Fields, napiVars
  <1>4. Fields'
    BY <1>1, <1>3 DEF IInv, Fields, FifoSame, isrVars, pollVars
  <1> QED BY <1>1, <1>2, <1>4, FifoSameKeeps DEF IInv

LEMMA StepIInv == IInv /\ [Next]_vars => IInv'
  <1> SUFFICES ASSUME IInv, [Next]_vars PROVE IInv'
    OBVIOUS
  <1>1. CASE UNCHANGED vars
    <2>1. FifoSame /\ Fields' /\ PcType'
      BY <1>1 DEF vars, coreVars, napiVars, isrVars, pollVars, FifoSame, IInv, Fields, PcType
    <2> QED BY <2>1, FifoSameKeeps DEF IInv
  <1> QED
    BY <1>1, CoreKeeps, IsrKeeps, PollKeeps, TailKeeps, ChipKeeps, CtlKeeps
    DEF Next, CtlStep, RstStep

-----------------------------------------------------------------------------
\* The inductive invariant holds in every reachable state.
THEOREM DriverRxInvariant == Spec => [](Flags /\ IInv)
  BY InitFlags, InitIInv, FlagsKept, StepIInv, PTL DEF Spec

\* Type correctness of the receive side, with its two bounds: the poll never
\* works off more than Quota + FifoFrames - 1 frames, and the handler never
\* goes round its loop more than IrqLoops times.
THEOREM DriverRxTypeCorrect == Spec => []TypeOK
  <1>1. Flags /\ IInv => TypeOK
    BY ZenonT(40) DEF Flags, IInv, Fields, PcType, CtlSteps, RstSteps, TypeOK
  <1> QED BY <1>1, DriverRxInvariant, PTL

\* ctucan_rx reads whole frames: it is a word ahead of the FIFO exactly if it
\* is in the middle of a frame or has kept the first word for want of memory
\* (ctu_can_fd.c:343-361), for every number of frames in the FIFO.  A reset
\* during a round, or with a word kept, and a remote frame with a length code
\* are the only ways out of step, and a poll that finds the FIFO empty is the
\* way back.
THEOREM DriverRxFramesAligned == Spec => []FramesAligned
  <1>1. IInv => FramesAligned
    BY DEF IInv
  <1> QED BY <1>1, DriverRxInvariant, PTL

-----------------------------------------------------------------------------
(* RBNEI is armed whenever nobody is going to arm it.                      *)

OpenSteps == {"reset", "flag", "ena", "failed", "started"}
RbSteps == {"rb_clr", "rb_dis", "rb_flag", "rb_napi"}

\* RBNEI is pending while there is something in the FIFO.
LevelPending == units > 0 => "rbnei" \in int_stat

\* A poll runs as long as NAPI says so, and NAPI is on between napi_enable
\* and napi_disable.
NapiFollows ==
  /\ poll # "idle" => napi = "poll"
  /\ napi = "off" <=> pc["ctl"] \notin {"up", "c_napi"}

\* A closed interface has no handler.
NoHandler == pc["ctl"] \in {"closed", "c_candev"} => isr = "idle" /\ irq = FALSE

\* Nothing is received while the interface is opened: the handler does not
\* schedule a poll that nobody would run.
QuietOpen ==
  /\ pc["ctl"] \in OpenSteps =>
       /\ "rbnei" \notin int_stat /\ isr \notin RbSteps
       /\ isr = "idle" \/ "rbnei" \notin bits
  /\ pc["ctl"] \in {"ena", "started"} => rx_sched = FALSE
  /\ pc["ctl"] = "started" => int_ena = {} \/ "rbnei" \in int_ena

\* Whoever set CTUCAN_FLAG_RX_SCHED or disabled RBNEI is followed by someone
\* who resets it.
SchedOwned ==
  pc["ctl"] = "up" /\ rx_sched # FALSE =>
    isr = "rb_napi" \/ napi \in {"sched", "poll"} \/ tail = "flag"

DisabledOwned ==
  pc["ctl"] = "up" /\ "rbnei" \notin int_ena =>
    \/ int_ena = {} \/ isr \in {"rb_flag", "rb_napi"}
    \/ napi \in {"sched", "poll"} \/ tail # "none"

Armed == LevelPending /\ NapiFollows /\ NoHandler /\ QuietOpen /\ SchedOwned /\ DisabledOwned

LEMMA InitArmed == Init => Armed
  BY DEF Init, Armed, LevelPending, NapiFollows, NoHandler, QuietOpen, SchedOwned,
         DisabledOwned, OpenSteps, RbSteps

LEMMA ArmedCore == ASSUME IInv, Armed, QuietStart, Core PROVE Armed'
  <1> USE DEF Armed, coreVars, napiVars, isrVars, pollVars
  <1>1. CASE Receive
    <2>1. /\ napi # "off"
          /\ \/ units' = units + 2 /\ int_stat' = int_stat \cup {"rbnei"}
             \/ UNCHANGED <<units, int_stat>>
          /\ UNCHANGED <<int_ena, rx_sched, napi, irq, pc, isr, bits, poll, tail>>
      BY <1>1, ZenonT(40) DEF Receive
    <2> QED
      BY ZenonT(40), <2>1 DEF LevelPending, NapiFollows, NoHandler, QuietOpen, SchedOwned,
                  DisabledOwned, OpenSteps
  <1>2. CASE OtherSource
    BY ZenonT(40), <1>2 DEF OtherSource, LevelPending, NapiFollows, NoHandler, QuietOpen, SchedOwned,
                DisabledOwned
  <1> QED BY <1>1, <1>2 DEF Core

LEMMA ArmedIsr == ASSUME IInv, Armed, QuietStart, IsrStep PROVE Armed'
  <1> USE DEF Armed, coreVars, napiVars, isrVars, pollVars, IsrRest
  <1> USE DEF LevelPending, NapiFollows, NoHandler, QuietOpen, SchedOwned, DisabledOwned
  <1> USE DEF OpenSteps, RbSteps
  <1>1. CASE IsrRead
    BY ZenonT(40), <1>1 DEF IsrRead
  <1>2. CASE IsrTest
    BY ZenonT(40), <1>2 DEF IsrTest, FirstFor
  <1>3. CASE IsrRbClr
    BY ZenonT(40), <1>3 DEF IsrRbClr, Cleared, Level
  <1>4. CASE IsrRbDis
    BY ZenonT(40), <1>4 DEF IsrRbDis
  <1>5. CASE IsrRbFlag
    BY <1>5 DEF IsrRbFlag
  <1>6. CASE IsrRbNapi
    <2>1. /\ isr = "rb_napi" /\ isr' \in {"epi", "loop"}
          /\ UNCHANGED <<units, int_stat, int_ena, rx_sched, pc, irq, bits, poll, tail>>
      BY <1>6 DEF IsrRbNapi
    <2>2. \/ UNCHANGED napi /\ (napi = "idle" => pc["ctl"] = "c_napi")
          \/ napi = "idle" /\ napi' = "sched"
      BY <1>6, ZenonT(40) DEF IsrRbNapi, napi_schedule, Disabling
    <2>3. napi \in {"off", "idle", "sched", "poll"}
      BY DEF IInv, Fields
    <2> QED BY ZenonT(40), <2>1, <2>2, <2>3
  <1>7. CASE IsrOther
    BY ZenonT(40), <1>7 DEF IsrOther, Cleared, Level, IInv, PcType
  <1>8. CASE IsrLoop
    BY ZenonT(40), <1>8 DEF IsrLoop
  <1>9. CASE IsrStuck
    BY ZenonT(40), <1>9 DEF IsrStuck
  <1> QED BY ZenonT(40), <1>1, <1>2, <1>3, <1>4, <1>5, <1>6, <1>7, <1>8, <1>9 DEF IsrStep

LEMMA ArmedPoll == ASSUME IInv, Armed, QuietStart, PollStep PROVE Armed'
  <1> USE DEF Armed, coreVars, napiVars, isrVars, PollRest
  <1> USE DEF LevelPending, NapiFollows, NoHandler, QuietOpen, SchedOwned, DisabledOwned
  <1>1. CASE PollStart
    BY <1>1 DEF PollStart
  <1>2. CASE PollCount
    BY <1>2 DEF PollCount
  <1>3. CASE RxFfw(TRUE) \/ RxFfw(FALSE) \/ RxFrame \/ RxExtra
    <2>1. /\ units' = units \/ units' \in WordRead \cup RestRead
          /\ poll # "idle"
          /\ UNCHANGED <<int_stat, napi, tail, PollRest>>
      BY <1>3, ZenonT(40) DEF RxFfw, RxFrame, RxExtra
    <2>2. units' > 0 => units > 0
      BY <2>1, Reads DEF IInv, Fields
    <2> QED BY <2>1, <2>2
  <1>4. CASE PollDor \/ PollCdo
    BY ZenonT(40), <1>4 DEF PollDor, PollCdo
  <1>5. CASE PollComplete
    <2>1. /\ poll = "complete" /\ poll' = "idle"
          /\ \/ napi' = "sched" /\ UNCHANGED tail
             \/ napi' = "idle" /\ UNCHANGED tail /\ pc["ctl"] = "c_napi"
             \/ napi' = "idle" /\ tail' = "flag"
          /\ UNCHANGED <<units, int_stat, PollRest>>
      BY <1>5, ZenonT(40) DEF PollComplete, Disabling
    <2> QED BY ZenonT(40), <2>1
  <1> QED BY ZenonT(40), <1>1, <1>2, <1>3, <1>4, <1>5 DEF PollStep

LEMMA ArmedTail == ASSUME IInv, Armed, QuietStart, TailStep PROVE Armed'
  <1> USE DEF Armed, napiVars, isrVars, pollVars, TailRest
  <1> USE DEF LevelPending, NapiFollows, NoHandler, QuietOpen, SchedOwned, DisabledOwned
  <1>1. CASE TailFlag
    BY ZenonT(40), <1>1 DEF TailFlag
  <1>2. CASE TailClr
    BY ZenonT(40), <1>2 DEF TailClr, Cleared, Level
  <1>3. CASE TailEna
    BY ZenonT(40), <1>3 DEF TailEna
  <1> QED BY ZenonT(40), <1>1, <1>2, <1>3 DEF TailStep

LEMMA ArmedChip ==
  ASSUME IInv, Armed, QuietStart, NEW p \in {"ctl", "rst"}, ChipStart(p)
  PROVE  Armed'
  <1> USE DEF Armed, IInv, PcType, Goto, coreVars, napiVars, isrVars, pollVars, ChipRest
  <1> USE DEF LevelPending, NapiFollows, NoHandler, QuietOpen, SchedOwned, DisabledOwned
  <1> USE DEF OpenSteps, CtlSteps, RstSteps
  <1>1. CASE ChipReset(p)
    <2>1. /\ pc[p] = "reset" /\ units' = 0 /\ int_stat' = {} /\ int_ena' = {}
          /\ UNCHANGED <<rx_sched, napi, irq, isr, bits, poll, tail>>
      BY <1>1, ZenonT(40) DEF ChipReset
    <2>2. \/ pc'["ctl"] = pc["ctl"]
          \/ pc["ctl"] = "reset" /\ pc'["ctl"] \in {"flag", "failed"}
      BY <1>1, <2>1 DEF ChipReset
    <2>3. LevelPending' /\ NapiFollows'
      BY <2>1, <2>2
    <2>4. NoHandler' /\ SchedOwned'
      BY ZenonT(40), <2>1, <2>2
    <2>5. QuietOpen' /\ DisabledOwned'
      BY <2>1, <2>2
    <2> QED BY ZenonT(40), <2>3, <2>4, <2>5
  <1>2. CASE ChipFlag(p)
    BY ZenonT(40), <1>2 DEF ChipFlag
  <1>3. CASE ChipEnable(p)
    BY ZenonT(40), <1>3 DEF ChipEnable, Sources
  <1> QED BY ZenonT(40), <1>1, <1>2, <1>3 DEF ChipStart

LEMMA ArmedCtl ==
  ASSUME IInv, Armed, QuietStart,
         \/ Open \/ Close \/ OpenFailed \/ OpenNapi \/ CloseNapi
         \/ ChipStop \/ ChipStopFlag \/ CloseIrq \/ CloseCandev
  PROVE  Armed'
  <1> USE DEF Armed, IInv, PcType, Goto, coreVars, napiVars, isrVars, pollVars, CtlRest
  <1> USE DEF LevelPending, NapiFollows, NoHandler, QuietOpen, SchedOwned, DisabledOwned
  <1> USE DEF OpenSteps, RbSteps
  <1>1. CASE Open
    BY <1>1 DEF Open
  <1>2. CASE OpenFailed \/ CloseIrq
    BY ZenonT(40), <1>2 DEF OpenFailed, CloseIrq
  <1>3. CASE OpenNapi
    BY ZenonT(40), <1>3 DEF OpenNapi
  <1>4. CASE Close \/ CloseNapi
    BY ZenonT(40), <1>4 DEF Close, CloseNapi
  <1>5. CASE ChipStop \/ ChipStopFlag
    BY ZenonT(40), <1>5 DEF ChipStop, ChipStopFlag
  <1>6. CASE CloseCandev
    BY <1>6 DEF CloseCandev
  <1> QED BY ZenonT(40), <1>1, <1>2, <1>3, <1>4, <1>5, <1>6

\* If nothing is received while the interface is opened, then, whenever neither
\* the poll nor a part of ctucan_interrupt that will schedule it is under way,
\* RBNEI is enabled and not ignored (ctu_can_fd.c:528-537, 690-705).
THEOREM DriverRxArmed ==
  ASSUME QuietStart
  PROVE  Spec => []RxArmed
  <1>1. IInv /\ Armed /\ [Next]_vars => Armed'
    <2> SUFFICES ASSUME IInv, Armed, [Next]_vars PROVE Armed'
      OBVIOUS
    <2>1. CASE UNCHANGED vars
      BY ZenonT(40), <2>1 DEF vars, coreVars, napiVars, isrVars, pollVars, Armed, LevelPending,
                  NapiFollows, NoHandler, QuietOpen, SchedOwned, DisabledOwned
    <2> QED
      BY <2>1, ArmedCore, ArmedIsr, ArmedPoll, ArmedTail, ArmedChip, ArmedCtl
      DEF Next, CtlStep, RstStep
  <1>2. Armed => RxArmed
    BY ZenonT(40) DEF Armed, SchedOwned, DisabledOwned, RxArmed
  <1> QED BY <1>1, <1>2, InitArmed, DriverRxInvariant, PTL DEF Spec
=============================================================================
