-------------------------- MODULE DriverLifeProofs --------------------------
(*****************************************************************************)
(* Proofs about the life of a device of the driver, for every board, number  *)
(* of cores and combination of failing calls: what is unbound holds nothing, *)
(* the usage count of runtime power management is balanced, an interrupt     *)
(* handler finds its device, and the state which the driver keeps for the    *)
(* stack follows the core.                                                   *)
(*****************************************************************************)
EXTENDS DriverLife, FiniteSetTheorems, TLAPS

\* The time limits, in seconds, of the leaves that name no prover.
USE SMTT(40), ZenonT(40)

-----------------------------------------------------------------------------
(* The state that the driver keeps for the stack.                          *)

\* The steps of ctucan_open.
OpenSteps == {"o_pm", "o_irq", "o_candev", "o_reset", "o_start", "o_queue"}

\* The interface that is being opened is not up yet.
Opening ==
  /\ core \in Cores /\ num_cores \in Cores
  /\ step \in OpenSteps => core \notin up

LEMMA InitOpening == Init => Opening
  <1> SUFFICES ASSUME Init PROVE Opening
    OBVIOUS
  <1>1. step = "unbound" /\ core = 1 /\ num_cores \in Cores
    BY DriverLifeAssumption DEF Init, Cores
  <1> QED BY <1>1, DriverLifeAssumption DEF Opening, OpenSteps, Cores

LEMMA ProbeOpening == Opening /\ ProbeStep => Opening'
  <1> SUFFICES ASSUME Opening, ProbeStep PROVE Opening'
    OBVIOUS
  <1> USE DEF devVars, boardVars, CommonRest, Return, ProbeFails
  <1>1. CASE ProbeReturn
    <2>0. num_cores' = num_cores
      BY ZenonT(40), <1>1 DEF ProbeReturn
    <2>1. step' \in {"bound", "unbound", "alloc"}
      BY <1>1, ZenonT(40) DEF ProbeReturn
    <2>2. core' = core \/ (core < num_cores /\ core' = core + 1)
      BY <1>1 DEF ProbeReturn
    <2>3. core' \in Cores
      BY <2>2, DriverLifeAssumption DEF Opening, Cores
    <2> QED BY <2>0, <2>1, <2>3 DEF Opening, OpenSteps
  <1>2. CASE Probe \/ PlatformProbe
    BY <1>2, DriverLifeAssumption DEF Probe, PlatformProbe, Acquire, Opening, OpenSteps, Cores
  <1>3. ASSUME NEW i \in DOMAIN Acquire, PciAcquire(i) PROVE Opening'
    <2>1. step' \notin OpenSteps
      BY <1>3 DEF PciAcquire, PciNext, Acquire, OpenSteps
    <2> QED BY <1>3, <2>1 DEF PciAcquire, Opening
  <1>4. CASE CommonAlloc \/ CommonClk \/ CommonPm \/ CommonSignature
    BY <1>4 DEF CommonAlloc, CommonClk, CommonPm, CommonSignature, Opening, OpenSteps
  <1>5. CASE CommonReset \/ CommonRegister
    BY <1>5 DEF CommonReset, CommonRegister, Opening, OpenSteps
  <1> QED BY <1>1, <1>2, <1>3, <1>4, <1>5 DEF ProbeStep

LEMMA CtlOpening == Opening /\ CtlStep => Opening'
  <1> SUFFICES ASSUME Opening, CtlStep PROVE Opening'
    OBVIOUS
  <1> USE DEF Opening, OpenSteps, CtlRest, devVars, boardVars
  <1>1. ASSUME NEW c \in Cores, Open(c) \/ Close(c) PROVE Opening'
    BY <1>1 DEF Open, Close, CloseQueue
  <1>2. CASE OpenPm \/ OpenIrq \/ OpenCandev \/ OpenReset \/ OpenStart \/ OpenQueue
    BY <1>2 DEF OpenPm, OpenIrq, OpenCandev, OpenReset, OpenStart, OpenQueue
  <1>3. CASE CloseStop \/ CloseIrq \/ CloseCandev
    BY <1>3 DEF CloseStop, CloseIrq, CloseCandev
  <1>4. CASE GetBerrCounter \/ Suspend \/ Resume
    BY <1>4 DEF GetBerrCounter, Suspend, Resume
  <1> QED BY <1>1, <1>2, <1>3, <1>4 DEF CtlStep

LEMMA NextOpening == Opening /\ [Next]_vars => Opening'
  <1> SUFFICES ASSUME Opening, [Next]_vars PROVE Opening'
    OBVIOUS
  <1>1. CASE RemoveStep
    <2>1. CASE Remove \/ RemoveRelease
      BY <2>1 DEF Remove, Idle, RemoveRelease, devVars, boardVars, Opening, OpenSteps
    <2>2. ASSUME NEW c \in Cores, RemoveClose(c) \/ RemoveDevice(c) PROVE Opening'
      BY <2>2 DEF RemoveClose, CloseQueue, RemoveDevice, CtlRest, devVars, boardVars, Opening, OpenSteps
    <2> QED BY <1>1, <2>1, <2>2 DEF RemoveStep
  <1>2. ASSUME NEW c \in Cores, CoreFault(c) \/ IsrStep(c) \/ RstStep(c) PROVE Opening'
    <2>1. UNCHANGED <<step, core, num_cores, up>>
      BY <1>2, ZenonT(40) DEF CoreFault, IsrStep, IsrRead, IsrClear, IsrState, IsrStore, IsrRest,
         RstStep, RstBegin, RstReset, RstStart, RstWake, RstCarrier, RstRest, devVars, boardVars
    <2> QED BY <2>1 DEF Opening
  <1>3. CASE UNCHANGED vars
    BY <1>3 DEF vars, devVars, boardVars, Opening
  <1> QED BY <1>1, <1>2, <1>3, ProbeOpening, CtlOpening DEF Next


-----------------------------------------------------------------------------
(* The state that the driver reports, and the core's.                      *)

LEMMA StateOfValues ==
  /\ DOMAIN StateOf = {"active", "warning", "passive", "busoff"}
  /\ StateOf["active"] = "ERROR_ACTIVE" /\ StateOf["warning"] = "ERROR_WARNING"
  /\ StateOf["passive"] = "ERROR_PASSIVE" /\ StateOf["busoff"] = "BUS_OFF"
  BY DEF StateOf

Faults == {"active", "warning", "passive", "busoff"}
Low == {"active", "warning"}
IsrSteps == {"idle", "clear", "state"}
States == {"ERROR_ACTIVE", "ERROR_WARNING", "ERROR_PASSIVE", "BUS_OFF"}
CanStates == States \cup {"STOPPED", "SLEEPING"}

\* State s may be reported for fault confinement state f.
Agree(s, f) == s = StateOf[f] \/ (s = "ERROR_WARNING" /\ f = "active")

\* The interrupts p will make the handler report f.
Cover(p, f) == "epi" \in p \/ ("ewli" \in p /\ f \in Low)

\* What is known at the next step i of the handler of a core in state f: the
\* state s that is reported or going to be, or an interrupt in p, is right.
\* r are the interrupts the handler has read.  EWLI alone says that the core is
\* not above the warning state.
TrackOf(i, s, f, p, r) ==
  /\ "ewli" \in p /\ "epi" \notin p => f \in Low
  /\ i = "idle" => Agree(s, f) \/ Cover(p, f)
  /\ i \in {"clear", "state"} => "epi" \in r \/ "epi" \in p \/ f \in Low
  /\ i = "clear" /\ "ewli" \in p \ r /\ "epi" \notin p \ r => f \in Low
  /\ i \notin IsrSteps => Agree(i, f) \/ Cover(p, f)

\* The core moves at most once between the read and the clear.
Track(c) ==
  /\ TrackOf(isr[c], can_state[c], fault[c], pend[c], seen[c])
  /\ isr[c] = "clear" /\ c \notin moved => pend[c] = seen[c]

\* The core has been reset and nothing has happened since.
Fresh(c) == c \notin chip /\ fault[c] = "active" /\ pend[c] = {} /\ isr[c] = "idle"

Tracked(c) ==
  /\ c \notin up => rst[c] = "idle"
  /\ rst[c] = "start" \/ (step = "o_start" /\ c = core) => Fresh(c)
  /\ board \notin Sleeps /\ c \in chip /\ (c \in up \/ (step = "o_queue" /\ c = core)) => Track(c)

StateTypes ==
  /\ fault \in [Cores -> Faults] /\ can_state \in [Cores -> CanStates]
  /\ pend \in [Cores -> SUBSET {"ewli", "epi"}] /\ seen \in [Cores -> SUBSET {"ewli", "epi"}]
  /\ isr \in [Cores -> IsrSteps \cup States]
  /\ rst \in [Cores -> {"idle", "reset", "start", "wake", "carrier"}]
  /\ moved \subseteq {c \in Cores : isr[c] = "clear"}
  /\ chip \subseteq Cores /\ torn \subseteq Cores
  /\ asleep => board \in Sleeps

Tracking == StateTypes /\ \A c \in Cores \ torn : Tracked(c)

LEMMA InitTracking == Init => Tracking
  <1> SUFFICES ASSUME Init PROVE Tracking
    OBVIOUS
  <1>1. /\ fault = [c \in Cores |-> "active"] /\ pend = [c \in Cores |-> {}]
        /\ can_state = [c \in Cores |-> "STOPPED"] /\ asleep = FALSE /\ chip = {}
        /\ isr = [c \in Cores |-> "idle"] /\ seen = [c \in Cores |-> {}]
        /\ moved = {} /\ torn = {} /\ rst = [c \in Cores |-> "idle"] /\ step = "unbound"
    BY ZenonT(40) DEF Init
  <1>2. StateTypes
    BY <1>1 DEF StateTypes, Faults, IsrSteps, CanStates
  <1>3. \A c \in Cores : Tracked(c)
    BY <1>1 DEF Tracked
  <1> QED BY <1>2, <1>3 DEF Tracking

\* A move of the core.
LEMMA MoveTracks ==
  ASSUME NEW i \in IsrSteps \cup States, NEW s, NEW f \in Faults,
         NEW p \in SUBSET {"ewli", "epi"}, NEW r \in SUBSET {"ewli", "epi"},
         NEW m \in Moves, f = m[1], TrackOf(i, s, f, p, r), i = "clear" => p = r
  PROVE  TrackOf(i, s, m[2], p \cup m[3], r)
  <1>1. \/ m[1] = "active" /\ m[2] = "warning" /\ m[3] = {"ewli"}
        \/ m[1] = "warning" /\ m[2] = "active" /\ m[3] = {}
        \/ m[1] = "warning" /\ m[2] = "passive" /\ m[3] = {"epi"}
        \/ m[1] = "passive" /\ m[2] = "warning" /\ m[3] = {"epi"}
        \/ m[1] = "passive" /\ m[2] = "busoff" /\ m[3] = {"epi"}
        \/ m[1] = "busoff" /\ m[2] = "active" /\ m[3] = {"epi"}
    BY DEF Moves
  <1>2. CASE m[3] = {"epi"}
    BY <1>1, <1>2 DEF TrackOf, Cover, Low, IsrSteps
  <1>3. CASE m[2] \in Low /\ m[3] # {"epi"}
    BY <1>1, <1>3, StateOfValues DEF TrackOf, Cover, Agree, Low, IsrSteps
  <1> QED BY <1>1, <1>2, <1>3 DEF Low

\* The steps of the handler.
LEMMA ReadTracks ==
  ASSUME NEW s, NEW f \in Faults, NEW r, NEW p \in SUBSET {"ewli", "epi"},
         TrackOf("idle", s, f, p, r), p # {}
  PROVE  TrackOf("clear", s, f, p, p)
  BY ZenonT(40) DEF TrackOf, Cover, IsrSteps

LEMMA ClearTracks ==
  ASSUME NEW s, NEW f \in Faults, NEW r, NEW p, TrackOf("clear", s, f, p, r)
  PROVE  TrackOf("state", s, f, p \ r, r)
  BY DEF TrackOf, IsrSteps

LEMMA StateTracks ==
  ASSUME NEW s, NEW f \in Faults, NEW r, NEW p, TrackOf("state", s, f, p, r)
  PROVE  TrackOf(IF "epi" \in r THEN StateOf[f] ELSE "ERROR_WARNING", s, f, p, {})
  BY StateOfValues DEF TrackOf, Cover, Agree, IsrSteps, Low, Faults

LEMMA StoreTracks ==
  ASSUME NEW s, NEW f, NEW r, NEW p, NEW i, TrackOf(i, s, f, p, r), i \notin IsrSteps
  PROVE  TrackOf("idle", i, f, p, r)
  BY DEF TrackOf, IsrSteps

\* Steps that have nothing to do with the state of a core.
LEMMA QuietKeeps ==
  ASSUME Tracking, UNCHANGED <<coreVars, can_state, asleep, isrVars, rst, torn, up, board>>,
         step' \notin {"o_start", "o_queue"} \/ UNCHANGED <<step, core>>
  PROVE  Tracking'
  <1> USE DEF coreVars, isrVars
  <1>1. StateTypes'
    BY ZenonT(40) DEF Tracking, StateTypes
  <1>2. ASSUME NEW c \in Cores \ torn PROVE Tracked(c)'
    <2>1. Tracked(c)
      BY <1>2 DEF Tracking
    <2>2. (Fresh(c) => Fresh(c)') /\ (Track(c) => Track(c)')
      BY ZenonT(40) DEF Fresh, Track
    <2> QED BY <2>1, <2>2, ZenonT(40) DEF Tracked
  <1> QED BY <1>1, <1>2, ZenonT(40) DEF Tracking

\* Steps about the state of core c only.
LEMMA OneCoreKeeps ==
  ASSUME Tracking, StateTypes', NEW c \in Cores, c \notin torn' => Tracked(c)', UNCHANGED board,
         \A d \in Cores \ {c} :
           /\ d \in torn' <=> d \in torn
           /\ d \in up' <=> d \in up
           /\ d \in chip' <=> d \in chip
           /\ d \in moved' <=> d \in moved
           /\ fault'[d] = fault[d] /\ pend'[d] = pend[d] /\ can_state'[d] = can_state[d]
           /\ isr'[d] = isr[d] /\ seen'[d] = seen[d] /\ rst'[d] = rst[d],
         (step' \in {"o_start", "o_queue"} => core' = c) \/ UNCHANGED <<step, core>>
  PROVE  Tracking'
  <1>1. ASSUME NEW d \in Cores \ {c}, d \notin torn' PROVE Tracked(d)'
    <2>1. Tracked(d)
      BY <1>1 DEF Tracking
    <2>2. (Fresh(d) => Fresh(d)') /\ (Track(d) => Track(d)')
      BY <1>1 DEF Fresh, Track
    <2> QED BY <1>1, <2>1, <2>2 DEF Tracked
  <1> QED BY <1>1 DEF Tracking

LEMMA ProbeTracking == Opening /\ Tracking /\ ProbeStep => Tracking'
  <1> SUFFICES ASSUME Opening, Tracking, ProbeStep PROVE Tracking'
    OBVIOUS
  <1>1. UNCHANGED <<coreVars, can_state, asleep, isrVars, rst, torn, up, board>>
    BY ZenonT(40) DEF ProbeStep, Probe, PlatformProbe, PciAcquire, CommonAlloc, CommonClk, CommonPm,
       CommonSignature, CommonReset, CommonRegister, ProbeReturn, CommonRest, runVars,
       devVars, boardVars, netVars, rstVars
  <1>2. step' \notin {"o_start", "o_queue"}
    <2>1. ASSUME NEW i \in DOMAIN Acquire, PciAcquire(i) PROVE step' \notin {"o_start", "o_queue"}
      BY <2>1 DEF PciAcquire, PciNext, ProbeFails, Acquire
    <2>2. CASE Probe \/ PlatformProbe
      BY <2>2 DEF Probe, PlatformProbe, ProbeFails, Acquire
    <2>3. CASE CommonAlloc \/ CommonClk \/ CommonPm \/ CommonSignature
      BY <2>3 DEF CommonAlloc, CommonClk, CommonPm, CommonSignature, Return
    <2>4. CASE CommonReset \/ CommonRegister \/ ProbeReturn
      BY <2>4 DEF CommonReset, CommonRegister, ProbeReturn, Return
    <2> QED BY <2>1, <2>2, <2>3, <2>4 DEF ProbeStep
  <1> QED BY <1>1, <1>2, QuietKeeps

LEMMA CtlTracking == Opening /\ Tracking /\ CtlStep => Tracking'
  <1> SUFFICES ASSUME Opening, Tracking, CtlStep PROVE Tracking'
    OBVIOUS
  <1>0. /\ StateTypes /\ core \in Cores
        /\ step \in OpenSteps => core \notin up
        /\ core \notin torn => Tracked(core)
    BY DEF Tracking, Opening
  <1> USE DEF CtlRest, devVars, boardVars, netVars, rstVars
  <1>1. CASE \/ \E c \in Cores : Open(c) \/ Close(c)
             \/ OpenPm \/ OpenIrq \/ OpenCandev \/ CloseIrq \/ GetBerrCounter
    <2>1. UNCHANGED <<coreVars, can_state, asleep, isrVars, rst, torn, up, board>>
      BY <1>1, ZenonT(40) DEF Open, Close, CloseQueue, OpenPm, OpenIrq, OpenCandev, CloseIrq,
         GetBerrCounter
    <2>2. step' \notin {"o_start", "o_queue"}
      BY <1>1 DEF Open, Close, CloseQueue, OpenPm, OpenIrq, OpenCandev, CloseIrq,
         GetBerrCounter, Idle
    <2> QED BY <2>1, <2>2, QuietKeeps
  <1>2. CASE OpenReset
    <2>1. /\ step = "o_reset" /\ step' \in {"o_start", "bound"} /\ chip' = chip \ {core}
          /\ fault' = [fault EXCEPT ![core] = "active"] /\ pend' = [pend EXCEPT ![core] = {}]
          /\ torn' = IF isr[core] = "idle" THEN torn ELSE torn \cup {core}
          /\ UNCHANGED <<core, can_state, asleep, isr, seen, moved, rst, up, board>>
      BY <1>2 DEF OpenReset, ChipReset, isrVars
    <2>2. StateTypes'
      BY <1>0, <2>1 DEF StateTypes, Faults
    <2>3. core \notin torn' => Tracked(core)'
      BY <1>0, <2>1 DEF Tracked, Fresh, StateTypes, OpenSteps
    <2> QED BY <1>0, <2>1, <2>2, <2>3, OneCoreKeeps DEF StateTypes
  <1>3. CASE OpenStart
    <2>1. /\ step = "o_start" /\ step' = "o_queue" /\ chip' = chip \cup {core}
          /\ can_state' = [can_state EXCEPT ![core] = "ERROR_ACTIVE"]
          /\ UNCHANGED <<core, fault, pend, asleep, isr, seen, moved, rst, torn, up, board>>
      BY <1>3 DEF OpenStart, ChipEnable, isrVars
    <2>2. StateTypes'
      BY <1>0, <2>1 DEF StateTypes, CanStates, States
    <2>3. core \notin torn' => Tracked(core)'
      <3> SUFFICES ASSUME core \notin torn PROVE Tracked(core)'
        BY <2>1
      <3>1. Fresh(core) /\ rst[core] = "idle"
        BY <1>0, <2>1 DEF Tracked, OpenSteps
      <3>2. Track(core)'
        BY <1>0, <2>1, <3>1, StateOfValues DEF Track, TrackOf, Fresh, Agree, IsrSteps, StateTypes
      <3> QED BY <1>0, <2>1, <3>1, <3>2 DEF Tracked
    <2> QED BY <1>0, <2>1, <2>2, <2>3, OneCoreKeeps DEF StateTypes
  <1>4. CASE OpenQueue
    <2>1. /\ step = "o_queue" /\ step' = "bound" /\ up' = up \cup {core}
          /\ UNCHANGED <<core, chip, fault, pend, can_state, asleep, isr, seen, moved, rst, torn, board>>
      BY <1>4, ZenonT(40) DEF OpenQueue, coreVars, isrVars
    <2>2. StateTypes'
      BY <1>0, <2>1, ZenonT(40) DEF StateTypes
    <2>3. core \notin torn' => Tracked(core)'
      <3> SUFFICES ASSUME core \notin torn PROVE Tracked(core)'
        BY <2>1
      <3>1. (Fresh(core) => Fresh(core)') /\ (Track(core) => Track(core)')
        BY <2>1, ZenonT(40) DEF Fresh, Track
      <3> QED BY <1>0, <2>1, <3>1 DEF Tracked, OpenSteps
    <2> QED BY <1>0, <2>1, <2>2, <2>3, OneCoreKeeps
  <1>5. CASE CloseStop
    <2>1. /\ step' = "c_irq" /\ chip' = chip \ {core}
          /\ can_state' = [can_state EXCEPT ![core] = "STOPPED"]
          /\ UNCHANGED <<core, fault, pend, asleep, isr, seen, moved, rst, torn, up, board>>
      BY <1>5, ZenonT(40) DEF CloseStop, isrVars
    <2>2. StateTypes'
      BY <1>0, <2>1 DEF StateTypes, CanStates
    <2>3. core \notin torn' => Tracked(core)'
      BY <1>0, <2>1 DEF Tracked, Fresh
    <2> QED BY <1>0, <2>1, <2>2, <2>3, OneCoreKeeps DEF StateTypes
  <1>6. CASE CloseCandev
    <2>1. /\ step' = "bound" /\ rst[core] = "idle" /\ torn' = torn \ {core} /\ up' = up \ {core}
          /\ UNCHANGED <<core, chip, fault, pend, can_state, asleep, isr, seen, moved, rst, board>>
      BY <1>6, ZenonT(40) DEF CloseCandev, coreVars, isrVars
    <2>2. StateTypes'
      BY <1>0, <2>1 DEF StateTypes
    <2>3. Tracked(core)'
      BY <1>0, <2>1 DEF Tracked
    <2> QED BY <1>0, <2>1, <2>2, <2>3, OneCoreKeeps
  <1>7. CASE (Suspend /\ drvdata = "ndev" /\ ndev[1] = "registered") \/ Resume
    <2>1. /\ step = "bound" /\ board \in Sleeps
          /\ \E s \in CanStates : can_state' = [can_state EXCEPT ![1] = s]
          /\ UNCHANGED <<step, core, chip, fault, pend, isr, seen, moved, rst, torn, up, board>>
      <3>1. {"SLEEPING", "ERROR_ACTIVE"} \subseteq CanStates
        BY DEF CanStates, States
      <3>2. CASE Suspend /\ drvdata = "ndev" /\ ndev[1] = "registered"
        BY ZenonT(40), <1>0, <3>1, <3>2 DEF Suspend, Idle, coreVars, isrVars
      <3>3. CASE Resume
        BY ZenonT(40), <1>0, <3>1, <3>3 DEF Resume, Idle, coreVars, isrVars, StateTypes
      <3> QED BY <1>7, <3>2, <3>3
    <2>2. StateTypes'
      <3>1. can_state' \in [Cores -> CanStates]
        BY ZenonT(40), <1>0, <2>1 DEF StateTypes
      <3> QED BY <1>0, <2>1, <3>1 DEF StateTypes
    <2>3. ASSUME NEW c \in Cores \ torn PROVE Tracked(c)'
      BY <2>1, <2>3 DEF Tracking, Tracked, Fresh
    <2> QED BY <2>1, <2>2, <2>3 DEF Tracking
  <1>8. CASE Suspend /\ ~(drvdata = "ndev" /\ ndev[1] = "registered")
    <2>1. /\ step' = "undefined"
          /\ UNCHANGED <<coreVars, can_state, asleep, isrVars, rst, torn, up, board>>
      BY <1>8, ZenonT(40) DEF Suspend
    <2> QED BY <2>1, QuietKeeps
  <1> QED BY ZenonT(40), <1>1, <1>2, <1>3, <1>4, <1>5, <1>6, <1>7, <1>8 DEF CtlStep

LEMMA RemoveTracking == Tracking /\ RemoveStep => Tracking'
  <1> SUFFICES ASSUME Tracking, RemoveStep PROVE Tracking'
    OBVIOUS
  <1>1. UNCHANGED <<coreVars, can_state, asleep, isrVars, rst, torn, up, board>>
    BY ZenonT(40) DEF RemoveStep, Remove, RemoveClose, CloseQueue, RemoveDevice, RemoveRelease,
       CtlRest, runVars, devVars, boardVars, netVars, rstVars
  <1>2. step' \notin {"o_start", "o_queue"}
    BY DEF RemoveStep, Remove, RemoveClose, CloseQueue, RemoveDevice, RemoveRelease, Idle
  <1> QED BY <1>1, <1>2, QuietKeeps

LEMMA FaultTracking ==
  ASSUME Opening, Tracking, NEW c \in Cores, CoreFault(c)
  PROVE  Tracking'
  <1>0. StateTypes /\ (c \notin torn => Tracked(c))
    BY DEF Tracking
  <1>1. PICK m \in Moves : /\ fault[c] = m[1] /\ fault' = [fault EXCEPT ![c] = m[2]]
                           /\ pend' = [pend EXCEPT ![c] = pend[c] \cup m[3]]
    BY ZenonT(40) DEF CoreFault
  <1>2. /\ c \in chip /\ c \notin moved
        /\ moved' = IF isr[c] = "clear" THEN moved \cup {c} ELSE moved
        /\ UNCHANGED <<step, core, chip, can_state, asleep, isr, seen, rst, torn, up, board>>
    BY ZenonT(40) DEF CoreFault, netVars, rstVars, devVars, boardVars
  <1>3. m[2] \in Faults /\ m[3] \subseteq {"ewli", "epi"}
    BY DEF Moves, Faults
  <1>4. StateTypes'
    BY <1>0, <1>1, <1>2, <1>3 DEF StateTypes
  <1>5. c \notin torn' => Tracked(c)'
    <2> SUFFICES ASSUME c \notin torn PROVE Tracked(c)'
      BY <1>2, ZenonT(40)
    <2>1. ~Fresh(c) /\ rst[c] # "start" /\ ~(step = "o_start" /\ c = core)
      BY <1>0, <1>2 DEF Tracked, Fresh
    <2>2. Track(c) => Track(c)'
      <3> SUFFICES ASSUME Track(c) PROVE Track(c)'
        OBVIOUS
      <3>1. /\ TrackOf(isr[c], can_state[c], fault[c], pend[c], seen[c])
            /\ isr[c] = "clear" => pend[c] = seen[c]
        BY <1>2 DEF Track
      <3>2. /\ isr[c] \in IsrSteps \cup States /\ fault[c] \in Faults
            /\ pend[c] \in SUBSET {"ewli", "epi"} /\ seen[c] \in SUBSET {"ewli", "epi"}
            /\ fault'[c] = m[2] /\ pend'[c] = pend[c] \cup m[3]
            /\ isr[c] = "clear" => c \in moved'
        BY <1>0, <1>1, <1>2 DEF StateTypes
      <3>3. TrackOf(isr[c], can_state[c], m[2], pend[c] \cup m[3], seen[c])
        BY ZenonT(40), <1>1, <3>1, <3>2, MoveTracks
      <3> QED BY <1>2, <3>2, <3>3 DEF Track
    <2> QED BY <1>0, <1>2, <2>1, <2>2 DEF Tracked
  <1> QED BY <1>0, <1>1, <1>2, <1>4, <1>5, OneCoreKeeps DEF StateTypes

LEMMA IsrTracking ==
  ASSUME Opening, Tracking, NEW c \in Cores, IsrStep(c)
  PROVE  Tracking'
  <1>0. /\ StateTypes /\ (c \notin torn => Tracked(c))
        /\ isr[c] \in IsrSteps \cup States /\ fault[c] \in Faults
        /\ pend[c] \in SUBSET {"ewli", "epi"} /\ seen[c] \in SUBSET {"ewli", "epi"}
        /\ can_state[c] \in CanStates
    BY DEF Tracking, StateTypes
  <1>1. /\ \E i \in IsrSteps \cup States : isr' = [isr EXCEPT ![c] = i]
        /\ \E r \in SUBSET {"ewli", "epi"} : seen' = [seen EXCEPT ![c] = r]
        /\ \E p \in SUBSET {"ewli", "epi"} : pend' = [pend EXCEPT ![c] = p]
        /\ \E s \in CanStates : can_state' = [can_state EXCEPT ![c] = s]
        /\ moved' \in {moved, moved \ {c}} /\ (isr[c] = "clear" => c \notin moved')
        /\ UNCHANGED <<step, core, chip, fault, asleep, rst, torn, up, board>>
    <2> USE <1>0 DEF IsrRest, devVars, boardVars
    <2>a. /\ isr = [isr EXCEPT ![c] = isr[c]] /\ seen = [seen EXCEPT ![c] = seen[c]]
          /\ pend = [pend EXCEPT ![c] = pend[c]] /\ can_state = [can_state EXCEPT ![c] = can_state[c]]
      BY DEF StateTypes
    <2>1. CASE IsrRead(c)
      BY ZenonT(40), <2>a, <2>1 DEF IsrRead, IsrSteps
    <2>2. CASE IsrClear(c)
      <3>1. pend' = [pend EXCEPT ![c] = pend[c] \ seen[c]] /\ moved' = moved \ {c}
        BY <2>2 DEF IsrClear, StateTypes
      <3>2. pend[c] \ seen[c] \in SUBSET {"ewli", "epi"}
        OBVIOUS
      <3> QED BY ZenonT(40), <2>a, <2>2, <3>1, <3>2 DEF IsrClear, IsrSteps
    <2>3. CASE IsrState(c)
      BY ZenonT(40), <2>a, <2>3, StateOfValues DEF IsrState, Faults, States
    <2>4. CASE IsrStore(c)
      BY ZenonT(40), <2>a, <2>4 DEF IsrStore, IsrSteps, CanStates
    <2> QED BY <2>1, <2>2, <2>3, <2>4 DEF IsrStep
  <1>2. StateTypes'
    BY <1>0, <1>1 DEF StateTypes
  <1>3. ASSUME c \notin torn PROVE ~Fresh(c)
    BY DEF IsrStep, IsrRead, IsrClear, IsrState, IsrStore, Fresh
  <1>4. Track(c) => Track(c)'
    <2> SUFFICES ASSUME Track(c) PROVE Track(c)'
      OBVIOUS
    <2> USE DEF IsrRest
    <2>1. CASE IsrRead(c)
      <3>1. /\ isr[c] = "idle" /\ pend[c] # {} /\ isr'[c] = "clear" /\ seen'[c] = pend[c]
            /\ UNCHANGED <<pend, can_state, moved, fault>> /\ c \notin moved
        BY <1>0, <2>1 DEF IsrRead, StateTypes
      <3>2. TrackOf("clear", can_state[c], fault[c], pend[c], pend[c])
        BY ZenonT(40), <1>0, <3>1, ReadTracks DEF Track
      <3> QED BY <3>1, <3>2 DEF Track
    <2>2. CASE IsrClear(c)
      <3>1. /\ isr[c] = "clear" /\ isr'[c] = "state" /\ pend'[c] = pend[c] \ seen[c]
            /\ UNCHANGED <<seen, can_state, fault>> /\ c \notin moved'
        BY <1>0, <2>2 DEF IsrClear, StateTypes
      <3>2. TrackOf("state", can_state[c], fault[c], pend[c] \ seen[c], seen[c])
        BY <1>0, <3>1, ClearTracks DEF Track
      <3> QED BY ZenonT(40), <3>1, <3>2 DEF Track
    <2>3. CASE IsrState(c)
      <3>1. /\ isr[c] = "state" /\ seen'[c] = {} /\ UNCHANGED <<pend, can_state, fault, moved>>
            /\ isr'[c] = IF "epi" \in seen[c] THEN StateOf[fault[c]] ELSE "ERROR_WARNING"
        BY <1>0, <2>3 DEF IsrState, StateTypes
      <3>2. isr'[c] # "clear"
        BY ZenonT(40), <1>0, <3>1, StateOfValues DEF Faults
      <3>a. TrackOf("state", can_state[c], fault[c], pend[c], seen[c])
        BY ZenonT(40), <3>1 DEF Track
      <3>b. TrackOf(IF "epi" \in seen[c] THEN StateOf[fault[c]] ELSE "ERROR_WARNING",
                    can_state[c], fault[c], pend[c], {})
        BY ZenonT(40), <1>0, <3>a, StateTracks
      <3>3. TrackOf(isr'[c], can_state[c], fault[c], pend[c], {})
        BY ZenonT(40), <3>1, <3>b
      <3> QED BY <3>1, <3>2, <3>3 DEF Track
    <2>4. CASE IsrStore(c)
      <3>1. /\ isr[c] \notin IsrSteps /\ isr'[c] = "idle" /\ can_state'[c] = isr[c]
            /\ UNCHANGED <<pend, seen, fault, moved>>
        BY <1>0, <2>4 DEF IsrStore, StateTypes, IsrSteps
      <3>2. TrackOf("idle", isr[c], fault[c], pend[c], seen[c])
        BY <1>0, <3>1, StoreTracks DEF Track
      <3> QED BY <3>1, <3>2 DEF Track
    <2> QED BY <2>1, <2>2, <2>3, <2>4 DEF IsrStep
  <1>5. c \notin torn' => Tracked(c)'
    BY <1>0, <1>1, <1>3, <1>4 DEF Tracked
  <1> QED BY <1>0, <1>1, <1>2, <1>5, OneCoreKeeps DEF StateTypes

LEMMA RstTracking ==
  ASSUME Opening, Tracking, NEW c \in Cores, RstStep(c)
  PROVE  Tracking'
  <1>0. /\ StateTypes /\ (c \notin torn => Tracked(c))
        /\ step \in {"o_start", "o_queue"} => core \notin up
    BY DEF Tracking, Opening, OpenSteps
  <1> USE DEF RstRest, devVars, boardVars
  <1>1. CASE RstBegin(c)
    <2>1. /\ rst[c] = "idle" /\ rst' = [rst EXCEPT ![c] = "reset"]
          /\ torn' = IF c \in up THEN torn ELSE torn \cup {c}
          /\ UNCHANGED <<step, core, chip, fault, pend, can_state, asleep, isr, seen, moved, up, board>>
      BY <1>1 DEF RstBegin, coreVars, isrVars
    <2>2. StateTypes'
      BY <1>0, <2>1 DEF StateTypes
    <2>3. c \notin torn' => Tracked(c)'
      <3>1. (Fresh(c) => Fresh(c)') /\ (Track(c) => Track(c)')
        BY <2>1, ZenonT(40) DEF Fresh, Track
      <3> QED BY <1>0, <2>1, <3>1 DEF Tracked, StateTypes
    <2> QED BY <1>0, <2>1, <2>2, <2>3, OneCoreKeeps DEF StateTypes
  <1>2. CASE RstReset(c)
    <2>1. /\ rst[c] = "reset" /\ chip' = chip \ {c}
          /\ \E r \in {"start", "carrier"} : rst' = [rst EXCEPT ![c] = r]
          /\ fault' = [fault EXCEPT ![c] = "active"] /\ pend' = [pend EXCEPT ![c] = {}]
          /\ torn' = IF isr[c] = "idle" THEN torn ELSE torn \cup {c}
          /\ UNCHANGED <<step, core, can_state, asleep, isr, seen, moved, up, board>>
      BY <1>2 DEF RstReset, ChipReset, isrVars
    <2>2. StateTypes'
      BY <1>0, <2>1 DEF StateTypes, Faults
    <2>3. c \notin torn' => Tracked(c)'
      BY <1>0, <2>1 DEF Tracked, Fresh, StateTypes
    <2> QED BY ZenonT(40), <1>0, <2>1, <2>2, <2>3, OneCoreKeeps DEF StateTypes
  <1>3. CASE RstStart(c)
    <2>1. /\ rst[c] = "start" /\ rst' = [rst EXCEPT ![c] = "wake"] /\ chip' = chip \cup {c}
          /\ can_state' = [can_state EXCEPT ![c] = "ERROR_ACTIVE"]
          /\ UNCHANGED <<step, core, fault, pend, asleep, isr, seen, moved, torn, up, board>>
      BY <1>3 DEF RstStart, ChipEnable, isrVars
    <2>2. StateTypes'
      BY <1>0, <2>1 DEF StateTypes, CanStates, States
    <2>3. c \notin torn' => Tracked(c)'
      <3> SUFFICES ASSUME c \notin torn PROVE Tracked(c)'
        BY <2>1
      <3>1. Fresh(c) /\ c \in up
        BY <1>0, <2>1 DEF Tracked
      <3>2. Track(c)'
        BY <1>0, <2>1, <3>1, StateOfValues DEF Track, TrackOf, Fresh, Agree, IsrSteps, StateTypes
      <3> QED BY <1>0, <2>1, <3>1, <3>2 DEF Tracked, StateTypes
    <2> QED BY ZenonT(40), <1>0, <2>1, <2>2, <2>3, OneCoreKeeps DEF StateTypes
  <1>4. CASE RstWake(c) \/ RstCarrier(c)
    <2>1. /\ \E r \in {"carrier", "idle"} : rst' = [rst EXCEPT ![c] = r] /\ rst[c] # "start"
          /\ rst[c] # "idle"
          /\ UNCHANGED <<step, core, chip, fault, pend, can_state, asleep, isr, seen, moved,
                         torn, up, board>>
      BY <1>4 DEF RstWake, RstCarrier, coreVars, isrVars
    <2>2. StateTypes'
      BY <1>0, <2>1 DEF StateTypes
    <2>3. c \notin torn' => Tracked(c)'
      <3>1. (Fresh(c) => Fresh(c)') /\ (Track(c) => Track(c)')
        BY <2>1, ZenonT(40) DEF Fresh, Track
      <3> QED BY <1>0, <2>1, <3>1 DEF Tracked, StateTypes
    <2> QED BY <1>0, <2>1, <2>2, <2>3, OneCoreKeeps DEF StateTypes
  <1> QED BY <1>1, <1>2, <1>3, <1>4 DEF RstStep

LEMMA NextTracking == Opening /\ Tracking /\ [Next]_vars => Tracking'
  <1> SUFFICES ASSUME Opening, Tracking, [Next]_vars PROVE Tracking'
    OBVIOUS
  <1>1. CASE UNCHANGED vars
    BY <1>1, QuietKeeps, ZenonT(40) DEF vars, devVars, boardVars, netVars, rstVars
  <1> QED BY <1>1, ProbeTracking, CtlTracking, RemoveTracking, FaultTracking, IsrTracking,
             RstTracking DEF Next

-----------------------------------------------------------------------------
LEMMA StateInvariant == Spec => [](Opening /\ Tracking)
  BY InitOpening, NextOpening, InitTracking, NextTracking, PTL DEF Spec

\* Whatever the core does while the handler reads, clears and stores, the
\* state of a running interface is that of the core once every interrupt is
\* handled (ctu_can_fd.c:379-473, 664-732), for every number of cores.
THEOREM DriverLifeStateFollows == Spec => []StateFollowsCore
  <1>1. Tracking => StateFollowsCore
    <2> SUFFICES ASSUME Tracking, NEW c \in Cores, board \notin Sleeps, Settled(c)
                 PROVE  FollowsCore(c)
      BY DEF StateFollowsCore
    <2>1. Track(c) /\ isr[c] = "idle" /\ pend[c] = {}
      BY DEF Settled, Tracking, Tracked
    <2> QED BY <2>1 DEF Track, TrackOf, Cover, Agree, FollowsCore
  <1> QED BY <1>1, StateInvariant, PTL

-----------------------------------------------------------------------------
(* What a device holds, by the step of the activity that controls it.      *)

\* The steps between pm_runtime_get_sync and pm_runtime_put of one call.
ProbeHolds == {"signature", "reset", "register"}
OpenHolds == {"o_irq", "o_candev", "o_reset", "o_start", "o_queue"}
CloseSteps == {"c_stop", "c_irq", "c_candev"}

PciSteps == {"enabled", "regions", "msi", "bar1", "bar0", "bdata"}
DeviceSteps == {"clk", "pm", "signature", "reset", "register"}
CommonSteps == {"alloc", "return"} \cup DeviceSteps
RunSteps == {"bound", "undefined", "o_pm"} \cup OpenHolds \cup CloseSteps

\* Where the activity can be, for either kind of board.
Placed ==
  /\ board \in {"platform", "pci"} /\ core \in Cores
  /\ step \in {"unbound", "ioremap"} \cup PciSteps \cup CommonSteps \cup RunSteps
  /\ step \in {"ioremap", "clk"} => board = "platform"
  /\ step \in PciSteps => board = "pci"
  /\ step \in PciSteps \cup {"ioremap"} => core = 1
  /\ step \in CommonSteps /\ board = "platform" => core = 1 /\ num_cores = 1
  /\ step = "return" => ret \in {"ok", "unsigned", "error"}
  /\ num_cores \in Cores
  /\ board = "platform" => num_cores = 1
  /\ removing \in BOOLEAN /\ (removing => step \in {"bound"} \cup CloseSteps)

\* Acquired so far: everything but MSI, which is optional.
Holding ==
  /\ step \in {"unbound", "ioremap"} => held = {}
  /\ \A i \in DOMAIN Acquire :
       step = Acquire[i] => held \subseteq Released(i) /\ Released(i) \subseteq held \cup {"msi"}
  /\ board = "pci" /\ step \in CommonSteps \cup RunSteps =>
       /\ held \subseteq PciSteps \cup {"a2p_ie"} /\ PciSteps \subseteq held \cup {"msi"}
       /\ step \in CommonSteps \/ removing => "a2p_ie" \notin held
  /\ board = "platform" => held \subseteq {"pm_enabled"}
  /\ board = "platform" /\ (step \in {"alloc", "clk", "pm"} \/ (step = "return" /\ ret = "error")) =>
       held = {}

\* Net devices: one that is not registered belongs to the probe of its core.
Listed ==
  /\ ndev \in [Cores -> {"none", "alloc", "registered"}]
  /\ napi \subseteq Cores /\ listed \subseteq Cores
  /\ \A c \in Cores :
       /\ c \in napi <=> ndev[c] = "registered"
       /\ c \in listed <=> board = "pci" /\ ndev[c] # "none"
       /\ ndev[c] = "alloc" <=> c = core /\ step \in DeviceSteps
       /\ ndev[c] # "none" => board = "pci" \/ c = 1
       /\ ndev[c] # "none" => step \notin {"unbound", "ioremap"} \cup PciSteps
       /\ ndev[c] # "none" /\ step \in CommonSteps => c <= core
       /\ ndev[c] # "none" /\ (step = "alloc" \/ (step = "return" /\ ret = "error")) => c # core
  /\ step \in {"unbound", "ioremap"} \cup PciSteps => drvdata = "null"

\* Interrupt handlers: those of the open interfaces, from request_irq to
\* free_irq.
Handlers ==
  /\ up \subseteq Cores /\ irq \subseteq Cores
  /\ \A c \in Cores :
       /\ c \in up => ndev[c] = "registered" /\ step \in RunSteps
       /\ c \in irq <=> \/ c \in up /\ ~(step = "c_candev" /\ c = core)
                        \/ c = core /\ step \in OpenHolds \ {"o_irq"}
  /\ step \in OpenHolds \cup {"o_pm"} => core \notin up /\ ndev[core] = "registered"
  /\ step \in CloseSteps => core \in up

Resources == Placed /\ Holding /\ Listed /\ Handlers

\* The resources in their order: each is a step of its own.
LEMMA ReleasedNext ==
  /\ DOMAIN Acquire = 1..6 /\ Len(Acquire) = 6 /\ Released(1) = {}
  /\ \A i \in 1..6 : Acquire[i] \in PciSteps /\ Released(i + 1) = Released(i) \cup {Acquire[i]}
  /\ \A i, j \in 1..6 : Acquire[i] = Acquire[j] => i = j
  /\ \A i \in 1..6 : Acquire[i] \notin Released(i)
  /\ Released(7) = PciSteps
  <1>1. DOMAIN Acquire = 1..6 /\ Len(Acquire) = 6
    BY DEF Acquire
  <1>2. \A i \in 1..6 : Acquire[i] \in PciSteps
    BY DEF Acquire, PciSteps
  <1>3. \A i \in 1..6 : Released(i + 1) = Released(i) \cup {Acquire[i]}
    BY DEF Released
  <1>4. \A i, j \in 1..6 : Acquire[i] = Acquire[j] => i = j
    BY DEF Acquire
  <1>5. Released(1) = {}
    BY DEF Released
  <1>6. \A i \in 1..6 : Acquire[i] \notin Released(i)
    BY <1>4 DEF Released
  <1>7. Released(7) = PciSteps
    BY DEF Released, Acquire, PciSteps
  <1> QED BY <1>1, <1>2, <1>3, <1>4, <1>5, <1>6, <1>7

LEMMA OneCore == 1 \in Cores
  BY DriverLifeAssumption DEF Cores

LEMMA InitResources == Init => Resources
  <1> SUFFICES ASSUME Init PROVE Resources
    OBVIOUS
  <1>1. /\ board \in {"platform", "pci"} /\ num_cores \in Cores /\ 1 \in Cores
        /\ board = "platform" => num_cores = 1
    BY DriverLifeAssumption DEF Init, Cores
  <1>2. /\ step = "unbound" /\ core = 1 /\ removing = FALSE /\ held = {} /\ drvdata = "null"
        /\ ndev = [c \in Cores |-> "none"] /\ listed = {} /\ napi = {} /\ irq = {} /\ up = {}
    BY ZenonT(40) DEF Init
  <1> USE DEF PciSteps, DeviceSteps, CommonSteps, RunSteps, OpenHolds, CloseSteps
  <1>3. Placed
    BY ZenonT(40), <1>1, <1>2 DEF Placed
  <1>4. Holding
    BY <1>2, ReleasedNext DEF Holding
  <1>5. Listed /\ Handlers
    BY <1>2 DEF Listed, Handlers
  <1> QED BY <1>3, <1>4, <1>5 DEF Resources

\* While no interface is open, no step of the probe is about an interrupt.
LEMMA ProbeHandlers ==
  ASSUME Resources, UNCHANGED <<irq, up>>, step \notin RunSteps,
         step' \notin RunSteps \ {"bound"}
  PROVE  Handlers'
  <1>1. up = {} /\ irq = {}
    BY DEF Resources, Handlers, RunSteps
  <1> QED BY <1>1 DEF Handlers, RunSteps, OpenHolds, CloseSteps

LEMMA ProbeResources == Resources /\ ProbeStep => Resources'
  <1> SUFFICES ASSUME Resources, ProbeStep PROVE Resources'
    OBVIOUS
  <1> USE DEF PciSteps, DeviceSteps, CommonSteps, RunSteps, OpenHolds, CloseSteps,
              Return, ProbeFails
  <1>0. /\ Placed /\ Holding /\ Listed
        /\ DOMAIN Acquire = 1..6 /\ Len(Acquire) = 6
    BY ReleasedNext DEF Resources
  <1>a. ASSUME UNCHANGED <<irq, up>>, step \notin RunSteps, step' \notin RunSteps \ {"bound"}
        PROVE  Handlers'
    BY <1>a, ProbeHandlers
  <1>b. ASSUME Placed', Holding', Listed', Handlers' PROVE Resources'
    BY <1>b DEF Resources
  <1>c. \A i \in DOMAIN Acquire : Acquire[i] \in PciSteps
    BY ReleasedNext
  <1> USE DEF runVars, CommonRest, devVars, boardVars
  <1>1. CASE Probe
    <2>0. /\ step = "unbound" /\ core' = 1
          /\ step' = IF board = "pci" THEN "enabled" ELSE "ioremap"
          /\ UNCHANGED <<board, num_cores, removing, held, drvdata, ndev, listed, napi, irq, up>>
      <3>1. Acquire[1] = "enabled"
        BY DEF Acquire
      <3> QED BY <1>1, <3>1, ZenonT(40) DEF Probe
    <2>1. Placed'
      BY <1>0, <2>0, OneCore DEF Placed
    <2>2. Holding'
      <3>1. Released(1) = {} /\ \A i \in DOMAIN Acquire : Acquire[i] = "enabled" => i = 1
        BY ReleasedNext DEF Acquire
      <3> QED BY <1>0, <1>c, <2>0, <3>1 DEF Placed, Holding
    <2>3. Listed'
      BY <1>0, <2>0 DEF Listed, Placed
    <2>4. Handlers'
      BY <1>a, <2>0
    <2> QED BY <1>b, <2>1, <2>2, <2>3, <2>4
  <1>2. CASE PlatformProbe
    <2>0. /\ step = "ioremap" /\ step' \in {"alloc", "unbound"}
          /\ UNCHANGED <<board, num_cores, core, removing, held, drvdata, ndev, listed, napi, irq, up>>
      BY <1>2, ZenonT(40) DEF PlatformProbe
    <2>1. Placed'
      BY <1>0, <2>0 DEF Placed
    <2>2. Holding'
      BY <1>0, <1>c, <2>0 DEF Placed, Holding
    <2>3. Listed'
      BY <1>0, <2>0 DEF Listed
    <2>4. Handlers'
      BY <1>a, <2>0
    <2> QED BY <1>b, <2>1, <2>2, <2>3, <2>4
  <1>3. ASSUME NEW i \in DOMAIN Acquire, PciAcquire(i) PROVE Resources'
    <2>0. /\ i \in 1..6 /\ step = Acquire[i] /\ step \in PciSteps /\ board = "pci"
          /\ held \subseteq Released(i) /\ Released(i) \subseteq held \cup {"msi"}
          /\ UNCHANGED <<board, num_cores, core, removing, ndev, listed, napi, irq, up>>
      BY <1>0, <1>3, ReleasedNext DEF PciAcquire, Placed, Holding
    <2>1. CASE step' = "unbound" /\ held' = held \ Released(i) /\ UNCHANGED drvdata
      <3>1. held' = {}
        BY <2>0, <2>1
      <3>2. Placed'
        BY <1>0, <2>0, <2>1 DEF Placed
      <3>3. Holding'
        BY <2>0, <2>1, <3>1, ReleasedNext DEF Holding
      <3>4. Listed'
        BY <1>0, <2>0, <2>1 DEF Listed
      <3>5. Handlers'
        BY <1>a, <2>0, <2>1
      <3> QED BY <1>b, <3>2, <3>3, <3>4, <3>5
    <2>2. CASE /\ PciNext(i) /\ (held' = held \cup {Acquire[i]} \/ (step = "msi" /\ UNCHANGED held))
               /\ drvdata' = IF Acquire[i] = "bdata" THEN "bdata" ELSE drvdata
      <3>1. /\ held' \subseteq Released(i + 1) /\ Released(i + 1) \subseteq held' \cup {"msi"}
        BY <2>0, <2>2, ReleasedNext
      <3>2. CASE i < 6
        <4>1. step' = Acquire[i + 1] /\ i + 1 \in 1..6 /\ step' \in PciSteps
          BY <1>0, <2>0, <2>2, <3>2, ReleasedNext DEF PciNext
        <4>2. Acquire[i] # "bdata"
          BY <2>0, <3>2 DEF Acquire
        <4>3. Placed'
          BY <1>0, <2>0, <4>1 DEF Placed
        <4>4. Holding'
          <5>1. \A k \in 1..6 : step' = Acquire[k] => k = i + 1
            BY ZenonT(40), <4>1, ReleasedNext
          <5> QED BY <1>0, <2>0, <3>1, <4>1, <5>1 DEF Holding
        <4>5. Listed'
          BY <1>0, <2>0, <2>2, <4>1, <4>2 DEF Listed
        <4>6. Handlers'
          BY <1>a, <2>0, <4>1
        <4> QED BY <1>b, <4>3, <4>4, <4>5, <4>6
      <3>3. CASE i = 6
        <4>1. step' = "alloc" /\ held' \subseteq PciSteps /\ PciSteps \subseteq held' \cup {"msi"}
          BY <1>0, <2>0, <2>2, <3>1, <3>3, ReleasedNext DEF PciNext
        <4>3. Placed'
          BY <1>0, <2>0, <4>1 DEF Placed
        <4>4. Holding'
          BY <2>0, <4>1, ReleasedNext DEF Holding
        <4>5. Listed'
          BY <1>0, <2>0, <4>1 DEF Listed
        <4>6. Handlers'
          BY <1>a, <2>0, <4>1
        <4> QED BY <1>b, <4>3, <4>4, <4>5, <4>6
      <3> QED BY <2>0, <3>2, <3>3
    <2>3. \/ step' = "unbound" /\ held' = held \ Released(i) /\ UNCHANGED drvdata
          \/ /\ PciNext(i) /\ (held' = held \cup {Acquire[i]} \/ (step = "msi" /\ UNCHANGED held))
             /\ drvdata' = IF Acquire[i] = "bdata" THEN "bdata" ELSE drvdata
      BY <1>3, ZenonT(40) DEF PciAcquire
    <2> QED BY <2>1, <2>2, <2>3, ZenonT(40)
  <1>4. CASE CommonAlloc
    <2>0. /\ step = "alloc" /\ UNCHANGED <<board, num_cores, core, removing, irq, up, held, napi>>
          /\ \/ /\ step' = "pm" /\ board = "pci" /\ UNCHANGED drvdata
                /\ ndev' = [ndev EXCEPT ![core] = "alloc"] /\ listed' = listed \cup {core}
             \/ /\ step' = "clk" /\ board # "pci" /\ UNCHANGED listed
                /\ ndev' = [ndev EXCEPT ![core] = "alloc"]
             \/ step' = "return" /\ ret' = "error" /\ UNCHANGED <<ndev, listed, drvdata>>
      BY <1>4, ZenonT(40) DEF CommonAlloc
    <2>1. Placed'
      BY <1>0, <2>0 DEF Placed
    <2>2. Holding'
      BY <1>0, <1>c, <2>0 DEF Placed, Holding
    <2>3. Listed'
      <3>1. core \in Cores /\ core <= core
        BY <1>0, DriverLifeAssumption DEF Placed, Cores
      <3>2. CASE step' = "return"
        BY <1>0, <2>0, <3>2 DEF Listed
      <3>3. CASE step' = "pm"
        BY <1>0, <2>0, <3>1, <3>3 DEF Listed
      <3>4. CASE step' = "clk"
        BY <1>0, <2>0, <3>1, <3>4 DEF Placed, Listed
      <3> QED BY <2>0, <3>2, <3>3, <3>4
    <2>4. Handlers'
      BY <1>a, <2>0
    <2> QED BY <1>b, <2>1, <2>2, <2>3, <2>4
  <1>5. CASE CommonClk
    <2>0. /\ step = "clk" /\ UNCHANGED <<board, num_cores, core, removing, irq, up, held, drvdata>>
          /\ \/ step' = "pm" /\ UNCHANGED <<ndev, listed, napi>>
             \/ FreeCandev(core) /\ step' = "return" /\ ret' = "error"
      BY <1>5, ZenonT(40) DEF CommonClk
    <2>1. Placed'
      BY <1>0, <2>0 DEF Placed
    <2>2. Holding'
      BY <1>0, <1>c, <2>0 DEF Placed, Holding
    <2>3. Listed'
      BY <1>0, <2>0 DEF FreeCandev, Placed, Listed
    <2>4. Handlers'
      BY <1>a, <2>0
    <2> QED BY <1>b, <2>1, <2>2, <2>3, <2>4
  <1>6. CASE CommonPm
    <2>0. /\ step = "pm" /\ UNCHANGED <<board, num_cores, core, removing, irq, up, drvdata>>
          /\ \/ /\ step' = "signature" /\ UNCHANGED <<ndev, listed, napi>>
                /\ held' = held \cup (IF board = "pci" THEN {} ELSE {"pm_enabled"})
             \/ FreeCandev(core) /\ step' = "return" /\ ret' = "error" /\ UNCHANGED held
      BY <1>6, ZenonT(40) DEF CommonPm
    <2>1. Placed'
      BY <1>0, <2>0 DEF Placed
    <2>2. Holding'
      BY <1>0, <1>c, <2>0 DEF Placed, Holding
    <2>3. Listed'
      BY <1>0, <2>0 DEF FreeCandev, Placed, Listed
    <2>4. Handlers'
      BY <1>a, <2>0
    <2> QED BY <1>b, <2>1, <2>2, <2>3, <2>4
  <1>7. CASE CommonSignature
    <2>0. /\ step = "signature" /\ UNCHANGED <<board, num_cores, core, removing, irq, up, drvdata>>
          /\ \/ step' = "reset" /\ UNCHANGED <<held, ndev, listed, napi>>
             \/ FreeCandev(core) /\ step' = "return" /\ ret' = "unsigned" /\ held' = held \ {"pm_enabled"}
      BY <1>7, ZenonT(40) DEF CommonSignature
    <2>1. Placed'
      BY <1>0, <2>0 DEF Placed
    <2>2. Holding'
      BY <1>0, <1>c, <2>0 DEF Placed, Holding
    <2>3. Listed'
      BY <1>0, <2>0 DEF FreeCandev, Placed, Listed
    <2>4. Handlers'
      BY <1>a, <2>0
    <2> QED BY <1>b, <2>1, <2>2, <2>3, <2>4
  <1>8. CASE CommonReset
    <2>0. /\ step = "reset" /\ UNCHANGED <<board, num_cores, core, removing, irq, up, drvdata>>
          /\ \/ step' = "register" /\ UNCHANGED <<held, ndev, listed, napi>>
             \/ FreeCandev(core) /\ step' = "return" /\ ret' = "error" /\ held' = held \ {"pm_enabled"}
      BY <1>8, ZenonT(40) DEF CommonReset
    <2>1. Placed'
      BY <1>0, <2>0 DEF Placed
    <2>2. Holding'
      BY <1>0, <1>c, <2>0 DEF Placed, Holding
    <2>3. Listed'
      BY <1>0, <2>0 DEF FreeCandev, Placed, Listed
    <2>4. Handlers'
      BY <1>a, <2>0
    <2> QED BY <1>b, <2>1, <2>2, <2>3, <2>4
  <1>9. CASE CommonRegister
    <2>0. /\ step = "register" /\ step' = "return" /\ UNCHANGED <<board, num_cores, core, removing, irq, up, drvdata>>
          /\ \/ /\ ndev' = [ndev EXCEPT ![core] = "registered"] /\ napi' = napi \cup {core}
                /\ ret' = "ok" /\ UNCHANGED <<held, listed>>
             \/ FreeCandev(core) /\ ret' = "error" /\ held' = held \ {"pm_enabled"}
      BY <1>9, ZenonT(40) DEF CommonRegister
    <2>1. Placed'
      BY <1>0, <2>0 DEF Placed
    <2>2. Holding'
      BY <1>0, <1>c, <2>0 DEF Placed, Holding
    <2>3. Listed'
      BY <1>0, <2>0 DEF FreeCandev, Placed, Listed
    <2>4. Handlers'
      BY <1>a, <2>0
    <2> QED BY <1>b, <2>1, <2>2, <2>3, <2>4
  <1>10. CASE ProbeReturn
    <2>0. /\ step = "return" /\ UNCHANGED <<board, num_cores, removing, ndev, listed, napi, irq, up>>
          /\ \/ /\ step' = "bound" /\ UNCHANGED core
                /\ board = "platform" /\ UNCHANGED <<held, drvdata>>
             \/ /\ step' = "unbound" /\ drvdata' = "null" /\ UNCHANGED core
                /\ board = "platform" /\ ret = "error" /\ UNCHANGED held
             \/ /\ step' = "unbound" /\ drvdata' = "null" /\ UNCHANGED core
                /\ board # "platform" /\ core = 1 /\ ret = "error" /\ held' = held \ Released(7)
             \/ /\ step' = "alloc" /\ core' = core + 1 /\ UNCHANGED <<held, drvdata>>
                /\ board # "platform" /\ ret # "error" /\ core < num_cores
             \/ /\ step' = "bound" /\ held' = held \cup {"a2p_ie"} /\ UNCHANGED <<core, drvdata>>
                /\ board # "platform"
      BY <1>0, <1>10 DEF ProbeReturn
    <2>1. Placed'
      <3>1. core' \in Cores
        BY <1>0, <2>0, DriverLifeAssumption DEF Placed, Cores
      <3> QED BY <1>0, <2>0, <3>1 DEF Placed
    <2>2. Holding'
      <3>0. step = "return" /\ step' \in {"bound", "unbound", "alloc"} /\ UNCHANGED <<board, removing>>
        BY <2>0
      <3>1. \A i \in DOMAIN Acquire : step' # Acquire[i]
        BY <1>c, <3>0
      <3>2. CASE board = "platform" /\ UNCHANGED held /\ step' \in {"bound", "unbound"}
                 /\ (step' = "unbound" => ret = "error")
        <4>1. held \subseteq {"pm_enabled"} /\ (ret = "error" => held = {})
          BY <1>0, <3>0, <3>2 DEF Holding
        <4> QED BY <3>0, <3>1, <3>2, <4>1 DEF Holding
      <3>3. CASE board = "pci" /\ step' = "unbound" /\ held' = held \ Released(7)
        <4>1. held \subseteq PciSteps \cup {"a2p_ie"} /\ "a2p_ie" \notin held
          BY <1>0, <3>0, <3>3 DEF Holding
        <4>2. held' = held \ PciSteps
          BY <3>3, ReleasedNext
        <4>3. held' = {}
          BY <4>1, <4>2, ZenonT(40)
        <4> QED BY <3>0, <3>1, <3>3, <4>3 DEF Holding
      <3>4. CASE board = "pci" /\ step' = "alloc" /\ UNCHANGED held
        BY <1>0, <3>0, <3>1, <3>4 DEF Holding
      <3>5. CASE board = "pci" /\ step' = "bound" /\ held' = held \cup {"a2p_ie"}
        <4>1. removing' = FALSE
          BY <1>0, <3>0 DEF Placed
        <4> QED BY <1>0, <3>0, <3>1, <3>5, <4>1 DEF Holding
      <3>6. board \in {"platform", "pci"}
        BY <1>0 DEF Placed
      <3> QED BY <2>0, <3>2, <3>3, <3>4, <3>5, <3>6
    <2>3. Listed'
      BY <1>0, <2>0, DriverLifeAssumption DEF Placed, Listed, Cores
    <2>4. Handlers'
      BY <1>a, <2>0
    <2> QED BY <1>b, <2>1, <2>2, <2>3, <2>4
  <1> QED BY ZenonT(40), <1>1, <1>2, <1>3, <1>4, <1>5, <1>6, <1>7, <1>8, <1>9, <1>10 DEF ProbeStep

\* Open, close, suspend and resume leave the probe's work alone.
LEMMA RunKeeps ==
  ASSUME Resources, step \in RunSteps, step' \in RunSteps, core' \in Cores,
         removing => step' \in {"bound"} \cup CloseSteps,
         UNCHANGED <<board, num_cores, removing, held, drvdata, ndev, listed, napi>>
  PROVE  Placed' /\ Holding' /\ Listed'
  <1> USE DEF PciSteps, DeviceSteps, CommonSteps, RunSteps, OpenHolds, CloseSteps, Resources
  <1>1. Placed'
    BY DEF Placed
  <1>2. Holding'
    BY ReleasedNext DEF Placed, Holding
  <1>3. Listed'
    BY DEF Listed
  <1> QED BY <1>1, <1>2, <1>3

LEMMA CtlResources == Resources /\ CtlStep => Resources'
  <1> SUFFICES ASSUME Resources, CtlStep PROVE Resources'
    OBVIOUS
  <1> USE DEF RunSteps, OpenHolds, CloseSteps
  <1>0. Placed /\ Handlers
    BY DEF Resources
  <1>a. ASSUME step \in RunSteps, step' \in RunSteps, core' \in Cores,
               removing => step' \in {"bound"} \cup CloseSteps, Handlers',
               UNCHANGED <<board, num_cores, removing, held, drvdata, ndev, listed, napi>>
        PROVE  Resources'
    BY <1>a, RunKeeps DEF Resources
  <1>1. ASSUME NEW c \in Cores, Open(c) PROVE Resources'
    <2>1. /\ step = "bound" /\ step' = "o_pm" /\ core' = c /\ ~removing
          /\ ndev[c] = "registered" /\ c \notin up /\ UNCHANGED <<irq, up>>
          /\ UNCHANGED <<board, num_cores, removing, held, drvdata, ndev, listed, napi>>
      BY <1>1, ZenonT(40) DEF Open, Idle, CtlRest, devVars, boardVars
    <2>2. Handlers'
      BY <1>0, <2>1 DEF Handlers
    <2> QED BY <1>a, <2>1, <2>2
  <1>2. ASSUME NEW c \in Cores, Close(c) PROVE Resources'
    <2>1. /\ step = "bound" /\ step' = "c_stop" /\ core' = c /\ c \in up /\ UNCHANGED <<irq, up>>
          /\ UNCHANGED <<board, num_cores, removing, held, drvdata, ndev, listed, napi>>
      BY <1>2, ZenonT(40) DEF Close, CloseQueue, Idle, CtlRest, devVars, boardVars
    <2>2. Handlers'
      BY <1>0, <2>1 DEF Handlers
    <2> QED BY <1>a, <2>1, <2>2
  \* The steps of one call, about its core.
  <1>3. CASE /\ step \in RunSteps \ {"bound"} /\ step' \in RunSteps /\ UNCHANGED core
             /\ removing => step' \in {"bound"} \cup CloseSteps
             /\ \/ step = "o_pm" /\ step' \in {"o_irq", "bound"} /\ UNCHANGED <<irq, up>>
                \/ step = "o_irq" /\ step' = "o_candev" /\ irq' = irq \cup {core} /\ UNCHANGED up
                \/ step = "o_irq" /\ step' = "bound" /\ UNCHANGED <<irq, up>>
                \/ step = "o_candev" /\ step' = "o_reset" /\ UNCHANGED <<irq, up>>
                \/ step = "o_reset" /\ step' = "o_start" /\ UNCHANGED <<irq, up>>
                \/ step = "o_start" /\ step' = "o_queue" /\ UNCHANGED <<irq, up>>
                \/ /\ step \in {"o_candev", "o_reset"} /\ step' = "bound"
                   /\ irq' = irq \ {core} /\ UNCHANGED up
                \/ step = "o_queue" /\ step' = "bound" /\ up' = up \cup {core} /\ UNCHANGED irq
                \/ step = "c_stop" /\ step' = "c_irq" /\ UNCHANGED <<irq, up>>
                \/ step = "c_irq" /\ step' = "c_candev" /\ irq' = irq \ {core} /\ UNCHANGED up
                \/ step = "c_candev" /\ step' = "bound" /\ up' = up \ {core} /\ UNCHANGED irq
             /\ UNCHANGED <<board, num_cores, removing, held, drvdata, ndev, listed, napi>>
    <2>1. core \in Cores
      BY <1>0 DEF Placed
    <2>2. Handlers'
      BY <1>0, <1>3, <2>1 DEF Handlers
    <2> QED BY <1>a, <1>3, <2>1, <2>2
  <1>4. removing => step \in {"bound"} \cup CloseSteps
    BY <1>0 DEF Placed
  <1>5. CASE OpenPm \/ OpenIrq \/ OpenCandev
    BY ZenonT(40), <1>3, <1>4, <1>5 DEF OpenPm, OpenIrq, OpenCandev, CtlRest, devVars, boardVars
  <1>6. CASE OpenReset \/ OpenStart \/ OpenQueue
    BY ZenonT(40), <1>3, <1>4, <1>6 DEF OpenReset, OpenStart, OpenQueue, CtlRest, devVars, boardVars
  <1>7. CASE CloseStop \/ CloseIrq \/ CloseCandev
    BY ZenonT(40), <1>3, <1>4, <1>7 DEF CloseStop, CloseIrq, CloseCandev, CtlRest, devVars, boardVars
  <1>8. CASE GetBerrCounter \/ Suspend \/ Resume
    <2>1. /\ step = "bound" /\ step' \in {"bound", "undefined"} /\ removing = FALSE
          /\ UNCHANGED <<core, irq, up>>
          /\ UNCHANGED <<board, num_cores, removing, held, drvdata, ndev, listed, napi>>
      <3>1. removing \in BOOLEAN
        BY <1>0 DEF Placed
      <3> QED BY <1>8, <3>1, ZenonT(40) DEF GetBerrCounter, Suspend, Resume, Idle, CtlRest, devVars, boardVars
    <2>2. Handlers' /\ core' \in Cores
      BY <1>0, <2>1 DEF Handlers, Placed
    <2> QED BY <1>a, <2>1, <2>2
  <1> QED BY <1>1, <1>2, <1>5, <1>6, <1>7, <1>8 DEF CtlStep

LEMMA RemoveResources == Resources /\ RemoveStep => Resources'
  <1> SUFFICES ASSUME Resources, RemoveStep PROVE Resources'
    OBVIOUS
  <1> USE DEF PciSteps, DeviceSteps, CommonSteps, RunSteps, OpenHolds, CloseSteps
  <1>0. Placed /\ Holding /\ Listed /\ Handlers
    BY DEF Resources
  <1>c. \A i \in DOMAIN Acquire : Acquire[i] # "bound"
    BY ReleasedNext
  <1>5. CASE Remove /\ Dangling
    <2>1. /\ step = "bound" /\ step' = "undefined" /\ removing = FALSE /\ UNCHANGED <<core, irq, up>>
          /\ UNCHANGED <<board, num_cores, removing, held, drvdata, ndev, listed, napi>>
      <3>1. removing \in BOOLEAN
        BY <1>0 DEF Placed
      <3> QED BY <1>5, <3>1, ZenonT(40) DEF Remove, Idle, runVars, devVars, boardVars
    <2>2. Handlers' /\ core' \in Cores
      BY <1>0, <2>1 DEF Handlers, Placed
    <2>3. Placed' /\ Holding' /\ Listed'
      BY <2>1, <2>2, RunKeeps
    <2> QED BY <2>2, <2>3 DEF Resources
  <1>1. CASE Remove /\ ~Dangling
    <2>0. /\ step = "bound" /\ removing' = TRUE /\ held' = held \ {"a2p_ie"}
          /\ UNCHANGED <<board, num_cores, step, core, drvdata, ndev, listed, napi, irq, up, ret>>
      BY <1>1, ZenonT(40) DEF Remove, Idle, runVars, devVars, boardVars
    <2>1. Placed'
      BY ZenonT(40), <1>0, <2>0 DEF Placed
    <2>2. Holding'
      BY <1>0, <1>c, <2>0 DEF Holding
    <2>3. Listed' /\ Handlers'
      BY <1>0, <2>0 DEF Listed, Handlers
    <2> QED BY <2>1, <2>2, <2>3 DEF Resources
  <1>2. ASSUME NEW c \in Cores, RemoveClose(c) PROVE Resources'
    <2>1. /\ step = "bound" /\ step' = "c_stop" /\ core' = c /\ c \in up /\ UNCHANGED <<irq, up>>
          /\ UNCHANGED <<board, num_cores, removing, held, drvdata, ndev, listed, napi>>
      BY <1>2, ZenonT(40) DEF RemoveClose, CloseQueue, CtlRest, devVars, boardVars
    <2>2. Handlers'
      BY <1>0, <2>1 DEF Handlers
    <2>3. Placed' /\ Holding' /\ Listed'
      BY <2>1, RunKeeps
    <2> QED BY <2>2, <2>3 DEF Resources
  <1>3. ASSUME NEW c \in Cores, RemoveDevice(c) PROVE Resources'
    <2>0. /\ step = "bound" /\ c \notin up
          /\ ndev' = [ndev EXCEPT ![c] = "none"] /\ listed' = listed \ {c} /\ napi' = napi \ {c}
          /\ UNCHANGED <<board, num_cores, step, core, removing, held, drvdata, irq, up, ret>>
      BY <1>3, ZenonT(40) DEF RemoveDevice, FreeCandev, runVars, devVars, boardVars
    <2>1. Placed'
      BY ZenonT(40), <1>0, <2>0 DEF Placed
    <2>2. Holding'
      BY <1>0, <1>c, <2>0 DEF Holding
    <2>3. Listed' /\ Handlers'
      BY <1>0, <2>0 DEF Listed, Handlers
    <2> QED BY <2>1, <2>2, <2>3 DEF Resources
  <1>4. CASE RemoveRelease
    <2>0. /\ removing /\ step = "bound" /\ step' = "unbound" /\ Devices = {}
          /\ held' = held \ (IF board = "pci" THEN Released(7) ELSE {"pm_enabled"})
          /\ drvdata' = "null" /\ removing' = FALSE
          /\ UNCHANGED <<board, num_cores, core, ndev, listed, napi, irq, up>>
      BY <1>4, ReleasedNext DEF RemoveRelease, runVars, devVars, boardVars
    <2>1. \A c \in Cores : ndev[c] = "none"
      BY <1>0, <2>0 DEF Devices, Listed, Placed
    <2>2. held' = {}
      BY <1>0, <2>0, ReleasedNext DEF Holding, Placed
    <2>3. Placed'
      BY ZenonT(40), <1>0, <2>0 DEF Placed
    <2>4. Holding'
      BY <2>0, <2>2, ReleasedNext DEF Holding
    <2>5. Listed' /\ Handlers'
      BY <1>0, <2>0, <2>1 DEF Listed, Handlers
    <2> QED BY <2>3, <2>4, <2>5 DEF Resources
  <1> QED BY ZenonT(40), <1>1, <1>2, <1>3, <1>4, <1>5 DEF RemoveStep

\* The handlers, the restart works and the core leave all of it alone.
LEMMA OthersLeave ==
  ASSUME NEW c \in Cores, CoreFault(c) \/ IsrStep(c) \/ RstStep(c)
  PROVE  /\ UNCHANGED <<board, num_cores, step, core, removing, held, drvdata, ndev, listed, napi>>
         /\ UNCHANGED <<ret, pm_lost, usage, irq, up>>
  BY ZenonT(40) DEF CoreFault, IsrStep, IsrRead, IsrClear, IsrState, IsrStore, IsrRest,
     RstStep, RstBegin, RstReset, RstStart, RstWake, RstCarrier, RstRest, probeVars, devVars, boardVars

LEMMA NextResources == Resources /\ [Next]_vars => Resources'
  <1> SUFFICES ASSUME Resources, [Next]_vars PROVE Resources'
    OBVIOUS
  <1>1. ASSUME UNCHANGED <<board, num_cores, step, core, removing, held, drvdata, ndev,
                           listed, napi, ret, irq, up>>
        PROVE  Resources'
    <2>1. Placed' /\ Holding'
      BY <1>1, ZenonT(40) DEF Resources, Placed, Holding
    <2>2. Listed'
      BY <1>1, ZenonT(40) DEF Resources, Listed
    <2>3. Handlers'
      BY <1>1, ZenonT(40) DEF Resources, Handlers
    <2>4. UNCHANGED ret
      BY <1>1, ZenonT(40)
    <2> QED BY <2>1, <2>2, <2>3, <2>4, ZenonT(40) DEF Resources
  <1>2. CASE UNCHANGED vars
    BY <1>1, <1>2, ZenonT(40) DEF vars, probeVars, devVars, boardVars
  <1>3. ASSUME NEW c \in Cores, CoreFault(c) \/ IsrStep(c) \/ RstStep(c) PROVE Resources'
    BY <1>1, <1>3, OthersLeave, ZenonT(40)
  <1> QED BY <1>2, <1>3, ProbeResources, CtlResources, RemoveResources DEF Next
-----------------------------------------------------------------------------
LEMMA ResourcesInvariant == Spec => []Resources
  BY InitResources, NextResources, PTL DEF Spec

-----------------------------------------------------------------------------
(* What drvdata points to, and the mapping of BAR 0.                       *)

\* Only a board with CTUCAN_ID gives up its mapping of BAR 0.
Mapped == with_id \/ ~leaked

\* drvdata of a platform device is its net_device from alloc_candev on.  The
\* probe that returns 0 has registered it, or freed it for want of a signature.
Attached ==
  /\ board = "pci" => drvdata # "ndev"
  /\ board = "platform" /\ (step \in DeviceSteps \cup RunSteps \/ (step = "return" /\ ret # "error")) =>
       drvdata = "ndev"
  /\ board = "platform" /\ step = "return" /\ ret # "error" => ndev[1] = "registered" \/ ret = "unsigned"
  /\ board = "platform" /\ step \in RunSteps /\ ~removing => ndev[1] = "registered" \/ ret = "unsigned"
  /\ step = "undefined" => ret = "unsigned" \/ (board = "pci" /\ board \in Sleeps)

LEMMA MappedInvariant == Spec => []Mapped
  <1>1. Init => Mapped
    BY ZenonT(40) DEF Init, Mapped
  <1>2. Mapped /\ [Next]_vars => Mapped'
    <2> SUFFICES ASSUME Mapped, [Next]_vars PROVE Mapped'
      OBVIOUS
    <2> USE DEF devVars, boardVars, Mapped
    <2>1. CASE UNCHANGED vars
      BY <2>1, ZenonT(40) DEF vars
    <2>2. CASE ProbeStep
      <3>1. ASSUME NEW i \in DOMAIN Acquire, PciAcquire(i) PROVE Mapped'
        BY <3>1, ZenonT(40) DEF PciAcquire, Unmap
      <3>2. CASE ProbeReturn
        BY <3>2, ZenonT(40) DEF ProbeReturn, Unmap
      <3>3. CASE \/ Probe \/ PlatformProbe \/ CommonAlloc \/ CommonClk \/ CommonPm
                 \/ CommonSignature \/ CommonReset \/ CommonRegister
        BY <3>3, ZenonT(40) DEF Probe, PlatformProbe, CommonAlloc, CommonClk, CommonPm,
           CommonSignature, CommonReset, CommonRegister, CommonRest
      <3> QED BY <2>2, <3>1, <3>2, <3>3, ZenonT(40) DEF ProbeStep
    <2>3. CASE CtlStep
      BY <2>3, ZenonT(40) DEF CtlStep, Open, OpenPm, OpenIrq, OpenCandev, OpenReset, OpenStart,
         OpenQueue, Close, CloseQueue, CloseStop, CloseIrq, CloseCandev, GetBerrCounter,
         Suspend, Resume, CtlRest
    <2>4. CASE RemoveStep
      BY <2>4, ZenonT(40) DEF RemoveStep, Remove, RemoveClose, CloseQueue, RemoveDevice,
         RemoveRelease, CtlRest
    <2>5. ASSUME NEW c \in Cores, CoreFault(c) \/ IsrStep(c) \/ RstStep(c) PROVE Mapped'
      BY <2>5, ZenonT(40) DEF CoreFault, IsrStep, IsrRead, IsrClear, IsrState, IsrStore, IsrRest,
         RstStep, RstBegin, RstReset, RstStart, RstWake, RstCarrier, RstRest
    <2> QED BY <2>1, <2>2, <2>3, <2>4, <2>5, ZenonT(40) DEF Next
  <1> QED BY <1>1, <1>2, PTL DEF Spec

LEMMA ProbeAttached ==
  ASSUME Resources, Resources', Attached, ProbeStep PROVE Attached'
  <1> USE DEF devVars, boardVars, CommonRest, Return, ProbeFails, FreeCandev, DeviceSteps, RunSteps,
              OpenHolds, CloseSteps
  <1>0. Placed /\ ndev \in [Cores -> {"none", "alloc", "registered"}] /\ 1 \in Cores
    BY DriverLifeAssumption DEF Resources, Listed, Cores
  <1>1. CASE Probe \/ PlatformProbe
    <2>1. /\ step' \in {"enabled", "ioremap", "alloc", "unbound"}
          /\ UNCHANGED <<board, drvdata>>
      BY <1>1 DEF Probe, PlatformProbe, Acquire
    <2> QED BY <2>1 DEF Attached
  <1>2. ASSUME NEW i \in DOMAIN Acquire, PciAcquire(i) PROVE Attached'
    <2>1. /\ step \in PciSteps /\ UNCHANGED board /\ drvdata' \in {"bdata", drvdata}
          /\ step' \in PciSteps \cup {"alloc", "unbound"}
      BY <1>2 DEF PciAcquire, PciNext, Acquire, PciSteps
    <2>2. board = "pci"
      BY <1>0, <2>1 DEF Placed
    <2> QED BY <2>1, <2>2 DEF Attached, PciSteps
  <1>3. CASE CommonAlloc
    <2>1. /\ UNCHANGED board /\ step' \in {"pm", "clk", "return"} /\ (step' = "return" => ret' = "error")
          /\ board = "pci" => UNCHANGED drvdata
          /\ board # "pci" /\ step' # "return" => drvdata' = "ndev"
      BY <1>3, ZenonT(40) DEF CommonAlloc
    <2> QED BY <1>0, <2>1 DEF Attached, Placed
  <1>4. CASE CommonClk \/ CommonPm \/ CommonReset
    <2>1. /\ UNCHANGED <<board, drvdata>> /\ step \in DeviceSteps
          /\ step' \in DeviceSteps \cup {"return"} /\ (step' = "return" => ret' = "error")
      BY <1>4, ZenonT(40) DEF CommonClk, CommonPm, CommonReset
    <2> QED BY <2>1 DEF Attached
  <1>5. CASE CommonSignature
    <2>1. /\ UNCHANGED <<board, drvdata>> /\ step = "signature"
          /\ step' \in {"reset", "return"} /\ (step' = "return" => ret' = "unsigned")
      BY <1>5, ZenonT(40) DEF CommonSignature
    <2> QED BY <2>1 DEF Attached
  <1>6. CASE CommonRegister
    <2>1. /\ UNCHANGED <<board, drvdata>> /\ step = "register" /\ step' = "return"
          /\ ret' # "error" => ndev' = [ndev EXCEPT ![core] = "registered"]
      BY <1>6 DEF CommonRegister
    <2>2. board = "platform" => core = 1
      BY <1>0, <2>1 DEF Placed, CommonSteps
    <2>3. board = "platform" /\ ret' # "error" => ndev'[1] = "registered"
      BY <1>0, <2>1, <2>2
    <2> QED BY <2>1, <2>3 DEF Attached
  <1>7. CASE ProbeReturn
    <2>1. /\ UNCHANGED <<board, ndev>> /\ step = "return" /\ drvdata' \in {"null", drvdata}
          /\ step' \in {"unbound", "bound", "alloc"}
          /\ board = "platform" /\ step' = "bound" => ret # "error" /\ UNCHANGED <<drvdata, ret>>
          /\ board = "platform" => step' # "alloc"
      BY <1>7 DEF ProbeReturn
    <2> QED BY <2>1 DEF Attached
  <1> QED BY ZenonT(40), <1>1, <1>2, <1>3, <1>4, <1>5, <1>6, <1>7 DEF ProbeStep

\* The running driver leaves drvdata, the net_device and ret alone.
LEMMA RunAttached ==
  ASSUME Resources, Attached, step \in RunSteps, step' \in RunSteps \ {"undefined"},
         UNCHANGED <<board, drvdata, ndev, ret, removing>>
  PROVE  Attached'
  BY DEF Attached, RunSteps, OpenHolds, CloseSteps, DeviceSteps

LEMMA CtlAttached == ASSUME Resources, Attached, CtlStep PROVE Attached'
  <1> USE DEF devVars, boardVars, CtlRest, Idle
  <1>1. CASE Suspend
    <2>1. /\ step = "bound" /\ removing = FALSE /\ board \in Sleeps
          /\ UNCHANGED <<board, drvdata, ndev, ret, removing>>
      <3>1. removing \in BOOLEAN
        BY DEF Resources, Placed
      <3> QED BY <1>1, <3>1, ZenonT(40) DEF Suspend
    <2>2. step' = "bound" \/ (step' = "undefined" /\ ~(drvdata = "ndev" /\ ndev[1] = "registered"))
      BY <1>1, <2>1, ZenonT(40) DEF Suspend
    <2>3. board \in {"platform", "pci"}
      BY DEF Resources, Placed
    <2> QED BY <2>1, <2>2, <2>3 DEF Attached, RunSteps, DeviceSteps
  <1>2. ASSUME NEW c \in Cores, Open(c) \/ Close(c) PROVE Attached'
    <2>1. /\ step = "bound" /\ step' \in {"o_pm", "c_stop"}
          /\ UNCHANGED <<board, drvdata, ndev, ret, removing>>
      BY <1>2, ZenonT(40) DEF Open, Close, CloseQueue
    <2> QED BY <2>1, RunAttached DEF RunSteps, CloseSteps
  <1>3. CASE OpenPm \/ OpenIrq \/ OpenCandev \/ OpenReset \/ OpenStart \/ OpenQueue
    <2>1. /\ step \in OpenHolds \cup {"o_pm"} /\ step' \in OpenHolds \cup {"bound"}
          /\ UNCHANGED <<board, drvdata, ndev, ret, removing>>
      BY <1>3, ZenonT(40) DEF OpenPm, OpenIrq, OpenCandev, OpenReset, OpenStart, OpenQueue, OpenHolds
    <2> QED BY <2>1, RunAttached DEF RunSteps, OpenHolds
  <1>4. CASE CloseStop \/ CloseIrq \/ CloseCandev
    <2>1. /\ step \in CloseSteps /\ step' \in CloseSteps \cup {"bound"}
          /\ UNCHANGED <<board, drvdata, ndev, ret, removing>>
      BY <1>4, ZenonT(40) DEF CloseStop, CloseIrq, CloseCandev, CloseSteps
    <2> QED BY <2>1, RunAttached DEF RunSteps, CloseSteps
  <1>5. CASE GetBerrCounter \/ Resume
    <2>1. step = "bound" /\ step' = "bound" /\ UNCHANGED <<board, drvdata, ndev, ret, removing>>
      BY <1>5, ZenonT(40) DEF GetBerrCounter, Resume
    <2> QED BY <2>1, RunAttached DEF RunSteps
  <1> QED BY <1>1, <1>2, <1>3, <1>4, <1>5 DEF CtlStep

LEMMA RemoveAttached == ASSUME Resources, Attached, RemoveStep PROVE Attached'
  <1> USE DEF devVars, boardVars, CtlRest, Idle
  <1>1. CASE Remove /\ Dangling
    <2>1. /\ step = "bound" /\ step' = "undefined" /\ removing = FALSE
          /\ UNCHANGED <<board, drvdata, ndev, ret, removing>>
          /\ drvdata = "ndev" /\ ndev[1] # "registered"
      <3>1. removing \in BOOLEAN
        BY DEF Resources, Placed
      <3> QED BY <1>1, <3>1, ZenonT(40) DEF Remove, Dangling
    <2>2. board \in {"platform", "pci"}
      BY DEF Resources, Placed
    <2> QED BY <2>1, <2>2 DEF Attached, RunSteps, DeviceSteps
  <1>2. CASE Remove /\ ~Dangling
    <2>1. step = "bound" /\ UNCHANGED <<board, drvdata, step>> /\ removing' = TRUE
      BY <1>2, ZenonT(40) DEF Remove
    <2> QED BY <2>1 DEF Attached, RunSteps, DeviceSteps
  <1>3. ASSUME NEW c \in Cores, RemoveClose(c) \/ RemoveDevice(c) PROVE Attached'
    <2>1. /\ step = "bound" /\ step' \in {"bound", "c_stop"} /\ removing = TRUE
          /\ UNCHANGED <<board, drvdata, removing>>
      <3>1. removing \in BOOLEAN
        BY DEF Resources, Placed
      <3> QED BY <1>3, <3>1, ZenonT(40) DEF RemoveClose, CloseQueue, RemoveDevice
    <2> QED BY <2>1 DEF Attached, RunSteps, DeviceSteps, CloseSteps
  <1>4. CASE RemoveRelease
    <2>1. step' = "unbound" /\ drvdata' = "null"
      BY <1>4, ZenonT(40) DEF RemoveRelease
    <2> QED BY <2>1 DEF Attached, RunSteps, DeviceSteps, OpenHolds, CloseSteps
  <1> QED BY <1>1, <1>2, <1>3, <1>4, ZenonT(40) DEF RemoveStep

LEMMA AttachedInvariant == Spec => []Attached
  <1>1. Init => Attached
    <2> SUFFICES ASSUME Init PROVE Attached
      OBVIOUS
    <2>1. step = "unbound" /\ drvdata = "null"
      BY ZenonT(40) DEF Init
    <2> QED BY <2>1 DEF Attached, RunSteps, DeviceSteps, OpenHolds, CloseSteps
  <1>2. Resources /\ Resources' /\ Attached /\ [Next]_vars => Attached'
    <2> SUFFICES ASSUME Resources, Resources', Attached, [Next]_vars PROVE Attached'
      OBVIOUS
    <2>1. CASE \/ UNCHANGED vars
               \/ \E c \in Cores : CoreFault(c) \/ IsrStep(c) \/ RstStep(c)
      <3>1. UNCHANGED <<board, step, drvdata, ndev, ret, removing>>
        BY <2>1, ZenonT(40) DEF CoreFault, IsrStep, IsrRead, IsrClear, IsrState, IsrStore, IsrRest,
           RstStep, RstBegin, RstReset, RstStart, RstWake, RstCarrier, RstRest, probeVars,
           devVars, boardVars, vars
      <3> QED BY <3>1, ZenonT(40) DEF Attached
    <2> QED BY <2>1, ProbeAttached, CtlAttached, RemoveAttached DEF Next
  <1> QED BY <1>1, <1>2, ResourcesInvariant, PTL DEF Spec

\* Whatever call of the probe fails, and after every removal, the driver holds
\* nothing of the device: no PCI resources, net devices, NAPI contexts or
\* interrupt handlers, no driver data, and no mappings but that of BAR 0 on a
\* board with CTUCAN_ID.  Remove and suspend use a net device that is not there
\* only after a probe without the signature, or on a board that sleeps
\* (ctu_can_fd.c:928-1040, 1063-1123, 1205-1398).
THEOREM DriverLifeUnbound == Spec => []UnboundHoldsNothing
  <1>1. Resources /\ Mapped /\ Attached => UnboundHoldsNothing
    <2> SUFFICES ASSUME Resources, Mapped, step = "unbound" PROVE AllReleased
      BY DEF UnboundHoldsNothing, Attached
    <2>1. held = {} /\ drvdata = "null" /\ \A c \in Cores : ndev[c] = "none"
      BY DEF Resources, Holding, Listed
    <2>2. listed = {} /\ napi = {}
      BY <2>1 DEF Resources, Listed
    <2>3. up = {} /\ irq = {}
      BY DEF Resources, Handlers, RunSteps, OpenHolds, CloseSteps
    <2> QED BY <2>1, <2>2, <2>3, ZenonT(40) DEF AllReleased, Mapped
  <1> QED BY <1>1, ResourcesInvariant, MappedInvariant, AttachedInvariant, PTL

-----------------------------------------------------------------------------
(* The usage count of runtime power management.                            *)

Pending == IF step \in ProbeHolds \cup OpenHolds THEN 1 ELSE 0

\* The call in progress counts itself, and is about an interface that is not
\* yet up, or still up.  A path without its put leaves the count too high.
Balanced ==
  /\ up \subseteq Cores /\ usage \in Int
  /\ step \in OpenHolds \cup {"o_pm"} => core \in Cores \ up
  /\ step \in CloseSteps => core \in up
  /\ pm_lost \in BOOLEAN
  /\ ~pm_lost => usage = Cardinality(up) + Pending
  /\ usage >= Cardinality(up) + Pending

-----------------------------------------------------------------------------
LEMMA CoresFinite == ASSUME NEW S, S \subseteq Cores
                     PROVE  IsFiniteSet(S) /\ Cardinality(S) \in Nat
  <1>1. IsFiniteSet(Cores)
    BY FS_Interval, DriverLifeAssumption DEF Cores
  <1> QED BY <1>1, FS_Subset, FS_CardinalityType

LEMMA InitBalanced == Init => Balanced
  <1> SUFFICES ASSUME Init PROVE Balanced
    OBVIOUS
  <1>1. up = {} /\ usage = 0 /\ step = "unbound" /\ ~pm_lost /\ pm_lost \in BOOLEAN
    BY ZenonT(40) DEF Init
  <1>2. Cardinality(up) = 0
    BY <1>1, FS_EmptySet
  <1> QED BY <1>1, <1>2 DEF Balanced, Pending, ProbeHolds, OpenHolds, CloseSteps

\* Steps that do not count and leave the interfaces alone.
Uncounted ==
  /\ UNCHANGED <<up, usage>>
  /\ Pending' = Pending
  /\ pm_lost' = TRUE \/ UNCHANGED pm_lost
  /\ step' \in OpenHolds \cup {"o_pm"} => core' \in Cores \ up
  /\ step' \in CloseSteps => core' \in up

LEMMA UncountedKeeps == Balanced /\ Uncounted => Balanced'
  BY ZenonT(40) DEF Balanced, Uncounted

LEMMA ProbeKeeps == Balanced /\ ProbeStep => Balanced'
  <1> SUFFICES ASSUME Balanced, ProbeStep PROVE Balanced'
    OBVIOUS
  <1> USE DEF runVars, CommonRest, Return, ProbeFails, ProbeHolds, OpenHolds, CloseSteps
  <1>1. CASE Probe \/ PlatformProbe
    <2>1. Uncounted
      BY <1>1 DEF Probe, PlatformProbe, Uncounted, Pending, Acquire
    <2> QED BY <2>1, UncountedKeeps
  <1>2. ASSUME NEW i \in DOMAIN Acquire, PciAcquire(i) PROVE Balanced'
    <2>1. /\ step \in {"enabled", "regions", "msi", "bar1", "bar0", "bdata"}
          /\ step' \in {"enabled", "regions", "msi", "bar1", "bar0", "bdata", "alloc", "unbound"}
      BY <1>2 DEF PciAcquire, PciNext, Acquire
    <2>2. UNCHANGED <<up, usage, pm_lost>>
      BY <1>2, ZenonT(40) DEF PciAcquire
    <2>3. Uncounted
      BY <2>1, <2>2 DEF Uncounted, Pending
    <2> QED BY <2>3, UncountedKeeps
  <1>3. CASE CommonAlloc \/ CommonClk
    <2>1. Uncounted
      BY <1>3 DEF CommonAlloc, CommonClk, Uncounted, Pending
    <2> QED BY <2>1, UncountedKeeps
  <1>4. CASE CommonPm
    <2>1. /\ step = "pm" /\ usage' = usage + 1 /\ UNCHANGED up
          /\ \/ step' = "signature" /\ UNCHANGED pm_lost
             \/ step' = "return" /\ pm_lost' = TRUE
      BY <1>4, ZenonT(40) DEF CommonPm
    <2>2. Cardinality(up) \in Nat
      BY CoresFinite DEF Balanced
    <2>3. pm_lost' \in BOOLEAN /\ (~pm_lost' => ~pm_lost /\ step' = "signature")
      BY <2>1, ZenonT(40) DEF Balanced
    <2> QED BY <2>2, <2>1, <2>3 DEF Balanced, Pending
  <1>5. CASE CommonSignature
    <2>1. /\ step = "signature" /\ UNCHANGED <<up, pm_lost>>
          /\ \/ step' = "reset" /\ UNCHANGED usage
             \/ step' = "return" /\ usage' = usage - 1
      BY <1>5, ZenonT(40) DEF CommonSignature
    <2>2. Cardinality(up) \in Nat
      BY CoresFinite DEF Balanced
    <2> QED BY <2>1, <2>2 DEF Balanced, Pending
  <1>6. CASE CommonReset
    <2>1. /\ step = "reset" /\ UNCHANGED <<up, usage>>
          /\ \/ step' = "register" /\ UNCHANGED pm_lost
             \/ step' = "return" /\ pm_lost' = TRUE
      BY <1>6, ZenonT(40) DEF CommonReset
    <2>2. Cardinality(up) \in Nat
      BY CoresFinite DEF Balanced
    <2>3. pm_lost' \in BOOLEAN /\ (~pm_lost' => ~pm_lost /\ step' = "register")
      BY <2>1, ZenonT(40) DEF Balanced
    <2> QED BY <2>1, <2>2, <2>3 DEF Balanced, Pending
  <1>7. CASE CommonRegister
    <2>1. /\ step = "register" /\ step' = "return" /\ usage' = usage - 1
          /\ UNCHANGED <<up, pm_lost>>
      BY <1>7, ZenonT(40) DEF CommonRegister
    <2>2. Cardinality(up) \in Nat
      BY CoresFinite DEF Balanced
    <2> QED BY <2>1, <2>2 DEF Balanced, Pending
  <1>8. CASE ProbeReturn
    <2>1. Uncounted
      BY <1>8 DEF ProbeReturn, Uncounted, Pending
    <2> QED BY <2>1, UncountedKeeps
  <1> QED BY <1>1, <1>2, <1>3, <1>4, <1>5, <1>6, <1>7, <1>8 DEF ProbeStep

LEMMA CtlKeeps == Balanced /\ CtlStep => Balanced'
  <1> SUFFICES ASSUME Balanced, CtlStep PROVE Balanced'
    OBVIOUS
  <1> USE DEF netVars, rstVars, CtlRest, Idle, ProbeHolds, OpenHolds, CloseSteps
  <1>0. IsFiniteSet(up) /\ Cardinality(up) \in Nat
    BY CoresFinite DEF Balanced
  <1>1. ASSUME NEW c \in Cores, Open(c) \/ Close(c) PROVE Balanced'
    <2>1. Uncounted
      BY <1>1 DEF Open, Close, CloseQueue, Uncounted, Pending
    <2> QED BY <2>1, UncountedKeeps
  <1>2. CASE OpenPm
    <2>1. /\ step = "o_pm" /\ usage' = usage + 1 /\ UNCHANGED <<up, core>>
          /\ \/ step' = "o_irq" /\ UNCHANGED pm_lost
             \/ step' = "bound" /\ pm_lost' = TRUE
      BY <1>2, ZenonT(40) DEF OpenPm
    <2>3. pm_lost' \in BOOLEAN /\ (~pm_lost' => ~pm_lost /\ step' = "o_irq")
      BY <2>1, ZenonT(40) DEF Balanced
    <2> QED BY <1>0, <2>1, <2>3 DEF Balanced, Pending
  <1>3. CASE OpenIrq \/ OpenCandev \/ OpenReset
    <2>1. /\ step \in {"o_irq", "o_candev", "o_reset"} /\ UNCHANGED <<up, core, pm_lost>>
          /\ \/ step' \in {"o_candev", "o_reset", "o_start"} /\ UNCHANGED usage
             \/ step' = "bound" /\ usage' = usage - 1
      BY <1>3, ZenonT(40) DEF OpenIrq, OpenCandev, OpenReset
    <2> QED BY <1>0, <2>1 DEF Balanced, Pending
  <1>4. CASE OpenStart
    BY <1>4 DEF OpenStart, Balanced, Pending
  <1>5. CASE OpenQueue
    <2>1. /\ step = "o_queue" /\ step' = "bound" /\ up' = up \cup {core}
          /\ UNCHANGED <<usage, core, pm_lost>>
      BY <1>5, ZenonT(40) DEF OpenQueue
    <2>2. core \in Cores \ up
      BY <2>1 DEF Balanced
    <2>3. Cardinality(up') = Cardinality(up) + 1
      BY <1>0, <2>1, <2>2, FS_AddElement
    <2> QED BY <1>0, <2>1, <2>2, <2>3 DEF Balanced, Pending
  <1>6. CASE CloseStop \/ CloseIrq
    BY <1>6 DEF CloseStop, CloseIrq, Balanced, Pending
  <1>7. CASE CloseCandev
    <2>1. /\ step = "c_candev" /\ step' = "bound" /\ up' = up \ {core}
          /\ usage' = usage - 1 /\ UNCHANGED pm_lost
      BY <1>7, ZenonT(40) DEF CloseCandev
    <2>2. core \in up
      BY <2>1 DEF Balanced
    <2>3. Cardinality(up') = Cardinality(up) - 1
      BY <1>0, <2>1, <2>2, FS_RemoveElement
    <2> QED BY <1>0, <2>1, <2>3 DEF Balanced, Pending
  <1>8. CASE GetBerrCounter
    <2>1. step = "bound" /\ usage' = usage + 1 /\ pm_lost' = TRUE /\ UNCHANGED <<step, up>>
      BY <1>8, ZenonT(40) DEF GetBerrCounter
    <2> QED BY <1>0, <2>1 DEF Balanced, Pending
  <1>9. CASE Suspend \/ Resume
    <2>1. Uncounted
      BY <1>9 DEF Suspend, Resume, Uncounted, Pending, Balanced
    <2> QED BY <2>1, UncountedKeeps
  <1> QED
    BY <1>1, <1>2, <1>3, <1>4, <1>5, <1>6, <1>7, <1>8, <1>9 DEF CtlStep

LEMMA RemoveKeeps == Balanced /\ RemoveStep => Balanced'
  <1> SUFFICES ASSUME Balanced, RemoveStep PROVE Balanced'
    OBVIOUS
  <1> USE DEF runVars, Idle, CtlRest, ProbeHolds, OpenHolds, CloseSteps, Uncounted, Pending
  <1>1. CASE Remove
    BY <1>1, UncountedKeeps DEF Remove
  <1>2. ASSUME NEW c \in Cores, RemoveClose(c) PROVE Balanced'
    BY <1>2, UncountedKeeps DEF RemoveClose, CloseQueue
  <1>3. ASSUME NEW c \in Cores, RemoveDevice(c) PROVE Balanced'
    BY <1>3, UncountedKeeps DEF RemoveDevice
  <1>4. CASE RemoveRelease
    BY <1>4, UncountedKeeps DEF RemoveRelease
  <1> QED BY <1>1, <1>2, <1>3, <1>4 DEF RemoveStep

LEMMA OthersKeep ==
  ASSUME Balanced, NEW c \in Cores, CoreFault(c) \/ IsrStep(c) \/ RstStep(c)
  PROVE  Balanced'
  <1>1. UNCHANGED <<step, core, up, usage, pm_lost>>
    BY ZenonT(40) DEF CoreFault, IsrStep, IsrRead, IsrClear, IsrState, IsrStore, IsrRest,
       RstStep, RstBegin, RstReset, RstStart, RstWake, RstCarrier, RstRest, probeVars
  <1> QED BY <1>1, ZenonT(40) DEF Balanced, Pending

LEMMA BalancedInvariant == Spec => []Balanced
  <1>1. Balanced /\ [Next]_vars => Balanced'
    <2> SUFFICES ASSUME Balanced, [Next]_vars PROVE Balanced'
      OBVIOUS
    <2>1. CASE UNCHANGED vars
      BY <2>1, ZenonT(40) DEF vars, probeVars, Balanced, Pending
    <2> QED BY <2>1, ProbeKeeps, CtlKeeps, RemoveKeeps, OthersKeep DEF Next
  <1> QED BY <1>1, InitBalanced, PTL DEF Spec

\* Every get of the usage count has its put: between two calls the count is
\* the number of open interfaces, unless pm_runtime_get_sync or the reset of a
\* probe has failed (ctu_can_fd.c:769-808, 832, 990-1033).
THEOREM DriverLifeUsageBalanced == Spec => []UsageIsBalanced
  <1>1. Balanced => UsageIsBalanced
    <2> SUFFICES ASSUME Balanced, step \in {"bound", "unbound"}, ~pm_lost
                 PROVE  usage = Cardinality(up)
      BY DEF UsageIsBalanced
    <2>1. Pending = 0 /\ usage = Cardinality(up) + Pending
      BY DEF Balanced, Pending, ProbeHolds, OpenHolds
    <2>2. Cardinality(up) \in Nat
      BY CoresFinite DEF Balanced
    <2> QED BY <2>1, <2>2
  <1> QED BY <1>1, BalancedInvariant, PTL

\* An interrupt handler that is registered finds its net device with its NAPI
\* context, mapped registers and a powered device, through all interleavings
\* of open, close, suspend and removal with the handlers and restarts of the
\* other cores (ctu_can_fd.c:762-841, 1110-1119, 1353-1396).
THEOREM DriverLifeHandlers == Spec => []HandlerFindsDevice
  <1>1. Balanced /\ Resources => HandlerFindsDevice
    <2> SUFFICES ASSUME Balanced, Resources, NEW c \in irq
                 PROVE  /\ ndev[c] = "registered" /\ c \in napi /\ usage > 0
                        /\ board = "pci" => {"enabled", "regions", "bar1", "bdata"} \subseteq held
      BY DEF HandlerFindsDevice
    <2>1. /\ c \in Cores /\ step \in RunSteps /\ ndev[c] = "registered"
          /\ c \in up \/ step \in OpenHolds
      BY DEF Resources, Handlers, RunSteps
    <2>2. c \in napi
      BY <2>1 DEF Resources, Listed
    <2>3. usage > 0
      <3>1. IsFiniteSet(up) /\ Cardinality(up) \in Nat /\ usage \in Int
            /\ usage >= Cardinality(up) + Pending
        BY CoresFinite DEF Balanced
      <3>2. CASE step \in OpenHolds
        BY <3>1, <3>2 DEF Pending
      <3>3. CASE c \in up
        <4>1. Cardinality(up) # 0
          BY <3>1, <3>3, FS_EmptySet
        <4> QED BY <3>1, <4>1 DEF Pending
      <3> QED BY <2>1, <3>2, <3>3
    <2>4. board = "pci" => {"enabled", "regions", "bar1", "bdata"} \subseteq held
      BY <2>1 DEF Resources, Holding, PciSteps
    <2> QED BY <2>1, <2>2, <2>3, <2>4
  <1> QED BY <1>1, ResourcesInvariant, BalancedInvariant, PTL
=============================================================================
