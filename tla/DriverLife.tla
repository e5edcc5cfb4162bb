----------------------------- MODULE DriverLife -----------------------------
(***************************************************************************)
(* The life of a device in the Linux driver (src/driver/ctu_can_fd.c): the *)
(* probe of a platform device and of a PCI board with one or two cores,    *)
(* open and close of the interface, suspend and resume, the error state of *)
(* the controller, bus-off and restart, and removal.  Every call that can  *)
(* fail fails in some behaviour; the error paths release what was acquired.*)
(*                                                                         *)
(* Probe, open, close, suspend, resume and remove exclude each other       *)
(* (device lock, rtnl lock, freezer): they are one activity, with its next *)
(* step in step.  The interrupt handlers and the restart works of the      *)
(* cores run beside it and beside each other.  Step "undefined" is the use *)
(* of a net_device that is not one, or is no more: the program does not say*)
(* what follows, and the controlling activity ends there.                  *)
(***************************************************************************)
EXTENDS Integers, Sequences, FiniteSets

CONSTANTS
  Boards,       \* subset of {"platform", "pci"}
  MaxCores,     \* cores of a PCI board
  Fails,        \* the calls that may fail
  ErrorCores,   \* boards of this many cores see errors on the bus
  Sleeps,       \* the boards that are suspended and resumed
  MaxUsage      \* bound on the usage count of the device

ASSUME DriverLifeAssumption ==
  /\ Boards \subseteq {"platform", "pci"} /\ Sleeps \subseteq Boards
  /\ MaxCores \in Nat \ {0} /\ ErrorCores \subseteq Nat /\ MaxUsage \in Nat

VARIABLES
  board, num_cores,
  with_id,      \* CTUCAN_WITH_CTUCAN_ID: cra_addr is not the address of BAR 0
  leaked,       \* a mapping of BAR 0 was given up and not unmapped
  step, core,   \* the next step of the controlling activity, and its core
  removing,     \* the controlling activity is in the remove function
  held,         \* what the device holds: PCI resources, mappings, PM enabled
  drvdata,      \* dev_get_drvdata: "null", the "bdata" of a board or an "ndev"
  ndev,         \* net_device of a core: "none", "alloc", "registered"
  listed,       \* the cores in ndev_list_head
  napi,         \* the cores with a NAPI context
  usage,        \* usage count of runtime PM
  pm_lost,      \* pm_runtime_get_sync, or the reset of a probe, has failed once
  ret,          \* result of the probe; "unsigned" is 0 without the signature
  irq, up,      \* cores with an interrupt handler; open interfaces
  chip, fault, pend,    \* per core: enabled, fault confinement, INT_STAT
  can_state, queue, carrier, asleep,    \* of the net_device
  isr, seen,    \* ctucan_interrupt: next step, isr
  moved,        \* cores that crossed a limit between the read and the clear
  work, rst,    \* the restart work is pending; its next step
  torn          \* cores reset under a running handler or a running open

boardVars == <<board, num_cores, with_id>>
devVars == <<boardVars, leaked>>
probeVars == <<removing, held, drvdata, ndev, listed, napi, ret, pm_lost>>
coreVars == <<chip, fault, pend>>
netVars == <<can_state, queue, carrier, asleep>>
isrVars == <<isr, seen, moved>>
rstVars == <<work, rst, torn>>
vars == <<devVars, step, core, probeVars, usage, irq, up, coreVars, netVars, isrVars, rstVars>>

Cores == 1..MaxCores
runVars == <<irq, up, coreVars, netVars, isrVars, rstVars>>

Failing(call) == call \in Fails

-----------------------------------------------------------------------------
(* ctucan_pci_probe and ctucan_platform_probe, up to ctucan_probe_common.  *)

\* What ctucan_pci_probe acquires, in order.  Its error labels release, from
\* the one a failing call jumps to, what was acquired before that call.
Acquire == <<"enabled", "regions", "msi", "bar1", "bar0", "bdata">>

\* Mutant: the label err_pci_iounmap_bar1 is skipped.
MutReleased(i) == {Acquire[j] : j \in 1..(i - 1)} \ {"bar1"}

Released(i) == {Acquire[j] : j \in 1..(i - 1)}

\* err_pci_iounmap_bar0 passes cra_addr to pci_iounmap, and so unmaps nothing on
\* a board where that is not the address of the mapping.
Unmap(i) == leaked' = (leaked \/ (with_id /\ "bar0" \in Released(i)))

ProbeFails == step' = "unbound" /\ ret' = "error"

Probe ==
  /\ step = "unbound" /\ core' = 1 /\ ret' = "none"
  /\ step' = IF board = "pci" THEN Acquire[1] ELSE "ioremap"
  /\ UNCHANGED <<devVars, removing, held, drvdata, ndev, listed, napi, usage, pm_lost, runVars>>

\* The first ctucan_probe_common follows the last resource, bdata.
PciNext(i) == step' = IF i < Len(Acquire) THEN Acquire[i + 1] ELSE "alloc"

\* MSI is optional; every other failure ends the probe.
PciAcquire(i) ==
  /\ step = Acquire[i]
  /\ \/ /\ held' = held \cup {Acquire[i]} /\ PciNext(i)
        /\ drvdata' = IF Acquire[i] = "bdata" THEN "bdata" ELSE drvdata
        /\ UNCHANGED <<ret, leaked>>
     \/ /\ Failing(Acquire[i]) /\ UNCHANGED drvdata
        /\ IF Acquire[i] = "msi" THEN PciNext(i) /\ UNCHANGED <<held, ret, leaked>>
                                 ELSE held' = held \ Released(i) /\ Unmap(i) /\ ProbeFails
  /\ UNCHANGED <<boardVars, core, removing, ndev, listed, napi, usage, pm_lost, runVars>>

\* devm_ioremap_resource and platform_get_irq hold nothing the driver frees.
PlatformProbe ==
  /\ step = "ioremap"
  /\ \/ step' = "alloc" /\ UNCHANGED ret
     \/ Failing("ioremap") /\ ProbeFails
  /\ UNCHANGED <<devVars, core, removing, held, drvdata, ndev, listed, napi, usage, pm_lost, runVars>>

-----------------------------------------------------------------------------
(* ctucan_probe_common for one core; step "return" is its return.          *)

CommonRest == <<devVars, core, removing, runVars>>

Return(r) == step' = "return" /\ ret' = r

\* err_free: list_del_init and free_candev, which deletes the NAPI context.
FreeCandev(c) ==
  /\ ndev' = [ndev EXCEPT ![c] = "none"]
  /\ listed' = listed \ {c}
  /\ napi' = napi \ {c}

\* alloc_candev and set_drvdata_fnc.
CommonAlloc ==
  /\ step = "alloc"
  /\ \/ /\ ndev' = [ndev EXCEPT ![core] = "alloc"]
        /\ IF board = "pci"
             THEN listed' = listed \cup {core} /\ step' = "pm" /\ UNCHANGED drvdata
             ELSE drvdata' = "ndev" /\ step' = "clk" /\ UNCHANGED listed
        /\ UNCHANGED ret
     \/ /\ Failing("alloc") /\ Return("error")
        /\ UNCHANGED <<ndev, listed, drvdata>>
  /\ UNCHANGED <<held, napi, usage, pm_lost, CommonRest>>

CommonClk ==
  /\ step = "clk"
  /\ \/ step' = "pm" /\ UNCHANGED <<ndev, listed, napi, ret>>
     \/ Failing("clk") /\ FreeCandev(core) /\ Return("error")
  /\ UNCHANGED <<held, drvdata, usage, pm_lost, CommonRest>>

\* pm_runtime_enable for a platform device, and pm_runtime_get_sync, which
\* counts the user even if it fails.  err_pmdisable does not take it back.
CommonPm ==
  /\ step = "pm" /\ usage < MaxUsage /\ usage' = usage + 1
  /\ \/ /\ step' = "signature"
        /\ held' = held \cup (IF board = "pci" THEN {} ELSE {"pm_enabled"})
        /\ UNCHANGED <<ndev, listed, napi, ret, pm_lost>>
     \/ /\ Failing("pm") /\ FreeCandev(core) /\ Return("error") /\ pm_lost' = TRUE
        /\ UNCHANGED held
  /\ UNCHANGED <<drvdata, CommonRest>>

\* Neither byte order shows the signature: err_disableclks with ret still 0.
CommonSignature ==
  /\ step = "signature"
  /\ \/ step' = "reset" /\ UNCHANGED <<held, ndev, listed, napi, usage, ret>>
     \/ /\ Failing("signature") /\ FreeCandev(core) /\ Return("unsigned")
        /\ usage' = usage - 1 /\ held' = held \ {"pm_enabled"}
  /\ UNCHANGED <<drvdata, pm_lost, CommonRest>>

\* err_pmdisable: the usage count of this call is not taken back.
CommonReset ==
  /\ step = "reset"
  /\ \/ step' = "register" /\ UNCHANGED <<held, ndev, listed, napi, ret, pm_lost>>
     \/ /\ Failing("reset") /\ FreeCandev(core) /\ Return("error") /\ pm_lost' = TRUE
        /\ held' = held \ {"pm_enabled"}
  /\ UNCHANGED <<drvdata, usage, CommonRest>>

\* netif_napi_add, register_candev, and pm_runtime_put on both paths.
CommonRegister ==
  /\ step = "register" /\ usage' = usage - 1
  /\ \/ /\ ndev' = [ndev EXCEPT ![core] = "registered"] /\ napi' = napi \cup {core}
        /\ Return("ok") /\ UNCHANGED <<held, listed>>
     \/ /\ Failing("register") /\ FreeCandev(core) /\ Return("error")
        /\ held' = held \ {"pm_enabled"}
  /\ UNCHANGED <<drvdata, pm_lost, CommonRest>>

\* Back in the probe.  A platform device is done; the first core of a board
\* decides over the board (err_free_board), a further one only over itself;
\* after the last one the bridge lets interrupts through.
ProbeReturn ==
  /\ step = "return"
  /\ IF board = "platform"
       THEN /\ step' = IF ret = "error" THEN "unbound" ELSE "bound"
            /\ drvdata' = IF ret = "error" THEN "null" ELSE drvdata
            /\ UNCHANGED <<core, held, ret, leaked>>
     ELSE IF core = 1 /\ ret = "error"
       THEN /\ step' = "unbound" /\ drvdata' = "null"
            /\ held' = held \ Released(Len(Acquire) + 1) /\ Unmap(Len(Acquire) + 1)
            /\ UNCHANGED <<core, ret>>
     ELSE IF ret # "error" /\ core < num_cores
       THEN core' = core + 1 /\ step' = "alloc" /\ UNCHANGED <<held, drvdata, ret, leaked>>
     ELSE /\ step' = "bound" /\ held' = held \cup {"a2p_ie"} /\ ret' = "ok"
          /\ UNCHANGED <<core, drvdata, leaked>>
  /\ UNCHANGED <<boardVars, removing, ndev, listed, napi, pm_lost, usage, runVars>>

ProbeStep ==
  \/ Probe \/ PlatformProbe \/ \E i \in DOMAIN Acquire : PciAcquire(i)
  \/ CommonAlloc \/ CommonClk \/ CommonPm \/ CommonSignature \/ CommonReset
  \/ CommonRegister \/ ProbeReturn

-----------------------------------------------------------------------------
(* The core: errors move it between the states of fault confinement.       *)

\* The error counters cross a limit, or are cleared after bus-off.  EWLI is
\* raised when the warning limit is reached, EPI by every change between error
\* active (with or without warning), error passive and bus-off.  The counters
\* move by a few units per frame: one limit at most is crossed between the two
\* register accesses of the handler that read and clear INT_STAT.
Moves ==
  {<<"active", "warning", {"ewli"}>>, <<"warning", "active", {}>>,
   <<"warning", "passive", {"epi"}>>, <<"passive", "warning", {"epi"}>>,
   <<"passive", "busoff", {"epi"}>>, <<"busoff", "active", {"epi"}>>}

CoreFault(c) ==
  /\ num_cores \in ErrorCores /\ c \in chip \ moved
  /\ moved' = IF isr[c] = "clear" THEN moved \cup {c} ELSE moved
  /\ \E m \in Moves :
       /\ fault[c] = m[1] /\ fault' = [fault EXCEPT ![c] = m[2]]
       /\ pend' = [pend EXCEPT ![c] = @ \cup m[3]]
  /\ UNCHANGED <<devVars, step, core, probeVars, usage, irq, up, chip, netVars, isr, seen, rstVars>>

-----------------------------------------------------------------------------
(* ctucan_chip_start: reset, then the state and enabling.                  *)

ChipReset(c) ==
  /\ chip' = chip \ {c}
  /\ fault' = [fault EXCEPT ![c] = "active"] /\ pend' = [pend EXCEPT ![c] = {}]
  /\ torn' = IF isr[c] = "idle" THEN torn ELSE torn \cup {c}

ChipEnable(c) ==
  /\ chip' = chip \cup {c} /\ can_state' = [can_state EXCEPT ![c] = "ERROR_ACTIVE"]
  /\ UNCHANGED <<fault, pend>>

-----------------------------------------------------------------------------
(* ctucan_open and ctucan_close.                                           *)

CtlRest == <<devVars, drvdata, ndev, listed, napi, ret, pm_lost, isrVars>>

\* The controlling activity is between two calls and no device sleeps.
Idle == step = "bound" /\ ~removing

Open(c) ==
  /\ Idle /\ ~asleep /\ ndev[c] = "registered" /\ c \notin up
  /\ core' = c /\ step' = "o_pm"
  /\ UNCHANGED <<removing, held, usage, irq, up, coreVars, netVars, rstVars, CtlRest>>

\* A failing pm_runtime_get_sync counts the user; ctucan_open just returns.
OpenPm ==
  /\ step = "o_pm" /\ usage < MaxUsage /\ usage' = usage + 1
  /\ \/ step' = "o_irq" /\ UNCHANGED pm_lost
     \/ Failing("pm") /\ step' = "bound" /\ pm_lost' = TRUE
  /\ UNCHANGED <<core, removing, held, irq, up, coreVars, netVars, rstVars,
                 devVars, drvdata, ndev, listed, napi, ret, isrVars>>

\* Mutant: the label err of ctucan_open returns without pm_runtime_put.
MutOpenIrq ==
  /\ step = "o_irq"
  /\ \/ step' = "o_candev" /\ irq' = irq \cup {core}
     \/ Failing("irq") /\ step' = "bound" /\ UNCHANGED irq
  /\ UNCHANGED <<core, removing, held, usage, up, coreVars, netVars, rstVars, CtlRest>>

OpenIrq ==
  /\ step = "o_irq"
  /\ \/ step' = "o_candev" /\ irq' = irq \cup {core} /\ UNCHANGED usage
     \/ Failing("irq") /\ step' = "bound" /\ usage' = usage - 1 /\ UNCHANGED irq
  /\ UNCHANGED <<core, removing, held, up, coreVars, netVars, rstVars, CtlRest>>

\* open_candev switches the carrier on.
OpenCandev ==
  /\ step = "o_candev"
  /\ \/ /\ step' = "o_reset" /\ carrier' = [carrier EXCEPT ![core] = TRUE]
        /\ UNCHANGED <<irq, usage>>
     \/ /\ Failing("candev") /\ isr[core] = "idle"
        /\ step' = "bound" /\ irq' = irq \ {core} /\ usage' = usage - 1
        /\ UNCHANGED carrier
  /\ UNCHANGED <<core, removing, held, up, coreVars, can_state, queue, asleep, rstVars, CtlRest>>

\* Mutant: a failed ctucan_chip_start goes to the label err.
MutOpenReset ==
  /\ step = "o_reset" /\ ChipReset(core)
  /\ \/ step' = "o_start" /\ UNCHANGED <<irq, usage>>
     \/ Failing("reset") /\ step' = "bound" /\ usage' = usage - 1 /\ UNCHANGED irq
  /\ UNCHANGED <<core, removing, held, up, netVars, work, rst, CtlRest>>

\* If the core stays in reset: close_candev, free_irq, pm_runtime_put.
OpenReset ==
  /\ step = "o_reset" /\ ChipReset(core)
  /\ \/ step' = "o_start" /\ UNCHANGED <<irq, usage>>
     \/ /\ Failing("reset") /\ isr[core] = "idle"
        /\ step' = "bound" /\ irq' = irq \ {core} /\ usage' = usage - 1
  /\ UNCHANGED <<core, removing, held, up, netVars, work, rst, CtlRest>>

OpenStart ==
  /\ step = "o_start" /\ ChipEnable(core) /\ step' = "o_queue"
  /\ UNCHANGED <<core, removing, held, usage, irq, up, queue, carrier, asleep, rstVars, CtlRest>>

\* napi_enable and netif_start_queue; the kernel marks the interface up.
OpenQueue ==
  /\ step = "o_queue" /\ step' = "bound"
  /\ up' = up \cup {core} /\ queue' = [queue EXCEPT ![core] = TRUE]
  /\ UNCHANGED <<core, removing, held, usage, irq, coreVars, can_state, carrier, asleep, rstVars, CtlRest>>

\* netif_stop_queue and napi_disable.
CloseQueue(c) ==
  /\ core' = c /\ step' = "c_stop"
  /\ queue' = [queue EXCEPT ![c] = FALSE]
  /\ UNCHANGED <<usage, irq, up, coreVars, can_state, carrier, asleep, rstVars, CtlRest>>

Close(c) == Idle /\ ~asleep /\ c \in up /\ CloseQueue(c) /\ UNCHANGED <<removing, held>>

\* ctucan_chip_stop: the core is disabled, the state is STOPPED.
CloseStop ==
  /\ step = "c_stop" /\ step' = "c_irq"
  /\ chip' = chip \ {core} /\ can_state' = [can_state EXCEPT ![core] = "STOPPED"]
  /\ UNCHANGED <<core, removing, held, usage, irq, up, fault, pend, queue, carrier, asleep, rstVars, CtlRest>>

\* free_irq waits for the handler.
CloseIrq ==
  /\ step = "c_irq" /\ step' = "c_candev"
  /\ isr[core] = "idle" /\ irq' = irq \ {core}
  /\ UNCHANGED <<core, removing, held, usage, up, coreVars, netVars, rstVars, CtlRest>>

\* close_candev cancels the restart or waits for it; pm_runtime_put.
CloseCandev ==
  /\ step = "c_candev" /\ step' = "bound"
  /\ rst[core] = "idle" /\ work' = work \ {core} /\ torn' = torn \ {core}
  /\ usage' = usage - 1 /\ up' = up \ {core}
  /\ UNCHANGED <<core, removing, held, irq, coreVars, netVars, rst, CtlRest>>

\* ctucan_get_berr_counter: balanced, unless pm_runtime_get_sync fails.
GetBerrCounter ==
  /\ Idle /\ Failing("pm") /\ usage < MaxUsage /\ \E c \in Cores : ndev[c] = "registered"
  /\ usage' = usage + 1 /\ pm_lost' = TRUE
  /\ UNCHANGED <<step, core, removing, held, irq, up, coreVars, netVars, rstVars,
                 devVars, drvdata, ndev, listed, napi, ret, isrVars>>

\* ctucan_suspend takes drvdata for a net_device, which it is not on a board and
\* is no more after a probe that did not see the signature.
Suspend ==
  /\ Idle /\ ~asleep /\ board \in Sleeps
  /\ IF drvdata = "ndev" /\ ndev[1] = "registered"
       THEN /\ asleep' = TRUE
            /\ can_state' = [can_state EXCEPT ![1] = "SLEEPING"]
            /\ queue' = [queue EXCEPT ![1] = FALSE]
            /\ UNCHANGED step
       ELSE step' = "undefined" /\ UNCHANGED <<asleep, can_state, queue>>
  /\ UNCHANGED <<core, removing, held, usage, irq, up, coreVars, carrier, rstVars, CtlRest>>

\* ctucan_resume declares the controller error active, whatever it is.
Resume ==
  /\ Idle /\ asleep
  /\ asleep' = FALSE
  /\ can_state' = [can_state EXCEPT ![1] = "ERROR_ACTIVE"]
  /\ queue' = [queue EXCEPT ![1] = 1 \in up]
  /\ UNCHANGED <<step, core, removing, held, usage, irq, up, coreVars, carrier, rstVars, CtlRest>>

CtlStep ==
  \/ \E c \in Cores : Open(c) \/ Close(c)
  \/ OpenPm \/ OpenIrq \/ OpenCandev \/ OpenReset \/ OpenStart \/ OpenQueue
  \/ CloseStop \/ CloseIrq \/ CloseCandev
  \/ GetBerrCounter \/ Suspend \/ Resume

-----------------------------------------------------------------------------
(* ctucan_pci_remove and ctucan_platform_remove.                           *)

\* The net_device of a platform device was freed by the probe, which returned 0
\* and so left it in drvdata.
Dangling == drvdata = "ndev" /\ ndev[1] # "registered"

Remove ==
  /\ Idle /\ ~asleep
  /\ IF Dangling THEN step' = "undefined" /\ UNCHANGED <<removing, held>>
                 ELSE removing' = TRUE /\ held' = held \ {"a2p_ie"} /\ UNCHANGED step
  /\ UNCHANGED <<devVars, core, drvdata, ndev, listed, napi, ret, pm_lost, usage, runVars>>

\* The next net_device: the kernel closes it when it is unregistered.
\* list_add puts a core in front of those that were probed before it.
Devices == IF board = "pci" THEN listed ELSE {c \in {1} : ndev[c] = "registered"}
NextDevice(c) == c \in Devices /\ \A d \in Devices : d <= c

RemoveClose(c) ==
  /\ removing /\ step = "bound" /\ NextDevice(c) /\ c \in up
  /\ CloseQueue(c) /\ UNCHANGED <<removing, held>>

\* unregister_candev, netif_napi_del, list_del_init and free_candev.
RemoveDevice(c) ==
  /\ removing /\ step = "bound" /\ NextDevice(c) /\ c \notin up
  /\ FreeCandev(c)
  /\ UNCHANGED <<devVars, step, core, removing, held, drvdata, ret, pm_lost, usage, runVars>>

\* The mappings, MSI, the regions, the board data; pm_runtime_disable.
RemoveRelease ==
  /\ removing /\ step = "bound" /\ Devices = {}
  /\ held' = held \ (IF board = "pci" THEN Released(Len(Acquire) + 1) ELSE {"pm_enabled"})
  /\ drvdata' = "null" /\ removing' = FALSE /\ step' = "unbound" /\ ret' = "removed"
  /\ UNCHANGED <<devVars, core, ndev, listed, napi, pm_lost, usage, runVars>>

RemoveStep == Remove \/ RemoveRelease \/ \E c \in Cores : RemoveClose(c) \/ RemoveDevice(c)

-----------------------------------------------------------------------------
(* The error part of ctucan_interrupt and ctucan_err_interrupt.            *)

IsrRest == <<devVars, step, core, probeVars, usage, irq, up, chip, fault, queue, asleep, rst, torn>>

IsrRead(c) ==
  /\ c \in irq /\ isr[c] = "idle" /\ pend[c] # {}
  /\ isr' = [isr EXCEPT ![c] = "clear"] /\ seen' = [seen EXCEPT ![c] = pend[c]]
  /\ UNCHANGED <<pend, can_state, carrier, work, moved, IsrRest>>

\* Mutant: all error interrupts are cleared, not only those that were seen.
MutIsrClear(c) ==
  /\ isr[c] = "clear" /\ isr' = [isr EXCEPT ![c] = "state"]
  /\ moved' = moved \ {c} /\ pend' = [pend EXCEPT ![c] = {}]
  /\ UNCHANGED <<seen, can_state, carrier, work, IsrRest>>

IsrClear(c) ==
  /\ isr[c] = "clear" /\ isr' = [isr EXCEPT ![c] = "state"]
  /\ moved' = moved \ {c} /\ pend' = [pend EXCEPT ![c] = @ \ seen[c]]
  /\ UNCHANGED <<seen, can_state, carrier, work, IsrRest>>

StateOf == [active |-> "ERROR_ACTIVE", warning |-> "ERROR_WARNING",
            passive |-> "ERROR_PASSIVE", busoff |-> "BUS_OFF"]

\* With EPI the state is read from the core, otherwise EWLI says warning.
IsrState(c) ==
  /\ isr[c] = "state"
  /\ isr' = [isr EXCEPT ![c] = IF "epi" \in seen[c] THEN StateOf[fault[c]] ELSE "ERROR_WARNING"]
  /\ seen' = [seen EXCEPT ![c] = {}]
  /\ UNCHANGED <<pend, can_state, carrier, work, moved, IsrRest>>

\* The state is stored; can_bus_off switches the carrier off and schedules
\* the restart.
IsrStore(c) ==
  /\ isr[c] \notin {"idle", "clear", "state"} /\ isr' = [isr EXCEPT ![c] = "idle"]
  /\ can_state' = [can_state EXCEPT ![c] = isr[c]]
  /\ carrier' = [carrier EXCEPT ![c] = @ /\ isr[c] # "BUS_OFF"]
  /\ work' = IF isr[c] = "BUS_OFF" THEN work \cup {c} ELSE work
  /\ UNCHANGED <<seen, pend, moved, IsrRest>>

IsrStep(c) == IsrRead(c) \/ IsrClear(c) \/ IsrState(c) \/ IsrStore(c)

-----------------------------------------------------------------------------
(* can_restart_work: ctucan_do_set_mode, then the carrier.                 *)

RstRest == <<devVars, step, core, probeVars, usage, irq, up, asleep, isrVars>>

RstBegin(c) ==
  /\ c \in work /\ rst[c] = "idle"
  /\ work' = work \ {c} /\ rst' = [rst EXCEPT ![c] = "reset"]
  /\ torn' = IF c \in up THEN torn ELSE torn \cup {c}
  /\ UNCHANGED <<coreVars, can_state, queue, carrier, RstRest>>

RstReset(c) ==
  /\ rst[c] = "reset" /\ ChipReset(c)
  /\ \/ rst' = [rst EXCEPT ![c] = "start"]
     \/ Failing("reset") /\ rst' = [rst EXCEPT ![c] = "carrier"]
  /\ UNCHANGED <<can_state, queue, carrier, work, RstRest>>

RstStart(c) ==
  /\ rst[c] = "start" /\ ChipEnable(c) /\ rst' = [rst EXCEPT ![c] = "wake"]
  /\ UNCHANGED <<queue, carrier, work, torn, RstRest>>

RstWake(c) ==
  /\ rst[c] = "wake" /\ rst' = [rst EXCEPT ![c] = "carrier"]
  /\ queue' = [queue EXCEPT ![c] = TRUE]
  /\ UNCHANGED <<coreVars, can_state, carrier, work, torn, RstRest>>

RstCarrier(c) ==
  /\ rst[c] = "carrier" /\ rst' = [rst EXCEPT ![c] = "idle"]
  /\ carrier' = [carrier EXCEPT ![c] = TRUE]
  /\ UNCHANGED <<coreVars, can_state, queue, work, torn, RstRest>>

RstStep(c) == RstBegin(c) \/ RstReset(c) \/ RstStart(c) \/ RstWake(c) \/ RstCarrier(c)

-----------------------------------------------------------------------------
Init ==
  /\ board \in Boards
  /\ with_id \in IF board = "pci" THEN BOOLEAN ELSE {FALSE}
  /\ num_cores \in IF board = "platform" THEN {1} ELSE IF with_id THEN Cores ELSE Cores \cap 1..2
  /\ leaked = FALSE
  /\ step = "unbound" /\ core = 1 /\ removing = FALSE
  /\ held = {} /\ drvdata = "null" /\ ndev = [c \in Cores |-> "none"]
  /\ listed = {} /\ napi = {} /\ usage = 0 /\ ret = "none" /\ pm_lost = FALSE
  /\ irq = {} /\ up = {} /\ chip = {}
  /\ fault = [c \in Cores |-> "active"] /\ pend = [c \in Cores |-> {}]
  /\ can_state = [c \in Cores |-> "STOPPED"] /\ queue = [c \in Cores |-> FALSE]
  /\ carrier = [c \in Cores |-> FALSE] /\ asleep = FALSE
  /\ isr = [c \in Cores |-> "idle"] /\ seen = [c \in Cores |-> {}]
  /\ moved = {} /\ work = {} /\ torn = {} /\ rst = [c \in Cores |-> "idle"]

Next ==
  \/ ProbeStep \/ CtlStep \/ RemoveStep
  \/ \E c \in Cores : CoreFault(c) \/ IsrStep(c) \/ RstStep(c)

Spec == Init /\ [][Next]_vars

-----------------------------------------------------------------------------
(* Properties.                                                             *)

\* States of the device, of its cores and of the activities.
TypeOK ==
  /\ board \in Boards /\ num_cores \in Cores /\ core \in Cores
  /\ removing \in BOOLEAN /\ asleep \in BOOLEAN /\ with_id \in BOOLEAN /\ leaked \in BOOLEAN
  /\ held \subseteq {Acquire[i] : i \in DOMAIN Acquire} \cup {"pm_enabled", "a2p_ie"}
  /\ drvdata \in {"null", "bdata", "ndev"}
  /\ ndev \in [Cores -> {"none", "alloc", "registered"}]
  /\ listed \subseteq Cores /\ napi \subseteq Cores
  /\ usage \in 0..MaxUsage
  /\ irq \subseteq Cores /\ up \subseteq Cores /\ chip \subseteq Cores /\ work \subseteq Cores
  /\ fault \in [Cores -> DOMAIN StateOf]
  /\ pend \in [Cores -> SUBSET {"ewli", "epi"}] /\ seen \in [Cores -> SUBSET {"ewli", "epi"}]
  /\ queue \in [Cores -> BOOLEAN] /\ carrier \in [Cores -> BOOLEAN]

AllReleased ==
  /\ held = {} /\ (with_id \/ ~leaked)
  /\ drvdata = "null" /\ listed = {} /\ napi = {} /\ irq = {} /\ up = {}
  /\ \A c \in Cores : ndev[c] = "none"

\* "This function frees all the resources allocated to the device"
\* (ctu_can_fd.c:1107, 1350), and a failed probe leaves none behind either:
\* an unbound device holds nothing, but for the mapping of BAR 0 on a board
\* with CTUCAN_ID; and every device can be removed and suspended, but for one
\* whose probe returned 0 without the signature and a board that sleeps.
UnboundHoldsNothing ==
  /\ step = "unbound" => AllReleased
  /\ step = "undefined" => ret = "unsigned" \/ (board = "pci" /\ board \in Sleeps)

\* The usage count of runtime PM is one per open interface between two calls,
\* and zero without a driver, unless pm_runtime_get_sync or the reset of a
\* probe has failed: those paths return without pm_runtime_put.
UsageIsBalanced ==
  step \in {"bound", "unbound"} /\ ~pm_lost => usage = Cardinality(up)

\* A handler that may be called finds its net_device, the mapping of its
\* registers and a device that is powered.
HandlerFindsDevice ==
  \A c \in irq :
    /\ ndev[c] = "registered" /\ c \in napi /\ usage > 0
    /\ board = "pci" => {"enabled", "regions", "bar1", "bdata"} \subseteq held

\* Every interrupt of a running core is handled and no restart is under way.
Settled(c) ==
  /\ c \in (up \cap chip) \ torn /\ Idle /\ ~asleep
  /\ pend[c] = {} /\ isr[c] = "idle" /\ rst[c] = "idle"

FollowsCore(c) ==
  \/ can_state[c] = StateOf[fault[c]]
  \/ can_state[c] = "ERROR_WARNING" /\ fault[c] = "active"

\* Once every interrupt is handled and no restart is under way, the state the
\* driver reports for a running interface is that of the core; a return below
\* the warning limit raises no interrupt, so ERROR_WARNING may be out of date.
\* Excepted are a resumed device (ctucan_resume sets ERROR_ACTIVE) and a core
\* that a restart reset under the handler (it stores the state from before) or
\* during open (interrupts left over from before close can start one).
StateFollowsCore == \A c \in Cores : board \notin Sleeps /\ Settled(c) => FollowsCore(c)

\* "Return: 0 on success and failure value on error" (ctu_can_fd.c:926): after
\* a probe that returned 0 there is an interface.
BoundHasInterface == step = "bound" /\ ~removing => ndev[1] = "registered"

\* A probe that fails leaves no mapping behind.
FailedProbeUnmaps == step = "unbound" => ~leaked

\* Remove and suspend find the net_device that they work on.
NetDeviceIsThere == step # "undefined"

\* ctucan_suspend and ctucan_resume take dev_get_drvdata for the net_device.
SuspendFindsInterface == Idle /\ ndev[1] = "registered" => drvdata = "ndev"

\* The state of a resumed interface is that of the core.
ResumedFollowsCore == \A c \in Cores : Settled(c) => FollowsCore(c)

\* A suspended interface is not woken.
AsleepIsStopped == asleep => ~queue[1]

\* A closed interface is STOPPED.
ClosedIsStopped == \A c \in Cores \ up : Idle /\ ~asleep => can_state[c] = "STOPPED"

\* The usage count is balanced whatever fails.
UsageIsNeverLost == step \in {"bound", "unbound"} => usage = Cardinality(up)

\* The kernel calls can_restart only without a carrier.
RestartWithoutCarrier == \A c \in work : rst[c] = "idle" => ~carrier[c]
=============================================================================
