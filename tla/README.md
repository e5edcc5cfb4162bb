# CTU CAN FD: a TLA+ verification project

CTU CAN FD is a CAN FD controller written in VHDL (`src/src`) with a Linux
SocketCAN driver in C and a userspace test program (`src/driver`). This
directory holds TLA+ models of the transmit path, the RX buffer, the control
and data field, and the whole driver; TLC configurations that check them; and
TLAPS proofs for the transmit path, the RX buffer, the data field and the
driver. Each definition that models code is listed with its source lines in
`PROJECT.json` under `map`.

## The system and its parts

| Part | Source | Model |
|---|---|---|
| TXT buffers | `src/src/txt_buffer` | `TxtBuffer`, used by `TxPath`, `DriverTx`, `DriverHw` |
| Priority decoder | `src/src/tx_arbitrator/priority_decoder.vhd` | `PriorityDecoder` |
| TX arbitrator | `src/src/tx_arbitrator` | `TxPath` |
| Protocol control | `src/src/can_core/protocol_control` | partly: `TxPath` (locking), `TxRetry` (attempts), `DataField` (control and data field), `RxBuffer` (storing commands) |
| Operation control, fault confinement | `src/src/can_core` | partly: operational state, bus-off entry and recovery in `TxPath`; the states software sees in `DriverLife`, `DriverHw` |
| RX buffer | `src/src/rx_buffer` | `RxBuffer`, abstract specification `RxFifo` |
| Memory registers | `src/src/memory_registers` | partly: accesses as inputs of the other models, layout in `Registers` |
| Interrupt manager | `src/src/interrupts` | partly: the sources the driver uses, in `DriverTx`, `DriverRx`, `DriverLife` |
| Frame filters | `src/src/frame_filters` | partly: the decision on an identifier, in `CanFrame` |
| Prescaler | `src/src/prescaler` | partly: capture of the configured segments, in `BitTiming` |
| Driver, transmission | `src/driver/ctu_can_fd.c` | `DriverTx` |
| Driver, reception | `src/driver/ctu_can_fd.c` | `DriverRx` |
| Driver, probe to removal, errors, power | `src/driver/ctu_can_fd.c` | `DriverLife` |
| Driver, hardware access | `ctu_can_fd_hw.c`, `ctu_can_fd_linux_defs.c`, generated headers | `Registers`, `CanFrame`, `BitTiming`, `DriverHw` |
| Userspace test program | `ctu_can_fd_userspace.cpp` | partly: `Userspace`, and its start in `DriverHw` |
| Bit stuffing, CRC, bus sampling, event logger, bus adapters | `src/src/...` | see Not modelled |

How they interact. Software fills a TXT buffer and gives it commands through
TX_COMMAND. The priority decoder picks, in every cycle, the ready buffer with
the highest priority. The TX arbitrator reads timestamp and frame format of
the picked buffer over several cycles and commits it. Protocol control locks
the committed buffer when it starts a frame and unlocks it with the outcome;
the unlock moves the buffer to its next state and may raise the TXBHCI
interrupt. A receiving protocol control gives the RX buffer the metadata, the
data words and then a valid or an abort command; software reads the RX buffer
word by word.

The driver uses the TXT buffers as a FIFO: it rotates the priorities each time
its interrupt handler has taken back a finished buffer. Received frames are
read by a NAPI poll that the handler schedules with RBNEI disabled. Probe,
open, close, the restart after bus-off, suspend and removal change what
handler and poll work on while these run. All of them reach the core through
a layer of helpers that pack and unpack register words.

## Modules

### The core

**PriorityDecoder** holds the decoder as operators: `Leaf`, the comparators
`Compare` (levels 1 and 2, upper subtree as default) and `CompareLast` (level
3, lower subtree as default), and the outputs `OutputValid`, `OutputIndex`
with its modulo. `IsSelection` is the reference definition.

**TxtBuffer** is the buffer state machine as a function of the state, the
software commands and the core commands that select the buffer in a cycle
(`buf_fsm`), with the protection of the RAM, the ready signal, which an abort
of the same cycle takes back, and the interrupt source.

**TxPath** composes any number of TXT buffers with decoder, arbitrator,
protocol control and fault confinement. A step is a clock cycle (`Clock`) with
at most one register access of the software: none (`Cycle`), `TxCommand`,
`TxPriority`, `RamWrite`, `AbortTran` (COMMAND[ABT]) or `Enable`
(SETTINGS[ENA]). Registers are variables with the names of the source.
Combinational signals are operators over the state and the command of the
cycle; this matters, because the ready signal and `tran_frame_valid_out`
depend on a command combinationally while the lock command is registered.
The bits of a frame are abstracted to the phase of protocol control
(`pc_state`), keeping each event that locks or unlocks. RAM contents are
abstracted to two observers: `ts_low_of` and `md_of` name the buffer whose
*present* timestamp or frame format word was captured. **MCTxPath** adds views
for TLC (see Bounds). **TxRetry** adds a history variable that counts the
attempts of a frame.

**RxBuffer** has the FSM, the four pointers, the two free-memory counters, the
RAM with its read-ahead output, the frame counters and flags. `Cycle` is a
clock cycle with a command of the core, a read and a clear of the overrun
flag in any combination; `Erase` is COMMAND[RRB], an asynchronous reset of
everything but the RAM. `Core` is the environment: the commands protocol
control gives in a reception. **RxFifo** is what the buffer promises, a FIFO
of whole frames; `RxBuffer!ImplementsFifo` instantiates it with the committed
part of the RAM. **MCRxBuffer** adds the symmetry of frame contents.

**DataField** follows control and data field bit by bit in a transmitter and a
receiver, up to the words that the receiver stores, and the word count RWCNT
that the RX buffer writes into the FRAME_FORMAT word. Data bits are named by
their place in the frame, so that a permutation or a loss is visible.

### The driver

**DriverTx** has `ctucan_start_xmit` on one CPU and `ctucan_interrupt` with
`ctucan_tx_interrupt` on another, one register access or access to a shared
variable per step, over the TXT buffers and the decoder of the modules above.
`txb_head` and `txb_tail` are counted modulo twice the number of buffers.

**DriverRx** has five activities without a lock between them: the core, open
and close, the restart work, `ctucan_interrupt` and `ctucan_rx_poll` with
`ctucan_rx`; the last lines of a poll run after `napi_complete_done`, beside
the next poll. A frame in the FIFO is two units, its first word and the rest:
`ctucan_rx` keeps the first word (CTUCAN_FLAG_RX_FFW_BUFFERED) when it finds
no memory. `Events` says which of closing, restart, lack of memory, a shared
interrupt line and remote frames with a length code a behaviour may contain.
Two things bring the driver out of step with the frames in the FIFO (`stale`): a
reset of the core during a round of the poll or with a word kept, and such a
remote frame with another frame behind it, whose first words are read as the
data that a remote frame does not have (step `"extra"`). Out of step, a read may
leave anything in the FIFO. The driver is in step again after a poll that
finds the FIFO empty, or a reset outside a round, with no word kept.

**DriverLife** is the life of a device: probe of the platform device and of a
PCI board with one or two cores, open, close, suspend, resume, error state,
bus-off with restart, removal. Each call that can fail fails in some
behaviour. Calls that exclude each other in the kernel are one activity
(`step`); the handlers and the restart works of the cores run beside it. A
board has a CTUCAN_ID register or not (`with_id`); where it has one, the label
`err_pci_iounmap_bar0` passes an address that is not that of the mapping
(`leaked`). A probe that does not see the signature frees the net device and
returns 0 (`ret` = `"unsigned"`). `Remove` and `Suspend` then find drvdata that is
no net device, as `Suspend` does on a PCI board: the program is undefined
from there on, and so is the activity (step `"undefined"`).

**Registers** describes each word twice, as the driver's union of bit fields
and as the core's index constants. **CanFrame** has the packing and unpacking
of frames (`insert_frame`, `read_rx_frame`), length codes and the acceptance
filters of driver and core. **BitTiming** has `can_calc_bittiming`, one step
per iteration because segments left by an earlier iteration survive,
`can_fixup_bittiming`, the redistribution of segments into register fields,
and the bit time the core makes of them. **Userspace** is the search of the
test program for its core. **DriverHw** extends these and adds the helpers on
MODE, SETTINGS, interrupt masks, commands, timestamps and error state; the
helpers that read two registers are steps that interleave with the core. A
behaviour is about one case (`job`). **MCDriverHw** gives the requests, trees
and counters for TLC.

### The proofs

A module `XProofs` has the theorems about module `X`: `PriorityDecoderProofs`,
`TxPathProofs`, `RxBufferProofs`, `DataFieldProofs`, `DriverTxProofs`,
`DriverRxProofs`, `DriverHwProofs` and `DriverLifeProofs`.

## Runs

| Run | Shows |
|---|---|
| `tx_path_all` | two buffers of equal priority, set ready and aborted at any time, rewritten, COMMAND[ABT], disabling, errors, overloads, bus-off, a dominant end of EOF: `LockAgreement` (buffers, arbitrator and protocol control agree on the locked buffer), `SelectionReadsOneFrame`, `HwCompletionInterrupts` |
| `tx_path_prio` | changing priorities, no aborts: `DecoderSelectsHighest`, `LockOnlyInReady`, `MetadataOfLockedBuffer` |
| `tx_path_single` | one time-triggered buffer: `NoLockAfterAbort`, and `AbortCompletes` (liveness) |
| `tx_path_sent` | `ReadyBufferIsSent` (liveness), two buffers |
| `rx_buffer` | refinement `ImplementsFifo`, `ReadsNextWord`, `FreeWordIffMemoryFree`, `StoringProtocol` |
| `data_field` | `NodesInStep`, `HeaderReceived`, `StoredWordsAreSent`, `RwcntMatchesStores`, all 16 length codes |
| `driver_tx` | `CompletesInOrder`, `InsertsIntoEmpty`, `NoFifoBug`, four buffers, normal and one-shot mode |
| `driver_tx_traffic` | `FramesAreProcessedUnderTraffic`, `StoppedQueueIsWoken` (liveness) |
| `driver_rx` | `FramesAligned` (a driver in step reads whole frames), `RxArmed` (no frame waits without interrupt or poll), `RxServed` (liveness) |
| `driver_life` | `UnboundHoldsNothing`, `UsageIsBalanced`, `HandlerFindsDevice`, `StateFollowsCore`, with each of 15 calls failing |
| `driver_hw` | `RegistersAgree`, `FrameRoundTrip`, `RangeFilterAccepts`, `StartedAsConfigured`, `BufferAccess`, `TimestampWasReal`, `ErrorStateWasReal`, `TimingReachesCore`, `BitrateIsClosest`, `ToolFindsDevice` |
| `tx_lock_after_abort` | violated: `NoLockAfterAbort` with two buffers |

Some properties say less than their name alone would suggest:
`HwCompletionInterrupts` leaves out the cycle in which the unit goes bus-off,
where buffers fail without a command of protocol control. `NoFifoBug` leaves
out "no TXB free when queue awake", which is logged. `FramesAligned` is about a
driver that is in step with the FIFO, and so is `RxServed` (`stale`, see above).
`UnboundHoldsNothing` excepts the mapping of BAR 0 on a board with CTUCAN_ID, and
allows the step `"undefined"` after a probe without the signature and on PCI
boards that sleep. `FrameRoundTrip` excepts remote frames and the CANFD_ESI flag.
`RxArmed` and `RxServed` assume that nothing is received from the call of open to
`napi_enable` (`QuietStart`). `StoppedQueueIsWoken` leaves out xmit and handler overlapping.
`UsageIsBalanced` excepts failures of `pm_runtime_get_sync` and of the reset in
a probe, which return without a put. `StateFollowsCore` excepts resumed
devices and cores reset under a running handler. `TimingReachesCore` is about
sample points of 75 % and more and propagation segments that fit their field.

Each property of a passing run has a mutant of the code model that breaks it
(definitions `Mut...`, listed under `mutants`).

### Where the code departs from what is said of it

The finding in `PROJECT.json` is *lock after abort*: `tran_frame_valid_out`
joins a flag that belongs to the committed buffer with "some buffer is
ready". If the committed buffer is aborted while another one is ready, the
output stays valid for one cycle and the aborted buffer is locked, which an
assertion of `txt_buffer_fsm.vhd` says never happens.

The passing runs exclude further situations, by the constants
`TimeTriggered`, `CoreCommands`, `DominantEof`, `EraseWhen`, `CoreDisable`,
`QuietStart`, `Events`, `Sleeps`, because a property does not hold there. The
configurations below reproduce them (`tlc -config X.cfg Module`); each ends
with a counterexample.

| Configuration | Module | Property | Counterexample |
|---|---|---|---|
| `TxStaleMetadata` | `TxPath` | `MetadataOfLockedBuffer` | the committed valid flag outlives a transmission while a buffer with a future timestamp is ready; a rewritten buffer is sent with its old frame format word |
| `TxDominantEof` | `TxPath` | `LockOnlyInReady` | a dominant last bit of EOF gives no unlock, the buffer is locked again in `txt_tx_prog` |
| `TxDisable` | `TxPath` | `LockOnlyInReady` | disabling in a frame gives no unlock either |
| `TxAbortInterrupt` | `TxPath` | `EveryCompletionInterrupts` | a ready buffer that is not the committed one is aborted silently |
| `TxBusOffAbort` | `TxPath` | `OffWhileBusOff` | COMMAND[ABT] takes a bus-off transmitter out of `off` |
| `TxRetryLimit` | `TxRetry` | `RetransmissionLimit` | an error within the error flag unlocks a second time and erases the counter, the frame has too many attempts |
| `TxRetryAbort` | `TxRetry` | `FailedOnlyAfterAllAttempts` | an aborted frame leaves its count to the next frame of the buffer |
| `RxBufferErase` | `MCRxBuffer` | `FreeWordIffMemoryFree` | after COMMAND[RRB] in a reception the end of the frame commits a frame without words, and empty memory looks full ("If there is at least one frame and pointers are equal, then memory must be full!", `rx_buffer.vhd:617`) |
| `RxBufferDisable` | `MCRxBuffer` | `StoringProtocol` | disabling in a reception leaves the RX FSM in `rxb_store_data` |
| `RxBufferOverrun` | `MCRxBuffer` | `OverrunReported` | a clear in the cycle of the overrun hides it |
| `DataFieldEsi` | `DataField` | `EsiReceived` | the receiver stores its own output as ESI |
| `DriverTxWake` | `DriverTx` | `QueueIsWoken` | `ctucan_start_xmit` tests for a free buffer and stops the queue in two steps; the handler empties all buffers and wakes the queue in between ("If all TX buffers are now full, the TX queue is stopped.", `linux-driver.tex:141`) |
| `DriverTxBusy` | `DriverTx` | `NoBusyBug` | the queue is woken after the last buffer was filled |
| `DriverTxLost` | `DriverTx` | `FramesAreProcessed` | TXBHCI is cleared after the last look at an empty FIFO |
| `DriverRxQuota` | `DriverRx` | `QuotaKept` | a round of the poll reads all frames it counted, the quota is tested between rounds |
| `DriverRxStale` | `DriverRx` | `NeverStale` | a kept first word survives close and the reset of the next open, after which it is that of no frame in the FIFO; with `Events` = `{{"remote"}}` the data words of a remote frame are taken from the next frame |
| `DriverRxRestart` | `DriverRx` | `ClosedIsDisabled` | a restart work that runs during close enables the core of the closed interface |
| `DriverProbe` | `DriverLife` | `BoundHasInterface` | the probe returns 0 for a core without the signature ("Return: 0 on success and failure value on error", `ctu_can_fd.c:926`) |
| `DriverSuspend` | `DriverLife` | `SuspendFindsInterface` | on a PCI board the driver data that suspend and resume take for the net device is the board's |
| `DriverResume` | `DriverLife` | `ResumedFollowsCore` | resume sets ERROR_ACTIVE whatever the state of the core is |

The modules state further properties that TLC refutes with the constants of a
configuration above: `LockNotInFinished` (those of `TxStaleMetadata`),
`UnlockOnlyInProgress` (`TxDominantEof`), `ClosedIsQuiet` and
`RaisedIsHandled` (`DriverRxRestart`: closing leaves interrupts enabled and
their status set, and a restart can begin from it at the next open),
`AsleepIsStopped`, `ClosedIsStopped` and `RestartWithoutCarrier`
(`DriverResume`), `UsageIsNeverLost`, `FailedProbeUnmaps` and `NetDeviceIsThere`
(`DriverProbe`: a failing allocation of the board data leaves BAR 0 mapped on a
board with CTUCAN_ID; remove takes a freed net device from drvdata). With the
constants of `DriverHw`:

* `RemoteRoundTrip`: the RTR flag of a frame with a base identifier is lost,
  and data words that are not there are read.
* `MaskFilterAccepts`, `CountersReadBack`: `set_mask_filter` and
  `read_err_ctrs` exchange two fields.
* `BusErrorsFollowMode`: the branch of `set_mode` for bus error reporting. The
  driver does not offer that mode, so the branch is not reached.
* `TimingAlwaysReachesCore`: low sample points leave the segments of an earlier
  iteration, and a propagation segment above its field is truncated
  ("Calculates proper bit-timing parameters for a specified bit-rate and
  sample-point, which can then be used to set the bit-timing registers",
  `ctu_can_fd_linux_defs.c:79`).

## Bounds

* Transmit path: two buffers are the fewest that compete; what needs one
  buffer only is checked with one. Priorities {0, 1} give every order of two
  buffers and the tie. `TxCmds` are single command bits addressed to any set
  of buffers. `drv_retr_th` is 0 or 1: failing at once, and one retry.
* `MinGap` is a lower bound, in cycles, of the time from an unlock to the next
  lock. An uninterrupted selection takes six cycles; intermission alone takes
  three bit times, each of several cycles, so 6 is smaller than what the core
  guarantees. `tx_path_all` uses 0: its properties need no gap. The gap matters
  for `ReadyBufferIsSent`: TLC refutes it with 0 and 2, where protocol control
  locks a buffer it has already sent while the selection of the other one is
  still under way, again and again; it holds with 5 and 6.
* `VIEW` in `TxPathAll.cfg` and `TxPathPrio.cfg` leaves out observers that no
  action reads (`hw_cmd_int`, and `md_of` or `ts_low_of`). The properties of the
  run do not read their present value: `HwCompletionInterrupts` reads
  `hw_cmd_int'`, which each transition determines, and TLC checks it on each
  transition. The exceptions are two conjuncts of `TypeOK`, `md_of \subseteq
  Buf` and `hw_cmd_int \subseteq Buf`, which `TxPathTypeCorrect` proves.
* RX buffer: 6 words, frames of 4 and 5 words. A second frame fits only after
  words of the first were read, so that full memory, overrun in each word,
  wrap-around and reading while storing all occur; two unread whole frames do
  not fit, which the proofs cover. `Settle` = 4 cycles is the time the FSM needs
  for the metadata; a bit time is assumed to be longer. Frame contents are
  symmetric.
* Data field: no bounds but the 16 length codes; no stuff bits, no errors.
* Driver, transmission: four buffers as in the core for safety, two for
  liveness. Deadlock is not checked: the lost wake-up really stops the system.
* Driver, reception: one frame in the FIFO, a quota of one frame and one round
  of the handler's loop, so that a full FIFO, an exhausted quota and "stuck
  interrupt" all occur; the safety properties are proved for any number. The
  run explores four combinations of events, each with every interleaving; a
  remote frame that another one follows needs no second place in the FIFO,
  since a frame may arrive after the first is read and before its data words.
  Deadlock is not checked: an idle interface waits for frames.
* Driver, life: one or two cores; errors on the bus with one core, since cores
  share no error state. `MaxUsage` = 2 bounds the usage count, which grows
  with each failed `pm_runtime_get_sync`. Deadlock is not checked because the
  bound stops such behaviours.
* Hardware access: ten identifiers at the limits of their fields, with every
  length and every length code a frame may have; timestamps of two words of
  four values, so that a carry falls between any two accesses; error counters
  on both sides of each limit; up to five events of the core in a call. The requests for bit timing are at
  and around the limits of each field. A case ends, so deadlock is not checked.

## Fairness

`TxPath!FairSpec`: the clock runs (`Cycle`), protocol control leaves every
phase in the end, since bit triggers drive it (`PcProgress`), and time reaches
each timestamp. Software is never assumed to act. `ReadyBufferIsSent`
furthermore assumes, in its premise, that software and disturbances of the
bus end.

`DriverTx!FairSpec`: both CPUs continue what they began, an active interrupt
is served, the core sends what is ready, and a transmission that is tried
again and again succeeds some time (strong fairness of a valid end).
`FramesAreProcessedUnderTraffic` has as its premise that the network stack
keeps sending, `StoppedQueueIsWoken` that xmit and handler do not overlap.

`DriverRx!FairSpec`: handler, poll and the end of a poll continue what they
began and an active interrupt is served, as the kernel schedules them; memory
is found again when it is asked for again and again (strong fairness of
`RxFfw(TRUE)`). Neither the core nor open, close and restart are assumed to
act. `RxServed` excepts a handler that gave up with "stuck interrupt" and a driver
that has got out of step: it may read the frame as data of another one.

## Proofs

TLAPS checks the following for every value of the constants allowed by the
assumptions of the modules (`BufCountAssumption`: 1 to 8 buffers,
`TxPathAssumption`, `RxBufferAssumption`, `DlcAssumption`, `DriverTxAssumption`,
`DriverRxAssumption`, `DriverLifeAssumption`, `DriverHwAssumption`) and by the
conditions named below. `FieldsAssumption` is of another kind. It has no
constant in it: it says of five fixed register words that driver and core place
their fields alike, that the fields do not overlap, and that a number that fits
into a field is the sum of its bits. These are sums over bits that the provers
can not compute and TLC does, in the run `driver_hw`.

A leaf that names no prover has 40 seconds for each (`USE SMTT(40),
ZenonT(40)`); most take less than one.

**Decoder.** `TxPathDecoder`: `Spec => []DecoderSelectsHighest`.
`PriorityDecoderProofs` shows that a node of the tree is the correct `Summary`
of the leaves below it, for leaves (`LeafSummary`), comparators
(`CompareSummary`) and the root (`RootSummary`); tied leaves above `buf_count`
are never valid, so that the modulo changes nothing.

**Transmit path** (`TxPathProofs`), whatever software and the bus do:

* `TxPathTypeCorrect`: `Spec => [](TypeOK /\ CmdInv)`. `CmdInv` lists the
  combinations of command bits that occur and ties them to `is_txt_locked`: a
  lock command implies the flag, an unlock command its absence.
* `TxPathLocksAgree`: each step of protocol control gives no command, a lock
  or an unlock (`PcStepKind`), and the buffers and the arbitrator follow it
  one cycle later; `CmdInv` accounts for that cycle.
* `TxPathSelection`, strengthened by `PointerInv` (each selecting state has its
  own word addressed). After the wait state the RAM output then holds that
  word, and the captured timestamp stays the present one because a ready
  buffer is not accessible to software.
* `TxPathInterrupts`: `HwCompletionInterrupts`, from `CmdInv` and the agreement on
  the locked buffer.

**One TXT buffer** (`TxPathProofs`). `TxPathNoLockAfterAbort`: an aborted buffer
is not locked, with aborts, timestamps, COMMAND[ABT], disabling and bus-off at
any time and any gap; what breaks it with two buffers (run
`tx_lock_after_abort`) is that another buffer keeps the output valid.
`TxPathSingleLocksReady`: without COMMAND[ABT] and disabling only a ready buffer
is locked. Both exclude a dominant last bit of EOF, with which TLC refutes them.
`SinglePhase` says in which phases of protocol control `is_txt_locked` can be
set, and that a unit entering bus-off has unlocked; `SingleLock` that a locked
buffer is in progress and one that is being locked is ready, or still in
progress after the core was switched off and on in a frame. The abort and
the lock meet in one cycle: `tran_frame_valid_out` then has the abort of the
same cycle in it (`SingleClock`).

**Locks of ready buffers** (`TxPathProofs`): `TxPathLocksReady` and
`TxPathMetadata`, under `Undisturbed`: no aborts, no COMMAND[ABT], no disabling,
no time-triggered frames, no dominant EOF, `MinGap >= 6`. The counterexample
configurations show that the conditions are needed. The invariant `LockInv`
says that the committed buffer is ready with its metadata captured, or that
the selection under way is finished before protocol control looks at the
result (`Outrun`: the remaining cycles of the selection are fewer than those of
the gap).

**RX buffer** (`RxBufferProofs`): `RxBufferTypeCorrect`,
`RxBufferReadsNext`, `RxBufferFreeWord`, `RxBufferProtocol` and the refinement
`RxBufferImplementsFifo`, for every size of the memory, every set of frames
that fit and both timestamp options, under `Careful`: software releases the
buffer between receptions, and before it enables a core that it disabled in a
reception. The inductive invariant `IInv` has five parts. `Control` ties the
state of the core's reception to that of the FSM. `Pointers` makes the write
pointers the read pointer plus `Used` and `Stored` words on a ring. `Content`
says which words of the frame under way are in the memory. `Committed` says
that the committed words are whole frames (`WholeFrames`): the rest of a frame
of `read_frame_counter` words, then `message_count` frames (one less if a rest
comes first), each from a head word whose RWCNT leads to the next head, the
last one ending with the last committed word (`Ends`). It is needed because
`message_count` and `read_frame_counter` are counted separately from the
pointers: only the structure of the memory shows that they reach zero
together, which is what `is_free_word` relies on. A function from the number of
a frame to its end takes the place of an induction over the frames: reading a
word shifts it, a commit extends it. The first part of the module has these
facts about the memory alone. The refinement takes the committed words as a
`Segment` of the ring; reading a word takes its head, a commit appends the
words of the frame.

**Data field** (`DataFieldProofs`): `DataFieldInStep`, `DataFieldHeader`,
`DataFieldWords`, `DataFieldRwcnt`, for every set of length codes. All four
follow from one inductive invariant `IInv`, which names the place of both nodes
in the frame: before the first control bit, at control bit `p` (`AtControl`), at
bit `p` of byte `b` of word `w` (`AtData`), or behind the data. In the control
field the receiver has the bits of the length code sent so far (`SentAbove`). In
the data field each node's counters are a function of `w`, `b` and `p`, the shift
register holds the last `p` bits and the word being put together the `b` bytes
before them. The properties alone are not inductive: that word and count are
right at a store depends on five counters in two nodes which wrap at different
bits. The run has all sixteen codes and is exhaustive for this component; the
proof adds the reason.

**Driver, transmission** (`DriverTxProofs`): `DriverTxTypeCorrect`,
`DriverTxInserts`, `DriverTxInOrder`, `DriverTxNoBug` for 1 to 8 buffers. `FifoInv`
describes the ring from `txb_tail` on: the buffers in flight are in use and all
others empty, but for one on its way in and one on its way out (`BufInv`); the
priorities fall with the place in the ring, and the rotation may lag by one
(`PrioInv`); what is finished or in progress comes before what is ready
(`OrderInv`); an interrupt not yet answered is that of the oldest frame
(`SeenInv`).

**Driver, reception** (`DriverRxProofs`): `DriverRxTypeCorrect` and
`DriverRxFramesAligned`, from the facts that the frames of a round are in the
FIFO and that no word is kept in the middle of a frame, both while the driver is
in step; reading the data words of a remote frame keeps it in step only if
the FIFO is empty. `DriverRxArmed` assumes
`QuietStart` (nothing is received between the enabling of the core in open and
`napi_enable`; otherwise the poll is scheduled for nobody) and rests on `Armed`:
whoever sets CTUCAN_FLAG_RX_SCHED or disables RBNEI is followed by someone who
resets it.

**Driver, timestamp** (`DriverHwProofs`): `DriverHwTimestamp`, for every size of
a word. A time is its high word times the size plus its low word (`Words`), and
within a call the high word rises by at most one (`HighRises`), since the model
lets the counter run for less than a word in a call; a low word of the core
lasts 2^32 cycles. `ReadSoFar` says what the words read so far tell: the high
word was that of a time of the call, the low word that of a time not before it,
and after a second, different high word no further carry can come.

**Driver, error state** (`DriverHwProofs`): `DriverHwErrorState`, for all counters
below 512 at the beginning of a call and any number of events in it. The driver
reads the fault state and later the counters. `ErrorInv` says that a core which
has left the error active state since the first read was seen in the warning
state (`FaultRead`), because a counter rises by at most 8 and the limits are
further apart, and that the fault state lags the counters by one event at most
(`FaultLag`).

**Driver, range filter** (`DriverHwProofs`): `DriverHwRangeFilter`, for every
identifier of 11 and of 29 bits as frame identifier and as thresholds. Lemmas
about the fields of a word come first: what is put into fields that do not
overlap is what is read from them (`AssembledRead`), by `FieldsAssumption`. The
comparison in the core of base and extension as one number is then that of the
identifiers, since an extended identifier is its base times 2^18 plus its
extension.

**Driver, a frame from driver to driver** (`DriverHwProofs`): `DriverHwFrames`, for
every identifier of 11 and of 29 bits, every length up to 64 and each length
code a sender may choose. `Inserted` says what the words in the TXT buffer
carry (`Carries`), `StoredFrame` that the core stores them with its own RWCNT and
changes no other field but ESI, which it does not take from the bus, `Lengths` that the number of data words which
the RX buffer announces is the number the frame has, for each length code.
`ReadAsSent` joins them: a frame stored in front of any words is read back as
it was sent, and exactly those words are left. It is used twice, for the frame
and for the one behind it. The lemmas hold for any data words, the frames of the
model have words that differ from each other. Remote frames are excepted, since
TLC refutes `RemoteRoundTrip`.

**Driver, life** (`DriverLifeProofs`), for any number of cores, each call failing
or not:

* `DriverLifeUnbound`, from three invariants. `Resources`: at each step of a probe exactly the
  resources acquired by the earlier steps are held (`Holding`; MSI is
  optional), a net device that is not registered belongs to the probe of its
  core (`Listed`), and a handler to an interface that is up, opening or
  closing (`Handlers`). The step alone does not say what is held: the second
  core of a board fails with the first one registered, which the board keeps.
  `Mapped`: only a board with CTUCAN_ID gives up a mapping. `Attached`: from
  `alloc_candev` on drvdata of a platform device is its net device, and a probe
  that returned 0 has registered it or not seen the signature; hence the step
  `"undefined"` has no other cause.
* `DriverLifeUsageBalanced`, from `Balanced`: the call in progress (`Pending`)
  counts besides the open interfaces, and a path without its put can only
  leave the count too high.
* `DriverLifeHandlers`, from both: the second gives `usage > 0`.

**Driver, state** (`DriverLifeProofs`): `DriverLifeStateFollows`. `Tracking` goes
through the handler step by step: the state it is about to store, the one it
has stored, or an interrupt not yet read is right for the core (`TrackOf`).
Between the read and the clear of the interrupts the core may move once
(`moved`), as the model assumes; EWLI alone then means that the core is at or
below the warning limit, which is why the state that is stored last is not
stale. A core under reset is quiet (`Fresh`), and an interface that is being
opened is not up (`Opening`).

Only model-checked:

* liveness (`AbortCompletes`, `ReadyBufferIsSent`,
  `FramesAreProcessedUnderTraffic`, `StoppedQueueIsWoken`, `RxServed`), which is
  out of reach of the prover, as are ENABLED and induction over data;
* of `driver_hw`, `RegistersAgree`, `StartedAsConfigured` and `BufferAccess`: they
  compare fixed layouts, modes and addresses. They have no constant that could
  be larger, so TLC goes through all there is;
* `TimingReachesCore`, `BitrateIsClosest` and `ToolFindsDevice`: what a loop over
  the prescalers, or over a tree of directories, computes. The general
  statement is an induction over its iterations.

## Not modelled

* Protocol control bit by bit beyond control and data field (arbitration, CRC
  and ACK fields, EOF, error and overload flags) and bus monitoring mode. The
  outcome of these fields is nondeterministic in `TxPath` and `RxBuffer`, so
  that every sequence of outcomes is covered there; which bits lead to which
  outcome is not.
* The rules by which fault confinement counts errors, and the count of
  sequences of recessive bits before bus-off ends. The models let the state
  change at any time.
* Bit stuffing and destuffing, CRC, resynchronisation in the prescaler, bus
  sampling: shift registers and sub-bit timing, below the bit triggers that
  the models take as nondeterministic.
* Event logger and traffic counters: nothing depends on them.
* Bus adapters, top levels, generated registers: wiring and generated code;
  the register layout they produce is compared with the driver's.
* The endless loop of the test program, `regtest` and the Kvaser logger:
  straight-line access to devices.
* Helpers of `ctu_can_fd_hw.c` that nobody calls.
