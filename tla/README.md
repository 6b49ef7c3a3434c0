# Formal verification of the RTL8852BE driver core

TLA+ models of the driver's own control logic, TLC configurations that check
them on small instances, and TLAPS proofs of what matters most for every
instance. `PROJECT.json` holds the machine-readable index: components, runs,
mutants, the map from each definition to the source lines it models, hazards,
findings and theorems.

    tlc -workers 2 -config StationSafety.cfg MCStationController
    tlapm StationControllerProofs.tla

## 1. Inventory

The driver is a macOS kernel extension for a PCIe Wi-Fi chip. All its stateful
code runs on one IOKit workloop behind one command gate, so C++ calls do not
race each other. The difficulty is elsewhere: the chip, its firmware and the
radio work concurrently with the host and report back late, in any order,
badly or never; calls out of a component can come back into it; and after any
failure nothing the device may still read can be freed.

| Component | State it keeps | Operations | Interacts with | Hard part | What makes it correct |
|---|---|---|---|---|---|
| Station controller (`network/StationController.hpp`) | 24-state machine, one pending action or command with its token and deadline, scan plan, association token and peer, fault latch | start, stop, scan, cancelScan, connect, disconnect, tick, protocol evidence, port authorization, actionComplete, firmwareEvent, reset | backend (calls that may fail), command bus, net80211, timer | late, duplicate and foreign completions; disconnect or revocation during a scan; deadlines | traffic only with full evidence; firmware state agrees; nothing left behind; everything ends |
| Command bus (`network/FirmwareCommands.hpp`) | 256 records, allocator, last time, fault | reserve, publish, submit, accept, deliver, service, invalidate | transport (re-entrant), owner callbacks (re-entrant), firmware events | sequence wrap, answers for reused sequences, deadline crossed during an outside call | each answer reaches its command, once; no late success; everything settles |
| Data transmit rings (`PciDataPath.hpp`, `Net80211PciQueue`, `MacTxDmaQueue`) | page ledger, descriptor cursors, frame leases | submit, consumedTo, report, drain, shutdown | device DMA, release reports through RPQ, network controller | index and report arrive in either order; pages recycle in another order than descriptors; failed doorbell | no page reused under the device; no frame lost |
| Firmware command ring (`FirmwareDmaQueue.hpp`, same banks) | cookies, queue of packets kept back, cursors | commit, consumeTo, reclaim | device DMA, command bus | the device never says a packet was read | no slot restaged during a read; keeping packets back never blocks the ring |
| PCI runtime, queue service, interrupts | running flag, masked causes, published rings | start, arm, dispatch, drain, fault, stop | all rings | lost edges, partial stop | an edge or the 10 ms backstop serves every ring; memory goes back only from a device proven idle |
| Receive rings (`RxDmaQueue.hpp`, `PciRxAssembly.hpp`) | cursors, fragment assembly | poll, publish consumer, stop, release | queue service, bridge | teardown from inside a callback; lost segments | a frame is delivered once, whole |
| Network controller (`MacNetworkController`) | deferred action, deferred admission, completion queue, selection, session | poll, beginAction, setTraffic, select, enable, disable, shutdown; requests of other threads | everything | an action waits until data has drained; stop at any point, from any thread | the deferral ends; no use after shutdown; no waiting for each other |
| Foreground scan, observer, snapshot (`NativeForegroundScan.hpp`, `NativeScanObservation.hpp`, `NativeScanCache.hpp`, `NativeScanProbeTx.hpp`) | request and its dwell, pass, two banks, probe frame | begin, cancel, expire, accept and finish a channel, observe, publish | station controller, net80211's own scans, poll, native results | many causes of cancellation, each racing the end of a dwell and the probe in the device | drained means home; complete means swept; readers see whole snapshots |
| Native results and join front end (`NativeWcl*`) | draft, loaned results, pending selection | begin, arm, reserve, commit, retire | scan snapshot, driver shell | delivery against a replaced snapshot | no result outlives its snapshot, and they come in order |
| Authentication events | bounded queue, generation, binding | bind, observe, invalidate, capture | supplicant | overflow | overflow is never mistaken for a quiet stream |
| SAE / OWE exchange (`auth/`) | phase, retry count, deadline, counters | start, receive, poll, cancel | station controller, crypto (external) | retransmission against a late or repeated answer | bounded retries, no key without a confirmed peer |
| Firmware mailbox | transaction, saved mask | request, pause and resume the scheduler | radio boot | stale replies | a reply belongs to its request; the mask the host remembers is the real one |
| Firmware bring-up, image, power | phases, packet pages, power state | power on and off, boot, transfer, quiesce, release | mailbox, PCI | failure of one step of many | pages kept while the device may read; reports are honest |
| Radio boot, calibration, channel, coexistence | phases, antenna lease, calibrated channel, limits | begin and service an action, run, restore, stop | station, Bluetooth, firmware | a failure while the antenna is held | the radio never works on half a channel, Bluetooth keeps its turn |
| Station tables, DMA memory, timers, fuses, MAC/PHY set-up, diagnostic probe | plans of commands or register accesses | run, fail, undo | device, firmware, kernel | cut at any access; writes that are lost without a word | complete means whole; failed means left as found or held |
| Imported chip tables, driver shell, legacy AirPort, tools | none | data, registration, conversion | | | section 8 |

`PROJECT.json` lists every one of these with its sources and status, and the
hazards of the whole code base, including those of parts not modelled yet.

## 2. Plan

Order: what gives the driver its correctness first.

1. **Done first:** station controller; command bus with its abstract ledger;
   data transmit ring with its abstract lease; firmware command ring,
   implementing the same lease; scan requests with observer, cache and probe,
   implementing an abstract snapshot. First theorems.
2. **Done next:** the network controller's poll, the radio with its calibration
   lease, and the receive ring, with liveness; then every part that is a
   protocol or a sequence which can be cut: authentication events against an
   abstract transcript, SAE and OWE, mailbox, bring-up and image, control
   plane, scan results, packet ownership, hardware session, DMA banks, power,
   link, MAC and PHY set-up, fuses, radio tables, channel change, power plan,
   coexistence, calibration body, station registers and tables, timers, probe.
3. **Done after that:** the proofs of every safety property of the station, of
   the command bus, of the transmit ring, of the command ring and of the scan,
   with all of their refinements; of the network controller, the radio and the
   receive ring; and, of the smaller parts, of keys, answers, failures, what is
   left as found, what comes late or twice and the order of steps (section 6).
4. **Left to the model checker:** liveness, `ENABLED`, and what walks over data
   of any length. Section 6 ends with the list and the reason for each.

## 3. Modules and how they follow the code

Each entry point is one action: its early returns are guards or branches, and
everything it calls that changes state is inside it. Times, serial numbers and
allocation counts are bounded by named constants that stand for the code's
`UINT64_MAX` and `UINT32_MAX`, and the code's own overflow checks are what
keeps them there.

### StationController
Variables keep the names of the members they model (`state_`, `serial_`,
`pendingToken_`, `waitingAction_`, `deadline_`, `scanToken_`, `peer_`, ...).
`mode`, `requests`, `completions`, `attempts`, `h2c`, `acks`, `firmware` and
`radio` are the outside: the host's TX admission, work the backend accepted,
callbacks queued, attempts handed to authentication, commands on the way,
acknowledgements, what the firmware has executed, and the tuned channel.
`portOpen` is history.

- `BeginAction`, `BeginCommand`, `Settle`, `Fail` are `action()`, `command()`,
  the returns to a resting state and `fail()`. Any backend call named in
  `Refusals` may fail at the point where the code makes it, with everything
  before it already done.
- `Start ... Tick`, `Authenticated ... RevokePort`, `ActionComplete`,
  `FirmwareEvent`, `Restart` are the entry points. `TurnedDown` is the calls
  whose guards refuse but which still pass `accepted()`/`live()` and record
  the time; `ClockRunsBack` is a call with an earlier time, which latches.
- `DeviceFinishes`, `FirmwareReceives`, `FirmwareExecutes` are the world.

Left out: `error_` (nothing reads it for a decision), byte contents, addresses
beyond match or mismatch. `SequenceCount` is the bus's 256 reduced.

### CommandLedger and FirmwareCommands
`CommandLedger` is what the bus promises its clients: commands are numbered,
each stays open until settled, is settled at most once with its own client
notified then, and nothing is issued or settled on a bus that is down.
`FirmwareCommands` is the bus: `records`, `next`, `lastTime`, `error` are its
members. `publish()` and the callback in `accept()` leave the bus, so each is
two actions (`Publish`/`Submit` and `PublishReturns`; `Accept` and
`CallbackReturns`) and other calls interleave. `CheckFails`/`CheckPasses` is
`check()`. `ReceiveAgain` and `ReceiveOld` deliver duplicates and
acknowledgements of an earlier incarnation. `owners` and `notices` are history
for the ledger.

### FrameLease, TxQueue and FirmwareQueue
`FrameLease` is what a DMA queue promises about a frame it accepted: it is held
until the device can no longer read it or is known to have stopped, and given
back once. `TxQueue` is one data ring with its share of the report ring:
`Submit`, `SubmitFails`, `ConsumeTo`, `PollReports`, `TakeReport`,
`FinishDrain`, `Fault`, `Shutdown`; the device is `Fetch`, `Retire`, `Report`.
`drain()` is four steps because the device moves between its register reads.
`FirmwareQueue` is the command ring: `Submit`, `SubmitUnsynced`, `SubmitFails`,
`ConsumeTo`, `Fault`, `Shutdown`, against a device with up to `Tags` reads
under way behind its index. That `Tags` is at most the number of packets kept
back is what the code relies on (its `static_assert` speaks of "8 retained DMA
tags"); it is an `ASSUME` here.

The six data rings share no state but the RPQ, where a report is routed by its
queue number; one ring is modelled, with an RPQ of its own.

### ScanSnapshot and ForegroundScan
`ScanSnapshot` is what readers of the scan cache are promised: at most one
complete snapshot, replaced only as a whole by that of a later pass which
swept all of its plan and lost nothing. `ForegroundScan` is the code under it
and around it:

- `fg` is `foregroundscan::Controller` (`Cancel`, `Expires`, `Accepted`,
  `ChannelFinished`, `FailRequest`, `HardwareStopped` are its methods), `obs`
  the `Observer` with the `Store` in it (`BeginPass`, `AcceptChannel`, `Add`,
  `FinishChannel`, `FinishPass`, `CancelPass`, `Block`), `frame` the probe.
- `poll()` is `PollStart` (clock and deadline), the station's steps with their
  callbacks (`StationTunes` with `sendProbe`, `StationDwellEnds`,
  `StationFinishes` with `scanFinished`, `StationFaults`), `PollProbe` (the
  probe, then a deferred change of net80211's state) and `PollEnd`
  (`advanceForeground`, `pumpTx`). The clock may move between any two, since
  each reads it again.
- `BeginForeground`, `CancelRequest`, `ResetProtocol` (a state change to INIT,
  a selection, an interface that is disabled), `Rescan`, `Join`, `Shutdown`
  are the entry points; `OrdinaryChannel` and `OrdinaryDone` are net80211's
  own scans, which use the same observer.
- `sta` is the station as this code sees it: a scan it accepted tunes, dwells,
  restores home and reports, or faults. Its inside is `StationController`.
- `tuned`, `swept`, `probed` are history: where each scan went, which dwells
  ended uncancelled in which pass, and which had their probe reported sent.

A beacon is reduced to sender, channel, time and whether it fits; malformed
ones are not delivered. Stored credentials and net80211's scan bitmap are left
out: when no request is active, an ordinary scan may begin at any poll.

### The parts of polled_parts
`NetworkController` is `MacNetworkState` between net80211, station, radio and
rings: `NetPoll` is `poll()` as a chain of operators, each doing nothing after a
failure as the early returns do; `NetSelect`, `NetEnable`, `NetDisable`,
`NetReceives`, `NetPortChanges` are its other entries. `RadioLink` is
the boot service, its sequence of calibrations and the antenna lease; Bluetooth
moves between the register accesses of one call.
`ReceiveRing` is the data ring from the device's write to the callback.

- `ControllerConsistent`: one action at a time and only after the drain it waits
  for; keys of the old link drained; the link and the protocol state follow the
  station; the controller's own checks (`stationActionComplete`, the queue of
  sixteen) never fire.
- `RadioSafe`: the calibration body runs only under the lease; Bluetooth keeps
  its turn; traffic only on a calibrated channel; no calibration is refused; a
  stop that reports success leaves the radio quiet.
- `FramesWhole`: buffers in order, frames whole, nothing touched after a stop or
  a release, also from inside a callback.
- `WorkEnds`: selections are resolved, actions of the radio end and are complete
  when they say so, received frames are delivered.

Simplifications: the station in `NetworkController` has no clock; `RxWholeFrames`
assumes that no two segments of an impossible length follow each other.

### The parts of driver_parts
Each part keeps the names of its code and a prefix for what is its own.

| Module (prefix) | Code | Reduced to |
|---|---|---|
| `SaeExchange` (Sae, Owe) | `auth/SaeExchange.c`, `SaeSession.c`, `OweSession.c` | symbolic cryptography; 1 retry, clock of 5; an air that loses, repeats, reorders |
| `AuthEvents`, `EventTranscript` (Ev) | `AuthenticationEvents.hpp`, `AuthenticationBinding.hpp`, its uses | queue of 2 for 8, 4 frames, 3 operations, 2 readers |
| `FirmwareMailbox` (Mail) | `FirmwareMailbox.hpp`, `FirmwareCapabilities.hpp` | firmware moves between any two accesses; 4 requests, 2 notices |
| `FirmwareBringUp` (Up) | `MacProbeAndFirmware.cpp`, `MacFirmwareDownload.cpp`, `FirmwareTransfer.hpp`, power and DMA stop | 3 packets; any access may fail after it took effect |
| `FirmwareImage` (Fi) | `FirmwarePlan.hpp`, `FirmwarePackets.hpp` | word of 7, packets of 2, ring of 4; statuses are accepted or refused; the dynamic header is opaque |
| `DiagnosticProbe` (Dp) | `RTL8852BEProbe.cpp` and its probes | a read-modify-write of the command register is one step; the write that enables the device is not raced |
| `ControlPlane` (Cp) | requests of other threads, `WirelessUserClient.cpp`, `stop()`, `free()` | every thread one step per lock, gate or call |
| `ScanResults` (Wr) | `NativeWclScan*.hpp` and the controller's use | 2 scans, 2 networks; `commit(accepted)` is taken as the Bridge offers it although the controller passes false |
| `Advertisement` (Ad) | `NativeScanObservation.hpp`, `NativeScanCache.hpp`, `NativeWclBeacon.hpp` | bytes 0..3, scaled limits, HT, RSN and WPA elements as one; an entry too long for a draft is stored and not drafted, as in the code |
| `PacketBridge` (Pb) | `Net80211PacketBridge`, `NativeScanProbeTx.hpp`, the queue | 3 frames, budget 2 for 32; net80211 answers anything |
| `PacketBridge` (Wf) | `NetworkDescriptors.hpp`, `Rtw89DescriptorCore.hpp`, encoders of `PciDataPath.hpp` and `FirmwareDmaQueue.hpp`, `StationIoCore.hpp` | words as sets of bits, every field at and beyond its edges, addresses up to 65535 for 2^32; `free_run_cnt`, buffer descriptors and EDCA left out; PHY reports of up to 6 units and one of 9 |
| `PacketBridge` (Hf) | `MacNetworkPhyWait.hpp`, `receiveData()` | 2 PPDU counts for 8, 3 frames, 2 actions; a frame still in the ring when a channel is set counts as received on the new one, as in the code |
| `HardwareSession` (Hs) | session of `MacNetworkController.cpp`, `PciRingSetup.hpp`, `PciRuntime.hpp` | 2 rings for 9; `stop()` and `shutdown()` are one step each with every outcome |
| `DmaBank` (Db) | `MacDmaBuffer`, `TxDmaBank.hpp`, `RxDmaQueue.hpp` | 3 buffers; each resource may fail to come or to go |
| `HardwareSession` (Lk) | `PciLinkInitialization.hpp`, `MacPciLinkIo.cpp` | a DBI write that was given up may still undo a restored L1; that is allowed only in the error state |
| `PowerPair` (Pw) | `DevicePower.hpp`, ported sequences | register writes without a poll between them are one step; others open the mask only between passes |
| `ChipSetup` (Mi, Ph) | `MacInitialization*`, `MacPhyInitialization*` | a stage is its accesses by kind; plain writes are lost only by a device that is gone; `cancel()` at any time |
| `CalibrationRead` (Ef, Ed) | `EfuseReader.hpp`, `DavEfuseReader.hpp`, `DeviceCalibration.hpp`, `decodeEfuse` | the byte loop of the main bank is one step; two words per block, few byte values |
| `RadioProgramming` (Rt) | `RadioTables.hpp`, `RadioAccess.hpp`, `RadioFirmware.hpp`, `RadioInitialization.hpp` | Rt: the walk, row by row, over tables of the same grammar with few rows; Rs: the two tables that are shipped, see below; only the radio tables |
| `ChannelTune` (Ct) | `ChannelProgramming.hpp`, `MacRfkIo.cpp` | the native lease is never released after a failure; `abort()` cannot be reached |
| `ChannelTune` (Pp) | `TxPowerPlan.hpp`, `InitialChannelPolicy.hpp`, limit functions | every channel geometry; one value per domain and world and one odd ceiling; power by rate only counted |
| `CalibrationRun` (Rk) | `RfkInitialization.hpp`, ported bodies | a body is its accesses by kind; the lease itself is in `RadioLink`; native `recovery()` always refuses, so a failed body keeps its lease |
| `CoexSetup` (Cx) | `BtInitialization.hpp` | the moment between the look at Bluetooth and the grant is not split |
| `TableProgrammer` (Tp) | `StationTables.hpp` Programmer | 3 actions; entries are written or not; the sequence does not wrap here |
| `StationPort` (Sp) | `MacStationIo.cpp`, `seedMacTables` | two words per entry; the port is disabled, configured, enabled, with a loss at any point; the last tail parameter is not part of "whole" |
| `ProtocolTimers` (Tm) | `Net80211Timers.cpp` | the kernel may deliver a callback queued before `cancelTimeout`; that such a callback fires a timer that was armed again early is not excluded |

`RadioProgramming` also holds the two tables the driver ships
(`radioARegisters`, `radioBRegisters`, 16,663 rows) in the order of the source,
section by section. A row keeps its operation, the package of its branch, whether
its address is reached through the port (class 0) or directly (class 1), and what
it does to the lookup banks (selects one, gives an index, gives data, closes);
the values are left out. They are walked by the same operators as the small
tables, for six boards: cut 0, the exact cut, a cut that only an older package
of the same RFE serves, and an RFE that no headline names. `RsShippedServes` says
that each board whose RFE is named is served by a package of its RFE, that the
firmware words fit the 1,500 a path holds, that no entry is written without its
index and that no bank is left selected. The rows of bank 0xEC are the reason why
data without a selected bank is not counted as a slip: the select of that bank
is in the branches for cut 0 only, and the entries go out for every board.

The promises are stated across the parts, since the same hazard runs through
all of them; each is a conjunction of the parts' own properties, which stand
with their explanation in their modules:

- `KeysConfirmed`, `AnswersAreOurs`, `EvImplementsTranscript`: what is taken for
  an answer, a confirmation or a whole transcript is one.
- `NothingFreedInUse`: pages, mappings, buffers and nodes.
- `ReadyMeansWhole`, `FailureIsHonest`, `LeftAsFound`: the three ends of a
  sequence that can be cut at every access.
- `DecodedExactly`: walks over data from outside against a reference that is
  not a walk.
- `ControlPlaneSound`: threads, clients and `stop()`.
- `NothingLateOrTwice`, `StepsKeepTheirOrder`: what a single step may never do.
- `CommandRingSound`, `ImplementsLease`: the firmware command ring.

## 4. Runs

Every run is complete for its bounds. "Violation" runs are the findings of
section 7.

| Run | Bounds | Why they are enough | Shows |
|---|---|---|---|
| station_safety | 2 incarnations, every backend call refusable, 1 duplicate callback, 6 serial numbers | every call fails at every place up to authentication; serials run out; completions and ACKs of the old incarnation meet the new one | `TypeOK`, `FirmwareAgrees`, `NoStrayWork` |
| station_lifecycle | 1 incarnation, 18 serials, 2 channels (active, passive) | reaches a link, a scan of both channels on it, revocation and disconnect inside the scan, return, stop | `LinkSound` (`FirmwareAgrees`, `DataNeedsLink`, `RevokedPortStaysClosed`), `AirRespected` (`SilentWhileWorking`, `ProbesOnTheirChannel`), `IdleIsClean` |
| station_liveness | 17 serials, `MaxTime` 6 | whole life of a connection; running out of time is itself an end (the overflow check faults) | `StationNeverHangs` (`OperationsEnd`, `ScansEnd`, `DisconnectsEnd`, `AuthenticationEnds`) |
| station_late_association | 8 serials | shortest path to a late frame | violation |
| command_safety | 3 reservations over 2 sequences, nested events, clock in both directions | the allocator wraps onto a completed record, meets an open one, and reaches its limit; every outside call can span the deadline; one command may be reserved and never published | `TypeOK`, `AnswersStillExpected`, `ImplementsLedger`, `NoLateSuccess`, `CommandsEnd` |
| command_reuse | 3 reservations over 2 sequences | one wrap | violation |
| tx_safety | 3 pages, 3 frames that are sent again and again, 2 reports fit the RPQ, 1 taken per drain | the ring wraps and fills, pages come back in another order than descriptors, a report waits across drains | `RingSound` (`JobsUndisturbed`, `DeviceNeverRefused`), `DrainedMeansQuiet`, `ImplementsLease` |
| tx_liveness | 2 frames, 1 report fits the RPQ | host and device have to wait for each other | `FramesReturn` |
| scan_requests | 2 requests over 2 channels, active or passive, 4 dwells, clock in both directions, no ordinary scans | both requests can complete; every cause of cancellation meets every part of the poll and every state of the probe | `DrainedMeansHome`, `CancellationReachesStation`, `ProbeInItsDwell`, `RequestAnswered`, `RequestsEnd` |
| scan_snapshots | 1 request and ordinary scans, 3 dwells, 2 passes, banks of 1 entry | a pass follows a published one, overflows, changes hands between request and net80211, and passes run out | `HeardInPlace`, `ImplementsSnapshot` |
| polled_parts | 2 selections; 2 channels; a receive ring of 3, 1 frame per poll, 5 segments | a selection replaces one that is being acted on; the radio changes channel and comes back; the ring wraps inside a frame | `ControllerConsistent`, `RadioSafe`, `FramesWhole`, `WorkEnds` |
| driver_parts | per part, see section 3 | see section 3 | the promises listed in section 3 |

`driver_parts` and `polled_parts` check a **disjoint union** of parts. The
parts share no variable; `part` is chosen in `MCInit` and never changes, only
that part's actions are taken and all other variables stay at their initial
values. The states of the run are those of the parts, added and not
multiplied, and each invariant, action property and refinement is checked on
every behaviour of its own part. Where a part has many initial states, the
others are given one of them (`part # "x" => ...` in `MCInit`). Liveness
properties hold trivially of a part that does not run, which is harmless: the
runs of their own part are there too. `FirmwareQueue` is checked with 4 slots,
2 kept back, 2 reads and 4 commands: it wraps, fills, and the producer meets
packets kept back.

No run uses symmetry. `CHECK_DEADLOCK FALSE` is in the runs where the system may rest for good: a faulted or stopped controller
with nothing outstanding, a queue or driver that was shut down, a sequence that
came to its end. The command bus is checked for deadlock. `CpNeverStuck` states
for the control plane what a deadlock check would: while a thread is in it,
some thread can go on.

Every property of a passing run has a mutant in `PROJECT.json`: a plausible bug
in one definition (a check dropped, a wrong bound, a missing reset) that makes
that property fail in that run. Where a property is a conjunction, each conjunct
has a mutated form that breaks it; `PROJECT.json` lists one of them. The mutated
forms stand beside the definitions they mutate and are used nowhere else.

## 5. Fairness

- Station: weak fairness of `Poll`, the call of `tick()` with a later time.
  The network controller's workloop timer calls it every 10 ms. Nothing is
  assumed of device, firmware, access point or owner: the timer alone ends
  every wait.
- Command bus: the clock moves forward again and again and steps back only
  finitely often (`FairSpec` says both: a clock that kept stepping back would
  fault the bus at the next call anyway), the poll calls `service()`, and
  outside calls return (they are synchronous functions of the driver).
  Firmware may be silent.
- Transmit ring: `dispatch()` drains at least every 10 ms, the timer being the
  backstop for a lost interrupt, so each of its steps is weakly fair. The
  device fetches and retires (weak). `Report` is strongly fair for each page:
  the RPQ may be full again and again, and the device waits for room. A device
  that never reports leaves its frames held until the runtime is stopped; that
  is the code's behaviour, and `FramesReturn` assumes otherwise.
- Scan: the three parts of `poll()` are weakly fair (the same timer), and a
  scan the station was given takes its steps or faults (strong fairness of
  `StationScanStep`, which is possible only inside a poll). The second is what
  `station_liveness` shows of the station as `ScansEnd`.
- Network controller: `NetPolls`, the 10 ms timer; `NetFirmwareAnswers`, a
  command the firmware took is answered or its deadline passes (the bus ends
  it either way, see `CommandsEnd`); `NetFrameCompletes`, a frame given to a
  ring comes back (`FramesReturn`).
- Radio: `RlPolls`, the calls of `service()` from the same timer;
  `RlCommandEnds`, a command ends by an answer or its deadline;
  `RlWordDelivered`, the firmware takes a word of the interface to Bluetooth
  or the wait for it runs out.
- Receive ring: `RxHost`, the steps of the poll. The device owes nothing.

The runs state each of these once for the part that is running; a part that is
not running is asked nothing.

## 6. Proofs

Assumptions are the named ASSUME of each module: non-empty ranges,
distinguished values outside the sets they extend, timeouts and plans as the
code validates them. TLC evaluates them in every run.

**Station** (`StationControllerProofs`), for every plan, timeout, range of
times and serials, set of refusals and number of duplicates:
- `TypeCorrect`: `Spec => []TypeOK`. Not inductive alone: that a completion
  leads to a legal state depends on which state waits for which action, and
  the scan index must be inside the plan. The invariant is
  `TypeOK /\ Paired /\ ScanInPlan /\ PeerKnown /\ NothingLeft`: the pending
  operation is the one its state waits for, at most one is waited for; the
  index
  is within the plan until the scan turns home; a station that attempts, keeps
  or scans away from a link knows its peer; and a token, an authentication or
  a disconnect request exists only in the states of a link, a scan token only
  in those of a scan.
- `IdleStartsClean`: `Spec => []IdleIsClean`, from the same invariant.

One lemma per helper (`...Leads`) says where `BeginAction`, `BeginCommand`,
`Settle` and `Fail` can lead; one lemma per action uses them.

**Station, device and firmware** (the second half of the same module), for the same parameters and every number of incarnations:
- `FirmwareAlwaysAgrees`, `NothingStrays`, `LinkAlwaysSound`,
  `AirAlwaysRespected`: `Spec => []P` for `FirmwareAgrees`, `NoStrayWork`,
  `LinkSound` and `AirRespected`.

None of the four is inductive, because each is about a state reached when an
answer arrives, and what that answer may be depends on everything that can
still be on its way. `Link` adds to the invariant above:
- `Work`: the controller waits exactly in the states that wait; tokens, callbacks
  and acknowledgements are of this or an earlier incarnation, commands of this
  one; of this incarnation only the pending action is at the device, and no
  callback names it before the device finished it; only the pending command is
  on the way or positively answered, and not both. Without it a late or
  duplicate answer could advance the wrong state.
- `Believes`: what the firmware holds in each state, open only while a command
  that changes it is out.
- `Located`: where the radio is in each state that needs it somewhere.
- `Admits`: the TX admission of each state, and the flags that will decide it
  when the scan in progress comes home.
- `Effects`: an answer that reports success and was not read yet has had its
  effect, on the firmware (`Answered`) or the radio (`Tuned`). This is what
  carries the belief from the moment of the answer to the moment it is read.

Only a faulted station is asked less: work handed out before the fault may
still be out.

**Command bus** (`FirmwareCommandsProofs`), for every number of sequences,
clients, commands and timeouts:
- `TypeCorrect`: `Spec => []TypeOK`.
- `BusImplementsLedger`: `Spec => ImplementsLedger`.
- `AnswersAlwaysExpected`: `Spec => []AnswersStillExpected`.
- `LateIsNoSuccess`: `Spec => NoLateSuccess`, the action property.

The invariant of the first two is `TypeOK /\ Tracked /\ Awaited /\ InTransport`:
an open record's token is one that was issued, its owner is the client the
ledger remembers, and no two open records have the same token; a published
record has an identity and, if it has a client, an acknowledgement it asked
for; the record in the transport is still pending. `Moves` names the ways a
step changes the records (not at all, one allocated, one updated, one
completed); each action is shown to be one of them, and each of them to be a
ledger step, so the refinement is argued four times instead of once per action
and path. `FaultLatched` gives the ledger's "down stays down".

`AnswersStillExpected` is about the wire, so it needs what is on it. `Answerable`
adds, while the bus has not failed, that what the firmware still owes was asked
for by the command now pending under that sequence, once per sequence and not
while the command is in the transport (`Owed`), that the same is true of every
acknowledgement queued, that none is both owed and queued, and that a receipt
comes before the completion it precedes (`Queued`), and at all times that a
command which has not left the host is not marked as received (`Fresh`). This is
where reuse of a sequence could go wrong: `reserve()` takes a completed record
only, and the invariant says that nothing can answer a completed record.

**Transmit ring** (`TxQueueProofs`), for a ring of any size, an RPQ of any size
and any budget of reports per drain:
- `TxTypes`: `Spec => []TypeOK`.
- `RingAlwaysSound`: `Spec => []RingSound`.
- `DrainedIsQuiet`: `Spec => []DrainedMeansQuiet`.
- `QueueImplementsLease`: `Spec => ImplementsLease`.

`TxInv` says how the five cursors stand to each other (`Cursors`: retired, then
fetched, then told, then staged, all counted from the consumer), that each
descriptor not yet consumed names a page of its own in use (`Window`), that one
not fetched is in no job and no report (`Unfetched`), that page ledger, leases,
memory and `outstanding_` agree (`Ledger`), that jobs of the device and reports
not yet taken are about pages in use, each once, and never the same page
(`AtDevice`, `InReports`), and that a drain does not look past the reports it saw
(`Draining`). `Unfetched` and `InReports` are the ones that are easily forgotten:
pages come back in another order than descriptors, so it is not the ring that
keeps a page from being in two places. The modulus is removed first: `Forward`
is a distance without `%`, and all later arithmetic is linear in it.

**Command ring** (`FirmwareQueueProofs`), for a ring of any size, any number of
packets kept back and up to that many reads under way:
- `CommandRingAlwaysSound`: `Spec => []CommandRingSound`.
- `CommandRingImplementsLease`: `Spec => ImplementsLease`.

`FqInv` is `TypeOK`, `Cursors`, `Kept` (the packets kept back are the slots just
behind the consumer, in order), `Occupied` (a slot has a cookie exactly when it
waits or is kept back, and together they fit the ring) and `Reading` (a read
under way is of one of the last `Tags` slots the device took, and that slot is
still waiting or kept back). The last is the whole point of keeping packets
back: the slot that `consumeTo()` gives back is further behind the device's
index than any read can be.

**Scan** (`ForegroundScanProofs`), for every set of channels and plans, timeout,
clock (also one that goes back) and capacity of the cache:
- `ScanTypes`, `DrainedAlwaysHome`, `CancellationAlwaysReaches`,
  `ProbeAlwaysInItsDwell`, `RequestsAnsweredWhole`, `SnapshotHeardInPlace`:
  `Spec => []P` for the module's type invariant and its five safety invariants.
- `ScanImplementsSnapshot`: `Spec => ImplementsSnapshot`.

`RequestAnswered` and `HeardInPlace` speak of the end of a request and of a pass
only, so `ScanInv` follows both from their beginning: `Requested` ties the
request's dwell to its plan, `Attended` ties it to the station's scan and to the
station's knowledge of a cancellation, `Probing` the probe to the dwell,
`Covering` says that every channel counted so far was swept in the pass still
open, `Passing` that whatever the working bank holds was heard in a dwell that is
swept or is the pending one, and `Banked` that the two banks are never the same
and the published one is of an earlier pass. The part that is easily missed is in
`Attended`: a station in the request's last dwell implies that the request still
has that dwell, also after a fault, when nothing else ties the two together; this
is what keeps a failed request from reporting itself drained. The handlers
are combinations of a few calls, so each call has one relation that says what it
does and one lemma that it keeps its part of the invariant; the relations on the
observer are those the refinement is argued by (`Moves`), and seven cases, not
one per action, are mapped to steps of `ScanSnapshot`.

**Polled parts** (`PolledPartsProofs`), for a ring of any size, any number of
selections and segments and any set of channels:
- `FramesAlwaysWhole`, `ControllerAlwaysConsistent`, `RadioAlwaysSafe`:
  `MCSpec => []P` for `FramesWhole`, `ControllerConsistent` and `RadioSafe`.

`RxInv` of the receive ring: the index published is behind the consumer, the
consumer behind the device (`RxCursors`); the buffers that wait hold the segments
that follow, in order (`RxOrdered`, `RxFresh`). What is delivered is then
whatever the device wrote next, also when a callback stops the ring.

`NetInv` of the network controller: it is either failed or shut down (`NetDead`),
or each part of what it keeps agrees with the others: the action deferred and the
drain it waits for (`NetAction`), the keys of the link (`NetKeys`), link and
protocol state against the station (`NetLink`, `NetProtocol`), what is queued
(`NetPending`), and what was last asked for against what is being done about it
(`NetObeys`, `NetWishes`, `NetScanning`, `NetLinking`, `NetLinked`). A poll is a
chain of operators, so each has a lemma that says what it needs and what it
leaves. The point that is easily missed is in `NetObeys`: a scan is cancelled
exactly when another state is wished for, and always when the interface is down or
a network waits to be installed; and a station still on its way to a link when the
interface is down has been told to disconnect.

`RlInv` of the radio: where the lease of the antenna is at each stage of an
action and of its sequence of calibrations, which command may be in flight there,
and that every failure costs the bus (`RlLease`); what is calibrated after the
n-th step (`RlSequenced`, `RlReached`); and, as long as the bus works, which
channel the radio is on and came from (`RlPlaced`). The last is what shows that
the calibration at the end of a scan is never refused.

**Smaller parts** (`DriverPartsProofs`), for every value of their constants. The
module holds the invariant of each part, with one lemma that it holds at the
start, one that a step keeps it and one for what follows from it, and these
theorems, each under the part's own specification.
- `EventsWholeAndOurs`: `EvSpec => [](EvWhole /\ EvOfThisAssociation)`, and
  `EventsImplementTranscript`: `EvSpec => EvImplementsTranscript`. The two
  properties are inductive with the type. Every way to clear the stream is
  brought to one form (`EvFresh`), which is a `Restart`; that needs the generation
  to differ also after the two steps of a capture that binds at once, and across
  the wrap, which is why a generation counts to three at least.
- `MailboxAnswersAreOurs`: `MailSpec => [](MailReplyIsOurs /\ MailMaskKnown)`, and
  `MailboxResumeRestores`: `MailSpec => MailResumeRestores`. `MailOneRequest` says
  that until a fault is latched a scheduler request is in one of the three places
  (host register, firmware, reply register), is the current call's and exists only
  while that call waits for it; `MailReplyOfCall` and `MailRegisterCaptured` carry
  that over to the captured words, `MailMaskHeld` and `MailLeaseKept` to the mask
  and to what a pause saved. Latching the fault is what makes this inductive: a
  call that gives up after its trigger leaves a request nobody answers for.
- `NoBufferPulledAway`: `DbSpec => [](DbMappedWhileRunning /\ DbMappingBacked /\
  DbFreeIsEmpty)`, with `DbBankTrue`: a bank that is visible has all its buffers,
  they are marked as the bank is, and the device runs over no other. What
  `cleanup()` leaves is always a prefix of the steps.
- `TablesWholeOrOver`: `TpSpec => [](TpAnsweredOnce /\ TpSuccessWhole /\
  TpNoHalfPlan)`. On a usable bus the one command pending is the plan's current
  one, the device has it at most once, and not while an acknowledgement of it
  exists (`TpOneCommand`); on a bus that is over nothing is claimed, since it stays
  so. The operators map whole states, so the invariant is a predicate on a state
  (`TpGood`) and each operator has a lemma: `fail()`, `submit()`, `event()` and the
  end of the service lead from what holds where they are called to a good state.

**Promises across the smaller parts** (`DriverGroupsProofs`), for every value of
the constants, under the specification of the run. A step of the composition is
a step of one part and leaves the others alone (`PartsMove`), so the invariant
of a promise is the conjunction of those of the parts it is about:
- `KeysAlwaysConfirmed`: `MCSpec => []KeysConfirmed`. `SaeInv` says what each
  side's session stands for, what a message on the air proves of its sender (a
  Confirm the station can use was sent by an access point that had accepted), and
  how often each phase has sent; `OweInv` the same of OWE.
- `NothingEverLateOrTwice`: `MCSpec => NothingLateOrTwice`. `SaeNumbered`: the
  station's counter is the highest of its Confirms on the air; `TmInv`: a pending
  timeout has a function, and its arming is later than the last one called;
  `WrInv`: what is loaned belongs to the snapshot; `HfGood`: each frame that waits
  is in one place, was received in the current action and is not given yet.
- `LeftAlwaysAsFound`: `MCSpec => []LeftAsFound`. `EfInv`: what is switched on at
  each point of a fuse read, and where the port may still be at work; `DpInv`: the
  bank is held wherever it is used, the interrupt is masked from bus mastering to
  supply off; `RkInv`: an engine is under way only right after the access that
  started it, the transmitter is marked right after it was armed; `SpInv`.
- `StepsAlwaysInOrder`: `MCSpec => StepsKeepTheirOrder`. Besides the above `CtInv`
  (what was verified stays true until the end), `PwInv` (what a pass has still to
  do begins with the strobe at most once, and the look at the engines comes
  before the supply is cut), `UpInv` (the second cycle touches the device only
  when the first has closed; DMA rests before the processor, the processor
  before the supply).
- `AnswersAlwaysOurs`: `MCSpec => []AnswersAreOurs`. `CxInv`: commands are applied
  in order, each once, and at most the next one is under way; an acknowledgement
  that reports success is of a command that was applied. The rest is `EvInv`,
  `MailInv`, `TpInv` and `WrInv`.
- `FailureAlwaysHonest`: `MCSpec => []FailureIsHonest`. `LkInv`: at each point of
  a configuration write, whether L1 is owed, restored or reported; `PwHonestInv`:
  each thing that makes the device whole is done or still to do while a pass has
  no error, and a pass that wrote nothing leaves it as found; `CtSafeInv`: nothing
  is held between channel steps, the lease is owned during one and kept by one
  that failed; `SpWholeInv`: after n writes of a seed the first n are on the
  device, if it is there; `DpToldInv`: what the probe reports is how it left
  supply, pages and command register.

**Model-checked only.**
- All liveness (`StationNeverHangs`, `CommandsEnd`, `FramesReturn`,
  `RequestsEnd`, `WorkEnds`): fairness is beyond the prover.
- `ControlPlaneSound`: `CpNeverStuck` speaks of `ENABLED`.
- `NothingFreedInUse`: what `pumpTx()` and `shutdown()` of the packet bridge do is a
  fold over the frames queued, which needs induction. Its DMA banks are proved
  (`NoBufferPulledAway`).
- `ReadyMeansWhole`: the firmware image and the radio tables are walks over data.
  Its link, table programmer and station tables are proved, as parts of `LkInv`,
  `TpInv` and `SpWholeInv`.
- `DecodedExactly`: walks over bytes, bits and rows, each against a reference
  that is not a walk. What a recursive definition computes for every input takes
  induction over data, which the prover cannot do.

## 7. Findings

- **A late frame turns a missed authentication into recovery**
  (`station_late_association`). When the authentication deadline has passed,
  `expire()` starts the ordered disconnect and returns true.
  `authenticated()`, `associationReceived()` and `associationRejected()` read
  that as "not expired" and start a second operation on a controller that
  is already waiting, which `action()` refuses by faulting. Through `tick()`
  the same deadline leads to the ordered disconnect, which is what
  `tests/network_station_controller_test.cpp` asserts.
- **Sequences are reused** (`command_reuse`).
  `docs/firmware-command-routing.md` says a sequence is never reused in one
  firmware incarnation; `reserve()` reuses a completed one after 256.
  `AnswersStillExpected` shows that the reuse is sound as long as the firmware
  answers each command at most once and a command completes only when all its
  answers came.

## 8. Not modelled

- The values of generated and imported data. Tables, constants and field
  layouts are some 20,000 of the 37,000 implementation lines. The two radio
  tables are modelled row by row without their values; the baseband, gain, NCTL,
  power limit and calibration tables and the register constants are not: the
  code that walks them is (`ChipSetup`, `ChannelTune`, `CalibrationRun`), on small
  tables of the same shape. The map covers about a third of all lines, and most
  of the stateful ones.
- Byte layouts of table entries, of firmware commands and of the join and
  candidate messages of the native front end. The models keep the fields a
  decision reads; descriptors and PHY reports are modelled to the bit.
- The arithmetic of calibration, baseband gain and power trim.
- Cryptography behind SAE and OWE, and the net80211 stack: external.
- Code without a caller: `RingProbe`, `DmaProbe`, `KernelDma`,
  `PciRingSetup::restore()`. `Programmer::service()` and `cancel()` have no
  caller either but are in `TableProgrammer`.
- Registry diagnostics (`publishStatus`), tracing, operating-system
  registration, legacy AirPort conversion, packaging, build tools.
