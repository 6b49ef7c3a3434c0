--------------------------- MODULE FirmwareBringUp ---------------------------
(***************************************************************************)
(* The two-cycle firmware service (network/MacProbeAndFirmware.cpp) over   *)
(* the device's power (DevicePower.hpp), its processor                     *)
(* (FirmwareBootPreparation.hpp), the DMA stop of PciRuntime.hpp and the   *)
(* firmware download (MacFirmwareDownload.cpp, FirmwareTransfer.hpp,       *)
(* PciFirmwareTransport.hpp), with a device that reads packet pages on its *)
(* own.                                                                    *)
(*                                                                         *)
(* The service holds the gate, so its calls are one program; upAt is where *)
(* that program stands.  Each step is a run of register accesses that ends *)
(* where the device may observe a difference.  Every one of them may fail  *)
(* after part of it took effect: a register reads as all ones, a read back *)
(* differs, a deadline passes.                                             *)
(***************************************************************************)
EXTENDS Naturals

CONSTANTS
    UpPackets,   \* packets of the image, the header packet first
    UpStops      \* bound on calls of stop()

ASSUME UpAssumption == UpPackets \in Nat /\ UpPackets >= 2 /\ UpStops \in Nat

VARIABLES
    upAt, upCycle,     \* where the service stands, and currentCycle
    upCaller,          \* who runs stopCycle()
    upSecond,          \* stop(): the result for the runtime cycle
    upService,         \* struct State and ProbeFirmwareResult
    upC,               \* struct Cycle, for each of the two
    upTransfer,        \* locals of transfer() and of class PciDownload
    upDevice,          \* the device
    upImage,           \* packets the running processor has fetched (for a property)
    upStopCalls

upLocals == <<upAt, upCycle, upCaller, upSecond, upTransfer, upStopCalls>>
upVars == <<upLocals, upService, upC, upDevice, upImage>>

UpNone == 2            \* no cycle
UpCycles == {0, 1}

UpNewTransfer == [prepared |-> FALSE, attempted |-> FALSE, snapshot |-> FALSE,
                  started |-> FALSE, complete |-> FALSE, quiesced |-> FALSE]

UpInit ==
    /\ upAt = "new" /\ upCycle = 0 /\ upCaller = "none" /\ upSecond = FALSE
    /\ upService = [cancelled |-> FALSE, attempted |-> FALSE, safe |-> TRUE, prepared |-> FALSE]
    /\ upC = [c \in UpCycles |->
                [touched |-> FALSE, closed |-> FALSE, offAttempted |-> FALSE,
                 returnedOff |-> FALSE, modified |-> FALSE, stage |-> "idle",
                 visible |-> FALSE, pages |-> "none"]]
    /\ upTransfer = UpNewTransfer
    /\ upDevice = [power |-> FALSE, pmc |-> FALSE, cpu |-> FALSE, master |-> FALSE,
                   engine |-> FALSE, ring |-> UpNone, published |-> 0, consumed |-> 0,
                   busy |-> UpNone]
    /\ upImage = 0 /\ upStopCalls = 0

UpGo(at) == upAt' = at /\ UNCHANGED <<upCycle, upCaller, upSecond, upTransfer, upStopCalls>>
UpHere == upC[upCycle]
UpKeep == UNCHANGED <<upService, upC, upDevice, upImage>>

\* fail() inside prepare() leads to stop(), which closes the runtime cycle first.
UpFail ==
    /\ upAt' = "closing" /\ upCycle' = 1 /\ upCaller' = "second"
    /\ upService' = [upService EXCEPT !.prepared = FALSE]
    /\ UNCHANGED <<upSecond, upTransfer, upStopCalls, upC, upDevice, upImage>>

----------------------------------------------------------------------------
(* Calls of the owner                                                      *)

\* allocate(): outside the gate; pages may run out.
UpAllocate ==
    /\ upAt = "new"
    /\ \/ /\ upC' = [c \in UpCycles |-> [upC[c] EXCEPT !.pages = "held"]]
          /\ UpGo("allocated")
       \/ /\ \E held \in SUBSET UpCycles :
                upC' = [c \in UpCycles |->
                          IF c \in held THEN [upC[c] EXCEPT !.pages = "held"] ELSE upC[c]]
          /\ UpGo("stopped")
    /\ UNCHANGED <<upService, upDevice, upImage>>

UpPrepare ==
    /\ upAt = "allocated" /\ ~upService.attempted
    /\ upService' = [upService EXCEPT !.attempted = TRUE]
    /\ upAt' = "identity" /\ upCycle' = 0
    /\ UNCHANGED <<upCaller, upSecond, upTransfer, upStopCalls, upC, upDevice, upImage>>

UpCancel ==
    /\ upAt \in {"allocated", "prepared"} /\ ~upService.cancelled
    /\ upService' = [upService EXCEPT !.cancelled = TRUE]
    /\ UNCHANGED <<upLocals, upC, upDevice, upImage>>

UpStop ==
    /\ upAt \in {"allocated", "prepared", "stopped"} /\ upStopCalls < UpStops
    /\ upService' = [upService EXCEPT !.attempted = TRUE, !.prepared = FALSE]
    /\ upAt' = "closing" /\ upCycle' = 1 /\ upCaller' = "second"
    /\ upStopCalls' = upStopCalls + 1
    /\ UNCHANGED <<upSecond, upTransfer, upC, upDevice, upImage>>

\* A service that forgets whether its shutdown was proven.
UpReleasable == \A c \in UpCycles : ~upC[c].visible

UpSafeToRelease == upService.safe /\ \A c \in UpCycles : ~upC[c].visible

\* release(), outside the gate; giving back a page may fail.
UpRelease ==
    /\ upAt \in {"allocated", "prepared", "stopped"} /\ UpSafeToRelease
    /\ \/ upAt' = "released" /\ upC' = [c \in UpCycles |-> [upC[c] EXCEPT !.pages = "freed"]]
       \/ \E c \in UpCycles : /\ upC[c].pages = "held"
                              /\ upC' = [upC EXCEPT ![c].pages = "partly"]
                              /\ upAt' = upAt
    /\ UNCHANGED <<upCycle, upCaller, upSecond, upTransfer, upStopCalls, upService, upDevice, upImage>>

----------------------------------------------------------------------------
(* startCycle()                                                            *)

UpIdentity ==
    /\ upAt = "identity"
    /\ \/ UpFail
       \/ /\ ~upService.cancelled
          /\ upService' = [upService EXCEPT !.safe = FALSE]
          /\ UpGo("power") /\ UNCHANGED <<upC, upDevice, upImage>>

\* DevicePower::start(): refused before the first write unless the device is
\* found off with its write mask closed.
UpPowerOn ==
    /\ upAt = "power"
    /\ \/ UpFail
       \/ /\ ~upDevice.power /\ ~upDevice.pmc /\ ~upService.cancelled
          /\ upC' = [upC EXCEPT ![upCycle].touched = TRUE]
          /\ \/ upDevice' = [upDevice EXCEPT !.power = TRUE] /\ UpGo("dma")
             \/ /\ \E on \in BOOLEAN, open \in BOOLEAN :
                      upDevice' = [upDevice EXCEPT !.power = on, !.pmc = open]
                /\ UpGo("failing")
          /\ UNCHANGED <<upService, upImage>>

UpFailing == upAt = "failing" /\ UpFail

\* PciRuntime::stop() proves the device idle and cut off, or may leave it half
\* stopped; a refused write may still have taken effect.
UpDmaStopped ==
    /\ upDevice.busy = UpNone
    /\ upDevice' = [upDevice EXCEPT !.engine = FALSE, !.master = FALSE]

UpDmaUnproven ==
    \E e \in {upDevice.engine, FALSE}, m \in {upDevice.master, FALSE} :
        upDevice' = [upDevice EXCEPT !.engine = e, !.master = m]

UpDmaStop ==
    /\ upAt = "dma"
    /\ \/ UpDmaStopped /\ UpGo("dmac")
       \/ UpDmaUnproven /\ UpGo("failing")
    /\ UNCHANGED <<upService, upC, upImage>>

UpStoppedDma == ~upDevice.engine /\ ~upDevice.master /\ upDevice.busy = UpNone

UpPrepareDmac ==
    /\ upAt = "dmac"
    /\ \/ /\ upDevice.power /\ UpStoppedDma /\ ~upService.cancelled
          /\ upC' = [upC EXCEPT ![upCycle].stage = "dmac", ![upCycle].modified = TRUE]
          /\ UpGo("pci")
       \/ /\ \E m \in BOOLEAN :
                upC' = [upC EXCEPT ![upCycle].stage = "fault", ![upCycle].modified = m]
          /\ UpGo("failing")
    /\ UNCHANGED <<upService, upDevice, upImage>>

\* preInit() and clearRings().
UpPci ==
    /\ upAt = "pci"
    /\ \/ /\ upDevice' = [upDevice EXCEPT !.ring = UpNone, !.published = 0, !.consumed = 0]
          /\ UpGo("cpu") /\ UNCHANGED <<upService, upC, upImage>>
       \/ UpFail

\* enableCpuForDownload(): the boot ROM runs and asks for an image.
UpEnableCpu ==
    /\ upAt = "cpu"
    /\ \/ /\ UpStoppedDma /\ ~upService.cancelled
          /\ upC' = [upC EXCEPT ![upCycle].stage = "cpu"]
          /\ upDevice' = [upDevice EXCEPT !.cpu = TRUE]
          /\ UpGo("bank")
       \/ /\ upC' = [upC EXCEPT ![upCycle].stage = "fault"]
          /\ \E on \in BOOLEAN : upDevice' = [upDevice EXCEPT !.cpu = on]
          /\ UpGo("failing")
    /\ upImage' = 0
    /\ UNCHANGED upService

----------------------------------------------------------------------------
(* MacFirmwareDownload::run(), transfer() and PciDownload                  *)

UpTo(at, t) == upAt' = at /\ upTransfer' = t /\ UNCHANGED <<upCycle, upCaller, upSecond, upStopCalls>>
UpSetPages(p) == upC' = [upC EXCEPT ![upCycle].pages = p]

\* prepareBank() wants every page mapped, and encodes and checks every packet; a
\* bank that is not ready was never visible and is given back.
UpBank ==
    /\ upAt = "bank"
    /\ \/ UpHere.pages = "held" /\ UpTo("prepare", UpNewTransfer) /\ UNCHANGED upC
       \/ UpTo("accept", UpNewTransfer) /\ \E p \in {"freed", "partly"} : UpSetPages(p)
    /\ UNCHANGED <<upService, upDevice, upImage>>

\* The first check(), prepare() and the second check(); only after the first is
\* there anything to clean up.
UpTransferPrepare ==
    /\ upAt = "prepare"
    /\ \/ UpTo("accept", upTransfer)
       \/ UpTo("quiesce", [upTransfer EXCEPT !.prepared = TRUE])
       \/ UpTo("start", [upTransfer EXCEPT !.prepared = TRUE, !.attempted = TRUE])
    /\ UpKeep

\* startDownload() up to the bus master: pages are marked before any address
\* can reach the device, the ring is programmed with the engines stopped.
UpStartRing ==
    /\ upAt = "start"
    /\ \/ /\ ~upService.cancelled
          /\ upC' = [upC EXCEPT ![upCycle].visible = TRUE]
          /\ \/ /\ UpTo("quiesce", upTransfer)
                /\ UNCHANGED upDevice
             \/ /\ upDevice.published = 0 /\ upDevice.ring = UpNone /\ UpStoppedDma
                /\ \/ /\ UpTo("master", [upTransfer EXCEPT !.snapshot = TRUE])
                      /\ upDevice' = [upDevice EXCEPT !.ring = upCycle]
                   \/ /\ UpTo("quiesce", [upTransfer EXCEPT !.snapshot = TRUE])
                      /\ \E r \in {UpNone, upCycle} : upDevice' = [upDevice EXCEPT !.ring = r]
       \/ UpTo("quiesce", upTransfer) /\ UNCHANGED <<upC, upDevice>>
    /\ UNCHANGED <<upService, upImage>>

UpStartMaster ==
    /\ upAt = "master"
    /\ \/ /\ upDevice' = [upDevice EXCEPT !.master = TRUE]
          /\ UpTo("engine", [upTransfer EXCEPT !.started = TRUE])
       \/ /\ \E m \in BOOLEAN : upDevice' = [upDevice EXCEPT !.master = m]
          /\ UpTo("quiesce", [upTransfer EXCEPT !.started = TRUE])
    /\ UNCHANGED <<upService, upC, upImage>>

UpStartEngine ==
    /\ upAt = "engine"
    /\ \/ upDevice' = [upDevice EXCEPT !.engine = TRUE] /\ UpGo("publish")
       \/ /\ \E e \in BOOLEAN : upDevice' = [upDevice EXCEPT !.engine = e]
          /\ UpGo("quiesce")
    /\ UNCHANGED <<upService, upC, upImage>>

\* publish(): one packet at a time, the header after the H2C wait and the
\* sections after the wait for the download path; a failed doorbell may have
\* reached the device.
UpPublish ==
    /\ upAt = "publish" /\ upDevice.published < UpPackets
    /\ \/ /\ upDevice' = [upDevice EXCEPT !.published = @ + 1]
          /\ UpGo("publish")
       \/ /\ \E n \in {0, 1} : upDevice' = [upDevice EXCEPT !.published = @ + n]
          /\ UpGo("quiesce")
    /\ UNCHANGED <<upService, upC, upImage>>

\* A transfer that takes the ready state for the end of the download.
UpDrainTrustsReady ==
    /\ upAt = "publish" /\ upDevice.published = UpPackets
    /\ UpTo("quiesce", [upTransfer EXCEPT !.complete = TRUE])
    /\ UpKeep

\* The wait for the ready state and then for the device's index, each bounded.
UpDrain ==
    /\ upAt = "publish" /\ upDevice.published = UpPackets
    /\ \/ /\ upDevice.consumed = UpPackets
          /\ UpTo("quiesce", [upTransfer EXCEPT !.complete = TRUE])
       \/ UpTo("quiesce", upTransfer)
    /\ UpKeep

\* Nothing is proven, and the pages are given back all the same.
UpQuiesceHopes ==
    /\ upAt = "quiesce"
    /\ UpTo("giveback", [upTransfer EXCEPT !.quiesced = TRUE])
    /\ \E e \in {upDevice.engine, FALSE}, m \in {upDevice.master, FALSE} :
          upDevice' = [upDevice EXCEPT !.engine = e, !.master = m, !.ring = UpNone,
                                       !.published = 0, !.consumed = 0]
    /\ UNCHANGED <<upService, upC, upImage>>

\* quiesceAndProveIdle(): engines off, the busy register idle and the bus
\* master off, and only then the ring registers are restored, which may fail
\* as well.
UpQuiesce ==
    /\ upAt = "quiesce"
    /\ \/ /\ ~upTransfer.attempted
          /\ UpTo("giveback", [upTransfer EXCEPT !.quiesced = TRUE]) /\ UNCHANGED upDevice
       \/ /\ upTransfer.attempted /\ UpDmaUnproven
          /\ UpTo("accept", upTransfer)
       \/ /\ upTransfer.attempted /\ upDevice.busy = UpNone
          /\ \/ /\ upDevice' = [upDevice EXCEPT !.engine = FALSE, !.master = FALSE,
                                   !.ring = UpNone, !.published = 0, !.consumed = 0]
                /\ UpTo("giveback", [upTransfer EXCEPT !.quiesced = TRUE])
             \/ /\ \E r \in {upDevice.ring, UpNone} :
                      upDevice' = [upDevice EXCEPT !.engine = FALSE, !.master = FALSE, !.ring = r]
                /\ UpTo("accept", upTransfer)
    /\ UNCHANGED <<upService, upC, upImage>>

\* releaseAll() and releaseStopped(): refused with the bus master on; one page
\* that cannot be unmapped keeps the whole bank.
UpGiveBack ==
    /\ upAt = "giveback"
    /\ \/ /\ ~upDevice.master
          /\ \/ upC' = [upC EXCEPT ![upCycle].visible = FALSE, ![upCycle].pages = "freed"]
             \/ upC' = [upC EXCEPT ![upCycle].pages = "partly"]
       \/ UNCHANGED upC
    /\ UpGo("accept")
    /\ UNCHANGED <<upService, upDevice, upImage>>

\* acceptDownload().
UpAccept ==
    /\ upAt = "accept"
    /\ \/ /\ upTransfer.complete /\ upTransfer.quiesced /\ UpHere.pages = "freed"
          /\ UpStoppedDma /\ upDevice.cpu
          /\ upC' = [upC EXCEPT ![upCycle].stage = "ready"]
          /\ UpGo(IF upCycle = 0 THEN "calibrate" ELSE "finish")
       \/ /\ upC' = [upC EXCEPT ![upCycle].stage = "fault"]
          /\ UpGo("failing")
    /\ UNCHANGED <<upService, upDevice, upImage>>

----------------------------------------------------------------------------
(* The rest of prepare()                                                   *)

\* The calibration data and the capabilities of the probe cycle.
UpCalibrate ==
    /\ upAt = "calibrate"
    /\ \/ UpFail
       \/ /\ upAt' = "closing" /\ upCaller' = "probe"
          /\ UNCHANGED <<upCycle, upSecond, upTransfer, upStopCalls>> /\ UpKeep

\* The capabilities of the runtime cycle, the MAC and the link; no engine is
\* started.
UpFinish ==
    /\ upAt = "finish"
    /\ \/ UpFail
       \/ /\ ~upService.cancelled
          /\ upService' = [upService EXCEPT !.prepared = TRUE]
          /\ UpGo("prepared") /\ UNCHANGED <<upC, upDevice, upImage>>

----------------------------------------------------------------------------
(* stopCycle()                                                             *)

\* The result goes to prepare() or stop().
UpReturn(ok) ==
    CASE upCaller = "probe" /\ ok ->
           /\ upAt' = "identity" /\ upCycle' = 1 /\ upCaller' = "none"
           /\ UNCHANGED <<upSecond, upTransfer, upStopCalls, upService>>
      [] upCaller = "probe" /\ ~ok ->
           UpGo("failing") /\ UNCHANGED upService
      [] upCaller = "second" ->
           /\ upSecond' = ok /\ upAt' = "closing" /\ upCycle' = 0 /\ upCaller' = "first"
           /\ UNCHANGED <<upTransfer, upStopCalls, upService>>
      [] upCaller = "first" ->
           /\ upService' = [upService EXCEPT !.safe = ok /\ upSecond]
           /\ upAt' = "stopped" /\ upCaller' = "none"
           /\ UNCHANGED <<upCycle, upSecond, upTransfer, upStopCalls>>

\* A cycle that is closed or never touched the device.
UpCloseUntouched ==
    /\ upAt = "closing" /\ (UpHere.closed \/ ~UpHere.touched)
    /\ upC' = [upC EXCEPT ![upCycle].closed = TRUE]
    /\ UpReturn(UpHere.closed \/ ~UpHere.visible)
    /\ UNCHANGED <<upDevice, upImage>>

UpCloseDma ==
    /\ upAt = "closing" /\ ~UpHere.closed /\ UpHere.touched
    /\ \/ UpDmaStopped /\ UpGo("closeCpu") /\ UNCHANGED upService
       \/ UpDmaUnproven /\ UpReturn(FALSE)
    /\ UNCHANGED <<upC, upImage>>

\* The supply is cut whether or not the processor stopped.
UpCloseCpuAnyhow ==
    /\ upAt = "closeCpu"
    /\ \E on \in {upDevice.cpu, FALSE} : upDevice' = [upDevice EXCEPT !.cpu = on]
    /\ UpGo("closePower") /\ UNCHANGED <<upC, upService, upImage>>

\* stopCpu() looks at the DMA registers again, and may stop halfway.
UpCloseCpu ==
    /\ upAt = "closeCpu"
    /\ \/ /\ ~UpHere.modified \/ UpHere.stage = "stopped"
          /\ UpGo("closePower") /\ UNCHANGED <<upC, upDevice, upService>>
       \/ /\ UpHere.modified /\ UpHere.stage # "stopped" /\ UpStoppedDma
          /\ upC' = [upC EXCEPT ![upCycle].stage = "stopped"]
          /\ upDevice' = [upDevice EXCEPT !.cpu = FALSE]
          /\ UpGo("closePower") /\ UNCHANGED upService
       \/ /\ UpHere.modified /\ UpHere.stage # "stopped"
          /\ \E on \in {upDevice.cpu, FALSE} : upDevice' = [upDevice EXCEPT !.cpu = on]
          /\ UpReturn(FALSE) /\ UNCHANGED upC
    /\ UNCHANGED upImage

\* DevicePower::stop() once, and the cycle is closed unless pages are retained.
UpClosePower ==
    /\ upAt = "closePower"
    /\ \/ /\ UpHere.returnedOff
          /\ upC' = [upC EXCEPT ![upCycle].closed = ~UpHere.visible]
          /\ UpReturn(~UpHere.visible) /\ UNCHANGED upDevice
       \/ /\ ~UpHere.returnedOff /\ ~UpHere.offAttempted /\ UpStoppedDma
          /\ upC' = [upC EXCEPT ![upCycle].offAttempted = TRUE, ![upCycle].returnedOff = TRUE,
                                ![upCycle].closed = ~UpHere.visible]
          /\ upDevice' = [upDevice EXCEPT !.power = FALSE, !.pmc = FALSE]
          /\ UpReturn(~UpHere.visible)
       \/ /\ ~UpHere.returnedOff /\ ~UpHere.offAttempted
          /\ \E tried \in BOOLEAN : upC' = [upC EXCEPT ![upCycle].offAttempted = tried]
          /\ \E on \in {upDevice.power, FALSE}, open \in BOOLEAN :
                upDevice' = [upDevice EXCEPT !.power = on, !.pmc = open]
          /\ UpReturn(FALSE)
       \/ /\ ~UpHere.returnedOff /\ UpHere.offAttempted
          /\ UpReturn(FALSE) /\ UNCHANGED <<upC, upDevice>>
    /\ UNCHANGED upImage

----------------------------------------------------------------------------
(* The device (external): its index moves on while the read is under way.  *)

UpDeviceReads ==
    /\ upDevice.master /\ upDevice.engine /\ upDevice.ring # UpNone /\ upDevice.busy = UpNone
    /\ upDevice.consumed < upDevice.published
    /\ upDevice' = [upDevice EXCEPT !.consumed = @ + 1, !.busy = upDevice.ring]
    /\ upImage' = upImage + 1
    /\ UNCHANGED <<upLocals, upService, upC>>

UpDeviceDone ==
    /\ upDevice.busy # UpNone
    /\ upDevice' = [upDevice EXCEPT !.busy = UpNone]
    /\ UNCHANGED <<upLocals, upService, upC, upImage>>

UpNext ==
    \/ UpAllocate \/ UpPrepare \/ UpCancel \/ UpStop \/ UpRelease
    \/ UpIdentity \/ UpPowerOn \/ UpFailing \/ UpDmaStop \/ UpPrepareDmac \/ UpPci
    \/ UpEnableCpu \/ UpBank \/ UpTransferPrepare \/ UpStartRing \/ UpStartMaster
    \/ UpStartEngine \/ UpPublish \/ UpDrain \/ UpQuiesce \/ UpGiveBack \/ UpAccept
    \/ UpCalibrate \/ UpFinish
    \/ UpCloseUntouched \/ UpCloseDma \/ UpCloseCpu \/ UpClosePower
    \/ UpDeviceReads \/ UpDeviceDone

----------------------------------------------------------------------------
(* Properties                                                              *)

\* A page the device is reading, or could go on to read from the ring it has,
\* is not given back: neither a failed start, publish or stop nor a later
\* release() frees it ("never free", FirmwareTransfer.hpp).
UpPagesPinned ==
    \A c \in UpCycles :
       \/ upDevice.busy = c
       \/ upDevice.master /\ upDevice.engine /\ upDevice.ring = c
       => upC[c].pages = "held"

\* A released service leaves nothing behind: the device is off or untouched,
\* its processor and DMA stopped, its write mask closed.
UpReleasedQuiet ==
    upAt = "released" =>
       /\ ~upDevice.power /\ ~upDevice.cpu /\ ~upDevice.pmc
       /\ ~upDevice.master /\ ~upDevice.engine /\ upDevice.busy = UpNone

\* prepare() succeeds only with the whole image in the running processor, with
\* the probe cycle wound up, and with nothing of the download left in the
\* device or in memory.
UpPreparedWhole ==
    upService.prepared =>
       /\ upDevice.power /\ upDevice.cpu /\ upImage = UpPackets
       /\ ~upDevice.master /\ ~upDevice.engine /\ upDevice.busy = UpNone
       /\ upDevice.ring = UpNone /\ ~upDevice.pmc
       /\ upC[0].closed /\ \A c \in UpCycles : upC[c].pages = "freed" /\ ~upC[c].visible

\* The supply is cut only with DMA at rest and the processor stopped, and is
\* switched on only from a state found off.
UpSupplySwitched ==
    [][upDevice'.power # upDevice.power =>
         /\ ~upDevice.master /\ ~upDevice.engine /\ upDevice.busy = UpNone
         /\ ~upDevice.cpu]_upVars
=============================================================================
