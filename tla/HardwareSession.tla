-------------------------- MODULE HardwareSession --------------------------
\* MacNetworkState's hold on the device: the memory it allocates, the ring
\* addresses it publishes (PciRingSetup), the engine it starts (PciRuntime),
\* and the shutdown that takes it all back, which may fail and is tried again.
\* A write to a register may be lost, a step may fail after it took effect, and
\* the device may stay busy or stop answering; its own command register in
\* PCI configuration space is believed when read back.  Below it, with a state of
\* its own, how the PCIe link is set up for a session.
EXTENDS Naturals, FiniteSets

CONSTANTS
    HsRings,       \* number of rings, nine in the driver
    HsSessions     \* bound: sessions started one after the other

ASSUME HsAssumption == HsRings \in Nat \ {0} /\ HsSessions \in Nat

VARIABLES
    hsAt,        \* the step of startHardware that comes next
    hsRing,      \* the ring the step is at
    hsHeld,      \* rings whose pages are allocated
    hsMarked,    \* rings marked as visible to the device
    hsAddress,   \* what each ring's address register holds: "zero" or "ours"
    hsDevice,    \* [master, engine, open, busy]: the device's DMA state
    hsFlags,     \* the session's own flags
    hsSession    \* sessions begun

hsVars == <<hsAt, hsRing, hsHeld, hsMarked, hsAddress, hsDevice, hsFlags, hsSession>>

HsAll == 1 .. HsRings

HsNoFlags ==
    [bound |-> FALSE, attached |-> FALSE, visible |-> FALSE, source |-> FALSE,
     armed |-> FALSE, stopped |-> FALSE, faulted |-> FALSE]

HsInit ==
    /\ hsAt = "idle" /\ hsRing = 1
    /\ hsHeld = {} /\ hsMarked = {}
    /\ hsAddress = [r \in HsAll |-> "zero"]
    /\ hsDevice = [master |-> FALSE, engine |-> FALSE, open |-> FALSE, busy |-> FALSE]
    /\ hsFlags = HsNoFlags
    /\ hsSession = 0

\* What the device must be for it to fetch from or write to host memory.
HsRuns(device) == device.master /\ device.engine /\ device.open

\* createMacNetworkState: a session of its own, with nothing acquired; start()
\* turned bus mastering off.
HsCreate ==
    /\ hsAt = "idle" /\ hsSession < HsSessions
    /\ hsAt' = "allocate" /\ hsRing' = 1
    /\ hsFlags' = HsNoFlags /\ hsSession' = hsSession + 1
    /\ hsDevice' = [hsDevice EXCEPT !.master = FALSE]
    /\ UNCHANGED <<hsHeld, hsMarked, hsAddress>>

\* prepareHardware allocates the rings one after the other, then attaches the
\* interrupt source.  What a failed step leaves is kept for the shutdown.
HsAllocate ==
    /\ hsAt = "allocate"
    /\ \E ok \in BOOLEAN :
         /\ hsHeld' = IF ok THEN hsHeld \cup {hsRing} ELSE hsHeld
         /\ hsAt' = IF ~ok THEN "failed" ELSE IF hsRing = HsRings THEN "source" ELSE "allocate"
         /\ hsRing' = IF ok /\ hsRing < HsRings THEN hsRing + 1 ELSE 1
    /\ UNCHANGED <<hsMarked, hsAddress, hsDevice, hsFlags, hsSession>>

HsSource ==
    /\ hsAt = "source"
    /\ \E ok \in BOOLEAN :
         /\ hsFlags' = [hsFlags EXCEPT !.source = ok]
         /\ hsAt' = IF ok THEN "prepare" ELSE "failed"
    /\ UNCHANGED <<hsRing, hsHeld, hsMarked, hsAddress, hsDevice, hsSession>>

\* boot->prepare(): two power cycles, with every engine proved idle and the ring
\* registers cleared before it succeeds.
HsPrepare ==
    /\ hsAt = "prepare"
    /\ \/ /\ hsAt' = "protocol"
          /\ hsAddress' = [r \in HsAll |-> "zero"]
          /\ hsDevice' = [master |-> FALSE, engine |-> FALSE, open |-> FALSE, busy |-> FALSE]
       \/ hsAt' = "failed" /\ UNCHANGED <<hsAddress, hsDevice>>
    /\ UNCHANGED <<hsRing, hsHeld, hsMarked, hsFlags, hsSession>>

\* attachProtocol(): the bridge is bound before net80211 is attached, and a
\* refusal in between leaves it bound.
HsProtocol ==
    /\ hsAt = "protocol"
    /\ \E bound, attached \in BOOLEAN :
         /\ attached => bound
         /\ hsFlags' = [hsFlags EXCEPT !.bound = bound, !.attached = attached]
         /\ hsAt' \in IF attached THEN {"credentials", "failed"} ELSE {"failed"}
    /\ UNCHANGED <<hsRing, hsHeld, hsMarked, hsAddress, hsDevice, hsSession>>

\* loadCredentials(): settings that do not fit together end the start.
HsCredentials ==
    /\ hsAt = "credentials"
    /\ hsAt' \in {"objects", "failed"}
    /\ UNCHANGED <<hsRing, hsHeld, hsMarked, hsAddress, hsDevice, hsFlags, hsSession>>

\* The queues' attach(), the queue service, the command bus and its events.
HsObjects ==
    /\ hsAt = "objects"
    /\ hsAt' \in {"mark", "failed"}
    /\ UNCHANGED <<hsRing, hsHeld, hsMarked, hsAddress, hsDevice, hsFlags, hsSession>>

\* visible is set before the first ring is marked, and every ring is marked
\* before the first address is published.
HsMark ==
    /\ hsAt = "mark"
    /\ hsFlags' = [hsFlags EXCEPT !.visible = TRUE]
    /\ \E ok \in BOOLEAN :
         /\ hsMarked' = IF ok THEN hsHeld ELSE hsMarked
         /\ hsAt' = IF ok THEN "publish" ELSE "failed"
    /\ hsRing' = 1
    /\ UNCHANGED <<hsHeld, hsAddress, hsDevice, hsSession>>

\* PciRingSetup::safe: nothing is programmed unless the host's DMA is off, the
\* channels are stopped and none of them is busy.
HsSafe(device) == ~device.master /\ ~device.engine /\ ~device.open /\ ~device.busy

\* Mutant: the registers are not read back.
HsEqualTrusted(r) == TRUE

\* equal32 of a ring's registers, in configure() and again in start().
HsEqual(r) == hsAddress'[r] = "ours"

\* configure(): the address, the count and the allocation of one ring, each read
\* back.  A ring whose register is not empty at the snapshot is refused.
HsPublish ==
    /\ hsAt = "publish"
    /\ \E took, answers \in BOOLEAN :
         LET ready == HsSafe(hsDevice) /\ hsAddress[hsRing] = "zero" IN
         /\ hsAddress' = IF ready /\ took THEN [hsAddress EXCEPT ![hsRing] = "ours"] ELSE hsAddress
         /\ IF ready /\ answers /\ HsEqual(hsRing)
            THEN /\ hsRing' = IF hsRing < HsRings THEN hsRing + 1 ELSE 1
                 /\ hsAt' = IF hsRing < HsRings THEN "publish" ELSE "reset"
            ELSE hsRing' = 1 /\ hsAt' = "failed"
    /\ UNCHANGED <<hsHeld, hsMarked, hsDevice, hsFlags, hsSession>>

\* The reset of the descriptor memory: polled until it ends, or given up.
HsReset ==
    /\ hsAt = "reset"
    /\ hsAt' \in {"run", "failed"}
    /\ UNCHANGED <<hsRing, hsHeld, hsMarked, hsAddress, hsDevice, hsFlags, hsSession>>

\* PciRuntime::start: every ring is compared once more, then bus mastering, the
\* channels and the engine are turned on in this order.  It may fail after any of
\* them, whether the last one took effect or not.
HsStart ==
    /\ hsAt = "run"
    /\ UNCHANGED <<hsRing, hsHeld, hsMarked, hsAddress, hsSession>>
    /\ hsFlags' = [hsFlags EXCEPT !.stopped = FALSE]
    /\ IF HsSafe(hsDevice) /\ \A r \in HsAll : HsEqual(r)
       THEN \E reached \in 0 .. 3 :
              /\ hsDevice' = [hsDevice EXCEPT !.master = reached >= 1, !.open = reached >= 2,
                                              !.engine = reached >= 3]
              /\ hsAt' \in IF reached = 3 THEN {"arm", "failed"} ELSE {"failed"}
       ELSE hsAt' = "failed" /\ UNCHANGED hsDevice

\* interrupt->start: the source knows the runtime from here on.
HsArm ==
    /\ hsAt = "arm"
    /\ hsFlags' = [hsFlags EXCEPT !.armed = TRUE]
    /\ hsAt' \in {"boot", "failed"}
    /\ UNCHANGED <<hsRing, hsHeld, hsMarked, hsAddress, hsDevice, hsSession>>

\* boot->start and the poll timer.
HsBoot ==
    /\ hsAt = "boot"
    /\ hsAt' \in {"up", "failed"}
    /\ UNCHANGED <<hsRing, hsHeld, hsMarked, hsAddress, hsDevice, hsFlags, hsSession>>

\* The device takes up or finishes a transfer.
HsTransfer ==
    /\ hsDevice.busy \/ HsRuns(hsDevice)
    /\ hsDevice' = [hsDevice EXCEPT !.busy = ~hsDevice.busy]
    /\ UNCHANGED <<hsAt, hsRing, hsHeld, hsMarked, hsAddress, hsFlags, hsSession>>

\* What PciRuntime::stop leaves: either write may be lost, the device may stay
\* busy, and bus mastering is cut whatever happened before.  An idle answer is
\* the truth only of a device whose engine and channels are off by then.
HsStops(before, after) ==
    /\ after.engine \in {FALSE, before.engine}
    /\ after.open \in {FALSE, before.open}
    /\ after.master \in {FALSE, before.master}
    /\ after.busy \in {FALSE, before.busy}

\* stop()'s verdict: everything read back off, and idle seen.
HsProven(device) == HsSafe(device)

\* stop() as a whole; the answer may be no although the device has stopped.
HsStopRuntime(after, stopped) ==
    /\ HsStops(hsDevice, after)
    /\ stopped => HsProven(after)

\* fail(): a fault stops the device and gives nothing back; bootFailed() may
\* report one while boot->start() is still under way.
HsFault ==
    /\ hsAt \in {"boot", "up"} /\ ~hsFlags.faulted
    /\ \E after \in [DOMAIN hsDevice -> BOOLEAN], stopped \in BOOLEAN :
         /\ HsStopRuntime(after, stopped)
         /\ hsDevice' = after
         /\ hsFlags' = [hsFlags EXCEPT !.faulted = TRUE, !.stopped = stopped]
    /\ UNCHANGED <<hsAt, hsRing, hsHeld, hsMarked, hsAddress, hsSession>>

\* Whether shutdown() has to stop the device itself: the source stops the
\* runtime it was started with, and a device that knows addresses is stopped
\* unless its last stop was proven.
HsMustStop == (hsFlags.source /\ hsFlags.armed) \/ (hsFlags.visible /\ ~hsFlags.stopped)

\* Mutant: the result of boot->stop() alone decides.
HsMayReleaseAnyway(idle, backend) == backend

\* Whether memory may go back: the stop is proven, and so is the backend's.
HsMayRelease(idle, backend) == idle /\ backend

\* Mutant: a ring that could not be released does not stop the shutdown.
HsGiveBackAnyway(flags, kept, unbound) ==
    /\ hsHeld' = kept /\ hsMarked' = {}
    /\ hsFlags' = [flags EXCEPT !.source = FALSE, !.armed = FALSE, !.attached = FALSE,
                                  !.bound = @ /\ ~unbound]
    /\ hsAt' = IF hsFlags'.bound THEN "closing" ELSE "idle"

\* shutdown() from the proof on: the source is detached, every ring is released
\* (each is tried, whatever the others said), then the protocol is detached and
\* the bridge unbound.  Each early return leaves the rest for the next attempt.
HsGiveBack(flags, kept, unbound) ==
    /\ hsHeld' = kept /\ hsMarked' = {}
    /\ IF kept = {}
       THEN /\ hsFlags' = [flags EXCEPT !.source = FALSE, !.armed = FALSE, !.attached = FALSE,
                                          !.bound = @ /\ ~unbound]
            /\ hsAt' = IF hsFlags'.bound THEN "closing" ELSE "idle"
       ELSE /\ hsFlags' = [flags EXCEPT !.source = FALSE, !.armed = FALSE]
            /\ hsAt' = "closing"

\* shutdown(), after a failed start, a fault or a stop, and again after a
\* shutdown that returned false.
HsShutdown ==
    /\ hsAt \in {"failed", "up", "closing"}
    /\ \E after \in [DOMAIN hsDevice -> BOOLEAN], stopped, idle, backend, unbound \in BOOLEAN,
          kept \in SUBSET hsHeld :
         /\ IF HsMustStop
            THEN HsStopRuntime(after, stopped)
            ELSE after = hsDevice /\ stopped = hsFlags.stopped /\ idle
         /\ idle /\ HsMustStop => stopped
         /\ hsDevice' = after
         /\ LET flags == [hsFlags EXCEPT !.stopped = stopped] IN
            IF HsMayRelease(idle, backend)
            THEN HsGiveBack(flags, kept, unbound)
            ELSE hsAt' = "closing" /\ hsFlags' = flags /\ UNCHANGED <<hsHeld, hsMarked>>
    /\ hsRing' = 1
    /\ UNCHANGED <<hsAddress, hsSession>>

HsNext ==
    \/ HsCreate \/ HsAllocate \/ HsSource \/ HsPrepare \/ HsProtocol
    \/ HsCredentials \/ HsObjects \/ HsMark
    \/ HsPublish \/ HsReset \/ HsStart \/ HsArm \/ HsBoot \/ HsTransfer \/ HsFault \/ HsShutdown

\* The device never fetches from, or writes to, memory that went back: while a
\* ring's register holds an address of a released ring, the engine cannot run and
\* no transfer is under way.
HsReleasedQuiet ==
    \A r \in HsAll : hsAddress[r] = "ours" /\ r \notin hsHeld =>
        ~HsRuns(hsDevice) /\ ~hsDevice.busy

\* The engine is never turned on over a ring whose registers do not hold its own
\* address, although any write of configure() may be lost.
HsRunsWhole == HsRuns(hsDevice) => \A r \in HsAll : hsAddress[r] = "ours"

\* A session that is over, after however many attempts, has left nothing behind:
\* no memory, no interrupt source, no attached protocol, no bound bridge.
HsAllGivenBack ==
    hsAt = "idle" => /\ hsHeld = {} /\ ~hsFlags.source
                     /\ ~hsFlags.attached /\ ~hsFlags.bound

HsSpec == HsInit /\ [][HsNext]_hsVars

-----------------------------------------------------------------------------
(* The PCIe link, in variables of its own.  pcilink::Initialization:       *)
(* preInit() and postInit(), one object per power cycle.  preInit() turns  *)
(* L1 off in configuration space while it clears the clock calibration     *)
(* through MDIO, and puts it back.  A configuration byte is written by the *)
(* system's access or, when that reports failure, by the device's own DBI  *)
(* engine, which works on its own and may end after the driver has given   *)
(* up on it.  Register accesses, bounded in time and in number, fail by    *)
(* every cause in one outcome.                                             *)

VARIABLES
    lkPc,       \* where the call is; "idle" before, "pre" between, "done", "failed"
    lkResult,   \* error, modified, requiresRecovery, l1Restored, l1RestoreFailed, preConfigured, postConfigured
    lkL1,       \* the L1 enable bit in configuration space
    lkSaved,    \* savedL1_
    lkChanged,  \* l1Changed_
    lkSpeed,    \* linkSpeed, 0 while unknown
    lkWrite,    \* the configuration write under way: its value, and what it is for
    lkDbi,      \* values the DBI engine still has to write: none, or the last one
    lkCalibrated,  \* MDIO pages whose clock calibration is still on
    lkCancelled

lkVars == <<lkPc, lkResult, lkL1, lkSaved, lkChanged, lkSpeed, lkWrite, lkDbi, lkCalibrated, lkCancelled>>

LkInit ==
    /\ lkPc = "idle" /\ lkL1 \in BOOLEAN /\ lkSaved = FALSE /\ lkChanged = FALSE /\ lkSpeed = 0
    /\ lkResult = [error |-> FALSE, modified |-> FALSE, recovery |-> FALSE, restored |-> FALSE, restoreFailed |-> FALSE,
                   pre |-> FALSE, post |-> FALSE]
    /\ lkWrite = [value |-> FALSE, for |-> "clear"]
    /\ lkDbi = {} /\ lkCalibrated = {1, 2} /\ lkCancelled = FALSE

-----------------------------------------------------------------------------
\* fail() keeps the first error and asks for recovery after any write.
LkFailed(result) == [result EXCEPT !.error = TRUE, !.recovery = result.modified]

\* check(): an earlier error stops everything but the cleanup.
LkChecks == ~lkCancelled /\ (lkResult.error => lkWrite.for = "restore")

LkFails(modified) ==
    /\ lkResult' = LkFailed([lkResult EXCEPT !.modified = @ \/ modified]) /\ lkPc' = "failed"
    /\ UNCHANGED <<lkL1, lkSaved, lkChanged, lkSpeed, lkWrite, lkDbi, lkCalibrated, lkCancelled>>

LkModified == [lkResult EXCEPT !.modified = TRUE]

\* The link's registers and two MDIO updates of the PHY.
LkPreRegisters ==
    /\ lkPc = "idle"
    /\ \/ /\ ~lkCancelled /\ lkPc' = "speed" /\ lkResult' = LkModified
          /\ UNCHANGED <<lkL1, lkSaved, lkChanged, lkSpeed, lkWrite, lkDbi, lkCalibrated, lkCancelled>>
       \/ \E touched \in BOOLEAN : LkFails(touched)

\* disableRefclkAutok(): the negotiated speed, then the L1 byte, are read.
LkSpeed ==
    /\ lkPc = "speed"
    /\ \/ /\ ~lkCancelled /\ lkPc' = "l1" /\ lkSpeed' \in {1, 2}
          /\ UNCHANGED <<lkResult, lkL1, lkSaved, lkChanged, lkWrite, lkDbi, lkCalibrated, lkCancelled>>
       \/ LkFails(FALSE)

\* A failed write may have reached configuration space: it is noted before.
LkReadL1 ==
    /\ lkPc = "l1"
    /\ \/ /\ ~lkCancelled /\ lkSaved' = lkL1 /\ lkChanged' = lkL1
          /\ lkPc' = IF lkL1 THEN "native" ELSE "mdio"
          /\ lkWrite' = [value |-> FALSE, for |-> "clear"]
          /\ UNCHANGED <<lkResult, lkL1, lkSpeed, lkDbi, lkCalibrated, lkCancelled>>
       \/ LkFails(FALSE)

-----------------------------------------------------------------------------
(* writeConfig() of lkWrite.                                               *)

\* What follows a write: the clearing write's failure leads to restoreL1(), the
\* restoring one's is remembered, and the first error of the phase decides.
LkWriteFailsEarly ==
    /\ lkResult' = LkFailed([LkModified EXCEPT !.restoreFailed = (lkWrite.for = "restore")])
    /\ lkPc' = "failed"
    /\ UNCHANGED <<lkSaved, lkChanged, lkSpeed, lkWrite, lkCalibrated, lkCancelled>>

LkWriteFails ==
    /\ lkResult' = LkFailed([LkModified EXCEPT !.restoreFailed = (lkWrite.for = "restore")])
    /\ IF lkWrite.for = "clear"
         THEN lkPc' = "native" /\ lkWrite' = [value |-> lkSaved, for |-> "restore"]
         ELSE lkPc' = "failed" /\ lkWrite' = lkWrite
    /\ UNCHANGED <<lkSaved, lkChanged, lkSpeed, lkCalibrated, lkCancelled>>

\* writeConfig8(): it reports what it reads back, whether the byte arrived or not.
LkNative ==
    /\ lkPc = "native"
    /\ \/ ~LkChecks /\ LkWriteFails /\ UNCHANGED <<lkL1, lkDbi>>
       \/ /\ LkChecks /\ lkL1' \in {lkL1, lkWrite.value} /\ UNCHANGED lkDbi
          /\ \/ lkL1' = lkWrite.value /\ lkPc' = "readback" /\ lkResult' = LkModified
                /\ UNCHANGED <<lkSaved, lkChanged, lkSpeed, lkWrite, lkCalibrated, lkCancelled>>
             \/ lkPc' = "dbi" /\ lkResult' = LkModified
                /\ UNCHANGED <<lkSaved, lkChanged, lkSpeed, lkWrite, lkCalibrated, lkCancelled>>
             \/ LkWriteFails

\* writeDbi(): the engine is idle before it is started, or dbiIdle() times out.
LkDbiStart ==
    /\ lkPc = "dbi"
    /\ \/ /\ LkChecks /\ lkDbi = {} /\ lkDbi' = {lkWrite.value} /\ lkPc' = "dbiWait"
          /\ UNCHANGED <<lkResult, lkSaved, lkChanged, lkSpeed, lkWrite, lkCalibrated, lkCancelled>>
       \/ LkWriteFails /\ UNCHANGED lkDbi
    /\ UNCHANGED lkL1

LkDbiWait ==
    /\ lkPc = "dbiWait"
    /\ \/ /\ LkChecks /\ lkDbi = {} /\ lkPc' = "readback"
          /\ UNCHANGED <<lkResult, lkSaved, lkChanged, lkSpeed, lkWrite, lkCalibrated, lkCancelled>>
       \/ LkWriteFails
    /\ UNCHANGED <<lkL1, lkDbi>>

\* The byte is read again, by the system's access or by the engine, which has
\* to be idle for it.
LkReadback ==
    /\ lkPc = "readback"
    /\ \/ /\ LkChecks /\ lkL1 = lkWrite.value /\ lkPc' = IF lkWrite.for = "clear" THEN "mdio" ELSE "restored"
          /\ UNCHANGED <<lkResult, lkSaved, lkChanged, lkSpeed, lkWrite, lkCalibrated, lkCancelled>>
       \/ LkWriteFails
    /\ UNCHANGED <<lkL1, lkDbi>>

\* The device.
LkDbiCompletes ==
    /\ \E v \in lkDbi : lkL1' = v
    /\ lkDbi' = {}
    /\ UNCHANGED <<lkPc, lkResult, lkSaved, lkChanged, lkSpeed, lkWrite, lkCalibrated, lkCancelled>>

-----------------------------------------------------------------------------
\* updateMdio() on the page of the negotiated generation, read back, and then
\* restoreL1() whether it worked or not.
LkMdioPage(page) ==
    /\ lkPc = "mdio"
    /\ \E cleared, ok \in BOOLEAN :
          /\ ok => cleared /\ ~lkCancelled
          /\ lkCalibrated' = IF cleared THEN lkCalibrated \ {page} ELSE lkCalibrated
          /\ lkResult' = IF ok THEN LkModified ELSE LkFailed(LkModified)
          /\ \/ lkChanged /\ lkPc' = "native" /\ lkWrite' = [value |-> lkSaved, for |-> "restore"]
             \/ ~lkChanged /\ lkPc' = (IF ok THEN "registers" ELSE "failed") /\ UNCHANGED lkWrite
    /\ UNCHANGED <<lkL1, lkSaved, lkChanged, lkSpeed, lkDbi, lkCancelled>>

LkMdioFirst == LkMdioPage(1)
LkMdio == LkMdioPage(lkSpeed)

\* A restoration that worked does not hide the error it cleaned up after.
LkRestoredForgiving ==
    /\ lkPc = "restored" /\ lkChanged' = FALSE
    /\ lkResult' = [lkResult EXCEPT !.restored = TRUE, !.error = FALSE]
    /\ lkPc' = "registers"
    /\ UNCHANGED <<lkL1, lkSaved, lkSpeed, lkWrite, lkDbi, lkCalibrated, lkCancelled>>

LkRestored ==
    /\ lkPc = "restored" /\ lkChanged' = FALSE
    /\ lkResult' = [lkResult EXCEPT !.restored = TRUE]
    /\ lkPc' = IF lkResult.error THEN "failed" ELSE "registers"
    /\ UNCHANGED <<lkL1, lkSaved, lkSpeed, lkWrite, lkDbi, lkCalibrated, lkCancelled>>

\* The rest of preInit(), and postInit() once the firmware has come up.
LkRegisters(at, to, flag) ==
    /\ lkPc = at
    /\ \/ /\ ~lkCancelled /\ lkPc' = to /\ lkResult' = [LkModified EXCEPT ![flag] = TRUE]
          /\ UNCHANGED <<lkL1, lkSaved, lkChanged, lkSpeed, lkWrite, lkDbi, lkCalibrated, lkCancelled>>
       \/ LkFails(TRUE)

LkPre == LkRegisters("registers", "pre", "pre")
LkPost == LkRegisters("pre", "done", "post")

LkCancel ==
    /\ ~lkCancelled /\ lkCancelled' = TRUE
    /\ UNCHANGED <<lkPc, lkResult, lkL1, lkSaved, lkChanged, lkSpeed, lkWrite, lkDbi, lkCalibrated>>

LkNext ==
    \/ LkPreRegisters \/ LkSpeed \/ LkReadL1 \/ LkNative \/ LkDbiStart \/ LkDbiWait \/ LkReadback \/ LkMdio
    \/ LkRestored \/ LkPre \/ LkPost \/ LkDbiCompletes \/ LkCancel

-----------------------------------------------------------------------------
\* A link reported as configured has L1 as it was found, nothing left in the DBI
\* engine that could still change it, and the calibration of its own generation
\* off: an MDIO error is not overwritten by a restoration that works.
LkConfiguredWhole ==
    lkResult.pre => lkL1 = lkSaved /\ lkDbi = {} /\ lkSpeed \notin lkCalibrated

\* L1 is never left off in silence: where the phase ends, however it was
\* interrupted, restoreL1() has run and says whether it worked, and recovery is
\* asked for.  (A write the DBI engine was given up on may still undo it.)
LkNeverSilent ==
    lkPc \in {"failed", "pre", "done"} /\ lkSaved /\ ~lkL1 =>
        (lkResult.restored \/ lkResult.restoreFailed) /\ lkResult.error /\ lkResult.recovery
=============================================================================
