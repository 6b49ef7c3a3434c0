--------------------------- MODULE DiagnosticProbe ---------------------------
\* The diagnostic driver (RTL8852BEProbe.cpp): a start() of nested transactions
\* that must each be undone.  The packet bank is pinned around everything; inside
\* it the register window is mapped and enabled (sampleMmio), the crystal is read
\* (sampleXtal), the supply is cycled (power::cycle), the boot ROM is run twice
\* (boot::probeWithAction) and the second run uploads firmware by DMA.  Any access
\* may fail, and a refused write may have taken effect.  Another owner of the
\* PCI command register changes a bit of its own meanwhile.
EXTENDS Naturals, Sequences

CONSTANT DpPackets    \* packets of the image

ASSUME DpAssumption == DpPackets \in Nat \ {0}

VARIABLES
    dpAt,          \* where start() stands
    dpCommand,     \* the PCI command register; intx is the mask bit
    dpBefore,      \* commandBefore
    dpMmio,        \* sampleMmio: mapped, the bit changed, commandRestored
    dpUpload,      \* uploadBusMaster's saved bit and the locals of the upload
    dpPages,       \* the bank and what KernelPacketMemory remembers of it
    dpPass,        \* boot pass and its result
    dpSupply,      \* attempted, returnedOff
    dpDevice,      \* the device
    dpOther        \* the other owner's bit, as that owner left it

dpVars == <<dpAt, dpCommand, dpBefore, dpMmio, dpUpload, dpPages, dpPass, dpSupply, dpDevice, dpOther>>

DpInit ==
    /\ dpAt = "bank"
    /\ dpCommand \in [memory : BOOLEAN, master : BOOLEAN, intx : BOOLEAN, other : {FALSE}]
    /\ dpBefore = dpCommand /\ dpOther = FALSE
    /\ dpMmio = [mapped |-> FALSE, changed |-> FALSE, restored |-> TRUE]
    /\ dpUpload = [saved |-> FALSE, intx |-> FALSE, attempted |-> FALSE, snapshot |-> FALSE,
                   started |-> FALSE, quiesced |-> FALSE]
    /\ dpPages = [state |-> "none", proven |-> FALSE, released |-> FALSE]
    /\ dpPass = [number |-> 1, ready |-> FALSE]
    /\ dpSupply = [attempted |-> FALSE, returnedOff |-> FALSE]
    /\ dpDevice = [power |-> "off", mask |-> FALSE, dirty |-> {}, engine |-> FALSE, ring |-> FALSE,
                   published |-> 0, consumed |-> 0, busy |-> FALSE]

DpGo(at) == dpAt' = at
DpQuiet == dpCommand.memory /\ ~dpCommand.master       \* (command() & 6) == 2

----------------------------------------------------------------------------
(* The outer transactions. *)

\* prepareBank: a bank that is not whole is only given back.
DpBank ==
    /\ dpAt = "bank"
    /\ \/ ~dpCommand.master /\ DpGo("check") /\ dpPages' = [dpPages EXCEPT !.state = "held"]
       \/ DpGo("release") /\ \E s \in {"none", "held"} : dpPages' = [dpPages EXCEPT !.state = s]
    /\ UNCHANGED <<dpCommand, dpBefore, dpMmio, dpUpload, dpPass, dpSupply, dpDevice, dpOther>>

\* sampleMmio up to map().
DpMap ==
    /\ dpAt = "check"
    /\ dpBefore' = dpCommand
    /\ \/ ~dpCommand.master /\ DpGo("enable") /\ dpMmio' = [dpMmio EXCEPT !.mapped = TRUE]
       \/ DpGo("release") /\ UNCHANGED dpMmio
    /\ UNCHANGED <<dpCommand, dpUpload, dpPages, dpPass, dpSupply, dpDevice, dpOther>>

\* The memory bit is written with the command read before map().
DpEnable ==
    /\ dpAt = "enable"
    /\ dpMmio' = [dpMmio EXCEPT !.changed = ~dpBefore.memory]
    /\ \E reached \in BOOLEAN :
          dpCommand' = IF dpBefore.memory \/ ~reached THEN dpCommand
                       ELSE [dpBefore EXCEPT !.memory = TRUE]
    /\ DpGo(IF dpCommand' = [dpBefore EXCEPT !.memory = TRUE] THEN "xtal" ELSE "unmap")
    /\ UNCHANGED <<dpBefore, dpUpload, dpPages, dpPass, dpSupply, dpDevice, dpOther>>

\* power::cycle before its first write.
DpPreflight == DpQuiet /\ dpDevice.power = "off" /\ ~dpDevice.mask

\* sampleXtal: one read command, never repeated.
DpXtal ==
    /\ dpAt = "xtal"
    /\ \/ DpGo("unmap")
       \/ DpPreflight /\ DpGo("on")
    /\ UNCHANGED <<dpCommand, dpBefore, dpMmio, dpUpload, dpPages, dpPass, dpSupply, dpDevice, dpOther>>

\* power::run(on) stops at the first step that fails, its write mask open or not.
DpRunOn(whole) ==
    IF whole THEN dpDevice' = [dpDevice EXCEPT !.power = "on"]
    ELSE \E p \in {"off", "part", "on"}, m \in BOOLEAN : dpDevice' = [dpDevice EXCEPT !.power = p, !.mask = m]

\* power::cycle goes on to its extension only with the device seen active.
DpPowerOn ==
    /\ dpAt = "on"
    /\ dpSupply' = [dpSupply EXCEPT !.attempted = TRUE]
    /\ \/ DpRunOn(TRUE) /\ DpGo("boot")
       \/ DpRunOn(FALSE) /\ DpGo("off")
    /\ UNCHANGED <<dpCommand, dpBefore, dpMmio, dpUpload, dpPages, dpPass, dpOther>>

\* power::run(off), the write mask and the look at the final state.  Every write of
\* it is refused while the bus master is on (powerWrite32).
DpOff == [dpDevice EXCEPT !.power = "off", !.mask = FALSE, !.dirty = {}, !.engine = FALSE,
             !.ring = FALSE, !.busy = FALSE]
\* Mutant: the shutdown is taken to have worked.
DpPowerOffHopes ==
    /\ dpAt = "off" /\ dpSupply' = [dpSupply EXCEPT !.returnedOff = TRUE]
    /\ \/ DpQuiet /\ dpDevice' = DpOff
       \/ UNCHANGED dpDevice
    /\ DpGo("restore")
    /\ UNCHANGED <<dpCommand, dpBefore, dpMmio, dpUpload, dpPages, dpPass, dpOther>>
DpPowerOff ==
    /\ dpAt = "off"
    /\ \/ DpQuiet /\ dpDevice' = DpOff /\ dpSupply' = [dpSupply EXCEPT !.returnedOff = TRUE]
       \/ /\ dpDevice' \in IF DpQuiet THEN {dpDevice, DpOff, [dpDevice EXCEPT !.power = "part"]}
                           ELSE {dpDevice}
          /\ UNCHANGED dpSupply
    /\ DpGo("restore")
    /\ UNCHANGED <<dpCommand, dpBefore, dpMmio, dpUpload, dpPages, dpPass, dpOther>>

\* restoreUploadCommandAfterPowerOff, behind supply.returnedOff.
DpRestoreInterrupt ==
    /\ dpAt = "restore"
    /\ \/ /\ dpUpload.attempted /\ dpUpload.saved /\ dpSupply.returnedOff /\ DpQuiet
          /\ dpCommand' = [dpCommand EXCEPT !.intx = dpUpload.intx]
       \/ UNCHANGED dpCommand
    /\ DpGo("unmap")
    /\ UNCHANGED <<dpBefore, dpMmio, dpUpload, dpPages, dpPass, dpSupply, dpDevice, dpOther>>

\* Mutant: the whole command register is put back.
DpUnmapWhole ==
    /\ dpAt = "unmap"
    /\ dpCommand' = IF dpMmio.changed THEN dpBefore ELSE dpCommand
    /\ dpMmio' = [dpMmio EXCEPT !.mapped = FALSE, !.restored = TRUE]
    /\ DpGo("release")
    /\ UNCHANGED <<dpBefore, dpUpload, dpPages, dpPass, dpSupply, dpDevice, dpOther>>
\* The end of sampleMmio.
DpUnmap ==
    /\ dpAt = "unmap"
    /\ \/ dpCommand' = IF dpMmio.changed THEN [dpCommand EXCEPT !.memory = dpBefore.memory]
                       ELSE dpCommand
       \/ UNCHANGED dpCommand
    /\ \/ dpMmio' = [dpMmio EXCEPT !.mapped = FALSE, !.restored = FALSE]
       \/ dpCommand' = dpBefore /\ dpMmio' = [dpMmio EXCEPT !.mapped = FALSE]
    /\ DpGo("release")
    /\ UNCHANGED <<dpBefore, dpUpload, dpPages, dpPass, dpSupply, dpDevice, dpOther>>

\* confirmStopped(proof) and releaseUnsubmitted; the latter answers once.
DpGiveBack(proof) ==
    LET proven == IF dpUpload.attempted THEN proof /\ ~dpCommand.master ELSE dpPages.proven
        refused == dpCommand.master \/ (dpUpload.attempted /\ ~proven)
    IN \E s \in IF dpPages.released \/ refused THEN {dpPages.state} ELSE {"freed", "partly"} :
          dpPages' = [state |-> s, proven |-> proven, released |-> TRUE]

\* Mutant: the pages of a failed stop are given back.
DpReleaseAnyhow ==
    /\ dpAt = "release" /\ DpGo("done")
    /\ DpGiveBack(TRUE)
    /\ UNCHANGED <<dpCommand, dpBefore, dpMmio, dpUpload, dpPass, dpSupply, dpDevice, dpOther>>

DpRelease ==
    /\ dpAt = "release" /\ DpGo("done")
    /\ DpGiveBack(dpUpload.quiesced \/ dpSupply.returnedOff)
    /\ UNCHANGED <<dpCommand, dpBefore, dpMmio, dpUpload, dpPass, dpSupply, dpDevice, dpOther>>

----------------------------------------------------------------------------
(* A boot pass. *)

\* Blocks a pass brings up, in order: the register window with the host interface
\* behind it, the buffer engines, the processor.
DpBlocks == <<"window", "buffers", "cpu">>

\* The pass stops after any of them, the next one touched or not; or it is ready.
DpBoot ==
    /\ dpAt = "boot"
    /\ \/ DpGo("off") /\ UNCHANGED <<dpDevice, dpPass>>
       \/ /\ DpQuiet
          /\ \E n \in 0 .. Len(DpBlocks), ready \in BOOLEAN :
                /\ ready => n = Len(DpBlocks)
                /\ dpDevice' = [dpDevice EXCEPT !.dirty = @ \cup {DpBlocks[i] : i \in 1 .. n}]
                /\ dpPass' = [dpPass EXCEPT !.ready = ready]
                /\ DpGo(IF ready /\ dpPass.number = 2 THEN "start" ELSE "cleanup")
    /\ UNCHANGED <<dpCommand, dpBefore, dpMmio, dpUpload, dpPages, dpSupply, dpOther>>

\* Mutant: a second pass after any first one that got to the ROM.
DpRepeatsAnyhow(clean) == dpPass.number = 1 /\ dpPass.ready
\* start() runs the upload only in the second pass, after a first one that was
\* ready and cleaned up.
DpRepeats(clean) == dpPass.number = 1 /\ dpPass.ready /\ clean

\* Every cleanup write is tried and read back; what cannot be seen clean fails
\* the pass, and so does a command register that is not as it was.
DpCleanup ==
    /\ dpAt = "cleanup"
    /\ \E left \in SUBSET dpDevice.dirty, clean \in BOOLEAN :
          /\ clean => left = {} /\ DpQuiet
          /\ ~DpQuiet => left = dpDevice.dirty          \* bootWrite32 refuses
          /\ dpDevice' = [dpDevice EXCEPT !.dirty = left]
          /\ dpPass' = [dpPass EXCEPT !.number = IF DpRepeats(clean) THEN 2 ELSE @]
          /\ DpGo(IF DpRepeats(clean) THEN "boot" ELSE "off")
    /\ UNCHANGED <<dpCommand, dpBefore, dpMmio, dpUpload, dpPages, dpSupply, dpOther>>

----------------------------------------------------------------------------
(* The upload: transfer() over PciDownload. *)

DpStart ==
    /\ dpAt = "start"
    /\ \/ /\ dpUpload' = [dpUpload EXCEPT !.attempted = TRUE] /\ DpGo("quiesce") /\ UNCHANGED dpDevice
       \/ /\ DpQuiet /\ dpUpload' = [dpUpload EXCEPT !.attempted = TRUE, !.snapshot = TRUE]
          /\ \/ dpDevice' = [dpDevice EXCEPT !.ring = TRUE] /\ DpGo("master")
             \/ dpDevice' \in {dpDevice, [dpDevice EXCEPT !.ring = TRUE]} /\ DpGo("quiesce")
    /\ UNCHANGED <<dpCommand, dpBefore, dpMmio, dpPages, dpPass, dpSupply, dpOther>>

\* uploadBusMaster(true).
DpMaster ==
    /\ dpAt = "master"
    /\ \/ /\ DpQuiet
          /\ dpUpload' = [dpUpload EXCEPT !.started = TRUE, !.saved = TRUE, !.intx = dpCommand.intx]
          /\ \/ dpCommand' = [dpCommand EXCEPT !.master = TRUE, !.intx = TRUE] /\ DpGo("engine")
             \/ /\ dpCommand' \in {dpCommand, [dpCommand EXCEPT !.master = TRUE, !.intx = TRUE]}
                /\ DpGo("quiesce")
       \/ dpUpload' = [dpUpload EXCEPT !.started = TRUE] /\ DpGo("quiesce") /\ UNCHANGED dpCommand
    /\ UNCHANGED <<dpBefore, dpMmio, dpPages, dpPass, dpSupply, dpDevice, dpOther>>

DpEngine ==
    /\ dpAt = "engine"
    /\ \/ dpDevice' = [dpDevice EXCEPT !.engine = TRUE] /\ DpGo("publish")
       \/ dpDevice' \in {dpDevice, [dpDevice EXCEPT !.engine = TRUE]} /\ DpGo("quiesce")
    /\ UNCHANGED <<dpCommand, dpBefore, dpMmio, dpUpload, dpPages, dpPass, dpSupply, dpOther>>

\* publish() one by one; the waits and the drain end the upload either way.
DpPublish ==
    /\ dpAt = "publish"
    /\ \/ /\ dpDevice.published < DpPackets
          /\ dpDevice' = [dpDevice EXCEPT !.published = @ + 1]
          /\ DpGo("publish") \/ DpGo("quiesce")
       \/ UNCHANGED dpDevice /\ DpGo("quiesce")
    /\ UNCHANGED <<dpCommand, dpBefore, dpMmio, dpUpload, dpPages, dpPass, dpSupply, dpOther>>

\* Mutant: turning the bus master off unmasks the interrupt as well.
DpMasterOffUnmasks == [dpCommand EXCEPT !.master = FALSE, !.intx = dpUpload.intx]
\* uploadBusMaster(false): INTx stays masked until the supply is off.
DpMasterOff == [dpCommand EXCEPT !.master = FALSE]

\* quiesceAndProveIdle and, when it holds, releaseAll.  The bus master is turned
\* off in any case; idle, off and restored registers together are the proof.
DpQuiesce ==
    /\ dpAt = "quiesce"
    /\ \/ /\ dpCommand.memory /\ (dpUpload.snapshot => ~dpDevice.busy)
          /\ dpCommand' = DpMasterOff
          /\ dpDevice' = [dpDevice EXCEPT !.engine = FALSE, !.ring = FALSE]
          /\ dpUpload' = [dpUpload EXCEPT !.quiesced = TRUE]
          /\ DpGo("giveback")
       \/ /\ dpCommand' \in {dpCommand, DpMasterOff}
          /\ \E e \in {FALSE, dpDevice.engine} : dpDevice' = [dpDevice EXCEPT !.engine = e]
          /\ UNCHANGED dpUpload /\ DpGo("cleanup")
    /\ UNCHANGED <<dpBefore, dpMmio, dpPages, dpPass, dpSupply, dpOther>>

\* The release hook.
DpReleaseAll ==
    /\ dpAt = "giveback" /\ DpGo("cleanup")
    /\ DpGiveBack(TRUE)
    /\ UNCHANGED <<dpCommand, dpBefore, dpMmio, dpUpload, dpPass, dpSupply, dpDevice, dpOther>>

----------------------------------------------------------------------------
(* The device, and the other owner of the command register. *)

DpDeviceReads ==
    /\ dpCommand.master /\ dpDevice.engine /\ dpDevice.ring /\ ~dpDevice.busy
    /\ dpDevice.consumed < dpDevice.published
    /\ dpDevice' = [dpDevice EXCEPT !.consumed = @ + 1, !.busy = TRUE]
    /\ UNCHANGED <<dpAt, dpCommand, dpBefore, dpMmio, dpUpload, dpPages, dpPass, dpSupply, dpOther>>
DpDeviceDone ==
    /\ dpDevice.busy /\ dpDevice' = [dpDevice EXCEPT !.busy = FALSE]
    /\ UNCHANGED <<dpAt, dpCommand, dpBefore, dpMmio, dpUpload, dpPages, dpPass, dpSupply, dpOther>>
DpOtherOwner ==
    /\ ~dpOther /\ dpOther' = TRUE /\ dpCommand' = [dpCommand EXCEPT !.other = TRUE]
    /\ UNCHANGED <<dpAt, dpBefore, dpMmio, dpUpload, dpPages, dpPass, dpSupply, dpDevice>>

DpNext ==
    \/ DpBank \/ DpMap \/ DpEnable \/ DpXtal \/ DpPowerOn \/ DpPowerOff \/ DpRestoreInterrupt
    \/ DpUnmap \/ DpRelease \/ DpBoot \/ DpCleanup \/ DpStart \/ DpMaster \/ DpEngine \/ DpPublish
    \/ DpQuiesce \/ DpReleaseAll \/ DpDeviceReads \/ DpDeviceDone \/ DpOtherOwner

----------------------------------------------------------------------------
(* Properties. *)

\* No page is given back while the device reads it or could go on to: after a
\* failed start, publish or stop the bank is kept until the supply is seen off,
\* and the supply cannot be cut past a bus master that is still on.
DpPagesPinned ==
    dpDevice.busy \/ (dpCommand.master /\ dpDevice.engine /\ dpDevice.ring) => dpPages.state = "held"

\* Once the device masters the bus its interrupt is masked, and after a packet was
\* published it stays masked until the supply is off: nobody is there to serve it.
DpInterruptsMasked ==
    \/ dpCommand.master /\ dpUpload.saved
    \/ dpDevice.published > 0 /\ dpDevice.power # "off"
    => dpCommand.intx

\* What another owner changes in the command register after the window is
\* enabled is still there when start() ends.
DpOthersBitsKept ==
    [][dpAt # "enable" /\ dpCommand'.other # dpCommand.other => dpOther' # dpOther]_dpVars

\* A second boot pass, the one with DMA, starts only from a device that the first
\* left as it found it ("never an automatic retry of a failed/ambiguous attempt").
DpSecondPassClean == dpAt = "boot" => dpDevice.dirty = {}

\* A start() that reports its command register restored and, if it tried, its
\* supply off has left nothing: no mapping, no bus master it turned on, no
\* processor running, and its pages are given back or kept for good.
DpReportsTrue ==
    dpAt = "done" /\ dpMmio.restored /\ (dpSupply.attempted => dpSupply.returnedOff) =>
       /\ ~dpMmio.mapped /\ dpDevice.power = "off" /\ dpDevice.dirty = {} /\ ~dpDevice.engine
       /\ dpUpload.attempted => ~dpCommand.master /\ dpPages.state # "held"
=============================================================================
