--------------------------- MODULE MCDriverParts ----------------------------
\* The smaller components, which share no state in these models.  A behaviour
\* exercises one of them, named by part, and the others stay as they are built;
\* part is chosen once, so the state space is their disjoint union, and a
\* part that stays idle starts in one of its initial states.
EXTENDS SaeExchange, AuthEvents, FirmwareMailbox, FirmwareBringUp,
        FirmwareQueue, ControlPlane, ScanResults, DiagnosticProbe,
        ChannelTune, DmaBank, RadioProgramming,
        CalibrationRead, CoexSetup, PowerPair, TableProgrammer,
        ProtocolTimers, HardwareSession, ChipSetup, Advertisement,
        FirmwareImage, PacketBridge,
        CalibrationRun, StationPort

VARIABLE part

MCInit ==
    /\ part \in {"sae", "owe", "events", "mailbox", "bringup",
                "ring", "control", "results", "probe", "tune",
                "link", "bank", "tables", "shipped", "fuses",
                "coex", "power", "programmer", "timers", "session",
                "mac", "beacon", "efuse", "image", "bridge",
                "phy", "plan", "calibration", "port", "wire",
                "held"}
    /\ SaeInit
    /\ part # "sae" => saeSamePassword
    /\ OweInit
    /\ EvInit
    /\ MailInit
    /\ part # "mailbox" => mailScheduler = 0
    /\ UpInit
    /\ Init
    /\ CpInit
    /\ WrInit
    /\ DpInit
    /\ part # "probe" => dpCommand.memory /\ dpCommand.master /\ dpCommand.intx
    /\ CtInit
    /\ LkInit
    /\ part # "link" => lkL1
    /\ DbInit
    /\ part # "tables" => rtTable = [heads |-> <<RtChip>>, rows |-> <<>>]
    /\ RtInit
    /\ RsInit
    /\ part # "shipped" => rsPath = "A" /\ rsBoard = 256
    /\ EfInit
    /\ part # "fuses" => efCut = 1 /\ efRail.pmc = 0 /\ efRail.burst = 0 /\ efPort = "none"
    /\ CxInit
    /\ PwInit
    /\ part # "power" => pwDevice.mask = "closed"
    /\ TpInit
    /\ TmInit
    /\ HsInit
    /\ MiInit
    /\ part # "mac" => miDevice.gated /\ miDevice.stuck
    /\ part # "beacon" => adFrame = [ies |-> <<>>, header |-> FALSE, draftable |-> FALSE]
    /\ AdInit
    /\ part # "efuse" => edBank = [i \in 1..EdEnd |-> EdErased]
    /\ EdInit
    /\ part # "image" => fiFile = [images |-> <<[cut |-> "ours", kind |-> "ce", start |-> FiTable, length |-> 1]>>,
                    dynamic |-> 0, sections |-> <<FiPlain(1)>>]
    /\ FiInit
    /\ PbInit
    /\ PhInit
    /\ part # "phy" => phRadio.base = "default" /\ phRadio.cck
    /\ part # "plan" => ppChannel = [band |-> 0, width |-> 0, center |-> 7, primary |-> 7] /\ ppPolicy = PpUsual
    /\ PpInit
    /\ RkInit
    /\ SpInit
    /\ part # "wire" => wfIn = [kind |-> "command", bytes |-> 7, room |-> 23, at |-> 0, says |-> TRUE, apart |-> TRUE]
    /\ WfInit
    /\ HfInit

MCNext ==
    /\ part' = part
    /\ \/ /\ part = "sae" /\ SaeNext
          /\ UNCHANGED <<oweVars, evVars, mailVars, upVars, vars, cpVars, wrVars, dpVars,
                       ctVars, lkVars, dbVars, rtVars, rsVars, efVars, cxVars, pwVars,
                       tpVars, tmVars, hsVars, miVars, adVars, edVars, fiVars, pb,
                       phVars, ppVars, rkVars, spVars, wfVars, hf>>
       \/ /\ part = "owe" /\ OweNext
          /\ UNCHANGED <<saeVars, evVars, mailVars, upVars, vars, cpVars, wrVars, dpVars,
                       ctVars, lkVars, dbVars, rtVars, rsVars, efVars, cxVars, pwVars,
                       tpVars, tmVars, hsVars, miVars, adVars, edVars, fiVars, pb,
                       phVars, ppVars, rkVars, spVars, wfVars, hf>>
       \/ /\ part = "events" /\ EvNext
          /\ UNCHANGED <<saeVars, oweVars, mailVars, upVars, vars, cpVars, wrVars, dpVars,
                       ctVars, lkVars, dbVars, rtVars, rsVars, efVars, cxVars, pwVars,
                       tpVars, tmVars, hsVars, miVars, adVars, edVars, fiVars, pb,
                       phVars, ppVars, rkVars, spVars, wfVars, hf>>
       \/ /\ part = "mailbox" /\ MailNext
          /\ UNCHANGED <<saeVars, oweVars, evVars, upVars, vars, cpVars, wrVars, dpVars,
                       ctVars, lkVars, dbVars, rtVars, rsVars, efVars, cxVars, pwVars,
                       tpVars, tmVars, hsVars, miVars, adVars, edVars, fiVars, pb,
                       phVars, ppVars, rkVars, spVars, wfVars, hf>>
       \/ /\ part = "bringup" /\ UpNext
          /\ UNCHANGED <<saeVars, oweVars, evVars, mailVars, vars, cpVars, wrVars, dpVars,
                       ctVars, lkVars, dbVars, rtVars, rsVars, efVars, cxVars, pwVars,
                       tpVars, tmVars, hsVars, miVars, adVars, edVars, fiVars, pb,
                       phVars, ppVars, rkVars, spVars, wfVars, hf>>
       \/ /\ part = "ring" /\ Next
          /\ UNCHANGED <<saeVars, oweVars, evVars, mailVars, upVars, cpVars, wrVars, dpVars,
                       ctVars, lkVars, dbVars, rtVars, rsVars, efVars, cxVars, pwVars,
                       tpVars, tmVars, hsVars, miVars, adVars, edVars, fiVars, pb,
                       phVars, ppVars, rkVars, spVars, wfVars, hf>>
       \/ /\ part = "control" /\ CpNext
          /\ UNCHANGED <<saeVars, oweVars, evVars, mailVars, upVars, vars, wrVars, dpVars,
                       ctVars, lkVars, dbVars, rtVars, rsVars, efVars, cxVars, pwVars,
                       tpVars, tmVars, hsVars, miVars, adVars, edVars, fiVars, pb,
                       phVars, ppVars, rkVars, spVars, wfVars, hf>>
       \/ /\ part = "results" /\ WrNext
          /\ UNCHANGED <<saeVars, oweVars, evVars, mailVars, upVars, vars, cpVars, dpVars,
                       ctVars, lkVars, dbVars, rtVars, rsVars, efVars, cxVars, pwVars,
                       tpVars, tmVars, hsVars, miVars, adVars, edVars, fiVars, pb,
                       phVars, ppVars, rkVars, spVars, wfVars, hf>>
       \/ /\ part = "probe" /\ DpNext
          /\ UNCHANGED <<saeVars, oweVars, evVars, mailVars, upVars, vars, cpVars, wrVars,
                       ctVars, lkVars, dbVars, rtVars, rsVars, efVars, cxVars, pwVars,
                       tpVars, tmVars, hsVars, miVars, adVars, edVars, fiVars, pb,
                       phVars, ppVars, rkVars, spVars, wfVars, hf>>
       \/ /\ part = "tune" /\ CtNext
          /\ UNCHANGED <<saeVars, oweVars, evVars, mailVars, upVars, vars, cpVars, wrVars,
                       dpVars, lkVars, dbVars, rtVars, rsVars, efVars, cxVars, pwVars,
                       tpVars, tmVars, hsVars, miVars, adVars, edVars, fiVars, pb,
                       phVars, ppVars, rkVars, spVars, wfVars, hf>>
       \/ /\ part = "link" /\ LkNext
          /\ UNCHANGED <<saeVars, oweVars, evVars, mailVars, upVars, vars, cpVars, wrVars,
                       dpVars, ctVars, dbVars, rtVars, rsVars, efVars, cxVars, pwVars,
                       tpVars, tmVars, hsVars, miVars, adVars, edVars, fiVars, pb,
                       phVars, ppVars, rkVars, spVars, wfVars, hf>>
       \/ /\ part = "bank" /\ DbNext
          /\ UNCHANGED <<saeVars, oweVars, evVars, mailVars, upVars, vars, cpVars, wrVars,
                       dpVars, ctVars, lkVars, rtVars, rsVars, efVars, cxVars, pwVars,
                       tpVars, tmVars, hsVars, miVars, adVars, edVars, fiVars, pb,
                       phVars, ppVars, rkVars, spVars, wfVars, hf>>
       \/ /\ part = "tables" /\ RtNext
          /\ UNCHANGED <<saeVars, oweVars, evVars, mailVars, upVars, vars, cpVars, wrVars,
                       dpVars, ctVars, lkVars, dbVars, rsVars, efVars, cxVars, pwVars,
                       tpVars, tmVars, hsVars, miVars, adVars, edVars, fiVars, pb,
                       phVars, ppVars, rkVars, spVars, wfVars, hf>>
       \/ /\ part = "shipped" /\ RsNext
          /\ UNCHANGED <<saeVars, oweVars, evVars, mailVars, upVars, vars, cpVars, wrVars,
                       dpVars, ctVars, lkVars, dbVars, rtVars, efVars, cxVars, pwVars,
                       tpVars, tmVars, hsVars, miVars, adVars, edVars, fiVars, pb,
                       phVars, ppVars, rkVars, spVars, wfVars, hf>>
       \/ /\ part = "fuses" /\ EfNext
          /\ UNCHANGED <<saeVars, oweVars, evVars, mailVars, upVars, vars, cpVars, wrVars,
                       dpVars, ctVars, lkVars, dbVars, rtVars, rsVars, cxVars, pwVars,
                       tpVars, tmVars, hsVars, miVars, adVars, edVars, fiVars, pb,
                       phVars, ppVars, rkVars, spVars, wfVars, hf>>
       \/ /\ part = "coex" /\ CxNext
          /\ UNCHANGED <<saeVars, oweVars, evVars, mailVars, upVars, vars, cpVars, wrVars,
                       dpVars, ctVars, lkVars, dbVars, rtVars, rsVars, efVars, pwVars,
                       tpVars, tmVars, hsVars, miVars, adVars, edVars, fiVars, pb,
                       phVars, ppVars, rkVars, spVars, wfVars, hf>>
       \/ /\ part = "power" /\ PwNext
          /\ UNCHANGED <<saeVars, oweVars, evVars, mailVars, upVars, vars, cpVars, wrVars,
                       dpVars, ctVars, lkVars, dbVars, rtVars, rsVars, efVars, cxVars,
                       tpVars, tmVars, hsVars, miVars, adVars, edVars, fiVars, pb,
                       phVars, ppVars, rkVars, spVars, wfVars, hf>>
       \/ /\ part = "programmer" /\ TpNext
          /\ UNCHANGED <<saeVars, oweVars, evVars, mailVars, upVars, vars, cpVars, wrVars,
                       dpVars, ctVars, lkVars, dbVars, rtVars, rsVars, efVars, cxVars,
                       pwVars, tmVars, hsVars, miVars, adVars, edVars, fiVars, pb,
                       phVars, ppVars, rkVars, spVars, wfVars, hf>>
       \/ /\ part = "timers" /\ TmNext
          /\ UNCHANGED <<saeVars, oweVars, evVars, mailVars, upVars, vars, cpVars, wrVars,
                       dpVars, ctVars, lkVars, dbVars, rtVars, rsVars, efVars, cxVars,
                       pwVars, tpVars, hsVars, miVars, adVars, edVars, fiVars, pb,
                       phVars, ppVars, rkVars, spVars, wfVars, hf>>
       \/ /\ part = "session" /\ HsNext
          /\ UNCHANGED <<saeVars, oweVars, evVars, mailVars, upVars, vars, cpVars, wrVars,
                       dpVars, ctVars, lkVars, dbVars, rtVars, rsVars, efVars, cxVars,
                       pwVars, tpVars, tmVars, miVars, adVars, edVars, fiVars, pb,
                       phVars, ppVars, rkVars, spVars, wfVars, hf>>
       \/ /\ part = "mac" /\ MiNext
          /\ UNCHANGED <<saeVars, oweVars, evVars, mailVars, upVars, vars, cpVars, wrVars,
                       dpVars, ctVars, lkVars, dbVars, rtVars, rsVars, efVars, cxVars,
                       pwVars, tpVars, tmVars, hsVars, adVars, edVars, fiVars, pb,
                       phVars, ppVars, rkVars, spVars, wfVars, hf>>
       \/ /\ part = "beacon" /\ AdNext
          /\ UNCHANGED <<saeVars, oweVars, evVars, mailVars, upVars, vars, cpVars, wrVars,
                       dpVars, ctVars, lkVars, dbVars, rtVars, rsVars, efVars, cxVars,
                       pwVars, tpVars, tmVars, hsVars, miVars, edVars, fiVars, pb,
                       phVars, ppVars, rkVars, spVars, wfVars, hf>>
       \/ /\ part = "efuse" /\ EdNext
          /\ UNCHANGED <<saeVars, oweVars, evVars, mailVars, upVars, vars, cpVars, wrVars,
                       dpVars, ctVars, lkVars, dbVars, rtVars, rsVars, efVars, cxVars,
                       pwVars, tpVars, tmVars, hsVars, miVars, adVars, fiVars, pb,
                       phVars, ppVars, rkVars, spVars, wfVars, hf>>
       \/ /\ part = "image" /\ FiNext
          /\ UNCHANGED <<saeVars, oweVars, evVars, mailVars, upVars, vars, cpVars, wrVars,
                       dpVars, ctVars, lkVars, dbVars, rtVars, rsVars, efVars, cxVars,
                       pwVars, tpVars, tmVars, hsVars, miVars, adVars, edVars, pb,
                       phVars, ppVars, rkVars, spVars, wfVars, hf>>
       \/ /\ part = "bridge" /\ PbNext
          /\ UNCHANGED <<saeVars, oweVars, evVars, mailVars, upVars, vars, cpVars, wrVars,
                       dpVars, ctVars, lkVars, dbVars, rtVars, rsVars, efVars, cxVars,
                       pwVars, tpVars, tmVars, hsVars, miVars, adVars, edVars, fiVars,
                       phVars, ppVars, rkVars, spVars, wfVars, hf>>
       \/ /\ part = "phy" /\ PhNext
          /\ UNCHANGED <<saeVars, oweVars, evVars, mailVars, upVars, vars, cpVars, wrVars,
                       dpVars, ctVars, lkVars, dbVars, rtVars, rsVars, efVars, cxVars,
                       pwVars, tpVars, tmVars, hsVars, miVars, adVars, edVars, fiVars,
                       pb, ppVars, rkVars, spVars, wfVars, hf>>
       \/ /\ part = "plan" /\ PpNext
          /\ UNCHANGED <<saeVars, oweVars, evVars, mailVars, upVars, vars, cpVars, wrVars,
                       dpVars, ctVars, lkVars, dbVars, rtVars, rsVars, efVars, cxVars,
                       pwVars, tpVars, tmVars, hsVars, miVars, adVars, edVars, fiVars,
                       pb, phVars, rkVars, spVars, wfVars, hf>>
       \/ /\ part = "calibration" /\ RkNext
          /\ UNCHANGED <<saeVars, oweVars, evVars, mailVars, upVars, vars, cpVars, wrVars,
                       dpVars, ctVars, lkVars, dbVars, rtVars, rsVars, efVars, cxVars,
                       pwVars, tpVars, tmVars, hsVars, miVars, adVars, edVars, fiVars,
                       pb, phVars, ppVars, spVars, wfVars, hf>>
       \/ /\ part = "port" /\ SpNext
          /\ UNCHANGED <<saeVars, oweVars, evVars, mailVars, upVars, vars, cpVars, wrVars,
                       dpVars, ctVars, lkVars, dbVars, rtVars, rsVars, efVars, cxVars,
                       pwVars, tpVars, tmVars, hsVars, miVars, adVars, edVars, fiVars,
                       pb, phVars, ppVars, rkVars, wfVars, hf>>
       \/ /\ part = "wire" /\ WfNext
          /\ UNCHANGED <<saeVars, oweVars, evVars, mailVars, upVars, vars, cpVars, wrVars,
                       dpVars, ctVars, lkVars, dbVars, rtVars, rsVars, efVars, cxVars,
                       pwVars, tpVars, tmVars, hsVars, miVars, adVars, edVars, fiVars,
                       pb, phVars, ppVars, rkVars, spVars, hf>>
       \/ /\ part = "held" /\ HfNext
          /\ UNCHANGED <<saeVars, oweVars, evVars, mailVars, upVars, vars, cpVars, wrVars,
                       dpVars, ctVars, lkVars, dbVars, rtVars, rsVars, efVars, cxVars,
                       pwVars, tpVars, tmVars, hsVars, miVars, adVars, edVars, fiVars,
                       pb, phVars, ppVars, rkVars, spVars, wfVars>>

MCVars == <<part, saeVars, oweVars, evVars, mailVars, upVars, vars, cpVars, wrVars, dpVars, ctVars, lkVars, dbVars, rtVars, rsVars, efVars, cxVars, pwVars, tpVars, tmVars, hsVars, miVars, adVars, edVars, fiVars, pb, phVars, ppVars, rkVars, spVars, wfVars, hf>>

MCSpec == MCInit /\ [][MCNext]_MCVars

\* No key leaves an exchange that the peer did not confirm or did not make with
\* this station, and no repeated or foreign frame buys another transmission
\* (r16_sae_exchange_receive, r16_owe_receive).
KeysConfirmed ==
    /\ SaeKeyConfirmed /\ SaeBoundedTransmissions /\ OweKeysAgree

\* What is taken for an answer, a frame or a request of this conversation is one:
\* of this association and with none left out before it, of this mailbox request,
\* of the command just sent, of the scan that was asked for, in its order
\* (observe() of AuthenticationEvents.hpp, exchange() of the mailbox,
\* bt::Initialization, tables::Programmer, the Bridge of NativeWclScanResults.hpp).
AnswersAreOurs ==
    /\ EvWhole /\ EvOfThisAssociation /\ MailReplyIsOurs
    /\ CxOneByOne /\ CxOutputsTrue /\ TpAnsweredOnce
    /\ WrAdmittedIsArmable /\ WrDraftNeedsRequest /\ WrFramesInOrder

\* Pages, mappings, buffers and nodes are given back exactly once, and never while
\* the device or an owner may still use them, wherever bring-up, probe, session,
\* allocation or transmission is cut off (FirmwareBank.hpp, KernelPacketMemory,
\* PciRuntime::stop, MacDmaBuffer::destroy, Net80211PacketBridge).
NothingFreedInUse ==
    /\ UpPagesPinned /\ UpReleasedQuiet /\ DpPagesPinned
    /\ HsReleasedQuiet /\ HsAllGivenBack /\ DbMappedWhileRunning
    /\ DbMappingBacked /\ DbFreeIsEmpty /\ PbBuffersOwned
    /\ PbNodesOwned /\ PbNodeOutlives /\ PbProbeGone

\* Whatever is reported ready, running or complete has all its steps behind it,
\* each of which took effect: firmware prepared and sent, link configured, rings
\* running, MAC, PHY and radio programmed, calibration done, fuses read, tables
\* and port written (the success paths of MacFirmwareDownload, pcilink and MAC
\* initialization, PciRuntime::start, MacPhyInitialization, seedMacTables, ...).
ReadyMeansWhole ==
    /\ UpPreparedWhole /\ FiSentWhole /\ LkConfiguredWhole
    /\ HsRunsWhole /\ MiReadyWhole /\ PhReadyWhole
    /\ RtPagesWhole /\ RkReadyWhole /\ EfSnapshotTrue
    /\ TpSuccessWhole /\ SpSeededWhole /\ SpEnabledWhole

\* A sequence that failed half way says so and is not carried on with: a half-tuned
\* channel or half-written table keeps its lease or its fault, a power state or
\* mask that is not known is not claimed, and no part of a plan is handed out
\* (fail() and finish() of ChannelProgramming, DevicePower, FirmwareMailbox,
\* Programmer, MacStationIo, TxPowerPlan).
FailureIsHonest ==
    /\ LkNeverSilent /\ PwRecoveryHonest /\ MailMaskKnown
    /\ CtHalfTunedIsHeld /\ CtLeaseAdopted /\ TpNoHalfPlan
    /\ SpHalfSeedFaults /\ PhResetKnown /\ PpAllOrNothing
    /\ DpReportsTrue

\* What a sequence switched on or opened for itself is off and closed when it has
\* ended, by whichever path: fuse supply and port, interrupts, the test
\* transmission of a calibration, the receive filter of a scan (EfuseReader
\* restore(), the probe's clean-up, rfk end, scanFilter).
LeftAsFound ==
    /\ EfLeftAsFound /\ EfIsolated /\ DpInterruptsMasked
    /\ DpSecondPassClean /\ RkEndedQuiet /\ RkEmissionCovered
    /\ SpFilterRestored

\* A walk over data from outside takes what its format says, all of it and nothing
\* beyond its end, and leaves what it was to fill untouched when it fails: beacon
\* elements (three walks that must agree), fuse records, the firmware image and its
\* packets, conditional radio tables (the shipped ones row by row), the limits of a
\* channel's blocks, descriptors, the release of the frame that was posted and reports
\* of the PHY, and no register pattern taken for data.
DecodedExactly ==
    /\ AdWalkersAgree /\ AdObservesExactly /\ EdMapTrue /\ EdFailureUntouched
    /\ FiAcceptsGood /\ FiRingHolds /\ RtOnlySelected
    /\ RsShippedServes /\ PpBuiltForBlocks /\ PpNeverAbove
    /\ MiNoPattern /\ WfDescriptorsTrue /\ WfReceivedInside
    /\ WfReportTiled /\ WfReleaseFindsFrame

\* Requests of other threads, closing clients and stop() neither pull an object away
\* from under one another nor wait for each other for ever, and a request is
\* carried out whole or refused (blockControlRequests, stop, free).
ControlPlaneSound ==
    /\ CpNothingPulledAway /\ CpAllOrNothing /\ CpNeverStuck

\* Nothing is done for a cause that is gone, or twice for one: a Confirm is not a
\* replay, a timer runs once for each time it was armed and knows whether it is,
\* no result frame is delivered of a snapshot that was replaced, and no received frame
\* twice or under another channel
\* (r16_sae_exchange_poll, CTimeout, Bridge::commit).
NothingLateOrTwice ==
    /\ SaeConfirmNotReplayed /\ TmOncePerArming /\ []TmPendingTrue
    /\ WrNoStaleFrame /\ []HfHeldInTime

\* No single step goes ahead of what it depends on or over what belongs to another:
\* power is cut only from a quiet device and the supply switched only when it may
\* be, a calibration stop and a channel are reported as they are, and the bits,
\* masks, ports, grants and waits of others are left as they were.
StepsKeepTheirOrder ==
    /\ UpSupplySwitched /\ PwCutQuiet /\ PwOthersMaskKept
    /\ MailResumeRestores /\ CtCompletedWhole /\ RkStopHonest
    /\ CxBluetoothKept /\ DpOthersBitsKept /\ EfPortAlone
    /\ SpKeepsDistance
=============================================================================
