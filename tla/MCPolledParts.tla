--------------------------- MODULE MCPolledParts ----------------------------
\* The parts that the driver polls, and that must get somewhere: the controller,
\* the radio and the receive ring.  A behaviour exercises one of them,
\* named by part, while the others stay as they are built.
EXTENDS NetworkController, RadioLink, ReceiveRing

VARIABLE part

MCInit ==
    /\ part \in {"network", "radio", "receive"}
    /\ NetInit
    /\ RlInit
    /\ RxInit

MCNext ==
    /\ part' = part
    /\ \/ /\ part = "network" /\ NetNext
          /\ UNCHANGED <<rlVars, rxVars>>
       \/ /\ part = "radio" /\ RlNext
          /\ UNCHANGED <<netVars, rxVars>>
       \/ /\ part = "receive" /\ RxNext
          /\ UNCHANGED <<netVars, rlVars>>

MCVars == <<part, netVars, rlVars, rxVars>>

\* The part that runs is polled and its peers answer; see the modules for what
\* each disjunct assumes.  Fairness asks nothing of the others.
MCFairness ==
    /\ WF_MCVars(\/ part = "network" /\ NetPolls /\ UNCHANGED <<part, rlVars, rxVars>>
                 \/ part = "radio" /\ RlPolls /\ UNCHANGED <<part, netVars, rxVars>>
                 \/ part = "receive" /\ RxHost /\ UNCHANGED <<part, netVars, rlVars>>)
    /\ WF_MCVars(\/ part = "network" /\ NetFirmwareAnswers /\ UNCHANGED <<part, rlVars, rxVars>>
                 \/ part = "radio" /\ RlCommandEnds /\ UNCHANGED <<part, netVars, rxVars>>)
    /\ WF_MCVars(\/ part = "network" /\ NetFrameCompletes /\ UNCHANGED <<part, rlVars, rxVars>>
                 \/ part = "radio" /\ RlWordDelivered /\ UNCHANGED <<part, netVars, rxVars>>)

MCSpec == MCInit /\ [][MCNext]_MCVars /\ MCFairness

\* The controller, the station and net80211 stay in step: one action at a time and
\* after the drain it waits for, no frame under keys of the old link, the protocol
\* state and the link reported follow the station, and none of the controller's
\* own consistency checks can fire (poll(), beginAction(), newState).
ControllerConsistent ==
    /\ NetActionAlone /\ NetOldKeysDrained /\ NetLinkMeansPort
    /\ NetChecksNeverFire /\ NetProtocolFollowsStation

\* The radio calibrates only under its lease, Bluetooth keeps its turn on the
\* antenna, traffic runs only on a calibrated channel, a calibration is never asked
\* for in an order it refuses, and a stopped radio is quiet (BtRfkCoordination,
\* BootService, radioboot::Sequence).
RadioSafe ==
    /\ RlBodyProtected /\ RlBluetoothKeepsAntenna /\ RlTrafficCalibrated
    /\ RlNeverRefused /\ RlStoppedQuiet

\* Received buffers are read in the order they were written, a frame is handed up
\* only whole, and neither a stopped nor a released ring is touched again, also
\* when a callback asked for it (RxDmaQueue::poll, PciRxAssembly).
FramesWhole ==
    /\ RxReadsInOrder /\ RxWholeFrames /\ RxReleasedQuiet
    /\ RxStoppedSilent

\* What was begun ends, and as what it says: a selection is resolved, an action of
\* the radio completes with all of it done or fails, a frame that was received is
\* delivered (poll(), BootService::service, dispatch()).
WorkEnds ==
    /\ NetSelectionResolved /\ RlActionEnds /\ RlCompletedWhole
    /\ RxDelivered
=============================================================================
