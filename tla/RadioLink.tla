------------------------------ MODULE RadioLink ------------------------------
(***************************************************************************)
(* The radio under the station controller: BootService carries out one     *)
(* station action at a time, radioboot::Sequence runs each as a list of    *)
(* calibrations, every one under a lease of its own, and                   *)
(* rfk::Initialization keeps which calibration is valid for which channel. *)
(* The work loop calls service() again and again; a call either moves one  *)
(* phase or waits.  The station above follows the order of                 *)
(* StationController.  A peer is named by its channel.                     *)
(*                                                                         *)
(* The calibration lease shared with Bluetooth is bt::RfkCoordination and  *)
(* the native use of it by rfk::MacRfkIo.  begin() and restore() run in    *)
(* one call of the work loop but poll and sleep in it, so Bluetooth moves  *)
(* between their register accesses; the stages in RlInCall are the points  *)
(* inside such a call.                                                     *)
(***************************************************************************)
EXTENDS Naturals, Sequences

-----------------------------------------------------------------------------
(* The lease.                                                              *)

VARIABLES
    rlBt,         \* Bluetooth's calibration bits: "quiet", "request" or "run"
    rlBtSees,     \* the WLRFK bit Bluetooth has been delivered
    rlPublished,  \* the WLRFK bit in the scoreboard word last written
    rlStage,      \* where the lease is, "none" when there is no lease
    rlHeld,       \* ownershipHeld
    rlGrants,     \* antenna grants and priority: "baseline", "calibration", "partial"
    rlFw,         \* what the firmware has applied: coexistence policy and tables
    rlCommand,    \* the command in flight, or RlNoCommand
    rlMask,       \* the transmit scheduler: "none", "management" or "all"
    rlBody,       \* the calibration: "idle", "running", "unproven" after a failure
    rlEmitting    \* the PMAC test transmission of TSSI is on

leaseVars == <<rlBt, rlBtSees, rlPublished, rlStage, rlHeld, rlGrants, rlFw, rlCommand, rlMask, rlBody, rlEmitting>>

RlPolicy(policy) == [to |-> "policy", value |-> <<policy, 0>>]

RlNoCommand == [to |-> "none", value |-> <<"none", 0>>]

RlInCall == {"await", "clear", "publish", "recheck", "grant", "restore", "unpublish", "release"}

RlGateFree == rlStage \notin RlInCall /\ rlBody # "running"

RlLeaseInit ==
    /\ rlBt = "quiet" /\ rlBtSees = FALSE
    /\ rlPublished = FALSE /\ rlStage = "none" /\ rlHeld = FALSE
    /\ rlGrants = "baseline"
    /\ rlFw = [to \in {"policy", "cam", "cmac", "edca"} |-> <<IF to = "policy" THEN "baseline" ELSE "none", 0>>]
    /\ rlCommand = RlNoCommand /\ rlMask = "none"
    /\ rlBody = "idle" /\ rlEmitting = FALSE

RlStep(from, to) == rlStage = from /\ rlStage' = to

-----------------------------------------------------------------------------
(* Bluetooth publishes its request before it looks at the WLAN's bit.      *)

RlBtRequests == rlBt = "quiet" /\ rlBt' = "request"
RlBtStarts == rlBt = "request" /\ ~rlBtSees /\ rlBt' = "run"
RlBtWithdraws == rlBt = "request" /\ rlBtSees /\ rlBt' = "quiet"
RlBtEnds == rlBt = "run" /\ rlBt' = "quiet"
RlBtIsTold == rlBtSees # rlPublished /\ rlBtSees' = rlPublished

RlBluetooth ==
    /\ \/ (RlBtRequests \/ RlBtStarts \/ RlBtWithdraws \/ RlBtEnds) /\ rlBtSees' = rlBtSees
       \/ RlBtIsTold /\ rlBt' = rlBt
    /\ UNCHANGED <<rlPublished, rlStage, rlHeld, rlGrants, rlFw, rlCommand, rlMask, rlBody, rlEmitting>>

-----------------------------------------------------------------------------
(* Acquiring: wait for Bluetooth, publish, let the word be delivered, look *)
(* again, take the grants and ask the firmware for the calibration policy. *)

\* awaitBt() reads the scoreboard until neither bit is set.
RlAwaitBt ==
    /\ RlStep("await", "clear") /\ rlBt = "quiet"
    /\ UNCHANGED <<rlBt, rlBtSees, rlPublished, rlHeld, rlGrants, rlFw, rlCommand, rlMask, rlBody, rlEmitting>>

\* From here the lease is held, and a failure keeps it.
RlPublish ==
    /\ RlStep("clear", "publish") /\ rlHeld' = TRUE /\ rlPublished' = TRUE
    /\ UNCHANGED <<rlBt, rlBtSees, rlGrants, rlFw, rlCommand, rlMask, rlBody, rlEmitting>>

\* The delay of one millisecond covers the delivery of the word.
RlDelivered(from, to) ==
    /\ RlStep(from, to) /\ rlBtSees = rlPublished
    /\ UNCHANGED <<rlBt, rlBtSees, rlPublished, rlHeld, rlGrants, rlFw, rlCommand, rlMask, rlBody, rlEmitting>>

\* The window between the first look and the publication is not closed.
RlRecheckDropped ==
    /\ RlStep("recheck", "grant")
    /\ UNCHANGED <<rlBt, rlBtSees, rlPublished, rlHeld, rlGrants, rlFw, rlCommand, rlMask, rlBody, rlEmitting>>

RlRecheck ==
    /\ RlStep("recheck", "grant") /\ rlBt = "quiet"
    /\ UNCHANGED <<rlBt, rlBtSees, rlPublished, rlHeld, rlGrants, rlFw, rlCommand, rlMask, rlBody, rlEmitting>>

\* setGrants(false), then submit() of the calibration policy.
RlGrant ==
    /\ RlStep("grant", "waitingStartAck")
    /\ rlGrants' = "calibration" /\ rlCommand' = RlPolicy("off")
    /\ UNCHANGED <<rlBt, rlBtSees, rlPublished, rlHeld, rlFw, rlMask, rlBody, rlEmitting>>

-----------------------------------------------------------------------------
(* Releasing, within the event that acknowledges the baseline policy: the  *)
(* grants go back while Bluetooth is still told to keep off.               *)

RlRestoreGrants ==
    /\ RlStep("restore", "unpublish") /\ rlMask = "none" /\ rlGrants' = "baseline"
    /\ UNCHANGED <<rlBt, rlBtSees, rlPublished, rlHeld, rlFw, rlCommand, rlMask, rlBody, rlEmitting>>

RlUnpublish ==
    /\ RlStep("unpublish", "release") /\ rlPublished' = FALSE
    /\ UNCHANGED <<rlBt, rlBtSees, rlHeld, rlGrants, rlFw, rlCommand, rlMask, rlBody, rlEmitting>>

RlReleased ==
    /\ RlStep("release", "complete") /\ rlBtSees = rlPublished /\ rlHeld' = FALSE
    /\ UNCHANGED <<rlBt, rlBtSees, rlPublished, rlGrants, rlFw, rlCommand, rlMask, rlBody, rlEmitting>>

RlLeaseStep ==
    \/ RlAwaitBt \/ RlPublish \/ RlDelivered("publish", "recheck") \/ RlRecheck \/ RlGrant
    \/ RlRestoreGrants \/ RlUnpublish \/ RlReleased

-----------------------------------------------------------------------------
\* A calibration body runs, or may still run after a failure, only where the
\* firmware has applied the calibration policy, the grants are taken, the
\* scheduler is closed and Bluetooth, told to keep off, is not calibrating.
RlBodyProtected ==
    rlBody # "idle" =>
        /\ rlFw.policy = <<"off", 0>> /\ rlGrants = "calibration" /\ rlMask = "none"
        /\ rlPublished /\ rlBtSees /\ rlBt # "run"

\* The antenna is never taken from a Bluetooth calibration: no grant is forced
\* while one runs, neither on the way in nor, after failures, on the way out.
RlBluetoothKeepsAntenna == rlGrants # "baseline" => rlBt # "run"

-----------------------------------------------------------------------------
(* The sequence and the boot service.                                      *)

CONSTANTS RlChannels, RlHomeChannel

ASSUME RlChannelAssumption == RlHomeChannel \in RlChannels /\ RlChannels \subseteq Nat

VARIABLES
    rlBoot,      \* BootService stage: "configuration", "radio", "ready", "failed", "stopped"
    rlSeq,       \* Sequence stage
    rlRun,       \* its action, and the index of the calibration in it
    rlFlags,     \* its result: the flags initialized, tuned, full, scanning that are set
    rlRfk,       \* rfk::Result: valid calibrations, and the channels they belong to
    rlTarget,    \* target of the tune
    rlHw,        \* the channel the hardware is programmed to
    rlAction,    \* pending station action and its channel, "none" when none is
    rlPhase,     \* phase_
    rlPlan,      \* the table writes still to be acknowledged
    rlDone,      \* the flags tableDone_ and edcaDone_ that are set
    rlChannel,   \* channel_ when channelValid_, 0 when not
    rlIo,        \* MacStationIo: port "off", "waiting" or "on"; scan filter; boot's scanning_
    rlHealthy,   \* which of the command bus and the mailbox work
    rlClosure,   \* closureProven
    rlStation    \* the station: state, scan resume state, home and peer channel

radioVars ==
    <<rlBoot, rlSeq, rlRun, rlFlags, rlRfk, rlTarget, rlHw, rlAction, rlPhase, rlPlan, rlDone,
      rlChannel, rlIo, rlHealthy, rlClosure, rlStation>>

rlVars == <<leaseVars, radioVars>>

RlSteps ==
    [initialize |-> <<"rck", "dack", "initialRxDc">>,
     tune |-> <<"channel", "rxDc", "iqk", "tssi", "dpk">>,
     scanBegin |-> <<"scanBegin">>, scanTune |-> <<"channel", "scanTune">>, scanEnd |-> <<"scanEnd">>]

RlCurrent == RlSteps[rlRun.action][rlRun.index]

RlBusy == rlSeq \in {"upload", "btInitialization", "acquire", "run", "restore"}

\* MacRadioBoot::ready() and tuned().
RlReady == rlSeq = "ready" /\ "initialized" \in rlFlags /\ "bus" \in rlHealthy

RlNoAction == [action |-> "none", channel |-> 0]

RlInit ==
    /\ RlLeaseInit
    /\ rlBoot = "configuration" /\ rlSeq = "idle" /\ rlRun = [action |-> "initialize", index |-> 1]
    /\ rlFlags = {} /\ rlTarget = 0 /\ rlHw = 0
    /\ rlRfk = [ok |-> {}, rxDc |-> 0, iq |-> 0, active |-> FALSE, home |-> 0, scan |-> 0, dpk |-> FALSE]
    /\ rlAction = RlNoAction /\ rlPhase = 0 /\ rlPlan = <<>> /\ rlDone = {} /\ rlChannel = 0
    /\ rlIo = [port |-> "off", filter |-> FALSE, scanning |-> FALSE]
    /\ rlHealthy = {"bus", "mailbox"} /\ rlClosure = FALSE
    /\ rlStation = [state |-> "stopped", resume |-> "idle", home |-> RlHomeChannel, peer |-> 0]

-----------------------------------------------------------------------------
(* Failure.                                                                *)

\* Sequence::fail() and MacRadioBoot::State::failed(): the scheduler is closed
\* if the mailbox still answers, the test transmission is stopped, and a lease
\* that is held stays held.  The native calibration lease is never given back.
RlFailedForgettingBody(body) ==
    \E closed, stopped \in BOOLEAN :
        /\ closed => "mailbox" \in rlHealthy
        /\ rlMask' \in IF closed THEN {"none"} ELSE {rlMask} \cup (IF "mailbox" \in rlHealthy THEN {"none"} ELSE {})
        /\ stopped \/ rlEmitting
        /\ rlEmitting' = (rlEmitting /\ ~stopped)
        /\ rlHealthy' = IF closed THEN {"mailbox"} ELSE {}
        /\ rlClosure' = (closed /\ stopped)

RlFailed(body) ==
    \E closed, stopped \in BOOLEAN :
        /\ closed => "mailbox" \in rlHealthy
        /\ rlMask' \in IF closed THEN {"none"} ELSE {rlMask} \cup (IF "mailbox" \in rlHealthy THEN {"none"} ELSE {})
        /\ stopped \/ rlEmitting
        /\ rlEmitting' = (rlEmitting /\ ~stopped)
        /\ rlHealthy' = IF closed THEN {"mailbox"} ELSE {}
        /\ rlClosure' = (closed /\ stopped /\ body = "idle")

\* What the lease keeps when an owner fails: everything it has taken.
RlRetain == rlPublished' = rlPublished /\ rlHeld' = rlHeld /\ rlStage' = IF rlHeld THEN "fault" ELSE rlStage

\* BootService::fail(), after which the action is forgotten.
RlBootFailed == rlBoot' = "failed" /\ rlAction' = RlNoAction /\ rlChannel' = 0

RlSequenceFailed(body) ==
    /\ RlFailed(body) /\ RlBootFailed
    /\ rlSeq' = "fault" /\ rlFlags' = rlFlags \ {"tuned", "full"}
    /\ UNCHANGED <<rlRun, rlTarget, rlPhase, rlPlan, rlDone, rlStation>>

\* begin() fails in one of its accesses, or because Bluetooth is busy.
RlBeginFails ==
    /\ rlStage \in {"await", "clear", "publish", "recheck", "grant"}
    /\ rlHeld' \in CASE rlStage = "await" -> {FALSE} [] rlStage = "clear" -> BOOLEAN [] OTHER -> {TRUE}
    /\ rlPublished' \in {rlPublished} \cup (IF rlStage = "clear" /\ rlHeld' THEN {TRUE} ELSE {})
    /\ rlGrants' \in {rlGrants} \cup (IF rlStage = "grant" THEN {"partial", "calibration"} ELSE {})
    /\ rlCommand' \in {rlCommand} \cup (IF rlStage = "grant" /\ rlGrants' = "calibration"
                                        THEN {RlPolicy("off")} ELSE {})
    /\ rlStage' = "fault"
    /\ RlSequenceFailed(rlBody)
    /\ UNCHANGED <<rlBt, rlBtSees, rlFw, rlBody, rlRfk, rlHw, rlIo>>

\* restore() fails in the event: the bus is invalidated, service() sees it.
RlRestoreFails ==
    /\ rlStage \in {"restore", "unpublish", "release"}
    /\ rlGrants' \in {rlGrants} \cup (IF rlStage = "restore" THEN {"partial", "baseline"} ELSE {})
    /\ rlPublished' \in {rlPublished} \cup (IF rlStage = "unpublish" THEN {FALSE} ELSE {})
    /\ rlStage' = "fault" /\ rlHealthy' = rlHealthy \ {"bus"}
    /\ UNCHANGED <<rlBt, rlBtSees, rlHeld, rlFw, rlCommand, rlMask, rlBody, rlEmitting, rlBoot, rlSeq, rlRun,
                   rlFlags, rlRfk, rlTarget, rlHw, rlAction, rlPhase, rlPlan, rlDone, rlChannel, rlIo, rlClosure, rlStation>>

\* A failure between two calls or while a calibration runs: the engine is then
\* not known to have stopped, and the channel may be half programmed.
RlSequenceFails(body) ==
    /\ RlRetain /\ RlSequenceFailed(body)
    /\ rlBody' = body
    /\ UNCHANGED <<rlBt, rlBtSees, rlGrants, rlFw, rlRfk, rlIo>>

-----------------------------------------------------------------------------
(* radioboot::Sequence and the calibrations it runs.                       *)

\* The conditions each calibration checks before it takes the native lease.
RlRunnable(step) ==
    CASE step = "rck" -> rlRfk.ok = {}
      [] step = "dack" -> "rck" \in rlRfk.ok
      [] step = "initialRxDc" -> "dack" \in rlRfk.ok
      [] step = "channel" -> TRUE
      [] step = "rxDc" -> ~rlRfk.active /\ "rxDc" \in rlRfk.ok
      [] step = "iqk" -> ~rlRfk.active /\ "prepared" \in rlRfk.ok /\ rlRfk.rxDc = rlTarget
      [] step = "tssi" -> ~rlRfk.active /\ "iq" \in rlRfk.ok
      [] step = "dpk" -> ~rlRfk.active /\ {"iq", "tssi"} \subseteq rlRfk.ok
      [] step = "scanBegin" -> ~rlRfk.active /\ {"iq", "tssi"} \subseteq rlRfk.ok
      [] step = "scanTune" -> rlRfk.active
      [] step = "scanEnd" -> rlRfk.active /\ rlTarget = rlRfk.home

RlTx == {"iq", "tssi", "dpk"}

\* The result of a calibration that succeeds.
RlCalibrated(step) ==
    CASE step \in {"rck", "dack"} -> [rlRfk EXCEPT !.ok = @ \cup {step}]
      [] step = "initialRxDc" -> [rlRfk EXCEPT !.ok = @ \cup {"rxDc"}]
      [] step = "channel" -> rlRfk
      [] step = "rxDc" -> [rlRfk EXCEPT !.ok = (@ \ RlTx) \cup {"rxDc", "prepared"}, !.rxDc = rlTarget]
      [] step = "iqk" -> [rlRfk EXCEPT !.ok = (@ \ {"prepared"}) \cup {"iq"}, !.iq = rlTarget]
      [] step \in {"tssi", "dpk"} -> [rlRfk EXCEPT !.ok = @ \cup {step}]
      [] step = "scanBegin" -> [rlRfk EXCEPT !.ok = (@ \ RlTx) \cup {"scan"}, !.active = TRUE, !.home = rlRfk.iq,
                                             !.scan = rlRfk.iq, !.dpk = "dpk" \in rlRfk.ok]
      [] step = "scanTune" -> [rlRfk EXCEPT !.ok = @ \cup {"scan"}, !.scan = rlTarget]
      [] step = "scanEnd" -> [rlRfk EXCEPT !.ok = (@ \ {"scan"}) \cup {"iq", "tssi"} \cup (IF rlRfk.dpk THEN {"dpk"} ELSE {}),
                                           !.active = FALSE, !.scan = rlTarget, !.iq = rlTarget]

RlService == RlGateFree /\ rlBoot \in {"radio", "ready"} /\ rlHealthy = {"bus", "mailbox"}

\* requestLease(): the former lease is complete and the scheduler closed.
RlRequestLease(action, index) ==
    /\ rlStage \in {"none", "complete"} /\ rlBody = "idle"
    /\ rlRun' = [action |-> action, index |-> index]
    /\ rlStage' = "await" /\ rlSeq' = "acquire"
    /\ UNCHANGED <<rlBt, rlBtSees, rlPublished, rlHeld, rlGrants, rlFw, rlCommand, rlBody, rlEmitting>>

\* Firmware configuration is done: allocate(), begin() with pause and tables.
RlBeginRadio ==
    /\ RlGateFree /\ rlBoot = "configuration" /\ rlSeq = "idle"
    /\ rlBoot' = "radio" /\ rlSeq' = "upload" /\ rlMask' = "none"
    /\ UNCHANGED <<rlBt, rlBtSees, rlPublished, rlStage, rlHeld, rlGrants, rlFw, rlCommand, rlBody, rlEmitting, rlRun, rlFlags, rlRfk,
                   rlTarget, rlHw, rlAction, rlPhase, rlPlan, rlDone, rlChannel, rlIo, rlHealthy, rlClosure, rlStation>>

RlUpload ==
    /\ RlService /\ rlSeq = "upload" /\ rlMask = "none" /\ rlSeq' = "btInitialization"
    /\ UNCHANGED <<leaseVars, rlBoot, rlRun, rlFlags, rlRfk, rlTarget, rlHw, rlAction, rlPhase, rlPlan, rlDone,
                   rlChannel, rlIo, rlHealthy, rlClosure, rlStation>>

RlBtInitialized ==
    /\ RlService /\ rlSeq = "btInitialization" /\ rlMask = "none"
    /\ RlRequestLease("initialize", 1)
    /\ UNCHANGED <<rlMask, rlBoot, rlFlags, rlRfk, rlTarget, rlHw, rlAction, rlPhase, rlPlan, rlDone, rlChannel,
                   rlIo, rlHealthy, rlClosure, rlStation>>

RlPollLease ==
    /\ RlService /\ rlSeq = "acquire" /\ rlStage = "calibrating" /\ rlMask = "none" /\ rlSeq' = "run"
    /\ UNCHANGED <<leaseVars, rlBoot, rlRun, rlFlags, rlRfk, rlTarget, rlHw, rlAction, rlPhase, rlPlan, rlDone,
                   rlChannel, rlIo, rlHealthy, rlClosure, rlStation>>

\* run(): the calibration consumes the lease, which must still be ready.
RlRunBegins ==
    /\ RlService /\ rlSeq = "run" /\ rlStage = "calibrating" /\ rlMask = "none" /\ RlRunnable(RlCurrent)
    /\ rlBody' = "running" /\ rlEmitting' = (RlCurrent = "tssi")
    /\ UNCHANGED <<rlBt, rlBtSees, rlPublished, rlStage, rlHeld, rlGrants, rlFw, rlCommand, rlMask, radioVars>>

\* ... and finishLease() asks for the baseline policy after it.
RlRunEnds ==
    /\ rlBody = "running"
    /\ rlBody' = "idle" /\ rlEmitting' = FALSE
    /\ rlRfk' = RlCalibrated(RlCurrent)
    /\ rlHw' = IF RlCurrent = "channel" THEN rlTarget ELSE rlHw
    /\ rlStage' = "waitingStopAck" /\ rlCommand' = RlPolicy("baseline") /\ rlSeq' = "restore"
    /\ UNCHANGED <<rlBt, rlBtSees, rlPublished, rlHeld, rlGrants, rlFw, rlMask, rlBoot, rlRun, rlFlags, rlTarget, rlAction,
                   rlPhase, rlPlan, rlDone, rlChannel, rlIo, rlHealthy, rlClosure, rlStation>>

\* Mutant: the baseline is asked for though the body is not known to have ended.
RlRunFailsRestoring ==
    /\ rlBody = "running" /\ RlSequenceFails("unproven") /\ rlHw' = rlHw
    /\ rlCommand' \in {rlCommand, RlPolicy("baseline")}

RlRunFails ==
    \/ /\ rlBody = "running" /\ RlSequenceFails("unproven")
       /\ rlHw' \in {rlHw} \cup (IF RlCurrent = "channel" THEN {rlTarget} ELSE {})
       /\ rlCommand' = rlCommand
    \/ /\ rlBody = "running" /\ RlSequenceFails("idle") /\ rlHw' = rlHw /\ rlEmitting' = FALSE
       /\ rlCommand' \in {rlCommand, RlPolicy("baseline")}

\* finishOperation(): what must be calibrated at the end of each action.
RlOperationFinished ==
    /\ rlMask = "none"
    /\ CASE rlRun.action = "initialize" -> {"rck", "dack", "rxDc"} \subseteq rlRfk.ok
         [] rlRun.action \in {"scanBegin", "scanTune"} -> rlRfk.active /\ "scan" \in rlRfk.ok
         [] OTHER -> RlTx \subseteq rlRfk.ok /\ ~rlRfk.active

RlFlagsAfter(action) ==
    {"initialized"} \cup (IF action # "initialize" THEN {"tuned"} ELSE {})
        \cup (IF action \in {"tune", "scanEnd"} THEN {"full"} ELSE {})
        \cup (IF action = "scanBegin" THEN {"scanning"} ELSE IF action = "scanEnd" THEN {} ELSE rlFlags \cap {"scanning"})

\* A restored lease leads to the next calibration, or to the end of the action.
RlPollRestore ==
    /\ RlService /\ rlSeq = "restore" /\ rlStage = "complete"
    /\ \/ /\ rlRun.index < Len(RlSteps[rlRun.action]) /\ rlMask = "none"
          /\ RlRequestLease(rlRun.action, rlRun.index + 1)
          /\ UNCHANGED <<rlFlags, rlBoot>>
       \/ /\ rlRun.index = Len(RlSteps[rlRun.action]) /\ RlOperationFinished
          /\ rlSeq' = "ready" /\ rlFlags' = RlFlagsAfter(rlRun.action) /\ rlBoot' = "ready"
          /\ UNCHANGED <<rlRun, rlBt, rlBtSees, rlPublished, rlStage, rlHeld, rlGrants, rlFw, rlCommand, rlBody, rlEmitting>>
    /\ UNCHANGED <<rlMask, rlRfk, rlTarget, rlHw, rlAction, rlPhase, rlPlan, rlDone, rlChannel, rlIo, rlHealthy,
                   rlClosure, rlStation>>

\* A service call that finds the bus gone fails the boot service alone; the
\* sequence fails by itself on its deadline, the lease's, a mailbox fault or a
\* calibration that refuses to run.
RlServiceFails ==
    /\ RlGateFree /\ rlBoot \in {"radio", "ready"}
    /\ \/ /\ "bus" \notin rlHealthy /\ RlBootFailed
          /\ UNCHANGED <<leaseVars, rlSeq, rlRun, rlFlags, rlRfk, rlTarget, rlHw, rlPhase, rlPlan, rlDone, rlIo,
                         rlHealthy, rlClosure, rlStation>>
       \/ /\ "bus" \in rlHealthy /\ (RlBusy \/ "mailbox" \notin rlHealthy)
          /\ RlSequenceFails(rlBody) /\ UNCHANGED <<rlHw, rlCommand>>

-----------------------------------------------------------------------------
(* BootService: traffic and the phases of an action.                       *)

\* MacRadioBoot::setTraffic(): only a channel calibrated for it carries data.
RlMayOpenAny(mask) == RlReady /\ ~rlHeld
RlMayOpen(mask) ==
    /\ RlReady /\ ~rlHeld
    /\ "full" \in rlFlags \/ (mask = "management" /\ rlRfk.active /\ "scan" \in rlRfk.ok)

\* A mailbox request that fails may have been carried out all the same.
RlSetMask(mask) ==
    \/ rlMask' = mask /\ rlHealthy' = rlHealthy
    \/ rlMask' \in {rlMask, mask} /\ rlHealthy' = rlHealthy \ {"mailbox"}

RlSetTraffic(mask) ==
    /\ RlGateFree /\ rlBoot = "ready" /\ ~RlBusy /\ rlHealthy = {"bus", "mailbox"}
    /\ mask # "none" => rlChannel # 0 /\ RlMayOpen(mask)
    /\ rlMask # mask /\ RlSetMask(mask)
    /\ UNCHANGED <<rlBt, rlBtSees, rlPublished, rlStage, rlHeld, rlGrants, rlFw, rlCommand, rlBody, rlEmitting, rlBoot, rlSeq,
                   rlRun, rlFlags, rlRfk, rlTarget, rlHw, rlAction, rlPhase, rlPlan, rlDone, rlChannel, rlIo, rlClosure, rlStation>>

\* The actions the station may ask for next, with their channel.
RlRequests ==
    LET st == rlStation.state
        tunes(action) == {[action |-> action, channel |-> c] : c \in RlChannels}
        one(action, c) == {[action |-> action, channel |-> c]}
    IN CASE st = "stopped" -> one("prepareInterface", rlStation.home)
         [] st = "created" -> one("idleTables", 0)
         [] st = "idle" -> one("scanBegin", 0) \cup tunes("prepareAuthentication") \cup one("removeCam", 0)
         [] st = "scan" -> tunes("scanTune")
                             \cup one("scanRestore", IF rlStation.resume = "idle" THEN rlStation.home ELSE rlStation.peer)
         [] st = "restored" -> one("scanEnd", 0)
         [] st = "authenticating" -> one("associationCmac", rlStation.peer) \cup one("disconnectCmac", rlStation.peer)
         [] st = "cmac" -> one("associationCam", rlStation.peer) \cup one("disconnectCmac", rlStation.peer)
         [] st = "linked" -> one("scanBegin", 0) \cup one("disconnectCmac", rlStation.peer)
         [] st = "left" -> one("disconnectCam", rlStation.peer)
         [] OTHER -> {}

\* What the station makes of a completed action.
RlStationAfterKeepingHome ==
    LET next == [prepareInterface |-> "created", idleTables |-> "idle", scanBegin |-> "scan", scanTune |-> "scan",
                 scanRestore |-> "restored", scanEnd |-> rlStation.resume, prepareAuthentication |-> "authenticating",
                 associationCmac |-> "cmac", associationCam |-> "linked", disconnectCmac |-> "left",
                 disconnectCam |-> "idle", removeCam |-> "removed"]
    IN [rlStation EXCEPT !.state = next[rlAction.action]]

RlStationAfter ==
    LET next == [prepareInterface |-> "created", idleTables |-> "idle", scanBegin |-> "scan", scanTune |-> "scan",
                 scanRestore |-> "restored", scanEnd |-> rlStation.resume, prepareAuthentication |-> "authenticating",
                 associationCmac |-> "cmac", associationCam |-> "linked", disconnectCmac |-> "left",
                 disconnectCam |-> "idle", removeCam |-> "removed"]
    IN [rlStation EXCEPT !.state = next[rlAction.action],
                         !.home = IF rlAction.action = "prepareAuthentication" THEN rlStation.peer ELSE @]

\* beginAction(): traffic is closed before the action is taken.
RlTakes(request) ==
    /\ rlAction' = request /\ rlPhase' = 0 /\ rlDone' = {}
    /\ rlStation' = [rlStation EXCEPT
          !.peer = IF request.action = "prepareAuthentication" THEN request.channel ELSE @,
          !.resume = IF request.action = "scanBegin" THEN rlStation.state ELSE @]

RlBeginAction(request) ==
    /\ RlGateFree /\ rlBoot = "ready" /\ rlAction = RlNoAction /\ RlReady /\ rlHealthy = {"bus", "mailbox"}
    /\ RlSetMask("none")
    /\ \/ "mailbox" \in rlHealthy' /\ RlTakes(request)
       \/ "mailbox" \notin rlHealthy' /\ UNCHANGED <<rlAction, rlPhase, rlDone, rlStation>>
    /\ UNCHANGED <<rlBt, rlBtSees, rlPublished, rlStage, rlHeld, rlGrants, rlFw, rlCommand, rlBody, rlEmitting, rlBoot, rlSeq,
                   rlRun, rlFlags, rlRfk, rlTarget, rlHw, rlPlan, rlChannel, rlIo, rlClosure>>

RlServiceAction(actions, phase) ==
    /\ RlService /\ rlBoot = "ready" /\ ~RlBusy
    /\ rlAction.action \in actions /\ rlPhase = phase

\* The commands that carry out an action's tables, in order.
RlTables ==
    LET a == rlAction
        write(to, kind) == [to |-> to, value |-> <<kind, a.channel>>]
    IN CASE a.action = "idleTables" -> <<write("cam", "unlinked"), write("cmac", "default")>>
         [] a.action \in {"prepareAuthentication", "disconnectCam"} -> <<write("cam", "unlinked")>>
         [] a.action = "associationCam" -> <<write("cam", "linked")>>
         [] a.action = "removeCam" -> <<write("cam", "gone")>>
         [] a.action = "associationCmac" -> <<write("cmac", "linked")>>
         [] a.action = "disconnectCmac" -> <<write("cmac", "unlinked")>>
         [] OTHER -> <<>>

RlEdca == [to |-> "edca", value |-> <<"edca", rlAction.channel>>]

\* Programmer::begin() of the action's plan, and the phase that follows.
RlSubmit ==
    /\ rlPlan' = RlTables /\ rlCommand' = RlTables[1] /\ rlDone' = rlDone \ {"table"} /\ rlPhase' = rlPhase + 1

RlFinish == rlAction' = RlNoAction /\ rlPhase' = 0 /\ rlStation' = RlStationAfter

\* beginPort(), after seed() for the first action: the scheduler is closed.
RlPortBegins ==
    /\ RlServiceAction({"prepareInterface", "associationCmac", "disconnectCmac"}, 0) /\ rlMask = "none"
    /\ rlIo' = [rlIo EXCEPT !.port = "waiting"] /\ rlPhase' = 1
    /\ UNCHANGED <<leaseVars, rlBoot, rlSeq, rlRun, rlFlags, rlRfk, rlTarget, rlHw, rlAction, rlPlan, rlDone, rlChannel,
                   rlHealthy, rlClosure, rlStation>>

\* tune(), beginScan() and endScan(): launch() pauses and asks for a lease.
RlLaunch(action) ==
    /\ RlReady
    /\ CASE action = "tune" -> "scanning" \notin rlFlags
         [] action = "scanBegin" -> "full" \in rlFlags /\ "scanning" \notin rlFlags
         [] OTHER -> "scanning" \in rlFlags
    /\ rlFlags' = rlFlags \ {"tuned", "full"}
    /\ rlTarget' = IF action \in {"tune", "scanTune"} THEN rlAction.channel ELSE rlTarget
    /\ rlChannel' = IF action \in {"tune", "scanTune"} THEN 0 ELSE rlChannel
    /\ rlMask' = "none" /\ rlPhase' = rlPhase + 1
    /\ RlRequestLease(action, 1)
    /\ UNCHANGED <<rlBoot, rlRfk, rlHw, rlAction, rlPlan, rlDone, rlHealthy, rlClosure, rlStation>>

RlActionTunes ==
    \/ /\ RlServiceAction({"prepareAuthentication"}, 0) /\ RlLaunch("tune") /\ UNCHANGED rlIo
    \/ /\ RlServiceAction({"scanTune", "scanRestore"}, 0) /\ rlIo.scanning /\ RlLaunch("scanTune") /\ UNCHANGED rlIo
    \/ /\ RlServiceAction({"scanBegin"}, 0) /\ rlMask = "none" /\ ~rlIo.scanning /\ ~rlIo.filter /\ "tuned" \in rlFlags
       /\ RlLaunch("scanBegin") /\ rlIo' = [rlIo EXCEPT !.filter = TRUE]
    \/ /\ RlServiceAction({"scanEnd"}, 0) /\ rlIo.scanning /\ RlLaunch("scanEnd") /\ UNCHANGED rlIo
    \/ /\ RlServiceAction({"prepareInterface"}, 1) /\ rlMask = "none"
       /\ RlLaunch("tune") /\ rlIo' = [rlIo EXCEPT !.port = "off"]

\* servicePort() has programmed the port for an association or its end.
RlPortDone ==
    /\ RlServiceAction({"associationCmac", "disconnectCmac"}, 1) /\ rlMask = "none"
    /\ rlIo' = [rlIo EXCEPT !.port = IF rlAction.action = "associationCmac" THEN "on" ELSE "off"]
    /\ \/ rlAction.action = "associationCmac" /\ rlCommand' = RlEdca /\ rlPhase' = 2 /\ UNCHANGED <<rlPlan, rlDone>>
       \/ rlAction.action = "disconnectCmac" /\ RlSubmit
    /\ UNCHANGED <<rlBt, rlBtSees, rlPublished, rlStage, rlHeld, rlGrants, rlFw, rlMask, rlBody, rlEmitting, rlBoot, rlSeq, rlRun,
                   rlFlags, rlRfk, rlTarget, rlHw, rlAction, rlChannel, rlHealthy, rlClosure, rlStation>>

\* Tables are submitted at once, after the tune, or after EDCA is acknowledged.
RlTablesBegin ==
    /\ \/ RlServiceAction({"idleTables", "associationCam", "disconnectCam", "removeCam"}, 0) /\ UNCHANGED rlChannel
       \/ RlServiceAction({"prepareAuthentication"}, 1) /\ RlReady /\ "tuned" \in rlFlags /\ rlChannel' = rlAction.channel
       \/ RlServiceAction({"associationCmac"}, 2) /\ "edca" \in rlDone /\ UNCHANGED rlChannel
    /\ RlSubmit
    /\ UNCHANGED <<rlBt, rlBtSees, rlPublished, rlStage, rlHeld, rlGrants, rlFw, rlMask, rlBody, rlEmitting, rlBoot, rlSeq, rlRun,
                   rlFlags, rlRfk, rlTarget, rlHw, rlAction, rlIo, rlHealthy, rlClosure, rlStation>>

RlTablesDone ==
    /\ \/ RlServiceAction({"idleTables", "associationCam", "disconnectCam", "removeCam"}, 1)
       \/ RlServiceAction({"prepareAuthentication", "disconnectCmac"}, 2)
       \/ RlServiceAction({"associationCmac"}, 3)
    /\ "table" \in rlDone /\ RlFinish
    /\ UNCHANGED <<leaseVars, rlBoot, rlSeq, rlRun, rlFlags, rlRfk, rlTarget, rlHw, rlPlan, rlDone, rlChannel, rlIo,
                   rlHealthy, rlClosure>>

\* The radio is ready again: finishTune(), or the end of the scan's frame.
RlTuned ==
    /\ RlReady
    /\ \/ /\ RlServiceAction({"prepareInterface"}, 2) \/ RlServiceAction({"scanTune", "scanRestore"}, 1)
          /\ "tuned" \in rlFlags /\ rlChannel' = rlAction.channel /\ UNCHANGED rlIo
       \/ /\ RlServiceAction({"scanBegin"}, 1)
          /\ rlIo' = [rlIo EXCEPT !.scanning = TRUE] /\ UNCHANGED rlChannel
       \/ /\ RlServiceAction({"scanEnd"}, 1) /\ "tuned" \in rlFlags /\ rlMask = "none" /\ rlIo.filter
          /\ rlIo' = [rlIo EXCEPT !.scanning = FALSE, !.filter = FALSE] /\ UNCHANGED rlChannel
    /\ RlFinish
    /\ UNCHANGED <<leaseVars, rlBoot, rlSeq, rlRun, rlFlags, rlRfk, rlTarget, rlHw, rlPlan, rlDone, rlHealthy, rlClosure>>

\* A phase that is refused, or whose registers fail, fails the boot service:
\* a register fault at any phase, a submission the bus does not take.
RlActionFails ==
    /\ RlService /\ rlBoot = "ready" /\ ~RlBusy /\ rlAction # RlNoAction
    /\ RlBootFailed /\ rlHealthy' = rlHealthy \ {"bus"}
    /\ UNCHANGED <<leaseVars, rlSeq, rlRun, rlFlags, rlRfk, rlTarget, rlHw, rlPhase, rlPlan, rlDone, rlIo, rlClosure, rlStation>>

-----------------------------------------------------------------------------
(* The firmware and the command bus.                                       *)

RlAccepted == rlFw' = [rlFw EXCEPT ![rlCommand.to] = rlCommand.value]

\* Programmer::event(): the next command of the plan, or its completion.
RlTableAnsweredEarly ==
    /\ rlPlan' = Tail(rlPlan) /\ rlDone' = rlDone \cup {"table"}
    /\ rlCommand' = IF Len(rlPlan) = 1 THEN RlNoCommand ELSE rlPlan[2]

RlTableAnswered ==
    /\ rlPlan' = Tail(rlPlan)
    /\ rlCommand' = IF Len(rlPlan) = 1 THEN RlNoCommand ELSE rlPlan[2]
    /\ rlDone' = IF Len(rlPlan) = 1 THEN rlDone \cup {"table"} ELSE rlDone

\* The event of an acknowledged command goes to the lease or the programmer.
RlAnswers ==
    /\ RlGateFree /\ rlCommand # RlNoCommand /\ "bus" \in rlHealthy
    /\ RlAccepted
    /\ \/ /\ rlCommand.to = "policy"
          /\ rlStage' = IF rlMask # "none" THEN "fault" ELSE IF rlStage = "waitingStartAck" THEN "calibrating" ELSE "restore"
          /\ rlCommand' = RlNoCommand /\ UNCHANGED <<rlPlan, rlDone>>
       \/ /\ rlCommand.to = "edca"
          /\ rlDone' = rlDone \cup {"edca"} /\ rlCommand' = RlNoCommand /\ UNCHANGED <<rlStage, rlPlan>>
       \/ /\ rlCommand.to \in {"cam", "cmac"} /\ RlTableAnswered /\ UNCHANGED rlStage
    /\ rlHealthy' = IF rlStage' = "fault" THEN rlHealthy \ {"bus"} ELSE rlHealthy
    /\ UNCHANGED <<rlBt, rlBtSees, rlPublished, rlHeld, rlGrants, rlMask, rlBody, rlEmitting, rlBoot, rlSeq, rlRun, rlFlags,
                   rlRfk, rlTarget, rlHw, rlAction, rlPhase, rlChannel, rlIo, rlClosure, rlStation>>

\* The bus keeps no deadline: an answer that is lost is waited for.
RlNotAnsweredEver ==
    /\ RlGateFree /\ rlCommand # RlNoCommand /\ rlCommand' = RlNoCommand
    /\ UNCHANGED <<rlBt, rlBtSees, rlPublished, rlStage, rlHeld, rlGrants, rlFw, rlMask, rlBody, rlEmitting, radioVars>>

\* A rejection, or a deadline without an answer, costs the bus; an unanswered
\* command, and one whose bus is gone, may still take effect.
RlNotAnswered ==
    /\ RlGateFree /\ rlCommand # RlNoCommand
    /\ \/ /\ "bus" \in rlHealthy /\ rlHealthy' = rlHealthy \ {"bus"} /\ rlFw' = rlFw
          /\ rlCommand' \in {rlCommand, RlNoCommand}
          /\ rlStage' = IF rlCommand' = RlNoCommand /\ rlCommand.to = "policy" THEN "fault" ELSE rlStage
       \/ /\ "bus" \notin rlHealthy /\ RlAccepted /\ rlCommand' = RlNoCommand /\ UNCHANGED <<rlHealthy, rlStage>>
    /\ UNCHANGED <<rlBt, rlBtSees, rlPublished, rlHeld, rlGrants, rlMask, rlBody, rlEmitting, rlBoot, rlSeq, rlRun, rlFlags,
                   rlRfk, rlTarget, rlHw, rlAction, rlPhase, rlPlan, rlDone, rlChannel, rlIo, rlClosure, rlStation>>

-----------------------------------------------------------------------------
\* BootService::stop(): it succeeds only if the radio is proven closed.
RlStop ==
    /\ RlGateFree /\ rlBoot # "stopped" /\ rlSeq # "stopped"
    /\ rlSeq' = "stopped" /\ rlFlags' = rlFlags \ {"tuned", "full"} /\ rlAction' = RlNoAction /\ rlChannel' = 0
    /\ RlFailed(rlBody) /\ RlRetain
    /\ rlBoot' = IF rlClosure' \/ rlBoot = "configuration" THEN "stopped" ELSE rlBoot
    /\ UNCHANGED <<rlBt, rlBtSees, rlGrants, rlFw, rlCommand, rlBody, rlRun, rlRfk, rlTarget, rlHw, rlPhase, rlPlan, rlDone, rlIo,
                   rlStation>>

RlProgress ==
    \/ RlLeaseStep /\ UNCHANGED radioVars
    \/ RlBeginFails \/ RlBeginRadio \/ RlUpload \/ RlBtInitialized \/ RlPollLease \/ RlRunBegins \/ RlRunEnds
    \/ RlPollRestore \/ RlServiceFails
    \/ RlPortBegins \/ RlActionTunes \/ RlPortDone \/ RlTablesBegin \/ RlTablesDone \/ RlTuned

RlNext ==
    \/ RlBluetooth /\ UNCHANGED radioVars
    \/ RlProgress \/ RlRunFails \/ RlRestoreFails \/ RlActionFails \/ RlAnswers \/ RlNotAnswered \/ RlStop
    \/ \E mask \in {"none", "management", "all"} : RlSetTraffic(mask)
    \/ \E request \in RlRequests : RlBeginAction(request)

\* A phase that needs the scheduler closed fails when a caller has opened it.
RlRefused ==
    /\ \/ RlServiceAction({"prepareInterface", "associationCmac", "disconnectCmac"}, rlPhase) /\ rlPhase < 2
       \/ RlServiceAction({"scanBegin"}, 0) \/ RlServiceAction({"scanEnd"}, 1)
    /\ rlMask # "none" /\ RlActionFails

\* What is assumed to go on: the work loop polls, and its calls are bounded (a
\* begin() that Bluetooth keeps waiting fails, a sequence has a deadline); a
\* command is answered or overdue; a word is delivered within its delay.
\* Nothing else is asked of Bluetooth and the firmware, no other failure is fair.
RlPolls == RlProgress \/ RlRefused
RlCommandEnds == RlAnswers \/ RlNotAnswered
RlWordDelivered == RlBtIsTold /\ RlBluetooth /\ UNCHANGED radioVars

-----------------------------------------------------------------------------
\* Transmission is open only on a channel the hardware is programmed to and
\* calibrated for: data needs the transmit calibrations of this very channel,
\* management frames at least the scan calibration; never under a lease.
RlTrafficCalibrated ==
    LET full == RlTx \subseteq rlRfk.ok /\ rlRfk.iq = rlHw /\ ~rlRfk.active
    IN /\ rlMask # "none" => rlBody = "idle" /\ ~rlHeld
       /\ rlMask = "all" => full
       /\ rlMask = "management" => full \/ (rlRfk.active /\ "scan" \in rlRfk.ok /\ rlRfk.scan = rlHw)

\* No calibration is refused for want of what it builds on.  At the end of a
\* scan this means that the home the station names is the channel whose
\* calibration rfk::Initialization set aside when the scan began.
RlNeverRefused == rlSeq = "run" => RlRunnable(RlCurrent)

\* A stop that reports success leaves nothing running: the scheduler is closed,
\* no test transmission is on and no calibration engine is unaccounted for.
RlStoppedQuiet == rlBoot = "stopped" => rlMask = "none" /\ rlBody = "idle" /\ ~rlEmitting

\* An action is reported complete when it is: its tables and EDCA parameters
\* applied by the firmware for this peer, the hardware on its channel.
RlCompletedWhole ==
    [][rlAction # RlNoAction /\ rlAction' = RlNoAction /\ rlBoot' = "ready" /\ rlSeq' = "ready" =>
        /\ \A i \in 1..Len(RlTables) : rlFw[RlTables[i].to] = RlTables[i].value
        /\ rlAction.action = "associationCmac" => rlFw.edca = RlEdca.value
        /\ rlAction.action \in {"prepareInterface", "prepareAuthentication", "scanTune", "scanRestore"} =>
              rlHw = rlAction.channel /\ rlChannel' = rlHw]_rlVars

\* Whatever the firmware, Bluetooth and the hardware do, an accepted action
\* ends: it completes or the boot service fails.
RlActionEnds == (rlAction # RlNoAction) ~> (rlAction = RlNoAction)
=============================================================================
