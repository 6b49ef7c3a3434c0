--------------------------- MODULE CalibrationRun ---------------------------
\* One calibration body from the moment its lease is ready until the lease is
\* ended: rfk::Initialization (RfkInitialization.hpp), which runs the ported
\* bodies behind a latch that the first error sets, and MacRfkIo, which owns the
\* lease, the one-shot notification to Bluetooth and the test transmitter.
\* A body is the sequence of the kinds of access it makes; an access fails before
\* or after it reached the device, the lease may be lost and the device may go
\* away at any of them.  How the lease itself is negotiated is in RadioLink.
EXTENDS Naturals, Sequences

VARIABLES rkRun,    \* Initialization: the call, where it is, its latch and its flags
          rkIo,     \* MacRfkIo
          rkLease,  \* the lease as the boot State sees it
          rkDev,    \* the device: a calibration engine, the test transmitter
          rkWhole   \* the bodies whose last run performed every access

rkVars == <<rkRun, rkIo, rkLease, rkDev, rkWhole>>

\* The accesses of each body.  engine starts a calibration in the device that
\* poll waits for; start and stop are the one-shot notification around it; arm
\* and halt bracket the emission of test packets; quality judges the results.
RkPath == <<"start", "write", "engine", "poll", "write", "stop">>
RkBody ==
    [rck   |-> <<"engine", "poll">>,
     dack  |-> <<"write", "engine", "poll", "quality">>,
     rxDc  |-> <<"poll", "engine", "poll">>,
     iqk   |-> <<"poll">> \o RkPath \o RkPath \o <<"quality">>,
     tssi  |-> <<"start", "write", "arm", "emit", "poll", "halt", "write", "quality", "stop">>,
     dpk   |-> <<"poll", "engine", "poll", "quality">>,
     track |-> <<"poll", "write">>,
     scan  |-> <<"write">>]

\* The calls, and the body of each.
RkCalls ==
    [initializeRck |-> "rck", initializeDack |-> "dack", initializeRxDc |-> "rxDc",
     calibrateRxDc |-> "rxDc", calibrateIqOnly |-> "iqk", calibrateTssi |-> "tssi",
     calibrateDpk |-> "dpk", trackDpk |-> "track", beginScan |-> "scan",
     prepareScanChannel |-> "scan", finishScan |-> "scan"]

\* What a call needs of the stage and the flags ...
RkMay(call) ==
    LET f == rkRun.flags IN
    /\ ~rkRun.error
    /\ CASE call = "initializeRck"      -> rkRun.stage = "idle"
         [] call = "initializeDack"     -> rkRun.stage = "rck" /\ "rck" \in f
         [] call = "initializeRxDc"     -> rkRun.stage = "dack" /\ "dack" \in f
         [] call = "calibrateRxDc"      -> rkRun.stage = "complete" /\ "scan" \notin f /\ "rxDc" \in f
         [] call = "calibrateIqOnly"    -> /\ rkRun.stage = "complete" /\ "scan" \notin f
                                           /\ {"prepared", "rxDc"} \subseteq f
         [] call = "calibrateTssi"      -> rkRun.stage = "complete" /\ "scan" \notin f /\ "iqk" \in f
         [] call = "calibrateDpk"       -> /\ rkRun.stage = "complete" /\ "scan" \notin f
                                           /\ {"iqk", "tssi"} \subseteq f
         [] call = "trackDpk"           -> rkRun.stage = "complete" /\ "scan" \notin f /\ "dpk" \in f
         [] call = "beginScan"          -> /\ rkRun.stage = "complete" /\ "scan" \notin f
                                           /\ {"iqk", "tssi"} \subseteq f
         [] OTHER                       -> rkRun.stage = "complete" /\ "scan" \in f

\* ... which flags it takes back before its body runs ...
RkClears(call) ==
    CASE call = "calibrateRxDc"   -> {"rxDc", "prepared", "iqk", "tssi", "dpk"}
      [] call = "calibrateIqOnly" -> {"prepared"}
      [] call = "calibrateTssi"   -> {"tssi", "dpk"}
      [] call \in {"calibrateDpk", "trackDpk"} -> {"dpk"}
      [] call = "beginScan"       -> {"iqk", "tssi", "dpk", "scanReady"}
      [] call \in {"prepareScanChannel", "finishScan"} -> {"scanReady"}
      [] OTHER -> {}

\* ... and the flags after a body that ended well.
RkAdds(call) ==
    CASE call = "initializeRck"   -> rkRun.flags \cup {"rck"}
      [] call = "initializeDack"  -> rkRun.flags \cup {"dack"}
      [] call = "initializeRxDc"  -> rkRun.flags \cup {"rxDc"}
      [] call = "calibrateRxDc"   -> rkRun.flags \cup {"rxDc", "prepared"}
      [] call = "calibrateIqOnly" -> rkRun.flags \cup {"iqk"}
      [] call = "calibrateTssi"   -> rkRun.flags \cup {"tssi"}
      [] call \in {"calibrateDpk", "trackDpk"} -> rkRun.flags \cup {"dpk"}
      [] call = "beginScan"       -> rkRun.flags \cup {"scan", "scanReady"}
      [] call = "prepareScanChannel" -> rkRun.flags \cup {"scanReady"}
      [] OTHER -> (rkRun.flags \ {"scan"}) \cup {"iqk", "tssi"} \cup (IF rkRun.home THEN {"dpk"} ELSE {})

RkStages == [initializeRck |-> "rck", initializeDack |-> "dack"]
RkNoCall == "none"
RkOps == RkBody[RkCalls[rkRun.call]]
RkOp == RkOps[rkRun.pc]

RkInit ==
    /\ rkRun = [call |-> RkNoCall, pc |-> 0, done |-> 0, error |-> FALSE, stage |-> "idle",
                oneshot |-> FALSE, flags |-> {}, home |-> FALSE]
    /\ rkIo = [active |-> FALSE, lost |-> FALSE, modified |-> FALSE, armed |-> FALSE, oneshot |-> FALSE]
    /\ rkLease = [state |-> "none", oneshot |-> FALSE]
    /\ rkDev = [engine |-> FALSE, emitting |-> FALSE, gone |-> FALSE]
    /\ rkWhole = {}

----------------------------------------------------------------------------
(* The call up to its body.                                                *)

\* The sequence has the lease for a call that the flags admit, and makes it.
RkCall(call) ==
    /\ rkRun.call = RkNoCall /\ rkLease.state = "none" /\ RkMay(call)
    /\ rkLease' = [state |-> "ready", oneshot |-> FALSE]
    /\ rkRun' = [rkRun EXCEPT !.call = call, !.pc = 0, !.done = 0, !.stage = RkCalls[call],
                              !.flags = @ \ RkClears(call),
                              !.home = IF call = "beginScan" THEN "dpk" \in rkRun.flags ELSE @]
    /\ rkWhole' = rkWhole \ {RkCalls[call]}
    /\ UNCHANGED <<rkIo, rkDev>>

RkGivesUp(run) == [run EXCEPT !.error = TRUE, !.call = RkNoCall]

\* begin(): cancelled, refused by the owner, without the evidence that firmware,
\* MAC and baseband run and transmission is paused (the lease is then consumed
\* and stays so, as end() of a failure returns it only after recovery), or well.
RkBegin ==
    /\ rkRun.call # RkNoCall /\ rkRun.pc = 0
    /\ \/ rkRun' = RkGivesUp(rkRun) /\ UNCHANGED <<rkIo, rkLease>>
       \/ /\ rkRun' = RkGivesUp(rkRun)
          /\ rkIo' = [rkIo EXCEPT !.active = TRUE] /\ rkLease' = [rkLease EXCEPT !.state = "consumed"]
       \/ /\ ~rkDev.gone /\ ~rkIo.active
          /\ rkIo' = [rkIo EXCEPT !.active = TRUE, !.lost = FALSE]
          /\ rkLease' = [rkLease EXCEPT !.state = "consumed"]
          /\ rkRun' = [rkRun EXCEPT !.pc = 1]
    /\ UNCHANGED <<rkDev, rkWhole>>

----------------------------------------------------------------------------
(* The accesses of the body.                                               *)

RkNow(op) == rkRun.call # RkNoCall /\ rkRun.pc \in 1..Len(RkOps) /\ RkOp = op
RkReaches == ~rkRun.error /\ ~rkDev.gone /\ ~rkIo.lost
RkStep == [rkRun EXCEPT !.pc = @ + 1, !.done = @ + 1]
RkLatches == [rkRun EXCEPT !.pc = @ + 1, !.error = TRUE]

\* After the first error op() and check() refuse every access: the rest of the
\* body runs through without touching the device.
RkSkips ==
    /\ rkRun.call # RkNoCall /\ rkRun.pc \in 1..Len(RkOps) /\ rkRun.error /\ RkOp # "halt"
    /\ rkRun' = [rkRun EXCEPT !.pc = @ + 1]
    /\ UNCHANGED <<rkIo, rkLease, rkDev, rkWhole>>

\* An access that fails: budget, clock or cancellation before anything, the lease
\* found lost, the device gone, or an answer that does not come after the
\* access may have had its effect.
RkAccessFails(dev) ==
    /\ ~rkRun.error /\ rkRun' = RkLatches
    /\ \/ UNCHANGED <<rkIo, rkDev>>
       \/ rkIo' = [rkIo EXCEPT !.lost = TRUE] /\ UNCHANGED rkDev
       \/ /\ RkReaches /\ rkIo' = [rkIo EXCEPT !.modified = TRUE]
          /\ rkDev' \in {rkDev, dev}
    /\ UNCHANGED <<rkLease, rkWhole>>

RkWrites(op, dev) ==
    /\ RkNow(op)
    /\ \/ /\ RkReaches /\ rkRun' = RkStep
          /\ rkIo' = [rkIo EXCEPT !.modified = TRUE] /\ rkDev' = dev
          /\ UNCHANGED <<rkLease, rkWhole>>
       \/ RkAccessFails(dev)

RkWrite == RkWrites("write", rkDev)
RkEngine == RkWrites("engine", [rkDev EXCEPT !.engine = TRUE])
RkEmit == RkWrites("emit", [rkDev EXCEPT !.emitting = TRUE])

\* Mutant: a poll whose time is up goes on.
RkPollGoesOn ==
    /\ RkNow("poll") /\ RkReaches
    /\ \/ rkRun' = RkStep /\ rkDev' = [rkDev EXCEPT !.engine = FALSE]
       \/ rkRun' = [rkRun EXCEPT !.pc = @ + 1] /\ rkDev' = rkDev
    /\ UNCHANGED <<rkIo, rkLease, rkWhole>>

\* poll(): what it waits for came, or the error is latched with it still under way.
RkPoll ==
    /\ RkNow("poll")
    /\ \/ /\ RkReaches /\ rkRun' = RkStep /\ rkDev' = [rkDev EXCEPT !.engine = FALSE]
          /\ UNCHANGED <<rkIo, rkLease, rkWhole>>
       \/ /\ ~rkRun.error /\ rkRun' = RkLatches
          /\ rkIo' \in {rkIo, [rkIo EXCEPT !.lost = TRUE]}
          /\ UNCHANGED <<rkLease, rkDev, rkWhole>>

\* The results the body left behind are good, or the error says they are not.
RkQuality ==
    /\ RkNow("quality") /\ ~rkRun.error /\ rkRun' \in {RkStep, RkLatches}
    /\ UNCHANGED <<rkIo, rkLease, rkDev, rkWhole>>

\* rtw89_btc_ntfy_wl_rfk(): START, for the lease and for MacRfkIo.
RkStart ==
    /\ RkNow("start") /\ ~rkRun.error
    /\ \/ /\ RkReaches /\ ~rkRun.oneshot /\ ~rkIo.oneshot /\ ~rkLease.oneshot
          /\ rkRun' = [RkStep EXCEPT !.oneshot = TRUE]
          /\ rkIo' = [rkIo EXCEPT !.oneshot = TRUE] /\ rkLease' = [rkLease EXCEPT !.oneshot = TRUE]
       \/ rkRun' = RkLatches /\ rkIo' \in {rkIo, [rkIo EXCEPT !.lost = TRUE]} /\ UNCHANGED rkLease
    /\ UNCHANGED <<rkDev, rkWhole>>

\* Mutant: STOP is sent by a body that failed too.
RkStopAlways ==
    /\ RkNow("stop") /\ rkRun.oneshot /\ ~rkIo.armed
    /\ rkRun' = [rkRun EXCEPT !.pc = @ + 1, !.oneshot = FALSE]
    /\ rkIo' = [rkIo EXCEPT !.oneshot = FALSE] /\ rkLease' = [rkLease EXCEPT !.oneshot = FALSE]
    /\ UNCHANGED <<rkDev, rkWhole>>

\* STOP: only of a body without error; a failed one leaves it to end().
RkStop ==
    /\ RkNow("stop") /\ ~rkRun.error
    /\ \/ /\ ~rkIo.armed /\ rkIo.oneshot /\ ~rkIo.lost /\ ~rkDev.gone
          /\ rkRun' = [RkStep EXCEPT !.oneshot = FALSE]
          /\ rkIo' = [rkIo EXCEPT !.oneshot = FALSE] /\ rkLease' = [rkLease EXCEPT !.oneshot = FALSE]
       \/ rkRun' = RkLatches /\ UNCHANGED <<rkIo, rkLease>>
    /\ UNCHANGED <<rkDev, rkWhole>>

\* Mutant: the transmitter is not marked before it is started.
RkArmLate ==
    /\ RkNow("arm") /\ ~rkRun.error /\ rkRun' = RkStep
    /\ UNCHANGED <<rkIo, rkLease, rkDev, rkWhole>>

\* armCalibrationTx().
RkArm ==
    /\ RkNow("arm") /\ ~rkRun.error
    /\ \/ RkReaches /\ ~rkIo.armed /\ rkIo.oneshot /\ rkRun' = RkStep /\ rkIo' = [rkIo EXCEPT !.armed = TRUE]
       \/ rkRun' = RkLatches /\ rkIo' \in {rkIo, [rkIo EXCEPT !.lost = TRUE]}
    /\ UNCHANGED <<rkLease, rkDev, rkWhole>>

\* stopCalibrationTx(), read back; it asks neither the latch nor the lease.
RkHalted ==
    /\ rkIo.armed => ~rkDev.gone
    /\ rkIo' = [rkIo EXCEPT !.armed = FALSE]
    /\ rkDev' = IF rkIo.armed THEN [rkDev EXCEPT !.emitting = FALSE] ELSE rkDev

RkNotHalted ==
    /\ rkIo.armed /\ rkIo' = rkIo
    /\ rkDev' \in {rkDev} \cup (IF rkDev.gone THEN {} ELSE {[rkDev EXCEPT !.emitting = FALSE]})

RkHalt ==
    /\ RkNow("halt")
    /\ \/ RkHalted /\ rkRun' = [rkRun EXCEPT !.pc = @ + 1, !.done = IF rkRun.error THEN @ ELSE @ + 1]
       \/ RkNotHalted /\ rkRun' = RkLatches
    /\ UNCHANGED <<rkLease, rkWhole>>

----------------------------------------------------------------------------
(* end().                                                                  *)

RkAtEnd == rkRun.call # RkNoCall /\ rkRun.pc = Len(RkOps) + 1

\* A body without error, drained, with the lease still good: MacRfkIo ends it and
\* what it was for is ready.
RkEndsWell ==
    /\ RkAtEnd /\ RkReaches /\ rkIo.active /\ ~rkIo.armed /\ ~rkIo.oneshot
    /\ rkIo' = [rkIo EXCEPT !.active = FALSE, !.modified = FALSE]
    /\ rkLease' = [rkLease EXCEPT !.state = "ended"]
    /\ rkRun' = [rkRun EXCEPT !.call = RkNoCall, !.pc = 0, !.oneshot = FALSE, !.flags = RkAdds(rkRun.call),
                     !.stage = IF rkRun.call \in DOMAIN RkStages THEN RkStages[rkRun.call] ELSE "complete"]
    /\ rkWhole' = IF rkRun.done = Len(RkOps) THEN rkWhole \cup {RkCalls[rkRun.call]} ELSE rkWhole
    /\ UNCHANGED rkDev

\* Mutant: whatever happened, the lease goes back.
RkEndsBadlyFreely ==
    /\ RkAtEnd /\ RkHalted
    /\ rkLease' = [state |-> "ended", oneshot |-> FALSE]
    /\ rkRun' = RkGivesUp(rkRun) /\ UNCHANGED rkWhole

\* Otherwise the transmitter is stopped if that can be done, and the lease stays:
\* recovery() proves nothing about an engine cut off half way, and leaseEnd()
\* refuses a failure.
RkEndsBadly ==
    /\ RkAtEnd
    /\ \/ RkHalted \/ RkNotHalted
    /\ \/ rkLease' = rkLease
       \/ /\ rkIo.oneshot /\ ~rkIo.modified /\ ~rkIo.lost /\ ~rkIo'.armed
          /\ rkLease' = [rkLease EXCEPT !.oneshot = FALSE]
    /\ rkRun' = RkGivesUp(rkRun) /\ UNCHANGED rkWhole

\* The sequence restores Bluetooth's policy after the body; finish() refuses a
\* one-shot notification still open.
RkRestored ==
    /\ rkRun.call = RkNoCall /\ rkLease.state = "ended" /\ ~rkLease.oneshot
    /\ rkLease' = [rkLease EXCEPT !.state = "none"]
    /\ UNCHANGED <<rkRun, rkIo, rkDev, rkWhole>>

\* The device disappears from the bus; the engine and the transmitter may go on.
RkVanishes ==
    /\ ~rkDev.gone /\ rkDev' = [rkDev EXCEPT !.gone = TRUE]
    /\ UNCHANGED <<rkRun, rkIo, rkLease, rkWhole>>

RkNext ==
    \/ \E call \in DOMAIN RkCalls : RkCall(call)
    \/ RkBegin \/ RkSkips \/ RkWrite \/ RkEngine \/ RkEmit \/ RkPoll \/ RkQuality
    \/ RkStart \/ RkStop \/ RkArm \/ RkHalt \/ RkEndsWell \/ RkEndsBadly \/ RkRestored \/ RkVanishes

RkSpec == RkInit /\ [][RkNext]_rkVars

----------------------------------------------------------------------------
(* Properties                                                              *)

\* The lease goes back to Bluetooth, and transmission may be resumed, only with
\* no calibration under way in the device, no test packets and no notification open.
RkEndedQuiet ==
    rkLease.state \in {"none", "ended"} => ~rkDev.engine /\ ~rkDev.emitting /\ ~rkLease.oneshot

\* What sends test packets is known to: while the device may emit, the mark that
\* makes end() stop it is set, and Bluetooth has been told.
RkEmissionCovered ==
    rkDev.emitting => rkIo.armed /\ rkIo.active /\ rkIo.oneshot /\ rkLease.oneshot /\ rkLease.state = "consumed"

\* A flag says that the last run of its body made every access and judged its
\* results good, though the ported bodies themselves go on after a timeout.
RkReadyWhole == rkRun.flags \cap (DOMAIN RkBody \ {"scan"}) \subseteq rkWhole

\* Bluetooth is told that a one-shot has stopped only by a body that has not
\* failed, or for one that never touched the device.
RkStopHonest ==
    [][rkLease.oneshot /\ ~rkLease'.oneshot /\ rkLease'.state = "consumed" =>
           ~rkRun.error \/ ~rkIo.modified]_rkVars
=============================================================================
