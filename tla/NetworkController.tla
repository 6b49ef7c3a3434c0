--------------------------- MODULE NetworkController ---------------------------
(***************************************************************************)
(* MacNetworkState (network/MacNetworkController.cpp): the object between  *)
(* net80211, the station controller, the boot service and the data rings.  *)
(* Everything runs on one work loop, so each handler, poll() included, is  *)
(* one step; the difficulty is what one handler leaves pending for another.*)
(*                                                                         *)
(* A handler is a chain of operators from states to states, each doing     *)
(* nothing once the controller has failed, as the early returns do.  The   *)
(* station is StationController.hpp without its clock: only the states,    *)
(* the requests it has pending and its calls to this object.  Its tokens   *)
(* are left to module StationController, requested scans to ForegroundScan *)
(* and the frames' buffers to TxQueue; net80211 is external.               *)
(***************************************************************************)
EXTENDS Naturals, FiniteSets

CONSTANT NetSelections    \* bound on the networks selected

ASSUME NetAssumption == NetSelections \in Nat

VARIABLE net              \* the state, a record

netVars == <<net>>

NetActionStates ==
    {"preparing", "installingIdle", "scanningBegin", "scanningTune", "scanningRestore",
     "scanningEnd", "preparingAuthentication", "installingAssociationCmac",
     "installingAssociationCam", "disconnectingCmac", "disconnectingCam"}
NetCommandStates == {"creatingRole", "initialNoLink", "joining", "disconnecting"}
NetScanning == {"scanningBegin", "scanningTune", "scanningDwell", "scanningRestore", "scanningEnd"}
NetNoRole == {"stopped", "preparing", "creatingRole", "initialNoLink", "installingIdle"}

NetInit ==
    net = [station |-> "stopped", disconnect |-> FALSE, cancelled |-> FALSE,
           authenticated |-> FALSE,                          \* the station
           traffic |-> "none", scheduler |-> "none",         \* admission, and the device's
           action |-> "none",                                \* none, deferred, running, complete
           out |-> {}, held |-> FALSE,                       \* published frames, pendingTx
           ic |-> "INIT", queued |-> FALSE, port |-> FALSE,  \* net80211: ic_state, ic_mgtq, ni_port_valid
           reset |-> FALSE, deferred |-> "none", auth |-> FALSE, probe |-> FALSE,
           run |-> FALSE, scanDone |-> FALSE,                \* what poll() has pending
           selected |-> 0, waiting |-> 0, selections |-> 0,  \* networks: installed, pending
           credentials |-> FALSE, rsn |-> FALSE,
           enabled |-> FALSE, link |-> FALSE, fault |-> "none"]

----------------------------------------------------------------------------
(* What the station asks of this object                                    *)

\* fail(): why tells a failure of the device from a check of the driver's own.
NetFail(s, why) ==
    IF s.fault # "none" THEN s
    ELSE [s EXCEPT !.fault = why, !.traffic = "none", !.enabled = FALSE, !.link = FALSE,
                   !.waiting = 0]

NetDrained(s) == s.out = {} /\ ~s.held

\* Admission that is closed without telling the interface.
NetSetTrafficKeepsLink(s, t) ==
    IF s.fault # "none" THEN s
    ELSE IF t = "none"
    THEN LET u == [s EXCEPT !.traffic = t, !.held = FALSE]
         IN  IF u.action # "none" \/ ~NetDrained(u) THEN u ELSE [u EXCEPT !.scheduler = t]
    ELSE IF s.action # "none" THEN NetFail(s, "driver")
    ELSE [s EXCEPT !.traffic = t, !.scheduler = t, !.held = @ /\ t = "authorized"]

\* setTraffic(): none stops admission, and the device's scheduler only once
\* nothing is on its way; anything else is refused while an action is under way.
NetSetTraffic(s, t) ==
    IF s.fault # "none" THEN s
    ELSE IF t = "none"
    THEN LET u == [s EXCEPT !.traffic = t, !.held = FALSE, !.link = FALSE]
         IN  IF u.action # "none" \/ ~NetDrained(u) THEN u ELSE [u EXCEPT !.scheduler = t]
    ELSE IF s.action # "none" THEN NetFail(s, "driver")
    ELSE [s EXCEPT !.traffic = t, !.scheduler = t,
                   !.held = @ /\ t = "authorized", !.link = @ /\ t = "authorized"]

\* Station action(): enters the state and calls beginAction().
NetBeginAction(s, state) ==
    IF s.fault # "none" THEN s
    ELSE IF s.action # "none" THEN NetFail(s, "driver")
    ELSE [s EXCEPT !.station = state, !.traffic = "none", !.held = FALSE, !.action = "deferred"]

NetCommand(s, state) == IF s.fault # "none" THEN s ELSE [s EXCEPT !.station = state]

\* net80211 is not told.
NetCancelSilently(s) ==
    IF s.fault # "none" THEN s
    ELSE [s EXCEPT !.auth = FALSE, !.probe = FALSE, !.run = FALSE]

NetCancelProtocol(s) ==
    IF s.fault # "none" THEN s
    ELSE [s EXCEPT !.auth = FALSE, !.probe = FALSE, !.run = FALSE, !.reset = TRUE]

NetBeginDisconnect(s) ==
    NetBeginAction(NetCancelProtocol(NetSetTraffic(s, "none")), "disconnectingCmac")

NetRestoreScan(s) == NetBeginAction(NetSetTraffic(s, "none"), "scanningRestore")

----------------------------------------------------------------------------
(* Entry points of the station                                             *)

\* A disconnect that does not wait for the work under way.
NetDisconnectAtOnce(s) ==
    IF s.fault # "none" \/ s.station \in NetNoRole \cup {"idle"} THEN s
    ELSE IF s.station \in NetScanning THEN NetRestoreScan([s EXCEPT !.cancelled = TRUE])
    ELSE NetBeginDisconnect(NetSetTraffic([s EXCEPT !.disconnect = TRUE], "none"))

\* disconnect() before there is a role returns false and does nothing.
NetDisconnect(s) ==
    IF s.fault # "none" \/ s.station \in NetNoRole \cup {"idle"} THEN s
    ELSE IF s.station \in NetScanning
    THEN LET u == [s EXCEPT !.cancelled = TRUE]
         IN  IF s.station = "scanningDwell" THEN NetRestoreScan(u) ELSE u
    ELSE LET u == NetSetTraffic([s EXCEPT !.disconnect = TRUE], "none")
         IN  IF s.station \in NetActionStates \cup NetCommandStates THEN u
             ELSE NetBeginDisconnect(u)

NetScan(s) ==
    NetBeginAction(NetSetTraffic([s EXCEPT !.cancelled = FALSE], "none"), "scanningBegin")

NetConnect(s) ==
    NetBeginAction(NetSetTraffic([s EXCEPT !.authenticated = FALSE], "none"),
                   "preparingAuthentication")

\* Entering a state with its traffic, then the callback the station makes.
NetEnter(s, state, traffic) == NetSetTraffic([s EXCEPT !.station = state], traffic)

NetOrDisconnect(s, otherwise) == IF s.disconnect THEN NetBeginDisconnect(s) ELSE otherwise

\* actionComplete(); active is whether the scanned channel is probed.
NetActionComplete(s, active) ==
    CASE s.station = "preparing" -> NetCommand(s, "creatingRole")
      [] s.station = "installingIdle" -> NetEnter(s, "idle", "management")
      [] s.station = "scanningBegin" ->
            IF s.cancelled THEN NetRestoreScan(s)
            ELSE NetBeginAction(NetSetTraffic(s, "none"), "scanningTune")
      [] s.station = "scanningTune" ->
            IF s.cancelled THEN NetRestoreScan(s)
            ELSE LET u == NetEnter(s, "scanningDwell", IF active THEN "scanProbe" ELSE "none")
                 IN  [u EXCEPT !.probe = @ \/ active]
      [] s.station = "scanningRestore" -> NetBeginAction(s, "scanningEnd")
      [] s.station = "scanningEnd" ->       \* completeScan() and scanFinished()
            LET u == NetEnter(s, "idle", "management")
            IN  [u EXCEPT !.scanDone = @ \/ (~s.cancelled /\ s.ic = "SCAN")]
      [] s.station = "preparingAuthentication" ->
            NetOrDisconnect(s, [NetEnter(s, "authenticating", "management") EXCEPT !.auth = TRUE])
      [] s.station = "installingAssociationCmac" -> NetOrDisconnect(s, NetCommand(s, "joining"))
      [] s.station = "installingAssociationCam" ->
            NetOrDisconnect(s, NetEnter(s, "associated", "controlledPort"))
      [] s.station = "disconnectingCmac" -> NetCommand(s, "disconnecting")
      [] s.station = "disconnectingCam" ->
            NetEnter([s EXCEPT !.disconnect = FALSE, !.authenticated = FALSE], "idle", "management")
      [] OTHER -> NetFail(s, "driver")

\* firmwareEvent() with the answer to the command under way.
NetFirmwareEvent(s) ==
    CASE s.station = "creatingRole" -> NetCommand(s, "initialNoLink")
      [] s.station = "initialNoLink" -> NetBeginAction(s, "installingIdle")
      [] s.station = "joining" -> NetOrDisconnect(s, NetBeginAction(s, "installingAssociationCam"))
      [] s.station = "disconnecting" -> NetBeginAction(s, "disconnectingCam")

\* tick() when the time of a dwell, or of an authentication, is up.
NetTick(s) ==
    CASE s.station = "scanningDwell" -> NetRestoreScan(s)
      [] s.station = "authenticating" -> NetBeginDisconnect([s EXCEPT !.disconnect = TRUE])
      [] OTHER -> s

----------------------------------------------------------------------------
(* net80211's state machine: savedState is its own, newState() the hook    *)

\* Everything queued is purged and the port closes.
NetSavedInit(s) == [s EXCEPT !.ic = "INIT", !.queued = FALSE, !.port = FALSE]

NetDefer(s, state) == NetDisconnect([s EXCEPT !.deferred = state])

NetUp(s) == s.fault = "none" /\ s.enabled /\ s.station # "stopped" /\ s.waiting = 0

\* From SCAN a probe request; from any other state a scan begins, through newState().
NetSavedScan(s) ==
    IF s.ic = "SCAN" THEN [s EXCEPT !.queued = TRUE]
    ELSE LET u == [s EXCEPT !.ic = "SCAN", !.port = FALSE]
         IN  IF ~NetUp(s) THEN u
             ELSE IF s.station = "idle" THEN NetScan(u) ELSE NetDefer(u, "SCAN")

NetNewScan(s) ==
    IF ~NetUp(s) THEN s
    ELSE IF s.station # "idle" THEN NetDefer(s, "SCAN")
    ELSE IF s.ic # "SCAN" THEN NetSavedScan(s) ELSE NetScan(s)

NetNewInit(s) == IF s.fault # "none" THEN s ELSE NetDefer(s, "INIT")

NetNewAuth(s) ==
    IF ~NetUp(s) THEN s
    ELSE IF s.station # "idle" THEN NetDefer(s, "SCAN") ELSE NetConnect(s)

\* After an authentication response, or a disassociation.
NetNewAssoc(s, response) ==
    IF ~NetUp(s) THEN s
    ELSE IF s.ic = "RUN" THEN NetDefer(s, "SCAN")
    ELSE IF response /\ s.ic = "AUTH" /\ s.station = "authenticating"
    THEN [s EXCEPT !.authenticated = TRUE, !.ic = "ASSOC", !.queued = TRUE]
    ELSE s

NetNewRun(s) ==
    IF NetUp(s) /\ s.ic = "ASSOC" /\ s.station = "authenticating" /\ s.authenticated
    THEN [NetBeginAction(s, "installingAssociationCmac") EXCEPT !.run = TRUE]
    ELSE s

----------------------------------------------------------------------------
(* pumpTx()                                                                *)

\* Frames net80211 has to send: management frames, data in RUN.
NetHasFrame(s) == s.held \/ s.queued \/ s.ic = "RUN"

\* Publishes a frame, or holds it when its ring is full.
NetPumpTx(s, full) ==
    IF s.fault # "none" \/ s.action # "none" \/ ~s.enabled \/ s.traffic = "none" \/ ~NetHasFrame(s)
    THEN s
    ELSE IF full /\ s.out # {} THEN [s EXCEPT !.held = TRUE, !.queued = FALSE]
    ELSE [s EXCEPT !.held = FALSE, !.queued = FALSE, !.out = @ \cup {s.selected}]

----------------------------------------------------------------------------
(* poll(), in its order                                                    *)

\* An action that starts with frames still on their way.
NetStartActionEarly(s) ==
    IF s.fault # "none" \/ s.action # "deferred" THEN s
    ELSE [s EXCEPT !.scheduler = "none", !.action = "running"]

NetStartAction(s) ==
    IF s.fault # "none" \/ s.action # "deferred" \/ ~NetDrained(s) THEN s
    ELSE [s EXCEPT !.scheduler = "none", !.action = "running"]

\* The boot service may complete the action; it is ready when the station starts.
NetBootService(s, done) ==
    IF s.fault # "none" THEN s
    ELSE IF s.station = "stopped" THEN (IF done THEN NetBeginAction(s, "preparing") ELSE s)
    ELSE IF s.action = "running" /\ done THEN [s EXCEPT !.action = "complete"] ELSE s

NetCompletions(s, active) ==
    IF s.fault # "none" \/ s.action # "complete" THEN s
    ELSE NetActionComplete([s EXCEPT !.action = "none"], active)

NetTicked(s, late) == IF s.fault = "none" /\ late THEN NetTick(s) ELSE s

NetReset(s) ==
    IF s.fault = "none" /\ s.reset /\ NetDrained(s) THEN NetSavedInit([s EXCEPT !.reset = FALSE])
    ELSE s

\* Mutant: a deferred state that is not forgotten once entered.
NetDeferredKept(s) ==
    IF s.fault # "none" \/ s.deferred = "none" \/ s.reset \/ ~NetDrained(s) \/ s.station # "idle"
    THEN s
    ELSE IF s.deferred = "INIT" THEN NetSavedInit(s) ELSE NetNewScan([s EXCEPT !.deferred = "none"])

NetDeferred(s) ==
    IF s.fault # "none" \/ s.deferred = "none" \/ s.reset \/ ~NetDrained(s) \/ s.station # "idle"
    THEN s
    ELSE LET u == [s EXCEPT !.deferred = "none"]
         IN  IF s.deferred = "INIT" THEN NetSavedInit(u) ELSE NetNewScan(u)

NetAuth(s) ==
    IF s.fault = "none" /\ s.auth THEN [s EXCEPT !.auth = FALSE, !.ic = "AUTH", !.queued = TRUE]
    ELSE s

NetProbe(s) ==
    IF s.fault = "none" /\ s.probe THEN NetSavedScan([s EXCEPT !.probe = FALSE]) ELSE s

\* ieee80211_next_scan(): another channel, or an access point was found.
NetScanDone(s, found) ==
    IF s.fault # "none" \/ ~s.scanDone THEN s
    ELSE LET u == [s EXCEPT !.scanDone = FALSE] IN IF found THEN NetNewAuth(u) ELSE NetNewScan(u)

\* Pending::take() and the installation of the network.
NetApplySelection(s, rsn) ==
    IF \/ s.fault # "none" \/ s.waiting = 0 \/ s.station # "idle" \/ s.ic # "INIT"
       \/ ~NetDrained(s) \/ s.action # "none" \/ s.deferred # "none" \/ s.reset
    THEN s
    ELSE [s EXCEPT !.selected = s.waiting, !.waiting = 0, !.credentials = TRUE, !.rsn = rsn]

NetRun(s) ==
    IF s.fault = "none" /\ s.run /\ s.station = "associated"
    THEN [s EXCEPT !.run = FALSE, !.ic = "RUN"] ELSE s

NetAutoScan(s) ==
    IF /\ s.fault = "none" /\ s.enabled /\ s.credentials /\ s.station = "idle"
       /\ s.ic = "INIT" /\ s.deferred = "none"
    THEN NetNewScan(s) ELSE s

NetAuthorize(s) ==
    IF /\ s.fault = "none" /\ s.ic = "RUN" /\ s.station = "associated" /\ (s.rsn => s.port)
    THEN LET u == NetSetTraffic([s EXCEPT !.station = "authorized"], "authorized")
         IN  [u EXCEPT !.link = u.traffic = "authorized"]
    ELSE s

NetRevoke(s) ==
    IF s.fault = "none" /\ s.station = "authorized" /\ s.rsn /\ ~s.port
    THEN NetEnter(s, "associated", "controlledPort") ELSE s

\* ieee80211_watchdog(): no answer to an authentication or association.
NetWatchdog(s, silent) == IF silent /\ s.ic \in {"AUTH", "ASSOC"} THEN NetNewScan(s) ELSE s

\* yes answers whichever question the outside is asked in this poll: is the channel
\* probed, was an access point found, is the network protected, is it silent.  No poll
\* asks two of them.
NetPollWith(late, done) ==
    /\ net.fault = "none"
    /\ \E yes, full \in BOOLEAN :
       \E a \in {NetStartAction(NetTicked(net, late))} :
       \E b \in {NetCompletions(NetBootService(a, done), yes)} :
       \E c \in {NetDeferred(NetReset(NetTicked(b, late)))} :
       \E d \in {NetScanDone(NetProbe(NetAuth(c)), yes)} :
       \E e \in {NetAutoScan(NetRun(NetApplySelection(d, yes)))} :
       \E f \in {NetWatchdog(NetRevoke(NetAuthorize(e)), yes)} :
          net' = NetPumpTx(f, full)

NetPoll == \E late, done \in BOOLEAN : NetPollWith(late, done)

----------------------------------------------------------------------------
(* Interrupts: completed frames, firmware answers, received frames         *)

NetFrameCompletes ==
    \E n \in net.out, full \in BOOLEAN : net' = NetPumpTx([net EXCEPT !.out = @ \ {n}], full)

NetFirmwareAnswers ==
    /\ net.fault = "none" /\ net.station \in NetCommandStates
    /\ \E full \in BOOLEAN : net' = NetPumpTx(NetFirmwareEvent(net), full)

\* receiveData() and deliver(): nothing while an action is under way.
NetReceives ==
    /\ net.fault = "none" /\ net.enabled /\ net.action = "none"
    /\ \E full \in BOOLEAN, s \in
          {NetNewAssoc(net, TRUE), NetNewRun(net),              \* responses
           NetNewAssoc(net, FALSE), NetNewAuth(net)} :          \* disassociated, deauthenticated
          net' = NetPumpTx(s, full)

\* The four-way handshake ends, or the keys are removed.
NetPortChanges ==
    /\ net.fault = "none" /\ net.enabled /\ net.action = "none"
    /\ net.ic = "RUN" /\ net.rsn
    /\ net' = [net EXCEPT !.port = ~@]

----------------------------------------------------------------------------
(* Calls from outside                                                      *)

\* Mutant: the new network is installed from the call itself.
NetQueuedInstalls(s, network) ==
    LET u == NetDisconnect(s)
    IN  IF u.fault # "none" \/ s.station \in NetNoRole THEN s
        ELSE [u EXCEPT !.selected = IF network = 0 THEN @ ELSE network, !.credentials = network # 0,
                       !.deferred = "INIT", !.auth = FALSE, !.probe = FALSE, !.run = FALSE,
                       !.scanDone = FALSE, !.link = FALSE]

\* queueSelection(): a network, or none.
NetQueued(s, network) ==
    LET u == NetDisconnect([s EXCEPT !.waiting = network])
    IN  IF u.fault # "none" THEN u
        ELSE IF s.station \in NetNoRole THEN [s EXCEPT !.waiting = 0]
        ELSE [u EXCEPT !.credentials = FALSE, !.deferred = "INIT", !.auth = FALSE,
                       !.probe = FALSE, !.run = FALSE, !.scanDone = FALSE, !.link = FALSE]

NetSelect ==
    /\ net.fault = "none" /\ net.enabled /\ net.station # "stopped"
    /\ \/ /\ net.waiting = 0 /\ net.selections < NetSelections
          /\ net' = NetQueued([net EXCEPT !.selections = @ + 1], net.selections + 1)
       \/ net' = NetQueued(net, 0)

NetEnable ==
    /\ net.fault = "none" /\ ~net.enabled
    /\ net' = [net EXCEPT !.enabled = TRUE]

NetDisable ==
    /\ net.fault = "none" /\ net.enabled
    /\ net' = [NetDefer([net EXCEPT !.enabled = FALSE, !.waiting = 0], "INIT")
                 EXCEPT !.link = FALSE]

\* Anything the device refuses, and any deadline of an action or a command.
NetHardwareFails == net.fault = "none" /\ net' = NetFail(net, "device")

NetNext ==
    \/ NetPoll \/ NetFrameCompletes \/ NetFirmwareAnswers \/ NetReceives \/ NetPortChanges
    \/ NetSelect \/ NetEnable \/ NetDisable \/ NetHardwareFails

\* What is assumed to go on: the timer runs, with time passing and the boot
\* service making progress; the firmware answers; published frames complete.
NetPolls == NetPollWith(TRUE, TRUE)

----------------------------------------------------------------------------
(* Properties                                                              *)

\* A hardware action retunes the radio and rewrites its tables: while the boot
\* service works on one, no frame is held or on its way and neither side admits any
\* (poll() starts it, beginAction() and setTraffic() prepare it).
NetActionAlone ==
    net.action \in {"running", "complete"} =>
        net.out = {} /\ ~net.held /\ net.traffic = "none" /\ net.scheduler = "none"

\* Frames on their way were made with the keys of the network that is installed;
\* applyPendingSelection() waits for the old ones (the comment in queueSelection()).
NetOldKeysDrained == net.out \subseteq {net.selected}

\* The link is up only for an authorized port in RUN, as every path that leaves
\* either must take it down.
NetLinkMeansPort ==
    net.link => /\ net.traffic = "authorized" /\ net.station = "authorized"
                /\ net.ic = "RUN" /\ net.enabled

\* The device failing is the only way to fail: the driver's own checks (completion
\* context, completion rejected, action refused, traffic refused) never fire.
NetChecksNeverFire == net.fault # "driver"

\* net80211 believes in an association only as long as the station has it, and in a
\* scan only while the station scans or moves on to what was found, unless a reset of
\* net80211 is on its way: neither side is left waiting for the other.
NetProtocolFollowsStation ==
    net.fault = "none" =>
        \/ net.reset
        \/ /\ net.ic = "SCAN" => net.station \in NetScanning \cup {"preparingAuthentication"}
           /\ net.ic = "RUN" => net.station \in {"associated", "authorized"}
           /\ net.ic \in {"AUTH", "ASSOC"} =>
                 net.station \in {"authenticating", "installingAssociationCmac", "joining",
                                  "installingAssociationCam", "associated"}

\* A selected network is installed, given up for another request, or lost to a
\* failure of the device: the drain it waits for always ends.
NetSelectionResolved == net.waiting # 0 ~> net.waiting = 0

================================================================================
