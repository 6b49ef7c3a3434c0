------------------------- MODULE StationController -------------------------
(***************************************************************************)
(* The station orchestrator of the driver, network/StationController.hpp:  *)
(* interface start and stop, software scanning, authentication and         *)
(* association evidence, firmware Role/Join commands, the controlled port, *)
(* ordered disconnect and the fault latch, together with the parts of the  *)
(* outside world its correctness depends on: the backend that accepts or   *)
(* refuses work, the device that finishes it late, the firmware that       *)
(* answers commands, and the radio.                                        *)
(*                                                                         *)
(* Every entry point runs under one gate, so one action is one call.       *)
(* Times and serial numbers are the code's uint64_t values with UINT64_MAX *)
(* reduced to MaxTime and MaxSerial; the overflow checks are the code's.   *)
(* error_ is left out: no control decision reads it.  Addresses, AIDs and  *)
(* wire bytes are reduced to whether they match what the attempt expects.  *)
(***************************************************************************)
EXTENDS Integers, Sequences, FiniteSets

CONSTANTS
  Channel,                \* channels the radio can be tuned to
  NoChannel,              \* the radio is between channels, or none was set
  Peer,                   \* access points
  NoPeer,
  PeerChannel,            \* the channel each access point is on
  Plan,                   \* scan plans a caller may ask for
  ActionTimeout, CommandTimeout, AuthenticationTimeout,
  MaxTime,                \* stands for UINT64_MAX microseconds
  MaxSerial,              \* stands for UINT64_MAX operations
  MaxEpoch,               \* bound: firmware incarnations
  SequenceCount,          \* H2C sequence numbers, 256 in the code
  Refusals,               \* backend calls that may report failure
  MaxDuplicates           \* bound: completions kept for a second delivery

BackendCall == {"setTraffic", "reserveH2cSequence", "publishH2c",
                "beginAction", "beginAuthentication", "sendProbe",
                "cancelProtocol"}

ScanChannel == [channel : Channel, dwell : Nat \ {0}, active : BOOLEAN]

ASSUME ConstantsAssumption ==
  /\ NoChannel \notin Channel
  /\ NoPeer \notin Peer
  /\ PeerChannel \in [Peer -> Channel]
  /\ Plan \subseteq Seq(ScanChannel) /\ <<>> \notin Plan
  /\ ActionTimeout \in Nat \ {0}
  /\ CommandTimeout \in Nat \ {0}
  /\ AuthenticationTimeout \in Nat \ {0}
  /\ MaxTime \in Nat /\ MaxSerial \in Nat /\ MaxEpoch \in Nat
  /\ SequenceCount \in Nat \ {0}
  /\ Refusals \subseteq BackendCall
  /\ MaxDuplicates \in Nat

VARIABLES
  \* What the controller remembers about the operation in progress.
  state, serial, pendingToken, pendingAction, pendingOrder, pendingSequence,
  waitingAction, waitingCommand, lastNow, deadline,
  \* The scan in progress; channelIndex counts from 1.
  scanToken, scanResume, channels, channelIndex, scanDeadline, scanCancelled,
  \* The association attempt or link; home is interface_.home.
  associationToken, peer, home, authenticated, disconnectRequested,
  \* The interface and the firmware incarnation.
  epoch, roleCreated,
  \* Backend, device, firmware and radio.
  mode,                   \* host TX admission set through setTraffic
  requests, completions,  \* accepted actions; their queued callbacks
  attempts,               \* tokens handed to beginAuthentication
  h2c, nextSequence,      \* published commands; the bus's next sequence
  acks,                   \* C2H acknowledgements not yet dispatched
  firmware, radio,
  portOpen                \* history: the last accepted port notification

pendingVars == <<serial, pendingToken, pendingAction, pendingOrder,
                 pendingSequence>>
engineVars  == <<state, pendingVars, waitingAction, waitingCommand, deadline,
                 mode, requests, h2c, nextSequence, radio>>
scanPlan    == <<scanToken, channels, scanDeadline>>
scanVars    == <<scanPlan, scanResume, channelIndex, scanCancelled>>
attemptVars == <<associationToken, peer, authenticated>>
linkVars    == <<attemptVars, home, disconnectRequested, portOpen>>
deviceVars  == <<completions, attempts, acks, firmware>>
stableVars  == <<epoch, roleCreated, deviceVars>>
vars        == <<engineVars, lastNow, scanVars, linkVars, stableVars>>

----------------------------------------------------------------------------
(* Types. *)

Time     == 0 .. MaxTime
Token    == [epoch : 0 .. MaxEpoch, operation : 0 .. MaxSerial]
NoToken  == [epoch |-> 0, operation |-> 0]
Traffic  == {"none", "management", "scanProbe", "controlledPort",
             "authorized"}
Sequence == 0 .. SequenceCount - 1

\* The Action enumeration, and the action each waiting state waits for.
ActionOf ==
  [preparing                 |-> "prepareInterface",
   installingIdle            |-> "idleTables",
   scanningBegin             |-> "scanBegin",
   scanningTune              |-> "scanTune",
   scanningRestore           |-> "scanRestore",
   scanningEnd               |-> "scanEnd",
   preparingAuthentication   |-> "prepareAuthentication",
   installingAssociationCmac |-> "associationCmac",
   installingAssociationCam  |-> "associationCam",
   disconnectingCmac         |-> "disconnectCmac",
   disconnectingCam          |-> "disconnectCam",
   removingCam               |-> "removeCam"]
Action == {ActionOf[s] : s \in DOMAIN ActionOf}

\* The two H2C commands in the four forms the controller encodes, and the
\* form each waiting state waits for.
OrderOf ==
  [creatingRole  |-> "createRole",
   initialNoLink |-> "leave",
   joining       |-> "join",
   disconnecting |-> "leave",
   removingRole  |-> "removeRole"]
Order == {"createRole", "removeRole", "join", "leave"}
\* The wire identity an ACK carries: it does not tell the two forms apart.
CommandId(order) == IF order \in {"createRole", "removeRole"} THEN "role"
                                                              ELSE "join"

ScanState == {"scanningBegin", "scanningTune", "scanningDwell",
              "scanningRestore", "scanningEnd"}
LinkState == {"preparingAuthentication", "authenticating",
              "installingAssociationCmac", "joining",
              "installingAssociationCam", "associated", "authorized",
              "disconnectingCmac", "disconnecting", "disconnectingCam"}
State == {"stopped", "preparing", "creatingRole", "initialNoLink",
          "installingIdle", "idle", "removingRole", "removingCam", "faulted"}
         \cup ScanState \cup LinkState

Request    == [token : Token, action : Action,
               channel : Channel \cup {NoChannel}]
Completion == [token : Token, action : Action, success : BOOLEAN]
Command    == [epoch : 0 .. MaxEpoch, sequence : Sequence, order : Order]
Ack        == [epoch : 0 .. MaxEpoch, sequence : Sequence,
               command : {"role", "join"}, done : BOOLEAN, ok : BOOLEAN]

\* The types, group by group as the variables are grouped above.
EngineOK ==
  /\ state \in State
  /\ serial \in 0 .. MaxSerial
  /\ pendingToken \in Token
  /\ pendingAction \in Action
  /\ pendingOrder \in Order
  /\ pendingSequence \in Sequence
  /\ waitingAction \in BOOLEAN /\ waitingCommand \in BOOLEAN
  /\ deadline \in Time
  /\ mode \in Traffic
  /\ requests \subseteq Request
  /\ h2c \subseteq Command
  /\ nextSequence \in Sequence
  /\ radio \in Channel \cup {NoChannel}

ScanOK ==
  /\ scanToken \in Token
  /\ scanResume \in {"idle", "associated", "authorized"}
  /\ channels \in Plan \cup {<<>>}
  /\ channelIndex \in Nat \ {0}
  /\ scanDeadline \in Time
  /\ scanCancelled \in BOOLEAN

LinkOK ==
  /\ associationToken \in Token
  /\ peer \in Peer \cup {NoPeer}
  /\ home \in Channel \cup {NoChannel}
  /\ authenticated \in BOOLEAN /\ disconnectRequested \in BOOLEAN
  /\ portOpen \in BOOLEAN

StableOK ==
  /\ lastNow \in Time
  /\ epoch \in 0 .. MaxEpoch
  /\ roleCreated \in BOOLEAN
  /\ completions \subseteq Completion
  /\ attempts \subseteq Token
  /\ acks \subseteq Ack
  /\ firmware \in [role : BOOLEAN, link : BOOLEAN]

\* Type correctness: every field of the controller and of its surroundings
\* stays in the range the code gives it, time stamps and serial numbers below
\* their overflow limits included (arm(), token(), scan()).
TypeOK == EngineOK /\ ScanOK /\ LinkOK /\ StableOK

----------------------------------------------------------------------------
(* The engine: the private helpers every entry point is built from.  Each    *)
(* formula assigns all of engineVars; the entry point assigns the rest.      *)

Waiting  == waitingAction \/ waitingCommand
Scanning == state \in ScanState
Linked   == state \in {"associated", "authorized"}

NewToken(n) == [epoch |-> epoch, operation |-> n]

\* time(): a faulted controller answers nothing, and time never runs back.
Live(now) ==
  /\ state # "faulted"
  /\ now \in Time /\ now >= lastNow
  /\ lastNow' = now

\* fail(): latch the fault and close admission.  Fields that only a live
\* controller reads keep their values; work already handed out stays out.
FailWith(reqs, cmds) ==
  /\ state' = "faulted"
  /\ waitingAction' = FALSE /\ waitingCommand' = FALSE
  /\ mode' = "none"
  /\ requests' = reqs /\ h2c' = cmds
  /\ UNCHANGED <<pendingVars, deadline, nextSequence, radio>>

Fail == FailWith(requests, h2c)

\* A backend call returns false.
Refused(calls) == Refusals \cap calls # {} /\ Fail

\* Mutant: the clock is assumed never to overflow.
OverflowsUnchecked(duration) == FALSE

\* arm(): the deadline would pass UINT64_MAX.
Overflows(duration) == MaxTime - lastNow' < duration

\* Actions issued with a target channel; the radio leaves the air for them.
Tuning == {"prepareInterface", "scanTune", "scanRestore",
           "prepareAuthentication"}

\* Mutant: accepting an action leaves admission as it was.
AdmissionKeptDuringAction == mode

\* The backend closes host admission when it accepts an action.
AdmissionDuringAction == "none"

\* action(): refuse to overlap, take a token, arm the deadline, hand the work
\* to the backend.
BeginAction(busy, kind, st, target, base) ==
  IF busy \/ base = MaxSerial \/ Overflows(ActionTimeout)
  THEN Fail
  ELSE
    \/ Refused({"beginAction"})
    \/ /\ state' = st
       /\ serial' = base + 1
       /\ pendingToken' = NewToken(base + 1)
       /\ pendingAction' = kind
       /\ waitingAction' = TRUE /\ waitingCommand' = FALSE
       /\ deadline' = lastNow' + ActionTimeout
       /\ mode' = AdmissionDuringAction
       /\ requests' = requests \cup {[token |-> NewToken(base + 1),
                                      action |-> kind, channel |-> target]}
       /\ radio' = IF kind \in Tuning THEN NoChannel ELSE radio
       /\ UNCHANGED <<pendingOrder, pendingSequence, h2c, nextSequence>>

\* traffic(none) followed by action().
BeginQuietAction(busy, kind, st, target, base) ==
  Refused({"setTraffic"}) \/ BeginAction(busy, kind, st, target, base)

\* command(): reserve a sequence on the shared bus, encode, take a token, arm,
\* publish.  A publication reported as failed may still reach the device.
\* traffic is the admission in force, which command() itself never changes.
BeginCommand(busy, order, st, traffic) ==
  LET cmd == [epoch |-> epoch, sequence |-> nextSequence, order |-> order]
  IN
  IF busy \/ serial = MaxSerial \/ Overflows(CommandTimeout)
  THEN Fail
  ELSE
    \/ Refused({"reserveH2cSequence", "publishH2c"})
    \/ "publishH2c" \in Refusals /\ FailWith(requests, h2c \cup {cmd})
    \/ /\ state' = st
       /\ serial' = serial + 1
       /\ pendingToken' = NewToken(serial + 1)
       /\ pendingOrder' = order
       /\ pendingSequence' = nextSequence
       /\ nextSequence' = (nextSequence + 1) % SequenceCount
       /\ waitingAction' = FALSE /\ waitingCommand' = TRUE
       /\ deadline' = lastNow' + CommandTimeout
       /\ h2c' = h2c \cup {cmd}
       /\ mode' = traffic
       /\ UNCHANGED <<pendingAction, requests, radio>>

\* An operation ends in a state that waits for nothing from the device.
Settle(st, traffic, until, calls) ==
  \/ Refused(calls)
  \/ /\ state' = st /\ mode' = traffic /\ deadline' = until
     /\ waitingAction' = FALSE /\ waitingCommand' = FALSE
     /\ UNCHANGED <<pendingVars, requests, h2c, nextSequence, radio>>

BeginDisconnect(busy) ==
  \/ Refused({"cancelProtocol"})
  \/ BeginQuietAction(busy, "disconnectCmac", "disconnectingCmac", NoChannel,
                      serial)

TuneScan(busy, index) ==
  BeginQuietAction(busy, "scanTune", "scanningTune", channels[index].channel,
                   serial)

\* The channel a scan returns to.
RestoreTarget == IF scanResume = "idle" THEN home ELSE PeerChannel[peer]

RestoreScan(busy) ==
  BeginQuietAction(busy, "scanRestore", "scanningRestore", RestoreTarget,
                   serial)

\* The admission a finished scan gives back.
ResumeTraffic == CASE scanResume = "authorized" -> "authorized"
                   [] scanResume = "associated" -> "controlledPort"
                   [] OTHER -> "management"

\* Mutant: a disconnect requested during the scan is overlooked at its end.
CompleteScanThenForget(busy) ==
  Settle(scanResume, ResumeTraffic, deadline, {"setTraffic"})

\* completeScan(): a pending disconnect goes straight to the tear-down.
CompleteScan(busy) ==
  IF disconnectRequested
  THEN BeginDisconnect(busy)
  ELSE Settle(scanResume, ResumeTraffic, deadline, {"setTraffic"})

\* canSendScanProbe(): the admission check made just before a probe is sent.
CanSendScanProbe(original, now) ==
  /\ state = "scanningDwell" /\ ~scanCancelled /\ ~disconnectRequested
  /\ original = scanToken /\ original # NoToken
  /\ channelIndex <= Len(channels) /\ channels[channelIndex].active
  /\ now >= lastNow /\ now < deadline /\ now < scanDeadline

\* Mutants: expire() without its deadlines.
NeverExpired(now) == FALSE
NeverAuthenticationExpired(now) == FALSE

\* expire(): the two deadlines that latch a fault, and the one that does not.
Expired(now) ==
  \/ Scanning /\ now >= scanDeadline
  \/ Waiting /\ now >= deadline
AuthenticationExpired(now) ==
  ~Waiting /\ state = "authenticating" /\ now >= deadline

----------------------------------------------------------------------------
(* Entry points called by the owner. *)

\* restart(): legal in any state once the owner proves a greater, reset epoch.
\* The clock may restart too.  Callbacks and ACKs of the old incarnation may
\* still be queued; the reset firmware has forgotten role, link and commands.
Restart(e, now) ==
  /\ e > epoch /\ e <= MaxEpoch /\ now \in Time
  /\ epoch' = e /\ lastNow' = now
  /\ state' = "stopped" /\ serial' = 0 /\ mode' = "none"
  /\ pendingToken' = NoToken
  /\ waitingAction' = FALSE /\ waitingCommand' = FALSE
  /\ scanToken' = NoToken /\ scanCancelled' = FALSE
  /\ channels' = <<>> /\ channelIndex' = 1
  /\ associationToken' = NoToken /\ peer' = NoPeer /\ home' = NoChannel
  /\ authenticated' = FALSE /\ disconnectRequested' = FALSE
  /\ roleCreated' = FALSE /\ portOpen' = FALSE
  /\ h2c' = {} /\ nextSequence' = 0
  /\ firmware' = [role |-> FALSE, link |-> FALSE] /\ radio' = NoChannel
  /\ UNCHANGED <<pendingAction, pendingOrder, pendingSequence, deadline,
                 requests, scanResume, scanDeadline, completions, attempts,
                 acks>>

\* A call whose time stamp is older than the last one faults the controller.
ClockRunsBack ==
  /\ state # "faulted" /\ lastNow > 0
  /\ Fail
  /\ UNCHANGED <<lastNow, scanVars, linkVars, stableVars>>

Start(channel, now) ==
  /\ Live(now)
  /\ state = "stopped" /\ epoch # 0
  /\ home' = channel
  /\ BeginQuietAction(Waiting, "prepareInterface", "preparing", channel,
                      serial)
  /\ UNCHANGED <<scanVars, attemptVars, disconnectRequested, portOpen,
                 stableVars>>

\* The time a scan may take as a whole.
DwellTotal[plan \in Plan, n \in Nat] ==
  IF n = 0 THEN 0 ELSE plan[n].dwell + DwellTotal[plan, n - 1]
Budget(plan) == DwellTotal[plan, Len(plan)] + (Len(plan) + 4) * ActionTimeout

ASSUME BudgetAssumption == \A plan \in Plan : Budget(plan) \in Nat

Scan(plan, now) ==
  /\ Live(now)
  /\ state \in {"idle", "authorized"}
  /\ IF MaxTime - now < Budget(plan) \/ serial = MaxSerial
     THEN Fail /\ UNCHANGED scanVars
     ELSE /\ channels' = plan /\ channelIndex' = 1
          /\ scanResume' = state /\ scanCancelled' = FALSE
          /\ scanToken' = NewToken(serial + 1)
          /\ scanDeadline' = now + Budget(plan)
          /\ BeginQuietAction(Waiting, "scanBegin", "scanningBegin",
                              NoChannel, serial + 1)
  /\ UNCHANGED <<linkVars, stableVars>>

\* cancelScan(): a tune already submitted is finished before going home.
CancelScan(original, now) ==
  /\ Live(now)
  /\ Scanning /\ original = scanToken /\ ~Expired(now)
  /\ scanCancelled' = TRUE
  /\ IF state = "scanningDwell" THEN RestoreScan(Waiting)
                                ELSE UNCHANGED engineVars
  /\ UNCHANGED <<scanPlan, scanResume, channelIndex, linkVars, stableVars>>

Connect(p, now) ==
  /\ Live(now)
  /\ state = "idle"
  /\ peer' = p /\ authenticated' = FALSE
  /\ IF serial = MaxSerial
     THEN Fail /\ associationToken' = NoToken
     ELSE /\ associationToken' = NewToken(serial + 1)
          /\ BeginQuietAction(Waiting, "prepareAuthentication",
                              "preparingAuthentication", PeerChannel[p],
                              serial + 1)
  /\ portOpen' = FALSE
  /\ UNCHANGED <<scanVars, home, disconnectRequested, stableVars>>

\* disconnect() outside a scan: work in flight is waited for with admission
\* closed, otherwise the tear-down starts at once.
Disconnect(now) ==
  /\ Live(now)
  /\ state \in LinkState /\ ~Expired(now) /\ ~AuthenticationExpired(now)
  /\ disconnectRequested' = TRUE
  /\ IF Waiting THEN \/ Refused({"setTraffic"})
                     \/ /\ mode' = "none"
                        /\ UNCHANGED <<state, pendingVars, waitingAction,
                                       waitingCommand, deadline, requests,
                                       h2c, nextSequence, radio>>
                ELSE BeginDisconnect(Waiting)
  /\ UNCHANGED <<scanVars, attemptVars, home, portOpen, stableVars>>

\* disconnect() during a scan cancels it; a linked scan ends in the tear-down.
DisconnectScan(now) ==
  /\ Live(now)
  /\ Scanning /\ ~Expired(now)
  /\ disconnectRequested' = (disconnectRequested \/ scanResume # "idle")
  /\ scanCancelled' = TRUE
  /\ IF state = "scanningDwell" THEN RestoreScan(Waiting)
                                ELSE UNCHANGED engineVars
  /\ UNCHANGED <<scanPlan, scanResume, channelIndex, attemptVars, home,
                 portOpen, stableVars>>

Stop(now) ==
  /\ Live(now)
  /\ state = "idle"
  /\ \/ Refused({"setTraffic"})
     \/ BeginCommand(Waiting, "removeRole", "removingRole", "none")
  /\ UNCHANGED <<scanVars, linkVars, stableVars>>

\* A call that time() accepts and the rest of its guard turns down.
TurnedDown(now) ==
  /\ Live(now)
  /\ UNCHANGED <<engineVars, scanVars, linkVars, stableVars>>

\* tick(): expire() first.  A missed deadline faults; a missed authentication
\* deadline starts the ordered tear-down; an elapsed dwell moves the scan on.
\* The other entry points that call expire() meet the first outcome the same
\* way and are modelled by this action when they do.
Tick(now) ==
  /\ Live(now)
  /\ \/ Expired(now) /\ Fail /\ UNCHANGED <<channelIndex,
                                            disconnectRequested>>
     \/ /\ ~Expired(now) /\ AuthenticationExpired(now)
        /\ disconnectRequested' = TRUE
        /\ BeginDisconnect(Waiting)
        /\ UNCHANGED channelIndex
     \/ /\ ~Expired(now) /\ state = "scanningDwell" /\ now >= deadline
        /\ channelIndex' = channelIndex + (IF scanCancelled THEN 0 ELSE 1)
        /\ IF scanCancelled \/ channelIndex' > Len(channels)
           THEN RestoreScan(Waiting)
           ELSE TuneScan(Waiting, channelIndex')
        /\ UNCHANGED disconnectRequested
     \/ /\ ~Expired(now) /\ ~AuthenticationExpired(now)
        /\ ~(state = "scanningDwell" /\ now >= deadline)
        /\ UNCHANGED <<engineVars, channelIndex, disconnectRequested>>
  /\ UNCHANGED <<scanPlan, scanResume, scanCancelled, attemptVars, home,
                 portOpen, stableVars>>

----------------------------------------------------------------------------
(* Protocol evidence from net80211.  Its callbacks carry the token and the   *)
(* peer of the attempt they belong to, which may be long over.               *)

\* expire() has just begun the tear-down and reported success; the caller then
\* starts its own operation on a controller that is already waiting, which
\* action() answers with a fault.
StartTwice ==
  IF serial = MaxSerial \/ Overflows(ActionTimeout)
  THEN Fail
  ELSE \/ Refused({"setTraffic", "cancelProtocol", "beginAction"})
       \/ FailWith(requests \cup {[token |-> NewToken(serial + 1),
                                   action |-> "disconnectCmac",
                                   channel |-> NoChannel]}, h2c)

\* The callback speaks about the attempt the controller is in.
Evidence(original, bssid) ==
  state = "authenticating" /\ original = associationToken /\ bssid = peer

Authenticated(original, bssid, success, now) ==
  /\ Live(now)
  /\ Evidence(original, bssid)
  /\ \/ /\ success /\ ~AuthenticationExpired(now)
        /\ authenticated' = TRUE
        /\ UNCHANGED <<engineVars, disconnectRequested>>
     \/ /\ success /\ AuthenticationExpired(now)
        /\ disconnectRequested' = TRUE
        /\ BeginDisconnect(Waiting)
        /\ authenticated' = (authenticated \/ state' # "faulted")
     \/ /\ ~success
        /\ disconnectRequested' = TRUE
        /\ IF AuthenticationExpired(now) THEN StartTwice
                                         ELSE BeginDisconnect(Waiting)
        /\ UNCHANGED authenticated
  /\ UNCHANGED <<scanVars, associationToken, peer, home, portOpen,
                 stableVars>>

\* The AID and channel checks are part of "the response is valid".
AssociationReceived(original, bssid, now) ==
  /\ Live(now)
  /\ Evidence(original, bssid) /\ authenticated
  /\ IF AuthenticationExpired(now)
     THEN disconnectRequested' = TRUE /\ StartTwice
     ELSE /\ BeginAction(Waiting, "associationCmac",
                         "installingAssociationCmac", NoChannel, serial)
          /\ UNCHANGED disconnectRequested
  /\ UNCHANGED <<scanVars, attemptVars, home, portOpen, stableVars>>

AssociationRejected(original, bssid, now) ==
  /\ Live(now)
  /\ Evidence(original, bssid) /\ authenticated
  /\ disconnectRequested' = TRUE
  /\ IF AuthenticationExpired(now) THEN StartTwice
                                   ELSE BeginDisconnect(Waiting)
  /\ UNCHANGED <<scanVars, attemptVars, home, portOpen, stableVars>>

AuthorizePort(original, now) ==
  /\ Live(now)
  /\ state = "associated" /\ original = associationToken
  /\ Settle("authorized", "authorized", deadline, {"setTraffic"})
  /\ portOpen' = TRUE
  /\ UNCHANGED <<scanVars, attemptVars, home, disconnectRequested,
                 stableVars>>

\* Mutant: the scan resumes to the state it left.
ResumeUnrevoked == scanResume

\* What a scan resumes to once the port was revoked during it.
ResumeRevoked == "associated"

\* revokePort(): while a scan is away from home only the state to resume
\* changes, otherwise admission is reduced at once.
RevokePort(original, now) ==
  /\ Live(now)
  /\ original = associationToken
  /\ ~Expired(now) /\ ~AuthenticationExpired(now)
  /\ \/ /\ Scanning /\ scanResume # "idle"
        /\ scanResume' = ResumeRevoked
        /\ UNCHANGED engineVars
     \/ /\ Linked
        /\ Settle("associated", "controlledPort", deadline, {"setTraffic"})
        /\ UNCHANGED scanResume
  /\ portOpen' = FALSE
  /\ UNCHANGED <<scanPlan, channelIndex, scanCancelled, attemptVars, home,
                 disconnectRequested, stableVars>>

----------------------------------------------------------------------------
(* Completions of actions. *)

\* Mutant: every channel is probed.
DwellBeginsProbing ==
  LET here == channels[channelIndex] IN
  IF Overflows(here.dwell) THEN Fail
  ELSE Settle("scanningDwell", "scanProbe", lastNow' + here.dwell,
              {"setTraffic", "sendProbe"})

\* What follows each successful action, admission closed throughout.
DwellBegins ==
  LET here == channels[channelIndex] IN
  IF Overflows(here.dwell) THEN Fail
  ELSE Settle("scanningDwell", IF here.active THEN "scanProbe" ELSE "none",
              lastNow' + here.dwell,
              {"setTraffic"} \cup (IF here.active THEN {"sendProbe"} ELSE {}))

AuthenticationBegins ==
  IF Overflows(AuthenticationTimeout) THEN Fail
  ELSE Settle("authenticating", "management",
              lastNow' + AuthenticationTimeout,
              {"setTraffic", "beginAuthentication"})

Proceed(kind) ==
  \/ /\ kind = "prepareInterface"
     /\ BeginCommand(waitingCommand, "createRole", "creatingRole", mode)
  \/ /\ kind = "idleTables"
     /\ Settle("idle", "management", deadline, {"setTraffic"})
  \/ /\ kind = "scanBegin"
     /\ IF scanCancelled THEN RestoreScan(waitingCommand)
                         ELSE TuneScan(waitingCommand, channelIndex)
  \/ /\ kind = "scanTune"
     /\ IF scanCancelled THEN RestoreScan(waitingCommand) ELSE DwellBegins
  \/ /\ kind = "scanRestore"
     /\ BeginAction(waitingCommand, "scanEnd", "scanningEnd", NoChannel,
                    serial)
  \/ /\ kind = "scanEnd"
     /\ CompleteScan(waitingCommand)
  \/ /\ kind = "prepareAuthentication"
     /\ IF disconnectRequested THEN BeginDisconnect(waitingCommand)
                               ELSE AuthenticationBegins
  \/ /\ kind = "associationCmac"
     /\ IF disconnectRequested
        THEN BeginDisconnect(waitingCommand)
        ELSE BeginCommand(waitingCommand, "join", "joining", mode)
  \/ /\ kind = "associationCam"
     /\ IF disconnectRequested
        THEN BeginDisconnect(waitingCommand)
        ELSE Settle("associated", "controlledPort", deadline, {"setTraffic"})
  \/ /\ kind = "disconnectCmac"
     /\ BeginCommand(waitingCommand, "leave", "disconnecting", mode)
  \/ /\ kind = "disconnectCam"
     /\ Settle("idle", "management", deadline, {"setTraffic"})
  \/ /\ kind = "removeCam"
     /\ Settle("stopped", mode, deadline, {})

\* Mutant: the tear-down forgets to clear the disconnect request.
BookkeepingKeepsRequest(kind) ==
  /\ scanToken' = IF kind = "scanEnd" /\ state' # "faulted" THEN NoToken
                                                        ELSE scanToken
  /\ home' = IF kind = "prepareAuthentication" THEN PeerChannel[peer] ELSE home
  /\ attempts' = attempts \cup
       (IF state' = "authenticating" THEN {associationToken} ELSE {})
  /\ roleCreated' = (roleCreated /\ kind # "removeCam")
  /\ IF kind = "disconnectCam"
     THEN /\ associationToken' = NoToken /\ peer' = NoPeer
          /\ authenticated' = FALSE
          /\ UNCHANGED disconnectRequested
     ELSE UNCHANGED <<attemptVars, disconnectRequested>>

\* The fields outside the engine that a successful action changes.
Bookkeeping(kind) ==
  /\ scanToken' = IF kind = "scanEnd" /\ state' # "faulted" THEN NoToken
                                                        ELSE scanToken
  /\ home' = IF kind = "prepareAuthentication" THEN PeerChannel[peer] ELSE home
  /\ attempts' = attempts \cup
       (IF state' = "authenticating" THEN {associationToken} ELSE {})
  /\ roleCreated' = (roleCreated /\ kind # "removeCam")
  /\ IF kind = "disconnectCam"
     THEN /\ associationToken' = NoToken /\ peer' = NoPeer
          /\ authenticated' = FALSE /\ disconnectRequested' = FALSE
     ELSE UNCHANGED <<attemptVars, disconnectRequested>>

\* Mutant: a completion is recognised by its kind alone.
MatchesByKind(c) == waitingAction /\ c.action = pendingAction

\* The completion names the pending operation.
Matches(c) ==
  waitingAction /\ c.token = pendingToken /\ c.action = pendingAction

\* A callback may be delivered a second time, within a bound.
Delivered(c) ==
  \/ completions' = completions \ {c}
  \/ Cardinality(completions) <= MaxDuplicates /\ UNCHANGED completions

ActionComplete(c, now) ==
  /\ c \in completions /\ Delivered(c)
  /\ Live(now)
  /\ \/ /\ ~Matches(c)
        /\ UNCHANGED <<engineVars, scanToken, home, attempts, roleCreated,
                       attemptVars, disconnectRequested>>
     \/ /\ Matches(c) /\ ~Expired(now) /\ ~c.success
        /\ Fail
        /\ UNCHANGED <<scanToken, home, attempts, roleCreated, attemptVars,
                       disconnectRequested>>
     \/ /\ Matches(c) /\ ~Expired(now) /\ c.success
        /\ Proceed(c.action)
        /\ Bookkeeping(c.action)
  /\ UNCHANGED <<scanResume, channels, channelIndex, scanDeadline,
                 scanCancelled, portOpen, epoch, acks, firmware>>

----------------------------------------------------------------------------
(* Firmware acknowledgements. *)

\* Mutant: a receive ACK counts as DONE.
AcknowledgesReception(a) ==
  /\ waitingCommand
  /\ a.epoch = epoch
  /\ a.sequence = pendingSequence
  /\ a.command = CommandId(pendingOrder)

\* The ACK completes the pending command: DONE, of this receive incarnation,
\* with the command identity and the sequence number that were published.
Acknowledges(a) ==
  /\ waitingCommand
  /\ a.epoch = epoch
  /\ a.done
  /\ a.sequence = pendingSequence
  /\ a.command = CommandId(pendingOrder)

\* What follows each DONE ACK.
CommandDone ==
  \/ /\ state = "creatingRole"
     /\ BeginCommand(waitingAction, "leave", "initialNoLink", mode)
  \/ /\ state = "initialNoLink"
     /\ BeginAction(waitingAction, "idleTables", "installingIdle", NoChannel,
                    serial)
  \/ /\ state = "joining"
     /\ IF disconnectRequested
        THEN BeginDisconnect(waitingAction)
        ELSE BeginAction(waitingAction, "associationCam",
                         "installingAssociationCam", NoChannel, serial)
  \/ /\ state = "disconnecting"
     /\ BeginAction(waitingAction, "disconnectCam", "disconnectingCam",
                    NoChannel, serial)
  \/ /\ state = "removingRole"
     /\ BeginAction(waitingAction, "removeCam", "removingCam", NoChannel,
                    serial)

FirmwareEvent(a, now) ==
  /\ a \in acks /\ acks' = acks \ {a}
  /\ Live(now)
  /\ \/ ~Acknowledges(a) /\ UNCHANGED <<engineVars, roleCreated>>
     \/ /\ Acknowledges(a) /\ ~Expired(now) /\ ~a.ok
        /\ Fail /\ UNCHANGED roleCreated
     \/ /\ Acknowledges(a) /\ ~Expired(now) /\ a.ok
        /\ CommandDone
        /\ roleCreated' = (roleCreated \/ state = "creatingRole")
  /\ UNCHANGED <<scanVars, linkVars, epoch, completions, attempts, firmware>>

----------------------------------------------------------------------------
(* The device and its firmware, as this code uses them. *)

\* Accepted work finishes, well or badly, and its callback is queued.  Work
\* of an earlier incarnation no longer reaches the radio.
DeviceFinishes(r, ok) ==
  /\ r \in requests
  /\ requests' = requests \ {r}
  /\ completions' = completions \cup {[token |-> r.token,
                                       action |-> r.action, success |-> ok]}
  /\ radio' = IF ok /\ r.action \in Tuning /\ r.token.epoch = epoch
              THEN r.channel ELSE radio
  /\ UNCHANGED <<state, pendingVars, waitingAction, waitingCommand, deadline,
                 mode, h2c, nextSequence, lastNow, scanVars, linkVars, epoch,
                 roleCreated, attempts, acks, firmware>>

\* Every fourth H2C asks for a receive ACK, which is not execution.
FirmwareReceives(c) ==
  /\ c \in h2c /\ c.sequence % 4 = 0
  /\ acks' = acks \cup {[epoch |-> c.epoch, sequence |-> c.sequence,
                         command |-> CommandId(c.order), done |-> FALSE,
                         ok |-> TRUE]}
  /\ UNCHANGED <<engineVars, lastNow, scanVars, linkVars, epoch, roleCreated,
                 completions, attempts, firmware>>

Executed(order) ==
  [role |-> CASE order = "createRole" -> TRUE
              [] order = "removeRole" -> FALSE
              [] OTHER -> firmware.role,
   link |-> CASE order = "join"  -> TRUE
              [] order = "leave" -> FALSE
              [] OTHER -> firmware.link]

FirmwareExecutes(c, ok) ==
  /\ c \in h2c
  /\ h2c' = h2c \ {c}
  /\ acks' = acks \cup {[epoch |-> c.epoch, sequence |-> c.sequence,
                         command |-> CommandId(c.order), done |-> TRUE,
                         ok |-> ok]}
  /\ firmware' = IF ok THEN Executed(c.order) ELSE firmware
  /\ UNCHANGED <<state, pendingVars, waitingAction, waitingCommand, deadline,
                 mode, requests, nextSequence, radio, lastNow, scanVars,
                 linkVars, epoch, roleCreated, completions, attempts>>

----------------------------------------------------------------------------
(* The specification. *)

Init ==
  /\ state = "stopped" /\ serial = 0 /\ epoch = 0 /\ roleCreated = FALSE
  /\ pendingToken = NoToken /\ pendingAction = "prepareInterface"
  /\ pendingOrder = "join" /\ pendingSequence = 0
  /\ waitingAction = FALSE /\ waitingCommand = FALSE
  /\ lastNow = 0 /\ deadline = 0 /\ scanDeadline = 0
  /\ scanToken = NoToken /\ scanResume = "idle" /\ channels = <<>>
  /\ channelIndex = 1 /\ scanCancelled = FALSE
  /\ associationToken = NoToken /\ peer = NoPeer /\ home = NoChannel
  /\ authenticated = FALSE /\ disconnectRequested = FALSE
  /\ portOpen = FALSE
  /\ mode = "none" /\ requests = {} /\ completions = {} /\ attempts = {}
  /\ h2c = {} /\ nextSequence = 0 /\ acks = {}
  /\ firmware = [role |-> FALSE, link |-> FALSE] /\ radio = NoChannel

Owner ==
  \/ \E e \in 1 .. MaxEpoch, now \in Time : Restart(e, now)
  \/ ClockRunsBack
  \/ \E now \in Time :
       \/ \E c \in Channel : Start(c, now)
       \/ \E plan \in Plan : Scan(plan, now)
       \/ CancelScan(scanToken, now)
       \/ \E p \in Peer : Connect(p, now)
       \/ Disconnect(now)
       \/ DisconnectScan(now)
       \/ Stop(now)
       \/ TurnedDown(now)
       \/ Tick(now)

Protocol ==
  \E original \in attempts, now \in Time :
    \/ \E bssid \in Peer :
         \/ \E success \in BOOLEAN :
              Authenticated(original, bssid, success, now)
         \/ AssociationReceived(original, bssid, now)
         \/ AssociationRejected(original, bssid, now)
    \/ AuthorizePort(original, now)
    \/ RevokePort(original, now)

Callback ==
  \E now \in Time :
    \/ \E c \in completions : ActionComplete(c, now)
    \/ \E a \in acks : FirmwareEvent(a, now)

Device ==
  \/ \E r \in requests, ok \in BOOLEAN : DeviceFinishes(r, ok)
  \/ \E c \in h2c : FirmwareReceives(c)
  \/ \E c \in h2c, ok \in BOOLEAN : FirmwareExecutes(c, ok)

Next == Owner \/ Protocol \/ Callback \/ Device

Spec == Init /\ [][Next]_vars

----------------------------------------------------------------------------
(* Properties. *)

\* A scan of an authorized station keeps its link while it is away.
LinkUp == Linked \/ (Scanning /\ scanResume # "idle")

\* Work of the current incarnation that the device has not reported back.
Outstanding ==
  {r \in requests : r.token.epoch = epoch} \cup {c \in h2c : c.epoch = epoch}

\* No frame leaves the host while the device works on an operation of this
\* incarnation: every path through action() and command() has admission
\* closed, whichever combination of scan, revocation and disconnect led there.
SilentWhileWorking == Outstanding # {} => mode = "none"

\* EAPOL and data are admitted only with the whole chain of evidence in place:
\* a role and a connected Join executed by the firmware, the CAM installed, the
\* radio back on the access point's channel, and no tear-down asked for
\* (associationCam, completeScan, authorizePort, revokePort).
DataNeedsLink ==
  mode \in {"controlledPort", "authorized"} =>
    /\ Linked
    /\ firmware.role /\ firmware.link
    /\ associationToken # NoToken
    /\ radio = PeerChannel[peer]
    /\ ~disconnectRequested

\* A port revoked while a scan was away is still closed when the scan returns
\* (revokePort, completeScan): ordinary data needs a notification newer than
\* every revocation.
RevokedPortStaysClosed == mode = "authorized" => portOpen

\* Probes leave only on the channel the plan allows active scanning on, while
\* the radio is there and the scan is still wanted; management frames leave
\* only on the home channel of an unlinked role (canSendScanProbe, restoreScan,
\* prepareAuthentication).
ProbesOnTheirChannel ==
  /\ mode = "scanProbe" =>
       /\ state = "scanningDwell" /\ scanToken # NoToken
       /\ channels[channelIndex].active
       /\ radio = channels[channelIndex].channel
       /\ ~scanCancelled /\ ~disconnectRequested
  /\ (\E now \in Time : CanSendScanProbe(scanToken, now)) =>
       mode = "scanProbe"
  /\ mode = "management" =>
       /\ radio = home
       /\ firmware.role /\ ~firmware.link

\* What the station does on the air is what its states allow: silence while the
\* device works for it, probes and management frames only where and while they
\* are meant (action(), command(), canSendScanProbe, restoreScan).
AirRespected == SilentWhileWorking /\ ProbesOnTheirChannel

\* Wherever the controller rests, the firmware holds what the controller
\* believes: no role when stopped, an unlinked role when idle or scanning from
\* idle, a linked one when associated or scanning on a link.  A lost, late or
\* foreign ACK taken for the awaited one would break it.
FirmwareAgrees ==
  /\ state = "stopped" => ~firmware.role /\ ~roleCreated
  /\ state = "idle" \/ (Scanning /\ scanResume = "idle") =>
       firmware.role /\ ~firmware.link /\ roleCreated
  /\ LinkUp => firmware.role /\ firmware.link /\ roleCreated

\* The station, the firmware and net80211 mean the same link: the firmware has
\* executed what the station believes, EAPOL and data pass only over the whole
\* chain of evidence, and a port revoked during a scan is closed after it.
LinkSound == FirmwareAgrees /\ DataNeedsLink /\ RevokedPortStaysClosed

\* A live controller has at most one operation in the device's hands and knows
\* its token, so an idle or stopped one leaves nothing behind, and no callback
\* or ACK of this incarnation is ever owed to an operation already given up.
NoStrayWork ==
  state # "faulted" =>
    /\ \A r \in requests : r.token.epoch = epoch =>
         waitingAction /\ r.token = pendingToken
    /\ \A c \in h2c : c.epoch = epoch =>
         waitingCommand /\ c.sequence = pendingSequence

\* An idle controller starts its next attempt clean: nothing of an earlier
\* attempt, scan or disconnect request survives into it.
IdleIsClean ==
  state \in {"idle", "stopped"} =>
    /\ associationToken = NoToken /\ scanToken = NoToken
    /\ ~authenticated /\ ~disconnectRequested /\ ~Waiting

\* Missing the authentication deadline is an ordinary failure of the attempt:
\* the step that first sees it leads to the ordered disconnect, never to the
\* recovery latch.  That is what epochsAndTimeouts in
\* tests/network_station_controller_test.cpp asserts of tick().
AuthenticationTimeoutIsOrdered ==
  [][(/\ state = "authenticating"
      /\ lastNow < deadline /\ lastNow' >= deadline
      /\ lastNow' + ActionTimeout <= MaxTime /\ serial < MaxSerial
      /\ epoch' = epoch)
     => state' # "faulted"]_vars

----------------------------------------------------------------------------
(* Liveness.  The driver polls the controller from its workloop timer, so     *)
(* time passes and tick() is called; nothing is assumed of the device, the    *)
(* firmware, the protocol or the owner.                                      *)

Poll == Tick(IF lastNow = MaxTime THEN MaxTime ELSE lastNow + 1)

FairSpec == Spec /\ WF_vars(Poll)

\* Whatever the device does, no operation is waited for for ever: each ends in
\* a resting state or in the fault latch (arm, expire).
OperationsEnd == Waiting ~> ~Waiting

\* A scan ends, however slowly the ticks that should move it on arrive: the
\* scan-wide deadline covers the dwell, which has no deadline of its own.
ScansEnd == Scanning ~> ~Scanning

\* A requested disconnect is carried out or the controller faults; it is never
\* forgotten behind the operation it had to wait for.
DisconnectsEnd ==
  disconnectRequested ~> (~disconnectRequested \/ state = "faulted")

\* An authentication attempt does not outlive its deadline.
AuthenticationEnds == state = "authenticating" ~> state # "authenticating"

\* The station never hangs on a silent device, firmware or access point:
\* operations, scans, disconnects and authentication attempts all end (tick(),
\* expire()).
StationNeverHangs == OperationsEnd /\ ScansEnd /\ DisconnectsEnd /\ AuthenticationEnds

============================================================================
