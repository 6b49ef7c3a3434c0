---------------------- MODULE StationControllerProofs ----------------------
(***************************************************************************)
(* Proofs about the station controller, for every scan plan, timeout and   *)
(* serial number range: the type invariant, that an idle or stopped        *)
(* controller is clean, and, in the second half, that the controller, the  *)
(* device, the firmware and the radio agree.  The lemmas named ...Leads    *)
(* say where an internal routine of the controller leaves it; those named  *)
(* ...Keeps say that an entry point preserves the inductive invariant Inv. *)
(***************************************************************************)
EXTENDS StationController, TLAPS

\* The values the Action enumeration takes.
LEMMA ActionValues ==
  Action = {"prepareInterface", "idleTables", "scanBegin", "scanTune",
            "scanRestore", "scanEnd", "prepareAuthentication",
            "associationCmac", "associationCam", "disconnectCmac",
            "disconnectCam", "removeCam"}
  BY DEF Action, ActionOf

\* Which action each waiting state stands for.
LEMMA ActionOfValues ==
  /\ DOMAIN ActionOf = {"preparing", "installingIdle", "scanningBegin",
       "scanningTune", "scanningRestore", "scanningEnd",
       "preparingAuthentication", "installingAssociationCmac",
       "installingAssociationCam", "disconnectingCmac", "disconnectingCam",
       "removingCam"}
  /\ ActionOf["preparing"] = "prepareInterface"
  /\ ActionOf["installingIdle"] = "idleTables"
  /\ ActionOf["scanningBegin"] = "scanBegin"
  /\ ActionOf["scanningTune"] = "scanTune"
  /\ ActionOf["scanningRestore"] = "scanRestore"
  /\ ActionOf["scanningEnd"] = "scanEnd"
  /\ ActionOf["preparingAuthentication"] = "prepareAuthentication"
  /\ ActionOf["installingAssociationCmac"] = "associationCmac"
  /\ ActionOf["installingAssociationCam"] = "associationCam"
  /\ ActionOf["disconnectingCmac"] = "disconnectCmac"
  /\ ActionOf["disconnectingCam"] = "disconnectCam"
  /\ ActionOf["removingCam"] = "removeCam"
  BY DEF ActionOf

\* Which firmware command each waiting state stands for.
LEMMA OrderOfValues ==
  /\ DOMAIN OrderOf = {"creatingRole", "initialNoLink", "joining",
       "disconnecting", "removingRole"}
  /\ OrderOf["creatingRole"] = "createRole"
  /\ OrderOf["initialNoLink"] = "leave"
  /\ OrderOf["joining"] = "join"
  /\ OrderOf["disconnecting"] = "leave"
  /\ OrderOf["removingRole"] = "removeRole"
  BY DEF OrderOf

\* What the proofs use of the constants.
LEMMA Bounds ==
  /\ MaxTime \in Nat /\ MaxSerial \in Nat /\ MaxEpoch \in Nat
  /\ SequenceCount \in Nat \ {0}
  /\ ActionTimeout \in Nat /\ CommandTimeout \in Nat
  /\ AuthenticationTimeout \in Nat
  BY ConstantsAssumption DEF ConstantsAssumption

\* A deadline that arm() accepts does not overflow.
LEMMA ArmInTime ==
  ASSUME NEW now \in Time, NEW d \in Nat, ~(MaxTime - now < d)
  PROVE  now + d \in Time
  BY Bounds DEF Time

\* A waiting controller waits for what its state says it waits for.
Paired ==
  /\ waitingAction => /\ state \in DOMAIN ActionOf
                      /\ pendingAction = ActionOf[state]
  /\ waitingCommand => /\ state \in DOMAIN OrderOf
                       /\ pendingOrder = OrderOf[state]

\* What every engine formula leaves behind: a typed and paired engine in one
\* of the given states or in the fault latch.
Leads(states) == EngineOK' /\ Paired' /\ state' \in states \cup {"faulted"}

\* fail() leaves a faulted controller with nothing pending.
LEMMA FailLeads ==
  ASSUME EngineOK,
         NEW reqs, reqs \subseteq Request, NEW cmds, cmds \subseteq Command,
         FailWith(reqs, cmds),
         NEW states
  PROVE  Leads(states)
<1> USE DEF FailWith, EngineOK, pendingVars
<1>1. waitingAction' = FALSE /\ waitingCommand' = FALSE
  OBVIOUS
<1>2. Paired'
  BY <1>1 DEF Paired
<1>3. EngineOK'
  BY <1>1 DEF State, Traffic
<1>4. QED
  BY <1>2, <1>3 DEF Leads

\* action() enters the waiting state asked for, or faults.
LEMMA BeginActionLeads ==
  ASSUME TypeOK, lastNow' \in Time, 
         NEW busy, NEW st \in DOMAIN ActionOf,
         NEW target \in Channel \cup {NoChannel},
         NEW base \in 0 .. MaxSerial,
         BeginAction(busy, ActionOf[st], st, target, base)
  PROVE  Leads({st})
<1>1. CASE Fail
  BY <1>1, FailLeads DEF Fail, TypeOK, EngineOK
<1>2. CASE ~Fail
  <2> DEFINE kind == ActionOf[st]
  <2>1. /\ ~ (base = MaxSerial \/ Overflows(ActionTimeout))
        /\ state' = st
        /\ serial' = base + 1
        /\ pendingToken' = NewToken(base + 1)
        /\ pendingAction' = kind
        /\ waitingAction' = TRUE /\ waitingCommand' = FALSE
        /\ deadline' = lastNow' + ActionTimeout
        /\ mode' = AdmissionDuringAction
        /\ requests' = requests \cup {[token |-> NewToken(base + 1),
                                      action |-> kind, channel |-> target]}
        /\ radio' = IF kind \in Tuning THEN NoChannel ELSE radio
        /\ UNCHANGED <<pendingOrder, pendingSequence, h2c, nextSequence>>
    BY <1>2 DEF BeginAction, Refused
  <2>2. kind \in Action /\ st \in State
    BY DEF Action, ActionOf, State, ScanState, LinkState
  <2>3. Paired'
    BY <2>1 DEF Paired
  <2>4. NewToken(base + 1) \in Token
    BY <2>1, Bounds DEF NewToken, Token, TypeOK, StableOK
  <2>5. [token |-> NewToken(base + 1), action |-> kind, channel |-> target] \in Request
    BY <2>2, <2>4 DEF Request
  <2>6. deadline' = lastNow' + ActionTimeout /\ ~(MaxTime - lastNow' < ActionTimeout)
    BY <2>1 DEF Overflows
  <2>7. deadline' \in Time
    BY <2>6, Bounds, ArmInTime
  <2>8. serial' \in 0 .. MaxSerial
    BY <2>1, Bounds
  <2>9. waitingAction' \in BOOLEAN /\ waitingCommand' \in BOOLEAN
    BY <2>1
  <2>10. mode' \in Traffic /\ radio' \in Channel \cup {NoChannel}
    BY <2>1 DEF Traffic, AdmissionDuringAction, TypeOK, EngineOK
  <2>11. requests' \subseteq Request
    BY <2>1, <2>5 DEF TypeOK, EngineOK
  <2>12. state' \in State /\ pendingToken' \in Token /\ pendingAction' \in Action
    BY <2>1, <2>2, <2>4
  <2>13. pendingOrder' \in Order /\ pendingSequence' \in Sequence /\ h2c' \subseteq Command /\ nextSequence' \in Sequence
    BY <2>1 DEF TypeOK, EngineOK
  <2>14. EngineOK'
    BY <2>7, <2>8, <2>9, <2>10, <2>11, <2>12, <2>13 DEF EngineOK
  <2> QED
    BY <2>1, <2>3, <2>14 DEF Leads
<1> QED
  BY <1>1, <1>2

\* The same when the traffic is cut first.
LEMMA QuietActionLeads ==
  ASSUME TypeOK, lastNow' \in Time,
         NEW busy, NEW st \in DOMAIN ActionOf,
         NEW target \in Channel \cup {NoChannel},
         NEW base \in 0 .. MaxSerial,
         BeginQuietAction(busy, ActionOf[st], st, target, base)
  PROVE  Leads({st})
  BY BeginActionLeads, FailLeads
  DEF BeginQuietAction, Refused, Fail, TypeOK, EngineOK

\* command() enters the state that awaits its DONE, or faults.
LEMMA BeginCommandLeads ==
  ASSUME TypeOK, lastNow' \in Time,
         NEW busy, NEW st \in DOMAIN OrderOf, NEW traffic \in Traffic,
         BeginCommand(busy, OrderOf[st], st, traffic)
  PROVE  Leads({st})
<1> DEFINE order == OrderOf[st]
           cmd == [epoch |-> epoch, sequence |-> nextSequence,
                   order |-> order]
<1>1. order \in Order /\ st \in State
  BY DEF OrderOf, Order, State, LinkState
<1>2. cmd \in Command /\ h2c \cup {cmd} \subseteq Command
  BY <1>1 DEF Command, TypeOK, EngineOK, StableOK
<1>3. CASE Fail
  BY <1>3, FailLeads DEF Fail, TypeOK, EngineOK
<1>4. CASE FailWith(requests, h2c \cup {cmd})
  BY <1>2, <1>4, FailLeads DEF TypeOK, EngineOK
<1>5. CASE ~Fail /\ ~FailWith(requests, h2c \cup {cmd})
  <2>1. /\ ~(serial = MaxSerial \/ Overflows(CommandTimeout))
        /\ state' = st
        /\ serial' = serial + 1
        /\ pendingToken' = NewToken(serial + 1)
        /\ pendingOrder' = order
        /\ pendingSequence' = nextSequence
        /\ nextSequence' = (nextSequence + 1) % SequenceCount
        /\ waitingAction' = FALSE /\ waitingCommand' = TRUE
        /\ deadline' = lastNow' + CommandTimeout
        /\ h2c' = h2c \cup {cmd}
        /\ mode' = traffic
        /\ UNCHANGED <<pendingAction, requests, radio>>
    BY <1>5 DEF BeginCommand, Refused
  <2>2. Paired'
    BY <2>1 DEF Paired
  <2>3. NewToken(serial + 1) \in Token /\ serial' \in 0 .. MaxSerial
    BY <2>1, Bounds DEF NewToken, Token, TypeOK, StableOK, EngineOK
  <2>4. deadline' = lastNow' + CommandTimeout
        /\ ~(MaxTime - lastNow' < CommandTimeout)
    BY <2>1 DEF Overflows
  <2>5. deadline' \in Time
    BY <2>4, Bounds, ArmInTime
  <2>6. waitingAction' \in BOOLEAN /\ waitingCommand' \in BOOLEAN
    BY <2>1
  <2>7. nextSequence \in Sequence /\ nextSequence' \in Sequence
    BY <2>1, Bounds DEF Sequence, TypeOK, EngineOK
  <2>8. h2c' \subseteq Command
    BY <2>1, <1>2
  <2>9. /\ pendingAction' \in Action /\ requests' \subseteq Request
        /\ radio' \in Channel \cup {NoChannel}
    BY <2>1 DEF TypeOK, EngineOK
  <2>10. EngineOK'
    BY <1>1, <2>1, <2>3, <2>5, <2>6, <2>7, <2>8, <2>9 DEF EngineOK
  <2> QED
    BY <2>1, <2>2, <2>10 DEF Leads
<1> QED
  BY <1>3, <1>4, <1>5

\* Settling an operation leaves a state in which nothing is awaited.
LEMMA SettleLeads ==
  ASSUME TypeOK, NEW st \in State, NEW traffic \in Traffic,
         NEW until \in Time, NEW calls,
         Settle(st, traffic, until, calls)
  PROVE  Leads({st})
<1>1. CASE Fail
  BY <1>1, FailLeads DEF Fail, TypeOK, EngineOK
<1>2. CASE ~Fail
  <2>1. /\ state' = st /\ mode' = traffic /\ deadline' = until
        /\ waitingAction' = FALSE /\ waitingCommand' = FALSE
        /\ UNCHANGED <<pendingVars, requests, h2c, nextSequence, radio>>
    BY <1>2 DEF Settle, Refused
  <2>2. waitingAction' \in BOOLEAN /\ waitingCommand' \in BOOLEAN /\ Paired'
    BY <2>1 DEF Paired
  <2>3. EngineOK'
    BY <2>1, <2>2 DEF TypeOK, EngineOK, pendingVars
  <2> QED
    BY <2>1, <2>2, <2>3 DEF Leads
<1> QED
  BY <1>1, <1>2

\* A scan in progress points into its plan.
ScanInPlan ==
  state \in {"scanningBegin", "scanningTune", "scanningDwell"} =>
    channelIndex \in DOMAIN channels

\* The station is attempting, keeping, scanning away from or giving up a link.
Attached == state \in LinkState \/ (Scanning /\ scanResume # "idle")

\* While it does it knows its peer, and outside it nothing of an attempt is
\* left.
PeerKnown == Attached => peer \in Peer

NothingLeft ==
  state # "faulted" =>
    /\ associationToken # NoToken \/ authenticated \/ disconnectRequested
         => Attached
    /\ scanToken # NoToken => Scanning

\* The inductive strengthening of TypeOK and IdleIsClean.
Inv == TypeOK /\ Paired /\ ScanInPlan /\ PeerKnown /\ NothingLeft

\* The current entry of the scan plan is one of the caller's channels.
LEMMA PlanEntry ==
  ASSUME ScanOK, NEW i \in DOMAIN channels
  PROVE  /\ channels[i].channel \in Channel
         /\ channels[i].dwell \in Nat
         /\ channels \in Plan
<1>1. channels \in Plan
  BY DEF ScanOK
<1>2. channels \in Seq(ScanChannel)
  BY <1>1, ConstantsAssumption DEF ConstantsAssumption
<1>3. channels[i] \in ScanChannel
  BY <1>2
<1> QED
  BY <1>1, <1>3 DEF ScanChannel

\* beginDisconnect() waits for the first table write, or faults.
LEMMA DisconnectLeads ==
  ASSUME TypeOK, lastNow' \in Time, NEW busy, BeginDisconnect(busy)
  PROVE  Leads({"disconnectingCmac"})
<1>1. CASE Fail
  BY <1>1, FailLeads DEF Fail, TypeOK, EngineOK
<1>2. CASE BeginQuietAction(busy, "disconnectCmac", "disconnectingCmac",
                            NoChannel, serial)
  BY <1>2, QuietActionLeads, ActionOfValues DEF TypeOK, EngineOK
<1> QED
  BY <1>1, <1>2 DEF BeginDisconnect, Refused

\* tuneScan() waits for the radio to be tuned, or faults.
LEMMA TuneLeads ==
  ASSUME TypeOK, lastNow' \in Time, NEW busy, NEW i \in DOMAIN channels,
         TuneScan(busy, i)
  PROVE  Leads({"scanningTune"})
<1>1. channels[i].channel \in Channel \cup {NoChannel}
  BY PlanEntry DEF TypeOK
<1>2. BeginQuietAction(busy, ActionOf["scanningTune"], "scanningTune",
                       channels[i].channel, serial)
  BY ActionOfValues DEF TuneScan
<1> QED
  BY <1>1, <1>2, QuietActionLeads, ActionOfValues DEF TypeOK, EngineOK

\* restoreScan() waits for the operating channel, or faults.
LEMMA RestoreLeads ==
  ASSUME Inv, lastNow' \in Time, NEW busy, Scanning, RestoreScan(busy)
  PROVE  Leads({"scanningRestore"})
<1>1. RestoreTarget \in Channel \cup {NoChannel}
  BY ConstantsAssumption
  DEF RestoreTarget, Inv, PeerKnown, Attached, TypeOK, LinkOK, ConstantsAssumption
<1>2. BeginQuietAction(busy, ActionOf["scanningRestore"], "scanningRestore",
                       RestoreTarget, serial)
  BY ActionOfValues DEF RestoreScan
<1> QED
  BY <1>1, <1>2, QuietActionLeads, ActionOfValues DEF Inv, TypeOK, EngineOK

\* completeScan() resumes the link or idles, disconnects, or faults.
LEMMA CompleteScanLeads ==
  ASSUME Inv, lastNow' \in Time, NEW busy, CompleteScan(busy)
  PROVE  IF disconnectRequested THEN Leads({"disconnectingCmac"})
                                ELSE Leads({scanResume})
<1>1. CASE disconnectRequested
  BY <1>1, DisconnectLeads DEF Inv, CompleteScan
<1>2. CASE ~disconnectRequested
  <2>1. ResumeTraffic \in Traffic
    BY DEF ResumeTraffic, Traffic
  <2>2. scanResume \in State
    BY DEF Inv, TypeOK, ScanOK, State, LinkState
  <2>3. deadline \in Time
    BY DEF Inv, TypeOK, EngineOK
  <2> QED
    BY <1>2, <2>1, <2>2, <2>3, SettleLeads DEF Inv, CompleteScan
<1> QED
  BY <1>1, <1>2

\* A tuned channel begins its dwell, or the controller faults.
LEMMA DwellLeads ==
  ASSUME TypeOK, lastNow' \in Time, channelIndex \in DOMAIN channels,
         DwellBegins
  PROVE  Leads({"scanningDwell"})
<1> DEFINE here == channels[channelIndex]
<1>1. CASE Fail
  BY <1>1, FailLeads DEF Fail, TypeOK, EngineOK
<1>2. CASE ~Fail
  <2>1. ~(MaxTime - lastNow' < here.dwell)
    BY <1>2 DEF DwellBegins, Overflows
  <2>2. here.dwell \in Nat
    BY PlanEntry DEF TypeOK
  <2>3. lastNow' + here.dwell \in Time
    BY <2>1, <2>2, ArmInTime
  <2>4. (IF here.active THEN "scanProbe" ELSE "none") \in Traffic
    BY DEF Traffic
  <2>5. "scanningDwell" \in State
    BY DEF State, ScanState
  <2> QED
    BY <1>2, <2>3, <2>4, <2>5, SettleLeads DEF DwellBegins
<1> QED
  BY <1>1, <1>2

\* The prepared tables begin the authentication, or the controller faults.
LEMMA AuthenticationLeads ==
  ASSUME TypeOK, lastNow' \in Time, AuthenticationBegins
  PROVE  Leads({"authenticating"})
<1>1. CASE Fail
  BY <1>1, FailLeads DEF Fail, TypeOK, EngineOK
<1>2. CASE ~Fail
  <2>1. ~(MaxTime - lastNow' < AuthenticationTimeout)
    BY <1>2 DEF AuthenticationBegins, Overflows
  <2>2. lastNow' + AuthenticationTimeout \in Time
    BY <2>1, Bounds, ArmInTime
  <2>3. "management" \in Traffic /\ "authenticating" \in State
    BY DEF Traffic, State, LinkState
  <2> QED
    BY <1>2, <2>2, <2>3, SettleLeads DEF AuthenticationBegins
<1> QED
  BY <1>1, <1>2

\* The state reached when the awaited action succeeds.
LEMMA ProceedLeads ==
  ASSUME Inv, lastNow' \in Time, waitingAction, Proceed(pendingAction)
  PROVE  \/ state = "preparing" /\ Leads({"creatingRole"})
         \/ state = "installingIdle" /\ Leads({"idle"})
         \/ state = "scanningBegin"
              /\ Leads({"scanningRestore", "scanningTune"})
         \/ state = "scanningTune"
              /\ Leads({"scanningRestore", "scanningDwell"})
         \/ state = "scanningRestore" /\ Leads({"scanningEnd"})
         \/ state = "scanningEnd"
              /\ IF disconnectRequested THEN Leads({"disconnectingCmac"})
                                        ELSE Leads({scanResume})
         \/ state = "preparingAuthentication"
              /\ Leads({"disconnectingCmac", "authenticating"})
         \/ state = "installingAssociationCmac"
              /\ Leads({"disconnectingCmac", "joining"})
         \/ state = "installingAssociationCam"
              /\ Leads({"disconnectingCmac", "associated"})
         \/ state = "disconnectingCmac" /\ Leads({"disconnecting"})
         \/ state = "disconnectingCam" /\ Leads({"idle"})
         \/ state = "removingCam" /\ Leads({"stopped"})
<1>1. state \in DOMAIN ActionOf /\ pendingAction = ActionOf[state]
  BY DEF Inv, Paired
<1>2. /\ TypeOK /\ mode \in Traffic /\ deadline \in Time
      /\ serial \in 0 .. MaxSerial
  BY DEF Inv, TypeOK, EngineOK
<1>3. {"none", "management", "controlledPort"} \subseteq Traffic
  BY DEF Traffic
<1>4. {"idle", "associated", "stopped"} \subseteq State
  BY DEF State, LinkState
<1>5. CASE state = "preparing"
  <2>1. BeginCommand(waitingCommand, OrderOf["creatingRole"], "creatingRole", mode)
    BY <1>1, <1>5, ActionOfValues, OrderOfValues DEF Proceed
  <2> QED
    BY <1>2, <1>5, <2>1, BeginCommandLeads, OrderOfValues
<1>6. CASE state = "installingIdle"
  <2>1. Settle("idle", "management", deadline, {"setTraffic"})
    BY <1>1, <1>6, ActionOfValues DEF Proceed
  <2> QED
    BY <1>2, <1>3, <1>4, <1>6, <2>1, SettleLeads
<1>7. CASE state = "scanningBegin"
  <2>1. RestoreScan(waitingCommand) \/ TuneScan(waitingCommand, channelIndex)
    BY <1>1, <1>7, ActionOfValues DEF Proceed
  <2>2. Scanning /\ channelIndex \in DOMAIN channels
    BY <1>7 DEF Scanning, ScanState, Inv, ScanInPlan
  <2> QED
    BY <1>2, <1>7, <2>1, <2>2, RestoreLeads, TuneLeads DEF Leads
<1>8. CASE state = "scanningTune"
  <2>1. RestoreScan(waitingCommand) \/ DwellBegins
    BY <1>1, <1>8, ActionOfValues DEF Proceed
  <2>2. Scanning /\ channelIndex \in DOMAIN channels
    BY <1>8 DEF Scanning, ScanState, Inv, ScanInPlan
  <2> QED
    BY <1>2, <1>8, <2>1, <2>2, RestoreLeads, DwellLeads DEF Leads
<1>9. CASE state = "scanningRestore"
  <2>1. BeginAction(waitingCommand, ActionOf["scanningEnd"], "scanningEnd", NoChannel, serial)
    BY <1>1, <1>9, ActionOfValues DEF Proceed
  <2> QED
    BY <1>2, <1>9, <2>1, BeginActionLeads, ActionOfValues
<1>10. CASE state = "scanningEnd"
  <2>1. CompleteScan(waitingCommand)
    BY <1>1, <1>10, ActionOfValues DEF Proceed
  <2> QED
    BY <1>10, <2>1, CompleteScanLeads
<1>11. CASE state = "preparingAuthentication"
  <2>1. BeginDisconnect(waitingCommand) \/ AuthenticationBegins
    BY <1>1, <1>11, ActionOfValues DEF Proceed
  <2> QED
    BY <1>2, <1>11, <2>1, DisconnectLeads, AuthenticationLeads DEF Leads
<1>12. CASE state = "installingAssociationCmac"
  <2>1. BeginDisconnect(waitingCommand) \/ BeginCommand(waitingCommand, OrderOf["joining"], "joining", mode)
    BY <1>1, <1>12, ActionOfValues, OrderOfValues DEF Proceed
  <2> QED
    BY <1>2, <1>12, <2>1, DisconnectLeads, BeginCommandLeads, OrderOfValues DEF Leads
<1>13. CASE state = "installingAssociationCam"
  <2>1. BeginDisconnect(waitingCommand) \/ Settle("associated", "controlledPort", deadline, {"setTraffic"})
    BY <1>1, <1>13, ActionOfValues DEF Proceed
  <2> QED
    BY <1>2, <1>3, <1>4, <1>13, <2>1, DisconnectLeads, SettleLeads DEF Leads
<1>14. CASE state = "disconnectingCmac"
  <2>1. BeginCommand(waitingCommand, OrderOf["disconnecting"], "disconnecting", mode)
    BY <1>1, <1>14, ActionOfValues, OrderOfValues DEF Proceed
  <2> QED
    BY <1>2, <1>14, <2>1, BeginCommandLeads, OrderOfValues
<1>15. CASE state = "disconnectingCam"
  <2>1. Settle("idle", "management", deadline, {"setTraffic"})
    BY <1>1, <1>15, ActionOfValues DEF Proceed
  <2> QED
    BY <1>2, <1>3, <1>4, <1>15, <2>1, SettleLeads
<1>16. CASE state = "removingCam"
  <2>1. Settle("stopped", mode, deadline, {})
    BY <1>1, <1>16, ActionOfValues DEF Proceed
  <2> QED
    BY <1>2, <1>3, <1>4, <1>16, <2>1, SettleLeads
<1> QED
  BY <1>1, <1>5, <1>6, <1>7, <1>8, <1>9, <1>10, <1>11, <1>12, <1>13, <1>14,
     <1>15, <1>16, ActionOfValues

\* The state reached when the awaited command is done.
LEMMA CommandDoneLeads ==
  ASSUME Inv, lastNow' \in Time, waitingCommand, CommandDone
  PROVE  \/ state = "creatingRole" /\ Leads({"initialNoLink"})
         \/ state = "initialNoLink" /\ Leads({"installingIdle"})
         \/ state = "joining"
              /\ Leads({"disconnectingCmac", "installingAssociationCam"})
         \/ state = "disconnecting" /\ Leads({"disconnectingCam"})
         \/ state = "removingRole" /\ Leads({"removingCam"})
<1>1. /\ TypeOK /\ mode \in Traffic /\ serial \in 0 .. MaxSerial
  BY DEF Inv, TypeOK, EngineOK
<1>2. CASE state = "creatingRole"
  <2>1. BeginCommand(waitingAction, OrderOf["initialNoLink"], "initialNoLink", mode)
    BY <1>2, OrderOfValues DEF CommandDone
  <2> QED
    BY <1>1, <1>2, <2>1, BeginCommandLeads, OrderOfValues
<1>3. CASE state = "initialNoLink"
  <2>1. BeginAction(waitingAction, ActionOf["installingIdle"], "installingIdle", NoChannel, serial)
    BY <1>3, ActionOfValues DEF CommandDone
  <2> QED
    BY <1>1, <1>3, <2>1, BeginActionLeads, ActionOfValues
<1>4. CASE state = "joining"
  <2>1. \/ BeginDisconnect(waitingAction)
        \/ BeginAction(waitingAction, ActionOf["installingAssociationCam"], "installingAssociationCam", NoChannel, serial)
    BY <1>4, ActionOfValues DEF CommandDone
  <2> QED
    BY <1>1, <1>4, <2>1, DisconnectLeads, BeginActionLeads, ActionOfValues DEF Leads
<1>5. CASE state = "disconnecting"
  <2>1. BeginAction(waitingAction, ActionOf["disconnectingCam"], "disconnectingCam", NoChannel, serial)
    BY <1>5, ActionOfValues DEF CommandDone
  <2> QED
    BY <1>1, <1>5, <2>1, BeginActionLeads, ActionOfValues
<1>6. CASE state = "removingRole"
  <2>1. BeginAction(waitingAction, ActionOf["removingCam"], "removingCam", NoChannel, serial)
    BY <1>6, ActionOfValues DEF CommandDone
  <2> QED
    BY <1>1, <1>6, <2>1, BeginActionLeads, ActionOfValues
<1> QED
  BY <1>2, <1>3, <1>4, <1>5, <1>6 DEF CommandDone

\* A caller that starts a second operation after expire() only faults.
LEMMA StartTwiceLeads ==
  ASSUME TypeOK, StartTwice, NEW states
  PROVE  Leads(states) /\ state' = "faulted"
<1>1. CASE Fail
  BY <1>1, FailLeads DEF Fail, FailWith, TypeOK, EngineOK
<1>2. CASE ~Fail
  <2> DEFINE r == [token |-> NewToken(serial + 1),
                   action |-> "disconnectCmac", channel |-> NoChannel]
  <2>1. serial # MaxSerial /\ FailWith(requests \cup {r}, h2c)
    BY <1>2 DEF StartTwice, Refused
  <2>2. NewToken(serial + 1) \in Token
    BY <2>1, Bounds DEF NewToken, Token, TypeOK, StableOK, EngineOK
  <2>3. r \in Request
    BY <2>2, ActionValues DEF Request
  <2> QED
    BY <2>1, <2>3, FailLeads DEF FailWith, TypeOK, EngineOK
<1> QED
  BY <1>1, <1>2

----------------------------------------------------------------------------
(* The entry points preserve the invariant. *)

\* The scan's part of the type invariant depends on its variables alone.
LEMMA ScanKept == ASSUME ScanOK, UNCHANGED scanVars PROVE ScanOK'
  BY DEF ScanOK, scanVars, scanPlan

\* The link's part of the type invariant depends on its variables alone.
LEMMA LinkKept == ASSUME LinkOK, UNCHANGED linkVars PROVE LinkOK'
  BY DEF LinkOK, linkVars, attemptVars

\* So does the part about epochs, serials and the device.
LEMMA StableKept ==
  ASSUME StableOK, lastNow' \in Time, UNCHANGED stableVars PROVE StableOK'
  BY DEF StableOK, stableVars, deviceVars

\* And the part about the operation in progress.
LEMMA EngineKept ==
  ASSUME EngineOK, Paired, UNCHANGED engineVars
  PROVE  EngineOK' /\ Paired' /\ state' = state
<1>1. EngineOK' /\ state' = state
  BY DEF EngineOK, engineVars, pendingVars
<1>2. Paired'
  BY DEF Paired, engineVars, pendingVars
<1> QED
  BY <1>1, <1>2

\* The fault latch satisfies the rest of the invariant.
LEMMA FaultKeeps ==
  ASSUME state' = "faulted"
  PROVE  ScanInPlan' /\ PeerKnown' /\ NothingLeft'
  BY DEF ScanInPlan, PeerKnown, Attached, Scanning, ScanState, LinkState,
         NothingLeft

\* fail() as the entry points use it: engine typed, nothing left behind.
LEMMA FailParts ==
  ASSUME Inv, Fail
  PROVE  EngineOK' /\ Paired' /\ ScanInPlan' /\ PeerKnown' /\ NothingLeft'
  BY FailLeads, FaultKeeps DEF Fail, FailWith, Inv, TypeOK, EngineOK, Leads

\* restart() after a proven shutdown preserves the invariant.
LEMMA RestartKeeps ==
  ASSUME Inv, NEW e \in 1 .. MaxEpoch, NEW now \in Time, Restart(e, now)
  PROVE  Inv'
<1>1. NoToken \in Token
  BY Bounds DEF NoToken, Token
<1>2. waitingAction' = FALSE /\ waitingCommand' = FALSE
  BY DEF Restart
<1>3. waitingAction' \in BOOLEAN /\ waitingCommand' \in BOOLEAN /\ Paired'
  BY <1>2 DEF Paired
<1>4. /\ state' \in State /\ serial' \in 0 .. MaxSerial
      /\ pendingToken' \in Token /\ mode' \in Traffic
      /\ h2c' \subseteq Command /\ nextSequence' \in Sequence
      /\ radio' \in Channel \cup {NoChannel}
  BY <1>1, Bounds DEF Restart, State, Traffic, Sequence
<1>5. EngineOK'
  BY <1>3, <1>4 DEF Restart, Inv, TypeOK, EngineOK
<1>6. scanCancelled' \in BOOLEAN /\ authenticated' \in BOOLEAN
      /\ disconnectRequested' \in BOOLEAN /\ portOpen' \in BOOLEAN
      /\ roleCreated' \in BOOLEAN
  BY DEF Restart
<1>7. ScanOK' /\ LinkOK'
  BY <1>1, <1>6 DEF Restart, Inv, TypeOK, ScanOK, LinkOK
<1>8. firmware' \in [role : BOOLEAN, link : BOOLEAN]
  BY DEF Restart
<1>9. StableOK'
  BY <1>6, <1>8, Bounds DEF Restart, Inv, TypeOK, StableOK
<1>10. state' = "stopped" /\ associationToken' = NoToken
       /\ scanToken' = NoToken
       /\ ~authenticated' /\ ~disconnectRequested'
  BY DEF Restart
<1>11. ScanInPlan' /\ PeerKnown' /\ NothingLeft'
  BY <1>10 DEF ScanInPlan, PeerKnown, Attached, NothingLeft, Scanning,
               ScanState, LinkState
<1> QED
  BY <1>3, <1>5, <1>7, <1>9, <1>11 DEF Inv, TypeOK

\* A clock that runs back faults the controller, which preserves it.
LEMMA ClockKeeps ==
  ASSUME Inv, ClockRunsBack PROVE Inv'
<1>1. Fail /\ UNCHANGED <<lastNow, scanVars, linkVars, stableVars>>
  BY DEF ClockRunsBack
<1>2. lastNow' \in Time
  BY <1>1 DEF Inv, TypeOK, StableOK
<1>3. ScanOK' /\ LinkOK' /\ StableOK'
  BY <1>1, <1>2, ScanKept, LinkKept, StableKept DEF Inv, TypeOK
<1> QED
  BY <1>1, <1>3, FailParts DEF Inv, TypeOK

\* start() preserves the invariant.
LEMMA StartKeeps ==
  ASSUME Inv, NEW channel \in Channel, NEW now \in Time, Start(channel, now)
  PROVE  Inv'
<1>1. lastNow' \in Time /\ state = "stopped" /\ home' = channel
  BY DEF Start, Live
<1>2. BeginQuietAction(Waiting, ActionOf["preparing"], "preparing", channel,
                       serial)
  BY ActionOfValues DEF Start
<1>3. Leads({"preparing"})
  BY <1>1, <1>2, QuietActionLeads, ActionOfValues DEF Inv, TypeOK, EngineOK
<1>4. ScanOK' /\ StableOK'
  BY <1>1, ScanKept, StableKept DEF Start, Inv, TypeOK
<1>5. LinkOK'
  BY <1>1 DEF Start, Inv, TypeOK, LinkOK, attemptVars
<1>6. /\ associationToken = NoToken /\ ~authenticated /\ ~disconnectRequested
      /\ scanToken = NoToken
  BY <1>1 DEF Inv, NothingLeft, Attached, Scanning, ScanState, LinkState
<1>7. /\ associationToken' = NoToken /\ ~authenticated'
      /\ ~disconnectRequested' /\ scanToken' = NoToken
  BY <1>6 DEF Start, attemptVars, scanVars, scanPlan
<1>8. state' \in {"preparing", "faulted"}
  BY <1>3 DEF Leads
<1>9. ScanInPlan' /\ PeerKnown' /\ NothingLeft'
  BY <1>7, <1>8 DEF ScanInPlan, PeerKnown, Attached, NothingLeft, Scanning,
                    ScanState, LinkState
<1> QED
  BY <1>3, <1>4, <1>5, <1>9 DEF Leads, Inv, TypeOK

\* scan() preserves the invariant, accepted or not.
LEMMA ScanKeeps ==
  ASSUME Inv, NEW plan \in Plan, NEW now \in Time, Scan(plan, now)
  PROVE  Inv'
<1>1. /\ lastNow' \in Time /\ lastNow' = now /\ state \in {"idle", "authorized"}
      /\ UNCHANGED <<linkVars, stableVars>>
  BY DEF Scan, Live
<1>2. LinkOK' /\ StableOK'
  BY <1>1, LinkKept, StableKept DEF Inv, TypeOK
<1>3. CASE Fail /\ UNCHANGED scanVars
  BY <1>2, <1>3, ScanKept, FailParts DEF Inv, TypeOK
<1>4. CASE ~(Fail /\ UNCHANGED scanVars)
  <2>1. /\ ~(MaxTime - now < Budget(plan)) /\ serial # MaxSerial
        /\ channels' = plan /\ channelIndex' = 1
        /\ scanResume' = state /\ scanCancelled' = FALSE
        /\ scanToken' = NewToken(serial + 1)
        /\ scanDeadline' = now + Budget(plan)
        /\ BeginQuietAction(Waiting, ActionOf["scanningBegin"],
                            "scanningBegin", NoChannel, serial + 1)
    BY <1>4, ActionOfValues DEF Scan
  <2>2. serial + 1 \in 0 .. MaxSerial
    BY <2>1, Bounds DEF Inv, TypeOK, EngineOK
  <2>3. Leads({"scanningBegin"})
    BY <1>1, <2>1, <2>2, QuietActionLeads, ActionOfValues DEF Inv
  <2>4. scanToken' \in Token
    BY <2>1, <2>2 DEF NewToken, Token, Inv, TypeOK, StableOK
  <2>5. scanDeadline' \in Time
    BY <2>1, BudgetAssumption, ArmInTime
  <2>6. scanCancelled' \in BOOLEAN
    BY <2>1
  <2>7. ScanOK'
    BY <1>1, <2>1, <2>4, <2>5, <2>6 DEF ScanOK
  <2>8. plan \in Seq(ScanChannel) /\ plan # <<>>
    BY ConstantsAssumption DEF ConstantsAssumption
  <2>9. 1 \in DOMAIN plan
    BY <2>8
  <2>10. state' \in {"scanningBegin", "faulted"}
    BY <2>3 DEF Leads
  <2>11. ScanInPlan'
    BY <2>1, <2>9 DEF ScanInPlan
  <2>12. Attached <=> state = "authorized"
    BY <1>1 DEF Attached, LinkState, Scanning, ScanState
  <2>13. Attached' => Attached
    BY <1>1, <2>1, <2>10, <2>12 DEF Attached, LinkState, Scanning
  <2>14. state' = "scanningBegin" => Scanning' /\ (Attached => Attached')
    BY <1>1, <2>1, <2>12 DEF Attached, LinkState, Scanning, ScanState
  <2>15. PeerKnown'
    BY <1>1, <2>13 DEF Inv, PeerKnown, linkVars, attemptVars
  <2>16. NothingLeft'
    BY <1>1, <2>10, <2>14 DEF Inv, NothingLeft, linkVars, attemptVars
  <2> QED
    BY <1>2, <2>3, <2>7, <2>11, <2>15, <2>16 DEF Leads, Inv, TypeOK
<1> QED
  BY <1>3, <1>4

\* What the ends of a scan have in common: nothing but its states, the flag
\* that it was cancelled and a disconnect request of a linked scan change.
LEMMA ScanMoves ==
  ASSUME Inv, Scanning, lastNow' \in Time,
         Leads({"scanningRestore"}) \/ UNCHANGED engineVars,
         disconnectRequested' \in BOOLEAN, scanCancelled' \in BOOLEAN,
         disconnectRequested' => disconnectRequested \/ scanResume # "idle",
         UNCHANGED <<scanPlan, scanResume, channelIndex, attemptVars, home,
                     portOpen, stableVars>>
  PROVE  Inv'
<1>1. EngineOK' /\ Paired' /\ state' \in {"scanningRestore", "faulted", state}
  BY EngineKept DEF Leads, Inv, TypeOK
<1>2. ScanOK'
  BY DEF Inv, TypeOK, ScanOK, scanPlan
<1>3. LinkOK'
  BY DEF Inv, TypeOK, LinkOK, attemptVars
<1>4. StableOK'
  BY StableKept DEF Inv, TypeOK
<1>5. state' # "faulted" => Scanning' /\ (Attached' <=> Attached)
  BY <1>1 DEF Attached, Scanning, ScanState, LinkState
<1>6. ScanInPlan'
  BY <1>1 DEF Inv, ScanInPlan, scanPlan
<1>7. state # "faulted" /\ (scanResume # "idle" => Attached)
  BY DEF Scanning, ScanState, Attached
<1>8. PeerKnown' /\ NothingLeft'
  <2>1. CASE state' = "faulted"
    BY <2>1, FaultKeeps
  <2>2. CASE state' # "faulted"
    BY <1>5, <1>7, <2>2 DEF Inv, PeerKnown, NothingLeft, attemptVars, scanPlan
  <2> QED
    BY <2>1, <2>2
<1> QED
  BY <1>1, <1>2, <1>3, <1>4, <1>6, <1>8 DEF Inv, TypeOK

\* cancelScan() preserves the invariant.
LEMMA CancelScanKeeps ==
  ASSUME Inv, NEW now \in Time, CancelScan(scanToken, now)
  PROVE  Inv'
<1>1. lastNow' \in Time /\ Scanning /\ scanCancelled' \in BOOLEAN
  BY DEF CancelScan, Live
<1>2. Leads({"scanningRestore"}) \/ UNCHANGED engineVars
  BY <1>1, RestoreLeads DEF CancelScan
<1>3. UNCHANGED <<scanPlan, scanResume, channelIndex, linkVars, stableVars>>
  BY DEF CancelScan
<1>4. disconnectRequested' = disconnectRequested
      /\ disconnectRequested \in BOOLEAN
  BY <1>3 DEF linkVars, Inv, TypeOK, LinkOK
<1> QED
  BY <1>1, <1>2, <1>3, <1>4, ScanMoves DEF linkVars

\* disconnect() during a scan preserves the invariant.
LEMMA DisconnectScanKeeps ==
  ASSUME Inv, NEW now \in Time, DisconnectScan(now)
  PROVE  Inv'
<1>1. lastNow' \in Time /\ Scanning
  BY DEF DisconnectScan, Live
<1>2. Leads({"scanningRestore"}) \/ UNCHANGED engineVars
  BY <1>1, RestoreLeads DEF DisconnectScan
<1>3. UNCHANGED <<scanPlan, scanResume, channelIndex, attemptVars, home,
                  portOpen, stableVars>>
  BY DEF DisconnectScan
<1>4. disconnectRequested' \in BOOLEAN /\ scanCancelled' \in BOOLEAN
      /\ (disconnectRequested' => disconnectRequested \/ scanResume # "idle")
  BY DEF DisconnectScan
<1> QED
  BY <1>1, <1>2, <1>3, <1>4, ScanMoves

\* connect() preserves the invariant.
LEMMA ConnectKeeps ==
  ASSUME Inv, NEW p \in Peer, NEW now \in Time, Connect(p, now)
  PROVE  Inv'
<1>1. /\ lastNow' \in Time /\ state = "idle" /\ peer' = p
      /\ UNCHANGED <<scanVars, home, disconnectRequested, stableVars>>
  BY DEF Connect, Live
<1>2. authenticated' \in BOOLEAN /\ portOpen' \in BOOLEAN
  BY DEF Connect
<1>3. ScanOK' /\ StableOK'
  BY <1>1, ScanKept, StableKept DEF Inv, TypeOK
<1>4. CASE Fail /\ associationToken' = NoToken
  <2>1. associationToken' \in Token
    BY <1>4, Bounds DEF NoToken, Token
  <2>2. LinkOK'
    BY <1>1, <1>2, <2>1 DEF Inv, TypeOK, LinkOK
  <2> QED
    BY <1>3, <1>4, <2>2, FailParts DEF Inv, TypeOK
<1>5. CASE ~(Fail /\ associationToken' = NoToken)
  <2>1. /\ serial # MaxSerial /\ associationToken' = NewToken(serial + 1)
        /\ BeginQuietAction(Waiting, ActionOf["preparingAuthentication"],
                            "preparingAuthentication", PeerChannel[p],
                            serial + 1)
    BY <1>5, ActionOfValues DEF Connect
  <2>2. serial + 1 \in 0 .. MaxSerial
    BY <2>1, Bounds DEF Inv, TypeOK, EngineOK
  <2>3. PeerChannel[p] \in Channel \cup {NoChannel}
    BY ConstantsAssumption DEF ConstantsAssumption
  <2>4. Leads({"preparingAuthentication"})
    BY <1>1, <2>1, <2>2, <2>3, QuietActionLeads, ActionOfValues DEF Inv
  <2>5. associationToken' \in Token
    BY <2>1, <2>2 DEF NewToken, Token, Inv, TypeOK, StableOK
  <2>6. LinkOK'
    BY <1>1, <1>2, <2>5 DEF Inv, TypeOK, LinkOK
  <2>7. state' \in {"preparingAuthentication", "faulted"}
    BY <2>4 DEF Leads
  <2>8. scanToken' = NoToken
    BY <1>1 DEF Inv, NothingLeft, Scanning, ScanState, scanVars, scanPlan
  <2>9. ScanInPlan' /\ PeerKnown' /\ NothingLeft'
    BY <1>1, <2>7, <2>8 DEF ScanInPlan, PeerKnown, NothingLeft, Attached,
                            LinkState
  <2> QED
    BY <1>3, <2>4, <2>6, <2>9 DEF Leads, Inv, TypeOK
<1> QED
  BY <1>4, <1>5

\* What the steps within an attempt or a link have in common: its token and
\* peer stay, and so does the scan left behind.
LEMMA LinkMoves ==
  ASSUME Inv, state \in LinkState,
         Leads(LinkState) \/ UNCHANGED engineVars,
         UNCHANGED <<scanVars, associationToken, peer>>,
         home' \in Channel \cup {NoChannel},
         authenticated' \in BOOLEAN, disconnectRequested' \in BOOLEAN,
         portOpen' \in BOOLEAN,
         StableOK'
  PROVE  Inv'
<1>1. EngineOK' /\ Paired' /\ state' \in LinkState \cup {"faulted"}
  BY EngineKept DEF Leads, Inv, TypeOK
<1>2. ScanOK'
  BY ScanKept DEF Inv, TypeOK
<1>3. LinkOK'
  BY DEF Inv, TypeOK, LinkOK
<1>4. Attached /\ peer \in Peer /\ scanToken = NoToken
  BY DEF Inv, Attached, PeerKnown, NothingLeft, LinkState, Scanning, ScanState
<1>5. ScanInPlan' /\ PeerKnown' /\ NothingLeft'
  <2>1. CASE state' = "faulted"
    BY <2>1, FaultKeeps
  <2>2. CASE state' \in LinkState
    BY <1>4, <2>2 DEF ScanInPlan, PeerKnown, NothingLeft, Attached, LinkState,
                      scanVars, scanPlan
  <2> QED
    BY <1>1, <2>1, <2>2
<1> QED
  BY <1>1, <1>2, <1>3, <1>5 DEF Inv, TypeOK

\* disconnect() outside a scan preserves the invariant.
LEMMA DisconnectKeeps ==
  ASSUME Inv, NEW now \in Time, Disconnect(now)
  PROVE  Inv'
<1>1. /\ lastNow' \in Time /\ state \in LinkState
      /\ UNCHANGED <<scanVars, attemptVars, home, portOpen, stableVars>>
  BY DEF Disconnect, Live
<1>2. disconnectRequested' \in BOOLEAN
  BY DEF Disconnect
<1>6. Leads(LinkState)
  <2>1. CASE BeginDisconnect(Waiting)
    BY <1>1, <2>1, DisconnectLeads DEF Inv, Leads, LinkState
  <2>2. CASE Fail
    BY <2>2, FailLeads DEF Fail, Inv, TypeOK, EngineOK
  <2>3. CASE /\ mode' = "none"
             /\ UNCHANGED <<state, pendingVars, waitingAction, waitingCommand,
                            deadline, requests, h2c, nextSequence, radio>>
    <3>1. EngineOK'
      BY <2>3 DEF Inv, TypeOK, EngineOK, pendingVars, Traffic
    <3>2. Paired'
      BY <2>3 DEF Inv, Paired, pendingVars
    <3> QED
      BY <1>1, <2>3, <3>1, <3>2 DEF Leads
  <2> QED
    BY <2>1, <2>2, <2>3 DEF Disconnect, Refused
<1>7. StableOK'
  BY <1>1, StableKept DEF Inv, TypeOK
<1> QED
  BY <1>1, <1>2, <1>6, <1>7, LinkMoves DEF Inv, TypeOK, LinkOK, attemptVars

\* stop() preserves the invariant.
LEMMA StopKeeps ==
  ASSUME Inv, NEW now \in Time, Stop(now)
  PROVE  Inv'
<1>1. /\ lastNow' \in Time /\ state = "idle"
      /\ UNCHANGED <<scanVars, linkVars, stableVars>>
  BY DEF Stop, Live
<1>2. ScanOK' /\ LinkOK' /\ StableOK'
  BY <1>1, ScanKept, LinkKept, StableKept DEF Inv, TypeOK
<1>3. CASE Fail
  BY <1>2, <1>3, FailParts DEF Inv, TypeOK
<1>4. CASE BeginCommand(Waiting, OrderOf["removingRole"], "removingRole", "none")
  <2>1. Leads({"removingRole"})
    BY <1>1, <1>4, BeginCommandLeads, OrderOfValues DEF Inv, Traffic
  <2>2. /\ associationToken' = NoToken /\ ~authenticated'
        /\ ~disconnectRequested' /\ scanToken' = NoToken
    BY <1>1 DEF Inv, NothingLeft, Attached, Scanning, ScanState, LinkState,
                linkVars, attemptVars, scanVars, scanPlan
  <2>3. state' \in {"removingRole", "faulted"}
    BY <2>1 DEF Leads
  <2>4. ScanInPlan' /\ PeerKnown' /\ NothingLeft'
    BY <2>2, <2>3 DEF ScanInPlan, PeerKnown, NothingLeft, Attached, Scanning,
                      ScanState, LinkState
  <2> QED
    BY <1>2, <2>1, <2>4 DEF Leads, Inv, TypeOK
<1> QED
  BY <1>3, <1>4, OrderOfValues DEF Stop, Refused

\* A step that leaves engine, scan and link alone.
LEMMA QuietKeeps ==
  ASSUME Inv, UNCHANGED <<engineVars, scanVars, linkVars>>, StableOK'
  PROVE  Inv'
<1>1. EngineOK' /\ Paired' /\ state' = state /\ ScanOK' /\ LinkOK'
  BY EngineKept, ScanKept, LinkKept DEF Inv, TypeOK
<1>2. ScanInPlan' /\ PeerKnown' /\ NothingLeft'
  BY <1>1 DEF Inv, ScanInPlan, PeerKnown, NothingLeft, Attached, Scanning,
              linkVars, attemptVars, scanVars, scanPlan
<1> QED
  BY <1>1, <1>2 DEF Inv, TypeOK

\* A call the controller turns down preserves the invariant.
LEMMA TurnedDownKeeps ==
  ASSUME Inv, NEW now \in Time, TurnedDown(now)
  PROVE  Inv'
  BY StableKept, QuietKeeps DEF TurnedDown, Live, Inv, TypeOK

\* tick() preserves the invariant: expiry, dwell end or nothing.
LEMMA TickKeeps ==
  ASSUME Inv, NEW now \in Time, Tick(now)
  PROVE  Inv'
<1>1. /\ lastNow' \in Time
      /\ UNCHANGED <<scanPlan, scanResume, scanCancelled, attemptVars, home,
                     portOpen, stableVars>>
  BY DEF Tick, Live
<1>2. StableOK'
  BY <1>1, StableKept DEF Inv, TypeOK
<1>3. CASE Fail /\ UNCHANGED <<channelIndex, disconnectRequested>>
  <2>1. UNCHANGED <<scanVars, linkVars>>
    BY <1>1, <1>3 DEF scanVars, linkVars
  <2> QED
    BY <1>2, <1>3, <2>1, ScanKept, LinkKept, FailParts DEF Inv, TypeOK
<1>4. CASE /\ AuthenticationExpired(now) /\ disconnectRequested' = TRUE
           /\ BeginDisconnect(Waiting) /\ UNCHANGED channelIndex
  <2>1. state \in LinkState
    BY <1>4 DEF AuthenticationExpired, LinkState
  <2>2. Leads(LinkState)
    BY <1>1, <1>4, DisconnectLeads DEF Inv, Leads, LinkState
  <2>3. disconnectRequested' \in BOOLEAN
    BY <1>4
  <2>4. UNCHANGED <<scanVars, associationToken, peer>>
    BY <1>1, <1>4 DEF scanVars, attemptVars
  <2>5. /\ home' \in Channel \cup {NoChannel} /\ authenticated' \in BOOLEAN
        /\ portOpen' \in BOOLEAN
    BY <1>1 DEF attemptVars, Inv, TypeOK, LinkOK
  <2> QED
    BY <1>2, <2>1, <2>2, <2>3, <2>4, <2>5, LinkMoves
<1>5. CASE /\ state = "scanningDwell"
           /\ channelIndex' = channelIndex + (IF scanCancelled THEN 0 ELSE 1)
           /\ IF scanCancelled \/ channelIndex' > Len(channels)
              THEN RestoreScan(Waiting)
              ELSE TuneScan(Waiting, channelIndex')
           /\ UNCHANGED disconnectRequested
  <2>1. Scanning /\ channelIndex \in DOMAIN channels
    BY <1>5 DEF Scanning, ScanState, Inv, ScanInPlan
  <2>2. channels \in Seq(ScanChannel)
    BY <2>1, PlanEntry, ConstantsAssumption
    DEF Inv, TypeOK, ConstantsAssumption
  <2>3. channelIndex' \in Nat \ {0}
    BY <1>5 DEF Inv, TypeOK, ScanOK
  <2>4. channelIndex' <= Len(channels) => channelIndex' \in DOMAIN channels
    BY <2>2, <2>3
  <2>5. \/ Leads({"scanningRestore"})
        \/ Leads({"scanningTune"}) /\ channelIndex' \in DOMAIN channels
    <3>1. CASE RestoreScan(Waiting)
      BY <1>1, <2>1, <3>1, RestoreLeads
    <3>2. CASE TuneScan(Waiting, channelIndex')
               /\ ~(channelIndex' > Len(channels))
      <4>1. Len(channels) \in Nat
        BY <2>2
      <4>2. channelIndex' \in DOMAIN channels
        BY <2>3, <2>4, <3>2, <4>1
      <4> QED
        BY <1>1, <3>2, <4>2, TuneLeads DEF Inv
    <3> QED
      BY <1>5, <3>1, <3>2
  <2>6. state' \in {"scanningRestore", "scanningTune", "faulted"}
        /\ EngineOK' /\ Paired'
    BY <2>5 DEF Leads
  <2>7. ScanInPlan'
    BY <1>1, <2>5, <2>6 DEF ScanInPlan, Leads, scanPlan
  <2>8. ScanOK'
    BY <1>1, <2>3 DEF Inv, TypeOK, ScanOK, scanPlan
  <2>9. LinkOK'
    BY <1>1, <1>5 DEF Inv, TypeOK, LinkOK, attemptVars
  <2>10. PeerKnown' /\ NothingLeft'
    <3>1. CASE state' = "faulted"
      BY <3>1, FaultKeeps
    <3>2. CASE state' \in {"scanningRestore", "scanningTune"}
      <4>1. Scanning' /\ (Attached' <=> Attached) /\ state # "faulted"
        BY <1>1, <1>5, <2>1, <3>2 DEF Attached, Scanning, ScanState, LinkState
      <4> QED
        BY <1>1, <1>5, <4>1 DEF Inv, PeerKnown, NothingLeft, attemptVars
    <3> QED
      BY <2>6, <3>1, <3>2
  <2> QED
    BY <1>2, <2>6, <2>7, <2>8, <2>9, <2>10 DEF Inv, TypeOK
<1>6. CASE UNCHANGED <<engineVars, channelIndex, disconnectRequested>>
  BY <1>1, <1>2, <1>6, QuietKeeps DEF scanVars, linkVars
<1> QED
  BY <1>3, <1>4, <1>5, <1>6 DEF Tick

----------------------------------------------------------------------------
(* Protocol evidence preserves the invariant. *)

\* authenticated() preserves the invariant.
LEMMA AuthenticatedKeeps ==
  ASSUME Inv, NEW original, NEW bssid, NEW success \in BOOLEAN,
         NEW now \in Time, Authenticated(original, bssid, success, now)
  PROVE  Inv'
<1>1. /\ lastNow' \in Time /\ state = "authenticating"
      /\ UNCHANGED <<scanVars, associationToken, peer, home, portOpen,
                     stableVars>>
  BY DEF Authenticated, Live, Evidence
<1>2. state \in LinkState
  BY <1>1 DEF LinkState
<1>3. StableOK'
  BY <1>1, StableKept DEF Inv, TypeOK
<1>4. authenticated' \in BOOLEAN /\ disconnectRequested' \in BOOLEAN
  BY DEF Authenticated, Inv, TypeOK, LinkOK
<1>5. BeginDisconnect(Waiting) \/ StartTwice \/ UNCHANGED engineVars
  BY DEF Authenticated
<1>6. Leads(LinkState) \/ UNCHANGED engineVars
  BY <1>1, <1>5, DisconnectLeads, StartTwiceLeads DEF Inv, Leads, LinkState
<1> QED
  BY <1>1, <1>2, <1>3, <1>4, <1>6, LinkMoves DEF Inv, TypeOK, LinkOK

\* associationReceived() and associationRejected() preserve it.
LEMMA AssociationKeeps ==
  ASSUME Inv, NEW original, NEW bssid, NEW now \in Time,
         \/ AssociationReceived(original, bssid, now)
         \/ AssociationRejected(original, bssid, now)
  PROVE  Inv'
<1>1. /\ lastNow' \in Time /\ state = "authenticating"
      /\ UNCHANGED <<scanVars, attemptVars, home, portOpen, stableVars>>
  BY DEF AssociationReceived, AssociationRejected, Live, Evidence
<1>2. state \in LinkState
  BY <1>1 DEF LinkState
<1>3. StableOK'
  BY <1>1, StableKept DEF Inv, TypeOK
<1>4. disconnectRequested' \in BOOLEAN
  BY DEF AssociationReceived, AssociationRejected, Inv, TypeOK, LinkOK
<1>5. \/ BeginDisconnect(Waiting) \/ StartTwice
      \/ BeginAction(Waiting, ActionOf["installingAssociationCmac"],
                     "installingAssociationCmac", NoChannel, serial)
  BY ActionOfValues DEF AssociationReceived, AssociationRejected
<1>6. Leads(LinkState)
  <2>1. CASE BeginDisconnect(Waiting) \/ StartTwice
    BY <1>1, <2>1, DisconnectLeads, StartTwiceLeads DEF Inv, Leads, LinkState
  <2>2. CASE BeginAction(Waiting, ActionOf["installingAssociationCmac"],
                         "installingAssociationCmac", NoChannel, serial)
    BY <1>1, <2>2, BeginActionLeads, ActionOfValues
    DEF Inv, TypeOK, EngineOK, Leads, LinkState
  <2> QED
    BY <1>5, <2>1, <2>2
<1> QED
  BY <1>1, <1>2, <1>3, <1>4, <1>6, LinkMoves
  DEF Inv, TypeOK, LinkOK, attemptVars

\* authorizePort() and revokePort() preserve the invariant.
LEMMA PortKeeps ==
  ASSUME Inv, NEW original, NEW now \in Time,
         AuthorizePort(original, now) \/ RevokePort(original, now)
  PROVE  Inv'
<1>1. /\ lastNow' \in Time
      /\ UNCHANGED <<scanPlan, channelIndex, scanCancelled, attemptVars, home,
                     disconnectRequested, stableVars>>
  BY DEF AuthorizePort, RevokePort, Live, scanVars
<1>2. StableOK'
  BY <1>1, StableKept DEF Inv, TypeOK
<1>3. portOpen' \in BOOLEAN
  BY DEF AuthorizePort, RevokePort
<1>4. LinkOK'
  BY <1>1, <1>3 DEF Inv, TypeOK, LinkOK, attemptVars
<1>5. CASE /\ Linked /\ UNCHANGED scanResume
           /\ \/ Settle("authorized", "authorized", deadline, {"setTraffic"})
              \/ Settle("associated", "controlledPort", deadline,
                        {"setTraffic"})
  <2>1. state \in LinkState /\ "authorized" \in State /\ "associated" \in State
    BY <1>5 DEF Linked, LinkState, State
  <2>2. "authorized" \in Traffic /\ "controlledPort" \in Traffic
    BY DEF Traffic
  <2>3. Leads({"authorized"}) \/ Leads({"associated"})
    BY <1>5, <2>1, <2>2, SettleLeads DEF Inv, TypeOK, EngineOK
  <2>4. Leads(LinkState)
    BY <2>3 DEF Leads, LinkState
  <2>5. UNCHANGED scanVars
    BY <1>1, <1>5 DEF scanVars
  <2> QED
    BY <1>1, <1>2, <1>3, <2>1, <2>4, <2>5, LinkMoves
    DEF Inv, TypeOK, LinkOK, attemptVars
<1>6. CASE /\ Scanning /\ scanResume # "idle" /\ scanResume' = ResumeRevoked
           /\ UNCHANGED engineVars
  <2>1. EngineOK' /\ Paired' /\ state' = state
    BY <1>6, EngineKept DEF Inv, TypeOK
  <2>2. ScanOK'
    BY <1>1, <1>6 DEF Inv, TypeOK, ScanOK, ResumeRevoked, scanPlan
  <2>3. Attached /\ Attached' /\ Scanning'
    BY <1>6, <2>1 DEF Attached, Scanning, ResumeRevoked
  <2>4. ScanInPlan' /\ PeerKnown' /\ NothingLeft'
    BY <1>1, <2>1, <2>3 DEF Inv, ScanInPlan, PeerKnown, NothingLeft,
                            attemptVars, scanPlan
  <2> QED
    BY <1>2, <1>4, <2>1, <2>2, <2>4 DEF Inv, TypeOK
<1> QED
  BY <1>5, <1>6 DEF AuthorizePort, RevokePort, scanVars, Linked

----------------------------------------------------------------------------
(* Completions, acknowledgements and the device preserve the invariant. *)

\* A matching successful completion preserves the invariant.
LEMMA CompletionSucceeds ==
  ASSUME Inv, lastNow' \in Time, waitingAction,
         Proceed(pendingAction), Bookkeeping(pendingAction),
         completions' \subseteq Completion,
         UNCHANGED <<scanResume, channels, channelIndex, scanDeadline,
                     scanCancelled, portOpen, epoch, acks, firmware>>
  PROVE  Inv'
<1>1. state \in DOMAIN ActionOf /\ pendingAction = ActionOf[state]
  BY DEF Inv, Paired
<1>2. NoToken \in Token
  BY Bounds DEF NoToken, Token
<1>3. ScanOK'
  BY <1>2 DEF Bookkeeping, Inv, TypeOK, ScanOK
<1>4. attempts' \subseteq Token /\ roleCreated' \in BOOLEAN
  BY DEF Bookkeeping, Inv, TypeOK, LinkOK, StableOK
<1>5. StableOK'
  BY <1>4 DEF Inv, TypeOK, StableOK
<1>6. home' \in Channel \cup {NoChannel}
  <2>1. CASE pendingAction = "prepareAuthentication"
    <3>1. state = "preparingAuthentication"
      BY <1>1, <2>1, ActionOfValues
    <3>2. peer \in Peer
      BY <3>1 DEF Inv, PeerKnown, Attached, LinkState
    <3> QED
      BY <2>1, <3>2, ConstantsAssumption DEF Bookkeeping, ConstantsAssumption
  <2>2. CASE pendingAction # "prepareAuthentication"
    BY <2>2 DEF Bookkeeping, Inv, TypeOK, LinkOK
  <2> QED
    BY <2>1, <2>2
<1>7. authenticated' \in BOOLEAN /\ disconnectRequested' \in BOOLEAN
      /\ portOpen' \in BOOLEAN
  BY DEF Bookkeeping, Inv, TypeOK, LinkOK, attemptVars
<1>8. LinkOK'
  BY <1>2, <1>6, <1>7 DEF Bookkeeping, Inv, TypeOK, LinkOK, attemptVars
<1>9. EngineOK' /\ Paired'
  BY ProceedLeads DEF Leads
<1>10. ScanInPlan' /\ PeerKnown' /\ NothingLeft'
  <2>1. CASE state' = "faulted"
    BY <2>1, FaultKeeps
  <2>2. CASE state' # "faulted" /\ state = "disconnectingCam"
    <3>1. state' = "idle" /\ pendingAction = "disconnectCam"
      BY <1>1, <2>2, ProceedLeads, ActionOfValues DEF Leads
    <3>2. scanToken = NoToken
      BY <2>2 DEF Inv, NothingLeft, Scanning, ScanState
    <3>3. /\ associationToken' = NoToken /\ ~authenticated'
          /\ ~disconnectRequested' /\ scanToken' = NoToken
      BY <3>1, <3>2 DEF Bookkeeping
    <3> QED
      BY <3>1, <3>3 DEF ScanInPlan, PeerKnown, NothingLeft, Attached,
                        Scanning, ScanState, LinkState
  <2>3. CASE state' # "faulted" /\ state # "disconnectingCam"
    <3>1. pendingAction # "disconnectCam"
      BY <1>1, <2>3, ActionOfValues
    <3>2. UNCHANGED <<associationToken, peer, authenticated,
                      disconnectRequested>>
      BY <3>1 DEF Bookkeeping, attemptVars
    <3>3. state # "faulted"
      BY <1>1, ActionOfValues
    <3>4. state' \in {"scanningTune", "scanningDwell"} =>
            state \in {"scanningBegin", "scanningTune"}
      BY <2>3, ProceedLeads DEF Leads, Inv, TypeOK, ScanOK
    <3>5. state' # "scanningBegin"
      BY <2>3, ProceedLeads DEF Leads, Inv, TypeOK, ScanOK
    <3>6. ScanInPlan'
      BY <3>4, <3>5 DEF Inv, ScanInPlan
    <3>7. Attached' <=> Attached
      <4>1. CASE state = "scanningEnd"
        <5>1. state' = IF disconnectRequested THEN "disconnectingCmac"
                                              ELSE scanResume
          BY <2>3, <4>1, ProceedLeads DEF Leads
        <5>2. disconnectRequested => Attached
          BY <3>3 DEF Inv, NothingLeft
        <5>3. scanResume \in {"idle", "associated", "authorized"}
          BY DEF Inv, TypeOK, ScanOK
        <5>4. Attached <=> scanResume # "idle"
          BY <4>1 DEF Attached, Scanning, ScanState, LinkState
        <5>5. Attached' <=> state' \in LinkState
          BY <5>1, <5>3 DEF Attached, Scanning, ScanState
        <5> QED
          BY <5>1, <5>2, <5>3, <5>4, <5>5 DEF LinkState
      <4>2. CASE state # "scanningEnd"
        BY <2>3, <4>2, ProceedLeads
        DEF Leads, Attached, Scanning, ScanState, LinkState
      <4> QED
        BY <4>1, <4>2
    <3>8. PeerKnown'
      BY <3>2, <3>7 DEF Inv, PeerKnown
    <3>9. scanToken' # NoToken => Scanning'
      <4>1. CASE state = "scanningEnd"
        BY <1>1, <2>3, <4>1, ActionOfValues DEF Bookkeeping
      <4>2. CASE state # "scanningEnd"
        <5>1. scanToken' = scanToken
          BY <1>1, <4>2, ActionOfValues DEF Bookkeeping
        <5>2. Scanning => Scanning'
          BY <2>3, <4>2, ProceedLeads DEF Leads, Scanning, ScanState
        <5> QED
          BY <3>3, <5>1, <5>2 DEF Inv, NothingLeft
      <4> QED
        BY <4>1, <4>2
    <3>10. NothingLeft'
      BY <3>2, <3>3, <3>7, <3>9 DEF Inv, NothingLeft
    <3> QED
      BY <3>6, <3>8, <3>10
  <2> QED
    BY <2>1, <2>2, <2>3
<1> QED
  BY <1>3, <1>5, <1>8, <1>9, <1>10 DEF Inv, TypeOK

\* actionComplete() preserves the invariant, whatever it is given.
LEMMA ActionCompleteKeeps ==
  ASSUME Inv, NEW c \in completions, NEW now \in Time, ActionComplete(c, now)
  PROVE  Inv'
<1>1. /\ lastNow' \in Time
      /\ UNCHANGED <<scanResume, channels, channelIndex, scanDeadline,
                     scanCancelled, portOpen, epoch, acks, firmware>>
  BY DEF ActionComplete, Live
<1>2. completions' \subseteq Completion
  BY DEF ActionComplete, Delivered, Inv, TypeOK, StableOK
<1>3. CASE Matches(c) /\ Proceed(c.action) /\ Bookkeeping(c.action)
  BY <1>1, <1>2, <1>3, CompletionSucceeds DEF Matches
<1>4. CASE (Fail \/ UNCHANGED engineVars)
           /\ UNCHANGED <<scanToken, home, attempts, roleCreated, attemptVars,
                          disconnectRequested>>
  <2>1. UNCHANGED <<scanVars, linkVars>>
    BY <1>1, <1>4 DEF scanVars, scanPlan, linkVars
  <2>2. ScanOK' /\ LinkOK'
    BY <2>1, ScanKept, LinkKept DEF Inv, TypeOK
  <2>3. StableOK'
    BY <1>1, <1>2, <1>4 DEF Inv, TypeOK, StableOK
  <2> QED
    BY <1>4, <2>1, <2>2, <2>3, FailParts, QuietKeeps DEF Inv, TypeOK
<1> QED
  BY <1>3, <1>4 DEF ActionComplete

\* firmwareEvent() preserves the invariant, whatever it is given.
LEMMA FirmwareEventKeeps ==
  ASSUME Inv, NEW a \in acks, NEW now \in Time, FirmwareEvent(a, now)
  PROVE  Inv'
<1>1. /\ lastNow' \in Time
      /\ UNCHANGED <<scanVars, linkVars, epoch, completions, attempts,
                     firmware>>
  BY DEF FirmwareEvent, Live
<1>2. acks' \subseteq Ack /\ roleCreated' \in BOOLEAN
  BY DEF FirmwareEvent, Inv, TypeOK, StableOK
<1>3. StableOK'
  BY <1>1, <1>2 DEF Inv, TypeOK, StableOK
<1>4. ScanOK' /\ LinkOK'
  BY <1>1, ScanKept, LinkKept DEF Inv, TypeOK
<1>5. CASE UNCHANGED engineVars
  BY <1>1, <1>3, <1>5, QuietKeeps
<1>6. CASE Fail
  BY <1>3, <1>4, <1>6, FailParts DEF Inv, TypeOK
<1>7. CASE waitingCommand /\ CommandDone
  <2>1. EngineOK' /\ Paired'
    BY <1>1, <1>7, CommandDoneLeads DEF Leads
  <2>2. state # "faulted" /\ ~Scanning
    BY <1>7, OrderOfValues DEF Inv, Paired, Scanning, ScanState
  <2>3. CASE state' = "faulted"
    BY <1>3, <1>4, <2>1, <2>3, FaultKeeps DEF Inv, TypeOK
  <2>4. CASE state' # "faulted"
    <3>1. (Attached' <=> Attached) /\ ~Scanning'
      BY <1>1, <1>7, <2>2, <2>4, CommandDoneLeads
      DEF Leads, Attached, Scanning, ScanState, LinkState
    <3>2. ScanInPlan' /\ PeerKnown' /\ NothingLeft'
      BY <1>1, <2>2, <3>1
      DEF Inv, ScanInPlan, Scanning, ScanState, PeerKnown, NothingLeft,
          linkVars, attemptVars, scanVars, scanPlan
    <3> QED
      BY <1>3, <1>4, <2>1, <3>2 DEF Inv, TypeOK
  <2> QED
    BY <2>3, <2>4
<1> QED
  BY <1>5, <1>6, <1>7 DEF FirmwareEvent, Acknowledges

\* An acknowledgement of a command is an acknowledgement.
LEMMA AckTyped ==
  ASSUME NEW c \in Command, NEW done \in BOOLEAN, NEW ok \in BOOLEAN
  PROVE  [epoch |-> c.epoch, sequence |-> c.sequence,
          command |-> CommandId(c.order), done |-> done, ok |-> ok] \in Ack
<1>1. CommandId(c.order) \in {"role", "join"}
  BY DEF CommandId
<1> QED
  BY <1>1 DEF Command, Ack

\* Steps of the device and deliveries preserve the invariant.
LEMMA DeviceKeeps ==
  ASSUME Inv, Device PROVE Inv'
<1>1. CASE \E r \in requests, ok \in BOOLEAN : DeviceFinishes(r, ok)
  <2>1. PICK r \in requests, ok \in BOOLEAN : DeviceFinishes(r, ok)
    BY <1>1
  <2>2. r \in Request
    BY DEF Inv, TypeOK, EngineOK
  <2>3. /\ r.channel \in Channel \cup {NoChannel} /\ requests' \subseteq Request
        /\ [token |-> r.token, action |-> r.action, success |-> ok]
             \in Completion
    BY <2>1, <2>2 DEF DeviceFinishes, Request, Completion, Inv, TypeOK,
                      EngineOK
  <2>4. completions' \subseteq Completion
        /\ radio' \in Channel \cup {NoChannel}
    BY <2>1, <2>3 DEF DeviceFinishes, Inv, TypeOK, EngineOK, StableOK
  <2>5. UNCHANGED <<state, pendingVars, waitingAction, waitingCommand,
                    deadline, mode, h2c, nextSequence, lastNow, scanVars,
                    linkVars, epoch, roleCreated, attempts, acks, firmware>>
    BY <2>1 DEF DeviceFinishes
  <2>6. EngineOK'
    BY <2>3, <2>4, <2>5 DEF Inv, TypeOK, EngineOK, pendingVars
  <2>7. StableOK'
    BY <2>4, <2>5 DEF Inv, TypeOK, StableOK
  <2>8. ScanOK' /\ LinkOK'
    BY <2>5, ScanKept, LinkKept DEF Inv, TypeOK
  <2>9. Paired'
    BY <2>5 DEF Inv, Paired, pendingVars
  <2>10. ScanInPlan' /\ PeerKnown' /\ NothingLeft'
    BY <2>5 DEF Inv, ScanInPlan, PeerKnown, NothingLeft, Attached, Scanning,
                linkVars, attemptVars, scanVars, scanPlan
  <2> QED
    BY <2>6, <2>7, <2>8, <2>9, <2>10 DEF Inv, TypeOK
<1>2. CASE \E c \in h2c : FirmwareReceives(c)
  <2>1. PICK c \in h2c : FirmwareReceives(c)
    BY <1>2
  <2>2. c \in Command
    BY DEF Inv, TypeOK, EngineOK
  <2>3. acks' \subseteq Ack
    BY <2>1, <2>2, AckTyped DEF FirmwareReceives, Inv, TypeOK, StableOK
  <2>4. StableOK'
    BY <2>1, <2>3 DEF FirmwareReceives, Inv, TypeOK, StableOK
  <2> QED
    BY <2>1, <2>4, QuietKeeps DEF FirmwareReceives
<1>3. CASE \E c \in h2c, ok \in BOOLEAN : FirmwareExecutes(c, ok)
  <2>1. PICK c \in h2c, ok \in BOOLEAN : FirmwareExecutes(c, ok)
    BY <1>3
  <2>2. c \in Command
    BY DEF Inv, TypeOK, EngineOK
  <2>3. acks' \subseteq Ack
    BY <2>1, <2>2, AckTyped DEF FirmwareExecutes, Inv, TypeOK, StableOK
  <2>4. firmware' \in [role : BOOLEAN, link : BOOLEAN]
    BY <2>1 DEF FirmwareExecutes, Executed, Inv, TypeOK, StableOK
  <2>5. UNCHANGED <<state, pendingVars, waitingAction, waitingCommand,
                    deadline, mode, requests, nextSequence, radio, lastNow,
                    scanVars, linkVars, epoch, roleCreated, completions,
                    attempts>>
        /\ h2c' \subseteq h2c
    BY <2>1 DEF FirmwareExecutes
  <2>6. EngineOK'
    BY <2>5 DEF Inv, TypeOK, EngineOK, pendingVars
  <2>7. StableOK'
    BY <2>3, <2>4, <2>5 DEF Inv, TypeOK, StableOK
  <2>8. ScanOK' /\ LinkOK'
    BY <2>5, ScanKept, LinkKept DEF Inv, TypeOK
  <2>9. Paired'
    BY <2>5 DEF Inv, Paired, pendingVars
  <2>10. ScanInPlan' /\ PeerKnown' /\ NothingLeft'
    BY <2>5 DEF Inv, ScanInPlan, PeerKnown, NothingLeft, Attached, Scanning,
                linkVars, attemptVars, scanVars, scanPlan
  <2> QED
    BY <2>6, <2>7, <2>8, <2>9, <2>10 DEF Inv, TypeOK
<1> QED
  BY <1>1, <1>2, <1>3 DEF Device

----------------------------------------------------------------------------
(* The theorems. *)

\* A constructed controller satisfies the invariant.
LEMMA InvInit == Init => Inv
<1> SUFFICES ASSUME Init PROVE Inv
  OBVIOUS
<1>1. NoToken \in Token
  BY Bounds DEF NoToken, Token
<1>2. firmware \in [role : BOOLEAN, link : BOOLEAN]
  BY DEF Init
<1>3. /\ waitingAction \in BOOLEAN /\ waitingCommand \in BOOLEAN
      /\ scanCancelled \in BOOLEAN /\ authenticated \in BOOLEAN
      /\ disconnectRequested \in BOOLEAN /\ roleCreated \in BOOLEAN
      /\ portOpen \in BOOLEAN
  BY DEF Init
<1>4. EngineOK
  BY <1>1, <1>3, Bounds, ActionValues
  DEF Init, EngineOK, State, Order, Sequence, Time, Traffic
<1>5. ScanOK /\ LinkOK
  BY <1>1, <1>3, Bounds DEF Init, ScanOK, LinkOK, Time
<1>6. StableOK
  BY <1>2, <1>3, Bounds DEF Init, StableOK, Time
<1>7. Paired
  BY DEF Init, Paired
<1>8. ScanInPlan /\ PeerKnown /\ NothingLeft
  BY DEF Init, ScanInPlan, PeerKnown, NothingLeft, Attached, Scanning,
         ScanState, LinkState
<1> QED
  BY <1>4, <1>5, <1>6, <1>7, <1>8 DEF Inv, TypeOK

\* Every step preserves the invariant.
LEMMA InvStep == Inv /\ [Next]_vars => Inv'
<1> SUFFICES ASSUME Inv, [Next]_vars PROVE Inv'
  OBVIOUS
<1>1. CASE Owner
  BY <1>1, RestartKeeps, ClockKeeps, StartKeeps, ScanKeeps, CancelScanKeeps,
     ConnectKeeps, DisconnectKeeps, DisconnectScanKeeps, StopKeeps,
     TurnedDownKeeps, TickKeeps DEF Owner
<1>2. CASE Protocol
  BY <1>2, AuthenticatedKeeps, AssociationKeeps, PortKeeps DEF Protocol
<1>3. CASE Callback
  BY <1>3, ActionCompleteKeeps, FirmwareEventKeeps DEF Callback
<1>4. CASE Device
  BY <1>4, DeviceKeeps
<1>5. CASE UNCHANGED vars
  <2>1. lastNow' \in Time /\ UNCHANGED <<engineVars, scanVars, linkVars,
                                         stableVars>>
    BY <1>5 DEF vars, Inv, TypeOK, StableOK
  <2> QED
    BY <2>1, StableKept, QuietKeeps DEF Inv, TypeOK
<1> QED
  BY <1>1, <1>2, <1>3, <1>4, <1>5 DEF Next

\* The inductive invariant holds throughout.
LEMMA Invariance == Spec => []Inv
  BY InvInit, InvStep, PTL DEF Spec

\* Every run keeps every field in the range the code gives it: no time stamp
\* and no serial number overflows, however late the clock and however long the
\* session.
THEOREM TypeCorrect == Spec => []TypeOK
<1>1. Inv => TypeOK
  BY DEF Inv
<1> QED
  BY <1>1, Invariance, PTL

\* An idle or stopped controller carries nothing over from an earlier attempt,
\* scan or disconnect request.
THEOREM IdleStartsClean == Spec => []IdleIsClean
<1>1. Inv => IdleIsClean
  BY ActionOfValues, OrderOfValues
  DEF Inv, Paired, NothingLeft, Attached, IdleIsClean, Waiting, Scanning,
      ScanState, LinkState
<1> QED
  BY <1>1, Invariance, PTL

----------------------------------------------------------------------------
(***************************************************************************)
(* The station controller, the device, the firmware and the radio agree:   *)
(* one operation is out at a time, the firmware holds what the controller  *)
(* believes, and the air is used only where and while a state allows it.   *)
(* The inductive invariant is Link; it extends Inv by what is out (Work),  *)
(* what the firmware holds (Believes), where the radio is (Located) and    *)
(* what is admitted (Admits).  Lemmas named ...Does say how an internal    *)
(* routine leaves the engine; those named ...Holds that a step preserves   *)
(* World.                                                                  *)
(***************************************************************************)


\* A controller waits exactly in the states that wait for something.
Waits ==
  /\ waitingAction <=> state \in DOMAIN ActionOf
  /\ waitingCommand <=> state \in DOMAIN OrderOf

\* The operation in progress, if it moves the radio, moves it to ch.
TunesTo(ch) ==
  /\ state = "preparing" => ch = home
  /\ state = "scanningTune" => ch = channels[channelIndex].channel
  /\ state = "scanningRestore" => ch = RestoreTarget
  /\ state = "preparingAuthentication" => ch = PeerChannel[peer]

\* An answer of this incarnation that says a command was executed.
Done(a) == a.epoch = epoch /\ a.done

\* Nothing out is from a later incarnation, and commands end with theirs.
Dated ==
  /\ \A r \in requests : r.token.epoch <= epoch
  /\ \A c \in completions : c.token.epoch <= epoch
  /\ \A a \in acks : a.epoch <= epoch
  /\ \A c \in h2c : c.epoch = epoch

\* Actions: at most the pending one is out, no callback names it before the
\* device has finished it, and every callback names an earlier operation.
ActionsOut ==
  /\ \A r \in requests : r.token.epoch = epoch =>
       /\ waitingAction /\ r.token = pendingToken
       /\ r.action = pendingAction /\ TunesTo(r.channel)
       /\ \A c \in completions : c.token # r.token
  /\ \A q, r \in requests :
       q.token.epoch = epoch /\ r.token.epoch = epoch => q = r
  /\ \A c \in completions : c.token.epoch = epoch =>
       c.token.operation <= serial

\* Commands: at most the pending one is out or answered, and not both.
CommandsOut ==
  /\ \A c \in h2c : /\ waitingCommand /\ c.sequence = pendingSequence
                    /\ c.order = pendingOrder
  /\ \A a \in acks : Done(a) =>
       /\ waitingCommand /\ h2c = {}
       /\ a.sequence = pendingSequence /\ a.command = CommandId(pendingOrder)
  /\ \A a, b \in acks : Done(a) /\ Done(b) => a = b

\* What is out, and who waits for it.
Work ==
  /\ Waits /\ Dated
  /\ state # "faulted" =>
       /\ Waiting => pendingToken = NewToken(serial)
       /\ ActionsOut /\ CommandsOut

\* What the firmware holds in each state.  It is open while a command that
\* changes it is out, and from the start of a tear-down, which may come before
\* or after the Join.
HoldsRole == state \notin {"stopped", "preparing", "creatingRole",
                           "removingRole", "removingCam", "faulted"}
HoldsLink == state = "installingAssociationCam" \/ LinkUp
LinkOpen  == state \in {"joining", "disconnectingCmac", "disconnecting",
                        "faulted"}
Believes ==
  /\ state \in {"stopped", "preparing", "removingCam"} => ~firmware.role
  /\ HoldsRole => firmware.role
  /\ HoldsLink => firmware.link
  /\ ~HoldsLink /\ ~LinkOpen => ~firmware.link
  /\ state \in {"stopped", "preparing", "creatingRole"} => ~roleCreated
  /\ state \notin {"stopped", "preparing", "creatingRole", "faulted"} =>
       roleCreated

\* A command answered well has had its effect.
Answered ==
  \A a \in acks : Done(a) /\ a.ok =>
    /\ state = "creatingRole"  => firmware.role
    /\ state = "joining"       => firmware.link
    /\ state = "disconnecting" => ~firmware.link
    /\ state = "removingRole"  => ~firmware.role

\* Where the radio is in each state that needs it somewhere.
Homed == {"creatingRole", "initialNoLink", "installingIdle", "idle",
          "scanningEnd", "authenticating", "installingAssociationCmac",
          "joining", "installingAssociationCam", "associated", "authorized",
          "disconnectingCmac", "disconnecting", "disconnectingCam"}
Located ==
  /\ state \in Homed => radio = home
  /\ Attached /\ state # "preparingAuthentication" => home = PeerChannel[peer]
  /\ state = "scanningDwell" => radio = channels[channelIndex].channel

\* An action that succeeded has moved the radio where it should.
Tuned ==
  \A c \in completions :
    waitingAction /\ c.token = pendingToken /\ c.success => TunesTo(radio)

\* What is admitted in each state, and the flags that decide it.
Admits ==
  /\ mode = "management" => state \in {"idle", "authenticating"}
  /\ mode = "controlledPort" => state = "associated"
  /\ mode = "authorized" => state = "authorized"
  /\ mode = "scanProbe" =>
       state = "scanningDwell" /\ channels[channelIndex].active
  /\ state = "scanningDwell" /\ channels[channelIndex].active =>
       mode = "scanProbe"
  /\ Linked => ~disconnectRequested
  /\ Scanning => scanToken # NoToken /\ (disconnectRequested => scanCancelled)
  /\ state = "scanningDwell" => ~scanCancelled
  /\ Attached => associationToken # NoToken
  /\ state = "authorized" \/ (Scanning /\ scanResume = "authorized") =>
       portOpen

Effects == state # "faulted" => Answered /\ Tuned
World   == Work /\ Believes /\ Located /\ Admits /\ Effects
Link    == Inv /\ World

----------------------------------------------------------------------------
(* How the routines of the engine end. *)

Faults ==
  /\ state' = "faulted" /\ mode' = "none"
  /\ waitingAction' = FALSE /\ waitingCommand' = FALSE
  /\ \A r \in requests' : r \in requests \/ r.token.epoch = epoch
  /\ \A c \in h2c' : c \in h2c \/ c.epoch = epoch

TuningStates == {"preparing", "scanningTune", "scanningRestore",
                 "preparingAuthentication"}

\* An action is handed to the device.
Starts(st, target) ==
  /\ state' = st /\ mode' = "none"
  /\ waitingAction' = TRUE /\ waitingCommand' = FALSE
  /\ serial' \in Nat /\ serial' > serial
  /\ pendingToken' = NewToken(serial')
  /\ pendingAction' = ActionOf[st]
  /\ requests' = requests \cup {[token |-> pendingToken',
                                 action |-> ActionOf[st], channel |-> target]}
  /\ radio' = IF st \in TuningStates THEN NoChannel ELSE radio
  /\ h2c' = h2c

\* A command is published.
Publishes(st, traffic) ==
  /\ state' = st /\ mode' = traffic
  /\ waitingAction' = FALSE /\ waitingCommand' = TRUE
  /\ serial' \in Nat /\ serial' > serial
  /\ pendingToken' = NewToken(serial')
  /\ pendingOrder' = OrderOf[st]
  /\ h2c' = h2c \cup {[epoch |-> epoch, sequence |-> pendingSequence',
                       order |-> OrderOf[st]]}
  /\ UNCHANGED <<requests, radio>>

\* An operation ends and nothing is awaited.
Rests(st, traffic) ==
  /\ state' = st /\ mode' = traffic
  /\ waitingAction' = FALSE /\ waitingCommand' = FALSE
  /\ UNCHANGED <<serial, requests, h2c, radio>>

\* fail() faults; work already handed out stays out.
LEMMA FailDoes == Fail => Faults
  BY DEF Fail, FailWith, Faults

\* action() starts the action or faults.
LEMMA BeginActionDoes ==
  ASSUME TypeOK, NEW busy, NEW st \in DOMAIN ActionOf, NEW target,
         NEW base \in Nat, base >= serial,
         BeginAction(busy, ActionOf[st], st, target, base)
  PROVE  Faults \/ Starts(st, target)
<1>1. CASE Fail
  BY <1>1, FailDoes
<1>2. CASE ~Fail
  <2>1. /\ state' = st
        /\ serial' = base + 1
        /\ pendingToken' = NewToken(base + 1)
        /\ pendingAction' = ActionOf[st]
        /\ waitingAction' = TRUE /\ waitingCommand' = FALSE
        /\ mode' = AdmissionDuringAction
        /\ requests' = requests \cup {[token |-> NewToken(base + 1),
                          action |-> ActionOf[st], channel |-> target]}
        /\ radio' = IF ActionOf[st] \in Tuning THEN NoChannel ELSE radio
        /\ h2c' = h2c
    BY <1>2 DEF BeginAction, Refused
  <2>2. ActionOf[st] \in Tuning <=> st \in TuningStates
    BY ActionOfValues DEF Tuning, TuningStates
  <2>3. serial \in Nat /\ base + 1 > serial
    BY DEF TypeOK, EngineOK
  <2> QED
    BY <2>1, <2>2, <2>3 DEF Starts, AdmissionDuringAction
<1> QED
  BY <1>1, <1>2

\* The same when the traffic is cut first.
LEMMA QuietActionDoes ==
  ASSUME TypeOK, NEW busy, NEW st \in DOMAIN ActionOf, NEW target,
         NEW base \in Nat, base >= serial,
         BeginQuietAction(busy, ActionOf[st], st, target, base)
  PROVE  Faults \/ Starts(st, target)
  BY BeginActionDoes, FailDoes DEF BeginQuietAction, Refused

\* command() publishes the command or faults, with or without it.
LEMMA BeginCommandDoes ==
  ASSUME TypeOK, NEW busy, NEW st \in DOMAIN OrderOf, NEW traffic,
         BeginCommand(busy, OrderOf[st], st, traffic)
  PROVE  Faults \/ Publishes(st, traffic)
<1> DEFINE cmd == [epoch |-> epoch, sequence |-> nextSequence,
                   order |-> OrderOf[st]]
<1>1. CASE Fail
  BY <1>1, FailDoes
<1>2. CASE FailWith(requests, h2c \cup {cmd})
  BY <1>2 DEF FailWith, Faults
<1>3. CASE ~Fail /\ ~FailWith(requests, h2c \cup {cmd})
  <2>1. /\ state' = st
        /\ serial' = serial + 1
        /\ pendingToken' = NewToken(serial + 1)
        /\ pendingOrder' = OrderOf[st]
        /\ pendingSequence' = nextSequence
        /\ waitingAction' = FALSE /\ waitingCommand' = TRUE
        /\ h2c' = h2c \cup {cmd}
        /\ mode' = traffic
        /\ UNCHANGED <<requests, radio>>
    BY <1>3 DEF BeginCommand, Refused
  <2>2. serial \in Nat
    BY DEF TypeOK, EngineOK
  <2> QED
    BY <2>1, <2>2 DEF Publishes
<1> QED
  BY <1>1, <1>2, <1>3

\* An operation that settles rests, or faults.
LEMMA SettleDoes ==
  ASSUME NEW st, NEW traffic, NEW until, NEW calls,
         Settle(st, traffic, until, calls)
  PROVE  Faults \/ Rests(st, traffic)
  BY FailDoes DEF Settle, Refused, Rests, pendingVars

\* beginDisconnect() starts the first table write of the tear-down.
LEMMA DisconnectDoes ==
  ASSUME TypeOK, NEW busy, BeginDisconnect(busy)
  PROVE  Faults \/ Starts("disconnectingCmac", NoChannel)
<1>1. serial \in Nat
  BY DEF TypeOK, EngineOK
<1> QED
  BY <1>1, QuietActionDoes, FailDoes, ActionOfValues
  DEF BeginDisconnect, Refused

\* tuneScan() starts a tune to a channel of the plan.
LEMMA TuneDoes ==
  ASSUME TypeOK, NEW busy, NEW i, TuneScan(busy, i)
  PROVE  Faults \/ Starts("scanningTune", channels[i].channel)
<1>1. serial \in Nat
  BY DEF TypeOK, EngineOK
<1> QED
  BY <1>1, QuietActionDoes, ActionOfValues DEF TuneScan

\* restoreScan() starts the return to the operating channel.
LEMMA RestoreDoes ==
  ASSUME TypeOK, NEW busy, RestoreScan(busy)
  PROVE  Faults \/ Starts("scanningRestore", RestoreTarget)
<1>1. serial \in Nat
  BY DEF TypeOK, EngineOK
<1> QED
  BY <1>1, QuietActionDoes, ActionOfValues DEF RestoreScan

\* A dwell begins with probes on an active channel and silence on a passive.
LEMMA DwellDoes ==
  ASSUME DwellBegins
  PROVE  \/ Faults
         \/ Rests("scanningDwell", IF channels[channelIndex].active
                                   THEN "scanProbe" ELSE "none")
  BY SettleDoes, FailDoes DEF DwellBegins

\* An authentication begins with management frames.
LEMMA AuthenticationDoes ==
  ASSUME AuthenticationBegins
  PROVE  Faults \/ Rests("authenticating", "management")
  BY SettleDoes, FailDoes DEF AuthenticationBegins

\* completeScan() resumes, or starts the tear-down that was asked for.
LEMMA CompleteScanDoes ==
  ASSUME TypeOK, NEW busy, CompleteScan(busy)
  PROVE  \/ Faults
         \/ disconnectRequested /\ Starts("disconnectingCmac", NoChannel)
         \/ ~disconnectRequested /\ Rests(scanResume, ResumeTraffic)
  BY DisconnectDoes, SettleDoes DEF CompleteScan

\* A second operation on a waiting controller faults it.
LEMMA StartTwiceDoes == StartTwice => Faults
<1> SUFFICES ASSUME StartTwice PROVE Faults
  OBVIOUS
<1> DEFINE r == [token |-> NewToken(serial + 1), action |-> "disconnectCmac",
                 channel |-> NoChannel]
<1>1. CASE Fail
  BY <1>1, FailDoes
<1>2. CASE FailWith(requests \cup {r}, h2c)
  <2>1. r.token.epoch = epoch
    BY DEF NewToken
  <2> QED
    BY <1>2, <2>1 DEF FailWith, Faults
<1> QED
  BY <1>1, <1>2 DEF StartTwice, Refused

----------------------------------------------------------------------------
(* What an ended routine leaves out there. *)

\* No incarnation ends, and callbacks are only taken.
Delivers ==
  /\ epoch' = epoch
  /\ completions' \subseteq completions /\ acks' \subseteq acks

\* Nothing of this incarnation is out or answered any more.
Clear ==
  /\ \A r \in requests : r.token.epoch # epoch
  /\ h2c = {}
  /\ \A a \in acks' : ~Done(a)

\* TunesTo after the step, for a channel chosen before it.
TunesNext(ch) ==
  /\ state' = "preparing" => ch = home'
  /\ state' = "scanningTune" => ch = channels'[channelIndex'].channel
  /\ state' = "scanningRestore" => ch = RestoreTarget'
  /\ state' = "preparingAuthentication" => ch = PeerChannel[peer']

\* The serial numbers and epochs that tokens carry are numbers.
LEMMA Numbers ==
  ASSUME TypeOK
  PROVE  /\ serial \in Nat /\ epoch \in Nat
         /\ \A c \in completions : c.token \in Token
         /\ \A r \in requests : r.token \in Token
         /\ \A a \in acks : a.epoch \in Nat
         /\ \A t \in Token : t.epoch \in Nat /\ t.operation \in Nat
  BY Bounds DEF TypeOK, EngineOK, StableOK, Token, Completion, Request, Ack

\* A fault leaves a world in order: all it promises is about live controllers.
LEMMA FaultsHold ==
  ASSUME Link, Delivers, Faults
  PROVE  World'
<1>1. Dated'
  <2>1. \A r \in requests' : r.token.epoch <= epoch'
    BY Numbers DEF Link, Inv, World, Work, Dated, Delivers, Faults
  <2> QED
    BY <2>1 DEF Link, World, Work, Dated, Delivers, Faults
<1>2. Waits'
  BY ActionOfValues, OrderOfValues DEF Faults, Waits
<1>3. Work' /\ Effects'
  BY <1>1, <1>2 DEF Work, Effects, Faults
<1>4. Believes'
  BY DEF Faults, Believes, HoldsRole, HoldsLink, LinkOpen, LinkUp, Linked,
         Scanning, ScanState
<1>5. Located'
  BY DEF Faults, Located, Homed, Attached, Scanning, ScanState, LinkState
<1>6. Admits'
  BY DEF Faults, Admits, Attached, Scanning, ScanState, LinkState, Linked
<1> QED
  BY <1>3, <1>4, <1>5, <1>6 DEF World

\* A started action is the only one out, and no callback names it.
LEMMA StartsHold ==
  ASSUME Link, Delivers, Clear, state # "faulted",
         NEW st \in DOMAIN ActionOf, NEW target, Starts(st, target),
         TunesNext(target),
         Believes', Located', Admits'
  PROVE  World'
<1> USE DEF Delivers, Clear
<1>1. /\ serial \in Nat /\ serial' \in Nat /\ serial' > serial /\ epoch \in Nat
      /\ pendingToken' = NewToken(serial') /\ epoch' = epoch
      /\ pendingToken'.epoch = epoch /\ pendingToken'.operation = serial'
  BY Numbers DEF Link, Inv, Starts, NewToken
<1> DEFINE new == [token |-> pendingToken', action |-> ActionOf[st],
                   channel |-> target]
<1>2. /\ requests' = requests \cup {new} /\ h2c' = {} /\ state' = st
      /\ waitingAction' = TRUE /\ waitingCommand' = FALSE
      /\ pendingAction' = ActionOf[st]
      /\ new.token = pendingToken' /\ new.action = ActionOf[st]
      /\ new.channel = target
  BY DEF Starts
<1>3. Waits'
  BY <1>2, ActionOfValues, OrderOfValues DEF Waits
<1>4. Dated'
  <2>1. \A r \in requests' : r.token.epoch <= epoch'
    BY <1>1, <1>2 DEF Link, World, Work, Dated
  <2> QED
    BY <1>2, <2>1 DEF Link, World, Work, Dated
<1>5. \A c \in completions' :
        /\ c.token.epoch = epoch => c.token.operation <= serial
        /\ c.token \in Token
  BY Numbers DEF Link, Inv, World, Work, ActionsOut
<1>6. \A c \in completions' :
        /\ c.token.epoch = epoch => c.token.operation <= serial'
        /\ c.token # pendingToken'
  BY <1>1, <1>5, Numbers DEF Link, Inv
<1>7. \A r \in requests' : r.token.epoch = epoch => r = new
  BY <1>2
<1>8. ActionsOut'
  <2>1. \A r \in requests' : r.token.epoch = epoch => TunesTo(r.channel)'
    BY <1>2, <1>7 DEF TunesNext, TunesTo
  <2> QED
    BY <1>1, <1>2, <1>6, <1>7, <2>1 DEF ActionsOut
<1>9. CommandsOut' /\ Answered'
  BY <1>1, <1>2 DEF CommandsOut, Answered, Done
<1>10. Work'
  BY <1>1, <1>3, <1>4, <1>8, <1>9 DEF Work, NewToken
<1>11. Effects'
  BY <1>6, <1>9 DEF Effects, Tuned
<1> QED
  BY <1>10, <1>11 DEF World

\* A published command is the only work out.
LEMMA PublishesHold ==
  ASSUME Link, Delivers, Clear, state # "faulted",
         NEW st \in DOMAIN OrderOf, NEW traffic, Publishes(st, traffic),
         Believes', Located', Admits'
  PROVE  World'
<1> USE DEF Delivers, Clear
<1>1. /\ serial \in Nat /\ serial' \in Nat /\ serial' > serial /\ epoch \in Nat
      /\ pendingToken' = NewToken(serial') /\ epoch' = epoch
  BY Numbers DEF Link, Inv, Publishes
<1> DEFINE new == [epoch |-> epoch, sequence |-> pendingSequence',
                   order |-> OrderOf[st]]
<1>2. /\ requests' = requests /\ h2c' = {new} /\ state' = st
      /\ waitingAction' = FALSE /\ waitingCommand' = TRUE
      /\ pendingOrder' = OrderOf[st]
      /\ new.epoch = epoch /\ new.sequence = pendingSequence'
      /\ new.order = OrderOf[st]
  BY DEF Publishes
<1>3. Waits'
  BY <1>2, ActionOfValues, OrderOfValues DEF Waits
<1>4. Dated'
  BY <1>1, <1>2 DEF Link, World, Work, Dated
<1>5. \A c \in completions' :
        /\ c.token.epoch = epoch => c.token.operation <= serial
        /\ c.token \in Token
  BY Numbers DEF Link, Inv, World, Work, ActionsOut
<1>6. \A c \in completions' :
        c.token.epoch = epoch => c.token.operation <= serial'
  BY <1>1, <1>5, Numbers DEF Link, Inv
<1>7. ActionsOut'
  BY <1>1, <1>2, <1>6 DEF ActionsOut
<1>8. CommandsOut' /\ Answered'
  BY <1>1, <1>2 DEF CommandsOut, Answered, Done
<1>9. Work'
  BY <1>1, <1>3, <1>4, <1>7, <1>8 DEF Work, NewToken
<1>10. Effects'
  BY <1>2, <1>8 DEF Effects, Tuned
<1> QED
  BY <1>9, <1>10 DEF World

\* A resting controller has nothing out.
LEMMA RestsHold ==
  ASSUME Link, Delivers, Clear, state # "faulted",
         NEW st, st \notin DOMAIN ActionOf, st \notin DOMAIN OrderOf,
         NEW traffic, Rests(st, traffic),
         Believes', Located', Admits'
  PROVE  World'
<1> USE DEF Delivers, Clear
<1>1. /\ requests' = requests /\ h2c' = {} /\ state' = st /\ serial' = serial
      /\ waitingAction' = FALSE /\ waitingCommand' = FALSE
  BY DEF Rests
<1>2. Waits'
  BY <1>1 DEF Waits
<1>3. Dated'
  BY <1>1 DEF Link, World, Work, Dated
<1>4. ActionsOut'
  BY <1>1 DEF Link, World, Work, ActionsOut
<1>5. CommandsOut' /\ Answered'
  BY <1>1 DEF CommandsOut, Answered, Done
<1>6. Work'
  BY <1>1, <1>2, <1>3, <1>4, <1>5 DEF Work, Waiting
<1>7. Effects'
  BY <1>1, <1>5 DEF Effects, Tuned
<1> QED
  BY <1>6, <1>7 DEF World

\* A controller that is not waiting has nothing out.
LEMMA RestingIsClear ==
  ASSUME Link, Delivers, state # "faulted", ~Waiting
  PROVE  Clear
  BY DEF Link, World, Work, ActionsOut, CommandsOut, Waiting, Delivers, Clear,
         Done

\* The callback of the pending action leaves nothing out.
LEMMA MatchedIsClear ==
  ASSUME Link, NEW c \in completions, Matches(c), UNCHANGED <<acks, epoch>>
  PROVE  Clear /\ state # "faulted"
<1>1. /\ waitingAction /\ c.token = pendingToken /\ ~waitingCommand
      /\ state # "faulted"
  BY ActionOfValues, OrderOfValues DEF Link, World, Work, Waits, Matches
<1> QED
  BY <1>1 DEF Link, World, Work, ActionsOut, CommandsOut, Clear, Done

\* The awaited answer leaves nothing out.
LEMMA AcknowledgedIsClear ==
  ASSUME Link, NEW a \in acks, Acknowledges(a), acks' = acks \ {a},
         epoch' = epoch
  PROVE  Clear /\ state # "faulted"
<1>1. /\ waitingCommand /\ ~waitingAction /\ Done(a) /\ state # "faulted"
  BY ActionOfValues, OrderOfValues
  DEF Link, World, Work, Waits, Acknowledges, Done
<1> QED
  BY <1>1 DEF Link, World, Work, ActionsOut, CommandsOut, Clear

\* A step that leaves the operation in progress alone.
LEMMA StillHolds ==
  ASSUME Link, Delivers,
         UNCHANGED <<state, pendingVars, waitingAction, waitingCommand,
                     requests, h2c, radio, firmware>>,
         \A ch : TunesTo(ch) => TunesNext(ch),
         Believes', Located', Admits'
  PROVE  World'
<1> USE DEF Delivers, pendingVars
<1>1. \A ch : TunesTo(ch) => TunesTo(ch)'
  BY DEF TunesTo, TunesNext
<1>2. Waits' /\ Dated'
  BY DEF Link, World, Work, Waits, Dated
<1>3. state # "faulted" => ActionsOut'
  BY <1>1 DEF Link, World, Work, ActionsOut
<1>4. state # "faulted" => CommandsOut' /\ Answered'
  BY DEF Link, World, Work, CommandsOut, Effects, Answered, Done
<1>5. state # "faulted" => Tuned'
  BY <1>1 DEF Link, World, Effects, Tuned
<1>6. Work' /\ Effects'
  BY <1>2, <1>3, <1>4, <1>5 DEF Link, World, Work, Effects, Waiting, NewToken
<1> QED
  BY <1>6 DEF World

\* The same when nothing but the clock and flags that no state reads change.
LEMMA QuietHolds ==
  ASSUME Link, Delivers,
         UNCHANGED <<engineVars, scanVars, associationToken, peer, home,
                     disconnectRequested, portOpen, roleCreated, firmware>>
  PROVE  World'
<1> USE DEF engineVars, scanVars, scanPlan
<1>1. \A ch : TunesTo(ch) => TunesNext(ch)
  BY DEF TunesTo, TunesNext, RestoreTarget
<1>2. Believes'
  BY DEF Link, World, Believes, HoldsRole, HoldsLink, LinkOpen, LinkUp,
         Linked, Scanning
<1>3. Located'
  BY DEF Link, World, Located, Attached, Scanning
<1>4. Admits'
  BY DEF Link, World, Admits, Attached, Scanning, Linked
<1> QED
  BY <1>1, <1>2, <1>3, <1>4, StillHolds

\* The tear-down of an attempt or a link begins with the radio at home.
LEMMA DisconnectHolds ==
  ASSUME Link, Delivers, Clear, NEW busy, BeginDisconnect(busy),
         Attached, HoldsRole,
         home' = PeerChannel[peer], radio = home',
         UNCHANGED <<associationToken, peer, firmware, roleCreated>>
  PROVE  World'
<1>1. state # "faulted"
  BY DEF HoldsRole
<1>2. CASE Faults
  BY <1>2, FaultsHold
<1>3. CASE Starts("disconnectingCmac", NoChannel)
  <2>1. state' = "disconnectingCmac" /\ mode' = "none" /\ radio' = radio
    BY <1>3 DEF Starts, TuningStates
  <2>2. Believes'
    BY <2>1 DEF Link, World, Believes, HoldsRole, HoldsLink, LinkOpen,
                LinkUp, Linked, Scanning, ScanState
  <2>3. Located'
    BY <2>1 DEF Located, Homed
  <2>4. Admits'
    BY <2>1 DEF Link, World, Admits, Linked, Scanning, ScanState
  <2>5. TunesNext(NoChannel)
    BY <2>1 DEF TunesNext
  <2> QED
    BY <1>1, <1>3, <2>2, <2>3, <2>4, <2>5, StartsHold, ActionOfValues
<1> QED
  BY <1>2, <1>3, DisconnectDoes DEF Link, Inv

----------------------------------------------------------------------------
(* Entry points called by the owner. *)

\* A resting state is one that waits for nothing.
LEMMA RestingStates ==
  ASSUME Link,
         state \in {"stopped", "idle", "authenticating", "scanningDwell",
                    "associated", "authorized"}
  PROVE  ~Waiting /\ state # "faulted"
  BY ActionOfValues, OrderOfValues DEF Link, World, Work, Waits, Waiting

\* restart() begins an incarnation that nothing is out for.
LEMMA RestartHolds ==
  ASSUME Link, NEW e \in 1 .. MaxEpoch, NEW now \in Time, Restart(e, now)
  PROVE  World'
<1>1. /\ state' = "stopped" /\ mode' = "none" /\ epoch' = e /\ e > epoch
      /\ waitingAction' = FALSE /\ waitingCommand' = FALSE
      /\ h2c' = {} /\ ~firmware'.role /\ ~firmware'.link /\ ~roleCreated'
      /\ UNCHANGED <<requests, completions, acks>>
  BY DEF Restart
<1>2. /\ \A r \in requests : r.token.epoch < e /\ r.token.epoch \in Nat
      /\ \A c \in completions : c.token.epoch < e /\ c.token.epoch \in Nat
      /\ \A a \in acks : a.epoch < e /\ a.epoch \in Nat
      /\ e \in Nat
  BY <1>1, Numbers DEF Link, Inv, World, Work, Dated
<1>3. Waits' /\ Dated'
  BY <1>1, <1>2, ActionOfValues, OrderOfValues DEF Waits, Dated
<1>4. ActionsOut' /\ CommandsOut' /\ Answered' /\ Tuned'
  BY <1>1, <1>2 DEF ActionsOut, CommandsOut, Answered, Tuned, Done
<1>5. Work' /\ Effects'
  BY <1>1, <1>3, <1>4 DEF Work, Effects, Waiting
<1>6. Believes'
  BY <1>1 DEF Believes, HoldsRole, HoldsLink, LinkOpen, LinkUp, Linked,
              Scanning, ScanState
<1>7. Located' /\ Admits'
  BY <1>1 DEF Located, Admits, Homed, Attached, Scanning, ScanState,
              LinkState, Linked
<1> QED
  BY <1>5, <1>6, <1>7 DEF World

\* A clock that runs back faults the controller.
LEMMA ClockHolds ==
  ASSUME Link, ClockRunsBack
  PROVE  World'
  BY FailDoes, FaultsHold DEF ClockRunsBack, Delivers, stableVars, deviceVars

\* start() takes the radio to the home channel it was given.
LEMMA StartHolds ==
  ASSUME Link, NEW channel \in Channel, NEW now \in Time, Start(channel, now)
  PROVE  World'
<1>1. /\ state = "stopped" /\ home' = channel
      /\ Delivers /\ UNCHANGED <<firmware, roleCreated>>
  BY DEF Start, Delivers, stableVars, deviceVars
<1>2. Clear
  BY <1>1, RestingStates, RestingIsClear
<1>3. Faults \/ Starts("preparing", channel)
  BY QuietActionDoes, ActionOfValues, Numbers DEF Start, Link, Inv
<1>4. CASE Faults
  BY <1>1, <1>4, FaultsHold
<1>5. CASE Starts("preparing", channel)
  <2>1. state' = "preparing" /\ mode' = "none"
    BY <1>5 DEF Starts
  <2>2. Believes'
    BY <1>1, <2>1 DEF Link, World, Believes, HoldsRole, HoldsLink, LinkOpen,
                      LinkUp, Linked, Scanning, ScanState
  <2>3. Located' /\ Admits'
    BY <2>1 DEF Located, Admits, Homed, Attached, Scanning, ScanState,
                LinkState, Linked
  <2>4. TunesNext(channel)
    BY <1>1, <2>1 DEF TunesNext
  <2> QED
    BY <1>1, <1>2, <1>5, <2>2, <2>3, <2>4, StartsHold, ActionOfValues
<1> QED
  BY <1>3, <1>4, <1>5

\* scan() leaves from idle or from an authorized link, and remembers which.
LEMMA ScanHolds ==
  ASSUME Link, NEW plan \in Plan, NEW now \in Time, Scan(plan, now)
  PROVE  World'
<1>1. /\ state \in {"idle", "authorized"}
      /\ Delivers /\ UNCHANGED <<firmware, roleCreated, linkVars>>
  BY DEF Scan, Delivers, stableVars, deviceVars
<1>2. Clear
  BY <1>1, RestingStates, RestingIsClear
<1>3. CASE Fail
  BY <1>1, <1>3, FailDoes, FaultsHold
<1>4. CASE ~Fail
  <2>1. /\ serial \in Nat
        /\ scanResume' = state /\ scanCancelled' = FALSE
        /\ scanToken' = NewToken(serial + 1)
        /\ BeginQuietAction(Waiting, "scanBegin", "scanningBegin", NoChannel,
                            serial + 1)
    BY <1>4, Numbers DEF Scan, Link, Inv
  <2>2. Faults \/ Starts("scanningBegin", NoChannel)
    BY <2>1, QuietActionDoes, ActionOfValues DEF Link, Inv
  <2>3. CASE Faults
    BY <1>1, <2>3, FaultsHold
  <2>4. CASE Starts("scanningBegin", NoChannel)
    <3>1. state' = "scanningBegin" /\ mode' = "none"
      BY <2>4 DEF Starts
    <3>2. scanToken' # NoToken
      BY <2>1 DEF NewToken, NoToken
    <3>3. ~disconnectRequested
      BY <1>1 DEF Link, Inv, NothingLeft, Attached, LinkState, Scanning,
                  ScanState, World, Admits, Linked
    <3>4. Believes'
      BY <1>1, <2>1, <3>1 DEF Link, World, Believes, HoldsRole, HoldsLink,
                LinkOpen, LinkUp, Linked, Scanning, ScanState
    <3>5. Located'
      BY <1>1, <2>1, <3>1 DEF Link, World, Located, Homed, Attached, Scanning,
                ScanState, LinkState, linkVars, attemptVars
    <3>6. Admits'
      BY <1>1, <2>1, <3>1, <3>2, <3>3 DEF Link, World, Admits, Attached,
                Scanning, ScanState, LinkState, Linked, linkVars, attemptVars
    <3>7. TunesNext(NoChannel)
      BY <3>1 DEF TunesNext
    <3> QED
      BY <1>1, <1>2, <2>4, <3>4, <3>5, <3>6, <3>7, StartsHold, ActionOfValues
  <2> QED
    BY <2>2, <2>3, <2>4
<1> QED
  BY <1>3, <1>4

\* A cancelled scan goes home at once from a dwell, and else when the work in
\* progress is done.
LEMMA CancelHolds ==
  ASSUME Link, Delivers, Scanning,
         scanCancelled' = TRUE,
         disconnectRequested' => disconnectRequested \/ scanResume # "idle",
         IF state = "scanningDwell" THEN RestoreScan(Waiting)
                                    ELSE UNCHANGED engineVars,
         UNCHANGED <<scanPlan, scanResume, channelIndex, attemptVars, home,
                     portOpen, firmware, roleCreated>>
  PROVE  World'
<1>1. CASE Faults
  BY <1>1, FaultsHold
<1>2. CASE state = "scanningDwell" /\ Starts("scanningRestore", RestoreTarget)
  <2>1. state' = "scanningRestore" /\ mode' = "none"
    BY <1>2 DEF Starts
  <2>2. Clear
    BY <1>2, RestingStates, RestingIsClear
  <2>3. Believes'
    BY <1>2, <2>1 DEF Link, World, Believes, HoldsRole, HoldsLink, LinkOpen,
              LinkUp, Linked, Scanning, ScanState
  <2>4. Located'
    BY <2>1 DEF Link, World, Located, Homed, Attached, Scanning, ScanState,
              LinkState, attemptVars
  <2>5. Admits'
    BY <2>1 DEF Link, World, Admits, Attached, Scanning, ScanState, LinkState,
              Linked, attemptVars, scanPlan
  <2>6. TunesNext(RestoreTarget)
    BY <2>1 DEF TunesNext, RestoreTarget, attemptVars
  <2> QED
    BY <1>2, <2>2, <2>3, <2>4, <2>5, <2>6, StartsHold, ActionOfValues
<1>3. CASE state # "scanningDwell" /\ UNCHANGED engineVars
  <2>1. UNCHANGED <<state, mode, radio>>
    BY <1>3 DEF engineVars
  <2>2. Believes'
    BY <2>1 DEF Link, World, Believes, HoldsRole, HoldsLink, LinkOpen,
              LinkUp, Linked, Scanning
  <2>3. Located'
    BY <1>3, <2>1 DEF Link, World, Located, Attached, Scanning, attemptVars
  <2>4. Admits'
    BY <1>3, <2>1 DEF Link, World, Admits, Attached, Scanning, ScanState,
              LinkState, Linked, attemptVars, scanPlan
  <2>5. \A ch : TunesTo(ch) => TunesNext(ch)
    BY <2>1 DEF TunesTo, TunesNext, RestoreTarget, attemptVars, scanPlan
  <2> QED
    BY <1>3, <2>2, <2>3, <2>4, <2>5, StillHolds DEF engineVars
<1> QED
  BY <1>1, <1>2, <1>3, RestoreDoes DEF Link, Inv

\* cancelScan() and disconnect() during a scan.
LEMMA CancelScanHolds ==
  ASSUME Link, NEW now \in Time,
         CancelScan(scanToken, now) \/ DisconnectScan(now)
  PROVE  World'
<1>1. CASE CancelScan(scanToken, now)
  BY <1>1, CancelHolds
  DEF CancelScan, Delivers, stableVars, deviceVars, linkVars
<1>2. CASE DisconnectScan(now)
  BY <1>2, CancelHolds DEF DisconnectScan, Delivers, stableVars, deviceVars
<1> QED
  BY <1>1, <1>2

\* connect() takes the radio to the access point's channel.
LEMMA ConnectHolds ==
  ASSUME Link, NEW p \in Peer, NEW now \in Time, Connect(p, now)
  PROVE  World'
<1>1. /\ state = "idle" /\ peer' = p
      /\ Delivers /\ UNCHANGED <<firmware, roleCreated, home>>
  BY DEF Connect, Delivers, stableVars, deviceVars
<1>2. Clear
  BY <1>1, RestingStates, RestingIsClear
<1>3. CASE Fail
  BY <1>1, <1>3, FailDoes, FaultsHold
<1>4. CASE ~Fail
  <2>1. /\ serial \in Nat /\ associationToken' = NewToken(serial + 1)
        /\ BeginQuietAction(Waiting, "prepareAuthentication",
                            "preparingAuthentication", PeerChannel[p],
                            serial + 1)
    BY <1>4, Numbers DEF Connect, Link, Inv
  <2>2. Faults \/ Starts("preparingAuthentication", PeerChannel[p])
    BY <2>1, QuietActionDoes, ActionOfValues DEF Link, Inv
  <2>3. CASE Faults
    BY <1>1, <2>3, FaultsHold
  <2>4. CASE Starts("preparingAuthentication", PeerChannel[p])
    <3>1. state' = "preparingAuthentication" /\ mode' = "none"
      BY <2>4 DEF Starts
    <3>2. associationToken' # NoToken
      BY <2>1 DEF NewToken, NoToken
    <3>3. Believes'
      BY <1>1, <3>1 DEF Link, World, Believes, HoldsRole, HoldsLink, LinkOpen,
                LinkUp, Linked, Scanning, ScanState
    <3>4. Located' /\ Admits'
      BY <3>1, <3>2 DEF Located, Admits, Homed, Scanning, ScanState, Linked
    <3>5. TunesNext(PeerChannel[p])
      BY <1>1, <3>1 DEF TunesNext
    <3> QED
      BY <1>1, <1>2, <2>4, <3>3, <3>4, <3>5, StartsHold, ActionOfValues
  <2> QED
    BY <2>2, <2>3, <2>4
<1> QED
  BY <1>3, <1>4

\* A resting attempt or link is on its access point's channel.
LEMMA RestingAttempt ==
  ASSUME Link, state \in LinkState, ~Waiting
  PROVE  /\ state \in {"authenticating", "associated", "authorized"}
         /\ Attached /\ HoldsRole
         /\ home = PeerChannel[peer] /\ radio = home
<1>1. state \in {"authenticating", "associated", "authorized"}
  BY ActionOfValues, OrderOfValues
  DEF Link, World, Work, Waits, Waiting, LinkState
<1> QED
  BY <1>1 DEF Link, World, Located, Homed, Attached, HoldsRole, LinkState

\* disconnect() outside a scan closes admission and waits, or tears down.
LEMMA DisconnectEntryHolds ==
  ASSUME Link, NEW now \in Time, Disconnect(now)
  PROVE  World'
<1>1. /\ state \in LinkState /\ disconnectRequested' = TRUE /\ Delivers
      /\ UNCHANGED <<scanVars, attemptVars, home, portOpen, firmware,
                     roleCreated>>
  BY DEF Disconnect, Delivers, stableVars, deviceVars
<1>2. CASE Waiting
  <2>1. CASE Fail
    BY <1>1, <2>1, FailDoes, FaultsHold
  <2>2. CASE ~Fail
    <3>1. /\ mode' = "none"
          /\ UNCHANGED <<state, pendingVars, waitingAction, waitingCommand,
                         requests, h2c, radio>>
      BY <1>2, <2>2 DEF Disconnect, Refused
    <3>2. ~Linked /\ ~Scanning
      BY <1>1, <1>2, ActionOfValues, OrderOfValues
      DEF Link, World, Work, Waits, Waiting, Linked, Scanning, ScanState,
          LinkState
    <3>3. Believes'
      BY <1>1, <3>1 DEF Link, World, Believes, HoldsRole, HoldsLink, LinkOpen,
                        LinkUp, Linked, Scanning, scanVars
    <3>4. Located'
      BY <1>1, <3>1 DEF Link, World, Located, Attached, Scanning, attemptVars,
                        scanVars, scanPlan
    <3>5. Admits'
      BY <1>1, <3>1, <3>2 DEF Link, World, Admits, Attached, Scanning, Linked,
                        ScanState, LinkState, attemptVars, scanVars, scanPlan
    <3>6. \A ch : TunesTo(ch) => TunesNext(ch)
      BY <1>1, <3>1 DEF TunesTo, TunesNext, RestoreTarget, attemptVars,
                        scanVars, scanPlan
    <3> QED
      BY <1>1, <3>1, <3>3, <3>4, <3>5, <3>6, StillHolds
  <2> QED
    BY <2>1, <2>2
<1>3. CASE ~Waiting
  <2>1. BeginDisconnect(Waiting)
    BY <1>3 DEF Disconnect
  <2>2. Clear
    BY <1>1, <1>3, RestingAttempt, RestingIsClear
  <2> QED
    BY <1>1, <1>3, <2>1, <2>2, RestingAttempt, DisconnectHolds
    DEF attemptVars
<1> QED
  BY <1>2, <1>3

\* stop() gives the role back.
LEMMA StopHolds ==
  ASSUME Link, NEW now \in Time, Stop(now)
  PROVE  World'
<1>1. /\ state = "idle" /\ Delivers
      /\ UNCHANGED <<scanVars, linkVars, firmware, roleCreated>>
  BY DEF Stop, Delivers, stableVars, deviceVars
<1>2. Clear
  BY <1>1, RestingStates, RestingIsClear
<1>3. Faults \/ Publishes("removingRole", "none")
  BY BeginCommandDoes, FailDoes, OrderOfValues DEF Stop, Refused, Link, Inv
<1>4. CASE Faults
  BY <1>1, <1>4, FaultsHold
<1>5. CASE Publishes("removingRole", "none")
  <2>1. state' = "removingRole" /\ mode' = "none"
    BY <1>5 DEF Publishes
  <2>2. Believes'
    BY <1>1, <2>1 DEF Link, World, Believes, HoldsRole, HoldsLink, LinkOpen,
                      LinkUp, Linked, Scanning, ScanState
  <2>3. Located' /\ Admits'
    BY <2>1 DEF Located, Admits, Homed, Attached, Scanning, ScanState,
                LinkState, Linked
  <2> QED
    BY <1>1, <1>2, <1>5, <2>2, <2>3, PublishesHold, OrderOfValues
<1> QED
  BY <1>3, <1>4, <1>5

\* A call turned down changes nothing but the clock.
LEMMA TurnedDownHolds ==
  ASSUME Link, NEW now \in Time, TurnedDown(now)
  PROVE  World'
  BY QuietHolds DEF TurnedDown, Delivers, stableVars, deviceVars, linkVars,
                    attemptVars

\* A scan moves to its next channel or home, and is silent on the way.
LEMMA ScanMovesOn ==
  ASSUME Link, Delivers, Clear, Scanning,
         NEW st \in {"scanningTune", "scanningRestore"}, NEW target,
         Starts(st, target), TunesNext(target),
         UNCHANGED <<scanToken, scanResume, scanCancelled, disconnectRequested,
                     attemptVars, home, portOpen, firmware, roleCreated>>
  PROVE  World'
<1>1. /\ state' = st /\ mode' = "none" /\ st \in DOMAIN ActionOf
      /\ state # "faulted"
  BY ActionOfValues DEF Starts, Scanning, ScanState
<1>2. Believes'
  BY <1>1 DEF Link, World, Believes, HoldsRole, HoldsLink, LinkOpen, LinkUp,
              Linked, Scanning, ScanState
<1>3. Located'
  BY <1>1 DEF Link, World, Located, Homed, Attached, Scanning, ScanState,
              LinkState, attemptVars
<1>4. Admits'
  BY <1>1 DEF Link, World, Admits, Attached, Scanning, ScanState, LinkState,
              Linked, attemptVars
<1> QED
  BY <1>1, <1>2, <1>3, <1>4, StartsHold

\* tick(): expiry, the end of a dwell, or nothing.
LEMMA TickHolds ==
  ASSUME Link, NEW now \in Time, Tick(now)
  PROVE  World'
<1>1. /\ Delivers
      /\ UNCHANGED <<scanPlan, scanResume, scanCancelled, attemptVars, home,
                     portOpen, firmware, roleCreated>>
  BY DEF Tick, Delivers, stableVars, deviceVars
<1>2. CASE Fail
  BY <1>1, <1>2, FailDoes, FaultsHold
<1>3. CASE /\ AuthenticationExpired(now) /\ BeginDisconnect(Waiting)
  <2>1. state \in LinkState /\ ~Waiting
    BY <1>3 DEF AuthenticationExpired, LinkState
  <2>2. Clear
    BY <1>1, <2>1, RestingAttempt, RestingIsClear
  <2> QED
    BY <1>1, <1>3, <2>1, <2>2, RestingAttempt, DisconnectHolds
    DEF attemptVars
<1>4. CASE /\ state = "scanningDwell" /\ UNCHANGED disconnectRequested
           /\ IF scanCancelled \/ channelIndex' > Len(channels)
              THEN RestoreScan(Waiting) ELSE TuneScan(Waiting, channelIndex')
  <2>1. Clear
    BY <1>1, <1>4, RestingStates, RestingIsClear
  <2>2. \/ Faults
        \/ Starts("scanningRestore", RestoreTarget)
        \/ Starts("scanningTune", channels[channelIndex'].channel)
    BY <1>4, RestoreDoes, TuneDoes DEF Link, Inv
  <2>3. CASE Faults
    BY <1>1, <2>3, FaultsHold
  <2>4. CASE Starts("scanningRestore", RestoreTarget)
    <3>1. TunesNext(RestoreTarget)
      BY <1>1, <2>4 DEF Starts, TunesNext, RestoreTarget, attemptVars
    <3> QED
      BY <1>1, <1>4, <2>1, <2>4, <3>1, ScanMovesOn
      DEF Scanning, ScanState, scanPlan
  <2>5. CASE Starts("scanningTune", channels[channelIndex'].channel)
    <3>1. TunesNext(channels[channelIndex'].channel)
      BY <1>1, <2>5 DEF Starts, TunesNext, scanPlan
    <3> QED
      BY <1>1, <1>4, <2>1, <2>5, <3>1, ScanMovesOn
      DEF Scanning, ScanState, scanPlan
  <2> QED
    BY <2>2, <2>3, <2>4, <2>5
<1>5. CASE UNCHANGED <<engineVars, channelIndex, disconnectRequested>>
  BY <1>1, <1>5, QuietHolds DEF scanVars, attemptVars
<1> QED
  BY <1>2, <1>3, <1>4, <1>5 DEF Tick

----------------------------------------------------------------------------
(* Protocol evidence. *)

\* Evidence that ends an attempt tears it down, or finds it ended.
LEMMA AttemptEndsHolds ==
  ASSUME Link, Delivers, state = "authenticating",
         BeginDisconnect(Waiting) \/ StartTwice,
         UNCHANGED <<associationToken, peer, home, firmware, roleCreated>>
  PROVE  World'
<1>1. CASE StartTwice
  BY <1>1, StartTwiceDoes, FaultsHold
<1>2. CASE BeginDisconnect(Waiting)
  <2>1. state \in LinkState /\ ~Waiting /\ Clear
    BY RestingStates, RestingIsClear DEF LinkState
  <2> QED
    BY <1>2, <2>1, RestingAttempt, DisconnectHolds
<1> QED
  BY <1>1, <1>2

\* authenticated(), with success or without.
LEMMA AuthenticatedHolds ==
  ASSUME Link, NEW original, NEW bssid, NEW success, NEW now \in Time,
         Authenticated(original, bssid, success, now)
  PROVE  World'
<1>1. /\ state = "authenticating" /\ Delivers
      /\ UNCHANGED <<scanVars, associationToken, peer, home, portOpen,
                     firmware, roleCreated>>
  BY DEF Authenticated, Evidence, Delivers, stableVars, deviceVars
<1>2. CASE UNCHANGED <<engineVars, disconnectRequested>>
  BY <1>1, <1>2, QuietHolds
<1>3. CASE BeginDisconnect(Waiting) \/ StartTwice
  BY <1>1, <1>3, AttemptEndsHolds
<1> QED
  BY <1>2, <1>3 DEF Authenticated

\* associationReceived() and associationRejected().
LEMMA AssociationHolds ==
  ASSUME Link, NEW original, NEW bssid, NEW now \in Time,
         \/ AssociationReceived(original, bssid, now)
         \/ AssociationRejected(original, bssid, now)
  PROVE  World'
<1>1. /\ state = "authenticating" /\ Delivers
      /\ UNCHANGED <<scanVars, attemptVars, home, portOpen, firmware,
                     roleCreated>>
  BY DEF AssociationReceived, AssociationRejected, Evidence, Delivers,
         stableVars, deviceVars
<1>2. CASE BeginDisconnect(Waiting) \/ StartTwice
  BY <1>1, <1>2, AttemptEndsHolds DEF attemptVars
<1>3. CASE /\ UNCHANGED disconnectRequested
           /\ BeginAction(Waiting, "associationCmac",
                          "installingAssociationCmac", NoChannel, serial)
  <2>1. Faults \/ Starts("installingAssociationCmac", NoChannel)
    BY <1>3, BeginActionDoes, ActionOfValues, Numbers DEF Link, Inv
  <2>2. CASE Faults
    BY <1>1, <2>2, FaultsHold
  <2>3. CASE Starts("installingAssociationCmac", NoChannel)
    <3>1. /\ state' = "installingAssociationCmac" /\ mode' = "none"
          /\ radio' = radio
      BY <2>3 DEF Starts, TuningStates
    <3>2. Clear
      BY <1>1, RestingStates, RestingIsClear
    <3>3. Believes'
      BY <1>1, <3>1 DEF Link, World, Believes, HoldsRole, HoldsLink, LinkOpen,
                        LinkUp, Linked, Scanning, ScanState
    <3>4. Located'
      BY <1>1, <3>1 DEF Link, World, Located, Homed, Attached, LinkState,
                        attemptVars
    <3>5. Admits'
      BY <1>1, <3>1 DEF Link, World, Admits, Attached, Scanning, ScanState,
                        LinkState, Linked, attemptVars
    <3>6. TunesNext(NoChannel)
      BY <3>1 DEF TunesNext
    <3> QED
      BY <1>1, <2>3, <3>2, <3>3, <3>4, <3>5, <3>6, StartsHold, ActionOfValues
  <2> QED
    BY <2>1, <2>2, <2>3
<1> QED
  BY <1>2, <1>3 DEF AssociationReceived, AssociationRejected

\* authorizePort() and revokePort().
LEMMA PortHolds ==
  ASSUME Link, NEW original, NEW now \in Time,
         AuthorizePort(original, now) \/ RevokePort(original, now)
  PROVE  World'
<1>1. /\ Delivers
      /\ UNCHANGED <<scanPlan, channelIndex, scanCancelled, attemptVars, home,
                     disconnectRequested, firmware, roleCreated>>
  BY DEF AuthorizePort, RevokePort, Delivers, stableVars, deviceVars, scanVars
<1>2. ASSUME Linked, NEW st \in {"associated", "authorized"}, NEW traffic,
             traffic = IF st = "authorized" THEN "authorized"
                                            ELSE "controlledPort",
             st = "authorized" => portOpen',
             Rests(st, traffic)
      PROVE  World'
  <2>1. state' = st /\ mode' = traffic /\ radio' = radio
    BY <1>2 DEF Rests
  <2>2. Clear /\ state # "faulted" /\ ~Waiting
    BY <1>1, <1>2, RestingStates, RestingIsClear DEF Linked
  <2>3. Believes'
    BY <1>1, <1>2, <2>1 DEF Link, World, Believes, HoldsRole, HoldsLink,
              LinkOpen, LinkUp, Linked, Scanning, ScanState
  <2>4. Located'
    BY <1>1, <1>2, <2>1 DEF Link, World, Located, Homed, Attached, Scanning,
              ScanState, LinkState, Linked, attemptVars
  <2>5. Admits'
    BY <1>1, <1>2, <2>1 DEF Link, World, Admits, Attached, Scanning,
              ScanState, LinkState, Linked, attemptVars
  <2>6. st \notin DOMAIN ActionOf /\ st \notin DOMAIN OrderOf
    BY ActionOfValues, OrderOfValues
  <2> QED
    BY <1>1, <1>2, <2>2, <2>3, <2>4, <2>5, <2>6, RestsHold
<1>3. CASE AuthorizePort(original, now)
  <2>1. Linked /\ portOpen' = TRUE /\ (Faults \/ Rests("authorized", "authorized"))
    BY <1>3, SettleDoes DEF AuthorizePort, Linked
  <2> QED
    BY <1>1, <1>2, <2>1, FaultsHold
<1>4. CASE RevokePort(original, now) /\ Linked
  <2>1. CASE Faults
    BY <1>1, <2>1, FaultsHold
  <2>2. CASE ~Faults
    <3>1. Rests("associated", "controlledPort")
      BY <1>4, <2>2, SettleDoes
      DEF RevokePort, Linked, Scanning, ScanState
    <3> QED
      BY <1>2, <1>4, <3>1
  <2> QED
    BY <2>1, <2>2
<1>5. CASE RevokePort(original, now) /\ ~Linked
  <2>1. /\ Scanning /\ scanResume # "idle" /\ scanResume' = "associated"
        /\ UNCHANGED engineVars
    BY <1>5 DEF RevokePort, ResumeRevoked
  <2>2. UNCHANGED <<state, mode, radio>>
    BY <2>1 DEF engineVars
  <2>3. Believes'
    BY <1>1, <2>1, <2>2 DEF Link, World, Believes, HoldsRole, HoldsLink,
              LinkOpen, LinkUp, Linked, Scanning, ScanState
  <2>4. Located'
    BY <1>1, <2>1, <2>2 DEF Link, World, Located, Attached, Scanning,
              attemptVars, scanPlan
  <2>5. Admits'
    BY <1>1, <2>1, <2>2 DEF Link, World, Admits, Attached, Scanning,
              ScanState, LinkState, Linked, attemptVars, scanPlan
  <2>6. \A ch : TunesTo(ch) => TunesNext(ch)
    BY <1>1, <2>1, <2>2 DEF TunesTo, TunesNext, RestoreTarget, attemptVars,
              scanPlan
  <2> QED
    BY <1>1, <2>1, <2>3, <2>4, <2>5, <2>6, StillHolds DEF engineVars
<1> QED
  BY <1>3, <1>4, <1>5

----------------------------------------------------------------------------
(* Completions of actions. *)

\* What a controller knows when the callback of its action says success.
Succeeds(c) ==
  /\ Matches(c) /\ c.success /\ Proceed(c.action) /\ Bookkeeping(c.action)
  /\ completions' \subseteq completions
  /\ UNCHANGED <<scanResume, channels, channelIndex, scanDeadline,
                 scanCancelled, portOpen, epoch, acks, firmware>>

\* It is silent, has nothing out, and the radio is where it was sent.
LEMMA SuccessMeans ==
  ASSUME Link, NEW c \in completions, Succeeds(c)
  PROVE  /\ Delivers /\ Clear /\ TunesTo(radio) /\ mode = "none"
         /\ state \in DOMAIN ActionOf /\ c.action = ActionOf[state]
<1>1. /\ Matches(c) /\ c.success /\ Delivers /\ UNCHANGED <<acks, epoch>>
  BY DEF Succeeds, Delivers
<1>2. /\ waitingAction /\ c.token = pendingToken
      /\ state \in DOMAIN ActionOf /\ c.action = ActionOf[state]
  BY <1>1 DEF Matches, Link, Inv, Paired
<1>3. mode = "none"
  BY <1>2, ActionOfValues
  DEF Link, World, Admits, Inv, TypeOK, EngineOK, Traffic
<1>4. Clear /\ state # "faulted"
  BY <1>1, MatchedIsClear
<1>5. TunesTo(radio)
  BY <1>1, <1>2, <1>4 DEF Link, World, Effects, Tuned
<1> QED
  BY <1>1, <1>2, <1>3, <1>4, <1>5

\* The interface is prepared, or the tables of an idle one are in place.
LEMMA InterfaceProceeds ==
  ASSUME Link, NEW c \in completions, Succeeds(c),
         state \in {"preparing", "installingIdle", "disconnectingCam",
                    "removingCam"}
  PROVE  World'
<1>1. /\ Delivers /\ Clear /\ TunesTo(radio) /\ mode = "none"
      /\ c.action = ActionOf[state] /\ firmware' = firmware
  BY SuccessMeans DEF Succeeds
<1>2. CASE Faults
  BY <1>1, <1>2, FaultsHold
<1>3. CASE state = "preparing" /\ ~Faults
  <2>1. c.action = "prepareInterface"
    BY <1>1, <1>3, ActionOfValues
  <2>2. UNCHANGED <<home, roleCreated>>
    BY <2>1 DEF Succeeds, Bookkeeping, Link, Inv, TypeOK, StableOK
  <2>3. BeginCommand(waitingCommand, "createRole", "creatingRole", mode)
    BY <2>1 DEF Succeeds, Proceed
  <2>4. Publishes("creatingRole", "none")
    BY <1>1, <1>3, <2>3, BeginCommandDoes, OrderOfValues DEF Link, Inv
  <2>5. state' = "creatingRole" /\ mode' = "none" /\ radio' = radio
    BY <2>4 DEF Publishes
  <2>6. Believes'
    BY <1>1, <1>3, <2>2, <2>5 DEF Link, World, Believes, HoldsRole, HoldsLink,
              LinkOpen, LinkUp, Linked, Scanning, ScanState
  <2>7. Located' /\ Admits'
    BY <1>1, <1>3, <2>2, <2>5 DEF TunesTo, Located, Admits, Homed, Attached,
              Scanning, ScanState, LinkState, Linked
  <2> QED
    BY <1>1, <1>3, <2>4, <2>6, <2>7, PublishesHold, OrderOfValues
<1>4. CASE state \in {"installingIdle", "disconnectingCam"} /\ ~Faults
  <2>1. c.action \in {"idleTables", "disconnectCam"}
    BY <1>1, <1>4, ActionOfValues
  <2>2. UNCHANGED <<home, roleCreated>>
    BY <2>1 DEF Succeeds, Bookkeeping, Link, Inv, TypeOK, StableOK
  <2>3. Settle("idle", "management", deadline, {"setTraffic"})
    BY <2>1 DEF Succeeds, Proceed
  <2>4. Rests("idle", "management")
    BY <1>4, <2>3, SettleDoes
  <2>5. state' = "idle" /\ mode' = "management" /\ radio' = radio
    BY <2>4 DEF Rests
  <2>6. Believes'
    BY <1>1, <1>4, <2>2, <2>5 DEF Link, World, Believes, HoldsRole, HoldsLink,
              LinkOpen, LinkUp, Linked, Scanning, ScanState
  <2>7. Located' /\ Admits'
    BY <1>4, <2>2, <2>5 DEF Link, World, Located, Admits, Homed, Attached,
              Scanning, ScanState, LinkState, Linked
  <2>8. "idle" \notin DOMAIN ActionOf /\ "idle" \notin DOMAIN OrderOf
    BY ActionOfValues, OrderOfValues
  <2> QED
    BY <1>1, <1>4, <2>4, <2>6, <2>7, <2>8, RestsHold
<1>5. CASE state = "removingCam" /\ ~Faults
  <2>1. c.action = "removeCam"
    BY <1>1, <1>5, ActionOfValues
  <2>2. ~roleCreated'
    BY <2>1 DEF Succeeds, Bookkeeping
  <2>3. Settle("stopped", mode, deadline, {})
    BY <2>1 DEF Succeeds, Proceed
  <2>4. Rests("stopped", "none")
    BY <1>1, <1>5, <2>3, SettleDoes
  <2>5. state' = "stopped" /\ mode' = "none"
    BY <2>4 DEF Rests
  <2>6. Believes'
    BY <1>1, <1>5, <2>2, <2>5 DEF Link, World, Believes, HoldsRole, HoldsLink,
              LinkOpen, LinkUp, Linked, Scanning, ScanState
  <2>7. Located' /\ Admits'
    BY <2>5 DEF Located, Admits, Homed, Attached, Scanning, ScanState,
              LinkState, Linked
  <2>8. "stopped" \notin DOMAIN ActionOf /\ "stopped" \notin DOMAIN OrderOf
    BY ActionOfValues, OrderOfValues
  <2> QED
    BY <1>1, <1>5, <2>4, <2>6, <2>7, <2>8, RestsHold
<1> QED
  BY <1>2, <1>3, <1>4, <1>5

\* A scan's action is done: the scan moves on, dwells, or ends.
LEMMA ScanProceeds ==
  ASSUME Link, NEW c \in completions, Succeeds(c), Scanning
  PROVE  World'
<1>1. /\ Delivers /\ Clear /\ TunesTo(radio)
      /\ state \in {"scanningBegin", "scanningTune", "scanningRestore",
                    "scanningEnd"}
      /\ c.action = ActionOf[state]
      /\ UNCHANGED <<scanResume, channels, channelIndex, scanCancelled,
                     portOpen, firmware>>
  BY SuccessMeans, ActionOfValues DEF Succeeds, Scanning, ScanState
<1>2. /\ c.action \in {"scanBegin", "scanTune", "scanRestore", "scanEnd"}
      /\ state = "scanningBegin" <=> c.action = "scanBegin"
      /\ state = "scanningTune" <=> c.action = "scanTune"
      /\ state = "scanningRestore" <=> c.action = "scanRestore"
      /\ state = "scanningEnd" <=> c.action = "scanEnd"
  BY <1>1, ActionOfValues
<1>3. /\ UNCHANGED <<home, roleCreated, attemptVars, disconnectRequested>>
      /\ state # "scanningEnd" => UNCHANGED scanToken
  BY <1>2 DEF Succeeds, Bookkeeping, Link, Inv, TypeOK, StableOK
<1>4. CASE Faults
  BY <1>1, <1>4, FaultsHold
<1>5. CASE Starts("scanningRestore", RestoreTarget) /\ state # "scanningEnd"
  <2>1. TunesNext(RestoreTarget)
    BY <1>1, <1>3, <1>5 DEF Starts, TunesNext, RestoreTarget, attemptVars
  <2> QED
    BY <1>1, <1>3, <1>5, <2>1, ScanMovesOn
<1>6. CASE /\ Starts("scanningTune", channels[channelIndex].channel)
           /\ state # "scanningEnd"
  <2>1. TunesNext(channels[channelIndex].channel)
    BY <1>1, <1>6 DEF Starts, TunesNext
  <2> QED
    BY <1>1, <1>3, <1>6, <2>1, ScanMovesOn
<1>7. CASE state = "scanningBegin"
  <2>1. IF scanCancelled THEN RestoreScan(waitingCommand)
                         ELSE TuneScan(waitingCommand, channelIndex)
    BY <1>2, <1>7 DEF Succeeds, Proceed
  <2> QED
    BY <1>4, <1>5, <1>6, <1>7, <2>1, RestoreDoes, TuneDoes DEF Link, Inv
<1>8. CASE state = "scanningTune"
  <2>1. IF scanCancelled THEN RestoreScan(waitingCommand) ELSE DwellBegins
    BY <1>2, <1>8 DEF Succeeds, Proceed
  <2> DEFINE traffic == IF channels[channelIndex].active THEN "scanProbe"
                                                         ELSE "none"
  <2>2. CASE ~scanCancelled /\ Rests("scanningDwell", traffic)
    <3>1. state' = "scanningDwell" /\ mode' = traffic /\ radio' = radio
      BY <2>2 DEF Rests
    <3>2. Believes'
      BY <1>1, <1>3, <1>8, <3>1 DEF Link, World, Believes, HoldsRole,
                HoldsLink, LinkOpen, LinkUp, Linked, Scanning, ScanState
    <3>3. Located'
      BY <1>1, <1>3, <1>8, <3>1 DEF TunesTo, Link, World, Located, Homed,
                Attached, Scanning, ScanState, LinkState, attemptVars
    <3>4. Admits'
      BY <1>1, <1>3, <1>8, <2>2, <3>1 DEF Link, World, Admits, Attached,
                Scanning, ScanState, LinkState, Linked, attemptVars
    <3>5. /\ "scanningDwell" \notin DOMAIN ActionOf
          /\ "scanningDwell" \notin DOMAIN OrderOf
      BY ActionOfValues, OrderOfValues
    <3> QED
      BY <1>1, <1>8, <2>2, <3>2, <3>3, <3>4, <3>5, RestsHold
  <2> QED
    BY <1>4, <1>5, <1>8, <2>1, <2>2, RestoreDoes, DwellDoes DEF Link, Inv
<1>9. CASE state = "scanningRestore"
  <2>1. BeginAction(waitingCommand, "scanEnd", "scanningEnd", NoChannel,
                    serial)
    BY <1>2, <1>9 DEF Succeeds, Proceed
  <2>2. Faults \/ Starts("scanningEnd", NoChannel)
    BY <2>1, BeginActionDoes, ActionOfValues, Numbers DEF Link, Inv
  <2>3. CASE Starts("scanningEnd", NoChannel)
    <3>1. state' = "scanningEnd" /\ mode' = "none" /\ radio' = radio
      BY <2>3 DEF Starts, TuningStates
    <3>2. Believes'
      BY <1>1, <1>3, <1>9, <3>1 DEF Link, World, Believes, HoldsRole,
                HoldsLink, LinkOpen, LinkUp, Linked, Scanning, ScanState
    <3>3. Located'
      BY <1>1, <1>3, <1>9, <3>1 DEF TunesTo, RestoreTarget, Link, World,
                Located, Homed, Attached, Scanning, ScanState, LinkState,
                attemptVars, Inv, TypeOK, ScanOK
    <3>4. Admits'
      BY <1>1, <1>3, <1>9, <3>1 DEF Link, World, Admits, Attached, Scanning,
                ScanState, LinkState, Linked, attemptVars
    <3>5. TunesNext(NoChannel)
      BY <3>1 DEF TunesNext
    <3> QED
      BY <1>1, <1>9, <2>3, <3>2, <3>3, <3>4, <3>5, StartsHold, ActionOfValues
  <2> QED
    BY <1>4, <2>2, <2>3
<1>10. CASE state = "scanningEnd"
  <2>1. CompleteScan(waitingCommand)
    BY <1>2, <1>10 DEF Succeeds, Proceed
  <2>2. CASE disconnectRequested
    <3>1. BeginDisconnect(waitingCommand)
      BY <2>1, <2>2 DEF CompleteScan
    <3>2. Attached /\ HoldsRole /\ home' = PeerChannel[peer] /\ radio = home'
      BY <1>3, <1>10, <2>2 DEF Link, Inv, NothingLeft, HoldsRole, World,
                Located, Homed
    <3> QED
      BY <1>1, <1>3, <3>1, <3>2, DisconnectHolds DEF attemptVars
  <2>3. CASE ~disconnectRequested /\ Rests(scanResume, ResumeTraffic)
    <3>1. /\ state' = scanResume /\ mode' = ResumeTraffic /\ radio' = radio
          /\ scanResume \in {"idle", "associated", "authorized"}
      BY <2>3 DEF Rests, Link, Inv, TypeOK, ScanOK
    <3>2. Believes'
      BY <1>1, <1>3, <1>10, <3>1 DEF Link, World, Believes, HoldsRole,
                HoldsLink, LinkOpen, LinkUp, Linked, Scanning, ScanState
    <3>3. Located'
      BY <1>1, <1>3, <1>10, <3>1 DEF Link, World, Located, Homed, Attached,
                Scanning, ScanState, LinkState, attemptVars
    <3>4. Admits'
      BY <1>1, <1>3, <1>10, <2>3, <3>1 DEF ResumeTraffic, Link, World, Admits,
                Attached, Scanning, ScanState, LinkState, Linked, attemptVars
    <3>5. scanResume \notin DOMAIN ActionOf /\ scanResume \notin DOMAIN OrderOf
      BY <3>1, ActionOfValues, OrderOfValues
    <3> QED
      BY <1>1, <1>10, <2>3, <3>2, <3>3, <3>4, <3>5, RestsHold
  <2> QED
    BY <1>4, <2>1, <2>2, <2>3, CompleteScanDoes DEF Link, Inv
<1> QED
  BY <1>1, <1>7, <1>8, <1>9, <1>10

\* An action of an attempt or of a tear-down is done.
LEMMA AttemptProceeds ==
  ASSUME Link, NEW c \in completions, Succeeds(c),
         state \in {"preparingAuthentication", "installingAssociationCmac",
                    "installingAssociationCam", "disconnectingCmac"}
  PROVE  World'
<1>1. /\ Delivers /\ Clear /\ TunesTo(radio) /\ mode = "none"
      /\ c.action = ActionOf[state] /\ UNCHANGED <<firmware, portOpen>>
      /\ Attached /\ HoldsRole
  BY SuccessMeans DEF Succeeds, Attached, LinkState, HoldsRole
<1>2. /\ c.action \in {"prepareAuthentication", "associationCmac",
                       "associationCam", "disconnectCmac"}
      /\ state = "preparingAuthentication"
           <=> c.action = "prepareAuthentication"
      /\ state = "installingAssociationCmac" <=> c.action = "associationCmac"
      /\ state = "installingAssociationCam" <=> c.action = "associationCam"
      /\ state = "disconnectingCmac" <=> c.action = "disconnectCmac"
  BY <1>1, ActionOfValues
<1>3. UNCHANGED <<roleCreated, attemptVars, disconnectRequested>>
  BY <1>2 DEF Succeeds, Bookkeeping, Link, Inv, TypeOK, StableOK
<1>4. home' = PeerChannel[peer] /\ radio = home'
  <2>1. home' = IF state = "preparingAuthentication" THEN PeerChannel[peer]
                                                     ELSE home
    BY <1>2 DEF Succeeds, Bookkeeping
  <2> QED
    BY <1>1, <2>1 DEF TunesTo, Link, World, Located, Homed
<1>5. CASE Faults
  BY <1>1, <1>5, FaultsHold
<1>6. CASE BeginDisconnect(waitingCommand)
  BY <1>1, <1>3, <1>4, <1>6, DisconnectHolds DEF attemptVars
<1>7. CASE state = "preparingAuthentication" /\ AuthenticationBegins /\ ~Faults
  <2>1. Rests("authenticating", "management")
    BY <1>7, AuthenticationDoes
  <2>2. state' = "authenticating" /\ mode' = "management" /\ radio' = radio
    BY <2>1 DEF Rests
  <2>3. Believes'
    BY <1>1, <1>3, <1>7, <2>2 DEF Link, World, Believes, HoldsRole, HoldsLink,
              LinkOpen, LinkUp, Linked, Scanning, ScanState
  <2>4. Located'
    BY <1>3, <1>4, <2>2 DEF Located, Homed, attemptVars
  <2>5. Admits'
    BY <1>1, <1>3, <2>2 DEF Link, World, Admits, Scanning, ScanState, Linked,
              attemptVars
  <2>6. /\ "authenticating" \notin DOMAIN ActionOf
        /\ "authenticating" \notin DOMAIN OrderOf
    BY ActionOfValues, OrderOfValues
  <2> QED
    BY <1>1, <1>7, <2>1, <2>3, <2>4, <2>5, <2>6, RestsHold
<1>8. CASE /\ state = "installingAssociationCmac" /\ ~Faults
           /\ BeginCommand(waitingCommand, "join", "joining", mode)
  <2>1. Publishes("joining", "none")
    BY <1>1, <1>8, BeginCommandDoes, OrderOfValues DEF Link, Inv
  <2>2. state' = "joining" /\ mode' = "none" /\ radio' = radio
    BY <2>1 DEF Publishes
  <2>3. Believes'
    BY <1>1, <1>3, <1>8, <2>2 DEF Link, World, Believes, HoldsRole, HoldsLink,
              LinkOpen, LinkUp, Linked, Scanning, ScanState
  <2>4. Located'
    BY <1>3, <1>4, <2>2 DEF Located, Homed, attemptVars
  <2>5. Admits'
    BY <1>1, <1>3, <2>2 DEF Link, World, Admits, Scanning, ScanState, Linked,
              attemptVars
  <2> QED
    BY <1>1, <1>8, <2>1, <2>3, <2>4, <2>5, PublishesHold, OrderOfValues
<1>9. CASE /\ state = "installingAssociationCam" /\ ~Faults
           /\ ~disconnectRequested
           /\ Settle("associated", "controlledPort", deadline, {"setTraffic"})
  <2>1. Rests("associated", "controlledPort")
    BY <1>9, SettleDoes
  <2>2. state' = "associated" /\ mode' = "controlledPort" /\ radio' = radio
    BY <2>1 DEF Rests
  <2>3. Believes'
    BY <1>1, <1>3, <1>9, <2>2 DEF Link, World, Believes, HoldsRole, HoldsLink,
              LinkOpen, LinkUp, Linked, Scanning, ScanState
  <2>4. Located'
    BY <1>3, <1>4, <2>2 DEF Located, Homed, attemptVars
  <2>5. Admits'
    BY <1>1, <1>3, <1>9, <2>2 DEF Link, World, Admits, Scanning, ScanState,
              Linked, attemptVars
  <2>6. "associated" \notin DOMAIN ActionOf /\ "associated" \notin DOMAIN OrderOf
    BY ActionOfValues, OrderOfValues
  <2> QED
    BY <1>1, <1>9, <2>1, <2>3, <2>4, <2>5, <2>6, RestsHold
<1>10. CASE /\ state = "disconnectingCmac" /\ ~Faults
            /\ BeginCommand(waitingCommand, "leave", "disconnecting", mode)
  <2>1. Publishes("disconnecting", "none")
    BY <1>1, <1>10, BeginCommandDoes, OrderOfValues DEF Link, Inv
  <2>2. state' = "disconnecting" /\ mode' = "none" /\ radio' = radio
    BY <2>1 DEF Publishes
  <2>3. Believes'
    BY <1>1, <1>3, <1>10, <2>2 DEF Link, World, Believes, HoldsRole,
              HoldsLink, LinkOpen, LinkUp, Linked, Scanning, ScanState
  <2>4. Located'
    BY <1>3, <1>4, <2>2 DEF Located, Homed, attemptVars
  <2>5. Admits'
    BY <1>1, <1>3, <2>2 DEF Link, World, Admits, Scanning, ScanState, Linked,
              attemptVars
  <2> QED
    BY <1>1, <1>10, <2>1, <2>3, <2>4, <2>5, PublishesHold, OrderOfValues
<1> QED
  BY <1>2, <1>5, <1>6, <1>7, <1>8, <1>9, <1>10 DEF Succeeds, Proceed

\* actionComplete(), whichever callback it is given.
LEMMA ActionCompleteHolds ==
  ASSUME Link, NEW c \in completions, NEW now \in Time, ActionComplete(c, now)
  PROVE  World'
<1>1. /\ Delivers /\ completions' \subseteq completions
      /\ UNCHANGED <<scanResume, channels, channelIndex, scanDeadline,
                     scanCancelled, portOpen, epoch, acks, firmware>>
  BY DEF ActionComplete, Delivered, Delivers
<1>2. CASE UNCHANGED <<engineVars, scanToken, home, attempts, roleCreated,
                       attemptVars, disconnectRequested>>
  BY <1>1, <1>2, QuietHolds DEF scanVars, scanPlan, attemptVars
<1>3. CASE Fail
  BY <1>1, <1>3, FailDoes, FaultsHold
<1>4. CASE Matches(c) /\ c.success /\ Proceed(c.action) /\ Bookkeeping(c.action)
  <2>1. Succeeds(c)
    BY <1>1, <1>4 DEF Succeeds
  <2>2. state \in DOMAIN ActionOf
    BY <2>1, SuccessMeans
  <2> QED
    BY <2>1, <2>2, ActionOfValues, InterfaceProceeds, ScanProceeds,
       AttemptProceeds DEF Scanning, ScanState
<1> QED
  BY <1>2, <1>3, <1>4 DEF ActionComplete

----------------------------------------------------------------------------
(* Firmware acknowledgements. *)

\* An acknowledged command has had its effect, and the next step follows.
LEMMA CommandDoneHolds ==
  ASSUME Link, NEW a \in acks, Acknowledges(a), a.ok, CommandDone,
         acks' = acks \ {a},
         roleCreated' = (roleCreated \/ state = "creatingRole"),
         UNCHANGED <<scanVars, linkVars, epoch, completions, firmware>>
  PROVE  World'
<1>1. Delivers /\ Clear /\ state # "faulted"
  BY AcknowledgedIsClear DEF Delivers
<1>2. /\ waitingCommand /\ state \in DOMAIN OrderOf /\ Done(a)
  BY <1>1 DEF Acknowledges, Link, Inv, Paired, Done
<1>3. mode = "none"
  BY <1>2, OrderOfValues
  DEF Link, World, Admits, Inv, TypeOK, EngineOK, Traffic
<1>4. /\ state = "creatingRole"  => firmware.role
      /\ state = "joining"       => firmware.link
      /\ state = "disconnecting" => ~firmware.link
      /\ state = "removingRole"  => ~firmware.role
  BY <1>1, <1>2 DEF Link, World, Effects, Answered
<1>5. CASE Faults
  BY <1>1, <1>5, FaultsHold
<1>6. CASE state = "joining" /\ BeginDisconnect(waitingAction)
  <2>1. Attached /\ HoldsRole /\ home' = PeerChannel[peer] /\ radio = home'
    BY <1>6 DEF Link, World, Located, Homed, Attached, LinkState, HoldsRole,
                linkVars
  <2>2. roleCreated' = roleCreated
    BY <1>6 DEF Link, Inv, TypeOK, StableOK
  <2> QED
    BY <1>1, <1>6, <2>1, <2>2, DisconnectHolds DEF linkVars, attemptVars
<1>7. CASE state = "creatingRole" /\ Publishes("initialNoLink", "none")
  <2>1. state' = "initialNoLink" /\ mode' = "none" /\ radio' = radio
    BY <1>7 DEF Publishes
  <2>2. Believes'
    BY <1>4, <1>7, <2>1 DEF Link, World, Believes, HoldsRole, HoldsLink,
              LinkOpen, LinkUp, Linked, Scanning, ScanState
  <2>3. Located' /\ Admits'
    BY <1>7, <2>1 DEF Link, World, Located, Admits, Homed, Attached, Scanning,
              ScanState, LinkState, Linked, linkVars
  <2> QED
    BY <1>1, <1>7, <2>2, <2>3, PublishesHold, OrderOfValues
<1>8. ASSUME NEW st, Starts(st, NoChannel),
             \/ state = "initialNoLink" /\ st = "installingIdle"
             \/ state = "joining" /\ st = "installingAssociationCam"
             \/ state = "disconnecting" /\ st = "disconnectingCam"
             \/ state = "removingRole" /\ st = "removingCam"
      PROVE  World'
  <2>1. /\ state' = st /\ mode' = "none" /\ radio' = radio
        /\ st \in DOMAIN ActionOf
    BY <1>8, ActionOfValues DEF Starts, TuningStates
  <2>2. Believes'
    BY <1>4, <1>8, <2>1 DEF Link, World, Believes, HoldsRole, HoldsLink,
              LinkOpen, LinkUp, Linked, Scanning, ScanState
  <2>3. Located'
    BY <1>8, <2>1 DEF Link, World, Located, Homed, Attached, Scanning,
              ScanState, LinkState, linkVars, attemptVars
  <2>4. Admits'
    BY <1>8, <2>1 DEF Link, World, Admits, Attached, Scanning, ScanState,
              LinkState, Linked, linkVars, attemptVars
  <2>5. TunesNext(NoChannel)
    BY <1>8, <2>1 DEF TunesNext
  <2> QED
    BY <1>1, <1>8, <2>1, <2>2, <2>3, <2>4, <2>5, StartsHold
<1>9. CASE state = "creatingRole"
  <2>1. BeginCommand(waitingAction, "leave", "initialNoLink", mode)
    BY <1>9 DEF CommandDone
  <2> QED
    BY <1>3, <1>5, <1>7, <1>9, <2>1, BeginCommandDoes, OrderOfValues
    DEF Link, Inv
<1>10. CASE /\ state # "creatingRole"
            /\ ~(state = "joining" /\ BeginDisconnect(waitingAction))
  <2>1. \E st : /\ \/ state = "initialNoLink" /\ st = "installingIdle"
                   \/ state = "joining" /\ st = "installingAssociationCam"
                   \/ state = "disconnecting" /\ st = "disconnectingCam"
                   \/ state = "removingRole" /\ st = "removingCam"
                /\ BeginAction(waitingAction, ActionOf[st], st, NoChannel,
                               serial)
    BY <1>10, ActionOfValues DEF CommandDone
  <2>2. PICK st : /\ \/ state = "initialNoLink" /\ st = "installingIdle"
                     \/ state = "joining" /\ st = "installingAssociationCam"
                     \/ state = "disconnecting" /\ st = "disconnectingCam"
                     \/ state = "removingRole" /\ st = "removingCam"
                  /\ BeginAction(waitingAction, ActionOf[st], st, NoChannel,
                                 serial)
    BY <2>1
  <2>3. st \in DOMAIN ActionOf /\ serial \in Nat
    BY <2>2, ActionOfValues, Numbers DEF Link, Inv
  <2>4. Faults \/ Starts(st, NoChannel)
    BY <2>2, <2>3, BeginActionDoes DEF Link, Inv
  <2> QED
    BY <1>5, <1>8, <2>2, <2>4
<1> QED
  BY <1>6, <1>9, <1>10

\* firmwareEvent(), whichever answer it is given.
LEMMA FirmwareEventHolds ==
  ASSUME Link, NEW a \in acks, NEW now \in Time, FirmwareEvent(a, now)
  PROVE  World'
<1>1. /\ Delivers /\ acks' = acks \ {a}
      /\ UNCHANGED <<scanVars, linkVars, epoch, completions, firmware>>
  BY DEF FirmwareEvent, Delivers
<1>2. CASE UNCHANGED <<engineVars, roleCreated>>
  BY <1>1, <1>2, QuietHolds DEF linkVars, attemptVars
<1>3. CASE Fail
  BY <1>1, <1>3, FailDoes, FaultsHold
<1>4. CASE /\ Acknowledges(a) /\ a.ok /\ CommandDone
           /\ roleCreated' = (roleCreated \/ state = "creatingRole")
  BY <1>1, <1>4, CommandDoneHolds
<1> QED
  BY <1>2, <1>3, <1>4 DEF FirmwareEvent

----------------------------------------------------------------------------
(* The device and its firmware. *)

\* What the controller alone changes.
ControllerKept ==
  UNCHANGED <<state, pendingVars, waitingAction, waitingCommand, mode,
              scanVars, linkVars, epoch, roleCreated>>

\* What of the invariant is the controller's alone, the device cannot touch.
LEMMA ControllerHolds ==
  ASSUME Link, ControllerKept
  PROVE  /\ Waits' /\ Admits'
         /\ \A ch : TunesTo(ch) => TunesTo(ch)'
<1> USE DEF ControllerKept, pendingVars, scanVars, scanPlan, linkVars,
            attemptVars
<1>1. Waits'
  BY DEF Link, World, Work, Waits
<1>2. Admits'
  BY DEF Link, World, Admits, Attached, Scanning, Linked
<1>3. \A ch : TunesTo(ch) => TunesTo(ch)'
  BY DEF TunesTo, RestoreTarget
<1> QED
  BY <1>1, <1>2, <1>3

\* Finished work becomes a callback, and the radio is where it was sent.
LEMMA DeviceFinishesHolds ==
  ASSUME Link, NEW r \in requests, NEW ok \in BOOLEAN, DeviceFinishes(r, ok)
  PROVE  World'
<1> DEFINE c == [token |-> r.token, action |-> r.action, success |-> ok]
<1>1. /\ ControllerKept /\ requests' = requests \ {r}
      /\ completions' = completions \cup {c}
      /\ c.token = r.token /\ c.success = ok
      /\ radio' = IF ok /\ r.action \in Tuning /\ r.token.epoch = epoch
                  THEN r.channel ELSE radio
      /\ UNCHANGED <<h2c, acks, firmware, epoch, serial, pendingToken,
                     pendingAction, pendingOrder, pendingSequence, state,
                     waitingAction, waitingCommand, home, peer, channels,
                     channelIndex, scanResume, roleCreated>>
  BY DEF DeviceFinishes, ControllerKept, linkVars, attemptVars, scanVars,
         scanPlan, pendingVars
<1>2. Waits' /\ Admits' /\ \A ch : TunesTo(ch) => TunesTo(ch)'
  BY <1>1, ControllerHolds
<1>3. Dated'
  BY <1>1 DEF Link, World, Work, Dated
<1>4. Believes'
  BY <1>1 DEF Link, World, Believes, HoldsRole, HoldsLink, LinkOpen, LinkUp,
              Linked, Scanning
<1>5. CASE state = "faulted"
  <2>1. Located'
    BY <1>1, <1>5 DEF Located, Homed, Attached, LinkState, Scanning, ScanState
  <2>2. Work' /\ Effects'
    BY <1>1, <1>2, <1>3, <1>5 DEF Work, Effects
  <2> QED
    BY <1>2, <1>4, <2>1, <2>2 DEF World
<1>6. CASE state # "faulted" /\ r.token.epoch # epoch
  <2>1. radio' = radio
    BY <1>1, <1>6
  <2>2. Located'
    BY <1>1, <2>1 DEF Link, World, Located, Attached, Scanning
  <2>3. \A q \in requests' : q.token.epoch = epoch => q.token # r.token
    BY <1>6
  <2>4. ActionsOut'
    BY <1>1, <1>2, <1>6, <2>3 DEF Link, World, Work, ActionsOut
  <2>5. CommandsOut' /\ Answered'
    BY <1>1, <1>6 DEF Link, World, Work, CommandsOut, Effects, Answered, Done
  <2>6. waitingAction => pendingToken.epoch = epoch
    BY <1>6 DEF Link, World, Work, Waiting, NewToken
  <2>7. Tuned'
    BY <1>1, <1>2, <1>6, <2>1, <2>6 DEF Link, World, Effects, Tuned
  <2>8. Work' /\ Effects'
    BY <1>1, <1>2, <1>3, <1>6, <2>4, <2>5, <2>7
    DEF Link, World, Work, Effects, Waiting, NewToken
  <2> QED
    BY <1>2, <1>4, <2>2, <2>8 DEF World
<1>7. CASE state # "faulted" /\ r.token.epoch = epoch
  <2>1. /\ waitingAction /\ r.token = pendingToken /\ r.action = pendingAction
        /\ TunesTo(r.channel) /\ \A d \in completions : d.token # pendingToken
        /\ pendingToken = NewToken(serial)
        /\ state \in DOMAIN ActionOf /\ pendingAction = ActionOf[state]
    BY <1>7 DEF Link, World, Work, ActionsOut, Inv, Paired, Waiting
  <2>2. /\ state \in TuningStates <=> r.action \in Tuning
        /\ state \in TuningStates => state \notin Homed
        /\ state # "scanningDwell"
    BY <2>1, ActionOfValues DEF TuningStates, Tuning, Homed
  <2>3. Located'
    BY <1>1, <2>2 DEF Link, World, Located, Attached, Scanning
  <2>4. pendingToken.operation = serial /\ serial \in Nat
    BY <2>1, Numbers DEF NewToken, Link, Inv
  <2>5. \A q \in requests' : q.token.epoch # epoch
    BY <1>1, <1>7 DEF Link, World, Work, ActionsOut
  <2>6. \A d \in completions' : d.token.epoch = epoch =>
          d.token.operation <= serial
    BY <1>1, <1>7, <2>1, <2>4 DEF Link, World, Work, ActionsOut
  <2>7. ActionsOut'
    BY <1>1, <2>5, <2>6 DEF ActionsOut
  <2>8. CommandsOut' /\ Answered'
    BY <1>1, <1>7 DEF Link, World, Work, CommandsOut, Effects, Answered, Done
  <2>9. ok => TunesTo(radio')
    BY <1>1, <1>7, <2>1, <2>2 DEF TunesTo, TuningStates
  <2>10. Tuned'
    BY <1>1, <2>1, <2>9 DEF Tuned, TunesTo, RestoreTarget
  <2>11. Work' /\ Effects'
    BY <1>1, <1>2, <1>3, <1>7, <2>7, <2>8, <2>10
    DEF Link, World, Work, Effects, Waiting, NewToken
  <2> QED
    BY <1>2, <1>4, <2>3, <2>11 DEF World
<1> QED
  BY <1>5, <1>6, <1>7

\* A receive acknowledgement says nothing was executed.
LEMMA FirmwareReceivesHolds ==
  ASSUME Link, NEW k \in h2c, FirmwareReceives(k)
  PROVE  World'
<1> DEFINE a == [epoch |-> k.epoch, sequence |-> k.sequence,
                 command |-> CommandId(k.order), done |-> FALSE, ok |-> TRUE]
<1>1. /\ ControllerKept /\ acks' = acks \cup {a}
      /\ a.epoch = k.epoch /\ ~a.done
      /\ UNCHANGED <<requests, completions, h2c, radio, firmware, epoch,
                     serial, pendingToken, pendingAction, pendingOrder,
                     pendingSequence, state, waitingAction, waitingCommand,
                     home, peer, channels, channelIndex, scanResume,
                     roleCreated>>
  BY DEF FirmwareReceives, ControllerKept, engineVars, linkVars, attemptVars,
         scanVars, scanPlan, pendingVars
<1>2. Waits' /\ Admits' /\ \A ch : TunesTo(ch) => TunesTo(ch)'
  BY <1>1, ControllerHolds
<1>3. k.epoch = epoch /\ epoch \in Nat
  BY Numbers DEF Link, World, Work, Dated, Inv
<1>4. Dated'
  BY <1>1, <1>3 DEF Link, World, Work, Dated
<1>5. Believes'
  BY <1>1 DEF Link, World, Believes, HoldsRole, HoldsLink, LinkOpen, LinkUp,
              Linked, Scanning
<1>6. Located'
  BY <1>1 DEF Link, World, Located, Attached, Scanning
<1>7. state # "faulted" => ActionsOut' /\ Tuned'
  BY <1>1, <1>2 DEF Link, World, Work, ActionsOut, Effects, Tuned
<1>8. state # "faulted" => CommandsOut' /\ Answered'
  BY <1>1 DEF Link, World, Work, CommandsOut, Effects, Answered, Done
<1>9. Work' /\ Effects'
  BY <1>1, <1>2, <1>4, <1>7, <1>8
  DEF Link, World, Work, Effects, Waiting, NewToken
<1> QED
  BY <1>2, <1>5, <1>6, <1>9 DEF World

\* The firmware executes the pending command, or fails to, and answers once.
LEMMA FirmwareExecutesHolds ==
  ASSUME Link, NEW k \in h2c, NEW ok \in BOOLEAN, FirmwareExecutes(k, ok)
  PROVE  World'
<1> DEFINE a == [epoch |-> k.epoch, sequence |-> k.sequence,
                 command |-> CommandId(k.order), done |-> TRUE, ok |-> ok]
<1>1. /\ ControllerKept /\ acks' = acks \cup {a} /\ h2c' = h2c \ {k}
      /\ a.epoch = k.epoch /\ a.sequence = k.sequence
      /\ a.command = CommandId(k.order) /\ a.ok = ok
      /\ firmware' = IF ok THEN Executed(k.order) ELSE firmware
      /\ UNCHANGED <<requests, completions, radio, epoch, serial,
                     pendingToken, pendingAction, pendingOrder,
                     pendingSequence, state, waitingAction, waitingCommand,
                     home, peer, channels, channelIndex, scanResume,
                     roleCreated>>
  BY DEF FirmwareExecutes, ControllerKept, linkVars, attemptVars, scanVars,
         scanPlan, pendingVars
<1>2. Waits' /\ Admits' /\ \A ch : TunesTo(ch) => TunesTo(ch)'
  BY <1>1, ControllerHolds
<1>3. k.epoch = epoch /\ epoch \in Nat /\ k \in Command
  BY Numbers DEF Link, World, Work, Dated, Inv, TypeOK, EngineOK
<1>4. Dated'
  BY <1>1, <1>3 DEF Link, World, Work, Dated
<1>5. Located'
  BY <1>1 DEF Link, World, Located, Attached, Scanning
<1>6. CASE state = "faulted"
  <2>1. Believes'
    BY <1>1, <1>6 DEF Believes, HoldsRole, HoldsLink, LinkOpen, LinkUp,
                      Linked, Scanning, ScanState
  <2> QED
    BY <1>1, <1>2, <1>4, <1>5, <1>6, <2>1 DEF World, Work, Effects
<1>7. CASE state # "faulted"
  <2>1. /\ waitingCommand /\ k.sequence = pendingSequence
        /\ k.order = pendingOrder
        /\ state \in DOMAIN OrderOf /\ pendingOrder = OrderOf[state]
    BY <1>7 DEF Link, World, Work, CommandsOut, Inv, Paired
  <2>2. h2c' = {}
    <3>1. \A q \in h2c : q = k
      <4> SUFFICES ASSUME NEW q \in h2c PROVE q = k
        OBVIOUS
      <4>1. /\ q \in Command /\ q.epoch = k.epoch
            /\ q.sequence = k.sequence /\ q.order = k.order
        BY <1>3, <1>7 DEF Link, World, Work, CommandsOut, Dated, Inv, TypeOK,
                          EngineOK
      <4> QED
        BY <1>3, <4>1 DEF Command
    <3> QED
      BY <1>1, <3>1
  <2>3. \A b \in acks : ~Done(b)
    BY <1>7 DEF Link, World, Work, CommandsOut
  <2>4. CommandsOut'
    BY <1>1, <2>1, <2>2, <2>3 DEF CommandsOut, Done
  <2>5. ActionsOut' /\ Tuned'
    BY <1>1, <1>2, <1>7 DEF Link, World, Work, ActionsOut, Effects, Tuned
  <2>6. firmware \in [role : BOOLEAN, link : BOOLEAN]
    BY DEF Link, Inv, TypeOK, StableOK
  <2>7. /\ ok /\ state = "creatingRole" =>
              firmware'.role /\ firmware'.link = firmware.link
        /\ ok /\ state = "initialNoLink" =>
              firmware'.role = firmware.role /\ ~firmware'.link
        /\ ok /\ state = "joining" =>
              firmware'.role = firmware.role /\ firmware'.link
        /\ ok /\ state = "disconnecting" =>
              firmware'.role = firmware.role /\ ~firmware'.link
        /\ ok /\ state = "removingRole" =>
              ~firmware'.role /\ firmware'.link = firmware.link
    BY <1>1, <2>1, OrderOfValues DEF Executed
  <2>8. Answered'
    BY <1>1, <2>3, <2>7 DEF Answered, Done
  <2>9. Believes'
    BY <1>1, <2>1, <2>7, OrderOfValues
    DEF Link, World, Believes, HoldsRole, HoldsLink, LinkOpen, LinkUp, Linked,
        Scanning, ScanState
  <2>10. Work' /\ Effects'
    BY <1>1, <1>2, <1>4, <1>7, <2>4, <2>5, <2>8
    DEF Link, World, Work, Effects, Waiting, NewToken
  <2> QED
    BY <1>2, <1>5, <2>9, <2>10 DEF World
<1> QED
  BY <1>6, <1>7

----------------------------------------------------------------------------
(* The theorems. *)

\* A constructed controller has nothing out, and the firmware nothing in it.
LEMMA LinkInit == Init => Link
<1> SUFFICES ASSUME Init PROVE Link
  OBVIOUS
<1>1. Work /\ Effects
  BY ActionOfValues, OrderOfValues
  DEF Init, Work, Effects, Waits, Waiting, Dated, ActionsOut, CommandsOut,
      Answered, Tuned
<1>2. Believes
  BY DEF Init, Believes, HoldsRole, HoldsLink, LinkOpen, LinkUp, Linked,
         Scanning, ScanState
<1>3. Located /\ Admits
  BY DEF Init, Located, Admits, Homed, Attached, Scanning, ScanState,
         LinkState, Linked
<1> QED
  BY <1>1, <1>2, <1>3, InvInit DEF Link, World

\* Every step preserves the invariant.
LEMMA LinkStep == Link /\ [Next]_vars => Link'
<1> SUFFICES ASSUME Link, [Next]_vars PROVE World'
  BY InvStep DEF Link
<1>1. CASE Owner
  BY <1>1, RestartHolds, ClockHolds, StartHolds, ScanHolds, CancelScanHolds,
     ConnectHolds, DisconnectEntryHolds, StopHolds, TurnedDownHolds, TickHolds
  DEF Owner
<1>2. CASE Protocol
  BY <1>2, AuthenticatedHolds, AssociationHolds, PortHolds DEF Protocol
<1>3. CASE Callback
  BY <1>3, ActionCompleteHolds, FirmwareEventHolds DEF Callback
<1>4. CASE Device
  BY <1>4, DeviceFinishesHolds, FirmwareReceivesHolds, FirmwareExecutesHolds
  DEF Device
<1>5. CASE UNCHANGED vars
  BY <1>5, QuietHolds
  DEF vars, Delivers, stableVars, deviceVars, linkVars, attemptVars
<1> QED
  BY <1>1, <1>2, <1>3, <1>4, <1>5 DEF Next

\* The inductive invariant holds throughout.
LEMMA LinkInvariance == Spec => []Link
  BY LinkInit, LinkStep, PTL DEF Spec

\* Wherever the controller rests the firmware holds what the controller
\* believes, in whatever order callbacks, acknowledgements, timeouts, faults
\* and restarts arrive.
THEOREM FirmwareAlwaysAgrees == Spec => []FirmwareAgrees
<1>1. Link => FirmwareAgrees
  BY DEF Link, World, Believes, FirmwareAgrees, HoldsRole, HoldsLink, LinkOpen,
         LinkUp, Linked, Scanning, ScanState
<1> QED
  BY <1>1, LinkInvariance, PTL

\* A live controller has at most one operation in the device's hands and knows
\* its token; an idle or stopped one has left nothing behind.
THEOREM NothingStrays == Spec => []NoStrayWork
<1>1. Link => NoStrayWork
  BY DEF Link, World, Work, ActionsOut, CommandsOut, NoStrayWork
<1> QED
  BY <1>1, LinkInvariance, PTL

\* EAPOL and data pass only over the whole chain of evidence, and a port
\* revoked while a scan was away is closed when the scan returns.
THEOREM LinkAlwaysSound == Spec => []LinkSound
<1>1. Link => FirmwareAgrees
  BY DEF Link, World, Believes, FirmwareAgrees, HoldsRole, HoldsLink, LinkOpen,
         LinkUp, Linked, Scanning, ScanState
<1>2. Link => DataNeedsLink
  BY DEF Link, World, Admits, Believes, Located, DataNeedsLink, HoldsRole,
         HoldsLink, LinkUp, Linked, Homed, Attached, LinkState
<1>3. Link => RevokedPortStaysClosed
  BY DEF Link, World, Admits, RevokedPortStaysClosed
<1> QED
  BY <1>1, <1>2, <1>3, LinkInvariance, PTL DEF LinkSound

\* The host is silent while the device works for it; probes leave only on the
\* active channel the radio is on, management frames only at home and
\* unlinked.
THEOREM AirAlwaysRespected == Spec => []AirRespected
<1>1. Link => SilentWhileWorking
  <2> SUFFICES ASSUME Link, Outstanding # {} PROVE mode = "none"
    BY DEF SilentWhileWorking
  <2>1. mode \in Traffic
    BY DEF Link, Inv, TypeOK, EngineOK
  <2>2. CASE state = "faulted"
    BY <2>1, <2>2 DEF Link, World, Admits, Traffic
  <2>3. CASE state # "faulted"
    <3>1. waitingAction \/ waitingCommand
      BY <2>3 DEF Outstanding, Link, World, Work, ActionsOut, CommandsOut
    <3>2. state \notin {"idle", "authenticating", "associated", "authorized",
                        "scanningDwell"}
      BY <3>1, ActionOfValues, OrderOfValues DEF Link, World, Work, Waits
    <3> QED
      BY <2>1, <3>2 DEF Link, World, Admits, Traffic
  <2> QED
    BY <2>2, <2>3
<1>2. Link => ProbesOnTheirChannel
  <2> SUFFICES ASSUME Link PROVE ProbesOnTheirChannel
    OBVIOUS
  <2>1. mode = "scanProbe" =>
          /\ state = "scanningDwell" /\ scanToken # NoToken
          /\ channels[channelIndex].active
          /\ radio = channels[channelIndex].channel
          /\ ~scanCancelled /\ ~disconnectRequested
    BY DEF Link, World, Admits, Located, Scanning, ScanState
  <2>2. (\E now \in Time : CanSendScanProbe(scanToken, now)) =>
          mode = "scanProbe"
    BY DEF Link, World, Admits, CanSendScanProbe
  <2>3. mode = "management" => radio = home /\ firmware.role /\ ~firmware.link
    BY DEF Link, World, Admits, Located, Homed, Believes, HoldsRole, HoldsLink,
           LinkOpen, LinkUp, Linked, Scanning, ScanState
  <2> QED
    BY <2>1, <2>2, <2>3 DEF ProbesOnTheirChannel
<1> QED
  BY <1>1, <1>2, LinkInvariance, PTL DEF AirRespected

============================================================================
