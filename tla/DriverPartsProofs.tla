------------------------- MODULE DriverPartsProofs -------------------------
(***************************************************************************)
(* Proofs about the smaller parts, for every value of their constants.     *)
(* Four are proved under their own specification: the authentication event *)
(* queue implements EventTranscript, the register mailbox takes only the   *)
(* reply to its own request and restores the scheduler mask, a DMA bank is *)
(* never pulled away from under the device, and a table plan is carried    *)
(* out whole and answered once, or the bus is over.  Of the SAE exchange,  *)
(* the OWE key agreement, the timers, the frames that wait for a report,   *)
(* the scan results, the reading of the fuses, the calibrations, the       *)
(* diagnostic probe, the station's port, the channel step, the set-up of   *)
(* coexistence, the power passes and the bring-up this module has the      *)
(* inductive invariants; DriverGroupsProofs concludes from them.           *)
(***************************************************************************)
EXTENDS AuthEvents, FirmwareMailbox, DmaBank, TableProgrammer, SaeExchange, ProtocolTimers,
        PacketBridge, ScanResults, CalibrationRead, CalibrationRun, DiagnosticProbe, StationPort,
        ChannelTune, CoexSetup, PowerPair, FirmwareBringUp, Integers, FiniteSetTheorems, SequenceTheorems, TLAPS

----------------------------------------------------------------------------
(* Authentication events *)

\* A new generation differs from the one before it, also when the capture and
\* its binding each begin one, and also across the wrap of the counter.
LEMMA GenerationMoves ==
  ASSUME NEW g \in 0..EvGenerationMax
  PROVE  /\ EvNext64(g) \in 0..EvGenerationMax
         /\ EvNext64(g) # g
         /\ EvNext64(EvNext64(g)) \in 0..EvGenerationMax
         /\ EvNext64(EvNext64(g)) # g
BY EvAssumption DEF EvNext64

\* The inductive invariant of the queue.
EvInv == EvTypeOK /\ EvWhole /\ EvOfThisAssociation

\* What a stream restarted in another generation leaves.
EvFresh(owner) ==
  /\ evOwner' = owner
  /\ evEntries' = <<>> /\ evOverflow' = FALSE /\ evDropped' = 0
  /\ evActive' \in BOOLEAN /\ evOperation' \in Nat
  /\ evGeneration' \in 0..EvGenerationMax /\ evGeneration' # evGeneration
  /\ evHeard' = 0 /\ evSeen' = 0 /\ evLast' = 0

\* invalidate() leaves a fresh stream that is not live.
LEMMA InvalidateIsFresh ==
  ASSUME EvTypeOK, NEW owner, EvInvalidate(owner)
  PROVE  EvFresh(owner) /\ evActive' = FALSE
BY GenerationMoves DEF EvTypeOK, EvInvalidate, EvFresh

\* bind() leaves a fresh stream, of the given association if it is live.
LEMMA BindIsFresh ==
  ASSUME EvTypeOK, NEW owner, NEW operation \in Nat, EvBind(owner, operation, evGeneration)
  PROVE  EvFresh(owner) /\ (evActive' => evOperation' = operation)
<1>1. CASE evActive' = TRUE /\ evOperation' = operation
  BY <1>1, GenerationMoves DEF EvTypeOK, EvBind, EvFresh
<1>2. CASE evActive' = FALSE /\ evOperation' = 0
  BY <1>2, GenerationMoves DEF EvTypeOK, EvBind, EvFresh
<1> QED BY <1>1, <1>2 DEF EvBind

\* So does the bind() of a capture, whose enable() began a generation before it.
LEMMA CaptureIsFresh ==
  ASSUME EvTypeOK, NEW owner, NEW operation \in Nat,
         EvBind(owner, operation, EvNext64(evGeneration))
  PROVE  EvFresh(owner) /\ (evActive' => evOperation' = operation)
<1>1. CASE evActive' = TRUE /\ evOperation' = operation
  BY <1>1, GenerationMoves DEF EvTypeOK, EvBind, EvFresh
<1>2. CASE evActive' = FALSE /\ evOperation' = 0
  BY <1>2, GenerationMoves DEF EvTypeOK, EvBind, EvFresh
<1> QED BY <1>1, <1>2 DEF EvBind

\* A fresh stream is whole and of its type.
LEMMA FreshIsWhole ==
  ASSUME NEW owner \in EvClient \cup {EvNobody}, EvFresh(owner)
  PROVE  /\ EvWhole'
         /\ evOwner' \in EvClient \cup {EvNobody}
         /\ evGeneration' \in 0..EvGenerationMax
         /\ evActive' \in BOOLEAN /\ evOverflow' \in BOOLEAN
         /\ evEntries' \in Seq(Nat) /\ Len(evEntries') <= EvDepth
         /\ evDropped' \in 0..EvDepth + 1
         /\ evOperation' \in Nat
         /\ evHeard' \in Nat /\ evSeen' \in Nat /\ evLast' \in Nat
<1>1. /\ evOwner' \in EvClient \cup {EvNobody}
      /\ evActive' \in BOOLEAN /\ evOverflow' \in BOOLEAN
  BY Zenon DEF EvFresh
<1>2. EvWhole'
  BY DEF EvFresh, EvWhole
<1>3. /\ evGeneration' \in 0..EvGenerationMax
      /\ evEntries' \in Seq(Nat) /\ Len(evEntries') <= EvDepth
      /\ evDropped' \in 0..EvDepth + 1
      /\ evOperation' \in Nat
      /\ evHeard' \in Nat /\ evSeen' \in Nat /\ evLast' \in Nat
  BY EvAssumption DEF EvFresh
<1> QED BY <1>1, <1>2, <1>3

\* A fresh stream is a Restart of the promise.
LEMMA FreshRestarts ==
  ASSUME NEW owner, EvFresh(owner)
  PROVE  Transcript!Restart
BY DEF EvFresh, Transcript!Restart

\* observe() queues the frame or loses the stream.
LEMMA ObserveKeeps ==
  ASSUME EvInv, NEW fits \in BOOLEAN, EvObserve(fits)
  PROVE  EvInv' /\ (Transcript!Hear \/ Transcript!Lose)
<1> USE DEF EvObserve, EvObserveWith, EvStore
<1>1. CASE fits /\ Len(evEntries) < EvDepth
  <2>0. /\ evEntries' = Append(evEntries, evHeard + 1)
        /\ UNCHANGED <<evOwner, evGeneration, evOperation, evActive, evOverflow, evDropped>>
    BY <1>1
  <2>1. EvTypeOK'
    BY <2>0, <1>1, EvAssumption DEF EvInv, EvTypeOK, evController, evStation
  <2>2. EvWhole'
    <3>1. /\ evHeard = evSeen + Len(evEntries)
          /\ \A i \in 1..Len(evEntries) : evEntries[i] = evSeen + i
          /\ evOverflow' = FALSE /\ evSeen' = evSeen /\ evHeard' = evHeard + 1
          /\ evEntries \in Seq(Nat) /\ evSeen \in Nat /\ evHeard \in Nat
      BY <2>0 DEF EvInv, EvTypeOK, EvWhole
    <3>2. /\ Len(evEntries') = Len(evEntries) + 1
          /\ \A i \in 1..Len(evEntries) : evEntries'[i] = evEntries[i]
          /\ evEntries'[Len(evEntries) + 1] = evHeard + 1
      BY <2>0, <3>1
    <3>3. \A i \in 1..Len(evEntries') : evEntries'[i] = evSeen' + i
      BY <3>1, <3>2
    <3> QED BY <3>1, <3>2, <3>3 DEF EvWhole
  <2>3. EvOfThisAssociation'
    BY <2>0 DEF EvInv, EvOfThisAssociation, evController, evStation
  <2>4. Transcript!Hear
    BY <2>0 DEF Transcript!Hear
  <2> QED BY <2>1, <2>2, <2>3, <2>4 DEF EvInv
<1>2. CASE ~(fits /\ Len(evEntries) < EvDepth)
  <2>0. EvLoss BY <1>2
  <2>1. EvTypeOK'
    BY <2>0, EvAssumption DEF EvLoss, EvInv, EvTypeOK, evController, evStation
  <2>2. EvWhole'
    BY <2>0 DEF EvLoss, EvInv, EvTypeOK, EvWhole
  <2>3. EvOfThisAssociation'
    BY <2>0 DEF EvLoss, EvInv, EvOfThisAssociation, evController, evStation
  <2>4. Transcript!Lose
    BY <2>0 DEF EvLoss, Transcript!Lose
  <2> QED BY <2>1, <2>2, <2>3, <2>4 DEF EvInv
<1> QED BY <1>1, <1>2

\* A read hands out the frame after the last one.
LEMMA ReadKeeps ==
  ASSUME EvInv, NEW c \in EvClient, EvCaptureRead(c)
  PROVE  EvInv' /\ Transcript!Deliver
<1> USE DEF EvCaptureRead
<1>1. /\ evOverflow = FALSE
      /\ evHeard = evSeen + Len(evEntries)
      /\ \A i \in 1..Len(evEntries) : evEntries[i] = evSeen + i
      /\ evEntries \in Seq(Nat) /\ Len(evEntries) > 0
      /\ evSeen \in Nat /\ evHeard \in Nat
  BY DEF EvInv, EvTypeOK, EvWhole
<1>2. /\ evEntries' \in Seq(Nat) /\ Len(evEntries') = Len(evEntries) - 1
      /\ \A i \in 1..Len(evEntries') : evEntries'[i] = evEntries[i + 1]
      /\ evLast' = evEntries[1]
  BY <1>1
<1>3. evLast' = evSeen + 1
  BY <1>1, <1>2
<1>4. EvTypeOK'
  <2>1. evSeen' \in Nat /\ evLast' \in Nat /\ Len(evEntries') <= EvDepth
    BY <1>1, <1>2, <1>3, EvAssumption DEF EvInv, EvTypeOK
  <2> QED BY <1>2, <2>1 DEF EvInv, EvTypeOK, evController, evStation
<1>5. EvWhole'
  <2>1. \A i \in 1..Len(evEntries') : evEntries'[i] = evSeen' + i
    BY <1>1, <1>2
  <2> QED BY <1>1, <1>2, <2>1 DEF EvWhole
<1>6. EvOfThisAssociation'
  BY DEF EvInv, EvOfThisAssociation, evController, evStation
<1>7. Transcript!Deliver
  BY <1>1, <1>3 DEF Transcript!Deliver
<1> QED BY <1>4, <1>5, <1>6, <1>7 DEF EvInv

\* Every step keeps the invariant and is a step of the promise, or none.
LEMMA EventStep ==
  ASSUME EvInv, [EvNext]_evVars
  PROVE  EvInv' /\ [Transcript!Next]_(Transcript!transcriptVars)
<1> USE DEF EvInv
<1>a. EvTypeOK BY DEF EvInv
<1> DEFINE Kept == EvInv' /\ (Transcript!Restart \/ UNCHANGED Transcript!transcriptVars)
<1>1. ASSUME NEW c \in EvClient, EvCaptureBegin(c) PROVE Kept
  <2>1. EvFresh(c) /\ (evActive' => evOperation' = evAssociation /\ evAssociation # 0)
    BY <1>1, <1>a, InvalidateIsFresh, CaptureIsFresh DEF EvCaptureBegin, EvCurrent, EvTypeOK
  <2>2. EvTypeOK' /\ EvWhole'
    BY <2>1, <1>1, FreshIsWhole DEF EvCaptureBegin, EvTypeOK, evController, evStation
  <2>3. EvOfThisAssociation'
    BY <2>1, <1>1, EvAssumption DEF EvFresh, EvCaptureBegin, EvOfThisAssociation, evController,
                                    evStation
  <2> QED BY <2>1, <2>2, <2>3, FreshRestarts
<1>2. ASSUME NEW c \in EvClient, EvCaptureEnd(c) PROVE Kept
  <2>1. EvFresh(EvNobody) /\ ~evActive'
    BY <1>2, <1>a, InvalidateIsFresh DEF EvCaptureEnd
  <2>2. EvTypeOK' /\ EvWhole'
    BY <2>1, <1>2, FreshIsWhole DEF EvCaptureEnd, EvTypeOK, evController, evStation
  <2> QED BY <2>1, <2>2, FreshRestarts DEF EvOfThisAssociation
<1>3. ASSUME EvBeginAuthentication PROVE Kept
  <2>1. CASE evOwner # EvNobody
    <3>1. EvFresh(evOwner) /\ (evActive' => evOperation' = evAssociation)
      BY <1>3, <2>1, <1>a, BindIsFresh DEF EvBeginAuthentication, EvTypeOK
    <3>2. EvTypeOK' /\ EvWhole'
      BY <3>1, <1>3, FreshIsWhole DEF EvBeginAuthentication, EvTypeOK
    <3>3. EvOfThisAssociation'
      BY <3>1, <2>1, <1>3 DEF EvFresh, EvBeginAuthentication, EvOfThisAssociation
    <3> QED BY <3>1, <3>2, <3>3, FreshRestarts
  <2>2. CASE evOwner = EvNobody
    <3>1. UNCHANGED <<evQueue, evReader>>
      BY <1>3, <2>2 DEF EvBeginAuthentication
    <3>2. EvTypeOK' /\ EvWhole'
      BY <3>1, <1>3 DEF EvBeginAuthentication, EvTypeOK, EvWhole, evQueue, evReader
    <3>3. EvOfThisAssociation'
      BY <3>1, <2>2 DEF EvOfThisAssociation, evQueue
    <3>4. UNCHANGED Transcript!transcriptVars
      BY <3>1 DEF Transcript!transcriptVars, evQueue, evReader
    <3> QED BY <3>2, <3>3, <3>4
  <2> QED BY <2>1, <2>2
<1>4. ASSUME EvCancelProtocol PROVE Kept
  <2>1. EvFresh(evOwner) /\ ~evActive'
    BY <1>4, <1>a, InvalidateIsFresh DEF EvCancelProtocol
  <2>2. EvTypeOK' /\ EvWhole'
    BY <2>1, <1>4, FreshIsWhole DEF EvCancelProtocol, EvTypeOK
  <2> QED BY <2>1, <2>2, FreshRestarts DEF EvOfThisAssociation
<1>5. ASSUME EvPoll PROVE Kept
  <2>1. EvFresh(evOwner) /\ (evActive' => evOperation' = evAssociation) /\ evAssociation # 0
    BY <1>5, <1>a, BindIsFresh DEF EvPoll, EvCurrent, EvTypeOK
  <2>2. EvTypeOK' /\ EvWhole'
    BY <2>1, <1>5, FreshIsWhole DEF EvPoll, EvTypeOK, evController, evStation
  <2>3. EvOfThisAssociation'
    BY <2>1, <1>5 DEF EvFresh, EvPoll, EvNeedsBinding, EvOfThisAssociation, evController, evStation
  <2> QED BY <2>1, <2>2, <2>3, FreshRestarts
<1>6. ASSUME EvDown PROVE Kept
  <2>1. EvFresh(EvNobody) /\ ~evActive'
    BY <1>6, <1>a, InvalidateIsFresh DEF EvDown
  <2>2. EvTypeOK' /\ EvWhole'
    BY <2>1, <1>6, FreshIsWhole DEF EvDown, EvTypeOK, evStation
  <2> QED BY <2>1, <2>2, FreshRestarts DEF EvOfThisAssociation
<1>7. ASSUME \/ \E waiting \in BOOLEAN : EvSelect(waiting)
             \/ EvEnable \/ EvConnect \/ EvScan \/ UNCHANGED evVars
      PROVE  Kept
  <2>1. UNCHANGED <<evQueue, evReader>>
    BY <1>7 DEF EvSelect, EvEnable, EvConnect, EvScan, evVars
  <2>2. EvTypeOK'
    <3>1. /\ evUp' \in BOOLEAN /\ evAssociating' \in BOOLEAN /\ evSelecting' \in BOOLEAN
          /\ evAuth' \in Nat /\ evAssociation' \in Nat /\ evAttempts' \in Nat
      <4>1. CASE \E waiting \in BOOLEAN : EvSelect(waiting)
        BY <4>1 DEF EvSelect, EvTypeOK, evStation
      <4>2. CASE EvEnable
        BY <4>2 DEF EvEnable, EvTypeOK, evStation
      <4>3. CASE EvConnect
        BY <4>3 DEF EvConnect, EvTypeOK
      <4>4. CASE EvScan
        BY <4>4 DEF EvScan, EvTypeOK
      <4>5. CASE UNCHANGED evVars
        BY <4>5 DEF evVars, EvTypeOK, evController, evStation
      <4> QED BY <1>7, <4>1, <4>2, <4>3, <4>4, <4>5
    <3> QED BY <2>1, <3>1 DEF EvTypeOK, evQueue, evReader
  <2>3. EvWhole' /\ UNCHANGED Transcript!transcriptVars
    BY <2>1 DEF EvWhole, evQueue, evReader, Transcript!transcriptVars
  <2>4. EvOfThisAssociation'
    BY <2>1, <1>7 DEF EvSelect, EvEnable, EvConnect, EvScan, evVars, EvOfThisAssociation, evQueue,
                      evController, evStation
  <2> QED BY <2>2, <2>3, <2>4
<1>8. ASSUME \/ \E fits \in BOOLEAN : EvObserve(fits)
             \/ \E c \in EvClient : EvCaptureRead(c)
      PROVE  EvInv' /\ Transcript!Next
  BY <1>8, ObserveKeeps, ReadKeeps DEF Transcript!Next
<1> HIDE DEF EvInv
<1> QED
  BY <1>1, <1>2, <1>3, <1>4, <1>5, <1>6, <1>7, <1>8 DEF EvNext, Transcript!Next

\* The queue starts as the promise does.
LEMMA EventStart ==
  ASSUME EvInit
  PROVE  EvInv /\ Transcript!Init
<1>1. EvTypeOK
  <2>1. /\ evOwner \in EvClient \cup {EvNobody} /\ evActive \in BOOLEAN /\ evOverflow \in BOOLEAN
        /\ evUp \in BOOLEAN /\ evAssociating \in BOOLEAN /\ evSelecting \in BOOLEAN
    BY Zenon DEF EvInit
  <2>2. /\ evGeneration \in 0..EvGenerationMax
        /\ evEntries \in Seq(Nat) /\ Len(evEntries) <= EvDepth /\ evDropped \in 0..EvDepth + 1
        /\ evAuth \in Nat /\ evAssociation \in Nat /\ evOperation \in Nat /\ evAttempts \in Nat
        /\ evHeard \in Nat /\ evSeen \in Nat /\ evLast \in Nat
    BY EvAssumption DEF EvInit
  <2> QED BY <2>1, <2>2 DEF EvTypeOK
<1>2. EvWhole /\ EvOfThisAssociation
  BY DEF EvInit, EvWhole, EvOfThisAssociation
<1>3. Transcript!Init
  BY DEF EvInit, Transcript!Init
<1> QED BY <1>1, <1>2, <1>3 DEF EvInv

\* The invariant of the queue always holds.
LEMMA EventInvariant == EvSpec => []EvInv
BY EventStart, EventStep, PTL DEF EvSpec

\* For any number of clients, any depth of the queue and any wrap of the
\* generation: a stream that is not marked lost holds exactly the frames heard
\* and not yet read, in order, and a live one belongs to the association under
\* way (observe(), loss(), invalidate() and bind() of authevents::Queue).
THEOREM EventsWholeAndOurs == EvSpec => [](EvWhole /\ EvOfThisAssociation)
BY EventInvariant, PTL DEF EvInv

\* The queue implements the promise to its reader: within one generation the
\* frames come in order with none left out, nothing follows a loss, and every
\* path that clears the stream changes the generation
\* (AuthenticationEvents.hpp with its callers in MacNetworkController.cpp).
THEOREM EventsImplementTranscript == EvSpec => EvImplementsTranscript
BY EventStart, EventStep, EventInvariant, PTL
   DEF EvSpec, EvImplementsTranscript, Transcript!Spec

----------------------------------------------------------------------------
(* The register mailbox *)

MailSpec == MailInit /\ [][MailNext]_mailVars

MailBoxes == [of : Nat, kind : {"none", "capability", "scheduler"}, value : Nat]
MailBeforeTrigger == {"look", "room", "recheck", "write"}
MailAfterTrigger == {"await", "acknowledge", "parse", "readback"}

\* The type invariant of the mailbox, with the steps each call takes.
MailTypes ==
  /\ mailStep \in {"idle"} \cup MailBeforeTrigger \cup MailAfterTrigger
  /\ mailCall \in {"none", "query", "receive"} \cup MailSchedulerCalls
  /\ mailValue \in Nat /\ mailOld \in Nat /\ mailSaved \in Nat
  /\ mailKnown \in Nat /\ mailLease \in Nat /\ mailScheduler \in Nat /\ mailCount \in Nat
  /\ mailReply \in MailBoxes
  /\ mailH2c \in MailBoxes /\ mailC2h \in MailBoxes /\ mailWork \in MailBoxes
  /\ mailFaulted \in BOOLEAN /\ mailPaused \in BOOLEAN

\* A latched fault leaves no call, and a call is at a step that it has.
MailCallAtItsStep ==
  /\ mailFaulted => mailStep = "idle"
  /\ mailStep = "idle" <=> mailCall = "none"
  /\ mailStep \in MailBeforeTrigger => mailCall # "receive"
  /\ mailStep = "readback" => mailCall \in MailSchedulerCalls /\ mailReply.kind = "scheduler"

\* A scheduler request exists in one place at most, and only while the call
\* that wrote it waits.
MailOneRequest ==
  ~mailFaulted =>
    /\ \A box \in {mailH2c, mailWork, mailC2h} : box.kind = "scheduler" =>
         /\ box.of = mailCount /\ box.value = mailValue
         /\ mailCall \in MailSchedulerCalls
         /\ mailStep \in {"await", "acknowledge", "parse"}
    /\ mailH2c.kind = "scheduler" => mailWork.kind # "scheduler" /\ mailC2h.kind # "scheduler"
    /\ mailWork.kind = "scheduler" => mailC2h.kind # "scheduler"

\* A scheduler reply that was captured is the reply to the call's own request,
\* which is nowhere else then, save in the register until it is acknowledged.
MailReplyOfCall ==
  mailStep \in {"acknowledge", "parse", "readback"} /\ mailReply.kind = "scheduler" =>
    /\ mailReply.of = mailCount
    /\ mailCall \in MailSchedulerCalls
    /\ mailH2c.kind # "scheduler" /\ mailWork.kind # "scheduler"
    /\ mailStep # "acknowledge" => mailC2h.kind # "scheduler"

\* The register keeps the captured words until it is acknowledged.
MailRegisterCaptured ==
  mailStep = "acknowledge" => mailC2h = mailReply /\ mailReply # MailEmpty

\* The mask is the one last set until a request to change it is out.
MailMaskHeld ==
  ~mailFaulted /\ (mailStep \in MailBeforeTrigger \/ mailCall \notin MailSchedulerCalls) =>
    mailScheduler = mailKnown

\* What a pause and a resume carry.
MailLeaseKept ==
  ~mailFaulted =>
    /\ mailPaused => mailKnown = 0 /\ mailSaved = mailLease
    /\ mailCall \in {"mask", "pause"} => ~mailPaused
    /\ mailCall = "pause" => mailValue = 0 /\ mailOld = mailKnown
    /\ mailCall = "resume" => mailPaused /\ mailValue = mailSaved

MailInv ==
  /\ MailTypes /\ MailCallAtItsStep /\ MailOneRequest /\ MailReplyOfCall
  /\ MailRegisterCaptured /\ MailMaskHeld /\ MailLeaseKept

\* Every step keeps the invariant: of the calls, only one that found the register
\* empty after waiting for room writes a request, and one that gives up after it
\* wrote latches the fault.
LEMMA MailStep ==
  ASSUME MailInv, [MailNext]_mailVars
  PROVE  MailInv'

<1> USE MailAssumption DEF mailDevice, MailBoxes, MailBeforeTrigger, MailAfterTrigger, MailSchedulerCalls, MailEmpty
<1>a. /\ MailTypes /\ MailCallAtItsStep /\ MailOneRequest /\ MailReplyOfCall
      /\ MailRegisterCaptured /\ MailMaskHeld /\ MailLeaseKept
  BY DEF MailInv
<1>1. CASE MailQueryCapabilities
  <2>1. MailTypes'
    BY <1>a, <1>1 DEF MailQueryCapabilities, MailBegin, MailNewRequest, MailTypes
  <2>2. MailCallAtItsStep' /\ MailReplyOfCall' /\ MailRegisterCaptured'
    BY <1>a, <1>1 DEF MailQueryCapabilities, MailBegin, MailNewRequest, MailTypes,
                      MailCallAtItsStep, MailOneRequest, MailReplyOfCall, MailRegisterCaptured
  <2>3. MailOneRequest'
    BY <1>a, <1>1 DEF MailQueryCapabilities, MailBegin, MailNewRequest, MailTypes,
                      MailCallAtItsStep, MailOneRequest, MailReplyOfCall, MailRegisterCaptured
  <2>4. MailMaskHeld' /\ MailLeaseKept'
    BY <1>a, <1>1 DEF MailQueryCapabilities, MailBegin, MailNewRequest, MailTypes,
                      MailCallAtItsStep, MailOneRequest, MailReplyOfCall, MailRegisterCaptured,
                      MailMaskHeld, MailLeaseKept
  <2> QED BY <2>1, <2>2, <2>3, <2>4 DEF MailInv
<1>2. CASE MailInvalidateQuery
  <2>1. MailTypes'
    BY <1>a, <1>2 DEF MailInvalidateQuery, MailTypes
  <2>2. MailCallAtItsStep' /\ MailReplyOfCall' /\ MailRegisterCaptured'
    BY <1>a, <1>2 DEF MailInvalidateQuery, MailTypes, MailCallAtItsStep, MailOneRequest,
                      MailReplyOfCall, MailRegisterCaptured
  <2>3. MailOneRequest'
    BY <1>a, <1>2 DEF MailInvalidateQuery, MailTypes, MailCallAtItsStep, MailOneRequest,
                      MailReplyOfCall, MailRegisterCaptured
  <2>4. MailMaskHeld' /\ MailLeaseKept'
    BY <1>a, <1>2 DEF MailInvalidateQuery, MailTypes, MailCallAtItsStep, MailOneRequest,
                      MailReplyOfCall, MailRegisterCaptured, MailMaskHeld, MailLeaseKept
  <2> QED BY <2>1, <2>2, <2>3, <2>4 DEF MailInv
<1>3. CASE MailReceivePending
  <2>1. MailTypes'
    BY <1>a, <1>3 DEF MailReceivePending, MailBegin, MailTypes
  <2>2. MailCallAtItsStep' /\ MailReplyOfCall' /\ MailRegisterCaptured'
    BY <1>a, <1>3 DEF MailReceivePending, MailBegin, MailTypes, MailCallAtItsStep, MailOneRequest,
                      MailReplyOfCall, MailRegisterCaptured
  <2>3. MailOneRequest'
    BY <1>a, <1>3 DEF MailReceivePending, MailBegin, MailTypes, MailCallAtItsStep, MailOneRequest,
                      MailReplyOfCall, MailRegisterCaptured
  <2>4. MailMaskHeld' /\ MailLeaseKept'
    BY <1>a, <1>3 DEF MailReceivePending, MailBegin, MailTypes, MailCallAtItsStep, MailOneRequest,
                      MailReplyOfCall, MailRegisterCaptured, MailMaskHeld, MailLeaseKept
  <2> QED BY <2>1, <2>2, <2>3, <2>4 DEF MailInv
<1>4. CASE \E v \in MailMask : MailSetSchedulerMask(v)
  <2>1. MailTypes'
    BY <1>a, <1>4 DEF MailSetSchedulerMask, MailBegin, MailNewRequest, MailTypes
  <2>2. MailCallAtItsStep' /\ MailReplyOfCall' /\ MailRegisterCaptured'
    BY <1>a, <1>4 DEF MailSetSchedulerMask, MailBegin, MailNewRequest, MailTypes,
                      MailCallAtItsStep, MailOneRequest, MailReplyOfCall, MailRegisterCaptured
  <2>3. MailOneRequest'
    BY <1>a, <1>4 DEF MailSetSchedulerMask, MailBegin, MailNewRequest, MailTypes,
                      MailCallAtItsStep, MailOneRequest, MailReplyOfCall, MailRegisterCaptured
  <2>4. MailMaskHeld' /\ MailLeaseKept'
    BY <1>a, <1>4 DEF MailSetSchedulerMask, MailBegin, MailNewRequest, MailTypes,
                      MailCallAtItsStep, MailOneRequest, MailReplyOfCall, MailRegisterCaptured,
                      MailMaskHeld, MailLeaseKept
  <2> QED BY <2>1, <2>2, <2>3, <2>4 DEF MailInv
<1>5. CASE MailPauseScheduler
  <2>1. MailTypes'
    BY <1>a, <1>5 DEF MailPauseScheduler, MailBegin, MailNewRequest, MailTypes
  <2>2. MailCallAtItsStep' /\ MailReplyOfCall' /\ MailRegisterCaptured'
    BY <1>a, <1>5 DEF MailPauseScheduler, MailBegin, MailNewRequest, MailTypes, MailCallAtItsStep,
                      MailOneRequest, MailReplyOfCall, MailRegisterCaptured
  <2>3. MailOneRequest'
    BY <1>a, <1>5 DEF MailPauseScheduler, MailBegin, MailNewRequest, MailTypes, MailCallAtItsStep,
                      MailOneRequest, MailReplyOfCall, MailRegisterCaptured
  <2>4. MailMaskHeld' /\ MailLeaseKept'
    BY <1>a, <1>5 DEF MailPauseScheduler, MailBegin, MailNewRequest, MailTypes, MailCallAtItsStep,
                      MailOneRequest, MailReplyOfCall, MailRegisterCaptured, MailMaskHeld,
                      MailLeaseKept
  <2> QED BY <2>1, <2>2, <2>3, <2>4 DEF MailInv
<1>6. CASE MailResumeScheduler
  <2>1. MailTypes'
    BY <1>a, <1>6 DEF MailResumeScheduler, MailBegin, MailNewRequest, MailTypes
  <2>2. MailCallAtItsStep' /\ MailReplyOfCall' /\ MailRegisterCaptured'
    BY <1>a, <1>6 DEF MailResumeScheduler, MailBegin, MailNewRequest, MailTypes,
                      MailCallAtItsStep, MailOneRequest, MailReplyOfCall, MailRegisterCaptured
  <2>3. MailOneRequest'
    BY <1>a, <1>6 DEF MailResumeScheduler, MailBegin, MailNewRequest, MailTypes,
                      MailCallAtItsStep, MailOneRequest, MailReplyOfCall, MailRegisterCaptured
  <2>4. MailMaskHeld' /\ MailLeaseKept'
    BY <1>a, <1>6 DEF MailResumeScheduler, MailBegin, MailNewRequest, MailTypes,
                      MailCallAtItsStep, MailOneRequest, MailReplyOfCall, MailRegisterCaptured,
                      MailMaskHeld, MailLeaseKept
  <2> QED BY <2>1, <2>2, <2>3, <2>4 DEF MailInv
<1>7. CASE MailLookBefore
  <2>1. MailTypes'
    BY <1>a, <1>7 DEF MailLookBefore, MailLook, MailEnd, MailMove, MailTypes
  <2>2. MailCallAtItsStep' /\ MailReplyOfCall' /\ MailRegisterCaptured'
    BY <1>a, <1>7 DEF MailLookBefore, MailLook, MailEnd, MailMove, MailTypes, MailCallAtItsStep,
                      MailOneRequest, MailReplyOfCall, MailRegisterCaptured
  <2>3. MailOneRequest'
    BY <1>a, <1>7 DEF MailLookBefore, MailLook, MailEnd, MailMove, MailTypes, MailCallAtItsStep,
                      MailOneRequest, MailReplyOfCall, MailRegisterCaptured
  <2>4. MailMaskHeld' /\ MailLeaseKept'
    BY <1>a, <1>7 DEF MailLookBefore, MailLook, MailEnd, MailMove, MailTypes, MailCallAtItsStep,
                      MailOneRequest, MailReplyOfCall, MailRegisterCaptured, MailMaskHeld,
                      MailLeaseKept
  <2> QED BY <2>1, <2>2, <2>3, <2>4 DEF MailInv
<1>8. CASE MailWaitRoom
  <2>1. MailTypes'
    BY <1>a, <1>8 DEF MailWaitRoom, MailMove, MailTypes
  <2>2. MailCallAtItsStep' /\ MailReplyOfCall' /\ MailRegisterCaptured'
    BY <1>a, <1>8 DEF MailWaitRoom, MailMove, MailTypes, MailCallAtItsStep, MailOneRequest,
                      MailReplyOfCall, MailRegisterCaptured
  <2>3. MailOneRequest'
    BY <1>a, <1>8 DEF MailWaitRoom, MailMove, MailTypes, MailCallAtItsStep, MailOneRequest,
                      MailReplyOfCall, MailRegisterCaptured
  <2>4. MailMaskHeld' /\ MailLeaseKept'
    BY <1>a, <1>8 DEF MailWaitRoom, MailMove, MailTypes, MailCallAtItsStep, MailOneRequest,
                      MailReplyOfCall, MailRegisterCaptured, MailMaskHeld, MailLeaseKept
  <2> QED BY <2>1, <2>2, <2>3, <2>4 DEF MailInv
<1>9. CASE MailLookAgain
  <2>1. MailTypes'
    BY <1>a, <1>9 DEF MailLookAgain, MailLook, MailEnd, MailMove, MailTypes
  <2>2. MailCallAtItsStep' /\ MailReplyOfCall' /\ MailRegisterCaptured'
    BY <1>a, <1>9 DEF MailLookAgain, MailLook, MailEnd, MailMove, MailTypes, MailCallAtItsStep,
                      MailOneRequest, MailReplyOfCall, MailRegisterCaptured
  <2>3. MailOneRequest'
    BY <1>a, <1>9 DEF MailLookAgain, MailLook, MailEnd, MailMove, MailTypes, MailCallAtItsStep,
                      MailOneRequest, MailReplyOfCall, MailRegisterCaptured
  <2>4. MailMaskHeld' /\ MailLeaseKept'
    BY <1>a, <1>9 DEF MailLookAgain, MailLook, MailEnd, MailMove, MailTypes, MailCallAtItsStep,
                      MailOneRequest, MailReplyOfCall, MailRegisterCaptured, MailMaskHeld,
                      MailLeaseKept
  <2> QED BY <2>1, <2>2, <2>3, <2>4 DEF MailInv
<1>10. CASE MailTrigger
  <2>1. MailTypes'
    BY <1>a, <1>10 DEF MailTrigger, MailMove, MailTypes
  <2>2. MailCallAtItsStep' /\ MailReplyOfCall' /\ MailRegisterCaptured'
    BY <1>a, <1>10 DEF MailTrigger, MailMove, MailTypes, MailCallAtItsStep, MailOneRequest,
                       MailReplyOfCall, MailRegisterCaptured
  <2>3. MailOneRequest'
    BY <1>a, <1>10 DEF MailTrigger, MailMove, MailTypes, MailCallAtItsStep, MailOneRequest,
                       MailReplyOfCall, MailRegisterCaptured
  <2>4. MailMaskHeld' /\ MailLeaseKept'
    BY <1>a, <1>10 DEF MailTrigger, MailMove, MailTypes, MailCallAtItsStep, MailOneRequest,
                       MailReplyOfCall, MailRegisterCaptured, MailMaskHeld, MailLeaseKept
  <2> QED BY <2>1, <2>2, <2>3, <2>4 DEF MailInv
<1>11. CASE MailCapture
  <2>1. MailTypes'
    BY <1>a, <1>11 DEF MailCapture, MailTypes
  <2>2. MailCallAtItsStep' /\ MailReplyOfCall' /\ MailRegisterCaptured'
    BY <1>a, <1>11 DEF MailCapture, MailTypes, MailCallAtItsStep, MailOneRequest, MailReplyOfCall,
                       MailRegisterCaptured
  <2>3. MailOneRequest'
    BY <1>a, <1>11 DEF MailCapture, MailTypes, MailCallAtItsStep, MailOneRequest, MailReplyOfCall,
                       MailRegisterCaptured
  <2>4. MailMaskHeld' /\ MailLeaseKept'
    BY <1>a, <1>11 DEF MailCapture, MailTypes, MailCallAtItsStep, MailOneRequest, MailReplyOfCall,
                       MailRegisterCaptured, MailMaskHeld, MailLeaseKept
  <2> QED BY <2>1, <2>2, <2>3, <2>4 DEF MailInv
<1>12. CASE MailAcknowledge
  <2>1. MailTypes'
    BY <1>a, <1>12 DEF MailAcknowledge, MailMove, MailTypes
  <2>2. MailCallAtItsStep' /\ MailReplyOfCall' /\ MailRegisterCaptured'
    BY <1>a, <1>12 DEF MailAcknowledge, MailMove, MailTypes, MailCallAtItsStep, MailOneRequest,
                       MailReplyOfCall, MailRegisterCaptured
  <2>3. MailOneRequest'
    BY <1>a, <1>12 DEF MailAcknowledge, MailMove, MailTypes, MailCallAtItsStep, MailOneRequest,
                       MailReplyOfCall, MailRegisterCaptured
  <2>4. MailMaskHeld' /\ MailLeaseKept'
    BY <1>a, <1>12 DEF MailAcknowledge, MailMove, MailTypes, MailCallAtItsStep, MailOneRequest,
                       MailReplyOfCall, MailRegisterCaptured, MailMaskHeld, MailLeaseKept
  <2> QED BY <2>1, <2>2, <2>3, <2>4 DEF MailInv
<1>13. CASE MailParse
  <2>1. MailTypes'
    BY <1>a, <1>13 DEF MailParse, MailMove, MailEnd, MailTypes
  <2>2. MailCallAtItsStep' /\ MailReplyOfCall' /\ MailRegisterCaptured'
    BY <1>a, <1>13 DEF MailParse, MailMove, MailEnd, MailTypes, MailCallAtItsStep, MailOneRequest,
                       MailReplyOfCall, MailRegisterCaptured
  <2>3. MailOneRequest'
    BY <1>a, <1>13 DEF MailParse, MailMove, MailEnd, MailTypes, MailCallAtItsStep, MailOneRequest,
                       MailReplyOfCall, MailRegisterCaptured
  <2>4. MailMaskHeld' /\ MailLeaseKept'
    BY <1>a, <1>13 DEF MailParse, MailMove, MailEnd, MailTypes, MailCallAtItsStep, MailOneRequest,
                       MailReplyOfCall, MailRegisterCaptured, MailMaskHeld, MailLeaseKept
  <2> QED BY <2>1, <2>2, <2>3, <2>4 DEF MailInv
<1>14. CASE MailReadBack
  <2>1. MailTypes'
    BY <1>a, <1>14 DEF MailReadBack, MailSettles, MailTypes
  <2>2. MailCallAtItsStep' /\ MailReplyOfCall' /\ MailRegisterCaptured'
    BY <1>a, <1>14 DEF MailReadBack, MailSettles, MailTypes, MailCallAtItsStep, MailOneRequest,
                       MailReplyOfCall, MailRegisterCaptured
  <2>3. MailOneRequest'
    BY <1>a, <1>14 DEF MailReadBack, MailSettles, MailTypes, MailCallAtItsStep, MailOneRequest,
                       MailReplyOfCall, MailRegisterCaptured
  <2>4. MailMaskHeld' /\ MailLeaseKept'
    BY <1>a, <1>14 DEF MailReadBack, MailSettles, MailTypes, MailCallAtItsStep, MailOneRequest,
                       MailReplyOfCall, MailRegisterCaptured, MailMaskHeld, MailLeaseKept
  <2> QED BY <2>1, <2>2, <2>3, <2>4 DEF MailInv
<1>15. CASE MailFails
  <2>1. MailTypes'
    BY <1>a, <1>15 DEF MailFails, MailFail, MailTypes
  <2>2. MailCallAtItsStep' /\ MailReplyOfCall' /\ MailRegisterCaptured'
    BY <1>a, <1>15 DEF MailFails, MailFail, MailTypes, MailCallAtItsStep, MailOneRequest,
                       MailReplyOfCall, MailRegisterCaptured
  <2>3. MailOneRequest'
    BY <1>a, <1>15 DEF MailFails, MailFail, MailTypes, MailCallAtItsStep, MailOneRequest,
                       MailReplyOfCall, MailRegisterCaptured
  <2>4. MailMaskHeld' /\ MailLeaseKept'
    BY <1>a, <1>15 DEF MailFails, MailFail, MailTypes, MailCallAtItsStep, MailOneRequest,
                       MailReplyOfCall, MailRegisterCaptured, MailMaskHeld, MailLeaseKept
  <2> QED BY <2>1, <2>2, <2>3, <2>4 DEF MailInv
<1>16. CASE MailFirmwareTakes
  <2>1. MailTypes'
    BY <1>a, <1>16 DEF MailFirmwareTakes, mailHost, MailTypes
  <2>2. MailCallAtItsStep' /\ MailReplyOfCall' /\ MailRegisterCaptured'
    BY <1>a, <1>16 DEF MailFirmwareTakes, mailHost, MailTypes, MailCallAtItsStep, MailOneRequest,
                       MailReplyOfCall, MailRegisterCaptured
  <2>3. MailOneRequest'
    BY <1>a, <1>16 DEF MailFirmwareTakes, mailHost, MailTypes, MailCallAtItsStep, MailOneRequest,
                       MailReplyOfCall, MailRegisterCaptured
  <2>4. MailMaskHeld' /\ MailLeaseKept'
    BY <1>a, <1>16 DEF MailFirmwareTakes, mailHost, MailTypes, MailCallAtItsStep, MailOneRequest,
                       MailReplyOfCall, MailRegisterCaptured, MailMaskHeld, MailLeaseKept
  <2> QED BY <2>1, <2>2, <2>3, <2>4 DEF MailInv
<1>17. CASE MailFirmwareApplies
  <2>1. MailTypes'
    BY <1>a, <1>17 DEF MailFirmwareApplies, mailHost, MailTypes
  <2>2. MailCallAtItsStep' /\ MailReplyOfCall' /\ MailRegisterCaptured'
    BY <1>a, <1>17 DEF MailFirmwareApplies, mailHost, MailTypes, MailCallAtItsStep,
                       MailOneRequest, MailReplyOfCall, MailRegisterCaptured
  <2>3. MailOneRequest'
    BY <1>a, <1>17 DEF MailFirmwareApplies, mailHost, MailTypes, MailCallAtItsStep,
                       MailOneRequest, MailReplyOfCall, MailRegisterCaptured
  <2>4. MailMaskHeld' /\ MailLeaseKept'
    BY <1>a, <1>17 DEF MailFirmwareApplies, mailHost, MailTypes, MailCallAtItsStep,
                       MailOneRequest, MailReplyOfCall, MailRegisterCaptured, MailMaskHeld,
                       MailLeaseKept
  <2> QED BY <2>1, <2>2, <2>3, <2>4 DEF MailInv
<1>18. CASE MailFirmwareReplies
  <2>1. MailTypes'
    BY <1>a, <1>18 DEF MailFirmwareReplies, mailHost, MailTypes
  <2>2. MailCallAtItsStep' /\ MailReplyOfCall' /\ MailRegisterCaptured'
    BY <1>a, <1>18 DEF MailFirmwareReplies, mailHost, MailTypes, MailCallAtItsStep,
                       MailOneRequest, MailReplyOfCall, MailRegisterCaptured
  <2>3. MailOneRequest'
    BY <1>a, <1>18 DEF MailFirmwareReplies, mailHost, MailTypes, MailCallAtItsStep,
                       MailOneRequest, MailReplyOfCall, MailRegisterCaptured
  <2>4. MailMaskHeld' /\ MailLeaseKept'
    BY <1>a, <1>18 DEF MailFirmwareReplies, mailHost, MailTypes, MailCallAtItsStep,
                       MailOneRequest, MailReplyOfCall, MailRegisterCaptured, MailMaskHeld,
                       MailLeaseKept
  <2> QED BY <2>1, <2>2, <2>3, <2>4 DEF MailInv
<1>19. CASE MailFirmwareNotifies
  <2>1. MailTypes'
    BY <1>a, <1>19 DEF MailFirmwareNotifies, mailHost, MailTypes
  <2>2. MailCallAtItsStep' /\ MailReplyOfCall' /\ MailRegisterCaptured'
    BY <1>a, <1>19 DEF MailFirmwareNotifies, mailHost, MailTypes, MailCallAtItsStep,
                       MailOneRequest, MailReplyOfCall, MailRegisterCaptured
  <2>3. MailOneRequest'
    BY <1>a, <1>19 DEF MailFirmwareNotifies, mailHost, MailTypes, MailCallAtItsStep,
                       MailOneRequest, MailReplyOfCall, MailRegisterCaptured
  <2>4. MailMaskHeld' /\ MailLeaseKept'
    BY <1>a, <1>19 DEF MailFirmwareNotifies, mailHost, MailTypes, MailCallAtItsStep,
                       MailOneRequest, MailReplyOfCall, MailRegisterCaptured, MailMaskHeld,
                       MailLeaseKept
  <2> QED BY <2>1, <2>2, <2>3, <2>4 DEF MailInv
<1>20. CASE UNCHANGED mailVars
  <2>1. MailTypes'
    BY <1>a, <1>20 DEF mailVars, mailHost, MailTypes
  <2>2. MailCallAtItsStep' /\ MailReplyOfCall' /\ MailRegisterCaptured'
    BY <1>a, <1>20 DEF mailVars, mailHost, MailTypes, MailCallAtItsStep, MailOneRequest,
                       MailReplyOfCall, MailRegisterCaptured
  <2>3. MailOneRequest'
    BY <1>a, <1>20 DEF mailVars, mailHost, MailTypes, MailCallAtItsStep, MailOneRequest,
                       MailReplyOfCall, MailRegisterCaptured
  <2>4. MailMaskHeld' /\ MailLeaseKept'
    BY <1>a, <1>20 DEF mailVars, mailHost, MailTypes, MailCallAtItsStep, MailOneRequest,
                       MailReplyOfCall, MailRegisterCaptured, MailMaskHeld, MailLeaseKept
  <2> QED BY <2>1, <2>2, <2>3, <2>4 DEF MailInv
<1> QED BY <1>1, <1>2, <1>3, <1>4, <1>5, <1>6, <1>7, <1>8, <1>9, <1>10, <1>11,
           <1>12, <1>13, <1>14, <1>15, <1>16, <1>17, <1>18, <1>19, <1>20 DEF MailNext

\* The mailbox starts in the invariant.
LEMMA MailStart ==
  ASSUME MailInit
  PROVE  MailInv
<1> USE MailAssumption DEF MailInit, MailBoxes, MailBeforeTrigger, MailAfterTrigger, MailSchedulerCalls, MailEmpty
<1>1. MailTypes
  BY DEF MailTypes
<1>2. MailCallAtItsStep /\ MailOneRequest /\ MailReplyOfCall /\ MailRegisterCaptured
  BY DEF MailCallAtItsStep, MailOneRequest, MailReplyOfCall, MailRegisterCaptured
<1>3. MailMaskHeld /\ MailLeaseKept
  BY DEF MailMaskHeld, MailLeaseKept
<1> QED BY <1>1, <1>2, <1>3 DEF MailInv

\* The invariant of the mailbox always holds.
LEMMA MailInvariant == MailSpec => []MailInv
BY MailStart, MailStep, PTL DEF MailSpec

\* What the invariant says of the reply and of the mask.
LEMMA MailSafe ==
  ASSUME MailInv
  PROVE  MailReplyIsOurs /\ MailMaskKnown
BY DEF MailInv, MailTypes, MailCallAtItsStep, MailOneRequest, MailReplyOfCall, MailMaskHeld,
       MailLeaseKept, MailReplyIsOurs, MailMaskKnown, MailSchedulerCalls, MailBoxes

\* For any masks and any interleaving of calls, failures and firmware: a
\* scheduler call reads back only after the reply to its own request, and while
\* no call is under way and no fault is latched the device runs with the mask
\* last set and holds no request (exchange(), setScheduler() and fail()).
THEOREM MailboxAnswersAreOurs == MailSpec => [](MailReplyIsOurs /\ MailMaskKnown)
BY MailSafe, MailInvariant, PTL

\* Only the last step of resumeScheduler() ends a pause, and with the mask that was found.
LEMMA MailResumes ==
  ASSUME MailInv, MailNext \/ UNCHANGED mailVars
  PROVE  mailPaused /\ ~mailPaused' => mailScheduler' = mailLease
<1>1. CASE MailReadBack
  BY <1>1 DEF MailReadBack, MailSettles, MailInv, MailTypes, MailCallAtItsStep, MailLeaseKept, MailSchedulerCalls,
              mailDevice
<1>2. CASE ~MailReadBack
  <2>1. mailPaused' = mailPaused
    BY <1>2 DEF MailNext, MailQueryCapabilities, MailInvalidateQuery, MailReceivePending,
                MailSetSchedulerMask, MailPauseScheduler, MailResumeScheduler, MailBegin,
                MailLookBefore, MailWaitRoom, MailLookAgain, MailLook, MailEnd, MailMove,
                MailTrigger, MailCapture, MailAcknowledge, MailParse, MailFails, MailFail,
                MailFirmwareTakes, MailFirmwareApplies, MailFirmwareReplies,
                MailFirmwareNotifies, mailHost, mailVars
  <2> QED
    BY <2>1
<1> QED
  BY <1>1, <1>2

\* resumeScheduler() puts back the mask that was in force when pauseScheduler()
\* began, whatever was refused, retried or received in between.
THEOREM MailboxResumeRestores == MailSpec => MailResumeRestores
<1>1. MailInv /\ [MailNext]_mailVars => [mailPaused /\ ~mailPaused' => mailScheduler' = mailLease]_mailVars
  BY MailResumes
<1> QED
  BY <1>1, MailInvariant, PTL DEF MailSpec, MailResumeRestores

----------------------------------------------------------------------------
(* DMA memory *)

DbSpec == DbInit /\ [][DbNext]_dbVars

\* The type invariant of a bank.
DbTypes ==
  /\ dbHeld \in [DbBuffers -> SUBSET DbAll]
  /\ dbReady \in [DbBuffers -> BOOLEAN] /\ dbVisible \in [DbBuffers -> BOOLEAN]
  /\ dbBank \in [occupied : BOOLEAN, ready : BOOLEAN, visible : BOOLEAN, faulted : BOOLEAN,
                 gone : BOOLEAN]
  /\ dbDevice \in BOOLEAN

\* A bank that is ready or visible has all of its buffers, the visible marks of
\* the buffers are the bank's, and the device runs only over a visible bank.
DbBankTrue ==
  /\ dbBank.ready => \A b \in DbBuffers : dbHeld[b] = DbAll /\ dbReady[b]
  /\ dbBank.visible => dbBank.occupied /\ \A b \in DbBuffers : dbHeld[b] = DbAll /\ dbVisible[b]
  /\ ~dbBank.visible => \A b \in DbBuffers : ~dbVisible[b]
  /\ dbBank.ready => dbBank.occupied
  /\ dbDevice => dbBank.visible

DbInv == DbTypes /\ DbMappingBacked /\ DbFreeIsEmpty /\ DbBankTrue

DbPrefixes == {DbFirst(k) : k \in 0 .. Len(DbSteps)}

\* Whatever cleanup() and allocate() leave is a prefix of the steps.
LEMMA DbPrefixFacts ==
  /\ {} \in DbPrefixes /\ DbAll \in DbPrefixes
  /\ DbPrefixes \subseteq SUBSET DbAll
  /\ \A held : DbCleaned(held) \subseteq DbPrefixes
  /\ DbAllocated \subseteq DbPrefixes
<1>1. Len(DbSteps) = 5
  BY DEF DbSteps
<1>2. DbFirst(0) = {}
  BY DEF DbFirst
<1>3. {} \in DbPrefixes
  BY <1>1, <1>2 DEF DbPrefixes
<1>4. DbAll \in DbPrefixes
  BY <1>1 DEF DbPrefixes, DbAll
<1>5. DbPrefixes \subseteq SUBSET DbAll
  BY <1>1 DEF DbPrefixes, DbAll, DbFirst
<1>6. \A held : DbCleaned(held) \subseteq DbPrefixes
  BY <1>1, <1>3 DEF DbCleaned, DbPrefixes
<1>7. DbAllocated \subseteq DbPrefixes
  BY <1>4, <1>6 DEF DbAllocated
<1> QED BY <1>3, <1>4, <1>5, <1>6, <1>7

\* A cleanup leaves every buffer a prefix of its resources, and those the device
\* may see as they were.
LEMMA CleanupKeepsPrefixes ==
  ASSUME NEW held \in [DbBuffers -> DbPrefixes], NEW visible \in [DbBuffers -> BOOLEAN],
         dbReady \in [DbBuffers -> BOOLEAN], DbCleanup(held, visible)
  PROVE  /\ dbHeld' \in [DbBuffers -> DbPrefixes]
         /\ \A b \in DbBuffers : visible[b] => dbHeld'[b] = held[b]
         /\ dbVisible' = visible
         /\ dbReady' \in [DbBuffers -> BOOLEAN]
<1>1. /\ DOMAIN dbHeld' = DbBuffers
      /\ \A b \in DbBuffers : dbHeld'[b] \in IF visible[b] THEN {held[b]} ELSE DbCleaned(held[b])
      /\ dbHeld' = [b \in DbBuffers |-> dbHeld'[b]]
  BY DEF DbCleanup
<1>2. \A b \in DbBuffers : dbHeld'[b] \in DbPrefixes
  BY <1>1, DbPrefixFacts
<1>3. dbHeld' \in [DbBuffers -> DbPrefixes]
  BY <1>1, <1>2
<1>4. dbReady' \in [DbBuffers -> BOOLEAN]
  BY DEF DbCleanup
<1> QED BY <1>1, <1>3, <1>4 DEF DbCleanup

\* Every step of a bank keeps the invariant: what is freed is not visible, and
\* what the device runs over is.
LEMMA DbStep ==
  ASSUME DbInv, [DbNext]_dbVars
  PROVE  DbInv'
<1> DEFINE Heads == dbHeld \in [DbBuffers -> DbPrefixes]
<1>a. DbTypes /\ DbMappingBacked /\ DbFreeIsEmpty /\ DbBankTrue
  BY DEF DbInv
<1>b. Heads
  BY <1>a DEF DbTypes, DbMappingBacked, DbPrefixes
<1>c. ASSUME Heads' PROVE DbMappingBacked' /\ dbHeld' \in [DbBuffers -> SUBSET DbAll]
  <2>1. DbMappingBacked'
    BY <1>c DEF DbMappingBacked, DbPrefixes
  <2>2. dbHeld' \in [DbBuffers -> SUBSET DbAll]
    BY <1>c, DbPrefixFacts
  <2> QED BY <2>1, <2>2
<1> HIDE DEF Heads
<1>d. ASSUME NEW bank \in [occupied : BOOLEAN, ready : BOOLEAN, visible : BOOLEAN, faulted : BOOLEAN,
                            gone : BOOLEAN],
             DbReleased(bank)
      PROVE  /\ dbBank' \in [occupied : BOOLEAN, ready : BOOLEAN, visible : BOOLEAN, faulted : BOOLEAN,
                             gone : BOOLEAN]
             /\ dbBank'.ready = FALSE /\ dbBank'.visible = bank.visible
             /\ dbBank'.occupied <=> bank.occupied /\ ~DbFreed
  BY <1>d DEF DbReleased
<1>1. CASE DbAllocate
  <2>0. /\ ~dbBank.visible /\ ~dbDevice /\ dbDevice' = dbDevice
        /\ \A b \in DbBuffers : dbHeld[b] = {} /\ ~dbVisible[b]
        /\ dbVisible \in [DbBuffers -> BOOLEAN] /\ dbReady \in [DbBuffers -> BOOLEAN]
    BY <1>1, <1>a DEF DbAllocate, DbBankTrue, DbFreeIsEmpty, DbTypes
  <2>1. CASE /\ dbHeld' = [b \in DbBuffers |-> DbAll] /\ dbReady' = [b \in DbBuffers |-> TRUE]
             /\ dbBank' = [dbBank EXCEPT !.occupied = TRUE, !.ready = TRUE, !.faulted = FALSE]
             /\ dbVisible' = dbVisible
    <3>1. Heads'
      BY <2>1, DbPrefixFacts DEF Heads
    <3>2. DbTypes' /\ DbMappingBacked'
      BY <2>0, <2>1, <3>1, <1>a, <1>c DEF DbTypes
    <3>3. DbFreeIsEmpty' /\ DbBankTrue'
      BY <2>0, <2>1, <1>a DEF DbTypes, DbFreeIsEmpty, DbBankTrue
    <3> QED BY <3>2, <3>3 DEF DbInv
  <2>2. ASSUME NEW failing \in DbBuffers, NEW left \in DbAllocated,
               DbCleanup([b \in DbBuffers |-> IF b < failing THEN DbAll ELSE IF b = failing THEN left ELSE dbHeld[b]],
                         dbVisible),
               DbReleased([dbBank EXCEPT !.occupied = TRUE, !.faulted = FALSE])
        PROVE  DbInv'
    <3> DEFINE filled == [b \in DbBuffers |-> IF b < failing THEN DbAll ELSE IF b = failing THEN left ELSE dbHeld[b]]
               bank == [dbBank EXCEPT !.occupied = TRUE, !.faulted = FALSE]
    <3>1. filled \in [DbBuffers -> DbPrefixes]
      BY <1>b, DbPrefixFacts DEF Heads
    <3>2. /\ bank \in [occupied : BOOLEAN, ready : BOOLEAN, visible : BOOLEAN, faulted : BOOLEAN, gone : BOOLEAN]
          /\ ~bank.visible
      BY <2>0, <1>a DEF DbTypes
    <3> HIDE DEF filled, bank
    <3>3. DbCleanup(filled, dbVisible) /\ DbReleased(bank)
      BY <2>2 DEF filled, bank
    <3>4. /\ Heads' /\ dbVisible' = dbVisible /\ dbReady' \in [DbBuffers -> BOOLEAN]
      BY <3>1, <3>3, <2>0, CleanupKeepsPrefixes DEF Heads
    <3>5. /\ dbBank' \in [occupied : BOOLEAN, ready : BOOLEAN, visible : BOOLEAN, faulted : BOOLEAN, gone : BOOLEAN]
          /\ dbBank'.ready = FALSE /\ dbBank'.visible = FALSE
          /\ ~dbBank'.occupied => DbFreed
      <4>1. bank.occupied = TRUE
        BY <1>a DEF bank, DbTypes
      <4> QED BY <3>2, <3>3, <1>d, <4>1
    <3>6. DbTypes' /\ DbMappingBacked'
      BY <3>4, <3>5, <2>0, <1>a, <1>c DEF DbTypes
    <3>7. DbFreeIsEmpty' /\ DbBankTrue'
      BY <3>4, <3>5, <2>0 DEF DbFreeIsEmpty, DbBankTrue, DbFreed
    <3> QED BY <3>6, <3>7 DEF DbInv
  <2> QED BY <1>1, <2>1, <2>2 DEF DbAllocate
<1>2. CASE DbSyncFails \/ DbPublish \/ DbStart \/ DbStop \/ UNCHANGED dbVars
  <2>1. dbHeld' = dbHeld
    BY <1>2 DEF DbSyncFails, DbPublish, DbStart, DbStop, dbVars
  <2>2. DbMappingBacked'
    BY <1>a, <2>1 DEF DbMappingBacked
  <2>3. CASE DbSyncFails
    BY <2>1, <2>2, <2>3, <1>a DEF DbSyncFails, DbInv, DbTypes, DbFreeIsEmpty, DbBankTrue
  <2>4. CASE DbPublish
    <3>1. DbTypes'
      BY <2>1, <2>4, <1>a DEF DbPublish, DbTypes
    <3>2. DbFreeIsEmpty' /\ DbBankTrue'
      BY <2>1, <2>4, <1>a DEF DbPublish, DbTypes, DbFreeIsEmpty, DbBankTrue
    <3> QED BY <2>2, <3>1, <3>2 DEF DbInv
  <2>5. CASE DbStart \/ DbStop \/ UNCHANGED dbVars
    <3>1. /\ UNCHANGED <<dbHeld, dbReady, dbVisible, dbBank>>
          /\ dbDevice' \in {dbDevice, TRUE, FALSE}
      BY <2>5 DEF DbStart, DbStop, dbVars
    <3>2. DbTypes'
      BY <3>1, <1>a DEF DbTypes
    <3>3. DbFreeIsEmpty' /\ DbBankTrue'
      BY <2>5, <1>a DEF DbStart, DbStop, dbVars, DbFreeIsEmpty, DbBankTrue
    <3> QED BY <2>2, <3>2, <3>3 DEF DbInv
  <2> QED BY <1>2, <2>3, <2>4, <2>5
<1>3. CASE DbRelease \/ DbReleaseStopped
  <2>1. PICK visible \in [DbBuffers -> BOOLEAN], bank \in [occupied : BOOLEAN, ready : BOOLEAN, visible : BOOLEAN,
                                                         faulted : BOOLEAN, gone : BOOLEAN] :
          /\ DbCleanup(dbHeld, visible) /\ DbReleased(bank)
          /\ \A b \in DbBuffers : ~visible[b]
          /\ ~bank.visible /\ bank.occupied /\ ~dbDevice /\ dbDevice' = dbDevice
    <3>1. CASE DbRelease
      BY <3>1, <1>a DEF DbRelease, DbTypes, DbBankTrue
    <3>2. CASE DbReleaseStopped
      <4> DEFINE none == [b \in DbBuffers |-> FALSE]
                 bank == [dbBank EXCEPT !.visible = FALSE]
      <4>1. /\ none \in [DbBuffers -> BOOLEAN] /\ \A b \in DbBuffers : ~none[b]
            /\ bank \in [occupied : BOOLEAN, ready : BOOLEAN, visible : BOOLEAN, faulted : BOOLEAN, gone : BOOLEAN]
            /\ ~bank.visible /\ bank.occupied
        BY <3>2, <1>a DEF DbReleaseStopped, DbTypes
      <4>2. DbCleanup(dbHeld, none) /\ DbReleased(bank) /\ ~dbDevice /\ dbDevice' = dbDevice
        BY <3>2 DEF DbReleaseStopped
      <4> QED BY <4>1, <4>2
    <3> QED BY <1>3, <3>1, <3>2
  <2>2. Heads' /\ dbVisible' = visible /\ dbReady' \in [DbBuffers -> BOOLEAN]
    BY <2>1, <1>a, <1>b, CleanupKeepsPrefixes DEF Heads, DbTypes
  <2>3. /\ dbBank' \in [occupied : BOOLEAN, ready : BOOLEAN, visible : BOOLEAN, faulted : BOOLEAN, gone : BOOLEAN]
        /\ dbBank'.ready = FALSE /\ dbBank'.visible = FALSE
        /\ ~dbBank'.occupied => DbFreed
    BY <2>1, <1>d
  <2>4. DbTypes' /\ DbMappingBacked'
    BY <2>1, <2>2, <2>3, <1>a, <1>c DEF DbTypes
  <2>5. DbFreeIsEmpty' /\ DbBankTrue'
    BY <2>1, <2>2, <2>3 DEF DbFreeIsEmpty, DbBankTrue, DbFreed
  <2> QED BY <2>4, <2>5 DEF DbInv
<1>4. CASE DbDestroy
  <2>1. /\ Heads' /\ dbVisible' = dbVisible /\ dbReady' \in [DbBuffers -> BOOLEAN]
        /\ \A b \in DbBuffers : dbVisible[b] => dbHeld'[b] = dbHeld[b]
    BY <1>4, <1>a, <1>b, CleanupKeepsPrefixes DEF DbDestroy, Heads, DbTypes
  <2>2. /\ dbBank' \in [occupied : BOOLEAN, ready : BOOLEAN, visible : BOOLEAN, faulted : BOOLEAN, gone : BOOLEAN]
        /\ dbBank'.ready = FALSE /\ dbBank'.visible = dbBank.visible /\ dbBank'.occupied = dbBank.occupied
        /\ dbDevice' = dbDevice
    BY <1>4, <1>a DEF DbDestroy, DbTypes
  <2>3. DbTypes' /\ DbMappingBacked'
    BY <2>1, <2>2, <1>a, <1>c DEF DbTypes
  <2>4. DbBankTrue'
    BY <2>1, <2>2, <1>a DEF DbBankTrue
  <2>5. DbFreeIsEmpty'
    <3>1. ASSUME ~dbBank.occupied, NEW b \in DbBuffers PROVE dbHeld'[b] = {}
      <4>1. dbHeld[b] = {} /\ ~dbVisible[b]
        BY <3>1, <1>a DEF DbFreeIsEmpty
      <4>2. DbCleaned({}) = {{}}
        BY DEF DbCleaned
      <4>3. dbHeld'[b] \in DbCleaned(dbHeld[b])
        BY <1>4, <4>1 DEF DbDestroy, DbCleanup
      <4> QED BY <4>1, <4>2, <4>3
    <3> QED BY <3>1, <2>1, <2>2, <1>a DEF DbFreeIsEmpty
  <2> QED BY <2>3, <2>4, <2>5 DEF DbInv
<1> QED BY <1>1, <1>2, <1>3, <1>4 DEF DbNext

\* A bank starts empty and in the invariant.
LEMMA DbInitially ==
  ASSUME DbInit
  PROVE  DbInv
<1>1. dbHeld \in [DbBuffers -> DbPrefixes]
  BY DbPrefixFacts DEF DbInit
<1>2. DbMappingBacked /\ dbHeld \in [DbBuffers -> SUBSET DbAll]
  BY <1>1, DbPrefixFacts DEF DbMappingBacked, DbPrefixes
<1>3. DbTypes
  BY <1>2 DEF DbInit, DbTypes
<1>4. DbFreeIsEmpty /\ DbBankTrue
  BY DEF DbInit, DbFreeIsEmpty, DbBankTrue
<1> QED BY <1>2, <1>3, <1>4 DEF DbInv

\* The invariant of a bank always holds.
LEMMA DbInvariant == DbSpec => []DbInv
BY DbInitially, DbStep, PTL DEF DbSpec

\* For a bank of any number of buffers: while the device runs over it every
\* buffer is mapped, what is mapped is attached, wired memory, and a bank that
\* says it is free holds nothing, through partial failures of allocation and
\* release and destruction under running DMA (MacDmaBuffer::cleanup(), the
\* banks' allocate(), releaseAfterDmaStopped() and destructors).
THEOREM NoBufferPulledAway == DbSpec => [](DbMappedWhileRunning /\ DbMappingBacked /\ DbFreeIsEmpty)
<1>1. DbInv => DbMappedWhileRunning /\ DbMappingBacked /\ DbFreeIsEmpty
  BY DEF DbInv, DbBankTrue, DbMappedWhileRunning
<1> QED BY <1>1, DbInvariant, PTL

----------------------------------------------------------------------------
(* Station tables *)

TpSpec == TpInit /\ [][TpNext]_tpVars

TpRecords == [sequence : Nat, op : Nat, index : Nat]
TpAnswerRecords == [op : Nat, success : BOOLEAN, taken : BOOLEAN]
TpPrograms == [state : {"idle", "pending", "complete", "failed"}, op : Nat, count : Nat, index : Nat,
               sequence : Nat]
TpOwners == [op : Nat, last : Nat, done : BOOLEAN, success : BOOLEAN]
TpBuses == [faulted : BOOLEAN, next : Nat, pending : SUBSET TpRecords]
TpDevices == [queue : Seq(TpRecords), applied : SUBSET (Nat \X Nat),
              acks : SUBSET [sequence : Nat, op : Nat, ok : BOOLEAN]]

\* The type invariant of the state the operators work on.
TpStates == [p : TpPrograms, o : TpOwners, b : TpBuses, d : TpDevices, t : Seq(TpAnswerRecords)]

\* Actions are numbered in the order they begin, and an owner without an action
\* that may still begin one has no plan under way.
TpNumbered(s) ==
  /\ s.o.last <= TpActions /\ s.o.op <= s.o.last /\ s.p.op <= s.o.last
  /\ s.o.op = 0 /\ s.o.last < TpActions => s.p.state # "pending"
  /\ \A i \in 1 .. Len(s.t) : s.t[i].op <= s.o.last

\* Answers have different actions; the plan under way has none, a complete one has.
TpAnswersApart(s) ==
  /\ \A i, k \in 1 .. Len(s.t) : s.t[i].op = s.t[k].op => i = k
  /\ s.p.state = "pending" => \A i \in 1 .. Len(s.t) : s.t[i].op # s.p.op
  /\ s.p.state = "complete" => \E i \in 1 .. Len(s.t) : s.t[i].op = s.p.op

\* The first n commands of the plan are carried out.
TpDone(s, n) == \A i \in 0 .. n - 1 : <<s.p.op, i>> \in s.d.applied

TpCurrent(s) == [sequence |-> s.p.sequence, op |-> s.p.op, index |-> s.p.index]

\* On a usable bus the one command pending is the plan's current one, the device
\* has it at most once, and an acknowledgement of it tells the truth.
TpOneCommand(s) ==
  /\ s.p.state = "failed" => s.b.faulted
  /\ ~s.b.faulted /\ s.p.state # "pending" => s.b.pending = {} /\ s.d.queue = <<>>
  /\ ~s.b.faulted => \A a \in s.d.acks : a.sequence < s.b.next
  /\ ~s.b.faulted /\ s.p.state = "pending" =>
       /\ s.b.pending = {TpCurrent(s)} /\ s.p.sequence < s.b.next
       /\ s.p.index < s.p.count /\ TpDone(s, s.p.index)
       /\ \/ s.d.queue = <<>>
          \/ s.d.queue = <<TpCurrent(s)>> /\ \A a \in s.d.acks : a.sequence # s.p.sequence
       /\ \A a \in s.d.acks : a.sequence = s.p.sequence /\ a.ok =>
            <<s.p.op, s.p.index>> \in s.d.applied

\* A complete plan is carried out, and a success is that of the owner's action.
TpCompleteWhole(s) ==
  /\ s.p.state = "complete" => TpDone(s, s.p.count)
  /\ s.o.op # 0 /\ s.o.done /\ s.o.success => s.p.state = "complete" /\ s.p.op = s.o.op

TpGood(s) ==
  s \in TpStates /\ TpNumbered(s) /\ TpAnswersApart(s) /\ TpOneCommand(s) /\ TpCompleteWhole(s)

TpInv == TpGood(TpState)

\* A step to the state s leaves the variables at s.
LEMMA TpBecomesIs ==
  ASSUME NEW s \in TpStates, TpBecomes(s)
  PROVE  TpState' = s
BY DEF TpBecomes, TpState, TpStates

\* notify(), field by field.
TpNotifies(s, success, r) ==
  /\ r \in TpStates /\ r.d = s.d
  /\ r.o.op = s.o.op /\ r.o.last = s.o.last
  /\ r.p.op = s.p.op /\ r.p.count = s.p.count /\ r.p.index = s.p.index /\ r.p.sequence = s.p.sequence
  /\ r.b.next = s.b.next /\ r.b.pending = s.b.pending
  /\ \E x \in TpAnswerRecords : x.op = s.p.op /\ r.t = Append(s.t, x)
  /\ TpTakes(s) => r.p = s.p /\ r.b = s.b /\ r.o.done = TRUE /\ r.o.success = success
  /\ ~TpTakes(s) => r.p.state = "failed" /\ r.b.faulted = TRUE /\ r.o = s.o

\* notify() does what its fields say.
LEMMA TpNotified ==
  ASSUME NEW s \in TpStates, NEW success \in BOOLEAN
  PROVE  TpNotifies(s, success, TpNotify(s, success))
<1>r. PICK r : r = TpNotify(s, success)
  OBVIOUS
<1> DEFINE x == [op |-> s.p.op, success |-> success, taken |-> TpTakes(s)]
           told == [s EXCEPT !.t = Append(@, x)]
<1>0. TpTakes(s) \in BOOLEAN
  BY DEF TpTakes
<1>1. x \in TpAnswerRecords /\ x.op = s.p.op
  BY <1>0 DEF TpStates, TpPrograms, TpAnswerRecords
<1> HIDE DEF x
<1>2. told \in TpStates /\ told.p = s.p /\ told.o = s.o /\ told.b = s.b /\ told.d = s.d /\ told.t = Append(s.t, x)
  BY <1>1 DEF TpStates
<1>3. r = IF TpTakes(s) THEN [told EXCEPT !.o.done = TRUE, !.o.success = success]
          ELSE [told EXCEPT !.p.state = "failed", !.b.faulted = TRUE]
  BY <1>r DEF TpNotify, x
<1> HIDE DEF told
<1>4. CASE TpTakes(s)
  <2>1. r = [told EXCEPT !.o = [told.o EXCEPT !.done = TRUE, !.success = success]]
    BY <1>2, <1>3, <1>4 DEF TpStates
  <2>2. /\ [told.o EXCEPT !.done = TRUE, !.success = success] \in TpOwners
        /\ [told.o EXCEPT !.done = TRUE, !.success = success].op = told.o.op
        /\ [told.o EXCEPT !.done = TRUE, !.success = success].last = told.o.last
        /\ [told.o EXCEPT !.done = TRUE, !.success = success].done = TRUE
        /\ [told.o EXCEPT !.done = TRUE, !.success = success].success = success
    BY <1>2 DEF TpStates, TpOwners
  <2>3. /\ r \in TpStates /\ r.p = told.p /\ r.b = told.b /\ r.d = told.d /\ r.t = told.t
        /\ r.o = [told.o EXCEPT !.done = TRUE, !.success = success]
    BY <2>1, <2>2, <1>2 DEF TpStates
  <2> QED BY <1>r, <1>1, <1>2, <1>4, <2>2, <2>3 DEF TpNotifies
<1>5. CASE ~TpTakes(s)
  <2>1. r = [told EXCEPT !.p = [told.p EXCEPT !.state = "failed"], !.b = [told.b EXCEPT !.faulted = TRUE]]
    BY <1>3, <1>5
  <2>2. /\ [told.p EXCEPT !.state = "failed"] \in TpPrograms
        /\ [told.p EXCEPT !.state = "failed"].state = "failed"
        /\ [told.p EXCEPT !.state = "failed"].op = told.p.op
        /\ [told.p EXCEPT !.state = "failed"].count = told.p.count
        /\ [told.p EXCEPT !.state = "failed"].index = told.p.index
        /\ [told.p EXCEPT !.state = "failed"].sequence = told.p.sequence
    BY <1>2 DEF TpStates, TpPrograms
  <2>3. /\ [told.b EXCEPT !.faulted = TRUE] \in TpBuses
        /\ [told.b EXCEPT !.faulted = TRUE].faulted = TRUE
        /\ [told.b EXCEPT !.faulted = TRUE].next = told.b.next
        /\ [told.b EXCEPT !.faulted = TRUE].pending = told.b.pending
    BY <1>2 DEF TpStates, TpBuses
  <2>4. /\ r \in TpStates /\ r.o = told.o /\ r.d = told.d /\ r.t = told.t
        /\ r.p = [told.p EXCEPT !.state = "failed"] /\ r.b = [told.b EXCEPT !.faulted = TRUE]
    BY <2>1, <2>2, <2>3, <1>2 DEF TpStates
  <2> QED BY <1>r, <1>1, <1>2, <1>5, <2>2, <2>3, <2>4 DEF TpNotifies
<1> QED BY <1>4, <1>5

\* No success is waiting to be read by the owner.
TpNoSuccess(s) == ~(s.o.op # 0 /\ s.o.done /\ s.o.success)

\* An answer added for an action that has none keeps the answers apart.
LEMMA TpAppended ==
  ASSUME NEW t \in Seq(TpAnswerRecords),
         NEW x \in TpAnswerRecords, NEW last \in Nat, x.op <= last,
         \A i \in 1 .. Len(t) : t[i].op <= last,
         \A i, k \in 1 .. Len(t) : t[i].op = t[k].op => i = k,
         \A i \in 1 .. Len(t) : t[i].op # x.op,
         NEW u, u = Append(t, x)
  PROVE  /\ \A i \in 1 .. Len(u) : u[i].op <= last
         /\ \A i, k \in 1 .. Len(u) : u[i].op = u[k].op => i = k
         /\ \E i \in 1 .. Len(u) : u[i].op = x.op
<1>1. /\ Len(u) = Len(t) + 1 /\ u[Len(t) + 1] = x /\ Len(t) \in Nat
      /\ \A i \in 1 .. Len(t) : u[i] = t[i]
  OBVIOUS
<1>2. \A i \in 1 .. Len(u) : i \in 1 .. Len(t) \/ i = Len(t) + 1
  BY <1>1
<1>3. Len(t) + 1 \in 1 .. Len(u)
  BY <1>1
<1> QED BY <1>1, <1>2, <1>3

\* fail() leaves a good state: the bus is over, and the plan is answered if it had
\* no answer.
LEMMA TpFailedIsGood ==
  ASSUME NEW s \in TpStates, TpNumbered(s), TpAnswersApart(s), TpNoSuccess(s),
         s.p.state # "failed", NEW deliver \in BOOLEAN, deliver => s.p.state = "pending"
  PROVE  TpGood(TpFail(s, deliver)) /\ TpFail(s, deliver).p.state = "failed"
<1> DEFINE failed == [s EXCEPT !.p.state = "failed", !.b.faulted = TRUE]
<1>1. /\ failed \in TpStates /\ failed.o = s.o /\ failed.d = s.d /\ failed.t = s.t
      /\ failed.p.state = "failed" /\ failed.p.op = s.p.op /\ failed.b.faulted = TRUE
  BY DEF TpStates, TpPrograms, TpBuses
<1> HIDE DEF failed
<1>2. TpFail(s, deliver) = IF deliver THEN TpNotify(failed, FALSE) ELSE failed
  BY DEF TpFail, failed
<1>3. TpNumbered(failed) /\ TpAnswersApart(failed)
  BY <1>1 DEF TpNumbered, TpAnswersApart
<1>4. TpGood(failed)
  BY <1>1, <1>3 DEF TpGood, TpOneCommand, TpCompleteWhole, TpNoSuccess
<1>5. CASE ~deliver
  BY <1>1, <1>2, <1>4, <1>5
<1>6. CASE deliver
  <2>0. PICK r : r = TpNotify(failed, FALSE) /\ TpNotifies(failed, FALSE, r)
    BY <1>1, TpNotified, Zenon
  <2>1. /\ r \in TpStates /\ r.d = failed.d
        /\ r.o.op = failed.o.op /\ r.o.last = failed.o.last /\ r.p.op = failed.p.op
        /\ r.p.state = "failed" /\ r.b.faulted = TRUE
        /\ r.o = failed.o \/ r.o.success = FALSE
    <3>1. CASE TpTakes(failed)
      BY <1>1, <2>0, <3>1 DEF TpNotifies
    <3>2. CASE ~TpTakes(failed)
      BY <1>1, <2>0, <3>2 DEF TpNotifies
    <3> QED BY <3>1, <3>2
  <2>2. PICK x \in TpAnswerRecords :
          x.op = failed.p.op /\ r.t = Append(failed.t, x)
    BY <1>1, <2>0 DEF TpNotifies
  <2>3. /\ failed.t \in Seq(TpAnswerRecords)
        /\ failed.o.last \in Nat /\ x.op <= failed.o.last
        /\ \A i \in 1 .. Len(failed.t) : failed.t[i].op <= failed.o.last
        /\ \A i, k \in 1 .. Len(failed.t) : failed.t[i].op = failed.t[k].op => i = k
        /\ \A i \in 1 .. Len(failed.t) : failed.t[i].op # x.op
    BY <1>1, <1>3, <1>6, <2>2 DEF TpStates, TpOwners, TpPrograms, TpNumbered, TpAnswersApart
  <2>4. /\ \A i \in 1 .. Len(r.t) : r.t[i].op <= failed.o.last
        /\ \A i, k \in 1 .. Len(r.t) : r.t[i].op = r.t[k].op => i = k
    <3>1. PICK t, u, last : t = failed.t /\ u = r.t /\ last = failed.o.last
      OBVIOUS
    <3>2. /\ t \in Seq(TpAnswerRecords) /\ last \in Nat /\ x.op <= last /\ u = Append(t, x)
          /\ \A i \in 1 .. Len(t) : t[i].op <= last
          /\ \A i, k \in 1 .. Len(t) : t[i].op = t[k].op => i = k
          /\ \A i \in 1 .. Len(t) : t[i].op # x.op
      BY <2>2, <2>3, <3>1
    <3>3. /\ \A i \in 1 .. Len(u) : u[i].op <= last
          /\ \A i, k \in 1 .. Len(u) : u[i].op = u[k].op => i = k
      BY <3>2, TpAppended
    <3> QED
      BY <3>1, <3>3
  <2>5. TpNumbered(r) /\ TpAnswersApart(r)
    BY <2>1, <2>4, <1>3 DEF TpNumbered, TpAnswersApart
  <2>6. TpOneCommand(r) /\ TpCompleteWhole(r)
    BY <2>1, <1>1 DEF TpOneCommand, TpCompleteWhole, TpNoSuccess
  <2> QED BY <1>2, <1>6, <2>0, <2>1, <2>5, <2>6 DEF TpGood
<1> QED BY <1>5, <1>6

\* fail() and stop() of the service leave a good state.
LEMMA TpOverIsGood ==
  ASSUME NEW s, TpGood(s)
  PROVE  TpGood(TpServiceOver(s))
<1> DEFINE r == TpServiceOver(s)
<1>0. s \in TpStates /\ TpNumbered(s) /\ TpAnswersApart(s) /\ TpOneCommand(s) /\ TpCompleteWhole(s)
  BY DEF TpGood
<1>1. /\ r \in TpStates /\ r.p = s.p /\ r.d = s.d /\ r.t = s.t
      /\ r.o.op = 0 /\ r.o.last = TpActions /\ r.b.faulted = TRUE
  BY <1>0, TpAssumption DEF TpStates, TpOwners, TpBuses, TpServiceOver
<1> HIDE DEF r
<1>2. TpNumbered(r)
  <2>1. s.o.last \in Nat /\ s.p.op \in Nat /\ s.t \in Seq(TpAnswerRecords)
    BY <1>0 DEF TpStates, TpOwners, TpPrograms
  <2>2. \A i \in 1 .. Len(s.t) : s.t[i].op \in Nat
    <3>1. \A i \in 1 .. Len(s.t) : s.t[i] \in TpAnswerRecords
      BY <2>1
    <3> QED BY <3>1 DEF TpAnswerRecords
  <2> QED BY <2>1, <2>2, <1>0, <1>1, TpAssumption DEF TpNumbered
<1>3. TpAnswersApart(r)
  BY <1>0, <1>1 DEF TpAnswersApart
<1>4. TpOneCommand(r) /\ TpCompleteWhole(r)
  BY <1>0, <1>1 DEF TpOneCommand, TpCompleteWhole, TpDone
<1> QED BY <1>1, <1>2, <1>3, <1>4 DEF TpGood, r

\* A plan about to submit the command at its index.
TpAboutToSubmit(s) ==
  /\ s \in TpStates /\ TpNumbered(s) /\ TpAnswersApart(s) /\ TpNoSuccess(s)
  /\ s.p.state = "pending" /\ s.p.index < s.p.count /\ TpDone(s, s.p.index)
  /\ ~s.b.faulted =>
       s.b.pending = {} /\ s.d.queue = <<>> /\ \A a \in s.d.acks : a.sequence < s.b.next

\* submit() has published the command, or fail() is safe to call.
LEMMA TpSubmittedIsGood ==
  ASSUME NEW s, TpAboutToSubmit(s), NEW r \in TpSubmitted(s)
  PROVE  /\ r.ok => TpGood(r.s) /\ r.s.p.state = "pending" /\ r.s.p.op = s.p.op
         /\ ~r.ok => /\ r.s \in TpStates /\ TpNumbered(r.s) /\ TpAnswersApart(r.s) /\ TpNoSuccess(r.s)
                     /\ r.s.p.state = "pending"
<1> DEFINE record == [sequence |-> s.b.next, op |-> s.p.op, index |-> s.p.index]
           sent == [s EXCEPT !.p.sequence = s.b.next, !.b.next = @ + 1, !.b.pending = @ \cup {record},
                             !.d.queue = Append(@, record)]
<1>0. s \in TpStates
  BY DEF TpAboutToSubmit
<1>1. record \in TpRecords
  BY <1>0 DEF TpStates, TpPrograms, TpBuses, TpRecords
<1>2. /\ sent \in TpStates /\ sent.o = s.o /\ sent.t = s.t
      /\ sent.p.state = s.p.state /\ sent.p.op = s.p.op /\ sent.p.index = s.p.index
      /\ sent.p.count = s.p.count /\ sent.p.sequence = s.b.next
      /\ sent.b.next = s.b.next + 1 /\ sent.b.pending = s.b.pending \cup {record}
      /\ sent.b.faulted = s.b.faulted
      /\ sent.d.queue = Append(s.d.queue, record) /\ sent.d.applied = s.d.applied
      /\ sent.d.acks = s.d.acks
  <2> DEFINE p == [s.p EXCEPT !.sequence = s.b.next]
             b == [s.b EXCEPT !.next = s.b.next + 1, !.pending = s.b.pending \cup {record}]
             d == [s.d EXCEPT !.queue = Append(@, record)]
  <2>0. s.p \in TpPrograms /\ s.b \in TpBuses /\ s.d \in TpDevices
    BY <1>0 DEF TpStates
  <2> HIDE DEF record
  <2>1. /\ p \in TpPrograms /\ p.state = s.p.state /\ p.op = s.p.op /\ p.index = s.p.index
        /\ p.count = s.p.count /\ p.sequence = s.b.next
    BY <2>0 DEF TpPrograms, TpBuses
  <2>2. /\ b \in TpBuses /\ b.next = s.b.next + 1 /\ b.pending = s.b.pending \cup {record}
        /\ b.faulted = s.b.faulted
    <3>1. s.b.pending \cup {record} \in SUBSET TpRecords /\ s.b.next \in Nat
      BY <2>0, <1>1 DEF TpBuses
    <3>2. PICK n, more : n = s.b.next + 1 /\ more = s.b.pending \cup {record}
      OBVIOUS
    <3>3. n \in Nat /\ more \in SUBSET TpRecords /\ b = [s.b EXCEPT !.next = n, !.pending = more]
      BY <3>1, <3>2
    <3> HIDE DEF b
    <3>4. b \in TpBuses /\ b.next = n /\ b.pending = more /\ b.faulted = s.b.faulted
      BY <2>0, <3>3 DEF TpBuses
    <3> QED BY <3>2, <3>4
  <2>3. /\ d \in TpDevices /\ d.queue = Append(s.d.queue, record) /\ d.applied = s.d.applied
        /\ d.acks = s.d.acks
    <3>1. s.d.queue \in Seq(TpRecords)
      BY <2>0 DEF TpDevices
    <3>2. Append(s.d.queue, record) \in Seq(TpRecords)
      BY <1>1, <3>1
    <3> QED BY <2>0, <3>2 DEF TpDevices
  <2>4. sent = [s EXCEPT !.p = p, !.b = b, !.d = d]
    BY <1>0, <2>0 DEF TpStates, TpBuses, record
  <2> HIDE DEF p, b, d, sent
  <2>5. sent \in TpStates /\ sent.o = s.o /\ sent.t = s.t /\ sent.p = p /\ sent.b = b /\ sent.d = d
    BY <1>0, <2>1, <2>2, <2>3, <2>4 DEF TpStates
  <2> QED BY <2>1, <2>2, <2>3, <2>5
<1>3. \/ r = [ok |-> FALSE, s |-> s]
      \/ r = [ok |-> TRUE, s |-> sent] /\ ~s.b.faulted
      \/ r = [ok |-> FALSE, s |-> [sent EXCEPT !.b.faulted = TRUE]]
      \/ r = [ok |-> FALSE, s |-> [sent EXCEPT !.b.faulted = TRUE, !.d.queue = s.d.queue]]
  BY DEF TpSubmitted
<1>4. record.sequence = s.b.next /\ record.op = s.p.op /\ record.index = s.p.index
  OBVIOUS
<1>5. TpCurrent(sent) = record
  BY <1>2 DEF TpCurrent
<1> HIDE DEF sent, record
<1>6. CASE r = [ok |-> FALSE, s |-> s]
  BY <1>6 DEF TpAboutToSubmit
<1>7. CASE r = [ok |-> TRUE, s |-> sent] /\ ~s.b.faulted
  <2>1. TpNumbered(sent) /\ TpAnswersApart(sent)
    BY <1>2 DEF TpAboutToSubmit, TpNumbered, TpAnswersApart
  <2>2. sent.b.pending = {record} /\ sent.d.queue = <<record>>
    <3>1. s.b.pending = {} /\ s.d.queue = <<>>
      BY <1>7 DEF TpAboutToSubmit
    <3>2. Append(<<>>, record) = <<record>> /\ {} \cup {record} = {record}
      OBVIOUS
    <3> QED BY <1>2, <3>1, <3>2
  <2>3. TpDone(sent, sent.p.index) /\ sent.p.index < sent.p.count
    BY <1>2 DEF TpAboutToSubmit, TpDone
  <2>4. \A a \in sent.d.acks : a.sequence < sent.b.next /\ a.sequence # sent.p.sequence
    <3>1. ASSUME NEW a \in sent.d.acks PROVE a.sequence \in Nat /\ a.sequence < s.b.next /\ s.b.next \in Nat
      BY <1>0, <1>2, <1>7 DEF TpAboutToSubmit, TpStates, TpDevices, TpBuses
    <3> QED BY <3>1, <1>2
  <2>5. sent.p.sequence < sent.b.next
    BY <1>0, <1>2 DEF TpStates, TpBuses
  <2>6. TpOneCommand(sent)
    BY <2>2, <2>3, <2>4, <2>5, <1>2, <1>5 DEF TpOneCommand, TpAboutToSubmit
  <2>7. TpCompleteWhole(sent)
    BY <1>2 DEF TpAboutToSubmit, TpNoSuccess, TpCompleteWhole
  <2>8. TpGood(sent) /\ sent.p.state = "pending" /\ sent.p.op = s.p.op
    BY <1>2, <2>1, <2>6, <2>7 DEF TpGood, TpAboutToSubmit
  <2> QED BY <1>7, <2>8
<1>8. ASSUME NEW queue \in {sent.d.queue, s.d.queue},
             NEW q, q = [sent EXCEPT !.b.faulted = TRUE, !.d.queue = queue]
      PROVE  q \in TpStates /\ TpNumbered(q) /\ TpAnswersApart(q) /\ TpNoSuccess(q) /\ q.p.state = "pending"
  <2>1. q \in TpStates /\ q.p = sent.p /\ q.o = s.o /\ q.t = s.t
    BY <1>0, <1>2, <1>8 DEF TpStates, TpBuses, TpDevices
  <2> QED BY <2>1, <1>2 DEF TpAboutToSubmit, TpNumbered, TpAnswersApart, TpNoSuccess
<1>9. CASE r = [ok |-> FALSE, s |-> [sent EXCEPT !.b.faulted = TRUE]]
  <2> DEFINE q == [sent EXCEPT !.b.faulted = TRUE]
  <2>1. q \in TpStates /\ q.p = sent.p /\ q.o = s.o /\ q.t = s.t
    BY <1>2 DEF TpStates, TpBuses
  <2> HIDE DEF q
  <2>2. TpNumbered(q) /\ TpAnswersApart(q) /\ TpNoSuccess(q) /\ q.p.state = "pending"
    BY <2>1, <1>2 DEF TpAboutToSubmit, TpNumbered, TpAnswersApart, TpNoSuccess
  <2> QED BY <1>9, <2>1, <2>2 DEF q
<1>10. CASE r = [ok |-> FALSE, s |-> [sent EXCEPT !.b.faulted = TRUE, !.d.queue = s.d.queue]]
  BY <1>8, <1>10
<1> QED BY <1>3, <1>6, <1>7, <1>9, <1>10

\* The state event() is called in: the record of the acknowledgement a is retired,
\* and a refusal has ended the bus.
TpRetired(s, a, acks) ==
  [s EXCEPT !.d.acks = acks, !.b.pending = {r \in s.b.pending : r.sequence # a.sequence},
            !.b.faulted = s.b.faulted \/ ~a.ok]

\* event(): an acknowledgement of the pending command completes the plan, submits
\* its next command or fails it, and every outcome is good.
LEMMA TpEventIsGood ==
  ASSUME NEW s, TpGood(s), NEW a \in s.d.acks, ~s.b.faulted,
         \E r \in s.b.pending : r.sequence = a.sequence,
         NEW acks \in {s.d.acks, s.d.acks \ {a}}, NEW q, q = TpRetired(s, a, acks),
         NEW r \in TpEvent(q, a)
  PROVE  TpGood(r)
<1>0. s \in TpStates /\ TpNumbered(s) /\ TpAnswersApart(s) /\ TpOneCommand(s) /\ TpCompleteWhole(s)
  BY DEF TpGood
<1>1. /\ s.p.state = "pending" /\ s.b.pending = {TpCurrent(s)} /\ a.sequence = s.p.sequence
      /\ s.p.index < s.p.count /\ TpDone(s, s.p.index)
      /\ \A c \in s.d.acks : c.sequence < s.b.next
      /\ a.ok => <<s.p.op, s.p.index>> \in s.d.applied
      /\ s.d.queue = <<>>
  <2>1. s.p.state = "pending" /\ s.b.pending = {TpCurrent(s)}
    BY <1>0 DEF TpOneCommand
  <2>2. a.sequence = s.p.sequence
    BY <2>1 DEF TpCurrent
  <2> QED BY <1>0, <2>1, <2>2 DEF TpOneCommand
<1>2. {x \in s.b.pending : x.sequence # a.sequence} = {}
  BY <1>1 DEF TpCurrent
<1>3. a \in [sequence : Nat, op : Nat, ok : BOOLEAN] /\ acks \in SUBSET [sequence : Nat, op : Nat, ok : BOOLEAN]
  BY <1>0 DEF TpStates, TpDevices
<1>4. /\ q \in TpStates /\ q.p = s.p /\ q.o = s.o /\ q.t = s.t
      /\ q.b.pending = {} /\ q.b.next = s.b.next /\ (q.b.faulted <=> ~a.ok)
      /\ q.d.queue = <<>> /\ q.d.applied = s.d.applied /\ q.d.acks = acks
  <2>1. PICK faulted \in BOOLEAN : (faulted <=> ~a.ok) /\ faulted = (s.b.faulted \/ ~a.ok)
    BY <1>3
  <2> DEFINE b == [s.b EXCEPT !.pending = {}, !.faulted = faulted]
             d == [s.d EXCEPT !.acks = acks]
  <2>2. s.b \in TpBuses /\ s.d \in TpDevices
    BY <1>0 DEF TpStates
  <2>3. b \in TpBuses /\ b.pending = {} /\ b.next = s.b.next /\ b.faulted = faulted
    BY <2>2 DEF TpBuses
  <2>4. d \in TpDevices /\ d.queue = s.d.queue /\ d.applied = s.d.applied /\ d.acks = acks
    BY <2>2, <1>3 DEF TpDevices
  <2>5. q = [s EXCEPT !.b = b, !.d = d]
    BY <1>0, <1>2, <2>1, <2>2 DEF TpStates, TpBuses, TpDevices, TpRetired
  <2> HIDE DEF b, d
  <2>6. q \in TpStates /\ q.p = s.p /\ q.o = s.o /\ q.t = s.t /\ q.b = b /\ q.d = d
    BY <1>0, <2>3, <2>4, <2>5 DEF TpStates
  <2> QED BY <1>1, <2>1, <2>3, <2>4, <2>6
<1>5. TpNumbered(q) /\ TpAnswersApart(q) /\ TpNoSuccess(q) /\ q.p.state = "pending"
  BY <1>0, <1>1, <1>4 DEF TpNumbered, TpAnswersApart, TpNoSuccess, TpCompleteWhole
<1>6. CASE r = TpFail(q, TRUE)
  BY <1>4, <1>5, <1>6, TpFailedIsGood
<1>7. CASE r # TpFail(q, TRUE)
  <2> DEFINE next == [q EXCEPT !.p.index = @ + 1]
  <2>0. q.p \in TpPrograms /\ s.p.index \in Nat /\ s.p.count \in Nat
    BY <1>0, <1>4 DEF TpStates, TpPrograms
  <2>1. /\ next \in TpStates /\ next.o = q.o /\ next.b = q.b /\ next.d = q.d /\ next.t = q.t
        /\ next.p.state = "pending" /\ next.p.op = s.p.op /\ next.p.count = s.p.count
        /\ next.p.index = s.p.index + 1
    <3> DEFINE p == [q.p EXCEPT !.index = s.p.index + 1]
    <3>1. /\ p \in TpPrograms /\ p.state = q.p.state /\ p.op = q.p.op /\ p.count = q.p.count
          /\ p.index = s.p.index + 1
      BY <2>0 DEF TpPrograms
    <3>2. next = [q EXCEPT !.p = p]
      BY <1>4
    <3> HIDE DEF p, next
    <3>3. /\ next \in TpStates /\ next.o = q.o /\ next.b = q.b /\ next.d = q.d /\ next.t = q.t
          /\ next.p = p
      BY <1>4, <3>1, <3>2 DEF TpStates
    <3> QED BY <3>1, <3>3, <1>4, <1>5
  <2>r. \/ TpLast(q.p) /\ r = TpNotify([next EXCEPT !.p.state = "complete"], TRUE)
        \/ ~TpLast(q.p) /\ \E c \in TpSubmitted(next) : r = IF c.ok THEN c.s ELSE TpFail(c.s, TRUE)
    BY <1>7 DEF TpEvent
  <2> HIDE DEF next
  <2>2. TpNumbered(next) /\ TpAnswersApart(next) /\ TpNoSuccess(next)
    BY <1>4, <1>5, <2>1 DEF TpNumbered, TpAnswersApart, TpNoSuccess
  <2>3. a.ok
    BY <1>7 DEF TpEvent
  <2>4. TpDone(next, next.p.index)
    <3>1. ASSUME NEW i \in 0 .. s.p.index PROVE <<s.p.op, i>> \in s.d.applied
      <4>1. CASE i = s.p.index
        BY <4>1, <2>3, <1>1
      <4>2. CASE i # s.p.index
        BY <4>2, <2>0, <1>1 DEF TpDone
      <4> QED BY <4>1, <4>2
    <3> QED BY <3>1, <2>0, <2>1, <1>4 DEF TpDone
  <2>5. CASE TpLast(q.p)
    <3> DEFINE done == [next EXCEPT !.p.state = "complete"]
    <3>1. /\ done \in TpStates /\ done.o = s.o /\ done.b = q.b /\ done.d = q.d /\ done.t = s.t
          /\ done.p.state = "complete" /\ done.p.op = s.p.op /\ done.p.count = s.p.count
      BY <2>1, <1>4 DEF TpStates, TpPrograms
    <3>2. r = TpNotify(done, TRUE)
      BY <2>5, <2>r
    <3> HIDE DEF done
    <3>3. TpNotifies(done, TRUE, r)
      BY <3>1, <3>2, TpNotified, Zenon
    <3>4. PICK x \in TpAnswerRecords : x.op = s.p.op /\ r.t = Append(s.t, x)
      BY <3>1, <3>3 DEF TpNotifies
    <3>5. /\ s.t \in Seq(TpAnswerRecords) /\ s.o.last \in Nat /\ x.op <= s.o.last
          /\ \A i \in 1 .. Len(s.t) : s.t[i].op <= s.o.last
          /\ \A i, k \in 1 .. Len(s.t) : s.t[i].op = s.t[k].op => i = k
          /\ \A i \in 1 .. Len(s.t) : s.t[i].op # x.op
      BY <3>4, <1>0, <1>1 DEF TpStates, TpOwners, TpNumbered, TpAnswersApart
    <3>6. /\ \A i \in 1 .. Len(r.t) : r.t[i].op <= s.o.last
          /\ \A i, k \in 1 .. Len(r.t) : r.t[i].op = r.t[k].op => i = k
          /\ \E i \in 1 .. Len(r.t) : r.t[i].op = s.p.op
      BY <3>4, <3>5, TpAppended
    <3>7. /\ r \in TpStates /\ r.d = q.d /\ r.o.op = s.o.op /\ r.o.last = s.o.last /\ r.p.op = s.p.op
          /\ r.p.count = s.p.count /\ r.b.pending = {} /\ r.b.next = s.b.next
          /\ \/ r.p.state = "complete" /\ s.o.op = s.p.op
             \/ r.p.state = "failed" /\ r.b.faulted = TRUE /\ r.o = s.o
      <4>1. CASE TpTakes(done)
        BY <4>1, <3>1, <3>3, <1>4 DEF TpNotifies, TpTakes
      <4>2. CASE ~TpTakes(done)
        BY <4>2, <3>1, <3>3, <1>4 DEF TpNotifies
      <4> QED BY <4>1, <4>2
    <3>8. TpNumbered(r) /\ TpAnswersApart(r)
      BY <3>6, <3>7, <1>0 DEF TpNumbered, TpAnswersApart
    <3>9. TpOneCommand(r)
      BY <3>7, <1>1, <1>4 DEF TpOneCommand
    <3>10. TpCompleteWhole(r)
      <4>1. TpDone(r, r.p.count)
        BY <2>0, <2>1, <2>4, <2>5, <3>7, <1>4 DEF TpDone, TpLast
      <4> QED BY <4>1, <3>7, <1>4, <1>5 DEF TpCompleteWhole, TpNoSuccess
    <3> QED BY <3>7, <3>8, <3>9, <3>10 DEF TpGood
  <2>6. CASE ~TpLast(q.p)
    <3>1. next.p.index < next.p.count
      BY <2>0, <2>1, <2>6, <1>1, <1>4 DEF TpLast
    <3>2. TpAboutToSubmit(next)
      BY <2>1, <2>2, <2>4, <3>1, <1>1, <1>4 DEF TpAboutToSubmit
    <3>3. PICK c \in TpSubmitted(next) : r = IF c.ok THEN c.s ELSE TpFail(c.s, TRUE)
      BY <2>6, <2>r
    <3>4. CASE c.ok
      BY <3>2, <3>3, <3>4, TpSubmittedIsGood
    <3>5. CASE ~c.ok
      BY <3>2, <3>3, <3>5, TpSubmittedIsGood, TpFailedIsGood
    <3> QED BY <3>4, <3>5
  <2> QED BY <2>5, <2>6
<1> QED BY <1>6, <1>7

\* begin(): the plan is under way, or the service is over.
LEMMA TpBeginKeeps ==
  ASSUME TpInv, TpBegin
  PROVE  TpInv'
<1> DEFINE s == TpState
           op == tpOwner.last + 1
           asked == [TpState EXCEPT !.o = [op |-> op, last |-> op, done |-> FALSE, success |-> FALSE]]
<1>0. s \in TpStates /\ TpNumbered(s) /\ TpAnswersApart(s) /\ TpOneCommand(s) /\ TpCompleteWhole(s)
  BY DEF TpInv, TpGood
<1>p. PICK count \in TpPlans : \E r \in TpBegun(asked, op, count) :
        TpBecomes(IF r.p.state = "pending" /\ r.p.op = op THEN r ELSE TpServiceOver(r))
  BY DEF TpBegin
<1>1. PICK r \in TpBegun(asked, op, count) :
        TpBecomes(IF r.p.state = "pending" /\ r.p.op = op THEN r ELSE TpServiceOver(r))
  BY <1>p
<1>2. /\ s.o = tpOwner /\ s.o.op = 0 /\ s.o.last < TpActions /\ s.o.last \in Nat /\ s.p.op \in Nat
      /\ op = s.o.last + 1 /\ count \in Nat /\ count > 0
  BY <1>0 DEF TpBegin, TpState, TpStates, TpOwners, TpPrograms, TpPlans
<1>3. /\ asked \in TpStates /\ asked.p = s.p /\ asked.b = s.b /\ asked.d = s.d /\ asked.t = s.t
      /\ asked.o.op = op /\ asked.o.last = op /\ asked.o.done = FALSE /\ asked.o.success = FALSE
  <2> DEFINE o == [op |-> op, last |-> op, done |-> FALSE, success |-> FALSE]
  <2> HIDE DEF s, op
  <2>1. o \in TpOwners /\ o.op = op /\ o.last = op /\ o.done = FALSE /\ o.success = FALSE
    BY <1>2 DEF TpOwners
  <2>2. asked = [s EXCEPT !.o = o]
    BY DEF s
  <2> HIDE DEF o, asked
  <2>3. asked \in TpStates /\ asked.p = s.p /\ asked.b = s.b /\ asked.d = s.d /\ asked.t = s.t /\ asked.o = o
    BY <1>0, <2>1, <2>2 DEF TpStates
  <2> QED BY <2>1, <2>3
<1> HIDE DEF s, op, asked
<1>t. \A i \in 1 .. Len(s.t) : s.t[i].op \in Nat
  <2>1. \A i \in 1 .. Len(s.t) : s.t[i] \in TpAnswerRecords
    BY <1>0 DEF TpStates
  <2> QED BY <2>1 DEF TpAnswerRecords
<1>4. s.p.state # "pending"
  BY <1>0, <1>2 DEF TpNumbered
<1>5. TpNumbered(asked)
  BY <1>0, <1>2, <1>3, <1>t, TpAssumption DEF TpNumbered
<1>6. TpGood(asked)
  BY <1>0, <1>3, <1>5 DEF TpGood, TpAnswersApart, TpOneCommand, TpCompleteWhole, TpDone, TpCurrent
<1>7. TpNoSuccess(asked)
  BY <1>3 DEF TpNoSuccess
<1> DEFINE armed == [asked EXCEPT !.p = [state |-> "pending", op |-> op, count |-> count, index |-> 0,
                                         sequence |-> asked.p.sequence]]
<1>8. TpGood(r) /\ ((r.p.state = "pending" /\ r.p.op = op) \/ TpGood(TpServiceOver(r)))
  <2>1. CASE asked.p.state = "failed"
    <3>1. r = asked
      BY <1>1, <2>1 DEF TpBegun
    <3> QED BY <3>1, <1>6, TpOverIsGood
  <2>2. CASE asked.p.state # "failed" /\ asked.b.faulted
    <3>1. r = TpFail(asked, FALSE)
      BY <1>1, <1>3, <1>4, <2>2 DEF TpBegun
    <3>2. TpGood(r)
      <4>1. TpAnswersApart(asked)
        BY <1>6 DEF TpGood
      <4> QED BY <3>1, <4>1, <1>3, <1>5, <1>7, <2>2, TpFailedIsGood
    <3> QED BY <3>2, TpOverIsGood
  <2>3. CASE asked.p.state # "failed" /\ ~asked.b.faulted
    <3>1. PICK c \in TpSubmitted(armed) : r = IF c.ok THEN c.s ELSE TpFail(c.s, FALSE)
      BY <1>1, <1>3, <1>4, <2>3 DEF TpBegun
    <3>2. /\ armed \in TpStates /\ armed.o = asked.o /\ armed.b = s.b /\ armed.d = s.d /\ armed.t = s.t
          /\ armed.p.state = "pending" /\ armed.p.op = op /\ armed.p.count = count /\ armed.p.index = 0
      BY <1>2, <1>3 DEF TpStates, TpPrograms
    <3> HIDE DEF armed
    <3>3. TpNumbered(armed) /\ TpNoSuccess(armed)
      BY <3>2, <1>2, <1>3, <1>5, <1>7 DEF TpNumbered, TpNoSuccess
    <3>4. TpAnswersApart(armed)
      <4>1. \A i \in 1 .. Len(s.t) : s.t[i].op # op
        BY <1>0, <1>2, <1>t DEF TpNumbered
      <4> QED BY <4>1, <3>2, <1>0 DEF TpAnswersApart
    <3>5. TpAboutToSubmit(armed)
      <4>1. TpDone(armed, armed.p.index)
        BY <3>2 DEF TpDone
      <4>2. s.b.pending = {} /\ s.d.queue = <<>> /\ \A a \in s.d.acks : a.sequence < s.b.next
        BY <1>0, <1>3, <1>4, <2>3 DEF TpOneCommand
      <4> QED BY <4>1, <4>2, <3>2, <3>3, <3>4, <1>2 DEF TpAboutToSubmit
    <3>6. CASE c.ok
      BY <3>1, <3>2, <3>5, <3>6, TpSubmittedIsGood
    <3>7. CASE ~c.ok
      <4>1. TpGood(TpFail(c.s, FALSE))
        BY <3>5, <3>7, TpSubmittedIsGood, TpFailedIsGood
      <4> QED BY <4>1, <3>1, <3>7, TpOverIsGood
    <3> QED BY <3>6, <3>7
  <2> QED BY <2>1, <2>2, <2>3
<1>9. PICK n : TpGood(n) /\ TpBecomes(n)
  BY <1>1, <1>8, TpOverIsGood
<1>10. TpState' = n
  BY <1>9, TpBecomesIs DEF TpGood
<1> QED BY <1>9, <1>10 DEF TpInv

\* The device carries out, refuses and acknowledges commands.
LEMMA TpExecuteKeeps ==
  ASSUME TpInv, TpExecute
  PROVE  TpInv'
<1> DEFINE s == TpState
           n == TpState'
           head == Head(s.d.queue)
<1>0. s \in TpStates /\ TpNumbered(s) /\ TpAnswersApart(s) /\ TpOneCommand(s) /\ TpCompleteWhole(s)
  BY DEF TpInv, TpGood
<1>1. PICK ok \in BOOLEAN, lost \in BOOLEAN :
        tpDevice' = [queue |-> Tail(tpDevice.queue),
                     applied |-> IF ok THEN tpDevice.applied \cup {<<Head(tpDevice.queue).op, Head(tpDevice.queue).index>>}
                                 ELSE tpDevice.applied,
                     acks |-> IF lost THEN tpDevice.acks
                              ELSE tpDevice.acks \cup {[sequence |-> Head(tpDevice.queue).sequence,
                                                        op |-> Head(tpDevice.queue).op, ok |-> ok]}]
  BY DEF TpExecute
<1> DEFINE ack == [sequence |-> head.sequence, op |-> head.op, ok |-> ok]
<1>2. /\ n.p = s.p /\ n.o = s.o /\ n.b = s.b /\ n.t = s.t /\ s.d = tpDevice /\ n.d = tpDevice'
      /\ s.d.queue # <<>>
      /\ n = [p |-> s.p, o |-> s.o, b |-> s.b, d |-> n.d, t |-> s.t]
  BY DEF TpExecute, TpState
<1>3. /\ n.d.queue = Tail(s.d.queue)
      /\ n.d.applied = IF ok THEN s.d.applied \cup {<<head.op, head.index>>} ELSE s.d.applied
      /\ n.d.acks = IF lost THEN s.d.acks ELSE s.d.acks \cup {ack}
      /\ n.d = [queue |-> n.d.queue, applied |-> n.d.applied, acks |-> n.d.acks]
  BY <1>1, <1>2
<1> HIDE DEF s, n
<1>4. s.d.queue \in Seq(TpRecords) /\ s.d \in TpDevices
  BY <1>0 DEF TpStates, TpDevices
<1>5. head \in TpRecords /\ Tail(s.d.queue) \in Seq(TpRecords)
  BY <1>2, <1>4
<1> HIDE DEF head
<1>6. ack \in [sequence : Nat, op : Nat, ok : BOOLEAN] /\ <<head.op, head.index>> \in Nat \X Nat
  BY <1>5 DEF TpRecords
<1>a. ack.sequence = head.sequence /\ ack.ok = ok
  OBVIOUS
<1> HIDE DEF ack
<1>7. n \in TpStates
  <2>1. n.d.applied \in SUBSET (Nat \X Nat)
    BY <1>3, <1>4, <1>6 DEF TpDevices
  <2>2. n.d.acks \in SUBSET [sequence : Nat, op : Nat, ok : BOOLEAN]
    BY <1>3, <1>4, <1>6 DEF TpDevices
  <2>3. n.d.queue \in Seq(TpRecords)
    BY <1>3, <1>5
  <2>4. n.d \in TpDevices
    BY <1>3, <2>1, <2>2, <2>3 DEF TpDevices
  <2> QED BY <1>0, <1>2, <2>4 DEF TpStates
<1>8. TpNumbered(n) /\ TpAnswersApart(n)
  BY <1>0, <1>2 DEF TpNumbered, TpAnswersApart
<1>9. s.d.applied \subseteq n.d.applied
  BY <1>3
<1>10. TpCompleteWhole(n)
  BY <1>0, <1>2, <1>9 DEF TpCompleteWhole, TpDone
<1>11. TpOneCommand(n)
  <2>1. CASE s.b.faulted
    BY <2>1, <1>2 DEF TpOneCommand
  <2>2. CASE ~s.b.faulted
    <3>1. /\ s.p.state = "pending" /\ s.d.queue = <<TpCurrent(s)>>
          /\ \A a \in s.d.acks : a.sequence # s.p.sequence
      BY <2>2, <1>0, <1>2 DEF TpOneCommand
    <3>2. head = TpCurrent(s) /\ n.d.queue = <<>>
      BY <3>1, <1>3 DEF head
    <3>3. head.sequence = s.p.sequence /\ head.op = s.p.op /\ head.index = s.p.index
      BY <3>2 DEF TpCurrent
    <3>4. TpCurrent(n) = TpCurrent(s) /\ TpDone(n, n.p.index)
      BY <2>2, <3>1, <1>0, <1>2, <1>9 DEF TpCurrent, TpOneCommand, TpDone
    <3>5. \A a \in n.d.acks : a \in s.d.acks \/ a = ack
      BY <1>3
    <3>6. \A a \in n.d.acks : a.sequence < n.b.next
      BY <2>2, <3>1, <3>3, <3>5, <1>0, <1>2, <1>a DEF TpOneCommand
    <3>7. ASSUME NEW a \in n.d.acks, a.sequence = n.p.sequence, a.ok
          PROVE  <<n.p.op, n.p.index>> \in n.d.applied
      <4>1. a = ack
        BY <3>1, <3>5, <3>7, <1>2
      <4>2. ok
        BY <4>1, <3>7, <1>a
      <4> QED BY <4>2, <3>3, <1>2, <1>3
    <3> QED BY <2>2, <3>1, <3>2, <3>4, <3>6, <3>7, <1>0, <1>2 DEF TpOneCommand
  <2> QED BY <2>1, <2>2
<1> QED BY <1>7, <1>8, <1>10, <1>11 DEF TpInv, TpGood, n

\* Every step keeps the invariant.
LEMMA TpStep ==
  ASSUME TpInv, [TpNext]_tpVars
  PROVE  TpInv'
<1> DEFINE s == TpState
<1>0. s \in TpStates /\ TpNumbered(s) /\ TpAnswersApart(s) /\ TpOneCommand(s) /\ TpCompleteWhole(s)
  BY DEF TpInv, TpGood
<1>g. ASSUME NEW n, TpGood(n), TpBecomes(n) PROVE TpInv'
  BY <1>g, TpBecomesIs DEF TpGood, TpInv
<1>1. CASE TpOwnerReads
  <2>1. CASE tpOwner.success
    <3> DEFINE n == [TpState EXCEPT !.o.op = 0]
    <3>1. s.o \in TpOwners /\ s.o = tpOwner
      BY <1>0 DEF TpStates, TpState
    <3>2. /\ n \in TpStates /\ n.p = s.p /\ n.b = s.b /\ n.d = s.d /\ n.t = s.t
          /\ n.o.op = 0 /\ n.o.last = s.o.last
      <4> HIDE DEF s
      <4>1. n = [s EXCEPT !.o.op = 0]
        BY DEF s
      <4> HIDE DEF n
      <4> QED BY <1>0, <3>1, <4>1 DEF TpStates, TpOwners
    <3>3. s.p.state = "complete"
      BY <1>0, <1>1, <2>1, <3>1 DEF TpCompleteWhole, TpOwnerReads
    <3>4. TpBecomes(n)
      BY <1>1, <2>1 DEF TpOwnerReads
    <3> HIDE DEF s, n
    <3>5. TpNumbered(n) /\ TpAnswersApart(n)
      BY <1>0, <3>1, <3>2, <3>3 DEF TpNumbered, TpAnswersApart, TpOwners
    <3>6. TpOneCommand(n) /\ TpCompleteWhole(n)
      BY <1>0, <3>2, <3>3 DEF TpOneCommand, TpCompleteWhole, TpDone
    <3> QED BY <3>2, <3>4, <3>5, <3>6, <1>g DEF TpGood
  <2>2. CASE ~tpOwner.success
    BY <1>1, <2>2, <1>g, TpOverIsGood DEF TpOwnerReads, TpInv
  <2> QED BY <2>1, <2>2
<1>2. CASE TpOwnerDrops
  BY <1>2, <1>g, TpOverIsGood DEF TpOwnerDrops, TpInv
<1>3. CASE TpService \/ TpCancel
  <2>1. s.p.state = "pending" /\ TpBecomes(TpFail(s, TRUE))
    BY <1>3 DEF TpService, TpCancel, TpState
  <2> HIDE DEF s
  <2>2. TpNoSuccess(s)
    BY <2>1, <1>0 DEF TpNoSuccess, TpCompleteWhole
  <2>3. TpGood(TpFail(s, TRUE))
    BY <2>1, <2>2, <1>0, TpFailedIsGood
  <2> QED BY <2>1, <2>3, <1>g
<1>4. CASE TpAck
  <2>1. PICK a \in tpDevice.acks, again \in BOOLEAN :
          LET taken == [TpState EXCEPT !.d.acks = IF again THEN @ ELSE @ \ {a}]
              retired == [taken EXCEPT !.b.pending = {r \in @ : r.sequence # a.sequence},
                                       !.b.faulted = @ \/ ~a.ok] IN
            IF TpExpected(a) THEN \E r \in TpEvent(retired, a) : TpBecomes(r) ELSE TpBecomes(taken)
    BY <1>4 DEF TpAck
  <2> DEFINE acks == IF again THEN s.d.acks ELSE s.d.acks \ {a}
             taken == [s EXCEPT !.d.acks = acks]
  <2>2. s.d = tpDevice /\ s.b = tpBus
    BY DEF TpState
  <2>3. /\ taken \in TpStates /\ taken.p = s.p /\ taken.o = s.o /\ taken.b = s.b /\ taken.t = s.t
        /\ taken.d.queue = s.d.queue /\ taken.d.applied = s.d.applied /\ taken.d.acks = acks
    <3>1. s.d \in TpDevices /\ acks \in SUBSET [sequence : Nat, op : Nat, ok : BOOLEAN]
      BY <1>0 DEF TpStates, TpDevices
    <3> HIDE DEF s, acks
    <3> QED BY <1>0, <3>1 DEF TpStates, TpDevices
  <2>4. CASE TpExpected(a)
    <3>1. [taken EXCEPT !.b.pending = {r \in @ : r.sequence # a.sequence}, !.b.faulted = @ \/ ~a.ok]
            = TpRetired(s, a, acks)
      <4>1. s.b \in TpBuses
        BY <1>0 DEF TpStates
      <4> HIDE DEF s, acks
      <4> QED BY <1>0, <2>3, <4>1 DEF TpRetired, TpStates, TpBuses
    <3>2. PICK r \in TpEvent(TpRetired(s, a, acks), a) : TpBecomes(r)
      BY <2>1, <2>4, <3>1
    <3>3. ~s.b.faulted /\ (\E r0 \in s.b.pending : r0.sequence = a.sequence) /\ a \in s.d.acks
      BY <2>2, <2>4 DEF TpExpected
    <3>4. acks \in {s.d.acks, s.d.acks \ {a}} /\ TpGood(s)
      BY DEF TpInv
    <3> HIDE DEF s, acks
    <3>5. TpGood(r)
      BY <3>2, <3>3, <3>4, TpEventIsGood
    <3> QED BY <3>2, <3>5, <1>g
  <2>5. CASE ~TpExpected(a)
    <3>1. TpBecomes(taken)
      BY <2>1, <2>5
    <3>2. \A c \in taken.d.acks : c \in s.d.acks
      BY <2>3
    <3> HIDE DEF s, taken, acks
    <3>3. TpNumbered(taken) /\ TpAnswersApart(taken)
      BY <1>0, <2>3 DEF TpNumbered, TpAnswersApart
    <3>4. TpOneCommand(taken) /\ TpCompleteWhole(taken)
      BY <1>0, <2>3, <3>2 DEF TpOneCommand, TpCompleteWhole, TpDone, TpCurrent
    <3> QED BY <2>3, <3>1, <3>3, <3>4, <1>g DEF TpGood
  <2> QED BY <2>4, <2>5
<1>5. CASE TpBusEnds
  <2> DEFINE n == [s EXCEPT !.b.faulted = TRUE]
  <2>1. s.b \in TpBuses
    BY <1>0 DEF TpStates
  <2>2. TpBecomes(n)
    BY <1>5 DEF TpBusEnds, TpBecomes, TpState
  <2> HIDE DEF s
  <2>3. n \in TpStates /\ n.p = s.p /\ n.o = s.o /\ n.d = s.d /\ n.t = s.t /\ n.b.faulted = TRUE
    BY <1>0, <2>1 DEF TpStates, TpBuses
  <2> HIDE DEF n
  <2>4. TpNumbered(n) /\ TpAnswersApart(n) /\ TpOneCommand(n) /\ TpCompleteWhole(n)
    BY <1>0, <2>3 DEF TpNumbered, TpAnswersApart, TpOneCommand, TpCompleteWhole, TpDone
  <2> QED BY <2>2, <2>3, <2>4, <1>g DEF TpGood
<1>6. CASE UNCHANGED tpVars
  <2>1. TpState' = TpState
    BY <1>6 DEF tpVars, TpState
  <2> QED BY <2>1 DEF TpInv
<1> QED BY <1>1, <1>2, <1>3, <1>4, <1>5, <1>6, TpBeginKeeps, TpExecuteKeeps DEF TpNext

\* The programmer starts in the invariant.
LEMMA TpStart ==
  ASSUME TpInit
  PROVE  TpInv
<1> DEFINE s == TpState
<1>1. /\ s.p = [state |-> "idle", op |-> 0, count |-> 0, index |-> 0, sequence |-> 0]
      /\ s.o = [op |-> 0, last |-> 0, done |-> FALSE, success |-> FALSE]
      /\ s.b = [faulted |-> FALSE, next |-> 1, pending |-> {}]
      /\ s.d = [queue |-> <<>>, applied |-> {}, acks |-> {}]
      /\ s.t = <<>>
  BY DEF TpInit, TpState
<1>2. s \in TpStates
  <2>1. s.p \in TpPrograms /\ s.o \in TpOwners
    BY <1>1 DEF TpPrograms, TpOwners
  <2>2. s.b \in TpBuses /\ s.d \in TpDevices /\ s.t \in Seq(TpAnswerRecords)
    BY <1>1 DEF TpBuses, TpDevices
  <2> QED BY <2>1, <2>2 DEF TpStates, TpState
<1> HIDE DEF s
<1>3. TpNumbered(s) /\ TpAnswersApart(s) /\ TpOneCommand(s) /\ TpCompleteWhole(s)
  BY <1>1, TpAssumption DEF TpNumbered, TpAnswersApart, TpOneCommand, TpCompleteWhole
<1> QED BY <1>2, <1>3 DEF TpInv, TpGood, s

\* The invariant of the programmer always holds.
LEMMA TpInvariant == TpSpec => []TpInv
BY TpStart, TpStep, PTL DEF TpSpec

\* What the invariant says of the answers and of the commands carried out.
LEMMA TpSafe ==
  ASSUME TpInv
  PROVE  TpAnsweredOnce /\ TpSuccessWhole /\ TpNoHalfPlan
<1> DEFINE s == TpState
<1>0. s \in TpStates /\ TpNumbered(s) /\ TpAnswersApart(s) /\ TpOneCommand(s) /\ TpCompleteWhole(s)
  BY DEF TpInv, TpGood
<1>1. s.p = tpProgram /\ s.o = tpOwner /\ s.b = tpBus /\ s.d = tpDevice /\ s.t = tpTold
  BY DEF TpState
<1> HIDE DEF s
<1>2. \A op : Cardinality(TpAnswers(op)) <= 1
  <2>1. SUFFICES ASSUME NEW op PROVE Cardinality(TpAnswers(op)) <= 1
    OBVIOUS
  <2>2. \A i, k \in TpAnswers(op) : i = k
    BY <1>0, <1>1 DEF TpAnswers, TpAnswersApart
  <2>3. CASE TpAnswers(op) = {}
    BY <2>3, FS_EmptySet
  <2>4. CASE TpAnswers(op) # {}
    <3>1. PICK i : TpAnswers(op) = {i}
      BY <2>2, <2>4
    <3>2. Cardinality({i}) = 1
      BY FS_Singleton
    <3> QED BY <3>1, <3>2
  <2> QED BY <2>3, <2>4
<1>3. TpAnsweredOnce
  BY <1>0, <1>1, <1>2 DEF TpAnsweredOnce, TpAnswers, TpAnswersApart
<1>4. TpSuccessWhole
  BY <1>0, <1>1 DEF TpSuccessWhole, TpCompleteWhole, TpDone
<1>5. TpNoHalfPlan
  BY <1>0, <1>1 DEF TpNoHalfPlan, TpOneCommand, TpCompleteWhole, TpDone
<1> QED BY <1>3, <1>4, <1>5

\* For any number of station actions: no plan is answered twice, an action reported
\* written has all of its commands carried out, and a plan left half way leaves no
\* usable bus, however acknowledgements are lost, repeated or late and whoever
\* gives up in between (begin(), event(), fail() and notify() of tables::Programmer).
THEOREM TablesWholeOrOver == TpSpec => [](TpAnsweredOnce /\ TpSuccessWhole /\ TpNoHalfPlan)
BY TpSafe, TpInvariant, PTL

----------------------------------------------------------------------------
(* The SAE exchange *)

SaeSessionType ==
  [live : BOOLEAN, commitSent : BOOLEAN, peerCommit : BOOLEAN, confirmSent : BOOLEAN,
   accepted : BOOLEAN, failed : BOOLEAN, sendConfirm : Nat, peerConfirm : Nat]

SaeErrors == {"NONE", "SEQUENCE", "CLOCK", "TIMEOUT", "CRYPTO", "PROTOCOL", "RETRIES", "CANCELLED"}

SaeExchangeType ==
  [state : {"READY", "WAIT_COMMIT", "WAIT_CONFIRM", "ACCEPTED", "FAILED", "CANCELLED"},
   error : SaeErrors, lastMs : Nat, deadlineMs : Nat, retryAtMs : Int, retriesUsed : Nat]

SaeTypeOK ==
  /\ saeX \in SaeExchangeType
  /\ saeStation \in SaeSessionType /\ saeAccessPoint \in SaeSessionType
  /\ saeSamePassword \in BOOLEAN /\ saeNow \in Nat /\ saeSent \in Nat

\* A session that has accepted has not failed, and one without the peer's Commit has
\* computed no Confirm.
SaeSessionTrue(s) ==
  /\ s.accepted => ~s.failed
  /\ ~s.peerCommit => s.sendConfirm = 0

\* A Confirm of the access point that could be taken is one it sent when it accepted;
\* the station's Confirms are counted from one.
SaeAirTrue ==
  /\ \A m \in saeAir : m.to = "sta" /\ m.kind = "confirm" /\ m.counter # 0 /\ saeSamePassword =>
       saeAccessPoint.accepted
  /\ \A m \in saeAir : m.counter \in Nat /\ (m.to = "ap" /\ m.kind = "confirm" => m.counter # 0)

\* A station accepts after the access point did, and with the same password.
SaeBothAccept == saeStation.accepted => saeSamePassword /\ saeAccessPoint.accepted

\* The bodies sent so far, by phase.
SaeCounted ==
  /\ saeX.retriesUsed <= SaeRetries
  /\ saeX.state = "READY" => saeSent = 0
  /\ saeX.state = "WAIT_COMMIT" => saeSent <= 1 + saeX.retriesUsed
  /\ saeX.state = "WAIT_CONFIRM" => saeSent <= 2 + SaeRetries + saeX.retriesUsed
  /\ saeSent <= 2 * (1 + SaeRetries)

\* A station that waits for the Confirm has computed its own.
SaeConfirming == saeX.state = "WAIT_CONFIRM" => saeStation.sendConfirm # 0

SaeInv ==
  /\ SaeTypeOK /\ SaeSessionTrue(saeStation) /\ SaeSessionTrue(saeAccessPoint)
  /\ SaeAirTrue /\ SaeBothAccept /\ SaeCounted /\ SaeConfirming

----------------------------------------------------------------------------
(* The calls of a session. *)

\* r16_sae_output_commit().
LEMMA SaeOutputCommitIs ==
  ASSUME NEW s \in SaeSessionType, SaeSessionTrue(s), NEW r, r = SaeOutputCommit(s)
  PROVE  r.s \in SaeSessionType /\ SaeSessionTrue(r.s) /\ r.s.accepted = s.accepted
  BY DEF SaeOutputCommit, SaeSessionRefuse, SaeSessionType, SaeSessionTrue

\* r16_sae_output_confirm().
LEMMA SaeOutputConfirmIs ==
  ASSUME NEW s \in SaeSessionType, SaeSessionTrue(s), NEW r, r = SaeOutputConfirm(s)
  PROVE  /\ r.s \in SaeSessionType /\ SaeSessionTrue(r.s) /\ r.s.accepted = s.accepted
         /\ r.s.failed = s.failed /\ r.s.peerCommit = s.peerCommit /\ r.ok \in BOOLEAN
         /\ r.ok => r.s.sendConfirm # 0 /\ r.s.confirmSent
         /\ ~s.failed /\ s.peerCommit => r.ok
         /\ ~r.ok => r.s = s
<1>1. CASE s.failed \/ ~s.peerCommit
  BY <1>1 DEF SaeOutputConfirm, SaeSessionRefuse, SaeSessionType, SaeSessionTrue
<1>2. CASE ~(s.failed \/ ~s.peerCommit)
  <2>1. PICK n : n = SaeNextCounter(s)
    OBVIOUS
  <2>2. n \in Nat /\ n # 0
    BY <2>1 DEF SaeNextCounter, SaeAcceptedCounter, SaeSessionType
  <2>3. PICK u : u = [s EXCEPT !.confirmSent = TRUE, !.sendConfirm = n]
    OBVIOUS
  <2>4. r.ok = TRUE /\ r.s = u
    BY <1>2, <2>1, <2>3 DEF SaeOutputConfirm
  <2>5. /\ u \in SaeSessionType /\ u.accepted = s.accepted /\ u.failed = s.failed
        /\ u.peerCommit = s.peerCommit /\ u.confirmSent /\ u.sendConfirm = n
    BY <2>2, <2>3 DEF SaeSessionType
  <2> QED
    BY <1>2, <2>2, <2>4, <2>5 DEF SaeSessionTrue
<1> QED
  BY <1>1, <1>2

\* r16_sae_receive_commit().
LEMMA SaeReceiveCommitIs ==
  ASSUME NEW s \in SaeSessionType, SaeSessionTrue(s), NEW r, r = SaeReceiveCommit(s, TRUE)
  PROVE  r.s \in SaeSessionType /\ SaeSessionTrue(r.s) /\ r.s.accepted = s.accepted
  BY DEF SaeReceiveCommit, SaeSessionRefuse, SaeSessionFail, SaeSessionType, SaeSessionTrue

\* What receiving a Confirm makes of a session: what was accepted stays so, and only a
\* valid Confirm makes it accept.
SaeConfirmTaken(s, counter, valid, r) ==
  /\ r.s \in SaeSessionType /\ SaeSessionTrue(r.s) /\ r.ok \in BOOLEAN
  /\ s.accepted => r.s.accepted
  /\ r.s.accepted /\ ~s.accepted => valid
  /\ r.ok => valid /\ counter # 0 /\ r.s.accepted
  /\ r.s.sendConfirm = s.sendConfirm /\ r.s.peerCommit = s.peerCommit
  /\ ~s.failed /\ s.peerCommit /\ s.confirmSent /\ counter # 0 /\ valid /\ ~s.accepted => r.ok

\* r16_sae_receive_confirm().
LEMMA SaeReceiveConfirmIs ==
  ASSUME NEW s \in SaeSessionType, SaeSessionTrue(s), NEW counter \in Nat, NEW valid \in BOOLEAN,
         NEW r, r = SaeReceiveConfirm(s, counter, valid)
  PROVE  SaeConfirmTaken(s, counter, valid, r)
<1>1. CASE s.failed \/ ~s.peerCommit \/ ~s.confirmSent
  BY <1>1 DEF SaeConfirmTaken, SaeReceiveConfirm, SaeTakeConfirm, SaeSessionRefuse, SaeSessionFail, SaeSessionType,
              SaeSessionTrue
<1>2. CASE ~(s.failed \/ ~s.peerCommit \/ ~s.confirmSent) /\ (counter = 0 \/ ~valid)
  BY <1>2 DEF SaeConfirmTaken, SaeReceiveConfirm, SaeTakeConfirm, SaeSessionRefuse, SaeSessionFail, SaeSessionType,
              SaeSessionTrue
<1>3. CASE ~(s.failed \/ ~s.peerCommit \/ ~s.confirmSent) /\ ~(counter = 0 \/ ~valid)
  BY <1>3 DEF SaeConfirmTaken, SaeReceiveConfirm, SaeTakeConfirm, SaeSessionRefuse, SaeSessionFail, SaeSessionType,
              SaeSessionTrue
<1> QED
  BY <1>1, <1>2, <1>3

----------------------------------------------------------------------------
(* The calls of an exchange. *)

\* A step of the station: what it accepts the access point has accepted, and what it
\* sends is counted.
LEMMA SaeStationMoves ==
  ASSUME SaeInv, saeX' \in SaeExchangeType, saeSent' \in Nat, SaeCounted',
         saeStation' \in SaeSessionType, SaeSessionTrue(saeStation'),
         saeX'.state = "WAIT_CONFIRM" => saeStation'.sendConfirm # 0,
         saeStation'.accepted => saeStation.accepted \/ (saeSamePassword /\ saeAccessPoint.accepted),
         \/ saeAir' = saeAir
         \/ \E m : /\ saeAir' = saeAir \cup {m} /\ m.to = "ap" /\ m.counter \in Nat
                   /\ m.kind = "confirm" => m.counter # 0,
         UNCHANGED <<saeAccessPoint, saeNow, saeSamePassword>>
  PROVE  SaeInv'
<1>1. SaeAirTrue'
  <2>1. CASE saeAir' = saeAir
    BY <2>1 DEF SaeInv, SaeAirTrue
  <2>2. CASE \E m : /\ saeAir' = saeAir \cup {m} /\ m.to = "ap" /\ m.counter \in Nat
                    /\ m.kind = "confirm" => m.counter # 0
    BY <2>2 DEF SaeInv, SaeAirTrue
  <2> QED
    BY <2>1, <2>2
<1>2. SaeBothAccept' /\ SaeConfirming'
  BY DEF SaeInv, SaeBothAccept, SaeConfirming
<1>3. SaeTypeOK'
  BY DEF SaeInv, SaeTypeOK
<1>4. SaeSessionTrue(saeAccessPoint')
  BY DEF SaeInv
<1> QED
  BY <1>1, <1>2, <1>3, <1>4 DEF SaeInv, SaeSessionTrue

\* A session that was destroyed has accepted nothing.
LEMMA SaeNoSessionIs ==
  SaeNoSession \in SaeSessionType /\ SaeSessionTrue(SaeNoSession) /\ ~SaeNoSession.accepted
  BY DEF SaeNoSession, SaeNewSession, SaeSessionType, SaeSessionTrue

\* fail().
LEMMA SaeFailKeeps ==
  ASSUME SaeInv, NEW why \in SaeErrors, SaeFail(why), UNCHANGED <<saeAccessPoint, saeNow, saeSamePassword>>
  PROVE  SaeInv'
<1>1. saeX' \in SaeExchangeType /\ saeX'.state = "FAILED" /\ saeX'.retriesUsed = saeX.retriesUsed
  BY DEF SaeFail, SaeInv, SaeTypeOK, SaeExchangeType
<1>2. saeSent' = saeSent /\ saeAir' = saeAir /\ saeStation' = SaeNoSession
  BY DEF SaeFail
<1>3. SaeCounted'
  BY <1>1, <1>2 DEF SaeInv, SaeCounted
<1>4. saeSent' \in Nat
  BY <1>2 DEF SaeInv, SaeTypeOK
<1> QED
  BY <1>1, <1>2, <1>3, <1>4, SaeNoSessionIs, SaeStationMoves

\* next_retry() changes the time of the next retry only.
LEMMA SaeNextRetryIs ==
  ASSUME NEW x \in SaeExchangeType, NEW now \in Nat, NEW y, y = SaeNextRetry(x, now)
  PROVE  y \in SaeExchangeType /\ y.state = x.state /\ y.retriesUsed = x.retriesUsed
<1>1. PICK at : at = now + IF x.deadlineMs - now < SaeRetryMs THEN x.deadlineMs - now ELSE SaeRetryMs
  OBVIOUS
<1>2. at \in Int
  BY <1>1, SaeParameters DEF SaeExchangeType
<1>3. y = [x EXCEPT !.retryAtMs = at]
  BY <1>1 DEF SaeNextRetry
<1> QED
  BY <1>2, <1>3 DEF SaeExchangeType

\* start().
LEMMA SaeStartKeeps ==
  ASSUME SaeInv, NEW now \in Nat, SaeStart(now)
  PROVE  SaeInv'
<1>0. UNCHANGED <<saeAccessPoint, saeNow, saeSamePassword>> /\ "CLOCK" \in SaeErrors /\ "CRYPTO" \in SaeErrors
  BY DEF SaeStart, SaeErrors
<1>1. CASE SaeFail("CLOCK") \/ SaeFail("CRYPTO")
  BY <1>0, <1>1, SaeFailKeeps
<1>2. CASE ~(SaeFail("CLOCK") \/ SaeFail("CRYPTO"))
  <2>1. PICK made : made = SaeOutputCommit(saeStation)
    OBVIOUS
  <2>2. PICK x : x = [saeX EXCEPT !.state = "WAIT_COMMIT", !.lastMs = now, !.deadlineMs = now + SaeTimeoutMs]
    OBVIOUS
  <2>3. /\ saeStation' = made.s /\ saeX' = SaeNextRetry(x, now) /\ saeX.state = "READY"
        /\ SaeSend(SaeCommit("ap")) /\ UNCHANGED <<saeAccessPoint, saeNow, saeSamePassword>>
    BY <1>2, <2>1, <2>2 DEF SaeStart
  <2>4. x \in SaeExchangeType /\ x.state = "WAIT_COMMIT" /\ x.retriesUsed = saeX.retriesUsed
    <3>1. PICK d : d = now + SaeTimeoutMs
      OBVIOUS
    <3>0. SaeTimeoutMs \in Nat
      <4>1. SaeRetryMs \in 1..10000 /\ SaeTimeoutMs \in SaeRetryMs..120000
        BY SaeParameters
      <4>2. SaeRetryMs \in Nat
        BY <4>1
      <4> QED
        BY <4>1, <4>2
    <3>2. d \in Nat
      BY <3>0, <3>1
    <3>3. x = [saeX EXCEPT !.state = "WAIT_COMMIT", !.lastMs = now, !.deadlineMs = d]
      BY <2>2, <3>1
    <3> QED
      BY <3>2, <3>3 DEF SaeInv, SaeTypeOK, SaeExchangeType
  <2>5. saeX' \in SaeExchangeType /\ saeX'.state = "WAIT_COMMIT" /\ saeX'.retriesUsed = saeX.retriesUsed
    BY <2>3, <2>4, SaeNextRetryIs
  <2>6. made.s \in SaeSessionType /\ SaeSessionTrue(made.s) /\ made.s.accepted = saeStation.accepted
    BY <2>1, SaeOutputCommitIs DEF SaeInv, SaeTypeOK
  <2>7. saeSent' = saeSent + 1 /\ saeAir' = saeAir \cup {SaeCommit("ap")}
    BY <2>3 DEF SaeSend
  <2>8. SaeCommit("ap").to = "ap" /\ SaeCommit("ap").counter \in Nat /\ SaeCommit("ap").kind # "confirm"
    BY DEF SaeCommit
  <2>9. saeSent = 0 /\ saeSent' \in Nat /\ saeX.retriesUsed \in Nat /\ saeX.retriesUsed <= SaeRetries
    BY <2>3, <2>7 DEF SaeInv, SaeTypeOK, SaeCounted, SaeExchangeType
  <2>10. SaeCounted'
    BY <2>5, <2>7, <2>9, SaeParameters DEF SaeCounted
  <2> QED
    BY <2>3, <2>5, <2>6, <2>7, <2>8, <2>9, <2>10, SaeStationMoves
<1> QED
  BY <1>1, <1>2

\* check_time() names an error or none.
LEMMA SaeTimeErrorIs ==
  ASSUME SaeInv, NEW now \in Nat, saeX.state # "READY", ~(now < saeX.lastMs)
  PROVE  SaeTimeError(now) \in SaeErrors
<1>1. now >= saeX.lastMs
  BY DEF SaeInv, SaeTypeOK, SaeExchangeType
<1>2. CASE saeX.state \in SaeWaiting /\ now >= saeX.deadlineMs
  BY <1>1, <1>2 DEF SaeTimeError, SaeErrors
<1>3. CASE ~(saeX.state \in SaeWaiting /\ now >= saeX.deadlineMs)
  BY <1>1, <1>3 DEF SaeTimeError, SaeErrors
<1> QED
  BY <1>2, <1>3

\* A call that comes too late or out of turn.
LEMMA SaeCheckTimeFailsKeeps ==
  ASSUME SaeInv, NEW now \in Nat, SaeCheckTimeFails(now)
  PROVE  SaeInv'
<1>1. PICK why : why = SaeTimeError(now)
  OBVIOUS
<1>2. why \in SaeErrors
  <2>1. CASE saeX.state = "READY"
    BY <1>1, <2>1 DEF SaeTimeError, SaeErrors
  <2>2. CASE saeX.state # "READY" /\ now < saeX.lastMs
    BY <1>1, <2>2 DEF SaeTimeError, SaeErrors
  <2>3. CASE saeX.state # "READY" /\ ~(now < saeX.lastMs)
    BY <1>1, <2>3, SaeTimeErrorIs
  <2> QED
    BY <2>1, <2>2, <2>3
<1>3. SaeFail(why) /\ UNCHANGED <<saeAccessPoint, saeNow, saeSamePassword>>
  BY <1>1 DEF SaeCheckTimeFails
<1> QED
  BY <1>2, <1>3, SaeFailKeeps

\* A call that only records the time.
LEMMA SaeNotedKeeps ==
  ASSUME SaeInv, NEW now \in Nat, saeX' = [saeX EXCEPT !.lastMs = now], SaeSendNothing,
         UNCHANGED <<saeStation, saeAccessPoint, saeNow, saeSamePassword>>
  PROVE  SaeInv'
<1>1. saeX' \in SaeExchangeType /\ saeX'.state = saeX.state /\ saeX'.retriesUsed = saeX.retriesUsed
  BY DEF SaeInv, SaeTypeOK, SaeExchangeType
<1>2. saeSent' = saeSent /\ saeAir' = saeAir /\ saeSent' \in Nat
  BY DEF SaeSendNothing, SaeInv, SaeTypeOK
<1>3. SaeCounted'
  BY <1>1, <1>2 DEF SaeInv, SaeCounted
<1>4. saeStation' \in SaeSessionType /\ SaeSessionTrue(saeStation')
  BY DEF SaeInv, SaeTypeOK
<1>5. saeX'.state = "WAIT_CONFIRM" => saeStation'.sendConfirm # 0
  BY <1>1 DEF SaeInv, SaeConfirming
<1> QED
  BY <1>1, <1>2, <1>3, <1>4, <1>5, SaeStationMoves

\* The peer's Commit.
LEMMA SaeReceivePeerCommitKeeps ==
  ASSUME SaeInv, NEW now \in Nat, NEW m, SaeReceivePeerCommit(m, now)
  PROVE  SaeInv'
<1>0. UNCHANGED <<saeAccessPoint, saeNow, saeSamePassword>> /\ "CRYPTO" \in SaeErrors
  BY DEF SaeReceivePeerCommit, SaeErrors
<1>1. CASE SaeFail("CRYPTO")
  BY <1>0, <1>1, SaeFailKeeps
<1>2. CASE ~SaeFail("CRYPTO")
  <2>1. PICK got : got = SaeReceiveCommit(saeStation, TRUE)
    OBVIOUS
  <2>2. PICK made : made = SaeOutputConfirm(got.s)
    OBVIOUS
  <2>3. PICK x : x = [saeX EXCEPT !.state = "WAIT_CONFIRM", !.lastMs = now, !.retriesUsed = 0]
    OBVIOUS
  <2>4. /\ made.ok /\ saeStation' = made.s /\ saeX' = SaeNextRetry(x, now) /\ saeX.state = "WAIT_COMMIT"
        /\ SaeSend(SaeConfirm("ap", made.s.sendConfirm)) /\ UNCHANGED <<saeAccessPoint, saeNow, saeSamePassword>>
    BY <1>2, <2>1, <2>2, <2>3 DEF SaeReceivePeerCommit
  <2>5. x \in SaeExchangeType /\ x.state = "WAIT_CONFIRM" /\ x.retriesUsed = 0
    BY <2>3 DEF SaeInv, SaeTypeOK, SaeExchangeType
  <2>6. saeX' \in SaeExchangeType /\ saeX'.state = "WAIT_CONFIRM" /\ saeX'.retriesUsed = 0
    BY <2>4, <2>5, SaeNextRetryIs
  <2>7. got.s \in SaeSessionType /\ SaeSessionTrue(got.s) /\ got.s.accepted = saeStation.accepted
    BY <2>1, SaeReceiveCommitIs DEF SaeInv, SaeTypeOK
  <2>8. /\ made.s \in SaeSessionType /\ SaeSessionTrue(made.s) /\ made.s.accepted = saeStation.accepted
        /\ made.s.sendConfirm # 0
    BY <2>2, <2>4, <2>7, SaeOutputConfirmIs
  <2>9. PICK c : c = SaeConfirm("ap", made.s.sendConfirm)
    OBVIOUS
  <2>10. c.to = "ap" /\ c.counter \in Nat /\ c.counter # 0
    BY <2>8, <2>9 DEF SaeConfirm, SaeSessionType
  <2>11. saeSent' = saeSent + 1 /\ saeAir' = saeAir \cup {c}
    BY <2>4, <2>9 DEF SaeSend
  <2>12. /\ saeSent \in Nat /\ saeSent' \in Nat /\ saeX.retriesUsed \in Nat /\ saeX.retriesUsed <= SaeRetries
         /\ saeSent <= 1 + saeX.retriesUsed
    BY <2>4, <2>11 DEF SaeInv, SaeTypeOK, SaeCounted, SaeExchangeType
  <2>13. SaeCounted'
    BY <2>6, <2>11, <2>12, SaeParameters DEF SaeCounted
  <2> QED
    BY <2>4, <2>6, <2>8, <2>10, <2>11, <2>12, <2>13, SaeStationMoves
<1> QED
  BY <1>1, <1>2

\* A frame that ends the exchange.
LEMMA SaeReceiveRejectedKeeps ==
  ASSUME SaeInv, NEW now \in Nat, NEW m, SaeReceiveRejected(m, now)
  PROVE  SaeInv'
<1>1. UNCHANGED <<saeAccessPoint, saeNow, saeSamePassword>> /\ "PROTOCOL" \in SaeErrors /\ "SEQUENCE" \in SaeErrors
  BY DEF SaeReceiveRejected, SaeErrors
<1>2. SaeFail("PROTOCOL") \/ SaeFail("SEQUENCE")
  BY DEF SaeReceiveRejected
<1> QED
  BY <1>1, <1>2, SaeFailKeeps

\* The peer's Confirm: one that is taken was sent by an access point that has accepted.
LEMMA SaeReceivePeerConfirmKeeps ==
  ASSUME SaeInv, NEW now \in Nat, NEW m \in {f \in saeAir : f.to = "sta"} \cup SaeOddFrames,
         SaeReceivePeerConfirm(m, now)
  PROVE  SaeInv'
<1>0. UNCHANGED <<saeAccessPoint, saeNow, saeSamePassword>> /\ "CRYPTO" \in SaeErrors
  BY DEF SaeReceivePeerConfirm, SaeErrors
<1>1. CASE SaeFail("CRYPTO")
  BY <1>0, <1>1, SaeFailKeeps
<1>2. CASE ~SaeFail("CRYPTO")
  <2>1. PICK got : got = SaeReceiveConfirm(saeStation, m.counter, saeSamePassword)
    OBVIOUS
  <2>2. /\ got.ok /\ saeStation' = got.s /\ saeX' = [saeX EXCEPT !.state = "ACCEPTED", !.lastMs = now]
        /\ SaeSendNothing /\ m.kind = "confirm"
    BY <1>2, <2>1 DEF SaeReceivePeerConfirm
  <2>3. m \in saeAir /\ m.to = "sta"
    BY <2>2 DEF SaeOddFrames
  <2>4. m.counter \in Nat /\ (m.counter # 0 /\ saeSamePassword => saeAccessPoint.accepted)
    BY <2>2, <2>3 DEF SaeInv, SaeAirTrue
  <2>5. got.s \in SaeSessionType /\ SaeSessionTrue(got.s) /\ saeSamePassword /\ m.counter # 0
    <3>1. saeSamePassword \in BOOLEAN /\ saeStation \in SaeSessionType /\ SaeSessionTrue(saeStation)
      BY DEF SaeInv, SaeTypeOK
    <3> QED
      BY <2>1, <2>2, <2>4, <3>1, SaeReceiveConfirmIs DEF SaeConfirmTaken
  <2>6. saeX' \in SaeExchangeType /\ saeX'.state = "ACCEPTED" /\ saeX'.retriesUsed = saeX.retriesUsed
    BY <2>2 DEF SaeInv, SaeTypeOK, SaeExchangeType
  <2>7. saeSent' = saeSent /\ saeAir' = saeAir /\ saeSent' \in Nat
    BY <2>2 DEF SaeSendNothing, SaeInv, SaeTypeOK
  <2>8. SaeCounted'
    BY <2>6, <2>7 DEF SaeInv, SaeCounted
  <2>9. saeStation' \in SaeSessionType /\ SaeSessionTrue(saeStation')
    BY <2>2, <2>5
  <2>10. saeSamePassword /\ saeAccessPoint.accepted
    BY <2>4, <2>5
  <2> QED
    BY <1>0, <2>6, <2>7, <2>8, <2>9, <2>10, SaeStationMoves
<1> QED
  BY <1>1, <1>2

\* poll().
LEMMA SaePollKeeps ==
  ASSUME SaeInv, NEW now \in Nat, SaePoll(now)
  PROVE  SaeInv'
<1>0. PICK made : made = IF saeX.state = "WAIT_CONFIRM" THEN SaeOutputConfirm(saeStation).s ELSE saeStation
  OBVIOUS
<1>1. SaePollWith(now, made)
  BY <1>0 DEF SaePoll
<1>2. UNCHANGED <<saeAccessPoint, saeNow, saeSamePassword>> /\ "CRYPTO" \in SaeErrors /\ "RETRIES" \in SaeErrors
  BY <1>1 DEF SaePollWith, SaeErrors
<1>3. CASE SaeFail("CRYPTO") \/ SaeFail("RETRIES")
  BY <1>2, <1>3, SaeFailKeeps
<1>4. CASE ~(SaeFail("CRYPTO") \/ SaeFail("RETRIES"))
  <2>1. PICK x : x = [saeX EXCEPT !.lastMs = now, !.retriesUsed = saeX.retriesUsed + 1]
    OBVIOUS
  <2>2. PICK body : body = IF saeX.state = "WAIT_COMMIT" THEN SaeCommit("ap") ELSE SaeConfirm("ap", made.sendConfirm)
    OBVIOUS
  <2>3. /\ saeX.retriesUsed < SaeRetries /\ saeStation' = made /\ saeX' = SaeNextRetry(x, now)
        /\ SaeSend(body) /\ saeX.state \in SaeWaiting
    BY <1>1, <1>4, <2>1, <2>2 DEF SaePollWith
  <2>4. saeX.retriesUsed \in Nat /\ saeSent \in Nat
    BY DEF SaeInv, SaeTypeOK, SaeExchangeType
  <2>5. x \in SaeExchangeType /\ x.state = saeX.state /\ x.retriesUsed = saeX.retriesUsed + 1
    <3>1. PICK u : u = saeX.retriesUsed + 1
      OBVIOUS
    <3>2. u \in Nat
      BY <2>4, <3>1
    <3>3. x = [saeX EXCEPT !.lastMs = now, !.retriesUsed = u]
      BY <2>1, <3>1
    <3>4. x \in SaeExchangeType /\ x.state = saeX.state /\ x.retriesUsed = u
      BY <3>2, <3>3 DEF SaeInv, SaeTypeOK, SaeExchangeType
    <3> QED
      BY <3>1, <3>4
  <2>6. saeX' \in SaeExchangeType /\ saeX'.state = saeX.state /\ saeX'.retriesUsed = saeX.retriesUsed + 1
    BY <2>3, <2>5, SaeNextRetryIs
  <2>7. saeStation \in SaeSessionType /\ SaeSessionTrue(saeStation)
    BY DEF SaeInv, SaeTypeOK
  <2>8. PICK again : again = SaeOutputConfirm(saeStation)
    OBVIOUS
  <2>9. /\ again.s \in SaeSessionType /\ SaeSessionTrue(again.s) /\ again.s.accepted = saeStation.accepted
        /\ again.ok \in BOOLEAN /\ (again.ok => again.s.sendConfirm # 0) /\ (~again.ok => again.s = saeStation)
    BY <2>7, <2>8, SaeOutputConfirmIs
  <2>10. made \in SaeSessionType /\ SaeSessionTrue(made) /\ made.accepted = saeStation.accepted
    BY <1>0, <2>7, <2>8, <2>9
  <2>11. body.to = "ap" /\ body.counter \in Nat /\ (body.kind = "confirm" => body.counter # 0)
    <3>1. CASE saeX.state = "WAIT_COMMIT"
      BY <2>2, <3>1 DEF SaeCommit
    <3>2. CASE saeX.state = "WAIT_CONFIRM"
      <4>1. made = again.s /\ saeStation.sendConfirm # 0
        BY <1>0, <2>8, <3>2 DEF SaeInv, SaeConfirming
      <4>2. made.sendConfirm # 0 /\ made.sendConfirm \in Nat
        BY <2>9, <2>10, <4>1 DEF SaeSessionType
      <4>3. body = SaeConfirm("ap", made.sendConfirm)
        BY <2>2, <3>2
      <4> QED
        BY <4>2, <4>3 DEF SaeConfirm
    <3> QED
      BY <2>3, <3>1, <3>2 DEF SaeWaiting
  <2>12. saeSent' = saeSent + 1 /\ saeAir' = saeAir \cup {body} /\ saeSent' \in Nat
    BY <2>3, <2>4 DEF SaeSend
  <2>13. SaeCounted'
    BY <2>3, <2>4, <2>6, <2>12, SaeParameters DEF SaeInv, SaeCounted, SaeWaiting
  <2>14. saeX'.state = "WAIT_CONFIRM" => saeStation'.sendConfirm # 0
    BY <1>0, <2>3, <2>6, <2>8, <2>9 DEF SaeInv, SaeConfirming
  <2> QED
    BY <1>2, <2>3, <2>6, <2>10, <2>11, <2>12, <2>13, <2>14, SaeStationMoves
<1> QED
  BY <1>3, <1>4

\* cancel().
LEMMA SaeCancelKeeps ==
  ASSUME SaeInv, SaeCancel
  PROVE  SaeInv'
<1>1. saeX' \in SaeExchangeType /\ saeX'.state = "CANCELLED" /\ saeX'.retriesUsed = saeX.retriesUsed
  <2>1. saeX' = [saeX EXCEPT !.state = "CANCELLED", !.error = "CANCELLED"] /\ "CANCELLED" \in SaeErrors
    BY DEF SaeCancel, SaeErrors
  <2> QED
    BY <2>1 DEF SaeInv, SaeTypeOK, SaeExchangeType
<1>2. saeSent' = saeSent /\ saeAir' = saeAir /\ saeStation' = SaeNoSession /\ saeSent' \in Nat
  BY DEF SaeCancel, SaeSendNothing, SaeInv, SaeTypeOK
<1>3. SaeCounted'
  BY <1>1, <1>2 DEF SaeInv, SaeCounted
<1>4. UNCHANGED <<saeAccessPoint, saeNow, saeSamePassword>>
  BY DEF SaeCancel
<1> QED
  BY <1>1, <1>2, <1>3, <1>4, SaeNoSessionIs, SaeStationMoves

----------------------------------------------------------------------------
(* The access point and the clock. *)

\* A step of the access point: it does not take back an acceptance, and a Confirm it
\* sends to a station with the same password it sends when it has accepted.
LEMMA SaePeerMoves ==
  ASSUME SaeInv, saeAccessPoint' \in SaeSessionType, SaeSessionTrue(saeAccessPoint'),
         saeAccessPoint.accepted => saeAccessPoint'.accepted,
         \/ saeAir' = saeAir
         \/ \E m : /\ saeAir' = saeAir \cup {m} /\ m.to = "sta" /\ m.counter \in Nat
                   /\ m.kind = "confirm" /\ m.counter # 0 /\ saeSamePassword => saeAccessPoint'.accepted,
         UNCHANGED <<saeX, saeStation, saeNow, saeSamePassword, saeSent>>
  PROVE  SaeInv'
<1>1. SaeAirTrue'
  <2>1. CASE saeAir' = saeAir
    BY <2>1 DEF SaeInv, SaeAirTrue
  <2>2. CASE \E m : /\ saeAir' = saeAir \cup {m} /\ m.to = "sta" /\ m.counter \in Nat
                    /\ m.kind = "confirm" /\ m.counter # 0 /\ saeSamePassword => saeAccessPoint'.accepted
    BY <2>2 DEF SaeInv, SaeAirTrue
  <2> QED
    BY <2>1, <2>2
<1>2. SaeBothAccept' /\ SaeConfirming'
  BY DEF SaeInv, SaeBothAccept, SaeConfirming
<1>3. SaeTypeOK' /\ SaeCounted'
  BY DEF SaeInv, SaeTypeOK, SaeCounted
<1>4. SaeSessionTrue(saeStation')
  BY DEF SaeInv
<1> QED
  BY <1>1, <1>2, <1>3, <1>4 DEF SaeInv, SaeSessionTrue

\* The access point takes a Commit and answers it.
LEMMA SaePeerAnswersCommitKeeps ==
  ASSUME SaeInv, NEW m \in saeAir, SaePeerAnswersCommit(m)
  PROVE  SaeInv'
<1>1. PICK got : got = SaeReceiveCommit(saeAccessPoint, TRUE)
  OBVIOUS
<1>2. saeAccessPoint' = got.s /\ saeAir' = saeAir \cup {SaeCommit("sta")}
  BY <1>1 DEF SaePeerAnswersCommit
<1>3. UNCHANGED <<saeX, saeStation, saeNow, saeSamePassword, saeSent>>
  BY DEF SaePeerAnswersCommit
<1>4. got.s \in SaeSessionType /\ SaeSessionTrue(got.s) /\ got.s.accepted = saeAccessPoint.accepted
  BY <1>1, SaeReceiveCommitIs DEF SaeInv, SaeTypeOK
<1>5. SaeCommit("sta").to = "sta" /\ SaeCommit("sta").counter \in Nat /\ SaeCommit("sta").kind # "confirm"
  BY DEF SaeCommit
<1>6. saeAccessPoint' \in SaeSessionType /\ SaeSessionTrue(saeAccessPoint')
  BY <1>2, <1>4
<1>7. saeAccessPoint.accepted => saeAccessPoint'.accepted
  BY <1>2, <1>4
<1> QED
  BY <1>2, <1>3, <1>5, <1>6, <1>7, SaePeerMoves

\* The access point takes a Confirm and answers it.  Before it has accepted it answers
\* also a Confirm it refuses, but that one either carries no counter or was computed
\* from another password.
LEMMA SaePeerAnswersConfirmKeeps ==
  ASSUME SaeInv, NEW m \in saeAir, SaePeerAnswersConfirm(m)
  PROVE  SaeInv'
<1>1. PICK made : made = SaeOutputConfirm(saeAccessPoint)
  OBVIOUS
<1>2. PICK ready : ready = IF saeAccessPoint.accepted THEN saeAccessPoint ELSE made.s
  OBVIOUS
<1>3. PICK taken : taken = SaeReceiveConfirm(ready, m.counter, saeSamePassword)
  OBVIOUS
<1>4. PICK more : more = SaeOutputConfirm(taken.s)
  OBVIOUS
<1>5. PICK answer : answer = IF saeAccessPoint.accepted THEN more.s ELSE taken.s
  OBVIOUS
<1>6. /\ m.to = "ap" /\ m.kind = "confirm" /\ ~saeAccessPoint.failed
      /\ saeAccessPoint' = (IF taken.ok THEN answer ELSE taken.s)
      /\ saeAir' = (IF taken.ok \/ ~saeAccessPoint.accepted
                    THEN saeAir \cup {SaeConfirm("sta", answer.sendConfirm)} ELSE saeAir)
  BY <1>1, <1>2, <1>3, <1>4, <1>5 DEF SaePeerAnswersConfirm
<1>7. UNCHANGED <<saeX, saeStation, saeNow, saeSamePassword, saeSent>>
  BY DEF SaePeerAnswersConfirm
<1>8. saeAccessPoint \in SaeSessionType /\ SaeSessionTrue(saeAccessPoint) /\ saeSamePassword \in BOOLEAN
  BY DEF SaeInv, SaeTypeOK
<1>9. m.counter \in Nat /\ m.counter # 0
  BY <1>6 DEF SaeInv, SaeAirTrue
<1>10. /\ made.s \in SaeSessionType /\ SaeSessionTrue(made.s) /\ made.s.accepted = saeAccessPoint.accepted
       /\ made.s.failed = saeAccessPoint.failed /\ made.s.peerCommit = saeAccessPoint.peerCommit
       /\ (made.ok => made.s.confirmSent) /\ (saeAccessPoint.peerCommit => made.ok)
  BY <1>1, <1>6, <1>8, SaeOutputConfirmIs
<1>11. /\ ready \in SaeSessionType /\ SaeSessionTrue(ready) /\ ready.accepted = saeAccessPoint.accepted
       /\ ~saeAccessPoint.accepted => ready = made.s
  BY <1>2, <1>8, <1>10
<1>12a. SaeConfirmTaken(ready, m.counter, saeSamePassword, taken)
  BY <1>3, <1>8, <1>9, <1>11, SaeReceiveConfirmIs
<1>12. /\ taken.s \in SaeSessionType /\ SaeSessionTrue(taken.s) /\ (ready.accepted => taken.s.accepted)
       /\ (taken.ok => taken.s.accepted) /\ taken.s.sendConfirm = ready.sendConfirm /\ taken.ok \in BOOLEAN
       /\ ~ready.failed /\ ready.peerCommit /\ ready.confirmSent /\ saeSamePassword /\ ~ready.accepted => taken.ok
  BY <1>9, <1>12a DEF SaeConfirmTaken
<1>13. more.s \in SaeSessionType /\ SaeSessionTrue(more.s) /\ more.s.accepted = taken.s.accepted
  BY <1>4, <1>12, SaeOutputConfirmIs
<1>14. answer \in SaeSessionType /\ SaeSessionTrue(answer) /\ answer.accepted = taken.s.accepted
  BY <1>5, <1>12, <1>13
<1>15. /\ saeAccessPoint' \in SaeSessionType /\ SaeSessionTrue(saeAccessPoint')
       /\ saeAccessPoint'.accepted = taken.s.accepted
  BY <1>6, <1>12, <1>14
<1>16. saeAccessPoint.accepted => saeAccessPoint'.accepted
  BY <1>11, <1>12, <1>15
<1>17. PICK c : c = SaeConfirm("sta", answer.sendConfirm)
  OBVIOUS
<1>18. c.to = "sta" /\ c.kind = "confirm" /\ c.counter = answer.sendConfirm /\ answer.sendConfirm \in Nat
  BY <1>14, <1>17 DEF SaeConfirm, SaeSessionType
<1>19. answer.sendConfirm # 0 /\ saeSamePassword => saeAccessPoint'.accepted
  <2>1. CASE saeAccessPoint.accepted
    BY <1>16, <2>1
  <2>2. CASE ~saeAccessPoint.accepted /\ saeAccessPoint.peerCommit
    BY <1>6, <1>10, <1>11, <1>12, <1>15, <2>2
  <2>3. CASE ~saeAccessPoint.accepted /\ ~saeAccessPoint.peerCommit
    <3>1. answer.sendConfirm = made.s.sendConfirm
      BY <1>5, <1>11, <1>12, <2>3
    <3>2. made.s.sendConfirm = 0
      BY <1>10, <2>3 DEF SaeSessionTrue
    <3> QED
      BY <3>1, <3>2
  <2> QED
    BY <2>1, <2>2, <2>3
<1>20. saeAir' = saeAir \/ saeAir' = saeAir \cup {c}
  BY <1>6, <1>17
<1>21. \/ saeAir' = saeAir
       \/ \E f : /\ saeAir' = saeAir \cup {f} /\ f.to = "sta" /\ f.counter \in Nat
                 /\ f.kind = "confirm" /\ f.counter # 0 /\ saeSamePassword => saeAccessPoint'.accepted
  BY <1>18, <1>19, <1>20
<1> QED
  BY <1>7, <1>15, <1>16, <1>21, SaePeerMoves

\* The clock.
LEMMA SaeTickKeeps ==
  ASSUME SaeInv, SaeTick
  PROVE  SaeInv'
<1>1. SaeTypeOK'
  BY DEF SaeTick, SaeInv, SaeTypeOK
<1>2. SaeAirTrue' /\ SaeBothAccept' /\ SaeCounted' /\ SaeConfirming'
  BY DEF SaeTick, SaeInv, SaeAirTrue, SaeBothAccept, SaeCounted, SaeConfirming
<1>3. SaeSessionTrue(saeStation') /\ SaeSessionTrue(saeAccessPoint')
  BY DEF SaeTick, SaeInv
<1> QED
  BY <1>1, <1>2, <1>3 DEF SaeInv, SaeSessionTrue

\* The exchange begins with two new sessions, the access point's with its Commit made.
LEMMA SaeStarts == SaeInit => SaeInv
<1>1. SUFFICES ASSUME SaeInit PROVE SaeInv
  OBVIOUS
<1>2. SaeNewSession \in SaeSessionType /\ SaeSessionTrue(SaeNewSession) /\ ~SaeNewSession.accepted
  BY DEF SaeNewSession, SaeSessionType, SaeSessionTrue
<1>3. PICK made : made = SaeOutputCommit(SaeNewSession)
  OBVIOUS
<1>4. made.s \in SaeSessionType /\ SaeSessionTrue(made.s)
  BY <1>2, <1>3, SaeOutputCommitIs
<1>5. saeAccessPoint = made.s /\ saeStation = SaeNewSession /\ saeAir = {} /\ saeSent = 0 /\ saeNow = 0
  BY <1>1, <1>3 DEF SaeInit
<1>6. saeX \in SaeExchangeType /\ saeX.retriesUsed = 0 /\ saeX.state = "READY"
  BY <1>1 DEF SaeInit, SaeExchangeType, SaeErrors
<1>7. SaeTypeOK
  BY <1>1, <1>2, <1>4, <1>5, <1>6 DEF SaeInit, SaeTypeOK
<1>8. SaeAirTrue /\ SaeBothAccept /\ SaeCounted /\ SaeConfirming
  BY <1>2, <1>5, <1>6, SaeParameters DEF SaeAirTrue, SaeBothAccept, SaeCounted, SaeConfirming
<1> QED
  BY <1>2, <1>4, <1>5, <1>7, <1>8 DEF SaeInv

\* Every step of the exchange, the access point and the clock keeps the invariant.
LEMMA SaeStep == SaeInv /\ SaeNext => SaeInv'
<1> SUFFICES ASSUME SaeInv, SaeNext PROVE SaeInv'
  OBVIOUS
<1>1. \A now \in SaeCallTimes : now \in Nat
  BY DEF SaeCallTimes
<1>2. ASSUME NEW now \in SaeCallTimes, SaeStart(now) \/ SaeCheckTimeFails(now) \/ SaePoll(now)
      PROVE  SaeInv'
  BY <1>1, <1>2, SaeStartKeeps, SaeCheckTimeFailsKeeps, SaePollKeeps
<1>3. ASSUME NEW now \in SaeCallTimes, SaePollIdle(now)
      PROVE  SaeInv'
  BY <1>1, <1>3, SaeNotedKeeps DEF SaePollIdle
<1>4. ASSUME NEW now \in SaeCallTimes, NEW m \in {f \in saeAir : f.to = "sta"} \cup SaeOddFrames,
             SaeReceiveIgnored(m, now)
      PROVE  SaeInv'
  BY <1>1, <1>4, SaeNotedKeeps DEF SaeReceiveIgnored
<1>5. ASSUME NEW now \in SaeCallTimes, NEW m \in {f \in saeAir : f.to = "sta"} \cup SaeOddFrames,
             SaeReceiveRejected(m, now) \/ SaeReceivePeerCommit(m, now) \/ SaeReceivePeerConfirm(m, now)
      PROVE  SaeInv'
  BY <1>1, <1>5, SaeReceiveRejectedKeeps, SaeReceivePeerCommitKeeps, SaeReceivePeerConfirmKeeps
<1>6. ASSUME NEW m \in saeAir, SaePeerAnswersCommit(m) \/ SaePeerAnswersConfirm(m)
      PROVE  SaeInv'
  BY <1>6, SaePeerAnswersCommitKeeps, SaePeerAnswersConfirmKeeps
<1> QED
  BY <1>2, <1>3, <1>4, <1>5, <1>6, SaeCancelKeeps, SaeTickKeeps DEF SaeNext

\* What export() hands out was confirmed by both ends, and few bodies were sent.
LEMMA SaeSafe == SaeInv => SaeKeyConfirmed /\ SaeBoundedTransmissions
<1> SUFFICES ASSUME SaeInv PROVE SaeKeyConfirmed /\ SaeBoundedTransmissions
  OBVIOUS
<1>1. SaeKeyConfirmed
  BY DEF SaeInv, SaeKeyConfirmed, SaeExportable, SaeBothAccept, SaeSessionTrue
<1>2. SaeBoundedTransmissions
  BY DEF SaeInv, SaeCounted, SaeBoundedTransmissions
<1> QED
  BY <1>1, <1>2

----------------------------------------------------------------------------
(* The OWE key agreement *)

\* The key a side makes of its own value and a peer's.
OweKeyOf(s, peer) == [secret |-> {s, peer}, salt |-> OweSalt(s, peer)]

OweKeys == {OweNoKey} \cup {OweKeyOf(s, peer) : s \in OweSide, peer \in OweSide \cup {OweStranger}}

OweSessionType ==
  [live : BOOLEAN, dh : BOOLEAN, sent : BOOLEAN, derived : BOOLEAN, failed : BOOLEAN,
   key : OweKeys]

\* Only values of the two sides are on the air; a key that is exported is made of the
\* side's own value and another's.
OweInv ==
  /\ oweSession \in [OweSide -> OweSessionType]
  /\ oweAir \subseteq OweSide
  /\ \A s \in OweSide : oweSession[s].derived =>
       \E peer \in (OweSide \cup {OweStranger}) \ {s} : oweSession[s].key = OweKeyOf(s, peer)

\* create() on both sides.
LEMMA OweStarts == OweInit => OweInv
<1>1. OweNoKey \in OweKeys
  BY DEF OweKeys
<1> QED
  BY <1>1 DEF OweInit, OweInv, OweNew, OweSessionType

\* A step that gives one side a new session.
LEMMA OweMoves ==
  ASSUME OweInv, NEW s \in OweSide, NEW r \in OweSessionType, OweUpdate(s, r), oweAir' \subseteq OweSide,
         r.derived => \E peer \in (OweSide \cup {OweStranger}) \ {s} : r.key = OweKeyOf(s, peer)
  PROVE  OweInv'
  BY DEF OweInv, OweUpdate

\* fail().
LEMMA OweFailedIs ==
  ASSUME OweInv, NEW s \in OweSide
  PROVE  OweFailed(s) \in OweSessionType /\ ~OweFailed(s).derived
<1>1. oweSession[s] \in OweSessionType
  BY DEF OweInv
<1>2. PICK u : u = oweSession[s]
  OBVIOUS
<1>3. [u EXCEPT !.failed = TRUE, !.derived = FALSE, !.dh = FALSE, !.key = OweNoKey] \in OweSessionType
  <2>1. OweNoKey \in OweKeys
    BY DEF OweKeys
  <2> QED
    BY <1>1, <1>2, <2>1 DEF OweSessionType
<1>4. ~[u EXCEPT !.failed = TRUE, !.derived = FALSE, !.dh = FALSE, !.key = OweNoKey].derived
  BY <1>1, <1>2 DEF OweSessionType
<1> QED
  BY <1>2, <1>3, <1>4 DEF OweFailed

\* Every step of the two sides.
LEMMA OweStep == OweInv /\ OweNext => OweInv'
<1> SUFFICES ASSUME OweInv, OweNext PROVE OweInv'
  OBVIOUS
<1>1. PICK s \in OweSide :
        \/ OweElement(s) \/ OweDestroy(s)
        \/ \E peer \in oweAir \cup {OweStranger}, valid \in BOOLEAN : OweReceive(s, peer, valid)
  BY DEF OweNext
<1>2. oweSession[s] \in OweSessionType /\ oweAir \subseteq OweSide
  BY DEF OweInv
<1>3. CASE OweElement(s)
  <2>1. PICK r : r = [oweSession[s] EXCEPT !.sent = TRUE]
    OBVIOUS
  <2>2. r \in OweSessionType /\ r.derived = oweSession[s].derived /\ r.key = oweSession[s].key
    BY <1>2, <2>1 DEF OweSessionType
  <2>3. OweUpdate(s, r) /\ oweAir' \subseteq OweSide
    BY <1>2, <1>3, <2>1 DEF OweElement
  <2>4. r.derived => \E peer \in (OweSide \cup {OweStranger}) \ {s} : r.key = OweKeyOf(s, peer)
    BY <2>2 DEF OweInv
  <2> QED
    BY <2>2, <2>3, <2>4, OweMoves
<1>4. CASE OweDestroy(s)
  <2>1. PICK r : r = [OweFailed(s) EXCEPT !.live = FALSE]
    OBVIOUS
  <2>2. r \in OweSessionType /\ ~r.derived
    BY <2>1, OweFailedIs DEF OweSessionType
  <2>3. OweUpdate(s, r) /\ oweAir' \subseteq OweSide
    BY <1>2, <1>4, <2>1 DEF OweDestroy
  <2> QED
    BY <2>2, <2>3, OweMoves
<1>5. ASSUME NEW peer \in oweAir \cup {OweStranger}, NEW valid \in BOOLEAN, OweReceive(s, peer, valid)
      PROVE  OweInv'
  <2>1. oweAir' \subseteq OweSide
    BY <1>2, <1>5 DEF OweReceive
  <2>2. CASE OweUpdate(s, OweFailed(s))
    <3>1. PICK r : r = OweFailed(s)
      OBVIOUS
    <3> QED
      BY <2>1, <2>2, <3>1, OweFailedIs, OweMoves
  <2>3. CASE ~OweUpdate(s, OweFailed(s))
    <3>1. PICK k : k = OweKeyOf(s, peer)
      OBVIOUS
    <3>2. PICK r : r = [oweSession[s] EXCEPT !.derived = TRUE, !.dh = FALSE, !.key = k]
      OBVIOUS
    <3>3. peer # s /\ OweUpdate(s, r)
      BY <1>5, <2>3, <3>1, <3>2 DEF OweReceive, OweKeyOf
    <3>4. peer \in (OweSide \cup {OweStranger}) \ {s}
      BY <1>2, <3>3
    <3>5. k \in OweKeys
      BY <3>1, <3>4 DEF OweKeys
    <3>6. r \in OweSessionType /\ r.key = k
      BY <1>2, <3>2, <3>5 DEF OweSessionType
    <3> QED
      BY <2>1, <3>1, <3>3, <3>4, <3>6, OweMoves
  <2> QED
    BY <2>2, <2>3
<1> QED
  BY <1>1, <1>3, <1>4, <1>5

\* Two sides that made their keys of each other's value made the same key.
LEMMA OweSafe == OweInv => OweKeysAgree
<1> SUFFICES ASSUME OweInv PROVE OweKeysAgree
  OBVIOUS
<1>1. \A s \in OweSide : OweExports(s) => \E peer \in (OweSide \cup {OweStranger}) \ {s} :
                           oweSession[s].key = OweKeyOf(s, peer)
  BY DEF OweInv, OweExports
<1>2. \A s, peer : OweKeyOf(s, peer).secret = {s, peer}
  BY DEF OweKeyOf
<1>3. ASSUME \A s \in OweSide : OweExports(s) /\ oweSession[s].key.secret = OweSide
      PROVE  oweSession["station"].key = oweSession["ap"].key
  <2>1. PICK p \in (OweSide \cup {OweStranger}) \ {"station"} : oweSession["station"].key = OweKeyOf("station", p)
    BY <1>1, <1>3 DEF OweSide
  <2>2. PICK q \in (OweSide \cup {OweStranger}) \ {"ap"} : oweSession["ap"].key = OweKeyOf("ap", q)
    BY <1>1, <1>3 DEF OweSide
  <2>3. {"station", p} = {"station", "ap"} /\ {"ap", q} = {"station", "ap"}
    BY <1>2, <1>3, <2>1, <2>2 DEF OweSide
  <2>4. p = "ap" /\ q = "station"
    BY <2>3
  <2>5. OweKeyOf("station", "ap") = OweKeyOf("ap", "station")
    <3>1. {"station", "ap"} = {"ap", "station"}
      OBVIOUS
    <3>2. OweSalt("station", "ap") = OweSalt("ap", "station")
      BY DEF OweSalt
    <3> QED
      BY <3>1, <3>2 DEF OweKeyOf
  <2> QED
    BY <2>1, <2>2, <2>4, <2>5
<1> QED
  BY <1>1, <1>2, <1>3 DEF OweKeysAgree

\* A step of another part changes nothing here.
LEMMA SaeStutters == SaeInv /\ UNCHANGED saeVars => SaeInv'
<1> SUFFICES ASSUME SaeInv, UNCHANGED saeVars PROVE SaeInv'
  OBVIOUS
<1>1. /\ saeX' = saeX /\ saeStation' = saeStation /\ saeAccessPoint' = saeAccessPoint /\ saeAir' = saeAir
      /\ saeNow' = saeNow /\ saeSamePassword' = saeSamePassword /\ saeSent' = saeSent
  BY DEF saeVars
<1> QED
  BY <1>1 DEF SaeInv, SaeTypeOK, SaeSessionTrue, SaeAirTrue, SaeBothAccept, SaeCounted, SaeConfirming

\* The same for the key agreement.
LEMMA OweStutters == OweInv /\ UNCHANGED oweVars => OweInv'
BY DEF OweInv, oweVars

----------------------------------------------------------------------------
(* The counters of the Confirms. *)

\* Before the station has the peer's Commit there is no Confirm; then its counter is
\* the highest one on the air, and not below the one the access point took last.
SaeNumbered ==
  /\ saeX.state \in {"READY", "WAIT_COMMIT"} =>
       /\ saeStation.sendConfirm = 0 /\ ~saeStation.accepted /\ saeAccessPoint.peerConfirm = 0
       /\ \A m \in saeAir : ~(m.to = "ap" /\ m.kind = "confirm")
  /\ saeX.state = "WAIT_CONFIRM" =>
       /\ saeStation.peerCommit /\ ~saeStation.failed /\ ~saeStation.accepted
       /\ saeStation.sendConfirm <= 1 + saeX.retriesUsed
       /\ saeAccessPoint.peerConfirm <= saeStation.sendConfirm
       /\ \A m \in saeAir : m.to = "ap" /\ m.kind = "confirm" => m.counter <= saeStation.sendConfirm

\* A Confirm goes out with a counter the access point has not taken.
SaeConfirmAhead ==
  saeSent' > saeSent /\ saeX'.state = "WAIT_CONFIRM" => saeStation'.sendConfirm > saeAccessPoint.peerConfirm

\* A step that ends the exchange or accepts needs no counters.
LEMMA SaeOverIsNumbered ==
  ASSUME saeX'.state \in {"FAILED", "CANCELLED", "ACCEPTED"}
  PROVE  SaeNumbered' /\ SaeConfirmAhead
BY DEF SaeNumbered, SaeConfirmAhead

\* fail() ends it.
LEMMA SaeFailIsOver ==
  ASSUME SaeInv, NEW why, SaeFail(why)
  PROVE  saeX'.state = "FAILED"
BY DEF SaeFail, SaeInv, SaeTypeOK, SaeExchangeType

\* A step that leaves the sessions and the air alone.
LEMMA SaeNumberedStays ==
  ASSUME SaeInv, SaeNumbered, saeX' \in SaeExchangeType, saeX'.state = saeX.state,
         saeX'.retriesUsed = saeX.retriesUsed,
         UNCHANGED <<saeStation, saeAccessPoint, saeAir, saeSent>>
  PROVE  SaeNumbered' /\ SaeConfirmAhead
<1>1. saeSent \in Nat /\ saeSent' = saeSent
  BY DEF SaeInv, SaeTypeOK
<1>2. SaeNumbered'
  BY DEF SaeNumbered
<1> QED
  BY <1>1, <1>2 DEF SaeConfirmAhead

\* A call that records the time.
LEMMA SaeNotedIsNumbered ==
  ASSUME SaeInv, SaeNumbered, NEW now \in Nat, saeX' = [saeX EXCEPT !.lastMs = now], SaeSendNothing,
         UNCHANGED <<saeStation, saeAccessPoint, saeNow, saeSamePassword>>
  PROVE  SaeNumbered' /\ SaeConfirmAhead
<1>1. saeX' \in SaeExchangeType /\ saeX'.state = saeX.state /\ saeX'.retriesUsed = saeX.retriesUsed
  BY DEF SaeInv, SaeTypeOK, SaeExchangeType
<1> QED
  BY <1>1, SaeNumberedStays DEF SaeSendNothing

\* start() sends the first Commit.
LEMMA SaeStartIsNumbered ==
  ASSUME SaeInv, SaeNumbered, NEW now \in Nat, SaeStart(now)
  PROVE  SaeNumbered' /\ SaeConfirmAhead
<1>1. CASE SaeFail("CLOCK") \/ SaeFail("CRYPTO")
  BY <1>1, SaeFailIsOver, SaeOverIsNumbered
<1>2. CASE ~(SaeFail("CLOCK") \/ SaeFail("CRYPTO"))
  <2>1. PICK made : made = SaeOutputCommit(saeStation)
    OBVIOUS
  <2>2. PICK x : x = [saeX EXCEPT !.state = "WAIT_COMMIT", !.lastMs = now, !.deadlineMs = now + SaeTimeoutMs]
    OBVIOUS
  <2>3. /\ saeStation' = made.s /\ saeX' = SaeNextRetry(x, now) /\ saeX.state = "READY"
        /\ saeAir' = saeAir \cup {SaeCommit("ap")} /\ saeAccessPoint' = saeAccessPoint
    BY <1>2, <2>1, <2>2 DEF SaeStart, SaeSend
  <2>4. x.state = "WAIT_COMMIT" /\ saeX'.state = x.state
    BY <2>2, <2>3 DEF SaeInv, SaeTypeOK, SaeExchangeType, SaeNextRetry
  <2>5. made.s.sendConfirm = saeStation.sendConfirm /\ made.s.accepted = saeStation.accepted
    BY <2>1 DEF SaeOutputCommit, SaeSessionRefuse, SaeInv, SaeTypeOK, SaeSessionType
  <2>6. SaeCommit("ap").kind # "confirm"
    BY DEF SaeCommit
  <2>7. SaeNumbered'
    BY <2>3, <2>4, <2>5, <2>6 DEF SaeNumbered
  <2> QED
    BY <2>4, <2>7 DEF SaeConfirmAhead
<1> QED
  BY <1>1, <1>2

\* The peer's Commit comes: the first Confirm has counter one.
LEMMA SaePeerCommitIsNumbered ==
  ASSUME SaeInv, SaeNumbered, SaeInv', NEW now \in Nat, NEW m, SaeReceivePeerCommit(m, now)
  PROVE  SaeNumbered' /\ SaeConfirmAhead
<1>1. CASE SaeFail("CRYPTO")
  BY <1>1, SaeFailIsOver, SaeOverIsNumbered
<1>2. CASE ~SaeFail("CRYPTO")
  <2>1. PICK got : got = SaeReceiveCommit(saeStation, TRUE)
    OBVIOUS
  <2>2. PICK made : made = SaeOutputConfirm(got.s)
    OBVIOUS
  <2>3. PICK x : x = [saeX EXCEPT !.state = "WAIT_CONFIRM", !.lastMs = now, !.retriesUsed = 0]
    OBVIOUS
  <2>4. /\ got.ok /\ made.ok /\ saeStation' = made.s /\ saeX' = SaeNextRetry(x, now) /\ saeX.state = "WAIT_COMMIT"
        /\ saeAir' = saeAir \cup {SaeConfirm("ap", made.s.sendConfirm)} /\ saeAccessPoint' = saeAccessPoint
    BY <1>2, <2>1, <2>2, <2>3 DEF SaeReceivePeerCommit, SaeSend
  <2>5. saeX'.state = "WAIT_CONFIRM" /\ saeX'.retriesUsed = 0
    <3>1. x \in SaeExchangeType /\ x.state = "WAIT_CONFIRM" /\ x.retriesUsed = 0
      BY <2>3 DEF SaeInv, SaeTypeOK, SaeExchangeType
    <3> QED
      BY <2>4, <3>1, SaeNextRetryIs
  <2>6. /\ got.s = [saeStation EXCEPT !.peerCommit = TRUE] /\ saeStation \in SaeSessionType
        /\ saeStation.sendConfirm = 0 /\ ~saeStation.accepted
    BY <2>1, <2>4 DEF SaeReceiveCommit, SaeSessionRefuse, SaeSessionFail, SaeNumbered, SaeInv, SaeTypeOK
  <2>7. /\ got.s \in SaeSessionType /\ got.s.sendConfirm = 0 /\ ~got.s.accepted /\ got.s.peerCommit
    BY <2>6 DEF SaeSessionType
  <2>8. ~got.s.failed /\ made.s = [got.s EXCEPT !.confirmSent = TRUE, !.sendConfirm = SaeNextCounter(got.s)]
    BY <2>2, <2>4, <2>7 DEF SaeOutputConfirm, SaeSessionRefuse, SaeSessionType
  <2>9. SaeNextCounter(got.s) = 1
    BY <2>7 DEF SaeNextCounter, SaeAcceptedCounter
  <2>10. made.s.sendConfirm = 1 /\ made.s.peerCommit /\ ~made.s.failed /\ ~made.s.accepted
    BY <2>7, <2>8, <2>9 DEF SaeSessionType
  <2>11. saeAccessPoint.peerConfirm = 0 /\ \A f \in saeAir : ~(f.to = "ap" /\ f.kind = "confirm")
    BY <2>4 DEF SaeNumbered
  <2>12. SaeConfirm("ap", made.s.sendConfirm).counter = 1
    BY <2>10 DEF SaeConfirm
  <2>13. SaeNumbered'
    BY <2>4, <2>5, <2>10, <2>11, <2>12 DEF SaeNumbered
  <2> QED
    BY <2>4, <2>10, <2>11, <2>13 DEF SaeConfirmAhead
<1> QED
  BY <1>1, <1>2

\* poll() counts up with each Confirm, and stays far below where the counter ends.
LEMMA SaePollIsNumbered ==
  ASSUME SaeInv, SaeNumbered, NEW now \in Nat, SaePoll(now)
  PROVE  SaeNumbered' /\ SaeConfirmAhead
<1>0. PICK made : made = IF saeX.state = "WAIT_CONFIRM" THEN SaeOutputConfirm(saeStation).s ELSE saeStation
  OBVIOUS
<1>1. SaePollWith(now, made)
  BY <1>0 DEF SaePoll
<1>2. CASE SaeFail("CRYPTO") \/ SaeFail("RETRIES")
  BY <1>2, SaeFailIsOver, SaeOverIsNumbered
<1>3. CASE ~(SaeFail("CRYPTO") \/ SaeFail("RETRIES"))
  <2>1. PICK u : u = saeX.retriesUsed + 1
    OBVIOUS
  <2>2. PICK x : x = [saeX EXCEPT !.lastMs = now, !.retriesUsed = u]
    OBVIOUS
  <2>3. PICK body : body = IF saeX.state = "WAIT_COMMIT" THEN SaeCommit("ap") ELSE SaeConfirm("ap", made.sendConfirm)
    OBVIOUS
  <2>4. /\ saeX.retriesUsed < SaeRetries /\ saeStation' = made /\ saeX' = SaeNextRetry(x, now)
        /\ saeAir' = saeAir \cup {body} /\ saeX.state \in SaeWaiting /\ saeAccessPoint' = saeAccessPoint
    BY <1>1, <1>3, <2>1, <2>2, <2>3 DEF SaePollWith, SaeSend
  <2>5. saeX.retriesUsed \in Nat /\ u \in Nat /\ saeStation \in SaeSessionType
    BY <2>1 DEF SaeInv, SaeTypeOK, SaeExchangeType
  <2>6. x \in SaeExchangeType /\ x.state = saeX.state /\ x.retriesUsed = u
    BY <2>2, <2>5 DEF SaeInv, SaeTypeOK, SaeExchangeType
  <2>7. saeX'.state = saeX.state /\ saeX'.retriesUsed = u
    BY <2>4, <2>6, SaeNextRetryIs
  <2>8. CASE saeX.state = "WAIT_COMMIT"
    <3>1. body = SaeCommit("ap") /\ made = saeStation /\ SaeCommit("ap").kind # "confirm"
      BY <1>0, <2>3, <2>8 DEF SaeCommit
    <3>2. SaeNumbered'
      BY <2>4, <2>7, <2>8, <3>1 DEF SaeNumbered
    <3> QED
      BY <2>7, <2>8, <3>2 DEF SaeConfirmAhead
  <2>9. CASE saeX.state = "WAIT_CONFIRM"
    <3>1. /\ saeStation.peerCommit /\ ~saeStation.failed /\ ~saeStation.accepted
          /\ saeStation.sendConfirm <= 1 + saeX.retriesUsed
          /\ saeAccessPoint.peerConfirm <= saeStation.sendConfirm
          /\ \A m \in saeAir : m.to = "ap" /\ m.kind = "confirm" => m.counter <= saeStation.sendConfirm
      BY <2>9 DEF SaeNumbered
    <3>2. SaeRetries \in Nat /\ SaeRetries <= 16
      BY SaeParameters
    <3>3. saeStation.sendConfirm \in Nat /\ saeAccessPoint.peerConfirm \in Nat
      BY DEF SaeInv, SaeTypeOK, SaeSessionType
    <3>4. PICK n : n = saeStation.sendConfirm + 1
      OBVIOUS
    <3>5. SaeNextCounter(saeStation) = n
      BY <2>4, <2>5, <3>1, <3>2, <3>3, <3>4 DEF SaeNextCounter, SaeAcceptedCounter
    <3>6. made = [saeStation EXCEPT !.confirmSent = TRUE, !.sendConfirm = n]
      BY <1>0, <2>9, <3>1, <3>5 DEF SaeOutputConfirm
    <3>7. n \in Nat /\ made.sendConfirm = n /\ made.peerCommit /\ ~made.failed /\ ~made.accepted
      BY <2>5, <3>1, <3>3, <3>4, <3>6 DEF SaeSessionType
    <3>8. body.counter = n
      BY <2>3, <2>9, <3>7 DEF SaeConfirm
    <3>9. \A m \in saeAir : m.counter \in Nat
      BY DEF SaeInv, SaeAirTrue
    <3>10. \A m \in saeAir' : m.to = "ap" /\ m.kind = "confirm" => m.counter <= n
      BY <2>4, <3>1, <3>3, <3>4, <3>7, <3>8, <3>9
    <3>11. n <= 1 + u /\ saeAccessPoint.peerConfirm <= n /\ n > saeAccessPoint.peerConfirm
      BY <2>1, <2>5, <3>1, <3>3, <3>4
    <3>12. SaeNumbered'
      BY <2>4, <2>7, <2>9, <3>7, <3>10, <3>11 DEF SaeNumbered
    <3> QED
      BY <2>4, <3>7, <3>11, <3>12 DEF SaeConfirmAhead
  <2> QED
    BY <2>4, <2>8, <2>9 DEF SaeWaiting
<1> QED
  BY <1>2, <1>3

\* A step of the access point: what it took last is on the air, if it is new.
LEMMA SaePeerIsNumbered ==
  ASSUME SaeInv, SaeNumbered, UNCHANGED <<saeX, saeStation, saeSent>>,
         \A f \in saeAir' : f \in saeAir \/ f.to = "sta",
         \/ saeAccessPoint'.peerConfirm = saeAccessPoint.peerConfirm
         \/ \E m \in saeAir : m.to = "ap" /\ m.kind = "confirm" /\ saeAccessPoint'.peerConfirm = m.counter
  PROVE  SaeNumbered' /\ SaeConfirmAhead
<1>1. saeSent \in Nat /\ saeSent' = saeSent
  BY DEF SaeInv, SaeTypeOK
<1>2. SaeNumbered'
  BY DEF SaeNumbered
<1> QED
  BY <1>1, <1>2 DEF SaeConfirmAhead

\* The access point answers a Commit.
LEMMA SaeAnswersCommitIsNumbered ==
  ASSUME SaeInv, SaeNumbered, NEW m \in saeAir, SaePeerAnswersCommit(m)
  PROVE  SaeNumbered' /\ SaeConfirmAhead
<1>1. saeAccessPoint'.peerConfirm = saeAccessPoint.peerConfirm
  BY DEF SaePeerAnswersCommit, SaeReceiveCommit, SaeSessionRefuse, SaeSessionFail, SaeInv, SaeTypeOK, SaeSessionType
<1>2. UNCHANGED <<saeX, saeStation, saeSent>>
  BY DEF SaePeerAnswersCommit
<1>3. \A f \in saeAir' : f \in saeAir \/ f.to = "sta"
  BY DEF SaePeerAnswersCommit, SaeCommit
<1> QED
  BY <1>1, <1>2, <1>3, SaePeerIsNumbered

\* The access point answers a Confirm.
LEMMA SaeAnswersConfirmIsNumbered ==
  ASSUME SaeInv, SaeNumbered, NEW m \in saeAir, SaePeerAnswersConfirm(m)
  PROVE  SaeNumbered' /\ SaeConfirmAhead
<1>1. PICK made : made = SaeOutputConfirm(saeAccessPoint)
  OBVIOUS
<1>2. PICK ready : ready = IF saeAccessPoint.accepted THEN saeAccessPoint ELSE made.s
  OBVIOUS
<1>3. PICK taken : taken = SaeReceiveConfirm(ready, m.counter, saeSamePassword)
  OBVIOUS
<1>4. PICK more : more = SaeOutputConfirm(taken.s)
  OBVIOUS
<1>5. PICK answer : answer = IF saeAccessPoint.accepted THEN more.s ELSE taken.s
  OBVIOUS
<1>6. /\ m.to = "ap" /\ m.kind = "confirm"
      /\ saeAccessPoint' = (IF taken.ok THEN answer ELSE taken.s)
      /\ saeAir' = (IF taken.ok \/ ~saeAccessPoint.accepted
                    THEN saeAir \cup {SaeConfirm("sta", answer.sendConfirm)} ELSE saeAir)
      /\ UNCHANGED <<saeX, saeStation, saeSent>>
  BY <1>1, <1>2, <1>3, <1>4, <1>5 DEF SaePeerAnswersConfirm
<1>7. saeAccessPoint \in SaeSessionType /\ SaeSessionTrue(saeAccessPoint) /\ saeSamePassword \in BOOLEAN
  BY DEF SaeInv, SaeTypeOK
<1>8. m.counter \in Nat
  BY DEF SaeInv, SaeAirTrue
<1>9. \A s \in SaeSessionType : SaeOutputConfirm(s).s.peerConfirm = s.peerConfirm
  BY DEF SaeOutputConfirm, SaeSessionRefuse, SaeSessionType
<1>10. made.s \in SaeSessionType /\ SaeSessionTrue(made.s) /\ made.s.peerConfirm = saeAccessPoint.peerConfirm
  BY <1>1, <1>7, <1>9, SaeOutputConfirmIs
<1>11. ready \in SaeSessionType /\ SaeSessionTrue(ready) /\ ready.peerConfirm = saeAccessPoint.peerConfirm
  BY <1>2, <1>7, <1>10
<1>12. SaeConfirmTaken(ready, m.counter, saeSamePassword, taken)
  BY <1>3, <1>7, <1>8, <1>11, SaeReceiveConfirmIs
<1>13. taken.s \in SaeSessionType
  BY <1>12 DEF SaeConfirmTaken
<1>14. taken.s.peerConfirm = ready.peerConfirm \/ taken.s.peerConfirm = m.counter
  BY <1>3, <1>11 DEF SaeReceiveConfirm, SaeTakeConfirm, SaeSessionRefuse, SaeSessionFail, SaeSessionType
<1>15. more.s.peerConfirm = taken.s.peerConfirm
  BY <1>4, <1>9, <1>13
<1>16. saeAccessPoint'.peerConfirm = taken.s.peerConfirm
  BY <1>5, <1>6, <1>15
<1>17. SaeConfirm("sta", answer.sendConfirm).to = "sta"
  BY DEF SaeConfirm
<1>18. \A f \in saeAir' : f \in saeAir \/ f.to = "sta"
  BY <1>6, <1>17
<1> QED
  BY <1>6, <1>11, <1>14, <1>16, <1>18, SaePeerIsNumbered

\* Every step of the exchange, the access point and the clock.
LEMMA SaeNumberedStep ==
  ASSUME SaeInv, SaeNumbered, SaeNext
  PROVE  SaeNumbered' /\ SaeConfirmAhead
<1>0. SaeInv'
  BY SaeStep
<1>1. \A now \in SaeCallTimes : now \in Nat
  BY DEF SaeCallTimes
<1>2. ASSUME NEW now \in SaeCallTimes, SaeStart(now) \/ SaePoll(now)
      PROVE  SaeNumbered' /\ SaeConfirmAhead
  BY <1>1, <1>2, SaeStartIsNumbered, SaePollIsNumbered
<1>3. ASSUME NEW now \in SaeCallTimes, SaeCheckTimeFails(now)
      PROVE  SaeNumbered' /\ SaeConfirmAhead
  <2>1. saeX'.state = "FAILED"
    BY <1>3, SaeFailIsOver DEF SaeCheckTimeFails
  <2> QED
    BY <2>1, SaeOverIsNumbered
<1>4. ASSUME NEW now \in SaeCallTimes, SaePollIdle(now)
      PROVE  SaeNumbered' /\ SaeConfirmAhead
  BY <1>1, <1>4, SaeNotedIsNumbered DEF SaePollIdle
<1>5. ASSUME NEW now \in SaeCallTimes, NEW m, SaeReceiveIgnored(m, now)
      PROVE  SaeNumbered' /\ SaeConfirmAhead
  BY <1>1, <1>5, SaeNotedIsNumbered DEF SaeReceiveIgnored
<1>6. ASSUME NEW now \in SaeCallTimes, NEW m, SaeReceiveRejected(m, now)
      PROVE  SaeNumbered' /\ SaeConfirmAhead
  <2>1. saeX'.state = "FAILED"
    BY <1>6, SaeFailIsOver DEF SaeReceiveRejected
  <2> QED
    BY <2>1, SaeOverIsNumbered
<1>7. ASSUME NEW now \in SaeCallTimes, NEW m, SaeReceivePeerCommit(m, now)
      PROVE  SaeNumbered' /\ SaeConfirmAhead
  BY <1>0, <1>1, <1>7, SaePeerCommitIsNumbered
<1>8. ASSUME NEW now \in SaeCallTimes, NEW m, SaeReceivePeerConfirm(m, now)
      PROVE  SaeNumbered' /\ SaeConfirmAhead
  <2>1. CASE SaeFail("CRYPTO")
    BY <2>1, SaeFailIsOver, SaeOverIsNumbered
  <2>2. CASE saeX' = [saeX EXCEPT !.state = "ACCEPTED", !.lastMs = now]
    <3>1. saeX'.state = "ACCEPTED"
      BY <2>2 DEF SaeInv, SaeTypeOK, SaeExchangeType
    <3> QED
      BY <3>1, SaeOverIsNumbered
  <2> QED
    BY <1>8, <2>1, <2>2 DEF SaeReceivePeerConfirm
<1>9. CASE SaeCancel
  <2>1. saeX'.state = "CANCELLED"
    BY <1>9 DEF SaeCancel, SaeInv, SaeTypeOK, SaeExchangeType
  <2> QED
    BY <2>1, SaeOverIsNumbered
<1>10. CASE SaeTick
  <2>1. UNCHANGED <<saeX, saeStation, saeAccessPoint, saeAir, saeSent>> /\ saeX \in SaeExchangeType
    BY <1>10 DEF SaeTick, SaeInv, SaeTypeOK
  <2> QED
    BY <2>1, SaeNumberedStays
<1> QED
  BY <1>2, <1>3, <1>4, <1>5, <1>6, <1>7, <1>8, <1>9, <1>10, SaeAnswersCommitIsNumbered,
     SaeAnswersConfirmIsNumbered DEF SaeNext

\* No Confirm has been computed at first.
LEMMA SaeNumberedStarts ==
  ASSUME SaeInit
  PROVE  SaeNumbered
<1>1. saeX.state = "READY" /\ saeAir = {} /\ saeStation.sendConfirm = 0 /\ ~saeStation.accepted
  BY DEF SaeInit, SaeNewSession
<1>2. saeAccessPoint.peerConfirm = 0
  BY DEF SaeInit, SaeNewSession, SaeOutputCommit, SaeSessionRefuse
<1> QED
  BY <1>1, <1>2 DEF SaeNumbered

\* A step of another part changes nothing here.
LEMMA SaeNumberedStutters ==
  ASSUME SaeInv, SaeNumbered, UNCHANGED saeVars
  PROVE  SaeNumbered' /\ SaeConfirmAhead
<1>1. UNCHANGED <<saeX, saeStation, saeAccessPoint, saeAir, saeSent>> /\ saeX \in SaeExchangeType
  BY DEF saeVars, SaeInv, SaeTypeOK
<1> QED
  BY <1>1, SaeNumberedStays

----------------------------------------------------------------------------
(* Timers *)

\* The types of the timeout, its source, its armings and the call in progress.
TmTypes ==
  /\ tmTimeout \in [made : BOOLEAN, function : TmFunctions \cup {TmNone}, pending : BOOLEAN, timer : BOOLEAN]
  /\ tmSource \in [set : BOOLEAN, queued : Nat]
  /\ tmArming \in [now : Nat, count : Nat]
  /\ tmCall \in [running : BOOLEAN, function : TmFunctions \cup {TmNone}, arming : Nat]

\* What is armed has a function, and is a later arming than the one called last.
TmInTurn ==
  /\ tmTimeout.pending => tmTimeout.function # TmNone
  /\ tmArming.now <= tmArming.count /\ tmCall.arming <= tmArming.count
  /\ tmArming.now # 0 => tmCall.arming < tmArming.now

TmInv == TmTypes /\ TmPendingTrue /\ TmInTurn

\* Only a call that begins is bound to an arming.
TmCallRight ==
  tmCall'.running /\ ~tmCall.running =>
    /\ tmCall'.arming # 0 /\ tmCall'.arming # tmCall.arming
    /\ tmCall'.arming = tmArming.now /\ tmCall'.function = tmTimeout.function

TmTimeoutType == [made : BOOLEAN, function : TmFunctions \cup {TmNone}, pending : BOOLEAN, timer : BOOLEAN]
TmSourceType == [set : BOOLEAN, queued : Nat]

\* A step that disarms the timeout and calls nothing.
LEMMA TmDisarms ==
  ASSUME TmInv, tmTimeout' \in TmTimeoutType, ~tmTimeout'.pending, tmSource' \in TmSourceType, TmDisarmed,
         UNCHANGED tmCall
  PROVE  TmInv' /\ TmCallRight
<1>1. tmArming' \in [now : Nat, count : Nat] /\ tmArming'.now = 0 /\ tmArming'.count = tmArming.count
  BY DEF TmDisarmed, TmInv, TmTypes
<1>2. TmTypes'
  BY <1>1 DEF TmInv, TmTypes, TmTimeoutType, TmSourceType
<1>3. TmPendingTrue' /\ TmInTurn'
  BY <1>1 DEF TmInv, TmTypes, TmInTurn, TmPendingTrue
<1>4. TmCallRight
  BY DEF TmCallRight
<1> QED
  BY <1>2, <1>3, <1>4 DEF TmInv

\* cancelTimeout() leaves a source.
LEMMA TmCancelledIs ==
  ASSUME TmInv
  PROVE  TmCancelled(tmSource) \in TmSourceType
BY DEF TmInv, TmTypes, TmCancelled, TmSourceType

\* What a call of the timeout interface or of the kernel makes of the timeout.
LEMMA TmStep ==
  ASSUME TmInv, [TmNext]_tmVars
  PROVE  TmInv' /\ TmCallRight
<1>0. tmTimeout \in TmTimeoutType /\ tmSource \in TmSourceType
  BY DEF TmInv, TmTypes, TmTimeoutType, TmSourceType
<1>1. CASE TmSet
  <2>1. PICK f \in TmFunctions : tmTimeout' = [tmTimeout EXCEPT !.made = TRUE, !.function = f, !.pending = FALSE]
    BY <1>1 DEF TmSet
  <2>2. tmTimeout' \in TmTimeoutType /\ ~tmTimeout'.pending
    BY <1>0, <2>1 DEF TmTimeoutType
  <2>3. tmSource' = TmCancelled(tmSource) /\ TmDisarmed /\ UNCHANGED tmCall
    BY <1>1 DEF TmSet
  <2> QED
    BY <2>2, <2>3, TmCancelledIs, TmDisarms
<1>2. CASE TmAdd
  <2>1. CASE /\ tmTimeout' = [tmTimeout EXCEPT !.timer = TRUE, !.pending = TRUE]
             /\ tmSource' = [tmSource EXCEPT !.set = TRUE]
             /\ tmArming' = [now |-> tmArming.count + 1, count |-> tmArming.count + 1]
    <3>1. tmTimeout' \in TmTimeoutType /\ tmTimeout'.pending /\ tmTimeout'.function = tmTimeout.function
      BY <1>0, <2>1 DEF TmTimeoutType
    <3>2. tmSource' \in TmSourceType /\ tmSource'.set
      BY <1>0, <2>1 DEF TmSourceType
    <3>3. tmArming.count \in Nat
      BY DEF TmInv, TmTypes
    <3>4. PICK n : n = tmArming.count + 1
      OBVIOUS
    <3>5. n \in Nat /\ tmArming' = [now |-> n, count |-> n]
      BY <2>1, <3>3, <3>4
    <3>6. tmArming' \in [now : Nat, count : Nat] /\ tmArming'.now = n /\ tmArming'.count = n
      BY <3>5
    <3>7. UNCHANGED tmCall /\ tmTimeout.function # TmNone
      BY <1>2 DEF TmAdd
    <3>8. TmTypes'
      BY <3>1, <3>2, <3>6, <3>7 DEF TmInv, TmTypes, TmTimeoutType, TmSourceType
    <3>9. TmPendingTrue' /\ TmInTurn'
      BY <3>1, <3>2, <3>3, <3>4, <3>6, <3>7 DEF TmInv, TmTypes, TmPendingTrue, TmInTurn
    <3> QED
      BY <3>7, <3>8, <3>9 DEF TmInv, TmCallRight
  <2>2. CASE /\ tmTimeout' = [tmTimeout EXCEPT !.timer = TRUE, !.pending = FALSE]
             /\ tmSource' = TmCancelled(tmSource) /\ TmDisarmed
    <3>1. tmTimeout' \in TmTimeoutType /\ ~tmTimeout'.pending
      BY <1>0, <2>2 DEF TmTimeoutType
    <3>2. UNCHANGED tmCall
      BY <1>2 DEF TmAdd
    <3> QED
      BY <2>2, <3>1, <3>2, TmCancelledIs, TmDisarms
  <2> QED
    BY <1>2, <2>1, <2>2 DEF TmAdd
<1>3. CASE TmDel
  <2>1. tmTimeout' \in TmTimeoutType /\ ~tmTimeout'.pending
    BY <1>0, <1>3 DEF TmDel, TmTimeoutType
  <2>2. tmSource' = TmCancelled(tmSource) /\ TmDisarmed /\ UNCHANGED tmCall
    BY <1>3 DEF TmDel
  <2> QED
    BY <2>1, <2>2, TmCancelledIs, TmDisarms
<1>4. CASE TmFree
  <2>1. tmTimeout' \in TmTimeoutType /\ ~tmTimeout'.pending /\ tmSource' \in TmSourceType
    BY <1>4 DEF TmFree, TmFresh, TmNoSource, TmTimeoutType, TmSourceType
  <2> QED
    BY <1>4, <2>1, TmDisarms DEF TmFree
<1>5. CASE TmExpires
  <2>1. PICK n : n = tmSource.queued + 1
    OBVIOUS
  <2>2. n \in Nat /\ n > 0
    BY <1>0, <2>1 DEF TmSourceType
  <2>3. tmSource' = [set |-> FALSE, queued |-> n] /\ UNCHANGED <<tmTimeout, tmArming, tmCall>>
    BY <1>5, <2>1 DEF TmExpires
  <2>4. tmSource' \in TmSourceType /\ tmSource'.queued > 0
    BY <2>2, <2>3 DEF TmSourceType
  <2> QED
    BY <2>3, <2>4 DEF TmInv, TmTypes, TmPendingTrue, TmInTurn, TmCallRight, TmSourceType
<1>6. CASE TmOccurred
  <2>0. PICK n : n = tmSource.queued - 1
    OBVIOUS
  <2>1. n \in Nat /\ tmSource' = [tmSource EXCEPT !.queued = n]
    BY <1>0, <1>6, <2>0 DEF TmOccurred, TmSourceType
  <2>2. tmSource' \in TmSourceType
    BY <1>0, <2>1 DEF TmSourceType
  <2>3. CASE TmAnswers(tmTimeout)
    <3>1. /\ tmTimeout' = [tmTimeout EXCEPT !.pending = FALSE] /\ TmDisarmed
          /\ tmCall' = [running |-> TRUE, function |-> tmTimeout.function, arming |-> tmArming.now]
      BY <1>6, <2>3 DEF TmOccurred, TmEntered
    <3>2. tmTimeout' \in TmTimeoutType /\ ~tmTimeout'.pending
      BY <1>0, <3>1 DEF TmTimeoutType
    <3>3. tmArming.now # 0
      BY <2>3 DEF TmAnswers, TmInv, TmPendingTrue
    <3>4. tmArming' \in [now : Nat, count : Nat] /\ tmArming'.now = 0 /\ tmArming'.count = tmArming.count
      BY <3>1 DEF TmDisarmed, TmInv, TmTypes
    <3>5. /\ tmCall' \in [running : BOOLEAN, function : TmFunctions \cup {TmNone}, arming : Nat]
          /\ tmCall'.arming = tmArming.now /\ tmCall'.function = tmTimeout.function
      BY <1>0, <3>1 DEF TmInv, TmTypes, TmTimeoutType
    <3>6. TmTypes'
      BY <2>2, <3>2, <3>4, <3>5 DEF TmTypes, TmTimeoutType, TmSourceType
    <3>7. TmPendingTrue' /\ TmInTurn'
      BY <3>2, <3>4, <3>5 DEF TmInv, TmTypes, TmPendingTrue, TmInTurn
    <3>8. TmCallRight
      BY <3>3, <3>5 DEF TmCallRight, TmInv, TmTypes, TmInTurn
    <3> QED
      BY <3>6, <3>7, <3>8 DEF TmInv
  <2>4. CASE ~TmAnswers(tmTimeout)
    <3>1. UNCHANGED <<tmTimeout, tmArming, tmCall>>
      BY <1>6, <2>4 DEF TmOccurred
    <3>2. ~tmTimeout.pending
      BY <2>4 DEF TmAnswers, TmInv, TmInTurn
    <3> QED
      BY <2>2, <3>1, <3>2 DEF TmInv, TmTypes, TmPendingTrue, TmInTurn, TmCallRight, TmSourceType
  <2> QED
    BY <2>3, <2>4
<1>7. CASE TmReturns
  <2>1. tmCall' = [tmCall EXCEPT !.running = FALSE] /\ UNCHANGED <<tmTimeout, tmSource, tmArming>>
    BY <1>7 DEF TmReturns
  <2>2. /\ tmCall' \in [running : BOOLEAN, function : TmFunctions \cup {TmNone}, arming : Nat]
        /\ tmCall'.arming = tmCall.arming /\ ~tmCall'.running
    BY <2>1 DEF TmInv, TmTypes
  <2> QED
    BY <2>1, <2>2 DEF TmInv, TmTypes, TmPendingTrue, TmInTurn, TmCallRight
<1>8. CASE UNCHANGED tmVars
  BY <1>8 DEF tmVars, TmInv, TmTypes, TmPendingTrue, TmInTurn, TmCallRight
<1> QED
  BY <1>1, <1>2, <1>3, <1>4, <1>5, <1>6, <1>7, <1>8 DEF TmNext

\* Nothing is armed at first.
LEMMA TmStart ==
  ASSUME TmInit
  PROVE  TmInv
BY DEF TmInit, TmFresh, TmNoSource, TmInv, TmTypes, TmPendingTrue, TmInTurn

----------------------------------------------------------------------------
(* Frames that wait for a report *)

HfSlot == [frame : Nat, age : Int, rate : 0 .. 1, actions : Nat]

\* The type of the receiver's state.
HfTypes(s) ==
  /\ s \in [slots : [HfPpdus -> HfSlot], sample : BOOLEAN, channel : {"set", "none"},
            action : {"none", "begun", "tuning", "done"}, actions : Nat, frames : Nat,
            given : Seq(Nat \X BOOLEAN)]

\* Frames are numbered as they are received; a frame is held in one slot or was handed
\* up once, and a frame that is held was received after the last action began.
HfApart(s) ==
  /\ \A p \in HfPpdus : s.slots[p].frame <= s.frames
  /\ \A p, q \in HfPpdus : s.slots[p].frame # 0 /\ s.slots[p].frame = s.slots[q].frame => p = q
  /\ \A p \in HfPpdus : s.slots[p].frame # 0 => s.slots[p].actions = s.actions
  /\ \A i \in 1 .. Len(s.given) : s.given[i][1] <= s.frames /\ s.given[i][2]
  /\ \A i, k \in 1 .. Len(s.given) : s.given[i][1] = s.given[k][1] => i = k
  /\ \A i \in 1 .. Len(s.given), p \in HfPpdus : s.slots[p].frame # 0 => s.slots[p].frame # s.given[i][1]

HfGood(s) == HfTypes(s) /\ HfApart(s)

\* Max and Min of two integers are one of them.
LEMMA HfClamped ==
  ASSUME NEW a \in Int, NEW b \in Int
  PROVE  Max({a, b}) \in Int /\ Min({a, b}) \in Int
<1>1. \E x \in {a, b} : \A y \in {a, b} : x >= y
  OBVIOUS
<1>2. \E x \in {a, b} : \A y \in {a, b} : x <= y
  OBVIOUS
<1>3. Max({a, b}) \in {a, b}
  BY <1>1 DEF Max
<1>4. Min({a, b}) \in {a, b}
  BY <1>2 DEF Min
<1> QED
  BY <1>3, <1>4

\* phyWait.clear().
LEMMA HfClearKeeps ==
  ASSUME NEW s, HfGood(s)
  PROVE  HfGood(HfClear(s))
<1>1. PICK none : none = [p \in HfPpdus |-> HfNone]
  OBVIOUS
<1>2. none \in [HfPpdus -> HfSlot] /\ \A p \in HfPpdus : none[p].frame = 0
  BY <1>1 DEF HfNone, HfSlot
<1>3. PICK t : t = [s EXCEPT !.slots = none]
  OBVIOUS
<1>4. HfTypes(t) /\ t.slots = none /\ t.frames = s.frames /\ t.given = s.given /\ t.actions = s.actions
  BY <1>2, <1>3 DEF HfGood, HfTypes
<1>5. s.frames \in Nat
  BY DEF HfGood, HfTypes
<1>6. HfApart(t)
  BY <1>2, <1>4, <1>5 DEF HfGood, HfApart
<1>7. HfClear(s) = t
  BY <1>1, <1>3 DEF HfClear
<1> QED
  BY <1>4, <1>6, <1>7 DEF HfGood

\* A frame that is neither held nor was handed up, and was received since the last
\* action began, may be handed up.
LEMMA HfDeliverKeeps ==
  ASSUME NEW s, HfGood(s), NEW f \in HfSlot, f.frame <= s.frames, f.frame # 0, f.actions = s.actions,
         \A i \in 1 .. Len(s.given) : s.given[i][1] # f.frame,
         \A p \in HfPpdus : s.slots[p].frame # f.frame
  PROVE  HfGood(HfDeliver(s, f))
<1>1. PICK e : e = <<f.frame, f.actions = s.actions>>
  OBVIOUS
<1>2. e \in Nat \X BOOLEAN /\ e[1] = f.frame /\ e[2]
  BY <1>1 DEF HfSlot
<1>3. s.given \in Seq(Nat \X BOOLEAN)
  BY DEF HfGood, HfTypes
<1>4. PICK g : g = Append(s.given, e)
  OBVIOUS
<1>5. /\ g \in Seq(Nat \X BOOLEAN) /\ Len(g) = Len(s.given) + 1 /\ Len(s.given) \in Nat
      /\ \A i \in 1 .. Len(s.given) : g[i] = s.given[i]
      /\ g[Len(s.given) + 1] = e
  BY <1>2, <1>3, <1>4
<1>6. PICK t : t = [s EXCEPT !.given = g]
  OBVIOUS
<1>7. HfTypes(t) /\ t.slots = s.slots /\ t.frames = s.frames /\ t.given = g /\ t.actions = s.actions
  BY <1>5, <1>6 DEF HfGood, HfTypes
<1>8. \A i \in 1 .. Len(g) : i \in 1 .. Len(s.given) \/ i = Len(s.given) + 1
  BY <1>5
<1>9. HfApart(s)
  BY DEF HfGood
<1>10. \A i \in 1 .. Len(g) : g[i][1] <= s.frames /\ g[i][2]
  <2> SUFFICES ASSUME NEW i \in 1 .. Len(g)
               PROVE  g[i][1] <= s.frames /\ g[i][2]
    OBVIOUS
  <2>1. CASE i \in 1 .. Len(s.given)
    BY <1>5, <1>9, <2>1 DEF HfApart
  <2>2. CASE i = Len(s.given) + 1
    BY <1>2, <1>5, <2>2
  <2> QED
    BY <1>8, <2>1, <2>2
<1>11. ASSUME NEW i \in 1 .. Len(g), NEW k \in 1 .. Len(g), g[i][1] = g[k][1]
       PROVE  i = k
  <2>1. CASE i \in 1 .. Len(s.given) /\ k \in 1 .. Len(s.given)
    BY <1>5, <1>9, <1>11, <2>1 DEF HfApart
  <2>2. CASE i = Len(s.given) + 1 /\ k \in 1 .. Len(s.given)
    BY <1>2, <1>5, <1>11, <2>2
  <2>3. CASE k = Len(s.given) + 1 /\ i \in 1 .. Len(s.given)
    BY <1>2, <1>5, <1>11, <2>3
  <2> QED
    BY <1>8, <2>1, <2>2, <2>3
<1>12. \A i \in 1 .. Len(g), p \in HfPpdus : s.slots[p].frame # 0 => s.slots[p].frame # g[i][1]
  <2> SUFFICES ASSUME NEW i \in 1 .. Len(g), NEW p \in HfPpdus, s.slots[p].frame # 0
               PROVE  s.slots[p].frame # g[i][1]
    OBVIOUS
  <2>1. CASE i \in 1 .. Len(s.given)
    BY <1>5, <1>9, <2>1 DEF HfApart
  <2>2. CASE i = Len(s.given) + 1
    BY <1>2, <1>5, <2>2
  <2> QED
    BY <1>8, <2>1, <2>2
<1>13. HfApart(t)
  BY <1>7, <1>9, <1>10, <1>11, <1>12 DEF HfApart
<1>14. HfDeliver(s, f) = t
  BY <1>1, <1>4, <1>6 DEF HfDeliver
<1> QED
  BY <1>7, <1>13, <1>14 DEF HfGood

\* take(): a frame leaves its slot before it is handed up.
LEMMA HfTakeKeeps ==
  ASSUME NEW s, HfGood(s), NEW p \in HfPpdus, NEW rate \in 0 .. 1
  PROVE  HfGood(HfTake(s, p, rate))
<1>1. PICK f : f = s.slots[p]
  OBVIOUS
<1>2. f \in HfSlot /\ s.slots \in [HfPpdus -> HfSlot] /\ HfApart(s)
  BY <1>1 DEF HfGood, HfTypes
<1>3. PICK left : left = [s.slots EXCEPT ![p] = HfNone]
  OBVIOUS
<1>4. /\ left \in [HfPpdus -> HfSlot] /\ left[p].frame = 0
      /\ \A q \in HfPpdus : q # p => left[q] = s.slots[q]
  BY <1>2, <1>3 DEF HfNone, HfSlot
<1>5. PICK out : out = [s EXCEPT !.slots = left]
  OBVIOUS
<1>6. HfTypes(out) /\ out.slots = left /\ out.frames = s.frames /\ out.given = s.given /\ out.actions = s.actions
  BY <1>4, <1>5 DEF HfGood, HfTypes
<1>7. \A q \in HfPpdus : left[q].frame = 0 \/ (q # p /\ left[q] = s.slots[q])
  BY <1>4
<1>8. s.frames \in Nat
  BY DEF HfGood, HfTypes
<1>9. HfApart(out)
  BY <1>2, <1>6, <1>7, <1>8 DEF HfApart
<1>10. HfGood(out)
  BY <1>6, <1>9 DEF HfGood
<1>11. out = [s EXCEPT !.slots[p] = HfNone]
  BY <1>3, <1>5 DEF HfGood, HfTypes
<1>12. CASE f.frame # 0 /\ f.rate = rate /\ f.age \in 0 .. HfMaxAge
  <2>1. HfTake(s, p, rate) = HfDeliver(out, f)
    BY <1>1, <1>11, <1>12 DEF HfTake
  <2>2. f.frame <= out.frames /\ f.actions = out.actions
    BY <1>1, <1>2, <1>6, <1>12 DEF HfApart
  <2>3. \A i \in 1 .. Len(out.given) : out.given[i][1] # f.frame
    BY <1>1, <1>2, <1>6, <1>12 DEF HfApart
  <2>4. \A q \in HfPpdus : out.slots[q].frame # f.frame
    BY <1>1, <1>2, <1>4, <1>6, <1>12 DEF HfApart
  <2> QED
    BY <1>2, <1>10, <1>12, <2>1, <2>2, <2>3, <2>4, HfDeliverKeeps
<1>13. CASE ~(f.frame # 0 /\ f.rate = rate /\ f.age \in 0 .. HfMaxAge)
  BY <1>1, <1>10, <1>11, <1>13 DEF HfTake
<1> QED
  BY <1>12, <1>13

\* A frame is received: handed up at once, or held in place of what its slot held.
LEMMA HfReceiveKeeps ==
  ASSUME HfGood(hf), HfReceive
  PROVE  HfGood(hf')
<1>1. PICK p \in HfPpdus, rate \in 0 .. 1 :
        LET f == [frame |-> hf.frames + 1, age |-> 0, rate |-> rate, actions |-> hf.actions]
            next == [hf EXCEPT !.frames = @ + 1]
        IN  hf' = IF HfKnown(hf) THEN HfDeliver(next, f) ELSE [next EXCEPT !.slots[p] = f]
  BY DEF HfReceive
<1>2. PICK n : n = hf.frames + 1
  OBVIOUS
<1>3. hf.frames \in Nat /\ n \in Nat /\ n # 0 /\ hf.actions \in Nat /\ HfApart(hf) /\ hf.slots \in [HfPpdus -> HfSlot]
  BY <1>2 DEF HfGood, HfTypes
<1>4. PICK f : f = [frame |-> n, age |-> 0, rate |-> rate, actions |-> hf.actions]
  OBVIOUS
<1>5. f \in HfSlot /\ f.frame = n /\ f.actions = hf.actions
  BY <1>3, <1>4 DEF HfSlot
<1>6. PICK next : next = [hf EXCEPT !.frames = n]
  OBVIOUS
<1>7. /\ HfTypes(next) /\ next.frames = n /\ next.slots = hf.slots /\ next.given = hf.given
      /\ next.actions = hf.actions
  BY <1>3, <1>6 DEF HfGood, HfTypes
<1>8. \A q \in HfPpdus : hf.slots[q].frame \in Nat /\ hf.slots[q].frame < n
  BY <1>2, <1>3 DEF HfApart, HfSlot
<1>9. hf.given \in Seq(Nat \X BOOLEAN)
  BY DEF HfGood, HfTypes
<1>10. \A i \in 1 .. Len(hf.given) : hf.given[i] \in Nat \X BOOLEAN
  BY <1>9
<1>11. \A i \in 1 .. Len(hf.given) : hf.given[i][1] \in Nat /\ hf.given[i][1] < n
  BY <1>2, <1>3, <1>10 DEF HfApart
<1>12. hf' = IF HfKnown(hf) THEN HfDeliver(next, f) ELSE [next EXCEPT !.slots[p] = f]
  BY <1>1, <1>2, <1>4, <1>6
<1>13. HfApart(next)
  BY <1>3, <1>7, <1>8, <1>11 DEF HfApart
<1>14. CASE HfKnown(hf)
  <2>1. \A i \in 1 .. Len(next.given) : next.given[i][1] # f.frame
    BY <1>3, <1>5, <1>7, <1>11
  <2>2. \A q \in HfPpdus : next.slots[q].frame # f.frame
    BY <1>3, <1>5, <1>7, <1>8
  <2>3. f.frame <= next.frames /\ f.frame # 0 /\ f.actions = next.actions
    BY <1>3, <1>5, <1>7
  <2> QED
    BY <1>5, <1>7, <1>12, <1>13, <1>14, <2>1, <2>2, <2>3, HfDeliverKeeps DEF HfGood
<1>15. CASE ~HfKnown(hf)
  <2>1. PICK held : held = [hf.slots EXCEPT ![p] = f]
    OBVIOUS
  <2>2. /\ held \in [HfPpdus -> HfSlot] /\ held[p] = f
        /\ \A q \in HfPpdus : q # p => held[q] = hf.slots[q]
    BY <1>3, <1>5, <2>1
  <2>3. hf' = [next EXCEPT !.slots = held]
    BY <1>7, <1>12, <1>15, <2>1
  <2>4. HfTypes(hf') /\ hf'.slots = held /\ hf'.frames = n /\ hf'.given = hf.given /\ hf'.actions = hf.actions
    BY <1>7, <2>2, <2>3 DEF HfTypes
  <2>5. \A q \in HfPpdus : held[q] = f \/ (q # p /\ held[q] = hf.slots[q])
    BY <2>2
  <2>6. \A q \in HfPpdus : held[q].frame <= n
    BY <1>3, <1>5, <1>8, <2>5
  <2>7. \A q, r \in HfPpdus : held[q].frame # 0 /\ held[q].frame = held[r].frame => q = r
    BY <1>3, <1>5, <1>8, <2>2 DEF HfApart
  <2>8. \A q \in HfPpdus : held[q].frame # 0 => held[q].actions = hf.actions
    BY <1>3, <1>5, <2>5 DEF HfApart
  <2>9. \A i \in 1 .. Len(hf.given), q \in HfPpdus : held[q].frame # 0 => held[q].frame # hf.given[i][1]
    BY <1>3, <1>5, <1>11, <2>5 DEF HfApart
  <2>10. \A i \in 1 .. Len(hf.given) : hf.given[i][1] <= n /\ hf.given[i][2]
    BY <1>3, <1>11 DEF HfApart
  <2>11. HfApart(hf')
    BY <1>3, <2>4, <2>6, <2>7, <2>8, <2>9, <2>10 DEF HfApart
  <2> QED
    BY <2>4, <2>11 DEF HfGood
<1> QED
  BY <1>14, <1>15

\* What does not touch the slots, the frames and the actions keeps them apart.
LEMMA HfSameKeeps ==
  ASSUME NEW s, HfGood(s), NEW t, HfTypes(t), t.slots = s.slots, t.frames = s.frames, t.given = s.given,
         t.actions = s.actions
  PROVE  HfGood(t)
BY DEF HfGood, HfApart

\* A report, for this channel or another.
LEMMA HfReportKeeps ==
  ASSUME HfGood(hf), HfReport
  PROVE  HfGood(hf')
<1>1. PICK p \in HfPpdus, rate \in 0 .. 1, names \in {"this", "other", "none"} :
        LET next == IF hf.channel = "set" /\ names # "other" THEN [hf EXCEPT !.sample = TRUE] ELSE hf
        IN  hf' = IF hf.action = "none" /\ HfKnown(next) /\ names # "other" THEN HfTake(next, p, rate) ELSE next
  BY DEF HfReport
<1>2. PICK next : next = IF hf.channel = "set" /\ names # "other" THEN [hf EXCEPT !.sample = TRUE] ELSE hf
  OBVIOUS
<1>3. PICK heard : heard = [hf EXCEPT !.sample = TRUE]
  OBVIOUS
<1>4. /\ HfTypes(heard) /\ heard.slots = hf.slots /\ heard.frames = hf.frames /\ heard.given = hf.given
      /\ heard.actions = hf.actions
  BY <1>3 DEF HfGood, HfTypes
<1>5. HfGood(heard)
  BY <1>4, HfSameKeeps
<1>6. HfGood(next)
  BY <1>2, <1>3, <1>5
<1>7. hf' = HfTake(next, p, rate) \/ hf' = next
  BY <1>1, <1>2
<1> QED
  BY <1>6, <1>7, HfTakeKeeps

\* beginAction(): no frame is held when the count of actions moves.
LEMMA HfBeginKeeps ==
  ASSUME HfGood(hf), HfBegin
  PROVE  HfGood(hf')
<1>1. PICK none : none = HfClear(hf)
  OBVIOUS
<1>2. HfGood(none)
  BY <1>1, HfClearKeeps
<1>3. \A p \in HfPpdus : none.slots[p].frame = 0
  <2>1. none.slots = [p \in HfPpdus |-> HfNone]
    BY <1>1 DEF HfClear, HfGood, HfTypes
  <2> QED
    BY <2>1 DEF HfNone
<1>4. PICK n : n = none.actions + 1
  OBVIOUS
<1>5. n \in Nat
  BY <1>2, <1>4 DEF HfGood, HfTypes
<1>6. hf' = [none EXCEPT !.action = "begun", !.actions = n]
  BY <1>1, <1>4 DEF HfBegin
<1>7. HfTypes(hf') /\ hf'.slots = none.slots /\ hf'.frames = none.frames /\ hf'.given = none.given
  BY <1>2, <1>5, <1>6 DEF HfGood, HfTypes
<1> QED
  BY <1>2, <1>3, <1>7 DEF HfGood, HfApart

\* Time changes the ages of held frames only.
LEMMA HfTimeKeeps ==
  ASSUME HfGood(hf), HfTime
  PROVE  HfGood(hf')
<1>1. PICK d \in {-1, 1} :
        hf' = [hf EXCEPT !.slots = [p \in HfPpdus |-> HfAged(hf.slots[p], d)]]
  BY DEF HfTime
<1>2. hf.slots \in [HfPpdus -> HfSlot]
  BY DEF HfGood, HfTypes
<1>3. PICK older : older = [p \in HfPpdus |-> HfAged(hf.slots[p], d)]
  OBVIOUS
<1>4. ASSUME NEW p \in HfPpdus
      PROVE  older[p] \in HfSlot /\ older[p].frame = hf.slots[p].frame /\ older[p].actions = hf.slots[p].actions
  <2>1. PICK r : r = hf.slots[p]
    OBVIOUS
  <2>2. r \in HfSlot
    BY <1>2, <2>1
  <2>3. r.age + d \in Int /\ HfMaxAge + 1 \in Int
    BY <1>1, <2>2, HfAssumption DEF HfSlot
  <2>4. PICK low : low = Min({HfMaxAge + 1, r.age + d})
    OBVIOUS
  <2>5. low \in Int
    BY <2>3, <2>4, HfClamped
  <2>6. PICK age : age = Max({-1, low})
    OBVIOUS
  <2>7. age \in Int
    BY <2>5, <2>6, HfClamped
  <2>8. older[p] = IF r.frame = 0 THEN r ELSE [r EXCEPT !.age = age]
    BY <1>3, <2>1, <2>4, <2>6 DEF HfAged
  <2> QED
    BY <2>1, <2>2, <2>7, <2>8 DEF HfSlot
<1>5. hf' = [hf EXCEPT !.slots = older]
  BY <1>1, <1>3
<1>6. older \in [HfPpdus -> HfSlot]
  BY <1>3, <1>4
<1>7. HfTypes(hf') /\ hf'.slots = older /\ hf'.frames = hf.frames /\ hf'.given = hf.given /\ hf'.actions = hf.actions
  BY <1>5, <1>6 DEF HfGood, HfTypes
<1>8. HfApart(hf')
  BY <1>4, <1>7 DEF HfGood, HfApart
<1> QED
  BY <1>7, <1>8 DEF HfGood

\* Every step of the receiver.
LEMMA HfStep ==
  ASSUME HfGood(hf), HfNext
  PROVE  HfGood(hf')
<1>1. CASE HfQuiet
  BY <1>1, HfClearKeeps DEF HfQuiet
<1>2. CASE HfTune \/ HfTuned \/ HfOther \/ HfEnd
  <2>1. /\ HfTypes(hf') /\ hf'.slots = hf.slots /\ hf'.frames = hf.frames
        /\ hf'.given = hf.given /\ hf'.actions = hf.actions
    BY <1>2 DEF HfTune, HfTuned, HfOther, HfEnd, HfGood, HfTypes
  <2> QED
    BY <2>1, HfSameKeeps
<1> QED
  BY <1>1, <1>2, HfReceiveKeeps, HfReportKeeps, HfBeginKeeps, HfTimeKeeps DEF HfNext

\* Nothing is held at first.
LEMMA HfStart ==
  ASSUME HfInit
  PROVE  HfGood(hf)
<1>1. HfNone \in HfSlot /\ HfNone.frame = 0
  BY DEF HfNone, HfSlot
<1>2. HfTypes(hf)
  BY <1>1 DEF HfInit, HfTypes
<1>3. hf.given = <<>> /\ hf.frames = 0 /\ \A p \in HfPpdus : hf.slots[p].frame = 0
  BY <1>1 DEF HfInit
<1>4. HfApart(hf)
  BY <1>3 DEF HfApart
<1> QED
  BY <1>2, <1>4 DEF HfGood

\* No frame is handed up twice, or under another channel.
LEMMA HfSafe ==
  ASSUME HfGood(hf)
  PROVE  HfHeldInTime
<1>1. hf.given \in Seq(Nat \X BOOLEAN) /\ HfApart(hf)
  BY DEF HfGood, HfTypes
<1>2. DOMAIN hf.given = 1 .. Len(hf.given)
  BY <1>1
<1>3. PICK frames : frames = [i \in DOMAIN hf.given |-> hf.given[i][1]]
  OBVIOUS
<1>4. IsInjective(frames)
  BY <1>1, <1>2, <1>3 DEF IsInjective, HfApart
<1>5. \A p \in HfPpdus : hf.slots[p].frame # 0 => hf.slots[p].frame \notin ToSet(frames)
  BY <1>1, <1>2, <1>3 DEF ToSet, HfApart
<1>6. \A i \in DOMAIN hf.given : hf.given[i][2]
  BY <1>1, <1>2 DEF HfApart
<1> QED
  BY <1>3, <1>4, <1>5, <1>6 DEF HfHeldInTime

----------------------------------------------------------------------------
(* Scan results *)

WrFrameType == [request : Nat, snapshot : Nat, delivery : Nat, done : BOOLEAN, ordinal : Nat]

\* The bridge; the indices of a draft are only counted.
WrBridgeIs(b) ==
  /\ DOMAIN b = {"draft", "lastArmed", "delivery"} /\ b.delivery \in Nat
  /\ DOMAIN b.draft = {"phase", "request", "snapshot", "indices", "cursor", "pending"}
  /\ b.draft.phase \in {"idle", "ready", "reserved", "completed", "aborted"}
  /\ b.draft.request \in Nat /\ b.draft.snapshot \in Nat /\ b.draft.cursor \in Nat
  /\ b.draft.pending \in WrFrameType

WrScanType ==
  [token : Nat, phase : {"none", "running", "complete", "failed"}, snapshot : Nat,
   plan : {WrNoPlan} \cup {WrPlan(m) : m \in WrMessages} \cup {[active |-> FALSE, dwell |-> 100, channels |-> <<1>>]}]

WrTypes ==
  /\ wrScan \in WrScanType /\ wrStore.token \in Nat
  /\ wrFrame \in WrFrameType /\ wrSent \in Seq(WrFrameType)
  /\ WrBridgeIs(wrBridge)

\* The request that is valid is the one of the current scan, and its scan has its plan;
\* the snapshot of the current scan, while it is the one stored, is of its channels.
WrRequestTrue ==
  /\ wrRequest.valid => /\ wrRequest.token = wrScan.token /\ WrPlans(wrRequest.message)
                        /\ wrScan.plan = WrPlan(wrRequest.message)
  /\ wrScan.snapshot <= wrStore.token
  /\ wrScan.phase = "complete" /\ wrStore.token = wrScan.snapshot => wrStore.channels = wrScan.plan.channels

\* The frames accepted so far.
WrOrdered(sent) ==
  \A i \in 1 .. Len(sent) :
    /\ sent[i].ordinal = i - 1
    /\ sent[i].snapshot = sent[1].snapshot /\ sent[i].request = sent[1].request
    /\ sent[i].done => i = Len(sent)

\* A draft in delivery has had as many frames accepted as its cursor says, all of its
\* own snapshot and none of them the last; the frame that is reserved is the next one.
WrDelivering(b, sent) ==
  /\ WrOrdered(sent)
  /\ b.draft.phase \in {"ready", "reserved"} =>
       /\ Len(sent) = b.draft.cursor
       /\ \A i \in 1 .. Len(sent) :
            ~sent[i].done /\ sent[i].snapshot = b.draft.snapshot /\ sent[i].request = b.draft.request
  /\ b.draft.phase = "reserved" =>
       /\ b.draft.pending.request = b.draft.request /\ b.draft.pending.snapshot = b.draft.snapshot
       /\ b.draft.pending.ordinal = b.draft.cursor
       /\ b.draft.pending.done <=> b.draft.cursor = Len(b.draft.indices)
  /\ b.draft.phase = "completed" => Len(sent) = Len(b.draft.indices) + 1

WrInv == WrTypes /\ WrRequestTrue /\ WrDraftNeedsRequest /\ WrDelivering(wrBridge, wrSent)

WrOpen == {"ready", "reserved"}

\* No frame.
LEMMA WrNoFrameIs == WrNoFrame \in WrFrameType
BY DEF WrNoFrame, WrFrameType

\* abort() of a draft.
LEMMA WrAbortedIs ==
  ASSUME NEW b, WrBridgeIs(b), NEW sent, WrDelivering(b, sent), NEW c, c = WrAborted(b)
  PROVE  WrBridgeIs(c) /\ WrDelivering(c, sent) /\ c.draft.phase \notin WrOpen
<1>1. CASE b.draft.phase \in WrOpen
  <2>1. PICK d : d = [b.draft EXCEPT !.phase = "aborted", !.pending = WrNoFrame]
    OBVIOUS
  <2>2. c = [b EXCEPT !.draft = d]
    BY <1>1, <2>1 DEF WrAborted, WrBridgeIs, WrOpen
  <2>3. /\ DOMAIN d = DOMAIN b.draft /\ d.phase = "aborted" /\ d.pending = WrNoFrame /\ d.request = b.draft.request
        /\ d.snapshot = b.draft.snapshot /\ d.cursor = b.draft.cursor
    BY <2>1 DEF WrBridgeIs
  <2>4. DOMAIN c = DOMAIN b /\ c.draft = d /\ c.delivery = b.delivery
    BY <2>2 DEF WrBridgeIs
  <2> QED
    BY <2>3, <2>4, WrNoFrameIs DEF WrBridgeIs, WrDelivering, WrOpen
<1>2. CASE b.draft.phase \notin WrOpen
  BY <1>2 DEF WrAborted, WrOpen
<1> QED
  BY <1>1, <1>2

\* retire() of a draft that is not in delivery.
LEMMA WrRetiredIs ==
  ASSUME NEW b, WrBridgeIs(b), NEW sent, WrDelivering(b, sent), b.draft.phase \notin WrOpen,
         NEW c, c = WrRetired(b)
  PROVE  WrBridgeIs(c) /\ WrDelivering(c, sent) /\ c.draft.phase \notin WrOpen
<1>1. CASE b.draft.phase \in {"completed", "aborted"}
  <2>1. c = [b EXCEPT !.draft = WrIdle]
    BY <1>1 DEF WrRetired
  <2>2. DOMAIN c = DOMAIN b /\ c.draft = WrIdle /\ c.delivery = b.delivery
    BY <2>1 DEF WrBridgeIs
  <2>3. /\ DOMAIN WrIdle = {"phase", "request", "snapshot", "indices", "cursor", "pending"}
        /\ WrIdle.phase = "idle" /\ WrIdle.request = 0 /\ WrIdle.snapshot = 0 /\ WrIdle.cursor = 0
        /\ WrIdle.pending = WrNoFrame
    BY DEF WrIdle
  <2> QED
    BY <2>2, <2>3, WrNoFrameIs DEF WrBridgeIs, WrDelivering, WrOpen
<1>2. CASE b.draft.phase \notin {"completed", "aborted"}
  BY <1>2 DEF WrRetired
<1> QED
  BY <1>1, <1>2

\* A step that leaves no draft in delivery.
LEMMA WrCloses ==
  ASSUME WrInv, wrScan' \in WrScanType, wrStore'.token \in Nat, UNCHANGED <<wrFrame, wrSent>>, WrRequestTrue',
         WrBridgeIs(wrBridge'), WrDelivering(wrBridge', wrSent), wrBridge'.draft.phase \notin WrOpen
  PROVE  WrInv'
<1>1. WrTypes'
  BY DEF WrInv, WrTypes
<1>2. WrDraftNeedsRequest'
  BY DEF WrDraftNeedsRequest, WrOpen
<1>3. WrDelivering(wrBridge', wrSent')
  OBVIOUS
<1> QED
  BY <1>1, <1>2, <1>3 DEF WrInv

\* supersedeWclDraft, and retire.
LEMMA WrSupersededIs ==
  ASSUME WrInv, NEW c, c = WrRetired(WrAborted(wrBridge))
  PROVE  WrBridgeIs(c) /\ WrDelivering(c, wrSent) /\ c.draft.phase \notin WrOpen
<1>1. PICK a : a = WrAborted(wrBridge)
  OBVIOUS
<1>2. WrBridgeIs(a) /\ WrDelivering(a, wrSent) /\ a.draft.phase \notin WrOpen
  BY <1>1, WrAbortedIs DEF WrInv, WrTypes
<1> QED
  BY <1>1, <1>2, WrRetiredIs

\* A scan is admitted, of this front end or of another caller.
LEMMA WrBeginKeeps ==
  ASSUME WrInv, NEW m \in WrMessages \cup {WrNoMessage}, NEW starts \in BOOLEAN, WrBegin(m, starts)
  PROVE  WrInv'
<1>1. PICK plan : plan = IF m # WrNoMessage THEN WrPlan(m) ELSE [active |-> FALSE, dwell |-> 100, channels |-> <<1>>]
  OBVIOUS
<1>2. PICK n : n = wrScan.token + 1
  OBVIOUS
<1>3. n \in Nat /\ wrStore.token \in Nat
  BY <1>2 DEF WrInv, WrTypes, WrScanType
<1>4. wrScan' = [token |-> n, phase |-> IF starts THEN "running" ELSE "failed", snapshot |-> 0, plan |-> plan]
  BY <1>1, <1>2 DEF WrBegin
<1>5. wrScan' \in WrScanType /\ wrScan'.phase # "complete" /\ wrScan'.token = n /\ wrScan'.snapshot = 0
      /\ wrScan'.plan = plan
  <2>1. plan \in {WrNoPlan} \cup {WrPlan(k) : k \in WrMessages}
                    \cup {[active |-> FALSE, dwell |-> 100, channels |-> <<1>>]}
    BY <1>1
  <2> QED
    BY <1>3, <1>4, <2>1 DEF WrScanType
<1>6. wrRequest' = (IF m # WrNoMessage /\ starts THEN [token |-> n, valid |-> TRUE, message |-> m] ELSE WrNoRequest)
  BY <1>2 DEF WrBegin
<1>7. wrStore' = wrStore /\ wrFrame' = wrFrame /\ wrSent' = wrSent /\ wrBridge' = WrRetired(WrAborted(wrBridge))
  BY DEF WrBegin, WrSuperseded
<1>8. wrRequest'.valid => wrRequest'.token = n /\ wrRequest'.message = m /\ m # WrNoMessage
  BY <1>6 DEF WrNoRequest
<1>9. m # WrNoMessage => WrPlans(m)
  BY DEF WrBegin
<1>10. wrRequest'.valid => /\ wrRequest'.token = wrScan'.token /\ WrPlans(wrRequest'.message)
                           /\ wrScan'.plan = WrPlan(wrRequest'.message)
  BY <1>1, <1>5, <1>8, <1>9
<1>11. WrRequestTrue'
  BY <1>3, <1>5, <1>7, <1>10 DEF WrRequestTrue
<1> QED
  BY <1>3, <1>5, <1>7, <1>11, WrSupersededIs, WrCloses

\* The draft stays as it is when a snapshot is published; it may no longer be current.
LEMMA WrStoredKeeps ==
  ASSUME WrInv, wrScan' \in WrScanType, wrScan'.token = wrScan.token, wrScan'.plan = wrScan.plan,
         wrStore'.token \in Nat, wrScan'.snapshot <= wrStore'.token,
         wrScan'.phase = "complete" /\ wrStore'.token = wrScan'.snapshot => wrStore'.channels = wrScan.plan.channels,
         UNCHANGED <<wrRequest, wrBridge, wrFrame, wrSent>>
  PROVE  WrInv'
<1>1. WrTypes'
  BY DEF WrInv, WrTypes
<1>2. WrRequestTrue'
  BY DEF WrInv, WrRequestTrue
<1>3. WrDraftNeedsRequest' /\ WrDelivering(wrBridge', wrSent')
  BY DEF WrInv, WrDraftNeedsRequest
<1> QED
  BY <1>1, <1>2, <1>3 DEF WrInv

\* The scan ends well, or another scan publishes.
LEMMA WrPublishesKeeps ==
  ASSUME WrInv, NEW found, WrCompletes(found) \/ WrOtherSnapshot(found)
  PROVE  WrInv'
<1>1. PICK n : n = wrStore.token + 1
  OBVIOUS
<1>2. n \in Nat /\ wrStore.token \in Nat /\ wrStore.token < n /\ wrScan \in WrScanType
  BY <1>1 DEF WrInv, WrTypes
<1>3. wrScan.snapshot \in Nat /\ wrScan.snapshot <= wrStore.token
  BY <1>2 DEF WrInv, WrRequestTrue, WrScanType
<1>4. CASE WrCompletes(found)
  <2>1. /\ wrStore' = [token |-> n, found |-> found, channels |-> wrScan.plan.channels]
        /\ wrScan' = [wrScan EXCEPT !.phase = "complete", !.snapshot = n]
        /\ UNCHANGED <<wrRequest, wrBridge, wrFrame, wrSent>>
    BY <1>1, <1>4 DEF WrCompletes
  <2>2. wrScan' \in WrScanType /\ wrScan'.token = wrScan.token /\ wrScan'.plan = wrScan.plan /\ wrScan'.snapshot = n
    BY <1>2, <2>1 DEF WrScanType
  <2>3. wrStore'.token = n /\ wrStore'.channels = wrScan.plan.channels
    BY <2>1
  <2> QED
    BY <1>2, <2>1, <2>2, <2>3, WrStoredKeeps
<1>5. CASE WrOtherSnapshot(found)
  <2>1. /\ wrStore' = [token |-> n, found |-> found, channels |-> <<1>>]
        /\ UNCHANGED <<wrScan, wrRequest, wrBridge, wrFrame, wrSent>>
    BY <1>1, <1>5 DEF WrOtherSnapshot
  <2>2. wrStore'.token = n
    BY <2>1
  <2> QED
    BY <1>2, <1>3, <2>1, <2>2, WrStoredKeeps
<1> QED
  BY <1>4, <1>5

\* Cancellation, expiry, a failed dwell, a selection, disable, a fault and shutdown.
LEMMA WrEndsKeeps ==
  ASSUME WrInv, WrCancelled \/ WrDown
  PROVE  WrInv'
<1>1. wrScan' = IF wrScan.phase = "running" THEN [wrScan EXCEPT !.phase = "failed"] ELSE wrScan
  BY DEF WrCancelled, WrDown
<1>2. /\ wrBridge' = WrAborted(wrBridge) /\ wrRequest' = [WrNoRequest EXCEPT !.token = wrRequest.token]
      /\ UNCHANGED <<wrStore, wrFrame, wrSent>>
  BY DEF WrCancelled, WrDown, WrAbortDraft
<1>3. /\ wrScan' \in WrScanType /\ wrScan'.snapshot = wrScan.snapshot /\ wrScan'.plan = wrScan.plan
      /\ wrScan'.phase = "complete" => wrScan.phase = "complete"
  BY <1>1 DEF WrInv, WrTypes, WrScanType
<1>4. ~wrRequest'.valid
  BY <1>2 DEF WrNoRequest
<1>5. WrRequestTrue'
  BY <1>2, <1>3, <1>4 DEF WrInv, WrRequestTrue
<1>6. WrBridgeIs(wrBridge') /\ WrDelivering(wrBridge', wrSent) /\ wrBridge'.draft.phase \notin WrOpen
  BY <1>2, WrAbortedIs DEF WrInv, WrTypes
<1>7. wrStore'.token \in Nat
  BY <1>2 DEF WrInv, WrTypes
<1> QED
  BY <1>2, <1>3, <1>5, <1>6, <1>7, WrCloses

\* A step of the bridge itself.
LEMMA WrBridgeMoves ==
  ASSUME WrInv, UNCHANGED <<wrScan, wrStore, wrRequest>>, wrFrame' \in WrFrameType, wrSent' \in Seq(WrFrameType),
         WrBridgeIs(wrBridge'), WrDelivering(wrBridge', wrSent'),
         wrBridge'.draft.phase \in WrOpen => wrRequest.valid /\ wrRequest.token = wrBridge'.draft.request
  PROVE  WrInv'
<1>1. WrTypes' /\ WrRequestTrue'
  BY DEF WrInv, WrTypes, WrRequestTrue
<1>2. WrDraftNeedsRequest'
  BY DEF WrDraftNeedsRequest, WrOpen
<1> QED
  BY <1>1, <1>2 DEF WrInv

\* An aborted draft is one.
LEMMA WrAbortsKeeps ==
  ASSUME WrInv, UNCHANGED <<wrScan, wrStore, wrRequest, wrFrame, wrSent>>, wrBridge' = WrAborted(wrBridge)
  PROVE  WrInv'
<1>1. WrBridgeIs(wrBridge') /\ WrDelivering(wrBridge', wrSent) /\ wrBridge'.draft.phase \notin WrOpen
  BY WrAbortedIs DEF WrInv, WrTypes
<1> QED
  BY <1>1, WrBridgeMoves DEF WrInv, WrTypes

\* begin() of the bridge.
LEMMA WrArmKeeps ==
  ASSUME WrInv, NEW token, WrArm(token)
  PROVE  WrInv'
<1>1. PICK d : d = [WrIdle EXCEPT !.phase = "ready", !.request = wrScan.token, !.snapshot = wrScan.snapshot,
                                  !.indices = WrEligible]
  OBVIOUS
<1>2. /\ wrBridge' = [wrBridge EXCEPT !.lastArmed = wrScan.token, !.draft = d] /\ wrSent' = <<>>
      /\ UNCHANGED <<wrScan, wrStore, wrRequest, wrFrame>> /\ wrRequest.valid
  BY <1>1 DEF WrArm
<1>3. /\ DOMAIN d = {"phase", "request", "snapshot", "indices", "cursor", "pending"} /\ d.phase = "ready"
      /\ d.request = wrScan.token /\ d.snapshot = wrScan.snapshot /\ d.cursor = 0 /\ d.pending = WrNoFrame
  BY <1>1 DEF WrIdle
<1>4. DOMAIN wrBridge' = DOMAIN wrBridge /\ wrBridge'.draft = d /\ wrBridge'.delivery = wrBridge.delivery
  BY <1>2 DEF WrInv, WrTypes, WrBridgeIs
<1>5. wrScan.token \in Nat /\ wrScan.snapshot \in Nat /\ wrFrame \in WrFrameType
  BY DEF WrInv, WrTypes, WrScanType
<1>6. WrBridgeIs(wrBridge')
  BY <1>3, <1>4, <1>5, WrNoFrameIs DEF WrBridgeIs, WrInv, WrTypes
<1>7. WrDelivering(wrBridge', wrSent')
  BY <1>2, <1>3, <1>4 DEF WrDelivering, WrOrdered
<1>8. wrRequest.token = wrBridge'.draft.request
  BY <1>2, <1>3, <1>4 DEF WrInv, WrRequestTrue
<1> QED
  BY <1>2, <1>5, <1>6, <1>7, <1>8, WrBridgeMoves

\* reserve() of the bridge.
LEMMA WrReserveKeeps ==
  ASSUME WrInv, NEW token, WrReserve(token)
  PROVE  WrInv'
<1>1. CASE WrCurrent
  <2>1. PICK n : n = wrBridge.delivery + 1
    OBVIOUS
  <2>2. PICK f : f = [request |-> wrBridge.draft.request, snapshot |-> wrBridge.draft.snapshot, delivery |-> n,
                      done |-> wrBridge.draft.cursor = Len(wrBridge.draft.indices), ordinal |-> wrBridge.draft.cursor]
    OBVIOUS
  <2>3. n \in Nat /\ WrBridgeIs(wrBridge) /\ wrBridge.draft.phase = "ready"
    BY <2>1 DEF WrInv, WrTypes, WrBridgeIs, WrReserve
  <2>4. /\ f \in WrFrameType /\ f.request = wrBridge.draft.request /\ f.snapshot = wrBridge.draft.snapshot
        /\ f.delivery = n /\ f.ordinal = wrBridge.draft.cursor
        /\ f.done <=> wrBridge.draft.cursor = Len(wrBridge.draft.indices)
    BY <2>2, <2>3 DEF WrFrameType, WrBridgeIs
  <2>5. PICK d : d = [wrBridge.draft EXCEPT !.pending = f, !.phase = "reserved"]
    OBVIOUS
  <2>6. /\ wrFrame' = f
        /\ wrBridge' = [wrBridge EXCEPT !.delivery = n, !.draft.pending = f, !.draft.phase = "reserved"]
        /\ UNCHANGED <<wrScan, wrStore, wrRequest, wrSent>> /\ wrRequest.valid
    BY <1>1, <2>1, <2>2, <2>4 DEF WrReserve
  <2>7. wrBridge' = [wrBridge EXCEPT !.delivery = n, !.draft = d]
    BY <2>3, <2>5, <2>6 DEF WrBridgeIs
  <2>8. /\ DOMAIN d = DOMAIN wrBridge.draft /\ d.phase = "reserved" /\ d.pending = f
        /\ d.request = wrBridge.draft.request /\ d.snapshot = wrBridge.draft.snapshot
        /\ d.cursor = wrBridge.draft.cursor /\ d.indices = wrBridge.draft.indices
    BY <2>3, <2>5 DEF WrBridgeIs
  <2>9. DOMAIN wrBridge' = DOMAIN wrBridge /\ wrBridge'.draft = d /\ wrBridge'.delivery = n
    BY <2>3, <2>7 DEF WrBridgeIs
  <2>10. WrBridgeIs(wrBridge')
    BY <2>3, <2>4, <2>8, <2>9 DEF WrBridgeIs
  <2>11. WrDelivering(wrBridge, wrSent) /\ wrSent \in Seq(WrFrameType)
    BY DEF WrInv, WrTypes
  <2>12. WrDelivering(wrBridge', wrSent')
    BY <2>3, <2>4, <2>6, <2>8, <2>9, <2>11 DEF WrDelivering
  <2>13. wrRequest.token = wrBridge'.draft.request
    BY <2>3, <2>8, <2>9 DEF WrInv, WrDraftNeedsRequest
  <2> QED
    BY <2>4, <2>6, <2>10, <2>11, <2>12, <2>13, WrBridgeMoves
<1>2. CASE ~WrCurrent
  BY <1>2, WrAbortsKeeps DEF WrReserve
<1> QED
  BY <1>1, <1>2

\* The frame that is committed is the one reserved, and of the snapshot in the store.
WrFrameCurrent(f) == f.snapshot = wrStore.token /\ f.request = wrScan.token

\* commit() of the bridge.
LEMMA WrCommitKeeps ==
  ASSUME WrInv, NEW accepted \in BOOLEAN, WrCommit(wrFrame, accepted)
  PROVE  WrInv' /\ (wrSent' # wrSent => wrSent' = Append(wrSent, wrFrame) /\ WrFrameCurrent(wrFrame))
<1>0. PICK f : f = wrFrame
  OBVIOUS
<1>1. /\ wrBridge.draft.phase = "reserved" /\ f = wrBridge.draft.pending
      /\ UNCHANGED <<wrScan, wrStore, wrRequest, wrFrame>>
  BY <1>0 DEF WrCommit, WrMatches
<1>2. CASE accepted /\ WrCurrent
  <2>1. WrAccept(f)
    BY <1>0, <1>2 DEF WrCommit
  <2>2. WrBridgeIs(wrBridge) /\ WrDelivering(wrBridge, wrSent) /\ wrSent \in Seq(WrFrameType) /\ f \in WrFrameType
    BY <1>0 DEF WrInv, WrTypes
  <2>3. PICK phase : phase = IF f.done THEN "completed" ELSE "ready"
    OBVIOUS
  <2>4. PICK cursor : cursor = IF f.done THEN wrBridge.draft.cursor ELSE wrBridge.draft.cursor + 1
    OBVIOUS
  <2>5. cursor \in Nat /\ wrBridge.draft.cursor \in Nat
    BY <2>2, <2>4 DEF WrBridgeIs
  <2>6. PICK d : d = [wrBridge.draft EXCEPT !.pending = WrNoFrame, !.phase = phase, !.cursor = cursor]
    OBVIOUS
  <2>7. wrBridge' = [wrBridge EXCEPT !.draft = d] /\ wrSent' = Append(wrSent, f)
    BY <2>1, <2>2, <2>3, <2>4, <2>6 DEF WrAccept, WrBridgeIs
  <2>8. /\ DOMAIN d = DOMAIN wrBridge.draft /\ d.phase = phase /\ d.pending = WrNoFrame
        /\ d.request = wrBridge.draft.request /\ d.snapshot = wrBridge.draft.snapshot
        /\ d.cursor = cursor /\ d.indices = wrBridge.draft.indices
    BY <2>2, <2>6 DEF WrBridgeIs
  <2>9. DOMAIN wrBridge' = DOMAIN wrBridge /\ wrBridge'.draft = d /\ wrBridge'.delivery = wrBridge.delivery
    BY <2>2, <2>7 DEF WrBridgeIs
  <2>10. WrBridgeIs(wrBridge')
    BY <2>2, <2>3, <2>5, <2>8, <2>9, WrNoFrameIs DEF WrBridgeIs
  <2>11. /\ Len(wrSent) = wrBridge.draft.cursor
         /\ \A i \in 1 .. Len(wrSent) : /\ ~wrSent[i].done /\ wrSent[i].snapshot = d.snapshot
                                        /\ wrSent[i].request = d.request /\ wrSent[i].ordinal = i - 1
         /\ f.request = d.request /\ f.snapshot = d.snapshot /\ f.ordinal = wrBridge.draft.cursor
         /\ f.done <=> wrBridge.draft.cursor = Len(wrBridge.draft.indices)
    BY <1>1, <2>2, <2>8 DEF WrDelivering, WrOrdered
  <2>12. PICK sent : sent = Append(wrSent, f)
    OBVIOUS
  <2>13. /\ sent \in Seq(WrFrameType) /\ Len(sent) = Len(wrSent) + 1 /\ Len(wrSent) \in Nat
         /\ \A i \in 1 .. Len(wrSent) : sent[i] = wrSent[i]
         /\ sent[Len(wrSent) + 1] = f
    BY <2>2, <2>12
  <2>14. \A i \in 1 .. Len(sent) : i \in 1 .. Len(wrSent) \/ i = Len(wrSent) + 1
    BY <2>13
  <2>15. \A i \in 1 .. Len(sent) : /\ sent[i].snapshot = d.snapshot /\ sent[i].request = d.request
                                   /\ sent[i].ordinal = i - 1
    <3> SUFFICES ASSUME NEW i \in 1 .. Len(sent)
                 PROVE  /\ sent[i].snapshot = d.snapshot /\ sent[i].request = d.request
                        /\ sent[i].ordinal = i - 1
      OBVIOUS
    <3>1. CASE i \in 1 .. Len(wrSent)
      BY <2>11, <2>13, <3>1
    <3>2. CASE i = Len(wrSent) + 1
      <4>1. sent[i] = f /\ i - 1 = Len(wrSent)
        BY <2>13, <3>2
      <4> QED
        BY <2>11, <4>1
    <3> QED
      BY <2>14, <3>1, <3>2
  <2>16. \A i \in 1 .. Len(sent) : sent[i].done => i = Len(sent) /\ f.done
    BY <2>11, <2>13, <2>14
  <2>17. 1 \in 1 .. Len(sent)
    BY <2>13
  <2>18. WrOrdered(sent)
    BY <2>15, <2>16, <2>17 DEF WrOrdered
  <2>19. WrDelivering(wrBridge', sent)
    <3>1. CASE f.done
      <4>1. d.phase = "completed" /\ Len(sent) = Len(d.indices) + 1
        BY <2>3, <2>8, <2>11, <2>13, <3>1
      <4> QED
        BY <2>9, <2>18, <4>1 DEF WrDelivering
    <3>2. CASE ~f.done
      <4>1. d.phase = "ready" /\ Len(sent) = d.cursor
        BY <2>3, <2>4, <2>8, <2>11, <2>13, <3>2
      <4>2. \A i \in 1 .. Len(sent) : ~sent[i].done
        BY <2>16, <3>2
      <4> QED
        BY <2>9, <2>15, <2>18, <4>1, <4>2 DEF WrDelivering
    <3> QED
      BY <3>1, <3>2
  <2>20. wrRequest.valid /\ wrRequest.token = wrBridge'.draft.request
    BY <1>1, <2>8, <2>9 DEF WrInv, WrDraftNeedsRequest
  <2>21. WrInv'
    BY <1>0, <1>1, <2>2, <2>7, <2>10, <2>12, <2>13, <2>19, <2>20, WrBridgeMoves
  <2>22. WrFrameCurrent(f)
    BY <1>2, <2>8, <2>11 DEF WrCurrent, WrSame, WrFrameCurrent
  <2> QED
    BY <1>0, <2>7, <2>21, <2>22
<1>3. CASE ~(accepted /\ WrCurrent)
  <2>1. wrBridge' = WrAborted(wrBridge) /\ wrSent' = wrSent
    BY <1>3 DEF WrCommit
  <2> QED
    BY <1>1, <2>1, WrAbortsKeeps
<1> QED
  BY <1>2, <1>3

\* retire.
LEMMA WrRetireKeeps ==
  ASSUME WrInv, NEW token, WrRetire(token)
  PROVE  WrInv'
<1>1. /\ wrBridge' = WrRetired(WrAborted(wrBridge)) /\ wrRequest' = WrNoRequest
      /\ UNCHANGED <<wrScan, wrStore, wrFrame, wrSent>>
  BY DEF WrRetire
<1>2. ~wrRequest'.valid
  BY <1>1 DEF WrNoRequest
<1>3. WrRequestTrue'
  BY <1>1, <1>2 DEF WrInv, WrRequestTrue
<1>4. wrScan' \in WrScanType /\ wrStore'.token \in Nat
  BY <1>1 DEF WrInv, WrTypes
<1> QED
  BY <1>1, <1>3, <1>4, WrSupersededIs, WrCloses

\* A frame is added to those accepted only while it is of the snapshot in the store.
WrFrameFresh ==
  wrSent' # wrSent /\ wrSent' # <<>> =>
    /\ wrSent'[Len(wrSent')].snapshot = wrStore.token
    /\ wrSent'[Len(wrSent')].request = wrScan.token

\* Every step of the front end.
LEMMA WrStep ==
  ASSUME WrInv, WrNext
  PROVE  WrInv' /\ WrFrameFresh
<1>1. CASE \E accepted \in BOOLEAN : WrCommit(wrFrame, accepted)
  <2>1. PICK accepted \in BOOLEAN : WrCommit(wrFrame, accepted)
    BY <1>1
  <2>2. WrInv' /\ (wrSent' # wrSent => wrSent' = Append(wrSent, wrFrame) /\ WrFrameCurrent(wrFrame))
    BY <2>1, WrCommitKeeps
  <2>3. wrSent \in Seq(WrFrameType) /\ wrFrame \in WrFrameType
    BY DEF WrInv, WrTypes
  <2>4. PICK sent : sent = Append(wrSent, wrFrame)
    OBVIOUS
  <2>5. sent[Len(sent)] = wrFrame
    BY <2>3, <2>4
  <2> QED
    BY <2>2, <2>4, <2>5 DEF WrFrameFresh, WrFrameCurrent
<1>2. CASE \E m \in WrMessages \cup {WrNoMessage}, starts \in BOOLEAN : WrBegin(m, starts)
  <2>1. wrSent' = wrSent
    BY <1>2 DEF WrBegin
  <2> QED
    BY <1>2, <2>1, WrBeginKeeps DEF WrFrameFresh
<1>3. CASE \E found \in WrResults : WrCompletes(found) \/ WrOtherSnapshot(found)
  <2>1. wrSent' = wrSent
    BY <1>3 DEF WrCompletes, WrOtherSnapshot
  <2> QED
    BY <1>3, <2>1, WrPublishesKeeps DEF WrFrameFresh
<1>4. CASE WrCancelled \/ WrDown
  <2>1. wrSent' = wrSent
    BY <1>4 DEF WrCancelled, WrDown
  <2> QED
    BY <1>4, <2>1, WrEndsKeeps DEF WrFrameFresh
<1>5. ASSUME NEW token \in 1 .. WrScans, WrArm(token) \/ WrReserve(token) \/ WrRetire(token)
      PROVE  WrInv' /\ WrFrameFresh
  <2>1. wrSent' = wrSent \/ wrSent' = <<>>
    BY <1>5 DEF WrArm, WrReserve, WrRetire
  <2> QED
    BY <1>5, <2>1, WrArmKeeps, WrReserveKeeps, WrRetireKeeps DEF WrFrameFresh
<1> QED
  BY <1>1, <1>2, <1>3, <1>4, <1>5 DEF WrNext

\* A step of another part changes nothing here.
LEMMA WrStutters ==
  ASSUME WrInv, UNCHANGED wrVars
  PROVE  WrInv' /\ WrFrameFresh
<1>1. /\ wrScan' = wrScan /\ wrStore' = wrStore /\ wrRequest' = wrRequest /\ wrBridge' = wrBridge
      /\ wrFrame' = wrFrame /\ wrSent' = wrSent
  BY DEF wrVars
<1> QED
  BY <1>1 DEF WrInv, WrTypes, WrRequestTrue, WrDraftNeedsRequest, WrFrameFresh

\* No request, no draft and no frame.
LEMMA WrStart ==
  ASSUME WrInit
  PROVE  WrInv
<1>1. wrScan \in WrScanType /\ wrScan.snapshot = 0 /\ wrScan.phase = "none"
  BY DEF WrInit, WrScanType
<1>2. wrStore.token = 0 /\ wrFrame = WrNoFrame /\ wrSent = <<>> /\ ~wrRequest.valid
  BY DEF WrInit, WrNoRequest
<1>3. DOMAIN wrBridge = {"draft", "lastArmed", "delivery"} /\ wrBridge.draft = WrIdle /\ wrBridge.delivery = 0
  BY DEF WrInit
<1>4. /\ DOMAIN WrIdle = {"phase", "request", "snapshot", "indices", "cursor", "pending"}
      /\ WrIdle.phase = "idle" /\ WrIdle.request = 0 /\ WrIdle.snapshot = 0 /\ WrIdle.cursor = 0
      /\ WrIdle.pending = WrNoFrame
  BY DEF WrIdle
<1>5. WrTypes
  BY <1>1, <1>2, <1>3, <1>4, WrNoFrameIs DEF WrTypes, WrBridgeIs
<1>6. WrRequestTrue /\ WrDraftNeedsRequest /\ WrDelivering(wrBridge, wrSent)
  BY <1>1, <1>2, <1>3, <1>4 DEF WrRequestTrue, WrDraftNeedsRequest, WrDelivering, WrOrdered
<1> QED
  BY <1>5, <1>6 DEF WrInv

\* What the invariant says of requests, drafts and frames.
LEMMA WrSafe ==
  ASSUME WrInv
  PROVE  WrAdmittedIsArmable /\ WrDraftNeedsRequest /\ WrFramesInOrder
<1>1. WrAdmittedIsArmable
  BY DEF WrInv, WrRequestTrue, WrAdmittedIsArmable, WrSame, WrValidRequest, WrPlans, WrPlan, WrPlanDwell
<1>2. WrFramesInOrder
  BY DEF WrInv, WrDelivering, WrOrdered, WrFramesInOrder
<1> QED
  BY <1>1, <1>2 DEF WrInv

----------------------------------------------------------------------------
(* The reading of the fuses *)

\* Stages, the bits of the supply and the engine behind the port.
EfTypes ==
  /\ efStage \in {"ddv", "dav", "phycap", "complete", "failed"} /\ efCut \in 0..1 /\ efIndex \in Nat
  /\ efRestored \in BOOLEAN /\ efRecovery \in BOOLEAN
  /\ DOMAIN efRail = {"pmc", "power", "core", "iso", "burst"}
  /\ DOMAIN efEngine = {"state", "address"} /\ efEngine.state \in {"rest", "reading", "ready"}

\* Where iso stands among the switches of restore().
EfIsoAt == IF efCut = 0 THEN 2 ELSE 1

\* What has been switched at each point of enable() and of restore().
EfSwitched ==
  /\ efStep = "on" => /\ efIndex \in 1..Len(EfOn) /\ efRestored
                      /\ efIndex <= 4 => efRail.iso = 1
                      /\ efIndex >= 2 => efRail.pmc = 1
                      /\ efIndex >= 3 => efRail.power = 1
                      /\ efIndex >= 4 => efRail.core = 1
  /\ efStep = "off" => /\ efIndex \in 1..Len(EfOff)
                       /\ efRestored /\ efIndex > EfIsoAt => efRail.iso = 1
  /\ efStep \in {"verify", "judge"} /\ efRestored => efRail.iso = 1

\* The supply is as it was found before it is taken and once that was read back.
EfGivenBack ==
  /\ efStage \in {"ddv", "phycap"} /\ efStep = "begin" => efRail = efFound
  /\ efStage \in {"ddv", "phycap"} /\ efStep = "judge" /\ efRestored => efRail = efFound
  /\ efStage = "dav" => efRail = efFound /\ efStep \in {"begin", "command", "wait", "drain", "drained"}

\* Where a command of the reader or its engine can still be at work.
EfPortKept ==
  /\ efStage \in {"ddv", "phycap"} \/ (efStage = "dav" /\ efStep = "begin")
       => efPort \in {"none", "foreign"} /\ efEngine.state # "reading"
  /\ efStage = "dav" /\ efStep = "command" => efPort = "none"
  /\ efStage = "dav" /\ efStep = "drained"
       => efPort \in {"ready", "none"} /\ (efPort = "none" /\ efReply \in {1, 2} => efEngine.state # "reading")

EfInv == EfTypes /\ EfSwitched /\ EfGivenBack /\ EfPortKept /\ EfLeftAsFound /\ EfIsolated

\* What a step may do to the port.
EfAlone == efPort # "none" => efPort' \in {efPort, "none"}

\* The switches, one by one.
LEMMA EfSwitches ==
  ASSUME efCut \in 0..1
  PROVE  /\ Len(EfOn) = (IF efCut = 0 THEN 5 ELSE 4)
         /\ EfOn[1] = <<"pmc", 1>> /\ EfOn[2] = <<"power", 1>> /\ EfOn[3] = <<"core", 1>> /\ EfOn[4] = <<"iso", 0>>
         /\ efCut = 0 => EfOn[5] = <<"burst", 1>>
         /\ Len(EfOff) = (IF efCut = 0 THEN 5 ELSE 4)
         /\ efCut = 0 => EfOff[1] = <<"burst", efFound.burst>>
         /\ EfOff[EfIsoAt] = <<"iso", 1>> /\ EfOff[EfIsoAt + 1] = <<"core", 0>>
         /\ EfOff[EfIsoAt + 2] = <<"power", 0>> /\ EfOff[EfIsoAt + 3] = <<"pmc", efFound.pmc>>
<1>1. CASE efCut = 0
  BY <1>1 DEF EfOn, EfOff, EfIsoAt
<1>2. CASE efCut = 1
  BY <1>2 DEF EfOn, EfOff, EfIsoAt
<1> QED
  BY <1>1, <1>2

\* A supply that is taken is off.
LEMMA EfAcquireKeeps ==
  ASSUME EfInv, EfAcquire
  PROVE  EfInv' /\ EfAlone
<1>1. UNCHANGED <<efRail, efPort, efEngine, efReply, efCut>> /\ EfRailStage /\ efStep = "begin" /\ efIndex' = 1
  BY DEF EfAcquire, efDevice, EfGoto, EfFailed
<1>2. CASE EfQuiet(efRail) /\ efFound' = efRail /\ efRestored' = TRUE /\ efStep' = "on" /\ UNCHANGED <<efStage, efRecovery>>
  <2>1. Len(EfOn') = (IF efCut = 0 THEN 5 ELSE 4)
    BY <1>1, EfSwitches DEF EfOn, EfInv, EfTypes
  <2> QED
    BY <1>1, <1>2, <2>1 DEF EfInv, EfTypes, EfSwitched, EfGivenBack, EfPortKept, EfLeftAsFound, EfIsolated, EfQuiet,
           EfRailStage, EfAlone
<1>3. CASE efStage' = "failed" /\ efRecovery' = FALSE /\ efStep' = "end" /\ UNCHANGED <<efFound, efRestored>>
  BY <1>1, <1>3 DEF EfInv, EfTypes, EfSwitched, EfGivenBack, EfPortKept, EfLeftAsFound, EfIsolated, EfRailStage, EfAlone
<1> QED
  BY <1>1, <1>2, <1>3 DEF EfAcquire, EfGoto, EfFailed

\* A switch is set and the others are as they were.
LEMMA EfSwitchIs ==
  ASSUME EfTypes, NEW bit \in DOMAIN efRail, NEW value, efRail' = [efRail EXCEPT ![bit] = value]
  PROVE  /\ DOMAIN efRail' = DOMAIN efRail
         /\ \A b \in DOMAIN efRail : efRail'[b] = IF b = bit THEN value ELSE efRail[b]
BY DEF EfTypes

\* enable() supplies the bank before it connects it.
LEMMA EfSwitchOnKeeps ==
  ASSUME EfInv, EfSwitchOn
  PROVE  EfInv' /\ EfAlone
<1>1. /\ UNCHANGED <<efStage, efRestored, efRecovery, efCut, efFound, efPort, efEngine, efReply>>
      /\ EfRailStage /\ efStep = "on" /\ efIndex \in 1..Len(EfOn)
  BY DEF EfSwitchOn, EfInv, EfSwitched
<1>2. Len(EfOff') = (IF efCut = 0 THEN 5 ELSE 4) /\ Len(EfOn') = (IF efCut = 0 THEN 5 ELSE 4)
  BY <1>1, EfSwitches DEF EfOn, EfOff, EfInv, EfTypes
<1>3. CASE efRail' = efRail /\ efStep' = "off" /\ efIndex' = 1
  BY <1>1, <1>2, <1>3 DEF EfInv, EfTypes, EfSwitched, EfGivenBack, EfPortKept, EfLeftAsFound, EfIsolated, EfPowered,
         EfRailStage, EfAlone, EfIsoAt
<1>4. CASE EfSwitch(EfOn) /\ IF efIndex = Len(EfOn) THEN EfGoto("read") ELSE efIndex' = efIndex + 1 /\ efStep' = efStep
  <2>1. PICK bit, value : bit = EfOn[efIndex][1] /\ value = EfOn[efIndex][2]
    OBVIOUS
  <2>2. /\ bit \in DOMAIN efRail
        /\ efIndex = 1 => bit = "pmc" /\ value = 1
        /\ efIndex = 2 => bit = "power" /\ value = 1
        /\ efIndex = 3 => bit = "core" /\ value = 1
        /\ efIndex = 4 => bit = "iso" /\ value = 0
        /\ efIndex = 5 => bit = "burst"
    <3>1. efCut \in 0..1 /\ DOMAIN efRail = {"pmc", "power", "core", "iso", "burst"}
      BY DEF EfInv, EfTypes
    <3>2. /\ EfOn[1] = <<"pmc", 1>> /\ EfOn[2] = <<"power", 1>> /\ EfOn[3] = <<"core", 1>> /\ EfOn[4] = <<"iso", 0>>
          /\ efCut = 0 => EfOn[5] = <<"burst", 1>>
          /\ Len(EfOn) = (IF efCut = 0 THEN 5 ELSE 4)
      BY <3>1, EfSwitches
    <3>3. efIndex \in 1..5 /\ (efIndex = 5 => efCut = 0)
      BY <1>1, <3>1, <3>2
    <3> QED
      BY <2>1, <3>1, <3>2, <3>3
  <2>3. efRail' = [efRail EXCEPT ![bit] = value]
    BY <1>4, <2>1 DEF EfSwitch
  <2>4. DOMAIN efRail' = DOMAIN efRail /\ \A b \in DOMAIN efRail : efRail'[b] = IF b = bit THEN value ELSE efRail[b]
    BY <2>2, <2>3, EfSwitchIs DEF EfInv
  <2>5. /\ efIndex = 1 => efRail'.pmc = 1 /\ efRail'.iso = efRail.iso
        /\ efIndex = 2 => efRail'.power = 1 /\ efRail'.iso = efRail.iso /\ efRail'.pmc = efRail.pmc
        /\ efIndex = 3 => efRail'.core = 1 /\ efRail'.iso = efRail.iso /\ efRail'.pmc = efRail.pmc /\ efRail'.power = efRail.power
        /\ efIndex \in {4, 5} => efRail'.pmc = efRail.pmc /\ efRail'.power = efRail.power /\ efRail'.core = efRail.core
    BY <2>2, <2>4 DEF EfInv, EfTypes
  <2>6. efIndex \in 1..5 /\ efRestored /\ (Len(EfOn) = 4 \/ Len(EfOn) = 5)
    <3>1. Len(EfOn) = (IF efCut = 0 THEN 5 ELSE 4)
      BY EfSwitches DEF EfInv, EfTypes
    <3>2. efIndex \in 1..5
      BY <1>1, <3>1
    <3> QED
      BY <1>1, <3>1, <3>2 DEF EfInv, EfSwitched
  <2>7. EfTypes'
    BY <1>1, <1>4, <2>4 DEF EfInv, EfTypes, EfGoto
  <2>8. EfIsolated'
    BY <1>1, <2>5, <2>6 DEF EfInv, EfSwitched, EfIsolated, EfPowered
  <2>9. EfSwitched'
    <3>1. Len(EfOn') = Len(EfOn)
      BY <1>1, <1>2, EfSwitches DEF EfInv, EfTypes
    <3>2. efIndex < Len(EfOn) => efIndex + 1 \in 1..Len(EfOn)
      BY <1>1, <2>6
    <3>3. CASE efIndex = Len(EfOn)
      BY <1>4, <3>3 DEF EfSwitched, EfGoto
    <3>4. CASE efIndex < Len(EfOn)
      <4>1. efIndex' = efIndex + 1 /\ efStep' = "on" /\ efIndex' \in 1..Len(EfOn')
        BY <1>1, <1>4, <3>1, <3>2, <3>4, <2>6
      <4>2. efIndex \in 1..4
        <5>1. CASE Len(EfOn) = 4
          BY <2>6, <3>4, <5>1
        <5>2. CASE Len(EfOn) = 5
          BY <2>6, <3>4, <5>2
        <5> QED
          BY <2>6, <5>1, <5>2
      <4> QED
        BY <1>1, <2>5, <2>6, <4>1, <4>2 DEF EfInv, EfSwitched
    <3> QED
      BY <1>1, <2>6, <3>3, <3>4
  <2>10. efStep' \in {"on", "read"}
    BY <1>1, <1>4 DEF EfGoto
  <2> QED
    BY <1>1, <2>7, <2>8, <2>9, <2>10 DEF EfInv, EfGivenBack, EfPortKept, EfLeftAsFound, EfRailStage, EfAlone
<1> QED
  BY <1>1, <1>3, <1>4 DEF EfSwitchOn, EfGoto

\* restore() disconnects the bank before it takes the supply away.
LEMMA EfSwitchOffKeeps ==
  ASSUME EfInv, EfSwitchOff
  PROVE  EfInv' /\ EfAlone
<1>1. /\ UNCHANGED <<efStage, efRecovery, efCut, efFound, efPort, efEngine, efReply>>
      /\ EfRailStage /\ efStep = "off" /\ efIndex \in 1..Len(EfOff)
  BY DEF EfSwitchOff, EfInv, EfSwitched
<1>2. Len(EfOff') = Len(EfOff) /\ Len(EfOff) = (IF efCut = 0 THEN 5 ELSE 4) /\ EfIsoAt' = EfIsoAt
  BY <1>1, EfSwitches DEF EfOff, EfInv, EfTypes, EfIsoAt
<1>3. efStep' \in {"off", "verify"} /\ efIndex' \in Nat
      /\ IF efIndex = Len(EfOff) THEN efStep' = "verify" ELSE efIndex' = efIndex + 1 /\ efStep' = "off"
  BY <1>1, <1>2 DEF EfSwitchOff, EfGoto, EfInv, EfTypes
<1>4. CASE efRestored' = FALSE /\ efRail' = efRail
  <2>1. EfSwitched'
    BY <1>1, <1>2, <1>3, <1>4 DEF EfInv, EfTypes, EfSwitched, EfIsoAt
  <2> QED
    BY <1>1, <1>3, <1>4, <2>1 DEF EfInv, EfTypes, EfGivenBack, EfPortKept, EfLeftAsFound, EfIsolated, EfRailStage, EfAlone
<1>5. CASE EfSwitch(EfOff) /\ efRestored' = efRestored
  <2>1. PICK bit, value : bit = EfOff[efIndex][1] /\ value = EfOff[efIndex][2]
    OBVIOUS
  <2>2. /\ bit \in DOMAIN efRail
        /\ efIndex < EfIsoAt => bit = "burst"
        /\ efIndex = EfIsoAt => bit = "iso" /\ value = 1
        /\ efIndex > EfIsoAt => bit # "iso"
    BY <1>1, <2>1, EfSwitches DEF EfInv, EfTypes, EfIsoAt
  <2>3. efRail' = [efRail EXCEPT ![bit] = value]
    BY <1>5, <2>1 DEF EfSwitch
  <2>4. DOMAIN efRail' = DOMAIN efRail /\ \A b \in DOMAIN efRail : efRail'[b] = IF b = bit THEN value ELSE efRail[b]
    BY <2>2, <2>3, EfSwitchIs DEF EfInv
  <2>5. /\ efIndex < EfIsoAt => /\ efRail'.iso = efRail.iso /\ efRail'.pmc = efRail.pmc
                                /\ efRail'.power = efRail.power /\ efRail'.core = efRail.core
        /\ efIndex = EfIsoAt => efRail'.iso = 1
        /\ efIndex > EfIsoAt => efRail'.iso = efRail.iso
    BY <2>2, <2>4 DEF EfInv, EfTypes
  <2>6. EfTypes'
    BY <1>1, <1>3, <1>5, <2>4 DEF EfInv, EfTypes
  <2>7. EfIsolated'
    BY <1>1, <1>2, <1>5, <2>5 DEF EfInv, EfTypes, EfSwitched, EfIsolated, EfPowered, EfIsoAt
  <2>8. EfSwitched'
    BY <1>1, <1>2, <1>3, <1>5, <2>5 DEF EfInv, EfTypes, EfSwitched, EfIsoAt
  <2> QED
    BY <1>1, <1>3, <2>6, <2>7, <2>8 DEF EfInv, EfGivenBack, EfPortKept, EfLeftAsFound, EfRailStage, EfAlone
<1> QED
  BY <1>4, <1>5 DEF EfSwitchOff

\* The bank is read, the switches are read back and the result is judged.
LEMMA EfBankKeeps ==
  ASSUME EfInv, EfReadBank \/ EfVerify \/ EfJudge
  PROVE  EfInv' /\ EfAlone
<1>1. UNCHANGED <<efRail, efPort, efEngine, efReply, efCut, efFound>> /\ EfRailStage
  BY DEF EfReadBank, EfVerify, EfJudge, efDevice
<1>2. Len(EfOff') = (IF efCut = 0 THEN 5 ELSE 4) /\ EfIsoAt' = EfIsoAt
  BY <1>1, EfSwitches DEF EfOff, EfInv, EfTypes, EfIsoAt
<1>3. CASE EfReadBank
  BY <1>1, <1>2, <1>3 DEF EfReadBank, EfGoto, EfInv, EfTypes, EfSwitched, EfGivenBack, EfPortKept, EfLeftAsFound,
         EfIsolated, EfRailStage, EfAlone, EfIsoAt
<1>4. CASE EfVerify
  BY <1>1, <1>2, <1>4 DEF EfVerify, EfVerified, EfGoto, EfInv, EfTypes, EfSwitched, EfGivenBack, EfPortKept, EfLeftAsFound,
         EfIsolated, EfRailStage, EfAlone
<1>5. CASE EfJudge
  <2>1. efStep = "judge" /\ efRestored' = efRestored /\ efIndex' = 1 /\ efStep' \in {"begin", "end"}
    BY <1>5 DEF EfJudge, EfGoto, EfFailed
  <2>2. \/ efRestored /\ efStage' = EfAfter[efStage] /\ efRecovery' = FALSE /\ efStep' = "begin"
        \/ efStage' = "failed" /\ efRecovery' = ~efRestored /\ efStep' = "end"
    BY <1>5 DEF EfJudge, EfGoto, EfFailed
  <2>3. efStage' \in {"dav", "complete", "failed"} /\ (efStage' # "failed" => efRestored)
        /\ (efStage' = "failed" => efRecovery' = ~efRestored) /\ efRecovery' \in BOOLEAN
    <3>1. EfAfter["ddv"] = "dav" /\ EfAfter["phycap"] = "complete"
      BY DEF EfAfter
    <3>2. efRestored => efStage' \in {"dav", "complete", "failed"}
      BY <1>1, <2>2, <3>1 DEF EfRailStage
    <3>3. efStage' # "failed" => efRestored
      BY <2>2
    <3>4. efRestored /\ efStage' = "failed" => efRecovery' = FALSE
      BY <1>1, <2>2, <3>1 DEF EfRailStage, EfInv, EfTypes
    <3>5. ~efRestored => efStage' = "failed" /\ efRecovery' = TRUE
      BY <2>2
    <3>6. efRecovery' \in BOOLEAN
      BY <2>2, <3>5
    <3> QED
      BY <3>2, <3>3, <3>4, <3>5, <3>6
  <2>4. efStage' = "dav" => efStep' = "begin"
    BY <1>1, <2>2
  <2> QED
    BY <1>1, <2>1, <2>3, <2>4 DEF EfInv, EfTypes, EfSwitched, EfGivenBack, EfPortKept, EfLeftAsFound, EfIsolated,
           EfRailStage, EfAlone
<1> QED
  BY <1>3, <1>4, <1>5

\* The serial port's part: the supply is not touched.
LEMMA EfDavKeeps ==
  ASSUME EfInv,
         EfDavBegin \/ EfDavCommand \/ EfDavAnswered \/ EfDavGivesUp \/ EfDavDrain \/ EfDavClean \/ EfDavPoisoned
  PROVE  EfInv' /\ EfAlone
<1>1. UNCHANGED <<efRail, efEngine, efReply, efCut, efFound, efRestored>> /\ efStage = "dav"
  BY DEF EfDavBegin, EfDavCommand, EfDavAnswered, EfDavGivesUp, EfDavDrain, EfDavClean, EfDavPoisoned, efDevice
<1>2. efIndex' \in Nat
  BY DEF EfDavBegin, EfDavCommand, EfDavAnswered, EfDavGivesUp, EfDavDrain, EfDavClean, EfDavPoisoned, EfGoto, EfFailed,
     EfInv, EfTypes, EfNextCommand, EfScript
<1>3. CASE /\ efStage' = "failed" /\ efStep' = "end" /\ efPort' = efPort
           /\ efRecovery' \in BOOLEAN /\ (~efRecovery' => efPort \in {"none", "foreign"} /\ efEngine.state # "reading")
  BY <1>1, <1>2, <1>3 DEF EfInv, EfTypes, EfSwitched, EfGivenBack, EfPortKept, EfLeftAsFound, EfIsolated, EfAlone
<1>4. CASE /\ efStage' = "dav" /\ efRecovery' = efRecovery
           /\ efStep' \in {"command", "wait", "drain", "drained"}
           /\ efPort' = efPort \/ efPort = "none"
           /\ efStep' = "command" => efPort' = "none"
           /\ efStep' = "drained" => efPort' = "ready"
  BY <1>1, <1>2, <1>4 DEF EfInv, EfTypes, EfSwitched, EfGivenBack, EfPortKept, EfLeftAsFound, EfIsolated, EfAlone
<1>5. CASE efStage' = "phycap" /\ efRecovery' = FALSE /\ efStep' = "begin" /\ efPort' = efPort /\ efPort = "none"
           /\ efEngine.state # "reading"
  BY <1>1, <1>2, <1>5 DEF EfInv, EfTypes, EfSwitched, EfGivenBack, EfPortKept, EfLeftAsFound, EfIsolated, EfAlone
<1>6. CASE EfDavBegin
  BY <1>1, <1>3, <1>4, <1>6 DEF EfDavBegin, EfGoto, EfFailed, EfInv, EfPortKept, efDevice
<1>7. CASE EfDavCommand
  BY <1>1, <1>4, <1>7 DEF EfDavCommand, EfGoto, EfInv, EfPortKept
<1>8. CASE EfDavAnswered \/ EfDavGivesUp \/ EfDavDrain
  BY <1>1, <1>4, <1>8 DEF EfDavAnswered, EfDavGivesUp, EfDavDrain, EfGoto, efDevice
<1>9. CASE EfDavClean
  <2>1. efPort' = efPort /\ efPort = "none" /\ efStep = "drained"
    BY <1>9 DEF EfDavClean, efDevice
  <2>2. CASE efReply \in {1, 2}
    <3>1. efEngine.state # "reading"
      BY <1>1, <2>1, <2>2 DEF EfInv, EfPortKept
    <3>2. EfAfter["dav"] = "phycap"
      BY DEF EfAfter
    <3> QED
      BY <1>1, <1>3, <1>5, <1>9, <2>1, <2>2, <3>1, <3>2 DEF EfDavClean, EfGoto, EfFailed, EfEngineIdle
  <2>3. CASE efReply \notin {1, 2}
    BY <1>1, <1>4, <1>9, <2>1, <2>3 DEF EfDavClean, EfGoto, EfEngineIdle
  <2> QED
    BY <2>2, <2>3
<1>10. CASE EfDavPoisoned
  BY <1>1, <1>3, <1>10 DEF EfDavPoisoned, EfFailed, EfGoto, efDevice
<1> QED
  BY <1>6, <1>7, <1>8, <1>9, <1>10

\* The port and the engine behind it.
LEMMA EfDeviceKeeps ==
  ASSUME EfInv, EfPortWorks \/ EfEngineReads
  PROVE  EfInv' /\ EfAlone
<1>1. UNCHANGED <<efStage, efStep, efIndex, efRestored, efRecovery, efCut, efFound, efRail>>
  BY DEF EfPortWorks, EfEngineReads, efReader
<1>2. EfAlone /\ efPort' \in {efPort, "none"}
  BY DEF EfPortWorks, EfEngineReads, EfAlone
<1>3. EfOn' = EfOn /\ EfOff' = EfOff /\ EfIsoAt' = EfIsoAt
  BY <1>1 DEF EfOn, EfOff, EfIsoAt
<1>4. DOMAIN efEngine' = {"state", "address"} /\ efEngine'.state \in {"rest", "reading", "ready"}
  BY DEF EfPortWorks, EfEngineReads, EfInv, EfTypes
<1>5. efEngine'.state = "reading" => efEngine.state = "reading" \/ efPort = "start"
  BY DEF EfPortWorks, EfEngineReads, EfInv, EfTypes
<1>6. /\ efPort = "ready" /\ efPort' = "none" /\ efReply' \in {1, 2} => efEngine'.state # "reading"
      /\ efPort = "none" => efReply' = efReply
  <2>1. CASE EfPortWorks
    <3>1. efPort = "ready" => efEngine' = efEngine /\ efReply' = [rest |-> 2, reading |-> 0, ready |-> 1][efEngine.state]
      BY <2>1 DEF EfPortWorks
    <3> QED
      BY <2>1, <3>1 DEF EfPortWorks, EfInv, EfTypes
  <2>2. CASE EfEngineReads
    BY <2>2, <1>4 DEF EfEngineReads, EfInv, EfTypes
  <2> QED
    BY <2>1, <2>2
<1> QED
  BY <1>1, <1>2, <1>3, <1>4, <1>5, <1>6 DEF EfInv, EfTypes, EfSwitched, EfGivenBack, EfPortKept, EfLeftAsFound, EfIsolated

\* Every step of the reading.
LEMMA EfStep ==
  ASSUME EfInv, EfNext \/ UNCHANGED efVars
  PROVE  EfInv' /\ EfAlone
<1>1. CASE UNCHANGED efVars
  BY <1>1 DEF efVars, efReader, efDevice, EfInv, EfTypes, EfSwitched, EfGivenBack, EfPortKept, EfLeftAsFound, EfIsolated,
       EfAlone, EfOn, EfOff, EfIsoAt
<1> QED
  BY <1>1, EfAcquireKeeps, EfSwitchOnKeeps, EfSwitchOffKeeps, EfBankKeeps, EfDavKeeps, EfDeviceKeeps DEF EfNext

\* Nothing is read at first.
LEMMA EfStarts ==
  ASSUME EfInit
  PROVE  EfInv
<1>1. DOMAIN efRail = {"pmc", "power", "core", "iso", "burst"} /\ (efRail.iso = 0 => EfPowered(efRail))
  BY DEF EfInit, EfPowered
<1>2. efStage = "ddv" /\ efStep = "begin" /\ efRail = efFound
  BY DEF EfInit
<1>3. EfTypes
  BY <1>1 DEF EfInit, EfTypes
<1> QED
  BY <1>1, <1>2, <1>3 DEF EfInit, EfInv, EfSwitched, EfGivenBack, EfPortKept, EfLeftAsFound, EfIsolated

----------------------------------------------------------------------------
(* A calibration under its lease *)

\* The fields that matter here.
RkTypes ==
  /\ DOMAIN rkRun = {"call", "pc", "done", "error", "stage", "oneshot", "flags", "home"}
  /\ rkRun.call \in DOMAIN RkCalls \cup {RkNoCall} /\ rkRun.pc \in Nat /\ rkRun.error \in BOOLEAN
  /\ DOMAIN rkIo = {"active", "lost", "modified", "armed", "oneshot"}
  /\ rkIo.armed \in BOOLEAN /\ rkIo.oneshot \in BOOLEAN /\ rkIo.active \in BOOLEAN /\ rkIo.modified \in BOOLEAN
  /\ DOMAIN rkLease = {"state", "oneshot"} /\ rkLease.oneshot \in BOOLEAN
  /\ DOMAIN rkDev = {"engine", "emitting", "gone"} /\ rkDev.engine \in BOOLEAN /\ rkDev.emitting \in BOOLEAN

\* Between calls, and after the last one: a failure keeps the lease.
RkIdle ==
  rkRun.call = RkNoCall => rkLease.state \in (IF rkRun.error THEN {"ready", "consumed"} ELSE {"none", "ended"})

\* Before begin() nothing has been started.
RkPending ==
  rkRun.call # RkNoCall /\ rkRun.pc = 0 =>
      ~rkRun.error /\ rkLease.state = "ready" /\ ~rkDev.engine /\ ~rkDev.emitting /\ ~rkLease.oneshot

\* A body without error has an engine under way only right after it started one, and
\* the transmitter marked right after arming it.
RkRunning ==
  rkRun.call # RkNoCall /\ rkRun.pc # 0 =>
      /\ rkLease.state = "consumed" /\ rkIo.active
      /\ ~rkRun.error =>
            /\ rkDev.engine => rkRun.pc > 1 /\ RkOps[rkRun.pc - 1] = "engine"
            /\ rkRun.pc > 1 /\ RkOps[rkRun.pc - 1] = "arm" => rkIo.armed /\ rkIo.oneshot

\* Without an error the lease and MacRfkIo agree about the notification.
RkTold == ~rkRun.error => rkIo.oneshot = rkLease.oneshot

RkInv == RkTypes /\ RkIdle /\ RkPending /\ RkRunning /\ RkTold /\ RkEndedQuiet /\ RkEmissionCovered

\* What a step may do to the notification.
RkHonest ==
  rkLease.oneshot /\ ~rkLease'.oneshot /\ rkLease'.state = "consumed" => ~rkRun.error \/ ~rkIo.modified

\* In every body an engine is waited for next, and only an armed transmitter is started.
RkShape(ops) ==
  \A i \in 1..Len(ops) :
     /\ ops[i] = "engine" => i < Len(ops) /\ ops[i + 1] = "poll"
     /\ ops[i] = "emit" => i > 1 /\ ops[i - 1] = "arm"

\* The two paths of the IQ calibration, access by access.
LEMMA RkIqkIs ==
  /\ Len(RkBody.iqk) = 14
  /\ RkBody.iqk[1] = "poll" /\ RkBody.iqk[2] = "start" /\ RkBody.iqk[3] = "write" /\ RkBody.iqk[4] = "engine"
  /\ RkBody.iqk[5] = "poll" /\ RkBody.iqk[6] = "write" /\ RkBody.iqk[7] = "stop"
  /\ RkBody.iqk[8] = "start" /\ RkBody.iqk[9] = "write" /\ RkBody.iqk[10] = "engine"
  /\ RkBody.iqk[11] = "poll" /\ RkBody.iqk[12] = "write" /\ RkBody.iqk[13] = "stop" /\ RkBody.iqk[14] = "quality"
<1>1. PICK S : S = {"poll", "start", "write", "engine", "stop", "quality"}
  OBVIOUS
<1>2. PICK p : p = <<"poll">> \o RkPath
  OBVIOUS
<1>3. /\ p \in Seq(S) /\ Len(p) = 7
      /\ p[1] = "poll" /\ p[2] = "start" /\ p[3] = "write" /\ p[4] = "engine" /\ p[5] = "poll" /\ p[6] = "write"
      /\ p[7] = "stop"
  BY <1>1, <1>2 DEF RkPath
<1>4. PICK r : r = RkPath
  OBVIOUS
<1>5. /\ r \in Seq(S) /\ Len(r) = 6
      /\ r[1] = "start" /\ r[2] = "write" /\ r[3] = "engine" /\ r[4] = "poll" /\ r[5] = "write" /\ r[6] = "stop"
  BY <1>1, <1>4 DEF RkPath
<1>6. PICK t : t = <<"quality">>
  OBVIOUS
<1>7. t \in Seq(S) /\ Len(t) = 1 /\ t[1] = "quality"
  BY <1>1, <1>6
<1>8. PICK q : q = p \o r
  OBVIOUS
<1>9. /\ q \in Seq(S) /\ Len(q) = Len(p) + Len(r)
      /\ \A i \in 1 .. Len(p) + Len(r) : q[i] = IF i <= Len(p) THEN p[i] ELSE r[i - Len(p)]
  BY <1>3, <1>5, <1>8, ConcatProperties, Zenon
<1>10. q \in Seq(S) /\ Len(q) = 13 /\ \A i \in 1..13 : q[i] = IF i <= 7 THEN p[i] ELSE r[i - 7]
  BY <1>3, <1>5, <1>9
<1>11. PICK s : s = q \o t
  OBVIOUS
<1>12. /\ Len(s) = Len(q) + Len(t)
       /\ \A i \in 1 .. Len(q) + Len(t) : s[i] = IF i <= Len(q) THEN q[i] ELSE t[i - Len(q)]
  BY <1>7, <1>10, <1>11, ConcatProperties, Zenon
<1>13. Len(s) = 14 /\ \A i \in 1..14 : s[i] = IF i <= 13 THEN q[i] ELSE t[i - 13]
  BY <1>7, <1>10, <1>12
<1>14. RkBody.iqk = s
  BY <1>2, <1>4, <1>6, <1>8, <1>11 DEF RkBody
<1> QED
  BY <1>3, <1>5, <1>7, <1>10, <1>13, <1>14

\* All the bodies have that shape.
LEMMA RkBodies ==
  ASSUME NEW call \in DOMAIN RkCalls
  PROVE  RkShape(RkBody[RkCalls[call]]) /\ Len(RkBody[RkCalls[call]]) \in Nat
<1>1. RkShape(RkBody.rck) /\ RkShape(RkBody.rxDc) /\ RkShape(RkBody.track) /\ RkShape(RkBody.scan)
  BY DEF RkBody, RkShape
<1>2. RkShape(RkBody.dack) /\ RkShape(RkBody.dpk)
  BY DEF RkBody, RkShape
<1>3. RkShape(RkBody.tssi)
  BY DEF RkBody, RkShape
<1>4. RkShape(RkBody.iqk)
  BY RkIqkIs DEF RkShape
<1>5. /\ Len(RkBody.rck) \in Nat /\ Len(RkBody.rxDc) \in Nat /\ Len(RkBody.track) \in Nat /\ Len(RkBody.scan) \in Nat
      /\ Len(RkBody.dack) \in Nat /\ Len(RkBody.dpk) \in Nat /\ Len(RkBody.tssi) \in Nat
  BY DEF RkBody
<1>6. Len(RkBody.iqk) \in Nat
  BY RkIqkIs
<1>7. RkCalls[call] \in {"rck", "dack", "rxDc", "iqk", "tssi", "dpk", "track", "scan"}
  BY DEF RkCalls
<1> QED
  BY <1>1, <1>2, <1>3, <1>4, <1>5, <1>6, <1>7

\* A body's access that is not a poll finds no engine under way.
LEMMA RkNoEngine ==
  ASSUME RkInv, NEW op, RkNow(op), ~rkRun.error, op # "poll"
  PROVE  ~rkDev.engine
<1>1. rkRun.call \in DOMAIN RkCalls /\ rkRun.pc \in 1..Len(RkOps) /\ RkOps[rkRun.pc] = op
  BY DEF RkNow, RkOp, RkInv, RkTypes
<1>2. RkShape(RkOps) /\ Len(RkOps) \in Nat
  BY <1>1, RkBodies DEF RkOps
<1>3. SUFFICES ASSUME rkDev.engine PROVE FALSE
  BY DEF RkInv, RkTypes
<1>4. rkRun.pc > 1 /\ RkOps[rkRun.pc - 1] = "engine"
  BY <1>1, <1>3 DEF RkInv, RkRunning, RkNow
<1>5. rkRun.pc - 1 \in 1..Len(RkOps) /\ (rkRun.pc - 1) + 1 = rkRun.pc
  BY <1>1, <1>2, <1>4
<1> QED
  BY <1>1, <1>2, <1>4, <1>5 DEF RkShape

\* The test transmitter is started armed and announced.
LEMMA RkEmitArmed ==
  ASSUME RkInv, RkNow("emit"), ~rkRun.error
  PROVE  rkIo.armed /\ rkIo.oneshot /\ rkLease.oneshot
<1>1. rkRun.call \in DOMAIN RkCalls /\ rkRun.pc \in 1..Len(RkOps) /\ RkOps[rkRun.pc] = "emit"
  BY DEF RkNow, RkOp, RkInv, RkTypes
<1>2. RkShape(RkOps)
  BY <1>1, RkBodies DEF RkOps
<1>3. rkRun.pc > 1 /\ RkOps[rkRun.pc - 1] = "arm"
  BY <1>1, <1>2 DEF RkShape
<1> QED
  BY <1>1, <1>3 DEF RkInv, RkRunning, RkTold, RkNow

\* An access that was made, or that failed, leads to the next one.
LEMMA RkAdvances ==
  ASSUME RkInv, NEW op, RkNow(op), RkTypes',
         rkRun'.call = rkRun.call, rkRun'.pc = rkRun.pc + 1,
         rkLease'.state = rkLease.state, rkIo'.active = rkIo.active,
         rkDev'.emitting => rkIo'.armed /\ rkIo'.oneshot /\ rkLease'.oneshot,
         ~rkRun'.error => /\ rkIo'.oneshot = rkLease'.oneshot
                          /\ rkDev'.engine => op = "engine"
                          /\ op = "arm" => rkIo'.armed /\ rkIo'.oneshot
  PROVE  RkInv'
<1>1. RkOps' = RkOps /\ RkOps[rkRun.pc] = op /\ rkRun.call # RkNoCall /\ rkRun.pc \in Nat /\ rkRun.pc >= 1
  BY DEF RkOps, RkNow, RkOp, RkInv, RkTypes
<1>2. rkLease.state = "consumed" /\ rkIo.active
  BY <1>1 DEF RkInv, RkRunning
<1>3. rkRun'.pc - 1 = rkRun.pc /\ rkRun'.pc > 1
  BY <1>1
<1>4. RkRunning'
  BY <1>1, <1>2, <1>3 DEF RkRunning
<1> QED
  BY <1>1, <1>2, <1>3, <1>4 DEF RkInv, RkIdle, RkPending, RkTold, RkEndedQuiet, RkEmissionCovered

\* The call: the lease is fresh.
LEMMA RkCallKeeps ==
  ASSUME RkInv, NEW call \in DOMAIN RkCalls, RkCall(call)
  PROVE  RkInv' /\ RkHonest
<1>1. UNCHANGED <<rkIo, rkDev>> /\ rkRun.call = RkNoCall /\ rkLease.state = "none" /\ ~rkRun.error
  BY DEF RkCall, RkMay
<1>2. rkLease' = [state |-> "ready", oneshot |-> FALSE]
  BY DEF RkCall
<1>3. PICK stage, flags, home :
        rkRun' = [rkRun EXCEPT !.call = call, !.pc = 0, !.done = 0, !.stage = stage, !.flags = flags, !.home = home]
  BY DEF RkCall
<1>4. /\ DOMAIN rkRun' = DOMAIN rkRun /\ rkRun'.call = call /\ rkRun'.pc = 0 /\ rkRun'.error = rkRun.error
  BY <1>3 DEF RkInv, RkTypes
<1>5. call # RkNoCall
  BY DEF RkCalls, RkNoCall
<1>6. RkTypes'
  BY <1>1, <1>2, <1>4 DEF RkInv, RkTypes
<1>7. ~rkDev.engine /\ ~rkDev.emitting /\ ~rkLease.oneshot /\ rkIo.oneshot = FALSE
  BY <1>1 DEF RkInv, RkEndedQuiet, RkTold, RkTypes
<1>8. rkLease'.state = "ready" /\ rkLease'.oneshot = FALSE
  BY <1>2
<1> QED
  BY <1>1, <1>4, <1>5, <1>6, <1>7, <1>8
     DEF RkInv, RkIdle, RkPending, RkRunning, RkTold, RkEndedQuiet, RkEmissionCovered, RkHonest

\* begin().
LEMMA RkBeginKeeps ==
  ASSUME RkInv, RkBegin
  PROVE  RkInv' /\ RkHonest
<1>1. rkDev' = rkDev /\ rkRun.call # RkNoCall /\ rkRun.pc = 0
  BY DEF RkBegin
<1>2. ~rkRun.error /\ rkLease.state = "ready" /\ ~rkDev.engine /\ ~rkDev.emitting /\ ~rkLease.oneshot /\ ~rkIo.oneshot
  BY <1>1 DEF RkInv, RkPending, RkTold, RkTypes
<1>3. \/ /\ DOMAIN rkRun' = DOMAIN rkRun /\ rkRun'.call = RkNoCall /\ rkRun'.error = TRUE /\ rkRun'.pc = rkRun.pc
         /\ rkLease'.state \in {"ready", "consumed"}
      \/ /\ DOMAIN rkRun' = DOMAIN rkRun /\ rkRun'.call = rkRun.call /\ rkRun'.error = rkRun.error /\ rkRun'.pc = 1
         /\ rkLease'.state = "consumed" /\ rkIo'.active = TRUE /\ rkRun'.error \in BOOLEAN
  BY <1>2 DEF RkBegin, RkGivesUp, RkInv, RkTypes
<1>4. /\ DOMAIN rkIo' = DOMAIN rkIo /\ rkIo'.oneshot = rkIo.oneshot /\ rkIo'.armed = rkIo.armed
      /\ rkIo'.modified = rkIo.modified /\ rkIo'.active \in BOOLEAN
      /\ DOMAIN rkLease' = DOMAIN rkLease /\ rkLease'.oneshot = rkLease.oneshot
      /\ rkIo'.oneshot \in BOOLEAN /\ rkIo'.armed \in BOOLEAN /\ rkIo'.modified \in BOOLEAN
      /\ rkLease'.oneshot \in BOOLEAN
  BY DEF RkBegin, RkInv, RkTypes
<1>5. RkTypes'
  <2>1. /\ rkRun'.call \in DOMAIN RkCalls \cup {RkNoCall} /\ rkRun'.pc \in Nat /\ rkRun'.error \in BOOLEAN
        /\ DOMAIN rkRun' = DOMAIN rkRun
    <3>1. rkRun'.error \in BOOLEAN /\ DOMAIN rkRun' = DOMAIN rkRun
      BY <1>3
    <3>2. rkRun'.pc \in Nat
      BY <1>1, <1>3
    <3>3. rkRun'.call \in DOMAIN RkCalls \cup {RkNoCall}
      BY <1>3 DEF RkInv, RkTypes
    <3> QED
      BY <3>1, <3>2, <3>3
  <2> QED
    BY <1>1, <1>4, <2>1 DEF RkInv, RkTypes
<1> QED
  BY <1>1, <1>2, <1>3, <1>4, <1>5 DEF RkInv, RkIdle, RkPending, RkRunning, RkTold, RkEndedQuiet, RkEmissionCovered, RkHonest

\* The accesses that write, with or without an answer.
LEMMA RkWritesKeeps ==
  ASSUME RkInv, NEW op \in {"write", "engine", "emit"}, NEW dev, RkWrites(op, dev),
         /\ DOMAIN dev = DOMAIN rkDev
         /\ dev.engine = (IF op = "engine" THEN TRUE ELSE rkDev.engine)
         /\ dev.emitting = (IF op = "emit" THEN TRUE ELSE rkDev.emitting)
  PROVE  RkInv' /\ RkHonest
<1>1. RkNow(op) /\ ~rkRun.error /\ rkLease' = rkLease
  BY DEF RkWrites, RkAccessFails, RkReaches
<1>2. /\ DOMAIN rkRun' = DOMAIN rkRun /\ rkRun'.call = rkRun.call /\ rkRun'.pc = rkRun.pc + 1
      /\ rkRun'.error \in BOOLEAN
  BY DEF RkWrites, RkAccessFails, RkStep, RkLatches, RkInv, RkTypes
<1>3. /\ DOMAIN rkIo' = DOMAIN rkIo /\ rkIo'.active = rkIo.active /\ rkIo'.armed = rkIo.armed
      /\ rkIo'.oneshot = rkIo.oneshot /\ rkIo'.modified \in BOOLEAN
  BY DEF RkWrites, RkAccessFails, RkInv, RkTypes
<1>4. /\ rkDev' = rkDev \/ rkDev' = dev
      /\ DOMAIN rkDev' = DOMAIN rkDev /\ rkDev'.engine \in BOOLEAN /\ rkDev'.emitting \in BOOLEAN
  BY DEF RkWrites, RkAccessFails, RkInv, RkTypes
<1>5. ~rkDev.engine
  BY <1>1, RkNoEngine
<1>6. rkDev'.engine => op = "engine"
  BY <1>4, <1>5
<1>7. rkDev'.emitting => rkIo.armed /\ rkIo.oneshot /\ rkLease.oneshot
  BY <1>1, <1>4, RkEmitArmed DEF RkInv, RkEmissionCovered
<1>8. RkTypes'
  BY <1>1, <1>2, <1>3, <1>4 DEF RkInv, RkTypes
<1>9. RkInv'
  BY <1>1, <1>2, <1>3, <1>6, <1>7, <1>8, RkAdvances DEF RkInv, RkTold
<1> QED
  BY <1>1, <1>9 DEF RkHonest

\* The accesses that do not write.
LEMMA RkAccessKeeps ==
  ASSUME RkInv, RkSkips \/ RkPoll \/ RkQuality \/ RkStart \/ RkArm
  PROVE  RkInv' /\ RkHonest
<1>1. CASE RkSkips
  <2>1. PICK op : RkNow(op) /\ op = RkOp
    BY <1>1 DEF RkSkips, RkNow
  <2>2. UNCHANGED <<rkIo, rkLease, rkDev>> /\ rkRun' = [rkRun EXCEPT !.pc = rkRun.pc + 1] /\ rkRun.error
    BY <1>1 DEF RkSkips
  <2>3. /\ DOMAIN rkRun' = DOMAIN rkRun /\ rkRun'.call = rkRun.call /\ rkRun'.pc = rkRun.pc + 1
        /\ rkRun'.error = rkRun.error /\ rkRun'.error \in BOOLEAN
    BY <2>2 DEF RkInv, RkTypes
  <2>4. RkTypes'
    BY <2>2, <2>3 DEF RkInv, RkTypes
  <2> QED
    BY <2>1, <2>2, <2>3, <2>4, RkAdvances DEF RkInv, RkEmissionCovered, RkHonest
<1>2. CASE RkPoll
  <2>1. RkNow("poll") /\ rkLease' = rkLease /\ ~rkRun.error
    BY <1>2 DEF RkPoll, RkReaches
  <2>2. /\ DOMAIN rkRun' = DOMAIN rkRun /\ rkRun'.call = rkRun.call /\ rkRun'.pc = rkRun.pc + 1
        /\ rkRun'.error \in BOOLEAN
    BY <1>2 DEF RkPoll, RkStep, RkLatches, RkInv, RkTypes
  <2>3. /\ DOMAIN rkIo' = DOMAIN rkIo /\ rkIo'.active = rkIo.active /\ rkIo'.armed = rkIo.armed
        /\ rkIo'.oneshot = rkIo.oneshot /\ rkIo'.modified = rkIo.modified
    BY <1>2 DEF RkPoll, RkInv, RkTypes
  <2>4. /\ DOMAIN rkDev' = DOMAIN rkDev /\ rkDev'.emitting = rkDev.emitting /\ rkDev'.engine \in BOOLEAN
        /\ ~rkRun'.error => ~rkDev'.engine
    BY <1>2 DEF RkPoll, RkLatches, RkInv, RkTypes
  <2>5. RkTypes'
    BY <2>1, <2>2, <2>3, <2>4 DEF RkInv, RkTypes
  <2> QED
    BY <2>1, <2>2, <2>3, <2>4, <2>5, RkAdvances DEF RkInv, RkEmissionCovered, RkTold, RkHonest
<1>3. CASE RkQuality
  <2>1. RkNow("quality") /\ UNCHANGED <<rkIo, rkLease, rkDev>> /\ ~rkRun.error
    BY <1>3 DEF RkQuality
  <2>2. /\ DOMAIN rkRun' = DOMAIN rkRun /\ rkRun'.call = rkRun.call /\ rkRun'.pc = rkRun.pc + 1
        /\ rkRun'.error \in BOOLEAN
    BY <1>3 DEF RkQuality, RkStep, RkLatches, RkInv, RkTypes
  <2>3. RkTypes' /\ ~rkDev.engine
    BY <2>1, <2>2, RkNoEngine DEF RkInv, RkTypes
  <2> QED
    BY <2>1, <2>2, <2>3, RkAdvances DEF RkInv, RkEmissionCovered, RkTold, RkHonest
<1>4. CASE RkStart
  <2>1. RkNow("start") /\ rkDev' = rkDev /\ ~rkRun.error
    BY <1>4 DEF RkStart
  <2>2. /\ DOMAIN rkRun' = DOMAIN rkRun /\ rkRun'.call = rkRun.call /\ rkRun'.pc = rkRun.pc + 1
        /\ rkRun'.error \in BOOLEAN
    BY <1>4 DEF RkStart, RkStep, RkLatches, RkInv, RkTypes
  <2>3. /\ DOMAIN rkIo' = DOMAIN rkIo /\ rkIo'.active = rkIo.active /\ rkIo'.armed = rkIo.armed
        /\ rkIo'.modified = rkIo.modified
        /\ DOMAIN rkLease' = DOMAIN rkLease /\ rkLease'.state = rkLease.state
        /\ \/ rkIo'.oneshot = TRUE /\ rkLease'.oneshot = TRUE
           \/ rkIo'.oneshot = rkIo.oneshot /\ rkLease'.oneshot = rkLease.oneshot
        /\ rkIo'.oneshot \in BOOLEAN /\ rkLease'.oneshot \in BOOLEAN
    BY <1>4 DEF RkStart, RkInv, RkTypes
  <2>4. RkTypes' /\ ~rkDev.engine
    BY <2>1, <2>2, <2>3, RkNoEngine DEF RkInv, RkTypes
  <2> QED
    BY <2>1, <2>2, <2>3, <2>4, RkAdvances DEF RkInv, RkEmissionCovered, RkTold, RkHonest
<1>5. CASE RkArm
  <2>1. RkNow("arm") /\ rkDev' = rkDev /\ rkLease' = rkLease /\ ~rkRun.error
    BY <1>5 DEF RkArm
  <2>2. /\ DOMAIN rkRun' = DOMAIN rkRun /\ rkRun'.call = rkRun.call /\ rkRun'.pc = rkRun.pc + 1
        /\ rkRun'.error \in BOOLEAN
    BY <1>5 DEF RkArm, RkStep, RkLatches, RkInv, RkTypes
  <2>3. /\ DOMAIN rkIo' = DOMAIN rkIo /\ rkIo'.active = rkIo.active /\ rkIo'.oneshot = rkIo.oneshot
        /\ rkIo'.modified = rkIo.modified /\ rkIo'.armed \in BOOLEAN
        /\ rkIo.armed => rkIo'.armed
        /\ ~rkRun'.error => rkIo'.armed /\ rkIo'.oneshot
    BY <1>5 DEF RkArm, RkLatches, RkInv, RkTypes
  <2>4. RkTypes' /\ ~rkDev.engine
    BY <2>1, <2>2, <2>3, RkNoEngine DEF RkInv, RkTypes
  <2> QED
    BY <2>1, <2>2, <2>3, <2>4, RkAdvances DEF RkInv, RkEmissionCovered, RkTold, RkHonest
<1> QED
  BY <1>1, <1>2, <1>3, <1>4, <1>5

\* The end of a one-shot and of the emission.
LEMMA RkStopKeeps ==
  ASSUME RkInv, RkStop
  PROVE  RkInv' /\ RkHonest
<1>1. RkNow("stop") /\ rkDev' = rkDev /\ ~rkRun.error
  BY DEF RkStop
<1>2. /\ DOMAIN rkRun' = DOMAIN rkRun /\ rkRun'.call = rkRun.call /\ rkRun'.pc = rkRun.pc + 1
      /\ rkRun'.error \in BOOLEAN
  BY DEF RkStop, RkStep, RkLatches, RkInv, RkTypes
<1>3. /\ DOMAIN rkIo' = DOMAIN rkIo /\ rkIo'.active = rkIo.active /\ rkIo'.armed = rkIo.armed
      /\ rkIo'.modified = rkIo.modified
      /\ DOMAIN rkLease' = DOMAIN rkLease /\ rkLease'.state = rkLease.state
      /\ \/ rkIo'.oneshot = FALSE /\ rkLease'.oneshot = FALSE /\ ~rkIo.armed
         \/ rkIo'.oneshot = rkIo.oneshot /\ rkLease'.oneshot = rkLease.oneshot
      /\ rkIo'.oneshot \in BOOLEAN /\ rkLease'.oneshot \in BOOLEAN
  BY DEF RkStop, RkInv, RkTypes
<1>4. RkTypes' /\ ~rkDev.engine
  BY <1>1, <1>2, <1>3, RkNoEngine DEF RkInv, RkTypes
<1> QED
  BY <1>1, <1>2, <1>3, <1>4, RkAdvances DEF RkInv, RkEmissionCovered, RkTold, RkHonest

\* What stopCalibrationTx() leaves, halted or not.
LEMMA RkHaltIs ==
  ASSUME RkInv, RkHalted \/ RkNotHalted
  PROVE  /\ DOMAIN rkIo' = DOMAIN rkIo /\ rkIo'.active = rkIo.active /\ rkIo'.oneshot = rkIo.oneshot
         /\ rkIo'.modified = rkIo.modified /\ rkIo'.armed \in BOOLEAN
         /\ DOMAIN rkDev' = DOMAIN rkDev /\ rkDev'.engine = rkDev.engine /\ rkDev'.emitting \in BOOLEAN
         /\ rkDev'.emitting => rkDev.emitting /\ rkIo'.armed
BY DEF RkHalted, RkNotHalted, RkInv, RkTypes, RkEmissionCovered

\* The body's own halt.
LEMMA RkHaltKeeps ==
  ASSUME RkInv, RkHalt
  PROVE  RkInv' /\ RkHonest
<1>1. RkNow("halt") /\ rkLease' = rkLease /\ (RkHalted \/ RkNotHalted)
  BY DEF RkHalt
<1>2. /\ DOMAIN rkRun' = DOMAIN rkRun /\ rkRun'.call = rkRun.call /\ rkRun'.pc = rkRun.pc + 1
      /\ rkRun'.error \in BOOLEAN /\ (rkRun.error => rkRun'.error)
  BY DEF RkHalt, RkLatches, RkInv, RkTypes
<1>3. RkTypes'
  BY <1>1, <1>2, RkHaltIs DEF RkInv, RkTypes
<1>4. ~rkRun.error => ~rkDev.engine
  BY <1>1, RkNoEngine
<1> QED
  BY <1>1, <1>2, <1>3, <1>4, RkHaltIs, RkAdvances DEF RkInv, RkEmissionCovered, RkTold, RkHonest

\* A body that ends without error has nothing under way.
LEMMA RkEndsWellKeeps ==
  ASSUME RkInv, RkEndsWell
  PROVE  RkInv' /\ RkHonest
<1>1. /\ rkRun.call \in DOMAIN RkCalls /\ rkRun.pc = Len(RkOps) + 1 /\ ~rkRun.error /\ ~rkIo.armed /\ ~rkIo.oneshot
      /\ rkDev' = rkDev /\ rkRun.call # RkNoCall
  BY DEF RkEndsWell, RkAtEnd, RkReaches, RkInv, RkTypes
<1>2. RkShape(RkOps) /\ Len(RkOps) \in Nat
  BY <1>1, RkBodies DEF RkOps
<1>3. ~rkDev.engine
  <2>1. SUFFICES ASSUME rkDev.engine PROVE FALSE
    BY DEF RkInv, RkTypes
  <2>2. rkRun.pc > 1 /\ RkOps[rkRun.pc - 1] = "engine"
    BY <1>1, <1>2, <2>1 DEF RkInv, RkRunning
  <2>3. rkRun.pc - 1 = Len(RkOps) /\ Len(RkOps) \in 1..Len(RkOps)
    BY <1>1, <1>2, <2>2
  <2> QED
    BY <1>2, <2>2, <2>3 DEF RkShape
<1>4. ~rkDev.emitting /\ ~rkLease.oneshot
  BY <1>1 DEF RkInv, RkEmissionCovered, RkTold
<1>5. PICK flags, stage : rkRun' = [rkRun EXCEPT !.call = RkNoCall, !.pc = 0, !.oneshot = FALSE, !.flags = flags, !.stage = stage]
  BY DEF RkEndsWell
<1>6. DOMAIN rkRun' = DOMAIN rkRun /\ rkRun'.call = RkNoCall /\ rkRun'.pc = 0 /\ rkRun'.error = rkRun.error
      /\ rkRun'.error \in BOOLEAN
  BY <1>5 DEF RkInv, RkTypes
<1>7. /\ DOMAIN rkIo' = DOMAIN rkIo /\ rkIo'.active = FALSE /\ rkIo'.modified = FALSE /\ rkIo'.armed = rkIo.armed
      /\ rkIo'.oneshot = rkIo.oneshot /\ rkIo'.armed \in BOOLEAN /\ rkIo'.oneshot \in BOOLEAN
      /\ DOMAIN rkLease' = DOMAIN rkLease /\ rkLease'.state = "ended" /\ rkLease'.oneshot = rkLease.oneshot
      /\ rkLease'.oneshot \in BOOLEAN
  BY DEF RkEndsWell, RkInv, RkTypes
<1>8. RkTypes'
  <2>1. rkRun'.call \in DOMAIN RkCalls \cup {RkNoCall} /\ rkRun'.pc \in Nat /\ rkRun'.error \in BOOLEAN
    BY <1>6
  <2> QED
    BY <1>1, <1>6, <1>7, <2>1 DEF RkInv, RkTypes
<1> QED
  BY <1>1, <1>3, <1>4, <1>6, <1>7, <1>8
     DEF RkInv, RkIdle, RkPending, RkRunning, RkTold, RkEndedQuiet, RkEmissionCovered, RkHonest

\* One that fails keeps its lease.
LEMMA RkEndsBadlyKeeps ==
  ASSUME RkInv, RkEndsBadly
  PROVE  RkInv' /\ RkHonest
<1>1. rkRun.call # RkNoCall /\ rkRun.pc = Len(RkOps) + 1 /\ rkRun.call \in DOMAIN RkCalls /\ (RkHalted \/ RkNotHalted)
  BY DEF RkEndsBadly, RkAtEnd, RkInv, RkTypes
<1>2. Len(RkOps) \in Nat
  BY <1>1, RkBodies DEF RkOps
<1>3. rkLease.state = "consumed" /\ rkIo.active
  BY <1>1, <1>2 DEF RkInv, RkRunning
<1>4. DOMAIN rkRun' = DOMAIN rkRun /\ rkRun'.call = RkNoCall /\ rkRun'.pc = rkRun.pc /\ rkRun'.error = TRUE
  BY DEF RkEndsBadly, RkGivesUp, RkInv, RkTypes
<1>5. /\ DOMAIN rkLease' = DOMAIN rkLease /\ rkLease'.state = rkLease.state
      /\ rkLease'.oneshot = rkLease.oneshot \/ (rkLease'.oneshot = FALSE /\ ~rkIo.modified /\ ~rkIo'.armed)
      /\ rkLease'.oneshot \in BOOLEAN
  BY DEF RkEndsBadly, RkInv, RkTypes
<1>6. RkTypes'
  BY <1>1, <1>4, <1>5, RkHaltIs DEF RkInv, RkTypes
<1> QED
  BY <1>1, <1>3, <1>4, <1>5, <1>6, RkHaltIs
     DEF RkInv, RkIdle, RkPending, RkRunning, RkTold, RkEndedQuiet, RkEmissionCovered, RkHonest

\* Every step of a calibration.
LEMMA RkMoves ==
  ASSUME RkInv, RkNext \/ UNCHANGED rkVars
  PROVE  RkInv' /\ RkHonest
<1>1. CASE RkRestored
  <2>1. UNCHANGED <<rkRun, rkIo, rkDev>> /\ DOMAIN rkLease' = DOMAIN rkLease /\ rkLease'.state = "none"
        /\ rkLease'.oneshot = rkLease.oneshot /\ rkRun.call = RkNoCall /\ rkLease.state = "ended"
    BY <1>1 DEF RkRestored, RkInv, RkTypes
  <2> QED
    BY <2>1 DEF RkInv, RkTypes, RkIdle, RkPending, RkRunning, RkTold, RkEndedQuiet, RkEmissionCovered, RkHonest
<1>2. CASE RkVanishes
  <2>1. UNCHANGED <<rkRun, rkIo, rkLease>> /\ DOMAIN rkDev' = DOMAIN rkDev /\ rkDev'.engine = rkDev.engine
        /\ rkDev'.emitting = rkDev.emitting /\ RkOps' = RkOps
    BY <1>2 DEF RkVanishes, RkInv, RkTypes, RkOps
  <2> QED
    BY <2>1 DEF RkInv, RkTypes, RkIdle, RkPending, RkRunning, RkTold, RkEndedQuiet, RkEmissionCovered, RkHonest
<1>3. CASE UNCHANGED rkVars
  BY <1>3 DEF rkVars, RkInv, RkTypes, RkIdle, RkPending, RkRunning, RkTold, RkEndedQuiet, RkEmissionCovered, RkHonest, RkOps
<1>4. CASE RkWrite
  BY <1>4, RkWritesKeeps DEF RkWrite
<1>5. CASE RkEngine
  BY <1>5, RkWritesKeeps DEF RkEngine, RkInv, RkTypes
<1>6. CASE RkEmit
  BY <1>6, RkWritesKeeps DEF RkEmit, RkInv, RkTypes
<1> QED
  BY <1>1, <1>2, <1>3, <1>4, <1>5, <1>6, RkCallKeeps, RkBeginKeeps, RkAccessKeeps, RkStopKeeps, RkHaltKeeps,
     RkEndsWellKeeps, RkEndsBadlyKeeps DEF RkNext

\* No lease at first.
LEMMA RkStarts ==
  ASSUME RkInit
  PROVE  RkInv
BY DEF RkInit, RkInv, RkTypes, RkIdle, RkPending, RkRunning, RkTold, RkEndedQuiet, RkEmissionCovered, RkNoCall

----------------------------------------------------------------------------
(* The diagnostic probe *)

\* The fields that matter here.
DpTypes ==
  /\ DOMAIN dpCommand = {"memory", "master", "intx", "other"} /\ DOMAIN dpBefore = {"memory", "master", "intx", "other"}
  /\ dpCommand.master \in BOOLEAN /\ dpCommand.intx \in BOOLEAN /\ dpOther \in BOOLEAN
  /\ dpBefore.master \in BOOLEAN /\ dpBefore.intx \in BOOLEAN
  /\ DOMAIN dpUpload = {"saved", "intx", "attempted", "snapshot", "started", "quiesced"}
  /\ dpUpload.saved \in BOOLEAN /\ dpUpload.attempted \in BOOLEAN /\ dpUpload.snapshot \in BOOLEAN
  /\ dpUpload.quiesced \in BOOLEAN /\ (dpUpload.saved => dpUpload.intx \in BOOLEAN)
  /\ DOMAIN dpPages = {"state", "proven", "released"}
  /\ DOMAIN dpPass = {"number", "ready"} /\ dpPass.number \in 1..2
  /\ DOMAIN dpSupply = {"attempted", "returnedOff"} /\ dpSupply.returnedOff \in BOOLEAN
  /\ DOMAIN dpDevice = {"power", "mask", "dirty", "engine", "ring", "published", "consumed", "busy"}
  /\ dpDevice.engine \in BOOLEAN /\ dpDevice.ring \in BOOLEAN /\ dpDevice.busy \in BOOLEAN
  /\ dpDevice.published \in Nat

\* Before a boot pass nothing is dirty, and before the window is enabled nothing is saved.
DpEarly ==
  /\ dpAt \in {"bank", "check", "enable", "xtal", "on", "boot"} => dpDevice.dirty = {}
  /\ dpAt \in {"bank", "check", "enable"} => ~dpUpload.saved /\ dpDevice.published = 0
  /\ dpAt \in {"bank", "check", "enable", "xtal", "on"} => dpPass.number = 1 /\ ~dpUpload.attempted

\* The interrupt stays masked from the bus master on, until the supply is off.
DpMasked ==
  /\ dpCommand.master /\ dpUpload.saved => dpCommand.intx
  /\ dpAt \in {"engine", "publish"} => dpCommand.intx
  /\ dpDevice.published > 0 => dpCommand.intx \/ dpSupply.returnedOff
  /\ dpSupply.returnedOff => dpDevice.power = "off" /\ dpAt \in {"restore", "unmap", "release", "done"}

\* A device that was never started, or was seen stopped, does not use the bank.
DpStill ==
  /\ ~dpUpload.attempted \/ dpUpload.quiesced \/ dpSupply.returnedOff
       => ~dpDevice.engine /\ ~dpDevice.ring /\ ~dpDevice.busy
  /\ ~dpUpload.snapshot => ~dpDevice.ring /\ ~dpDevice.busy
  /\ dpPages.state # "held" => ~dpDevice.engine /\ ~dpDevice.busy

\* The bank is held wherever it may be used, and the second pass has used it at most once.
DpHeld ==
  /\ dpPass.number = 1 /\ dpAt \notin {"bank", "release", "done"} => dpPages.state = "held" /\ ~dpUpload.attempted
  /\ dpAt \in {"boot", "start", "master", "engine", "publish", "quiesce", "giveback"} => dpPages.state = "held"
  /\ dpAt \in {"start", "master", "engine", "publish", "quiesce", "giveback"} => dpPass.number = 2
  /\ dpAt \in {"boot", "start", "master", "engine", "publish", "quiesce"} => ~dpUpload.quiesced
  /\ ~dpUpload.attempted => ~dpUpload.quiesced
  /\ dpAt \in {"master", "engine", "publish", "quiesce", "giveback"} => dpUpload.attempted
  /\ dpAt \in {"master", "engine", "publish"} => dpUpload.snapshot
  /\ dpAt = "giveback" => dpUpload.quiesced

DpInv == DpTypes /\ DpEarly /\ DpMasked /\ DpStill /\ DpHeld

\* What a step may do to the bits of another owner.
DpOthers == dpAt # "enable" /\ dpCommand'.other # dpCommand.other => dpOther' # dpOther

\* prepareBank, sampleMmio up to the crystal.
LEMMA DpOuterKeeps ==
  ASSUME DpInv, DpBank \/ DpMap \/ DpXtal
  PROVE  DpInv' /\ DpOthers
<1>1. CASE DpBank
  <2>1. /\ UNCHANGED <<dpCommand, dpBefore, dpUpload, dpPass, dpSupply, dpDevice, dpOther>> /\ dpAt = "bank"
        /\ dpAt' \in {"check", "release"} /\ (dpAt' = "check" => dpPages'.state = "held")
        /\ DOMAIN dpPages' = DOMAIN dpPages
    BY <1>1 DEF DpBank, DpGo, DpInv, DpTypes
  <2> QED
    BY <2>1 DEF DpInv, DpTypes, DpEarly, DpMasked, DpStill, DpHeld, DpOthers, DpGo
<1>2. CASE DpMap
  <2>1. UNCHANGED <<dpCommand, dpUpload, dpPages, dpPass, dpSupply, dpDevice, dpOther>> /\ dpBefore' = dpCommand
        /\ dpAt = "check" /\ dpAt' \in {"enable", "release"}
    BY <1>2 DEF DpMap, DpGo
  <2> QED
    BY <2>1 DEF DpInv, DpTypes, DpEarly, DpMasked, DpStill, DpHeld, DpOthers, DpGo
<1>3. CASE DpXtal
  <2>1. UNCHANGED <<dpCommand, dpBefore, dpUpload, dpPages, dpPass, dpSupply, dpDevice, dpOther>>
        /\ dpAt = "xtal" /\ dpAt' \in {"unmap", "on"}
    BY <1>3 DEF DpXtal, DpGo
  <2> QED
    BY <2>1 DEF DpInv, DpTypes, DpEarly, DpMasked, DpStill, DpHeld, DpOthers, DpGo
<1> QED
  BY <1>1, <1>2, <1>3

\* The memory bit.
LEMMA DpEnableKeeps ==
  ASSUME DpInv, DpEnable
  PROVE  DpInv' /\ DpOthers
<1>1. UNCHANGED <<dpBefore, dpUpload, dpPages, dpPass, dpSupply, dpDevice, dpOther>> /\ dpAt = "enable"
  BY DEF DpEnable
<1>2. dpAt' \in {"xtal", "unmap"}
  BY DEF DpEnable, DpGo
<1>3. dpCommand' = dpCommand \/ dpCommand' = [dpBefore EXCEPT !.memory = TRUE]
  BY DEF DpEnable
<1>4. DOMAIN dpCommand' = DOMAIN dpCommand /\ dpCommand'.master \in BOOLEAN /\ dpCommand'.intx \in BOOLEAN
  BY <1>3 DEF DpInv, DpTypes
<1>5. DpTypes'
  BY <1>1, <1>4 DEF DpInv, DpTypes
<1> QED
  BY <1>1, <1>2, <1>5 DEF DpInv, DpTypes, DpEarly, DpMasked, DpStill, DpHeld, DpOthers, DpGo

\* power::cycle.
LEMMA DpPowerKeeps ==
  ASSUME DpInv, DpPowerOn \/ DpPowerOff
  PROVE  DpInv' /\ DpOthers
<1>1. CASE DpPowerOn
  <2>1. UNCHANGED <<dpCommand, dpBefore, dpUpload, dpPages, dpPass, dpOther>> /\ dpAt = "on" /\ dpAt' \in {"boot", "off"}
        /\ DOMAIN dpSupply' = DOMAIN dpSupply /\ dpSupply'.returnedOff = dpSupply.returnedOff
    BY <1>1 DEF DpPowerOn, DpGo, DpInv, DpTypes
  <2>3. /\ DOMAIN dpDevice' = DOMAIN dpDevice /\ dpDevice'.dirty = dpDevice.dirty /\ dpDevice'.engine = dpDevice.engine
        /\ dpDevice'.ring = dpDevice.ring /\ dpDevice'.published = dpDevice.published /\ dpDevice'.busy = dpDevice.busy
        /\ dpDevice'.engine \in BOOLEAN /\ dpDevice'.ring \in BOOLEAN /\ dpDevice'.busy \in BOOLEAN
    <3>1. CASE DpRunOn(TRUE)
      <4>1. dpDevice' = [dpDevice EXCEPT !.power = "on"]
        BY <3>1 DEF DpRunOn
      <4> QED
        BY <4>1 DEF DpInv, DpTypes
    <3>2. CASE DpRunOn(FALSE)
      <4>1. PICK p \in {"off", "part", "on"}, m \in BOOLEAN : dpDevice' = [dpDevice EXCEPT !.power = p, !.mask = m]
        BY <3>2 DEF DpRunOn
      <4> QED
        BY <4>1 DEF DpInv, DpTypes
    <3> QED
      BY <1>1, <3>1, <3>2 DEF DpPowerOn
  <2>4. ~dpSupply.returnedOff /\ ~dpSupply'.returnedOff /\ dpSupply'.returnedOff \in BOOLEAN
    BY <2>1 DEF DpInv, DpMasked, DpTypes
  <2>5. DpTypes'
    BY <2>1, <2>3, <2>4 DEF DpInv, DpTypes
  <2>7. dpAt' = "boot" => dpPages.state = "held" /\ ~dpUpload.quiesced
    BY <2>1 DEF DpInv, DpEarly, DpHeld
  <2> QED
    BY <2>1, <2>3, <2>4, <2>5, <2>7 DEF DpInv, DpTypes, DpEarly, DpMasked, DpStill, DpHeld, DpOthers, DpGo
<1>2. CASE DpPowerOff
  <2>1. UNCHANGED <<dpCommand, dpBefore, dpUpload, dpPages, dpPass, dpOther>> /\ dpAt = "off" /\ dpAt' = "restore"
        /\ ~dpSupply.returnedOff
    BY <1>2 DEF DpPowerOff, DpGo, DpInv, DpMasked
  <2>2. CASE dpDevice' = DpOff /\ (dpSupply' = dpSupply \/ dpSupply' = [dpSupply EXCEPT !.returnedOff = TRUE])
    <3>1. /\ DOMAIN dpDevice' = DOMAIN dpDevice /\ dpDevice'.power = "off" /\ dpDevice'.dirty = {}
          /\ dpDevice'.engine = FALSE /\ dpDevice'.ring = FALSE /\ dpDevice'.busy = FALSE
          /\ dpDevice'.published = dpDevice.published
      BY <2>2 DEF DpOff, DpInv, DpTypes
    <3>2. DOMAIN dpSupply' = DOMAIN dpSupply /\ dpSupply'.returnedOff \in BOOLEAN
      BY <2>2 DEF DpInv, DpTypes
    <3>3. DpTypes'
      BY <2>1, <3>1, <3>2 DEF DpInv, DpTypes
    <3> QED
      BY <2>1, <3>1, <3>2, <3>3 DEF DpInv, DpTypes, DpEarly, DpMasked, DpStill, DpHeld, DpOthers, DpGo
  <2>3. CASE dpSupply' = dpSupply /\ (dpDevice' = dpDevice \/ dpDevice' = [dpDevice EXCEPT !.power = "part"])
    <3>1. /\ DOMAIN dpDevice' = DOMAIN dpDevice /\ dpDevice'.dirty = dpDevice.dirty /\ dpDevice'.engine = dpDevice.engine
          /\ dpDevice'.ring = dpDevice.ring /\ dpDevice'.published = dpDevice.published /\ dpDevice'.busy = dpDevice.busy
          /\ dpDevice'.engine \in BOOLEAN /\ dpDevice'.ring \in BOOLEAN /\ dpDevice'.busy \in BOOLEAN
      BY <2>3 DEF DpInv, DpTypes
    <3>2. DpTypes'
      BY <2>1, <2>3, <3>1 DEF DpInv, DpTypes
    <3> QED
      BY <2>1, <2>3, <3>1, <3>2 DEF DpInv, DpTypes, DpEarly, DpMasked, DpStill, DpHeld, DpOthers, DpGo
  <2> QED
    BY <1>2, <2>2, <2>3 DEF DpPowerOff
<1> QED
  BY <1>1, <1>2

\* The command register is put back.
LEMMA DpRestoreKeeps ==
  ASSUME DpInv, DpRestoreInterrupt \/ DpUnmap
  PROVE  DpInv' /\ DpOthers
<1>1. CASE DpRestoreInterrupt
  <2>1. UNCHANGED <<dpBefore, dpUpload, dpPages, dpPass, dpSupply, dpDevice, dpOther>> /\ dpAt = "restore" /\ dpAt' = "unmap"
    BY <1>1 DEF DpRestoreInterrupt, DpGo
  <2>2. CASE dpCommand' = dpCommand
    BY <2>1, <2>2 DEF DpInv, DpTypes, DpEarly, DpMasked, DpStill, DpHeld, DpOthers, DpGo
  <2>3. CASE /\ dpSupply.returnedOff /\ ~dpCommand.master /\ dpUpload.saved
             /\ dpCommand' = [dpCommand EXCEPT !.intx = dpUpload.intx]
    <3>1. DOMAIN dpCommand' = DOMAIN dpCommand /\ dpCommand'.master = dpCommand.master /\ dpCommand'.other = dpCommand.other
          /\ dpCommand'.intx = dpUpload.intx
      BY <2>3 DEF DpInv, DpTypes
    <3>2. dpUpload.intx \in BOOLEAN
      BY <2>3 DEF DpInv, DpTypes
    <3>3. DpTypes'
      BY <2>1, <2>3, <3>1, <3>2 DEF DpInv, DpTypes
    <3> QED
      BY <2>1, <2>3, <3>1, <3>3 DEF DpInv, DpTypes, DpEarly, DpMasked, DpStill, DpHeld, DpOthers, DpGo
  <2> QED
    BY <1>1, <2>2, <2>3 DEF DpRestoreInterrupt, DpQuiet
<1>2. CASE DpUnmap
  <2>1. UNCHANGED <<dpBefore, dpUpload, dpPages, dpPass, dpSupply, dpDevice, dpOther>> /\ dpAt = "unmap" /\ dpAt' = "release"
    BY <1>2 DEF DpUnmap, DpGo
  <2>2. PICK m : dpCommand' = dpCommand \/ dpCommand' = [dpCommand EXCEPT !.memory = m]
    BY <1>2 DEF DpUnmap
  <2>3. DOMAIN dpCommand' = DOMAIN dpCommand /\ dpCommand'.master = dpCommand.master /\ dpCommand'.other = dpCommand.other
        /\ dpCommand'.intx = dpCommand.intx /\ dpCommand'.master \in BOOLEAN /\ dpCommand'.intx \in BOOLEAN
    BY <2>2 DEF DpInv, DpTypes
  <2>4. DpTypes'
    BY <2>1, <2>3 DEF DpInv, DpTypes
  <2> QED
    BY <2>1, <2>3, <2>4 DEF DpInv, DpTypes, DpEarly, DpMasked, DpStill, DpHeld, DpOthers, DpGo
<1> QED
  BY <1>1, <1>2

\* The bank is given back with the proof that the device is still.
LEMMA DpReleaseKeeps ==
  ASSUME DpInv, DpRelease \/ DpReleaseAll
  PROVE  DpInv' /\ DpOthers
<1>1. /\ UNCHANGED <<dpCommand, dpBefore, dpUpload, dpPass, dpSupply, dpDevice, dpOther>>
      /\ \/ dpAt = "release" /\ dpAt' = "done"
         \/ dpAt = "giveback" /\ dpAt' = "cleanup"
  BY DEF DpRelease, DpReleaseAll, DpGo
<1>2. PICK proof \in BOOLEAN : DpGiveBack(proof) /\ (proof => dpUpload.quiesced \/ dpSupply.returnedOff)
  BY DEF DpRelease, DpReleaseAll, DpInv, DpHeld, DpTypes
<1>3. PICK s, proven : dpPages' = [state |-> s, proven |-> proven, released |-> TRUE]
                       /\ (s = dpPages.state \/ (dpUpload.attempted => proof))
  BY <1>2 DEF DpGiveBack
<1>4. DOMAIN dpPages' = {"state", "proven", "released"} /\ dpPages'.state = s
  BY <1>3
<1>5. s = dpPages.state \/ (~dpDevice.engine /\ ~dpDevice.busy)
  BY <1>2, <1>3 DEF DpInv, DpStill
<1>6. DpTypes'
  BY <1>1, <1>4 DEF DpInv, DpTypes
<1> QED
  BY <1>1, <1>4, <1>5, <1>6 DEF DpInv, DpTypes, DpEarly, DpMasked, DpStill, DpHeld, DpOthers, DpGo

\* A boot pass and its clean-up.
LEMMA DpPassKeeps ==
  ASSUME DpInv, DpBoot \/ DpCleanup
  PROVE  DpInv' /\ DpOthers
<1>1. UNCHANGED <<dpCommand, dpBefore, dpUpload, dpPages, dpSupply, dpOther>>
  BY DEF DpBoot, DpCleanup
<1>2. PICK dirty : dpDevice' = dpDevice \/ dpDevice' = [dpDevice EXCEPT !.dirty = dirty]
  BY DEF DpBoot, DpCleanup
<1>3. /\ DOMAIN dpDevice' = DOMAIN dpDevice /\ dpDevice'.power = dpDevice.power /\ dpDevice'.engine = dpDevice.engine
      /\ dpDevice'.ring = dpDevice.ring /\ dpDevice'.published = dpDevice.published /\ dpDevice'.busy = dpDevice.busy
      /\ dpDevice'.engine \in BOOLEAN /\ dpDevice'.ring \in BOOLEAN /\ dpDevice'.busy \in BOOLEAN
  BY <1>2 DEF DpInv, DpTypes
<1>4. CASE DpBoot
  <2>1. dpAt = "boot" /\ dpAt' \in {"off", "start", "cleanup"} /\ (dpAt' = "start" => dpPass.number = 2)
    BY <1>4 DEF DpBoot, DpGo
  <2>2. PICK ready : dpPass' = dpPass \/ dpPass' = [dpPass EXCEPT !.ready = ready]
    BY <1>4 DEF DpBoot
  <2>3. DOMAIN dpPass' = DOMAIN dpPass /\ dpPass'.number = dpPass.number
    BY <2>2 DEF DpInv, DpTypes
  <2>4. DpTypes'
    BY <1>1, <1>3, <2>3 DEF DpInv, DpTypes
  <2> QED
    BY <1>1, <1>3, <2>1, <2>3, <2>4 DEF DpInv, DpTypes, DpEarly, DpMasked, DpStill, DpHeld, DpOthers, DpGo
<1>5. CASE DpCleanup
  <2>1. PICK left \in SUBSET dpDevice.dirty, clean \in BOOLEAN :
           /\ clean => left = {}
           /\ dpDevice' = [dpDevice EXCEPT !.dirty = left]
           /\ dpPass' = [dpPass EXCEPT !.number = IF DpRepeats(clean) THEN 2 ELSE @]
           /\ DpGo(IF DpRepeats(clean) THEN "boot" ELSE "off")
    BY <1>5 DEF DpCleanup
  <2>2. dpDevice'.dirty = left
    BY <2>1 DEF DpInv, DpTypes
  <2>3. CASE DpRepeats(clean)
    <3>1. dpAt = "cleanup" /\ dpAt' = "boot" /\ dpPass.number = 1 /\ dpDevice'.dirty = {}
      BY <1>5, <2>1, <2>2, <2>3 DEF DpCleanup, DpRepeats, DpGo
    <3>2. dpPass' = [dpPass EXCEPT !.number = 2]
      BY <2>1, <2>3
    <3>3. DOMAIN dpPass' = DOMAIN dpPass /\ dpPass'.number = 2
      BY <3>2 DEF DpInv, DpTypes
    <3>4. DpTypes'
      BY <1>1, <1>3, <3>3 DEF DpInv, DpTypes
    <3> QED
      BY <1>1, <1>3, <3>1, <3>3, <3>4 DEF DpInv, DpTypes, DpEarly, DpMasked, DpStill, DpHeld, DpOthers, DpGo
  <2>4. CASE ~DpRepeats(clean)
    <3>1. dpAt = "cleanup" /\ dpAt' = "off"
      BY <1>5, <2>1, <2>4 DEF DpCleanup, DpGo
    <3>2. dpPass' = [dpPass EXCEPT !.number = dpPass.number]
      BY <2>1, <2>4
    <3>3. DOMAIN dpPass' = DOMAIN dpPass /\ dpPass'.number = dpPass.number
      BY <3>2 DEF DpInv, DpTypes
    <3>4. DpTypes'
      BY <1>1, <1>3, <3>3 DEF DpInv, DpTypes
    <3> QED
      BY <1>1, <1>3, <3>1, <3>3, <3>4 DEF DpInv, DpTypes, DpEarly, DpMasked, DpStill, DpHeld, DpOthers, DpGo
  <2> QED
    BY <2>3, <2>4
<1> QED
  BY <1>4, <1>5

\* The upload starts.
LEMMA DpStartKeeps ==
  ASSUME DpInv, DpStart
  PROVE  DpInv' /\ DpOthers
<1>1. UNCHANGED <<dpCommand, dpBefore, dpPages, dpPass, dpSupply, dpOther>> /\ dpAt = "start" /\ dpAt' \in {"master", "quiesce"}
  BY DEF DpStart, DpGo
<1>2. \/ dpUpload' = [dpUpload EXCEPT !.attempted = TRUE] /\ dpDevice' = dpDevice /\ dpAt' = "quiesce"
      \/ /\ dpUpload' = [dpUpload EXCEPT !.attempted = TRUE, !.snapshot = TRUE]
         /\ dpDevice' = dpDevice \/ dpDevice' = [dpDevice EXCEPT !.ring = TRUE]
  BY DEF DpStart, DpGo
<1>3. /\ DOMAIN dpUpload' = DOMAIN dpUpload /\ dpUpload'.attempted = TRUE /\ dpUpload'.saved = dpUpload.saved
      /\ dpUpload'.quiesced = dpUpload.quiesced /\ dpUpload'.intx = dpUpload.intx
      /\ dpUpload'.saved \in BOOLEAN /\ dpUpload'.quiesced \in BOOLEAN /\ dpUpload'.snapshot \in BOOLEAN
      /\ dpAt' = "master" => dpUpload'.snapshot
      /\ ~dpUpload'.snapshot => ~dpUpload.snapshot /\ dpDevice' = dpDevice
  BY <1>1, <1>2 DEF DpInv, DpTypes
<1>4. /\ DOMAIN dpDevice' = DOMAIN dpDevice /\ dpDevice'.power = dpDevice.power /\ dpDevice'.engine = dpDevice.engine
      /\ dpDevice'.published = dpDevice.published /\ dpDevice'.busy = dpDevice.busy
      /\ dpDevice'.engine \in BOOLEAN /\ dpDevice'.ring \in BOOLEAN /\ dpDevice'.busy \in BOOLEAN
  BY <1>2 DEF DpInv, DpTypes
<1>5. DpTypes'
  BY <1>1, <1>3, <1>4 DEF DpInv, DpTypes
<1> QED
  BY <1>1, <1>3, <1>4, <1>5 DEF DpInv, DpTypes, DpEarly, DpMasked, DpStill, DpHeld, DpOthers, DpGo

\* uploadBusMaster(true).
LEMMA DpMasterKeeps ==
  ASSUME DpInv, DpMaster
  PROVE  DpInv' /\ DpOthers
<1>1. UNCHANGED <<dpBefore, dpPages, dpPass, dpSupply, dpDevice, dpOther>> /\ dpAt = "master" /\ dpAt' \in {"engine", "quiesce"}
  BY DEF DpMaster, DpGo
<1>2. \/ /\ ~dpCommand.master /\ dpUpload' = [dpUpload EXCEPT !.started = TRUE, !.saved = TRUE, !.intx = dpCommand.intx]
         /\ \/ dpCommand' = [dpCommand EXCEPT !.master = TRUE, !.intx = TRUE]
            \/ dpCommand' = dpCommand /\ dpAt' = "quiesce"
      \/ dpUpload' = [dpUpload EXCEPT !.started = TRUE] /\ dpCommand' = dpCommand /\ dpAt' = "quiesce"
  BY DEF DpMaster, DpGo, DpQuiet
<1>3. /\ DOMAIN dpUpload' = DOMAIN dpUpload /\ dpUpload'.attempted = dpUpload.attempted
      /\ dpUpload'.quiesced = dpUpload.quiesced /\ dpUpload'.snapshot = dpUpload.snapshot
      /\ dpUpload'.saved \in BOOLEAN /\ dpUpload'.quiesced \in BOOLEAN /\ dpUpload'.snapshot \in BOOLEAN
      /\ dpUpload'.attempted \in BOOLEAN /\ (~dpCommand.master \/ dpUpload'.saved = dpUpload.saved)
      /\ dpUpload'.saved => dpUpload'.intx \in BOOLEAN
  BY <1>2 DEF DpInv, DpTypes
<1>4. /\ DOMAIN dpCommand' = DOMAIN dpCommand /\ dpCommand'.other = dpCommand.other
      /\ (dpCommand' = dpCommand /\ dpAt' = "quiesce") \/ dpCommand'.intx = TRUE
      /\ dpCommand'.intx \in BOOLEAN /\ dpCommand'.master \in BOOLEAN
  BY <1>2 DEF DpInv, DpTypes
<1>5. DpTypes'
  BY <1>1, <1>3, <1>4 DEF DpInv, DpTypes
<1> QED
  BY <1>1, <1>3, <1>4, <1>5 DEF DpInv, DpTypes, DpEarly, DpMasked, DpStill, DpHeld, DpOthers, DpGo

\* The engine and the packets.
LEMMA DpUploadKeeps ==
  ASSUME DpInv, DpEngine \/ DpPublish
  PROVE  DpInv' /\ DpOthers
<1>1. UNCHANGED <<dpCommand, dpBefore, dpUpload, dpPages, dpPass, dpSupply, dpOther>>
      /\ dpAt \in {"engine", "publish"} /\ dpAt' \in {"publish", "quiesce"}
  BY DEF DpEngine, DpPublish, DpGo
<1>2. \/ dpDevice' = dpDevice \/ dpDevice' = [dpDevice EXCEPT !.engine = TRUE]
      \/ dpDevice' = [dpDevice EXCEPT !.published = dpDevice.published + 1]
  BY DEF DpEngine, DpPublish
<1>3. /\ DOMAIN dpDevice' = DOMAIN dpDevice /\ dpDevice'.power = dpDevice.power /\ dpDevice'.ring = dpDevice.ring
      /\ dpDevice'.busy = dpDevice.busy
      /\ dpDevice'.engine \in BOOLEAN /\ dpDevice'.ring \in BOOLEAN /\ dpDevice'.busy \in BOOLEAN
  BY <1>2 DEF DpInv, DpTypes
<1>4. dpDevice'.published \in Nat
  BY <1>2 DEF DpInv, DpTypes
<1>5. DpTypes'
  BY <1>1, <1>3, <1>4 DEF DpInv, DpTypes
<1>6. dpCommand.intx /\ ~dpSupply.returnedOff /\ dpPages.state = "held" /\ dpUpload.snapshot /\ dpUpload.attempted
      /\ ~dpUpload.quiesced
  BY <1>1 DEF DpInv, DpMasked, DpHeld
<1> QED
  BY <1>1, <1>3, <1>4, <1>5, <1>6 DEF DpInv, DpTypes, DpEarly, DpMasked, DpStill, DpHeld, DpOthers, DpGo

\* The device is stopped and seen idle, or is not.
LEMMA DpQuiesceKeeps ==
  ASSUME DpInv, DpQuiesce
  PROVE  DpInv' /\ DpOthers
<1>1. UNCHANGED <<dpBefore, dpPages, dpPass, dpSupply, dpOther>> /\ dpAt = "quiesce" /\ dpAt' \in {"giveback", "cleanup"}
  BY DEF DpQuiesce, DpGo
<1>2. dpCommand' = dpCommand \/ dpCommand' = [dpCommand EXCEPT !.master = FALSE]
  BY DEF DpQuiesce, DpMasterOff
<1>3. /\ DOMAIN dpCommand' = DOMAIN dpCommand /\ dpCommand'.other = dpCommand.other /\ dpCommand'.intx = dpCommand.intx
      /\ dpCommand'.master => dpCommand.master
      /\ dpCommand'.intx \in BOOLEAN /\ dpCommand'.master \in BOOLEAN
  BY <1>2 DEF DpInv, DpTypes
<1>4. dpPages.state = "held" /\ ~dpSupply.returnedOff /\ dpUpload.attempted /\ dpPass.number = 2 /\ ~dpUpload.quiesced
  BY <1>1 DEF DpInv, DpHeld, DpMasked
<1>5. CASE /\ dpUpload.snapshot => ~dpDevice.busy
           /\ dpDevice' = [dpDevice EXCEPT !.engine = FALSE, !.ring = FALSE]
           /\ dpUpload' = [dpUpload EXCEPT !.quiesced = TRUE]
  <2>1. /\ DOMAIN dpDevice' = DOMAIN dpDevice /\ dpDevice'.engine = FALSE /\ dpDevice'.ring = FALSE
        /\ dpDevice'.busy = dpDevice.busy /\ dpDevice'.published = dpDevice.published /\ dpDevice'.power = dpDevice.power
        /\ dpDevice'.busy \in BOOLEAN
    BY <1>5 DEF DpInv, DpTypes
  <2>2. /\ DOMAIN dpUpload' = DOMAIN dpUpload /\ dpUpload'.quiesced = TRUE /\ dpUpload'.attempted = dpUpload.attempted
        /\ dpUpload'.saved = dpUpload.saved /\ dpUpload'.snapshot = dpUpload.snapshot
        /\ dpUpload'.saved \in BOOLEAN /\ dpUpload'.snapshot \in BOOLEAN /\ dpUpload'.attempted \in BOOLEAN
        /\ dpUpload'.intx = dpUpload.intx
    BY <1>5 DEF DpInv, DpTypes
  <2>3. ~dpDevice.busy
    BY <1>5 DEF DpInv, DpStill, DpTypes
  <2>4. DpTypes'
    BY <1>1, <1>3, <2>1, <2>2 DEF DpInv, DpTypes
  <2> QED
    BY <1>1, <1>3, <1>4, <2>1, <2>2, <2>3, <2>4 DEF DpInv, DpTypes, DpEarly, DpMasked, DpStill, DpHeld, DpOthers, DpGo
<1>6. CASE dpAt' = "cleanup" /\ dpUpload' = dpUpload /\ \E e \in {FALSE, dpDevice.engine} : dpDevice' = [dpDevice EXCEPT !.engine = e]
  <2>1. /\ DOMAIN dpDevice' = DOMAIN dpDevice /\ dpDevice'.engine \in BOOLEAN /\ (dpDevice'.engine => dpDevice.engine)
        /\ dpDevice'.ring = dpDevice.ring
        /\ dpDevice'.busy = dpDevice.busy /\ dpDevice'.published = dpDevice.published /\ dpDevice'.power = dpDevice.power
        /\ dpDevice'.busy \in BOOLEAN /\ dpDevice'.ring \in BOOLEAN
    BY <1>6 DEF DpInv, DpTypes
  <2>2. DpTypes'
    BY <1>1, <1>3, <1>6, <2>1 DEF DpInv, DpTypes
  <2> QED
    BY <1>1, <1>3, <1>4, <1>6, <2>1, <2>2 DEF DpInv, DpTypes, DpEarly, DpMasked, DpStill, DpHeld, DpOthers, DpGo
<1> QED
  BY <1>5, <1>6 DEF DpQuiesce, DpGo

\* The device, and the other owner of the command register.
LEMMA DpDeviceKeeps ==
  ASSUME DpInv, DpDeviceReads \/ DpDeviceDone \/ DpOtherOwner
  PROVE  DpInv' /\ DpOthers
<1>1. CASE DpDeviceReads \/ DpDeviceDone
  <2>1. UNCHANGED <<dpAt, dpCommand, dpBefore, dpUpload, dpPages, dpPass, dpSupply, dpOther>>
    BY <1>1 DEF DpDeviceReads, DpDeviceDone
  <2>2. PICK n : \/ dpDevice' = [dpDevice EXCEPT !.consumed = n, !.busy = TRUE] /\ dpDevice.engine /\ dpDevice.ring
                 \/ dpDevice' = [dpDevice EXCEPT !.busy = FALSE]
    BY <1>1 DEF DpDeviceReads, DpDeviceDone
  <2>3. /\ DOMAIN dpDevice' = DOMAIN dpDevice /\ dpDevice'.power = dpDevice.power /\ dpDevice'.ring = dpDevice.ring
        /\ dpDevice'.engine = dpDevice.engine /\ dpDevice'.dirty = dpDevice.dirty
        /\ dpDevice'.published = dpDevice.published
        /\ dpDevice'.busy \in BOOLEAN /\ (dpDevice'.busy => dpDevice.engine /\ dpDevice.ring)
        /\ dpDevice'.engine \in BOOLEAN /\ dpDevice'.ring \in BOOLEAN
    BY <2>2 DEF DpInv, DpTypes
  <2>4. DpTypes'
    BY <2>1, <2>3 DEF DpInv, DpTypes
  <2> QED
    BY <2>1, <2>3, <2>4 DEF DpInv, DpTypes, DpEarly, DpMasked, DpStill, DpHeld, DpOthers, DpGo
<1>2. CASE DpOtherOwner
  <2>1. UNCHANGED <<dpAt, dpBefore, dpUpload, dpPages, dpPass, dpSupply, dpDevice>> /\ ~dpOther /\ dpOther' = TRUE
    BY <1>2 DEF DpOtherOwner
  <2>2. DOMAIN dpCommand' = DOMAIN dpCommand /\ dpCommand'.master = dpCommand.master /\ dpCommand'.intx = dpCommand.intx
        /\ dpCommand'.master \in BOOLEAN /\ dpCommand'.intx \in BOOLEAN
    BY <1>2 DEF DpOtherOwner, DpInv, DpTypes
  <2>3. DpTypes'
    BY <2>1, <2>2 DEF DpInv, DpTypes
  <2>4. DpOthers
    BY <2>1 DEF DpOthers, DpInv, DpTypes
  <2> QED
    BY <2>1, <2>2, <2>3, <2>4 DEF DpInv, DpEarly, DpMasked, DpStill, DpHeld
<1> QED
  BY <1>1, <1>2

\* Every step of the probe.
LEMMA DpMoves ==
  ASSUME DpInv, DpNext \/ UNCHANGED dpVars
  PROVE  DpInv' /\ DpOthers
<1>1. CASE UNCHANGED dpVars
  BY <1>1 DEF dpVars, DpInv, DpTypes, DpEarly, DpMasked, DpStill, DpHeld, DpOthers
<1> QED
  BY <1>1, DpOuterKeeps, DpEnableKeeps, DpPowerKeeps, DpRestoreKeeps, DpReleaseKeeps, DpPassKeeps, DpStartKeeps,
     DpMasterKeeps, DpUploadKeeps, DpQuiesceKeeps, DpDeviceKeeps DEF DpNext

\* Nothing is taken at first.
LEMMA DpStarts ==
  ASSUME DpInit
  PROVE  DpInv
<1>1. /\ DOMAIN dpCommand = {"memory", "master", "intx", "other"} /\ dpCommand.master \in BOOLEAN
      /\ dpCommand.intx \in BOOLEAN /\ dpBefore = dpCommand
  BY DEF DpInit
<1>2. DpTypes
  <2>1. /\ DOMAIN dpUpload = {"saved", "intx", "attempted", "snapshot", "started", "quiesced"}
        /\ dpUpload.saved = FALSE /\ dpUpload.attempted = FALSE /\ dpUpload.snapshot = FALSE /\ dpUpload.quiesced = FALSE
        /\ dpUpload.intx = FALSE
    BY DEF DpInit
  <2>2. /\ DOMAIN dpDevice = {"power", "mask", "dirty", "engine", "ring", "published", "consumed", "busy"}
        /\ dpDevice.engine = FALSE /\ dpDevice.ring = FALSE /\ dpDevice.busy = FALSE /\ dpDevice.published = 0
    BY DEF DpInit
  <2>3. /\ DOMAIN dpPages = {"state", "proven", "released"} /\ DOMAIN dpPass = {"number", "ready"} /\ dpPass.number = 1
        /\ DOMAIN dpSupply = {"attempted", "returnedOff"} /\ dpSupply.returnedOff = FALSE /\ dpOther = FALSE
    BY DEF DpInit
  <2>4. dpPass.number \in 1..2 /\ dpDevice.published \in Nat
    BY <2>2, <2>3
  <2>5. /\ DOMAIN dpBefore = {"memory", "master", "intx", "other"} /\ dpBefore.master \in BOOLEAN
        /\ dpBefore.intx \in BOOLEAN
    BY <1>1
  <2> QED
    BY <1>1, <2>1, <2>2, <2>3, <2>4, <2>5 DEF DpTypes
<1> QED
  BY <1>2 DEF DpInit, DpInv, DpEarly, DpMasked, DpStill, DpHeld

\* What the invariant is for.
LEMMA DpSafe ==
  ASSUME DpInv
  PROVE  DpInterruptsMasked /\ DpSecondPassClean /\ DpPagesPinned
BY DEF DpInv, DpTypes, DpEarly, DpMasked, DpStill, DpInterruptsMasked, DpSecondPassClean, DpPagesPinned

----------------------------------------------------------------------------
(* The port and the filter of the station *)

\* The fields that the port and the filter are about; the tables are not looked at.
SpTypes ==
  /\ DOMAIN spIo = {"port", "faulted", "seeded", "saved", "filter", "connected", "was", "until", "deadline", "last"}
  /\ spIo.saved \in BOOLEAN /\ spIo.faulted \in BOOLEAN
  /\ DOMAIN spDev = {"gone", "paused", "enabled", "config", "policy", "window", "table"}
  /\ spDev.gone \in BOOLEAN
  /\ DOMAIN spGoal = {"quiet", "policy"}

\* A port that waits knows when the old network is over.
SpWaiting == spIo.port = "waiting" => spIo.until = spGoal.quiet

SpInv == SpTypes /\ SpWaiting /\ SpFilterRestored

\* What a step may do to the port.
SpDistance ==
  spDev'.enabled # spDev.enabled \/ spDev'.config # spDev.config => spNow >= spGoal.quiet /\ spDev.paused

\* A fault ends the port and is not taken back.
LEMMA SpFaultIs ==
  ASSUME SpTypes
  PROVE  /\ DOMAIN SpFault(spIo) = DOMAIN spIo /\ SpFault(spIo).saved = spIo.saved
         /\ SpFault(spIo).filter = spIo.filter
         /\ SpFault(spIo).faulted = TRUE /\ SpFault(spIo).port = "fault"
BY DEF SpTypes, SpFault

\* A step that leaves the port's registers and the filter as they are, faulting or not.
LEMMA SpQuietKeeps ==
  ASSUME SpInv, spIo' = spIo \/ spIo' = SpFault(spIo), DOMAIN spDev' = DOMAIN spDev,
         spDev'.gone = spDev.gone \/ spDev'.gone = TRUE,
         spDev'.policy = spDev.policy, spDev'.enabled = spDev.enabled, spDev'.config = spDev.config,
         spGoal' = spGoal
  PROVE  SpInv' /\ SpDistance
<1>1. SpTypes'
  BY SpFaultIs DEF SpInv, SpTypes
<1>2. SpWaiting'
  BY SpFaultIs DEF SpInv, SpWaiting
<1>3. SpFilterRestored'
  BY SpFaultIs DEF SpInv, SpTypes, SpFilterRestored
<1> QED
  BY <1>1, <1>2, <1>3 DEF SpInv, SpDistance

\* seed(), whichever way it goes.
LEMMA SpSeedKeeps ==
  ASSUME SpInv, SpSeed \/ SpSeedWrite \/ SpSeedEnds
  PROVE  SpInv' /\ SpDistance
<1>1. CASE SpSeed
  BY <1>1, SpQuietKeeps DEF SpSeed
<1>2. CASE SpSeedWrite
  <2>1. spIo' = spIo \/ spIo' = SpFault(spIo)
    BY <1>2 DEF SpSeedWrite, SpSeedFails
  <2>2. PICK step : spDev' = spDev \/ spDev' = SpWritten(step) \/ spDev' = SpLost
    BY <1>2 DEF SpSeedWrite
  <2>3. CASE spDev' = SpWritten(step)
    <3>1. PICK t : SpWritten(step) = [spDev EXCEPT !.window = step[2]] \/ SpWritten(step) = [spDev EXCEPT !.table = t]
      BY DEF SpWritten
    <3> QED
      BY <1>2, <2>1, <2>3, <3>1, SpQuietKeeps DEF SpSeedWrite, SpInv, SpTypes
  <2>4. CASE spDev' = SpLost
    BY <1>2, <2>1, <2>4, SpQuietKeeps DEF SpSeedWrite, SpInv, SpTypes, SpLost
  <2> QED
    BY <1>2, <2>1, <2>2, <2>3, <2>4, SpQuietKeeps DEF SpSeedWrite
<1>3. CASE SpSeedEnds
  <2>1. spDev' = spDev /\ spGoal' = spGoal
    BY <1>3 DEF SpSeedEnds
  <2>2. CASE spIo' = [spIo EXCEPT !.seeded = TRUE]
    <3>1. /\ DOMAIN spIo' = DOMAIN spIo /\ spIo'.saved = spIo.saved /\ spIo'.faulted = spIo.faulted
          /\ spIo'.port = spIo.port /\ spIo'.until = spIo.until /\ spIo'.filter = spIo.filter
      BY <2>2 DEF SpInv, SpTypes
    <3> QED
      BY <2>1, <3>1 DEF SpInv, SpTypes, SpWaiting, SpFilterRestored, SpDistance
  <2> QED
    BY <1>3, <2>1, <2>2, SpQuietKeeps DEF SpSeedEnds, SpSeedFails
<1> QED
  BY <1>1, <1>2, <1>3

\* beginPort() notes when the old network is over.
LEMMA SpBeginKeeps ==
  ASSUME SpInv, NEW connected \in BOOLEAN, SpBeginPort(connected)
  PROVE  SpInv' /\ SpDistance
<1>1. PICK until : until = IF spDev.enabled THEN spNow + SpWait ELSE spNow
  OBVIOUS
<1>2. PICK io : io = [spIo EXCEPT !.port = "waiting", !.connected = connected, !.was = spDev.enabled, !.last = spNow,
                                  !.until = until, !.deadline = spNow + SpLimit]
  OBVIOUS
<1>3. spIo' = io /\ spGoal' = [spGoal EXCEPT !.quiet = until] /\ spDev' = spDev
  BY <1>1, <1>2 DEF SpBeginPort
<1>4. /\ DOMAIN io = DOMAIN spIo /\ io.saved = spIo.saved /\ io.faulted = spIo.faulted
      /\ io.until = until /\ io.filter = spIo.filter
  BY <1>2 DEF SpInv, SpTypes
<1>5. DOMAIN spGoal' = DOMAIN spGoal /\ spGoal'.quiet = until /\ spGoal'.policy = spGoal.policy
  BY <1>3 DEF SpInv, SpTypes
<1> QED
  BY <1>3, <1>4, <1>5 DEF SpInv, SpTypes, SpWaiting, SpFilterRestored, SpDistance

\* What portProgram() leaves of the device after any of its writes.
LEMMA SpPortAfterIs ==
  ASSUME SpTypes, NEW k
  PROVE  /\ DOMAIN SpPortAfter(k) = DOMAIN spDev /\ SpPortAfter(k).policy = spDev.policy
         /\ SpPortAfter(k).gone = spDev.gone
<1>1. PICK e, c : SpPortAfter(k) = spDev \/ SpPortAfter(k) = [spDev EXCEPT !.enabled = e, !.config = c]
  BY DEF SpPortAfter
<1> QED
  BY <1>1 DEF SpTypes

\* servicePort() touches the port only when it is due.
LEMMA SpServiceKeeps ==
  ASSUME SpInv, SpServicePort
  PROVE  SpInv' /\ SpDistance
<1>1. spGoal' = spGoal /\ spIo.port = "waiting"
  BY DEF SpServicePort
<1>2. CASE spIo' = SpFault(spIo) /\ spDev' = spDev
  BY <1>1, <1>2, SpQuietKeeps DEF SpInv, SpTypes
<1>3. CASE spIo' = [spIo EXCEPT !.last = spNow] /\ spDev' = spDev
  <2>1. /\ DOMAIN spIo' = DOMAIN spIo /\ spIo'.saved = spIo.saved /\ spIo'.faulted = spIo.faulted
        /\ spIo'.port = spIo.port /\ spIo'.until = spIo.until /\ spIo'.filter = spIo.filter
    BY <1>3 DEF SpInv, SpTypes
  <2> QED
    BY <1>1, <1>3, <2>1 DEF SpInv, SpTypes, SpWaiting, SpFilterRestored, SpDistance
<1>4. CASE SpPaused /\ SpDue
  <2>1. SpDistance
    BY <1>1, <1>4 DEF SpInv, SpWaiting, SpDue, SpPaused, SpDistance
  <2>2. CASE spIo' = [spIo EXCEPT !.last = spNow, !.port = "complete"] /\ spDev' = SpPortAfter(Len(SpPortSteps))
    <3>1. /\ DOMAIN spIo' = DOMAIN spIo /\ spIo'.saved = spIo.saved /\ spIo'.faulted = spIo.faulted
          /\ spIo'.port = "complete" /\ spIo'.filter = spIo.filter
      BY <2>2 DEF SpInv, SpTypes
    <3>2. /\ DOMAIN spDev' = DOMAIN spDev /\ spDev'.policy = spDev.policy /\ spDev'.gone = spDev.gone
      BY <2>2, SpPortAfterIs DEF SpInv
    <3> QED
      BY <1>1, <2>1, <3>1, <3>2 DEF SpInv, SpTypes, SpWaiting, SpFilterRestored
  <2>3. ASSUME NEW k \in 0..Len(SpPortSteps), spIo' = SpFault(spIo), spDev' = [SpPortAfter(k) EXCEPT !.gone = TRUE]
        PROVE  SpInv'
    <3>1. DOMAIN spDev' = DOMAIN spDev /\ spDev'.policy = spDev.policy /\ spDev'.gone = TRUE
      BY <2>3, SpPortAfterIs DEF SpInv, SpTypes
    <3> QED
      BY <1>1, <2>3, <3>1, SpFaultIs DEF SpInv, SpTypes, SpWaiting, SpFilterRestored
  <2> QED
    BY <1>2, <1>3, <1>4, <2>1, <2>2, <2>3 DEF SpServicePort
<1> QED
  BY <1>2, <1>3, <1>4 DEF SpServicePort

\* scanFilter() saves what it finds and puts back what it saved.
LEMMA SpFilterKeeps ==
  ASSUME SpInv, NEW enable \in BOOLEAN, SpScanFilter(enable)
  PROVE  SpInv' /\ SpDistance
<1>1. enable # spIo.saved /\ ~spIo.faulted /\ ~spDev.gone /\ spIo.port # "waiting"
  BY DEF SpScanFilter, SpPaused, SpSafe
<1>2. PICK filter, policy, goal :
        /\ filter = IF enable THEN spDev.policy ELSE spIo.filter
        /\ policy = IF enable THEN "scan" ELSE spIo.filter
        /\ goal = IF enable /\ ~spIo.saved THEN spDev.policy ELSE spGoal.policy
  OBVIOUS
<1>3. CASE /\ spIo' = [spIo EXCEPT !.saved = enable, !.filter = filter]
           /\ spDev' = [spDev EXCEPT !.policy = policy]
           /\ spGoal' = [spGoal EXCEPT !.policy = goal]
  <2>1. /\ DOMAIN spIo' = DOMAIN spIo /\ spIo'.saved = enable /\ spIo'.filter = filter
        /\ spIo'.faulted = spIo.faulted /\ spIo'.port = spIo.port
    BY <1>3 DEF SpInv, SpTypes
  <2>2. /\ DOMAIN spDev' = DOMAIN spDev /\ spDev'.policy = policy /\ spDev'.gone = spDev.gone
        /\ spDev'.enabled = spDev.enabled /\ spDev'.config = spDev.config
    BY <1>3 DEF SpInv, SpTypes
  <2>3. DOMAIN spGoal' = DOMAIN spGoal /\ spGoal'.policy = goal
    BY <1>3 DEF SpInv, SpTypes
  <2>4. SpTypes' /\ SpWaiting' /\ SpDistance
    BY <1>1, <2>1, <2>2, <2>3 DEF SpInv, SpTypes, SpWaiting, SpDistance
  <2>5. SpFilterRestored'
    BY <1>1, <1>2, <2>1, <2>2, <2>3 DEF SpInv, SpTypes, SpFilterRestored
  <2> QED
    BY <2>4, <2>5 DEF SpInv
<1>4. CASE /\ spIo' = SpFault(spIo) /\ spGoal' = spGoal
           /\ spDev' = SpLost \/ spDev' = [SpLost EXCEPT !.policy = policy]
  <2>1. /\ DOMAIN spDev' = DOMAIN spDev /\ spDev'.gone = TRUE
        /\ spDev'.enabled = spDev.enabled /\ spDev'.config = spDev.config
    BY <1>4 DEF SpInv, SpTypes, SpLost
  <2> QED
    BY <1>4, <2>1, SpFaultIs DEF SpInv, SpTypes, SpWaiting, SpFilterRestored, SpDistance
<1>5. \/ /\ spIo' = [spIo EXCEPT !.saved = enable, !.filter = filter]
         /\ spDev' = [spDev EXCEPT !.policy = policy]
         /\ spGoal' = [spGoal EXCEPT !.policy = goal]
      \/ /\ spIo' = SpFault(spIo) /\ spGoal' = spGoal
         /\ spDev' = SpLost \/ spDev' = [SpLost EXCEPT !.policy = policy]
  BY <1>2 DEF SpScanFilter, SpInv, SpTypes
<1> QED
  BY <1>3, <1>4, <1>5

\* Every step of the station's registers.
LEMMA SpStep ==
  ASSUME SpInv, SpNext \/ UNCHANGED spVars
  PROVE  SpInv' /\ SpDistance
<1>1. CASE SpTick \/ UNCHANGED spVars
  BY <1>1, SpQuietKeeps DEF SpTick, spVars, SpInv, SpTypes
<1>2. CASE SpAround
  <2>1. spIo' = spIo /\ spGoal' = spGoal
    BY <1>2 DEF SpAround
  <2>2. PICK paused : spDev' = SpLost \/ spDev' = [spDev EXCEPT !.paused = paused]
    BY <1>2 DEF SpAround
  <2>3. /\ DOMAIN spDev' = DOMAIN spDev /\ (spDev'.gone = spDev.gone \/ spDev'.gone = TRUE)
        /\ spDev'.policy = spDev.policy /\ spDev'.enabled = spDev.enabled /\ spDev'.config = spDev.config
    BY <2>2 DEF SpInv, SpTypes, SpLost
  <2> QED
    BY <2>1, <2>3, SpQuietKeeps
<1> QED
  BY <1>1, <1>2, SpSeedKeeps, SpServiceKeeps, SpBeginKeeps, SpFilterKeeps DEF SpNext

\* No port and no scan at first.
LEMMA SpStarts ==
  ASSUME SpInit
  PROVE  SpInv
BY DEF SpInit, SpInv, SpTypes, SpWaiting, SpFilterRestored

----------------------------------------------------------------------------
(* The channel step *)

CtTypes ==
  /\ ctTarget \in Nat
  /\ ctHw \in [rx : {"on", "off", "mixed"}, channel : Nat, power : Nat]
  /\ DOMAIN ctResult = {"error", "stage", "channel", "registers", "power", "receivers", "reset"}

\* What is verified before the step ends stays true until then.
CtVerified ==
  /\ ctPc = "check" => ctHw.channel = ctTarget
  /\ ctPc \in {"end", "ended"} => ctHw.rx = "on" /\ ctHw.channel = ctTarget /\ ctHw.power = ctTarget

CtInv == CtTypes /\ CtVerified

\* A step that reports itself complete.
CtWhole ==
  ctResult'.stage = "complete" /\ ctResult.stage # "complete" =>
    ctHw' = [rx |-> "on", channel |-> ctTarget, power |-> ctTarget] /\ ~ctTx'

\* What fail() leaves.
LEMMA CtFailIs ==
  ASSUME CtTypes, NEW reset
  PROVE  DOMAIN CtFail(ctResult, reset) = DOMAIN ctResult /\ CtFail(ctResult, reset).stage = "failed"
BY DEF CtTypes, CtFail

\* A call that is refused is over, whatever it left of the device.
LEMMA CtRefusedKeeps ==
  ASSUME CtInv, NEW io, CtRefused(io), ctHw' \in [rx : {"on", "off", "mixed"}, channel : Nat, power : Nat]
  PROVE  CtInv' /\ CtWhole
<1>1. ctPc' = "failed" /\ ctResult' = CtFail(ctResult, TRUE) /\ ctTarget' = ctTarget
  BY DEF CtRefused, CtGiveUp
<1> QED
  BY <1>1, CtFailIs DEF CtInv, CtTypes, CtVerified, CtWhole

\* The writes of the step.
LEMMA CtWritesKeep ==
  ASSUME CtInv, CtQuiet \/ CtTune \/ CtPower \/ CtFinish
  PROVE  CtInv' /\ CtWhole
<1>0. PICK hw : hw = ctHw /\ hw \in [rx : {"on", "off", "mixed"}, channel : Nat, power : Nat]
  BY DEF CtInv, CtTypes
<1>1. ctTarget \in Nat /\ 0 \in Nat
  BY DEF CtInv, CtTypes
<1>2. ASSUME NEW rx \in {"on", "off", "mixed"}, NEW n \in Nat
      PROVE  /\ [hw EXCEPT !.rx = rx] \in [rx : {"on", "off", "mixed"}, channel : Nat, power : Nat]
             /\ [hw EXCEPT !.channel = n] \in [rx : {"on", "off", "mixed"}, channel : Nat, power : Nat]
             /\ [hw EXCEPT !.power = n] \in [rx : {"on", "off", "mixed"}, channel : Nat, power : Nat]
  BY <1>0
<1>3. ctHw' \in [rx : {"on", "off", "mixed"}, channel : Nat, power : Nat]
  <2>1. CASE CtQuiet
    BY <1>0, <1>2, <2>1 DEF CtQuiet
  <2>2. CASE CtTune
    BY <1>0, <1>1, <1>2, <2>2 DEF CtTune
  <2>3. CASE CtPower
    BY <1>0, <1>1, <1>2, <2>3 DEF CtPower
  <2>4. CASE CtFinish
    <3>1. ctHw' = hw \/ ctHw' = [hw EXCEPT !.rx = "mixed"] \/ ctHw' \in [rx : {"on", "mixed"}, channel : {ctTarget}, power : {ctTarget, 0}]
      BY <1>0, <2>4 DEF CtFinish
    <3> QED
      BY <1>0, <1>1, <1>2, <3>1
  <2> QED
    BY <2>1, <2>2, <2>3, <2>4
<1>4. CASE \E io : CtRefused(io)
  BY <1>3, <1>4, CtRefusedKeeps
<1>5. CASE CtProceeds("tune") /\ ctResult' = ctResult
  BY <1>3, <1>5 DEF CtProceeds, CtInv, CtTypes, CtVerified, CtWhole
<1>6. CASE CtProceeds("verify") /\ ctResult' = ctResult
  BY <1>3, <1>6 DEF CtProceeds, CtInv, CtTypes, CtVerified, CtWhole
<1>7. CASE CtProceeds("finish") /\ ctResult' = [ctResult EXCEPT !.power = TRUE]
  <2>1. DOMAIN ctResult' = DOMAIN ctResult /\ ctResult'.stage = ctResult.stage
    BY <1>7 DEF CtInv, CtTypes
  <2> QED
    BY <1>3, <1>7, <2>1 DEF CtProceeds, CtInv, CtTypes, CtVerified, CtWhole
<1>8. CASE /\ CtProceeds("check") /\ ctResult' = ctResult
           /\ ctHw' \in [rx : {"on", "mixed"}, channel : {ctTarget}, power : {ctTarget, 0}]
  <2>1. ctHw'.channel = ctTarget
    BY <1>8
  <2> QED
    BY <1>3, <1>8, <2>1 DEF CtProceeds, CtInv, CtTypes, CtVerified, CtWhole
<1> QED
  BY <1>4, <1>5, <1>6, <1>7, <1>8 DEF CtQuiet, CtTune, CtPower, CtFinish

\* The looks at what was written, and the end of the step.
LEMMA CtLooksKeep ==
  ASSUME CtInv, CtVerify \/ CtCheck \/ CtEnd \/ CtEnded
  PROVE  CtInv' /\ CtWhole
<1>1. ctHw' = ctHw
  BY DEF CtVerify, CtCheck, CtEnd, CtEnded
<1>2. CASE \E io : CtRefused(io)
  BY <1>1, <1>2, CtRefusedKeeps DEF CtInv, CtTypes
<1>3. CASE CtProceeds("power") /\ ctResult' = [ctResult EXCEPT !.registers = TRUE, !.stage = "prepared"]
  <2>1. DOMAIN ctResult' = DOMAIN ctResult /\ ctResult'.stage = "prepared"
    BY <1>3 DEF CtInv, CtTypes
  <2> QED
    BY <1>1, <1>3, <2>1 DEF CtProceeds, CtInv, CtTypes, CtVerified, CtWhole
<1>4. CASE /\ ctPc = "check" /\ ctHw.rx = "on" /\ ctHw.power = ctTarget /\ CtProceeds("end") /\ ctResult' = ctResult
  BY <1>1, <1>4 DEF CtProceeds, CtInv, CtTypes, CtVerified, CtWhole
<1>5. CASE ctPc = "end" /\ ctPc' = "ended" /\ UNCHANGED <<ctTarget, ctResult>>
  BY <1>1, <1>5 DEF CtInv, CtTypes, CtVerified, CtWhole
<1>6. CASE CtEnded
  <2>1. UNCHANGED <<ctTarget, ctTx>> /\ ctPc = "ended"
    BY <1>6 DEF CtEnded
  <2>2. CASE ctPc' = "failed" /\ ctResult' = CtFail(ctResult, TRUE)
    BY <1>1, <2>1, <2>2, CtFailIs DEF CtInv, CtTypes, CtVerified, CtWhole
  <2>3. CASE ~ctTx /\ ctResult' = [ctResult EXCEPT !.receivers = TRUE, !.stage = "complete"] /\ ctPc' = "restore"
    <3>1. DOMAIN ctResult' = DOMAIN ctResult
      BY <2>3 DEF CtInv, CtTypes
    <3>2. ctHw = [rx |-> "on", channel |-> ctTarget, power |-> ctTarget]
      BY <2>1 DEF CtInv, CtTypes, CtVerified
    <3> QED
      BY <1>1, <2>1, <2>3, <3>1, <3>2 DEF CtInv, CtTypes, CtVerified, CtWhole
  <2> QED
    BY <1>6, <2>2, <2>3 DEF CtEnded
<1> QED
  BY <1>2, <1>3, <1>4, <1>5, <1>6 DEF CtVerify, CtCheck, CtEnd

\* The beginning of a step, and what happens around it.
LEMMA CtOthersKeep ==
  ASSUME CtInv, \/ \E c \in CtChannels : CtRequest(c)
                \/ CtProgram \/ CtBegin \/ CtFinishLease \/ CtLeaseGoes \/ CtFirmwareOpens \/ UNCHANGED ctVars
  PROVE  CtInv' /\ CtWhole
<1>1. CASE \E c \in CtChannels : CtRequest(c)
  BY <1>1, CtChannelAssumption DEF CtRequest, CtInv, CtTypes, CtVerified, CtWhole
<1>2. CASE CtProgram
  <2>1. PICK began : began = [ctResult EXCEPT !.channel = ctTarget, !.stage = "programming", !.registers = FALSE,
                                              !.power = FALSE, !.receivers = FALSE]
    OBVIOUS
  <2>2. DOMAIN began = DOMAIN ctResult /\ began.stage = "programming"
    BY <2>1 DEF CtInv, CtTypes
  <2>3. DOMAIN CtFail(began, ctOps) = DOMAIN ctResult /\ CtFail(began, ctOps).stage = "failed"
    BY <2>2 DEF CtInv, CtTypes, CtFail
  <2>4. /\ ctResult' = began \/ ctResult' = CtFail(began, ctOps)
        /\ ctPc' \in {"begin", "failed"} /\ UNCHANGED <<ctTarget, ctHw, ctTx>>
    BY <1>2, <2>1 DEF CtProgram
  <2> QED
    BY <2>2, <2>3, <2>4 DEF CtInv, CtTypes, CtVerified, CtWhole
<1>3. CASE CtBegin
  <2>1. /\ ctResult' = ctResult \/ ctResult' = CtFail(ctResult, TRUE)
        /\ ctPc' \in {"quiet", "failed"} /\ UNCHANGED <<ctTarget, ctHw, ctTx>>
    BY <1>3 DEF CtBegin
  <2> QED
    BY <2>1, CtFailIs DEF CtInv, CtTypes, CtVerified, CtWhole
<1>4. CASE CtFinishLease
  BY <1>4 DEF CtFinishLease, CtInv, CtTypes, CtVerified, CtWhole
<1>5. CASE CtLeaseGoes \/ CtFirmwareOpens \/ UNCHANGED ctVars
  BY <1>5 DEF CtLeaseGoes, CtFirmwareOpens, ctVars, CtInv, CtTypes, CtVerified, CtWhole
<1> QED
  BY <1>1, <1>2, <1>3, <1>4, <1>5

\* Every step.
LEMMA CtStep ==
  ASSUME CtInv, CtNext \/ UNCHANGED ctVars
  PROVE  CtInv' /\ CtWhole
BY CtWritesKeep, CtLooksKeep, CtOthersKeep DEF CtNext

\* No channel at first.
LEMMA CtStarts ==
  ASSUME CtInit
  PROVE  CtInv
BY DEF CtInit, CtInv, CtTypes, CtVerified

----------------------------------------------------------------------------
(* The set-up of coexistence *)

\* The grants change only in winInit(), after its look at Bluetooth.
LEMMA CxMoves ==
  ASSUME CxNext \/ UNCHANGED cxVars
  PROVE  cxGrant' # cxGrant => ~cxBt
BY DEF CxNext, cxVars, cxHost, CxFail, CxSubmit, CxBegin, CxHardware, CxNextCommand, CxAccept, CxGrant, CxScoreboard,
       CxService, CxStops, CxApplies, CxRepeats, CxLoses, CxBluetooth, CxResumed

----------------------------------------------------------------------------
(* The two power passes *)

\* The fields that matter here.
PwTypes ==
  /\ DOMAIN pwDevice = {"mac", "radio", "isolated", "functions", "sleep", "mask", "dma", "irq"}
  /\ DOMAIN pwPass = {"name", "steps", "failed", "writes", "owned"}
  /\ pwPass.name \in {"none", "on", "off"} /\ pwPass.failed \in BOOLEAN /\ pwPass.owned \in BOOLEAN
  /\ pwPass.name # "on" => ~pwPass.owned

\* The steps of a pass that powers on, and those that follow the strobe or come before it.
PwRising == {"wake", "regulators", "awaitOn", "radioUp", "openMask", "isolation", "shutMask", "voltage",
             "functions", "confirmOn", "notify"}

\* A rest of such a pass strobes once at most.
PwOnRest(steps) ==
  /\ steps \in Seq(PwRising \cup {"strobeOn"})
  /\ \A i, j \in 1..Len(steps) : steps[i] = "strobeOn" /\ steps[j] = "strobeOn" => i = j

\* The supply is off until the strobe, and nobody else has the mask.
PwOnTrue ==
  pwPass.name = "on" =>
      /\ pwDevice.mask # "other" /\ PwOnRest(pwPass.steps)
      /\ ~pwPass.failed => \A i \in 1..Len(pwPass.steps) : pwPass.steps[i] = "strobeOn" => pwDevice.mac = "off"

\* A rest of the pass that powers off: the end of its list, or all of it with the look at
\* the engines in the place of the look at the supply.
PwOffRest(steps) ==
  /\ steps \in Seq({"look", "quiet", "radioDown", "strobeOff", "awaitOff", "sleep", "confirmOff", "notify"})
  /\ Len(steps) <= 7
  /\ \A i \in 1..Len(steps) : steps[i] = PwOffSteps[i + 7 - Len(steps)] \/ (i = 1 /\ Len(steps) = 7 /\ steps[i] = "quiet")

\* Up to the strobe the supply is as it was seen, and the engines too if it is on.
PwOffTrue ==
  pwPass.name = "off" =>
      /\ PwOffRest(pwPass.steps)
      /\ ~pwPass.failed /\ (Len(pwPass.steps) \in {5, 6} \/ (Len(pwPass.steps) = 7 /\ pwPass.steps[1] = "quiet"))
           => pwDevice.mac \in {"on", "off"}
      /\ ~pwPass.failed /\ Len(pwPass.steps) \in {5, 6} /\ pwDevice.mac = "on" => pwDevice.dma = "stopped" /\ ~pwDevice.irq

PwInv == PwTypes /\ PwOnTrue /\ PwOffTrue

\* What a step may do to the supply and to the mask of another.
PwGently ==
  /\ pwDevice.mac = "on" /\ pwDevice'.mac # "on" => pwDevice.dma = "stopped" /\ ~pwDevice.irq /\ ~pwBus.master
  /\ pwDevice.mask = "other" => pwDevice'.mask = "other"

\* The rest of a pass after its first step.
LEMMA PwTail ==
  ASSUME NEW S, NEW s \in Seq(S), s # <<>>
  PROVE  /\ Tail(s) \in Seq(S) /\ Len(s) >= 1 /\ Len(Tail(s)) = Len(s) - 1 /\ Head(s) = s[1] /\ Head(s) \in S
         /\ \A i \in 1..Len(Tail(s)) : Tail(s)[i] = s[i + 1] /\ i + 1 \in 1..Len(s)
OBVIOUS

\* Steps without a strobe may be added.
LEMMA PwOnGrows ==
  ASSUME NEW s, PwOnRest(s), NEW t \in Seq(PwRising)
  PROVE  PwOnRest(s \o t)
<1>1. PICK S : S = PwRising \cup {"strobeOn"}
  OBVIOUS
<1>2. s \in Seq(S) /\ t \in Seq(S) /\ "strobeOn" \notin PwRising
  BY <1>1 DEF PwOnRest, PwRising
<1>3. PICK q : q = s \o t
  OBVIOUS
<1>4. /\ q \in Seq(S) /\ Len(q) = Len(s) + Len(t)
      /\ \A i \in 1 .. Len(s) + Len(t) : q[i] = IF i <= Len(s) THEN s[i] ELSE t[i - Len(s)]
  BY <1>2, <1>3, ConcatProperties, Zenon
<1>5. Len(s) \in Nat /\ Len(t) \in Nat /\ \A i \in 1..Len(t) : t[i] # "strobeOn"
  BY <1>2
<1>6. \A i \in 1..Len(q) : q[i] = "strobeOn" => i \in 1..Len(s) /\ s[i] = "strobeOn"
  BY <1>4, <1>5
<1> QED
  BY <1>1, <1>3, <1>4, <1>6 DEF PwOnRest

\* The list of a pass that powers on.
LEMMA PwOnWhole ==
  ASSUME NEW adjusted \in BOOLEAN, NEW second \in BOOLEAN
  PROVE  PwOnRest(PwOnSteps(adjusted, second))
<1>1. PICK a : a = <<"wake", "regulators", "strobeOn", "awaitOn", "radioUp">>
  OBVIOUS
<1>2. PwOnRest(a)
  BY <1>1 DEF PwOnRest, PwRising
<1>3. PICK b : b = PwMasked("isolation")
  OBVIOUS
<1>4. b \in Seq(PwRising)
  BY <1>3 DEF PwMasked, PwRising
<1>5. PICK c : c = IF adjusted THEN <<"voltage">> ELSE <<>>
  OBVIOUS
<1>6. c \in Seq(PwRising)
  <2>1. CASE adjusted
    BY <1>5, <2>1 DEF PwRising
  <2>2. CASE ~adjusted
    BY <1>5, <2>2
  <2> QED
    BY <2>1, <2>2
<1>7. PICK d : d = IF adjusted /\ second THEN PwMasked("voltage") ELSE <<>>
  OBVIOUS
<1>8. d \in Seq(PwRising)
  <2>1. CASE adjusted /\ second
    BY <1>7, <2>1 DEF PwMasked, PwRising
  <2>2. CASE ~(adjusted /\ second)
    BY <1>7, <2>2
  <2> QED
    BY <2>1, <2>2
<1>9. PICK e : e = <<"functions", "confirmOn", "notify">>
  OBVIOUS
<1>10. e \in Seq(PwRising)
  BY <1>9 DEF PwRising
<1>11. PwOnSteps(adjusted, second) = (((a \o b) \o c) \o d) \o e
  BY <1>1, <1>3, <1>5, <1>7, <1>9 DEF PwOnSteps
<1>12. PwOnRest(a \o b)
  BY <1>2, <1>4, PwOnGrows
<1>13. PwOnRest((a \o b) \o c)
  BY <1>6, <1>12, PwOnGrows
<1>14. PwOnRest(((a \o b) \o c) \o d)
  BY <1>8, <1>13, PwOnGrows
<1>15. PwOnRest((((a \o b) \o c) \o d) \o e)
  BY <1>10, <1>14, PwOnGrows
<1> QED
  BY <1>11, <1>15

\* No pass.
LEMMA PwNoPassIs ==
  /\ DOMAIN PwNoPass = {"name", "steps", "failed", "writes", "owned"} /\ PwNoPass.name = "none" /\ PwNoPass.failed = FALSE
  /\ PwNoPass.owned = FALSE
BY DEF PwNoPass

\* start() and stop().
LEMMA PwBeginsKeeps ==
  ASSUME PwInv, PwStart \/ PwStop
  PROVE  PwInv' /\ PwGently
<1>1. pwDevice' = pwDevice
  BY DEF PwStart, PwStop
<1>2. CASE pwPass' = pwPass
  BY <1>1, <1>2 DEF PwInv, PwTypes, PwOnTrue, PwOffTrue, PwGently
<1>3. CASE PwStart /\ pwPass' # pwPass
  <2>1. /\ pwDevice.mac = "off" /\ pwDevice.mask = "closed"
        /\ \E adjusted, second \in BOOLEAN : pwPass' = [PwNoPass EXCEPT !.name = "on", !.steps = PwOnSteps(adjusted, second)]
    BY <1>3 DEF PwStart
  <2>2. PICK adjusted, second \in BOOLEAN : pwPass' = [PwNoPass EXCEPT !.name = "on", !.steps = PwOnSteps(adjusted, second)]
    BY <2>1
  <2>3. /\ DOMAIN pwPass' = {"name", "steps", "failed", "writes", "owned"} /\ pwPass'.name = "on" /\ pwPass'.failed = FALSE
        /\ pwPass'.owned = FALSE /\ pwPass'.steps = PwOnSteps(adjusted, second)
    BY <2>2, PwNoPassIs
  <2>4. PwOnRest(pwPass'.steps)
    BY <2>3, PwOnWhole
  <2> QED
    BY <1>1, <2>1, <2>3, <2>4 DEF PwInv, PwTypes, PwOnTrue, PwOffTrue, PwGently
<1>4. CASE PwStop /\ pwPass' # pwPass
  <2>1. pwPass' = [PwNoPass EXCEPT !.name = "off", !.steps = PwOffSteps]
    BY <1>4 DEF PwStop
  <2>2. /\ DOMAIN pwPass' = {"name", "steps", "failed", "writes", "owned"} /\ pwPass'.name = "off" /\ pwPass'.failed = FALSE
        /\ pwPass'.owned = FALSE /\ pwPass'.steps = PwOffSteps
    BY <2>1, PwNoPassIs
  <2>3. PwOffRest(PwOffSteps) /\ Len(PwOffSteps) = 7 /\ PwOffSteps[1] = "look"
    BY DEF PwOffRest, PwOffSteps
  <2>4. PwTypes' /\ PwGently
    BY <1>1, <2>2 DEF PwInv, PwTypes, PwGently
  <2>5. PwOffRest(pwPass'.steps) /\ Len(pwPass'.steps) = 7 /\ pwPass'.steps[1] = "look"
    BY <2>2, <2>3
  <2>6. PwOnTrue' /\ PwOffTrue'
    BY <2>2, <2>5 DEF PwOnTrue, PwOffTrue
  <2> QED
    BY <2>4, <2>6 DEF PwInv
<1> QED
  BY <1>2, <1>3, <1>4

\* What a step does to the fields that matter here.
LEMMA PwEffectIs ==
  ASSUME PwTypes, NEW step, NEW d, d = PwEffect(step, pwDevice)
  PROVE  /\ DOMAIN d = DOMAIN pwDevice /\ d.dma = pwDevice.dma /\ d.irq = pwDevice.irq
         /\ step \notin {"openMask", "shutMask"} => d.mask = pwDevice.mask
         /\ step = "openMask" => d.mask = "ours"
         /\ step = "shutMask" => d.mask = "closed"
         /\ step \notin {"strobeOn", "strobeOff"} => d.mac = pwDevice.mac
BY DEF PwEffect, PwTypes

\* A step of the pass that powers on, carried out or not.
LEMMA PwOnStepKeeps ==
  ASSUME PwInv, PwStep \/ PwStepFails, pwPass.name = "on"
  PROVE  PwInv' /\ PwGently
<1>1. PICK step : step = Head(pwPass.steps)
  OBVIOUS
<1>2. /\ PwOnRest(pwPass.steps) /\ ~pwPass.failed /\ pwPass.steps # <<>> /\ pwDevice.mask # "other"
  BY DEF PwInv, PwOnTrue, PwStep, PwStepFails, PwRunning
<1>3. PICK S : S = PwRising \cup {"strobeOn"}
  OBVIOUS
<1>4. /\ Tail(pwPass.steps) \in Seq(S) /\ Len(pwPass.steps) >= 1 /\ Len(Tail(pwPass.steps)) = Len(pwPass.steps) - 1
      /\ step = pwPass.steps[1] /\ step \in S
      /\ \A i \in 1..Len(Tail(pwPass.steps)) :
            Tail(pwPass.steps)[i] = pwPass.steps[i + 1] /\ i + 1 \in 1..Len(pwPass.steps)
  BY <1>1, <1>2, <1>3, PwTail DEF PwOnRest
<1>5. Len(pwPass.steps) \in Nat /\ 1 \in 1..Len(pwPass.steps)
  BY <1>2, <1>4 DEF PwOnRest
<1>6. step = "strobeOn" => pwDevice.mac = "off"
  BY <1>2, <1>4, <1>5 DEF PwInv, PwOnTrue
<1>7. step \notin {"strobeOff", "look"}
  BY <1>3, <1>4 DEF PwRising
<1>8. PICK d : d = PwEffect(step, pwDevice)
  OBVIOUS
<1>9. /\ DOMAIN d = DOMAIN pwDevice /\ d.mask # "other" /\ (step # "strobeOn" => d.mac = pwDevice.mac)
  BY <1>2, <1>7, <1>8, PwEffectIs DEF PwInv
<1>10. CASE PwStep
  <2>1. pwDevice' = d
    BY <1>1, <1>8, <1>10 DEF PwStep
  <2>2. PICK w, o : /\ pwPass' = [pwPass EXCEPT !.steps = PwAfter(step, pwDevice), !.writes = w, !.owned = o]
                    /\ o = (pwPass.owned \/ step = "openMask")
    BY <1>1, <1>10 DEF PwStep
  <2>3. /\ DOMAIN pwPass' = DOMAIN pwPass /\ pwPass'.name = "on" /\ pwPass'.failed = pwPass.failed
        /\ pwPass'.steps = Tail(pwPass.steps) /\ pwPass'.owned = o
    BY <1>7, <2>2 DEF PwInv, PwTypes, PwAfter
  <2>4. o \in BOOLEAN
    BY <2>2 DEF PwInv, PwTypes
  <2>5. PwTypes'
    BY <1>9, <2>1, <2>3, <2>4 DEF PwInv, PwTypes
  <2>6. PwOnRest(pwPass'.steps)
    BY <1>2, <1>3, <1>4, <1>5, <2>3 DEF PwOnRest
  <2>7. \A i \in 1..Len(pwPass'.steps) : pwPass'.steps[i] = "strobeOn" => pwDevice'.mac = "off"
    <3>1. SUFFICES ASSUME NEW i \in 1..Len(Tail(pwPass.steps)), Tail(pwPass.steps)[i] = "strobeOn"
                   PROVE  d.mac = "off"
      BY <2>1, <2>3
    <3>2. pwPass.steps[i + 1] = "strobeOn" /\ i + 1 \in 1..Len(pwPass.steps) /\ i + 1 # 1
      BY <1>4, <3>1
    <3>3. step # "strobeOn"
      BY <1>2, <1>4, <1>5, <3>2 DEF PwOnRest
    <3> QED
      BY <1>2, <1>9, <3>2, <3>3 DEF PwInv, PwOnTrue
  <2> QED
    BY <1>2, <1>6, <1>9, <2>1, <2>3, <2>5, <2>6, <2>7 DEF PwInv, PwOnTrue, PwOffTrue, PwGently
<1>11. CASE PwStepFails
  <2>1. pwDevice' = d \/ pwDevice' = pwDevice
    BY <1>1, <1>8, <1>11 DEF PwStepFails
  <2>2. PICK w, o : /\ pwPass' = [pwPass EXCEPT !.failed = TRUE, !.writes = w, !.owned = o]
                    /\ o \in BOOLEAN
    BY <1>1, <1>11 DEF PwStepFails, PwInv, PwTypes
  <2>3. /\ DOMAIN pwPass' = DOMAIN pwPass /\ pwPass'.name = "on" /\ pwPass'.failed = TRUE
        /\ pwPass'.steps = pwPass.steps /\ pwPass'.owned = o
    BY <2>2 DEF PwInv, PwTypes
  <2>4. PwTypes'
    BY <1>9, <2>1, <2>2, <2>3 DEF PwInv, PwTypes
  <2> QED
    BY <1>2, <1>6, <1>9, <2>1, <2>3, <2>4 DEF PwInv, PwOnTrue, PwOffTrue, PwGently
<1> QED
  BY <1>10, <1>11

\* A step of the pass that powers off.
LEMMA PwOffStepKeeps ==
  ASSUME PwInv, PwStep \/ PwStepFails, pwPass.name = "off"
  PROVE  PwInv' /\ PwGently
<1>1. PICK step : step = Head(pwPass.steps)
  OBVIOUS
<1>2. /\ PwOffRest(pwPass.steps) /\ ~pwPass.failed /\ pwPass.steps # <<>> /\ ~pwPass.owned
  BY DEF PwInv, PwOffTrue, PwTypes, PwStep, PwStepFails, PwRunning
<1>3. PICK S : S = {"look", "quiet", "radioDown", "strobeOff", "awaitOff", "sleep", "confirmOff", "notify"}
  OBVIOUS
<1>4. PICK rest : rest = Tail(pwPass.steps)
  OBVIOUS
<1>5. /\ rest \in Seq(S) /\ Len(pwPass.steps) >= 1 /\ Len(rest) = Len(pwPass.steps) - 1
      /\ step = pwPass.steps[1] /\ step \in S
      /\ \A i \in 1..Len(rest) : rest[i] = pwPass.steps[i + 1] /\ i + 1 \in 1..Len(pwPass.steps)
  BY <1>1, <1>2, <1>3, <1>4, PwTail DEF PwOffRest
<1>6. Len(pwPass.steps) \in 1..7 /\ 1 \in 1..Len(pwPass.steps)
  <2>1. pwPass.steps \in Seq(S) /\ Len(pwPass.steps) <= 7
    BY <1>2, <1>3 DEF PwOffRest
  <2>2. PICK n : n = Len(pwPass.steps)
    OBVIOUS
  <2>3. n \in Nat /\ n <= 7 /\ n >= 1
    BY <1>5, <2>1, <2>2
  <2>4. n \in 1..7 /\ 1 \in 1..n
    BY <2>3
  <2> QED
    BY <2>2, <2>4
<1>7. /\ step = "strobeOff" => Len(pwPass.steps) = 5
      /\ Len(pwPass.steps) = 7 => step \in {"look", "quiet"}
      /\ Len(pwPass.steps) = 6 => step = "radioDown"
      /\ step \in {"look", "quiet"} => Len(pwPass.steps) = 7
      /\ Len(pwPass.steps) = 5 => step = "strobeOff"
  <2>1. step = PwOffSteps[1 + 7 - Len(pwPass.steps)] \/ (Len(pwPass.steps) = 7 /\ step = "quiet")
    BY <1>2, <1>5, <1>6 DEF PwOffRest
  <2>2. PICK n : n = Len(pwPass.steps)
    OBVIOUS
  <2>3. n = 1 \/ n = 2 \/ n = 3 \/ n = 4 \/ n = 5 \/ n = 6 \/ n = 7
    BY <1>6, <2>2
  <2>4. /\ PwOffSteps[1] = "look" /\ PwOffSteps[2] = "radioDown" /\ PwOffSteps[3] = "strobeOff"
        /\ PwOffSteps[4] = "awaitOff" /\ PwOffSteps[5] = "sleep" /\ PwOffSteps[6] = "confirmOff"
        /\ PwOffSteps[7] = "notify"
    BY DEF PwOffSteps
  <2>5. step = PwOffSteps[1 + 7 - n] \/ (n = 7 /\ step = "quiet")
    BY <2>1, <2>2
  <2>6. /\ n = 1 => step = "notify"
        /\ n = 2 => step = "confirmOff"
        /\ n = 3 => step = "sleep"
        /\ n = 4 => step = "awaitOff"
        /\ n = 5 => step = "strobeOff"
        /\ n = 6 => step = "radioDown"
        /\ n = 7 => step \in {"look", "quiet"}
    BY <2>4, <2>5
  <2> QED
    BY <2>2, <2>3, <2>6
<1>7a. /\ Len(rest) # 7
       /\ Len(rest) = 6 => Len(pwPass.steps) = 7
       /\ Len(rest) = 5 => Len(pwPass.steps) = 6
       /\ Len(pwPass.steps) = 7 => Len(rest) = 6
  <2>1. PICK n, k : n = Len(pwPass.steps) /\ k = Len(rest)
    OBVIOUS
  <2>2. n \in 1..7 /\ k = n - 1
    BY <1>5, <1>6, <2>1
  <2>3. k # 7 /\ (k = 6 => n = 7) /\ (k = 5 => n = 6) /\ (n = 7 => k = 6)
    BY <2>2
  <2> QED
    BY <2>1, <2>3
<1>8. PICK d : d = PwEffect(step, pwDevice)
  OBVIOUS
<1>9. /\ DOMAIN d = DOMAIN pwDevice /\ d.mask = pwDevice.mask /\ (step # "strobeOff" => d.mac = pwDevice.mac)
      /\ d.dma = pwDevice.dma /\ d.irq = pwDevice.irq
  BY <1>3, <1>5, <1>8, PwEffectIs DEF PwInv
<1>10. step = "strobeOff" /\ pwDevice.mac = "on" => pwDevice.dma = "stopped" /\ ~pwDevice.irq
  BY <1>2, <1>7 DEF PwInv, PwOffTrue
<1>11. pwDevice' # pwDevice => PwBusUsable
  <2>1. CASE PwStep
    BY <2>1 DEF PwStep
  <2>2. CASE PwStepFails
    <3>1. PICK w \in BOOLEAN : \E issued \in {FALSE, w /\ PwBusUsable} : \E taken \in {FALSE, issued} :
                                pwDevice' = IF taken THEN PwEffect(step, pwDevice) ELSE pwDevice
      BY <1>1, <2>2 DEF PwStepFails
    <3>2. PICK issued \in {FALSE, w /\ PwBusUsable} : \E taken \in {FALSE, issued} :
                                pwDevice' = IF taken THEN PwEffect(step, pwDevice) ELSE pwDevice
      BY <3>1
    <3>3. PICK taken \in {FALSE, issued} : pwDevice' = IF taken THEN PwEffect(step, pwDevice) ELSE pwDevice
      BY <3>2
    <3>4. CASE taken = FALSE
      BY <3>3, <3>4
    <3>5. CASE taken = issued
      BY <3>2, <3>3, <3>5
    <3> QED
      BY <3>3, <3>4, <3>5
  <2> QED
    BY <2>1, <2>2
<1>12. pwDevice' = d \/ pwDevice' = pwDevice
  BY <1>1, <1>8 DEF PwStep, PwStepFails
<1>13. PwGently
  BY <1>9, <1>10, <1>11, <1>12 DEF PwGently, PwBusUsable
<1>14. CASE PwStep
  <2>1. pwDevice' = d /\ PwAnswers(step, pwDevice)
    BY <1>1, <1>8, <1>14 DEF PwStep
  <2>2. PICK w, o : /\ pwPass' = [pwPass EXCEPT !.steps = PwAfter(step, pwDevice), !.writes = w, !.owned = o]
                    /\ o = (pwPass.owned \/ step = "openMask")
    BY <1>1, <1>14 DEF PwStep
  <2>3. o = FALSE
    BY <1>2, <1>3, <1>5, <2>2 DEF PwInv, PwTypes
  <2>4. /\ DOMAIN pwPass' = DOMAIN pwPass /\ pwPass'.name = "off" /\ pwPass'.failed = pwPass.failed
        /\ pwPass'.steps = PwAfter(step, pwDevice) /\ pwPass'.owned = FALSE
    BY <2>2, <2>3 DEF PwInv, PwTypes
  <2>5. PwTypes'
    BY <1>2, <1>9, <2>1, <2>4 DEF PwInv, PwTypes
  <2>6. CASE step = "look" /\ pwDevice.mac = "on"
    <3>1. pwPass'.steps = <<"quiet">> \o rest
      BY <1>4, <2>4, <2>6 DEF PwAfter
    <3>2. PICK t : t = <<"quiet">>
      OBVIOUS
    <3>3. t \in Seq(S) /\ Len(t) = 1 /\ t[1] = "quiet"
      BY <1>3, <3>2
    <3>4. PICK q : q = t \o rest
      OBVIOUS
    <3>5. /\ q \in Seq(S) /\ Len(q) = Len(t) + Len(rest)
          /\ \A i \in 1 .. Len(t) + Len(rest) : q[i] = IF i <= Len(t) THEN t[i] ELSE rest[i - Len(t)]
      <4>1. t \in Seq(S) /\ rest \in Seq(S)
        BY <1>5, <3>3
      <4> QED
        BY <3>4, <4>1, ConcatProperties, Zenon
    <3>6. Len(pwPass.steps) = 7 /\ Len(rest) = 6
      BY <1>7, <1>7a, <2>6
    <3>7. Len(q) = 7 /\ q[1] = "quiet" /\ \A i \in 2..7 : q[i] = pwPass.steps[i]
      <4>1. Len(q) = 7 /\ \A i \in 1..7 : q[i] = IF i <= 1 THEN t[i] ELSE rest[i - 1]
        BY <3>3, <3>5, <3>6
      <4>2. ASSUME NEW i \in 2..7 PROVE q[i] = pwPass.steps[i]
        <5>1. i - 1 \in 1..Len(rest) /\ i \in 1..7 /\ ~(i <= 1) /\ (i - 1) + 1 = i
          BY <3>6
        <5> QED
          BY <1>5, <4>1, <5>1
      <4> QED
        BY <3>3, <4>1, <4>2
    <3>8. PwOffRest(q)
      <4>1. ASSUME NEW i \in 2..7 PROVE q[i] = PwOffSteps[i]
        <5>1. i \in 1..Len(pwPass.steps) /\ i # 1 /\ i + 7 - 7 = i
          BY <3>6
        <5> QED
          BY <1>2, <3>6, <3>7, <5>1 DEF PwOffRest
      <4>2. \A i \in 1..7 : i = 1 \/ i \in 2..7
        OBVIOUS
      <4>3. \A i \in 1..7 : i + 7 - 7 = i
        OBVIOUS
      <4>4. q \in Seq({"look", "quiet", "radioDown", "strobeOff", "awaitOff", "sleep", "confirmOff", "notify"})
        BY <1>3, <3>5
      <4>5. Len(q) = 7 /\ Len(q) <= 7
        BY <3>7
      <4>6. \A i \in 1..7 : q[i] = PwOffSteps[i] \/ (i = 1 /\ q[i] = "quiet")
        BY <3>7, <4>1, <4>2
      <4>7. \A i \in 1..Len(q) : q[i] = PwOffSteps[i + 7 - Len(q)] \/ (i = 1 /\ Len(q) = 7 /\ q[i] = "quiet")
        BY <4>3, <4>5, <4>6
      <4> QED
        BY <4>4, <4>5, <4>7 DEF PwOffRest
    <3>9. pwPass'.steps = q /\ pwDevice'.mac = "on"
      BY <1>9, <2>1, <2>6, <3>1, <3>2, <3>4
    <3>10. PwOffTrue'
      BY <2>4, <3>7, <3>8, <3>9 DEF PwOffTrue
    <3> QED
      BY <1>13, <2>4, <2>5, <3>10 DEF PwInv, PwOnTrue
  <2>7. CASE ~(step = "look" /\ pwDevice.mac = "on")
    <3>1. pwPass'.steps = rest
      BY <1>4, <2>4, <2>7 DEF PwAfter
    <3>2. PwOffRest(rest)
      <4>1. ASSUME NEW i \in 1..Len(rest) PROVE rest[i] = PwOffSteps[i + 7 - Len(rest)]
        <5>1. i + 1 \in 1..Len(pwPass.steps) /\ i + 1 # 1 /\ (i + 1) + 7 - Len(pwPass.steps) = i + 7 - Len(rest)
          BY <1>5, <1>6
        <5> QED
          BY <1>2, <1>5, <5>1 DEF PwOffRest
      <4>2. Len(rest) <= 7
        BY <1>5, <1>6
      <4> QED
        BY <1>3, <1>5, <4>1, <4>2 DEF PwOffRest
    <3>3. Len(rest) # 7
      BY <1>7a
    <3>4. Len(rest) = 6 => d.mac \in {"on", "off"} /\ (d.mac = "on" => d.dma = "stopped" /\ ~d.irq)
      <4>1. SUFFICES ASSUME Len(rest) = 6 PROVE d.mac \in {"on", "off"} /\ (d.mac = "on" => d.dma = "stopped" /\ ~d.irq)
        OBVIOUS
      <4>2. Len(pwPass.steps) = 7 /\ step \in {"look", "quiet"}
        BY <1>7, <1>7a, <4>1
      <4>3. CASE step = "look"
        BY <1>9, <2>1, <2>7, <4>3 DEF PwAnswers
      <4>4. CASE step = "quiet"
        <5>1. pwDevice.dma = "stopped" /\ ~pwDevice.irq
          BY <2>1, <4>4 DEF PwAnswers
        <5>2. pwDevice.mac \in {"on", "off"}
          BY <1>2, <1>5, <4>2, <4>4 DEF PwInv, PwOffTrue
        <5> QED
          BY <1>9, <4>4, <5>1, <5>2
      <4> QED
        BY <4>2, <4>3, <4>4
    <3>5. Len(rest) = 5 => d.mac \in {"on", "off"} /\ (d.mac = "on" => d.dma = "stopped" /\ ~d.irq)
      <4>1. SUFFICES ASSUME Len(rest) = 5 PROVE d.mac \in {"on", "off"} /\ (d.mac = "on" => d.dma = "stopped" /\ ~d.irq)
        OBVIOUS
      <4>2. Len(pwPass.steps) = 6 /\ step = "radioDown"
        BY <1>7, <1>7a, <4>1
      <4> QED
        BY <1>2, <1>9, <4>2 DEF PwInv, PwOffTrue
    <3> QED
      BY <1>13, <2>1, <2>4, <2>5, <3>1, <3>2, <3>3, <3>4, <3>5 DEF PwInv, PwOnTrue, PwOffTrue
  <2> QED
    BY <2>6, <2>7
<1>15. CASE PwStepFails
  <2>1. PICK w, o : /\ pwPass' = [pwPass EXCEPT !.failed = TRUE, !.writes = w, !.owned = o]
                    /\ o = FALSE
    BY <1>1, <1>2, <1>3, <1>5, <1>15 DEF PwStepFails, PwInv, PwTypes
  <2>2. /\ DOMAIN pwPass' = DOMAIN pwPass /\ pwPass'.name = "off" /\ pwPass'.failed = TRUE
        /\ pwPass'.steps = pwPass.steps /\ pwPass'.owned = FALSE
    BY <2>1 DEF PwInv, PwTypes
  <2> QED
    BY <1>2, <1>9, <1>12, <1>13, <2>2 DEF PwInv, PwTypes, PwOnTrue, PwOffTrue
<1> QED
  BY <1>14, <1>15

\* finish() closes no mask but its own.
LEMMA PwFinishKeeps ==
  ASSUME PwInv, PwFinish
  PROVE  PwInv' /\ PwGently
<1>1. PICK works \in BOOLEAN : \E m \in PwMaskAfter(works) : pwDevice' = [pwDevice EXCEPT !.mask = m]
  BY DEF PwFinish
<1>2. PICK m \in PwMaskAfter(works) : pwDevice' = [pwDevice EXCEPT !.mask = m]
  BY <1>1
<1>3. pwPass' = PwNoPass
  BY DEF PwFinish
<1>4. pwDevice.mask = "other" => ~pwPass.owned
  BY DEF PwInv, PwTypes, PwOnTrue
<1>5. pwDevice.mask = "other" => m = "other"
  BY <1>2, <1>4 DEF PwMaskAfter, PwClosed, PwMayClose
<1>6. /\ DOMAIN pwDevice' = DOMAIN pwDevice /\ pwDevice'.mask = m /\ pwDevice'.mac = pwDevice.mac
  BY <1>2 DEF PwInv, PwTypes
<1> QED
  BY <1>3, <1>5, <1>6, PwNoPassIs DEF PwInv, PwTypes, PwOnTrue, PwOffTrue, PwGently

\* The device and its owner.
LEMMA PwDeviceKeeps ==
  ASSUME PwInv, PwSupplySettles \/ PwOwnerRuns \/ PwEnginesRest \/ PwGone \/ PwOtherOpens
  PROVE  PwInv' /\ PwGently
<1>1. pwPass' = pwPass
  BY DEF PwSupplySettles, PwOwnerRuns, PwEnginesRest, PwGone, PwOtherOpens
<1>2. CASE PwSupplySettles
  <2>1. \/ pwDevice.mac = "rising" /\ pwDevice' = [pwDevice EXCEPT !.mac = "on"]
        \/ pwDevice.mac = "falling" /\ pwDevice' = [pwDevice EXCEPT !.mac = "off", !.functions = FALSE]
    BY <1>2 DEF PwSupplySettles
  <2>2. /\ DOMAIN pwDevice' = DOMAIN pwDevice /\ pwDevice'.mask = pwDevice.mask /\ pwDevice.mac \in {"rising", "falling"}
        /\ pwDevice'.dma = pwDevice.dma /\ pwDevice'.irq = pwDevice.irq
    BY <2>1 DEF PwInv, PwTypes
  <2> QED
    BY <1>1, <2>2 DEF PwInv, PwTypes, PwOnTrue, PwOffTrue, PwGently
<1>3. CASE PwOwnerRuns
  <2>1. PICK dma, irq : pwDevice' = [pwDevice EXCEPT !.dma = dma, !.irq = irq]
    BY <1>3 DEF PwOwnerRuns
  <2>2. DOMAIN pwDevice' = DOMAIN pwDevice /\ pwDevice'.mask = pwDevice.mask /\ pwDevice'.mac = pwDevice.mac
    BY <2>1 DEF PwInv, PwTypes
  <2> QED
    BY <1>1, <1>3, <2>2 DEF PwOwnerRuns, PwInv, PwTypes, PwOnTrue, PwOffTrue, PwGently
<1>4. CASE PwEnginesRest
  <2>1. /\ DOMAIN pwDevice' = DOMAIN pwDevice /\ pwDevice'.mask = pwDevice.mask /\ pwDevice'.mac = pwDevice.mac
        /\ pwDevice'.irq = pwDevice.irq /\ pwDevice'.dma = "stopped"
    BY <1>4 DEF PwEnginesRest, PwInv, PwTypes
  <2> QED
    BY <1>1, <2>1 DEF PwInv, PwTypes, PwOnTrue, PwOffTrue, PwGently
<1>5. CASE PwGone
  BY <1>1, <1>5 DEF PwGone, PwInv, PwTypes, PwOnTrue, PwOffTrue, PwGently
<1>6. CASE PwOtherOpens
  <2>1. /\ DOMAIN pwDevice' = DOMAIN pwDevice /\ pwDevice'.mask = "other" /\ pwDevice'.mac = pwDevice.mac
    BY <1>6 DEF PwOtherOpens, PwInv, PwTypes
  <2> QED
    BY <1>1, <1>6, <2>1 DEF PwOtherOpens, PwInv, PwTypes, PwOnTrue, PwOffTrue, PwGently
<1> QED
  BY <1>2, <1>3, <1>4, <1>5, <1>6

\* Every step of the power passes.
LEMMA PwMoves ==
  ASSUME PwInv, PwNext \/ UNCHANGED pwVars
  PROVE  PwInv' /\ PwGently
<1>1. CASE UNCHANGED pwVars
  BY <1>1 DEF pwVars, PwInv, PwTypes, PwOnTrue, PwOffTrue, PwGently
<1>2. CASE PwStep \/ PwStepFails
  <2>1. pwPass.name \in {"on", "off"}
    BY <1>2 DEF PwStep, PwStepFails, PwRunning, PwInv, PwTypes
  <2> QED
    BY <1>2, <2>1, PwOnStepKeeps, PwOffStepKeeps
<1> QED
  BY <1>1, <1>2, PwBeginsKeeps, PwFinishKeeps, PwDeviceKeeps DEF PwNext

\* The device is found off.
LEMMA PwStarts ==
  ASSUME PwInit
  PROVE  PwInv
<1>1. PICK m \in {"closed", "other"} : pwDevice = PwOffDevice(m)
  BY DEF PwInit
<1>2. DOMAIN pwDevice = {"mac", "radio", "isolated", "functions", "sleep", "mask", "dma", "irq"}
  BY <1>1 DEF PwOffDevice
<1>3. pwPass = PwNoPass
  BY DEF PwInit
<1> QED
  BY <1>2, <1>3, PwNoPassIs DEF PwInv, PwTypes, PwOnTrue, PwOffTrue

----------------------------------------------------------------------------
(* The two bring-up cycles *)

\* The fields that matter here.
UpTypes ==
  /\ upCycle \in UpCycles
  /\ DOMAIN upDevice = {"power", "pmc", "cpu", "master", "engine", "ring", "published", "consumed", "busy"}
  /\ DOMAIN upC = UpCycles
  /\ \A c \in UpCycles : DOMAIN upC[c] = {"touched", "closed", "offAttempted", "returnedOff", "modified", "stage",
                                          "visible", "pages"}

\* Where a cycle is started, and where the device is up for it.
UpBefore == {"identity", "power"}
UpWithin == {"dma", "dmac", "pci", "cpu", "bank", "prepare", "start", "master", "engine", "publish", "quiesce",
             "giveback", "accept", "calibrate", "finish"}
UpWithout == {"new", "allocated"}
UpDown == {"closing", "closeCpu", "closePower"}

\* The cycles follow each other: the second touches the device when the first is closed.
UpInTurn ==
  /\ upC[1].touched => upC[0].closed
  /\ upAt \in UpWithout => \A c \in UpCycles : ~upC[c].touched /\ ~upC[c].closed
  /\ upAt \in UpBefore \cup UpWithin =>
        /\ ~upC[upCycle].closed
        /\ upCycle = 0 => ~upC[1].touched /\ ~upC[1].closed
        /\ upCycle = 1 => upC[0].closed
  /\ upAt = "calibrate" => upCycle = 0
  /\ upAt \in UpDown => upCaller \in {"probe", "second", "first"}
  /\ upAt \in UpDown /\ upCaller = "probe" => upCycle = 0 /\ ~upC[1].touched /\ ~upC[1].closed

\* A device without its supply does nothing, and it has it while a cycle uses it.
UpSupplied ==
  /\ ~upDevice.power => UpStoppedDma /\ ~upDevice.cpu
  /\ upAt \in UpWithin \cup {"prepared"} => upDevice.power
  /\ upAt \in UpWithin => upC[upCycle].touched

\* A processor that runs was started by a cycle that is to stop it.
UpStarted ==
  /\ upDevice.cpu => \E c \in UpCycles :
        upC[c].touched /\ ~upC[c].closed /\ upC[c].modified /\ upC[c].stage # "stopped"
  /\ upAt \in {"dma", "dmac"} => ~upDevice.cpu
  /\ upAt \in {"pci", "cpu"} => upC[upCycle].modified

\* DMA is at rest before the processor is stopped, and that before the supply is cut.
UpWindsUp ==
  /\ upAt \in {"closeCpu", "closePower"} =>
        UpStoppedDma /\ upC[upCycle].touched /\ ~upC[upCycle].closed
  /\ upAt = "closePower" => ~upDevice.cpu

UpInv == UpTypes /\ UpInTurn /\ UpSupplied /\ UpStarted /\ UpWindsUp

\* What a step may do to the supply.
UpSwitchedRight == upDevice'.power # upDevice.power => UpStoppedDma /\ ~upDevice.cpu

\* The entries of the cycles are told apart by what the proof looks at.
UpAlike ==
  /\ DOMAIN upC' = UpCycles
  /\ \A c \in UpCycles :
       /\ DOMAIN upC'[c] = DOMAIN upC[c]
       /\ upC'[c].touched = upC[c].touched /\ upC'[c].closed = upC[c].closed
       /\ upC'[c].modified = upC[c].modified /\ upC'[c].stage = upC[c].stage

\* The part of the device the proof looks at.
UpDeviceAlike ==
  /\ DOMAIN upDevice' = DOMAIN upDevice /\ upDevice'.power = upDevice.power /\ upDevice'.cpu = upDevice.cpu
  /\ upDevice'.master = upDevice.master /\ upDevice'.engine = upDevice.engine /\ upDevice'.busy = upDevice.busy

\* Steps that only move on.
LEMMA UpGoesOn ==
  ASSUME UpInv, UpAlike, UpDeviceAlike, upCycle' = upCycle, upCaller' = upCaller,
         \/ upAt' = upAt
         \/ upAt \in UpWithin /\ upAt' \in UpWithin \ {"dma", "dmac", "pci", "cpu", "calibrate"}
         \/ upAt = "new" /\ upAt' = "allocated"
         \/ upAt = "identity" /\ upAt' = "power"
         \/ upAt = "pci" /\ upAt' = "cpu"
         \/ upAt = "finish" /\ upAt' = "prepared"
         \/ upAt' \in {"failing", "stopped", "released"}
  PROVE  UpInv' /\ UpSwitchedRight
<1>1. UpTypes'
  BY DEF UpInv, UpTypes, UpAlike, UpDeviceAlike
<1>2. upCycle \in UpCycles /\ 0 \in UpCycles /\ 1 \in UpCycles
  BY DEF UpInv, UpTypes, UpCycles
<1>3. UpInTurn'
  BY <1>2 DEF UpInv, UpInTurn, UpAlike, UpBefore, UpWithin, UpWithout, UpDown
<1>4. UpSupplied'
  BY <1>2 DEF UpInv, UpSupplied, UpAlike, UpDeviceAlike, UpStoppedDma, UpWithin
<1>5. UpStarted'
  BY <1>2 DEF UpInv, UpStarted, UpAlike, UpDeviceAlike, UpWithin
<1>6. UpWindsUp'
  BY <1>2 DEF UpInv, UpWindsUp, UpAlike, UpDeviceAlike, UpStoppedDma, UpWithin
<1> QED
  BY <1>1, <1>3, <1>4, <1>5, <1>6 DEF UpInv, UpSwitchedRight, UpDeviceAlike

\* Steps that end in stop().
LEMMA UpStopsNow ==
  ASSUME UpInv, UpAlike, UpDeviceAlike, upCycle' = 1, upCaller' = "second", upAt' = "closing"
  PROVE  UpInv' /\ UpSwitchedRight
<1>1. UpTypes'
  BY DEF UpInv, UpTypes, UpAlike, UpDeviceAlike, UpCycles
<1>2. 0 \in UpCycles /\ 1 \in UpCycles
  BY DEF UpCycles
<1> QED
  BY <1>1, <1>2 DEF UpInv, UpInTurn, UpSupplied, UpStarted, UpWindsUp, UpAlike, UpDeviceAlike, UpStoppedDma, UpBefore,
     UpWithin, UpWithout, UpDown, UpSwitchedRight

\* Nothing of the device changes.
LEMMA UpUnchangedAlike ==
  /\ UpInv /\ upC' = upC => UpAlike
  /\ upDevice' = upDevice => UpDeviceAlike
BY DEF UpInv, UpTypes, UpAlike, UpDeviceAlike

\* Only pages and their visibility change.
LEMMA UpPagesAlike ==
  ASSUME UpInv, NEW p, NEW v,
         \/ upC' = [upC EXCEPT ![upCycle].visible = v]
         \/ upC' = [upC EXCEPT ![upCycle].pages = p]
         \/ upC' = [upC EXCEPT ![upCycle].visible = v, ![upCycle].pages = p]
  PROVE  UpAlike
BY DEF UpInv, UpTypes, UpAlike

\* Calls of the owner.
LEMMA UpOwnerKeeps ==
  ASSUME UpInv, UpAllocate \/ UpPrepare \/ UpCancel \/ UpStop \/ UpRelease
  PROVE  UpInv' /\ UpSwitchedRight
<1>1. CASE UpAllocate
  <2>1. UpAlike
    <3>1. CASE upC' = [c \in UpCycles |-> [upC[c] EXCEPT !.pages = "held"]]
      BY <3>1 DEF UpInv, UpTypes, UpAlike
    <3>2. CASE \E held \in SUBSET UpCycles :
                  upC' = [c \in UpCycles |-> IF c \in held THEN [upC[c] EXCEPT !.pages = "held"] ELSE upC[c]]
      <4>1. PICK held \in SUBSET UpCycles :
                  upC' = [c \in UpCycles |-> IF c \in held THEN [upC[c] EXCEPT !.pages = "held"] ELSE upC[c]]
        BY <3>2
      <4>2. DOMAIN upC' = UpCycles
        BY <4>1
      <4>3. ASSUME NEW c \in UpCycles
            PROVE  /\ DOMAIN upC'[c] = DOMAIN upC[c]
                   /\ upC'[c].touched = upC[c].touched /\ upC'[c].closed = upC[c].closed
                   /\ upC'[c].modified = upC[c].modified /\ upC'[c].stage = upC[c].stage
        <5>1. upC'[c] = [upC[c] EXCEPT !.pages = "held"] \/ upC'[c] = upC[c]
          BY <4>1
        <5> QED
          BY <5>1 DEF UpInv, UpTypes
      <4> QED
        BY <4>2, <4>3 DEF UpAlike
    <3> QED
      BY <1>1, <3>1, <3>2 DEF UpAllocate
  <2>2. UNCHANGED <<upDevice, upCycle, upCaller>> /\ upAt = "new" /\ upAt' \in {"allocated", "stopped"}
    BY <1>1 DEF UpAllocate, UpGo
  <2> QED
    BY <2>1, <2>2, UpGoesOn, UpUnchangedAlike
<1>2. CASE UpPrepare
  <2>1. UNCHANGED <<upC, upDevice, upCaller>> /\ upAt = "allocated" /\ upAt' = "identity" /\ upCycle' = 0
    BY <1>2 DEF UpPrepare
  <2>2. 0 \in UpCycles /\ 1 \in UpCycles
    BY DEF UpCycles
  <2> QED
    BY <2>1, <2>2 DEF UpInv, UpTypes, UpInTurn, UpSupplied, UpStarted, UpWindsUp, UpStoppedDma, UpBefore, UpWithin,
       UpWithout, UpDown, UpSwitchedRight
<1>3. CASE UpCancel
  <2>1. UNCHANGED <<upC, upDevice, upCaller, upAt, upCycle>>
    BY <1>3 DEF UpCancel, upLocals
  <2> QED
    BY <2>1, UpGoesOn, UpUnchangedAlike
<1>4. CASE UpStop
  <2>1. UNCHANGED <<upC, upDevice>> /\ upAt' = "closing" /\ upCycle' = 1 /\ upCaller' = "second"
    BY <1>4 DEF UpStop
  <2> QED
    BY <2>1, UpStopsNow, UpUnchangedAlike
<1>5. CASE UpRelease
  <2>1. UpAlike
    <3>1. CASE upC' = [c \in UpCycles |-> [upC[c] EXCEPT !.pages = "freed"]]
      BY <3>1 DEF UpInv, UpTypes, UpAlike
    <3>2. CASE \E c \in UpCycles : upC' = [upC EXCEPT ![c].pages = "partly"]
      <4>1. PICK k \in UpCycles : upC' = [upC EXCEPT ![k].pages = "partly"]
        BY <3>2
      <4> QED
        BY <4>1 DEF UpInv, UpTypes, UpAlike
    <3> QED
      BY <1>5, <3>1, <3>2 DEF UpRelease
  <2>2. UNCHANGED <<upDevice, upCycle, upCaller>> /\ (upAt' = upAt \/ upAt' = "released")
    BY <1>5 DEF UpRelease
  <2> QED
    BY <2>1, <2>2, UpGoesOn, UpUnchangedAlike
<1> QED
  BY <1>1, <1>2, <1>3, <1>4, <1>5

\* The steps of the way up that leave power, processor and engines alone.
LEMMA UpQuietKeeps ==
  ASSUME UpInv, UpIdentity \/ UpFailing \/ UpPci \/ UpBank \/ UpTransferPrepare \/ UpStartRing \/ UpPublish \/ UpDrain
                \/ UpGiveBack \/ UpFinish
  PROVE  UpInv' /\ UpSwitchedRight
<1>1. CASE UpFail
  <2>1. UNCHANGED <<upC, upDevice>> /\ upAt' = "closing" /\ upCycle' = 1 /\ upCaller' = "second"
    BY <1>1 DEF UpFail
  <2> QED
    BY <2>1, UpStopsNow, UpUnchangedAlike
<1>2. CASE UpIdentity /\ ~UpFail
  BY <1>2, UpGoesOn, UpUnchangedAlike DEF UpIdentity, UpGo
<1>3. CASE UpPci /\ ~UpFail
  <2>1. upDevice' = [upDevice EXCEPT !.ring = UpNone, !.published = 0, !.consumed = 0] /\ UNCHANGED <<upC, upCycle, upCaller>>
        /\ upAt = "pci" /\ upAt' = "cpu"
    BY <1>3 DEF UpPci, UpGo
  <2>2. UpDeviceAlike
    BY <2>1 DEF UpInv, UpTypes, UpDeviceAlike
  <2> QED
    BY <2>1, <2>2, UpGoesOn, UpUnchangedAlike
<1>4. CASE UpBank
  <2>1. upAt = "bank" /\ upAt' \in {"prepare", "accept"} /\ UNCHANGED <<upDevice, upCycle, upCaller>>
    BY <1>4 DEF UpBank, UpTo
  <2>2. UpAlike
    <3>1. upC' = upC \/ \E p : upC' = [upC EXCEPT ![upCycle].pages = p]
      BY <1>4 DEF UpBank, UpSetPages
    <3> QED
      BY <3>1, UpPagesAlike, UpUnchangedAlike
  <2> QED
    BY <2>1, <2>2, UpGoesOn, UpUnchangedAlike DEF UpWithin
<1>5. CASE UpTransferPrepare \/ UpDrain
  <2>1. upAt \in {"prepare", "publish"} /\ upAt' \in {"accept", "quiesce", "start"}
        /\ UNCHANGED <<upC, upDevice, upCycle, upCaller>>
    BY <1>5 DEF UpTransferPrepare, UpDrain, UpTo, UpKeep
  <2> QED
    BY <2>1, UpGoesOn, UpUnchangedAlike DEF UpWithin
<1>6. CASE UpStartRing
  <2>1. upAt = "start" /\ upAt' \in {"master", "quiesce"} /\ UNCHANGED <<upCycle, upCaller>>
    BY <1>6 DEF UpStartRing, UpTo
  <2>2. UpAlike
    <3>1. upC' = upC \/ upC' = [upC EXCEPT ![upCycle].visible = TRUE]
      BY <1>6 DEF UpStartRing
    <3> QED
      BY <3>1, UpPagesAlike, UpUnchangedAlike
  <2>3. UpDeviceAlike
    <3>1. upDevice' = upDevice \/ \E r : upDevice' = [upDevice EXCEPT !.ring = r]
      BY <1>6 DEF UpStartRing
    <3> QED
      BY <3>1 DEF UpInv, UpTypes, UpDeviceAlike
  <2> QED
    BY <2>1, <2>2, <2>3, UpGoesOn DEF UpWithin
<1>7. CASE UpPublish
  <2>1. upAt = "publish" /\ upAt' \in {"publish", "quiesce"} /\ UNCHANGED <<upC, upCycle, upCaller>>
    BY <1>7 DEF UpPublish, UpGo
  <2>2. \E n : upDevice' = [upDevice EXCEPT !.published = n]
    BY <1>7 DEF UpPublish
  <2>3. UpDeviceAlike
    BY <2>2 DEF UpInv, UpTypes, UpDeviceAlike
  <2> QED
    BY <2>1, <2>3, UpGoesOn, UpUnchangedAlike DEF UpWithin
<1>8. CASE UpGiveBack
  <2>1. upAt = "giveback" /\ upAt' = "accept" /\ UNCHANGED <<upDevice, upCycle, upCaller>>
    BY <1>8 DEF UpGiveBack, UpGo
  <2>2. UpAlike
    <3>1. \/ upC' = upC
          \/ upC' = [upC EXCEPT ![upCycle].visible = FALSE, ![upCycle].pages = "freed"]
          \/ upC' = [upC EXCEPT ![upCycle].pages = "partly"]
      BY <1>8 DEF UpGiveBack
    <3> QED
      BY <3>1, UpPagesAlike, UpUnchangedAlike
  <2> QED
    BY <2>1, <2>2, UpGoesOn, UpUnchangedAlike DEF UpWithin
<1>9. CASE UpFinish /\ ~UpFail
  BY <1>9, UpGoesOn, UpUnchangedAlike DEF UpFinish, UpGo
<1> QED
  BY <1>1, <1>2, <1>3, <1>4, <1>5, <1>6, <1>7, <1>8, <1>9 DEF UpFailing

\* The engines of a device that has its supply.
LEMMA UpEnginesMove ==
  ASSUME UpInv, UpAlike, upCycle' = upCycle, upCaller' = upCaller, upAt \in UpWithin,
         DOMAIN upDevice' = DOMAIN upDevice, upDevice'.power = upDevice.power, upDevice'.cpu = upDevice.cpu,
         \/ upAt' \in (UpWithin \ {"dma", "dmac", "pci", "cpu", "calibrate"}) \cup {"failing"}
         \/ upAt = "dma" /\ upAt' = "dmac"
  PROVE  UpInv' /\ UpSwitchedRight
<1>1. UpTypes'
  BY DEF UpInv, UpTypes, UpAlike
<1>2. upCycle \in UpCycles /\ 0 \in UpCycles /\ 1 \in UpCycles
  BY DEF UpInv, UpTypes, UpCycles
<1>3. UpInTurn'
  BY <1>2 DEF UpInv, UpInTurn, UpAlike, UpBefore, UpWithin, UpWithout, UpDown
<1>4. UpSupplied' /\ UpWindsUp'
  BY <1>2 DEF UpInv, UpSupplied, UpWindsUp, UpAlike, UpWithin
<1>5. UpStarted'
  BY <1>2 DEF UpInv, UpStarted, UpAlike, UpWithin
<1> QED
  BY <1>1, <1>3, <1>4, <1>5 DEF UpInv, UpSwitchedRight

\* The steps of the way up that change the engines.
LEMMA UpEnginesKeep ==
  ASSUME UpInv, UpDmaStop \/ UpStartMaster \/ UpStartEngine \/ UpQuiesce
  PROVE  UpInv' /\ UpSwitchedRight
<1>1. UpAlike
  BY UpUnchangedAlike DEF UpDmaStop, UpStartMaster, UpStartEngine, UpQuiesce
<1>2. UNCHANGED <<upCycle, upCaller>> /\ upAt \in {"dma", "master", "engine", "quiesce"}
  BY DEF UpDmaStop, UpStartMaster, UpStartEngine, UpQuiesce, UpGo, UpTo
<1>3. \/ upAt' \in {"failing", "engine", "publish", "quiesce", "giveback", "accept"}
      \/ upAt = "dma" /\ upAt' = "dmac"
  BY DEF UpDmaStop, UpStartMaster, UpStartEngine, UpQuiesce, UpGo, UpTo
<1>4. \/ upDevice' = upDevice
      \/ \E e : upDevice' = [upDevice EXCEPT !.engine = e]
      \/ \E m : upDevice' = [upDevice EXCEPT !.master = m]
      \/ \E e, m : upDevice' = [upDevice EXCEPT !.engine = e, !.master = m]
      \/ \E r : upDevice' = [upDevice EXCEPT !.engine = FALSE, !.master = FALSE, !.ring = r]
      \/ upDevice' = [upDevice EXCEPT !.engine = FALSE, !.master = FALSE, !.ring = UpNone, !.published = 0, !.consumed = 0]
  <2>1. CASE UpDmaStop
    BY <2>1 DEF UpDmaStop, UpDmaStopped, UpDmaUnproven
  <2>2. CASE UpStartMaster
    BY <2>2 DEF UpStartMaster
  <2>3. CASE UpStartEngine
    BY <2>3 DEF UpStartEngine
  <2>4. CASE UpQuiesce
    BY <2>4 DEF UpQuiesce, UpDmaUnproven
  <2> QED
    BY <2>1, <2>2, <2>3, <2>4
<1>5. DOMAIN upDevice' = DOMAIN upDevice /\ upDevice'.power = upDevice.power /\ upDevice'.cpu = upDevice.cpu
  BY <1>4 DEF UpInv, UpTypes
<1> QED
  BY <1>1, <1>2, <1>3, <1>5, UpEnginesMove DEF UpWithin

\* DevicePower::start().
LEMMA UpPowerOnKeeps ==
  ASSUME UpInv, UpPowerOn
  PROVE  UpInv' /\ UpSwitchedRight
<1>1. CASE UpFail
  <2>1. UNCHANGED <<upC, upDevice>> /\ upAt' = "closing" /\ upCycle' = 1 /\ upCaller' = "second"
    BY <1>1 DEF UpFail
  <2> QED
    BY <2>1, UpStopsNow, UpUnchangedAlike
<1>2. CASE ~UpFail
  <2>1. /\ upAt = "power" /\ ~upDevice.power /\ UNCHANGED <<upCycle, upCaller>>
        /\ upC' = [upC EXCEPT ![upCycle].touched = TRUE] /\ upAt' \in {"dma", "failing"}
    BY <1>2 DEF UpPowerOn, UpGo
  <2>2. PICK on, open : /\ upDevice' = [upDevice EXCEPT !.power = on] \/ upDevice' = [upDevice EXCEPT !.power = on, !.pmc = open]
                        /\ upAt' = "dma" => on = TRUE
    BY <1>2 DEF UpPowerOn, UpGo
  <2>3. /\ DOMAIN upDevice' = DOMAIN upDevice /\ upDevice'.power = on /\ upDevice'.cpu = upDevice.cpu
        /\ upDevice'.master = upDevice.master /\ upDevice'.engine = upDevice.engine /\ upDevice'.busy = upDevice.busy
    BY <2>2 DEF UpInv, UpTypes
  <2>4. UpStoppedDma /\ ~upDevice.cpu
    BY <2>1 DEF UpInv, UpSupplied
  <2>5. upCycle \in UpCycles /\ 0 \in UpCycles /\ 1 \in UpCycles /\ \A c \in UpCycles : c = 0 \/ c = 1
    BY DEF UpInv, UpTypes, UpCycles
  <2>6. /\ DOMAIN upC' = UpCycles /\ upC'[upCycle].touched = TRUE
        /\ \A c \in UpCycles : /\ DOMAIN upC'[c] = DOMAIN upC[c] /\ upC'[c].closed = upC[c].closed
                               /\ c # upCycle => upC'[c].touched = upC[c].touched
    BY <2>1, <2>5 DEF UpInv, UpTypes
  <2>7. UpTypes'
    BY <2>1, <2>3, <2>6 DEF UpInv, UpTypes
  <2>8. UpInTurn'
    BY <2>1, <2>5, <2>6 DEF UpInv, UpInTurn, UpBefore, UpWithin, UpWithout, UpDown
  <2> QED
    BY <2>1, <2>2, <2>3, <2>4, <2>5, <2>6, <2>7, <2>8
    DEF UpInv, UpSupplied, UpStarted, UpWindsUp, UpStoppedDma, UpWithin, UpSwitchedRight
<1> QED
  BY <1>1, <1>2

\* The processor's steps of a cycle: stage, modified and the processor itself.
LEMMA UpProcessorMoves ==
  ASSUME UpInv, upCycle' = upCycle, upCaller' = upCaller, upAt \in UpWithin,
         NEW s, NEW m, s # "stopped",
         upC' = [upC EXCEPT ![upCycle].stage = s] \/ upC' = [upC EXCEPT ![upCycle].stage = s, ![upCycle].modified = m],
         DOMAIN upDevice' = DOMAIN upDevice, upDevice'.power = upDevice.power,
         upDevice'.cpu => upC'[upCycle].modified \/ (upDevice.cpu /\ upC' = [upC EXCEPT ![upCycle].stage = s]),
         upAt' \in {"pci", "cpu"} => upC'[upCycle].modified,
         upAt' = "calibrate" => upCycle = 0,
         upAt' \in (UpWithin \ {"dma", "dmac"}) \cup {"failing"}
  PROVE  UpInv' /\ UpSwitchedRight
<1>1. upCycle \in UpCycles /\ 0 \in UpCycles /\ 1 \in UpCycles
  BY DEF UpInv, UpTypes, UpCycles
<1>2. /\ DOMAIN upC' = UpCycles /\ upC'[upCycle].stage = s
      /\ \A c \in UpCycles : /\ DOMAIN upC'[c] = DOMAIN upC[c] /\ upC'[c].closed = upC[c].closed
                             /\ upC'[c].touched = upC[c].touched /\ (c # upCycle => upC'[c] = upC[c])
  BY <1>1 DEF UpInv, UpTypes
<1>3. upC' = [upC EXCEPT ![upCycle].stage = s] => \A c \in UpCycles : upC'[c].modified = upC[c].modified
  BY <1>1 DEF UpInv, UpTypes
<1>4. UpTypes'
  BY <1>2 DEF UpInv, UpTypes
<1>5. UpInTurn'
  BY <1>1, <1>2 DEF UpInv, UpInTurn, UpBefore, UpWithin, UpWithout, UpDown
<1>6. UpSupplied' /\ UpWindsUp'
  BY <1>1, <1>2 DEF UpInv, UpSupplied, UpWindsUp, UpWithin
<1>7. upC'[upCycle].touched /\ ~upC'[upCycle].closed
  BY <1>1, <1>2 DEF UpInv, UpInTurn, UpSupplied
<1>8. UpStarted'
  <2>1. ASSUME upDevice'.cpu
        PROVE  \E c \in UpCycles : upC'[c].touched /\ ~upC'[c].closed /\ upC'[c].modified /\ upC'[c].stage # "stopped"
    <3>1. CASE upC'[upCycle].modified
      BY <1>1, <1>2, <1>7, <3>1
    <3>2. CASE upDevice.cpu /\ upC' = [upC EXCEPT ![upCycle].stage = s]
      <4>1. PICK c \in UpCycles : upC[c].touched /\ ~upC[c].closed /\ upC[c].modified /\ upC[c].stage # "stopped"
        BY <3>2 DEF UpInv, UpStarted
      <4>2. upC'[c].touched /\ ~upC'[c].closed /\ upC'[c].modified /\ upC'[c].stage # "stopped"
        BY <1>2, <1>3, <3>2, <4>1
      <4> QED
        BY <4>2
    <3> QED
      BY <2>1, <3>1, <3>2
  <2> QED
    BY <2>1 DEF UpStarted
<1> QED
  BY <1>4, <1>5, <1>6, <1>8 DEF UpInv, UpSwitchedRight

\* prepareDmac(), enableCpuForDownload() and acceptDownload().
LEMMA UpProcessorKeeps ==
  ASSUME UpInv, UpPrepareDmac \/ UpEnableCpu \/ UpAccept
  PROVE  UpInv' /\ UpSwitchedRight
<1>1. upCycle \in UpCycles
  BY DEF UpInv, UpTypes
<1>2. CASE UpPrepareDmac
  <2>1. /\ upAt = "dmac" /\ UNCHANGED <<upDevice, upCycle, upCaller>> /\ upAt' \in {"pci", "failing"}
    BY <1>2 DEF UpPrepareDmac, UpGo
  <2>2. PICK s, m : /\ upC' = [upC EXCEPT ![upCycle].stage = s, ![upCycle].modified = m]
                    /\ s \in {"dmac", "fault"} /\ (upAt' = "pci" => m = TRUE)
    BY <1>2 DEF UpPrepareDmac, UpGo
  <2>3. upC'[upCycle].modified = m
    BY <1>1, <2>2 DEF UpInv, UpTypes
  <2>4. ~upDevice.cpu
    BY <2>1 DEF UpInv, UpStarted
  <2> QED
    BY <2>1, <2>2, <2>3, <2>4, UpProcessorMoves DEF UpWithin
<1>3. CASE UpEnableCpu
  <2>1. /\ upAt = "cpu" /\ UNCHANGED <<upCycle, upCaller>> /\ upAt' \in {"bank", "failing"}
    BY <1>3 DEF UpEnableCpu, UpGo
  <2>2. PICK s, on : /\ upC' = [upC EXCEPT ![upCycle].stage = s] /\ s \in {"cpu", "fault"}
                     /\ upDevice' = [upDevice EXCEPT !.cpu = on]
    BY <1>3 DEF UpEnableCpu
  <2>3. upC'[upCycle].modified /\ DOMAIN upDevice' = DOMAIN upDevice /\ upDevice'.power = upDevice.power
    BY <1>1, <2>1, <2>2 DEF UpInv, UpTypes, UpStarted
  <2> QED
    BY <2>1, <2>2, <2>3, UpProcessorMoves DEF UpWithin
<1>4. CASE UpAccept
  <2>1. /\ upAt = "accept" /\ UNCHANGED <<upDevice, upCycle, upCaller>> /\ upAt' \in {"calibrate", "finish", "failing"}
        /\ upAt' = "calibrate" => upCycle = 0
    BY <1>4 DEF UpAccept, UpGo
  <2>2. PICK s : upC' = [upC EXCEPT ![upCycle].stage = s] /\ s \in {"ready", "fault"}
    BY <1>4 DEF UpAccept
  <2> QED
    BY <2>1, <2>2, UpProcessorMoves DEF UpWithin
<1> QED
  BY <1>2, <1>3, <1>4

\* The calibration data, and the device's own steps.
LEMMA UpOthersKeep ==
  ASSUME UpInv, UpCalibrate \/ UpDeviceReads \/ UpDeviceDone
  PROVE  UpInv' /\ UpSwitchedRight
<1>0. upCycle \in UpCycles /\ 0 \in UpCycles /\ 1 \in UpCycles
  BY DEF UpInv, UpTypes, UpCycles
<1>1. CASE UpCalibrate /\ UpFail
  <2>1. UNCHANGED <<upC, upDevice>> /\ upAt' = "closing" /\ upCycle' = 1 /\ upCaller' = "second"
    BY <1>1 DEF UpFail
  <2> QED
    BY <2>1, UpStopsNow, UpUnchangedAlike
<1>2. CASE UpCalibrate /\ ~UpFail
  <2>1. UNCHANGED <<upC, upDevice, upCycle>> /\ upAt = "calibrate" /\ upAt' = "closing" /\ upCaller' = "probe"
    BY <1>2 DEF UpCalibrate, UpKeep
  <2> QED
    BY <1>0, <2>1 DEF UpInv, UpTypes, UpInTurn, UpSupplied, UpStarted, UpWindsUp, UpStoppedDma, UpBefore, UpWithin,
       UpWithout, UpDown, UpSwitchedRight
<1>3. CASE UpDeviceReads \/ UpDeviceDone
  <2>1. UNCHANGED <<upAt, upCycle, upCaller, upC>>
    BY <1>3 DEF UpDeviceReads, UpDeviceDone, upLocals
  <2>2. PICK n, b : \/ upDevice' = [upDevice EXCEPT !.consumed = n, !.busy = b] /\ ~UpStoppedDma
                    \/ upDevice' = [upDevice EXCEPT !.busy = UpNone] /\ upDevice.busy # UpNone
    BY <1>3 DEF UpDeviceReads, UpDeviceDone, UpStoppedDma
  <2>3. ~UpStoppedDma
    BY <2>2 DEF UpStoppedDma
  <2>4. DOMAIN upDevice' = DOMAIN upDevice /\ upDevice'.power = upDevice.power /\ upDevice'.cpu = upDevice.cpu
    BY <2>2 DEF UpInv, UpTypes
  <2>5. UpTypes' /\ UpInTurn' /\ UpStarted'
    BY <2>1, <2>4 DEF UpInv, UpTypes, UpInTurn, UpStarted
  <2>6. UpSupplied' /\ UpWindsUp'
    BY <2>1, <2>3, <2>4 DEF UpInv, UpSupplied, UpWindsUp
  <2> QED
    BY <2>4, <2>5, <2>6 DEF UpInv, UpSwitchedRight
<1> QED
  BY <1>1, <1>2, <1>3

\* The end of stopCycle(): where prepare() or stop() goes on.
LEMMA UpReturnKeeps ==
  ASSUME UpInv, upAt \in UpDown, NEW ok \in BOOLEAN, UpReturn(ok),
         DOMAIN upDevice' = DOMAIN upDevice, DOMAIN upC' = UpCycles,
         \A c \in UpCycles : DOMAIN upC'[c] = DOMAIN upC[c] /\ upC'[c].touched = upC[c].touched,
         upC[0].closed => upC'[0].closed,
         ~upDevice'.power => UpStoppedDma' /\ ~upDevice'.cpu,
         upDevice'.cpu => \E c \in UpCycles :
            upC'[c].touched /\ ~upC'[c].closed /\ upC'[c].modified /\ upC'[c].stage # "stopped",
         upCaller = "probe" /\ ok => upC'[0].closed /\ ~upC'[1].closed
  PROVE  UpInv'
<1>0. 0 \in UpCycles /\ 1 \in UpCycles /\ upCycle \in UpCycles
  BY DEF UpCycles, UpInv, UpTypes
<1>1. upCaller \in {"probe", "second", "first"}
  BY DEF UpInv, UpInTurn
<1>2. \/ upCaller = "probe" /\ ok /\ upAt' = "identity" /\ upCycle' = 1
      \/ upAt' = "failing" /\ upCycle' = upCycle
      \/ upAt' = "closing" /\ upCycle' = 0 /\ upCaller' = "first"
      \/ upAt' = "stopped" /\ upCycle' = upCycle
  BY <1>1 DEF UpReturn, UpGo
<1>3. UpTypes'
  BY <1>0, <1>2 DEF UpInv, UpTypes
<1>4. UpInTurn'
  BY <1>0, <1>2 DEF UpInv, UpInTurn, UpBefore, UpWithin, UpWithout, UpDown
<1>5. UpSupplied' /\ UpStarted' /\ UpWindsUp'
  BY <1>2 DEF UpSupplied, UpStarted, UpWindsUp, UpWithin
<1> QED
  BY <1>3, <1>4, <1>5 DEF UpInv

\* A cycle that never touched the device, or is closed.
LEMMA UpCloseUntouchedKeeps ==
  ASSUME UpInv, UpCloseUntouched
  PROVE  UpInv' /\ UpSwitchedRight
<1>0. upCycle \in UpCycles /\ 0 \in UpCycles /\ 1 \in UpCycles
  BY DEF UpInv, UpTypes, UpCycles
<1>1. PICK ok \in BOOLEAN : UpReturn(ok)
  BY DEF UpCloseUntouched
<1>2. /\ upAt = "closing" /\ UNCHANGED upDevice /\ upC' = [upC EXCEPT ![upCycle].closed = TRUE]
      /\ upC[upCycle].closed \/ ~upC[upCycle].touched
  BY DEF UpCloseUntouched, UpHere
<1>3. /\ DOMAIN upC' = UpCycles /\ upC'[upCycle].closed = TRUE
      /\ \A c \in UpCycles : /\ DOMAIN upC'[c] = DOMAIN upC[c] /\ upC'[c].touched = upC[c].touched
                             /\ (c # upCycle => upC'[c] = upC[c])
  BY <1>0, <1>2 DEF UpInv, UpTypes
<1>4. upDevice'.cpu => \E c \in UpCycles :
            upC'[c].touched /\ ~upC'[c].closed /\ upC'[c].modified /\ upC'[c].stage # "stopped"
  BY <1>2, <1>3 DEF UpInv, UpStarted
<1>5. ~upDevice'.power => UpStoppedDma' /\ ~upDevice'.cpu
  BY <1>2 DEF UpInv, UpSupplied, UpStoppedDma
<1>6. /\ upC[0].closed => upC'[0].closed
      /\ upCaller = "probe" => upC'[0].closed /\ ~upC'[1].closed
  BY <1>0, <1>2, <1>3 DEF UpInv, UpInTurn, UpDown
<1>7. UpInv'
  BY <1>1, <1>2, <1>3, <1>4, <1>5, <1>6, UpReturnKeeps DEF UpDown
<1> QED
  BY <1>2, <1>7 DEF UpSwitchedRight

\* The cycle's DMA is stopped first.
LEMMA UpCloseDmaKeeps ==
  ASSUME UpInv, UpCloseDma
  PROVE  UpInv' /\ UpSwitchedRight
<1>0. upCycle \in UpCycles /\ 0 \in UpCycles /\ 1 \in UpCycles
  BY DEF UpInv, UpTypes, UpCycles
<1>1. upAt = "closing" /\ upC' = upC /\ ~upC[upCycle].closed /\ upC[upCycle].touched
  BY DEF UpCloseDma, UpHere
<1>2. PICK e \in {upDevice.engine, FALSE}, m \in {upDevice.master, FALSE} :
          upDevice' = [upDevice EXCEPT !.engine = e, !.master = m]
  BY DEF UpCloseDma, UpDmaStopped, UpDmaUnproven
<1>3. /\ DOMAIN upDevice' = DOMAIN upDevice /\ upDevice'.power = upDevice.power /\ upDevice'.cpu = upDevice.cpu
      /\ upDevice'.engine = e /\ upDevice'.master = m /\ upDevice'.busy = upDevice.busy
  BY <1>2 DEF UpInv, UpTypes
<1>4. ~upDevice'.power => UpStoppedDma' /\ ~upDevice'.cpu
  BY <1>2, <1>3 DEF UpInv, UpSupplied, UpStoppedDma
<1>5. upDevice'.cpu => \E c \in UpCycles :
            upC'[c].touched /\ ~upC'[c].closed /\ upC'[c].modified /\ upC'[c].stage # "stopped"
  BY <1>1, <1>3 DEF UpInv, UpStarted
<1>6. CASE UpDmaUnproven /\ UpReturn(FALSE)
  <2>1. UpInv'
    BY <1>1, <1>3, <1>4, <1>5, <1>6, UpReturnKeeps DEF UpDown, UpInv, UpTypes
  <2> QED
    BY <1>3, <2>1 DEF UpSwitchedRight
<1>7. CASE UpDmaStopped /\ UpGo("closeCpu")
  <2>1. upAt' = "closeCpu" /\ UNCHANGED <<upCycle, upCaller>>
    BY <1>7 DEF UpGo
  <2>2. UpStoppedDma'
    <3>1. upDevice.busy = UpNone /\ upDevice' = [upDevice EXCEPT !.engine = FALSE, !.master = FALSE]
      BY <1>7 DEF UpDmaStopped
    <3> QED
      BY <1>3, <3>1 DEF UpStoppedDma, UpInv, UpTypes
  <2>3. UpTypes' /\ UpInTurn'
    BY <1>0, <1>1, <1>3, <2>1 DEF UpInv, UpTypes, UpInTurn, UpBefore, UpWithin, UpWithout, UpDown
  <2> QED
    BY <1>1, <1>3, <1>4, <1>5, <2>1, <2>2, <2>3 DEF UpInv, UpSupplied, UpStarted, UpWindsUp, UpWithin, UpSwitchedRight
<1> QED
  BY <1>6, <1>7 DEF UpCloseDma

\* Then its processor, if it was started.
LEMMA UpCloseCpuKeeps ==
  ASSUME UpInv, UpCloseCpu
  PROVE  UpInv' /\ UpSwitchedRight
<1>0. upCycle \in UpCycles /\ 0 \in UpCycles /\ 1 \in UpCycles /\ \A c \in UpCycles : c = 0 \/ c = 1
  BY DEF UpInv, UpTypes, UpCycles
<1>1. upAt = "closeCpu" /\ UpStoppedDma /\ upC[upCycle].touched /\ ~upC[upCycle].closed
  BY DEF UpCloseCpu, UpInv, UpWindsUp
<1>2. upDevice.cpu => upC[upCycle].modified /\ upC[upCycle].stage # "stopped"
  <2>1. SUFFICES ASSUME upDevice.cpu PROVE upC[upCycle].modified /\ upC[upCycle].stage # "stopped"
    OBVIOUS
  <2>2. PICK c \in UpCycles : upC[c].touched /\ ~upC[c].closed /\ upC[c].modified /\ upC[c].stage # "stopped"
    BY <2>1 DEF UpInv, UpStarted
  <2>3. c = upCycle
    BY <1>0, <1>1, <2>2 DEF UpInv, UpInTurn
  <2> QED
    BY <2>2, <2>3
<1>3. CASE upAt' = "closePower" /\ UpGo("closePower")
  <2>1. UNCHANGED <<upCycle, upCaller>>
    BY <1>3 DEF UpGo
  <2>2. \/ UNCHANGED <<upC, upDevice>> /\ ~upDevice.cpu
        \/ /\ upC' = [upC EXCEPT ![upCycle].stage = "stopped"] /\ upDevice' = [upDevice EXCEPT !.cpu = FALSE]
    <3>1. CASE (~UpHere.modified \/ UpHere.stage = "stopped") /\ UNCHANGED <<upC, upDevice>>
      BY <1>2, <3>1 DEF UpHere
    <3>2. ~UpReturn(FALSE)
      BY <1>1, <1>3 DEF UpReturn, UpGo, UpInv, UpInTurn, UpDown
    <3> QED
      BY <3>1, <3>2 DEF UpCloseCpu
  <2>3. /\ DOMAIN upDevice' = DOMAIN upDevice /\ upDevice'.power = upDevice.power /\ ~upDevice'.cpu
        /\ upDevice'.master = upDevice.master /\ upDevice'.engine = upDevice.engine /\ upDevice'.busy = upDevice.busy
    BY <2>2 DEF UpInv, UpTypes
  <2>4. /\ DOMAIN upC' = UpCycles
        /\ \A c \in UpCycles : /\ DOMAIN upC'[c] = DOMAIN upC[c] /\ upC'[c].touched = upC[c].touched
                               /\ upC'[c].closed = upC[c].closed
    BY <1>0, <2>2 DEF UpInv, UpTypes
  <2>5. UpTypes' /\ UpInTurn'
    BY <1>0, <1>1, <1>3, <2>1, <2>3, <2>4 DEF UpInv, UpTypes, UpInTurn, UpBefore, UpWithin, UpWithout, UpDown
  <2>6. UpSupplied' /\ UpStarted' /\ UpWindsUp'
    BY <1>0, <1>1, <1>3, <2>1, <2>3, <2>4 DEF UpInv, UpSupplied, UpStarted, UpWindsUp, UpStoppedDma, UpWithin
  <2> QED
    BY <2>3, <2>5, <2>6 DEF UpInv, UpSwitchedRight
<1>4. CASE UpReturn(FALSE) /\ upC' = upC /\ \E on \in {upDevice.cpu, FALSE} : upDevice' = [upDevice EXCEPT !.cpu = on]
  <2>1. PICK on \in {upDevice.cpu, FALSE} : upDevice' = [upDevice EXCEPT !.cpu = on]
    BY <1>4
  <2>2. /\ DOMAIN upDevice' = DOMAIN upDevice /\ upDevice'.power = upDevice.power /\ upDevice'.cpu = on
        /\ upDevice'.master = upDevice.master /\ upDevice'.engine = upDevice.engine /\ upDevice'.busy = upDevice.busy
    BY <2>1 DEF UpInv, UpTypes
  <2>3. ~upDevice'.power => UpStoppedDma' /\ ~upDevice'.cpu
    BY <2>1, <2>2 DEF UpInv, UpSupplied, UpStoppedDma
  <2>4. upDevice'.cpu => \E c \in UpCycles :
            upC'[c].touched /\ ~upC'[c].closed /\ upC'[c].modified /\ upC'[c].stage # "stopped"
    BY <1>4, <2>1, <2>2 DEF UpInv, UpStarted
  <2>5. UpInv'
    BY <1>1, <1>4, <2>2, <2>3, <2>4, UpReturnKeeps DEF UpDown, UpInv, UpTypes
  <2> QED
    BY <2>2, <2>5 DEF UpSwitchedRight
<1> QED
  BY <1>3, <1>4 DEF UpCloseCpu, UpGo

\* And the supply last.
LEMMA UpClosePowerKeeps ==
  ASSUME UpInv, UpClosePower
  PROVE  UpInv' /\ UpSwitchedRight
<1>0. upCycle \in UpCycles /\ 0 \in UpCycles /\ 1 \in UpCycles /\ \A c \in UpCycles : c = 0 \/ c = 1
  BY DEF UpInv, UpTypes, UpCycles
<1>1. upAt = "closePower" /\ UpStoppedDma /\ ~upDevice.cpu /\ ~upC[upCycle].closed
  BY DEF UpClosePower, UpInv, UpWindsUp
<1>2. /\ DOMAIN upDevice' = DOMAIN upDevice /\ upDevice'.cpu = upDevice.cpu
      /\ upDevice'.master = upDevice.master /\ upDevice'.engine = upDevice.engine /\ upDevice'.busy = upDevice.busy
  <2>1. upDevice' = upDevice \/ \E on, open : upDevice' = [upDevice EXCEPT !.power = on, !.pmc = open]
    BY DEF UpClosePower
  <2> QED
    BY <2>1 DEF UpInv, UpTypes
<1>3. UpStoppedDma' /\ ~upDevice'.cpu
  BY <1>1, <1>2 DEF UpStoppedDma
<1>4. PICK ok \in BOOLEAN :
         /\ UpReturn(ok)
         /\ \/ /\ ok = FALSE
               /\ upC' = upC \/ \E tried \in BOOLEAN : upC' = [upC EXCEPT ![upCycle].offAttempted = tried]
            \/ upC' = [upC EXCEPT ![upCycle].closed = ok]
            \/ upC' = [upC EXCEPT ![upCycle].offAttempted = TRUE, ![upCycle].returnedOff = TRUE, ![upCycle].closed = ok]
  BY DEF UpClosePower
<1>5. /\ DOMAIN upC' = UpCycles
      /\ \A c \in UpCycles : /\ DOMAIN upC'[c] = DOMAIN upC[c] /\ upC'[c].touched = upC[c].touched
                             /\ c # upCycle => upC'[c] = upC[c]
  BY <1>0, <1>4 DEF UpInv, UpTypes
<1>6. ok => upC'[upCycle].closed = TRUE
  BY <1>0, <1>4 DEF UpInv, UpTypes
<1>7. /\ upC[0].closed => upC'[0].closed
      /\ upCaller = "probe" /\ ok => upC'[0].closed /\ ~upC'[1].closed
  BY <1>0, <1>1, <1>5, <1>6 DEF UpInv, UpInTurn, UpDown
<1>8. UpInv'
  BY <1>1, <1>2, <1>3, <1>4, <1>5, <1>7, UpReturnKeeps DEF UpDown
<1> QED
  BY <1>1, <1>8 DEF UpSwitchedRight

\* Every step of the bring-up.
LEMMA UpMoves ==
  ASSUME UpInv, UpNext \/ UNCHANGED upVars
  PROVE  UpInv' /\ UpSwitchedRight
<1>1. CASE UNCHANGED upVars
  <2>1. UNCHANGED <<upC, upDevice, upAt, upCycle, upCaller>>
    BY <1>1 DEF upVars, upLocals
  <2> QED
    BY <2>1, UpGoesOn, UpUnchangedAlike
<1> QED
  BY <1>1, UpOwnerKeeps, UpQuietKeeps, UpEnginesKeep, UpPowerOnKeeps, UpProcessorKeeps, UpOthersKeep,
     UpCloseUntouchedKeeps, UpCloseDmaKeeps, UpCloseCpuKeeps, UpClosePowerKeeps DEF UpNext

\* The service starts with nothing done.
LEMMA UpBegins ==
  ASSUME UpInit
  PROVE  UpInv
BY DEF UpInit, UpInv, UpTypes, UpInTurn, UpSupplied, UpStarted, UpWindsUp, UpStoppedDma, UpCycles, UpBefore, UpWithin,
   UpWithout, UpDown, UpNone
=============================================================================
