------------------------- MODULE DriverGroupsProofs -------------------------
(***************************************************************************)
(* Properties of the composition of the smaller parts (MCDriverParts), for *)
(* every value of the constants: KeysConfirmed, NothingLateOrTwice,        *)
(* LeftAsFound, StepsKeepTheirOrder, AnswersAreOurs and FailureIsHonest.   *)
(* Each part of the composition has an invariant of its own, proved in     *)
(* DriverPartsProofs or, for coexistence, the link and what the parts keep *)
(* to when they fail, here; the steps of the composition are split by part. *)
(***************************************************************************)
EXTENDS MCDriverParts, DriverPartsProofs

----------------------------------------------------------------------------
(* The steps of the composition *)

\* A step of the composition is one of a part, or leaves that part alone.
LEMMA PartsMove ==
  ASSUME [MCNext]_MCVars
  PROVE  /\ SaeNext \/ UNCHANGED saeVars
         /\ OweNext \/ UNCHANGED oweVars
         /\ TmNext \/ UNCHANGED tmVars
         /\ WrNext \/ UNCHANGED wrVars
         /\ HfNext \/ UNCHANGED hf
         /\ EfNext \/ UNCHANGED efVars
         /\ DpNext \/ UNCHANGED dpVars
         /\ RkNext \/ UNCHANGED rkVars
         /\ SpNext \/ UNCHANGED spVars
         /\ MailNext \/ UNCHANGED mailVars
         /\ UpNext \/ UNCHANGED upVars
         /\ PwNext \/ UNCHANGED pwVars
         /\ CtNext \/ UNCHANGED ctVars
         /\ CxNext \/ UNCHANGED cxVars
         /\ EvNext \/ UNCHANGED evVars
         /\ TpNext \/ UNCHANGED tpVars
         /\ LkNext \/ UNCHANGED lkVars
         /\ PhNext \/ UNCHANGED phVars
         /\ PpNext \/ UNCHANGED ppVars
BY DEF MCNext, MCVars

\* The composition starts each part in one of its initial states.
LEMMA PartsStart ==
  ASSUME MCInit
  PROVE  /\ SaeInit /\ OweInit /\ TmInit /\ WrInit /\ HfInit
         /\ EfInit /\ DpInit /\ RkInit /\ SpInit
         /\ MailInit /\ UpInit /\ PwInit /\ CtInit
         /\ CxInit /\ EvInit /\ TpInit /\ LkInit /\ PhInit /\ PpInit
BY DEF MCInit

----------------------------------------------------------------------------
(* Keys *)

\* The invariants of the two key agreements together.
KeysInv == SaeInv /\ OweInv

\* A key that export() hands out is one the access point has confirmed too, the
\* exchange never sends more than it may, and two OWE sides that used each other's
\* value export the same key, whatever is lost, repeated or reordered
\* (r16_sae_exchange_receive, r16_sae_exchange_poll, r16_owe_receive).
THEOREM KeysAlwaysConfirmed == MCSpec => []KeysConfirmed
<1>1. MCInit => KeysInv
  BY PartsStart, SaeStarts, OweStarts DEF KeysInv
<1>2. KeysInv /\ [MCNext]_MCVars => KeysInv'
  BY PartsMove, SaeStep, OweStep, SaeStutters, OweStutters DEF KeysInv
<1>3. KeysInv => KeysConfirmed
  BY SaeSafe, OweSafe DEF KeysInv, KeysConfirmed
<1> QED
  BY <1>1, <1>2, <1>3, PTL DEF MCSpec

----------------------------------------------------------------------------
(* Nothing late, nothing twice *)

\* The invariants of the parts that answer a late, repeated or reordered call.
InTurnInv == SaeInv /\ SaeNumbered /\ TmInv /\ WrInv /\ HfGood(hf)

\* What a step of the composition may do: send a Confirm ahead of the last one
\* taken, call an armed timeout, and hand out a frame of the current snapshot.
InTurnStep ==
  /\ [SaeConfirmAhead]_saeVars
  /\ [TmCallRight]_tmVars
  /\ [WrFrameFresh]_wrVars

\* The exchange keeps its invariant and its counters in every step.
LEMMA SaeMoves ==
  ASSUME SaeInv, SaeNumbered, [MCNext]_MCVars
  PROVE  SaeInv' /\ SaeNumbered' /\ SaeConfirmAhead
<1>1. SaeNext \/ UNCHANGED saeVars
  BY PartsMove
<1>2. SaeInv'
  BY <1>1, SaeStep, SaeStutters
<1> QED
  BY <1>1, <1>2, SaeNumberedStep, SaeNumberedStutters

\* The frames that wait for a report, likewise.
LEMMA HfMoves ==
  ASSUME HfGood(hf), [MCNext]_MCVars
  PROVE  HfGood(hf')
<1>1. HfNext \/ hf' = hf
  BY PartsMove
<1> QED
  BY <1>1, HfStep

\* All of them in every step.
LEMMA InTurnMoves ==
  ASSUME InTurnInv, [MCNext]_MCVars
  PROVE  InTurnInv' /\ InTurnStep
<1>1. SaeInv' /\ SaeNumbered' /\ SaeConfirmAhead
  BY SaeMoves DEF InTurnInv
<1>2. TmInv' /\ TmCallRight
  <2>1. [TmNext]_tmVars
    BY PartsMove
  <2> QED
    BY <2>1, TmStep DEF InTurnInv
<1>3. WrInv' /\ WrFrameFresh
  <2>1. WrNext \/ UNCHANGED wrVars
    BY PartsMove
  <2> QED
    BY <2>1, WrStep, WrStutters DEF InTurnInv
<1>4. HfGood(hf')
  BY HfMoves DEF InTurnInv
<1> QED
  BY <1>1, <1>2, <1>3, <1>4 DEF InTurnInv, InTurnStep

\* A Confirm is never sent with a counter the access point has taken, a timeout is
\* called once per arming and with the function it was armed with, a scan result of
\* an older snapshot is never delivered, and a frame that waits for its report is
\* handed up once and under its own channel (r16_sae_exchange_poll, timeout_add and
\* timeout_del, reserveResult and commitResult, the receiver's holding slots).
THEOREM NothingEverLateOrTwice == MCSpec => NothingLateOrTwice
<1>1. MCInit => InTurnInv
  BY PartsStart, SaeStarts, SaeNumberedStarts, TmStart, WrStart, HfStart DEF InTurnInv
<1>2. InTurnInv /\ [MCNext]_MCVars => InTurnInv' /\ InTurnStep
  BY InTurnMoves
<1>3. InTurnInv => TmPendingTrue /\ HfHeldInTime
  BY HfSafe DEF InTurnInv, TmInv
<1>4. InTurnStep => [saeSent' > saeSent /\ saeX'.state = "WAIT_CONFIRM"
                       => saeStation'.sendConfirm > saeAccessPoint.peerConfirm]_saeVars
  BY DEF InTurnStep, SaeConfirmAhead
<1>5. InTurnStep => [tmCall'.running /\ ~tmCall.running =>
                       /\ tmCall'.arming # 0 /\ tmCall'.arming # tmCall.arming
                       /\ tmCall'.arming = tmArming.now /\ tmCall'.function = tmTimeout.function]_tmVars
  BY DEF InTurnStep, TmCallRight
<1>6. InTurnStep => [wrSent' # wrSent /\ wrSent' # <<>> =>
                       /\ wrSent'[Len(wrSent')].snapshot = wrStore.token
                       /\ wrSent'[Len(wrSent')].request = wrScan.token]_wrVars
  BY DEF InTurnStep, WrFrameFresh
<1> QED
  BY <1>1, <1>2, <1>3, <1>4, <1>5, <1>6, PTL
  DEF MCSpec, NothingLateOrTwice, SaeConfirmNotReplayed, TmOncePerArming, WrNoStaleFrame

----------------------------------------------------------------------------
(* Left as found *)

\* The invariants of the sequences that clean up after themselves.
CleanedInv == EfInv /\ DpInv /\ RkInv /\ SpInv

\* By whichever path they end, the reader of the fuses leaves supply and port as it
\* found them, the probe has no interrupt open and no dirty second pass, a
\* calibration no engine at work and no transmission of its own, and a scan no
\* opened filter (restore() of EfuseReader.hpp, cleanup of the probe, rfk end, scanFilter).
THEOREM LeftAlwaysAsFound == MCSpec => []LeftAsFound
<1>1. MCInit => CleanedInv
  BY PartsStart, EfStarts, DpStarts, RkStarts, SpStarts DEF CleanedInv
<1>2. CleanedInv /\ [MCNext]_MCVars => CleanedInv'
  BY PartsMove, EfStep, DpMoves, RkMoves, SpStep DEF CleanedInv
<1>3. CleanedInv => LeftAsFound
  BY DpSafe DEF CleanedInv, EfInv, RkInv, SpInv, LeftAsFound
<1> QED
  BY <1>1, <1>2, <1>3, PTL DEF MCSpec

----------------------------------------------------------------------------
(* Steps in their order *)

\* The invariants of the parts whose steps depend on each other.
OrderInv == CleanedInv /\ MailInv /\ UpInv /\ PwInv /\ CtInv

\* What a step of the composition may do, part by part.
OrderStep ==
  /\ UpSwitchedRight /\ PwGently /\ CtWhole /\ RkHonest /\ DpOthers /\ EfAlone /\ SpDistance
  /\ mailPaused /\ ~mailPaused' => mailScheduler' = mailLease
  /\ cxGrant' # cxGrant => ~cxBt

\* Every step of the composition keeps the invariants and is one of these.
LEMMA OrderMoves ==
  ASSUME OrderInv, [MCNext]_MCVars
  PROVE  OrderInv' /\ OrderStep
<1>1. EfInv' /\ EfAlone /\ DpInv' /\ DpOthers
  BY PartsMove, EfStep, DpMoves DEF OrderInv, CleanedInv
<1>2. RkInv' /\ RkHonest /\ SpInv' /\ SpDistance
  BY PartsMove, RkMoves, SpStep DEF OrderInv, CleanedInv
<1>3. MailInv' /\ (mailPaused /\ ~mailPaused' => mailScheduler' = mailLease)
  BY PartsMove, MailStep, MailResumes DEF OrderInv
<1>4. UpInv' /\ UpSwitchedRight /\ PwInv' /\ PwGently
  BY PartsMove, UpMoves, PwMoves DEF OrderInv
<1>5. CtInv' /\ CtWhole /\ (cxGrant' # cxGrant => ~cxBt)
  BY PartsMove, CtStep, CxMoves DEF OrderInv
<1> QED
  BY <1>1, <1>2, <1>3, <1>4, <1>5 DEF OrderInv, OrderStep, CleanedInv

\* The supply of a device is switched only when its processor and its engines are at
\* rest, and cut only from a quiet device, a mask of another is left open, a pause
\* ends with the mask it found, a channel is complete when it is whole, a stop of a
\* calibration is honest, Bluetooth keeps its grants, the probe leaves the bits of
\* others, a port that reads is left to its reader and a network is left before the
\* next is joined (DevicePower::stop, closePmc, resumeScheduler, ChannelProgramming,
\* winInit, the port of MacStationIo).
THEOREM StepsAlwaysInOrder == MCSpec => StepsKeepTheirOrder
<1>1. MCInit => OrderInv
  BY PartsStart, EfStarts, DpStarts, RkStarts, SpStarts, MailStart, UpBegins, PwStarts, CtStarts
  DEF OrderInv, CleanedInv
<1>2. OrderInv /\ [MCNext]_MCVars => OrderInv' /\ OrderStep
  BY OrderMoves
<1>3. OrderStep => [upDevice'.power # upDevice.power =>
                      /\ ~upDevice.master /\ ~upDevice.engine /\ upDevice.busy = UpNone
                      /\ ~upDevice.cpu]_upVars
  BY DEF OrderStep, UpSwitchedRight, UpStoppedDma
<1>4. OrderStep => /\ [pwDevice.mac = "on" /\ pwDevice'.mac # "on" =>
                         pwDevice.dma = "stopped" /\ ~pwDevice.irq /\ ~pwBus.master]_pwVars
                   /\ [pwDevice.mask = "other" => pwDevice'.mask = "other"]_pwVars
  BY DEF OrderStep, PwGently
<1>5. OrderStep => [mailPaused /\ ~mailPaused' => mailScheduler' = mailLease]_mailVars
  BY DEF OrderStep
<1>6. OrderStep => [ctResult'.stage = "complete" /\ ctResult.stage # "complete" =>
                      ctHw' = [rx |-> "on", channel |-> ctTarget, power |-> ctTarget] /\ ~ctTx']_ctVars
  BY DEF OrderStep, CtWhole
<1>7. OrderStep => [rkLease.oneshot /\ ~rkLease'.oneshot /\ rkLease'.state = "consumed" =>
                      ~rkRun.error \/ ~rkIo.modified]_rkVars
  BY DEF OrderStep, RkHonest
<1>8. OrderStep => [cxGrant' # cxGrant => ~cxBt]_cxVars
  BY DEF OrderStep
<1>9. OrderStep => [dpAt # "enable" /\ dpCommand'.other # dpCommand.other => dpOther' # dpOther]_dpVars
  BY DEF OrderStep, DpOthers
<1>10. OrderStep => [efPort # "none" => efPort' \in {efPort, "none"}]_efVars
  BY DEF OrderStep, EfAlone
<1>11. OrderStep => [spDev'.enabled # spDev.enabled \/ spDev'.config # spDev.config =>
                       spNow >= spGoal.quiet /\ spDev.paused]_spVars
  BY DEF OrderStep, SpDistance
<1> QED
  BY <1>1, <1>2, <1>3, <1>4, <1>5, <1>6, <1>7, <1>8, <1>9, <1>10, <1>11, PTL
  DEF MCSpec, StepsKeepTheirOrder, UpSupplySwitched, PwCutQuiet, PwOthersMaskKept, MailResumeRestores, CtCompletedWhole,
      RkStopHonest, CxBluetoothKept, DpOthersBitsKept, EfPortAlone, SpKeepsDistance
----------------------------------------------------------------------------
(* The set-up of coexistence *)

CxSteps == {"none", "hardware", "grant", "board"}

\* Where the handler may be at each stage.
CxPlaced ==
  /\ cxStage \in 0 .. 7 /\ cxStep \in CxSteps
  /\ cxStep = "hardware" => cxStage = 0
  /\ cxStep = "grant" => cxStage = 4
  /\ cxStep = "board" => cxStage = 5
  /\ cxAcked \in Nat

\* The firmware applies the commands in their order and each at most once; at most
\* one is on its way to it, the next one, and that is the one the host waits for.
CxSentInTurn ==
  /\ cxApplied \in Seq(1 .. 5) /\ Len(cxApplied) <= 5 /\ (\A i \in 1 .. Len(cxApplied) : cxApplied[i] = i)
  /\ cxWire = <<>> \/ (Len(cxApplied) < 5 /\ cxWire = <<Len(cxApplied) + 1>>)
  /\ cxStage = 0 => Len(cxApplied) = 0 /\ cxWire = <<>>
  /\ cxStage \in 1 .. 5 => \/ Len(cxApplied) = cxStage /\ cxWire = <<>>
                           \/ Len(cxApplied) = cxStage - 1
  /\ cxStep \in {"grant", "board"} => Len(cxApplied) = cxStage
  /\ cxStage = 6 => Len(cxApplied) = 5 /\ cxWire = <<>>

\* An acknowledgement that reports success, first or repeated, is of a command that
\* was applied.
CxAckedTrue ==
  \A a \in cxAcks : a.n \in 1 .. 5 /\ a.ok \in BOOLEAN /\ (a.ok => a.n <= Len(cxApplied))

CxFlags == cxEpoch \in BOOLEAN /\ cxTried \in BOOLEAN /\ cxOut \in BOOLEAN /\ cxBoard \in BOOLEAN

\* The epoch lasts until a failure after the first command; the results are handed
\* over at the end, over grants and a scoreboard that are set.
CxHandedOver ==
  /\ CxFlags
  /\ cxStage \in 1 .. 6 => cxTried
  /\ cxStage = 7 => cxTried \/ cxEpoch
  /\ cxTried => cxStage # 0 /\ (cxStage = 7 => ~cxEpoch)
  /\ cxStage # 7 => cxEpoch
  /\ cxStage = 7 /\ cxEpoch => Len(cxApplied) = 0 /\ cxWire = <<>>
  /\ cxStage \in {5, 6} => cxGrant = "boot"
  /\ cxOut => cxStage = 6
  /\ cxStage = 6 => cxBoard

CxInv == CxPlaced /\ CxSentInTurn /\ CxAckedTrue /\ CxHandedOver

\* fail(), wherever it is called.
LEMMA CxFailKeeps ==
  ASSUME CxInv, CxFail, cxStage # 7, UNCHANGED <<cxFirmware, cxWire>>, cxAcks' \subseteq cxAcks
  PROVE  CxInv'
<1>1. CxPlaced'
  BY DEF CxInv, CxPlaced, CxFail, CxFault, CxSteps, cxFirmware
<1>2. CxSentInTurn'
  BY DEF CxInv, CxSentInTurn, CxFail, CxFault, cxFirmware
<1>3. CxAckedTrue'
  BY DEF CxInv, CxAckedTrue, cxFirmware
<1>4. CxHandedOver'
  <2>1. /\ cxStage' = 7 /\ cxOut' = FALSE /\ cxTried' = cxTried /\ cxBoard' = cxBoard
        /\ cxWire' = cxWire /\ cxApplied' = cxApplied /\ cxEpoch' = (cxEpoch /\ ~cxTried)
    BY DEF CxFail, CxFault, cxFirmware
  <2>2. CASE cxTried
    <3>1. cxEpoch' = FALSE
      BY <2>1, <2>2
    <3>2. CxFlags'
      BY <2>1, <3>1, Zenon DEF CxInv, CxHandedOver, CxFlags
    <3> QED
      BY <2>1, <2>2, <3>1, <3>2 DEF CxInv, CxHandedOver
  <2>3. CASE ~cxTried
    <3>1. cxStage = 0
      BY <2>3 DEF CxInv, CxPlaced, CxHandedOver
    <3>2. cxEpoch' = TRUE
      BY <2>1, <2>3, <3>1 DEF CxInv, CxHandedOver, CxFlags
    <3>3. CxFlags'
      BY <2>1, <3>2, Zenon DEF CxInv, CxHandedOver, CxFlags
    <3> QED
      BY <2>1, <2>3, <3>1, <3>2, <3>3 DEF CxInv, CxSentInTurn, CxHandedOver
  <2> QED
    BY <2>2, <2>3
<1> QED
  BY <1>1, <1>2, <1>3, <1>4 DEF CxInv

\* submit() of the command after those that were applied.
LEMMA CxSubmitKeeps ==
  ASSUME CxInv, NEW n \in 1 .. 4, CxSubmit(n), n = Len(cxApplied) + 1, cxStage = n - 1, cxWire = <<>>,
         UNCHANGED cxFirmware, cxAcks' \subseteq cxAcks
  PROVE  CxInv'
<1>1. CxPlaced'
  BY DEF CxInv, CxPlaced, CxSubmit, CxSteps, cxFirmware
<1>2. CxSentInTurn'
  BY DEF CxInv, CxSentInTurn, CxSubmit, cxFirmware
<1>3. CxAckedTrue'
  BY DEF CxInv, CxAckedTrue, cxFirmware
<1>4. CxHandedOver'
  BY DEF CxInv, CxPlaced, CxSentInTurn, CxHandedOver, CxFlags, CxSubmit, cxFirmware
<1> QED
  BY <1>1, <1>2, <1>3, <1>4 DEF CxInv

\* Every step keeps the invariant: an acknowledgement is taken only for the command
\* that waits, so that the next one follows on those that were applied.
LEMMA CxKeeps ==
  ASSUME CxInv, CxNext \/ UNCHANGED cxVars
  PROVE  CxInv'
<1>1. CASE CxBegin
  <2>1. CASE cxTx \/ cxBt
    BY <1>1, <2>1, CxFailKeeps DEF CxBegin
  <2>2. CASE ~(cxTx \/ cxBt)
    BY <1>1, <2>2 DEF CxBegin, CxInv, CxPlaced, CxSentInTurn, CxAckedTrue, CxHandedOver, CxFlags, CxSteps, cxFirmware
  <2> QED
    BY <2>1, <2>2
<1>2. CASE CxHardware
  <2>1. CASE cxTx
    BY <1>2, <2>1, CxFailKeeps DEF CxHardware, CxInv, CxPlaced
  <2>2. CASE ~cxTx
    <3>1. cxStage = 0 /\ Len(cxApplied) = 0 /\ cxWire = <<>>
      BY <1>2 DEF CxHardware, CxInv, CxPlaced, CxSentInTurn
    <3> QED
      BY <1>2, <2>2, <3>1, CxSubmitKeeps DEF CxHardware
  <2> QED
    BY <2>1, <2>2
<1>3. ASSUME NEW a \in cxAcks, CxAccept(a) PROVE CxInv'
  <2>1. CASE ~CxOurs(a)
    BY <1>3, <2>1 DEF CxAccept, CxInv, CxPlaced, CxSentInTurn, CxAckedTrue, CxHandedOver, CxFlags, cxFirmware, cxHost
  <2>2. CASE CxOurs(a) /\ (~a.ok \/ cxTx)
    <3>1. cxStage # 7
      BY <2>2 DEF CxOurs, CxInv, CxAckedTrue
    <3> QED
      BY <1>3, <2>2, <3>1, CxFailKeeps DEF CxAccept
  <2>3. CASE CxOurs(a) /\ a.ok /\ ~cxTx
    <3>1. cxStage \in 1 .. 5 /\ Len(cxApplied) = cxStage /\ cxWire = <<>>
      BY <2>3 DEF CxOurs, CxInv, CxAckedTrue, CxSentInTurn, CxPlaced
    <3>2. CxNextCommand /\ UNCHANGED cxFirmware /\ cxAcks' \subseteq cxAcks
      BY <1>3, <2>3 DEF CxAccept
    <3>3. CASE cxStage < 4
      BY <3>1, <3>2, <3>3, CxSubmitKeeps DEF CxNextCommand
    <3>4. CASE cxStage >= 4
      BY <3>1, <3>2, <3>4
      DEF CxNextCommand, CxInv, CxPlaced, CxSentInTurn, CxAckedTrue, CxHandedOver, CxFlags, CxSteps, cxFirmware
    <3> QED
      BY <3>1, <3>3, <3>4
  <2> QED
    BY <2>1, <2>2, <2>3, <1>3 DEF CxInv, CxAckedTrue
<1>4. CASE CxGrant
  <2>1. CASE cxBt
    BY <1>4, <2>1, CxFailKeeps DEF CxGrant, CxInv, CxPlaced
  <2>2. CASE ~cxBt
    <3>1. Len(cxApplied) = 4 /\ cxWire = <<>> /\ cxStage = 4
      BY <1>4 DEF CxGrant, CxInv, CxPlaced, CxSentInTurn
    <3> QED
      BY <1>4, <2>2, <3>1
      DEF CxGrant, CxInv, CxPlaced, CxSentInTurn, CxAckedTrue, CxHandedOver, CxFlags, CxSteps, cxFirmware
  <2> QED
    BY <2>1, <2>2
<1>5. CASE CxScoreboard
  <2>1. CASE cxTx
    BY <1>5, <2>1, CxFailKeeps DEF CxScoreboard, CxInv, CxPlaced
  <2>2. CASE ~cxTx
    BY <1>5, <2>2
    DEF CxScoreboard, CxComplete, CxInv, CxPlaced, CxSentInTurn, CxAckedTrue, CxHandedOver, CxFlags, CxSteps, cxFirmware
  <2> QED
    BY <2>1, <2>2
<1>6. CASE CxService \/ CxStops
  BY <1>6, CxFailKeeps DEF CxService, CxStops, CxFault, CxComplete
<1>7. CASE CxApplies
  <2>1. PICK ok \in BOOLEAN :
          /\ cxApplied' = IF ok THEN Append(cxApplied, Head(cxWire)) ELSE cxApplied
          /\ cxAcks' = cxAcks \cup {[n |-> Head(cxWire), ok |-> ok]}
    BY <1>7 DEF CxApplies
  <2>2. Len(cxApplied) \in Nat /\ Len(cxApplied) < 5 /\ cxWire = <<Len(cxApplied) + 1>>
    BY <1>7 DEF CxApplies, CxInv, CxSentInTurn
  <2>3. Head(cxWire) = Len(cxApplied) + 1 /\ cxWire' = <<>>
    BY <1>7, <2>2 DEF CxApplies
  <2>4. UNCHANGED cxHost /\ cxAcked' \in Nat
    BY <1>7 DEF CxApplies, CxInv, CxPlaced
  <2>5. CxPlaced'
    BY <2>4 DEF CxInv, CxPlaced, cxHost
  <2>6. cxStage # 0 /\ cxStage # 6 /\ cxStep \notin {"grant", "board"} /\ (cxStage \in 1 .. 5 => Len(cxApplied) = cxStage - 1)
    BY <2>2 DEF CxInv, CxPlaced, CxSentInTurn
  <2>7. CASE ok
    <3>1. /\ cxApplied' \in Seq(1 .. 5) /\ Len(cxApplied') = Len(cxApplied) + 1
          /\ \A i \in 1 .. Len(cxApplied') : cxApplied'[i] = i
      BY <2>1, <2>2, <2>3, <2>7 DEF CxInv, CxSentInTurn
    <3>2. CxSentInTurn'
      BY <2>2, <2>3, <2>4, <2>6, <3>1 DEF CxInv, CxPlaced, CxSentInTurn, cxHost
    <3>3. CxAckedTrue'
      BY <2>1, <2>2, <2>3, <3>1 DEF CxInv, CxAckedTrue
    <3>4. CxHandedOver'
      BY <2>2, <2>4, <2>6 DEF CxInv, CxHandedOver, CxFlags, cxHost
    <3> QED
      BY <2>5, <3>2, <3>3, <3>4 DEF CxInv
  <2>8. CASE ~ok
    <3>1. CxSentInTurn'
      BY <2>1, <2>3, <2>4, <2>6, <2>8 DEF CxInv, CxPlaced, CxSentInTurn, cxHost
    <3>2. CxAckedTrue'
      BY <2>1, <2>2, <2>3, <2>8 DEF CxInv, CxAckedTrue
    <3>3. CxHandedOver'
      BY <2>2, <2>4, <2>6 DEF CxInv, CxHandedOver, CxFlags, cxHost
    <3> QED
      BY <2>5, <3>1, <3>2, <3>3 DEF CxInv
  <2> QED
    BY <2>7, <2>8
<1>8. CASE CxRepeats
  <2>1. PICK i \in 1 .. Len(cxApplied) : cxAcks' = cxAcks \cup {[n |-> cxApplied[i], ok |-> TRUE]}
    BY <1>8 DEF CxRepeats
  <2>2. cxApplied[i] = i /\ i \in 1 .. 5 /\ Len(cxApplied) \in Nat
    BY <2>1 DEF CxInv, CxSentInTurn
  <2>3. UNCHANGED <<cxHost, cxApplied, cxWire>> /\ cxAcked' \in Nat
    BY <1>8 DEF CxRepeats, CxInv, CxPlaced
  <2>4. CxAckedTrue'
    <3>1. SUFFICES ASSUME NEW a \in cxAcks'
                   PROVE  a.n \in 1 .. 5 /\ a.ok \in BOOLEAN /\ (a.ok => a.n <= Len(cxApplied))
      BY <2>3 DEF CxAckedTrue
    <3>2. CASE a \in cxAcks
      BY <3>2 DEF CxInv, CxAckedTrue
    <3>3. CASE a = [n |-> i, ok |-> TRUE]
      BY <3>3, <2>2
    <3> QED
      BY <2>1, <2>2, <3>1, <3>2, <3>3
  <2> QED
    BY <2>3, <2>4 DEF CxInv, CxPlaced, CxSentInTurn, CxHandedOver, CxFlags, cxHost
<1>9. CASE CxLoses \/ CxBluetooth \/ CxResumed \/ UNCHANGED cxVars
  BY <1>9 DEF CxLoses, CxBluetooth, CxResumed, cxVars, cxHost, cxFirmware, CxInv, CxPlaced, CxSentInTurn, CxAckedTrue,
              CxHandedOver, CxFlags
<1> QED
  BY <1>1, <1>2, <1>3, <1>4, <1>5, <1>6, <1>7, <1>8, <1>9 DEF CxNext

\* The set-up starts in the invariant.
LEMMA CxStarts ==
  ASSUME CxInit
  PROVE  CxInv
<1>1. CxPlaced /\ CxSentInTurn
  BY DEF CxInit, CxPlaced, CxSentInTurn, CxSteps
<1>2. CxAckedTrue
  BY DEF CxInit, CxAckedTrue
<1>3. CxHandedOver
  <2>1. CxFlags
    BY Zenon DEF CxInit, CxFlags
  <2> QED
    BY <2>1 DEF CxInit, CxHandedOver
<1> QED
  BY <1>1, <1>2, <1>3 DEF CxInv

\* What the invariant says of the commands and of the results.
LEMMA CxSafe ==
  ASSUME CxInv
  PROVE  CxOneByOne /\ CxOutputsTrue
<1>1. CxOneByOne
  <2>1. PICK before : before = IF cxStep = "board" \/ cxStage = CxComplete THEN 5
                               ELSE IF cxStage \in 1 .. 5 THEN cxStage - 1 ELSE 0
    OBVIOUS
  <2>2. before \in Nat /\ before <= Len(cxApplied) /\ Len(cxApplied) \in Nat
    <3>1. Len(cxApplied) \in Nat
      BY DEF CxInv, CxSentInTurn
    <3>2. CASE cxStep = "board" \/ cxStage = 6
      BY <2>1, <3>1, <3>2 DEF CxInv, CxPlaced, CxSentInTurn, CxComplete
    <3>3. CASE ~(cxStep = "board" \/ cxStage = 6) /\ cxStage \in 1 .. 5
      BY <2>1, <3>1, <3>3 DEF CxInv, CxSentInTurn, CxComplete
    <3>4. CASE ~(cxStep = "board" \/ cxStage = 6) /\ cxStage \notin 1 .. 5
      BY <2>1, <3>1, <3>4 DEF CxComplete
    <3> QED
      BY <3>2, <3>3, <3>4
  <2>3. \A n \in 1 .. before : n \in 1 .. Len(cxApplied) /\ cxApplied[n] = n
    BY <2>2 DEF CxInv, CxSentInTurn
  <2> QED
    BY <2>1, <2>3 DEF CxOneByOne
<1>2. CxOutputsTrue
  BY DEF CxInv, CxPlaced, CxSentInTurn, CxHandedOver, CxOutputsTrue, CxComplete, CxFault
<1> QED
  BY <1>1, <1>2

----------------------------------------------------------------------------
(* Answers *)

\* The invariants of the parts that take answers.
AnswersInv == EvInv /\ MailInv /\ CxInv /\ TpInv /\ WrInv

\* What is taken for an answer is one: the stream of authentication frames is whole and
\* of this association, a mailbox reply is to the request that was made, each set-up
\* command follows on those the firmware has applied, a plan is answered once, and the
\* scan results delivered are those of the request, in order, whatever is lost, late
\* or repeated (observe(), exchange(), acceptEvent(), notify(), Bridge::commit).
THEOREM AnswersAlwaysOurs == MCSpec => []AnswersAreOurs
<1>1. MCInit => AnswersInv
  BY PartsStart, EventStart, MailStart, CxStarts, TpStart, WrStart DEF AnswersInv
<1>2. AnswersInv /\ [MCNext]_MCVars => AnswersInv'
  BY PartsMove, EventStep, MailStep, CxKeeps, TpStep, WrStep, WrStutters DEF AnswersInv
<1>3. AnswersInv => AnswersAreOurs
  BY MailSafe, CxSafe, TpSafe, WrSafe DEF AnswersInv, EvInv, AnswersAreOurs
<1> QED
  BY <1>1, <1>2, <1>3, PTL DEF MCSpec

----------------------------------------------------------------------------
(* A channel step that fails *)

\* Where the class is between steps, and in the middle of one.
CtAtRest == {"idle", "program", "begin", "restore"}
CtAtWork == {"quiet", "tune", "verify", "power", "finish", "check", "end", "ended"}

\* The fields that matter here.
CtFlags ==
  /\ ctPc \in CtAtRest \cup CtAtWork \cup {"failed"} /\ ctOwned \in BOOLEAN
  /\ ctIo \in [active : BOOLEAN, lost : BOOLEAN, modified : BOOLEAN]

\* Between the steps the adapter holds nothing and the radio is whole; during a step
\* the class owns what the adapter holds; and a step that failed has kept it, unless
\* it failed before it had touched anything.
CtHeld ==
  /\ ctPc \in CtAtRest => /\ ~ctIo.active /\ ~ctOwned /\ ~ctIo.modified
                          /\ ctHw.rx = "on" /\ ctHw.channel = ctHw.power
  /\ ctPc \in CtAtWork => ctIo.active /\ ctOwned
  /\ ctPc = "failed" =>
       /\ ctOwned = ctIo.active
       /\ ctIo.modified \/ ctHw.rx # "on" \/ ctHw.channel # ctHw.power => ctIo.active /\ ctResult.reset = TRUE

\* The invariant of the channel steps, with what is held.
CtSafeInv == CtInv /\ CtFlags /\ CtHeld

\* A refusal keeps the lease and asks for a reset.
LEMMA CtRefusedHolds ==
  ASSUME CtSafeInv, ctPc \in CtAtWork, NEW io, CtRefused(io),
         io \in [active : BOOLEAN, lost : BOOLEAN, modified : BOOLEAN], io.active
  PROVE  CtFlags' /\ CtHeld'
<1>1. PICK lost \in BOOLEAN : CtLost(io) = [io EXCEPT !.lost = lost]
  BY DEF CtLost, CtLeaseGood
<1>2. /\ ctPc' = "failed" /\ ctResult' = CtFail(ctResult, TRUE) /\ ctIo' = [io EXCEPT !.lost = lost]
      /\ ctOwned' = ctIo'.active
  BY <1>1 DEF CtRefused, CtGiveUp, CtEndFailed
<1>3. ctIo' \in [active : BOOLEAN, lost : BOOLEAN, modified : BOOLEAN] /\ ctIo'.active
  BY <1>2
<1>4. ctResult'.reset = TRUE
  BY <1>2 DEF CtFail, CtSafeInv, CtInv, CtTypes
<1> QED
  BY <1>2, <1>3, <1>4 DEF CtFlags, CtHeld, CtAtRest, CtAtWork

\* An access that worked leads on with the lease.
LEMMA CtProceedsHolds ==
  ASSUME CtSafeInv, ctPc \in CtAtWork, NEW to \in CtAtWork, CtProceeds(to)
  PROVE  CtFlags' /\ CtHeld'
<1>1. /\ ctPc' = to /\ ctIo' = [ctIo EXCEPT !.modified = TRUE] /\ ctOwned' = ctOwned
      /\ ctIo.active /\ ctOwned
  BY DEF CtProceeds, CtSafeInv, CtHeld
<1>2. ctIo' \in [active : BOOLEAN, lost : BOOLEAN, modified : BOOLEAN] /\ ctIo'.active
  BY <1>1 DEF CtSafeInv, CtFlags
<1> QED
  BY <1>1, <1>2 DEF CtSafeInv, CtFlags, CtHeld, CtAtRest, CtAtWork

\* The accesses of a step.
LEMMA CtAccessHolds ==
  ASSUME CtSafeInv, CtQuiet \/ CtTune \/ CtVerify \/ CtPower \/ CtFinish \/ CtCheck \/ CtEnd
  PROVE  CtFlags' /\ CtHeld'
<1>1. ctPc \in CtAtWork
  BY DEF CtQuiet, CtTune, CtVerify, CtPower, CtFinish, CtCheck, CtEnd, CtAtWork
<1>2. ctIo \in [active : BOOLEAN, lost : BOOLEAN, modified : BOOLEAN] /\ ctIo.active
  BY <1>1 DEF CtSafeInv, CtFlags, CtHeld
<1>3. CASE CtRefused(ctIo)
  BY <1>1, <1>2, <1>3, CtRefusedHolds
<1>4. CASE CtRefused([ctIo EXCEPT !.modified = @ \/ CtAccess])
  <2>1. PICK io : io = [ctIo EXCEPT !.modified = @ \/ CtAccess]
    OBVIOUS
  <2>2. io \in [active : BOOLEAN, lost : BOOLEAN, modified : BOOLEAN] /\ io.active
    BY <1>2, <2>1 DEF CtAccess
  <2> QED
    BY <1>1, <1>4, <2>1, <2>2, CtRefusedHolds
<1>5. CASE \E to \in CtAtWork : CtProceeds(to)
  BY <1>1, <1>5, CtProceedsHolds
<1>6. CASE ctPc' = "ended" /\ UNCHANGED <<ctIo, ctOwned>>
  BY <1>1, <1>6 DEF CtSafeInv, CtFlags, CtHeld, CtAtRest, CtAtWork
<1> QED
  BY <1>3, <1>4, <1>5, <1>6 DEF CtQuiet, CtTune, CtVerify, CtPower, CtFinish, CtCheck, CtEnd, CtAtWork

\* The two ends of a step.
LEMMA CtEdgesHold ==
  ASSUME CtSafeInv, CtBegin \/ CtEnded
  PROVE  CtFlags' /\ CtHeld'
<1>0. ctIo \in [active : BOOLEAN, lost : BOOLEAN, modified : BOOLEAN] /\ UNCHANGED ctHw
  BY DEF CtSafeInv, CtFlags, CtBegin, CtEnded
<1>f. CtFail(ctResult, TRUE).reset = TRUE
  BY DEF CtFail, CtSafeInv, CtInv, CtTypes
<1>1. CASE CtBegin
  <2>1. CASE ctPc' = "failed" /\ UNCHANGED <<ctIo, ctOwned>>
    BY <1>0, <1>1, <2>1 DEF CtBegin, CtSafeInv, CtFlags, CtHeld, CtAtRest, CtAtWork
  <2>2. CASE /\ ctIo' = [ctIo EXCEPT !.active = TRUE] /\ ctOwned' = ctIo'.active /\ ctPc' = "failed"
             /\ ctResult' = CtFail(ctResult, TRUE)
    <3>1. ctIo' \in [active : BOOLEAN, lost : BOOLEAN, modified : BOOLEAN] /\ ctIo'.active
      BY <1>0, <2>2
    <3> QED
      BY <1>f, <2>2, <3>1 DEF CtFlags, CtHeld, CtAtRest, CtAtWork
  <2>3. CASE ctIo' = [ctIo EXCEPT !.active = TRUE, !.lost = FALSE] /\ ctOwned' = TRUE /\ ctPc' = "quiet"
    <3>1. ctIo' \in [active : BOOLEAN, lost : BOOLEAN, modified : BOOLEAN] /\ ctIo'.active
      BY <1>0, <2>3
    <3> QED
      BY <2>3, <3>1 DEF CtFlags, CtHeld, CtAtRest, CtAtWork
  <2> QED
    BY <1>1, <2>1, <2>2, <2>3 DEF CtBegin, CtEndFailed
<1>2. CASE CtEnded
  <2>1. ctPc = "ended" /\ ctHw.rx = "on" /\ ctHw.channel = ctHw.power /\ ctIo.active /\ ctOwned
    BY <1>2 DEF CtEnded, CtSafeInv, CtInv, CtVerified, CtHeld, CtAtWork
  <2>2. CASE ctIo' = [ctIo EXCEPT !.active = FALSE, !.modified = FALSE] /\ ctOwned' = FALSE /\ ctPc' = "restore"
    <3>1. ctIo' \in [active : BOOLEAN, lost : BOOLEAN, modified : BOOLEAN] /\ ~ctIo'.active /\ ~ctIo'.modified
      BY <1>0, <2>2
    <3> QED
      BY <1>0, <2>1, <2>2, <3>1 DEF CtFlags, CtHeld, CtAtRest, CtAtWork
  <2>3. CASE /\ ctIo' = [ctIo EXCEPT !.modified = TRUE] /\ ctResult' = CtFail(ctResult, TRUE) /\ ctPc' = "failed"
             /\ ctOwned' = ctOwned
    <3>1. ctIo' \in [active : BOOLEAN, lost : BOOLEAN, modified : BOOLEAN] /\ ctIo'.active
      BY <1>0, <2>1, <2>3
    <3> QED
      BY <1>f, <2>1, <2>3, <3>1 DEF CtSafeInv, CtFlags, CtHeld, CtAtRest, CtAtWork
  <2> QED
    BY <1>2, <2>2, <2>3 DEF CtEnded
<1> QED
  BY <1>1, <1>2

\* Every step of the channel step.
LEMMA CtHoldStep ==
  ASSUME CtSafeInv, CtNext \/ UNCHANGED ctVars
  PROVE  CtSafeInv'
<1>1. CtInv'
  BY CtStep DEF CtSafeInv
<1>2. ASSUME CtProgram PROVE CtFlags' /\ CtHeld'
  BY <1>2 DEF CtProgram, CtSafeInv, CtFlags, CtHeld, CtAtRest, CtAtWork
<1>3. ASSUME NEW c \in CtChannels, CtRequest(c) PROVE CtFlags' /\ CtHeld'
  BY <1>3 DEF CtRequest, CtSafeInv, CtFlags, CtHeld, CtAtRest, CtAtWork
<1>4. ASSUME CtFinishLease PROVE CtFlags' /\ CtHeld'
  BY <1>4 DEF CtFinishLease, CtSafeInv, CtFlags, CtHeld, CtAtRest, CtAtWork
<1>5. ASSUME CtLeaseGoes \/ CtFirmwareOpens \/ UNCHANGED ctVars PROVE CtFlags' /\ CtHeld'
  BY <1>5 DEF CtLeaseGoes, CtFirmwareOpens, ctVars, CtSafeInv, CtFlags, CtHeld
<1>6. CtFlags' /\ CtHeld'
  BY <1>2, <1>3, <1>4, <1>5, CtAccessHolds, CtEdgesHold DEF CtNext
<1> QED
  BY <1>1, <1>6 DEF CtSafeInv

\* No channel at first.
LEMMA CtHoldStarts ==
  ASSUME CtInit
  PROVE  CtSafeInv
BY CtStarts DEF CtInit, CtSafeInv, CtFlags, CtHeld, CtAtRest, CtAtWork

----------------------------------------------------------------------------
(* The tables of the station, seeded, and its port, enabled *)

\* The tables, and the window that they are written through.
SpTabled ==
  /\ spAt \in {"none", "seeding"} \X Nat
  /\ spIo.seeded \in BOOLEAN
  /\ spDev.table \in [SpTables -> [1..SpEntries -> BOOLEAN]]

\* After n writes of a seeding that has not lost its device, the window is at the
\* table that was selected last and the words written so far are there.
SpSeededUpTo(n) ==
  /\ n \in 1..(2 * SpEntries) => spDev.window = "dmac"
  /\ n > 2 * SpEntries => spDev.window = "cmac"
  /\ \A w \in 1..SpEntries : /\ 2 * w <= n => spDev.table["dmac"][w]
                             /\ 2 * SpEntries + 1 + w <= n => spDev.table["cmac"][w]

\* A seeding under way has nothing seeded, nothing written before its first write, and
\* every word behind it as long as the device is there.
SpSeeding ==
  spAt[1] = "seeding" =>
    /\ ~spIo.seeded
    /\ spAt[2] = 0 => \A t \in SpTables, w \in 1..SpEntries : ~spDev.table[t][w]
    /\ ~spDev.gone => SpSeededUpTo(spAt[2])

\* The invariant of the tables, with what has been seeded and enabled.
SpWholeInv == SpInv /\ SpTabled /\ SpSeeding /\ SpHalfSeedFaults /\ SpSeededWhole /\ SpEnabledWhole

\* The steps of a seeding, one by one.
LEMMA SpStepsAre ==
  /\ Len(SpSeedSteps) = 3 * SpEntries + 1
  /\ \A i \in 1..(2 * SpEntries) : /\ i % 2 = 1 => SpSeedSteps[i] = <<"select", "dmac", 0>>
                                   /\ i % 2 # 1 => SpSeedSteps[i] = <<"word", "dmac", i \div 2>>
  /\ SpSeedSteps[2 * SpEntries + 1] = <<"select", "cmac", 0>>
  /\ \A i \in (2 * SpEntries + 2)..(3 * SpEntries + 1) : SpSeedSteps[i] = <<"word", "cmac", i - (2 * SpEntries + 1)>>
<1> USE SpAssumption
<1>1. PICK S : S = {"select", "word"} \X {"dmac", "cmac"} \X Nat
  OBVIOUS
<1>2. PICK a : a = [i \in 1..(2 * SpEntries) |-> IF i % 2 = 1 THEN <<"select", "dmac", 0>> ELSE <<"word", "dmac", i \div 2>>]
  OBVIOUS
<1>3. PICK b : b = <<<<"select", "cmac", 0>>>>
  OBVIOUS
<1>4. PICK c : c = [i \in 1..SpEntries |-> <<"word", "cmac", i>>]
  OBVIOUS
<1>5. a \in Seq(S) /\ Len(a) = 2 * SpEntries
  BY <1>1, <1>2
<1>6. b \in Seq(S) /\ Len(b) = 1 /\ b[1] = <<"select", "cmac", 0>>
  BY <1>1, <1>3
<1>7. c \in Seq(S) /\ Len(c) = SpEntries
  BY <1>1, <1>4
<1>8. SpSeedSteps = (a \o b) \o c
  BY <1>2, <1>3, <1>4 DEF SpSeedSteps
<1>9. PICK d : d = a \o b
  OBVIOUS
<1>10. /\ d \in Seq(S) /\ Len(d) = Len(a) + Len(b)
       /\ \A i \in 1 .. Len(a) + Len(b) : d[i] = IF i <= Len(a) THEN a[i] ELSE b[i - Len(a)]
  BY <1>5, <1>6, <1>9, ConcatProperties, Zenon
<1>d. SpSeedSteps = d \o c
  BY <1>8, <1>9
<1>e. d \in Seq(S)
  BY <1>10
<1>11. /\ Len(SpSeedSteps) = Len(d) + Len(c)
       /\ \A i \in 1 .. Len(d) + Len(c) : SpSeedSteps[i] = IF i <= Len(d) THEN d[i] ELSE c[i - Len(d)]
  BY <1>7, <1>d, <1>e, ConcatProperties, Zenon
<1>12. Len(d) = 2 * SpEntries + 1 /\ Len(SpSeedSteps) = 3 * SpEntries + 1
  BY <1>5, <1>6, <1>7, <1>10, <1>11
<1>13. \A i \in 1..(2 * SpEntries) : i \in 1..(Len(d) + Len(c)) /\ SpSeedSteps[i] = a[i]
  BY <1>5, <1>6, <1>7, <1>10, <1>11, <1>12
<1>14. SpSeedSteps[2 * SpEntries + 1] = <<"select", "cmac", 0>>
  <2>1. SpSeedSteps[2 * SpEntries + 1] = d[2 * SpEntries + 1]
    BY <1>7, <1>11, <1>12
  <2>2. d[2 * SpEntries + 1] = b[1]
    BY <1>5, <1>6, <1>10
  <2> QED
    BY <1>6, <2>1, <2>2
<1>15. \A i \in (2 * SpEntries + 2)..(3 * SpEntries + 1) :
         i - (2 * SpEntries + 1) \in 1..SpEntries /\ SpSeedSteps[i] = c[i - (2 * SpEntries + 1)]
  BY <1>7, <1>11, <1>12
<1>16. \A i \in 1..(2 * SpEntries) : /\ i % 2 = 1 => a[i] = <<"select", "dmac", 0>>
                                     /\ i % 2 # 1 => a[i] = <<"word", "dmac", i \div 2>>
  BY <1>2, Zenon
<1>17. \A i \in 1..SpEntries : c[i] = <<"word", "cmac", i>>
  BY <1>4, Zenon
<1> QED
  BY <1>12, <1>13, <1>14, <1>15, <1>16, <1>17, Zenon

\* A write of a seeding that arrives.
LEMMA SpWriteArrives ==
  ASSUME SpWholeInv, spAt[1] = "seeding", ~spDev.gone, NEW n \in Nat, n = spAt[2], n < Len(SpSeedSteps),
         spDev' = SpWritten(SpSeedSteps[n + 1])
  PROVE  /\ spDev'.table \in [SpTables -> [1..SpEntries -> BOOLEAN]]
         /\ SpSeededUpTo(n + 1)' /\ spDev'.gone = spDev.gone /\ spDev'.enabled = spDev.enabled
         /\ spDev'.config = spDev.config
<1> USE SpAssumption
<1>0. /\ DOMAIN spDev = {"gone", "paused", "enabled", "config", "policy", "window", "table"}
      /\ spDev.table \in [SpTables -> [1..SpEntries -> BOOLEAN]] /\ SpSeededUpTo(n)
  BY DEF SpWholeInv, SpInv, SpTypes, SpTabled, SpSeeding
<1>1. n + 1 \in 1..(3 * SpEntries + 1)
  BY SpStepsAre
<1>2. CASE n + 1 <= 2 * SpEntries /\ (n + 1) % 2 = 1
  <2>0. n + 1 \in 1..(2 * SpEntries)
    BY <1>1, <1>2
  <2>1. SpSeedSteps[n + 1] = <<"select", "dmac", 0>>
    BY <1>2, <2>0, SpStepsAre, Zenon
  <2>2. spDev' = [spDev EXCEPT !.window = "dmac"]
    BY <2>1 DEF SpWritten
  <2>3. \A w \in 1..SpEntries : 2 * w # n + 1
    BY <1>2
  <2> QED
    BY <1>0, <1>2, <2>2, <2>3 DEF SpSeededUpTo
<1>3. CASE n + 1 <= 2 * SpEntries /\ (n + 1) % 2 # 1
  <2>a. n + 1 \in 1..(2 * SpEntries)
    BY <1>1, <1>3
  <2>1. SpSeedSteps[n + 1] = <<"word", "dmac", (n + 1) \div 2>>
    BY <1>3, <2>a, SpStepsAre, Zenon
  <2>0. 2 * ((n + 1) \div 2) = n + 1
    BY <1>3
  <2>2. PICK v \in 1..SpEntries : v = (n + 1) \div 2 /\ 2 * v = n + 1
    BY <1>3, <2>0
  <2>3. spDev.window = "dmac"
    BY <1>0, <1>3, <2>2 DEF SpSeededUpTo
  <2>4. spDev' = [spDev EXCEPT !.table["dmac"][v] = TRUE]
    BY <2>1, <2>2, <2>3 DEF SpWritten
  <2>5. PICK table : table = [spDev.table EXCEPT !["dmac"][v] = TRUE]
    OBVIOUS
  <2>6. spDev' = [spDev EXCEPT !.table = table]
    BY <1>0, <2>4, <2>5
  <2>7. /\ table \in [SpTables -> [1..SpEntries -> BOOLEAN]] /\ table["cmac"] = spDev.table["cmac"]
        /\ table["dmac"][v] = TRUE
        /\ \A w \in 1..SpEntries : w # v => table["dmac"][w] = spDev.table["dmac"][w]
    BY <1>0, <2>2, <2>5 DEF SpTables
  <2>8. /\ spDev'.table = table /\ spDev'.window = spDev.window /\ spDev'.gone = spDev.gone
        /\ spDev'.enabled = spDev.enabled /\ spDev'.config = spDev.config
    BY <1>0, <2>6
  <2>9. \A w \in 1..SpEntries : 2 * w <= n + 1 => table["dmac"][w]
    <3>1. SUFFICES ASSUME NEW w \in 1..SpEntries, 2 * w <= n + 1 PROVE table["dmac"][w]
      OBVIOUS
    <3>2. CASE w = v
      BY <2>7, <3>2
    <3>3. CASE w # v
      <4>1. 2 * w <= n
        BY <2>2, <3>1, <3>3
      <4> QED
        BY <1>0, <2>7, <3>3, <4>1 DEF SpSeededUpTo
    <3> QED
      BY <3>2, <3>3
  <2> QED
    BY <1>3, <2>3, <2>7, <2>8, <2>9 DEF SpSeededUpTo
<1>4. CASE n + 1 = 2 * SpEntries + 1
  <2>1. SpSeedSteps[n + 1] = <<"select", "cmac", 0>>
    BY <1>1, <1>4, SpStepsAre
  <2>2. spDev' = [spDev EXCEPT !.window = "cmac"]
    BY <2>1 DEF SpWritten
  <2> QED
    BY <1>0, <1>4, <2>2 DEF SpSeededUpTo
<1>5. CASE n + 1 > 2 * SpEntries + 1
  <2>1. SpSeedSteps[n + 1] = <<"word", "cmac", (n + 1) - (2 * SpEntries + 1)>>
    BY <1>1, <1>5, SpStepsAre
  <2>2. PICK v : v = (n + 1) - (2 * SpEntries + 1) /\ v \in 1..SpEntries
    BY <1>1, <1>5
  <2>3. spDev.window = "cmac"
    BY <1>0, <1>5 DEF SpSeededUpTo
  <2>4. spDev' = [spDev EXCEPT !.table["cmac"][v] = TRUE]
    BY <2>1, <2>2, <2>3 DEF SpWritten
  <2>5. PICK table : table = [spDev.table EXCEPT !["cmac"][v] = TRUE]
    OBVIOUS
  <2>6. spDev' = [spDev EXCEPT !.table = table]
    BY <1>0, <2>4, <2>5
  <2>7. /\ table \in [SpTables -> [1..SpEntries -> BOOLEAN]] /\ table["dmac"] = spDev.table["dmac"]
        /\ table["cmac"][v] = TRUE
        /\ \A w \in 1..SpEntries : w # v => table["cmac"][w] = spDev.table["cmac"][w]
    BY <1>0, <2>2, <2>5 DEF SpTables
  <2>8. /\ spDev'.table = table /\ spDev'.window = spDev.window /\ spDev'.gone = spDev.gone
        /\ spDev'.enabled = spDev.enabled /\ spDev'.config = spDev.config
    BY <1>0, <2>6
  <2>9. \A w \in 1..SpEntries : 2 * SpEntries + 1 + w <= n + 1 => table["cmac"][w]
    <3>1. SUFFICES ASSUME NEW w \in 1..SpEntries, 2 * SpEntries + 1 + w <= n + 1 PROVE table["cmac"][w]
      OBVIOUS
    <3>2. CASE w = v
      BY <2>7, <3>2
    <3>3. CASE w # v
      <4>1. 2 * SpEntries + 1 + w <= n
        BY <2>2, <3>1, <3>3
      <4> QED
        BY <1>0, <2>7, <3>3, <4>1 DEF SpSeededUpTo
    <3> QED
      BY <3>2, <3>3
  <2>10. \A w \in 1..SpEntries : table["dmac"][w]
    BY <1>0, <1>5, <2>7 DEF SpSeededUpTo
  <2> QED
    BY <1>5, <2>3, <2>7, <2>8, <2>9, <2>10 DEF SpSeededUpTo
<1> QED
  BY <1>1, <1>2, <1>3, <1>4, <1>5

\* A seeding that gives up faults the station unless it had written nothing.
LEMMA SpGivesUpWhole ==
  ASSUME SpWholeInv, spAt[1] = "seeding", NEW attempted \in BOOLEAN, SpSeedFails(attempted),
         spDev'.table = spDev.table, spDev'.enabled = spDev.enabled, spDev'.config = spDev.config
  PROVE  SpTabled' /\ SpSeeding' /\ SpHalfSeedFaults' /\ SpSeededWhole' /\ SpEnabledWhole'
<1>1. /\ spAt' = <<"none", 0>> /\ spAt[2] \in Nat /\ ~spIo.seeded
      /\ spDev.table \in [SpTables -> [1..SpEntries -> BOOLEAN]]
      /\ spDev.enabled => spDev.config \in {"idle", "network"}
      /\ spAt[2] = 0 => \A t \in SpTables, w \in 1..SpEntries : ~spDev.table[t][w]
      /\ DOMAIN spIo = {"port", "faulted", "seeded", "saved", "filter", "connected", "was", "until", "deadline", "last"}
  BY DEF SpSeedFails, SpWholeInv, SpInv, SpTypes, SpTabled, SpSeeding, SpEnabledWhole
<1>2. CASE spAt[2] > 0 \/ attempted
  <2>1. spIo'.faulted = TRUE /\ spIo'.seeded = spIo.seeded
    BY <1>1, <1>2 DEF SpSeedFails, SpFault
  <2> QED
    BY <1>1, <2>1 DEF SpTabled, SpSeeding, SpHalfSeedFaults, SpSeededWhole, SpEnabledWhole, SpWholeInv
<1>3. CASE spAt[2] = 0 /\ ~attempted
  <2>1. spIo' = spIo
    BY <1>3 DEF SpSeedFails
  <2> QED
    BY <1>1, <1>3, <2>1 DEF SpTabled, SpSeeding, SpHalfSeedFaults, SpSeededWhole, SpEnabledWhole, SpWholeInv
<1> QED
  BY <1>1, <1>2, <1>3

\* seed(), whichever way it goes.
LEMMA SpSeedWhole ==
  ASSUME SpWholeInv, SpSeed \/ SpSeedWrite \/ SpSeedEnds
  PROVE  SpTabled' /\ SpSeeding' /\ SpHalfSeedFaults' /\ SpSeededWhole' /\ SpEnabledWhole'
<1> USE SpAssumption
<1>0. /\ DOMAIN spDev = {"gone", "paused", "enabled", "config", "policy", "window", "table"}
      /\ DOMAIN spIo = {"port", "faulted", "seeded", "saved", "filter", "connected", "was", "until", "deadline", "last"}
      /\ spAt \in {"none", "seeding"} \X Nat /\ spDev.gone \in BOOLEAN
  BY DEF SpWholeInv, SpInv, SpTypes, SpTabled
<1>1. CASE SpSeed
  <2>1. UNCHANGED <<spIo, spDev>> /\ spAt' = <<"seeding", 0>> /\ spAt[1] = "none" /\ ~spIo.seeded /\ ~spIo.faulted
    BY <1>1 DEF SpSeed
  <2>2. \A t \in SpTables, w \in 1..SpEntries : ~spDev.table[t][w]
    BY <2>1 DEF SpWholeInv, SpHalfSeedFaults
  <2>3. SpSeededUpTo(0)
    BY DEF SpSeededUpTo
  <2> QED
    BY <2>1, <2>2, <2>3
    DEF SpWholeInv, SpTabled, SpSeeding, SpHalfSeedFaults, SpSeededWhole, SpEnabledWhole, SpSeededUpTo
<1>2. CASE SpSeedWrite
  <2>1. PICK n \in Nat : n = spAt[2]
    BY <1>0
  <2>2. spAt[1] = "seeding" /\ n < Len(SpSeedSteps)
    BY <1>2, <2>1 DEF SpSeedWrite
  <2>3. CASE SpSeedFails(FALSE) /\ UNCHANGED spDev
    BY <2>2, <2>3, SpGivesUpWhole
  <2>4. CASE spDev' = SpLost /\ SpSeedFails(TRUE)
    <3>1. spDev'.table = spDev.table /\ spDev'.enabled = spDev.enabled /\ spDev'.config = spDev.config
      BY <1>0, <2>4 DEF SpLost
    <3> QED
      BY <2>2, <2>4, <3>1, SpGivesUpWhole
  <2>5. CASE SpPaused /\ spAt' = <<"seeding", n + 1>> /\ spDev' = SpWritten(SpSeedSteps[n + 1]) /\ UNCHANGED spIo
    <3>1. ~spDev.gone
      BY <2>5 DEF SpPaused, SpSafe
    <3>2. /\ spDev'.table \in [SpTables -> [1..SpEntries -> BOOLEAN]]
          /\ SpSeededUpTo(n + 1)' /\ spDev'.gone = spDev.gone /\ spDev'.enabled = spDev.enabled
          /\ spDev'.config = spDev.config
      BY <2>1, <2>2, <2>5, <3>1, SpWriteArrives
    <3>3. spAt'[1] = "seeding" /\ spAt'[2] = n + 1 /\ spIo' = spIo /\ ~spIo.seeded /\ spAt' \in {"none", "seeding"} \X Nat
      BY <2>2, <2>5 DEF SpWholeInv, SpSeeding
    <3>4. SpTabled' /\ SpSeeding'
      BY <3>2, <3>3 DEF SpTabled, SpSeeding, SpWholeInv, SpSeededUpTo
    <3> QED
      BY <3>2, <3>3, <3>4 DEF SpWholeInv, SpHalfSeedFaults, SpSeededWhole, SpEnabledWhole
  <2>6. CASE spAt' = <<"seeding", n + 1>> /\ spDev' = SpLost /\ UNCHANGED spIo
    <3>1. spDev'.table = spDev.table /\ spDev'.enabled = spDev.enabled /\ spDev'.config = spDev.config /\ spDev'.gone = TRUE
      BY <1>0, <2>6 DEF SpLost
    <3>2. spAt'[1] = "seeding" /\ spAt'[2] = n + 1 /\ spIo' = spIo /\ ~spIo.seeded /\ spAt' \in {"none", "seeding"} \X Nat
      BY <2>2, <2>6 DEF SpWholeInv, SpSeeding
    <3> QED
      BY <3>1, <3>2 DEF SpWholeInv, SpTabled, SpSeeding, SpHalfSeedFaults, SpSeededWhole, SpEnabledWhole
  <2> QED
    BY <1>2, <2>1, <2>3, <2>4, <2>5, <2>6 DEF SpSeedWrite
<1>3. CASE SpSeedEnds
  <2>1. spAt[1] = "seeding" /\ spAt[2] = 3 * SpEntries + 1 /\ UNCHANGED spDev
    BY <1>3, SpStepsAre DEF SpSeedEnds
  <2>2. CASE SpDrains
    <3>1. ~spDev.gone /\ spIo' = [spIo EXCEPT !.seeded = TRUE] /\ spAt' = <<"none", 0>>
      BY <1>3, <2>2 DEF SpSeedEnds, SpDrains, SpPaused, SpSafe
    <3>2. SpSeededUpTo(3 * SpEntries + 1)
      BY <2>1, <3>1 DEF SpWholeInv, SpSeeding
    <3>3. \A t \in SpTables, w \in 1..SpEntries : spDev.table[t][w]
      BY <3>2 DEF SpSeededUpTo, SpTables
    <3>4. spIo'.seeded = TRUE /\ spIo'.faulted = spIo.faulted
      BY <1>0, <3>1
    <3> QED
      BY <2>1, <3>1, <3>3, <3>4
      DEF SpWholeInv, SpTabled, SpSeeding, SpHalfSeedFaults, SpSeededWhole, SpEnabledWhole
  <2>3. CASE ~SpDrains
    BY <1>3, <2>1, <2>3, SpGivesUpWhole DEF SpSeedEnds
  <2> QED
    BY <2>2, <2>3
<1> QED
  BY <1>1, <1>2, <1>3

\* A step that leaves the tables alone.
LEMMA SpTablesAlone ==
  ASSUME SpWholeInv, spAt' = spAt, spIo'.seeded = spIo.seeded, spDev'.table = spDev.table, spDev'.window = spDev.window,
         spIo.faulted => spIo'.faulted, spDev.gone => spDev'.gone,
         spDev'.enabled => spDev'.config \in {"idle", "network"}
  PROVE  SpTabled' /\ SpSeeding' /\ SpHalfSeedFaults' /\ SpSeededWhole' /\ SpEnabledWhole'
<1>1. SpTabled' /\ SpSeededWhole' /\ SpEnabledWhole' /\ SpHalfSeedFaults'
  BY DEF SpWholeInv, SpTabled, SpSeededWhole, SpEnabledWhole, SpHalfSeedFaults
<1>2. SpSeeding'
  BY DEF SpWholeInv, SpSeeding, SpSeededUpTo
<1> QED
  BY <1>1, <1>2

\* The port, of which the writes up to any one may have arrived.
LEMMA SpPortAfterWhole ==
  ASSUME SpWholeInv, NEW k \in 0..4, NEW d, d = SpPortAfter(k)
  PROVE  /\ DOMAIN d = DOMAIN spDev /\ d.table = spDev.table /\ d.window = spDev.window /\ d.gone = spDev.gone
         /\ (d.enabled => d.config \in {"idle", "network"})
<1>0. DOMAIN spDev = {"gone", "paused", "enabled", "config", "policy", "window", "table"}
  BY DEF SpWholeInv, SpInv, SpTypes
<1>1. CASE k = 0
  <2>1. d = spDev
    BY <1>1 DEF SpPortAfter
  <2> QED
    BY <2>1 DEF SpWholeInv, SpEnabledWhole
<1>2. CASE k # 0
  <2>1. PICK e, c : /\ e = SpPortSteps[k].enabled
                    /\ c = (CASE SpPortSteps[k].config = "old" -> spDev.config
                              [] SpPortSteps[k].config = "part" -> "part"
                              [] OTHER -> IF spIo.connected THEN "network" ELSE "idle")
    OBVIOUS
  <2>2. d = [spDev EXCEPT !.enabled = e, !.config = c]
    BY <1>0, <1>2, <2>1 DEF SpPortAfter
  <2>3. d.enabled = e /\ d.config = c
    BY <1>0, <2>2
  <2>4. k \in {1, 2, 3} => e = FALSE
    BY <2>1 DEF SpPortSteps
  <2>5. k = 4 => c \in {"idle", "network"}
    <3>1. SpPortSteps[4].config = "whole"
      BY DEF SpPortSteps
    <3> QED
      BY <2>1, <3>1
  <2>6. k \in {1, 2, 3} \/ k = 4
    BY <1>2
  <2> QED
    BY <1>0, <2>2, <2>3, <2>4, <2>5, <2>6
<1> QED
  BY <1>1, <1>2

\* Every step of the station's registers.
LEMMA SpWholeStep ==
  ASSUME SpWholeInv, SpNext \/ UNCHANGED spVars
  PROVE  SpWholeInv'
<1>0. /\ DOMAIN spDev = {"gone", "paused", "enabled", "config", "policy", "window", "table"}
      /\ DOMAIN spIo = {"port", "faulted", "seeded", "saved", "filter", "connected", "was", "until", "deadline", "last"}
      /\ (spDev.enabled => spDev.config \in {"idle", "network"})
  BY DEF SpWholeInv, SpInv, SpTypes, SpEnabledWhole
<1>1. SpInv'
  BY SpStep DEF SpWholeInv
<1> DEFINE Whole == SpTabled' /\ SpSeeding' /\ SpHalfSeedFaults' /\ SpSeededWhole' /\ SpEnabledWhole'
<1>2. ASSUME NEW b \in BOOLEAN, SpBeginPort(b) PROVE Whole
  <2>1. spIo'.seeded = spIo.seeded /\ spIo'.faulted = spIo.faulted
    BY <1>0, <1>2 DEF SpBeginPort
  <2> QED
    BY <1>0, <1>2, <2>1, SpTablesAlone DEF SpBeginPort
<1>3. ASSUME NEW b \in BOOLEAN, SpScanFilter(b) PROVE Whole
  <2>1. spIo'.seeded = spIo.seeded /\ (spIo.faulted => spIo'.faulted)
    BY <1>0, <1>3 DEF SpScanFilter, SpFault
  <2>2. /\ spDev'.table = spDev.table /\ spDev'.window = spDev.window /\ (spDev.gone => spDev'.gone)
        /\ spDev'.enabled = spDev.enabled /\ spDev'.config = spDev.config
    BY <1>0, <1>3 DEF SpScanFilter, SpLost
  <2> QED
    BY <1>0, <1>3, <2>1, <2>2, SpTablesAlone DEF SpScanFilter
<1>4. ASSUME SpServicePort PROVE Whole
  <2>1. spIo'.seeded = spIo.seeded /\ (spIo.faulted => spIo'.faulted) /\ spAt' = spAt
    BY <1>0, <1>4 DEF SpServicePort, SpFault
  <2>2. CASE spDev' = spDev
    BY <1>0, <2>1, <2>2, SpTablesAlone
  <2>3. CASE \E k \in 0..4 : spDev' = SpPortAfter(k)
    BY <2>1, <2>3, SpPortAfterWhole, SpTablesAlone
  <2>4. CASE \E k \in 0..4 : spDev' = [SpPortAfter(k) EXCEPT !.gone = TRUE]
    <3>1. PICK k \in 0..4 : spDev' = [SpPortAfter(k) EXCEPT !.gone = TRUE]
      BY <2>4
    <3>2. PICK d : d = SpPortAfter(k)
      OBVIOUS
    <3>3. /\ DOMAIN d = DOMAIN spDev /\ d.table = spDev.table /\ d.window = spDev.window
          /\ (d.enabled => d.config \in {"idle", "network"})
      BY <3>2, SpPortAfterWhole
    <3>4. /\ spDev'.table = spDev.table /\ spDev'.window = spDev.window /\ spDev'.gone
          /\ (spDev'.enabled => spDev'.config \in {"idle", "network"})
      BY <1>0, <3>1, <3>2, <3>3
    <3> QED
      BY <2>1, <3>4, SpTablesAlone
  <2>5. Len(SpPortSteps) = 4
    BY DEF SpPortSteps
  <2> QED
    BY <1>4, <2>2, <2>3, <2>4, <2>5 DEF SpServicePort
<1>5. ASSUME SpTick \/ UNCHANGED spVars PROVE Whole
  BY <1>0, <1>5, SpTablesAlone DEF SpTick, spVars
<1>6. ASSUME SpAround PROVE Whole
  <2>1. /\ spDev'.table = spDev.table /\ spDev'.window = spDev.window /\ (spDev.gone => spDev'.gone)
        /\ spDev'.enabled = spDev.enabled /\ spDev'.config = spDev.config
    BY <1>0, <1>6 DEF SpAround, SpLost
  <2> QED
    BY <1>0, <1>6, <2>1, SpTablesAlone DEF SpAround
<1>7. Whole
  BY <1>2, <1>3, <1>4, <1>5, <1>6, SpSeedWhole DEF SpNext
<1> QED
  BY <1>1, <1>7 DEF SpWholeInv

\* Nothing is seeded and no port enabled at first.
LEMMA SpWholeStarts ==
  ASSUME SpInit
  PROVE  SpWholeInv
<1>1. /\ spAt = <<"none", 0>> /\ spIo.seeded = FALSE /\ spDev.enabled = FALSE
      /\ spDev.table = [t \in SpTables |-> [w \in 1..SpEntries |-> FALSE]]
  BY DEF SpInit
<1>2. SpTabled /\ SpSeeding /\ SpHalfSeedFaults
  BY <1>1 DEF SpTabled, SpSeeding, SpHalfSeedFaults
<1>3. SpSeededWhole /\ SpEnabledWhole
  BY <1>1 DEF SpSeededWhole, SpEnabledWhole
<1> QED
  BY <1>2, <1>3, SpStarts DEF SpWholeInv

----------------------------------------------------------------------------
(* The link of a session *)

\* The fields of the result, and of a write of the L1 byte.
LkFlags == [error : BOOLEAN, modified : BOOLEAN, recovery : BOOLEAN, restored : BOOLEAN, restoreFailed : BOOLEAN,
            pre : BOOLEAN, post : BOOLEAN]
\* The write of L1 that may be under way, and where it is.
LkWrites == [value : BOOLEAN, for : {"clear", "restore"}]
LkWriting == {"native", "dbi", "dbiWait", "readback"}

\* The fields that matter here.
LkTypes ==
  /\ lkPc \in {"idle", "speed", "l1", "mdio", "restored", "registers", "pre", "done", "failed"} \cup LkWriting
  /\ lkResult \in LkFlags /\ lkWrite \in LkWrites
  /\ lkL1 \in BOOLEAN /\ lkSaved \in BOOLEAN /\ lkChanged \in BOOLEAN /\ lkCancelled \in BOOLEAN
  /\ lkDbi \in SUBSET BOOLEAN

\* L1 is known only once it is read, and cleared only if it was found on: the write of
\* the byte is to clear it, with no error yet, or to put it back as it was.
LkOwing ==
  /\ lkPc \in {"idle", "speed", "l1"} => ~lkSaved /\ ~lkResult.error
  /\ lkPc \in LkWriting => /\ lkSaved /\ lkChanged
                           /\ (lkWrite.for = "restore" => lkWrite.value)
                           /\ (lkWrite.for = "clear" => ~lkResult.error)
  /\ lkPc = "mdio" => ~lkResult.error /\ lkSaved = lkChanged
  /\ lkPc = "restored" => lkSaved
  /\ lkPc \in LkWriting \cup {"restored"} /\ lkResult.error => lkResult.recovery

\* The engine is given up on only with an error; past the restoration without one, L1
\* is as it was found.
LkRestoring ==
  /\ ~lkResult.error => lkDbi = {} \/ lkPc = "dbiWait"
  /\ lkPc = "restored" /\ ~lkResult.error => lkL1
  /\ lkPc \in {"registers", "pre", "done"} => ~lkResult.error /\ (lkSaved => lkResult.restored /\ lkL1)
  /\ lkPc \in {"mdio", "registers", "pre", "done"} /\ ~lkSaved => ~lkL1

\* Where the phase failed with L1 to be put back, this was tried and is told.
LkTold ==
  lkPc = "failed" /\ lkSaved =>
      (lkResult.restored \/ lkResult.restoreFailed) /\ lkResult.error /\ lkResult.recovery

\* The calibration of the negotiated generation is off where the clearing of it worked.
LkCalmed ==
  /\ (lkPc \in LkWriting /\ lkWrite.for = "restore") \/ lkPc \in {"restored", "registers"}
       => lkResult.error \/ lkSpeed \notin lkCalibrated
  /\ lkResult.pre => lkPc \in {"pre", "done", "failed"}

\* The invariant of the link.
LkInv == LkTypes /\ LkOwing /\ LkRestoring /\ LkTold /\ LkCalmed /\ LkConfiguredWhole

\* A failure of a register access, before L1 was cleared or after it was put back.
LEMMA LkFailsKeeps ==
  ASSUME LkInv, NEW modified \in BOOLEAN, LkFails(modified), lkPc \in {"idle", "speed", "l1", "registers", "pre"},
         lkPc \in {"registers", "pre"} => modified
  PROVE  LkInv'
<1>1. /\ UNCHANGED <<lkL1, lkSaved, lkChanged, lkSpeed, lkWrite, lkDbi, lkCalibrated, lkCancelled>> /\ lkPc' = "failed"
      /\ lkResult \in LkFlags
  BY DEF LkFails, LkInv, LkTypes
<1>2. /\ lkResult' \in LkFlags /\ lkResult'.error = TRUE /\ lkResult'.recovery = (lkResult.modified \/ modified)
      /\ lkResult'.restored = lkResult.restored /\ lkResult'.pre = lkResult.pre
  BY <1>1 DEF LkFails, LkFailed, LkFlags
<1>3. LkTypes' /\ LkOwing' /\ LkRestoring' /\ LkCalmed' /\ LkConfiguredWhole'
  BY <1>1, <1>2 DEF LkInv, LkTypes, LkOwing, LkRestoring, LkCalmed, LkConfiguredWhole, LkWriting
<1>4. LkTold'
  BY <1>1, <1>2 DEF LkInv, LkOwing, LkRestoring, LkTold
<1> QED
  BY <1>3, <1>4 DEF LkInv

\* The accesses before L1 is read.
LEMMA LkOpeningKeeps ==
  ASSUME LkInv, LkPreRegisters \/ LkSpeed \/ LkReadL1
  PROVE  LkInv'
<1>0. lkResult \in LkFlags /\ ~lkResult.pre /\ ~lkSaved /\ lkPc \in {"idle", "speed", "l1"}
  BY DEF LkInv, LkTypes, LkOwing, LkCalmed, LkPreRegisters, LkSpeed, LkReadL1
<1>1. CASE \E modified \in BOOLEAN : LkFails(modified)
  BY <1>0, <1>1, LkFailsKeeps
<1>2. CASE LkPreRegisters /\ lkPc' = "speed"
  <2>1. /\ UNCHANGED <<lkL1, lkSaved, lkChanged, lkSpeed, lkWrite, lkDbi, lkCalibrated, lkCancelled>>
        /\ lkResult' = LkModified
    BY <1>2 DEF LkPreRegisters, LkFails
  <2>2. lkResult' \in LkFlags /\ lkResult'.error = lkResult.error /\ lkResult'.pre = lkResult.pre
    BY <1>0, <2>1 DEF LkModified, LkFlags
  <2> QED
    BY <1>0, <1>2, <2>1, <2>2
    DEF LkInv, LkTypes, LkOwing, LkRestoring, LkTold, LkCalmed, LkConfiguredWhole, LkWriting
<1>3. CASE LkSpeed /\ lkPc' = "l1"
  <2>1. UNCHANGED <<lkResult, lkL1, lkSaved, lkChanged, lkWrite, lkDbi, lkCalibrated, lkCancelled>>
    BY <1>3 DEF LkSpeed, LkFails
  <2> QED
    BY <1>0, <1>3, <2>1
    DEF LkInv, LkTypes, LkOwing, LkRestoring, LkTold, LkCalmed, LkConfiguredWhole, LkWriting
<1>4. CASE LkReadL1 /\ lkPc' # "failed"
  <2>1. /\ UNCHANGED <<lkResult, lkL1, lkSpeed, lkDbi, lkCalibrated, lkCancelled>> /\ lkPc = "l1"
        /\ lkSaved' = lkL1 /\ lkChanged' = lkL1 /\ lkPc' = (IF lkL1 THEN "native" ELSE "mdio")
        /\ lkWrite' = [value |-> FALSE, for |-> "clear"]
    BY <1>4, Zenon DEF LkReadL1, LkFails
  <2>2. ~lkResult.error /\ lkDbi = {}
    BY <2>1 DEF LkInv, LkOwing, LkRestoring
  <2>3. lkWrite' \in LkWrites /\ lkWrite'.for = "clear"
    BY <2>1 DEF LkWrites
  <2>4. lkL1 \in BOOLEAN /\ lkSaved' \in BOOLEAN /\ lkChanged' \in BOOLEAN
    BY <2>1, Zenon DEF LkInv, LkTypes
  <2> QED
    BY <1>0, <2>1, <2>2, <2>3, <2>4
    DEF LkInv, LkTypes, LkOwing, LkRestoring, LkTold, LkCalmed, LkConfiguredWhole, LkWriting
<1> QED
  BY <1>1, <1>2, <1>3, <1>4 DEF LkPreRegisters, LkSpeed, LkReadL1, LkFails

\* A write of the byte that fails: the clearing one is undone, the other one told.
LEMMA LkWriteFailsKeeps ==
  ASSUME LkInv, lkPc \in LkWriting, LkWriteFails, lkL1' \in BOOLEAN, lkDbi' = lkDbi
  PROVE  LkInv'
<1>0. /\ lkResult \in LkFlags /\ ~lkResult.pre /\ lkSaved /\ lkChanged /\ lkWrite \in LkWrites
      /\ UNCHANGED <<lkSaved, lkChanged, lkSpeed, lkCalibrated, lkCancelled, lkDbi>>
  BY DEF LkInv, LkTypes, LkOwing, LkCalmed, LkWriteFails, LkWriting
<1>1. /\ lkResult' \in LkFlags /\ lkResult'.error = TRUE /\ lkResult'.recovery = TRUE
      /\ lkResult'.pre = FALSE /\ lkResult'.restoreFailed = (lkWrite.for = "restore")
  BY <1>0 DEF LkWriteFails, LkFailed, LkModified, LkFlags
<1>2. \/ lkPc' = "native" /\ lkWrite' = [value |-> lkSaved, for |-> "restore"]
      \/ lkWrite.for = "restore" /\ lkPc' = "failed" /\ lkWrite' = lkWrite
  BY <1>0 DEF LkWriteFails, LkWrites
<1>3. lkSaved = TRUE
  BY <1>0, Zenon DEF LkInv, LkTypes
<1>4. \/ lkPc' = "native" /\ lkWrite' = [value |-> TRUE, for |-> "restore"]
      \/ lkWrite.for = "restore" /\ lkPc' = "failed" /\ lkWrite' = lkWrite
  BY <1>2, <1>3, Zenon
<1>5. lkWrite' \in LkWrites /\ (lkWrite'.for = "restore" /\ (lkPc' = "native" => lkWrite'.value = TRUE))
  <2>1. CASE lkPc' = "native" /\ lkWrite' = [value |-> TRUE, for |-> "restore"]
    BY <2>1 DEF LkWrites
  <2>2. CASE lkWrite.for = "restore" /\ lkPc' = "failed" /\ lkWrite' = lkWrite
    BY <1>0, <2>2
  <2> QED
    BY <1>4, <2>1, <2>2
<1> QED
  BY <1>0, <1>1, <1>4, <1>5
  DEF LkInv, LkTypes, LkOwing, LkRestoring, LkTold, LkCalmed, LkConfiguredWhole, LkWriting

\* writeConfig(), by either way.
LEMMA LkWriteKeeps ==
  ASSUME LkInv, LkNative \/ LkDbiStart \/ LkDbiWait \/ LkReadback
  PROVE  LkInv'
<1>0. /\ lkPc \in LkWriting /\ lkResult \in LkFlags /\ ~lkResult.pre /\ lkSaved /\ lkChanged /\ lkWrite \in LkWrites
      /\ lkL1 \in BOOLEAN /\ lkWrite.value \in BOOLEAN /\ lkWrite.for \in {"clear", "restore"}
  BY DEF LkInv, LkTypes, LkOwing, LkCalmed, LkNative, LkDbiStart, LkDbiWait, LkReadback, LkWriting, LkWrites
<1>1. CASE LkWriteFails
  <2>1. lkL1' \in BOOLEAN /\ lkDbi' = lkDbi
    BY <1>0, <1>1 DEF LkNative, LkDbiStart, LkDbiWait, LkReadback, LkWriteFails
  <2> QED
    BY <1>0, <1>1, <2>1, LkWriteFailsKeeps
<1>2. CASE /\ lkPc = "native" /\ lkPc' \in {"readback", "dbi"} /\ lkResult' = LkModified
           /\ lkL1' \in {lkL1, lkWrite.value} /\ lkDbi' = lkDbi
           /\ UNCHANGED <<lkSaved, lkChanged, lkSpeed, lkWrite, lkCalibrated, lkCancelled>>
  <2>1. lkResult' \in LkFlags /\ lkResult'.error = lkResult.error /\ lkResult'.pre = lkResult.pre
        /\ lkResult'.recovery = lkResult.recovery
    BY <1>0, <1>2 DEF LkModified, LkFlags
  <2> QED
    BY <1>0, <1>2, <2>1
    DEF LkInv, LkTypes, LkOwing, LkRestoring, LkTold, LkCalmed, LkConfiguredWhole, LkWriting
<1>3. CASE /\ \/ lkPc = "dbi" /\ lkPc' = "dbiWait" /\ lkDbi' = {lkWrite.value}
              \/ lkPc = "dbiWait" /\ lkPc' = "readback" /\ lkDbi = {} /\ lkDbi' = lkDbi
           /\ UNCHANGED <<lkResult, lkL1, lkSaved, lkChanged, lkSpeed, lkWrite, lkCalibrated, lkCancelled>>
  BY <1>0, <1>3
  DEF LkInv, LkTypes, LkOwing, LkRestoring, LkTold, LkCalmed, LkConfiguredWhole, LkWriting
<1>4. CASE /\ lkPc = "readback" /\ lkL1 = lkWrite.value
           /\ lkPc' = (IF lkWrite.for = "clear" THEN "mdio" ELSE "restored")
           /\ UNCHANGED <<lkResult, lkL1, lkDbi, lkSaved, lkChanged, lkSpeed, lkWrite, lkCalibrated, lkCancelled>>
  BY <1>0, <1>4
  DEF LkInv, LkTypes, LkOwing, LkRestoring, LkTold, LkCalmed, LkConfiguredWhole, LkWriting
<1> QED
  BY <1>1, <1>2, <1>3, <1>4 DEF LkNative, LkDbiStart, LkDbiWait, LkReadback

\* The calibration, and what follows the restoration.
LEMMA LkClosingKeeps ==
  ASSUME LkInv, LkMdio \/ LkRestored \/ LkPre \/ LkPost
  PROVE  LkInv'
<1>0. lkResult \in LkFlags
  BY DEF LkInv, LkTypes
<1>1. CASE LkMdio
  <2>1. PICK cleared \in BOOLEAN, ok \in BOOLEAN :
          /\ ok => cleared /\ ~lkCancelled
          /\ lkCalibrated' = IF cleared THEN lkCalibrated \ {lkSpeed} ELSE lkCalibrated
          /\ lkResult' = IF ok THEN LkModified ELSE LkFailed(LkModified)
          /\ \/ lkChanged /\ lkPc' = "native" /\ lkWrite' = [value |-> lkSaved, for |-> "restore"]
             \/ ~lkChanged /\ lkPc' = (IF ok THEN "registers" ELSE "failed") /\ UNCHANGED lkWrite
    BY <1>1 DEF LkMdio, LkMdioPage
  <2>2. /\ UNCHANGED <<lkL1, lkSaved, lkChanged, lkSpeed, lkDbi, lkCancelled>> /\ lkPc = "mdio"
        /\ ~lkResult.error /\ lkSaved = lkChanged /\ lkSaved \in BOOLEAN /\ ~lkResult.pre /\ lkDbi = {}
        /\ (~lkSaved => ~lkL1)
    BY <1>1 DEF LkMdio, LkMdioPage, LkInv, LkTypes, LkOwing, LkRestoring, LkCalmed
  <2>3. /\ lkResult' \in LkFlags /\ lkResult'.pre = FALSE /\ lkResult'.error = (~ok)
        /\ (lkResult'.error => lkResult'.recovery)
    BY <1>0, <2>1, <2>2 DEF LkModified, LkFailed, LkFlags
  <2>4. ok => lkSpeed \notin lkCalibrated'
    BY <2>1
  <2>5. CASE lkChanged
    <3>0. lkSaved = TRUE
      BY <2>2, <2>5, Zenon DEF LkInv, LkTypes
    <3>1. lkWrite' \in LkWrites /\ lkWrite'.for = "restore" /\ lkWrite'.value = TRUE /\ lkPc' = "native" /\ lkSaved
      <4>1. lkWrite' = [value |-> TRUE, for |-> "restore"] /\ lkPc' = "native"
        BY <2>1, <2>5, <3>0, Zenon
      <4> QED
        BY <3>0, <4>1 DEF LkWrites
    <3> QED
      BY <2>2, <2>3, <2>4, <3>1
      DEF LkInv, LkTypes, LkOwing, LkRestoring, LkTold, LkCalmed, LkConfiguredWhole, LkWriting
  <2>6. CASE ~lkChanged
    <3>1. lkWrite' = lkWrite /\ lkPc' = (IF ok THEN "registers" ELSE "failed") /\ ~lkSaved
      BY <2>1, <2>2, <2>6
    <3> QED
      BY <2>2, <2>3, <2>4, <3>1
      DEF LkInv, LkTypes, LkOwing, LkRestoring, LkTold, LkCalmed, LkConfiguredWhole, LkWriting
  <2> QED
    BY <2>5, <2>6
<1>2. CASE LkRestored
  <2>1. /\ lkPc = "restored" /\ lkChanged' = FALSE /\ lkPc' = (IF lkResult.error THEN "failed" ELSE "registers")
        /\ UNCHANGED <<lkL1, lkSaved, lkSpeed, lkWrite, lkDbi, lkCalibrated, lkCancelled>>
    BY <1>2 DEF LkRestored
  <2>2. /\ lkResult' \in LkFlags /\ lkResult'.restored = TRUE /\ lkResult'.error = lkResult.error
        /\ lkResult'.recovery = lkResult.recovery /\ lkResult'.pre = lkResult.pre
    BY <1>0, <1>2 DEF LkRestored, LkFlags
  <2> QED
    BY <2>1, <2>2
    DEF LkInv, LkTypes, LkOwing, LkRestoring, LkTold, LkCalmed, LkConfiguredWhole, LkWriting
<1>3. CASE LkPre \/ LkPost
  <2>1. CASE LkFails(TRUE)
    BY <1>3, <2>1, LkFailsKeeps DEF LkPre, LkPost, LkRegisters
  <2>2. CASE ~LkFails(TRUE)
    <3>1. /\ UNCHANGED <<lkL1, lkSaved, lkChanged, lkSpeed, lkWrite, lkDbi, lkCalibrated, lkCancelled>>
          /\ \/ lkPc = "registers" /\ lkPc' = "pre" /\ lkResult' = [LkModified EXCEPT !["pre"] = TRUE]
             \/ lkPc = "pre" /\ lkPc' = "done" /\ lkResult' = [LkModified EXCEPT !["post"] = TRUE]
      BY <1>3, <2>2 DEF LkPre, LkPost, LkRegisters
    <3>2. /\ lkResult' \in LkFlags /\ lkResult'.restored = lkResult.restored /\ lkResult'.error = lkResult.error
          /\ (lkResult'.pre => lkPc = "registers" \/ lkResult.pre)
      BY <1>0, <3>1 DEF LkModified, LkFlags
    <3> QED
      BY <3>1, <3>2
      DEF LkInv, LkTypes, LkOwing, LkRestoring, LkTold, LkCalmed, LkConfiguredWhole, LkWriting
  <2> QED
    BY <2>1, <2>2
<1> QED
  BY <1>1, <1>2, <1>3

\* Every step of the link's set-up.
LEMMA LkKeeps ==
  ASSUME LkInv, LkNext \/ UNCHANGED lkVars
  PROVE  LkInv'
<1>1. CASE LkDbiCompletes
  <2>1. PICK v \in lkDbi : lkL1' = v
    BY <1>1 DEF LkDbiCompletes
  <2>2. /\ UNCHANGED <<lkPc, lkResult, lkSaved, lkChanged, lkSpeed, lkWrite, lkCalibrated, lkCancelled>> /\ lkDbi' = {}
        /\ lkDbi # {} /\ lkL1' \in BOOLEAN
    BY <1>1, <2>1 DEF LkDbiCompletes, LkInv, LkTypes
  <2> QED
    BY <2>2 DEF LkInv, LkTypes, LkOwing, LkRestoring, LkTold, LkCalmed, LkConfiguredWhole, LkWriting
<1>2. CASE LkCancel \/ UNCHANGED lkVars
  <2>1. UNCHANGED <<lkPc, lkResult, lkL1, lkSaved, lkChanged, lkSpeed, lkWrite, lkDbi, lkCalibrated>>
        /\ lkCancelled' \in BOOLEAN
    BY <1>2 DEF LkCancel, lkVars, LkInv, LkTypes
  <2> QED
    BY <2>1 DEF LkInv, LkTypes, LkOwing, LkRestoring, LkTold, LkCalmed, LkConfiguredWhole, LkWriting
<1> QED
  BY <1>1, <1>2, LkOpeningKeeps, LkWriteKeeps, LkClosingKeeps DEF LkNext

\* L1 is as it is found.
LEMMA LkStarts ==
  ASSUME LkInit
  PROVE  LkInv
<1>1. /\ lkPc = "idle" /\ lkL1 \in BOOLEAN /\ lkSaved = FALSE /\ lkChanged = FALSE /\ lkDbi = {} /\ lkCancelled = FALSE
      /\ lkResult \in LkFlags /\ lkResult.error = FALSE /\ lkResult.pre = FALSE /\ lkWrite \in LkWrites
  BY DEF LkInit, LkFlags, LkWrites
<1> QED
  BY <1>1 DEF LkInv, LkTypes, LkOwing, LkRestoring, LkTold, LkCalmed, LkConfiguredWhole, LkWriting

\* What the invariant says of the link.
LEMMA LkSafe ==
  ASSUME LkInv
  PROVE  LkNeverSilent /\ LkConfiguredWhole
BY DEF LkInv, LkTypes, LkOwing, LkRestoring, LkTold, LkNeverSilent

----------------------------------------------------------------------------
(* The reset a failed initialization asks for, and power plans *)

\* The first error of the PHY's initialization ends it.
LEMMA PhResetKeeps ==
  ASSUME PhResetKnown, PhNext \/ UNCHANGED phVars
  PROVE  PhResetKnown'
<1>1. CASE phError' = phError /\ phReset' = phReset
  BY <1>1 DEF PhResetKnown, PhNext, PhEnter, PhRefused, PhAccess, PhFinish, PhGuard, PhCancel, phVars
<1>2. CASE \E e : PhFails(e)
  BY <1>2 DEF PhResetKnown, PhFails
<1> QED
  BY <1>1, <1>2 DEF PhNext, PhEnter, PhRefused, PhAccess, PhFinish, PhGuard, PhCancel, phVars

\* A plan is asked for once, with nothing in it.
PpAskedFresh == ppState = "asked" => ppWrites = 0 /\ ppLimits = {}

\* A plan is built or refused whole.
LEMMA PpKeeps ==
  ASSUME PpAskedFresh, PpAllOrNothing, PpNext \/ UNCHANGED ppVars
  PROVE  PpAskedFresh' /\ PpAllOrNothing'
<1>1. CASE UNCHANGED ppVars
  BY <1>1 DEF ppVars, PpAskedFresh, PpAllOrNothing
<1>2. CASE PpRefuse(ppChannel) /\ ppState = "asked"
  BY <1>2 DEF PpRefuse, PpAskedFresh, PpAllOrNothing
<1>3. CASE ppState' = "built" /\ ppWrites' = PpCount(ppChannel) /\ ppChannel' = ppChannel
  BY <1>3 DEF PpCount, PpCapacity, PpAskedFresh, PpAllOrNothing
<1> QED
  BY <1>1, <1>2, <1>3 DEF PpNext, PpBuild

----------------------------------------------------------------------------
(* What the probe reports *)

\* Where the supply has been tried.
DpSupplied == {"boot", "off", "restore", "cleanup", "start", "master", "engine", "publish", "quiesce", "giveback"}

\* The window is mapped only inside sampleMmio; before the supply is tried the device
\* is untouched; and a supply seen off means a clean device without the bus.
DpTold ==
  /\ DOMAIN dpMmio = {"mapped", "changed", "restored"}
  /\ dpAt \in {"bank", "check", "release", "done"} => ~dpMmio.mapped
  /\ dpAt \in DpSupplied => dpSupply.attempted
  /\ ~dpSupply.attempted => dpDevice.power = "off" /\ dpDevice.dirty = {}
  /\ dpUpload.attempted => dpSupply.attempted
  /\ dpSupply.returnedOff => dpDevice.dirty = {} /\ ~dpCommand.master

\* The bank is answered for once, and is then not held unless a stop was not seen.
DpAnswered ==
  /\ dpAt = "giveback" => ~dpCommand.master
  /\ dpAt = "bank" => ~dpPages.released
  /\ dpPages.released /\ dpAt # "done" => dpPages.state # "held"
  /\ dpAt = "done" /\ dpUpload.attempted /\ dpSupply.returnedOff => dpPages.state # "held"

\* The invariant of the probe, with what it reports.
DpToldInv == DpInv /\ DpTold /\ DpAnswered

\* Up to the supply.
LEMMA DpOuterTells ==
  ASSUME DpToldInv, DpBank \/ DpMap \/ DpEnable \/ DpXtal
  PROVE  DpTold' /\ DpAnswered'
<1>1. /\ dpAt \in {"bank", "check", "enable", "xtal"} /\ UNCHANGED <<dpUpload, dpPass, dpSupply, dpDevice, dpOther>>
      /\ ~dpSupply.returnedOff /\ ~dpUpload.attempted
  BY DEF DpBank, DpMap, DpEnable, DpXtal, DpToldInv, DpInv, DpMasked, DpEarly, DpTypes
<1>2. CASE DpBank
  <2>1. UNCHANGED <<dpMmio, dpCommand>> /\ dpAt' \in {"check", "release"} /\ ~dpPages.released /\ dpPages'.released = dpPages.released
    BY <1>2 DEF DpBank, DpGo, DpToldInv, DpAnswered, DpInv, DpTypes
  <2> QED
    BY <1>1, <1>2, <2>1 DEF DpToldInv, DpTold, DpAnswered, DpSupplied, DpBank
<1>3. CASE DpMap
  <2>1. UNCHANGED <<dpPages, dpCommand>> /\ dpAt' \in {"enable", "release"} /\ (dpAt' = "release" => dpMmio' = dpMmio)
        /\ DOMAIN dpMmio' = DOMAIN dpMmio
    BY <1>3 DEF DpMap, DpGo, DpToldInv, DpTold
  <2> QED
    BY <1>1, <1>3, <2>1 DEF DpToldInv, DpTold, DpAnswered, DpSupplied, DpMap
<1>4. CASE DpEnable
  <2>1. UNCHANGED dpPages /\ dpAt' \in {"xtal", "unmap"} /\ DOMAIN dpMmio' = DOMAIN dpMmio
    BY <1>4 DEF DpEnable, DpGo, DpToldInv, DpTold
  <2> QED
    BY <1>1, <1>4, <2>1 DEF DpToldInv, DpTold, DpAnswered, DpSupplied, DpEnable
<1>5. CASE DpXtal
  BY <1>1, <1>5 DEF DpXtal, DpGo, DpToldInv, DpTold, DpAnswered, DpSupplied
<1> QED
  BY <1>2, <1>3, <1>4, <1>5

\* The supply, and the interrupt and the window given back.
LEMMA DpSupplyTells ==
  ASSUME DpToldInv, DpPowerOn \/ DpPowerOff \/ DpRestoreInterrupt \/ DpUnmap
  PROVE  DpTold' /\ DpAnswered'
<1>0. /\ UNCHANGED <<dpUpload, dpPages>> /\ DOMAIN dpSupply = {"attempted", "returnedOff"}
      /\ DOMAIN dpDevice = {"power", "mask", "dirty", "engine", "ring", "published", "consumed", "busy"}
      /\ DOMAIN dpCommand = {"memory", "master", "intx", "other"}
  BY DEF DpPowerOn, DpPowerOff, DpRestoreInterrupt, DpUnmap, DpToldInv, DpInv, DpTypes
<1>1. CASE DpPowerOn
  <2>1. /\ UNCHANGED <<dpCommand, dpMmio>> /\ dpAt = "on" /\ dpAt' \in {"boot", "off"} /\ ~dpSupply.returnedOff
        /\ dpSupply' = [dpSupply EXCEPT !.attempted = TRUE]
    BY <1>1 DEF DpPowerOn, DpGo, DpToldInv, DpInv, DpMasked
  <2>2. dpSupply'.attempted = TRUE /\ dpSupply'.returnedOff = dpSupply.returnedOff
    BY <1>0, <2>1
  <2> QED
    BY <1>0, <2>1, <2>2 DEF DpToldInv, DpTold, DpAnswered, DpSupplied
<1>2. CASE DpPowerOff
  <2>1. UNCHANGED <<dpCommand, dpMmio>> /\ dpAt = "off" /\ dpAt' = "restore" /\ ~dpSupply.returnedOff /\ dpSupply.attempted
    BY <1>2 DEF DpPowerOff, DpGo, DpToldInv, DpInv, DpMasked, DpTold, DpSupplied
  <2>2. CASE DpQuiet /\ dpDevice' = DpOff /\ dpSupply' = [dpSupply EXCEPT !.returnedOff = TRUE]
    <3>1. dpSupply'.attempted = dpSupply.attempted /\ dpDevice'.dirty = {} /\ ~dpCommand.master
      BY <1>0, <2>2 DEF DpOff, DpQuiet
    <3> QED
      BY <1>0, <2>1, <3>1 DEF DpToldInv, DpTold, DpAnswered, DpSupplied
  <2>3. CASE dpSupply' = dpSupply
    BY <1>0, <2>1, <2>3 DEF DpToldInv, DpTold, DpAnswered, DpSupplied
  <2> QED
    BY <1>2, <2>2, <2>3 DEF DpPowerOff
<1>3. CASE DpRestoreInterrupt
  <2>1. UNCHANGED <<dpSupply, dpDevice, dpMmio>> /\ dpAt' = "unmap" /\ dpCommand'.master = dpCommand.master
    BY <1>0, <1>3 DEF DpRestoreInterrupt, DpGo
  <2> QED
    BY <1>0, <1>3, <2>1 DEF DpToldInv, DpTold, DpAnswered, DpSupplied, DpRestoreInterrupt
<1>4. CASE DpUnmap
  <2>1. UNCHANGED <<dpSupply, dpDevice>> /\ dpAt = "unmap" /\ dpAt' = "release" /\ dpCommand'.master = dpCommand.master
    BY <1>0, <1>4 DEF DpUnmap, DpGo
  <2>2. DOMAIN dpMmio' = DOMAIN dpMmio /\ dpMmio'.mapped = FALSE
    BY <1>4 DEF DpUnmap, DpToldInv, DpTold
  <2> QED
    BY <1>0, <2>1, <2>2 DEF DpToldInv, DpTold, DpAnswered, DpSupplied
<1> QED
  BY <1>1, <1>2, <1>3, <1>4

\* The two releases of the bank.
LEMMA DpReleaseTells ==
  ASSUME DpToldInv, DpRelease \/ DpReleaseAll
  PROVE  DpTold' /\ DpAnswered'
<1>0. UNCHANGED <<dpCommand, dpMmio, dpUpload, dpSupply, dpDevice>>
  BY DEF DpRelease, DpReleaseAll
<1>1. CASE DpReleaseAll
  <2>1. dpAt = "giveback" /\ dpAt' = "cleanup" /\ ~dpCommand.master /\ ~dpPages.released /\ DpGiveBack(TRUE)
    BY <1>1 DEF DpReleaseAll, DpGo, DpToldInv, DpAnswered, DpInv, DpHeld
  <2>2. dpUpload.attempted \in BOOLEAN /\ dpUpload.attempted
    BY <2>1 DEF DpToldInv, DpInv, DpTypes, DpHeld
  <2>3. \E s \in {"freed", "partly"} : \E p : dpPages' = [state |-> s, proven |-> p, released |-> TRUE]
    BY <2>1, <2>2 DEF DpGiveBack
  <2>4. dpPages'.state \in {"freed", "partly"}
    BY <2>3
  <2> QED
    BY <1>0, <2>1, <2>4 DEF DpToldInv, DpTold, DpAnswered, DpSupplied
<1>2. CASE DpRelease
  <2>1. dpAt = "release" /\ dpAt' = "done" /\ DpGiveBack(dpUpload.quiesced \/ dpSupply.returnedOff)
    BY <1>2 DEF DpRelease, DpGo
  <2>2. ASSUME dpUpload.attempted, dpSupply.returnedOff
        PROVE  dpPages'.state # "held"
    <3>1. ~dpCommand.master
      BY <2>2 DEF DpToldInv, DpTold
    <3>2. PICK s, p : /\ dpPages' = [state |-> s, proven |-> p, released |-> TRUE]
                      /\ s \in IF dpPages.released THEN {dpPages.state} ELSE {"freed", "partly"}
      BY <2>1, <2>2, <3>1 DEF DpGiveBack
    <3>3. dpPages.released => dpPages.state # "held"
      BY <2>1 DEF DpToldInv, DpAnswered
    <3> QED
      BY <3>2, <3>3
  <2> QED
    BY <1>0, <2>1, <2>2 DEF DpToldInv, DpTold, DpAnswered, DpSupplied
<1> QED
  BY <1>1, <1>2

\* A boot pass and the upload.
LEMMA DpPassTells ==
  ASSUME DpToldInv, DpBoot \/ DpCleanup \/ DpStart \/ DpMaster \/ DpEngine \/ DpPublish \/ DpQuiesce
  PROVE  DpTold' /\ DpAnswered'
<1>0. /\ UNCHANGED <<dpMmio, dpSupply, dpPages>> /\ DOMAIN dpUpload = {"saved", "intx", "attempted", "snapshot", "started", "quiesced"}
      /\ DOMAIN dpCommand = {"memory", "master", "intx", "other"}
  BY DEF DpBoot, DpCleanup, DpStart, DpMaster, DpEngine, DpPublish, DpQuiesce, DpToldInv, DpInv, DpTypes
<1>1. dpAt \in {"boot", "cleanup", "start", "master", "engine", "publish", "quiesce"}
  BY DEF DpBoot, DpCleanup, DpStart, DpMaster, DpEngine, DpPublish, DpQuiesce
<1>2. dpAt' \in {"off", "start", "cleanup", "boot", "quiesce", "master", "engine", "publish", "giveback"}
  BY DEF DpBoot, DpCleanup, DpStart, DpMaster, DpEngine, DpPublish, DpQuiesce, DpGo
<1>3. dpSupply.attempted /\ ~dpSupply.returnedOff
  BY <1>1 DEF DpToldInv, DpTold, DpSupplied, DpInv, DpMasked
<1>4. dpAt' = "giveback" => ~dpCommand'.master
  <2>1. dpAt' = "giveback" => dpCommand' = DpMasterOff
    BY DEF DpBoot, DpCleanup, DpStart, DpMaster, DpEngine, DpPublish, DpQuiesce, DpGo
  <2> QED
    BY <1>0, <2>1 DEF DpMasterOff
<1> QED
  BY <1>0, <1>1, <1>2, <1>3, <1>4 DEF DpToldInv, DpTold, DpAnswered, DpSupplied

\* Every step of the probe.
LEMMA DpTellsStep ==
  ASSUME DpToldInv, DpNext \/ UNCHANGED dpVars
  PROVE  DpToldInv'
<1>1. DpInv'
  BY DpMoves DEF DpToldInv
<1>2. ASSUME DpDeviceReads \/ DpDeviceDone \/ DpOtherOwner \/ UNCHANGED dpVars
      PROVE  DpTold' /\ DpAnswered'
  <2>1. /\ UNCHANGED <<dpAt, dpMmio, dpUpload, dpPages, dpSupply>>
        /\ dpDevice'.power = dpDevice.power /\ dpDevice'.dirty = dpDevice.dirty /\ dpCommand'.master = dpCommand.master
    BY <1>2 DEF DpDeviceReads, DpDeviceDone, DpOtherOwner, dpVars, DpToldInv, DpInv, DpTypes
  <2> QED
    BY <2>1 DEF DpToldInv, DpTold, DpAnswered
<1>3. DpTold' /\ DpAnswered'
  BY <1>2, DpOuterTells, DpSupplyTells, DpReleaseTells, DpPassTells DEF DpNext
<1> QED
  BY <1>1, <1>3 DEF DpToldInv

\* Nothing is mapped, tried or given back at first.
LEMMA DpTellsStarts ==
  ASSUME DpInit
  PROVE  DpToldInv
<1>1. /\ dpAt = "bank" /\ DOMAIN dpMmio = {"mapped", "changed", "restored"} /\ dpMmio.mapped = FALSE
      /\ dpSupply.returnedOff = FALSE /\ dpUpload.attempted = FALSE /\ dpPages.released = FALSE
      /\ dpDevice.power = "off" /\ dpDevice.dirty = {}
  BY DEF DpInit
<1> QED
  BY <1>1, DpStarts DEF DpToldInv, DpTold, DpAnswered, DpSupplied

\* What the invariant says of a probe that has ended.
LEMMA DpTellsSafe ==
  ASSUME DpToldInv
  PROVE  DpReportsTrue
BY DEF DpToldInv, DpInv, DpTypes, DpStill, DpMasked, DpTold, DpAnswered, DpReportsTrue

----------------------------------------------------------------------------
(* What a pair of power passes reports *)

\* A step that is still to come.
PwHas(steps, x) == \E i \in 1..Len(steps) : steps[i] = x

\* The fields that matter here.
PwFields ==
  /\ pwDevice.radio \in BOOLEAN /\ pwDevice.isolated \in BOOLEAN /\ pwDevice.functions \in BOOLEAN
  /\ pwDevice.sleep \in BOOLEAN /\ pwPass.writes \in BOOLEAN
  /\ pwResult \in [on : BOOLEAN, onWrites : BOOLEAN, off : BOOLEAN, powered : BOOLEAN, returnedOff : BOOLEAN,
                   recovery : BOOLEAN]

\* Before start() the device is as it was found.
PwFresh == ~pwResult.on => /\ pwPass.name = "none" /\ PwWholeOff /\ ~pwResult.onWrites /\ ~pwResult.powered
                           /\ ~pwResult.recovery

\* A pass that powers on and has written nothing left the device off; one without an
\* error has done, or has still to do, each of the things that make it whole.
PwOnHolds ==
  pwPass.name = "on" =>
      /\ pwDevice.mac \in {"off", "rising", "on"}
      /\ ~pwPass.writes => PwWholeOff
      /\ ~pwPass.failed => /\ ~pwDevice.sleep \/ PwHas(pwPass.steps, "wake")
                           /\ pwDevice.radio \/ PwHas(pwPass.steps, "radioUp")
                           /\ ~pwDevice.isolated \/ PwHas(pwPass.steps, "isolation")
                           /\ pwDevice.functions \/ PwHas(pwPass.steps, "functions")
                           /\ pwDevice.mac = "on" \/ PwHas(pwPass.steps, "confirmOn")

\* The same of a pass that powers off, by the steps it has left.
PwOffHolds ==
  pwPass.name = "off" /\ ~pwPass.failed =>
      /\ Len(pwPass.steps) <= 5 => ~pwDevice.radio /\ pwDevice.isolated
      /\ Len(pwPass.steps) <= 2 => pwDevice.sleep
      /\ Len(pwPass.steps) <= 1 => pwDevice.mac = "off"

\* What an honest pair of passes keeps to, and its invariant.
PwHonest == PwFields /\ PwFresh /\ PwOnHolds /\ PwOffHolds /\ PwRecoveryHonest
PwHonestInv == PwInv /\ PwHonest

\* A step to come stays one when others are put around it, or carried out.
LEMMA PwHasAround ==
  ASSUME NEW S, NEW s \in Seq(S), NEW t \in Seq(S), NEW x, PwHas(s, x) \/ PwHas(t, x)
  PROVE  PwHas(s \o t, x) /\ s \o t \in Seq(S)
<1>1. PICK q : q = s \o t
  OBVIOUS
<1>2. /\ q \in Seq(S) /\ Len(q) = Len(s) + Len(t)
      /\ \A i \in 1 .. Len(s) + Len(t) : q[i] = IF i <= Len(s) THEN s[i] ELSE t[i - Len(s)]
  BY <1>1, ConcatProperties, Zenon
<1>3. Len(s) \in Nat /\ Len(t) \in Nat
  OBVIOUS
<1>4. ASSUME NEW i \in 1..Len(s), s[i] = x
      PROVE  PwHas(q, x)
  <2>1. i \in 1..Len(q) /\ q[i] = x
    BY <1>2, <1>3, <1>4
  <2> QED
    BY <2>1 DEF PwHas
<1>5. ASSUME NEW i \in 1..Len(t), t[i] = x
      PROVE  PwHas(q, x)
  <2>1. PICK j \in 1..(Len(s) + Len(t)) : j = i + Len(s)
    BY <1>3
  <2>2. ~(j <= Len(s)) /\ j - Len(s) = i
    BY <1>3, <2>1
  <2>3. q[j] = x
    BY <1>2, <1>5, <2>2
  <2> QED
    BY <1>2, <2>3 DEF PwHas
<1> QED
  BY <1>1, <1>2, <1>4, <1>5 DEF PwHas

\* A step that is not the first of a list is one of the rest.
LEMMA PwHasTail ==
  ASSUME NEW S, NEW s \in Seq(S), s # <<>>, NEW x, PwHas(s, x), Head(s) # x
  PROVE  PwHas(Tail(s), x)
<1>1. PICK i \in 1..Len(s) : s[i] = x
  BY DEF PwHas
<1>2. Tail(s) \in Seq(S) /\ Len(Tail(s)) = Len(s) - 1 /\ Head(s) = s[1] /\ Len(s) \in Nat
      /\ \A j \in 1..Len(Tail(s)) : Tail(s)[j] = s[j + 1]
  BY PwTail
<1>3. i - 1 \in 1..Len(Tail(s)) /\ Tail(s)[i - 1] = x
  BY <1>1, <1>2
<1> QED
  BY <1>3 DEF PwHas

\* What a pass that powers on has to do.
LEMMA PwOnHas ==
  ASSUME NEW adjusted \in BOOLEAN, NEW second \in BOOLEAN, NEW x \in {"wake", "radioUp", "isolation", "functions", "confirmOn"}
  PROVE  PwHas(PwOnSteps(adjusted, second), x)
<1>1. PICK S : S = PwRising \cup {"strobeOn"}
  OBVIOUS
<1>2. PICK a : a = <<"wake", "regulators", "strobeOn", "awaitOn", "radioUp">>
  OBVIOUS
<1>3. PICK b : b = PwMasked("isolation")
  OBVIOUS
<1>4. PICK c : c = IF adjusted THEN <<"voltage">> ELSE <<>>
  OBVIOUS
<1>5. PICK d : d = IF adjusted /\ second THEN PwMasked("voltage") ELSE <<>>
  OBVIOUS
<1>6. PICK e : e = <<"functions", "confirmOn", "notify">>
  OBVIOUS
<1>7. a \in Seq(S) /\ b \in Seq(S) /\ e \in Seq(S)
  BY <1>1, <1>2, <1>3, <1>6 DEF PwMasked, PwRising
<1>8. c \in Seq(S)
  <2>1. <<"voltage">> \in Seq(S) /\ <<>> \in Seq(S)
    BY <1>1 DEF PwRising
  <2> QED
    BY <1>4, <2>1
<1>9. d \in Seq(S)
  <2>1. PwMasked("voltage") \in Seq(S) /\ <<>> \in Seq(S)
    BY <1>1 DEF PwMasked, PwRising
  <2> QED
    BY <1>5, <2>1
<1>10. PwOnSteps(adjusted, second) = (((a \o b) \o c) \o d) \o e
  BY <1>2, <1>3, <1>4, <1>5, <1>6 DEF PwOnSteps
<1>11. (a \o b) \in Seq(S) /\ ((a \o b) \o c) \in Seq(S) /\ (((a \o b) \o c) \o d) \in Seq(S)
  BY <1>7, <1>8, <1>9, ConcatProperties, Zenon
<1>12. CASE x \in {"functions", "confirmOn"}
  <2>1. PwHas(e, "functions") /\ PwHas(e, "confirmOn")
    <3>1. e[1] = "functions" /\ e[2] = "confirmOn" /\ 1 \in 1..Len(e) /\ 2 \in 1..Len(e)
      BY <1>6
    <3> QED
      BY <3>1 DEF PwHas
  <2> QED
    BY <1>7, <1>10, <1>11, <1>12, <2>1, PwHasAround
<1>13. CASE x \in {"wake", "radioUp", "isolation"}
  <2>1. PwHas(a, "wake") /\ PwHas(a, "radioUp")
    <3>1. a[1] = "wake" /\ a[5] = "radioUp" /\ 1 \in 1..Len(a) /\ 5 \in 1..Len(a)
      BY <1>2
    <3> QED
      BY <3>1 DEF PwHas
  <2>2. PwHas(b, "isolation")
    <3>1. b[2] = "isolation" /\ 2 \in 1..Len(b)
      BY <1>3 DEF PwMasked
    <3> QED
      BY <3>1 DEF PwHas
  <2>3. PwHas(a \o b, x)
    BY <1>7, <1>13, <2>1, <2>2, PwHasAround
  <2>4. PwHas((a \o b) \o c, x)
    BY <1>8, <1>11, <2>3, PwHasAround
  <2>5. PwHas(((a \o b) \o c) \o d, x)
    BY <1>9, <1>11, <2>4, PwHasAround
  <2> QED
    BY <1>7, <1>10, <1>11, <2>5, PwHasAround
<1> QED
  BY <1>12, <1>13

\* What a step does to the parts of the device.
LEMMA PwEffectOn ==
  ASSUME PwTypes, NEW step, NEW d, d = PwEffect(step, pwDevice)
  PROVE  /\ (step = "wake" => d.sleep = FALSE) /\ (step = "sleep" => d.sleep = TRUE)
         /\ (step \notin {"wake", "sleep"} => d.sleep = pwDevice.sleep)
         /\ (step = "radioUp" => d.radio = TRUE) /\ (step = "radioDown" => d.radio = FALSE /\ d.isolated = TRUE)
         /\ (step \notin {"radioUp", "radioDown"} => d.radio = pwDevice.radio)
         /\ (step = "isolation" => d.isolated = FALSE)
         /\ (step \notin {"isolation", "radioDown"} => d.isolated = pwDevice.isolated)
         /\ (step = "functions" => d.functions = TRUE) /\ (step # "functions" => d.functions = pwDevice.functions)
         /\ (step = "strobeOn" => d.mac = "rising")
         /\ (step = "strobeOff" => d.mac = IF pwDevice.mac = "on" THEN "falling" ELSE pwDevice.mac)
         /\ (step \notin {"strobeOn", "strobeOff"} => d.mac = pwDevice.mac)
         /\ (step \in PwReads => d = pwDevice)
BY DEF PwEffect, PwTypes, PwReads

\* A step leaves the fields of the device typed.
LEMMA PwEffectTyped ==
  ASSUME PwTypes, PwFields, NEW step, NEW d, d = PwEffect(step, pwDevice)
  PROVE  d.sleep \in BOOLEAN /\ d.radio \in BOOLEAN /\ d.isolated \in BOOLEAN /\ d.functions \in BOOLEAN
<1>1. /\ (d.sleep = FALSE \/ d.sleep = TRUE \/ d.sleep = pwDevice.sleep)
      /\ (d.radio = FALSE \/ d.radio = TRUE \/ d.radio = pwDevice.radio)
      /\ (d.isolated = FALSE \/ d.isolated = TRUE \/ d.isolated = pwDevice.isolated)
      /\ (d.functions = TRUE \/ d.functions = pwDevice.functions)
  BY PwEffectOn
<1>2. d.sleep \in BOOLEAN
  BY <1>1 DEF PwFields
<1>3. d.radio \in BOOLEAN
  BY <1>1 DEF PwFields
<1>4. d.isolated \in BOOLEAN
  BY <1>1 DEF PwFields
<1>5. d.functions \in BOOLEAN
  BY <1>1 DEF PwFields
<1> QED
  BY <1>2, <1>3, <1>4, <1>5

\* start() and stop().
LEMMA PwBeginsHonest ==
  ASSUME PwHonestInv, PwStart \/ PwStop
  PROVE  PwHonest'
<1>0. /\ UNCHANGED <<pwDevice, pwBus>> /\ pwPass.name = "none" /\ PwTypes
      /\ pwResult \in [on : BOOLEAN, onWrites : BOOLEAN, off : BOOLEAN, powered : BOOLEAN, returnedOff : BOOLEAN,
                       recovery : BOOLEAN]
  BY DEF PwStart, PwStop, PwHonestInv, PwHonest, PwFields, PwInv
<1>1. CASE PwStart
  <2>1. /\ ~pwResult.on /\ pwResult' = [pwResult EXCEPT !.on = TRUE] /\ PwWholeOff /\ ~pwResult.onWrites
        /\ ~pwResult.powered /\ ~pwResult.recovery
    BY <1>1 DEF PwStart, PwHonestInv, PwHonest, PwFresh
  <2>2. /\ pwResult' \in [on : BOOLEAN, onWrites : BOOLEAN, off : BOOLEAN, powered : BOOLEAN, returnedOff : BOOLEAN,
                          recovery : BOOLEAN]
        /\ pwResult'.on = TRUE /\ pwResult'.onWrites = pwResult.onWrites /\ pwResult'.powered = pwResult.powered
        /\ pwResult'.recovery = pwResult.recovery /\ pwResult'.returnedOff = pwResult.returnedOff
    BY <1>0, <2>1
  <2>3. CASE pwPass' = pwPass
    BY <1>0, <2>1, <2>2, <2>3
    DEF PwHonestInv, PwHonest, PwFields, PwFresh, PwOnHolds, PwOffHolds, PwRecoveryHonest, PwWholeOff, PwWholeOn
  <2>4. CASE pwPass' # pwPass
    <3>1. PICK adjusted \in BOOLEAN, second \in BOOLEAN :
            pwPass' = [PwNoPass EXCEPT !.name = "on", !.steps = PwOnSteps(adjusted, second)]
      BY <1>1, <2>4 DEF PwStart
    <3>2. /\ pwPass'.name = "on" /\ pwPass'.steps = PwOnSteps(adjusted, second) /\ pwPass'.writes = FALSE
          /\ pwPass'.failed = FALSE
      BY <3>1 DEF PwNoPass
    <3>3. /\ PwHas(pwPass'.steps, "wake") /\ PwHas(pwPass'.steps, "radioUp") /\ PwHas(pwPass'.steps, "isolation")
          /\ PwHas(pwPass'.steps, "functions") /\ PwHas(pwPass'.steps, "confirmOn")
      BY <3>2, PwOnHas
    <3>4. PwOnHolds'
      BY <1>0, <2>1, <3>2, <3>3 DEF PwOnHolds, PwWholeOff
    <3> QED
      BY <1>0, <2>1, <2>2, <3>2, <3>4 DEF PwHonestInv, PwHonest, PwFields, PwFresh, PwOffHolds, PwRecoveryHonest
  <2> QED
    BY <2>3, <2>4
<1>2. CASE PwStop
  <2>1. /\ pwResult' \in [on : BOOLEAN, onWrites : BOOLEAN, off : BOOLEAN, powered : BOOLEAN, returnedOff : BOOLEAN,
                          recovery : BOOLEAN]
        /\ pwResult'.on = pwResult.on /\ pwResult.onWrites /\ pwResult.on
    BY <1>0, <1>2 DEF PwStop, PwHonestInv, PwHonest, PwFresh
  <2>2. CASE pwPass' = pwPass /\ pwResult'.recovery = TRUE
    BY <1>0, <2>1, <2>2 DEF PwHonestInv, PwHonest, PwFields, PwFresh, PwOnHolds, PwOffHolds, PwRecoveryHonest
  <2>3. CASE pwPass' = [PwNoPass EXCEPT !.name = "off", !.steps = PwOffSteps]
    <3>1. pwPass'.name = "off" /\ pwPass'.steps = PwOffSteps /\ pwPass'.writes = FALSE /\ pwPass'.failed = FALSE
      BY <2>3 DEF PwNoPass
    <3>2. Len(PwOffSteps) = 7
      BY DEF PwOffSteps
    <3>3. PwFields'
      BY <1>0, <2>1, <3>1 DEF PwHonestInv, PwHonest, PwFields
    <3>4. PwFresh' /\ PwOnHolds' /\ PwRecoveryHonest'
      BY <2>1, <3>1 DEF PwFresh, PwOnHolds, PwRecoveryHonest
    <3>5. PwOffHolds'
      BY <3>1, <3>2 DEF PwOffHolds
    <3> QED
      BY <3>3, <3>4, <3>5 DEF PwHonest
  <2> QED
    BY <1>0, <1>2, <2>2, <2>3 DEF PwStop
<1> QED
  BY <1>1, <1>2

\* A step of the pass that powers on, carried out or not.
LEMMA PwOnStepHonest ==
  ASSUME PwHonestInv, PwStep \/ PwStepFails, pwPass.name = "on"
  PROVE  PwHonest'
<1>1. PICK step : step = Head(pwPass.steps)
  OBVIOUS
<1>2. PICK S : S = PwRising \cup {"strobeOn"}
  OBVIOUS
<1>3. /\ pwPass.steps \in Seq(S) /\ pwPass.steps # <<>> /\ ~pwPass.failed /\ UNCHANGED <<pwBus, pwResult>>
      /\ PwTypes /\ PwFields /\ PwOnHolds
  BY <1>2 DEF PwHonestInv, PwHonest, PwInv, PwOnTrue, PwOnRest, PwStep, PwStepFails, PwRunning
<1>4. step \in S /\ step \notin {"look", "sleep", "radioDown", "strobeOff"} /\ step = pwPass.steps[1] /\ 1 \in 1..Len(pwPass.steps)
  BY <1>1, <1>2, <1>3, PwTail DEF PwRising
<1>5. PICK d : d = PwEffect(step, pwDevice)
  OBVIOUS
<1>e. /\ (step = "strobeOn" => d.mac = "rising") /\ (step # "strobeOn" => d.mac = pwDevice.mac)
      /\ (step \in PwReads => d = pwDevice)
  <2>1. step \in PwReads => d = pwDevice
    BY <1>5 DEF PwEffect, PwReads
  <2>2. step \notin {"strobeOn", "strobeOff"} => d.mac = pwDevice.mac
    BY <1>3, <1>5, PwEffectOn
  <2>3. step = "strobeOn" => d.mac = "rising"
    BY <1>3, <1>5, PwEffectOn
  <2> QED
    BY <1>4, <2>1, <2>2, <2>3
<1>6. /\ d.sleep \in BOOLEAN /\ d.radio \in BOOLEAN /\ d.isolated \in BOOLEAN /\ d.functions \in BOOLEAN
      /\ d.mac \in {"off", "rising", "on"}
  <2>1. d.mac \in {"off", "rising", "on"}
    BY <1>3, <1>e DEF PwOnHolds
  <2> QED
    BY <1>3, <1>5, <2>1, PwEffectTyped
<1>7. CASE PwStep
  <2>1. /\ pwDevice' = d /\ PwAnswers(step, pwDevice)
        /\ pwPass' = [pwPass EXCEPT !.steps = Tail(pwPass.steps), !.writes = @ \/ step \notin PwReads,
                                    !.owned = @ \/ step = "openMask"]
    BY <1>1, <1>4, <1>5, <1>7 DEF PwStep, PwAfter
  <2>2. /\ pwPass'.name = "on" /\ pwPass'.steps = Tail(pwPass.steps) /\ pwPass'.failed = pwPass.failed
        /\ pwPass'.writes = (pwPass.writes \/ step \notin PwReads)
    BY <1>3, <2>1 DEF PwTypes
  <2>3. ~pwDevice'.sleep \/ PwHas(Tail(pwPass.steps), "wake")
    <3>1. CASE step = "wake"
      BY <1>3, <1>5, <2>1, <3>1, PwEffectOn
    <3>2. CASE step # "wake"
      BY <1>1, <1>3, <1>4, <1>5, <2>1, <3>2, PwEffectOn, PwHasTail DEF PwOnHolds
    <3> QED
      BY <3>1, <3>2
  <2>4. pwDevice'.radio \/ PwHas(Tail(pwPass.steps), "radioUp")
    <3>1. CASE step = "radioUp"
      BY <1>3, <1>5, <2>1, <3>1, PwEffectOn
    <3>2. CASE step # "radioUp"
      BY <1>1, <1>3, <1>4, <1>5, <2>1, <3>2, PwEffectOn, PwHasTail DEF PwOnHolds
    <3> QED
      BY <3>1, <3>2
  <2>5. ~pwDevice'.isolated \/ PwHas(Tail(pwPass.steps), "isolation")
    <3>1. CASE step = "isolation"
      BY <1>3, <1>5, <2>1, <3>1, PwEffectOn
    <3>2. CASE step # "isolation"
      BY <1>1, <1>3, <1>4, <1>5, <2>1, <3>2, PwEffectOn, PwHasTail DEF PwOnHolds
    <3> QED
      BY <3>1, <3>2
  <2>6. pwDevice'.functions \/ PwHas(Tail(pwPass.steps), "functions")
    <3>1. CASE step = "functions"
      BY <1>3, <1>5, <2>1, <3>1, PwEffectOn
    <3>2. CASE step # "functions"
      BY <1>1, <1>3, <1>4, <1>5, <2>1, <3>2, PwEffectOn, PwHasTail DEF PwOnHolds
    <3> QED
      BY <3>1, <3>2
  <2>7. pwDevice'.mac = "on" \/ PwHas(Tail(pwPass.steps), "confirmOn")
    <3>1. CASE step = "confirmOn"
      <4>1. pwDevice.mac = "on"
        BY <2>1, <3>1 DEF PwAnswers
      <4> QED
        BY <1>e, <2>1, <3>1, <4>1
    <3>2. CASE step # "confirmOn"
      <4>1. step = "strobeOn" => pwDevice.mac = "off"
        BY <1>3, <1>4 DEF PwHonestInv, PwInv, PwOnTrue
      <4>2. pwDevice'.mac # "on" => pwDevice.mac # "on"
        BY <1>e, <2>1, <4>1
      <4>3. pwDevice.mac # "on" => PwHas(pwPass.steps, "confirmOn")
        BY <1>3 DEF PwOnHolds
      <4> QED
        BY <1>1, <1>3, <3>2, <4>2, <4>3, PwHasTail
    <3> QED
      BY <3>1, <3>2
  <2>8. ~pwPass'.writes => PwWholeOff'
    <3>1. ~pwPass'.writes => ~pwPass.writes /\ step \in PwReads
      BY <2>2
    <3>2. step \in PwReads => pwDevice' = pwDevice
      BY <1>e, <2>1
    <3> QED
      BY <1>3, <3>1, <3>2 DEF PwOnHolds, PwWholeOff
  <2>9. PwOnHolds'
    BY <1>6, <2>1, <2>2, <2>3, <2>4, <2>5, <2>6, <2>7, <2>8 DEF PwOnHolds
  <2>10. PwFields'
    BY <1>3, <1>6, <2>1, <2>2 DEF PwFields
  <2> QED
    BY <1>3, <2>2, <2>9, <2>10 DEF PwHonestInv, PwHonest, PwFresh, PwOffHolds, PwRecoveryHonest
<1>8. CASE PwStepFails
  <2>1. PICK issued \in BOOLEAN, taken \in BOOLEAN :
          /\ taken => issued
          /\ pwDevice' = IF taken THEN d ELSE pwDevice
          /\ pwPass' = [pwPass EXCEPT !.failed = TRUE, !.writes = @ \/ issued,
                                      !.owned = @ \/ (issued /\ step = "openMask")]
    BY <1>1, <1>5, <1>8 DEF PwStepFails
  <2>2. pwPass'.name = "on" /\ pwPass'.failed = TRUE /\ pwPass'.writes = (pwPass.writes \/ issued)
    BY <1>3, <2>1 DEF PwTypes
  <2>3. CASE taken
    <3>1. pwDevice' = d /\ pwPass'.writes = TRUE
      BY <2>1, <2>2, <2>3
    <3> QED
      BY <1>3, <1>6, <2>2, <3>1 DEF PwHonestInv, PwHonest, PwFields, PwFresh, PwOnHolds, PwOffHolds, PwRecoveryHonest
  <2>4. CASE ~taken
    <3>1. pwDevice' = pwDevice /\ pwPass'.writes \in BOOLEAN /\ (~pwPass'.writes => ~pwPass.writes)
      BY <1>3, <2>1, <2>2, <2>4 DEF PwFields
    <3> QED
      BY <1>3, <2>2, <3>1
      DEF PwHonestInv, PwHonest, PwFields, PwFresh, PwOnHolds, PwOffHolds, PwRecoveryHonest, PwWholeOff
  <2> QED
    BY <2>3, <2>4
<1> QED
  BY <1>7, <1>8

\* A step of the pass that powers off, carried out or not.
LEMMA PwOffStepHonest ==
  ASSUME PwHonestInv, PwStep \/ PwStepFails, pwPass.name = "off"
  PROVE  PwHonest'
<1>1. PICK step : step = Head(pwPass.steps)
  OBVIOUS
<1>2. PICK S : S = {"look", "quiet", "radioDown", "strobeOff", "awaitOff", "sleep", "confirmOff", "notify"}
  OBVIOUS
<1>3. /\ pwPass.steps \in Seq(S) /\ pwPass.steps # <<>> /\ ~pwPass.failed /\ UNCHANGED <<pwBus, pwResult>>
      /\ PwTypes /\ PwFields /\ PwOffHolds /\ PwOffRest(pwPass.steps)
  BY <1>2 DEF PwHonestInv, PwHonest, PwInv, PwOffTrue, PwOffRest, PwStep, PwStepFails, PwRunning
<1>a. /\ step \in S /\ step = pwPass.steps[1] /\ Len(pwPass.steps) >= 1
      /\ Tail(pwPass.steps) \in Seq(S) /\ Len(Tail(pwPass.steps)) = Len(pwPass.steps) - 1
  BY <1>1, <1>3, PwTail
<1>b. PICK n : n = Len(pwPass.steps)
  OBVIOUS
<1>4. n \in 1..7 /\ 1 \in 1..n
  <2>1. n \in Nat /\ n <= 7 /\ n >= 1
    BY <1>3, <1>a, <1>b DEF PwOffRest
  <2> QED
    BY <2>1
<1>5. PICK d : d = PwEffect(step, pwDevice)
  OBVIOUS
<1>6. /\ d.sleep \in BOOLEAN /\ d.radio \in BOOLEAN /\ d.isolated \in BOOLEAN /\ d.functions \in BOOLEAN
  BY <1>3, <1>5, PwEffectTyped
<1>7. step = PwOffSteps[1 + 7 - n] \/ (n = 7 /\ step = "quiet")
  BY <1>3, <1>a, <1>b, <1>4 DEF PwOffRest
<1>8. /\ n = 1 => step = "notify"
      /\ n = 2 => step = "confirmOff"
      /\ n = 3 => step = "sleep"
      /\ n = 4 => step = "awaitOff"
      /\ n = 5 => step = "strobeOff"
      /\ n = 6 => step = "radioDown"
      /\ n = 7 => step \in {"look", "quiet"}
  <2>1. /\ PwOffSteps[1] = "look" /\ PwOffSteps[2] = "radioDown" /\ PwOffSteps[3] = "strobeOff"
        /\ PwOffSteps[4] = "awaitOff" /\ PwOffSteps[5] = "sleep" /\ PwOffSteps[6] = "confirmOff"
        /\ PwOffSteps[7] = "notify"
    BY DEF PwOffSteps
  <2> QED
    BY <1>7, <2>1
<1>9. CASE PwStep
  <2>1. /\ pwDevice' = d /\ PwAnswers(step, pwDevice)
        /\ \E owned : pwPass' = [pwPass EXCEPT !.steps = PwAfter(step, pwDevice), !.writes = @ \/ step \notin PwReads,
                                               !.owned = owned]
    BY <1>1, <1>5, <1>9 DEF PwStep
  <2>2. /\ pwPass'.name = "off" /\ pwPass'.steps = PwAfter(step, pwDevice) /\ pwPass'.failed = pwPass.failed
        /\ pwPass'.writes \in BOOLEAN
    BY <1>3, <2>1 DEF PwTypes, PwFields
  <2>k. PICK k : k = Len(pwPass'.steps)
    OBVIOUS
  <2>3. k \in 0..7 /\ (k = n - 1 \/ (n = 7 /\ k = 7))
    <3>1. CASE step = "look" /\ pwDevice.mac = "on"
      <4>1. n = 7
        BY <1>4, <1>8, <3>1
      <4>2. PICK q, rest : q = <<"quiet">> /\ rest = Tail(pwPass.steps)
        OBVIOUS
      <4>3. pwPass'.steps = q \o rest
        BY <2>2, <3>1, <4>2 DEF PwAfter
      <4>4. q \in Seq(S) /\ Len(q) = 1
        BY <1>2, <4>2
      <4>5. rest \in Seq(S) /\ Len(rest) = n - 1
        BY <1>a, <1>b, <4>2
      <4>6. Len(q \o rest) = Len(q) + Len(rest)
        BY <4>4, <4>5, ConcatProperties, Zenon
      <4>7. k = 1 + (n - 1)
        BY <2>k, <4>3, <4>4, <4>5, <4>6
      <4> QED
        BY <4>1, <4>7
    <3>2. CASE ~(step = "look" /\ pwDevice.mac = "on")
      <4>1. pwPass'.steps = Tail(pwPass.steps)
        BY <2>2, <3>2 DEF PwAfter
      <4> QED
        BY <1>a, <1>b, <1>4, <2>k, <4>1
    <3> QED
      BY <3>1, <3>2
  <2>4. k <= 5 => ~d.radio /\ d.isolated
    <3>1. CASE step = "radioDown"
      BY <1>3, <1>5, <3>1, PwEffectOn
    <3>2. CASE step # "radioDown" /\ k <= 5
      <4>1. n <= 5 /\ step \notin {"radioUp", "isolation"}
        BY <1>2, <1>a, <1>4, <1>8, <2>3, <3>2
      <4>2. d.radio = pwDevice.radio /\ d.isolated = pwDevice.isolated
        BY <1>3, <1>5, <3>2, <4>1, PwEffectOn
      <4> QED
        BY <1>3, <1>b, <4>1, <4>2 DEF PwOffHolds
    <3> QED
      BY <3>1, <3>2
  <2>5. k <= 2 => d.sleep
    <3>1. CASE step = "sleep"
      BY <1>3, <1>5, <3>1, PwEffectOn
    <3>2. CASE step # "sleep" /\ k <= 2
      <4>1. n <= 2 /\ step # "wake"
        BY <1>2, <1>a, <1>4, <1>8, <2>3, <3>2
      <4>2. d.sleep = pwDevice.sleep
        BY <1>3, <1>5, <3>2, <4>1, PwEffectOn
      <4> QED
        BY <1>3, <1>b, <4>1, <4>2 DEF PwOffHolds
    <3> QED
      BY <3>1, <3>2
  <2>6. k <= 1 => d.mac = "off"
    <3>1. SUFFICES ASSUME k <= 1 PROVE d.mac = "off"
      OBVIOUS
    <3>2. n \in {1, 2} /\ step \in {"confirmOff", "notify"}
      BY <1>4, <1>8, <2>3, <3>1
    <3>3. d.mac = pwDevice.mac
      BY <1>5, <3>2 DEF PwEffect
    <3>4. CASE step = "confirmOff"
      BY <2>1, <3>3, <3>4 DEF PwAnswers
    <3>5. CASE step = "notify"
      <4>1. n <= 1
        BY <1>8, <3>2, <3>5
      <4> QED
        BY <1>3, <1>b, <3>3, <4>1 DEF PwOffHolds
    <3> QED
      BY <3>2, <3>4, <3>5
  <2>7. PwOffHolds' /\ PwFields'
    BY <1>3, <1>6, <2>1, <2>2, <2>k, <2>4, <2>5, <2>6 DEF PwOffHolds, PwFields
  <2> QED
    BY <1>3, <2>2, <2>7 DEF PwHonestInv, PwHonest, PwFresh, PwOnHolds, PwRecoveryHonest
<1>10. CASE PwStepFails
  <2>1. PICK issued \in BOOLEAN, taken \in BOOLEAN :
          /\ pwDevice' = IF taken THEN d ELSE pwDevice
          /\ pwPass' = [pwPass EXCEPT !.failed = TRUE, !.writes = @ \/ issued,
                                      !.owned = @ \/ (issued /\ step = "openMask")]
    BY <1>1, <1>5, <1>10 DEF PwStepFails
  <2>2. pwPass'.name = "off" /\ pwPass'.failed = TRUE /\ pwPass'.writes \in BOOLEAN
    BY <1>3, <2>1 DEF PwTypes, PwFields
  <2>3. pwDevice' = d \/ pwDevice' = pwDevice
    BY <2>1
  <2>4. PwFields'
    BY <1>3, <1>6, <2>2, <2>3 DEF PwFields
  <2> QED
    BY <1>3, <2>2, <2>4 DEF PwHonestInv, PwHonest, PwFresh, PwOnHolds, PwOffHolds, PwRecoveryHonest
<1> QED
  BY <1>9, <1>10

\* The end of a pass.
LEMMA PwFinishHonest ==
  ASSUME PwHonestInv, PwFinish
  PROVE  PwHonest'
<1>1. PICK works \in BOOLEAN, late \in BOOLEAN :
        LET closed == PwClosed(works)
            complete == ~pwPass.failed /\ closed /\ ~late
            on == pwPass.name = "on" IN
          /\ \E m \in PwMaskAfter(works) : pwDevice' = [pwDevice EXCEPT !.mask = m]
          /\ pwResult' = [pwResult EXCEPT !.onWrites = IF on THEN pwPass.writes ELSE @,
                            !.powered = IF on THEN complete ELSE @ /\ ~complete,
                            !.returnedOff = ~on /\ complete,
                            !.recovery = PwRecovery(on, complete, closed)]
  BY DEF PwFinish
<1>2. PICK closed \in BOOLEAN, complete \in BOOLEAN, on \in BOOLEAN :
        closed = PwClosed(works) /\ complete = (~pwPass.failed /\ closed /\ ~late) /\ on = (pwPass.name = "on")
  BY DEF PwClosed
<1>3. PICK m \in PwMaskAfter(works) : pwDevice' = [pwDevice EXCEPT !.mask = m]
  BY <1>1
<1>4. /\ pwPass' = PwNoPass /\ pwPass.name # "none" /\ PwTypes /\ PwFields /\ PwFresh /\ PwOnHolds /\ PwOffHolds
      /\ (pwPass.failed \/ pwPass.steps = <<>>)
  BY DEF PwFinish, PwHonestInv, PwHonest, PwInv
<1>5. /\ pwDevice'.radio = pwDevice.radio /\ pwDevice'.isolated = pwDevice.isolated
      /\ pwDevice'.functions = pwDevice.functions /\ pwDevice'.sleep = pwDevice.sleep
      /\ pwDevice'.mac = pwDevice.mac /\ pwDevice'.mask = m
  BY <1>3, <1>4 DEF PwTypes
<1>6. closed => m = "closed"
  BY <1>2, <1>3 DEF PwMaskAfter
<1>7. /\ pwResult' \in [on : BOOLEAN, onWrites : BOOLEAN, off : BOOLEAN, powered : BOOLEAN, returnedOff : BOOLEAN,
                        recovery : BOOLEAN]
      /\ pwResult'.on = pwResult.on /\ (on => pwResult'.onWrites = pwPass.writes)
      /\ (on => pwResult'.powered = complete) /\ (~on /\ complete => pwResult'.powered = FALSE)
      /\ pwResult'.returnedOff = (~on /\ complete) /\ pwResult'.recovery = PwRecovery(on, complete, closed)
  <2>1. PICK w, o, r, n :
          /\ pwResult' = [pwResult EXCEPT !.onWrites = w, !.powered = o, !.returnedOff = r, !.recovery = n]
          /\ w = (IF on THEN pwPass.writes ELSE pwResult.onWrites)
          /\ o = (IF on THEN complete ELSE pwResult.powered /\ ~complete)
          /\ r = (~on /\ complete) /\ n = PwRecovery(on, complete, closed)
    BY <1>1, <1>2
  <2>2. w \in BOOLEAN /\ o \in BOOLEAN /\ r \in BOOLEAN /\ n \in BOOLEAN
    BY <1>4, <2>1 DEF PwFields, PwRecovery
  <2>3. /\ pwResult' \in [on : BOOLEAN, onWrites : BOOLEAN, off : BOOLEAN, powered : BOOLEAN, returnedOff : BOOLEAN,
                          recovery : BOOLEAN]
        /\ pwResult'.on = pwResult.on /\ pwResult'.onWrites = w /\ pwResult'.powered = o
        /\ pwResult'.returnedOff = r /\ pwResult'.recovery = n
    <3>1. pwResult' = [pwResult EXCEPT !.onWrites = w, !.powered = o, !.returnedOff = r, !.recovery = n]
      BY <2>1
    <3>2. pwResult \in [on : BOOLEAN, onWrites : BOOLEAN, off : BOOLEAN, powered : BOOLEAN, returnedOff : BOOLEAN,
                       recovery : BOOLEAN]
      BY <1>4 DEF PwFields
    <3> QED
      BY <2>2, <3>1, <3>2
  <2>4. (on => w = pwPass.writes) /\ (on => o = complete) /\ (~on /\ complete => o = FALSE)
    BY <2>1
  <2> QED
    BY <2>1, <2>3, <2>4, Zenon
<1>8. PwFields' /\ PwFresh' /\ PwOnHolds' /\ PwOffHolds'
  BY <1>4, <1>5, <1>7 DEF PwFields, PwFresh, PwOnHolds, PwOffHolds, PwNoPass
<1>9. PwRecoveryHonest'
  <2>1. CASE on /\ complete
    <3>1. pwPass.name = "on" /\ ~pwPass.failed /\ Len(pwPass.steps) = 0
      BY <1>2, <1>4, <2>1
    <3>2. \A x : ~PwHas(pwPass.steps, x)
      BY <3>1 DEF PwHas
    <3>3. PwWholeOn
      BY <1>4, <3>1, <3>2 DEF PwOnHolds, PwWholeOn
    <3> QED
      BY <1>2, <1>5, <1>6, <1>7, <2>1, <3>3 DEF PwRecoveryHonest, PwWholeOn
  <2>2. CASE on /\ ~complete
    <3>1. pwPass.name = "on" /\ (~pwResult'.recovery => ~pwPass.writes /\ closed)
      BY <1>2, <1>7, <2>2 DEF PwRecovery
    <3>2. ~pwResult'.recovery => PwWholeOff
      BY <1>4, <3>1 DEF PwOnHolds
    <3> QED
      BY <1>5, <1>6, <1>7, <2>2, <3>1, <3>2 DEF PwRecoveryHonest, PwWholeOff
  <2>3. CASE ~on /\ complete
    <3>1. pwPass.name = "off" /\ ~pwPass.failed /\ Len(pwPass.steps) = 0
      BY <1>2, <1>4, <2>3 DEF PwTypes
    <3>2. PwWholeOff
      BY <1>4, <3>1 DEF PwOffHolds, PwWholeOff
    <3> QED
      BY <1>2, <1>5, <1>6, <1>7, <2>3, <3>2 DEF PwRecoveryHonest, PwWholeOff
  <2>4. CASE ~on /\ ~complete
    BY <1>7, <2>4 DEF PwRecoveryHonest, PwRecovery
  <2> QED
    BY <2>1, <2>2, <2>3, <2>4
<1> QED
  BY <1>8, <1>9 DEF PwHonest

\* The device, its owner, and other holders of the registers.
LEMMA PwDeviceHonest ==
  ASSUME PwHonestInv, PwSupplySettles \/ PwOwnerRuns \/ PwEnginesRest \/ PwGone \/ PwOtherOpens \/ UNCHANGED pwVars
  PROVE  PwHonest'
<1>0. UNCHANGED <<pwPass, pwResult>> /\ PwTypes
  BY DEF PwSupplySettles, PwOwnerRuns, PwEnginesRest, PwGone, PwOtherOpens, pwVars, PwHonestInv, PwInv
<1>1. CASE PwSupplySettles
  <2>1. \/ pwDevice.mac = "rising" /\ pwDevice' = [pwDevice EXCEPT !.mac = "on"]
        \/ pwDevice.mac = "falling" /\ pwDevice' = [pwDevice EXCEPT !.mac = "off", !.functions = FALSE]
    BY <1>1 DEF PwSupplySettles
  <2>2. /\ pwDevice'.radio = pwDevice.radio /\ pwDevice'.isolated = pwDevice.isolated /\ pwDevice'.sleep = pwDevice.sleep
        /\ (pwDevice'.functions = pwDevice.functions \/ (pwDevice.mac = "falling" /\ pwDevice'.functions = FALSE))
        /\ pwDevice.mac \in {"rising", "falling"} /\ pwDevice'.mac \in {"on", "off"}
        /\ (pwDevice.mac = "rising" => pwDevice'.mac = "on")
    BY <1>0, <2>1 DEF PwTypes
  <2>3. PwFields' /\ PwFresh'
    BY <1>0, <2>2 DEF PwHonestInv, PwHonest, PwFields, PwFresh, PwWholeOff
  <2>4. PwOnHolds' /\ PwOffHolds' /\ PwRecoveryHonest'
    BY <1>0, <2>2
    DEF PwHonestInv, PwHonest, PwFields, PwOnHolds, PwOffHolds, PwRecoveryHonest, PwWholeOff, PwWholeOn
  <2> QED
    BY <2>3, <2>4 DEF PwHonest
<1>2. CASE PwOwnerRuns \/ PwEnginesRest \/ PwGone \/ PwOtherOpens \/ UNCHANGED pwVars
  <2>1. /\ pwDevice'.radio = pwDevice.radio /\ pwDevice'.isolated = pwDevice.isolated /\ pwDevice'.sleep = pwDevice.sleep
        /\ pwDevice'.functions = pwDevice.functions /\ pwDevice'.mac = pwDevice.mac
        /\ (pwDevice'.mask = pwDevice.mask \/ pwDevice'.mask = "other")
    BY <1>0, <1>2 DEF PwOwnerRuns, PwEnginesRest, PwGone, PwOtherOpens, pwVars, PwTypes
  <2> QED
    BY <1>0, <2>1
    DEF PwHonestInv, PwHonest, PwFields, PwFresh, PwOnHolds, PwOffHolds, PwRecoveryHonest, PwWholeOff, PwWholeOn
<1> QED
  BY <1>1, <1>2

\* Every step of the pair of passes.
LEMMA PwHonestStep ==
  ASSUME PwHonestInv, PwNext \/ UNCHANGED pwVars
  PROVE  PwHonestInv'
<1>1. PwInv'
  BY PwMoves DEF PwHonestInv
<1>2. ASSUME PwStep \/ PwStepFails PROVE PwHonest'
  <2>1. pwPass.name \in {"on", "off"}
    BY <1>2 DEF PwStep, PwStepFails, PwRunning, PwHonestInv, PwInv, PwTypes
  <2> QED
    BY <1>2, <2>1, PwOnStepHonest, PwOffStepHonest
<1>3. PwHonest'
  BY <1>2, PwBeginsHonest, PwFinishHonest, PwDeviceHonest DEF PwNext
<1> QED
  BY <1>1, <1>3 DEF PwHonestInv

\* The device is off at first.
LEMMA PwHonestStarts ==
  ASSUME PwInit
  PROVE  PwHonestInv
<1>1. PICK m \in {"closed", "other"} : pwDevice = PwOffDevice(m)
  BY DEF PwInit
<1>2. /\ pwDevice.mac = "off" /\ pwDevice.radio = FALSE /\ pwDevice.isolated = TRUE /\ pwDevice.functions = FALSE
      /\ pwDevice.sleep = TRUE /\ pwDevice.mask = m
  BY <1>1 DEF PwOffDevice
<1>3. /\ pwPass.name = "none" /\ pwPass.writes = FALSE
      /\ pwResult \in [on : BOOLEAN, onWrites : BOOLEAN, off : BOOLEAN, powered : BOOLEAN, returnedOff : BOOLEAN,
                       recovery : BOOLEAN]
      /\ pwResult.onWrites = FALSE /\ pwResult.powered = FALSE /\ pwResult.recovery = FALSE
  BY DEF PwInit, PwNoPass
<1>4. PwHonest
  BY <1>2, <1>3 DEF PwHonest, PwFields, PwFresh, PwOnHolds, PwOffHolds, PwRecoveryHonest, PwWholeOff
<1> QED
  BY <1>4, PwStarts DEF PwHonestInv

----------------------------------------------------------------------------
(* Failures *)

\* What the invariant of the channel steps says of a step that failed.
LEMMA CtHoldSafe ==
  ASSUME CtSafeInv
  PROVE  CtHalfTunedIsHeld /\ CtLeaseAdopted
<1>1. CtHalfTunedIsHeld
  BY DEF CtSafeInv, CtHeld, CtHalfTunedIsHeld
<1>2. ctPc = "idle" => ctOwned = FALSE /\ ctIo.active = FALSE
  <2>1. ctIo.active \in BOOLEAN /\ ctOwned \in BOOLEAN
    BY DEF CtSafeInv, CtFlags
  <2>2. ctPc = "idle" => ~ctOwned /\ ~ctIo.active
    BY DEF CtSafeInv, CtHeld, CtAtRest
  <2> QED
    BY <2>1, <2>2, Zenon
<1>3. ctPc = "failed" => ctOwned = ctIo.active
  BY DEF CtSafeInv, CtHeld
<1> QED
  BY <1>1, <1>2, <1>3 DEF CtLeaseAdopted

\* The invariants of the parts that may fail half-way.
FailureInv ==
  /\ LkInv /\ PwHonestInv /\ MailInv /\ CtSafeInv /\ TpInv
  /\ SpWholeInv /\ PhResetKnown /\ PpAskedFresh /\ PpAllOrNothing /\ DpToldInv

\* A sequence that fails half-way says so and leaves what it could not undo marked or
\* held: the link's L1 state, a pass of power, the mailbox mask, the lease of a half
\* tuned channel, a power plan, a half seeded table, the reset that PHY programming
\* calls for, the probe's report, wherever the failure falls (writeConfig(), powerOn(),
\* powerOff(), restoreMask(), program(), seedTables(), clean-up of the probe).
THEOREM FailureAlwaysHonest == MCSpec => []FailureIsHonest
<1>1. MCInit => FailureInv
  <2>1. PhInit => PhResetKnown
    BY DEF PhInit, PhResetKnown
  <2>2. PpInit => PpAskedFresh /\ PpAllOrNothing
    BY DEF PpInit, PpAskedFresh, PpAllOrNothing
  <2> QED
    BY <2>1, <2>2, PartsStart, LkStarts, PwHonestStarts, MailStart, CtHoldStarts, TpStart,
       SpWholeStarts, DpTellsStarts DEF FailureInv
<1>2. FailureInv /\ [MCNext]_MCVars => FailureInv'
  BY PartsMove, LkKeeps, PwHonestStep, MailStep, CtHoldStep, TpStep, SpWholeStep, PhResetKeeps,
     PpKeeps, DpTellsStep DEF FailureInv
<1>3. FailureInv => FailureIsHonest
  BY LkSafe, MailSafe, TpSafe, DpTellsSafe, CtHoldSafe
     DEF FailureInv, PwHonestInv, PwHonest, SpWholeInv, FailureIsHonest
<1> QED
  BY <1>1, <1>2, <1>3, PTL DEF MCSpec
=============================================================================
