----------------------------- MODULE ChannelTune -----------------------------
(***************************************************************************)
(* The channel step of the radio sequence: channel::ChannelProgramming     *)
(* over rfk::MacRfkIo, under the calibration lease of MacRadioBoot.  One   *)
(* call of the work loop runs program(), programPower() and finish(); it   *)
(* sleeps and polls, so the lease can be lost and the firmware can open    *)
(* the scheduler between its accesses.  Every access may fail: cancelled,  *)
(* clock, time and operation bounds and bad reads are one outcome.  A      *)
(* register write may also be ignored by the device without an error.      *)
(* At the end, the power plan that programPower() writes.                  *)
(***************************************************************************)
EXTENDS Integers, FiniteSets, FiniteSetsExt

CONSTANT CtChannels

ASSUME CtChannelAssumption == CtChannels \subseteq Nat \ {0}

VARIABLES
    ctPc,       \* where the call is; "idle" between steps, "failed" for good
    ctTarget,   \* the channel to tune to
    ctLease,    \* the lease of the owner: ready, leaseConsumed, leaseEnded
    ctIo,       \* MacRfkIo: active_, leaseLost_, modified_
    ctOwned,    \* owned_
    ctResult,   \* channel::Result: error, stage, what is programmed, requiresReset
    ctHw,       \* receivers "on", "off", "mixed"; channel and power page, 0 when mixed
    ctOps,      \* result.operations is not zero
    ctTx        \* the scheduler transmits

ctVars == <<ctPc, ctTarget, ctLease, ctIo, ctOwned, ctResult, ctHw, ctOps, ctTx>>

CtInit ==
    /\ ctPc = "idle" /\ ctTarget = 0 /\ ctOwned = FALSE /\ ctOps = FALSE /\ ctTx = FALSE
    /\ ctLease = [ready |-> FALSE, consumed |-> FALSE, ended |-> FALSE]
    /\ ctIo = [active |-> FALSE, lost |-> FALSE, modified |-> FALSE]
    /\ ctResult = [error |-> FALSE, stage |-> "idle", channel |-> 0, registers |-> FALSE, power |-> FALSE,
                   receivers |-> FALSE, reset |-> FALSE]
    /\ ctHw = [rx |-> "on", channel |-> 0, power |-> 0]

-----------------------------------------------------------------------------
(* The owner's callbacks and MacRfkIo.                                     *)

\* leaseCheck(), as checkLease() latches it.
CtLeaseGood == ctLease.ready /\ ctLease.consumed /\ ~ctLease.ended
CtAccess == ctIo.active /\ ~ctIo.lost /\ CtLeaseGood

\* An access that finds the lease gone latches it.
CtLost(io) == [io EXCEPT !.lost = @ \/ ~CtLeaseGood]

\* fail(): the first error, and what it takes back.
CtFail(result, reset) ==
    [result EXCEPT !.error = TRUE, !.stage = "failed", !.registers = FALSE, !.power = FALSE, !.receivers = FALSE,
                   !.reset = reset]

\* MacRfkIo::end(kind, false).  recovery() proves nothing and leaseEnd() takes no
\* failure, so the native lease stays active whichever of them refuses.
CtEndFailedForgives(io) == [io EXCEPT !.active = FALSE, !.modified = FALSE]
CtEndFailed(io) == io

\* A call that fails ends in release(false), which reports a reset.
CtGiveUp(io) ==
    /\ ctPc' = "failed" /\ ctResult' = CtFail(ctResult, TRUE)
    /\ ctIo' = CtEndFailed(CtLost(io)) /\ ctOwned' = ctIo'.active
    /\ ctOps' = TRUE

\* An access that is refused, fails or finds something else than was written.
CtRefused(io) == CtGiveUp(io) /\ UNCHANGED <<ctTarget, ctLease, ctTx>>

CtProceeds(to) ==
    /\ CtAccess /\ ctPc' = to /\ ctIo' = [ctIo EXCEPT !.modified = TRUE] /\ ctOps' = TRUE
    /\ UNCHANGED <<ctTarget, ctLease, ctOwned, ctTx>>

-----------------------------------------------------------------------------
\* requestLease() and the acquisition, after a step that gave the last one back.
CtRequest(c) ==
    /\ ctPc = "idle" /\ ~ctIo.active /\ ~ctTx
    /\ ctTarget' = c /\ ctPc' = "program"
    /\ ctLease' = [ready |-> TRUE, consumed |-> FALSE, ended |-> FALSE]
    /\ UNCHANGED <<ctIo, ctOwned, ctResult, ctHw, ctOps, ctTx>>

CtProgram ==
    /\ ctPc = "program"
    /\ ~ctOwned /\ ~ctResult.error
    /\ LET began == [ctResult EXCEPT !.channel = ctTarget, !.stage = "programming", !.registers = FALSE,
                                     !.power = FALSE, !.receivers = FALSE]
       IN \/ ctResult' = began /\ ctPc' = "begin"
          \/ ctResult' = CtFail(began, ctOps) /\ ctPc' = "failed"
    /\ UNCHANGED <<ctTarget, ctLease, ctIo, ctOwned, ctHw, ctOps, ctTx>>

\* The lease that a failed begin() leaves behind is not adopted.
CtBeginForgets ==
    /\ ctPc = "begin"
    /\ \/ /\ ctPc' = "failed" /\ ctResult' = CtFail(ctResult, TRUE)
          /\ UNCHANGED <<ctLease, ctIo, ctOwned>>
       \/ /\ ctLease.ready /\ ~ctLease.consumed /\ ~ctLease.ended
          /\ ctLease' = [ctLease EXCEPT !.consumed = TRUE]
          /\ \/ /\ ctIo' = [ctIo EXCEPT !.active = TRUE] /\ ctOwned' = FALSE
                /\ ctPc' = "failed" /\ ctResult' = CtFail(ctResult, TRUE)
             \/ /\ ~ctTx /\ ctIo' = [ctIo EXCEPT !.active = TRUE, !.lost = FALSE] /\ ctOwned' = TRUE
                /\ ctPc' = "quiet" /\ ctResult' = ctResult
    /\ UNCHANGED <<ctTarget, ctHw, ctOps, ctTx>>

\* begin(): refused by the owner, or the preflight fails with the lease taken.
CtBegin ==
    /\ ctPc = "begin"
    /\ \/ /\ ctPc' = "failed" /\ ctResult' = CtFail(ctResult, TRUE)
          /\ UNCHANGED <<ctLease, ctIo, ctOwned>>
       \/ /\ ctLease.ready /\ ~ctLease.consumed /\ ~ctLease.ended
          /\ ctLease' = [ctLease EXCEPT !.consumed = TRUE]
          /\ \/ /\ ctIo' = CtEndFailed([ctIo EXCEPT !.active = TRUE]) /\ ctOwned' = ctIo'.active
                /\ ctPc' = "failed" /\ ctResult' = CtFail(ctResult, TRUE)
             \/ /\ ~ctTx /\ ctIo' = [ctIo EXCEPT !.active = TRUE, !.lost = FALSE] /\ ctOwned' = TRUE
                /\ ctPc' = "quiet" /\ ctResult' = ctResult
    /\ UNCHANGED <<ctTarget, ctHw, ctOps, ctTx>>

\* rtw8852b_set_channel_help(true): the receivers stop.
CtQuiet ==
    /\ ctPc = "quiet"
    /\ \/ CtProceeds("tune") /\ ctHw' \in {[ctHw EXCEPT !.rx = rx] : rx \in {"off", "mixed"}} /\ ctResult' = ctResult
       \/ CtRefused([ctIo EXCEPT !.modified = @ \/ CtAccess]) /\ ctHw' \in {[ctHw EXCEPT !.rx = rx] : rx \in {ctHw.rx, "mixed"}}

\* verifyQuiescent(), then rtw8852b_set_channel().
CtTune ==
    /\ ctPc = "tune"
    /\ \/ /\ ctHw.rx = "off" /\ CtProceeds("verify") /\ ctResult' = ctResult
          /\ ctHw' \in {[ctHw EXCEPT !.channel = c] : c \in {ctTarget, 0}}
       \/ CtRefused(ctIo) /\ ctHw' \in {ctHw} \cup (IF ctHw.rx = "off" THEN {[ctHw EXCEPT !.channel = 0]} ELSE {})

\* verify() ends program(): the lease stays, for programPower().
CtVerify ==
    /\ ctPc = "verify"
    /\ \/ /\ ctHw.channel = ctTarget /\ CtProceeds("power")
          /\ ctResult' = [ctResult EXCEPT !.registers = TRUE, !.stage = "prepared"]
       \/ CtRefused(ctIo)
    /\ ctHw' = ctHw

\* programPower(): the plan is built whole, and every write is read back with
\* the scheduler closed.
CtPower ==
    /\ ctPc = "power"
    /\ \/ /\ ~ctTx /\ ctHw.rx = "off" /\ CtProceeds("finish") /\ ctResult' = [ctResult EXCEPT !.power = TRUE]
          /\ ctHw' = [ctHw EXCEPT !.power = ctTarget]
       \/ CtRefused(ctIo) /\ ctHw' \in {ctHw, [ctHw EXCEPT !.power = 0]}

\* finish(): both are verified before rtw8852b_set_channel_help(false), which
\* may discard the power page.
CtFinish ==
    /\ ctPc = "finish"
    /\ \/ /\ ctHw.channel = ctTarget /\ ctHw.power = ctTarget /\ ~ctTx /\ CtProceeds("check") /\ ctResult' = ctResult
          /\ ctHw' \in [rx : {"on", "mixed"}, channel : {ctTarget}, power : {ctTarget, 0}]
       \/ CtRefused(ctIo) /\ ctHw' \in {ctHw, [ctHw EXCEPT !.rx = "mixed"]}

\* drain(), the receivers' readback and verifyPower() once more.
CtCheckReceiversOnly ==
    /\ ctPc = "check"
    /\ \/ ctHw.rx = "on" /\ ~ctTx /\ CtProceeds("end") /\ ctResult' = ctResult
       \/ CtRefused(ctIo)
    /\ ctHw' = ctHw

CtCheck ==
    /\ ctPc = "check"
    /\ \/ ctHw.rx = "on" /\ ctHw.power = ctTarget /\ ~ctTx /\ CtProceeds("end") /\ ctResult' = ctResult
       \/ CtRefused(ctIo)
    /\ ctHw' = ctHw

\* end(channel, true) up to the owner's leaseEnd().
CtEnd ==
    /\ ctPc = "end"
    /\ \/ /\ CtAccess /\ ~ctTx /\ ctPc' = "ended" /\ ctLease' = [ctLease EXCEPT !.ended = TRUE]
          /\ UNCHANGED <<ctTarget, ctIo, ctOwned, ctResult, ctOps, ctTx>>
       \/ CtRefused(ctIo)
    /\ ctHw' = ctHw

\* The last look at the scheduler needs no lease; then the step is complete.
CtEnded ==
    /\ ctPc = "ended"
    /\ \/ /\ ~ctTx /\ ctIo' = [ctIo EXCEPT !.active = FALSE, !.modified = FALSE] /\ ctOwned' = FALSE
          /\ ctResult' = [ctResult EXCEPT !.receivers = TRUE, !.stage = "complete"] /\ ctPc' = "restore"
       \/ /\ ctIo' = [ctIo EXCEPT !.modified = TRUE] /\ ctResult' = CtFail(ctResult, TRUE) /\ ctPc' = "failed"
          /\ ctOwned' = ctOwned
    /\ UNCHANGED <<ctTarget, ctLease, ctHw, ctOps, ctTx>>

\* finishLease() hands the lease back to Bluetooth.
CtFinishLease ==
    /\ ctPc = "restore" /\ ctLease.consumed /\ ctLease.ended /\ ~ctIo.active
    /\ ctPc' = "idle" /\ ctLease' = [ctLease EXCEPT !.ready = FALSE]
    /\ UNCHANGED <<ctTarget, ctIo, ctOwned, ctResult, ctHw, ctOps, ctTx>>

-----------------------------------------------------------------------------
\* The coordination fails, or the driver is stopped, under a running call.
CtLeaseGoes ==
    /\ ctLease.ready /\ ctPc \notin {"idle", "restore"} /\ ctLease' = [ctLease EXCEPT !.ready = FALSE]
    /\ UNCHANGED <<ctPc, ctTarget, ctIo, ctOwned, ctResult, ctHw, ctOps, ctTx>>

\* Nothing the driver asked for: the firmware schedules transmissions.
CtFirmwareOpens ==
    /\ ~ctTx /\ ctPc \notin {"idle", "restore", "failed"} /\ ctTx' = TRUE
    /\ UNCHANGED <<ctPc, ctTarget, ctLease, ctIo, ctOwned, ctResult, ctHw, ctOps>>

CtNext ==
    \/ \E c \in CtChannels : CtRequest(c)
    \/ CtProgram \/ CtBegin \/ CtQuiet \/ CtTune \/ CtVerify \/ CtPower \/ CtFinish \/ CtCheck
    \/ CtEnd \/ CtEnded \/ CtFinishLease
    \/ CtLeaseGoes \/ CtFirmwareOpens

-----------------------------------------------------------------------------
\* A step that reports itself complete leaves the receivers on the channel and
\* the power page that were asked for, with the scheduler closed: finish() looks
\* again after the receivers, whose release may discard the limits.
CtCompletedWhole ==
    [][ctResult'.stage = "complete" /\ ctResult.stage # "complete" =>
          ctHw' = [rx |-> "on", channel |-> ctTarget, power |-> ctTarget] /\ ~ctTx']_ctVars

\* After any failure past the first write the native lease is still active, so
\* that neither finishLease() gives Bluetooth the antenna nor stop() claims a
\* proven closure, and a reset is asked for.
CtHalfTunedIsHeld ==
    ctPc = "failed" /\ (ctIo.modified \/ ctHw.rx # "on" \/ ctHw.channel # ctHw.power) => ctIo.active /\ ctResult.reset

\* What the class believes it owns is what the adapter holds, also when begin()
\* fails with the owner's lease already taken: abort() can reach it.
CtLeaseAdopted == ctPc \in {"idle", "failed"} => ctOwned = ctIo.active

-----------------------------------------------------------------------------
(* The transmit power plan of a channel (TxPowerPlan.hpp): all the register *)
(* writes that limit the power, computed before the first of them is made,  *)
(* from the chip's tables and from the ceilings a policy answers channel by *)
(* channel.  Powers of the tables are quarters of a dBm, those of the       *)
(* policy and of the registers halves.                                      *)

VARIABLES ppChannel, \* the channel asked for: band, width (20/40/80 = 0/1/2), center, primary
          ppPolicy,  \* the policy, and the chip's entries for its domain and for the world
          ppState,   \* "asked", then "built" or "refused"
          ppWrites,  \* count_
          ppLimits   \* the limits in the pages: what each covers, and its value

ppVars == <<ppChannel, ppPolicy, ppState, ppWrites, ppLimits>>

PpCapacity == 64
PpNone == 99
PpUnknown == 64    \* no ceiling in -64..63

\* One channel of the band may have another ceiling than the rest, or none.
PpPolicies == [initial : BOOLEAN, epoch : 0..1, odd : {PpNone} \cup {-6, -4, -2, 0, 2, 4, 6},
               oddCeiling : {-20, PpUnknown}, domain : {0, 9, -9}, world : {7, -7}]

\* InitialChannelPolicy: the channels 1 to 11 of the 2.4 GHz band, while an epoch lives.
PpInitialQuery(epoch, band, ch) == IF epoch = 0 \/ band # 0 \/ ch \notin 1..11 THEN PpUnknown ELSE 0
PpInitialAllows(epoch, c) == epoch # 0 /\ c.band = 0 /\ c.width = 0 /\ c.center = c.primary /\ c.primary \in 1..11

PpQuery(p, center, band, ch) ==
    IF p.initial THEN PpInitialQuery(p.epoch, band, ch)
    ELSE IF ch - center = p.odd THEN p.oddCeiling ELSE 10

----------------------------------------------------------------------------
(* Channels                                                                *)

PpTwenty == [b \in 0..1 |->
    IF b = 0 THEN 1..14
    ELSE {ch \in 36..177 : \/ ch <= 64 /\ ch % 4 = 0
                           \/ ch \in 100..144 /\ ch % 4 = 0
                           \/ ch >= 149 /\ (ch - 149) % 4 = 0}]

PpCenters40 == {38, 46, 54, 62, 102, 110, 118, 126, 134, 142, 151, 159, 167, 175}
PpCenters80 == {42, 58, 106, 122, 138, 155, 171}

\* rfk::validChannel()
PpValidCenter(band, width, center) ==
    CASE band = 0 -> IF width = 0 THEN center \in 1..14 ELSE width = 1 /\ center \in 3..11
      [] band = 1 -> CASE width = 0 -> center \in PpTwenty[1]
                       [] width = 1 -> center \in PpCenters40
                       [] width = 2 -> center \in PpCenters80
                       [] OTHER -> FALSE
      [] OTHER -> FALSE

\* Mutant: the primary of a wide channel may lie anywhere near its centre.
PpValidNear(c) ==
    /\ PpValidCenter(c.band, c.width, c.center) /\ PpValidCenter(c.band, 0, c.primary)
    /\ c.primary - c.center \in IF c.width = 0 THEN {0} ELSE {-6, -2, 2, 6}

\* channel::validChannel()
PpValid(c) ==
    /\ PpValidCenter(c.band, c.width, c.center) /\ PpValidCenter(c.band, 0, c.primary)
    /\ c.primary - c.center \in CASE c.width = 0 -> {0} [] c.width = 1 -> {-2, 2} [] OTHER -> {-6, -2, 2, 6}
    /\ ~(c.width # 0 /\ c.band = 0 /\ c.primary = 14)

\* channelIndex(): where a channel's column is in the tables, -1 where there is none.
PpIndex(band, ch) ==
    CASE band = 0 /\ ch \in 1..14 -> ch - 1
      [] band = 1 /\ ch \in 36..64 /\ ch % 2 = 0 -> (ch - 36) \div 2
      [] band = 1 /\ ch \in 100..144 /\ ch % 2 = 0 -> (ch - 100) \div 2 + 15
      [] band = 1 /\ ch \in 149..177 /\ ch % 2 = 1 -> (ch - 149) \div 2 + 38
      [] OTHER -> -1

\* Every geometry under one policy, and the valid ones near the tables' edges under every policy.
PpGeometries ==
    {[band |-> b, width |-> w, center |-> c, primary |-> c + d] :
        b \in 0..2, w \in 0..3, c \in 7..178, d \in {0, 2, -6}}
PpEdges ==
    {c \in [band : 0..1, width : 0..2, center : 1..14 \cup {52, 54, 58, 173, 175, 177},
            primary : 1..14 \cup {52, 56, 60, 64, 173, 177}] : PpValid(c)}
PpUsual == [initial |-> FALSE, epoch |-> 1, odd |-> PpNone, oddCeiling |-> -20, domain |-> 9, world |-> 7]

PpInit ==
    /\ \/ ppChannel \in PpGeometries /\ ppPolicy = PpUsual
       \/ ppChannel \in PpEdges /\ ppPolicy \in PpPolicies
    /\ ppState = "asked" /\ ppWrites = 0 /\ ppLimits = {}

----------------------------------------------------------------------------
(* The limits                                                              *)

\* The rows of the limit page and of the resource-unit page: the width each is looked
\* up with and the channels looked up (the smaller value is taken of two).  The page
\* of a 5 GHz channel of 20 or 40 MHz has CCK rows too.
PpRow(width, at) == [width |-> width, at |-> at]
PpRows(c) ==
    LET subs == CASE c.width = 0 -> {0} [] c.width = 1 -> {-2, 2} [] OTHER -> {-6, -2, 2, 6}
    IN  {PpRow(0, {c.center + d}) : d \in subs}
        \cup {PpRow(0, {c.primary})}
        \cup (IF c.width < 2 THEN {PpRow(1, {c.center})} ELSE {})
        \cup (IF c.width = 2
              THEN {PpRow(1, {c.center - 4}), PpRow(1, {c.center + 4}), PpRow(2, {c.center}),
                    PpRow(1, {c.center - 4, c.center + 4})}
              ELSE {})

\* rfToMac(): halves of a dBm, rounded down.
\* Mutant: integer division of C++, which rounds a negative power up.
PpRfToMacPlain(v) == IF v >= 0 THEN v \div 2 ELSE -((-v) \div 2)
PpRfToMac(v) == IF v >= 0 THEN v \div 2 ELSE -((-v + 1) \div 2)

\* An entry of zero says nothing for the domain: the world's is used.
PpEntry == IF ppPolicy.domain = 0 THEN ppPolicy.world ELSE ppPolicy.domain

\* ceiling(), for a channel with a column in the tables.
PpCeiling(ch) == PpQuery(ppPolicy, ppChannel.center, ppChannel.band, ch)
PpKnown(row) == \A ch \in row.at : /\ PpIndex(ppChannel.band, ch) >= 0
                                   /\ row.width <= (IF ppChannel.band = 0 THEN 1 ELSE 3)
                                   /\ PpCeiling(ch) \in -64..63

PpLimit(row) == Min({Min({PpRfToMac(PpEntry), PpCeiling(ch)}) : ch \in row.at})

\* The reference powers, the powers by rate, their offsets, the filters of a 2.4 GHz
\* channel, the shape, and two pages of each kind.
PpCount(c) == 5 + 11 + 1 + (IF c.band = 0 THEN 8 ELSE 0) + 1 + 2 * 10 + 2 * 6

\* Mutant: the count is not reset when a lookup fails.
PpRefuseCounting(c) == ppState' = "refused" /\ ppWrites' = (IF PpValid(c) THEN 25 ELSE 0) /\ UNCHANGED ppLimits
PpRefuse(c) == ppState' = "refused" /\ ppWrites' = 0 /\ UNCHANGED ppLimits

\* build()
PpBuild ==
    /\ ppState = "asked"
    /\ LET good == /\ PpValid(ppChannel) /\ ppPolicy.epoch # 0
                   /\ \A row \in PpRows(ppChannel) : PpKnown(row)
                   /\ PpCount(ppChannel) <= PpCapacity
       IN  IF good
           THEN /\ ppState' = "built" /\ ppWrites' = PpCount(ppChannel)
                /\ ppLimits' = {[row |-> row, value |-> PpLimit(row)] : row \in PpRows(ppChannel)}
           ELSE PpRefuse(ppChannel)
    /\ UNCHANGED <<ppChannel, ppPolicy>>

PpNext == PpBuild

PpSpec == PpInit /\ [][PpNext]_ppVars

----------------------------------------------------------------------------
(* Properties                                                              *)

\* A channel as a block of the air: as many neighbouring 20 MHz channels of one run of
\* the band as its width says, the primary one of them; at 5 GHz the blocks of a run
\* do not overlap.
PpSpan(c) == IF c.width = 0 THEN {c.center} ELSE IF c.width = 1 THEN {c.center - 2, c.center + 2}
             ELSE {c.center - 6, c.center - 2, c.center + 2, c.center + 6}
PpRuns == {36..64, 100..144, 149..177}
PpIsBlock(c) ==
    /\ c.band \in 0..1 /\ c.width \in 0..(IF c.band = 0 THEN 1 ELSE 2)
    /\ c.primary \in PpSpan(c) /\ PpSpan(c) \subseteq PpTwenty[c.band]
    /\ c.band = 0 /\ c.width # 0 => 14 \notin PpSpan(c)
    /\ c.band = 1 => \E run \in PpRuns : /\ PpSpan(c) \subseteq run
                                         /\ (Min(PpSpan(c)) - Min(run)) % (4 * Cardinality(PpSpan(c))) = 0

\* A plan is built exactly for the channels that are such blocks and whose every lookup
\* the policy answers; with the driver's own policy for each channel it allows, and for
\* none that reaches outside the channels 1 to 11.
PpBuiltForBlocks ==
    /\ ppState = "built" => PpIsBlock(ppChannel)
    /\ ppState = "refused" => ~(/\ PpIsBlock(ppChannel) /\ ppPolicy.epoch # 0 /\ ~ppPolicy.initial
                                /\ (ppPolicy.odd = PpNone \/ ppPolicy.oddCeiling # PpUnknown))
    /\ ppPolicy.initial /\ ppState = "built" => ppChannel.band = 0 /\ PpSpan(ppChannel) \subseteq 1..11
    /\ ppState = "refused" => ~(ppPolicy.initial /\ PpInitialAllows(ppPolicy.epoch, ppChannel))

\* There is no part of a plan: a refused one has no write, a built one all of them,
\* within the room for them.
PpAllOrNothing ==
    /\ ppState = "refused" => ppWrites = 0 /\ ppLimits = {}
    /\ ppState = "built" => ppWrites = (IF ppChannel.band = 0 THEN 58 ELSE 50) /\ ppWrites <= PpCapacity

\* No limit lies above the chip's table, whatever its sign and with the rounding to
\* halves, or above the ceiling of a channel it is looked up for; and every 20 MHz
\* channel of the block has a limit of its own.
PpNeverAbove ==
    ppState = "built" =>
        /\ \A l \in ppLimits : /\ 2 * l.value <= PpEntry
                               /\ \A ch \in l.row.at : l.value <= PpCeiling(ch)
        /\ \A ch \in PpSpan(ppChannel) : \E l \in ppLimits : l.row = PpRow(0, {ch})
=============================================================================
