----------------------------- MODULE ChipSetup -----------------------------
\* The two objects that program the stopped device before its radio is used.
\*
\* MacInitialization: five one-shot stages that program the MAC of a stopped
\* device, over registers that answer with all ones once the device is gone, with
\* a fixed pattern while the clock of the CMAC block is gated, or that keep their
\* bits whatever is written.  A stage is a sequence of register accesses; only
\* some of them notice any of this.
EXTENDS Naturals, Sequences

CONSTANTS
    MiRetries,     \* readCmac's retries with the clocks forced on
    MiTimeMax      \* bound: the object's deadline, in steps of the clock

ASSUME MiAssumption == MiRetries \in Nat /\ MiTimeMax \in Nat

VARIABLES
    miStage,     \* result.stage, as an index of MiStages; 0 is idle
    miStep,      \* accesses of the stage made so far
    miReady,     \* stages whose ready flag is set
    miError,     \* result.error, the first one
    miDevice,    \* [answers, gated, stuck]: what the registers do
    miLanded,    \* writes that took effect, as <<stage, step>>
    miClock,     \* [now, begin, previous, started, cancelled]
    miUsed       \* a pattern of the gated block was taken for a register's value

miVars == <<miStage, miStep, miReady, miError, miDevice, miLanded, miClock, miUsed>>

MiStages == <<"radio", "system", "dmac", "cmac", "reports">>

\* What the accesses of each stage are: a look at the host's stopped DMA, plain
\* writes, reads and byte reads in the CMAC block, writes of an interrupt mask,
\* and the comparisons of 32-bit registers at which a stage is believed.
MiAccesses ==
    [radio   |-> <<"look", "write", "compare">>,
     system  |-> <<"look", "write">>,
     dmac    |-> <<"look", "write", "compare", "write">>,
     cmac    |-> <<"look", "cmacRead", "write">>,
     reports |-> <<"look", "mask", "write", "compare">>]

MiInit ==
    /\ miStage = 0 /\ miStep = 0 /\ miReady = {} /\ miError = "none"
    /\ miDevice \in [answers : {TRUE}, gated : BOOLEAN, stuck : BOOLEAN]
    /\ miLanded = {} /\ miUsed = FALSE
    /\ miClock = [now |-> 1, begin |-> 0, previous |-> 0, started |-> FALSE, cancelled |-> FALSE]

MiName == MiStages[miStage]

MiFails(error) == miError' = error /\ UNCHANGED <<miStep, miReady, miLanded, miUsed>>

\* check(): before every access.  The deadline runs from the first check of the
\* object, across all its stages.
MiBegun == IF miClock.started THEN miClock.begin ELSE miClock.now

MiChecked ==
    IF miClock.cancelled THEN "cancelled"
    ELSE IF miClock.started /\ miClock.now < miClock.previous THEN "clock"
    ELSE IF miClock.now > MiBegun + MiTimeMax THEN "timeout"
    ELSE "none"

MiTicked ==
    miClock' = [miClock EXCEPT !.started = TRUE, !.begin = MiBegun, !.previous = miClock.now]

\* enableRadio() to finishTrx(): each stage once, each after the one before it
\* is ready.
MiEnter ==
    /\ miError = "none" /\ miStage < Len(MiStages)
    /\ miStage > 0 => MiName \in miReady
    /\ miStage' = miStage + 1 /\ miStep' = 0
    /\ UNCHANGED <<miReady, miError, miDevice, miLanded, miClock, miUsed>>

\* Mutant: a word of all ones is taken for the register's value.
MiWordAny == TRUE

\* read32: a word of all ones is refused, and so is the pattern.
MiWord == miDevice.answers

\* Mutant: the mask that was written is not read back.
MiMaskAny == TRUE

\* write32 of an interrupt mask, which may hold all ones: it is read back, and
\* the bits the sequence clears and sets must have changed.
MiMask == miDevice.answers /\ ~miDevice.stuck

\* Mutant: only the byte asked for is read, and a byte is never the pattern.
MiCmacByte(tries) == "value"

\* readCmac: the aligned word tells the pattern of a gated block; the clocks are
\* forced on and the read repeated, tries being the retries it takes.  A device
\* that is gone answers with ones, which a byte read cannot tell.
MiCmac(tries) ==
    IF miDevice.answers /\ miDevice.gated /\ tries > MiRetries THEN "refused" ELSE "value"

\* A write to a device that is gone, or to a register that keeps its bits, is
\* lost in silence.
MiLands(kind) ==
    miLanded' = IF kind \in {"write", "mask"} /\ miDevice.answers /\ ~(kind = "mask" /\ miDevice.stuck)
                THEN miLanded \cup {<<miStage, miStep + 1>>} ELSE miLanded

\* Retries after which forcing the clocks opens the gate, one more than there are
\* when it never does.
MiOpens == IF miDevice.gated THEN 1 .. MiRetries + 1 ELSE {0}

\* One access of the stage, after check(); a poll gives up, a comparison differs
\* and the adapter refuses an access as it likes.
MiAccess ==
    /\ miError = "none" /\ miStage > 0 /\ miStep < Len(MiAccesses[MiName])
    /\ MiTicked
    /\ UNCHANGED miStage
    /\ IF MiChecked # "none" THEN MiFails(MiChecked) /\ UNCHANGED miDevice
       ELSE LET kind == MiAccesses[MiName][miStep + 1] IN
            \E tries \in IF kind = "cmacRead" THEN MiOpens ELSE {0}, refused \in BOOLEAN :
              LET failed == \/ refused
                            \/ kind \in {"look", "compare"} /\ ~MiWord
                            \/ kind = "mask" /\ ~MiMask
                            \/ kind = "cmacRead" /\ MiCmac(tries) = "refused"
              IN /\ miDevice' = [miDevice EXCEPT !.gated = @ /\ ~(kind = "cmacRead" /\ tries \in 1 .. MiRetries)]
                 /\ MiLands(kind)
                 /\ miUsed' = (miUsed \/ (kind = "cmacRead" /\ ~failed /\ miDevice.answers /\ tries > MiRetries))
                 /\ miStep' = miStep + 1
                 /\ miError' = IF failed THEN "read" ELSE "none"
                 /\ UNCHANGED miReady

\* The end of a stage: finished() and the flag, after one more check().
MiFinish ==
    /\ miError = "none" /\ miStage > 0 /\ miStep = Len(MiAccesses[MiName])
    /\ MiName \notin miReady
    /\ MiTicked
    /\ IF MiChecked # "none" THEN MiFails(MiChecked)
       ELSE miReady' = miReady \cup {MiName} /\ UNCHANGED <<miStep, miError, miLanded, miUsed>>
    /\ UNCHANGED <<miStage, miDevice>>

\* The device goes away, for good.
MiGone ==
    /\ miError = "none" /\ miDevice.answers
    /\ miDevice' = [miDevice EXCEPT !.answers = FALSE]
    /\ UNCHANGED <<miStage, miStep, miReady, miError, miLanded, miClock, miUsed>>

\* Time passes, or the clock is read lower than before.
MiTick ==
    /\ miError = "none" /\ miClock.now <= MiTimeMax + 1
    /\ miClock' \in {[miClock EXCEPT !.now = @ + 1], [miClock EXCEPT !.now = 0]}
    /\ UNCHANGED <<miStage, miStep, miReady, miError, miDevice, miLanded, miUsed>>

\* MacInitializationIo::cancel.
MiCancel ==
    /\ miError = "none" /\ ~miClock.cancelled
    /\ miClock' = [miClock EXCEPT !.cancelled = TRUE]
    /\ UNCHANGED <<miStage, miStep, miReady, miError, miDevice, miLanded, miUsed>>

MiNext == MiEnter \/ MiAccess \/ MiFinish \/ MiGone \/ MiTick \/ MiCancel

MiSpec == MiInit /\ [][MiNext]_miVars

\* The writes of all stages.
MiWrites ==
    {w \in (1 .. Len(MiStages)) \X (1 .. 4) :
        LET accesses == MiAccesses[MiStages[w[1]]]
        IN  w[2] <= Len(accesses) /\ accesses[w[2]] \in {"write", "mask"}}

\* trxReady means what the start of the rings takes it for: every write of every
\* stage reached the device, although a device that went away half way swallows
\* writes in silence and some stages end without reading anything back.
MiReadyWhole == "reports" \in miReady => MiWrites \subseteq miLanded

\* The pattern of a gated block is never taken for a register's value, in a byte
\* or half-word read either.
MiNoPattern == ~miUsed

-----------------------------------------------------------------------------
\* MacPhyInitialization: the PHY is programmed in five calls of the radio boot,
\* each once and in this order, under a guard that says the radio is still owned.
\* A field is read, written and read back.  Writes may be lost, the guard may
\* turn, the object may be cancelled, and the values read in one call (the gain
\* bases) are what a later call computes from.

VARIABLES
    phStage,     \* calls begun, as an index of PhStages
    phStep,      \* fields of the call done so far
    phDone,      \* calls whose flag is set
    phError,     \* result_.error, the first one
    phReset,     \* result_.requiresReset
    phField,     \* fields of the device that were written and took it
    phTouched,   \* a register of the device was accessed
    phOwned,     \* the guard's answer
    phCancelled, \* cancel() was called
    phBase,      \* the gain base read in beforeRfk
    phRadio      \* [base, cck]: the base the device has, CCK detection enabled

phVars == <<phStage, phStep, phDone, phError, phReset, phField, phTouched, phOwned,
            phCancelled, phBase, phRadio>>

PhStages == <<"powerUnit", "reset", "beforeRfk", "powerReference", "afterRfk">>

\* The kinds of steps of each call: update() of a field, the bracket around the
\* baseband reset, the crystal over the serial port, the gain bases, the
\* threshold of a detection that is off, and the fields computed from the bases.
PhSteps ==
    [powerUnit      |-> <<"update">>,
     reset          |-> <<"hold", "update", "unhold">>,
     beforeRfk      |-> <<"update", "base", "disable", "threshold", "crystal">>,
     powerReference |-> <<"update">>,
     afterRfk       |-> <<"fromBase", "update">>]

PhBases == {"default", "other"}

PhInit ==
    /\ phStage = 0 /\ phStep = 0 /\ phDone = {} /\ phError = "none" /\ phReset = FALSE
    /\ phField = {} /\ phTouched = FALSE /\ phOwned = TRUE /\ phCancelled = FALSE
    /\ phBase = "default"
    /\ phRadio \in [base : PhBases, cck : BOOLEAN]

PhName == PhStages[phStage]

\* Mutant: a refusal before the access counts as a call that did nothing.
PhFailsFresh(error) ==
    /\ phError' = error /\ phReset' = (phTouched /\ error # "ownership")

\* fail(): the first error stays; a device that was touched needs a reset.
PhFails(error) == phError' = error /\ phReset' = phTouched'

\* check() before every access: the guard, then cancellation.  A clock that goes
\* back and a deadline that passes end the access as one without an answer.
PhChecked ==
    IF ~phOwned THEN "ownership" ELSE IF phCancelled THEN "cancelled" ELSE "none"

\* powerUnit() to afterRfk(): each needs the flag of the one before.
\* receivePath() is the last call by another name.
PhEnter ==
    /\ phError = "none" /\ phStage < Len(PhStages)
    /\ phStage > 0 => PhName \in phDone
    /\ phStage' = phStage + 1 /\ phStep' = 0
    /\ UNCHANGED <<phDone, phField, phTouched, phOwned, phCancelled, phBase, phRadio>>
    /\ IF PhChecked = "none" THEN UNCHANGED <<phError, phReset>> ELSE PhFails(PhChecked)

\* beforeRfk() refuses calibration data and capabilities of different devices
\* before it touches anything.
PhRefused ==
    /\ phError = "none" /\ phStage > 0 /\ phStep = 0 /\ PhName = "beforeRfk"
    /\ PhName \notin phDone
    /\ UNCHANGED <<phStage, phStep, phDone, phField, phTouched, phOwned, phCancelled, phBase,
                   phRadio>>
    /\ PhFails("identity")

\* Mutant: update() does not read the field back.
PhHeldAny(kind, took) == TRUE

\* update(): the field is read back.  So is the crystal's register, over the port.
PhHeld(kind, took) == took

\* disabledCckThreshold(): the threshold may not hold what was written, as long
\* as the detection is off before and after.
PhThreshold == ~phRadio.cck

\* One step of the call: the accesses happen, each write may be lost, and the
\* guard is asked again after them.
PhAccess ==
    /\ phError = "none" /\ phStage > 0 /\ phStep < Len(PhSteps[PhName])
    /\ UNCHANGED <<phStage, phDone, phOwned, phCancelled>>
    /\ IF PhChecked # "none"
       THEN UNCHANGED <<phStep, phField, phTouched, phBase, phRadio>> /\ PhFails(PhChecked)
       ELSE LET kind == PhSteps[PhName][phStep + 1] IN
            \E took, answers \in BOOLEAN :
              LET right == took /\ (kind = "fromBase" => phBase = phRadio.base)
                  held  == CASE kind = "base" -> TRUE
                             [] kind = "threshold" -> PhThreshold
                             [] OTHER -> PhHeld(kind, took)
              IN /\ phTouched' = TRUE
                 /\ phField' = IF right THEN phField \cup {<<phStage, phStep + 1>>}
                               ELSE phField \ {<<phStage, phStep + 1>>}
                 /\ phRadio' = [phRadio EXCEPT !.cck = @ /\ ~(kind = "disable" /\ took)]
                 /\ phBase' = IF kind = "base" /\ answers THEN phRadio.base ELSE phBase
                 /\ phStep' = phStep + 1
                 /\ IF answers /\ held THEN UNCHANGED <<phError, phReset>> ELSE PhFails("readback")

\* The flag of a call, after its last check.
PhFinish ==
    /\ phError = "none" /\ phStage > 0 /\ phStep = Len(PhSteps[PhName]) /\ PhName \notin phDone
    /\ UNCHANGED <<phStage, phStep, phField, phTouched, phOwned, phCancelled, phBase, phRadio>>
    /\ IF PhChecked = "none"
       THEN phDone' = phDone \cup {PhName} /\ UNCHANGED <<phError, phReset>>
       ELSE UNCHANGED phDone /\ PhFails(PhChecked)

\* The radio's owner changes its mind, and stop() cancels.
PhGuard ==
    /\ phError = "none"
    /\ phOwned' = ~phOwned
    /\ UNCHANGED <<phStage, phStep, phDone, phError, phReset, phField, phTouched, phCancelled,
                   phBase, phRadio>>

PhCancel ==
    /\ phError = "none" /\ ~phCancelled
    /\ phCancelled' = TRUE
    /\ UNCHANGED <<phStage, phStep, phDone, phError, phReset, phField, phTouched, phOwned, phBase,
                   phRadio>>

PhNext == PhEnter \/ PhRefused \/ PhAccess \/ PhFinish \/ PhGuard \/ PhCancel

PhSpec == PhInit /\ [][PhNext]_phVars

\* afterRfkDone, on which the radio is taken into use, means that every field of
\* all five calls holds what was computed for this device; only the threshold of
\* a detection that is off may differ.
PhReadyWhole ==
    "afterRfk" \in phDone =>
        /\ \A s \in 1 .. Len(PhStages) : \A i \in 1 .. Len(PhSteps[PhStages[s]]) :
             PhSteps[PhStages[s]][i] \notin {"base", "threshold"} => <<s, i>> \in phField
        /\ <<3, 4>> \in phField \/ ~phRadio.cck

\* A PHY that was touched and not finished is reported as needing a reset,
\* whatever ended the call.
PhResetKnown == phError # "none" /\ phTouched => phReset

=============================================================================
