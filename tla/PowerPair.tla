------------------------------ MODULE PowerPair ------------------------------
(***************************************************************************)
(* DevicePower: one power-on pass and one power-off pass over a device     *)
(* that is owned exclusively.  A pass is a list of register steps; the     *)
(* first error is kept, every later step is skipped, and finish() closes   *)
(* the write mask over the power registers (PMC) that the pass may have    *)
(* left open.  result says whether the device is powered, returned to off, *)
(* or has to be recovered by other means.                                  *)
(***************************************************************************)
EXTENDS Naturals, Sequences

VARIABLES
    pwDevice,   \* mac supply, radio supplies, isolation, functions, sleep bit, PMC mask, DMA, interrupts
    pwBus,      \* the PCI function answers (present) and may master the bus
    pwPass,     \* the pass under way: its steps left, its error, its writes, pmcOwned
    pwResult    \* PowerResult

pwVars == <<pwDevice, pwBus, pwPass, pwResult>>

PwNoPass == [name |-> "none", steps |-> <<>>, failed |-> FALSE, writes |-> FALSE, owned |-> FALSE]
PwOffDevice(mask) == [mac |-> "off", radio |-> FALSE, isolated |-> TRUE, functions |-> FALSE, sleep |-> TRUE,
                      mask |-> mask, dma |-> "stopped", irq |-> FALSE]

PwInit ==
    /\ \E mask \in {"closed", "other"} : pwDevice = PwOffDevice(mask)
    /\ pwBus = [present |-> TRUE, master |-> FALSE]
    /\ pwPass = PwNoPass
    /\ pwResult = [on |-> FALSE, onWrites |-> FALSE, off |-> FALSE, powered |-> FALSE,
                   returnedOff |-> FALSE, recovery |-> FALSE]

-----------------------------------------------------------------------------
(* The passes.                                                             *)

PwMasked(step) == <<"openMask", step, "shutMask">>

\* rtw8852b_pwr_on_func and the confirmation and notice that follow; adjusted
\* holds when the fuses are read and carry no power trim, second for cut B.
PwOnSteps(adjusted, second) ==
    <<"wake", "regulators", "strobeOn", "awaitOn", "radioUp">> \o PwMasked("isolation")
    \o (IF adjusted THEN <<"voltage">> ELSE <<>>)
    \o (IF adjusted /\ second THEN PwMasked("voltage") ELSE <<>>)
    \o <<"functions", "confirmOn", "notify">>

\* rtw8852b_pwr_off_func between the look at the device and its confirmation.
PwOffSteps == <<"look", "radioDown", "strobeOff", "awaitOff", "sleep", "confirmOff", "notify">>

\* What a register step that is carried out does to the device.
PwEffect(step, d) ==
    CASE step = "wake"      -> [d EXCEPT !.sleep = FALSE]
      [] step = "strobeOn"  -> [d EXCEPT !.mac = "rising"]
      [] step = "radioUp"   -> [d EXCEPT !.radio = TRUE]
      [] step = "openMask"  -> [d EXCEPT !.mask = "ours"]
      [] step = "isolation" -> [d EXCEPT !.isolated = FALSE]
      [] step = "shutMask"  -> [d EXCEPT !.mask = "closed"]
      [] step = "functions" -> [d EXCEPT !.functions = TRUE]
      [] step = "radioDown" -> [d EXCEPT !.radio = FALSE, !.isolated = TRUE]
      [] step = "strobeOff" -> [d EXCEPT !.mac = IF d.mac = "on" THEN "falling" ELSE d.mac]
      [] step = "sleep"     -> [d EXCEPT !.sleep = TRUE]
      [] OTHER              -> d

PwReads == {"awaitOn", "confirmOn", "look", "quiet", "awaitOff", "confirmOff"}

\* A step that only reads goes on when the device answers what is wanted.
PwAnswers(step, d) ==
    CASE step = "awaitOn"    -> d.mac # "rising"
      [] step = "confirmOn"  -> d.mac = "on"
      [] step = "look"       -> d.mac \in {"on", "off"}
      [] step = "quiet"      -> d.dma = "stopped" /\ ~d.irq
      [] step = "awaitOff"   -> d.mac # "falling"
      [] step = "confirmOff" -> d.mac = "off" /\ d.sleep
      [] OTHER               -> TRUE

-----------------------------------------------------------------------------

\* check(): memory accesses on, bus mastering off.
PwBusUsable == pwBus.present /\ ~pwBus.master

\* start(): refused before the first write unless the supply is off and nobody
\* holds the mask open.
PwStart ==
    /\ pwPass.name = "none" /\ ~pwResult.on
    /\ pwResult' = [pwResult EXCEPT !.on = TRUE]
    /\ IF PwBusUsable /\ pwDevice.mac = "off" /\ pwDevice.mask = "closed"
       THEN \E adjusted, second \in BOOLEAN :
              pwPass' = [PwNoPass EXCEPT !.name = "on", !.steps = PwOnSteps(adjusted, second)]
       ELSE UNCHANGED pwPass
    /\ UNCHANGED <<pwDevice, pwBus>>

\* stop(): once, and only after a start() that wrote something.
PwStop ==
    /\ pwPass.name = "none" /\ pwResult.onWrites /\ ~pwResult.off
    /\ IF PwBusUsable
       THEN /\ pwPass' = [PwNoPass EXCEPT !.name = "off", !.steps = PwOffSteps]
            /\ pwResult' = [pwResult EXCEPT !.off = TRUE]
       ELSE /\ pwResult' = [pwResult EXCEPT !.off = TRUE, !.recovery = TRUE]
            /\ UNCHANGED pwPass
    /\ UNCHANGED <<pwDevice, pwBus>>

\* Mutant: a running supply is cut without a look at the DMA engines.
PwAfterUnasked(step, d) == Tail(pwPass.steps)
\* A supply that is up may be cut only after the engines and interrupts were seen quiet.
PwAfter(step, d) ==
    IF step = "look" /\ d.mac = "on" THEN <<"quiet">> \o Tail(pwPass.steps) ELSE Tail(pwPass.steps)

PwRunning == pwPass.name # "none" /\ pwPass.steps # <<>> /\ ~pwPass.failed

\* One step carried out, or answered as wanted.  Ownership of the mask is noted
\* before the write that opens it.
PwStep ==
    /\ PwRunning /\ PwBusUsable
    /\ LET step == Head(pwPass.steps) IN
         /\ PwAnswers(step, pwDevice)
         /\ pwDevice' = PwEffect(step, pwDevice)
         /\ pwPass' = [pwPass EXCEPT !.steps = PwAfter(step, pwDevice),
                                     !.writes = @ \/ step \notin PwReads,
                                     !.owned = @ \/ step = "openMask"]
    /\ UNCHANGED <<pwBus, pwResult>>

\* A step fails: cancelled or timed out before it, refused, not verified after it,
\* or not the answer wanted.
PwStepFails ==
    /\ PwRunning
    /\ LET step == Head(pwPass.steps)
           write == step \notin PwReads IN
         \E issued \in {FALSE, write /\ PwBusUsable} : \E taken \in {FALSE, issued} :
           /\ pwDevice' = IF taken THEN PwEffect(step, pwDevice) ELSE pwDevice
           /\ pwPass' = [pwPass EXCEPT !.failed = TRUE, !.writes = @ \/ issued,
                                       !.owned = @ \/ (issued /\ step = "openMask")]
    /\ UNCHANGED <<pwBus, pwResult>>

\* Mutant: the mask is closed whoever opened it.
PwMayCloseAny == TRUE
PwMayClose == pwPass.owned

\* closePmc(): past errors do not stop it, but another's mask does, and so does a
\* bus that does not answer; an access may fail (works is FALSE), before or after
\* the write took effect.
PwClosed(works) == works /\ PwBusUsable /\ (pwDevice.mask = "closed" \/ PwMayClose)
PwMaskAfter(works) ==
    IF PwClosed(works) THEN {"closed"}
    ELSE {pwDevice.mask} \cup (IF PwBusUsable /\ PwMayClose THEN {"closed"} ELSE {})

\* Mutant: only a failed step counts, not what it left behind.
PwRecoverySteps(on, complete, closed) == ~complete /\ pwPass.failed /\ pwDevice.mac # "off"
\* requiresRecovery after a pass.
PwRecovery(on, complete, closed) ==
    IF on THEN ~complete /\ (pwPass.writes \/ ~closed) ELSE ~complete

\* finish() and the end of start() or stop(); late is a cancellation, timeout or
\* clock error seen by its last check.
PwFinish ==
    /\ pwPass.name # "none" /\ (pwPass.failed \/ pwPass.steps = <<>>)
    /\ \E works, late \in BOOLEAN :
         LET closed == PwClosed(works)
             complete == ~pwPass.failed /\ closed /\ ~late
             on == pwPass.name = "on" IN
           /\ \E m \in PwMaskAfter(works) : pwDevice' = [pwDevice EXCEPT !.mask = m]
           /\ pwResult' = [pwResult EXCEPT !.onWrites = IF on THEN pwPass.writes ELSE @,
                             !.powered = IF on THEN complete ELSE @ /\ ~complete,
                             !.returnedOff = ~on /\ complete,
                             !.recovery = PwRecovery(on, complete, closed)]
           /\ pwPass' = PwNoPass
    /\ UNCHANGED pwBus

-----------------------------------------------------------------------------
(* The device and its owner.                                               *)

\* A strobe takes effect, perhaps after the poll for it gave up.
PwSupplySettles ==
    /\ pwDevice' = CASE pwDevice.mac = "rising"  -> [pwDevice EXCEPT !.mac = "on"]
                     [] pwDevice.mac = "falling" -> [pwDevice EXCEPT !.mac = "off", !.functions = FALSE]
                     [] OTHER -> pwDevice
    /\ pwDevice' # pwDevice
    /\ UNCHANGED <<pwBus, pwPass, pwResult>>

\* Between the passes the controller runs the device, and stops it more or less.
PwOwnerRuns ==
    /\ pwPass.name = "none" /\ pwResult.powered /\ ~pwResult.off
    /\ \E dma \in {"running", "draining", "stopped"}, irq, master \in BOOLEAN :
         /\ pwDevice' = [pwDevice EXCEPT !.dma = dma, !.irq = irq]
         /\ pwBus' = [pwBus EXCEPT !.master = master]
    /\ UNCHANGED <<pwPass, pwResult>>

\* Engines told to stop come to rest on their own.
PwEnginesRest ==
    /\ pwDevice.dma = "draining" /\ pwDevice' = [pwDevice EXCEPT !.dma = "stopped"]
    /\ UNCHANGED <<pwBus, pwPass, pwResult>>

\* The function stops answering for good.
PwGone ==
    /\ pwBus.present /\ pwBus' = [pwBus EXCEPT !.present = FALSE]
    /\ UNCHANGED <<pwDevice, pwPass, pwResult>>

\* Between the passes another holder of the power registers opens the mask.
PwOtherOpens ==
    /\ pwPass.name = "none" /\ pwResult.on /\ ~pwResult.off /\ pwDevice.mask = "closed"
    /\ pwDevice' = [pwDevice EXCEPT !.mask = "other"]
    /\ UNCHANGED <<pwBus, pwPass, pwResult>>

PwNext ==
    \/ PwStart \/ PwStop \/ PwStep \/ PwStepFails \/ PwFinish
    \/ PwSupplySettles \/ PwOwnerRuns \/ PwEnginesRest \/ PwGone \/ PwOtherOpens

-----------------------------------------------------------------------------
(* Properties.                                                             *)

PwWholeOn == /\ pwDevice.mac = "on" /\ pwDevice.radio /\ ~pwDevice.isolated
             /\ pwDevice.functions /\ ~pwDevice.sleep
PwWholeOff == pwDevice.mac = "off" /\ ~pwDevice.radio /\ pwDevice.isolated /\ pwDevice.sleep

\* Between the passes a device that is not reported for recovery is as it was
\* found, wholly on and reported powered, or wholly off and reported off, and the
\* write mask the object opens is closed: a pass that died anywhere in the middle
\* is never taken for any of these.
PwRecoveryHonest ==
    pwPass.name = "none" /\ ~pwResult.recovery =>
        /\ pwDevice.mask # "ours"
        /\ \/ ~pwResult.onWrites /\ ~pwResult.powered /\ PwWholeOff
           \/ pwResult.powered /\ ~pwResult.returnedOff /\ PwWholeOn
           \/ pwResult.returnedOff /\ ~pwResult.powered /\ PwWholeOff

\* The supply of a running device is only cut after its engines stopped, its
\* interrupts were masked and bus mastering was off.
PwCutQuiet ==
    [][pwDevice.mac = "on" /\ pwDevice'.mac # "on" =>
         pwDevice.dma = "stopped" /\ ~pwDevice.irq /\ ~pwBus.master]_pwVars

\* A write mask that another holder of the power registers opened is never closed,
\* however a pass ends.
PwOthersMaskKept == [][pwDevice.mask = "other" => pwDevice'.mask = "other"]_pwVars
=============================================================================
