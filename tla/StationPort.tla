---------------------------- MODULE StationPort -----------------------------
\* MacStationIo: the registers of the station that the driver writes itself.  The
\* first entries of the MAC tables through an indirect window (seedMacTables()),
\* the port that keeps a beacon interval's distance between an old network and a
\* new one (beginPort(), servicePort()), and the receive filter of a scan.  The
\* device may go away for good at any time: what is read from it then is refused,
\* and what is written to it is lost without a word.
EXTENDS Naturals, Sequences, FiniteSets

CONSTANTS SpEntries, \* the words of each table's entry
          SpTicks,   \* bound on the clock
          SpWait,    \* a beacon interval
          SpLimit    \* the deadline of a port's programming

ASSUME SpAssumption == SpEntries \in Nat

VARIABLES spIo,    \* the fields of MacStationIo
          spAt,    \* where seed() is: "none", or the writes that are done
          spDev,   \* the device's registers
          spNow,   \* nowUs()
          spGoal   \* ghost: the port's stopping time, the filter before a scan

spVars == <<spIo, spAt, spDev, spNow, spGoal>>

SpTables == {"dmac", "cmac"}

SpInit ==
    /\ spIo = [port |-> "idle", faulted |-> FALSE, seeded |-> FALSE, saved |-> FALSE, filter |-> "off",
               connected |-> FALSE, was |-> FALSE, until |-> 0, deadline |-> 0, last |-> 0]
    /\ spAt = <<"none", 0>>
    /\ spDev = [gone |-> FALSE, paused |-> TRUE, enabled |-> FALSE, config |-> "reset", policy |-> "normal",
                window |-> "none", table |-> [t \in SpTables |-> [w \in 1..SpEntries |-> FALSE]]]
    /\ spNow = 0
    /\ spGoal = [quiet |-> 0, policy |-> "normal"]

SpFault(io) == [io EXCEPT !.faulted = TRUE, !.port = "fault"]

\* safe() and schedulerPaused()
SpSafe == ~spIo.faulted /\ ~spDev.gone
SpPaused == SpSafe /\ spDev.paused

\* A device that goes away takes its registers with it.
SpLost == [spDev EXCEPT !.gone = TRUE]

----------------------------------------------------------------------------
(* seed()                                                                  *)

\* The writes: select an entry of the DMAC table and clear it, word by word, each with
\* a selection of its own; then select the CMAC table's entry and write its words.
SpSeedSteps ==
    [i \in 1..(2 * SpEntries) |-> IF i % 2 = 1 THEN <<"select", "dmac", 0>> ELSE <<"word", "dmac", i \div 2>>]
    \o <<<<"select", "cmac", 0>>>> \o [i \in 1..SpEntries |-> <<"word", "cmac", i>>]

\* Only once, before the port is used.
SpSeed ==
    /\ spAt[1] = "none" /\ ~spIo.seeded /\ ~spIo.faulted /\ spIo.port # "waiting" /\ SpPaused
    /\ spAt' = <<"seeding", 0>>
    /\ UNCHANGED <<spIo, spDev, spNow, spGoal>>

\* A word is written where the window points; the selection is read back.
SpWritten(step) ==
    IF step[1] = "select" THEN [spDev EXCEPT !.window = step[2]]
    ELSE [spDev EXCEPT !.table[spDev.window][step[3]] = TRUE]

\* A seeding that has attempted a write needs a reset.
\* Mutant: only one that failed at its first write does.
SpSeedFailsOpen(attempted) == spAt' = <<"none", 0>> /\ spIo' = IF attempted /\ spAt[2] = 0 THEN SpFault(spIo) ELSE spIo
SpSeedFails(attempted) == spAt' = <<"none", 0>> /\ spIo' = IF attempted \/ spAt[2] > 0 THEN SpFault(spIo) ELSE spIo

\* A check fails (the clock, the gate, the scheduler), or the write is made, is lost, or
\* is a selection that is not read back.
SpSeedWrite ==
    /\ spAt[1] = "seeding" /\ spAt[2] < Len(SpSeedSteps)
    /\ LET step == SpSeedSteps[spAt[2] + 1]
       IN  \/ SpSeedFails(FALSE) /\ UNCHANGED spDev
           \/ SpPaused /\ spAt' = <<"seeding", spAt[2] + 1>> /\ spDev' = SpWritten(step) /\ UNCHANGED spIo
           \/ /\ SpPaused /\ step[1] = "word"
              /\ spAt' = <<"seeding", spAt[2] + 1>> /\ spDev' = SpLost /\ UNCHANGED spIo
           \/ SpPaused /\ step[1] = "select" /\ spDev' = SpLost /\ SpSeedFails(TRUE)
    /\ UNCHANGED <<spNow, spGoal>>

\* drainWrites() reads the window back behind the last write.
\* Mutant: it does not.
SpDrainsBlind == TRUE
SpDrains == SpPaused /\ spDev.window = "cmac"

SpSeedEnds ==
    /\ spAt[1] = "seeding" /\ spAt[2] = Len(SpSeedSteps)
    /\ IF SpDrains THEN spIo' = [spIo EXCEPT !.seeded = TRUE] /\ spAt' = <<"none", 0>> ELSE SpSeedFails(TRUE)
    /\ UNCHANGED <<spDev, spNow, spGoal>>

----------------------------------------------------------------------------
(* The port                                                                *)

SpBeginPort(connected) ==
    /\ spAt[1] = "none" /\ spIo.port # "waiting" /\ SpPaused
    /\ spIo' = [spIo EXCEPT !.port = "waiting", !.connected = connected, !.was = spDev.enabled, !.last = spNow,
                            !.until = IF spDev.enabled THEN spNow + SpWait ELSE spNow, !.deadline = spNow + SpLimit]
    /\ spGoal' = [spGoal EXCEPT !.quiet = IF spDev.enabled THEN spNow + SpWait ELSE spNow]
    /\ UNCHANGED <<spAt, spDev, spNow>>

\* portProgram(): a live port is disabled, everything is configured, and it is enabled
\* last; each write is read back, so the device is lost at one of them or at none.
\* Mutant: the port is enabled with its configuration still to come.
SpPortStepsEarly == <<[enabled |-> FALSE, config |-> "old"], [enabled |-> TRUE, config |-> "part"],
                      [enabled |-> TRUE, config |-> "whole"]>>
SpPortSteps == <<[enabled |-> FALSE, config |-> "old"], [enabled |-> FALSE, config |-> "part"],
                 [enabled |-> FALSE, config |-> "whole"], [enabled |-> TRUE, config |-> "whole"]>>

SpPortAfter(k) ==
    IF k = 0 THEN spDev
    ELSE [spDev EXCEPT !.enabled = SpPortSteps[k].enabled,
                       !.config = CASE SpPortSteps[k].config = "old" -> @
                                    [] SpPortSteps[k].config = "part" -> "part"
                                    [] OTHER -> IF spIo.connected THEN "network" ELSE "idle"]

\* Mutant: the interval of the old network is not waited for.
SpDueNow == TRUE
SpDue == spNow >= spIo.until

SpServicePort ==
    /\ spIo.port = "waiting" /\ spAt[1] = "none"
    /\ IF spNow < spIo.last \/ spNow >= spIo.deadline \/ ~SpPaused
       THEN spIo' = SpFault(spIo) /\ UNCHANGED <<spDev, spGoal>>
       ELSE IF ~SpDue THEN spIo' = [spIo EXCEPT !.last = spNow] /\ UNCHANGED <<spDev, spGoal>>
       ELSE /\ \/ /\ spIo' = [spIo EXCEPT !.last = spNow, !.port = "complete"]
                  /\ spDev' = SpPortAfter(Len(SpPortSteps))
               \/ \E k \in 0..Len(SpPortSteps) :
                      /\ spIo' = SpFault(spIo) /\ spDev' = [SpPortAfter(k) EXCEPT !.gone = TRUE]
            /\ UNCHANGED spGoal
    /\ UNCHANGED <<spAt, spNow>>

----------------------------------------------------------------------------
(* The receive filter                                                      *)

\* scanFilter(): the policy is saved and narrowed, or restored.
\* Mutant: a second scan may save the filter of the first.
SpScanFilterAgain(enable) ==
    /\ spAt[1] = "none" /\ spIo.port # "waiting" /\ SpPaused
    /\ \/ /\ spIo' = [spIo EXCEPT !.saved = enable, !.filter = IF enable THEN spDev.policy ELSE @]
          /\ spDev' = [spDev EXCEPT !.policy = IF enable THEN "scan" ELSE spIo.filter]
          /\ spGoal' = [spGoal EXCEPT !.policy = IF enable /\ ~spIo.saved THEN spDev.policy ELSE @]
       \/ /\ spIo' = SpFault(spIo) /\ UNCHANGED spGoal
          /\ \/ spDev' = SpLost
             \/ spDev' = [SpLost EXCEPT !.policy = IF enable THEN "scan" ELSE spIo.filter]
    /\ UNCHANGED <<spAt, spNow>>
SpScanFilter(enable) ==
    /\ spAt[1] = "none" /\ spIo.port # "waiting" /\ enable # spIo.saved /\ SpPaused
    /\ \/ /\ spIo' = [spIo EXCEPT !.saved = enable, !.filter = IF enable THEN spDev.policy ELSE @]
          /\ spDev' = [spDev EXCEPT !.policy = IF enable THEN "scan" ELSE spIo.filter]
          /\ spGoal' = [spGoal EXCEPT !.policy = IF enable /\ ~spIo.saved THEN spDev.policy ELSE @]
       \/ /\ spIo' = SpFault(spIo) /\ UNCHANGED spGoal
          /\ \/ spDev' = SpLost
             \/ spDev' = [SpLost EXCEPT !.policy = IF enable THEN "scan" ELSE spIo.filter]
    /\ UNCHANGED <<spAt, spNow>>

----------------------------------------------------------------------------

\* Time passes, or is read from a clock that stepped back.
SpTick == \E t \in 0..SpTicks : t # spNow /\ t <= spNow + 1 /\ t + 1 >= spNow /\ spNow' = t /\ UNCHANGED <<spIo, spAt, spDev, spGoal>>

\* The scheduler is paused and resumed, or the device goes.
SpAround ==
    /\ ~spDev.gone
    /\ \/ spDev' = [spDev EXCEPT !.paused = ~@]
       \/ spDev' = SpLost
    /\ UNCHANGED <<spIo, spAt, spNow, spGoal>>

SpNext ==
    \/ SpSeed \/ SpSeedWrite \/ SpSeedEnds \/ SpServicePort \/ SpTick \/ SpAround
    \/ \E b \in BOOLEAN : SpBeginPort(b) \/ SpScanFilter(b)

SpSpec == SpInit /\ [][SpNext]_spVars

----------------------------------------------------------------------------
(* Properties                                                              *)

\* The tables are called seeded only when every word of both entries is on the device,
\* though a write to a device that is gone is not noticed where it is made.
SpSeededWhole == spIo.seeded => \A t \in SpTables, w \in 1..SpEntries : spDev.table[t][w]

\* A seeding that stopped part way leaves nothing usable: no port is programmed and no
\* filter changed until the driver is built anew.
SpHalfSeedFaults ==
    spAt[1] = "none" /\ ~spIo.seeded /\ (\E t \in SpTables, w \in 1..SpEntries : spDev.table[t][w]) => spIo.faulted

\* A port that is enabled has its whole configuration: the old one until it is
\* disabled, the new one since, wherever the device was lost on the way.
SpEnabledWhole == spDev.enabled => spDev.config \in {"idle", "network"}

\* A port that replaces a live one is not touched before the old network's beacon
\* interval is over, and never while the scheduler runs.
SpKeepsDistance ==
    [][spDev'.enabled # spDev.enabled \/ spDev'.config # spDev.config => spNow >= spGoal.quiet /\ spDev.paused]_spVars

\* A scan gives the receive policy back as it found it; what is saved of it is never the
\* narrowed one.
SpFilterRestored ==
    /\ ~spIo.saved /\ ~spIo.faulted => spDev.policy = spGoal.policy
    /\ spIo.saved /\ ~spDev.gone => spDev.policy = "scan" /\ spIo.filter = spGoal.policy

=============================================================================
