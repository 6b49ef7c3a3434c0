-------------------------- MODULE CalibrationRead ---------------------------
(***************************************************************************)
(* Reading the device's own calibration, once per device: the main bank    *)
(* and the PHY bank behind a supply that is switched on for the read and   *)
(* given back afterwards (EfuseReader), and the analog bank behind a       *)
(* serial port whose commands take their time (DavEfuseReader), in the     *)
(* order of DeviceCalibration.  Any access may fail, and the reader may be *)
(* cancelled or run out of time at any of them.                            *)
(***************************************************************************)
EXTENDS Naturals, Sequences, SequencesExt, FiniteSets

CONSTANT EfBytes   \* bytes read from the analog bank

ASSUME EfAssumption == EfBytes \in Nat \ {0}

VARIABLES
    efStage,     \* the stage of DeviceCalibration
    efStep,      \* where the reader of that stage is
    efIndex,     \* the switch or command it is at
    efFine,      \* primary is still ok
    efRestored,  \* no access of the clean-up failed so far
    efRecovery,  \* requiresRecovery
    efCut,       \* the cut of the device; cut 0 also switches to burst mode
    efRail,      \* the five bits of the supply
    efFound,     \* the bits the reader found
    efPort,      \* the command the serial port works on
    efEngine,    \* the read engine behind the port and the address it has
    efReply,     \* what the last read command returned
    efOut        \* the bytes of the analog bank read so far

efReader == <<efStage, efStep, efIndex, efFine, efRestored, efRecovery, efCut, efFound, efOut>>
efDevice == <<efRail, efPort, efEngine, efReply>>
efVars == <<efReader, efDevice>>

EfQuiet(rail) == rail.pmc = 0 /\ rail.power = 0 /\ rail.core = 0 /\ rail.iso = 1
EfPowered(rail) == rail.pmc = 1 /\ rail.power = 1 /\ rail.core = 1

EfInit ==
    /\ efStage = "ddv" /\ efStep = "begin" /\ efIndex = 1
    /\ efFine = TRUE /\ efRestored = TRUE /\ efRecovery = FALSE /\ efCut \in 0 .. 1
    /\ efRail \in {[pmc |-> 0, power |-> 0, core |-> 0, iso |-> 1, burst |-> b] : b \in 0 .. 1}
                     \cup {[pmc |-> 1, power |-> 1, core |-> 1, iso |-> 0, burst |-> 0]}
    /\ efFound = efRail
    /\ efPort \in {"none", "foreign"} /\ efEngine = [state |-> "rest", address |-> 0] /\ efReply = 0 /\ efOut = <<>>

\* The stages in their order; "complete" and "failed" are final.
EfAfter == [ddv |-> "dav", dav |-> "phycap", phycap |-> "complete"]

EfGoto(step) == efStep' = step /\ efIndex' = 1

\* DeviceCalibration::fail().
EfFailed(recovery) == efStage' = "failed" /\ efRecovery' = recovery /\ EfGoto("end")

-----------------------------------------------------------------------------
(* EfuseReader.                                                            *)

EfRailStage == efStage \in {"ddv", "phycap"}

\* The switches of enable() and of restore(), in order.
EfOn == <<<<"pmc", 1>>, <<"power", 1>>, <<"core", 1>>, <<"iso", 0>>>> \o (IF efCut = 0 THEN <<<<"burst", 1>>>> ELSE <<>>)
EfOffEarly == (IF efCut = 0 THEN <<<<"burst", efFound.burst>>>> ELSE <<>>)
                 \o <<<<"core", 0>>, <<"iso", 1>>, <<"power", 0>>, <<"pmc", efFound.pmc>>>>
EfOff == (IF efCut = 0 THEN <<<<"burst", efFound.burst>>>> ELSE <<>>)
            \o <<<<"iso", 1>>, <<"core", 0>>, <<"power", 0>>, <<"pmc", efFound.pmc>>>>

\* Only a supply nobody uses is taken; nothing was switched when this fails.
EfAcquire ==
    /\ EfRailStage /\ efStep = "begin"
    /\ \/ /\ EfQuiet(efRail)
          /\ efFound' = efRail /\ efFine' = TRUE /\ efRestored' = TRUE /\ EfGoto("on")
          /\ UNCHANGED <<efStage, efRecovery>>
       \/ EfFailed(FALSE) /\ UNCHANGED <<efFound, efFine, efRestored>>
    /\ UNCHANGED <<efCut, efOut, efDevice>>

EfSwitch(list) == efRail' = [efRail EXCEPT ![list[efIndex][1]] = list[efIndex][2]]

\* enable() goes on, or gives up and cleans up.
EfSwitchOn ==
    /\ EfRailStage /\ efStep = "on"
    /\ \/ /\ EfSwitch(EfOn) /\ efFine' = efFine
          /\ IF efIndex = Len(EfOn) THEN EfGoto("read") ELSE efIndex' = efIndex + 1 /\ efStep' = efStep
       \/ efFine' = FALSE /\ EfGoto("off") /\ efRail' = efRail
    /\ UNCHANGED <<efStage, efRestored, efRecovery, efCut, efFound, efOut, efPort, efEngine, efReply>>

\* The bytes of the bank, all of them or an error on the way.
EfReadBank ==
    /\ EfRailStage /\ efStep = "read"
    /\ efFine' \in BOOLEAN /\ EfGoto("off")
    /\ UNCHANGED <<efStage, efRestored, efRecovery, efCut, efFound, efOut, efDevice>>

\* restore() tries every switch, also after one that failed ...
EfSwitchOff ==
    /\ EfRailStage /\ efStep = "off"
    /\ \/ EfSwitch(EfOff) /\ efRestored' = efRestored
       \/ efRestored' = FALSE /\ efRail' = efRail
    /\ IF efIndex = Len(EfOff) THEN EfGoto("verify") ELSE efIndex' = efIndex + 1 /\ efStep' = efStep
    /\ UNCHANGED <<efStage, efFine, efRecovery, efCut, efFound, efOut, efPort, efEngine, efReply>>

\* ... and reads all of them back.
EfVerified == efRestored' \in {FALSE, efRestored /\ efRail = efFound}

EfVerify ==
    /\ EfRailStage /\ efStep = "verify"
    /\ EfVerified /\ EfGoto("judge")
    /\ UNCHANGED <<efStage, efFine, efRecovery, efCut, efFound, efOut, efDevice>>

\* What is done with the result; what was read may also not decode or parse.
EfJudge ==
    /\ EfRailStage /\ efStep = "judge"
    /\ \/ efFine /\ efRestored /\ efStage' = EfAfter[efStage] /\ efRecovery' = FALSE /\ EfGoto("begin")
       \/ EfFailed(~efRestored)
    /\ UNCHANGED <<efFine, efRestored, efCut, efFound, efOut, efDevice>>

-----------------------------------------------------------------------------
(* DavEfuseReader.                                                         *)

\* The commands for one byte; "ready" is repeated until it says so.
EfScript == <<"prepare", "address", "mode", "start", "ready", "data">>

EfDavBegin ==
    /\ efStage = "dav" /\ efStep = "begin"
    /\ \/ /\ efPort = "none" /\ efFine' = TRUE /\ efOut' = <<>> /\ EfGoto("command")
          /\ UNCHANGED <<efStage, efRecovery>>
       \/ EfFailed(FALSE) /\ UNCHANGED <<efFine, efOut>>
    /\ UNCHANGED <<efRestored, efCut, efFound, efDevice>>

\* transact(): the command is written, or is not and the bank is given up.
EfDavCommand ==
    /\ efStage = "dav" /\ efStep = "command"
    /\ \/ efPort' = EfScript[efIndex] /\ efStep' = "wait" /\ UNCHANGED <<efIndex, efFine>>
       \/ efFine' = FALSE /\ EfGoto("drain") /\ efPort' = efPort
    /\ UNCHANGED <<efStage, efRestored, efRecovery, efCut, efFound, efOut, efRail, efEngine, efReply>>

\* The byte is fetched whether or not the engine has it.
EfNextCommandHasty(index, reply) == IF index = Len(EfScript) THEN 1 ELSE index + 1

EfNextCommand(index, reply) ==
    IF EfScript[index] = "ready" /\ reply # 1 THEN index ELSE IF index = Len(EfScript) THEN 1 ELSE index + 1

\* idle(): the port answered in time, and the script goes on.
EfDavAnswered ==
    /\ efStage = "dav" /\ efStep = "wait" /\ efPort = "none"
    /\ efStep' = IF efIndex = Len(EfScript) /\ Len(efOut) + 1 = EfBytes THEN "drain" ELSE "command"
    /\ efOut' = IF efIndex = Len(EfScript) THEN Append(efOut, efReply) ELSE efOut
    /\ efIndex' = EfNextCommand(efIndex, efReply)
    /\ UNCHANGED <<efStage, efFine, efRestored, efRecovery, efCut, efFound, efDevice>>

\* Time is up, the access failed or the read is cancelled while the port is busy.
EfDavGivesUp ==
    /\ efStage = "dav" /\ efStep = "wait"
    /\ efFine' = FALSE /\ EfGoto("drain")
    /\ UNCHANGED <<efStage, efRestored, efRecovery, efCut, efFound, efOut, efDevice>>

\* The clean-up asks for the state at once, without waiting for the port.
EfDavDrainHasty ==
    /\ efStage = "dav" /\ efStep = "drain"
    /\ efPort' = "ready" /\ EfGoto("drained")
    /\ UNCHANGED <<efStage, efFine, efRestored, efRecovery, efCut, efFound, efOut, efRail, efEngine, efReply>>

\* cleanup(): first the port has to be idle, then it asks for the engine's state ...
EfDavDrain ==
    /\ efStage = "dav" /\ efStep = "drain" /\ efPort = "none"
    /\ efPort' = "ready" /\ EfGoto("drained")
    /\ UNCHANGED <<efStage, efFine, efRestored, efRecovery, efCut, efFound, efOut, efRail, efEngine, efReply>>

\* An idle port is taken for an idle engine.
EfEngineIdlePort(reply) == TRUE

\* Mode 0x40 is still set, or the byte is ready.
EfEngineIdle(reply) == reply \in {1, 2}

\* ... until that is at rest or its byte is ready.
EfDavClean ==
    /\ efStage = "dav" /\ efStep = "drained" /\ efPort = "none"
    /\ IF EfEngineIdle(efReply)
       THEN \/ efFine /\ efStage' = EfAfter[efStage] /\ efRecovery' = FALSE /\ EfGoto("begin")
            \/ EfFailed(FALSE)
       ELSE EfGoto("drain") /\ UNCHANGED <<efStage, efRecovery>>
    /\ UNCHANGED <<efFine, efRestored, efCut, efFound, efOut, efDevice>>

\* The clean-up itself fails: the port is poisoned and only a reset helps.
EfDavPoisoned ==
    /\ efStage = "dav" /\ efStep \in {"drain", "drained"}
    /\ EfFailed(TRUE)
    /\ UNCHANGED <<efFine, efRestored, efCut, efFound, efOut, efDevice>>

\* The port carries out its command; the engine works on after it was started.
EfPortWorks ==
    /\ efPort # "none" /\ efPort' = "none"
    /\ efEngine' = CASE efPort = "prepare" -> [state |-> "rest", address |-> 0]
                     [] efPort = "address" -> [efEngine EXCEPT !.address = Len(efOut) + 1]
                     [] efPort = "start" -> [efEngine EXCEPT !.state = "reading"]
                     [] OTHER -> efEngine
    /\ efReply' = CASE efPort = "ready" -> [rest |-> 2, reading |-> 0, ready |-> 1][efEngine.state]
                    [] efPort = "data" -> IF efEngine.state = "ready" THEN efEngine.address ELSE 0
                    [] OTHER -> efReply
    /\ UNCHANGED <<efRail, efReader>>

EfEngineReads ==
    /\ efEngine.state = "reading" /\ efEngine' = [efEngine EXCEPT !.state = "ready"]
    /\ UNCHANGED <<efRail, efPort, efReply, efReader>>

EfNext ==
    \/ EfAcquire \/ EfSwitchOn \/ EfReadBank \/ EfSwitchOff \/ EfVerify \/ EfJudge
    \/ EfDavBegin \/ EfDavCommand \/ EfDavAnswered \/ EfDavGivesUp \/ EfDavDrain \/ EfDavClean \/ EfDavPoisoned
    \/ EfPortWorks \/ EfEngineReads

-----------------------------------------------------------------------------
\* However the reading ends, unless it asks for recovery the supply is as it
\* was found and neither the port nor the engine still works for the reader:
\* requiresRecovery is never forgotten on an error path.
EfLeftAsFound ==
    efStage \in {"complete", "failed"} /\ ~efRecovery =>
        /\ efRail = efFound
        /\ efPort \in {"none", "foreign"} /\ efEngine.state # "reading"

\* The bank is connected only while it is supplied, at every point of the
\* sequence and of its undoing, unless an access of the undoing failed.
EfIsolated == efRestored /\ efRail.iso = 0 => EfPowered(efRail)

\* A snapshot holds the bytes of the addresses it was asked for, and none that
\* were read before the engine had them.
EfSnapshotTrue == efStage = "complete" => efOut = [i \in 1 .. EfBytes |-> i]

\* A command of the port is never overwritten by another before it is carried
\* out, on the way in or in the clean-up after a timeout.
EfPortAlone == [][efPort # "none" => efPort' \in {efPort, "none"}]_efVars

----------------------------------------------------------------------------
\* decodeEfuse() of EfuseCalibration.hpp: the programmed records of a fuse bank laid
\* out as the logical map that the rest of the driver reads its calibration from.
\* A record is a header of two bytes, which names a block of the map and the words
\* of it that follow, and two bytes for each of those; a later record overrides an
\* earlier one, and an erased byte in a header's place ends the bank.  Blocks have
\* two words here instead of four, and bytes are few.

CONSTANTS EdPhysical, \* physicalBytes
          EdLogical,  \* logicalBytes
          EdSecurity  \* securityBytes

\* The security bytes are at both ends of the bank.
ASSUME EdAssumption == EdPhysical \in Nat /\ EdLogical \in Nat \ {0} /\ EdSecurity \in Nat /\ 2 * EdSecurity <= EdPhysical

VARIABLES edBank,  \* the bytes between the security bytes, as they were read
          edMap,   \* the logical map, of the caller
          edPass,  \* "checks", "fills", then "ok", "truncated" or "outOfRange"
          edBefore \* the map before the call

edVars == <<edBank, edMap, edPass, edBefore>>

EdErased == 9
EdWords == 0..1
EdBytes == {0, 1, 3, EdErased}
EdEnd == EdPhysical - 2 * EdSecurity

EdInit ==
    /\ edBank \in [1..EdEnd -> EdBytes]
    /\ edBefore = [a \in 0..(EdLogical - 1) |-> 7] /\ edMap = edBefore
    /\ edPass = "checks"

\* The header: the words of the block that are left out are those with a bit set.
EdFollows(second) == {w \in EdWords : (second \div (2 ^ w)) % 2 = 0}
EdAddress(block, w) == block * 2 * Cardinality(EdWords) + w * 2

\* The words that follow a header, from an offset on, one after another.
EdTakeWords(bank, map, at, block, words, write) ==
    FoldLeft(LAMBDA s, w :
                 IF s.status # "on" \/ w \notin words THEN s
                 ELSE IF EdEnd - s.at < 2 THEN [s EXCEPT !.status = "truncated"]
                 ELSE IF EdAddress(block, w) >= EdLogical \/ EdLogical - EdAddress(block, w) < 2
                      THEN [s EXCEPT !.status = "outOfRange"]
                 ELSE [s EXCEPT !.at = @ + 2,
                                !.map = IF write THEN [@ EXCEPT ![EdAddress(block, w)] = bank[s.at + 1],
                                                               ![EdAddress(block, w) + 1] = bank[s.at + 2]]
                                        ELSE @],
             [status |-> "on", at |-> at, map |-> map], <<0, 1>>)

\* One pass over the bank.
EdPassOver(bank, map, write) ==
    LET r[n \in 0..(EdEnd + 1)] ==
            IF n = 0 THEN [status |-> "on", at |-> 0, map |-> map]
            ELSE LET s == r[n - 1]
                 IN  IF s.status # "on" THEN s
                     ELSE IF s.at >= EdEnd \/ bank[s.at + 1] = EdErased THEN [s EXCEPT !.status = "ok"]
                     ELSE IF EdEnd - s.at < 2 THEN [s EXCEPT !.status = "truncated"]
                     ELSE IF bank[s.at + 2] = EdErased THEN [s EXCEPT !.status = "ok"]
                     ELSE EdTakeWords(bank, s.map, s.at + 2, bank[s.at + 1], EdFollows(bank[s.at + 2]), write)
    IN  r[EdEnd + 1]

\* The first pass writes nothing.
\* Mutant: it does.
EdChecksWriting ==
    LET r == EdPassOver(edBank, edMap, TRUE)
    IN  edPass' = (IF r.status = "ok" THEN "fills" ELSE r.status) /\ edMap' = r.map
EdChecks ==
    LET r == EdPassOver(edBank, edMap, FALSE)
    IN  edPass' = (IF r.status = "ok" THEN "fills" ELSE r.status) /\ UNCHANGED edMap

EdCheck == edPass = "checks" /\ EdChecks /\ UNCHANGED <<edBank, edBefore>>

\* The second starts from an erased map.
\* Mutant: from what the map held before.
EdKept == edMap
EdClean == [a \in 0..(EdLogical - 1) |-> EdErased]

EdFill ==
    /\ edPass = "fills"
    /\ LET r == EdPassOver(edBank, EdClean, TRUE) IN edPass' = r.status /\ edMap' = r.map
    /\ UNCHANGED <<edBank, edBefore>>

EdNext == EdCheck \/ EdFill

EdSpec == EdInit /\ [][EdNext]_edVars

----------------------------------------------------------------------------
(* Properties                                                              *)

\* A bank that cannot be decoded changes nothing of the caller's map, however far its
\* records are good.
EdFailureUntouched == edPass \in {"truncated", "outOfRange"} => edMap = edBefore

\* Where the records are, guessed instead of walked: their headers' offsets, and the
\* offset of an erased header or the end of the bank behind the last.
EdLength(h) == 2 + 2 * Cardinality(EdFollows(edBank[h + 2]))
EdRecords ==
    {H \in SUBSET (0..(EdEnd - 1)) :
        /\ \A h \in H : /\ h + 2 <= EdEnd /\ EdErased \notin {edBank[h + 1], edBank[h + 2]}
                        /\ h + EdLength(h) <= EdEnd
        /\ LET ends == {0} \cup {h + EdLength(h) : h \in H}
           IN  /\ H \subseteq ends
               /\ \A e \in ends \ H : e = EdEnd \/ edBank[e + 1] = EdErased
                                      \/ (e + 2 <= EdEnd /\ edBank[e + 2] = EdErased)}

\* The places of the bank that hold a byte of the map.
EdPlaces(H, a) ==
    {p \in 0..(EdEnd - 1) : \E h \in H : \E w \in EdFollows(edBank[h + 2]) :
        /\ a \div 2 = EdAddress(edBank[h + 1], w) \div 2
        /\ p = h + 2 + 2 * Cardinality({v \in EdFollows(edBank[h + 2]) : v < w}) + (a % 2)}

\* The map of a decoded bank holds each byte from the last record that has it, and is
\* erased everywhere else; nothing of the map before is left in it.
EdMapTrue ==
    edPass = "ok" =>
        \E H \in EdRecords : \A a \in 0..(EdLogical - 1) :
            edMap[a] = LET ps == EdPlaces(H, a)
                       IN  IF ps = {} THEN EdErased ELSE edBank[1 + CHOOSE p \in ps : \A q \in ps : q <= p]

=============================================================================
