------------------------------ MODULE CoexSetup ------------------------------
(***************************************************************************)
(* The set-up of Bluetooth coexistence at boot: the arbitration hardware   *)
(* is programmed, five commands go to the firmware one after the other,    *)
(* each after the acknowledgement of the one before, and the result is     *)
(* handed to the calibration as a scoreboard shadow and a policy           *)
(* (BtInitialization, used by MacRadioBoot).  Two of the commands have the *)
(* same identifier.  Acknowledgements may be lost, repeated or late, the   *)
(* firmware may reject a command, Bluetooth may start a calibration and    *)
(* the transmit scheduler may be resumed behind the driver's back.         *)
(***************************************************************************)
EXTENDS Naturals, Sequences, FiniteSets

CONSTANT CxAcks   \* acknowledgements the firmware sends, repeated ones included

ASSUME CxAssumption == CxAcks \in Nat

VARIABLES
    cxStage,     \* 0 idle, 1 .. 5 the command that is out, 6 complete, 7 fault
    cxStep,      \* where the handler that runs is, "none" when none runs
    cxPending,   \* pending_
    cxTried,     \* commandAttempted_
    cxGrant,     \* who the grants favour: "reset", "boot" once winInit() set them
    cxBoard,     \* the scoreboard word is written
    cxOut,       \* outShadow_ and outPolicy_ are valid
    cxEpoch,     \* the firmware epoch is valid
    cxWire,      \* the commands under way to the firmware
    cxApplied,   \* the commands the firmware has applied
    cxAcks,      \* the acknowledgements under way: [n, ok]
    cxAcked,     \* how many were sent
    cxBt,        \* Bluetooth calibrates, or asks to
    cxTx         \* the transmit scheduler runs

cxHost == <<cxStage, cxStep, cxPending, cxTried, cxGrant, cxBoard, cxOut, cxEpoch>>
cxFirmware == <<cxApplied, cxAcked>>
cxVars == <<cxHost, cxFirmware, cxWire, cxAcks, cxBt, cxTx>>

CxComplete == 6
CxFault == 7

\* monitor, slots, driverInit, driverControl, policy; the two in the middle share an identifier.
CxIds == <<"monitor", "slots", "driver", "driver", "policy">>

CxInit ==
    /\ cxStage = 0 /\ cxStep = "none" /\ cxPending = FALSE /\ cxTried = FALSE
    /\ cxGrant = "reset" /\ cxBoard = FALSE /\ cxOut = FALSE /\ cxEpoch = TRUE
    /\ cxWire = <<>> /\ cxApplied = <<>> /\ cxAcks = {} /\ cxAcked = 0
    /\ cxBt = FALSE /\ cxTx = FALSE

-----------------------------------------------------------------------------
\* The epoch is given up only while a command is out.
CxFailPending ==
    /\ cxStage' = CxFault /\ cxStep' = "none" /\ cxPending' = FALSE
    /\ cxOut' = FALSE /\ cxEpoch' = (cxEpoch /\ ~cxPending)
    /\ UNCHANGED <<cxTried, cxGrant, cxBoard>>

\* fail(): nothing stays valid that depended on what the firmware may have done.
CxFail ==
    /\ cxStage' = CxFault /\ cxStep' = "none" /\ cxPending' = FALSE
    /\ cxOut' = FALSE /\ cxEpoch' = (cxEpoch /\ ~cxTried)
    /\ UNCHANGED <<cxTried, cxGrant, cxBoard>>

\* submit() of command n.
CxSubmit(n) ==
    /\ cxStage' = n /\ cxStep' = "none" /\ cxPending' = TRUE /\ cxTried' = TRUE
    /\ cxWire' = Append(cxWire, n) /\ UNCHANGED <<cxGrant, cxBoard, cxOut, cxEpoch>>

\* begin(): nothing is touched while the scheduler runs or Bluetooth calibrates ...
CxBegin ==
    /\ cxStage = 0 /\ cxStep = "none"
    /\ IF cxTx \/ cxBt THEN CxFail
       ELSE cxStep' = "hardware" /\ UNCHANGED <<cxStage, cxPending, cxTried, cxGrant, cxBoard, cxOut, cxEpoch>>
    /\ UNCHANGED <<cxFirmware, cxWire, cxAcks, cxBt, cxTx>>

\* ... then hardware(), and the first command if the scheduler still stands.
CxHardware ==
    /\ cxStep = "hardware"
    /\ IF cxTx THEN CxFail /\ UNCHANGED cxWire ELSE CxSubmit(1)
    /\ UNCHANGED <<cxFirmware, cxAcks, cxBt, cxTx>>

\* An acknowledgement is taken by the identifier of its command alone.
CxOursById(a) == cxPending /\ CxIds[a.n] = CxIds[cxStage]

\* It answers the command that is out: identifier and sequence number.
CxOurs(a) == cxPending /\ CxIds[a.n] = CxIds[cxStage] /\ a.n = cxStage

\* next(): the following command, or what comes before and after the policy.
CxNextCommand ==
    IF cxStage < 4 THEN CxSubmit(cxStage + 1)
    ELSE /\ cxStep' = (IF cxStage = 4 THEN "grant" ELSE "board") /\ cxPending' = FALSE
         /\ UNCHANGED <<cxStage, cxTried, cxGrant, cxBoard, cxOut, cxEpoch, cxWire>>

\* acceptEvent(): after the acknowledgement the next command, or the last part.
CxAccept(a) ==
    /\ cxStep = "none" /\ a \in cxAcks /\ cxAcks' = cxAcks \ {a}
    /\ IF ~CxOurs(a) THEN UNCHANGED <<cxHost, cxWire>>
       ELSE IF ~a.ok \/ cxTx THEN CxFail /\ UNCHANGED cxWire
       ELSE CxNextCommand
    /\ UNCHANGED <<cxFirmware, cxBt, cxTx>>

\* The grants are set on the strength of what begin() saw.
CxGrantTrusting ==
    /\ cxStep = "grant"
    /\ cxStage' = 5 /\ cxStep' = "none" /\ cxPending' = TRUE /\ cxGrant' = "boot"
    /\ cxWire' = Append(cxWire, 5) /\ UNCHANGED <<cxTried, cxBoard, cxOut, cxEpoch>>
    /\ UNCHANGED <<cxFirmware, cxAcks, cxBt, cxTx>>

\* winInit() looks again before it sets the grants; then the policy is sent.
CxGrant ==
    /\ cxStep = "grant"
    /\ IF cxBt THEN CxFail /\ UNCHANGED cxWire
       ELSE /\ cxStage' = 5 /\ cxStep' = "none" /\ cxPending' = TRUE /\ cxGrant' = "boot"
            /\ cxWire' = Append(cxWire, 5) /\ UNCHANGED <<cxTried, cxBoard, cxOut, cxEpoch>>
    /\ UNCHANGED <<cxFirmware, cxAcks, cxBt, cxTx>>

\* The scoreboard word, and the results are handed over if the scheduler still stands.
CxScoreboard ==
    /\ cxStep = "board"
    /\ IF cxTx THEN CxFail
       ELSE /\ cxBoard' = TRUE /\ cxOut' = TRUE /\ cxStage' = CxComplete /\ cxStep' = "none"
            /\ UNCHANGED <<cxPending, cxTried, cxGrant, cxEpoch>>
    /\ UNCHANGED <<cxFirmware, cxWire, cxAcks, cxBt, cxTx>>

\* service() and ready() find the scheduler running, before or after completion.
CxService ==
    /\ cxStep = "none" /\ cxStage \in 1 .. CxComplete /\ cxTx /\ CxFail
    /\ UNCHANGED <<cxFirmware, cxWire, cxAcks, cxBt, cxTx>>

\* An access fails, the time is up or the boot is cancelled, wherever it is.
CxStops ==
    /\ cxStage # CxFault /\ (cxStep # "none" \/ cxStage > 0) /\ CxFail
    /\ UNCHANGED <<cxFirmware, cxWire, cxAcks, cxBt, cxTx>>

-----------------------------------------------------------------------------
(* The firmware and the world.                                             *)

\* The firmware applies a command, or rejects it, and says so.
CxApplies ==
    /\ cxWire # <<>> /\ cxAcked < CxAcks /\ cxWire' = Tail(cxWire) /\ cxAcked' = cxAcked + 1
    /\ \E ok \in BOOLEAN :
          /\ cxApplied' = IF ok THEN Append(cxApplied, Head(cxWire)) ELSE cxApplied
          /\ cxAcks' = cxAcks \cup {[n |-> Head(cxWire), ok |-> ok]}
    /\ UNCHANGED <<cxHost, cxBt, cxTx>>

CxRepeats ==
    /\ cxAcked < CxAcks /\ cxAcked' = cxAcked + 1
    /\ \E i \in 1 .. Len(cxApplied) : cxAcks' = cxAcks \cup {[n |-> cxApplied[i], ok |-> TRUE]}
    /\ UNCHANGED <<cxHost, cxApplied, cxWire, cxBt, cxTx>>

CxLoses == \E a \in cxAcks : cxAcks' = cxAcks \ {a} /\ UNCHANGED <<cxHost, cxFirmware, cxWire, cxBt, cxTx>>

CxBluetooth == cxBt' = ~cxBt /\ UNCHANGED <<cxHost, cxFirmware, cxWire, cxAcks, cxTx>>

CxResumed == ~cxTx /\ cxTx' = TRUE /\ UNCHANGED <<cxHost, cxFirmware, cxWire, cxAcks, cxBt>>

CxNext ==
    \/ CxBegin \/ CxHardware \/ (\E a \in cxAcks : CxAccept(a)) \/ CxGrant \/ CxScoreboard \/ CxService \/ CxStops
    \/ CxApplies \/ CxRepeats \/ CxLoses \/ CxBluetooth \/ CxResumed

-----------------------------------------------------------------------------
\* A command goes out only when the firmware has applied all before it, also
\* when acknowledgements of an equal command are repeated or late.
CxOneByOne ==
    LET before == IF cxStep = "board" \/ cxStage = CxComplete THEN 5
                  ELSE IF cxStage \in 1 .. 5 THEN cxStage - 1 ELSE 0
    IN  \A n \in 1 .. before : \E i \in 1 .. Len(cxApplied) : cxApplied[i] = n

\* The shadow and the policy are valid only when the firmware works by that
\* policy and the hardware by those grants, in an epoch that is still valid; a
\* set-up that failed after the firmware heard of it ends the epoch.
CxOutputsTrue ==
    /\ cxOut => cxStage = CxComplete /\ cxBoard /\ cxGrant = "boot" /\ cxEpoch /\ Len(cxApplied) = 5
    /\ cxStage = CxFault /\ (cxApplied # <<>> \/ cxWire # <<>>) => ~cxEpoch

\* The grants are not taken from a Bluetooth that calibrates, as far as the
\* last look of winInit() tells; what begin() saw is stale by then.
CxBluetoothKept == [][cxGrant' # cxGrant => ~cxBt]_cxVars
=============================================================================
