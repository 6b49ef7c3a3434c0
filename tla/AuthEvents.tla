----------------------------- MODULE AuthEvents -----------------------------
(***************************************************************************)
(* The authentication event queue (network/AuthenticationEvents.hpp), the  *)
(* rule that binds it to an association (AuthenticationBinding.hpp) and    *)
(* the places of MacNetworkController.cpp that bind, fill, invalidate and  *)
(* read it.  All of it runs under the command gate, one call at a time.    *)
(*                                                                         *)
(* A frame that passes the filter of observe() is its number since the     *)
(* queue was bound; the addresses, channel and operation of a binding are  *)
(* the operation of the association it belongs to.                         *)
(***************************************************************************)
EXTENDS Naturals, Sequences

CONSTANTS
    EvClient,          \* user clients of the driver
    EvNobody,
    EvDepth,           \* entries_, 8 in the code
    EvGenerationMax,   \* UINT64_MAX of generation_
    EvOperations,      \* association attempts of a run
    EvFrames           \* bound on the frames heard in one binding

ASSUME EvAssumption ==
    /\ EvNobody \notin EvClient
    /\ EvDepth \in Nat \ {0}
    /\ EvGenerationMax \in Nat /\ EvGenerationMax >= 3
    /\ EvOperations \in Nat /\ EvFrames \in Nat

VARIABLES
    \* authevents::Queue
    evOwner, evGeneration, evOperation, evActive, evOverflow, evEntries, evDropped,
    \* MacNetworkState: enabled and sound, the recorded association, and
    \* whether a selection is pending.
    evUp, evAuth, evSelecting,
    \* The station: attempts so far, its association token, and whether its
    \* state is one of those currentAssociation() lists.
    evAttempts, evAssociation, evAssociating,
    \* For the properties: frames heard since the binding, events handed out
    \* in this generation, and the last of them.
    evHeard, evSeen, evLast

evQueue == <<evOwner, evGeneration, evOperation, evActive, evOverflow, evEntries, evDropped>>
evStation == <<evAttempts, evAssociation, evAssociating>>
evController == <<evUp, evAuth, evSelecting, evStation>>
evReader == <<evHeard, evSeen, evLast>>
evVars == <<evQueue, evController, evReader>>

EvInit ==
    /\ evOwner = EvNobody /\ evGeneration = 0 /\ evOperation = 0
    /\ evActive = FALSE /\ evOverflow = FALSE /\ evEntries = <<>> /\ evDropped = 0
    /\ evUp = FALSE /\ evAuth = 0 /\ evSelecting = FALSE
    /\ evAttempts = 0 /\ evAssociation = 0 /\ evAssociating = FALSE
    /\ evHeard = 0 /\ evSeen = 0 /\ evLast = 0

----------------------------------------------------------------------------
(* authevents::Queue                                                       *)

EvOwned(who) == who \in EvClient /\ evOwner = who
EvNeedsBinding == evOwner # EvNobody /\ ~evActive /\ ~evOverflow

\* bump(): zero is not a generation.
EvNext64(g) == IF g = EvGenerationMax THEN 1 ELSE g + 1

\* A stream that is cleared without a new generation.
EvForgetSilently(owner) ==
    /\ evOwner' = owner
    /\ evEntries' = <<>> /\ evActive' = FALSE /\ evOverflow' = FALSE
    /\ evOperation' = 0 /\ evDropped' = 0
    /\ UNCHANGED evGeneration
    /\ evHeard' = 0 /\ evSeen' = 0 /\ evLast' = 0

\* invalidate(), with the owner it leaves.
EvInvalidate(owner) ==
    /\ evOwner' = owner
    /\ evEntries' = <<>> /\ evActive' = FALSE /\ evOverflow' = FALSE
    /\ evOperation' = 0 /\ evDropped' = 0
    /\ evGeneration' = EvNext64(evGeneration)
    /\ evHeard' = 0 /\ evSeen' = 0 /\ evLast' = 0

\* bind() in the given generation: invalidates, and then refuses what cannot
\* be an association.
EvBind(owner, operation, generation) ==
    /\ evOwner' = owner
    /\ evEntries' = <<>> /\ evOverflow' = FALSE /\ evDropped' = 0
    /\ \/ evActive' = TRUE /\ evOperation' = operation
       \/ evActive' = FALSE /\ evOperation' = 0
    /\ evGeneration' = EvNext64(generation)
    /\ evHeard' = 0 /\ evSeen' = 0 /\ evLast' = 0

\* loss(): a frame that does not fit ends the stream.
EvLoss ==
    /\ evDropped' = Len(evEntries) + 1
    /\ evEntries' = <<>> /\ evOverflow' = TRUE
    /\ UNCHANGED <<evOwner, evGeneration, evOperation, evActive>>

\* The usual ring buffer instead: the oldest entry makes room.
EvKeepsNewest ==
    /\ evEntries' = Append(Tail(evEntries), evHeard + 1)
    /\ UNCHANGED <<evOwner, evGeneration, evOperation, evActive, evOverflow, evDropped>>

EvStore(fits) ==
    IF fits /\ Len(evEntries) < EvDepth
    THEN /\ evEntries' = Append(evEntries, evHeard + 1)
         /\ UNCHANGED <<evOwner, evGeneration, evOperation, evActive, evOverflow, evDropped>>
    ELSE EvLoss

----------------------------------------------------------------------------
(* MacNetworkController.cpp                                                *)

\* deliver() hands every frame to observe() before anything else.
EvObserveWith(store) ==
    /\ evUp /\ evActive /\ ~evOverflow /\ evHeard < EvFrames
    /\ store
    /\ evHeard' = evHeard + 1
    /\ UNCHANGED <<evController, evSeen, evLast>>

EvObserveOverwrites(fits) ==
    EvObserveWith(IF fits /\ Len(evEntries) = EvDepth THEN EvKeepsNewest ELSE EvStore(fits))

EvObserve(fits) == EvObserveWith(EvStore(fits))

\* currentAssociation() and the rest of bindAuthenticationEventsIfReady().
EvCurrent == evAssociating /\ ~evSelecting /\ evAuth # 0 /\ evAuth = evAssociation

\* authenticationControl(captureBegin): a new owner, whose enable() begins a
\* generation, bound at once if possible.
EvCaptureBegin(c) ==
    /\ evUp /\ evOwner = EvNobody
    /\ IF EvCurrent THEN EvBind(c, evAuth, EvNext64(evGeneration)) ELSE EvInvalidate(c)
    /\ UNCHANGED evController

EvCaptureRead(c) ==
    /\ evUp /\ EvOwned(c) /\ evEntries # <<>>
    /\ evEntries' = Tail(evEntries)
    /\ evLast' = Head(evEntries) /\ evSeen' = evSeen + 1
    /\ UNCHANGED <<evOwner, evGeneration, evOperation, evActive, evOverflow, evDropped,
                   evController, evHeard>>

EvCaptureEnd(c) ==
    /\ EvOwned(c)
    /\ EvInvalidate(EvNobody)
    /\ UNCHANGED evController

\* beginAuthentication(): the station has tuned to the peer of a new attempt.
EvBeginAuthentication ==
    /\ evUp /\ evAssociation # 0 /\ evAssociation # evAuth
    /\ evAuth' = evAssociation /\ evAssociating' = TRUE
    /\ IF evOwner # EvNobody THEN EvBind(evOwner, evAssociation, evGeneration)
       ELSE UNCHANGED <<evQueue, evReader>>
    /\ UNCHANGED <<evUp, evSelecting, evAttempts, evAssociation>>

\* The queue outlives the attempt it was bound to.
EvCancelKeepsStream ==
    /\ evAssociation # 0
    /\ evAssociation' = 0 /\ evAssociating' = FALSE
    /\ UNCHANGED <<evQueue, evReader, evUp, evAuth, evSelecting, evAttempts>>

\* cancelProtocol(): the station gives up the attempt or the link, and is
\* idle once its tables are removed.
EvCancelProtocol ==
    /\ evAssociation # 0
    /\ evAssociation' = 0 /\ evAssociating' = FALSE
    /\ EvInvalidate(evOwner)
    /\ UNCHANGED <<evUp, evAuth, evSelecting, evAttempts>>

\* queueSelection() and applyPendingSelection(); the station is told to
\* disconnect, which reaches cancelProtocol() then or later.
EvSelect(waiting) ==
    /\ evUp /\ evSelecting' = waiting
    /\ UNCHANGED <<evQueue, evReader, evUp, evAuth, evStation>>

\* The poll.
EvPoll ==
    /\ EvNeedsBinding /\ EvCurrent
    /\ EvBind(evOwner, evAuth, evGeneration)
    /\ UNCHANGED evController

EvEnable ==
    /\ ~evUp /\ evUp' = TRUE
    /\ UNCHANGED <<evQueue, evReader, evAuth, evSelecting, evStation>>

\* fail(), shutdown() and a disable of the interface end the capture; the
\* station gives up its association afterwards.
EvDown ==
    /\ evUp /\ evUp' = FALSE
    /\ EvInvalidate(EvNobody)
    /\ evSelecting' = FALSE
    /\ UNCHANGED <<evAuth, evStation>>

\* StationController::connect(), and a scan that leaves a link and comes back.
EvConnect ==
    /\ evUp /\ evAssociation = 0 /\ evAttempts < EvOperations
    /\ evAttempts' = evAttempts + 1 /\ evAssociation' = evAttempts + 1
    /\ UNCHANGED <<evQueue, evReader, evUp, evAuth, evSelecting, evAssociating>>

EvScan ==
    /\ evAssociation # 0 /\ evAssociation = evAuth
    /\ evAssociating' = ~evAssociating
    /\ UNCHANGED <<evQueue, evReader, evUp, evAuth, evSelecting, evAttempts, evAssociation>>

EvNext ==
    \/ \E fits \in BOOLEAN : EvObserve(fits)
    \/ \E c \in EvClient : EvCaptureBegin(c) \/ EvCaptureRead(c) \/ EvCaptureEnd(c)
    \/ EvBeginAuthentication \/ EvCancelProtocol \/ EvPoll
    \/ \E waiting \in BOOLEAN : EvSelect(waiting)
    \/ EvEnable \/ EvDown \/ EvConnect \/ EvScan

EvSpec == EvInit /\ [][EvNext]_evVars

----------------------------------------------------------------------------
(* Properties                                                              *)

\* The type invariant.
EvTypeOK ==
    /\ evOwner \in EvClient \cup {EvNobody}
    /\ evGeneration \in 0..EvGenerationMax
    /\ evActive \in BOOLEAN /\ evOverflow \in BOOLEAN
    /\ evEntries \in Seq(Nat) /\ Len(evEntries) <= EvDepth
    /\ evDropped \in 0..EvDepth + 1
    /\ evUp \in BOOLEAN /\ evAssociating \in BOOLEAN /\ evSelecting \in BOOLEAN
    /\ evAuth \in Nat /\ evAssociation \in Nat /\ evOperation \in Nat /\ evAttempts \in Nat
    /\ evHeard \in Nat /\ evSeen \in Nat /\ evLast \in Nat

\* A live stream is whole: what was handed out and what is queued are the
\* frames heard since the binding, in order; and a stream that lost a frame
\* holds nothing more and says how many it lost (loss(), "never silently
\* return a partial transcript").
EvWhole ==
    /\ ~evOverflow =>
         /\ evHeard = evSeen + Len(evEntries)
         /\ \A i \in 1..Len(evEntries) : evEntries[i] = evSeen + i
    /\ evOverflow => evEntries = <<>> /\ evHeard = evSeen + evDropped

\* The stream is of the association under way, never of an earlier one: every
\* path that ends an attempt empties the queue before the next can fill it.
EvOfThisAssociation ==
    evActive => /\ evOwner # EvNobody
                /\ evOperation # 0 /\ evOperation = evAssociation

\* The queue implements the promise of EventTranscript: the generation changes
\* whenever the frames a reader has seen are not followed by the next one.
Transcript == INSTANCE EventTranscript WITH
    generation <- evGeneration, heard <- evHeard, seen <- evSeen,
    last <- evLast, lost <- evOverflow
EvImplementsTranscript == Transcript!Spec
=============================================================================
