----------------------------- MODULE ScanResults -----------------------------
\* The WCL scan front end: a request message is decoded (NativeWclScan), mapped
\* to a plan (NativeWclScanPlan) and admitted by the controller; when its scan is
\* complete, nativewclresults::Bridge hands the networks of that snapshot out one
\* frame at a time, reserve and commit.  The scan and the snapshot it publishes
\* are the ones of ForegroundScan and ScanSnapshot, reduced to what the bridge
\* reads of them.  Other scans replace the snapshot at any time in between, and
\* the caller uses frames and tokens late.
EXTENDS Naturals, Sequences, FiniteSets

CONSTANTS
    WrActiveDwells, WrPassiveDwells,    \* dwell times asked for, in ms
    WrChannels,    \* channel numbers asked for
    WrPassive,     \* channels the boot policy permits
    WrActive,      \* those among them that may be probed
    WrNetworks,    \* bound: networks one scan finds
    WrScans        \* bound: scans, and snapshots, of one run

ASSUME WrAssumption == WrActive \subseteq WrPassive /\ WrScans \in Nat

VARIABLES
    wrScan,        \* foregroundscan::Status
    wrStore,       \* the completed snapshot
    wrRequest,     \* wclRequest, wclRequestToken and wclRequestValid
    wrBridge,      \* the Bridge
    wrFrame,       \* the frame the caller got last
    wrUp,          \* neither faulted nor stopping
    wrSent         \* frames accepted for the request being delivered

wrVars == <<wrScan, wrStore, wrRequest, wrBridge, wrFrame, wrUp, wrSent>>

WrRange(s) == {s[i] : i \in 1 .. Len(s)}
\* Messages of one or two channels.
WrMessages ==
    [mode : {"active", "passive"}, bss : {"infrastructure", "any"}, activeDwell : WrActiveDwells,
     passiveDwell : WrPassiveDwells, home : BOOLEAN,
     channels : WrChannels \X WrChannels \cup {<<c>> : c \in WrChannels}]
\* What a scan finds: for each network, is it infrastructure.
WrResults == UNION {[1 .. n -> BOOLEAN] : n \in 0 .. WrNetworks}
WrNoMessage == [mode |-> "none", bss |-> "any", activeDwell |-> 0, passiveDwell |-> 0,
                home |-> FALSE, channels |-> <<>>]
WrNoPlan == [active |-> FALSE, dwell |-> 0, channels |-> <<>>]
WrNoRequest == [token |-> 0, valid |-> FALSE, message |-> WrNoMessage]
WrNoFrame == [request |-> 0, snapshot |-> 0, delivery |-> 0, done |-> FALSE, ordinal |-> 0]
WrIdle == [phase |-> "idle", request |-> 0, snapshot |-> 0, indices |-> <<>>, cursor |-> 0,
           pending |-> WrNoFrame]

WrInit ==
    /\ wrScan = [token |-> 0, phase |-> "none", snapshot |-> 0, plan |-> WrNoPlan]
    /\ wrStore = [token |-> 0, found |-> <<>>, channels |-> <<>>]
    /\ wrRequest = WrNoRequest /\ wrFrame = WrNoFrame /\ wrUp = TRUE /\ wrSent = <<>>
    /\ wrBridge = [draft |-> WrIdle, lastArmed |-> 0, delivery |-> 0]

----------------------------------------------------------------------------
(* The request. *)

WrDistinct(s) == Cardinality(WrRange(s)) = Len(s)
WrDwell(m) == IF m.mode = "active" THEN m.activeDwell ELSE m.passiveDwell
\* Mutant: every plan dwells as long as an active one.
WrDwellActive(m) == m.activeDwell

\* nativewclscan::decode under the policy beginWclScan builds.
WrDecodes(m) ==
    /\ m.mode \in {"active", "passive"} /\ m.bss \in {"infrastructure", "any"}
    /\ Len(m.channels) > 0 /\ WrDistinct(m.channels)
    /\ WrRange(m.channels) \subseteq (IF m.mode = "active" THEN WrActive ELSE WrPassive)
    /\ m.activeDwell \in 1 .. 1000 /\ m.passiveDwell \in 1 .. 1000

\* nativewclscanplan::map: nothing is planned that the scanner would do otherwise.
WrPlanDwell(m) == WrDwell(m)
WrPlans(m) == WrDecodes(m) /\ ~m.home /\ WrPlanDwell(m) >= 10
WrPlan(m) == [active |-> m.mode = "active", dwell |-> WrPlanDwell(m), channels |-> m.channels]

----------------------------------------------------------------------------
(* The controller's hold on a draft. *)

WrAborted(b) ==
    IF b.draft.phase \in {"ready", "reserved"}
    THEN [b EXCEPT !.draft.phase = "aborted", !.draft.pending = WrNoFrame] ELSE b
WrRetired(b) ==
    IF b.draft.phase \in {"completed", "aborted"} THEN [b EXCEPT !.draft = WrIdle] ELSE b

\* abortWclDraft: the token stays until the front end retires it.
WrAbortDraft ==
    /\ wrBridge' = WrAborted(wrBridge)
    /\ wrRequest' = [WrNoRequest EXCEPT !.token = wrRequest.token]

\* Mutant: a finished draft is cleared and an unfinished one is left to its caller.
WrSupersededRetiring(b) == WrRetired(b)
\* supersedeWclDraft.
WrSuperseded(b) == WrRetired(WrAborted(b))

\* beginForeground for a WCL request, or for another caller's scan (m is WrNoMessage).
\* Admission replaces the draft even when the first dwell then fails to start.
WrBegin(m, starts) ==
    /\ wrUp /\ wrScan.phase # "running" /\ wrScan.token < WrScans
    /\ m # WrNoMessage => WrPlans(m)
    /\ wrBridge' = WrSuperseded(wrBridge)
    /\ wrScan' = [token |-> wrScan.token + 1, phase |-> IF starts THEN "running" ELSE "failed",
                  snapshot |-> 0,
                  plan |-> IF m # WrNoMessage THEN WrPlan(m)
                           ELSE [active |-> FALSE, dwell |-> 100, channels |-> <<1>>]]
    /\ wrRequest' = IF m # WrNoMessage /\ starts
                    THEN [token |-> wrScan.token + 1, valid |-> TRUE, message |-> m]
                    ELSE WrNoRequest
    /\ UNCHANGED <<wrStore, wrFrame, wrUp, wrSent>>

\* advanceForeground with all channels done: the snapshot is published, or the
\* observer refuses and the scan fails.
WrCompletes(found) ==
    /\ wrUp /\ wrScan.phase = "running" /\ wrStore.token < WrScans + 1
    /\ wrStore' = [token |-> wrStore.token + 1, found |-> found, channels |-> wrScan.plan.channels]
    /\ wrScan' = [wrScan EXCEPT !.phase = "complete", !.snapshot = wrStore.token + 1]
    /\ UNCHANGED <<wrRequest, wrBridge, wrFrame, wrUp, wrSent>>

\* Cancellation, expiry, a failed dwell, a selection and disable: the scan ends
\* if one is running, and the draft is aborted in any case.
WrCancelled ==
    /\ wrUp
    /\ wrScan' = IF wrScan.phase = "running" THEN [wrScan EXCEPT !.phase = "failed"] ELSE wrScan
    /\ WrAbortDraft
    /\ UNCHANGED <<wrStore, wrFrame, wrUp, wrSent>>

\* fail() and shutdown().
WrDown ==
    /\ wrUp /\ wrUp' = FALSE
    /\ wrScan' = IF wrScan.phase = "running" THEN [wrScan EXCEPT !.phase = "failed"] ELSE wrScan
    /\ WrAbortDraft
    /\ UNCHANGED <<wrStore, wrFrame, wrSent>>

\* A scan of net80211's own publishes its snapshot.
WrOtherSnapshot(found) ==
    /\ wrUp /\ wrScan.phase # "running" /\ wrStore.token < WrScans + 1
    /\ wrStore' = [token |-> wrStore.token + 1, found |-> found, channels |-> <<1>>]
    /\ UNCHANGED <<wrScan, wrRequest, wrBridge, wrFrame, wrUp, wrSent>>

----------------------------------------------------------------------------
(* The bridge, through the controller. *)

WrKnows(token) == wrUp /\ token # 0 /\ token = wrRequest.token

WrSame == wrScan.phase = "complete" /\ wrStore.token = wrScan.snapshot
WrValidRequest ==
    LET m == wrRequest.message IN
    /\ wrScan.plan.active = (m.mode = "active") /\ wrScan.plan.dwell = WrDwell(m) /\ ~m.home
    /\ wrStore.channels = m.channels
\* Bridge::current.
WrCurrent ==
    /\ WrSame /\ wrBridge.draft.request = wrScan.token
    /\ wrBridge.draft.snapshot = wrScan.snapshot
WrEligible == SelectSeq([i \in 1 .. Len(wrStore.found) |-> i],
                        LAMBDA i : wrRequest.message.bss = "any" \/ wrStore.found[i])

\* Bridge::begin.
WrArm(token) ==
    /\ WrKnows(token) /\ wrRequest.valid /\ wrBridge.draft.phase = "idle"
    /\ WrSame /\ WrValidRequest /\ wrBridge.lastArmed < wrScan.token
    /\ wrBridge' = [wrBridge EXCEPT !.lastArmed = wrScan.token,
                       !.draft = [WrIdle EXCEPT !.phase = "ready", !.request = wrScan.token,
                                     !.snapshot = wrScan.snapshot, !.indices = WrEligible]]
    /\ wrSent' = <<>>
    /\ UNCHANGED <<wrScan, wrStore, wrRequest, wrFrame, wrUp>>

\* Bridge::reserve; a snapshot that is no longer the request's aborts the draft.
WrReserve(token) ==
    /\ WrKnows(token) /\ wrRequest.valid /\ wrBridge.draft.phase = "ready"
    /\ IF WrCurrent
       THEN LET d == wrBridge.draft
                f == [request |-> d.request, snapshot |-> d.snapshot,
                      delivery |-> wrBridge.delivery + 1, done |-> d.cursor = Len(d.indices),
                      ordinal |-> d.cursor]
            IN /\ wrFrame' = f
               /\ wrBridge' = [wrBridge EXCEPT !.delivery = f.delivery,
                                  !.draft.pending = f, !.draft.phase = "reserved"]
       ELSE wrBridge' = WrAborted(wrBridge) /\ UNCHANGED wrFrame
    /\ UNCHANGED <<wrScan, wrStore, wrRequest, wrUp, wrSent>>

\* Mutant: the last network's frame ends the delivery.
WrAcceptLast(f) ==
    /\ wrBridge' = [wrBridge EXCEPT !.draft.pending = WrNoFrame, !.draft.cursor = @ + 1,
                       !.draft.phase = IF f.ordinal + 1 >= Len(wrBridge.draft.indices)
                                       THEN "completed" ELSE "ready"]
    /\ wrSent' = Append(wrSent, f)
WrMatches(f) == wrBridge.draft.phase = "reserved" /\ f = wrBridge.draft.pending
WrAccept(f) ==
    /\ wrBridge' = [wrBridge EXCEPT !.draft.pending = WrNoFrame,
                       !.draft.phase = IF f.done THEN "completed" ELSE "ready",
                       !.draft.cursor = IF f.done THEN @ ELSE @ + 1]
    /\ wrSent' = Append(wrSent, f)
\* Mutant: the frame is the one reserved, so it is taken.
WrCommitUnchecked(f, accepted) ==
    /\ WrMatches(f)
    /\ IF accepted THEN WrAccept(f) ELSE wrBridge' = WrAborted(wrBridge) /\ UNCHANGED wrSent
    /\ UNCHANGED <<wrScan, wrStore, wrRequest, wrFrame, wrUp>>
\* Bridge::commit.  accepted is the answer of the sender that copies the frame; the
\* controller has none yet and passes FALSE whatever its caller says.
WrCommit(f, accepted) ==
    /\ WrMatches(f)
    /\ IF accepted /\ WrCurrent
       THEN WrAccept(f) ELSE wrBridge' = WrAborted(wrBridge) /\ UNCHANGED wrSent
    /\ UNCHANGED <<wrScan, wrStore, wrRequest, wrFrame, wrUp>>

\* retireNativeWclScanResults.
WrRetire(token) ==
    /\ WrKnows(token)
    /\ ~(wrBridge.draft.phase = "idle" /\ wrRequest.valid /\ wrScan.phase = "running")
    /\ wrBridge' = WrRetired(WrAborted(wrBridge))
    /\ wrRequest' = WrNoRequest
    /\ UNCHANGED <<wrScan, wrStore, wrFrame, wrUp, wrSent>>

WrNext ==
    \/ \E m \in WrMessages \cup {WrNoMessage}, starts \in BOOLEAN : WrBegin(m, starts)
    \/ \E found \in WrResults : WrCompletes(found) \/ WrOtherSnapshot(found)
    \/ WrCancelled \/ WrDown
    \/ \E token \in 1 .. WrScans : WrArm(token) \/ WrReserve(token) \/ WrRetire(token)
    \/ \E accepted \in BOOLEAN : WrCommit(wrFrame, accepted)

----------------------------------------------------------------------------
(* Properties. *)

\* A request that was admitted can be armed once its scan is complete and its
\* snapshot is still there: decoder, planner, scanner and bridge read the same
\* request the same way.
WrAdmittedIsArmable ==
    wrRequest.valid /\ WrSame /\ wrScan.token = wrRequest.token => WrValidRequest

\* A draft lives only as long as its request: cancellation, a selection, a
\* newer scan of any caller and a fault leave none that could still be reserved.
WrDraftNeedsRequest ==
    wrBridge.draft.phase \in {"ready", "reserved"} =>
        wrRequest.valid /\ wrRequest.token = wrBridge.draft.request

\* The frames accepted for a request are its networks in order, each once, then
\* the done event, all of the snapshot it was armed with.
WrFramesInOrder ==
    /\ \A i \in 1 .. Len(wrSent) :
          /\ wrSent[i].ordinal = i - 1
          /\ wrSent[i].snapshot = wrSent[1].snapshot /\ wrSent[i].request = wrSent[1].request
          /\ wrSent[i].done => i = Len(wrSent)
    /\ wrBridge.draft.phase = "completed" => Len(wrSent) = Len(wrBridge.draft.indices) + 1

\* No frame is accepted as a result of the current scan once another snapshot
\* took the place of the one it was encoded from.
WrNoStaleFrame ==
    [][wrSent' # wrSent /\ wrSent' # <<>> =>
          /\ wrSent'[Len(wrSent')].snapshot = wrStore.token
          /\ wrSent'[Len(wrSent')].request = wrScan.token]_wrVars
=============================================================================
