--------------------------- MODULE ForegroundScan ---------------------------
(***************************************************************************)
(* Scanning on request: the request's owner (NativeForegroundScan.hpp),    *)
(* the observer and its two-bank cache (NativeScanObservation.hpp,         *)
(* NativeScanCache.hpp), the probe frame of an active dwell                *)
(* (NativeScanProbeTx.hpp) and the code of MacNetworkController that joins *)
(* them to the station and to net80211's own scans, which use the same     *)
(* observer.                                                               *)
(*                                                                         *)
(* Everything runs under one gate.  A poll is several steps because the    *)
(* station calls back in the middle of it.  The station is what this code  *)
(* sees of StationController: a scan it accepts is numbered, tunes, dwells *)
(* and restores home, or faults.  One firmware incarnation; reasons other  *)
(* than a timeout are one value, and a frame is who sent it, on which      *)
(* channel, and whether its elements fit.                                  *)
(***************************************************************************)
EXTENDS Integers, Sequences, FiniteSets

CONSTANTS
  Channel, Bssid,
  Plan,           \* channel plans a caller may ask for
  OrdinaryMode,   \* modes of net80211's own scans
  Timeout,        \* of a request, 120 s in the code
  MaxTime,        \* stands for UINT64_MAX microseconds
  ClockSteps,     \* how far the clock may move in one step
  MaxRequest,     \* stands for UINT64_MAX requests
  MaxGeneration,  \* stands for UINT64_MAX passes
  MaxOperation,   \* bound: scans the station is asked for
  MaxNetworks     \* entries of a bank, 64 in the code

ASSUME ConstantsAssumption ==
  /\ Plan \subseteq Seq(Channel) /\ <<>> \notin Plan
  /\ \A p \in Plan : \A i, j \in DOMAIN p : p[i] = p[j] => i = j
  /\ "foreground" \notin OrdinaryMode
  /\ Timeout \in Nat \ {0} /\ MaxTime \in Nat
  /\ ClockSteps \subseteq Int
  /\ MaxRequest \in Nat /\ MaxGeneration \in Nat /\ MaxOperation \in Nat
  /\ MaxNetworks \in Nat \ {0}

VARIABLES
  fg,       \* foregroundscan::Controller
  obs,      \* nativescan::Observer with its Store
  frame,    \* foregroundProbe: the probe's node and where its frame is
  sta,      \* the station's scan
  protocol, \* ic_state: "INIT", "SCAN" or "OTHER"
  deferred, \* the state net80211 is moved to once all is quiet, or "no"
  enabled, faulted, stopping,
  halted,   \* the hardware is proven to have stopped
  poll,     \* where poll() is
  finished, \* foregroundCompletedThisPoll
  now,
  tuned,    \* history: the channel of every scan the station accepted
  swept,    \* history: dwells that ended uncancelled, and their pass
  probed    \* history: dwells whose probe was reported sent

hostVars    == <<protocol, deferred, enabled, faulted, stopping, halted>>
pollVars    == <<poll, finished>>
historyVars == <<tuned, swept, probed>>
vars        == <<fg, obs, frame, sta, hostVars, pollVars, now, historyVars>>

----------------------------------------------------------------------------
(* Types. *)

Time       == 0 .. MaxTime
Dwell      == 0 .. MaxOperation      \* 0: none
Generation == 0 .. MaxGeneration
Mode       == OrdinaryMode \cup {"foreground"}
Phase == {"none", "queued", "scanning", "draining", "complete", "cancelled",
          "timedOut", "failed"}
ProbeState == {"none", "requested", "submitted", "completed"}

Entry == [bssid : Bssid, channel : Channel, at : Time, dwell : Dwell]
Bank  == [generation : Generation, channels : SUBSET Channel, at : Time,
          entries : SUBSET Entry]
EmptyBank == [generation |-> 0, channels |-> {}, at |-> 0, entries |-> {}]

Request ==
  [phase : Phase, reason : {"none", "timeout", "other"},
   request : 0 .. MaxRequest, started : Time, plan : Plan \cup {<<>>},
   done : Nat, active : BOOLEAN, probe : ProbeState, dwell : Dwell,
   last : Dwell, drained : BOOLEAN, snapshot : Generation]

Observer ==
  [open : BOOLEAN, blocked : BOOLEAN, pending : BOOLEAN, mode : Mode,
   plan : SUBSET Channel, done : SUBSET Channel, dwell : Dwell,
   channel : Channel \cup {"none"}, last : Dwell, generation : Generation,
   live : BOOLEAN, overflow : BOOLEAN, banks : [{0, 1} -> Bank],
   working : {0, 1}, published : {0, 1}, has : BOOLEAN]

\* The node exists in every state but "none"; it is dropped when only its
\* owner still refers to it.
FrameState == {"none", "queued", "dropped", "dma", "sent", "lost"}
ScanState  == {"tuning", "dwell", "restoring"}
Station ==
  [state : ScanState \cup {"idle", "busy", "faulted"}, op : Dwell,
   active : BOOLEAN, cancelled : BOOLEAN]

\* The type invariant: counters within their widths, the index within the
\* plan, and neither bank over its capacity.
TypeOK ==
  /\ fg \in Request /\ fg.done <= Len(fg.plan)
  /\ obs \in Observer
  /\ \A b \in {0, 1} : Cardinality(obs.banks[b].entries) <= MaxNetworks
  /\ frame \in [state : FrameState, op : Dwell]
  /\ sta \in Station
  /\ protocol \in {"INIT", "SCAN", "OTHER"}
  /\ deferred \in {"no", "INIT", "SCAN"}
  /\ {enabled, faulted, stopping, halted, finished} \subseteq BOOLEAN
  /\ poll \in {"no", "station", "protocol"}
  /\ now \in Time
  /\ tuned \in Seq(Channel) /\ Len(tuned) <= MaxOperation
  /\ swept \subseteq [op : Dwell, generation : Generation]
  /\ probed \subseteq Dwell

NoFrame == [state |-> "none", op |-> 0]
Home    == [state |-> "idle", op |-> 0, active |-> FALSE,
            cancelled |-> FALSE]

Init ==
  /\ fg = [phase |-> "none", reason |-> "none", request |-> 0,
           started |-> 0, plan |-> <<>>, done |-> 0, active |-> FALSE,
           probe |-> "none", dwell |-> 0, last |-> 0, drained |-> FALSE,
           snapshot |-> 0]
  /\ obs = [open |-> FALSE, blocked |-> FALSE, pending |-> FALSE,
            mode |-> "foreground", plan |-> {}, done |-> {}, dwell |-> 0,
            channel |-> "none", last |-> 0, generation |-> 0,
            live |-> FALSE, overflow |-> FALSE,
            banks |-> [b \in {0, 1} |-> EmptyBank], working |-> 0,
            published |-> 1, has |-> FALSE]
  /\ frame = NoFrame /\ sta = Home
  /\ protocol = "INIT" /\ deferred = "no" /\ enabled = TRUE
  /\ faulted = FALSE /\ stopping = FALSE /\ halted = FALSE
  /\ poll = "no" /\ finished = FALSE
  /\ now = 0
  /\ tuned = <<>> /\ swept = {} /\ probed = {}

----------------------------------------------------------------------------
(* foregroundscan::Controller. *)

Active(f)        == f.phase \in {"queued", "scanning", "draining"}
Observing(f, op) == f.phase = "scanning" /\ f.dwell = op /\ op # 0
Owns(f, op)      == Active(f) /\ f.dwell = op /\ op # 0
Late(f)          == now >= f.started + Timeout
ClockValid(f)    == Active(f) => now >= f.started

EndCancellation(f) ==
  [f EXCEPT !.phase = IF f.reason = "timeout" THEN "timedOut"
                                              ELSE "cancelled",
            !.drained = TRUE, !.dwell = 0]

\* Mutant: a cancelled request is over at once.
CancelAtOnce(f, why) ==
  IF Active(f) /\ f.phase # "draining"
    THEN EndCancellation([f EXCEPT !.reason = why, !.snapshot = 0])
    ELSE f

\* The first cause is kept; with a dwell under way the request drains.
Cancel(f, why) ==
  LET c == [f EXCEPT !.reason = why, !.snapshot = 0]
  IN CASE ~Active(f) \/ f.phase = "draining" -> f
       [] Active(f) /\ f.phase # "draining" /\ f.dwell # 0 ->
            [c EXCEPT !.phase = "draining"]
       [] OTHER -> EndCancellation(c)

Expires(f) == Active(f) /\ f.phase # "draining" /\ Late(f)

FailRequest(f) ==
  IF Active(f)
    THEN [f EXCEPT !.phase = "failed", !.reason = "other", !.snapshot = 0,
                   !.drained = (f.dwell = 0)]
    ELSE f

\* begin() for an admitted request.
Begun(plan, active) ==
  [phase |-> "queued", reason |-> "none", request |-> fg.request + 1,
   started |-> now, plan |-> plan, done |-> 0, active |-> active,
   probe |-> "none", dwell |-> 0, last |-> fg.last, drained |-> TRUE,
   snapshot |-> 0]

Accepted(f, op) ==
  [f EXCEPT !.phase = "scanning", !.dwell = op, !.last = op,
            !.probe = "none", !.drained = FALSE]

\* channelFinished() for the request that owns the dwell.
ChannelFinished(f, cancelled) ==
  LET e == IF Expires(f) THEN Cancel(f, "timeout") ELSE f
      h == [e EXCEPT !.dwell = 0, !.drained = TRUE]
  IN CASE ~ClockValid(f) -> FailRequest(f)
       [] ClockValid(f) /\ e.phase = "draining" -> EndCancellation(h)
       [] ClockValid(f) /\ e.phase # "draining" /\ cancelled ->
            EndCancellation([h EXCEPT !.reason = "other"])
       [] ClockValid(f) /\ e.phase # "draining" /\ ~cancelled
            /\ f.active /\ f.probe # "completed" -> FailRequest(h)
       [] OTHER -> [h EXCEPT !.done = @ + 1, !.phase = "queued"]

HardwareStopped(f) ==
  CASE Active(f) -> EndCancellation([f EXCEPT !.reason =
                      IF @ = "none" THEN "other" ELSE @])
    [] f.phase = "failed" -> [f EXCEPT !.dwell = 0, !.drained = TRUE]
    [] OTHER -> f

----------------------------------------------------------------------------
(* nativescan::Store and nativescan::Observer. *)

\* Store::cancel.
Discard(o) ==
  IF o.live
    THEN [o EXCEPT !.live = FALSE, !.banks[o.working] = EmptyBank]
    ELSE o

Block(o) ==
  [Discard(o) EXCEPT !.blocked = TRUE, !.pending = FALSE, !.dwell = 0]

CancelPass(o) ==
  [Discard(o) EXCEPT !.open = FALSE, !.blocked = FALSE, !.pending = FALSE,
                     !.dwell = 0, !.plan = {}]

\* Observer::begin; an invalid plan comes as the empty one.
BeginPass(o, mode, plan) ==
  LET b == [o EXCEPT !.open = TRUE, !.blocked = FALSE, !.pending = FALSE,
                     !.dwell = 0, !.done = {}, !.plan = {}]
  IN CASE o.open -> o
       [] ~o.open /\ o.generation = MaxGeneration -> Block(b)
       [] ~o.open /\ o.generation < MaxGeneration /\ plan = {} ->
            Block([b EXCEPT !.generation = @ + 1, !.mode = mode])
       [] OTHER ->
            [b EXCEPT !.generation = @ + 1, !.mode = mode, !.live = TRUE,
                      !.overflow = FALSE, !.plan = plan,
                      !.banks[b.working] =
                        [EmptyBank EXCEPT !.channels = plan]]

AcceptChannel(o, mode, c, op) ==
  CASE ~o.open \/ o.blocked -> o
    [] o.open /\ ~o.blocked /\
       (o.pending \/ mode # o.mode \/ op <= o.last \/ c \notin o.plan
          \/ c \in o.done) -> Block(o)
    [] OTHER -> [o EXCEPT !.last = op, !.dwell = op, !.channel = c,
                          !.pending = TRUE]

SameNetwork(a, b) == a.bssid = b.bssid /\ a.channel = b.channel

\* Store::add of a well-formed observation.  The mutant has no limit.
AddUnbounded(o, e, fits) ==
  [o EXCEPT !.banks[o.working].entries =
     {x \in @ : ~SameNetwork(x, e)} \cup {e}]
Add(o, e, fits) ==
  LET bank   == o.banks[o.working]
      others == {x \in bank.entries : ~SameNetwork(x, e)}
      known  == {x \in bank.entries : SameNetwork(x, e)}
  IN CASE o.overflow -> o
       [] ~o.overflow /\ ~fits -> [o EXCEPT !.overflow = TRUE]
       [] ~o.overflow /\ fits /\ \E x \in known : e.at <= x.at -> o
       [] ~o.overflow /\ fits /\ known = {}
            /\ Cardinality(others) = MaxNetworks ->
            [o EXCEPT !.overflow = TRUE]
       [] OTHER -> [o EXCEPT !.banks[o.working].entries = others \cup {e}]

\* Observer::channelFinished.
Sweeps(o, op) == o.open /\ ~o.blocked /\ o.pending /\ o.dwell = op
FinishChannel(o, op, cancelled) ==
  CASE ~Sweeps(o, op) -> o
    [] Sweeps(o, op) /\ cancelled -> CancelPass(o)
    [] OTHER -> [o EXCEPT !.done = @ \cup {o.channel}, !.pending = FALSE,
                          !.dwell = 0]

\* Observer::finish: what is published is the whole working bank, and the
\* banks change places.  The mutant publishes a pass that lost something.
PublishableLossy(o, mode) ==
  /\ o.open /\ ~o.blocked /\ ~o.pending /\ mode = o.mode
  /\ o.live /\ o.done = o.plan
Publishable(o, mode) ==
  /\ o.open /\ ~o.blocked /\ ~o.pending /\ mode = o.mode
  /\ o.live /\ o.done = o.plan /\ ~o.overflow
  /\ o.has => now >= o.banks[o.published].at
  /\ \A e \in o.banks[o.working].entries : e.at <= now

PublishPass(o) ==
  [o EXCEPT !.banks[o.working].generation = o.generation,
            !.banks[o.working].at = now,
            !.published = o.working, !.working = 1 - o.working,
            !.has = TRUE, !.live = FALSE]

FinishPass(o, mode) ==
  IF Publishable(o, mode) THEN CancelPass(PublishPass(o)) ELSE CancelPass(o)

----------------------------------------------------------------------------
(* What several handlers of MacNetworkController do. *)

\* fail(): the driver stops working for good.
Fault(f, o) ==
  /\ faulted' = TRUE /\ enabled' = FALSE
  /\ fg' = FailRequest(f) /\ obs' = CancelPass(o)
  /\ UNCHANGED <<protocol, deferred, stopping, halted>>

FaultedStation(s) == [s EXCEPT !.state = "faulted"]

\* dropForegroundHostProbe(): a frame the device has not got is taken back.
Drop(fr) == IF fr.state = "queued" THEN [fr EXCEPT !.state = "dropped"] ELSE fr

\* StationController::cancelScan, which on its way home also closes
\* admission and so drops the frame.  The mutant forgets a cancellation that
\* comes during the tune.
CancelledScanTuning(s) ==
  IF s.state = "dwell" THEN [s EXCEPT !.cancelled = TRUE,
                                      !.state = "restoring"]
                       ELSE s
CancelledScan(s) ==
  [s EXCEPT !.cancelled = TRUE,
            !.state = IF @ = "dwell" THEN "restoring" ELSE @]
\* StationController::disconnect.
Disconnected(s) == IF s.state \in ScanState THEN CancelledScan(s) ELSE s

\* cancelForeground(why, true): the station goes home, or cannot and faults.
CancelForeground(f, o, fr, s, why) ==
  LET c == Cancel(f, why)
  IN /\ frame' = Drop(fr)
     /\ \/ /\ fg' = c /\ obs' = CancelPass(o)
           /\ sta' = IF c.phase = "draining" THEN CancelledScan(s) ELSE s
           /\ UNCHANGED hostVars
        \/ /\ c.phase = "draining"
           /\ Fault(c, o) /\ sta' = FaultedStation(s)

\* expireForegroundHardware().
ExpireForeground == CancelForeground(fg, obs, frame, sta, "timeout")

\* submitForegroundChannel(), the station accepting the scan or faulting.
SubmitChannel(f, o) ==
  LET c  == f.plan[f.done + 1]
      op == Len(tuned) + 1
      s  == [state |-> "tuning", op |-> op, active |-> f.active,
             cancelled |-> FALSE]
      o1 == AcceptChannel(o, "foreground", c, op)
  IN \/ /\ op <= MaxOperation
        /\ tuned' = Append(tuned, c)
        /\ IF o1.pending
             THEN /\ fg' = Accepted(f, op) /\ obs' = o1 /\ sta' = s
                  /\ UNCHANGED <<frame, hostVars>>
             ELSE CancelForeground(Accepted(f, op), o1, frame, s, "other")
        /\ UNCHANGED <<swept, probed>>
     \/ /\ Fault(f, o) /\ sta' = FaultedStation(sta)
        /\ UNCHANGED <<frame, historyVars>>

Idle == poll = "no" /\ ~faulted /\ ~stopping

----------------------------------------------------------------------------
(* Requests. *)

\* beginForeground() once Readiness and the plan have been accepted.
BeginForeground(plan, active) ==
  /\ Idle /\ enabled
  /\ sta.state = "idle" /\ protocol = "INIT" /\ deferred = "no"
  /\ ~obs.open /\ frame.state = "none"
  /\ ~Active(fg) /\ fg.dwell = 0
  /\ fg.request < MaxRequest /\ now + Timeout <= MaxTime
  /\ LET f == Begun(plan, active)
         o == BeginPass(obs, "foreground", {plan[i] : i \in DOMAIN plan})
     IN \/ o.live /\ SubmitChannel(f, o)
        \/ /\ ~o.live
           /\ fg' = FailRequest(f) /\ obs' = CancelPass(o)
           /\ UNCHANGED <<frame, sta, hostVars, historyVars>>
  /\ UNCHANGED <<pollVars, now>>

\* cancelMacNetworkForegroundScan().
CancelRequest ==
  /\ Idle /\ Active(fg)
  /\ CancelForeground(fg, obs, frame, sta, "other")
  /\ UNCHANGED <<pollVars, now, historyVars>>

----------------------------------------------------------------------------
(* poll(), first part: the clock and the deadline. *)

PollStart ==
  /\ Idle
  /\ finished' = FALSE
  /\ \/ /\ ~ClockValid(fg)
        /\ Fault(fg, obs) /\ UNCHANGED <<frame, sta, poll>>
     \/ /\ ClockValid(fg) /\ Expires(fg)
        /\ ExpireForeground
        /\ poll' = IF faulted' THEN "no" ELSE "station"
     \/ /\ ClockValid(fg) /\ ~Expires(fg)
        /\ poll' = "station"
        /\ UNCHANGED <<fg, obs, frame, sta, hostVars>>
  /\ UNCHANGED <<now, historyVars>>

\* The station's part: tick() and actionComplete(), with the callbacks.

\* sendProbe() schedules the probe of a request's dwell.
StationTunes ==
  LET mine   == Owns(fg, sta.op) /\ sta.active /\ ~sta.cancelled
      wanted == Observing(fg, sta.op) /\ fg.active /\ fg.probe = "none"
  IN /\ poll = "station" /\ sta.state = "tuning"
     /\ \/ /\ mine => wanted
           /\ fg' = IF mine THEN [fg EXCEPT !.probe = "requested"] ELSE fg
           /\ sta' = [sta EXCEPT !.state = IF sta.cancelled THEN "restoring"
                                                            ELSE "dwell"]
           /\ UNCHANGED <<obs, hostVars, pollVars>>
        \/ /\ mine /\ ~wanted
           /\ Fault(fg, obs) /\ sta' = FaultedStation(sta)
           /\ poll' = "no" /\ UNCHANGED finished
     /\ UNCHANGED <<frame, now, historyVars>>

StationDwellEnds ==
  /\ poll = "station" /\ sta.state = "dwell"
  /\ sta' = [sta EXCEPT !.state = "restoring"]
  /\ frame' = Drop(frame)
  /\ UNCHANGED <<fg, obs, hostVars, pollVars, now, historyVars>>

\* finishForegroundProbe(): the dwell's probe was sent, and nothing refers to
\* its node any more.
ProbeSucceeded(op) == frame.state = "sent" /\ frame.op = op
\* Mutant: a probe that was not sent counts.
ProbeOkUnsent(op, required) == frame.state # "dma"
ProbeOk(op, required) ==
  IF fg.active
    THEN frame.state # "dma" /\ (required => ProbeSucceeded(op))
    ELSE frame.state = "none"

\* Mutant: a request being cancelled no longer owns its dwell.
OwnsObserving(op) == Observing(fg, op)
OwnsDwell(op) == Owns(fg, op)

\* scanFinished() of a request's dwell.
ForegroundFinished(op, cancelled) ==
  LET cancelling == fg.phase = "draining" \/ Late(fg)
      whole      == ~cancelled /\ ~cancelling
      ok         == ProbeOk(op, whole)
      f1 == IF fg.active /\ whole /\ ok /\ fg.probe = "submitted"
              THEN [fg EXCEPT !.probe = "completed"] ELSE fg
      f2 == ChannelFinished(f1, cancelled)
      observed == whole /\ ok /\ Sweeps(obs, op)
  IN /\ fg' = IF whole /\ ~observed THEN FailRequest(f2) ELSE f2
     /\ obs' = IF observed THEN FinishChannel(obs, op, FALSE)
                           ELSE CancelPass(obs)
     /\ frame' = IF fg.active /\ frame.state # "dma" THEN NoFrame ELSE frame
     /\ finished' = TRUE

\* The last action of a scan is begun only after dataDrained().
DrainedAlways == TRUE
Drained       == frame.state # "dma"

StationFinishes ==
  /\ poll = "station" /\ sta.state = "restoring" /\ Drained
  /\ \/ OwnsDwell(sta.op) /\ ForegroundFinished(sta.op, sta.cancelled)
     \/ /\ ~OwnsDwell(sta.op)
        /\ obs' = FinishChannel(obs, sta.op, sta.cancelled)
        /\ UNCHANGED <<fg, frame, finished>>
  /\ sta' = Home
  /\ swept' = IF sta.cancelled \/ ~obs.open THEN swept
              ELSE swept \cup {[op |-> sta.op,
                                generation |-> obs.generation]}
  /\ UNCHANGED <<hostVars, poll, now, tuned, probed>>

\* An action or command of the station fails or misses its deadline, or the
\* firmware service does.
StationFaults ==
  /\ poll = "station"
  /\ Fault(fg, obs) /\ sta' = FaultedStation(sta)
  /\ poll' = "no"
  /\ UNCHANGED <<frame, finished, now, historyVars>>

----------------------------------------------------------------------------
(* poll(), the probe and deferred work. *)

\* foregroundProbeContext(), as far as it is not a matter of time.
ProbeContext(op) ==
  /\ enabled /\ protocol = "INIT" /\ sta.state = "dwell" /\ ~sta.cancelled
  /\ Observing(fg, op) /\ sta.op = op /\ ~Late(fg)

Submitted(op) ==
  /\ ProbeContext(op)
  /\ frame' = [state |-> "dma", op |-> op]
  /\ fg' = [fg EXCEPT !.probe = "submitted"]
  /\ UNCHANGED <<obs, sta, hostVars>>

\* pumpTx() on the probe: to the device; the ring is full; the dwell's time
\* is up; or preparing or publishing it fails.
Pump(op) ==
  \/ Submitted(op)
  \/ /\ ProbeContext(op)
     /\ frame' = [state |-> "queued", op |-> op]
     /\ UNCHANGED <<fg, obs, sta, hostVars>>
  \/ CancelForeground(fg, obs, [state |-> "dropped", op |-> op], sta, "other")
  \/ /\ Fault(fg, obs)
     /\ frame' = [state |-> "dropped", op |-> op]
     /\ UNCHANGED sta

\* serviceForegroundProbe(); when there is no probe to send, the deferred
\* change of net80211's state may be due.
PollProbe ==
  LET due   == Observing(fg, fg.dwell) /\ fg.active /\ fg.probe = "requested"
               /\ frame.state = "none"
      quiet == deferred # "no" /\ sta.state = "idle"
  IN /\ poll = "station"
     /\ \/ due /\ Pump(fg.dwell)
        \/ due /\ CancelForeground(fg, obs, frame, sta, "other")
        \/ /\ ~due
           /\ deferred' = IF quiet THEN "no" ELSE deferred
           /\ protocol' = IF quiet /\ (deferred = "INIT" \/ enabled)
                            THEN deferred ELSE protocol
           /\ UNCHANGED <<fg, obs, frame, sta, enabled, faulted, stopping,
                          halted>>
     /\ poll' = IF faulted' THEN "no" ELSE "protocol"
     /\ UNCHANGED <<finished, now, historyVars>>

----------------------------------------------------------------------------
(* poll(), last part: advanceForeground() and pumpTx(). *)

ReadyToFinish == fg.phase = "queued" /\ fg.done = Len(fg.plan)

\* complete() needs the snapshot that was published just now.
Finish ==
  LET published == Publishable(obs, "foreground")
  IN /\ obs' = FinishPass(obs, "foreground")
     /\ fg' = IF published
                THEN [fg EXCEPT !.phase = "complete", !.drained = TRUE,
                                !.snapshot = obs.generation]
                ELSE FailRequest(fg)
     /\ UNCHANGED <<frame, sta, hostVars, historyVars>>

\* The next channel cannot be asked for now (other traffic, a changed
\* channel policy): the request ends between channels.
Advance ==
  \/ ReadyToFinish /\ Finish
  \/ /\ fg.phase = "queued" /\ ~ReadyToFinish
     /\ \/ sta.state = "idle" /\ SubmitChannel(fg, obs)
        \/ /\ CancelForeground(fg, obs, frame, sta, "other")
           /\ UNCHANGED historyVars
  \/ /\ fg.phase = "scanning" /\ frame.state = "queued" /\ sta.state = "dwell"
     /\ Pump(frame.op) /\ UNCHANGED historyVars
  \/ /\ fg.phase = "scanning" /\ ~(frame.state = "queued" /\ sta.state = "dwell")
     /\ UNCHANGED <<fg, obs, frame, sta, hostVars, historyVars>>

PollEnd ==
  /\ poll = "protocol"
  /\ \/ /\ ~Active(fg) \/ fg.phase = "draining" \/ finished
        /\ UNCHANGED <<fg, obs, frame, sta, hostVars, historyVars>>
     \/ /\ Active(fg) /\ fg.phase # "draining" /\ ~finished
        /\ \/ /\ ~ClockValid(fg)
              /\ Fault(fg, obs) /\ UNCHANGED <<frame, sta, historyVars>>
           \/ /\ ClockValid(fg) /\ Expires(fg)
              /\ ExpireForeground
              /\ UNCHANGED historyVars
           \/ ClockValid(fg) /\ ~Expires(fg) /\ Advance
  /\ poll' = "no"
  /\ UNCHANGED <<finished, now>>

----------------------------------------------------------------------------
(* net80211's own scans and joins, and what stops them. *)

Free == poll \in {"no", "protocol"} /\ ~faulted /\ ~stopping

\* newState(INIT), queueSelection() and enableGated(off): the request and the
\* pass are cancelled, the station disconnects and net80211 is reset later.
ResetProtocol(off) ==
  /\ Free /\ (off => poll = "no")
  /\ LET f == Cancel(fg, "other")
     IN \/ /\ fg' = f /\ obs' = CancelPass(obs) /\ sta' = Disconnected(sta)
           /\ deferred' = "INIT" /\ enabled' = (enabled /\ ~off)
           /\ UNCHANGED <<protocol, faulted, stopping, halted>>
        \/ sta.state # "idle" /\ Fault(f, obs) /\ sta' = FaultedStation(sta)
  /\ frame' = Drop(frame)
  /\ poll' = IF faulted' THEN "no" ELSE poll
  /\ UNCHANGED <<finished, now, historyVars>>

\* enableGated(on).
Enable ==
  /\ Idle /\ ~enabled
  /\ enabled' = TRUE
  /\ UNCHANGED <<fg, obs, frame, sta, protocol, deferred, faulted, stopping,
                 halted, pollVars, now, historyVars>>

\* observeScanPlan(); an unusable plan comes as {}.
ObserveScanPlan(mode, plan) == BeginPass(obs, mode, plan)

\* newState(SCAN) with the station at home, from poll() or net80211's next
\* channel: the station scans one channel and the observer follows.
OrdinaryChannel(c, mode, plan) ==
  LET op == Len(tuned) + 1
      o  == ObserveScanPlan(mode, plan)
  IN /\ poll = "protocol" /\ enabled /\ ~Active(fg)
     /\ sta.state = "idle"
     /\ \/ protocol = "SCAN"
        \/ protocol = "INIT" /\ ~finished /\ deferred = "no"
     /\ plan # {} => c \in plan
     /\ \/ /\ op <= MaxOperation
           /\ sta' = [state |-> "tuning", op |-> op, active |-> FALSE,
                      cancelled |-> FALSE]
           /\ tuned' = Append(tuned, c)
           /\ obs' = AcceptChannel(o, mode, c, op)
           /\ protocol' = "SCAN"
           /\ UNCHANGED <<fg, deferred, enabled, faulted, stopping, halted,
                          poll>>
        \/ /\ Fault(fg, o) /\ sta' = FaultedStation(sta)
           /\ poll' = "no" /\ UNCHANGED tuned
     /\ UNCHANGED <<frame, finished, now, swept, probed>>

\* protocolEvent(SCAN_DONE).
OrdinaryDone(mode) ==
  /\ poll = "protocol" /\ protocol = "SCAN" /\ sta.state = "idle"
  /\ ~Active(fg)
  /\ obs.open
  /\ obs' = FinishPass(obs, mode)
  /\ UNCHANGED <<fg, frame, sta, hostVars, pollVars, now, historyVars>>

\* newState(AUTH) with the station at home.
Join ==
  /\ poll = "protocol" /\ enabled /\ protocol = "SCAN"
  /\ sta.state = "idle" /\ ~Active(fg)
  /\ obs' = CancelPass(obs)
  /\ sta' = [Home EXCEPT !.state = "busy"] /\ protocol' = "OTHER"
  /\ UNCHANGED <<fg, frame, deferred, enabled, faulted, stopping, halted,
                 pollVars, now, historyVars>>

\* newState(SCAN), or AUTH or ASSOC, while the station is working.
Rescan(scan) ==
  /\ Free /\ enabled /\ ~Active(fg) /\ sta.state \notin {"idle", "faulted"}
  /\ obs' = IF scan THEN obs ELSE CancelPass(obs)
  /\ sta' = Disconnected(sta) /\ deferred' = "SCAN"
  /\ UNCHANGED <<fg, frame, protocol, enabled, faulted, stopping, halted,
                 pollVars, now, historyVars>>

\* The station has disconnected, cancelProtocol() on the way.
BusyEnds ==
  /\ poll = "station" /\ sta.state = "busy"
  /\ fg' = Cancel(fg, "other") /\ obs' = CancelPass(obs)
  /\ sta' = Home /\ protocol' = "INIT"
  /\ UNCHANGED <<frame, deferred, enabled, faulted, stopping, halted,
                 pollVars, now, historyVars>>

----------------------------------------------------------------------------
(* Frames, the device and the clock. *)

\* Observer::observing().  The mutant takes a frame of any channel.
ObservesAny(op, c) == obs.open /\ ~obs.blocked /\ obs.pending /\ c \in obs.plan
Observes(op, c) ==
  obs.open /\ ~obs.blocked /\ obs.pending /\ obs.dwell = op /\ obs.channel = c

\* deliver() of a beacon or probe response that was received on channel c.
Deliver(b, c, fits) ==
  /\ Idle /\ sta.state = "dwell"
  /\ protocol = "SCAN" \/ (protocol = "INIT" /\ Observing(fg, sta.op))
  /\ Observes(sta.op, c)
  /\ obs' = Add(obs, [bssid |-> b, channel |-> c, at |-> now,
                      dwell |-> sta.op], fits)
  /\ UNCHANGED <<fg, frame, sta, hostVars, pollVars, now, historyVars>>

\* The report of the probe's transmission.
TxReport(ok) ==
  /\ Idle /\ frame.state = "dma"
  /\ frame' = [frame EXCEPT !.state = IF ok THEN "sent" ELSE "lost"]
  /\ probed' = IF ok THEN probed \cup {frame.op} ELSE probed
  /\ UNCHANGED <<fg, obs, sta, hostVars, pollVars, now, tuned, swept>>

\* output(): net80211 asks for transmission outside of a poll.
Output ==
  /\ Idle /\ enabled /\ frame.state = "queued" /\ sta.state = "dwell"
  /\ Pump(frame.op)
  /\ UNCHANGED <<pollVars, now, historyVars>>

\* shutdown(), tried again until interrupts, queues and boot have stopped.
Shutdown(proven) ==
  LET f == Cancel(fg, "other")
  IN /\ poll = "no" /\ ~halted
     /\ obs' = CancelPass(obs) /\ stopping' = TRUE /\ enabled' = FALSE
     /\ halted' = proven
     /\ fg' = IF proven THEN HardwareStopped(f) ELSE f
     /\ frame' = IF proven THEN NoFrame ELSE Drop(frame)
     /\ UNCHANGED <<sta, protocol, deferred, faulted, pollVars, now,
                    historyVars>>

\* The clock, which a poll reads anew at each of its parts.
Tick(step) ==
  /\ ~halted /\ now + step \in Time
  /\ now' = now + step
  /\ UNCHANGED <<fg, obs, frame, sta, hostVars, pollVars, historyVars>>

----------------------------------------------------------------------------
StationScanStep ==
  /\ sta.state \in ScanState
  /\ StationTunes \/ StationDwellEnds \/ StationFinishes \/ StationFaults

Next ==
  \/ \E plan \in Plan, active \in BOOLEAN : BeginForeground(plan, active)
  \/ CancelRequest
  \/ PollStart \/ PollProbe \/ PollEnd
  \/ StationTunes \/ StationDwellEnds \/ StationFinishes \/ StationFaults
  \/ BusyEnds
  \/ \E off \in BOOLEAN : ResetProtocol(off)
  \/ Enable
  \/ \E c \in Channel, mode \in OrdinaryMode, plan \in SUBSET Channel :
       OrdinaryChannel(c, mode, plan)
  \/ \E mode \in OrdinaryMode : OrdinaryDone(mode)
  \/ Join
  \/ \E scan \in BOOLEAN : Rescan(scan)
  \/ \E b \in Bssid, c \in Channel, fits \in BOOLEAN : Deliver(b, c, fits)
  \/ \E ok \in BOOLEAN : TxReport(ok)
  \/ Output
  \/ \E proven \in BOOLEAN : Shutdown(proven)
  \/ \E step \in ClockSteps : Tick(step)

Spec == Init /\ [][Next]_vars

\* The timer fires every 10 ms until the driver fails or stops, and a scan
\* the station was given ends, because each of its steps has a deadline.
Fairness ==
  /\ WF_vars(PollStart) /\ WF_vars(PollProbe) /\ WF_vars(PollEnd)
  /\ SF_vars(StationScanStep)
FairSpec == Spec /\ Fairness

----------------------------------------------------------------------------
(* Properties. *)

Snapshot == INSTANCE ScanSnapshot WITH
  current <- IF obs.has THEN obs.banks[obs.published] ELSE [generation |-> 0],
  pass <- IF obs.live
            THEN [generation |-> obs.generation, channels |-> obs.plan,
                  left |-> obs.plan \ obs.done,
                  entries |-> obs.banks[obs.working].entries,
                  lost |-> obs.overflow]
            ELSE [generation |-> 0]

\* The observer and its two banks, driven by requests and by net80211's scans
\* in any order, show readers only whole snapshots: replaced at once, by a
\* later pass that swept all of its plan and lost no observation.
ImplementsSnapshot == Snapshot!Spec

\* A request reports itself drained only once the station has come home from
\* its last dwell, or the hardware is proven to have stopped.
DrainedMeansHome ==
  fg.drained /\ ~halted => ~(sta.state \in ScanState /\ sta.op = fg.last)

\* While a request drains, the station is still in that request's dwell and
\* knows that it is cancelled: whoever cancels, the hardware is told.
CancellationReachesStation ==
  fg.phase = "draining" /\ ~faulted /\ ~stopping =>
    sta.state \in ScanState /\ sta.op = fg.dwell /\ sta.cancelled

\* A probe that the device still owns belongs to the scan that is going on:
\* the station never leaves a channel for the next while a probe of the
\* earlier dwell may still go out.
ProbeInItsDwell ==
  frame.state = "dma" /\ ~halted =>
    sta.op = frame.op /\ sta.state \in {"dwell", "restoring", "faulted"}

\* A request that reports completion has dwelt on every channel it planned,
\* to the end and uncancelled, within the pass whose snapshot it names, and
\* if it is active its probe was reported sent in each of these dwells.
RequestAnswered ==
  fg.phase = "complete" =>
    \A i \in DOMAIN fg.plan : \E s \in swept :
      /\ tuned[s.op] = fg.plan[i] /\ s.generation = fg.snapshot
      /\ fg.active => s.op \in probed

\* Every entry readers see was heard while the station dwelt on the entry's
\* channel, in a dwell that ended uncancelled in the pass that is published.
HeardInPlace ==
  obs.has =>
    LET bank == obs.banks[obs.published]
    IN \A e \in bank.entries :
         /\ tuned[e.dwell] = e.channel
         /\ [op |-> e.dwell, generation |-> bank.generation] \in swept

\* A request comes to an end, unless the driver is being shut down, when the
\* proof that the hardware stopped ends it.
RequestsEnd == Active(fg) ~> (~Active(fg) \/ stopping)
=============================================================================
