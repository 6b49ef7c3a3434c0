--------------------------- MODULE ProtocolTimers ----------------------------
(***************************************************************************)
(* CTimeout: the OpenBSD timeout interface that net80211 calls, on an      *)
(* IOTimerEventSource.  All calls and callbacks run in the workloop's gate *)
(* one after another; the kernel may already have queued a callback when   *)
(* its timer is cancelled, and delivers it unless the source is removed.   *)
(***************************************************************************)
EXTENDS Naturals

CONSTANTS
    TmFunctions,    \* functions net80211 sets
    TmNone,         \* no function
    TmArmings       \* bound: times the timer is armed

ASSUME TmAssumption == TmNone \notin TmFunctions /\ TmArmings \in Nat

VARIABLES
    tmTimeout,  \* the slot: made, to_func, isPending, and whether tm exists
    tmSource,   \* the event source: a deadline is set, callbacks queued
    tmArming,   \* the current arming, 0 when there is none, and how many there were
    tmCall      \* the function that is being called, and the arming it is called for

tmVars == <<tmTimeout, tmSource, tmArming, tmCall>>

TmFresh == [made |-> FALSE, function |-> TmNone, pending |-> FALSE, timer |-> FALSE]
TmNoSource == [set |-> FALSE, queued |-> 0]

TmInit ==
    /\ tmTimeout = TmFresh /\ tmSource = TmNoSource
    /\ tmArming = [now |-> 0, count |-> 0]
    /\ tmCall = [running |-> FALSE, function |-> TmNone, arming |-> 0]

\* What was armed is cancelled or has been called.
TmDisarmed == tmArming' = [tmArming EXCEPT !.now = 0]
TmCancelled(s) == [s EXCEPT !.set = FALSE]

\* timeout_set(): creates the timeout, cancels and replaces its function.
TmSet ==
    \E f \in TmFunctions :
      /\ tmTimeout' = [tmTimeout EXCEPT !.made = TRUE, !.function = f, !.pending = FALSE]
      /\ tmSource' = TmCancelled(tmSource) /\ TmDisarmed
      /\ UNCHANGED tmCall

\* timeout_add_msec(): makes the source on first use, cancels and arms again; a
\* source that cannot be made changes nothing, a deadline that is refused cancels.
TmAdd ==
    /\ tmTimeout.made /\ tmTimeout.function # TmNone /\ tmArming.count < TmArmings
    /\ \/ /\ tmTimeout' = [tmTimeout EXCEPT !.timer = TRUE, !.pending = TRUE]
          /\ tmSource' = [tmSource EXCEPT !.set = TRUE]
          /\ tmArming' = [now |-> tmArming.count + 1, count |-> tmArming.count + 1]
       \/ /\ tmTimeout' = [tmTimeout EXCEPT !.timer = TRUE, !.pending = FALSE]
          /\ tmSource' = TmCancelled(tmSource) /\ TmDisarmed
    /\ UNCHANGED tmCall

\* timeout_del().
TmDel ==
    /\ tmTimeout.made
    /\ tmTimeout' = [tmTimeout EXCEPT !.pending = FALSE]
    /\ tmSource' = TmCancelled(tmSource) /\ TmDisarmed
    /\ UNCHANGED tmCall

\* timeout_free(): the source is removed with whatever it had queued.
TmFree ==
    /\ tmTimeout.made
    /\ tmTimeout' = TmFresh /\ tmSource' = TmNoSource /\ TmDisarmed
    /\ UNCHANGED tmCall

\* The kernel's deadline passes and it queues a callback.
TmExpires ==
    /\ tmSource.set
    /\ tmSource' = [set |-> FALSE, queued |-> tmSource.queued + 1]
    /\ UNCHANGED <<tmTimeout, tmArming, tmCall>>

\* Mutants: a callback is passed on whether or not the timeout is still armed; the
\* flag stays up while the function runs.
TmAnswersAny(t) == t.function # TmNone
TmEnteredArmed(t) == t
\* timeoutOccurred(): dropped unless armed; the flag is cleared before the call.
TmAnswers(t) == t.pending /\ t.function # TmNone
TmEntered(t) == [t EXCEPT !.pending = FALSE]

TmOccurred ==
    /\ tmSource.queued > 0 /\ ~tmCall.running
    /\ tmSource' = [tmSource EXCEPT !.queued = @ - 1]
    /\ IF TmAnswers(tmTimeout)
       THEN /\ tmTimeout' = TmEntered(tmTimeout)
            /\ tmCall' = [running |-> TRUE, function |-> tmTimeout.function, arming |-> tmArming.now]
            /\ TmDisarmed
       ELSE UNCHANGED <<tmTimeout, tmArming, tmCall>>

\* The function returns; it may have called any of the above meanwhile.
TmReturns ==
    /\ tmCall.running /\ tmCall' = [tmCall EXCEPT !.running = FALSE]
    /\ UNCHANGED <<tmTimeout, tmSource, tmArming>>

TmNext == TmSet \/ TmAdd \/ TmDel \/ TmFree \/ TmExpires \/ TmOccurred \/ TmReturns

-----------------------------------------------------------------------------
(* Properties.                                                             *)

\* net80211 is called once at most for each time it arms the timeout, with the
\* function that was set then, and never after it deleted, replaced or freed it,
\* whatever callbacks the kernel still had queued.
TmOncePerArming ==
    [][tmCall'.running /\ ~tmCall.running =>
         /\ tmCall'.arming # 0 /\ tmCall'.arming # tmCall.arming
         /\ tmCall'.arming = tmArming.now /\ tmCall'.function = tmTimeout.function]_tmVars

\* timeout_pending() tells the truth: a timeout it calls armed has a deadline or a
\* callback on its way, and one it does not has nothing that would be answered;
\* arming from the timeout's own function counts.
TmPendingTrue ==
    /\ tmTimeout.pending <=> tmArming.now # 0
    /\ tmTimeout.pending => tmSource.set \/ tmSource.queued > 0
=============================================================================
