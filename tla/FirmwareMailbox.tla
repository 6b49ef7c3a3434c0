--------------------------- MODULE FirmwareMailbox ---------------------------
(***************************************************************************)
(* The register mailbox (network/FirmwareMailbox.hpp over                  *)
(* MacFirmwareMailboxIo.cpp) and the capability query that uses it         *)
(* (FirmwareCapabilities.hpp), with the firmware at the other end.         *)
(*                                                                         *)
(* The host is one serialised owner, but firmware runs between any two of  *)
(* its register accesses.  A step ends at an access whose order against    *)
(* firmware matters; every access may also fail, be late or be cancelled,  *)
(* which is MailFails.  The counter byte that only firmware reads is left  *)
(* out.                                                                    *)
(***************************************************************************)
EXTENDS Naturals

CONSTANTS
    MailMask,        \* scheduler masks in use, 0 among them
    MailRequests,    \* bound on the requests of a run
    MailNotices      \* bound on unsolicited messages of firmware

ASSUME MailAssumption ==
    /\ 0 \in MailMask /\ MailMask \subseteq Nat
    /\ MailRequests \in Nat /\ MailNotices \in Nat

VARIABLES
    mailStep, mailCall, mailValue, mailOld,   \* the call under way and its locals
    mailCount,       \* requests so far: the number of the one under way
    mailReply,       \* result.reply
    mailFaulted, mailPaused, mailSaved,       \* class Mailbox
    mailQuery,       \* FirmwareCapabilities: attempted_ and result_
    mailH2c, mailC2h,                         \* the two mailbox halves
    mailWork,        \* the request firmware works on
    mailScheduler,   \* the scheduler mask in the device
    mailNotices,     \* unsolicited messages so far
    mailKnown,       \* the mask the host last set (for the properties)
    mailLease        \* the mask in force when the pause began (likewise)

mailHost == <<mailStep, mailCall, mailValue, mailOld, mailCount, mailReply, mailFaulted,
              mailPaused, mailSaved, mailQuery, mailKnown, mailLease>>
mailDevice == <<mailH2c, mailC2h, mailWork, mailScheduler, mailNotices>>
mailVars == <<mailHost, mailDevice>>

MailEmpty == [of |-> 0, kind |-> "none", value |-> 0]
MailSchedulerCalls == {"mask", "pause", "resume"}

MailInit ==
    /\ mailStep = "idle" /\ mailCall = "none" /\ mailValue = 0 /\ mailOld = 0
    /\ mailCount = 0 /\ mailReply = MailEmpty
    /\ mailFaulted = FALSE /\ mailPaused = FALSE /\ mailSaved = 0 /\ mailQuery = "none"
    /\ mailH2c = MailEmpty /\ mailC2h = MailEmpty /\ mailWork = MailEmpty
    /\ mailScheduler \in MailMask /\ mailNotices = 0
    /\ mailKnown = mailScheduler /\ mailLease = 0

----------------------------------------------------------------------------
(* Calls of the owner.  start() looks at the firmware state first.         *)

MailBegin(call, value, old, step) ==
    /\ mailStep = "idle" /\ ~mailFaulted
    /\ mailStep' = step /\ mailCall' = call /\ mailValue' = value /\ mailOld' = old
    /\ mailReply' = MailEmpty
    /\ UNCHANGED <<mailFaulted, mailPaused, mailSaved, mailKnown, mailLease, mailDevice>>

MailNewRequest == mailCount < MailRequests /\ mailCount' = mailCount + 1

\* FirmwareCapabilities::query(): once.
MailQueryCapabilities ==
    /\ mailQuery = "none" /\ MailNewRequest
    /\ MailBegin("query", 0, 0, "look")
    /\ mailQuery' = "attempted"

MailInvalidateQuery ==
    /\ mailStep = "idle"
    /\ mailQuery' = "invalidated"
    /\ UNCHANGED <<mailStep, mailCall, mailValue, mailOld, mailCount, mailReply, mailFaulted,
                   mailPaused, mailSaved, mailKnown, mailLease, mailDevice>>

MailReceivePending ==
    /\ MailBegin("receive", 0, 0, "await")
    /\ UNCHANGED <<mailQuery, mailCount>>

MailSetSchedulerMask(v) ==
    /\ ~mailPaused /\ MailNewRequest
    /\ MailBegin("mask", v, 0, "look")
    /\ UNCHANGED mailQuery

MailPauseScheduler ==
    /\ ~mailPaused /\ MailNewRequest
    /\ MailBegin("pause", 0, mailScheduler, "look")
    /\ UNCHANGED mailQuery

\* A mask other than zero is a fault, which is MailFails.
MailResumeScheduler ==
    /\ mailPaused /\ mailScheduler = 0 /\ MailNewRequest
    /\ MailBegin("resume", mailSaved, 0, "look")
    /\ UNCHANGED mailQuery

----------------------------------------------------------------------------
(* exchangeInner(), receive() and setScheduler()                           *)

MailMove(step) ==
    /\ mailStep' = step
    /\ UNCHANGED <<mailCall, mailValue, mailOld, mailCount, mailReply, mailFaulted, mailPaused,
                   mailSaved, mailQuery, mailKnown, mailLease>>

\* rejectStale(): the call ends, nothing was written and no fault is latched.
MailEnd ==
    /\ mailStep' = "idle" /\ mailCall' = "none"
    /\ mailQuery' = IF mailCall = "query" THEN "failed" ELSE mailQuery
    /\ UNCHANGED <<mailValue, mailOld, mailCount, mailReply, mailFaulted, mailPaused, mailSaved,
                   mailKnown, mailLease>>

MailLook(step, next) ==
    /\ mailStep = step
    /\ IF mailC2h # MailEmpty THEN MailEnd ELSE MailMove(next)
    /\ UNCHANGED mailDevice

MailLookBefore == MailLook("look", "room")

MailWaitRoom ==
    /\ mailStep = "room" /\ mailH2c = MailEmpty
    /\ MailMove("recheck")
    /\ UNCHANGED mailDevice

\* "Recheck after waiting: do not mistake an older response for this request."
MailLookAgain == MailLook("recheck", "write")

\* The data words, the counter and the trigger.
MailTrigger ==
    /\ mailStep = "write"
    /\ mailH2c' = [of |-> mailCount, value |-> mailValue,
                   kind |-> IF mailCall = "query" THEN "capability" ELSE "scheduler"]
    /\ MailMove("await")
    /\ UNCHANGED <<mailC2h, mailWork, mailScheduler, mailNotices>>

\* The words are captured before the mailbox is given back to firmware.
MailCapture ==
    /\ mailStep = "await" /\ mailC2h # MailEmpty
    /\ mailStep' = "acknowledge" /\ mailReply' = mailC2h
    /\ UNCHANGED <<mailCall, mailValue, mailOld, mailCount, mailFaulted, mailPaused, mailSaved,
                   mailQuery, mailKnown, mailLease, mailDevice>>

MailAcknowledge ==
    /\ mailStep = "acknowledge"
    /\ mailC2h' = MailEmpty
    /\ MailMove("parse")
    /\ UNCHANGED <<mailH2c, mailWork, mailScheduler, mailNotices>>

\* Mutant: whatever is in the mailbox answers a scheduler call.
MailParseAny ==
    /\ mailStep = "parse" /\ mailCall \in MailSchedulerCalls
    /\ MailMove("readback")
    /\ UNCHANGED mailDevice

\* A reply of the wrong function is a fault, which is MailFails.
MailParse ==
    /\ mailStep = "parse"
    /\ \/ /\ mailCall \in MailSchedulerCalls /\ mailReply.kind = "scheduler"
          /\ MailMove("readback")
       \/ /\ mailCall = "receive" /\ MailEnd
       \/ /\ mailCall = "query" /\ mailReply.kind = "capability"
          /\ mailQuery' \in {"complete", "failed"}
          /\ mailStep' = "idle" /\ mailCall' = "none"
          /\ UNCHANGED <<mailValue, mailOld, mailCount, mailReply, mailFaulted, mailPaused,
                         mailSaved, mailKnown, mailLease>>
    /\ UNCHANGED mailDevice

\* What a call leaves once the mask was read back; the mutant reads the mask
\* it saves after the change.
MailSavesLate ==
    IF mailCall = "pause" THEN mailPaused' = TRUE /\ mailSaved' = mailScheduler
    ELSE mailPaused' = FALSE /\ UNCHANGED mailSaved

MailSettles ==
    IF mailCall = "pause" THEN mailPaused' = TRUE /\ mailSaved' = mailOld
    ELSE mailPaused' = FALSE /\ UNCHANGED mailSaved

MailReadBack ==
    /\ mailStep = "readback" /\ mailScheduler = mailValue
    /\ mailStep' = "idle" /\ mailCall' = "none"
    /\ MailSettles
    /\ mailLease' = IF mailCall = "pause" THEN mailKnown ELSE mailLease
    /\ mailKnown' = mailValue
    /\ UNCHANGED <<mailValue, mailOld, mailCount, mailReply, mailFaulted, mailQuery, mailDevice>>

\* Giving up without remembering that firmware may still act.
MailFailForgets ==
    /\ mailStep' = "idle" /\ mailCall' = "none"
    /\ mailQuery' = IF mailCall = "query" THEN "failed" ELSE mailQuery
    /\ UNCHANGED <<mailValue, mailOld, mailCount, mailReply, mailFaulted, mailPaused, mailSaved,
                   mailKnown, mailLease>>

\* fail() latches: no call succeeds on this instance again.
MailFail ==
    /\ mailStep' = "idle" /\ mailCall' = "none"
    /\ mailFaulted' = TRUE
    /\ mailQuery' = IF mailCall = "query" THEN "failed" ELSE mailQuery
    /\ UNCHANGED <<mailValue, mailOld, mailCount, mailReply, mailPaused, mailSaved,
                   mailKnown, mailLease>>

\* An access fails, the clock goes back, a deadline passes or the session is
\* cancelled, before or after the access took effect, or start() finds no
\* running firmware.
MailFails ==
    /\ ~mailFaulted
    /\ MailFail
    /\ UNCHANGED mailDevice

----------------------------------------------------------------------------
(* Firmware (external)                                                     *)

MailFirmwareTakes ==
    /\ mailH2c # MailEmpty /\ mailWork = MailEmpty
    /\ mailWork' = mailH2c /\ mailH2c' = MailEmpty
    /\ UNCHANGED <<mailHost, mailC2h, mailScheduler, mailNotices>>

MailFirmwareApplies ==
    /\ mailWork.kind = "scheduler" /\ mailScheduler # mailWork.value
    /\ mailScheduler' = mailWork.value
    /\ UNCHANGED <<mailHost, mailH2c, mailC2h, mailWork, mailNotices>>

MailFirmwareReplies ==
    /\ mailWork # MailEmpty /\ mailC2h = MailEmpty
    /\ mailWork.kind = "scheduler" => mailScheduler = mailWork.value
    /\ mailC2h' = mailWork /\ mailWork' = MailEmpty
    /\ UNCHANGED <<mailHost, mailH2c, mailScheduler, mailNotices>>

\* "unsolicited startup PHY capability" messages.
MailFirmwareNotifies ==
    /\ mailC2h = MailEmpty /\ mailNotices < MailNotices
    /\ mailC2h' = [of |-> 0, kind |-> "capability", value |-> 0]
    /\ mailNotices' = mailNotices + 1
    /\ UNCHANGED <<mailHost, mailH2c, mailWork, mailScheduler>>

MailNext ==
    \/ MailQueryCapabilities \/ MailInvalidateQuery \/ MailReceivePending
    \/ \E v \in MailMask : MailSetSchedulerMask(v)
    \/ MailPauseScheduler \/ MailResumeScheduler
    \/ MailLookBefore \/ MailWaitRoom \/ MailLookAgain \/ MailTrigger
    \/ MailCapture \/ MailAcknowledge \/ MailParse \/ MailReadBack \/ MailFails
    \/ MailFirmwareTakes \/ MailFirmwareApplies \/ MailFirmwareReplies \/ MailFirmwareNotifies

----------------------------------------------------------------------------
(* Properties                                                              *)

\* While no fault is latched and no call is under way, the scheduler runs with
\* the mask the owner last set, and no request that could change it is still
\* with firmware: calls that end early, as a stale reply makes them, left
\* nothing behind.
MailMaskKnown ==
    mailStep = "idle" /\ ~mailFaulted =>
        /\ mailScheduler = mailKnown
        /\ mailPaused => mailScheduler = 0
        /\ mailH2c.kind # "scheduler" /\ mailWork.kind # "scheduler"

\* A scheduler call that got as far as its reply holds the reply to its own
\* request, not one of an earlier request or an unsolicited message.
MailReplyIsOurs ==
    mailStep = "readback" => mailReply.of = mailCount

\* resumeScheduler() restores the mask that pauseScheduler() found, whatever
\* was refused, retried or received in between.
MailResumeRestores ==
    [][mailPaused /\ ~mailPaused' => mailScheduler' = mailLease]_mailVars
=============================================================================
