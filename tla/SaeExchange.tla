---------------------------- MODULE SaeExchange ----------------------------
(***************************************************************************)
(* The station's SAE exchange (auth/SaeExchange.c) over the SAE session    *)
(* (auth/SaeSession.c), against an access point that uses the same session *)
(* code the way tests/auth_sae_transport_test.c drives it, over an air     *)
(* that loses, repeats and reorders frames.                                *)
(*                                                                         *)
(* A body is its kind and, for a Confirm, its send-confirm counter; the    *)
(* cryptographic verdict on a Confirm is whether both ends were given the  *)
(* same password.  The OWE key agreement, which shares nothing with it, is *)
(* at the end.                                                             *)
(***************************************************************************)
EXTENDS Naturals, FiniteSets

CONSTANTS
    SaeRetryMs, SaeTimeoutMs, SaeRetries,  \* arguments of create()
    SaeClockMax                            \* UINT64_MAX, and the bound on time

ASSUME SaeParameters ==
    /\ SaeRetryMs \in 1..10000
    /\ SaeTimeoutMs \in SaeRetryMs..120000
    /\ SaeRetries \in 0..16
    /\ SaeClockMax \in Nat /\ SaeClockMax >= SaeTimeoutMs

VARIABLES
    saeX,             \* struct r16_sae_exchange
    saeStation,       \* its struct r16_sae
    saeAccessPoint,   \* the access point's struct r16_sae
    saeAir,           \* every frame sent so far: any of them may arrive, again
    saeNow,           \* the caller's millisecond clock
    saeSamePassword,  \* whether the two ends were given the same password
    saeSent           \* how many bodies the exchange asked to send (for a property)

saeVars == <<saeX, saeStation, saeAccessPoint, saeAir, saeNow, saeSamePassword, saeSent>>

SaeAcceptedCounter == 65535
SaeWaiting == {"WAIT_COMMIT", "WAIT_CONFIRM"}
SaeEnded == {"FAILED", "CANCELLED"}

----------------------------------------------------------------------------
(* SaeSession.c.  A call returns the session after it and whether it said 0. *)

SaeNewSession ==
    [live |-> TRUE, commitSent |-> FALSE, peerCommit |-> FALSE, confirmSent |-> FALSE,
     accepted |-> FALSE, failed |-> FALSE, sendConfirm |-> 0, peerConfirm |-> 0]

SaeNoSession == [SaeNewSession EXCEPT !.live = FALSE]

SaeSessionFail(s) == [ok |-> FALSE, s |-> [s EXCEPT !.failed = TRUE, !.accepted = FALSE]]
SaeSessionRefuse(s) == [ok |-> FALSE, s |-> s]

\* hostap's sae_write_confirm advances the counter up to 0xffff (external).
SaeNextCounter(s) == IF s.accepted \/ s.sendConfirm = SaeAcceptedCounter
                  THEN SaeAcceptedCounter ELSE s.sendConfirm + 1

SaeOutputCommit(s) ==
    IF s.failed \/ s.accepted \/ s.commitSent THEN SaeSessionRefuse(s)
    ELSE [ok |-> TRUE, s |-> [s EXCEPT !.commitSent = TRUE]]

SaeOutputConfirm(s) ==
    IF s.failed \/ ~s.peerCommit THEN SaeSessionRefuse(s)
    ELSE [ok |-> TRUE,
          s  |-> [s EXCEPT !.confirmSent = TRUE, !.sendConfirm = SaeNextCounter(s)]]

SaeReceiveCommit(s, valid) ==
    IF s.failed \/ ~s.commitSent \/ s.peerCommit THEN SaeSessionRefuse(s)
    ELSE IF ~valid THEN SaeSessionFail(s)
    ELSE [ok |-> TRUE, s |-> [s EXCEPT !.peerCommit = TRUE]]

\* "Invalid unauthenticated input cannot revoke an already accepted PMK."
SaeTakeConfirm(s, counter, valid) ==
    IF s.failed \/ ~s.peerCommit \/ ~s.confirmSent THEN SaeSessionRefuse(s)
    ELSE IF counter = 0 \/ ~valid
         THEN IF s.accepted THEN SaeSessionRefuse(s) ELSE SaeSessionFail(s)
    ELSE IF s.accepted /\ (counter <= s.peerConfirm \/ counter = SaeAcceptedCounter)
         THEN SaeSessionRefuse(s)
    ELSE [ok |-> TRUE, s |-> [s EXCEPT !.accepted = TRUE, !.peerConfirm = counter]]

\* A session that forgets to look at sae_check_confirm()'s verdict.
SaeConfirmUnchecked(s, counter, valid) == SaeTakeConfirm(s, counter, TRUE)

SaeReceiveConfirm(s, counter, valid) == SaeTakeConfirm(s, counter, valid)

\* r16_sae_exchange_export() and r16_sae_export() hand out the PMK.
SaeExportable ==
    /\ saeX.state = "ACCEPTED"
    /\ saeStation.live /\ saeStation.accepted /\ ~saeStation.failed

----------------------------------------------------------------------------
(* SaeExchange.c: helpers of the calls                                     *)

SaeCommit(to) == [to |-> to, kind |-> "commit", counter |-> 0]
SaeConfirm(to, n) == [to |-> to, kind |-> "confirm", counter |-> n]

\* What the selected peer or a stranger may also deliver: another station's
\* frame, a header or status this exchange does not speak, another transaction.
SaeOddFrames == [to : {"sta"}, kind : {"foreign", "header", "transaction"}, counter : {0}]

SaeInit ==
    /\ saeX = [state |-> "READY", error |-> "NONE", lastMs |-> 0, deadlineMs |-> 0,
               retryAtMs |-> 0, retriesUsed |-> 0]
    /\ saeStation = SaeNewSession
    /\ saeAccessPoint = SaeOutputCommit(SaeNewSession).s
    /\ saeAir = {}
    /\ saeNow = 0
    /\ saeSamePassword \in BOOLEAN
    /\ saeSent = 0

\* fail() also clears the material: the session is destroyed.
SaeFail(why) ==
    /\ saeX' = [saeX EXCEPT !.state = "FAILED", !.error = why]
    /\ saeStation' = SaeNoSession
    /\ UNCHANGED <<saeAir, saeSent>>

SaeTimeError(now) ==
    CASE saeX.state = "READY"                                        -> "SEQUENCE"
      [] saeX.state # "READY" /\ now < saeX.lastMs                   -> "CLOCK"
      [] saeX.state \in SaeWaiting /\ now >= saeX.lastMs
                                /\ now >= saeX.deadlineMs            -> "TIMEOUT"
      [] OTHER                                                       -> "NONE"

SaeNextRetry(x, now) ==
    LET remaining == x.deadlineMs - now
    IN  [x EXCEPT !.retryAtMs = now + IF remaining < SaeRetryMs THEN remaining ELSE SaeRetryMs]

SaeSend(body) == saeAir' = saeAir \cup {body} /\ saeSent' = saeSent + 1
SaeSendNothing == UNCHANGED <<saeAir, saeSent>>

\* A call samples the clock before the gate, so it may come with the last tick.
SaeCallTimes == {t \in {saeNow, saeNow - 1} : t \in 0..SaeClockMax}

----------------------------------------------------------------------------
(* SaeExchange.c: the calls.  make_body() fails when a session call fails  *)
(* or memory runs out, which is the disjunct Fail("CRYPTO").               *)

SaeStart(now) ==
    /\ saeX.state = "READY"
    /\ IF now > SaeClockMax - SaeTimeoutMs
       THEN SaeFail("CLOCK")
       ELSE \/ SaeFail("CRYPTO")
            \/ LET made == SaeOutputCommit(saeStation) IN
               /\ made.ok
               /\ saeStation' = made.s
               /\ saeX' = SaeNextRetry([saeX EXCEPT !.state = "WAIT_COMMIT", !.lastMs = now,
                                     !.deadlineMs = now + SaeTimeoutMs], now)
               /\ SaeSend(SaeCommit("ap"))
    /\ UNCHANGED <<saeAccessPoint, saeNow, saeSamePassword>>

\* receive() and poll() both begin with check_time().
SaeCheckTimeFails(now) ==
    /\ saeX.state \notin SaeEnded
    /\ SaeTimeError(now) # "NONE"
    /\ SaeFail(SaeTimeError(now))
    /\ UNCHANGED <<saeAccessPoint, saeNow, saeSamePassword>>

SaeInTime(now) == saeX.state \notin SaeEnded /\ SaeTimeError(now) = "NONE"

\* The bug the comment at the duplicate test warns of: a duplicate restarts the phase.
SaeReceiveRestarts(m, now) ==
    /\ SaeInTime(now)
    /\ \/ saeX.state = "ACCEPTED"
       \/ m.kind = "foreign"
       \/ m.kind = "commit" /\ saeX.state = "WAIT_CONFIRM"
    /\ saeX' = [saeX EXCEPT !.lastMs = now,
                            !.retriesUsed = IF m.kind = "commit" THEN 0 ELSE @]
    /\ SaeSendNothing
    /\ UNCHANGED <<saeStation, saeAccessPoint, saeNow, saeSamePassword>>

\* receive(): an accepted exchange, another station's frame, and a Commit that
\* comes again while the Confirm is awaited are ignored.
SaeReceiveIgnored(m, now) ==
    /\ SaeInTime(now)
    /\ \/ saeX.state = "ACCEPTED"
       \/ m.kind = "foreign"
       \/ m.kind = "commit" /\ saeX.state = "WAIT_CONFIRM"
    /\ saeX' = [saeX EXCEPT !.lastMs = now]
    /\ SaeSendNothing
    /\ UNCHANGED <<saeStation, saeAccessPoint, saeNow, saeSamePassword>>

SaeReceiveRejected(m, now) ==
    /\ SaeInTime(now) /\ saeX.state \in SaeWaiting
    /\ \/ m.kind = "header" /\ SaeFail("PROTOCOL")
       \/ m.kind = "transaction" /\ SaeFail("SEQUENCE")
       \/ m.kind = "confirm" /\ saeX.state = "WAIT_COMMIT" /\ SaeFail("SEQUENCE")
    /\ UNCHANGED <<saeAccessPoint, saeNow, saeSamePassword>>

SaeReceivePeerCommit(m, now) ==
    /\ SaeInTime(now) /\ saeX.state = "WAIT_COMMIT" /\ m.kind = "commit"
    /\ \/ SaeFail("CRYPTO")
       \/ LET got == SaeReceiveCommit(saeStation, TRUE)
              made == SaeOutputConfirm(got.s)
          IN /\ got.ok /\ made.ok
             /\ saeStation' = made.s
             /\ saeX' = SaeNextRetry([saeX EXCEPT !.state = "WAIT_CONFIRM", !.lastMs = now,
                                               !.retriesUsed = 0], now)
             /\ SaeSend(SaeConfirm("ap", made.s.sendConfirm))
    /\ UNCHANGED <<saeAccessPoint, saeNow, saeSamePassword>>

SaeReceivePeerConfirm(m, now) ==
    /\ SaeInTime(now) /\ saeX.state = "WAIT_CONFIRM" /\ m.kind = "confirm"
    /\ LET got == SaeReceiveConfirm(saeStation, m.counter, saeSamePassword) IN
       \/ ~got.ok /\ SaeFail("CRYPTO")
       \/ /\ got.ok
          /\ saeStation' = got.s
          /\ saeX' = [saeX EXCEPT !.state = "ACCEPTED", !.lastMs = now]
          /\ SaeSendNothing
    /\ UNCHANGED <<saeAccessPoint, saeNow, saeSamePassword>>

\* A Confirm is computed anew, a Commit is sent again as it was.
SaePollWith(now, made) ==
    /\ SaeInTime(now) /\ saeX.state \in SaeWaiting /\ now >= saeX.retryAtMs
    /\ \/ saeX.retriesUsed = SaeRetries /\ SaeFail("RETRIES")
       \/ saeX.retriesUsed < SaeRetries /\ saeX.state = "WAIT_CONFIRM" /\ SaeFail("CRYPTO")
       \/ /\ saeX.retriesUsed < SaeRetries
          /\ saeStation' = made
          /\ saeX' = SaeNextRetry([saeX EXCEPT !.lastMs = now, !.retriesUsed = @ + 1], now)
          /\ SaeSend(IF saeX.state = "WAIT_COMMIT" THEN SaeCommit("ap")
                  ELSE SaeConfirm("ap", made.sendConfirm))
    /\ UNCHANGED <<saeAccessPoint, saeNow, saeSamePassword>>

\* The bug poll()'s comment warns of: the cached Confirm is sent again.
SaePollReusesConfirm(now) == SaePollWith(now, saeStation)

SaePoll(now) ==
    SaePollWith(now, IF saeX.state = "WAIT_CONFIRM" THEN SaeOutputConfirm(saeStation).s
                  ELSE saeStation)

SaePollIdle(now) ==
    /\ SaeInTime(now) /\ (saeX.state = "ACCEPTED" \/ now < saeX.retryAtMs)
    /\ saeX' = [saeX EXCEPT !.lastMs = now]
    /\ SaeSendNothing
    /\ UNCHANGED <<saeStation, saeAccessPoint, saeNow, saeSamePassword>>

SaeCancel ==
    /\ saeX' = [saeX EXCEPT !.state = "CANCELLED", !.error = "CANCELLED"]
    /\ saeStation' = SaeNoSession
    /\ SaeSendNothing
    /\ UNCHANGED <<saeAccessPoint, saeNow, saeSamePassword>>

----------------------------------------------------------------------------
(* The access point and the clock (external)                               *)

SaePeerAnswersCommit(m) ==
    /\ m.to = "ap" /\ m.kind = "commit" /\ ~saeAccessPoint.accepted
    /\ saeAccessPoint' = SaeReceiveCommit(saeAccessPoint, TRUE).s
    /\ saeAir' = saeAir \cup {SaeCommit("sta")}
    /\ UNCHANGED <<saeX, saeStation, saeNow, saeSamePassword, saeSent>>

\* It answers a Confirm it takes: before acceptance with its own counter,
\* afterwards with 0xffff, and it does not answer one it refuses.
SaePeerAnswersConfirm(m) ==
    LET first  == SaeOutputConfirm(saeAccessPoint).s
        ready  == IF saeAccessPoint.accepted THEN saeAccessPoint ELSE first
        taken  == SaeReceiveConfirm(ready, m.counter, saeSamePassword)
        answer == IF saeAccessPoint.accepted THEN SaeOutputConfirm(taken.s).s ELSE taken.s
    IN /\ m.to = "ap" /\ m.kind = "confirm" /\ ~saeAccessPoint.failed
       /\ saeAccessPoint' = IF taken.ok THEN answer ELSE taken.s
       /\ saeAir' = IF taken.ok \/ ~saeAccessPoint.accepted
                    THEN saeAir \cup {SaeConfirm("sta", answer.sendConfirm)} ELSE saeAir
       /\ UNCHANGED <<saeX, saeStation, saeNow, saeSamePassword, saeSent>>

SaeTick ==
    /\ saeNow < SaeClockMax
    /\ saeNow' = saeNow + 1
    /\ UNCHANGED <<saeX, saeStation, saeAccessPoint, saeAir, saeSamePassword, saeSent>>

SaeNext ==
    \/ \E now \in SaeCallTimes :
          \/ SaeStart(now) \/ SaeCheckTimeFails(now) \/ SaePoll(now) \/ SaePollIdle(now)
          \/ \E m \in {f \in saeAir : f.to = "sta"} \cup SaeOddFrames :
                \/ SaeReceiveIgnored(m, now) \/ SaeReceiveRejected(m, now)
                \/ SaeReceivePeerCommit(m, now) \/ SaeReceivePeerConfirm(m, now)
    \/ SaeCancel
    \/ \E m \in saeAir : SaePeerAnswersCommit(m) \/ SaePeerAnswersConfirm(m)
    \/ SaeTick

----------------------------------------------------------------------------
(* Properties                                                              *)

\* A key that export() hands out is one the access point has confirmed too,
\* whatever frames were lost, repeated or reordered on the way.
SaeKeyConfirmed ==
    SaeExportable => saeSamePassword /\ saeAccessPoint.accepted /\ ~saeAccessPoint.failed

\* Every Confirm the exchange sends carries a counter the access point has not
\* taken yet, so a retransmission after a lost answer is answered, not refused
\* as a replay (the comment in poll()).
SaeConfirmNotReplayed ==
    [][saeSent' > saeSent /\ saeX'.state = "WAIT_CONFIRM"
         => saeStation'.sendConfirm > saeAccessPoint.peerConfirm]_saeVars

\* The exchange sends at most one body and SaeRetries retransmissions in each
\* of its two phases: no duplicate Commit buys it more ("retries: 0..16 per
\* commit/confirm phase", SaeExchange.h).
SaeBoundedTransmissions == saeSent <= 2 * (1 + SaeRetries)

----------------------------------------------------------------------------
(* The OWE key agreement of auth/OweSession.c between a station and an     *)
(* access point.  A public value is the session it belongs to or another   *)
(* one heard on the air; the Diffie-Hellman secret of two public values is *)
(* the set of the two, and the PMK is that secret under a salt that names  *)
(* the station's value first.                                              *)

CONSTANT OweStranger     \* a public value of some other session

OweSide == {"station", "ap"}

ASSUME OweAssumption == OweStranger \notin OweSide

VARIABLES
    oweSession,   \* struct r16_owe of each side
    oweAir        \* elements that were sent

oweVars == <<oweSession, oweAir>>

OweNoKey == [secret |-> {}, salt |-> <<>>]

\* r16_owe_create().
OweNew == [live |-> TRUE, dh |-> TRUE, sent |-> FALSE, derived |-> FALSE, failed |-> FALSE,
           key |-> OweNoKey]

OweInit ==
    /\ oweSession = [s \in OweSide |-> OweNew]
    /\ oweAir = {}

OweUpdate(s, r) == oweSession' = [oweSession EXCEPT ![s] = r]

\* fail() wipes the key and frees the exponent.
OweFailed(s) == [oweSession[s] EXCEPT !.failed = TRUE, !.derived = FALSE, !.dh = FALSE,
                                      !.key = OweNoKey]

OweElement(s) ==
    /\ oweSession[s].live /\ ~oweSession[s].failed
    /\ OweUpdate(s, [oweSession[s] EXCEPT !.sent = TRUE])
    /\ oweAir' = oweAir \cup {s}

\* The salt the two sides would use if each put its own value first.
OweSaltOwnFirst(s, peer) == <<s, peer>>

OweSalt(s, peer) == IF s = "ap" THEN <<peer, s>> ELSE <<s, peer>>

\* receive() of an element with the public value of a peer, or of something
\* that is no element; the library may fail too.
OweReceive(s, peer, valid) ==
    /\ oweSession[s].live
    /\ ~oweSession[s].failed /\ ~oweSession[s].derived /\ oweSession[s].sent
    /\ \/ OweUpdate(s, OweFailed(s))
       \/ /\ valid /\ peer # s
          /\ OweUpdate(s, [oweSession[s] EXCEPT !.derived = TRUE, !.dh = FALSE,
                 !.key = [secret |-> {s, peer}, salt |-> OweSalt(s, peer)]])
    /\ UNCHANGED oweAir

OweDestroy(s) ==
    /\ oweSession[s].live
    /\ OweUpdate(s, [OweFailed(s) EXCEPT !.live = FALSE])
    /\ UNCHANGED oweAir

OweNext ==
    \E s \in OweSide :
       \/ OweElement(s) \/ OweDestroy(s)
       \/ \E peer \in oweAir \cup {OweStranger}, valid \in BOOLEAN : OweReceive(s, peer, valid)

\* r16_owe_export() succeeds.
OweExports(s) == oweSession[s].live /\ ~oweSession[s].failed /\ oweSession[s].derived

\* Two sides that export a key made from each other's element export the same
\* one, and neither exports a key it made with itself, however elements were
\* repeated, reflected or mixed with a stranger's.
OweKeysAgree ==
    /\ \A s \in OweSide : OweExports(s) => \E peer \in (OweSide \cup {OweStranger}) \ {s} :
                             oweSession[s].key.secret = {s, peer}
    /\ (\A s \in OweSide : OweExports(s) /\ oweSession[s].key.secret = OweSide)
         => oweSession["station"].key = oweSession["ap"].key
=============================================================================
