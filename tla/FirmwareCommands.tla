-------------------------- MODULE FirmwareCommands --------------------------
(***************************************************************************)
(* The firmware command bus, network/FirmwareCommands.hpp: one allocator   *)
(* of H2C sequence numbers and one router of acknowledgements shared by    *)
(* every command producer of a firmware incarnation.                       *)
(*                                                                         *)
(* All calls run under one gate, but two of them call out: publish() into  *)
(* the DMA transport and accept() into the owner's callback, which may     *)
(* issue the next command.  Each is a step that starts the outside call    *)
(* and a step that resumes when it returns, so what happens in between     *)
(* (nested calls, time passing, firmware at work) is interleaved.          *)
(*                                                                         *)
(* The caller's opaque token is the allocation number, which also tells    *)
(* apart two commands that were given the same sequence.  Calls made       *)
(* outside the gate, and malformed packets, return before changing         *)
(* anything but lastTime_ and are the same step as service().              *)
(***************************************************************************)
EXTENDS Integers, Sequences, FiniteSets

CONSTANTS
  Client,               \* owners with a completion callback
  NoClient,             \* the empty CommandReceiver
  Command,              \* command identities (category, class, function)
  SequenceCount,        \* wire sequence numbers, 256 in the code
  ReceiveAckPeriod,     \* every such sequence asks for a receive ACK, 4
  Timeout,              \* timeouts callers ask for
  MaxTime,              \* stands for UINT64_MAX microseconds
  MaxAllocated,         \* stands for UINT32_MAX reservations
  ClockForward,         \* how far the clock may advance in one step
  ClockBack,            \* how far it may go back in one
  Nested                \* whether a transport or callback delivers events

ASSUME ConstantsAssumption ==
  /\ NoClient \notin Client
  /\ SequenceCount \in Nat \ {0} /\ ReceiveAckPeriod \in Nat \ {0}
  /\ Timeout \subseteq Nat \ {0}
  /\ MaxTime \in Nat /\ MaxAllocated \in Nat
  /\ ClockForward \subseteq Nat \ {0} /\ ClockBack \subseteq Nat \ {0}
  /\ Nested \in BOOLEAN

VARIABLES
  records, next, lastTime, error,   \* records_, next_, lastTime_, error_
  publishing,     \* the sequence whose publish() is in the transport
  delivering,     \* delivering_: a receiver is being called
  now,            \* the transport's clock
  work,           \* answers the firmware still owes
  acks,           \* C2H acknowledgements waiting in the receive queue
  owners, notices \* history: the ledger CommandLedger describes

busVars     == <<records, next, lastTime, error, publishing, delivering>>
historyVars == <<owners, notices>>
vars        == <<busVars, now, work, acks, historyVars>>

----------------------------------------------------------------------------
(* Types. *)

Time       == 0 .. MaxTime
Sequence   == 0 .. SequenceCount - 1
NoSequence == -1
Owner      == Client \cup {NoClient}
Outstanding == {"reserved", "pending"}
CommandError == {"none", "clock", "timeout", "transport", "receiver",
                 "firmwareRejected", "exhausted", "invalidated"}

\* A record that was never published has no command identity yet; the code
\* keeps zeroes, which no comparison reads before publish() stores the id.
CommandRecord ==
  [state : {"unused", "reserved", "pending", "complete"},
   id : Command \cup {"unset"}, client : Owner, token : 0 .. MaxAllocated,
   deadline : Time, receiveAck : BOOLEAN, doneAck : BOOLEAN,
   received : BOOLEAN]

EmptyRecord ==
  [state |-> "unused", id |-> "unset", client |-> NoClient, token |-> 0,
   deadline |-> 0, receiveAck |-> FALSE, doneAck |-> FALSE,
   received |-> FALSE]

\* What an acknowledgement says, and (token) which command it is about.  The
\* wire carries no token: the bus never reads it.
Ack == [current : BOOLEAN, sequence : Sequence, id : Command,
        token : 0 .. MaxAllocated, done : BOOLEAN, ok : BOOLEAN]
Debt == [sequence : Sequence, id : Command, token : 0 .. MaxAllocated,
         receive : BOOLEAN, done : BOOLEAN]
Notice == [client : Client, command : 1 .. MaxAllocated]

\* The type invariant of the bus, its transport, the firmware's queues and
\* the history.
TypeOK ==
  /\ records \in [Sequence -> CommandRecord]
  /\ next \in 0 .. MaxAllocated
  /\ lastTime \in Time /\ now \in Time
  /\ error \in CommandError
  /\ publishing \in Sequence \cup {NoSequence}
  /\ delivering \in BOOLEAN
  /\ work \subseteq Debt
  /\ acks \in Seq(Ack)
  /\ owners \in Seq(Owner) /\ Len(owners) = next
  /\ notices \subseteq Notice

Init ==
  /\ records = [s \in Sequence |-> EmptyRecord]
  /\ next = 0 /\ lastTime = 0 /\ error = "none"
  /\ publishing = NoSequence /\ delivering = FALSE
  /\ now = 0
  /\ work = {} /\ acks = <<>>
  /\ owners = <<>> /\ notices = {}

----------------------------------------------------------------------------
(* check(), run at every entry and after every outside call. *)

\* fail(): the first error is the one that is kept.
Fail(e) == IF error = "none" THEN e ELSE error

\* Mutant: the deadline itself still counts as in time.
OverdueAfter(recs) ==
  \E s \in Sequence : recs[s].state \in Outstanding /\ now > recs[s].deadline
\* Mutant: only published commands expire.
OverdueAnswer(recs) ==
  \E s \in Sequence : recs[s].state = "pending" /\ now >= recs[s].deadline
Overdue(recs) ==
  \E s \in Sequence : recs[s].state \in Outstanding /\ now >= recs[s].deadline

\* error_ after check() runs over these records; it returned true if "none".
CheckError(recs) ==
  IF now < lastTime THEN Fail("clock")
  ELSE IF Overdue(recs) THEN Fail("timeout") ELSE error

\* lastTime_ after check(): a faulted bus and a clock that went back
\* return before it is stored.
CheckTime == IF error # "none" \/ now < lastTime THEN lastTime ELSE now

CheckPasses == CheckError(records) = "none"

\* A call that goes no further than check().
CheckFails ==
  /\ ~CheckPasses
  /\ error' = CheckError(records) /\ lastTime' = CheckTime
  /\ UNCHANGED <<records, next, publishing, delivering, work, historyVars>>

Service ==
  /\ error' = CheckError(records) /\ lastTime' = CheckTime
  /\ UNCHANGED <<records, next, publishing, delivering, work, historyVars,
                 now, acks>>

Invalidate ==
  /\ error' = Fail("invalidated")
  /\ UNCHANGED <<records, next, lastTime, publishing, delivering, work,
                 historyVars, now, acks>>

----------------------------------------------------------------------------
(* reserve(), publish() and submit(). *)

\* The u8 sequence of the next reservation, and why it may be unavailable.
Slot == next % SequenceCount

\* Mutant: an open record may be replaced.
ExhaustedByCount == next = MaxAllocated
Exhausted == next = MaxAllocated \/ records[Slot].state \in Outstanding

\* The deadline must be representable; the mutant lets the sum overflow.
TimeUnchecked(timeout) == timeout # 0
TimeLeft(timeout) == MaxTime - now >= timeout

Reserved(client, timeout) ==
  [EmptyRecord EXCEPT !.state = "reserved", !.client = client,
                      !.token = next, !.deadline = now + timeout]

\* The record of a command whose packet is handed to the transport.
Published(r, id, receiveAck, doneAck) ==
  [r EXCEPT !.state = "pending", !.id = id, !.receiveAck = receiveAck,
            !.doneAck = doneAck]

\* encodeH2c(): every ReceiveAckPeriod-th sequence also asks for a receipt.
EncodedReceiveAck(sequence, receiveAck) ==
  receiveAck \/ sequence % ReceiveAckPeriod = 0

\* The allocation both reserve() and submit() make, once check() passed:
\* r is the record the slot is given.
Allocate(client, r) ==
  /\ records' = [records EXCEPT ![Slot] = r]
  /\ next' = next + 1
  /\ owners' = Append(owners, client)
  /\ UNCHANGED <<error, delivering, work, notices>>

\* The allocator is full: the whole bus fails.
Exhaust ==
  /\ error' = "exhausted"
  /\ UNCHANGED <<records, next, publishing, delivering, work, historyVars>>

Reserve(client, timeout) ==
  /\ publishing = NoSequence
  /\ \/ CheckFails
     \/ /\ CheckPasses /\ TimeLeft(timeout)
        /\ lastTime' = now
        /\ \/ Exhausted /\ Exhaust
           \/ /\ ~Exhausted
              /\ Allocate(client, Reserved(client, timeout))
              /\ UNCHANGED publishing
  /\ UNCHANGED <<now, acks>>

\* A packet for a reservation; one that could never be acknowledged is
\* refused when a client waits for it, and the reservation stays.
Publish(s, id, receiveAck, doneAck) ==
  /\ publishing = NoSequence
  /\ \/ CheckFails
     \/ /\ CheckPasses /\ records[s].state = "reserved"
        /\ lastTime' = now
        /\ LET r == Published(records[s], id, receiveAck, doneAck)
           IN IF r.client # NoClient /\ ~receiveAck /\ ~doneAck
                THEN /\ records' = [records EXCEPT
                                      ![s] = [r EXCEPT !.state = "reserved"]]
                     /\ UNCHANGED publishing
                ELSE /\ records' = [records EXCEPT ![s] = r]
                     /\ publishing' = s
        /\ UNCHANGED <<next, error, delivering, work, historyVars>>
  /\ UNCHANGED <<now, acks>>

\* reserve(), encodeH2c() and publish() in one call.
Submit(client, timeout, id, receiveAck, doneAck) ==
  /\ publishing = NoSequence
  /\ client # NoClient => receiveAck \/ doneAck
  /\ \/ CheckFails
     \/ /\ CheckPasses /\ TimeLeft(timeout)
        /\ lastTime' = now
        /\ \/ Exhausted /\ Exhaust
           \/ /\ ~Exhausted
              /\ Allocate(client,
                   Published(Reserved(client, timeout), id,
                             EncodedReceiveAck(Slot, receiveAck), doneAck))
              /\ publishing' = Slot
  /\ UNCHANGED <<now, acks>>

\* The transport returns.  A refusal may come after the device saw the
\* command; a command without acknowledgements is complete.
PublishReturns(sent, visible) ==
  LET s == publishing
      r == records[s]
      answered == r.receiveAck \/ r.doneAck
  IN /\ publishing # NoSequence /\ (sent => visible)
     /\ publishing' = NoSequence
     /\ error' = IF sent THEN CheckError(records) ELSE Fail("transport")
     /\ lastTime' = IF sent THEN CheckTime ELSE lastTime
     /\ records' = IF sent /\ CheckPasses /\ ~answered
                     THEN [records EXCEPT ![s].state = "complete"]
                     ELSE records
     /\ work' = IF visible /\ answered
                  THEN work \cup {[sequence |-> s, id |-> r.id,
                                   token |-> r.token,
                                   receive |-> r.receiveAck,
                                   done |-> r.doneAck]}
                  ELSE work
     /\ UNCHANGED <<next, delivering, now, acks, historyVars>>

----------------------------------------------------------------------------
(* accept() and deliver(). *)

\* The record an acknowledgement claims is waiting for exactly this.
Claims(a, r) ==
  /\ r.state = "pending" /\ a.id = r.id
  /\ IF a.done THEN r.doneAck ELSE r.receiveAck /\ ~r.received

\* The record once the acknowledgement is taken; the mutant takes reception
\* for execution.
AcknowledgedAtReceipt(a, r) ==
  [r EXCEPT !.received = IF a.done THEN @ ELSE TRUE, !.state = "complete"]
Acknowledged(a, r) ==
  [r EXCEPT !.received = IF a.done THEN @ ELSE TRUE,
            !.state = IF a.done \/ ~r.doneAck THEN "complete" ELSE @]

Notify(r) ==
  /\ delivering' = (r.client # NoClient)
  /\ notices' = IF r.client = NoClient THEN notices
                ELSE notices \cup {[client |-> r.client,
                                    command |-> r.token + 1]}

\* The bus's part of taking an acknowledgement out of the receive queue.
Accept(a) ==
  LET r == records[a.sequence]
  IN \/ /\ ~a.current
        /\ UNCHANGED <<busVars, work, historyVars>>
     \/ /\ a.current /\ (publishing # NoSequence \/ delivering)
        /\ error' = Fail("receiver")
        /\ UNCHANGED <<records, next, lastTime, publishing, delivering, work,
                       historyVars>>
     \/ a.current /\ publishing = NoSequence /\ ~delivering /\ CheckFails
     \/ /\ a.current /\ publishing = NoSequence /\ ~delivering
        /\ CheckPasses /\ lastTime' = now
        /\ \/ /\ ~Claims(a, r)
              /\ UNCHANGED <<records, error, delivering, notices>>
           \/ /\ Claims(a, r)
              /\ records' = [records EXCEPT ![a.sequence] = Acknowledged(a, r)]
              /\ error' = IF a.done /\ ~a.ok THEN "firmwareRejected"
                                             ELSE error
              /\ IF Acknowledged(a, r).state = "complete"
                   THEN Notify(r)
                   ELSE UNCHANGED <<delivering, notices>>
        /\ UNCHANGED <<next, publishing, work, owners>>

MayDeliver == Nested \/ (publishing = NoSequence /\ ~delivering)

\* MacFirmwareEventBinding::receive for the oldest acknowledgement.
Receive ==
  /\ MayDeliver /\ acks # <<>>
  /\ Accept(Head(acks))
  /\ acks' = Tail(acks)
  /\ UNCHANGED now

\* An acknowledgement that was taken already arrives a second time.  It is
\* gone before its sequence is given out again: reserve()'s comment relies
\* on that, the wire format has no generation.
ReceiveAgain(s, done) ==
  LET r == records[s]
  IN /\ MayDeliver
     /\ IF done THEN r.doneAck /\ r.state = "complete" ELSE r.received
     /\ Accept([current |-> TRUE, sequence |-> s, id |-> r.id,
                token |-> r.token, done |-> done, ok |-> TRUE])
     /\ UNCHANGED <<now, acks>>

\* An acknowledgement of an earlier firmware incarnation, with any content.
ReceiveOld(s, id, done) ==
  /\ MayDeliver
  /\ Accept([current |-> FALSE, sequence |-> s, id |-> id, token |-> 0,
             done |-> done, ok |-> TRUE])
  /\ UNCHANGED <<now, acks>>

\* The owner's callback returns and deliver() checks the bus again.
CallbackReturns(accepted) ==
  /\ delivering /\ publishing = NoSequence
  /\ delivering' = FALSE
  /\ error' = IF accepted THEN CheckError(records) ELSE Fail("receiver")
  /\ lastTime' = IF accepted THEN CheckTime ELSE lastTime
  /\ UNCHANGED <<records, next, publishing, now, work, acks, historyVars>>

----------------------------------------------------------------------------
(* The world: the clock, and firmware that answers each command at most    *)
(* once, receipt before completion, commands in any order, or never.       *)

Tick(step) ==
  /\ now + step \in Time
  /\ now' = now + step
  /\ UNCHANGED <<busVars, work, acks, historyVars>>

FirmwareReceives(w) ==
  /\ w.receive
  /\ acks' = Append(acks, [current |-> TRUE, sequence |-> w.sequence,
                           id |-> w.id, token |-> w.token, done |-> FALSE,
                           ok |-> TRUE])
  /\ work' = (work \ {w}) \cup
             (IF w.done THEN {[w EXCEPT !.receive = FALSE]} ELSE {})
  /\ UNCHANGED <<busVars, now, historyVars>>

FirmwareFinishes(w, ok) ==
  /\ ~w.receive
  /\ acks' = Append(acks, [current |-> TRUE, sequence |-> w.sequence,
                           id |-> w.id, token |-> w.token, done |-> TRUE,
                           ok |-> ok])
  /\ work' = work \ {w}
  /\ UNCHANGED <<busVars, now, historyVars>>

Next ==
  \/ Service
  \/ Invalidate
  \/ \E c \in Owner, t \in Timeout : Reserve(c, t)
  \/ \E s \in Sequence, id \in Command, r, d \in BOOLEAN : Publish(s, id, r, d)
  \/ \E c \in Owner, t \in Timeout, id \in Command, r, d \in BOOLEAN :
       Submit(c, t, id, r, d)
  \/ \E sent, visible \in BOOLEAN : PublishReturns(sent, visible)
  \/ Receive
  \/ \E s \in Sequence, d \in BOOLEAN : ReceiveAgain(s, d)
  \/ \E s \in Sequence, id \in Command, d \in BOOLEAN : ReceiveOld(s, id, d)
  \/ \E accepted \in BOOLEAN : CallbackReturns(accepted)
  \/ \E step \in ClockForward : Tick(step)
  \/ \E step \in ClockBack : Tick(-step)
  \/ \E w \in work : FirmwareReceives(w)
  \/ \E w \in work, ok \in BOOLEAN : FirmwareFinishes(w, ok)

Spec == Init /\ [][Next]_vars

\* Outside calls return, the clock advances and goes back only finitely often,
\* and the poll calls service().
Fairness ==
  /\ WF_vars(\E step \in ClockForward : Tick(step))
  /\ WF_vars(Service)
  /\ WF_vars(\E sent, visible \in BOOLEAN : PublishReturns(sent, visible))
  /\ WF_vars(\E accepted \in BOOLEAN : CallbackReturns(accepted))

FairSpec == Spec /\ Fairness /\ <>[][now' >= now]_vars

----------------------------------------------------------------------------
(* Properties. *)

Occupied(s) == records[s].state \in Outstanding

\* The bus implements the ledger of CommandLedger: a command is open while
\* its record is reserved or pending.  reserve() never replaces an open
\* command when it wraps, accept() settles and notifies the command it
\* found, once, and no call does either after a fault.
Open == {records[s].token + 1 : s \in {q \in Sequence : Occupied(q)}}
Ledger == INSTANCE CommandLedger WITH open <- Open, down <- error # "none"
ImplementsLedger == Ledger!Spec

\* On a sound bus the sequence of every answer that the firmware owes or has
\* queued still belongs to the command it answers, which is still waiting
\* for it: reserve() never hands out a sequence that can still be answered,
\* and no acknowledgement is taken by another command than its own.
AnswersStillExpected ==
  error = "none" =>
    /\ \A w \in work :
         LET r == records[w.sequence]
         IN r.token = w.token /\ r.state = "pending" /\ r.id = w.id
    /\ \A i \in 1 .. Len(acks) :
         LET r == records[acks[i].sequence]
         IN r.token = acks[i].token /\ r.state = "pending"

\* A late answer or a late transport return is not success: a command only
\* completes before its deadline, by a clock that has not gone back, however
\* long the outside call took.
NoLateSuccess ==
  [][\A s \in Sequence : Occupied(s) /\ records'[s].state = "complete" =>
       lastTime <= now /\ now < records[s].deadline]_vars

\* A command that is open settles, or the bus faults and every client goes
\* to recovery: deadlines run from the reservation, so a reservation nobody
\* publishes and a command nobody answers end too.
CommandsEnd ==
  \A t \in 1 .. MaxAllocated :
    t \in Open ~> (t \notin Open \/ error # "none")

\* docs/firmware-command-routing.md: "The current policy never reuses a
\* sequence in one firmware incarnation".
SequenceNeverReused ==
  [][\A s \in Sequence : records[s].state # "unused" =>
       records'[s].token = records[s].token]_vars
=============================================================================
