--------------------------- MODULE TableProgrammer ---------------------------
(***************************************************************************)
(* tables::Programmer: the one or two table commands of a station action   *)
(* go over the shared command bus one at a time, each after the done       *)
(* acknowledgement of the one before, and the action's owner (BootService) *)
(* is told once how the plan ended.  The bus is FirmwareCommands as its    *)
(* clients see it: an error of any client ends it for good.                *)
(***************************************************************************)
EXTENDS Naturals, Sequences, FiniteSets

CONSTANT TpActions  \* bound: station actions with table work

ASSUME TpAssumption == TpActions \in Nat

VARIABLES
    tpProgram,  \* Programmer: state, operation, commands of the plan, index, sequence
    tpOwner,    \* BootService: action under way (0: none), tableDone_, tableSuccess_
    tpBus,      \* FirmwareCommands: faulted, next sequence, records pending
    tpDevice,   \* commands not yet carried out, commands carried out, acknowledgements under way
    tpTold      \* the answers the owner was given, with what it asked for

tpVars == <<tpProgram, tpOwner, tpBus, tpDevice, tpTold>>

TpInit ==
    /\ tpProgram = [state |-> "idle", op |-> 0, count |-> 0, index |-> 0, sequence |-> 0]
    /\ tpOwner = [op |-> 0, last |-> 0, done |-> FALSE, success |-> FALSE]
    /\ tpBus = [faulted |-> FALSE, next |-> 1, pending |-> {}]
    /\ tpDevice = [queue |-> <<>>, applied |-> {}, acks |-> {}]
    /\ tpTold = <<>>

-----------------------------------------------------------------------------
(* Every operator below maps a whole state s = [p, o, b, d, t] to the next, *)
(* for a call may reach the bus, the device and the owner in one step.      *)

TpState == [p |-> tpProgram, o |-> tpOwner, b |-> tpBus, d |-> tpDevice, t |-> tpTold]
TpBecomes(s) ==
    /\ tpProgram' = s.p /\ tpOwner' = s.o /\ tpBus' = s.b /\ tpDevice' = s.d /\ tpTold' = s.t

\* tableCompletion(): the owner takes an answer to the action it has under way, once.
TpTakes(s) == s.o.op # 0 /\ s.o.op = s.p.op /\ ~s.o.done

\* notify(): an owner that does not take the answer ends the bus.
TpNotify(s, success) ==
    LET told == [s EXCEPT !.t = Append(@, [op |-> s.p.op, success |-> success, taken |-> TpTakes(s)])] IN
    IF TpTakes(s) THEN [told EXCEPT !.o.done = TRUE, !.o.success = success]
    ELSE [told EXCEPT !.p.state = "failed", !.b.faulted = TRUE]

\* Mutant: a failing plan leaves the bus to the other clients.
TpFailQuietly(s, deliver) ==
    LET failed == [s EXCEPT !.p.state = "failed"] IN
    IF s.p.state = "failed" THEN s ELSE IF deliver THEN TpNotify(failed, FALSE) ELSE failed
\* fail(): once; it invalidates the bus and tells the owner unless begin() will.
TpFail(s, deliver) ==
    LET failed == [s EXCEPT !.p.state = "failed", !.b.faulted = TRUE] IN
    IF s.p.state = "failed" THEN s ELSE IF deliver THEN TpNotify(failed, FALSE) ELSE failed

\* submit() of the command at the index: published, refused before it was, or
\* failed on the way to the device, which may have it all the same.
TpSubmitted(s) ==
    LET record == [sequence |-> s.b.next, op |-> s.p.op, index |-> s.p.index]
        sent == [s EXCEPT !.p.sequence = s.b.next, !.b.next = @ + 1, !.b.pending = @ \cup {record},
                          !.d.queue = Append(@, record)] IN
    IF s.b.faulted THEN {[ok |-> FALSE, s |-> s]}
    ELSE {[ok |-> TRUE, s |-> sent], [ok |-> FALSE, s |-> s],
          [ok |-> FALSE, s |-> [sent EXCEPT !.b.faulted = TRUE]],
          [ok |-> FALSE, s |-> [sent EXCEPT !.b.faulted = TRUE, !.d.queue = s.d.queue]]}

\* begin() for the action of number op with a plan of count commands.
TpBegun(s, op, count) ==
    LET armed == [s EXCEPT !.p = [state |-> "pending", op |-> op, count |-> count, index |-> 0,
                                  sequence |-> s.p.sequence]] IN
    IF s.p.state \in {"pending", "failed"} THEN {s}
    ELSE IF s.b.faulted THEN {TpFail(s, FALSE)}
    ELSE {IF r.ok THEN r.s ELSE TpFail(r.s, FALSE) : r \in TpSubmitted(armed)}

\* Mutant: the first acknowledgement ends the plan.
TpLastFirst(p) == TRUE
TpLast(p) == p.index + 1 = p.count

\* event(), called by the bus with the acknowledgement a of one of our records.
TpEvent(s, a) ==
    LET next == [s EXCEPT !.p.index = @ + 1] IN
    IF s.p.state # "pending" \/ a.op # s.p.op \/ a.sequence # s.p.sequence \/ ~a.ok
    THEN {TpFail(s, TRUE)}
    ELSE IF TpLast(s.p) THEN {TpNotify([next EXCEPT !.p.state = "complete"], TRUE)}
    ELSE {IF r.ok THEN r.s ELSE TpFail(r.s, TRUE) : r \in TpSubmitted(next)}

-----------------------------------------------------------------------------
(* Steps.                                                                  *)

\* Lengths of the plans: idlePlan() pairs CAM and CMAC, camPlan() and cmacPlan() have one.
TpPlans == {1, 2}

\* BootService::fail() and stop(): no further action, and the bus is invalidated.
TpServiceOver(s) == [s EXCEPT !.o.op = 0, !.o.last = TpActions, !.b.faulted = TRUE]

\* BootService starts an action and submit()s its tables; begin() refused is the
\* end of the action.
TpBegin ==
    /\ tpOwner.op = 0 /\ tpOwner.last < TpActions
    /\ \E count \in TpPlans :
         LET op == tpOwner.last + 1
             asked == [TpState EXCEPT !.o = [op |-> op, last |-> op, done |-> FALSE, success |-> FALSE]] IN
         \E s \in TpBegun(asked, op, count) :
           TpBecomes(IF s.p.state = "pending" /\ s.p.op = op THEN s ELSE TpServiceOver(s))

\* The owner sees the answer: the action is complete, or it has failed.
TpOwnerReads ==
    /\ tpOwner.op # 0 /\ tpOwner.done
    /\ TpBecomes(IF tpOwner.success THEN [TpState EXCEPT !.o.op = 0] ELSE TpServiceOver(TpState))

\* The service fails or stops for another reason while the tables are under way.
TpOwnerDrops ==
    /\ tpOwner.op # 0 /\ TpBecomes(TpServiceOver(TpState))

\* Mutant: an acknowledgement of a command that is over is delivered again.
TpExpectedAlways(a) == ~tpBus.faulted
\* accept(): only a record that is pending is answered, once.
TpExpected(a) == ~tpBus.faulted /\ \E r \in tpBus.pending : r.sequence = a.sequence

\* An acknowledgement arrives, perhaps not for the last time.  A refused command
\* ends the bus before its owner is told; a receiver that refuses ends it too.
TpAck ==
    \E a \in tpDevice.acks : \E again \in BOOLEAN :
      LET taken == [TpState EXCEPT !.d.acks = IF again THEN @ ELSE @ \ {a}]
          retired == [taken EXCEPT !.b.pending = {r \in @ : r.sequence # a.sequence},
                                   !.b.faulted = @ \/ ~a.ok] IN
        IF TpExpected(a) THEN \E s \in TpEvent(retired, a) : TpBecomes(s) ELSE TpBecomes(taken)

\* service() and cancel().
TpService ==
    /\ tpProgram.state = "pending" /\ tpBus.faulted /\ TpBecomes(TpFail(TpState, TRUE))
TpCancel ==
    /\ tpProgram.state = "pending" /\ TpBecomes(TpFail(TpState, TRUE))

\* A command of any client is overdue, refused, or the clock ran backwards.
TpBusEnds ==
    /\ ~tpBus.faulted /\ tpBus' = [tpBus EXCEPT !.faulted = TRUE]
    /\ UNCHANGED <<tpProgram, tpOwner, tpDevice, tpTold>>

\* The firmware carries out or refuses the oldest command and acknowledges it; the
\* acknowledgement may be lost.
TpExecute ==
    /\ tpDevice.queue # <<>>
    /\ LET r == Head(tpDevice.queue) IN
         \E ok, lost \in BOOLEAN :
           tpDevice' = [queue |-> Tail(tpDevice.queue),
                        applied |-> IF ok THEN tpDevice.applied \cup {<<r.op, r.index>>} ELSE tpDevice.applied,
                        acks |-> IF lost THEN tpDevice.acks
                                 ELSE tpDevice.acks \cup {[sequence |-> r.sequence, op |-> r.op, ok |-> ok]}]
    /\ UNCHANGED <<tpProgram, tpOwner, tpBus, tpTold>>

TpNext ==
    \/ TpBegin \/ TpOwnerReads \/ TpOwnerDrops \/ TpAck \/ TpService \/ TpCancel
    \/ TpBusEnds \/ TpExecute

-----------------------------------------------------------------------------
(* Properties.                                                             *)

TpAnswers(op) == {i \in 1 .. Len(tpTold) : tpTold[i].op = op}

\* No plan is answered twice, and one the programmer has done with is answered,
\* except by begin() itself: repeated and late acknowledgements, a cancellation and
\* an owner that went away included.
TpAnsweredOnce ==
    /\ \A op \in 1 .. TpActions : Cardinality(TpAnswers(op)) <= 1
    /\ tpProgram.state = "pending" => TpAnswers(tpProgram.op) = {}
    /\ tpProgram.state = "complete" => TpAnswers(tpProgram.op) # {}

\* An action whose tables are reported written has every command of its plan
\* carried out by the firmware.
TpSuccessWhole ==
    tpOwner.op # 0 /\ tpOwner.done /\ tpOwner.success =>
        \A i \in 0 .. tpProgram.count - 1 : <<tpOwner.op, i>> \in tpDevice.applied

\* Tables that hold a part of a plan, or may yet receive one, are never left behind
\* a usable bus: another client cannot go on as though nothing happened.
TpNoHalfPlan ==
    tpProgram.state \in {"complete", "failed"} /\ ~tpBus.faulted =>
        /\ tpDevice.queue = <<>>
        /\ \A i \in 0 .. tpProgram.count - 1 : <<tpProgram.op, i>> \in tpDevice.applied
=============================================================================
