----------------------- MODULE FirmwareCommandsProofs -----------------------
(***************************************************************************)
(* Proofs about the firmware command bus, for every number of sequences,   *)
(* clients, commands and every timeout: the type invariant, that the bus   *)
(* implements the command ledger, that every answer finds its own command, *)
(* and that no command completes late.                                     *)
(***************************************************************************)
EXTENDS FirmwareCommands, TLAPS

\* What the proofs use of the constants.
LEMMA Bounds ==
  /\ SequenceCount \in Nat \ {0}
  /\ MaxTime \in Nat /\ MaxAllocated \in Nat
  /\ NoClient \notin Client /\ Timeout \subseteq Nat
  BY ConstantsAssumption DEF ConstantsAssumption

\* The clock moves by whole steps, forward or back.
LEMMA ClockMoves ==
  ASSUME \/ \E step \in ClockForward : Tick(step)
         \/ \E step \in ClockBack : Tick(-step)
  PROVE  \E step \in Int : Tick(step)
<1>1. CASE \E step \in ClockForward : Tick(step)
  BY <1>1, ConstantsAssumption DEF ConstantsAssumption
<1>2. CASE \E step \in ClockBack : Tick(-step)
  <2>1. PICK step \in ClockBack : Tick(-step)
    BY <1>2
  <2>2. -step \in Int
    BY ConstantsAssumption DEF ConstantsAssumption
  <2> QED
    BY <2>1, <2>2
<1> QED
  BY <1>1, <1>2

\* next_ truncated to the wire's width is a sequence.
LEMMA SlotIsSequence ==
  ASSUME next \in Nat
  PROVE  Slot \in Sequence
  BY Bounds DEF Slot, Sequence

\* A deadline reserve() accepts does not overflow.
LEMMA DeadlineInTime ==
  ASSUME NEW timeout \in Timeout, now \in Time, TimeLeft(timeout)
  PROVE  now + timeout \in Time
  BY Bounds DEF Time, TimeLeft

----------------------------------------------------------------------------
(* The type invariant, action by action. *)

\* check() leaves a legal error and time.
LEMMA CheckTyped ==
  ASSUME TypeOK
  PROVE  CheckError(records) \in CommandError /\ CheckTime \in Time
  BY DEF TypeOK, CheckError, CheckTime, Fail, CommandError

\* The record a fresh reservation gets.
LEMMA ReservedTyped ==
  ASSUME TypeOK, NEW client \in Owner, NEW timeout \in Timeout,
         TimeLeft(timeout)
  PROVE  Reserved(client, timeout) \in CommandRecord
  <1>1. now + timeout \in Time
    BY DeadlineInTime DEF TypeOK
  <1>2. EmptyRecord \in CommandRecord
    BY Bounds DEF EmptyRecord, CommandRecord, Owner, Time
  <1> QED
    BY <1>1, <1>2 DEF Reserved, EmptyRecord, CommandRecord, TypeOK, Owner

\* Handing a record to the transport keeps it a record.
LEMMA PublishedTyped ==
  ASSUME NEW r \in CommandRecord, NEW id \in Command,
         NEW a \in BOOLEAN, NEW d \in BOOLEAN
  PROVE  Published(r, id, a, d) \in CommandRecord
  BY DEF Published, CommandRecord

\* An acknowledged record is a record.
LEMMA AcknowledgedTyped ==
  ASSUME NEW r \in CommandRecord, NEW a \in Ack
  PROVE  Acknowledged(a, r) \in CommandRecord
  BY DEF Acknowledged, CommandRecord, Ack

\* A call that ends in check() keeps the types.
LEMMA CheckFailsTyped ==
  ASSUME TypeOK, CheckFails, UNCHANGED <<now, acks>>
  PROVE  TypeOK'
  BY CheckTyped DEF TypeOK, CheckFails, historyVars, Sequence, Time

\* An allocation, as reserve() and submit() make it.
LEMMA AllocateTyped ==
  ASSUME TypeOK, NEW client \in Owner, NEW r \in CommandRecord,
         ~Exhausted, Allocate(client, r)
  PROVE  /\ records' \in [Sequence -> CommandRecord]
         /\ next' \in 0 .. MaxAllocated
         /\ owners' \in Seq(Owner) /\ Len(owners') = next'
         /\ notices' \subseteq Notice
  <1>1. next' \in 0 .. MaxAllocated
    BY Bounds DEF TypeOK, Allocate, Exhausted
  <1>2. owners' \in Seq(Owner) /\ Len(owners') = next'
    BY DEF TypeOK, Allocate
  <1> QED
    BY <1>1, <1>2 DEF TypeOK, Allocate

\* reserve() keeps the types.
LEMMA ReserveTyped ==
  ASSUME TypeOK, NEW c \in Owner, NEW t \in Timeout, Reserve(c, t)
  PROVE  TypeOK'
  <1>1. CASE CheckFails
    BY <1>1, CheckFailsTyped DEF Reserve
  <1>2. CASE Exhaust /\ lastTime' = now
    BY <1>2 DEF Reserve, Exhaust, TypeOK, historyVars, CommandError, Sequence,
                Time
  <1>3. CASE /\ TimeLeft(t) /\ ~Exhausted /\ lastTime' = now
             /\ Allocate(c, Reserved(c, t)) /\ UNCHANGED publishing
    <2>1. Reserved(c, t) \in CommandRecord
      BY <1>3, ReservedTyped
    <2>2. /\ records' \in [Sequence -> CommandRecord]
          /\ next' \in 0 .. MaxAllocated
          /\ owners' \in Seq(Owner) /\ Len(owners') = next'
          /\ notices' \subseteq Notice
      BY <1>3, <2>1, AllocateTyped
    <2> QED
      BY <1>3, <2>2 DEF Reserve, Allocate, TypeOK, Sequence, Time
  <1> QED
    BY <1>1, <1>2, <1>3 DEF Reserve

\* publish() keeps the types.
LEMMA PublishTyped ==
  ASSUME TypeOK, NEW s \in Sequence, NEW id \in Command,
         NEW a \in BOOLEAN, NEW d \in BOOLEAN, Publish(s, id, a, d)
  PROVE  TypeOK'
  <1>1. CASE CheckFails
    BY <1>1, CheckFailsTyped DEF Publish
  <1>2. CASE ~CheckFails
    <2> DEFINE r == Published(records[s], id, a, d)
    <2>1. r \in CommandRecord
      BY PublishedTyped DEF TypeOK
    <2>2. [r EXCEPT !.state = "reserved"] \in CommandRecord
      BY <2>1 DEF CommandRecord
    <2>3. records' \in [Sequence -> CommandRecord]
      BY <1>2, <2>1, <2>2 DEF Publish, TypeOK
    <2>4. publishing' \in Sequence \cup {NoSequence}
      BY <1>2 DEF Publish, TypeOK
    <2> QED
      BY <1>2, <2>3, <2>4 DEF Publish, TypeOK, historyVars, Sequence, Time
  <1> QED
    BY <1>1, <1>2

\* submit() keeps the types.
LEMMA SubmitTyped ==
  ASSUME TypeOK, NEW c \in Owner, NEW t \in Timeout, NEW id \in Command,
         NEW a \in BOOLEAN, NEW d \in BOOLEAN, Submit(c, t, id, a, d)
  PROVE  TypeOK'
  <1> DEFINE r == Published(Reserved(c, t), id, EncodedReceiveAck(Slot, a), d)
  <1>1. CASE CheckFails
    BY <1>1, CheckFailsTyped DEF Submit
  <1>2. CASE Exhaust /\ lastTime' = now
    BY <1>2 DEF Submit, Exhaust, TypeOK, historyVars, CommandError, Sequence,
                Time
  <1>3. CASE /\ TimeLeft(t) /\ ~Exhausted /\ lastTime' = now
             /\ Allocate(c, r) /\ publishing' = Slot
    <2>1. EncodedReceiveAck(Slot, a) \in BOOLEAN
      BY DEF EncodedReceiveAck
    <2>2. r \in CommandRecord
      BY <1>3, <2>1, ReservedTyped, PublishedTyped
    <2>3. /\ records' \in [Sequence -> CommandRecord]
          /\ next' \in 0 .. MaxAllocated
          /\ owners' \in Seq(Owner) /\ Len(owners') = next'
          /\ notices' \subseteq Notice
      BY <1>3, <2>2, AllocateTyped
    <2>4. publishing' \in Sequence
      BY <1>3, SlotIsSequence DEF TypeOK
    <2> QED
      BY <1>3, <2>3, <2>4 DEF Submit, Allocate, TypeOK, Sequence, Time
  <1> QED
    BY <1>1, <1>2, <1>3 DEF Submit

\* The return from the transport keeps the types.
LEMMA PublishReturnsTyped ==
  ASSUME TypeOK, NEW sent \in BOOLEAN, NEW visible \in BOOLEAN,
         PublishReturns(sent, visible),
         publishing \in Sequence => records[publishing].state = "pending",
         \A s \in Sequence : records[s].state = "pending"
                               => records[s].id \in Command
  PROVE  TypeOK'
  <1>1. publishing \in Sequence
    BY DEF PublishReturns, TypeOK
  <1>2. records[publishing] \in CommandRecord
    BY <1>1 DEF TypeOK
  <1>3. [records[publishing] EXCEPT !.state = "complete"] \in CommandRecord
    BY <1>2 DEF CommandRecord
  <1>4. records' \in [Sequence -> CommandRecord]
    BY <1>1, <1>3 DEF PublishReturns, TypeOK
  <1>5. work' \subseteq Debt
    <2> DEFINE r == records[publishing]
               debt == [sequence |-> publishing, id |-> r.id,
                        token |-> r.token, receive |-> r.receiveAck,
                        done |-> r.doneAck]
    <2>1. r.id \in Command
      BY <1>1
    <2>2. debt \in Debt
      BY <1>1, <1>2, <2>1 DEF CommandRecord, Debt
    <2>3. work' = work \cup {debt} \/ work' = work
      BY DEF PublishReturns
    <2> QED
      BY <2>2, <2>3 DEF TypeOK
  <1>6. error' \in CommandError /\ lastTime' \in Time
    BY CheckTyped DEF PublishReturns, TypeOK, Fail, CommandError
  <1> QED
    BY <1>4, <1>5, <1>6 DEF PublishReturns, TypeOK, historyVars, Sequence, Time

\* accept() keeps the types; the caller takes care of the receive queue.
LEMMA AcceptTyped ==
  ASSUME TypeOK, NEW a \in Ack, Accept(a), UNCHANGED now, acks' \in Seq(Ack),
         \A s \in Sequence : records[s].state = "pending"
                               => records[s].token < MaxAllocated
  PROVE  TypeOK'
  <1> DEFINE s == a.sequence
             r == records[s]
  <1>1. s \in Sequence /\ r \in CommandRecord
    BY DEF TypeOK, Ack
  <1>2. CASE UNCHANGED <<busVars, work, historyVars>>
    BY <1>2 DEF busVars, historyVars, TypeOK, Sequence, Time
  <1>3. CASE error' = Fail("receiver") /\
             UNCHANGED <<records, next, lastTime, publishing, delivering,
                         work, historyVars>>
    BY <1>3 DEF Fail, historyVars, TypeOK, CommandError, Sequence, Time
  <1>4. CASE CheckFails
    BY <1>4, CheckTyped DEF TypeOK, CheckFails, historyVars, Sequence, Time
  <1>5. CASE /\ ~Claims(a, r) /\ lastTime' = now
             /\ UNCHANGED <<records, error, delivering, notices>>
             /\ UNCHANGED <<next, publishing, work, owners>>
    BY <1>5 DEF TypeOK, Sequence, Time
  <1>6. CASE /\ Claims(a, r) /\ lastTime' = now
             /\ records' = [records EXCEPT ![s] = Acknowledged(a, r)]
             /\ error' = IF a.done /\ ~a.ok THEN "firmwareRejected"
                                            ELSE error
             /\ IF Acknowledged(a, r).state = "complete"
                  THEN Notify(r)
                  ELSE UNCHANGED <<delivering, notices>>
             /\ UNCHANGED <<next, publishing, work, owners>>
    <2>1. records' \in [Sequence -> CommandRecord]
      BY <1>1, <1>6, AcknowledgedTyped DEF TypeOK
    <2>2. error' \in CommandError
      BY <1>6 DEF TypeOK, CommandError
    <2>3. delivering' \in BOOLEAN
      BY <1>6 DEF Notify, TypeOK
    <2>4. r.token + 1 \in 1 .. MaxAllocated
      BY <1>1, <1>6, Bounds DEF Claims, CommandRecord
    <2>5. notices' \subseteq Notice
      <3>1. CASE notices' = notices
        BY <3>1 DEF TypeOK
      <3>2. CASE r.client # NoClient /\
                 notices' = notices \cup {[client |-> r.client,
                                           command |-> r.token + 1]}
        <4>1. r.client \in Client
          BY <1>1, <3>2 DEF CommandRecord, Owner
        <4>2. [client |-> r.client, command |-> r.token + 1] \in Notice
          BY <2>4, <4>1 DEF Notice
        <4> QED
          BY <3>2, <4>2 DEF TypeOK
      <3> QED
        BY <1>6, <3>1, <3>2 DEF Notify
    <2> QED
      BY <1>6, <2>1, <2>2, <2>3, <2>5 DEF TypeOK, Sequence, Time
  <1> QED
    BY <1>2, <1>3, <1>4, <1>5, <1>6 DEF Accept

----------------------------------------------------------------------------
(* The inductive invariant. *)

\* An occupied record is the record of the command its token numbers, and
\* two occupied records are two commands.
Tracked ==
  /\ \A s \in Sequence : Occupied(s) =>
       /\ records[s].token < next
       /\ owners[records[s].token + 1] = records[s].client
  /\ \A s, q \in Sequence :
       Occupied(s) /\ Occupied(q) /\ records[s].token = records[q].token
         => s = q

\* A pending record carries the identity it was published with, and a client
\* that waits for it waits for an acknowledgement that was asked for.
Awaited ==
  \A s \in Sequence : records[s].state = "pending" =>
    /\ records[s].id \in Command
    /\ records[s].client # NoClient
         => records[s].receiveAck \/ records[s].doneAck

\* The command in the transport is pending.
InTransport == publishing \in Sequence => records[publishing].state = "pending"

Inv == TypeOK /\ Tracked /\ Awaited /\ InTransport

\* The four ways a step may change the records.
Untouched ==
  UNCHANGED <<records, next, owners, notices>>

Allocated(s) ==
  /\ ~Occupied(s)
  /\ next < MaxAllocated
  /\ \E c \in Owner :
       /\ owners' = Append(owners, c)
       /\ records'[s].client = c
  /\ records' = [records EXCEPT ![s] = records'[s]]
  /\ records'[s].state \in Outstanding
  /\ records'[s].token = next
  /\ records'[s].state = "pending" =>
       /\ records'[s].id \in Command
       /\ records'[s].client # NoClient
            => records'[s].receiveAck \/ records'[s].doneAck
  /\ next' = next + 1
  /\ UNCHANGED <<notices, error>>

Updated(s) ==
  /\ Occupied(s)
  /\ records' = [records EXCEPT ![s] = records'[s]]
  /\ records'[s].state \in Outstanding
  /\ records[s].state = "pending" => records'[s].state = "pending"
  /\ records'[s].token = records[s].token
  /\ records'[s].client = records[s].client
  /\ records'[s].state = "pending" =>
       /\ records'[s].id \in Command
       /\ records'[s].client # NoClient
            => records'[s].receiveAck \/ records'[s].doneAck
  /\ UNCHANGED <<next, owners, notices>>

Completed(s) ==
  /\ Occupied(s) /\ error = "none"
  /\ records' = [records EXCEPT ![s] = records'[s]]
  /\ records'[s].state = "complete"
  /\ notices' = IF records[s].client = NoClient THEN notices
                ELSE notices \cup {[client |-> records[s].client,
                                    command |-> records[s].token + 1]}
  /\ UNCHANGED <<next, owners>>

Moves ==
  \/ Untouched
  \/ \E s \in Sequence :
       error = "none" /\ (Allocated(s) \/ Updated(s) \/ Completed(s))

\* Each kind of change keeps the records tracked.
LEMMA MovesTrack ==
  ASSUME Inv, TypeOK', Moves
  PROVE  Tracked' /\ Awaited'
  <1> USE DEF Occupied
  <1>1. CASE Untouched
    BY <1>1 DEF Untouched, Inv, Tracked, Awaited, Sequence
  <1>2. ASSUME NEW s \in Sequence, Allocated(s)
        PROVE  Tracked' /\ Awaited'
    <2>1. \A q \in Sequence : q # s => records'[q] = records[q]
      BY <1>2 DEF Allocated, Inv, TypeOK
    <2>2. \A q \in Sequence : q # s /\ Occupied(q) =>
            records[q].token < next /\ records[q].token \in Nat
      BY DEF Inv, Tracked, TypeOK, CommandRecord
    <2>3. \A i \in 1 .. next : owners'[i] = owners[i]
      BY <1>2 DEF Allocated, Inv, TypeOK
    <2>4. owners'[next + 1] = records'[s].client
      BY <1>2 DEF Allocated, Inv, TypeOK
    <2>5. next \in Nat /\ next' = next + 1 /\ records'[s].token = next
      BY <1>2 DEF Allocated, Inv, TypeOK
    <2>6. ASSUME NEW q \in Sequence, Occupied(q)'
          PROVE  /\ records'[q].token < next'
                 /\ owners'[records'[q].token + 1] = records'[q].client
      <3>1. CASE q = s
        BY <2>4, <2>5, <3>1
      <3>2. CASE q # s
        <4>1. Occupied(q) /\ records'[q] = records[q]
          BY <2>1, <2>6, <3>2 DEF Occupied
        <4>2. records[q].token + 1 \in 1 .. next
          BY <2>2, <2>5, <3>2, <4>1
        <4>3. owners[records[q].token + 1] = records[q].client
          BY <4>1 DEF Inv, Tracked
        <4> QED
          BY <2>2, <2>3, <2>5, <3>2, <4>1, <4>2, <4>3
      <3> QED
        BY <3>1, <3>2
    <2>7. ASSUME NEW p \in Sequence, NEW q \in Sequence, Occupied(p)',
                 Occupied(q)', records'[p].token = records'[q].token
          PROVE  p = q
      BY <1>2, <2>1, <2>2, <2>5, <2>7 DEF Allocated, Inv, Tracked
    <2>8. Tracked'
      BY <2>6, <2>7 DEF Tracked, Sequence
    <2>9. Awaited'
      BY <1>2, <2>1 DEF Allocated, Inv, Awaited, Sequence
    <2> QED
      BY <2>8, <2>9
  <1>3. ASSUME NEW s \in Sequence, Updated(s)
        PROVE  Tracked' /\ Awaited'
    <2>1. \A q \in Sequence : q # s => records'[q] = records[q]
      BY <1>3 DEF Updated, Inv, TypeOK
    <2> QED
      BY <1>3, <2>1 DEF Updated, Inv, Tracked, Awaited, Sequence
  <1>4. ASSUME NEW s \in Sequence, Completed(s)
        PROVE  Tracked' /\ Awaited'
    <2>1. \A q \in Sequence : q # s => records'[q] = records[q]
      BY <1>4 DEF Completed, Inv, TypeOK
    <2> QED
      BY <1>4, <2>1 DEF Completed, Inv, Tracked, Awaited, Sequence, Outstanding
  <1> QED
    BY <1>1, <1>2, <1>3, <1>4 DEF Moves

\* Each kind of change is a step of the ledger, or leaves it alone.
LEMMA MovesAreLedgerSteps ==
  ASSUME Inv, TypeOK', Moves, error # "none" => error' # "none"
  PROVE  [Ledger!Next]_(Ledger!ledgerVars)
  <1> USE DEF Occupied, Open
  <1>1. CASE Untouched
    BY <1>1 DEF Untouched, Ledger!Next, Ledger!Fail, Ledger!ledgerVars,
                Sequence
  <1>2. ASSUME NEW s \in Sequence, Allocated(s), error = "none"
        PROVE  Ledger!Issue
    <2>1. \A q \in Sequence : q # s => records'[q] = records[q]
      BY <1>2 DEF Allocated, Inv, TypeOK
    <2>2. Open' = Open \cup {next + 1}
      BY <1>2, <2>1 DEF Allocated, Sequence
    <2>3. Len(owners) = next
      BY DEF Inv, TypeOK
    <2> QED
      BY <1>2, <2>2, <2>3 DEF Allocated, Ledger!Issue, Owner
  <1>3. ASSUME NEW s \in Sequence, Updated(s)
        PROVE  UNCHANGED <<owners, Open, notices>>
    <2>1. \A q \in Sequence : q # s => records'[q] = records[q]
      BY <1>3 DEF Updated, Inv, TypeOK
    <2>2. Open' = Open
      BY <1>3, <2>1 DEF Updated, Sequence
    <2> QED
      BY <1>3, <2>2 DEF Updated
  <1>4. ASSUME NEW s \in Sequence, Completed(s)
        PROVE  \E t \in Open : Ledger!Settle(t)
    <2> DEFINE t == records[s].token + 1
    <2>1. \A q \in Sequence : q # s => records'[q] = records[q]
      BY <1>4 DEF Completed, Inv, TypeOK
    <2>2. \A q \in Sequence : records[q].token \in Nat
      BY DEF Inv, TypeOK, CommandRecord
    <2>3. t \in Open
      BY <1>4 DEF Completed
    <2>4. \A q \in Sequence : Occupied(q) /\ q # s => records[q].token + 1 # t
      BY <1>4, <2>2 DEF Completed, Inv, Tracked
    <2>5. Open' = Open \ {t}
      BY <1>4, <2>1, <2>4 DEF Completed, Sequence, Outstanding
    <2>6. owners[t] = records[s].client
      BY <1>4 DEF Completed, Inv, Tracked
    <2>7. Ledger!Settle(t)
      BY <1>4, <2>5, <2>6 DEF Completed, Ledger!Settle
    <2> HIDE DEF t, Open
    <2> QED
      BY <2>3, <2>7 DEF Ledger!Settle
  <1> QED
    BY <1>1, <1>2, <1>3, <1>4
    DEF Moves, Ledger!Next, Ledger!Fail, Ledger!ledgerVars

----------------------------------------------------------------------------
(* Every action makes one of those changes. *)

\* The invariant after a step, from the types and the kind of change.
LEMMA MovesKeep ==
  ASSUME Inv, TypeOK', Moves, InTransport'
  PROVE  Inv'
  BY MovesTrack DEF Inv

\* A step that leaves the records and the history alone.
LEMMA UntouchedKeeps ==
  ASSUME Inv, TypeOK', Untouched, publishing' \in {publishing, NoSequence}
  PROVE  Inv' /\ Moves
  <1>1. InTransport'
    BY DEF Inv, InTransport, Untouched, Sequence, NoSequence
  <1> QED
    BY <1>1, MovesKeep DEF Moves

\* A passing check() found no error.
LEMMA PassingMeansSound ==
  ASSUME CheckPasses
  PROVE  error = "none"
  BY DEF CheckPasses, CheckError, Fail

\* reserve() allocates a record or leaves all of them alone.
LEMMA ReserveKeeps ==
  ASSUME Inv, NEW c \in Owner, NEW t \in Timeout, Reserve(c, t)
  PROVE  Inv' /\ Moves
  <1>1. TypeOK'
    BY ReserveTyped DEF Inv
  <1>2. CASE CheckFails \/ Exhaust
    BY <1>1, <1>2, UntouchedKeeps
    DEF CheckFails, Exhaust, Untouched, historyVars
  <1>3. CASE /\ CheckPasses /\ ~Exhausted
             /\ Allocate(c, Reserved(c, t)) /\ UNCHANGED publishing
    <2>1. Slot \in Sequence
      BY SlotIsSequence DEF Inv, TypeOK
    <2>2. records'[Slot] = Reserved(c, t)
      BY <1>3, <2>1 DEF Allocate, Inv, TypeOK
    <2>3. /\ Reserved(c, t).state = "reserved"
          /\ Reserved(c, t).client = c
          /\ Reserved(c, t).token = next
      BY DEF Reserved, EmptyRecord
    <2>4. next < MaxAllocated
      BY <1>3, Bounds DEF Exhausted, Inv, TypeOK
    <2>5. Allocated(Slot)
      BY <1>3, <2>2, <2>3, <2>4
      DEF Allocated, Allocate, Exhausted, Occupied, Outstanding
    <2>6. InTransport'
      <3> SUFFICES ASSUME publishing' \in Sequence
                   PROVE  records'[publishing'].state = "pending"
        BY DEF InTransport, Sequence
      <3>1. NoSequence \notin Sequence
        BY Bounds DEF NoSequence, Sequence
      <3> QED
        BY <1>3, <3>1 DEF Reserve
    <2> QED
      BY <1>1, <1>3, <2>1, <2>5, <2>6, MovesKeep, PassingMeansSound DEF Moves
  <1> QED
    BY <1>2, <1>3 DEF Reserve

\* submit() likewise, and the record it allocates is pending.
LEMMA SubmitKeeps ==
  ASSUME Inv, NEW c \in Owner, NEW t \in Timeout, NEW id \in Command,
         NEW a \in BOOLEAN, NEW d \in BOOLEAN, Submit(c, t, id, a, d)
  PROVE  Inv' /\ Moves
  <1> DEFINE r == Published(Reserved(c, t), id, EncodedReceiveAck(Slot, a), d)
  <1>1. TypeOK'
    BY SubmitTyped DEF Inv
  <1>2. CASE CheckFails \/ Exhaust
    BY <1>1, <1>2, UntouchedKeeps
    DEF CheckFails, Exhaust, Untouched, historyVars
  <1>3. CASE /\ CheckPasses /\ ~Exhausted
             /\ Allocate(c, r) /\ publishing' = Slot
    <2>1. Slot \in Sequence
      BY SlotIsSequence DEF Inv, TypeOK
    <2>2. records'[Slot] = r
      BY <1>3, <2>1 DEF Allocate, Inv, TypeOK
    <2>3. /\ r.state = "pending" /\ r.client = c /\ r.token = next
          /\ r.id = id
      BY DEF Published, Reserved, EmptyRecord
    <2>4. r.receiveAck = EncodedReceiveAck(Slot, a) /\ r.doneAck = d
      BY DEF Published, Reserved, EmptyRecord
    <2>5. c # NoClient => r.receiveAck \/ r.doneAck
      BY <2>4 DEF Submit, EncodedReceiveAck
    <2>6. next < MaxAllocated
      BY <1>3, Bounds DEF Exhausted, Inv, TypeOK
    <2> HIDE DEF r
    <2>7. Allocated(Slot)
      BY <1>3, <2>2, <2>3, <2>5, <2>6
      DEF Allocated, Allocate, Exhausted, Occupied, Outstanding
    <2>8. InTransport'
      BY <1>3, <2>2, <2>3 DEF InTransport
    <2> QED
      BY <1>1, <1>3, <2>1, <2>7, <2>8, MovesKeep, PassingMeansSound DEF Moves
  <1> QED
    BY <1>2, <1>3 DEF Submit

\* publish() only changes the record it publishes, which stays open.
LEMMA PublishKeeps ==
  ASSUME Inv, NEW s \in Sequence, NEW id \in Command,
         NEW a \in BOOLEAN, NEW d \in BOOLEAN, Publish(s, id, a, d)
  PROVE  Inv' /\ Moves
  <1> DEFINE r == Published(records[s], id, a, d)
             kept == [r EXCEPT !.state = "reserved"]
  <1>1. TypeOK'
    BY PublishTyped DEF Inv
  <1>2. CASE CheckFails
    BY <1>1, <1>2, UntouchedKeeps DEF CheckFails, Untouched, historyVars
  <1>3. CASE ~CheckFails
    <2>1. records[s] \in CommandRecord
      BY DEF Inv, TypeOK
    <2>2. /\ r.state = "pending" /\ r.client = records[s].client
          /\ r.token = records[s].token /\ r.id = id
      BY <2>1 DEF Published, CommandRecord
    <2>3. r.receiveAck = a /\ r.doneAck = d
      BY <2>1 DEF Published, CommandRecord
    <2>4. r \in CommandRecord
      BY <2>1, PublishedTyped
    <2> HIDE DEF r
    <2>5. /\ kept.state = "reserved" /\ kept.client = r.client
          /\ kept.token = r.token
      BY <2>4 DEF CommandRecord
    <2> HIDE DEF kept
    <2>6. \/ /\ records' = [records EXCEPT ![s] = kept]
             /\ UNCHANGED publishing
          \/ /\ records' = [records EXCEPT ![s] = r] /\ publishing' = s
             /\ r.client # NoClient => a \/ d
      BY <1>3 DEF Publish, r, kept
    <2>7. records'[s] = kept \/ records'[s] = r
      BY <2>6 DEF Inv, TypeOK
    <2>8. /\ records[s].state = "reserved" /\ CheckPasses
          /\ publishing = NoSequence
          /\ UNCHANGED <<next, owners, notices>>
      BY <1>3 DEF Publish, historyVars
    <2>9. Updated(s)
      BY <2>2, <2>3, <2>5, <2>6, <2>7, <2>8
      DEF Updated, Occupied, Outstanding, Inv, TypeOK
    <2>10. InTransport'
      <3>1. NoSequence \notin Sequence
        BY Bounds DEF NoSequence, Sequence
      <3> QED
        BY <2>2, <2>6, <2>8, <3>1 DEF InTransport, Inv, TypeOK, Sequence
    <2> QED
      BY <1>1, <2>8, <2>9, <2>10, MovesKeep, PassingMeansSound DEF Moves
  <1> QED
    BY <1>2, <1>3

\* The transport's return completes the command in it or leaves the records
\* alone; it completes only commands no client waits for.
LEMMA PublishReturnsKeeps ==
  ASSUME Inv, NEW sent \in BOOLEAN, NEW visible \in BOOLEAN,
         PublishReturns(sent, visible)
  PROVE  Inv' /\ Moves
  <1> DEFINE s == publishing
             done == [records[s] EXCEPT !.state = "complete"]
  <1>1. TypeOK'
    BY PublishReturnsTyped DEF Inv, InTransport, Awaited
  <1>2. s \in Sequence /\ records[s].state = "pending"
    BY DEF PublishReturns, Inv, InTransport, TypeOK
  <1>3. publishing' = NoSequence
    BY DEF PublishReturns
  <1>4. CASE records' = records
    BY <1>1, <1>3, <1>4, UntouchedKeeps
    DEF PublishReturns, Untouched, historyVars
  <1>5. CASE /\ CheckPasses /\ records' = [records EXCEPT ![s] = done]
             /\ ~records[s].receiveAck /\ ~records[s].doneAck
    <2>1. records[s].client = NoClient
      BY <1>2, <1>5 DEF Inv, Awaited
    <2>2. records'[s] = done
      BY <1>2, <1>5 DEF Inv, TypeOK
    <2>3. done.state = "complete"
      BY <1>2 DEF Inv, TypeOK, CommandRecord
    <2> HIDE DEF done
    <2>4. Completed(s)
      BY <1>2, <1>5, <2>1, <2>2, <2>3, PassingMeansSound
      DEF Completed, PublishReturns, historyVars, Occupied, Outstanding
    <2>5. InTransport'
      <3>1. NoSequence \notin Sequence
        BY Bounds DEF NoSequence, Sequence
      <3> QED
        BY <1>3, <3>1 DEF InTransport, Sequence
    <2> QED
      BY <1>1, <1>2, <1>5, <2>4, <2>5, MovesKeep, PassingMeansSound DEF Moves
  <1>6. \/ records' = records
        \/ /\ CheckPasses /\ records' = [records EXCEPT ![s].state = "complete"]
           /\ ~records[s].receiveAck /\ ~records[s].doneAck
    BY DEF PublishReturns
  <1> QED
    BY <1>4, <1>5, <1>6

\* accept() completes the command an acknowledgement claims, notes its
\* receipt, or leaves the records alone.
LEMMA AcceptKeeps ==
  ASSUME Inv, NEW a \in Ack, Accept(a), UNCHANGED now, acks' \in Seq(Ack)
  PROVE  Inv' /\ Moves
  <1> DEFINE s == a.sequence
             r == records[s]
             taken == Acknowledged(a, r)
  <1>1. \A q \in Sequence : records[q].state = "pending"
                              => records[q].token < MaxAllocated
    BY Bounds DEF Inv, TypeOK, Tracked, Occupied, Outstanding, CommandRecord
  <1>2. TypeOK'
    BY <1>1, AcceptTyped DEF Inv
  <1>3. s \in Sequence /\ r \in CommandRecord
    BY DEF Inv, TypeOK, Ack
  <1>4. publishing' = publishing
    BY DEF Accept, CheckFails, busVars
  <1>5. CASE ~CheckPasses \/ ~Claims(a, r)
    <2>1. Untouched
      BY <1>5 DEF Accept, Untouched, CheckFails, busVars, historyVars
    <2> QED
      BY <1>2, <1>4, <2>1, UntouchedKeeps
  <1>6. CASE UNCHANGED <<records, next, owners, notices>>
    BY <1>2, <1>4, <1>6, UntouchedKeeps DEF Untouched
  <1>7. CASE /\ CheckPasses /\ Claims(a, r) /\ publishing = NoSequence
             /\ records' = [records EXCEPT ![s] = taken]
             /\ IF taken.state = "complete" THEN Notify(r)
                ELSE UNCHANGED <<delivering, notices>>
             /\ UNCHANGED <<next, owners>>
    <2>1. /\ taken.client = r.client /\ taken.token = r.token
          /\ taken.id = r.id
      BY <1>3 DEF Acknowledged, CommandRecord
    <2>2. taken.receiveAck = r.receiveAck /\ taken.doneAck = r.doneAck
      BY <1>3 DEF Acknowledged, CommandRecord
    <2>3. taken.state \in {"complete", "pending"}
      BY <1>3, <1>7 DEF Acknowledged, CommandRecord, Claims
    <2>4. r.state = "pending"
      BY <1>7 DEF Claims
    <2>5. records'[s] = taken
      BY <1>3, <1>7 DEF Inv, TypeOK
    <2> HIDE DEF taken
    <2>6. Completed(s) \/ Updated(s)
      <3>1. CASE taken.state = "complete"
        BY <1>7, <2>4, <2>5, <3>1, PassingMeansSound
        DEF Completed, Notify, Occupied, Outstanding
      <3>2. CASE taken.state = "pending"
        BY <1>3, <1>7, <2>1, <2>2, <2>4, <2>5, <3>2
        DEF Updated, Occupied, Outstanding, Inv, Awaited
      <3> QED
        BY <2>3, <3>1, <3>2
    <2>7. InTransport'
      <3>1. NoSequence \notin Sequence
        BY Bounds DEF NoSequence, Sequence
      <3> QED
        BY <1>4, <1>7, <3>1 DEF InTransport, Sequence
    <2> QED
      BY <1>2, <1>3, <1>7, <2>6, <2>7, MovesKeep, PassingMeansSound DEF Moves
  <1> QED
    BY <1>5, <1>6, <1>7 DEF Accept, CheckFails, busVars, historyVars

\* The three ways an acknowledgement reaches accept().
LEMMA ReceiveKeeps ==
  ASSUME Inv, \/ Receive
              \/ \E s \in Sequence, d \in BOOLEAN : ReceiveAgain(s, d)
              \/ \E s \in Sequence, id \in Command, d \in BOOLEAN :
                   ReceiveOld(s, id, d)
  PROVE  Inv' /\ Moves
  <1>1. CASE Receive
    <2>1. Head(acks) \in Ack /\ Tail(acks) \in Seq(Ack)
      BY <1>1 DEF Receive, Inv, TypeOK
    <2> QED
      BY <1>1, <2>1, AcceptKeeps DEF Receive
  <1>2. ASSUME NEW s \in Sequence, NEW d \in BOOLEAN, ReceiveAgain(s, d)
        PROVE  Inv' /\ Moves
    <2> DEFINE a == [current |-> TRUE, sequence |-> s,
                     id |-> records[s].id, token |-> records[s].token,
                     done |-> d, ok |-> TRUE]
    <2>1. CASE records[s].id \in Command
      <3>1. a \in Ack
        BY <2>1 DEF Ack, Inv, TypeOK, CommandRecord
      <3>2. acks' \in Seq(Ack)
        BY <1>2 DEF ReceiveAgain, Inv, TypeOK
      <3>3. Accept(a) /\ UNCHANGED now
        BY <1>2 DEF ReceiveAgain
      <3> HIDE DEF a
      <3> QED
        BY <3>1, <3>2, <3>3, AcceptKeeps
    <2>2. CASE records[s].id \notin Command
      <3>1. records[s].state # "pending"
        BY <2>2 DEF Inv, Awaited
      <3>2. Accept(a) /\ UNCHANGED <<now, acks>> /\ ~Claims(a, records[s])
        BY <1>2, <3>1 DEF ReceiveAgain, Claims
      <3>3. a.sequence = s /\ a.current
        OBVIOUS
      <3> HIDE DEF a
      <3>4. Untouched /\ UNCHANGED publishing
        BY <3>2, <3>3 DEF Accept, CheckFails, Untouched, busVars, historyVars
      <3>5. UNCHANGED <<work, now, acks>>
        BY <3>2, <3>3 DEF Accept, CheckFails, busVars
      <3>6. /\ error' \in CommandError /\ lastTime' \in Time
            /\ delivering' \in BOOLEAN
        BY <3>2, <3>3, CheckTyped
        DEF Accept, CheckFails, busVars, Inv, TypeOK, Fail, CommandError
      <3>7. TypeOK'
        BY <3>4, <3>5, <3>6 DEF Untouched, Inv, TypeOK, Sequence, Time
      <3> QED
        BY <3>4, <3>7, UntouchedKeeps
    <2> QED
      BY <2>1, <2>2
  <1>3. ASSUME NEW s \in Sequence, NEW id \in Command, NEW d \in BOOLEAN,
               ReceiveOld(s, id, d)
        PROVE  Inv' /\ Moves
    <2> DEFINE a == [current |-> FALSE, sequence |-> s, id |-> id,
                     token |-> 0, done |-> d, ok |-> TRUE]
    <2>1. a \in Ack
      BY Bounds DEF Ack
    <2>2. acks' \in Seq(Ack) /\ Accept(a) /\ UNCHANGED now
      BY <1>3 DEF ReceiveOld, Inv, TypeOK
    <2> HIDE DEF a
    <2> QED
      BY <2>1, <2>2, AcceptKeeps
  <1> QED
    BY <1>1, <1>2, <1>3

\* The remaining steps leave records and history alone.
LEMMA OthersKeep ==
  ASSUME Inv, \/ Service \/ Invalidate
              \/ \E accepted \in BOOLEAN : CallbackReturns(accepted)
              \/ \E step \in Int : Tick(step)
              \/ \E w \in work : FirmwareReceives(w)
              \/ \E w \in work, ok \in BOOLEAN : FirmwareFinishes(w, ok)
              \/ UNCHANGED vars
  PROVE  Inv' /\ Moves
  <1>1. Untouched /\ UNCHANGED publishing
    BY DEF Service, Invalidate, CallbackReturns, Tick, FirmwareReceives,
           FirmwareFinishes, vars, busVars, historyVars, Untouched
  <1>2. TypeOK'
    <2> USE DEF Inv
    <2>1. CASE Service \/ Invalidate
      BY <2>1, CheckTyped DEF Service, Invalidate, Fail, TypeOK, CommandError,
                              historyVars, Sequence, Time
    <2>2. ASSUME NEW accepted \in BOOLEAN, CallbackReturns(accepted)
          PROVE  TypeOK'
      BY <2>2, CheckTyped DEF CallbackReturns, Fail, TypeOK, CommandError,
                              historyVars, Sequence, Time
    <2>3. ASSUME NEW step \in Int, Tick(step)
          PROVE  TypeOK'
      BY <2>3 DEF Tick, TypeOK, busVars, historyVars, Sequence, Time
    <2>4. ASSUME NEW w \in work, FirmwareReceives(w)
          PROVE  TypeOK'
      <3>1. w \in Debt
        BY DEF TypeOK
      <3>2. [w EXCEPT !.receive = FALSE] \in Debt
        BY <3>1 DEF Debt
      <3>3. work' \subseteq Debt
        BY <2>4, <3>2 DEF FirmwareReceives, TypeOK
      <3>4. [current |-> TRUE, sequence |-> w.sequence, id |-> w.id,
             token |-> w.token, done |-> FALSE, ok |-> TRUE] \in Ack
        BY <3>1 DEF Debt, Ack
      <3>5. acks' \in Seq(Ack)
        BY <2>4, <3>4 DEF FirmwareReceives, TypeOK
      <3> QED
        BY <2>4, <3>3, <3>5 DEF FirmwareReceives, TypeOK, busVars,
                                historyVars, Sequence, Time
    <2>5. ASSUME NEW w \in work, NEW ok \in BOOLEAN, FirmwareFinishes(w, ok)
          PROVE  TypeOK'
      <3>1. w \in Debt
        BY DEF TypeOK
      <3>2. [current |-> TRUE, sequence |-> w.sequence, id |-> w.id,
             token |-> w.token, done |-> TRUE, ok |-> ok] \in Ack
        BY <3>1 DEF Debt, Ack
      <3>3. acks' \in Seq(Ack)
        BY <2>5, <3>2 DEF FirmwareFinishes, TypeOK
      <3> QED
        BY <2>5, <3>3 DEF FirmwareFinishes, TypeOK, busVars, historyVars,
                          Sequence, Time
    <2>6. CASE UNCHANGED vars
      BY <2>6 DEF vars, busVars, historyVars, TypeOK, Sequence, Time
    <2> QED
      BY <2>1, <2>2, <2>3, <2>4, <2>5, <2>6
  <1> QED
    BY <1>1, <1>2, UntouchedKeeps

\* Every step keeps the invariant and makes one of the four changes.
LEMMA StepKeeps ==
  ASSUME Inv, [Next]_vars
  PROVE  Inv' /\ Moves
  <1>1. ASSUME NEW c \in Owner, NEW t \in Timeout, Reserve(c, t)
        PROVE  Inv' /\ Moves
    BY <1>1, ReserveKeeps
  <1>2. ASSUME NEW s \in Sequence, NEW id \in Command, NEW r \in BOOLEAN,
               NEW d \in BOOLEAN, Publish(s, id, r, d)
        PROVE  Inv' /\ Moves
    BY <1>2, PublishKeeps
  <1>3. ASSUME NEW c \in Owner, NEW t \in Timeout, NEW id \in Command,
               NEW r \in BOOLEAN, NEW d \in BOOLEAN, Submit(c, t, id, r, d)
        PROVE  Inv' /\ Moves
    BY <1>3, SubmitKeeps
  <1>4. ASSUME NEW sent \in BOOLEAN, NEW visible \in BOOLEAN,
               PublishReturns(sent, visible)
        PROVE  Inv' /\ Moves
    BY <1>4, PublishReturnsKeeps
  <1> QED
    BY <1>1, <1>2, <1>3, <1>4, ReceiveKeeps, OthersKeep, ClockMoves DEF Next

\* The fault latch is never cleared: error_ keeps its first value.
LEMMA FaultLatched ==
  ASSUME Inv, [Next]_vars, error # "none"
  PROVE  error' = error
  <1>1. ~CheckPasses /\ CheckError(records) = error
    BY DEF CheckPasses, CheckError, Fail
  <1>2. \A e : Fail(e) = error
    BY DEF Fail
  <1>3. CheckFails => error' = error
    BY <1>1 DEF CheckFails
  <1>4. ASSUME NEW a, Accept(a) PROVE error' = error
    BY <1>1, <1>2, <1>3, <1>4 DEF Accept, busVars
  <1>5. CASE \/ Receive
             \/ \E s \in Sequence, d \in BOOLEAN : ReceiveAgain(s, d)
             \/ \E s \in Sequence, id \in Command, d \in BOOLEAN :
                  ReceiveOld(s, id, d)
    BY <1>4, <1>5 DEF Receive, ReceiveAgain, ReceiveOld
  <1>6. CASE \/ Service \/ Invalidate
             \/ \E accepted \in BOOLEAN : CallbackReturns(accepted)
             \/ \E sent, visible \in BOOLEAN : PublishReturns(sent, visible)
    BY <1>1, <1>2, <1>6
    DEF Service, Invalidate, CallbackReturns, PublishReturns
  <1>7. CASE \/ \E c \in Owner, t \in Timeout : Reserve(c, t)
             \/ \E s \in Sequence, id \in Command, r, d \in BOOLEAN :
                  Publish(s, id, r, d)
             \/ \E c \in Owner, t \in Timeout, id \in Command,
                   r, d \in BOOLEAN : Submit(c, t, id, r, d)
    BY <1>1, <1>3, <1>7 DEF Reserve, Publish, Submit
  <1>8. CASE \/ \E step \in Int : Tick(step)
             \/ \E w \in work : FirmwareReceives(w)
             \/ \E w \in work, ok \in BOOLEAN : FirmwareFinishes(w, ok)
             \/ UNCHANGED vars
    BY <1>8 DEF Tick, FirmwareReceives, FirmwareFinishes, vars, busVars
  <1> QED
    BY <1>5, <1>6, <1>7, <1>8, ClockMoves DEF Next

\* The initial state satisfies the invariant.
LEMMA InitKeeps ==
  Init => Inv
  <1> SUFFICES ASSUME Init PROVE Inv
    OBVIOUS
  <1>1. EmptyRecord \in CommandRecord /\ EmptyRecord.state = "unused"
    BY Bounds DEF EmptyRecord, CommandRecord, Owner, Time
  <1>2. TypeOK
    <2>1. records \in [Sequence -> CommandRecord]
      BY <1>1 DEF Init
    <2>2. /\ next \in 0 .. MaxAllocated /\ lastTime \in Time /\ now \in Time
          /\ error \in CommandError
      BY Bounds DEF Init, Time, CommandError
    <2>3. acks \in Seq(Ack)
      BY DEF Init
    <2>4. owners \in Seq(Owner) /\ Len(owners) = next
      BY DEF Init
    <2>5. delivering \in BOOLEAN
      BY DEF Init
    <2>6. /\ publishing \in Sequence \cup {NoSequence}
          /\ work \subseteq Debt /\ notices \subseteq Notice
      BY DEF Init
    <2> QED
      BY <2>1, <2>2, <2>3, <2>4, <2>5, <2>6 DEF TypeOK
  <1>3. \A s \in Sequence : records[s] = EmptyRecord
    BY DEF Init
  <1>4. NoSequence \notin Sequence
    BY Bounds DEF NoSequence, Sequence
  <1> QED
    BY <1>1, <1>2, <1>3, <1>4
    DEF Init, Inv, Tracked, Awaited, InTransport, Occupied, Outstanding

\* The inductive invariant holds throughout.
LEMMA Invariance ==
  Spec => []Inv
  <1>1. Inv /\ [Next]_vars => Inv'
    BY StepKeeps
  <1> QED
    BY InitKeeps, <1>1, PTL DEF Spec

\* The types of FirmwareCommands hold throughout: whatever callers, firmware,
\* callbacks and the clock do, every record, deadline and number of
\* reservations stays within the widths the code gives them.
THEOREM TypeCorrect ==
  Spec => []TypeOK
  <1>1. Inv => TypeOK
    BY DEF Inv
  <1> QED
    BY Invariance, <1>1, PTL

\* The bus implements the command ledger for any number of sequences: no
\* open command is replaced when reserve() wraps, an acknowledgement settles
\* one command and notifies its own client once, and nothing is issued or
\* settled after a fault.
THEOREM BusImplementsLedger ==
  Spec => ImplementsLedger
  <1>1. Init => Ledger!Init
    BY DEF Init, Ledger!Init, Open, Occupied, Outstanding, EmptyRecord
  <1>2. Inv /\ Inv' /\ [Next]_vars => [Ledger!Next]_(Ledger!ledgerVars)
    <2> SUFFICES ASSUME Inv, Inv', [Next]_vars
                 PROVE  [Ledger!Next]_(Ledger!ledgerVars)
      OBVIOUS
    <2>1. Moves
      BY StepKeeps
    <2>2. error # "none" => error' # "none"
      BY FaultLatched
    <2>3. TypeOK'
      BY DEF Inv
    <2> QED
      BY <2>1, <2>2, <2>3, MovesAreLedgerSteps
  <1> QED
    BY <1>1, <1>2, Invariance, PTL DEF Spec, ImplementsLedger, Ledger!Spec

----------------------------------------------------------------------------
(* Answers reach the commands they answer.                                 *)

\* The record of the sequence still waits, for the command x is about.
Expected(x) ==
  LET r == records[x.sequence]
  IN r.state = "pending" /\ r.token = x.token /\ r.id = x.id

\* What the firmware owes was asked for and is not in the transport any more;
\* it owes at most one command per sequence.
Owed ==
  /\ \A w \in work :
       /\ Expected(w) /\ publishing # w.sequence
       /\ w.done = records[w.sequence].doneAck /\ (w.receive \/ w.done)
       /\ w.receive => /\ records[w.sequence].receiveAck
                       /\ ~records[w.sequence].received
  /\ \A v, w \in work : v.sequence = w.sequence => v = w

\* What is queued was asked for, is not owed any more, and a receipt is
\* queued before the completion it precedes.
Queued ==
  /\ \A i \in 1 .. Len(acks) :
       /\ Expected(acks[i]) /\ publishing # acks[i].sequence
       /\ IF acks[i].done THEN records[acks[i].sequence].doneAck
          ELSE /\ records[acks[i].sequence].receiveAck
               /\ ~records[acks[i].sequence].received
       /\ \A w \in work : w.sequence = acks[i].sequence =>
            ~acks[i].done /\ ~w.receive
  /\ \A i, j \in 1 .. Len(acks) :
       j < i /\ acks[j].sequence = acks[i].sequence =>
         ~acks[j].done /\ acks[i].done

\* A command that has not left the host is not marked as received.
Fresh ==
  \A s \in Sequence :
    records[s].state = "reserved" \/ publishing = s => ~records[s].received

\* The strengthening of AnswersStillExpected; a failed bus answers nothing.
Answerable == Fresh /\ (error = "none" => Owed /\ Queued)

\* The fields of debts and acknowledgements are of their types.
LEMMA AnswersTyped ==
  ASSUME TypeOK
  PROVE  /\ \A w \in work : w \in Debt /\ w.sequence \in Sequence
         /\ \A i \in 1 .. Len(acks) :
              acks[i] \in Ack /\ acks[i].sequence \in Sequence
         /\ NoSequence \notin Sequence
  <1>1. \A w \in work : w \in Debt /\ w.sequence \in Sequence
    BY DEF TypeOK, Debt
  <1>2. \A i \in 1 .. Len(acks) : acks[i] \in Ack
    BY DEF TypeOK
  <1>3. \A i \in 1 .. Len(acks) : acks[i].sequence \in Sequence
    BY <1>2 DEF Ack
  <1>4. NoSequence \notin Sequence
    BY Bounds DEF NoSequence, Sequence
  <1> QED
    BY <1>1, <1>2, <1>3, <1>4

\* A record that is not pending can change: nothing is owed to it.
LEMMA OpenSlotKeeps ==
  ASSUME Inv, Owed, Queued, NEW s \in Sequence,
         records[s].state # "pending",
         \A q \in Sequence : q # s => records'[q] = records[q],
         UNCHANGED <<work, acks>>, publishing' \in {publishing, NoSequence, s}
  PROVE  Owed' /\ Queued'
  <1>1. /\ \A w \in work : w.sequence \in Sequence \ {s}
        /\ \A i \in 1 .. Len(acks) : acks[i].sequence \in Sequence \ {s}
    BY AnswersTyped DEF Inv, Owed, Queued, Expected
  <1>2. /\ \A w \in work : /\ records'[w.sequence] = records[w.sequence]
                           /\ publishing' # w.sequence
        /\ \A i \in 1 .. Len(acks) :
             /\ records'[acks[i].sequence] = records[acks[i].sequence]
             /\ publishing' # acks[i].sequence
    BY <1>1, AnswersTyped DEF Inv, Owed, Queued
  <1>3. Owed'
    BY <1>2 DEF Owed, Expected
  <1>4. Queued'
    BY <1>2 DEF Queued, Expected
  <1> QED
    BY <1>3, <1>4

\* A step that leaves records, debts and queue alone.
LEMMA StillAnswerable ==
  ASSUME Answerable, UNCHANGED <<records, work, acks>>, Inv,
         publishing' \in {publishing, NoSequence},
         error' = "none" => error = "none"
  PROVE  Answerable'
  <1>1. Fresh'
    BY AnswersTyped DEF Answerable, Fresh, Inv
  <1>2. Owed /\ Queued => Owed' /\ Queued'
    BY AnswersTyped DEF Owed, Queued, Expected, Inv
  <1> QED
    BY <1>1, <1>2 DEF Answerable

\* reserve(), publish() and submit() change a record nothing is owed to.
LEMMA ReserveAnswers ==
  ASSUME Inv, Answerable, NEW c \in Owner, NEW t \in Timeout, Reserve(c, t)
  PROVE  Answerable'
  <1>1. CASE CheckFails \/ Exhaust
    BY <1>1, StillAnswerable
    DEF CheckFails, CheckPasses, Exhaust, Reserve
  <1>2. CASE /\ CheckPasses /\ ~Exhausted
             /\ Allocate(c, Reserved(c, t)) /\ UNCHANGED publishing
    <2>1. Slot \in Sequence
      BY SlotIsSequence DEF Inv, TypeOK
    <2>2. /\ records' = [records EXCEPT ![Slot] = Reserved(c, t)]
          /\ publishing = NoSequence /\ UNCHANGED <<work, acks, publishing>>
      BY <1>2 DEF Allocate, Reserve
    <2>3. /\ \A q \in Sequence : q # Slot => records'[q] = records[q]
          /\ records'[Slot] = Reserved(c, t) /\ ~Reserved(c, t).received
      BY <2>1, <2>2 DEF Inv, TypeOK, Reserved, EmptyRecord
    <2>4. records[Slot].state # "pending" /\ error = "none"
      BY <1>2, PassingMeansSound DEF Exhausted, Outstanding
    <2>5. Fresh'
      BY <2>2, <2>3, AnswersTyped DEF Answerable, Fresh, Inv
    <2> QED
      BY <2>1, <2>2, <2>3, <2>4, <2>5, OpenSlotKeeps DEF Answerable
  <1> QED
    BY <1>1, <1>2 DEF Reserve

\* submit() likewise.
LEMMA SubmitAnswers ==
  ASSUME Inv, Answerable, NEW c \in Owner, NEW t \in Timeout,
         NEW id \in Command, NEW a \in BOOLEAN, NEW d \in BOOLEAN,
         Submit(c, t, id, a, d)
  PROVE  Answerable'
  <1> DEFINE r == Published(Reserved(c, t), id, EncodedReceiveAck(Slot, a), d)
  <1>1. CASE CheckFails \/ Exhaust
    BY <1>1, StillAnswerable
    DEF CheckFails, CheckPasses, Exhaust, Submit
  <1>2. CASE /\ CheckPasses /\ ~Exhausted
             /\ Allocate(c, r) /\ publishing' = Slot
    <2>1. Slot \in Sequence
      BY SlotIsSequence DEF Inv, TypeOK
    <2>2. r.state = "pending" /\ ~r.received
      BY DEF Published, Reserved, EmptyRecord
    <2> HIDE DEF r
    <2>3. /\ records' = [records EXCEPT ![Slot] = r]
          /\ publishing = NoSequence /\ UNCHANGED <<work, acks>>
      BY <1>2 DEF Allocate, Submit
    <2>4. /\ \A q \in Sequence : q # Slot => records'[q] = records[q]
          /\ records'[Slot] = r
      BY <2>1, <2>3 DEF Inv, TypeOK
    <2>5. records[Slot].state # "pending" /\ error = "none"
      BY <1>2, PassingMeansSound DEF Exhausted, Outstanding
    <2>6. Fresh'
      BY <1>2, <2>2, <2>4 DEF Answerable, Fresh
    <2> QED
      BY <1>2, <2>1, <2>3, <2>4, <2>5, <2>6, OpenSlotKeeps DEF Answerable
  <1> QED
    BY <1>1, <1>2 DEF Submit

\* publish() likewise: the record it publishes was only reserved.
LEMMA PublishAnswers ==
  ASSUME Inv, Answerable, NEW s \in Sequence, NEW id \in Command,
         NEW a \in BOOLEAN, NEW d \in BOOLEAN, Publish(s, id, a, d)
  PROVE  Answerable'
  <1> DEFINE r == Published(records[s], id, a, d)
             back == [r EXCEPT !.state = "reserved"]
  <1>1. CASE CheckFails
    BY <1>1, StillAnswerable DEF CheckFails, CheckPasses, Publish
  <1>2. CASE ~CheckFails
    <2>1. /\ CheckPasses /\ records[s].state = "reserved"
          /\ publishing = NoSequence /\ UNCHANGED <<work, acks, error>>
          /\ \/ /\ records' = [records EXCEPT ![s] = back]
                /\ publishing' = NoSequence
             \/ /\ records' = [records EXCEPT ![s] = r]
                /\ publishing' = s
      BY <1>2 DEF Publish
    <2>2. records[s] \in CommandRecord /\ ~records[s].received
      BY <2>1 DEF Inv, TypeOK, Answerable, Fresh
    <2>3. ~r.received /\ ~back.received
      BY <2>2 DEF Published, CommandRecord
    <2> HIDE DEF r, back
    <2>4. /\ \A q \in Sequence : q # s => records'[q] = records[q]
          /\ ~records'[s].received
      BY <2>1, <2>3 DEF Inv, TypeOK
    <2>5. Fresh'
      BY <2>1, <2>4, AnswersTyped DEF Answerable, Fresh, Inv
    <2> QED
      BY <2>1, <2>4, <2>5, OpenSlotKeeps, PassingMeansSound DEF Answerable
  <1> QED
    BY <1>1, <1>2

\* When the transport returns, the firmware owes what the packet asked for.
LEMMA PublishReturnsAnswers ==
  ASSUME Inv, Answerable, NEW sent \in BOOLEAN, NEW visible \in BOOLEAN,
         PublishReturns(sent, visible)
  PROVE  Answerable'
  <1> DEFINE s == publishing
             r == records[s]
             answered == r.receiveAck \/ r.doneAck
             debt == [sequence |-> s, id |-> r.id, token |-> r.token,
                      receive |-> r.receiveAck, done |-> r.doneAck]
             finished == [r EXCEPT !.state = "complete"]
  <1>1. /\ s \in Sequence /\ publishing' = NoSequence /\ acks' = acks
        /\ r \in CommandRecord /\ r.state = "pending" /\ ~r.received
    BY DEF PublishReturns, Inv, TypeOK, InTransport, Answerable, Fresh
  <1>2. /\ \A q \in Sequence : q # s => records'[q] = records[q]
        /\ records'[s].received = r.received
        /\ records'[s].state # "reserved"
    <2>1. finished.received = r.received /\ finished.state = "complete"
      BY <1>1 DEF CommandRecord
    <2>2. records' = records \/ records' = [records EXCEPT ![s] = finished]
      BY DEF PublishReturns
    <2> HIDE DEF finished
    <2> QED
      BY <1>1, <2>1, <2>2 DEF Inv, TypeOK
  <1>3. Fresh'
    BY <1>1, <1>2, AnswersTyped DEF Answerable, Fresh, Inv
  <1>4. CASE error' # "none"
    BY <1>3, <1>4 DEF Answerable
  <1>5. CASE error' = "none"
    <2>1. sent /\ visible /\ CheckPasses /\ error = "none"
      BY <1>5 DEF PublishReturns, CheckPasses, CheckError, Fail
    <2>2. Owed /\ Queued
      BY <2>1 DEF Answerable
    <2>3. /\ \A w \in work : w.sequence \in Sequence \ {s}
          /\ \A i \in 1 .. Len(acks) : acks[i].sequence \in Sequence \ {s}
      BY <2>2, AnswersTyped DEF Owed, Queued, Inv
    <2>4. /\ \A w \in work : records'[w.sequence] = records[w.sequence]
          /\ \A i \in 1 .. Len(acks) :
               records'[acks[i].sequence] = records[acks[i].sequence]
      BY <1>2, <2>3
    <2>5. NoSequence \notin Sequence
      BY AnswersTyped DEF Inv
    <2>6. CASE ~answered
      <3>1. work' = work
        BY <2>6 DEF PublishReturns
      <3>2. Owed'
        BY <1>1, <2>2, <2>3, <2>4, <2>5, <3>1 DEF Owed, Expected
      <3>3. Queued'
        BY <1>1, <2>2, <2>3, <2>4, <2>5, <3>1 DEF Queued, Expected
      <3> QED
        BY <1>3, <3>2, <3>3 DEF Answerable
    <2>7. CASE answered
      <3>1. work' = work \cup {debt} /\ records' = records
        BY <2>1, <2>7 DEF PublishReturns
      <3>2. /\ debt.sequence = s /\ debt.id = r.id /\ debt.token = r.token
            /\ debt.receive = r.receiveAck /\ debt.done = r.doneAck
        OBVIOUS
      <3> HIDE DEF debt
      <3>3. Owed'
        BY <1>1, <2>2, <2>3, <2>5, <2>7, <3>1, <3>2 DEF Owed, Expected
      <3>4. Queued'
        BY <1>1, <2>2, <2>3, <2>5, <3>1, <3>2 DEF Queued, Expected
      <3> QED
        BY <1>3, <3>3, <3>4 DEF Answerable
    <2> QED
      BY <2>6, <2>7
  <1> QED
    BY <1>4, <1>5

\* The oldest acknowledgement settles its own command, or marks its receipt.
LEMMA ReceiveAnswers ==
  ASSUME Inv, Answerable, Receive
  PROVE  Answerable'
  <1> DEFINE a == Head(acks)
             s == a.sequence
             r == records[s]
             taken == Acknowledged(a, r)
  <1>1. /\ acks \in Seq(Ack) /\ acks # <<>> /\ acks' = Tail(acks)
        /\ a = acks[1] /\ a \in Ack /\ Accept(a)
        /\ Len(acks) \in Nat /\ Len(acks) >= 1 /\ Len(acks') = Len(acks) - 1
        /\ \A i \in 1 .. Len(acks') : acks'[i] = acks[i + 1]
    BY DEF Receive, Inv, TypeOK
  <1>2. /\ s \in Sequence /\ r \in CommandRecord
        /\ UNCHANGED <<publishing, work>>
    BY <1>1 DEF Ack, Inv, TypeOK, Accept, CheckFails, busVars
  <1> HIDE DEF a
  <1>3. CASE records' = records
    <2>1. Fresh'
      BY <1>2, <1>3 DEF Answerable, Fresh
    <2>2. error' = "none" => error = "none"
      BY <1>1, PassingMeansSound
      DEF Accept, CheckFails, CheckPasses, Fail, busVars, CheckError
    <2>3. Owed => Owed'
      BY <1>2, <1>3 DEF Owed, Expected
    <2>4. Queued => Queued'
      <3> SUFFICES ASSUME Queued PROVE Queued'
        OBVIOUS
      <3>1. \A i \in 1 .. Len(acks') : i + 1 \in 1 .. Len(acks)
        BY <1>1
      <3> QED
        BY <1>1, <1>2, <1>3, <3>1 DEF Queued, Expected
    <2> QED
      BY <2>1, <2>2, <2>3, <2>4 DEF Answerable
  <1>4. CASE records' # records
    <2>1. /\ CheckPasses /\ Claims(a, r) /\ publishing = NoSequence
          /\ records' = [records EXCEPT ![s] = taken]
      BY <1>1, <1>4 DEF Accept, CheckFails, busVars
    <2>2. Owed /\ Queued
      BY <2>1, PassingMeansSound DEF Answerable
    <2>3. /\ taken.token = r.token /\ taken.id = r.id
          /\ taken.doneAck = r.doneAck /\ taken.receiveAck = r.receiveAck
          /\ taken.state = IF a.done \/ ~r.doneAck THEN "complete" ELSE "pending"
          /\ a.done => taken.received = r.received
      BY <1>2, <2>1 DEF Acknowledged, CommandRecord, Claims
    <2> HIDE DEF taken
    <2>4. /\ records'[s] = taken
          /\ \A q \in Sequence : q # s => records'[q] = records[q]
      BY <1>2, <2>1 DEF Inv, TypeOK
    <2>5. Fresh'
      BY <1>2, <2>1, <2>3, <2>4, AnswersTyped DEF Answerable, Fresh, Inv
    <2>6. \A w \in work : w.sequence = s =>
            ~a.done /\ ~w.receive /\ w.done /\ r.doneAck
      BY <1>1, <2>2 DEF Queued, Owed
    <2>7. \A w \in work : w.sequence \in Sequence
      BY AnswersTyped DEF Inv
    <2>8. Owed'
      BY <1>2, <2>1, <2>2, <2>3, <2>4, <2>6, <2>7 DEF Owed, Expected
    <2>9. \A i \in 1 .. Len(acks') :
            /\ i + 1 \in 1 .. Len(acks) /\ acks'[i].sequence \in Sequence
            /\ acks'[i].sequence = s =>
                 ~a.done /\ acks'[i].done /\ r.doneAck
      BY <1>1, <2>2, AnswersTyped DEF Queued, Inv
    <2>10. ASSUME NEW i \in 1 .. Len(acks')
           PROVE  LET b == acks'[i]
                      q == records'[b.sequence]
                  IN /\ q.state = "pending" /\ q.token = b.token
                     /\ q.id = b.id /\ publishing' # b.sequence
                     /\ IF b.done THEN q.doneAck
                                  ELSE q.receiveAck /\ ~q.received
                     /\ \A w \in work' : w.sequence = b.sequence =>
                          ~b.done /\ ~w.receive
      <3>1. PICK k \in 1 .. Len(acks) : acks'[i] = acks[k] /\ k = i + 1
        BY <1>1, <2>9
      <3>2. acks[k].sequence = s => ~a.done /\ acks[k].done /\ r.doneAck
        BY <2>9, <3>1
      <3> QED
        BY <1>2, <2>1, <2>2, <2>3, <2>4, <2>9, <3>1, <3>2
        DEF Queued, Expected
    <2>11. \A i, j \in 1 .. Len(acks') :
             j < i /\ acks'[j].sequence = acks'[i].sequence =>
               ~acks'[j].done /\ acks'[i].done
      BY <1>1, <2>2, <2>9 DEF Queued
    <2>12. Queued'
      BY <2>10, <2>11 DEF Queued, Expected
    <2> QED
      BY <2>5, <2>8, <2>12 DEF Answerable
  <1> QED
    BY <1>3, <1>4

\* A second or an old acknowledgement claims nothing.
LEMMA RepeatAnswers ==
  ASSUME Inv, Answerable,
         \/ \E s \in Sequence, d \in BOOLEAN : ReceiveAgain(s, d)
         \/ \E s \in Sequence, id \in Command, d \in BOOLEAN :
              ReceiveOld(s, id, d)
  PROVE  Answerable'
  <1>1. ASSUME NEW a, Accept(a), a.current => ~Claims(a, records[a.sequence])
        PROVE  /\ UNCHANGED <<records, work, publishing>>
               /\ error' = "none" => error = "none"
    BY <1>1, PassingMeansSound
    DEF Accept, CheckFails, CheckPasses, Fail, busVars, CheckError
  <1>2. ASSUME NEW s \in Sequence, NEW d \in BOOLEAN, ReceiveAgain(s, d)
        PROVE  Answerable'
    <2> DEFINE a == [current |-> TRUE, sequence |-> s, id |-> records[s].id,
                     token |-> records[s].token, done |-> d, ok |-> TRUE]
    <2>1. Accept(a) /\ acks' = acks /\ ~Claims(a, records[a.sequence])
      BY <1>2 DEF ReceiveAgain, Claims
    <2> HIDE DEF a
    <2> QED
      BY <1>1, <2>1, StillAnswerable
  <1>3. ASSUME NEW s \in Sequence, NEW id \in Command, NEW d \in BOOLEAN,
               ReceiveOld(s, id, d)
        PROVE  Answerable'
    <2> DEFINE a == [current |-> FALSE, sequence |-> s, id |-> id,
                     token |-> 0, done |-> d, ok |-> TRUE]
    <2>1. Accept(a) /\ acks' = acks /\ ~a.current
      BY <1>3 DEF ReceiveOld
    <2> HIDE DEF a
    <2> QED
      BY <1>1, <2>1, StillAnswerable
  <1> QED
    BY <1>2, <1>3

\* The firmware queues a receipt, and still owes the completion if asked.
LEMMA FirmwareReceivesAnswers ==
  ASSUME Inv, Answerable, NEW w \in work, FirmwareReceives(w)
  PROVE  Answerable'
  <1> DEFINE a == [current |-> TRUE, sequence |-> w.sequence, id |-> w.id,
                   token |-> w.token, done |-> FALSE, ok |-> TRUE]
             left == [w EXCEPT !.receive = FALSE]
             n == Len(acks)
  <1>1. /\ w.receive /\ UNCHANGED <<records, publishing, error>>
        /\ acks' = Append(acks, a)
        /\ work' = (work \ {w}) \cup (IF w.done THEN {left} ELSE {})
    BY DEF FirmwareReceives, busVars
  <1>2. /\ left.sequence = w.sequence /\ left.id = w.id
        /\ left.token = w.token /\ left.done = w.done /\ ~left.receive
    BY DEF Inv, TypeOK, Debt
  <1>3. /\ a.sequence = w.sequence /\ a.id = w.id /\ a.token = w.token
        /\ ~a.done
    OBVIOUS
  <1>4. acks \in Seq(Ack) /\ n \in Nat
    BY DEF Inv, TypeOK
  <1>5. /\ Len(acks') = n + 1 /\ acks'[n + 1] = a
        /\ \A i \in 1 .. n : acks'[i] = acks[i]
    BY <1>1, <1>4
  <1> HIDE DEF a, left
  <1>6. Fresh'
    BY <1>1 DEF Answerable, Fresh
  <1>7. CASE error # "none"
    BY <1>1, <1>6, <1>7 DEF Answerable
  <1>8. CASE error = "none"
    <2>1. Owed /\ Queued
      BY <1>8 DEF Answerable
    <2>2. Owed'
      BY <1>1, <1>2, <2>1 DEF Owed, Expected
    <2>3. \A i \in 1 .. n : acks[i].sequence # w.sequence
      BY <1>1, <2>1 DEF Queued
    <2>4. \A v \in work' : v.sequence = w.sequence => ~v.receive
      BY <1>1, <1>2, <2>1 DEF Owed
    <2>5. \A v \in work' : v.sequence # w.sequence => v \in work
      BY <1>1, <1>2
    <2>6. ASSUME NEW i \in 1 .. n + 1
          PROVE  LET b == acks'[i]
                     q == records[b.sequence]
                 IN /\ q.state = "pending" /\ q.token = b.token
                    /\ q.id = b.id /\ publishing # b.sequence
                    /\ IF b.done THEN q.doneAck
                                 ELSE q.receiveAck /\ ~q.received
                    /\ \A v \in work' : v.sequence = b.sequence =>
                         ~b.done /\ ~v.receive
      <3>1. CASE i = n + 1
        BY <1>1, <1>3, <1>5, <2>1, <2>4, <3>1 DEF Owed, Expected
      <3>2. CASE i \in 1 .. n
        BY <1>5, <2>1, <2>3, <2>5, <3>2 DEF Queued, Expected
      <3> QED
        BY <1>4, <3>1, <3>2
    <2>7. ASSUME NEW i \in 1 .. n + 1, NEW j \in 1 .. n + 1, j < i,
                 acks'[j].sequence = acks'[i].sequence
          PROVE  ~acks'[j].done /\ acks'[i].done
      <3>1. i # n + 1 /\ j # n + 1
        BY <1>3, <1>4, <1>5, <2>3, <2>7
      <3> QED
        BY <1>4, <1>5, <2>1, <2>7, <3>1 DEF Queued
    <2>8. Queued'
      BY <1>1, <1>5, <2>6, <2>7 DEF Queued, Expected
    <2> QED
      BY <1>6, <2>2, <2>8 DEF Answerable
  <1> QED
    BY <1>7, <1>8

\* The firmware queues a completion and owes the command nothing more.
LEMMA FirmwareFinishesAnswers ==
  ASSUME Inv, Answerable, NEW w \in work, NEW ok \in BOOLEAN,
         FirmwareFinishes(w, ok)
  PROVE  Answerable'
  <1> DEFINE a == [current |-> TRUE, sequence |-> w.sequence, id |-> w.id,
                   token |-> w.token, done |-> TRUE, ok |-> ok]
             n == Len(acks)
  <1>1. /\ ~w.receive /\ UNCHANGED <<records, publishing, error>>
        /\ acks' = Append(acks, a) /\ work' = work \ {w}
    BY DEF FirmwareFinishes, busVars
  <1>2. /\ a.sequence = w.sequence /\ a.id = w.id /\ a.token = w.token
        /\ a.done
    OBVIOUS
  <1>3. acks \in Seq(Ack) /\ n \in Nat
    BY DEF Inv, TypeOK
  <1>4. /\ Len(acks') = n + 1 /\ acks'[n + 1] = a
        /\ \A i \in 1 .. n : acks'[i] = acks[i]
    BY <1>1, <1>3
  <1> HIDE DEF a
  <1>5. Fresh'
    BY <1>1 DEF Answerable, Fresh
  <1>6. CASE error # "none"
    BY <1>1, <1>5, <1>6 DEF Answerable
  <1>7. CASE error = "none"
    <2>1. Owed /\ Queued
      BY <1>7 DEF Answerable
    <2>2. Owed'
      BY <1>1, <2>1 DEF Owed, Expected
    <2>3. /\ \A i \in 1 .. n : acks[i].sequence = w.sequence => ~acks[i].done
          /\ \A v \in work' : v \in work /\ v.sequence # w.sequence
          /\ w.done
      BY <1>1, <2>1 DEF Queued, Owed
    <2>4. ASSUME NEW i \in 1 .. n + 1
          PROVE  LET b == acks'[i]
                     q == records[b.sequence]
                 IN /\ q.state = "pending" /\ q.token = b.token
                    /\ q.id = b.id /\ publishing # b.sequence
                    /\ IF b.done THEN q.doneAck
                                 ELSE q.receiveAck /\ ~q.received
                    /\ \A v \in work' : v.sequence = b.sequence =>
                         ~b.done /\ ~v.receive
      <3>1. CASE i = n + 1
        BY <1>1, <1>2, <1>4, <2>1, <2>3, <3>1 DEF Owed, Expected
      <3>2. CASE i \in 1 .. n
        BY <1>4, <2>1, <2>3, <3>2 DEF Queued, Expected
      <3> QED
        BY <1>3, <3>1, <3>2
    <2>5. ASSUME NEW i \in 1 .. n + 1, NEW j \in 1 .. n + 1, j < i,
                 acks'[j].sequence = acks'[i].sequence
          PROVE  ~acks'[j].done /\ acks'[i].done
      <3>1. CASE i = n + 1
        BY <1>2, <1>3, <1>4, <2>3, <2>5, <3>1
      <3>2. CASE i # n + 1
        BY <1>3, <1>4, <2>1, <2>5, <3>2 DEF Queued
      <3> QED
        BY <3>1, <3>2
    <2>6. Queued'
      BY <1>1, <1>4, <2>4, <2>5 DEF Queued, Expected
    <2> QED
      BY <1>5, <2>2, <2>6 DEF Answerable
  <1> QED
    BY <1>6, <1>7

\* Every step keeps the answers in place.
LEMMA StepAnswers ==
  ASSUME Inv, Answerable, [Next]_vars
  PROVE  Answerable'
  <1>1. CASE \/ Service \/ Invalidate
             \/ \E accepted \in BOOLEAN : CallbackReturns(accepted)
             \/ \E step \in Int : Tick(step)
             \/ UNCHANGED vars
    <2>1. UNCHANGED <<records, work, acks, publishing>>
      BY <1>1 DEF Service, Invalidate, CallbackReturns, Tick, vars, busVars
    <2>2. error' = "none" => error = "none"
      BY FaultLatched
    <2> QED
      BY <2>1, <2>2, StillAnswerable
  <1>2. ASSUME NEW c \in Owner, NEW t \in Timeout, Reserve(c, t)
        PROVE  Answerable'
    BY <1>2, ReserveAnswers
  <1>3. ASSUME NEW s \in Sequence, NEW id \in Command, NEW r \in BOOLEAN,
               NEW d \in BOOLEAN, Publish(s, id, r, d)
        PROVE  Answerable'
    BY <1>3, PublishAnswers
  <1>4. ASSUME NEW c \in Owner, NEW t \in Timeout, NEW id \in Command,
               NEW r \in BOOLEAN, NEW d \in BOOLEAN, Submit(c, t, id, r, d)
        PROVE  Answerable'
    BY <1>4, SubmitAnswers
  <1>5. ASSUME NEW sent \in BOOLEAN, NEW visible \in BOOLEAN,
               PublishReturns(sent, visible)
        PROVE  Answerable'
    BY <1>5, PublishReturnsAnswers
  <1> QED
    BY <1>1, <1>2, <1>3, <1>4, <1>5, ReceiveAnswers, RepeatAnswers,
       FirmwareReceivesAnswers, FirmwareFinishesAnswers, ClockMoves DEF Next

\* Every answer the firmware owes or has queued on a sound bus still finds the
\* command it answers waiting for it, however often the sequence numbers have
\* wrapped: reserve() gives out no sequence that can still be answered.
THEOREM AnswersAlwaysExpected ==
  Spec => []AnswersStillExpected
  <1>1. Init => Answerable
    <2> SUFFICES ASSUME Init PROVE Answerable
      OBVIOUS
    <2>1. Fresh
      BY DEF Init, Fresh, EmptyRecord
    <2>2. Owed /\ Queued
      BY DEF Init, Owed, Queued
    <2> QED
      BY <2>1, <2>2 DEF Answerable
  <1>2. Inv /\ Answerable /\ [Next]_vars => Answerable'
    BY StepAnswers
  <1>3. Answerable => AnswersStillExpected
    BY DEF Answerable, Owed, Queued, Expected, AnswersStillExpected
  <1> QED
    BY <1>1, <1>2, <1>3, Invariance, PTL DEF Spec

\* A command only completes before its deadline, by a clock that has not gone
\* back: an answer or a transport return that comes later is no success.
THEOREM LateIsNoSuccess ==
  Spec => NoLateSuccess
  <1>1. ASSUME Inv, [Next]_vars, NEW s \in Sequence, Occupied(s),
               records'[s].state = "complete"
        PROVE  lastTime <= now /\ now < records[s].deadline
    <2> USE <1>1
    <2>1. records[s].state # "complete"
      BY DEF Occupied, Outstanding
    <2>2. CASE CheckPasses
      BY <2>2, PassingMeansSound
      DEF CheckPasses, CheckError, Fail, Overdue, Occupied, Inv, TypeOK,
          CommandRecord, Time
    <2>3. CASE ~CheckPasses
      <3>1. \A a : Accept(a) => records' = records
        BY <2>3 DEF Accept, CheckFails, busVars
      <3>2. CASE \/ Receive
                 \/ \E q \in Sequence, d \in BOOLEAN : ReceiveAgain(q, d)
                 \/ \E q \in Sequence, id \in Command, d \in BOOLEAN :
                      ReceiveOld(q, id, d)
        BY <2>1, <3>1, <3>2 DEF Receive, ReceiveAgain, ReceiveOld
      <3>3. CASE \/ \E c \in Owner, t \in Timeout : Reserve(c, t)
                 \/ \E q \in Sequence, id \in Command, r, d \in BOOLEAN :
                      Publish(q, id, r, d)
                 \/ \E c \in Owner, t \in Timeout, id \in Command,
                       r, d \in BOOLEAN : Submit(c, t, id, r, d)
        BY <2>1, <2>3, <3>3 DEF Reserve, Publish, Submit, CheckFails
      <3>4. CASE \/ \E sent, visible \in BOOLEAN :
                      PublishReturns(sent, visible)
                 \/ Service \/ Invalidate
                 \/ \E accepted \in BOOLEAN : CallbackReturns(accepted)
                 \/ \E step \in Int : Tick(step)
                 \/ \E w \in work : FirmwareReceives(w)
                 \/ \E w \in work, ok \in BOOLEAN : FirmwareFinishes(w, ok)
                 \/ UNCHANGED vars
        BY <2>1, <2>3, <3>4
        DEF PublishReturns, Service, Invalidate, CallbackReturns, Tick,
            FirmwareReceives, FirmwareFinishes, vars, busVars
      <3> QED
        BY <3>2, <3>3, <3>4, ClockMoves DEF Next
    <2> QED
      BY <2>2, <2>3
  <1>2. Inv /\ [Next]_vars =>
          [\A s \in Sequence : Occupied(s) /\ records'[s].state = "complete" =>
             lastTime <= now /\ now < records[s].deadline]_vars
    BY <1>1
  <1> QED
    BY <1>2, Invariance, PTL DEF Spec, NoLateSuccess
=============================================================================
