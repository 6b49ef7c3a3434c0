------------------------- MODULE FirmwareQueueProofs -------------------------
(***************************************************************************)
(* Proofs about FirmwareQueue for rings of any size, any number of packets *)
(* kept back and any number of reads the device has under way up to it:    *)
(* CommandRingSound, and that the queue implements FrameLease.             *)
(*                                                                         *)
(* The device never says that it has finished with a packet.  What makes   *)
(* giving one back safe is where it lies on the ring: the inductive        *)
(* invariant FqInv says that the packets kept back are the slots just      *)
(* behind the consumer (Kept), that a slot holds a command exactly when it *)
(* waits or is kept back and that both together fit the ring (Occupied),   *)
(* and that every read under way is of such a slot, at most Tags behind    *)
(* the device's index (Reading).                                           *)
(***************************************************************************)
EXTENDS FirmwareQueue, SequenceTheorems, TLAPS

----------------------------------------------------------------------------
(* The ring without its modulus. *)

Forward(from, to) == IF to >= from THEN to - from ELSE to - from + Count
After(i) == IF i = Count - 1 THEN 0 ELSE i + 1

\* The indices from one cursor up to another.
Ahead(from, to) == {i \in Index : Forward(from, i) < Forward(from, to)}

----------------------------------------------------------------------------
(* The inductive invariant. *)

\* The device takes only what it was told of, and was told of nothing the
\* ledger does not count; it knows of everything unless a cache sync failed.
Cursors ==
  /\ running => deviceOn /\ attached
  /\ Forward(consumer, producer) = pending
  /\ deviceOn =>
       /\ Forward(consumer, hardware) <= Forward(consumer, host)
       /\ Forward(consumer, host) <= pending
  /\ running /\ synced => host = producer

\* The packets kept back are the last ones consumed, oldest first.
Kept ==
  /\ Len(held) <= Retained
  /\ \A n \in 1 .. Len(held) : Forward(held[n], consumer) = Len(held) - n + 1

Waiting(i)  == Forward(consumer, i) < pending
KeptBack(i) == 1 <= Forward(i, consumer) /\ Forward(i, consumer) <= Len(held)

\* A slot has a cookie exactly when it waits or is kept back, no slot is both,
\* the packet holds the cookie's command, and no command is in two slots.
Occupied ==
  /\ pending + Len(held) <= Count
  /\ \A i \in Index : cookies[i] # NoCommand <=> Waiting(i) \/ KeptBack(i)
  /\ \A i \in Index : cookies[i] # NoCommand => memory[i] = cookies[i]
  /\ \A i, k \in Index : cookies[i] = cookies[k] /\ cookies[i] # NoCommand => i = k

\* A read under way is of a slot the device has taken, one of the last Tags,
\* that was not given back, and sees the command the slot holds.
Reading ==
  deviceOn =>
    \A r \in reads :
      /\ 1 <= Forward(r.slot, hardware) /\ Forward(r.slot, hardware) <= Tags
      /\ \/ Forward(consumer, r.slot) < Forward(consumer, hardware)
         \/ KeptBack(r.slot)
      /\ memory[r.slot] = r.command

FqInv == TypeOK /\ Cursors /\ Kept /\ Occupied /\ Reading

----------------------------------------------------------------------------
(* Arithmetic of the ring. *)

\* What the assumption says of the sizes, in the form the steps use it.
LEMMA Sizes ==
  /\ Count \in Nat /\ Retained \in Nat /\ Tags \in Nat
  /\ 1 <= Tags /\ Tags <= Retained /\ Retained + 1 < Count
  /\ NoCommand \notin Command
  BY ConstantsAssumption

\* One wrap at most: % on a sum of an index and a distance.
LEMMA Wraps ==
  ASSUME NEW a \in Nat, a < 2 * Count
  PROVE  a % Count = IF a < Count THEN a ELSE a - Count
  BY Sizes

\* ledger and doorbell distances, without the modulus.
LEMMA DistanceIs ==
  ASSUME NEW a \in Index, NEW b \in Index
  PROVE  Distance(a, b) = Forward(a, b)
  BY Wraps, Sizes DEF Distance, Forward, Index

\* A cursor's next place, without the modulus.
LEMMA AdvanceIs ==
  ASSUME NEW a \in Index
  PROVE  Advance(a, 1) = After(a) /\ After(a) \in Index
  BY Wraps, Sizes DEF Advance, After, Index

\* Distances on the ring are below its size, and zero only at home.
LEMMA ForwardIndex ==
  ASSUME NEW a \in Index, NEW b \in Index
  PROVE  /\ Forward(a, b) \in 0 .. Count - 1
         /\ Forward(a, b) = 0 <=> a = b
  BY Sizes DEF Forward, Index

\* Distances from one cursor tell all places apart.
LEMMA ForwardInjective ==
  ASSUME NEW a \in Index, NEW b \in Index, NEW c \in Index,
         Forward(a, b) = Forward(a, c)
  PROVE  b = c
  BY Sizes DEF Forward, Index

\* One step ahead is one further, except from the last place before home.
LEMMA ForwardAfter ==
  ASSUME NEW a \in Index, NEW b \in Index, Forward(a, b) < Count - 1
  PROVE  Forward(a, After(b)) = Forward(a, b) + 1
  BY Sizes DEF Forward, After, Index

\* A place's distance from one cursor settles its distance to that cursor and
\* from and to every other.
LEMMA ForwardAll ==
  ASSUME NEW a \in Index, NEW b \in Index, NEW i \in Index
  PROVE  LET x == Forward(a, i)
             y == Forward(a, b)
         IN /\ Forward(i, a) = IF x = 0 THEN 0 ELSE Count - x
            /\ Forward(b, i) = IF x >= y THEN x - y ELSE x - y + Count
            /\ Forward(i, b) = IF y >= x THEN y - x ELSE y - x + Count
  BY Sizes DEF Forward, Index

\* Where a loop from a cursor is after n steps.
LEMMA AdvanceAll ==
  ASSUME NEW a \in Index, NEW n \in 0 .. Count - 1
  PROVE  Advance(a, n) \in Index /\ Forward(a, Advance(a, n)) = n
<1>1. a + n \in Nat /\ a + n < 2 * Count
  BY Sizes DEF Index
<1>2. Advance(a, n) = IF a + n < Count THEN a + n ELSE a + n - Count
  BY <1>1, Wraps, Sizes DEF Advance, Index
<1> QED
  BY <1>2, Sizes DEF Index, Forward

\* The loop visits the indices ahead.
LEMMA AheadIs ==
  ASSUME NEW a \in Index, NEW b \in Index
  PROVE  {Advance(a, n) : n \in 0 .. Distance(a, b) - 1} = Ahead(a, b)
<1>1. /\ Distance(a, b) = Forward(a, b) /\ Forward(a, b) \in 0 .. Count - 1
      /\ \A i \in Index : Forward(a, i) \in 0 .. Count - 1
  BY DistanceIs, ForwardIndex
<1>2. ASSUME NEW n \in 0 .. Distance(a, b) - 1
      PROVE  Advance(a, n) \in Ahead(a, b)
  <2>1. n \in 0 .. Count - 1 /\ n < Forward(a, b)
    BY <1>1, Sizes
  <2> QED
    BY <2>1, AdvanceAll DEF Ahead
<1>3. ASSUME NEW i \in Ahead(a, b)
      PROVE  \E n \in 0 .. Distance(a, b) - 1 : Advance(a, n) = i
  <2>1. /\ i \in Index /\ Forward(a, i) \in 0 .. Count - 1
        /\ Forward(a, i) \in 0 .. Distance(a, b) - 1
    BY <1>1, Sizes DEF Ahead
  <2>2. Advance(a, Forward(a, i)) = i
    BY <2>1, AdvanceAll, ForwardInjective
  <2> QED
    BY <2>1, <2>2
<1> QED
  BY <1>2, <1>3

----------------------------------------------------------------------------
(* The invariant holds at first. *)

\* A bound queue has nothing staged, kept back or being read.
LEMMA FqInit == Init => FqInv
<1> SUFFICES ASSUME Init PROVE FqInv
  OBVIOUS
<1> USE Sizes
<1>1. TypeOK
  BY DEF Init, TypeOK, Index
<1>2. consumer \in Index /\ Len(held) = 0 /\ pending = 0
  BY DEF Init, Index
<1>3. Cursors
  BY DEF Init, Cursors, Forward
<1>4. Kept /\ Reading
  BY <1>2 DEF Init, Kept, Reading
<1>5. Occupied
  <2>1. \A i \in Index : ~Waiting(i) /\ ~KeptBack(i)
    <3>1. \A i \in Index : Forward(consumer, i) \in Nat /\ Forward(i, consumer) \in Nat
      BY <1>2, ForwardIndex
    <3> QED
      BY <1>2, <3>1 DEF Waiting, KeptBack
  <2> QED
    BY <1>2, <2>1 DEF Init, Occupied
<1> QED
  BY <1>1, <1>3, <1>4, <1>5 DEF FqInv

----------------------------------------------------------------------------
(* Submission. *)

\* The types, with the distances from the consumer.
LEMMA Typed ==
  ASSUME FqInv
  PROVE  /\ producer \in Index /\ consumer \in Index
         /\ host \in Index /\ hardware \in Index
         /\ pending \in Nat /\ pending < Count
         /\ held \in Seq(Index) /\ Len(held) \in Nat /\ Len(held) <= Retained
         /\ cookies \in [Index -> Command \cup {NoCommand}]
         /\ memory \in [Index -> Command \cup {NoCommand}]
         /\ reads \subseteq Read
         /\ \A i \in Index : /\ Forward(consumer, i) \in 0 .. Count - 1
                             /\ Forward(hardware, i) \in 0 .. Count - 1
                             /\ Forward(i, consumer) \in 0 .. Count - 1
                             /\ Forward(i, hardware) \in 0 .. Count - 1
         /\ Forward(consumer, producer) = pending
         /\ deviceOn => /\ Forward(consumer, hardware) <= Forward(consumer, host)
                        /\ Forward(consumer, host) <= pending
                        /\ Forward(consumer, hardware) <= pending
<1>1. /\ producer \in Index /\ consumer \in Index
      /\ host \in Index /\ hardware \in Index
      /\ pending \in Nat /\ pending < Count
      /\ held \in Seq(Index) /\ Len(held) \in Nat /\ Len(held) <= Retained
      /\ cookies \in [Index -> Command \cup {NoCommand}]
      /\ memory \in [Index -> Command \cup {NoCommand}]
      /\ reads \subseteq Read
  BY Sizes DEF FqInv, TypeOK, Kept
<1>2. \A i \in Index : /\ Forward(consumer, i) \in 0 .. Count - 1
                       /\ Forward(hardware, i) \in 0 .. Count - 1
                       /\ Forward(i, consumer) \in 0 .. Count - 1
                       /\ Forward(i, hardware) \in 0 .. Count - 1
  BY <1>1, ForwardIndex
<1> QED
  BY <1>1, <1>2 DEF FqInv, Cursors

\* The slot that full() admits is the first of the free ones.
LEMMA RoomIs ==
  ASSUME FqInv, ~Full
  PROVE  /\ cookies[producer] = NoCommand /\ pending < Count - 1
         /\ pending + 1 + Len(held) <= Count
         /\ Advance(producer, 1) = After(producer) /\ After(producer) \in Index
         /\ Forward(consumer, After(producer)) = pending + 1
<1> USE Sizes
<1>1. /\ producer \in Index /\ consumer \in Index
      /\ pending \in Nat /\ pending < Count
      /\ Len(held) \in Nat /\ Len(held) <= Retained
      /\ Forward(consumer, producer) = pending
  BY Typed
<1>2. cookies[producer] = NoCommand /\ pending < Count - 1
  BY <1>1 DEF Full
<1>3. ~KeptBack(producer)
  BY <1>1, <1>2 DEF FqInv, Occupied
<1>4. Forward(producer, consumer) = IF pending = 0 THEN 0 ELSE Count - pending
  BY <1>1, ForwardAll
<1>5. pending + 1 + Len(held) <= Count
  BY <1>1, <1>3, <1>4 DEF KeptBack
<1> QED
  BY <1>1, <1>2, <1>5, AdvanceIs, ForwardAfter

\* A staged command, announced or not, with the runtime running on or not.
LEMMA StageKeeps ==
  ASSUME FqInv, NEW c \in Command, MayStage(c), Stage(c),
         host' \in {host, producer'},
         UNCHANGED <<attached, deviceOn, hardware, reads>>,
         synced' \in BOOLEAN, running' \in BOOLEAN,
         running' => running,
         running' /\ synced' => host' = producer'
  PROVE  FqInv'
<1> USE Sizes
<1>0. TypeOK /\ Cursors /\ Kept /\ Occupied /\ Reading
  BY DEF FqInv
<1>1. /\ running /\ attached /\ ~Full /\ \A i \in Index : cookies[i] # c
      /\ memory' = [memory EXCEPT ![producer] = c]
      /\ cookies' = [cookies EXCEPT ![producer] = c]
      /\ producer' = Advance(producer, 1)
      /\ pending' = pending + 1
      /\ held' = held /\ consumer' = consumer
  BY DEF MayStage, Stage
<1>2. /\ producer \in Index /\ consumer \in Index
      /\ host \in Index /\ hardware \in Index
      /\ pending \in Nat /\ Len(held) \in Nat
      /\ cookies \in [Index -> Command \cup {NoCommand}]
      /\ memory \in [Index -> Command \cup {NoCommand}]
      /\ reads \subseteq Read
      /\ \A i \in Index : Forward(consumer, i) \in 0 .. Count - 1
      /\ Forward(consumer, producer) = pending
      /\ deviceOn => /\ Forward(consumer, hardware) <= Forward(consumer, host)
                     /\ Forward(consumer, host) <= pending
                     /\ Forward(consumer, hardware) <= pending
  BY Typed
<1>3. /\ cookies[producer] = NoCommand /\ pending < Count - 1
      /\ pending + 1 + Len(held) <= Count
      /\ producer' = After(producer) /\ producer' \in Index
      /\ Forward(consumer, producer') = pending + 1
  BY <1>1, RoomIs
<1>4. TypeOK'
  <2>1. /\ memory' \in [Index -> Command \cup {NoCommand}]
        /\ cookies' \in [Index -> Command \cup {NoCommand}]
        /\ pending' \in 0 .. Count - 1 /\ host' \in Index
    BY <1>1, <1>2, <1>3
  <2> QED
    BY <1>0, <1>1, <1>3, <2>1 DEF TypeOK
<1>5. Cursors'
  <2>1. deviceOn' => /\ Forward(consumer, hardware) <= Forward(consumer, host')
                     /\ Forward(consumer, host') <= pending + 1
    BY <1>2, <1>3
  <2> QED
    BY <1>0, <1>1, <1>3, <2>1 DEF Cursors
<1>6. Kept'
  BY <1>0, <1>1 DEF Kept
\* The window grows by the slot just filled.
<1>7. \A i \in Index : (Waiting(i) \/ KeptBack(i))'
                         <=> i = producer \/ Waiting(i) \/ KeptBack(i)
  <2>1. \A i \in Index : Forward(consumer, i) = pending => i = producer
    BY <1>2, ForwardInjective
  <2> QED
    BY <1>1, <1>2, <2>1 DEF Waiting, KeptBack
<1>8. /\ cookies'[producer] = c /\ memory'[producer] = c /\ c # NoCommand
      /\ \A i \in Index : i # producer =>
           cookies'[i] = cookies[i] /\ memory'[i] = memory[i]
  BY <1>1, <1>2
<1>9. Occupied'
  <2>1. \A i \in Index : cookies'[i] # NoCommand <=> (Waiting(i) \/ KeptBack(i))'
    BY <1>0, <1>7, <1>8 DEF Occupied
  <2>2. \A i \in Index : cookies'[i] # NoCommand => memory'[i] = cookies'[i]
    BY <1>0, <1>8 DEF Occupied
  <2>3. \A i, k \in Index :
          cookies'[i] = cookies'[k] /\ cookies'[i] # NoCommand => i = k
    BY <1>0, <1>1, <1>8 DEF Occupied
  <2> QED
    BY <1>1, <1>2, <1>3, <2>1, <2>2, <2>3 DEF Occupied
<1>10. Reading'
  <2> SUFFICES ASSUME deviceOn, NEW r \in reads
               PROVE  /\ 1 <= Forward(r.slot, hardware)
                      /\ Forward(r.slot, hardware) <= Tags
                      /\ \/ Forward(consumer, r.slot) < Forward(consumer, hardware)
                         \/ KeptBack(r.slot)
                      /\ memory'[r.slot] = r.command
    BY <1>1 DEF Reading, KeptBack
  <2>1. r.slot \in Index
    BY <1>2 DEF Read
  <2>2. Waiting(r.slot) \/ KeptBack(r.slot)
    BY <1>0, <1>2, <2>1 DEF Reading, Waiting
  <2>3. r.slot # producer
    BY <1>0, <1>3, <2>1, <2>2 DEF Occupied
  <2> QED
    BY <1>0, <1>8, <2>1, <2>3 DEF Reading
<1> QED
  BY <1>4, <1>5, <1>6, <1>9, <1>10 DEF FqInv

\* A command is staged and announced.
LEMMA SubmitKeeps ==
  ASSUME FqInv, NEW c \in Command, Submit(c)
  PROVE  FqInv'
<1>1. /\ UNCHANGED <<attached, synced, running, deviceOn, hardware, reads>>
      /\ synced \in BOOLEAN /\ running \in BOOLEAN
  BY DEF Submit, FqInv, TypeOK
<1> QED
  BY <1>1, StageKeeps DEF Submit

\* A command is staged and the cache sync fails.
LEMMA SubmitUnsyncedKeeps ==
  ASSUME FqInv, NEW c \in Command, SubmitUnsynced(c)
  PROVE  FqInv'
<1>1. /\ UNCHANGED <<attached, running, deviceOn, host, hardware, reads>>
      /\ synced' = FALSE /\ running \in BOOLEAN
  BY DEF SubmitUnsynced, deviceVars, FqInv, TypeOK
<1> QED
  <2>1. /\ synced' \in BOOLEAN /\ running' \in BOOLEAN /\ (running' => running)
        /\ running' /\ synced' => host' = producer'
    BY <1>1
  <2>2. MayStage(c) /\ Stage(c) /\ host' \in {host, producer'}
    BY <1>1 DEF SubmitUnsynced
  <2> QED
    BY <1>1, <2>1, <2>2, StageKeeps

\* A command is staged and the doorbell fails, seen by the device or not.
LEMMA SubmitFailsKeeps ==
  ASSUME FqInv, NEW c \in Command, NEW seen \in BOOLEAN, SubmitFails(c, seen)
  PROVE  FqInv'
<1>1. /\ UNCHANGED <<attached, synced, deviceOn, hardware, reads>>
      /\ running' = FALSE /\ synced \in BOOLEAN
      /\ host' \in {host, producer'}
  BY DEF SubmitFails, FqInv, TypeOK
<1> QED
  BY <1>1, StageKeeps DEF SubmitFails

----------------------------------------------------------------------------
(* drain(). *)

\* The consumed packets, oldest first, as consumeTo() queues them.
Queue == held \o [n \in 1 .. Distance(consumer, hardware) |-> Advance(consumer, n - 1)]
Gone  == {Queue[n] : n \in 1 .. Len(Queue) - Keep(Len(Queue))}

\* Where on the ring the queue's members lie.
LEMMA QueueIs ==
  ASSUME FqInv, deviceOn
  PROVE  /\ Queue \in Seq(Index)
         /\ Len(Queue) = Len(held) + Forward(consumer, hardware)
         /\ \A n \in 1 .. Len(Queue) :
              /\ Queue[n] \in Index
              /\ Forward(consumer, Queue[n]) =
                   IF n <= Len(held) THEN Count - (Len(held) - n + 1)
                                     ELSE n - Len(held) - 1
<1> USE Sizes
<1> DEFINE A == Forward(consumer, hardware)
           h == Len(held)
           late == [n \in 1 .. A |-> Advance(consumer, n - 1)]
<1>1. /\ consumer \in Index /\ hardware \in Index
      /\ held \in Seq(Index) /\ h \in Nat /\ h <= Retained
      /\ A \in 0 .. Count - 1
      /\ \A i \in Index : Forward(consumer, i) \in 0 .. Count - 1
  BY Typed
<1>2. Queue = held \o late
  BY <1>1, DistanceIs DEF Queue
<1>3. \A n \in 1 .. A : /\ Advance(consumer, n - 1) \in Index
                        /\ Forward(consumer, Advance(consumer, n - 1)) = n - 1
  <2> SUFFICES ASSUME NEW n \in 1 .. A
               PROVE  /\ Advance(consumer, n - 1) \in Index
                      /\ Forward(consumer, Advance(consumer, n - 1)) = n - 1
    OBVIOUS
  <2>1. n - 1 \in 0 .. Count - 1
    BY <1>1
  <2> QED
    BY <1>1, <2>1, AdvanceAll
<1> HIDE DEF A
<1>4. late \in Seq(Index) /\ Len(late) = A
      /\ \A n \in 1 .. A : late[n] = Advance(consumer, n - 1)
  BY <1>1, <1>3
<1> HIDE DEF late
<1>5. /\ Queue \in Seq(Index) /\ Len(Queue) = h + A
      /\ \A n \in 1 .. h + A :
           Queue[n] = IF n <= h THEN held[n] ELSE late[n - h]
  <2>1. /\ held \o late \in Seq(Index)
        /\ Len(held \o late) = h + A
        /\ \A n \in 1 .. h + A :
             (held \o late)[n] = IF n <= h THEN held[n] ELSE late[n - h]
    BY <1>1, <1>4, ConcatProperties
  <2> QED
    BY <1>2, <2>1
<1>6. ASSUME NEW n \in 1 .. h + A
      PROVE  /\ Queue[n] \in Index
             /\ Forward(consumer, Queue[n]) =
                  IF n <= h THEN Count - (h - n + 1) ELSE n - h - 1
  <2>1. CASE n <= h
    <3>1. n \in 1 .. h /\ Queue[n] = held[n] /\ held[n] \in Index
      <4>1. Queue[n] = held[n]
        BY <1>5, <2>1
      <4>2. n \in 1 .. h
        BY <1>1, <2>1
      <4> QED
        BY <1>1, <4>1, <4>2
    <3>2. Forward(held[n], consumer) = h - n + 1
      BY <3>1 DEF FqInv, Kept
    <3>3. Forward(held[n], consumer)
            = IF Forward(consumer, held[n]) = 0 THEN 0
                                                ELSE Count - Forward(consumer, held[n])
      BY <1>1, <3>1, ForwardAll
    <3>4. Forward(consumer, held[n]) \in 0 .. Count - 1
      BY <1>1, <3>1
    <3> DEFINE y == Forward(consumer, held[n])
    <3>5. y \in Int /\ h \in Int /\ n \in Int /\ n <= h /\ Count \in Int
          /\ h - n + 1 = IF y = 0 THEN 0 ELSE Count - y
      BY <1>1, <2>1, <3>1, <3>2, <3>3, <3>4
    <3> HIDE DEF y
    <3>6. y = Count - (h - n + 1)
      BY <3>5
    <3> QED
      BY <2>1, <3>1, <3>6 DEF y
  <2>2. CASE n > h
    <3>1. n - h \in 1 .. A /\ n - h - 1 = (n - h) - 1 /\ ~(n <= h)
      BY <1>1, <2>2
    <3>2. Queue[n] = late[n - h]
      BY <1>5, <3>1
    <3>3. Queue[n] = Advance(consumer, (n - h) - 1)
      BY <1>4, <3>1, <3>2
    <3>4. /\ Advance(consumer, (n - h) - 1) \in Index
          /\ Forward(consumer, Advance(consumer, (n - h) - 1)) = (n - h) - 1
      BY <1>3, <3>1
    <3>5. Queue[n] \in Index /\ Forward(consumer, Queue[n]) = n - h - 1
      BY <3>3, <3>4
    <3> QED
      BY <3>1, <3>5
  <2> QED
    BY <1>1, <2>1, <2>2
<1> QED
  BY <1>5, <1>6 DEF A

\* Which slots are given back, by their distance from the old consumer: the
\* consumed ones further than Keep() behind the new one.
LEMMA GoneIs ==
  ASSUME FqInv, deviceOn, NEW i \in Index
  PROVE  LET x == Forward(consumer, i)
             A == Forward(consumer, hardware)
             k == Keep(Len(Queue))
         IN i \in Gone <=> \/ x >= Count - Len(held) /\ Count - x + A > k
                           \/ x < A /\ A - x > k
<1> USE Sizes
<1> DEFINE A == Forward(consumer, hardware)
           h == Len(held)
           x == Forward(consumer, i)
           k == Keep(Len(Queue))
           at(n) == IF n <= h THEN Count - (h - n + 1) ELSE n - h - 1
<1>1. /\ consumer \in Index /\ hardware \in Index /\ h \in Nat /\ h <= Retained
      /\ A \in 0 .. Count - 1 /\ x \in 0 .. Count - 1
  BY Typed
<1>2. /\ Len(Queue) = h + A
      /\ \A n \in 1 .. h + A : Queue[n] \in Index /\ Forward(consumer, Queue[n]) = at(n)
  BY QueueIs
<1>3. k \in Nat /\ k <= h + A
  BY <1>1, <1>2 DEF Keep
<1>4. \A n \in 1 .. h + A - k : n \in 1 .. h + A
  BY <1>1, <1>3
<1>5. i \in Gone <=> \E n \in 1 .. h + A - k : Queue[n] = i
  <2>1. Len(Queue) = h + A
    BY <1>2
  <2>2. Gone = {Queue[n] : n \in 1 .. Len(Queue) - k}
    BY DEF Gone
  <2> HIDE DEF A, h, k
  <2>3. i \in Gone <=> \E n \in 1 .. Len(Queue) - k : Queue[n] = i
    BY <2>2, Zenon
  <2>4. 1 .. Len(Queue) - k = 1 .. h + A - k
    <3>1. h \in Int /\ A \in Int /\ k \in Int
      BY <1>1, <1>3
    <3> QED
      BY <2>1, <3>1
  <2> QED
    BY <2>3, <2>4, Zenon
<1>6. \A n \in 1 .. h + A : Queue[n] = i <=> x = at(n)
  BY <1>1, <1>2, ForwardInjective
<1> HIDE DEF A, h, x, k
<1>7. i \in Gone <=> \E n \in 1 .. h + A - k : x = at(n)
  BY <1>4, <1>5, <1>6
<1>8. (\E n \in 1 .. h + A - k : x = at(n))
        => (x >= Count - h /\ Count - x + A > k) \/ (x < A /\ A - x > k)
  BY <1>1, <1>3
<1>9. ASSUME x >= Count - h, Count - x + A > k
      PROVE  \E n \in 1 .. h + A - k : x = at(n)
  <2>1. x - Count + h + 1 \in 1 .. h + A - k /\ x = at(x - Count + h + 1)
    BY <1>1, <1>3, <1>9
  <2> QED
    BY <2>1
<1>10. ASSUME x < A, A - x > k
       PROVE  \E n \in 1 .. h + A - k : x = at(n)
  <2>1. x + h + 1 \in 1 .. h + A - k /\ x = at(x + h + 1)
    BY <1>1, <1>3, <1>10
  <2> QED
    BY <2>1
<1>11. i \in Gone <=> \/ x >= Count - h /\ Count - x + A > k
                      \/ x < A /\ A - x > k
  BY <1>7, <1>8, <1>9, <1>10
<1> QED
  BY <1>11 DEF A, h, x, k

\* The device's index is applied; all but the last packets are given back.
LEMMA ConsumeToKeeps ==
  ASSUME FqInv, ConsumeTo
  PROVE  FqInv'
<1> USE Sizes
<1>0. TypeOK /\ Cursors /\ Kept /\ Occupied /\ Reading
  BY DEF FqInv
<1> DEFINE A == Forward(consumer, hardware)
           h == Len(held)
           k == Keep(Len(Queue))
<1>1. /\ consumer \in Index /\ hardware \in Index
      /\ producer \in Index /\ host \in Index
      /\ h \in Nat /\ h <= Retained
      /\ pending \in Nat /\ pending < Count
      /\ A \in 0 .. Count - 1
      /\ reads \subseteq Read
      /\ \A i \in Index : Forward(consumer, i) \in 0 .. Count - 1
      /\ Forward(consumer, producer) = pending
  BY Typed
<1>2. Distance(consumer, hardware) = A
  BY <1>1, DistanceIs
<1>3. /\ running /\ A <= pending
      /\ held' = SubSeq(Queue, Len(Queue) - k + 1, Len(Queue))
      /\ cookies' = [i \in Index |-> IF i \in Gone THEN NoCommand ELSE cookies[i]]
      /\ consumer' = hardware
      /\ pending' = pending - A
      /\ UNCHANGED <<producer, memory, attached, synced, running, deviceOn, host,
                     hardware, reads>>
  BY <1>2 DEF ConsumeTo, Queue, Gone, bankVars, deviceVars
<1>4. deviceOn /\ A <= Forward(consumer, host) /\ Forward(consumer, host) <= pending
  BY <1>0, <1>3 DEF Cursors
<1>5. /\ Queue \in Seq(Index) /\ Len(Queue) = h + A
      /\ \A n \in 1 .. Len(Queue) :
           /\ Queue[n] \in Index
           /\ Forward(consumer, Queue[n]) =
                IF n <= h THEN Count - (h - n + 1) ELSE n - h - 1
  BY <1>4, QueueIs
<1>6. k \in Nat /\ k <= h + A /\ k <= Retained /\ (k < h + A => k = Retained)
  BY <1>1, <1>5 DEF Keep
<1>7. \A i \in Index :
        i \in Gone <=> \/ /\ Forward(consumer, i) >= Count - h
                          /\ Count - Forward(consumer, i) + A > k
                       \/ /\ Forward(consumer, i) < A
                          /\ A - Forward(consumer, i) > k
  BY <1>4, GoneIs
<1>8. pending + h <= Count
  BY <1>0 DEF Occupied
<1>9. \A i \in Index :
        /\ Forward(i, consumer) = IF Forward(consumer, i) = 0 THEN 0
                                  ELSE Count - Forward(consumer, i)
        /\ Forward(hardware, i) = IF Forward(consumer, i) >= A
                                  THEN Forward(consumer, i) - A
                                  ELSE Forward(consumer, i) - A + Count
        /\ Forward(i, hardware) = IF A >= Forward(consumer, i)
                                  THEN A - Forward(consumer, i)
                                  ELSE A - Forward(consumer, i) + Count
  BY <1>1, ForwardAll
<1> HIDE DEF A, h, k
<1>10. /\ held' \in Seq(Index) /\ Len(held') = k
       /\ \A n \in 1 .. k : held'[n] = Queue[h + A - k + n]
  <2>1. /\ h + A - k + 1 \in 1 .. h + A + 1
        /\ Len(Queue) - k + 1 = h + A - k + 1
    BY <1>1, <1>5, <1>6
  <2> QED
    BY <1>1, <1>3, <1>5, <1>6, <2>1
<1>11. TypeOK'
  <2>1. /\ cookies' \in [Index -> Command \cup {NoCommand}]
        /\ pending' \in 0 .. Count - 1
    BY <1>0, <1>1, <1>3 DEF TypeOK
  <2> QED
    BY <1>0, <1>1, <1>3, <1>10, <2>1 DEF TypeOK
<1>12. Cursors'
  <2>1. /\ Forward(hardware, producer) = pending'
        /\ Forward(hardware, hardware) <= Forward(hardware, host)
        /\ Forward(hardware, host) <= pending'
    BY <1>1, <1>3, <1>4, <1>9 DEF A
  <2> QED
    BY <1>0, <1>3, <1>4, <2>1 DEF Cursors
<1>13. Kept'
  <2>1. ASSUME NEW n \in 1 .. k
        PROVE  Forward(held'[n], hardware) = k - n + 1
    <3> DEFINE m == h + A - k + n
    <3>1. m \in 1 .. Len(Queue)
      BY <1>1, <1>5, <1>6
    <3>2. /\ Queue[m] \in Index
          /\ Forward(consumer, Queue[m]) =
               IF m <= h THEN Count - (h - m + 1) ELSE m - h - 1
      BY <1>5, <3>1
    <3>3. Forward(Queue[m], hardware) = IF A >= Forward(consumer, Queue[m])
                                  THEN A - Forward(consumer, Queue[m])
                                  ELSE A - Forward(consumer, Queue[m]) + Count
      BY <1>9, <3>2
    <3>4. n \in Nat /\ n <= k /\ 1 <= n
      BY <1>6
    <3>5. CASE m <= h
      <4>1. Forward(consumer, Queue[m]) = Count - (h - m + 1)
        BY <3>2, <3>5
      <4>2. h - m + 1 = k - A - n + 1
        BY <1>1, <1>6, <3>4
      <4> QED
        BY <1>1, <1>6, <1>10, <3>3, <3>4, <3>5, <4>1, <4>2
    <3>6. CASE ~(m <= h)
      <4>1. Forward(consumer, Queue[m]) = m - h - 1
        BY <3>2, <3>6
      <4> QED
        BY <1>1, <1>6, <1>10, <3>3, <3>4, <3>6, <4>1
    <3> QED
      BY <3>5, <3>6
  <2> QED
    BY <1>3, <1>6, <1>10, <2>1 DEF Kept
<1>14. \A i \in Index :
         (Waiting(i) \/ KeptBack(i))'
           <=> (Waiting(i) \/ KeptBack(i)) /\ i \notin Gone
  <2> SUFFICES ASSUME NEW i \in Index
               PROVE  (\/ Forward(hardware, i) < pending - A
                       \/ 1 <= Forward(i, hardware) /\ Forward(i, hardware) <= k)
                      <=> /\ \/ Forward(consumer, i) < pending
                             \/ /\ 1 <= Forward(i, consumer)
                                /\ Forward(i, consumer) <= h
                          /\ i \notin Gone
    BY <1>3, <1>10 DEF Waiting, KeptBack, h
  <2> DEFINE x == Forward(consumer, i)
  <2>1. /\ x \in Int /\ 0 <= x /\ x < Count /\ A \in Int /\ 0 <= A /\ A < Count
        /\ h \in Int /\ 0 <= h /\ h <= Retained /\ pending \in Int /\ A <= pending
        /\ k \in Int /\ 0 <= k /\ k <= h + A /\ k <= Retained
        /\ k < h + A => k = Retained
        /\ pending + h <= Count
    BY <1>1, <1>3, <1>6, <1>8
  <2>2. /\ Forward(i, consumer) = IF x = 0 THEN 0 ELSE Count - x
        /\ Forward(hardware, i) = IF x >= A THEN x - A ELSE x - A + Count
        /\ Forward(i, hardware) = IF A >= x THEN A - x ELSE A - x + Count
    BY <1>9
  <2>3. i \in Gone <=> \/ x >= Count - h /\ Count - x + A > k
                       \/ x < A /\ A - x > k
    BY <1>7
  <2> HIDE DEF x
  <2>4. CASE x < A
    BY <2>1, <2>2, <2>3, <2>4 DEF x
  <2>5. CASE ~(x < A)
    BY <2>1, <2>2, <2>3, <2>5 DEF x
  <2> QED
    BY <2>4, <2>5
<1>15. Occupied'
  <2>1. \A i \in Index : cookies'[i] = IF i \in Gone THEN NoCommand ELSE cookies[i]
    BY <1>3
  <2>2. \A i \in Index : cookies'[i] # NoCommand <=> (Waiting(i) \/ KeptBack(i))'
    BY <1>0, <1>14, <2>1 DEF Occupied
  <2>3. \A i \in Index : cookies'[i] # NoCommand => memory'[i] = cookies'[i]
    BY <1>0, <1>3, <2>1 DEF Occupied
  <2>4. \A i, j \in Index :
          cookies'[i] = cookies'[j] /\ cookies'[i] # NoCommand => i = j
    BY <1>0, <2>1 DEF Occupied
  <2>5. pending' + Len(held') <= Count
    <3>1. pending' = pending - A /\ Len(held') = k
      BY <1>3, <1>10
    <3>2. /\ A \in Int /\ h \in Int /\ k \in Int /\ pending \in Int /\ Count \in Int
          /\ k <= h + A /\ pending + h <= Count
      BY <1>1, <1>6, <1>8
    <3> QED
      BY <3>1, <3>2
  <2> QED
    BY <2>2, <2>3, <2>4, <2>5 DEF Occupied
<1>16. Reading'
  <2> SUFFICES ASSUME NEW r \in reads
               PROVE  /\ 1 <= Forward(r.slot, hardware)
                      /\ Forward(r.slot, hardware) <= Tags
                      /\ \/ Forward(hardware, r.slot) < Forward(hardware, hardware)
                         \/ /\ 1 <= Forward(r.slot, hardware)
                            /\ Forward(r.slot, hardware) <= k
                      /\ memory[r.slot] = r.command
    BY <1>3, <1>10 DEF Reading, KeptBack
  <2>1. r.slot \in Index
    BY <1>1 DEF Read
  <2>2. /\ 1 <= Forward(r.slot, hardware) /\ Forward(r.slot, hardware) <= Tags
        /\ \/ Forward(consumer, r.slot) < A
           \/ /\ 1 <= Forward(r.slot, consumer)
              /\ Forward(r.slot, consumer) <= h
        /\ memory[r.slot] = r.command
    BY <1>0, <1>4 DEF Reading, KeptBack, A, h
  <2>3. Forward(consumer, r.slot) \in Nat /\ Forward(consumer, r.slot) < Count
    BY <1>1, <2>1
  <2>4. Forward(r.slot, hardware) <= k
    BY <1>1, <1>6, <1>9, <2>1, <2>2, <2>3
  <2> QED
    BY <2>2, <2>4
<1> QED
  BY <1>11, <1>12, <1>13, <1>15, <1>16 DEF FqInv

----------------------------------------------------------------------------
(* Stopping. *)

\* A stop that gives nothing back.
LEMMA StopKeeps ==
  ASSUME FqInv, NEW proven \in BOOLEAN, running' = FALSE,
         deviceOn' = (deviceOn /\ ~proven),
         UNCHANGED <<ledgerVars, bankVars, deviceVars>>
  PROVE  FqInv'
<1>1. UNCHANGED <<cookies, held, producer, consumer, pending, memory, attached,
                  synced, host, hardware, reads>>
  BY DEF ledgerVars, bankVars, deviceVars
<1>2. deviceOn' \in BOOLEAN /\ (deviceOn' => deviceOn)
  BY DEF FqInv, TypeOK
<1>3. TypeOK'
  BY <1>1, <1>2 DEF FqInv, TypeOK
<1> QED
  BY <1>1, <1>2, <1>3
     DEF FqInv, Cursors, Kept, Occupied, Waiting, KeptBack, Reading

\* A fault stops the runtime.
LEMMA FaultKeeps ==
  ASSUME FqInv, NEW proven \in BOOLEAN, Fault(proven)
  PROVE  FqInv'
  BY StopKeeps DEF Fault

\* shutdown() stops the runtime and, when the stop is proven, gives all back.
LEMMA ShutdownKeeps ==
  ASSUME FqInv, NEW proven \in BOOLEAN, NEW quiet \in BOOLEAN,
         Shutdown(proven, quiet)
  PROVE  FqInv'
<1> USE Sizes
<1>1. CASE ~MayReclaim(proven, quiet)
  BY <1>1, StopKeeps DEF Shutdown
<1>2. CASE MayReclaim(proven, quiet)
  <2>1. /\ cookies' = [i \in Index |-> NoCommand]
        /\ memory' = [i \in Index |-> NoCommand]
        /\ held' = <<>>
        /\ producer' = 0 /\ consumer' = 0 /\ pending' = 0
        /\ attached' = FALSE /\ synced' = FALSE
        /\ running' = FALSE /\ deviceOn' = FALSE
        /\ UNCHANGED <<host, hardware, reads>>
    BY <1>2 DEF Shutdown, MayReclaim, deviceVars, FqInv, TypeOK
  <2>2. TypeOK'
    <3>1. /\ cookies' \in [Index -> Command \cup {NoCommand}]
          /\ memory' \in [Index -> Command \cup {NoCommand}]
          /\ held' \in Seq(Index)
          /\ producer' \in Index /\ consumer' \in Index
          /\ pending' \in 0 .. Count - 1
      BY <2>1 DEF Index
    <3> QED
      BY <2>1, <3>1 DEF FqInv, TypeOK
  <2>3. consumer' \in Index /\ Len(held') = 0
    BY <2>1 DEF Index
  <2>4. Cursors'
    BY <2>1 DEF Cursors, Forward
  <2>5. Kept' /\ Reading'
    BY <2>1, <2>3 DEF Kept, Reading
  <2>6. Occupied'
    <3>1. \A i \in Index : /\ Forward(consumer', i) \in Nat
                           /\ Forward(i, consumer') \in Nat
      BY <2>3, ForwardIndex
    <3>2. \A i \in Index : ~(Waiting(i) \/ KeptBack(i))'
      BY <2>1, <2>3, <3>1 DEF Waiting, KeptBack
    <3> QED
      BY <2>1, <2>3, <3>2 DEF Occupied
  <2> QED
    BY <2>2, <2>4, <2>5, <2>6 DEF FqInv
<1> QED
  BY <1>1, <1>2

----------------------------------------------------------------------------
(* The device. *)

\* The device takes the next descriptor and starts to read its packet.
LEMMA FetchKeeps ==
  ASSUME FqInv, Fetch
  PROVE  FqInv'
<1> USE Sizes
<1>0. TypeOK /\ Cursors /\ Kept /\ Occupied /\ Reading
  BY DEF FqInv
<1> DEFINE new == [slot |-> hardware, command |-> memory[hardware]]
<1>1. /\ deviceOn /\ hardware # host
      /\ \A r \in reads : Distance(r.slot, Advance(hardware, 1)) <= Tags
      /\ hardware' = Advance(hardware, 1)
      /\ reads' = reads \cup {new}
      /\ UNCHANGED <<cookies, held, producer, consumer, pending, memory, attached,
                     synced, running, deviceOn, host>>
  BY DEF Fetch, ledgerVars, bankVars
<1>2. /\ producer \in Index /\ consumer \in Index
      /\ host \in Index /\ hardware \in Index
      /\ pending \in Nat /\ pending < Count /\ Len(held) \in Nat
      /\ memory \in [Index -> Command \cup {NoCommand}]
      /\ reads \subseteq Read
      /\ \A i \in Index : /\ Forward(consumer, i) \in 0 .. Count - 1
                          /\ Forward(i, hardware) \in 0 .. Count - 1
      /\ Forward(consumer, hardware) <= Forward(consumer, host)
      /\ Forward(consumer, host) <= pending
  BY <1>1, Typed
<1>3. Forward(consumer, hardware) < Forward(consumer, host)
  BY <1>1, <1>2, ForwardInjective
<1>4. /\ hardware' = After(hardware) /\ hardware' \in Index
      /\ Forward(consumer, hardware') = Forward(consumer, hardware) + 1
  <2>1. Forward(consumer, hardware) < Count - 1
    BY <1>2, <1>3
  <2> QED
    BY <1>1, <1>2, <2>1, AdvanceIs, ForwardAfter
<1>5. new.slot = hardware /\ new.command = memory[hardware] /\ new \in Read
  BY <1>2 DEF Read
<1> HIDE DEF new
<1>6. TypeOK'
  <2>1. reads' \subseteq Read
    BY <1>1, <1>2, <1>5
  <2> QED
    BY <1>0, <1>1, <1>4, <2>1 DEF TypeOK
<1>7. Cursors'
  <2>1. Forward(consumer, hardware') <= Forward(consumer, host)
    BY <1>2, <1>3, <1>4
  <2> QED
    BY <1>0, <1>1, <2>1 DEF Cursors
<1>8. Kept' /\ Occupied'
  BY <1>0, <1>1 DEF Kept, Occupied, Waiting, KeptBack
<1>9. Reading'
  <2> SUFFICES ASSUME NEW r \in reads'
               PROVE  /\ 1 <= Forward(r.slot, hardware')
                      /\ Forward(r.slot, hardware') <= Tags
                      /\ \/ Forward(consumer, r.slot) < Forward(consumer, hardware')
                         \/ KeptBack(r.slot)
                      /\ memory[r.slot] = r.command
    BY <1>1 DEF Reading, KeptBack
  <2>1. CASE r = new
    <3>1. Forward(hardware, hardware') = 1
      BY <1>2, <1>4 DEF Forward, After, Index
    <3> QED
      BY <1>2, <1>4, <1>5, <2>1, <3>1
  <2>2. CASE r \in reads
    <3>1. r.slot \in Index
      BY <1>2, <2>2 DEF Read
    <3>2. /\ 1 <= Forward(r.slot, hardware) /\ Forward(r.slot, hardware) <= Tags
          /\ \/ Forward(consumer, r.slot) < Forward(consumer, hardware)
             \/ KeptBack(r.slot)
          /\ memory[r.slot] = r.command
      BY <1>0, <1>1, <2>2 DEF Reading
    <3>3. Forward(r.slot, hardware') <= Tags
      BY <1>1, <1>4, <2>2, <3>1, DistanceIs
    <3>4. Forward(r.slot, hardware) < Count - 1
      BY <1>2, <3>1, <3>2
    <3>5. Forward(r.slot, hardware') = Forward(r.slot, hardware) + 1
      BY <1>2, <1>4, <3>1, <3>4, ForwardAfter
    <3> QED
      BY <1>2, <1>4, <3>1, <3>2, <3>3, <3>5
  <2> QED
    BY <1>1, <2>1, <2>2
<1> QED
  BY <1>6, <1>7, <1>8, <1>9 DEF FqInv

\* A read ends.
LEMMA FinishReadKeeps ==
  ASSUME FqInv, NEW r \in reads, FinishRead(r)
  PROVE  FqInv'
<1>1. /\ reads' \subseteq reads
      /\ UNCHANGED <<cookies, held, producer, consumer, pending, memory, attached,
                     synced, running, deviceOn, host, hardware>>
  BY DEF FinishRead, ledgerVars, bankVars
<1>2. TypeOK'
  BY <1>1 DEF FqInv, TypeOK
<1> QED
  BY <1>1, <1>2
     DEF FqInv, Cursors, Kept, Occupied, Waiting, KeptBack, Reading

----------------------------------------------------------------------------
(* The theorems. *)

\* Every step of driver and device keeps the invariant.
LEMMA FqStep == FqInv /\ [Next]_vars => FqInv'
<1> SUFFICES ASSUME FqInv, [Next]_vars PROVE FqInv'
  OBVIOUS
<1>1. ASSUME NEW c \in Command, Submit(c) PROVE FqInv'
  BY <1>1, SubmitKeeps
<1>2. ASSUME NEW c \in Command, SubmitUnsynced(c) PROVE FqInv'
  BY <1>2, SubmitUnsyncedKeeps
<1>3. ASSUME NEW c \in Command, NEW seen \in BOOLEAN, SubmitFails(c, seen)
      PROVE  FqInv'
  BY <1>3, SubmitFailsKeeps
<1>4. CASE ConsumeTo
  BY <1>4, ConsumeToKeeps
<1>5. ASSUME NEW proven \in BOOLEAN, Fault(proven) PROVE FqInv'
  BY <1>5, FaultKeeps
<1>6. ASSUME NEW proven \in BOOLEAN, NEW quiet \in BOOLEAN, Shutdown(proven, quiet)
      PROVE  FqInv'
  BY <1>6, ShutdownKeeps
<1>7. CASE Fetch
  BY <1>7, FetchKeeps
<1>8. ASSUME NEW r \in reads, FinishRead(r) PROVE FqInv'
  BY <1>8, FinishReadKeeps
<1>9. CASE UNCHANGED vars
  <2>1. UNCHANGED <<cookies, held, producer, consumer, pending, memory, attached,
                    synced, running, deviceOn, host, hardware, reads>>
    BY <1>9 DEF vars, ledgerVars, bankVars, deviceVars
  <2> QED
    BY <2>1 DEF FqInv, TypeOK, Cursors, Kept, Occupied, Waiting, KeptBack, Reading
<1> QED
  BY <1>1, <1>2, <1>3, <1>4, <1>5, <1>6, <1>7, <1>8, <1>9 DEF Next

\* In every behaviour of the queue the invariant holds throughout.
LEMMA FqAlways == Spec => []FqInv
  BY FqInit, FqStep, PTL DEF Spec

\* A slot the device reads or was told of holds a command, the one in memory.
LEMMA ReadSlots ==
  ASSUME FqInv, deviceOn, NEW r \in reads
  PROVE  /\ r.slot \in Index /\ cookies[r.slot] # NoCommand
         /\ memory[r.slot] = r.command /\ cookies[r.slot] = r.command
<1>1. /\ r.slot \in Index
      /\ \A i \in Index : Forward(consumer, i) \in 0 .. Count - 1
      /\ hardware \in Index /\ pending \in Nat
      /\ Forward(consumer, hardware) <= pending
  BY Typed DEF Read
<1>2. Waiting(r.slot) \/ KeptBack(r.slot)
  BY <1>1, Sizes DEF FqInv, Reading, Waiting
<1> QED
  BY <1>1, <1>2 DEF FqInv, Occupied, Reading

\* Driver and device never disturb each other on the command ring, whatever
\* its size, the packets kept back and the reads under way: no slot is staged
\* again under a read, keeping packets back never blocks the ring, and
\* consumeTo() and publish() never refuse a correct device.
THEOREM CommandRingAlwaysSound == Spec => []CommandRingSound
<1>1. FqInv => ReadsUndisturbed
  BY ReadSlots DEF ReadsUndisturbed
<1>2. FqInv => RoomWhenFewPending
  <2> SUFFICES ASSUME FqInv, pending + Retained < Count PROVE ~Full
    BY DEF RoomWhenFewPending
  <2>1. /\ producer \in Index /\ consumer \in Index /\ pending \in Nat
        /\ Len(held) \in Nat /\ Len(held) <= Retained
        /\ Forward(consumer, producer) = pending
    BY Typed
  <2>2. Forward(producer, consumer) = IF pending = 0 THEN 0 ELSE Count - pending
    BY <2>1, ForwardAll
  <2>3. ~Waiting(producer) /\ ~KeptBack(producer)
    BY <2>1, <2>2, Sizes DEF Waiting, KeptBack
  <2>4. cookies[producer] = NoCommand
    BY <2>1, <2>3 DEF FqInv, Occupied
  <2>5. pending # Count - 1
    BY <2>1, Sizes
  <2> QED
    BY <2>4, <2>5 DEF Full
<1>3. FqInv => DeviceNeverRefused
  <2> SUFFICES ASSUME FqInv, running
               PROVE  /\ Distance(consumer, hardware) <= pending
                      /\ synced /\ ~Full =>
                           /\ Distance(host, Advance(producer, 1)) = 1
                           /\ Advance(producer, 1) # hardware
    BY DEF DeviceNeverRefused
  <2>1. deviceOn /\ (synced => host = producer)
    BY DEF FqInv, Cursors
  <2>2. /\ producer \in Index /\ consumer \in Index
        /\ host \in Index /\ hardware \in Index /\ pending \in Nat
        /\ \A i \in Index : Forward(consumer, i) \in 0 .. Count - 1
        /\ Forward(consumer, hardware) <= pending
    BY <2>1, Typed
  <2>3. Distance(consumer, hardware) <= pending
    BY <2>2, DistanceIs
  <2>4. ASSUME synced, ~Full
        PROVE  /\ Distance(host, Advance(producer, 1)) = 1
               /\ Advance(producer, 1) # hardware
    <3>1. /\ Advance(producer, 1) = After(producer) /\ After(producer) \in Index
          /\ Forward(consumer, After(producer)) = pending + 1
      BY <2>4, RoomIs
    <3>2. Forward(producer, After(producer)) = 1
      BY <2>2, Sizes DEF Forward, After, Index
    <3>3. After(producer) # hardware
      BY <2>2, <3>1
    <3> QED
      BY <2>1, <2>2, <2>4, <3>1, <3>2, <3>3, DistanceIs
  <2> QED
    BY <2>3, <2>4
<1>4. FqInv => CommandRingSound
  BY <1>1, <1>2, <1>3 DEF CommandRingSound
<1> QED
  BY <1>4, FqAlways, PTL

----------------------------------------------------------------------------
(* The queue implements FrameLease. *)

HeldCommands    == {cookies[i] : i \in Index} \ {NoCommand}
ExposedCommands == {memory[i] : i \in Exposed}

\* A step that FrameLease allows, in this module's terms.
LeaseStep ==
  \/ \E c \in Command :
       /\ c \notin HeldCommands
       /\ HeldCommands' = HeldCommands \cup {c}
       /\ ExposedCommands' \in {ExposedCommands, ExposedCommands \cup {c}}
       /\ deviceOn' = deviceOn
  \/ \E c \in Command :
       /\ c \in ExposedCommands
       /\ ExposedCommands' = ExposedCommands \ {c}
       /\ HeldCommands' = HeldCommands /\ deviceOn' = deviceOn
  \/ \E gone \in SUBSET HeldCommands :
       /\ gone \cap ExposedCommands = {}
       /\ HeldCommands' = HeldCommands \ gone
       /\ ExposedCommands' = ExposedCommands /\ deviceOn' = deviceOn
  \/ /\ deviceOn' = FALSE /\ ExposedCommands' = {}
     /\ HeldCommands' \in {HeldCommands, {}}
  \/ UNCHANGED <<HeldCommands, ExposedCommands, deviceOn>>

\* The two forms agree.
LEMMA LeaseStepMaps ==
  ASSUME LeaseStep, deviceOn \in BOOLEAN, deviceOn' \in BOOLEAN
  PROVE  [Leases!Next]_(Leases!leaseVars)
  BY DEF LeaseStep, Leases!Next, Leases!Accept, Leases!Finish,
         Leases!GiveBack, Leases!Halt, Leases!leaseVars, HeldCommands,
         ExposedCommands

\* What the device may still read: the slots ahead of its index, which wait,
\* and those it reads, which wait or are kept back.
LEMMA ExposedIs ==
  ASSUME FqInv
  PROVE  /\ deviceOn => Exposed = Ahead(hardware, host) \cup {r.slot : r \in reads}
         /\ \A i \in Exposed : /\ i \in Index /\ cookies[i] # NoCommand
                               /\ memory[i] = cookies[i]
<1> USE Sizes
<1>1. CASE ~deviceOn
  BY <1>1 DEF Exposed
<1>2. CASE deviceOn
  <2>1. /\ consumer \in Index /\ hardware \in Index /\ host \in Index
        /\ pending \in Nat
        /\ \A i \in Index : Forward(consumer, i) \in 0 .. Count - 1
        /\ Forward(consumer, hardware) <= Forward(consumer, host)
        /\ Forward(consumer, host) <= pending
    BY <1>2, Typed
  <2>2. Exposed = Ahead(hardware, host) \cup {r.slot : r \in reads}
    BY <1>2, <2>1, AheadIs DEF Exposed, Announced
  <2>3. ASSUME NEW i \in Ahead(hardware, host)
        PROVE  i \in Index /\ cookies[i] # NoCommand
    <3>1. i \in Index /\ Forward(hardware, i) < Forward(hardware, host)
      BY DEF Ahead
    <3>2. /\ Forward(hardware, i)
               = IF Forward(consumer, i) >= Forward(consumer, hardware)
                   THEN Forward(consumer, i) - Forward(consumer, hardware)
                   ELSE Forward(consumer, i) - Forward(consumer, hardware) + Count
          /\ Forward(hardware, host)
               = Forward(consumer, host) - Forward(consumer, hardware)
      BY <2>1, <3>1, ForwardAll
    <3>3. Waiting(i)
      BY <2>1, <3>1, <3>2 DEF Waiting
    <3> QED
      BY <3>1, <3>3 DEF FqInv, Occupied
  <2>4. ASSUME NEW r \in reads
        PROVE  r.slot \in Index /\ cookies[r.slot] # NoCommand
    BY <1>2, ReadSlots
  <2>5. \A i \in Exposed : i \in Index /\ cookies[i] # NoCommand
    BY <2>2, <2>3, <2>4
  <2> QED
    BY <2>2, <2>5 DEF FqInv, Occupied
<1> QED
  BY <1>1, <1>2

\* Nothing is held or exposed at first.
LEMMA LeaseInit == Init => Leases!Init
<1> SUFFICES ASSUME Init PROVE Leases!Init
  OBVIOUS
<1>1. FqInv /\ deviceOn /\ \A i \in Index : cookies[i] = NoCommand
  BY FqInit DEF Init
<1>2. Exposed = {}
  BY <1>1, ExposedIs
<1> QED
  BY <1>1, <1>2 DEF Leases!Init

\* A staged command is Accept.
LEMMA StageLeases ==
  ASSUME FqInv, NEW c \in Command, MayStage(c), Stage(c),
         host' \in {host, producer'},
         UNCHANGED <<deviceOn, hardware, reads>>
  PROVE  LeaseStep
<1> USE Sizes
<1>1. /\ running /\ ~Full /\ \A i \in Index : cookies[i] # c
      /\ memory' = [memory EXCEPT ![producer] = c]
      /\ cookies' = [cookies EXCEPT ![producer] = c]
      /\ producer' = Advance(producer, 1)
  BY DEF MayStage, Stage
<1>2. deviceOn
  BY <1>1 DEF FqInv, Cursors
<1>3. /\ producer \in Index /\ consumer \in Index
      /\ host \in Index /\ hardware \in Index
      /\ pending \in Nat /\ pending < Count
      /\ cookies \in [Index -> Command \cup {NoCommand}]
      /\ memory \in [Index -> Command \cup {NoCommand}]
      /\ \A i \in Index : Forward(consumer, i) \in 0 .. Count - 1
      /\ \A i \in Index : Forward(hardware, i) \in 0 .. Count - 1
      /\ Forward(consumer, producer) = pending
      /\ Forward(consumer, hardware) <= Forward(consumer, host)
      /\ Forward(consumer, host) <= pending
      /\ Forward(consumer, hardware) <= pending
  BY <1>2, Typed
<1>4. /\ cookies[producer] = NoCommand /\ pending < Count - 1
      /\ producer' = After(producer) /\ producer' \in Index
      /\ Forward(consumer, producer') = pending + 1
  BY <1>1, RoomIs
<1>5. /\ cookies'[producer] = c /\ memory'[producer] = c /\ c # NoCommand
      /\ \A i \in Index : i # producer =>
           cookies'[i] = cookies[i] /\ memory'[i] = memory[i]
  BY <1>1, <1>3
<1>6. c \notin HeldCommands /\ HeldCommands' = HeldCommands \cup {c}
  BY <1>1, <1>3, <1>4, <1>5 DEF HeldCommands
<1>7. /\ Exposed = Ahead(hardware, host) \cup {r.slot : r \in reads}
      /\ \A i \in Exposed : i \in Index /\ i # producer
  BY <1>2, <1>4, ExposedIs
<1>8. Exposed' = Ahead(hardware, host') \cup {r.slot : r \in reads}
  <2>1. Announced' = {Advance(hardware, n) : n \in 0 .. Distance(hardware, host') - 1}
    BY DEF Announced, Advance, Distance
  <2>2. Announced' = Ahead(hardware, host')
    BY <1>3, <1>4, <2>1, AheadIs
  <2> QED
    BY <1>2, <2>2 DEF Exposed
<1>9. ASSUME host' = producer', host # producer'
      PROVE  Exposed' = Exposed \cup {producer} \/ Exposed' = Exposed
  <2>1. host = producer
    <3>1. synced
      BY DEF MayStage
    <3> QED
      BY <1>1, <3>1 DEF FqInv, Cursors
  <2>2. Forward(hardware, producer) = pending - Forward(consumer, hardware)
        /\ Forward(hardware, producer') = pending + 1 - Forward(consumer, hardware)
    <3>1. /\ pending \in Int /\ Forward(consumer, hardware) \in Int
          /\ Forward(consumer, hardware) <= Forward(consumer, producer)
          /\ Forward(consumer, hardware) <= Forward(consumer, producer')
      BY <1>3, <1>4
    <3>2. Forward(hardware, producer)
            = Forward(consumer, producer) - Forward(consumer, hardware)
      BY <1>3, <3>1, ForwardAll
    <3>3. Forward(hardware, producer')
            = Forward(consumer, producer') - Forward(consumer, hardware)
      BY <1>3, <1>4, <3>1, ForwardAll
    <3> QED
      BY <1>3, <1>4, <3>1, <3>2, <3>3
  <2>3. \A i \in Index : Forward(hardware, i) = Forward(hardware, producer)
                           => i = producer
    BY <1>3, ForwardInjective
  <2>4. Ahead(hardware, producer') = Ahead(hardware, host) \cup {producer}
    BY <1>3, <2>1, <2>2, <2>3 DEF Ahead
  <2> QED
    BY <1>7, <1>8, <1>9, <2>4
<1>10. Exposed' \in {Exposed, Exposed \cup {producer}}
  BY <1>7, <1>8, <1>9
<1>11. ExposedCommands' \in {ExposedCommands, ExposedCommands \cup {c}}
  BY <1>5, <1>7, <1>10 DEF ExposedCommands
<1> QED
  BY <1>6, <1>11 DEF LeaseStep

\* consumeTo() is GiveBack: what it gives back lies further behind the
\* device's index than any read under way.
LEMMA ConsumeToLeases ==
  ASSUME FqInv, ConsumeTo
  PROVE  LeaseStep
<1> USE Sizes
<1> DEFINE A == Forward(consumer, hardware)
           h == Len(held)
           k == Keep(Len(Queue))
           gone == {cookies[i] : i \in Gone} \ {NoCommand}
<1>1. /\ consumer \in Index /\ hardware \in Index /\ host \in Index
      /\ h \in Nat /\ h <= Retained /\ pending \in Nat /\ pending < Count
      /\ A \in 0 .. Count - 1
      /\ reads \subseteq Read
      /\ \A i \in Index : Forward(consumer, i) \in 0 .. Count - 1
  BY Typed
<1>2. Distance(consumer, hardware) = A
  BY <1>1, DistanceIs
<1>3. /\ running /\ A <= pending
      /\ cookies' = [i \in Index |-> IF i \in Gone THEN NoCommand ELSE cookies[i]]
      /\ UNCHANGED <<memory, deviceOn, host, hardware, reads>>
  BY <1>2 DEF ConsumeTo, Queue, Gone, bankVars, deviceVars
<1>4. /\ deviceOn /\ A <= Forward(consumer, host)
      /\ Forward(consumer, host) <= pending /\ pending + h <= Count
  BY <1>3 DEF FqInv, Cursors, Occupied
<1>5. \A i \in Index :
        i \in Gone <=> \/ /\ Forward(consumer, i) >= Count - h
                          /\ Count - Forward(consumer, i) + A > k
                       \/ /\ Forward(consumer, i) < A
                          /\ A - Forward(consumer, i) > k
  BY <1>4, GoneIs
<1>6. k \in Nat /\ k <= h + A /\ (k < h + A => k = Retained)
  <2>1. Len(Queue) = h + A
    BY <1>4, QueueIs
  <2> QED
    BY <1>1, <2>1 DEF Keep
<1>7. Exposed' = Exposed
  BY <1>3 DEF Exposed, Announced
<1>8. /\ Exposed = Ahead(hardware, host) \cup {r.slot : r \in reads}
      /\ \A i \in Exposed : /\ i \in Index /\ cookies[i] # NoCommand
                            /\ memory[i] = cookies[i]
  BY <1>4, ExposedIs
<1>9. \A i \in Index :
        /\ Forward(i, consumer) = IF Forward(consumer, i) = 0 THEN 0
                                  ELSE Count - Forward(consumer, i)
        /\ Forward(hardware, i) = IF Forward(consumer, i) >= A
                                  THEN Forward(consumer, i) - A
                                  ELSE Forward(consumer, i) - A + Count
        /\ Forward(i, hardware) = IF A >= Forward(consumer, i)
                                  THEN A - Forward(consumer, i)
                                  ELSE A - Forward(consumer, i) + Count
  BY <1>1, ForwardAll
<1> HIDE DEF A, h, k
<1>10. ASSUME NEW i \in Ahead(hardware, host) PROVE i \notin Gone
  <2>1. i \in Index /\ Forward(hardware, i) < Forward(hardware, host)
    BY DEF Ahead
  <2>2. /\ Forward(hardware, host) = Forward(consumer, host) - A
        /\ Forward(consumer, i) \in Int /\ 0 <= Forward(consumer, i)
        /\ Forward(consumer, i) < Count /\ Forward(consumer, host) \in Int
    BY <1>1, <1>4, <1>9, <2>1
  <2>3. A <= Forward(consumer, i) /\ Forward(consumer, i) < pending
    BY <1>1, <1>4, <1>9, <2>1, <2>2
  <2> QED
    BY <1>1, <1>4, <1>5, <2>1, <2>2, <2>3
<1>11. ASSUME NEW r \in reads PROVE r.slot \notin Gone
  <2>1. r.slot \in Index
    BY <1>1 DEF Read
  <2>2. /\ 1 <= Forward(r.slot, hardware) /\ Forward(r.slot, hardware) <= Tags
        /\ \/ Forward(consumer, r.slot) < A
           \/ /\ 1 <= Forward(r.slot, consumer)
              /\ Forward(r.slot, consumer) <= h
    BY <1>4 DEF FqInv, Reading, KeptBack, A, h
  <2>3. Forward(consumer, r.slot) \in Nat /\ Forward(consumer, r.slot) < Count
    BY <1>1, <2>1
  <2> QED
    BY <1>1, <1>4, <1>5, <1>6, <1>9, <2>1, <2>2, <2>3
<1>12. \A i \in Exposed : i \notin Gone
  BY <1>8, <1>10, <1>11
<1>13. Gone \subseteq Index
  <2>1. /\ Len(Queue) \in Nat /\ Keep(Len(Queue)) \in Nat
        /\ \A n \in 1 .. Len(Queue) : Queue[n] \in Index
    BY <1>4, QueueIs DEF Keep
  <2>2. \A n \in 1 .. Len(Queue) - Keep(Len(Queue)) : n \in 1 .. Len(Queue)
    BY <2>1
  <2> QED
    BY <2>1, <2>2 DEF Gone
<1>14. \A i, j \in Index : cookies[i] = cookies[j] /\ cookies[i] # NoCommand => i = j
  BY DEF FqInv, Occupied
<1>15. gone \in SUBSET HeldCommands /\ gone \cap ExposedCommands = {}
  BY <1>8, <1>12, <1>13, <1>14 DEF HeldCommands, ExposedCommands
<1>16. HeldCommands' = HeldCommands \ gone
  BY <1>3, <1>13, <1>14 DEF HeldCommands
<1>17. ExposedCommands' = ExposedCommands
  BY <1>3, <1>7 DEF ExposedCommands
<1> HIDE DEF gone
<1> QED
  BY <1>3, <1>15, <1>16, <1>17 DEF LeaseStep

\* A stop, proven or not, that gives back nothing or everything.
LEMMA StopLeases ==
  ASSUME FqInv, NEW proven \in BOOLEAN,
         deviceOn' = (deviceOn /\ ~proven), UNCHANGED deviceVars,
         \/ UNCHANGED <<cookies, memory>>
         \/ proven /\ cookies' = [i \in Index |-> NoCommand]
  PROVE  LeaseStep
<1>1. deviceOn \in BOOLEAN
  BY DEF FqInv, TypeOK
<1>2. CASE proven
  <2>1. deviceOn' = FALSE
    BY <1>1, <1>2
  <2>2. ExposedCommands' = {}
    BY <2>1 DEF ExposedCommands, Exposed
  <2>3. HeldCommands' \in {HeldCommands, {}}
    BY DEF HeldCommands
  <2> QED
    BY <2>1, <2>2, <2>3 DEF LeaseStep
<1>3. CASE ~proven
  <2>1. /\ UNCHANGED <<cookies, memory, host, hardware, reads>>
        /\ deviceOn' = deviceOn
    BY <1>1, <1>3 DEF deviceVars
  <2>2. HeldCommands' = HeldCommands /\ ExposedCommands' = ExposedCommands
    BY <2>1 DEF HeldCommands, ExposedCommands, Exposed, Announced
  <2> QED
    BY <2>1, <2>2 DEF LeaseStep
<1> QED
  BY <1>2, <1>3

\* A slot that the device takes was exposed before and still is.
LEMMA FetchLeases ==
  ASSUME FqInv, Fetch, FqInv'
  PROVE  LeaseStep
<1> USE Sizes
<1> DEFINE new == [slot |-> hardware, command |-> memory[hardware]]
<1>1. /\ deviceOn /\ hardware # host
      /\ hardware' = Advance(hardware, 1)
      /\ reads' = reads \cup {new} /\ new.slot = hardware
      /\ UNCHANGED <<cookies, memory, deviceOn, host>>
  BY DEF Fetch, ledgerVars, bankVars
<1> HIDE DEF new
<1>2. /\ hardware \in Index /\ host \in Index
  BY Typed
<1>3. hardware' = After(hardware) /\ hardware' \in Index
  BY <1>1, <1>2, AdvanceIs
<1>4. Ahead(hardware, host) = Ahead(hardware', host) \cup {hardware}
  <2>1. Forward(hardware, hardware) = 0 /\ Forward(hardware, host) > 0
    BY <1>1, <1>2, ForwardIndex
  <2>2. \A i \in Index \ {hardware} :
          Forward(hardware', i) = Forward(hardware, i) - 1
    BY <1>2, <1>3 DEF Forward, After, Index
  <2>3. Forward(hardware', hardware) = Count - 1
    BY <1>2, <1>3 DEF Forward, After, Index
  <2>4. \A i \in Index : Forward(hardware, i) \in 0 .. Count - 1
    BY <1>2, ForwardIndex
  <2> QED
    BY <1>1, <1>2, <2>1, <2>2, <2>3, <2>4 DEF Ahead
<1>5. /\ Exposed = Ahead(hardware, host) \cup {r.slot : r \in reads}
      /\ Exposed' = Ahead(hardware', host) \cup {r.slot : r \in reads'}
  <2>1. Exposed = Ahead(hardware, host) \cup {r.slot : r \in reads}
    BY <1>1, ExposedIs
  <2>2. Announced' = {Advance(hardware', n) : n \in 0 .. Distance(hardware', host) - 1}
    BY <1>1 DEF Announced, Advance, Distance
  <2>3. Announced' = Ahead(hardware', host)
    BY <1>2, <1>3, <2>2, AheadIs
  <2> QED
    BY <1>1, <2>1, <2>3 DEF Exposed
<1>6. {r.slot : r \in reads'} = {r.slot : r \in reads} \cup {hardware}
  BY <1>1
<1>7. Exposed' = Exposed
  BY <1>4, <1>5, <1>6
<1>8. HeldCommands' = HeldCommands /\ ExposedCommands' = ExposedCommands
  BY <1>1, <1>7 DEF HeldCommands, ExposedCommands
<1> QED
  BY <1>1, <1>8 DEF LeaseStep

\* A read that ends is Finish, or nothing when the slot is exposed otherwise.
LEMMA FinishReadLeases ==
  ASSUME FqInv, NEW r \in reads, FinishRead(r)
  PROVE  LeaseStep
<1>1. /\ deviceOn /\ reads' = reads \ {r}
      /\ UNCHANGED <<cookies, memory, deviceOn, host, hardware>>
  BY DEF FinishRead, ledgerVars, bankVars
<1>2. /\ Exposed = Announced \cup {s.slot : s \in reads}
      /\ Exposed' = Announced \cup {s.slot : s \in reads'}
  BY <1>1 DEF Exposed, Announced
<1>3. /\ {s.slot : s \in reads} = {s.slot : s \in reads'} \cup {r.slot}
  BY <1>1
<1>4. Exposed' \in {Exposed, Exposed \ {r.slot}} /\ r.slot \in Exposed
  BY <1>2, <1>3
<1>5. HeldCommands' = HeldCommands
  BY <1>1 DEF HeldCommands
<1>6. CASE Exposed' = Exposed
  BY <1>1, <1>5, <1>6 DEF LeaseStep, ExposedCommands
<1>7. CASE Exposed' = Exposed \ {r.slot}
  <2>1. /\ \A i \in Exposed : /\ i \in Index /\ cookies[i] # NoCommand
                              /\ memory[i] = cookies[i]
        /\ cookies \in [Index -> Command \cup {NoCommand}]
        /\ \A i, j \in Index :
             cookies[i] = cookies[j] /\ cookies[i] # NoCommand => i = j
    BY ExposedIs DEF FqInv, TypeOK, Occupied
  <2>2. /\ memory[r.slot] \in Command
        /\ \A i \in Exposed : memory[i] = memory[r.slot] => i = r.slot
    BY <1>4, <2>1
  <2>3. /\ ExposedCommands' = ExposedCommands \ {memory[r.slot]}
        /\ memory[r.slot] \in ExposedCommands
    BY <1>1, <1>4, <1>7, <2>2 DEF ExposedCommands
  <2> QED
    BY <1>1, <1>5, <2>2, <2>3 DEF LeaseStep
<1> QED
  BY <1>4, <1>6, <1>7

\* Every step of driver and device is one that FrameLease allows.
LEMMA LeaseMoves == FqInv /\ FqInv' /\ [Next]_vars => LeaseStep
<1> SUFFICES ASSUME FqInv, FqInv', [Next]_vars PROVE LeaseStep
  OBVIOUS
<1>1. ASSUME NEW c \in Command, Submit(c) PROVE LeaseStep
  BY <1>1, StageLeases DEF Submit
<1>2. ASSUME NEW c \in Command, SubmitUnsynced(c) PROVE LeaseStep
  BY <1>2, StageLeases DEF SubmitUnsynced, deviceVars
<1>3. ASSUME NEW c \in Command, NEW seen \in BOOLEAN, SubmitFails(c, seen)
      PROVE  LeaseStep
  <2>1. host' \in {host, producer'}
    BY <1>3 DEF SubmitFails
  <2> QED
    BY <1>3, <2>1, StageLeases DEF SubmitFails
<1>4. CASE ConsumeTo
  BY <1>4, ConsumeToLeases
<1>5. ASSUME NEW proven \in BOOLEAN, Fault(proven) PROVE LeaseStep
  BY <1>5, StopLeases DEF Fault, ledgerVars, bankVars
<1>6. ASSUME NEW proven \in BOOLEAN, NEW quiet \in BOOLEAN, Shutdown(proven, quiet)
      PROVE  LeaseStep
  <2>1. CASE MayReclaim(proven, quiet)
    BY <1>6, <2>1, StopLeases DEF Shutdown, MayReclaim
  <2>2. CASE ~MayReclaim(proven, quiet)
    BY <1>6, <2>2, StopLeases DEF Shutdown, ledgerVars, bankVars
  <2> QED
    BY <2>1, <2>2
<1>7. CASE Fetch
  BY <1>7, FetchLeases
<1>8. ASSUME NEW r \in reads, FinishRead(r) PROVE LeaseStep
  BY <1>8, FinishReadLeases
<1>9. CASE UNCHANGED vars
  <2>1. UNCHANGED <<cookies, memory, deviceOn, host, hardware, reads>>
    BY <1>9 DEF vars, ledgerVars, bankVars, deviceVars
  <2>2. HeldCommands' = HeldCommands /\ ExposedCommands' = ExposedCommands
    BY <2>1 DEF HeldCommands, ExposedCommands, Exposed, Announced
  <2> QED
    BY <2>1, <2>2 DEF LeaseStep
<1> QED
  BY <1>1, <1>2, <1>3, <1>4, <1>5, <1>6, <1>7, <1>8, <1>9 DEF Next

\* The command ring implements FrameLease: although the device never says that
\* it is done with a packet, one is given back only when no descriptor and no
\* read under way can refer to it, or after a proven stop; true for every
\* ring in which as many packets are kept back as reads can be under way.
THEOREM CommandRingImplementsLease == Spec => ImplementsLease
<1>1. FqInv /\ FqInv' /\ [Next]_vars => [Leases!Next]_(Leases!leaseVars)
  BY LeaseMoves, LeaseStepMaps DEF FqInv, TypeOK
<1> QED
  BY <1>1, LeaseInit, FqAlways, PTL DEF Spec, ImplementsLease, Leases!Spec
==============================================================================
