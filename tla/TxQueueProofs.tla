--------------------------- MODULE TxQueueProofs ---------------------------
(***************************************************************************)
(* Proofs about TxQueue for a ring of any size, any RPQ and any budget:    *)
(* the queue's type, that driver and device never disturb each other       *)
(* (RingSound), that a drained queue is quiet (DrainedMeansQuiet), and     *)
(* that the queue implements FrameLease.                                   *)
(*                                                                         *)
(* The inductive invariant TxInv says where the five cursors stand to each *)
(* other (Cursors), what the descriptors between them name (Window,        *)
(* Unfetched), that ledger, leases and pages agree (Ledger), what the      *)
(* device still works on (AtDevice) and what it still reports (InReports). *)
(***************************************************************************)
EXTENDS TxQueue, FiniteSetTheorems, WellFoundedInduction, TLAPS

----------------------------------------------------------------------------
(* The ring without its modulus. *)

Forward(from, to) == IF to >= from THEN to - from ELSE to - from + Count
After(i) == IF i = Count - 1 THEN 0 ELSE i + 1

\* The indices from one cursor up to another.
Ahead(from, to) == {i \in Index : Forward(from, i) < Forward(from, to)}

----------------------------------------------------------------------------
(* The inductive invariant. *)

\* The device retires what it fetched, fetches what it was told of, and was
\* told of nothing the ledger does not count; while the runtime runs, the
\* device knows of everything staged.
Cursors ==
  /\ running => deviceOn /\ attached
  /\ Forward(consumer, producer) = pendingBd
  /\ deviceOn =>
       /\ Forward(consumer, hardware) <= Forward(consumer, fetched)
       /\ Forward(consumer, fetched) <= Forward(consumer, host)
       /\ Forward(consumer, host) <= pendingBd
  /\ running => host = producer

\* Every descriptor not yet consumed names a page of its own, which is in use.
Window ==
  /\ \A i \in Index : Forward(consumer, i) < pendingBd =>
       pages[ring[i]].used /\ ~pages[ring[i]].consumed
  /\ \A i, k \in Index :
       /\ Forward(consumer, i) < pendingBd
       /\ Forward(consumer, k) < pendingBd
       /\ ring[i] = ring[k]
       => i = k

\* Reports the device made and drain() has not taken.
Untaken == {rpq[i] : i \in taken + 1 .. Len(rpq)}

\* The pages of descriptors the device has not fetched are in no job and no
\* report.
Unfetched ==
  deviceOn =>
    \A i \in Index :
      /\ Forward(consumer, fetched) <= Forward(consumer, i)
      /\ Forward(consumer, i) < pendingBd
      => /\ ~pages[ring[i]].reported
         /\ \A j \in jobs : j.page # ring[i]
         /\ running => ring[i] \notin Untaken

Used == {p \in Page : pages[p].used}

\* A page is in use exactly while its lease is held, its memory holds that
\* frame, no frame is leased twice, and outstanding_ counts the pages.
Ledger ==
  /\ \A p \in Page : pages[p].used <=> leases[p] # NoFrame
  /\ \A p \in Page : pages[p].used => memory[p] = leases[p]
  /\ \A p, q \in Page : leases[p] = leases[q] /\ leases[p] # NoFrame => p = q
  /\ outstanding = Cardinality(Used)

\* Every job is on a page in use and unreported, with the frame leased there.
AtDevice ==
  deviceOn =>
    /\ \A j \in jobs : /\ pages[j.page].used /\ ~pages[j.page].reported
                       /\ leases[j.page] = j.frame
    /\ \A j, k \in jobs : j.page = k.page => j = k

\* Untaken reports name pages in use and unreported, each once, and none the
\* device still works on.
InReports ==
  running =>
    /\ \A i \in taken + 1 .. Len(rpq) :
         /\ pages[rpq[i]].used /\ ~pages[rpq[i]].reported
         /\ \A j \in jobs : j.page # rpq[i]
    /\ \A i, k \in taken + 1 .. Len(rpq) : rpq[i] = rpq[k] => i = k

\* drain() never looks past the reports that are there.
Draining ==
  /\ limit <= Len(rpq)
  /\ phase # "reports" => limit = 0 /\ taken = 0

TxInv ==
  /\ TypeOK /\ Cursors /\ Window /\ Unfetched /\ Ledger /\ AtDevice
  /\ InReports /\ Draining

----------------------------------------------------------------------------
(* Arithmetic of the ring. *)

\* One wrap at most: % on a sum of an index and a distance.
LEMMA Wraps ==
  ASSUME NEW a \in Nat, a < 2 * Count
  PROVE  a % Count = IF a < Count THEN a ELSE a - Count
  BY ConstantsAssumption

\* ledger and doorbell distances, without the modulus.
LEMMA DistanceIs ==
  ASSUME NEW a \in Index, NEW b \in Index
  PROVE  Distance(a, b) = Forward(a, b)
  BY Wraps, ConstantsAssumption DEF Distance, Forward, Index

\* A cursor's next place, without the modulus.
LEMMA AfterIs ==
  ASSUME NEW a \in Index
  PROVE  (a + 1) % Count = After(a) /\ After(a) \in Index
  BY Wraps, ConstantsAssumption DEF After, Index

\* Distances on the ring are below its size, and zero only at home.
LEMMA ForwardIndex ==
  ASSUME NEW a \in Index, NEW b \in Index
  PROVE  /\ Forward(a, b) \in 0 .. Count - 1
         /\ Forward(a, b) = 0 <=> a = b
  BY ConstantsAssumption DEF Forward, Index

\* Distances from one cursor tell all places apart.
LEMMA ForwardInjective ==
  ASSUME NEW a \in Index, NEW b \in Index, NEW c \in Index,
         Forward(a, b) = Forward(a, c)
  PROVE  b = c
  BY ConstantsAssumption DEF Forward, Index

\* One step ahead is one further, except from the last place before home.
LEMMA ForwardAfter ==
  ASSUME NEW a \in Index, NEW b \in Index, Forward(a, b) < Count - 1
  PROVE  Forward(a, After(b)) = Forward(a, b) + 1
  BY ConstantsAssumption DEF Forward, After, Index

\* Distances add up when they do not pass home.
LEMMA ForwardSplit ==
  ASSUME NEW a \in Index, NEW b \in Index, NEW c \in Index,
         Forward(a, b) <= Forward(a, c)
  PROVE  Forward(b, c) = Forward(a, c) - Forward(a, b)
  BY ConstantsAssumption DEF Forward, Index

\* The reverse: a place that near to b lies behind it.
LEMMA ForwardJoin ==
  ASSUME NEW a \in Index, NEW b \in Index, NEW c \in Index,
         Forward(a, b) + Forward(b, c) < Count
  PROVE  Forward(a, c) = Forward(a, b) + Forward(b, c)
  BY ConstantsAssumption DEF Forward, Index

\* The loop of consumedTo() visits the indices ahead.
LEMMA AheadIs ==
  ASSUME NEW a \in Index, NEW b \in Index
  PROVE  {(a + n) % Count : n \in 0 .. Distance(a, b) - 1} = Ahead(a, b)
<1>1. ASSUME NEW n \in 0 .. Distance(a, b) - 1
      PROVE  (a + n) % Count \in Ahead(a, b)
  <2>1. /\ n \in Nat /\ n < Forward(a, b)
        /\ Forward(a, b) \in Nat /\ Forward(a, b) < Count
    BY DistanceIs, ForwardIndex, ConstantsAssumption DEF Index
  <2>2. (a + n) % Count = IF a + n < Count THEN a + n ELSE a + n - Count
    <3>1. a + n \in Nat /\ a + n < 2 * Count
      BY <2>1, ConstantsAssumption DEF Index
    <3> QED
      BY <3>1, Wraps, ConstantsAssumption DEF Index
  <2> QED
    BY <2>1, <2>2, ConstantsAssumption DEF Ahead, Index, Forward
<1>2. ASSUME NEW i \in Ahead(a, b)
      PROVE  \E n \in 0 .. Distance(a, b) - 1 : (a + n) % Count = i
  <2>1. /\ i \in Index /\ Forward(a, i) < Forward(a, b)
        /\ Forward(a, i) \in 0 .. Count - 1
    BY ForwardIndex DEF Ahead
  <2>2. Forward(a, i) \in 0 .. Distance(a, b) - 1
    BY <2>1, DistanceIs, ForwardIndex, ConstantsAssumption DEF Index
  <2>3. (a + Forward(a, i)) % Count = i
    <3>1. /\ a + Forward(a, i) \in Nat /\ a + Forward(a, i) < 2 * Count
      BY <2>1, ConstantsAssumption DEF Index
    <3> QED
      BY <3>1, <2>1, Wraps, ConstantsAssumption DEF Index, Forward
  <2> QED
    BY <2>2, <2>3
<1> QED
  BY <1>1, <1>2

\* Between() is what the ring holds at the indices ahead.
LEMMA BetweenIs ==
  ASSUME NEW a \in Index, NEW b \in Index
  PROVE  Between(a, b) = {ring[i] : i \in Ahead(a, b)}
  BY AheadIs DEF Between

----------------------------------------------------------------------------
(* Pages. *)

\* The pages of the pool are finitely many.
LEMMA PagesFinite ==
  /\ IsFiniteSet(Page) /\ Cardinality(Page) = Count
  /\ \A S \in SUBSET Page : /\ IsFiniteSet(S)
                            /\ Cardinality(S) \in 0 .. Count
                            /\ Cardinality(S) = Count => S = Page
<1>1. IsFiniteSet(Page) /\ Cardinality(Page) = Count
  BY FS_Interval, ConstantsAssumption DEF Page
<1> QED
  BY <1>1, FS_Subset, FS_CardinalityType, ConstantsAssumption

\* peek() finds a page: when outstanding_ is below the ring's size there is a
\* first free page from nextPage_ on.
LEMMA FreePageIs ==
  ASSUME TypeOK, Ledger, outstanding < Count
  PROVE  FreePage \in Page /\ ~pages[FreePage].used
<1> DEFINE at(n) == (nextPage + n) % Count
           Free == {i \in Index : ~pages[at(i)].used}
<1>1. nextPage \in Index
  BY DEF TypeOK, Index, Page
<1>2. \A i \in Index : at(i) \in Page
  BY <1>1, Wraps, ConstantsAssumption DEF Index, Page
<1>3. PICK p \in Page : ~pages[p].used
  <2>1. Used # Page
    BY PagesFinite, ConstantsAssumption DEF Ledger
  <2> QED
    BY <2>1 DEF Used
<1>4. Free # {}
  <2>1. /\ Forward(nextPage, p) \in Index
        /\ nextPage + Forward(nextPage, p) \in Nat
        /\ nextPage + Forward(nextPage, p) < 2 * Count
    BY <1>1, ForwardIndex, ConstantsAssumption DEF Index, Page
  <2>2. at(Forward(nextPage, p)) = p
    BY <2>1, <1>1, Wraps, ConstantsAssumption DEF Index, Page, Forward
  <2> QED
    BY <2>1, <2>2, <1>3
<1>5. PICK i \in Free : \A j \in Free : ~(<<j, i>> \in OpToRel(<, Nat))
  <2>1. Free \subseteq Nat
    BY ConstantsAssumption DEF Index
  <2> HIDE DEF Free
  <2> QED
    BY <2>1, <1>4, WFMin, NatLessThanWellFounded
<1>6. \A j \in 0 .. i - 1 : pages[at(j)].used
  <2>1. \A j \in Nat : j < i => <<j, i>> \in OpToRel(<, Nat)
    BY ConstantsAssumption DEF OpToRel, Index
  <2>2. \A j \in 0 .. i - 1 : j \in Index /\ j \in Nat /\ j < i
    BY ConstantsAssumption DEF Index
  <2> QED
    BY <2>1, <2>2, <1>5
<1> DEFINE n == CHOOSE k \in Index : /\ ~pages[at(k)].used
                                     /\ \A j \in 0 .. k - 1 : pages[at(j)].used
<1>7. n \in Index /\ ~pages[at(n)].used
  BY <1>5, <1>6
<1>8. FreePage = at(n)
  BY DEF FreePage
<1> QED
  BY <1>2, <1>7, <1>8

----------------------------------------------------------------------------
(* The invariant holds at first. *)

\* A bound queue is empty, and so is every place a frame can be.
LEMMA TxInit == Init => TxInv
<1> SUFFICES ASSUME Init PROVE TxInv
  OBVIOUS
<1> USE ConstantsAssumption
<1>1. TypeOK
  BY DEF Init, TypeOK, Index, Page, Slot, EmptySlot
<1>2. Used = {}
  BY DEF Init, Used, EmptySlot
<1>3. Ledger
  BY <1>2, FS_EmptySet DEF Init, Ledger, EmptySlot
<1>4. Cursors
  BY DEF Init, Cursors, Forward, Index
<1>5. \A i \in Index : ~(Forward(consumer, i) < pendingBd)
  BY ForwardIndex DEF Init, Index
<1> QED
  BY <1>1, <1>3, <1>4, <1>5
     DEF Init, TxInv, Window, Unfetched, AtDevice, InReports, Draining, Untaken

----------------------------------------------------------------------------
(* Submission. *)

\* What peek() and stage() achieve, in the ring's own terms.
LEMMA StageMoves ==
  ASSUME NEW f \in Frame, TxInv, running, ~Full, Stage(f, FreePage)
  PROVE  /\ FreePage \in Page /\ ~pages[FreePage].used
         /\ pendingBd \in Nat /\ pendingBd < Count - 1 /\ outstanding < Count
         /\ producer' = After(producer) /\ producer' \in Index
         /\ Forward(consumer, producer) = pendingBd
         /\ Forward(consumer, producer') = pendingBd + 1
         /\ nextPage' \in Page
         /\ Forward(consumer, hardware) <= pendingBd
<1> USE ConstantsAssumption
<1>1. TypeOK /\ Ledger /\ Cursors
  BY DEF TxInv
<1>2. /\ pendingBd \in Nat /\ pendingBd < Count - 1
      /\ outstanding \in Nat /\ outstanding < Count
  BY <1>1 DEF TypeOK, Full
<1>3. FreePage \in Page /\ ~pages[FreePage].used
  BY <1>1, <1>2, FreePageIs
<1>4. producer \in Index /\ consumer \in Index /\ hardware \in Index
      /\ fetched \in Index /\ host \in Index
  BY <1>1 DEF TypeOK
<1>5. producer' = After(producer) /\ producer' \in Index
  BY <1>4, AfterIs DEF Stage
<1>6. Forward(consumer, producer) = pendingBd
  BY <1>1 DEF Cursors
<1>7. Forward(consumer, producer') = pendingBd + 1
  BY <1>2, <1>4, <1>5, <1>6, ForwardAfter
<1>8. nextPage' \in Page
  BY <1>3, AfterIs DEF Stage, Page, Index
<1>9. Forward(consumer, hardware) <= pendingBd
  <2>1. /\ Forward(consumer, hardware) \in Int
        /\ Forward(consumer, fetched) \in Int
        /\ Forward(consumer, host) \in Int
    BY <1>4, ForwardIndex
  <2> QED
    BY <1>1, <1>2, <2>1 DEF Cursors
<1> QED
  BY <1>2, <1>3, <1>5, <1>6, <1>7, <1>8, <1>9

\* A staged frame, announced or not, with the runtime running on or stopped.
LEMMA StageKeeps ==
  ASSUME NEW f \in Frame, TxInv, running, ~Full, Stage(f, FreePage),
         \A p \in Page : leases[p] # f,
         host' \in {host, producer'},
         UNCHANGED <<attached, phase, limit, taken, hardware, fetched, jobs,
                     rpq>>,
         running' \in BOOLEAN, deviceOn' \in BOOLEAN,
         deviceOn' => deviceOn,
         running' => deviceOn' /\ host' = producer'
  PROVE  TxInv'
<1> USE ConstantsAssumption
<1> DEFINE p == FreePage
<1>0. /\ TypeOK /\ Ledger /\ Cursors /\ Window /\ Unfetched /\ AtDevice
      /\ InReports /\ Draining
  BY DEF TxInv
<1>1. /\ p \in Page /\ ~pages[p].used
      /\ pendingBd \in Nat /\ pendingBd < Count - 1 /\ outstanding < Count
      /\ producer' = After(producer) /\ producer' \in Index
      /\ Forward(consumer, producer) = pendingBd
      /\ Forward(consumer, producer') = pendingBd + 1
      /\ nextPage' \in Page
  BY StageMoves
<1>2. /\ producer \in Index /\ consumer \in Index /\ hardware \in Index
      /\ fetched \in Index /\ host \in Index
      /\ pages \in [Page -> Slot] /\ ring \in [Index -> Page]
      /\ leases \in [Page -> Frame \cup {NoFrame}]
      /\ memory \in [Page -> Frame \cup {NoFrame}]
      /\ jobs \subseteq Job /\ rpq \in Seq(Page)
      /\ outstanding \in Nat
  BY <1>0 DEF TypeOK
<1> HIDE DEF p
<1> DEFINE s == [EmptySlot EXCEPT !.used = TRUE]
<1>e. s \in Slot /\ s.used /\ ~s.consumed /\ ~s.reported
  BY DEF EmptySlot, Slot
<1>s. /\ memory' = [memory EXCEPT ![p] = f]
      /\ pages' = [pages EXCEPT ![p] = s]
      /\ leases' = [leases EXCEPT ![p] = f]
      /\ ring' = [ring EXCEPT ![producer] = p]
      /\ pendingBd' = pendingBd + 1
      /\ outstanding' = outstanding + 1
      /\ consumer' = consumer
  BY DEF Stage, p
<1> HIDE DEF s
<1>3. TypeOK'
  <2>1. pages' \in [Page -> Slot]
    BY <1>1, <1>2, <1>s, <1>e
  <2>2. /\ leases' \in [Page -> Frame \cup {NoFrame}]
        /\ memory' \in [Page -> Frame \cup {NoFrame}]
        /\ ring' \in [Index -> Page]
    BY <1>1, <1>2, <1>s
  <2>3. /\ producer' \in Index /\ consumer' \in Index /\ nextPage' \in Page
        /\ pendingBd' \in 0 .. Count - 1 /\ outstanding' \in 0 .. Count
        /\ host' \in Index
    BY <1>1, <1>2, <1>s
  <2> QED
    BY <1>0, <2>1, <2>2, <2>3 DEF TypeOK
<1>w. \A i \in Index : Forward(consumer, i) \in Nat
  BY <1>2, ForwardIndex
<1>4. Cursors'
  <2>1. Forward(consumer', producer') = pendingBd'
    BY <1>1, <1>s
  <2>2. running' => deviceOn' /\ attached' /\ host' = producer'
    BY <1>0 DEF Cursors
  <2>3. deviceOn' =>
          /\ Forward(consumer', hardware') <= Forward(consumer', fetched')
          /\ Forward(consumer', fetched') <= Forward(consumer', host')
          /\ Forward(consumer', host') <= pendingBd'
    BY <1>0, <1>1, <1>2, <1>s, <1>w DEF Cursors
  <2> QED
    BY <2>1, <2>2, <2>3 DEF Cursors
\* The window grows by the descriptor just written.
<1>5. \A i \in Index : Forward(consumer', i) < pendingBd' =>
        \/ i = producer /\ ring'[i] = p
        \/ /\ Forward(consumer, i) < pendingBd /\ i # producer
           /\ ring'[i] = ring[i] /\ ring[i] \in Page /\ ring[i] # p
           /\ pages'[ring[i]] = pages[ring[i]]
  <2> SUFFICES ASSUME NEW i \in Index, Forward(consumer, i) < pendingBd + 1,
                      i # producer
               PROVE  /\ Forward(consumer, i) < pendingBd
                      /\ ring'[i] = ring[i] /\ ring[i] \in Page /\ ring[i] # p
                      /\ pages'[ring[i]] = pages[ring[i]]
    BY <1>2, <1>s
  <2>1. Forward(consumer, i) < pendingBd
    BY <1>1, <1>2, <1>w, ForwardInjective
  <2>2. pages[ring[i]].used
    BY <1>0, <2>1 DEF Window
  <2> QED
    BY <2>1, <2>2, <1>1, <1>2, <1>s
<1>6. /\ pages'[p].used /\ ~pages'[p].consumed /\ ~pages'[p].reported
      /\ leases'[p] = f /\ memory'[p] = f
  BY <1>1, <1>2, <1>s, <1>e
<1>7. \A q \in Page : q # p =>
        pages'[q] = pages[q] /\ leases'[q] = leases[q] /\ memory'[q] = memory[q]
  BY <1>2, <1>s
<1>8. Window'
  <2>1. ASSUME NEW i \in Index, Forward(consumer', i) < pendingBd'
        PROVE  pages'[ring'[i]].used /\ ~pages'[ring'[i]].consumed
    BY <2>1, <1>0, <1>5, <1>6 DEF Window
  <2>2. ASSUME NEW i \in Index, NEW k \in Index,
               Forward(consumer', i) < pendingBd',
               Forward(consumer', k) < pendingBd', ring'[i] = ring'[k]
        PROVE  i = k
    BY <2>2, <1>0, <1>5 DEF Window
  <2> QED
    BY <2>1, <2>2 DEF Window
<1>9. running => p \notin Untaken
  BY <1>0, <1>1 DEF InReports, Untaken
<1>10. deviceOn => \A j \in jobs : j.page # p /\ j.page \in Page
  BY <1>0, <1>1, <1>2 DEF AtDevice, Job
<1>11. Unfetched'
  <2> SUFFICES ASSUME deviceOn', NEW i \in Index,
                      Forward(consumer', fetched') <= Forward(consumer', i),
                      Forward(consumer', i) < pendingBd'
               PROVE  /\ ~pages'[ring'[i]].reported
                      /\ \A j \in jobs' : j.page # ring'[i]
                      /\ running' => ring'[i] \notin Untaken'
    BY DEF Unfetched
  <2>1. Untaken' = Untaken
    BY DEF Untaken
  <2>2. CASE i = producer /\ ring'[i] = p
    BY <2>1, <2>2, <1>6, <1>9, <1>10
  <2>3. CASE /\ Forward(consumer, i) < pendingBd /\ i # producer
             /\ ring'[i] = ring[i] /\ pages'[ring[i]] = pages[ring[i]]
    <3>1. Forward(consumer, fetched) <= Forward(consumer, i)
      BY <1>s
    <3> QED
      BY <2>1, <2>3, <3>1, <1>0 DEF Unfetched
  <2> QED
    BY <2>2, <2>3, <1>5
<1>12. Ledger'
  <2>1. Used' = Used \cup {p} /\ p \notin Used /\ Used \in SUBSET Page
    BY <1>1, <1>6, <1>7 DEF Used
  <2>2. outstanding' = Cardinality(Used')
    BY <2>1, <1>0, <1>s, PagesFinite, FS_AddElement DEF Ledger
  <2>3. \A q \in Page : pages'[q].used <=> leases'[q] # NoFrame
    BY <1>0, <1>6, <1>7 DEF Ledger
  <2>4. \A q \in Page : pages'[q].used => memory'[q] = leases'[q]
    BY <1>0, <1>6, <1>7 DEF Ledger
  <2>5. \A q, r \in Page :
          leases'[q] = leases'[r] /\ leases'[q] # NoFrame => q = r
    BY <1>0, <1>6, <1>7 DEF Ledger
  <2> QED
    BY <2>2, <2>3, <2>4, <2>5 DEF Ledger
<1>13. AtDevice'
  BY <1>0, <1>7, <1>10 DEF AtDevice
<1>14. InReports'
  <2> SUFFICES ASSUME running'
               PROVE  InReports'
    BY DEF InReports
  <2>1. \A i \in taken + 1 .. Len(rpq) :
          rpq[i] # p /\ rpq[i] \in Page
    <3>1. taken \in Nat
      BY <1>0 DEF TypeOK
    <3> QED
      BY <3>1, <1>2, <1>9 DEF Untaken
  <2> QED
    BY <2>1, <1>0, <1>7 DEF InReports
<1>15. Draining'
  BY <1>0 DEF Draining
<1> QED
  BY <1>3, <1>4, <1>8, <1>11, <1>12, <1>13, <1>14, <1>15 DEF TxInv

\* A frame is staged and announced.
LEMMA SubmitKeeps ==
  ASSUME NEW f \in Frame, TxInv, Submit(f)
  PROVE  TxInv'
<1>1. deviceOn' = deviceOn /\ running' = running /\ running
  BY DEF Submit, runtimeVars
<1>2. deviceOn /\ deviceOn' \in BOOLEAN /\ running' \in BOOLEAN
  BY <1>1 DEF TxInv, TypeOK, Cursors
<1> QED
  BY <1>1, <1>2, StageKeeps DEF Submit

\* A frame is staged and the runtime stops before or after the device is told.
LEMMA SubmitFailsKeeps ==
  ASSUME NEW f \in Frame, NEW seen \in BOOLEAN, NEW proven \in BOOLEAN,
         TxInv, SubmitFails(f, seen, proven)
  PROVE  TxInv'
<1>1. /\ running /\ running' = FALSE
      /\ deviceOn' = (deviceOn /\ ~proven) /\ deviceOn \in BOOLEAN
  BY DEF SubmitFails, StopRuntime, TxInv, TypeOK
<1>2. deviceOn' \in BOOLEAN /\ (deviceOn' => deviceOn)
  BY <1>1
<1>3. host' \in {host, producer'}
  BY DEF SubmitFails
<1> QED
  BY <1>1, <1>2, <1>3, StageKeeps DEF SubmitFails

----------------------------------------------------------------------------
(* drain(). *)

\* drainCompletions() on pages that differ from the ledger's in what is
\* consumed and reported: the pages that are ready leave, the rest stay.
LEMMA DrainMoves ==
  ASSUME TypeOK, Ledger, memory' = memory, NEW now \in [Page -> Slot],
         \A p \in Page : now[p].used <=> pages[p].used,
         DrainCompletions(now)
  PROVE  /\ Ledger'
         /\ pages' \in [Page -> Slot]
         /\ leases' \in [Page -> Frame \cup {NoFrame}]
         /\ outstanding' \in 0 .. Count
         /\ \A p \in Page : ~Ready(now[p]) =>
              pages'[p] = now[p] /\ leases'[p] = leases[p]
         /\ \A p \in Page : Ready(now[p]) =>
              ~pages'[p].used /\ leases'[p] = NoFrame
<1> DEFINE done == {p \in Page : Ready(now[p])}
<1>1. /\ pages' = [p \in Page |-> IF p \in done THEN EmptySlot ELSE now[p]]
      /\ leases' = [p \in Page |-> IF p \in done THEN NoFrame ELSE leases[p]]
      /\ outstanding' = outstanding - Cardinality(done)
  BY DEF DrainCompletions
<1>2. /\ EmptySlot \in Slot /\ ~EmptySlot.used
  BY DEF EmptySlot, Slot
<1>3. /\ leases \in [Page -> Frame \cup {NoFrame}]
  BY DEF TypeOK
<1>4. \A p \in Page : p \notin done =>
        pages'[p] = now[p] /\ leases'[p] = leases[p]
  BY <1>1
<1>5. \A p \in Page : p \in done =>
        ~pages'[p].used /\ leases'[p] = NoFrame
  BY <1>1, <1>2
<1>6. pages' \in [Page -> Slot] /\ leases' \in [Page -> Frame \cup {NoFrame}]
  BY <1>1, <1>2, <1>3
<1>7. done \subseteq Used /\ Used' = Used \ done /\ Used \in SUBSET Page
      /\ Used' \in SUBSET Page
  BY <1>4, <1>5 DEF Used, Ready
<1>8. Cardinality(Used') = Cardinality(Used) - Cardinality(done)
  <2>1. Used \cap done = done
    BY <1>7
  <2> HIDE DEF done
  <2> QED
    BY <2>1, <1>7, PagesFinite, FS_Difference
<1>9. outstanding' = Cardinality(Used') /\ outstanding' \in 0 .. Count
  BY <1>1, <1>7, <1>8, PagesFinite DEF Ledger
<1> HIDE DEF done
<1>10. Ledger'
  <2>1. \A p \in Page : pages'[p].used <=> leases'[p] # NoFrame
    BY <1>4, <1>5 DEF Ledger
  <2>2. \A p \in Page : pages'[p].used => memory'[p] = leases'[p]
    BY <1>4, <1>5 DEF Ledger
  <2>3. \A p, q \in Page :
          leases'[p] = leases'[q] /\ leases'[p] # NoFrame => p = q
    BY <1>4, <1>5 DEF Ledger
  <2> QED
    BY <1>9, <2>1, <2>2, <2>3 DEF Ledger
<1> QED
  BY <1>4, <1>5, <1>6, <1>9, <1>10 DEF done

\* The pages consumed by a drain: they become consumed, and nothing else.
Consumed ==
  [p \in Page |-> IF p \in Between(consumer, hardware)
                    THEN [pages[p] EXCEPT !.consumed = TRUE] ELSE pages[p]]

\* What consumedTo() does to pages, in the ring's own terms.
LEMMA ConsumedIs ==
  ASSUME TxInv, deviceOn
  PROVE  /\ Consumed \in [Page -> Slot]
         /\ \A p \in Page : /\ Consumed[p].used <=> pages[p].used
                            /\ Consumed[p].reported <=> pages[p].reported
         /\ \A i \in Index :
              /\ Forward(consumer, hardware) <= Forward(consumer, i)
              /\ Forward(consumer, i) < pendingBd
              => Consumed[ring[i]] = pages[ring[i]]
<1> USE ConstantsAssumption
<1>1. /\ pages \in [Page -> Slot] /\ ring \in [Index -> Page]
      /\ consumer \in Index /\ hardware \in Index /\ fetched \in Index
      /\ host \in Index /\ pendingBd \in Nat
  BY DEF TxInv, TypeOK
<1>2. \A p \in Page : /\ [pages[p] EXCEPT !.consumed = TRUE] \in Slot
                      /\ [pages[p] EXCEPT !.consumed = TRUE].used = pages[p].used
                      /\ [pages[p] EXCEPT !.consumed = TRUE].reported
                           = pages[p].reported
  BY <1>1 DEF Slot
<1>3. Consumed \in [Page -> Slot]
  BY <1>1, <1>2 DEF Consumed
<1>4. \A p \in Page : /\ Consumed[p].used <=> pages[p].used
                      /\ Consumed[p].reported <=> pages[p].reported
  BY <1>1, <1>2 DEF Consumed
<1>5. ASSUME NEW i \in Index, Forward(consumer, hardware) <= Forward(consumer, i),
             Forward(consumer, i) < pendingBd
      PROVE  Consumed[ring[i]] = pages[ring[i]]
  <2>1. /\ Forward(consumer, i) \in Int /\ Forward(consumer, hardware) \in Int
        /\ \A k \in Index : Forward(consumer, k) \in Int
    BY <1>1, ForwardIndex
  <2>2. ASSUME NEW k \in Ahead(consumer, hardware), ring[k] = ring[i]
        PROVE  FALSE
    <3>1. k \in Index /\ Forward(consumer, k) < Forward(consumer, hardware)
      BY DEF Ahead
    <3>2. Forward(consumer, k) < pendingBd /\ k # i
      BY <3>1, <2>1, <1>1, <1>5
    <3> QED
      BY <3>1, <3>2, <2>2, <1>5 DEF TxInv, Window
  <2>3. ring[i] \notin Between(consumer, hardware)
    BY <2>2, <1>1, BetweenIs
  <2> QED
    BY <2>3, <1>1 DEF Consumed
<1> QED
  BY <1>3, <1>4, <1>5

\* The device's index is applied and what is ready leaves.
LEMMA ConsumeToKeeps ==
  ASSUME TxInv, ConsumeTo
  PROVE  TxInv'
<1> USE ConstantsAssumption
<1>0. /\ TypeOK /\ Ledger /\ Cursors /\ Window /\ Unfetched /\ AtDevice
      /\ InReports /\ Draining
  BY DEF TxInv
<1>1. /\ running /\ phase = "idle"
      /\ Distance(consumer, hardware) <= pendingBd
      /\ DrainCompletions(Consumed)
      /\ pendingBd' = pendingBd - Distance(consumer, hardware)
      /\ consumer' = hardware /\ phase' = "poll"
      /\ UNCHANGED <<ring, producer, nextPage, memory, attached, limit, taken,
                     running, deviceOn, host, hardware, fetched, jobs, rpq>>
  BY DEF ConsumeTo, Consumed, runtimeVars, deviceVars
<1>2. deviceOn /\ host = producer
  BY <1>0, <1>1 DEF Cursors
<1>3. /\ Consumed \in [Page -> Slot]
      /\ \A p \in Page : /\ Consumed[p].used <=> pages[p].used
                         /\ Consumed[p].reported <=> pages[p].reported
      /\ \A i \in Index :
           /\ Forward(consumer, hardware) <= Forward(consumer, i)
           /\ Forward(consumer, i) < pendingBd
           => Consumed[ring[i]] = pages[ring[i]]
  BY <1>2, ConsumedIs
<1>4. /\ Ledger'
      /\ pages' \in [Page -> Slot]
      /\ leases' \in [Page -> Frame \cup {NoFrame}]
      /\ outstanding' \in 0 .. Count
      /\ \A p \in Page : ~Ready(Consumed[p]) =>
           pages'[p] = Consumed[p] /\ leases'[p] = leases[p]
  BY <1>0, <1>1, <1>3, DrainMoves
<1>5. /\ ring \in [Index -> Page] /\ jobs \subseteq Job /\ rpq \in Seq(Page)
      /\ consumer \in Index /\ hardware \in Index /\ fetched \in Index
      /\ host \in Index /\ producer \in Index /\ pendingBd \in Nat
      /\ pendingBd < Count /\ taken \in Nat
  BY <1>0 DEF TypeOK
<1>6. /\ Distance(consumer, hardware) = Forward(consumer, hardware)
      /\ \A i \in Index : Forward(consumer, i) \in 0 .. Count - 1
      /\ \A i \in Index : Forward(hardware, i) \in 0 .. Count - 1
  BY <1>5, DistanceIs, ForwardIndex
<1>7. /\ pendingBd' = pendingBd - Forward(consumer, hardware)
      /\ Forward(consumer, hardware) <= pendingBd
  BY <1>1, <1>6
\* Seen from the new consumer, everything not consumed is nearer.
<1>8. ASSUME NEW i \in Index, Forward(consumer, hardware) <= Forward(consumer, i)
      PROVE  Forward(hardware, i)
               = Forward(consumer, i) - Forward(consumer, hardware)
  BY <1>5, <1>8, ForwardSplit
<1>9. ASSUME NEW i \in Index, Forward(hardware, i) < pendingBd'
      PROVE  /\ Forward(consumer, hardware) <= Forward(consumer, i)
             /\ Forward(consumer, i) < pendingBd
             /\ Forward(consumer, i)
                  = Forward(hardware, i) + Forward(consumer, hardware)
  <2>1. Forward(consumer, hardware) + Forward(hardware, i) < Count
    BY <1>5, <1>6, <1>7, <1>9
  <2>2. Forward(consumer, i) = Forward(consumer, hardware) + Forward(hardware, i)
    BY <2>1, <1>5, ForwardJoin
  <2> QED
    BY <2>2, <1>5, <1>6, <1>7, <1>9
<1>10. Forward(consumer, producer) = pendingBd
       /\ Forward(consumer, hardware) <= Forward(consumer, fetched)
       /\ Forward(consumer, fetched) <= Forward(consumer, host)
       /\ Forward(consumer, hardware) <= Forward(consumer, host)
       /\ Forward(consumer, host) <= pendingBd
  BY <1>0, <1>2, <1>5, <1>6 DEF Cursors
<1>11. TypeOK'
  <2>1. pendingBd' \in 0 .. Count - 1
    BY <1>5, <1>6, <1>7
  <2> QED
    BY <2>1, <1>0, <1>1, <1>4, <1>5 DEF TypeOK
<1>12. Cursors'
  <2>1. /\ Forward(hardware, producer) = pendingBd'
        /\ Forward(hardware, hardware) <= Forward(hardware, fetched)
        /\ Forward(hardware, fetched) <= Forward(hardware, host)
        /\ Forward(hardware, host) <= pendingBd'
    BY <1>2, <1>5, <1>6, <1>7, <1>8, <1>10
  <2> QED
    BY <2>1, <1>0, <1>1, <1>2 DEF Cursors
\* A page not consumed or not reported stays as it is.
<1>13. ASSUME NEW p \in Page, ~pages[p].reported
       PROVE  /\ pages'[p].used <=> pages[p].used
              /\ ~pages'[p].reported /\ leases'[p] = leases[p]
  BY <1>3, <1>4, <1>13 DEF Ready
<1>14. ASSUME NEW i \in Index, Forward(hardware, i) < pendingBd'
       PROVE  ring[i] \in Page /\ pages'[ring[i]] = pages[ring[i]]
  <2>1. /\ Consumed[ring[i]] = pages[ring[i]] /\ ~pages[ring[i]].consumed
        /\ ring[i] \in Page
    BY <1>0, <1>3, <1>5, <1>9, <1>14 DEF Window
  <2> QED
    BY <2>1, <1>4 DEF Ready
<1>15. Window'
  <2>1. ASSUME NEW i \in Index, Forward(hardware, i) < pendingBd'
        PROVE  pages'[ring[i]].used /\ ~pages'[ring[i]].consumed
    BY <2>1, <1>0, <1>9, <1>14 DEF Window
  <2>2. ASSUME NEW i \in Index, NEW k \in Index, ring[i] = ring[k],
               Forward(hardware, i) < pendingBd',
               Forward(hardware, k) < pendingBd'
        PROVE  i = k
    BY <2>2, <1>0, <1>9 DEF Window
  <2> QED
    BY <2>1, <2>2, <1>1 DEF Window
<1>16. Untaken' = Untaken
  BY <1>1 DEF Untaken
<1>17. Unfetched'
  <2> SUFFICES ASSUME NEW i \in Index,
                      Forward(hardware, fetched) <= Forward(hardware, i),
                      Forward(hardware, i) < pendingBd'
               PROVE  /\ ~pages'[ring[i]].reported
                      /\ \A j \in jobs : j.page # ring[i]
                      /\ running => ring[i] \notin Untaken
    BY <1>1, <1>16 DEF Unfetched
  <2>1. Forward(consumer, fetched) <= Forward(consumer, i)
        /\ Forward(consumer, i) < pendingBd
    BY <1>5, <1>6, <1>8, <1>9, <1>10
  <2> QED
    BY <2>1, <1>0, <1>2, <1>14 DEF Unfetched
<1>18. AtDevice'
  BY <1>0, <1>1, <1>5, <1>13 DEF AtDevice, Job
<1>19. InReports'
  <2>1. \A i \in taken + 1 .. Len(rpq) : rpq[i] \in Page
    BY <1>5
  <2> QED
    BY <2>1, <1>0, <1>1, <1>13 DEF InReports
<1>20. Draining'
  BY <1>0, <1>1 DEF Draining
<1> QED
  BY <1>4, <1>11, <1>12, <1>15, <1>17, <1>18, <1>19, <1>20 DEF TxInv

\* The reports are counted.
LEMMA PollReportsKeeps ==
  ASSUME TxInv, PollReports
  PROVE  TxInv'
<1>1. /\ TypeOK /\ InReports /\ Unfetched /\ Draining
      /\ rpq \in Seq(Page) /\ Len(rpq) \in Nat
      /\ phase = "poll" /\ limit' = Pending /\ taken' = 0 /\ phase' = "reports"
      /\ UNCHANGED <<pages, ring, producer, consumer, pendingBd, outstanding,
                     nextPage, leases, memory, attached, running, deviceOn,
                     host, hardware, fetched, jobs, rpq>>
  BY DEF TxInv, TypeOK, PollReports, ledgerVars, runtimeVars, deviceVars
<1>2. Pending \in 0 .. Budget /\ Pending <= Len(rpq) /\ taken = 0
  BY <1>1, ConstantsAssumption DEF Pending, Draining
<1>3. TypeOK' /\ Draining'
  BY <1>1, <1>2, ConstantsAssumption DEF TypeOK, Draining
<1>4. Untaken' = Untaken
  BY <1>1, <1>2 DEF Untaken
<1>5. Unfetched'
  BY <1>1, <1>4 DEF Unfetched
<1>6. InReports'
  BY <1>1, <1>2 DEF InReports
<1>7. Cursors' /\ Window' /\ AtDevice'
  BY <1>1 DEF TxInv, Cursors, Window, AtDevice
<1>8. Ledger'
  BY <1>1 DEF TxInv, Ledger, Used
<1> QED
  BY <1>3, <1>5, <1>6, <1>7, <1>8 DEF TxInv

\* The pages once the next report is taken.
Noted == [pages EXCEPT ![rpq[taken + 1]].reported = TRUE]

\* What report() does to the ledger's pages.
LEMMA NotedIs ==
  ASSUME TxInv, taken < limit
  PROVE  /\ taken \in Nat /\ taken + 1 \in taken + 1 .. Len(rpq)
         /\ rpq[taken + 1] \in Page
         /\ Noted \in [Page -> Slot]
         /\ \A p \in Page : /\ Noted[p].used <=> pages[p].used
                            /\ Noted[p].consumed <=> pages[p].consumed
                            /\ p # rpq[taken + 1] => Noted[p] = pages[p]
<1>1. /\ pages \in [Page -> Slot] /\ rpq \in Seq(Page)
      /\ taken \in Nat /\ limit \in Nat /\ limit <= Len(rpq) /\ Len(rpq) \in Nat
  BY ConstantsAssumption DEF TxInv, TypeOK, Draining
<1>2. taken + 1 \in 1 .. Len(rpq) /\ taken + 1 \in taken + 1 .. Len(rpq)
  BY <1>1
<1>3. rpq[taken + 1] \in Page
  BY <1>1, <1>2
<1> DEFINE r == rpq[taken + 1]
           s == [pages[r] EXCEPT !.reported = TRUE]
<1>4. s \in Slot /\ s.used = pages[r].used /\ s.consumed = pages[r].consumed
  BY <1>1, <1>3 DEF Slot
<1>5. Noted = [pages EXCEPT ![r] = s]
  BY DEF Noted
<1> HIDE DEF r, s
<1>6. r \in Page
  BY <1>3 DEF r
<1>7. /\ Noted \in [Page -> Slot]
      /\ \A p \in Page : /\ Noted[p].used <=> pages[p].used
                         /\ Noted[p].consumed <=> pages[p].consumed
                         /\ p # r => Noted[p] = pages[p]
  BY <1>1, <1>4, <1>5, <1>6
<1> QED
  BY <1>1, <1>2, <1>3, <1>7 DEF r

\* One report is taken and what is ready leaves.
LEMMA TakeReportKeeps ==
  ASSUME TxInv, TakeReport
  PROVE  TxInv'
<1> USE ConstantsAssumption
<1>0. /\ TypeOK /\ Ledger /\ Cursors /\ Window /\ Unfetched /\ AtDevice
      /\ InReports /\ Draining
  BY DEF TxInv
<1>1. /\ running /\ phase = "reports" /\ taken < limit
      /\ DrainCompletions(Noted)
      /\ taken' = taken + 1
      /\ UNCHANGED <<ring, producer, consumer, pendingBd, nextPage, memory,
                     attached, phase, limit, running, deviceOn, host, hardware,
                     fetched, jobs, rpq>>
  BY DEF TakeReport, Noted, runtimeVars, deviceVars
<1> DEFINE r == rpq[taken + 1]
<1>2. /\ taken \in Nat /\ taken + 1 \in taken + 1 .. Len(rpq)
      /\ r \in Page
      /\ Noted \in [Page -> Slot]
      /\ \A p \in Page : /\ Noted[p].used <=> pages[p].used
                         /\ Noted[p].consumed <=> pages[p].consumed
                         /\ p # r => Noted[p] = pages[p]
  BY <1>1, NotedIs
<1>3. deviceOn
  BY <1>0, <1>1 DEF Cursors
<1>4. /\ Ledger'
      /\ pages' \in [Page -> Slot]
      /\ leases' \in [Page -> Frame \cup {NoFrame}]
      /\ outstanding' \in 0 .. Count
      /\ \A p \in Page : ~Ready(Noted[p]) =>
           pages'[p] = Noted[p] /\ leases'[p] = leases[p]
  BY <1>0, <1>1, <1>2, DrainMoves
<1>5. /\ ring \in [Index -> Page] /\ jobs \subseteq Job /\ rpq \in Seq(Page)
      /\ limit \in Nat /\ Len(rpq) \in Nat /\ limit <= Budget /\ limit <= Len(rpq)
  BY <1>0 DEF TypeOK, Draining
<1>6. taken + 1 .. Len(rpq) = {taken + 1} \cup (taken' + 1 .. Len(rpq))
      /\ taken + 1 \notin taken' + 1 .. Len(rpq)
  BY <1>1, <1>2, <1>5
<1>7. /\ \A j \in jobs : j.page # r /\ j.page \in Page
      /\ \A i \in taken' + 1 .. Len(rpq) : rpq[i] # r /\ rpq[i] \in Page
      /\ Untaken = {r} \cup Untaken'
  <2>1. r \in Untaken /\ Untaken = {r} \cup Untaken'
    BY <1>1, <1>6 DEF Untaken
  <2>2. \A i \in taken' + 1 .. Len(rpq) : i \in 1 .. Len(rpq)
    BY <1>1, <1>2, <1>5
  <2>3. \A i \in taken' + 1 .. Len(rpq) : rpq[i] # r
    BY <1>0, <1>1, <1>6 DEF InReports
  <2> HIDE DEF r
  <2>4. \A j \in jobs : j.page # r
    BY <1>0, <1>1, <1>2 DEF InReports, r
  <2> QED
    BY <2>1, <2>2, <2>3, <2>4, <1>5 DEF Job
<1> HIDE DEF r
\* A page other than the reported one that is not both stays as it is.
<1>8. ASSUME NEW p \in Page, p # r, ~pages[p].reported
      PROVE  pages'[p] = pages[p] /\ leases'[p] = leases[p]
  BY <1>2, <1>4, <1>8 DEF Ready
<1>9. ASSUME NEW p \in Page, ~pages[p].consumed
      PROVE  /\ pages'[p] = Noted[p]
  BY <1>2, <1>4, <1>9 DEF Ready
<1>10. TypeOK'
  <2>1. taken' \in 0 .. limit'
    BY <1>1, <1>2, <1>5
  <2> QED
    BY <2>1, <1>0, <1>1, <1>4 DEF TypeOK
<1>11. Cursors'
  BY <1>0, <1>1 DEF Cursors
<1>12. Window'
  <2>1. ASSUME NEW i \in Index, Forward(consumer, i) < pendingBd
        PROVE  pages'[ring[i]].used /\ ~pages'[ring[i]].consumed
    <3>1. ring[i] \in Page /\ pages[ring[i]].used /\ ~pages[ring[i]].consumed
      BY <2>1, <1>0, <1>5 DEF Window
    <3> QED
      BY <3>1, <1>2, <1>9
  <2> QED
    BY <2>1, <1>0, <1>1 DEF Window
<1>13. Unfetched'
  <2> SUFFICES ASSUME NEW i \in Index,
                      Forward(consumer, fetched) <= Forward(consumer, i),
                      Forward(consumer, i) < pendingBd
               PROVE  /\ ~pages'[ring[i]].reported
                      /\ \A j \in jobs : j.page # ring[i]
                      /\ running => ring[i] \notin Untaken'
    BY <1>1 DEF Unfetched
  <2>1. /\ ~pages[ring[i]].reported /\ ring[i] \in Page
        /\ \A j \in jobs : j.page # ring[i]
        /\ ring[i] \notin Untaken
    BY <1>0, <1>1, <1>3, <1>5 DEF Unfetched
  <2> QED
    BY <2>1, <1>7, <1>8
<1>14. AtDevice'
  BY <1>0, <1>1, <1>7, <1>8 DEF AtDevice
<1>15. InReports'
  <2>1. \A i \in taken' + 1 .. Len(rpq) : i \in taken + 1 .. Len(rpq)
    BY <1>6
  <2> QED
    BY <2>1, <1>0, <1>1, <1>7, <1>8 DEF InReports
<1>16. Draining'
  BY <1>0, <1>1 DEF Draining
<1> QED
  BY <1>4, <1>10, <1>11, <1>12, <1>13, <1>14, <1>15, <1>16 DEF TxInv

\* The reports taken leave the RPQ.
LEMMA FinishDrainKeeps ==
  ASSUME TxInv, FinishDrain
  PROVE  TxInv'
<1>1. /\ TypeOK /\ InReports /\ Unfetched /\ Draining
      /\ rpq \in Seq(Page) /\ Len(rpq) \in Nat /\ Len(rpq) < ReportCount
      /\ limit \in Nat /\ limit <= Len(rpq)
      /\ taken = limit /\ limit' = 0 /\ taken' = 0 /\ phase' = "idle"
      /\ rpq' = SubSeq(rpq, limit + 1, Len(rpq))
      /\ UNCHANGED <<pages, ring, producer, consumer, pendingBd, outstanding,
                     nextPage, leases, memory, attached, running, deviceOn,
                     host, hardware, fetched, jobs>>
  BY ConstantsAssumption
     DEF TxInv, TypeOK, Draining, FinishDrain, ledgerVars, runtimeVars
<1>2. /\ rpq' \in Seq(Page) /\ Len(rpq') = Len(rpq) - limit
      /\ \A i \in 1 .. Len(rpq') : rpq'[i] = rpq[limit + i]
  BY <1>1
<1>3. \A i \in 1 .. Len(rpq') : limit + i \in taken + 1 .. Len(rpq)
  BY <1>1, <1>2
<1>4. Untaken' \subseteq Untaken
  BY <1>1, <1>2, <1>3 DEF Untaken
<1>5. TypeOK' /\ Draining'
  BY <1>1, <1>2, ConstantsAssumption DEF TypeOK, Draining
<1>6. Unfetched'
  BY <1>1, <1>4 DEF Unfetched
<1>7. InReports'
  BY <1>1, <1>2, <1>3 DEF InReports
<1>8. Cursors' /\ Window' /\ AtDevice'
  BY <1>1 DEF TxInv, Cursors, Window, AtDevice
<1>9. Ledger'
  BY <1>1 DEF TxInv, Ledger, Used
<1> QED
  BY <1>5, <1>6, <1>7, <1>8, <1>9 DEF TxInv

----------------------------------------------------------------------------
(* Stopping. *)

\* A stop that gives nothing back.
LEMMA StopKeeps ==
  ASSUME TxInv, NEW proven \in BOOLEAN, StopRuntime(proven),
         phase' = "idle", limit' = 0, taken' = 0,
         UNCHANGED <<ledgerVars, memory, attached, deviceVars>>
  PROVE  TxInv'
<1>1. /\ running' = FALSE /\ deviceOn' = (deviceOn /\ ~proven)
      /\ UNCHANGED <<pages, ring, producer, consumer, pendingBd, outstanding,
                     nextPage, leases, memory, attached,
                     host, hardware, fetched, jobs, rpq>>
  BY DEF StopRuntime, ledgerVars, deviceVars
<1>2. deviceOn' \in BOOLEAN /\ (deviceOn' => deviceOn)
  BY <1>1 DEF TxInv, TypeOK
<1>3. TypeOK' /\ Draining'
  <2>1. TypeOK /\ Len(rpq) \in Nat
    BY DEF TxInv, TypeOK
  <2>2. limit' \in 0 .. Budget /\ taken' \in 0 .. limit'
    BY ConstantsAssumption
  <2>3. Draining'
    BY <1>1, <2>1 DEF Draining
  <2>4. TypeOK'
    BY <1>1, <1>2, <2>1, <2>2 DEF TypeOK
  <2> QED
    BY <2>3, <2>4
<1>4. Cursors' /\ Window' /\ AtDevice' /\ InReports' /\ Unfetched'
  BY <1>1, <1>2
     DEF TxInv, Cursors, Window, AtDevice, InReports, Unfetched
<1>5. Ledger'
  BY <1>1 DEF TxInv, Ledger, Used
<1> QED
  BY <1>3, <1>4, <1>5 DEF TxInv

\* A fault stops the runtime.
LEMMA FaultKeeps ==
  ASSUME TxInv, NEW proven \in BOOLEAN, Fault(proven)
  PROVE  TxInv'
  BY StopKeeps DEF Fault

\* shutdown() stops the runtime and, when the stop is proven, gives all back.
LEMMA ShutdownKeeps ==
  ASSUME TxInv, NEW proven \in BOOLEAN, NEW backend \in BOOLEAN,
         Shutdown(proven, backend)
  PROVE  TxInv'
<1> USE ConstantsAssumption
<1>1. CASE ~MayReclaim(proven, backend)
  BY <1>1, StopKeeps DEF Shutdown
<1>2. CASE MayReclaim(proven, backend)
  <2>1. /\ pages' = [p \in Page |-> EmptySlot]
        /\ leases' = [p \in Page |-> NoFrame]
        /\ memory' = [p \in Page |-> NoFrame]
        /\ producer' = 0 /\ consumer' = 0 /\ pendingBd' = 0
        /\ outstanding' = 0 /\ nextPage' = 0 /\ attached' = FALSE
        /\ running' = FALSE /\ deviceOn' = FALSE
        /\ phase' = "idle" /\ limit' = 0 /\ taken' = 0
        /\ UNCHANGED <<ring, host, hardware, fetched, jobs, rpq>>
    BY <1>2 DEF Shutdown, MayReclaim, StopRuntime, deviceVars, TxInv, TypeOK
  <2>2. TypeOK'
    <3>1. TypeOK
      BY DEF TxInv
    <3>2. /\ pages' \in [Page -> Slot]
          /\ leases' \in [Page -> Frame \cup {NoFrame}]
          /\ memory' \in [Page -> Frame \cup {NoFrame}]
      BY <2>1 DEF Slot, EmptySlot
    <3>3. /\ producer' \in Index /\ consumer' \in Index /\ nextPage' \in Page
          /\ pendingBd' \in 0 .. Count - 1 /\ outstanding' \in 0 .. Count
          /\ limit' \in 0 .. Budget /\ taken' \in 0 .. limit'
      BY <2>1 DEF Index, Page
    <3> QED
      BY <2>1, <3>1, <3>2, <3>3 DEF TypeOK
  <2>3. Used' = {}
    BY <2>1 DEF Used, EmptySlot
  <2>4. Ledger'
    BY <2>1, <2>3, FS_EmptySet DEF Ledger, EmptySlot
  <2>5. \A i \in Index : ~(Forward(consumer', i) < pendingBd')
    BY <2>1, ForwardIndex DEF Index
  <2>6. Cursors'
    BY <2>1 DEF Cursors, Forward
  <2> QED
    BY <2>1, <2>2, <2>4, <2>5, <2>6
       DEF TxInv, Window, Unfetched, AtDevice, InReports, Draining, TypeOK
<1> QED
  BY <1>1, <1>2

----------------------------------------------------------------------------
(* The device. *)

\* What the cursors say, with the distances typed.
LEMMA CursorsOrdered ==
  ASSUME TxInv, deviceOn
  PROVE  /\ consumer \in Index /\ hardware \in Index /\ fetched \in Index
         /\ host \in Index /\ producer \in Index
         /\ pendingBd \in Nat /\ pendingBd < Count
         /\ \A i \in Index : Forward(consumer, i) \in 0 .. Count - 1
         /\ Forward(consumer, hardware) <= Forward(consumer, fetched)
         /\ Forward(consumer, fetched) <= Forward(consumer, host)
         /\ Forward(consumer, host) <= pendingBd
<1>1. /\ consumer \in Index /\ hardware \in Index /\ fetched \in Index
      /\ host \in Index /\ producer \in Index
      /\ pendingBd \in Nat /\ pendingBd < Count
  BY ConstantsAssumption DEF TxInv, TypeOK
<1> QED
  BY <1>1, ForwardIndex DEF TxInv, Cursors

\* A device step leaves the ledger alone.
LEMMA DeviceKeepsLedger ==
  ASSUME TxInv, UNCHANGED <<pages, ring, consumer, pendingBd, outstanding,
                            leases, memory>>
  PROVE  Ledger' /\ Window'
  BY DEF TxInv, Ledger, Used, Window

\* The device takes a descriptor and the page behind it.
LEMMA FetchKeeps ==
  ASSUME TxInv, Fetch
  PROVE  TxInv'
<1> USE ConstantsAssumption
<1>0. TypeOK /\ Cursors /\ Window /\ Unfetched /\ AtDevice /\ InReports /\ Ledger
      /\ Draining
  BY DEF TxInv
<1> DEFINE p == ring[fetched]
           new == [page |-> p, frame |-> memory[p]]
<1>1. /\ deviceOn /\ fetched # host
      /\ jobs' = jobs \cup {new}
      /\ fetched' = (fetched + 1) % Count
      /\ UNCHANGED <<pages, ring, producer, consumer, pendingBd, outstanding,
                     nextPage, leases, memory, attached, phase, limit, taken,
                     running, deviceOn, host, hardware, rpq>>
  BY DEF Fetch, hostVars, ledgerVars, runtimeVars
<1>2. /\ consumer \in Index /\ hardware \in Index /\ fetched \in Index
      /\ host \in Index /\ pendingBd \in Nat /\ pendingBd < Count
      /\ \A i \in Index : Forward(consumer, i) \in 0 .. Count - 1
      /\ Forward(consumer, hardware) <= Forward(consumer, fetched)
      /\ Forward(consumer, fetched) <= Forward(consumer, host)
      /\ Forward(consumer, host) <= pendingBd
  BY <1>1, CursorsOrdered
<1>3. Forward(consumer, fetched) < Forward(consumer, host)
      /\ Forward(consumer, fetched) < pendingBd
  BY <1>1, <1>2, ForwardInjective
<1>4. fetched' \in Index
      /\ Forward(consumer, fetched') = Forward(consumer, fetched) + 1
  <2>1. fetched' = After(fetched) /\ fetched' \in Index
    BY <1>1, <1>2, AfterIs
  <2>2. Forward(consumer, fetched) < Count - 1
    BY <1>2, <1>3
  <2> QED
    BY <2>1, <2>2, <1>2, ForwardAfter
\* The page is in use, unreported and known to no job or report yet.
<1>5. /\ p \in Page /\ pages[p].used /\ ~pages[p].reported
      /\ \A j \in jobs : j.page # p
      /\ running => p \notin Untaken
  <2>1. Forward(consumer, fetched) <= Forward(consumer, fetched)
    BY <1>2
  <2>2. p \in Page
    BY <1>0, <1>2 DEF TypeOK
  <2> QED
    BY <2>1, <2>2, <1>0, <1>1, <1>2, <1>3 DEF Window, Unfetched
<1>6. /\ new.page = p /\ new.frame = leases[p] /\ new \in Job
  BY <1>0, <1>5 DEF Job, TypeOK, Ledger
<1> HIDE DEF new
<1>7. TypeOK'
  <2>1. jobs' \subseteq Job
    BY <1>0, <1>1, <1>6 DEF TypeOK
  <2> QED
    BY <2>1, <1>0, <1>1, <1>4 DEF TypeOK
<1>8. Cursors'
  <2>1. /\ Forward(consumer, hardware) <= Forward(consumer, fetched')
        /\ Forward(consumer, fetched') <= Forward(consumer, host)
    BY <1>2, <1>3, <1>4
  <2> QED
    BY <2>1, <1>0, <1>1 DEF Cursors
<1>9. Ledger' /\ Window' /\ Draining'
  BY <1>0, <1>1, DeviceKeepsLedger DEF Draining
<1>10. Untaken' = Untaken
  BY <1>1 DEF Untaken
<1>11. Unfetched'
  <2> SUFFICES ASSUME NEW i \in Index,
                      Forward(consumer, fetched') <= Forward(consumer, i),
                      Forward(consumer, i) < pendingBd
               PROVE  /\ ~pages[ring[i]].reported
                      /\ \A j \in jobs' : j.page # ring[i]
                      /\ running => ring[i] \notin Untaken
    BY <1>1, <1>10 DEF Unfetched
  <2>1. Forward(consumer, fetched) <= Forward(consumer, i) /\ i # fetched
    BY <1>2, <1>4
  <2>2. /\ ~pages[ring[i]].reported
        /\ \A j \in jobs : j.page # ring[i]
        /\ running => ring[i] \notin Untaken
    BY <2>1, <1>0, <1>1 DEF Unfetched
  <2>3. ring[i] # p
    BY <2>1, <1>0, <1>2, <1>3 DEF Window
  <2> QED
    BY <2>2, <2>3, <1>1, <1>6
<1> HIDE DEF p
<1>12. AtDevice'
  BY <1>0, <1>1, <1>5, <1>6 DEF AtDevice
<1>13. InReports'
  BY <1>0, <1>1, <1>5, <1>6 DEF InReports, Untaken
<1> QED
  BY <1>7, <1>8, <1>9, <1>11, <1>12, <1>13 DEF TxInv

\* The device publishes its index.
LEMMA RetireKeeps ==
  ASSUME TxInv, Retire
  PROVE  TxInv'
<1>1. /\ deviceOn /\ hardware # fetched
      /\ hardware' = (hardware + 1) % Count
      /\ UNCHANGED <<pages, ring, producer, consumer, pendingBd, outstanding,
                     nextPage, leases, memory, attached, phase, limit, taken,
                     running, deviceOn, host, fetched, jobs, rpq>>
  BY DEF Retire, hostVars, ledgerVars, runtimeVars
<1>2. /\ consumer \in Index /\ hardware \in Index /\ fetched \in Index
      /\ host \in Index /\ pendingBd \in Nat /\ pendingBd < Count
      /\ \A i \in Index : Forward(consumer, i) \in 0 .. Count - 1
      /\ Forward(consumer, hardware) <= Forward(consumer, fetched)
      /\ Forward(consumer, fetched) <= Forward(consumer, host)
      /\ Forward(consumer, host) <= pendingBd
  BY <1>1, CursorsOrdered
<1>3. Forward(consumer, hardware) < Forward(consumer, fetched)
  BY <1>1, <1>2, ForwardInjective
<1>4. hardware' \in Index
      /\ Forward(consumer, hardware') <= Forward(consumer, fetched)
  <2>1. hardware' = After(hardware) /\ hardware' \in Index
    BY <1>1, <1>2, AfterIs
  <2>2. Forward(consumer, hardware) < Count - 1
    BY <1>2, <1>3, ConstantsAssumption
  <2>3. Forward(consumer, hardware') = Forward(consumer, hardware) + 1
    BY <2>1, <2>2, <1>2, ForwardAfter
  <2> QED
    BY <2>1, <2>3, <1>2, <1>3, ConstantsAssumption
<1>5. TypeOK' /\ Draining'
  BY <1>1, <1>4 DEF TxInv, TypeOK, Draining
<1>6. Cursors'
  BY <1>1, <1>4 DEF TxInv, Cursors
<1>7. Ledger' /\ Window'
  BY <1>1, DeviceKeepsLedger
<1>8. Unfetched' /\ AtDevice' /\ InReports'
  BY <1>1 DEF TxInv, Unfetched, AtDevice, InReports, Untaken
<1> QED
  BY <1>5, <1>6, <1>7, <1>8 DEF TxInv

\* The device is done with a page and says so.
LEMMA ReportKeeps ==
  ASSUME TxInv, NEW p \in Page, Report(p)
  PROVE  TxInv'
<1> USE ConstantsAssumption
<1>0. TypeOK /\ Cursors /\ Window /\ Unfetched /\ AtDevice /\ InReports /\ Ledger
      /\ Draining
  BY DEF TxInv
<1>1. /\ deviceOn /\ Len(rpq) < ReportCount - 1
      /\ rpq' = Append(rpq, p)
      /\ UNCHANGED <<pages, ring, producer, consumer, pendingBd, outstanding,
                     nextPage, leases, memory, attached, phase, limit, taken,
                     running, deviceOn, host, hardware, fetched>>
  BY DEF Report, hostVars, ledgerVars, runtimeVars
<1>2. PICK j \in jobs : j.page = p /\ jobs' = jobs \ {j}
  BY DEF Report
<1>3. /\ rpq \in Seq(Page) /\ Len(rpq) \in Nat /\ taken \in Nat
      /\ limit \in Nat /\ taken <= limit /\ limit <= Len(rpq)
  BY <1>0 DEF TypeOK, Draining
<1>4. /\ rpq' \in Seq(Page) /\ Len(rpq') = Len(rpq) + 1
      /\ rpq'[Len(rpq) + 1] = p
      /\ \A i \in 1 .. Len(rpq) : rpq'[i] = rpq[i]
  BY <1>1, <1>3
<1>5. \A i \in taken + 1 .. Len(rpq') :
        \/ i = Len(rpq) + 1 /\ rpq'[i] = p
        \/ i \in taken + 1 .. Len(rpq) /\ rpq'[i] = rpq[i]
  BY <1>3, <1>4
<1>6. /\ pages[p].used /\ ~pages[p].reported
      /\ \A k \in jobs' : k.page # p /\ k \in jobs
  BY <1>0, <1>1, <1>2 DEF AtDevice
<1>7. running => p \notin Untaken
  BY <1>0, <1>2 DEF InReports, Untaken
<1>8. TypeOK'
  <2>1. jobs' \subseteq Job /\ Len(rpq') < ReportCount
    BY <1>0, <1>1, <1>2, <1>3, <1>4 DEF TypeOK
  <2> QED
    BY <2>1, <1>0, <1>1, <1>4 DEF TypeOK
<1>9. Draining'
  BY <1>0, <1>1, <1>3, <1>4 DEF Draining
<1>10. Cursors'
  BY <1>0, <1>1 DEF Cursors
<1>11. Ledger' /\ Window'
  BY <1>1, DeviceKeepsLedger
<1>12. Untaken' \subseteq Untaken \cup {p}
  BY <1>1, <1>5 DEF Untaken
<1>13. Unfetched'
  BY <1>0, <1>1, <1>2, <1>6, <1>12 DEF Unfetched
<1>14. AtDevice'
  BY <1>0, <1>1, <1>6 DEF AtDevice
<1>15. InReports'
  <2> SUFFICES ASSUME running
               PROVE  /\ \A i \in taken + 1 .. Len(rpq') :
                           /\ pages[rpq'[i]].used /\ ~pages[rpq'[i]].reported
                           /\ \A k \in jobs' : k.page # rpq'[i]
                      /\ \A i, k \in taken + 1 .. Len(rpq') :
                           rpq'[i] = rpq'[k] => i = k
    BY <1>1 DEF InReports
  <2>1. \A i \in taken + 1 .. Len(rpq) : rpq[i] # p
    BY <1>7 DEF Untaken
  <2> QED
    BY <2>1, <1>0, <1>5, <1>6 DEF InReports
<1> QED
  BY <1>8, <1>9, <1>10, <1>11, <1>13, <1>14, <1>15 DEF TxInv

----------------------------------------------------------------------------
(* The theorems. *)

\* Every step of driver and device keeps the invariant.
LEMMA TxStep == TxInv /\ [Next]_vars => TxInv'
<1> SUFFICES ASSUME TxInv, [Next]_vars PROVE TxInv'
  OBVIOUS
<1>1. ASSUME NEW f \in Frame, Submit(f) PROVE TxInv'
  BY <1>1, SubmitKeeps
<1>2. ASSUME NEW f \in Frame, NEW seen \in BOOLEAN, NEW proven \in BOOLEAN,
             SubmitFails(f, seen, proven)
      PROVE  TxInv'
  BY <1>2, SubmitFailsKeeps
<1>3. CASE ConsumeTo
  BY <1>3, ConsumeToKeeps
<1>4. CASE PollReports
  BY <1>4, PollReportsKeeps
<1>5. CASE TakeReport
  BY <1>5, TakeReportKeeps
<1>6. CASE FinishDrain
  BY <1>6, FinishDrainKeeps
<1>7. ASSUME NEW proven \in BOOLEAN, Fault(proven) PROVE TxInv'
  BY <1>7, FaultKeeps
<1>8. ASSUME NEW proven \in BOOLEAN, NEW backend \in BOOLEAN,
             Shutdown(proven, backend)
      PROVE  TxInv'
  BY <1>8, ShutdownKeeps
<1>9. CASE Fetch
  BY <1>9, FetchKeeps
<1>10. CASE Retire
  BY <1>10, RetireKeeps
<1>11. ASSUME NEW p \in Page, Report(p) PROVE TxInv'
  BY <1>11, ReportKeeps
<1>12. CASE UNCHANGED vars
  <2>1. UNCHANGED <<pages, ring, producer, consumer, pendingBd, outstanding,
                    nextPage, leases, memory, attached, phase, limit, taken,
                    running, deviceOn, host, hardware, fetched, jobs, rpq>>
    BY <1>12 DEF vars, hostVars, ledgerVars, runtimeVars, deviceVars
  <2> QED
    BY <2>1 DEF TxInv, TypeOK, Cursors, Window, Unfetched, Ledger, AtDevice,
                InReports, Draining, Untaken, Used
<1> QED
  BY <1>1, <1>2, <1>3, <1>4, <1>5, <1>6, <1>7, <1>8, <1>9, <1>10, <1>11, <1>12
     DEF Next

\* In every behaviour of the queue the invariant holds throughout.
LEMMA TxAlways == Spec => []TxInv
  BY TxInit, TxStep, PTL DEF Spec

\* The transmit queue's cursors, counts and pages stay in their ranges,
\* whatever the sizes of ring, RPQ and budget.
THEOREM TxTypes == Spec => []TypeOK
<1>1. TxInv => TypeOK
  BY DEF TxInv
<1> QED
  BY <1>1, TxAlways, PTL

\* Driver and device never disturb each other: no page is restaged under a
\* job of the device, and consumedTo(), report() and publish() never refuse
\* what a correct device does or is told.
THEOREM RingAlwaysSound == Spec => []RingSound
<1>1. TxInv => JobsUndisturbed
  <2> SUFFICES ASSUME TxInv, deviceOn
               PROVE  /\ \A j \in jobs : /\ memory[j.page] = j.frame
                                         /\ leases[j.page] = j.frame
                                         /\ j.frame # NoFrame
                      /\ \A j, k \in jobs : j.page = k.page => j = k
    BY DEF JobsUndisturbed
  <2>1. \A j \in jobs : j.page \in Page
    BY DEF TxInv, TypeOK, Job
  <2> QED
    BY <2>1 DEF TxInv, AtDevice, Ledger
<1>2. TxInv => DeviceNeverRefused
  <2> SUFFICES ASSUME TxInv, running
               PROVE  /\ Distance(consumer, hardware) <= pendingBd
                      /\ \A i \in taken + 1 .. Len(rpq) :
                           ReportAcceptable(rpq[i])
                      /\ \A i, j \in taken + 1 .. Len(rpq) :
                           rpq[i] = rpq[j] => i = j
                      /\ ~Full => Distance(host, (producer + 1) % Count) = 1
                                  /\ (producer + 1) % Count # hardware
    BY DEF DeviceNeverRefused
  <2> USE ConstantsAssumption
  <2>1. deviceOn /\ host = producer /\ Forward(consumer, producer) = pendingBd
    BY DEF TxInv, Cursors
  <2>2. /\ consumer \in Index /\ hardware \in Index /\ fetched \in Index
        /\ host \in Index /\ producer \in Index
        /\ pendingBd \in Nat /\ pendingBd < Count
        /\ \A i \in Index : Forward(consumer, i) \in 0 .. Count - 1
        /\ Forward(consumer, hardware) <= Forward(consumer, fetched)
        /\ Forward(consumer, fetched) <= Forward(consumer, host)
        /\ Forward(consumer, host) <= pendingBd
    BY <2>1, CursorsOrdered
  <2>3. Distance(consumer, hardware) <= pendingBd
    BY <2>2, DistanceIs
  <2>4. /\ \A i \in taken + 1 .. Len(rpq) : ReportAcceptable(rpq[i])
        /\ \A i, j \in taken + 1 .. Len(rpq) : rpq[i] = rpq[j] => i = j
    BY DEF TxInv, InReports, ReportAcceptable
  <2>5. ASSUME ~Full
        PROVE  /\ Distance(host, (producer + 1) % Count) = 1
               /\ (producer + 1) % Count # hardware
    <3>1. pendingBd < Count - 1
      BY <2>2, <2>5 DEF Full
    <3>2. (producer + 1) % Count = After(producer) /\ After(producer) \in Index
      BY <2>2, AfterIs
    <3>3. Forward(producer, After(producer)) = 1
      BY <2>2 DEF Forward, After, Index
    <3>4. Forward(consumer, After(producer)) = pendingBd + 1
      BY <2>1, <2>2, <3>1, ForwardAfter
    <3>5. After(producer) # hardware
      BY <2>2, <3>4
    <3> QED
      BY <2>1, <2>2, <3>2, <3>3, <3>5, DistanceIs
  <2> QED
    BY <2>3, <2>4, <2>5
<1>3. TxInv => RingSound
  BY <1>1, <1>2 DEF RingSound
<1> QED
  BY <1>3, TxAlways, PTL

\* The pages the device may still read are in use, unreported or not yet
\* consumed, and hold the leased frame.
LEMMA ExposedInUse ==
  ASSUME TxInv
  PROVE  /\ Exposed \subseteq Page
         /\ \A p \in Exposed : pages[p].used
<1> SUFFICES ASSUME deviceOn
             PROVE  \A p \in Exposed : p \in Page /\ pages[p].used
  BY DEF Exposed
<1> USE ConstantsAssumption
<1>1. /\ consumer \in Index /\ hardware \in Index /\ fetched \in Index
      /\ host \in Index /\ pendingBd \in Nat
      /\ \A i \in Index : Forward(consumer, i) \in 0 .. Count - 1
      /\ \A i \in Index : Forward(hardware, i) \in 0 .. Count - 1
      /\ Forward(consumer, hardware) <= Forward(consumer, host)
      /\ Forward(consumer, host) <= pendingBd /\ pendingBd < Count
  BY CursorsOrdered, ForwardIndex
<1>2. ASSUME NEW p \in Between(hardware, host)
      PROVE  p \in Page /\ pages[p].used
  <2>1. PICK i \in Ahead(hardware, host) : p = ring[i]
    BY <1>1, BetweenIs
  <2>2. i \in Index /\ Forward(hardware, i) < Forward(hardware, host)
    BY DEF Ahead
  <2>3. Forward(hardware, host)
          = Forward(consumer, host) - Forward(consumer, hardware)
    BY <1>1, ForwardSplit
  <2>4. Forward(consumer, hardware) + Forward(hardware, i) < Count
    BY <1>1, <2>2, <2>3
  <2>5. Forward(consumer, i) = Forward(consumer, hardware) + Forward(hardware, i)
    BY <1>1, <2>2, <2>4, ForwardJoin
  <2>6. Forward(consumer, i) < pendingBd
    BY <1>1, <2>2, <2>3, <2>5
  <2> QED
    BY <2>1, <2>2, <2>6 DEF TxInv, Window, TypeOK
<1>3. ASSUME NEW j \in jobs
      PROVE  j.page \in Page /\ pages[j.page].used
  BY DEF TxInv, TypeOK, AtDevice, Job
<1> QED
  BY <1>2, <1>3 DEF Exposed

\* dataDrained(): with nothing outstanding the device refers to no page, no
\* lease is held and no report is owed.
THEOREM DrainedIsQuiet == Spec => []DrainedMeansQuiet
<1>1. TxInv => DrainedMeansQuiet
  <2> SUFFICES ASSUME TxInv, running, outstanding = 0
               PROVE  Exposed = {} /\ Held = {} /\ taken = Len(rpq)
    BY DEF DrainedMeansQuiet
  <2>1. Used = {}
    <3>1. Cardinality(Used) = 0 /\ Used \in SUBSET Page
      BY DEF TxInv, Ledger, Used
    <3> QED
      BY <3>1, PagesFinite, FS_EmptySet
  <2>2. Exposed = {}
    BY <2>1, ExposedInUse DEF Used
  <2>3. Held = {}
    BY <2>1 DEF TxInv, Ledger, Held, Used
  <2>4. /\ rpq \in Seq(Page) /\ Len(rpq) \in Nat /\ taken \in Nat
        /\ taken <= Len(rpq)
    BY ConstantsAssumption DEF TxInv, TypeOK, Draining
  <2>5. ASSUME taken # Len(rpq) PROVE FALSE
    <3>1. taken + 1 \in taken + 1 .. Len(rpq) /\ taken + 1 \in 1 .. Len(rpq)
      BY <2>4, <2>5
    <3>2. rpq[taken + 1] \in Page
      BY <2>4, <3>1
    <3> QED
      BY <2>1, <3>1, <3>2 DEF TxInv, InReports, Used
  <2> QED
    BY <2>2, <2>3, <2>5
<1> QED
  BY <1>1, TxAlways, PTL

----------------------------------------------------------------------------
(* The queue implements FrameLease. *)

HeldFrames    == {leases[p] : p \in Held}
ExposedFrames == {memory[p] : p \in Exposed}

\* A step that FrameLease allows, in this module's terms.
LeaseStep ==
  \/ \E f \in Frame :
       /\ f \notin HeldFrames
       /\ HeldFrames' = HeldFrames \cup {f}
       /\ \/ /\ ExposedFrames' \in {ExposedFrames, ExposedFrames \cup {f}}
             /\ deviceOn' = deviceOn
          \/ ExposedFrames' = {} /\ deviceOn' = FALSE
  \/ \E f \in Frame :
       /\ f \in ExposedFrames
       /\ ExposedFrames' = ExposedFrames \ {f}
       /\ HeldFrames' = HeldFrames /\ deviceOn' = deviceOn
  \/ \E frames \in SUBSET HeldFrames :
       /\ frames \cap ExposedFrames = {}
       /\ HeldFrames' = HeldFrames \ frames
       /\ ExposedFrames' = ExposedFrames /\ deviceOn' = deviceOn
  \/ /\ deviceOn' = FALSE /\ ExposedFrames' = {}
     /\ HeldFrames' \in {HeldFrames, {}}
  \/ UNCHANGED <<HeldFrames, ExposedFrames, deviceOn>>

\* The two forms agree.
LEMMA LeaseStepMaps ==
  ASSUME LeaseStep, deviceOn \in BOOLEAN, deviceOn' \in BOOLEAN
  PROVE  [Leases!Next]_(Leases!leaseVars)
  BY DEF LeaseStep, Leases!Next, Leases!Accept, Leases!Finish,
         Leases!GiveBack, Leases!Halt, Leases!leaseVars, HeldFrames,
         ExposedFrames

\* Nothing is held or exposed at first.
LEMMA LeaseInit == Init => Leases!Init
<1> SUFFICES ASSUME Init PROVE Leases!Init
  OBVIOUS
<1>1. Held = {} /\ deviceOn
  BY DEF Init, Held
<1>2. TxInv /\ Used = {}
  BY TxInit DEF Init, Used, EmptySlot
<1>3. Exposed = {}
  BY <1>2, ExposedInUse DEF Used
<1> QED
  BY <1>1, <1>3 DEF Leases!Init

\* The exposed pages, in the ring's own terms; descriptors ahead of the
\* device are in the ledger's window.
LEMMA ExposedIs ==
  ASSUME TxInv, deviceOn
  PROVE  /\ Exposed = {ring[i] : i \in Ahead(hardware, host)}
                        \cup {j.page : j \in jobs}
         /\ \A i \in Ahead(hardware, host) :
              /\ i \in Index
              /\ Forward(consumer, hardware) <= Forward(consumer, i)
              /\ Forward(consumer, i) < Forward(consumer, host)
              /\ Forward(consumer, i) < pendingBd
<1> USE ConstantsAssumption
<1>1. /\ consumer \in Index /\ hardware \in Index /\ fetched \in Index
      /\ host \in Index /\ pendingBd \in Nat
      /\ \A i \in Index : Forward(consumer, i) \in 0 .. Count - 1
      /\ \A i \in Index : Forward(hardware, i) \in 0 .. Count - 1
      /\ Forward(consumer, hardware) <= Forward(consumer, host)
      /\ Forward(consumer, host) <= pendingBd /\ pendingBd < Count
  BY CursorsOrdered, ForwardIndex
<1>2. Exposed = {ring[i] : i \in Ahead(hardware, host)}
                  \cup {j.page : j \in jobs}
  BY <1>1, BetweenIs DEF Exposed
<1>3. ASSUME NEW i \in Ahead(hardware, host)
      PROVE  /\ i \in Index
             /\ Forward(consumer, hardware) <= Forward(consumer, i)
             /\ Forward(consumer, i) < Forward(consumer, host)
             /\ Forward(consumer, i) < pendingBd
  <2>1. i \in Index /\ Forward(hardware, i) < Forward(hardware, host)
    BY DEF Ahead
  <2>2. Forward(hardware, host)
          = Forward(consumer, host) - Forward(consumer, hardware)
    BY <1>1, ForwardSplit
  <2>3. Forward(consumer, hardware) + Forward(hardware, i) < Count
    BY <1>1, <2>1, <2>2
  <2>4. Forward(consumer, i) = Forward(consumer, hardware) + Forward(hardware, i)
    BY <1>1, <2>1, <2>3, ForwardJoin
  <2> QED
    BY <1>1, <2>1, <2>2, <2>4
<1> QED
  BY <1>2, <1>3

\* A device step that gives up a page, or keeps it for another reason, is
\* Finish or nothing.
LEMMA FinishLeases ==
  ASSUME TxInv, UNCHANGED <<leases, memory, deviceOn>>,
         NEW p \in Exposed, Exposed' \in {Exposed, Exposed \ {p}}
  PROVE  LeaseStep
<1>1. /\ Exposed \subseteq Page /\ \A q \in Exposed : pages[q].used
  BY ExposedInUse
<1>2. HeldFrames' = HeldFrames
  BY DEF HeldFrames, Held
<1>3. CASE Exposed' = Exposed
  BY <1>2, <1>3 DEF LeaseStep, ExposedFrames
<1>4. CASE Exposed' = Exposed \ {p}
  <2>1. /\ memory[p] \in Frame
        /\ \A q \in Exposed : memory[q] = memory[p] => q = p
    BY <1>1 DEF TxInv, TypeOK, Ledger
  <2>2. ExposedFrames' = ExposedFrames \ {memory[p]}
        /\ memory[p] \in ExposedFrames
    BY <1>4, <2>1 DEF ExposedFrames
  <2> QED
    BY <1>2, <2>1, <2>2 DEF LeaseStep
<1> QED
  BY <1>3, <1>4

\* drainCompletions() is GiveBack when no exposed page is ready.
LEMMA DrainLeases ==
  ASSUME TxInv, UNCHANGED <<memory, deviceOn>>, Exposed' = Exposed,
         NEW now \in [Page -> Slot],
         \A p \in Page : now[p].used <=> pages[p].used,
         \A p \in Exposed : ~Ready(now[p]),
         DrainCompletions(now)
  PROVE  LeaseStep
<1> DEFINE done == {p \in Page : Ready(now[p])}
           frames == {leases[p] : p \in done}
<1>1. TypeOK /\ Ledger
  BY DEF TxInv
<1>2. /\ \A p \in Page : p \notin done => leases'[p] = leases[p]
      /\ \A p \in Page : p \in done => leases'[p] = NoFrame
  BY <1>1, DrainMoves
<1>3. done \subseteq Held
  BY <1>1 DEF Ready, Ledger, Held
<1>4. /\ Exposed \subseteq Page /\ \A q \in Exposed : pages[q].used
  BY ExposedInUse
<1>5. \A p \in Exposed : /\ p \in Page /\ p \notin done
                         /\ memory[p] = leases[p] /\ leases[p] # NoFrame
  BY <1>1, <1>4 DEF Ledger
<1>6. \A p, q \in Page : leases[p] = leases[q] /\ leases[p] # NoFrame => p = q
  BY <1>1 DEF Ledger
<1> HIDE DEF done
<1>7. Held' = Held \ done
  BY <1>2 DEF Held
<1>8. frames \cap ExposedFrames = {}
  BY <1>3, <1>5, <1>6 DEF ExposedFrames, Held
<1>9. HeldFrames' = HeldFrames \ frames
  BY <1>2, <1>3, <1>6, <1>7 DEF HeldFrames, Held
<1>10. frames \in SUBSET HeldFrames
  BY <1>3 DEF HeldFrames
<1>11. ExposedFrames' = ExposedFrames
  BY DEF ExposedFrames
<1> HIDE DEF frames
<1> QED
  BY <1>8, <1>9, <1>10, <1>11 DEF LeaseStep

\* A stop, proven or not, that gives back nothing or everything.
LEMMA StopLeases ==
  ASSUME TxInv, NEW proven \in BOOLEAN, StopRuntime(proven),
         UNCHANGED deviceVars,
         \/ UNCHANGED <<leases, memory, ring>>
         \/ proven /\ leases' = [p \in Page |-> NoFrame]
  PROVE  LeaseStep
<1>1. deviceOn' = (deviceOn /\ ~proven) /\ deviceOn \in BOOLEAN
  BY DEF StopRuntime, TxInv, TypeOK
<1>2. CASE proven
  <2>1. deviceOn' = FALSE
    BY <1>1, <1>2
  <2>2. ExposedFrames' = {}
    BY <2>1 DEF ExposedFrames, Exposed
  <2>3. HeldFrames' \in {HeldFrames, {}}
    BY DEF HeldFrames, Held
  <2> QED
    BY <2>1, <2>2, <2>3 DEF LeaseStep
<1>3. CASE ~proven
  <2>1. /\ UNCHANGED <<leases, memory, ring, host, hardware, jobs>>
        /\ deviceOn' = deviceOn
    BY <1>1, <1>3 DEF deviceVars
  <2>2. HeldFrames' = HeldFrames /\ ExposedFrames' = ExposedFrames
    BY <2>1 DEF HeldFrames, Held, ExposedFrames, Exposed, Between
  <2> QED
    BY <2>1, <2>2 DEF LeaseStep
<1> QED
  BY <1>2, <1>3

\* A staged frame is Accept.
LEMMA StageLeases ==
  ASSUME NEW f \in Frame, TxInv, TxInv', running, ~Full, Stage(f, FreePage),
         \A p \in Page : leases[p] # f,
         host' \in {host, producer'},
         UNCHANGED <<hardware, jobs>>, deviceOn' \in BOOLEAN
  PROVE  LeaseStep
<1> USE ConstantsAssumption
<1> DEFINE p == FreePage
<1>1. /\ p \in Page /\ ~pages[p].used
      /\ pendingBd \in Nat /\ pendingBd < Count - 1
      /\ producer' = After(producer) /\ producer' \in Index
      /\ Forward(consumer, producer) = pendingBd
      /\ Forward(consumer, producer') = pendingBd + 1
  BY StageMoves
<1>2. /\ memory' = [memory EXCEPT ![p] = f]
      /\ leases' = [leases EXCEPT ![p] = f]
      /\ ring' = [ring EXCEPT ![producer] = p]
      /\ consumer' = consumer
  BY DEF Stage
<1> HIDE DEF p
<1>3. /\ deviceOn /\ host = producer
      /\ producer \in Index /\ consumer \in Index /\ hardware \in Index
      /\ leases \in [Page -> Frame \cup {NoFrame}]
      /\ memory \in [Page -> Frame \cup {NoFrame}]
      /\ ring \in [Index -> Page] /\ f # NoFrame
  BY DEF TxInv, TypeOK, Cursors
<1>4. f \notin HeldFrames /\ HeldFrames' = HeldFrames \cup {f}
  <2>1. leases[p] = NoFrame
    BY <1>1 DEF TxInv, Ledger
  <2>2. Held' = Held \cup {p} /\ p \notin Held
    BY <1>1, <1>2, <1>3, <2>1 DEF Held
  <2>3. \A q \in Held : leases'[q] = leases[q]
    BY <1>2, <1>3, <2>2 DEF Held
  <2>4. leases'[p] = f
    BY <1>1, <1>2, <1>3
  <2>5. f \notin HeldFrames
    BY DEF HeldFrames, Held
  <2> QED
    BY <2>2, <2>3, <2>4, <2>5 DEF HeldFrames
<1>5. CASE ~deviceOn'
  <2>1. ExposedFrames' = {} /\ deviceOn' = FALSE
    BY <1>5 DEF ExposedFrames, Exposed
  <2> QED
    BY <2>1, <1>4 DEF LeaseStep
<1>6. CASE deviceOn'
  <2>1. /\ Exposed = {ring[i] : i \in Ahead(hardware, host)}
                       \cup {j.page : j \in jobs}
        /\ \A i \in Ahead(hardware, host) :
             i \in Index /\ Forward(consumer, i) < pendingBd
    BY <1>3, ExposedIs
  <2>2. Exposed' = {ring'[i] : i \in Ahead(hardware, host')}
                     \cup {j.page : j \in jobs}
    <3>1. Exposed' = Between(hardware, host)' \cup {j.page : j \in jobs}
      BY <1>6 DEF Exposed
    <3>2. hardware \in Index /\ host' \in Index
      BY <1>1, <1>3
    <3>3. Between(hardware, host)' = {ring'[i] : i \in Ahead(hardware, host')}
      <4>1. Between(hardware, host)'
              = {ring'[(hardware + n) % Count] : n \in 0 .. Distance(hardware, host') - 1}
        BY DEF Between, Distance
      <4>2. {(hardware + n) % Count : n \in 0 .. Distance(hardware, host') - 1}
              = Ahead(hardware, host')
        BY <3>2, AheadIs
      <4> QED
        BY <4>1, <4>2
    <3> QED
      BY <3>1, <3>3
  <2>3. p \notin Exposed /\ Exposed \subseteq Page
    BY <1>1, ExposedInUse
  <2>4. \A i \in Ahead(hardware, host) : ring'[i] = ring[i]
    <3>1. \A i \in Ahead(hardware, host) : i # producer
      BY <1>1, <2>1
    <3> QED
      BY <3>1, <2>1, <1>2, <1>3
  <2>5. Exposed' \in {Exposed, Exposed \cup {p}}
    <3>1. CASE host' = host
      BY <3>1, <2>1, <2>2, <2>4
    <3>2. CASE host' = producer'
      <4>1. Ahead(hardware, producer') = Ahead(hardware, host) \cup {producer}
        <5>1. Forward(consumer, hardware) <= pendingBd
          BY StageMoves
        <5>2. /\ \A i \in Index : Forward(consumer, i) \in 0 .. Count - 1
              /\ \A i \in Index : Forward(hardware, i) \in 0 .. Count - 1
          BY <1>3, ForwardIndex
        <5>3. Forward(hardware, producer)
                = pendingBd - Forward(consumer, hardware)
          BY <1>1, <1>3, <5>1, ForwardSplit
        <5>4. Forward(hardware, producer) < Count - 1
          BY <1>1, <1>3, <5>1, <5>2, <5>3
        <5>5. Forward(hardware, producer') = Forward(hardware, producer) + 1
          BY <1>1, <1>3, <5>4, ForwardAfter
        <5>6. \A i \in Index : Forward(hardware, i) = Forward(hardware, producer)
                                 => i = producer
          BY <1>3, ForwardInjective
        <5> QED
          BY <1>3, <5>2, <5>5, <5>6 DEF Ahead
      <4>2. ring'[producer] = p
        BY <1>2, <1>3
      <4> QED
        BY <3>2, <4>1, <4>2, <2>1, <2>2, <2>4
    <3> QED
      BY <3>1, <3>2
  <2>6. /\ \A q \in Exposed : memory'[q] = memory[q]
        /\ memory'[p] = f
    BY <1>1, <1>2, <1>3, <2>3
  <2>7. ExposedFrames' \in {ExposedFrames, ExposedFrames \cup {f}}
    BY <2>5, <2>6 DEF ExposedFrames
  <2>8. deviceOn' = deviceOn
    BY <1>3, <1>6 DEF TxInv, TypeOK
  <2> QED
    BY <2>7, <2>8, <1>4 DEF LeaseStep
<1> QED
  BY <1>5, <1>6

\* The consumer index gives back only what the device reported and has
\* retired.
LEMMA ConsumeToLeases ==
  ASSUME TxInv, ConsumeTo
  PROVE  LeaseStep
<1>1. /\ running /\ DrainCompletions(Consumed)
      /\ UNCHANGED <<ring, memory, deviceOn, host, hardware, jobs>>
  BY DEF ConsumeTo, Consumed, runtimeVars, deviceVars
<1>2. deviceOn
  BY <1>1 DEF TxInv, Cursors
<1>3. /\ Consumed \in [Page -> Slot]
      /\ \A p \in Page : /\ Consumed[p].used <=> pages[p].used
                         /\ Consumed[p].reported <=> pages[p].reported
      /\ \A i \in Index :
           /\ Forward(consumer, hardware) <= Forward(consumer, i)
           /\ Forward(consumer, i) < pendingBd
           => Consumed[ring[i]] = pages[ring[i]]
  BY <1>2, ConsumedIs
<1>4. Exposed' = Exposed
  BY <1>1 DEF Exposed, Between
<1>5. /\ Exposed = {ring[i] : i \in Ahead(hardware, host)}
                     \cup {j.page : j \in jobs}
      /\ \A i \in Ahead(hardware, host) :
           /\ i \in Index
           /\ Forward(consumer, hardware) <= Forward(consumer, i)
           /\ Forward(consumer, i) < pendingBd
  BY <1>2, ExposedIs
<1>6. \A i \in Ahead(hardware, host) : ~Ready(Consumed[ring[i]])
  BY <1>3, <1>5 DEF TxInv, Window, Ready
<1>7. \A j \in jobs : ~Ready(Consumed[j.page])
  <2>1. \A j \in jobs : j.page \in Page /\ ~pages[j.page].reported
    BY <1>2 DEF TxInv, TypeOK, AtDevice, Job
  <2> QED
    BY <2>1, <1>3 DEF Ready
<1>8. \A p \in Exposed : ~Ready(Consumed[p])
  BY <1>5, <1>6, <1>7
<1> QED
  BY <1>1, <1>3, <1>4, <1>8, DrainLeases

\* A report gives back only a page whose descriptor is consumed.
LEMMA TakeReportLeases ==
  ASSUME TxInv, TakeReport
  PROVE  LeaseStep
<1>1. /\ running /\ taken < limit /\ DrainCompletions(Noted)
      /\ UNCHANGED <<ring, memory, deviceOn, host, hardware, jobs>>
  BY DEF TakeReport, Noted, runtimeVars, deviceVars
<1>2. deviceOn
  BY <1>1 DEF TxInv, Cursors
<1> DEFINE r == rpq[taken + 1]
<1>3. /\ taken + 1 \in taken + 1 .. Len(rpq)
      /\ Noted \in [Page -> Slot]
      /\ \A p \in Page : /\ Noted[p].used <=> pages[p].used
                         /\ Noted[p].consumed <=> pages[p].consumed
                         /\ p # r => Noted[p] = pages[p]
  BY <1>1, NotedIs
<1>4. Exposed' = Exposed
  BY <1>1 DEF Exposed, Between
<1>5. /\ Exposed = {ring[i] : i \in Ahead(hardware, host)}
                     \cup {j.page : j \in jobs}
      /\ \A i \in Ahead(hardware, host) :
           i \in Index /\ Forward(consumer, i) < pendingBd
  BY <1>2, ExposedIs
<1>6. \A i \in Ahead(hardware, host) : ~Ready(Noted[ring[i]])
  <2>1. \A i \in Ahead(hardware, host) :
          ring[i] \in Page /\ ~pages[ring[i]].consumed
    BY <1>5 DEF TxInv, TypeOK, Window
  <2> QED
    BY <2>1, <1>3 DEF Ready
<1>7. \A j \in jobs : ~Ready(Noted[j.page])
  <2>1. \A j \in jobs : /\ j.page \in Page /\ ~pages[j.page].reported
                        /\ j.page # r
    BY <1>1, <1>2, <1>3 DEF TxInv, TypeOK, AtDevice, InReports, Job
  <2> QED
    BY <2>1, <1>3 DEF Ready
<1>8. \A p \in Exposed : ~Ready(Noted[p])
  BY <1>5, <1>6, <1>7
<1> QED
  BY <1>1, <1>3, <1>4, <1>8, DrainLeases

\* A fetched page was exposed before.
LEMMA FetchLeases ==
  ASSUME TxInv, Fetch
  PROVE  LeaseStep
<1> USE ConstantsAssumption
<1>1. /\ deviceOn /\ fetched # host
      /\ jobs' = jobs \cup {[page  |-> ring[fetched],
                              frame |-> memory[ring[fetched]]]}
      /\ UNCHANGED <<ring, leases, memory, deviceOn, host, hardware>>
  BY DEF Fetch, hostVars, ledgerVars, runtimeVars
<1>2. /\ consumer \in Index /\ hardware \in Index /\ fetched \in Index
      /\ host \in Index
      /\ \A i \in Index : Forward(consumer, i) \in 0 .. Count - 1
      /\ Forward(consumer, hardware) <= Forward(consumer, fetched)
      /\ Forward(consumer, fetched) <= Forward(consumer, host)
  BY <1>1, CursorsOrdered
<1>3. Forward(consumer, fetched) < Forward(consumer, host)
  BY <1>1, <1>2, ForwardInjective
<1>4. fetched \in Ahead(hardware, host)
  <2>1. /\ Forward(hardware, fetched)
             = Forward(consumer, fetched) - Forward(consumer, hardware)
        /\ Forward(hardware, host)
             = Forward(consumer, host) - Forward(consumer, hardware)
    BY <1>2, <1>3, ForwardSplit
  <2> QED
    BY <2>1, <1>2, <1>3 DEF Ahead
<1>5. ring[fetched] \in Between(hardware, host)
  BY <1>2, <1>4, BetweenIs
<1>6. {j.page : j \in jobs'} = {j.page : j \in jobs} \cup {ring[fetched]}
  <2> DEFINE new == [page |-> ring[fetched], frame |-> memory[ring[fetched]]]
  <2>1. jobs' = jobs \cup {new} /\ new.page = ring[fetched]
    BY <1>1
  <2> HIDE DEF new
  <2> QED
    BY <2>1
<1>7. Between(hardware, host)' = Between(hardware, host)
  BY <1>1 DEF Between
<1>8. Exposed' = Exposed
  BY <1>1, <1>5, <1>6, <1>7 DEF Exposed
<1>9. HeldFrames' = HeldFrames /\ ExposedFrames' = ExposedFrames
  BY <1>1, <1>8 DEF HeldFrames, Held, ExposedFrames
<1> QED
  BY <1>1, <1>9 DEF LeaseStep

\* A retired descriptor exposes its page no longer, unless a job does.
LEMMA RetireLeases ==
  ASSUME TxInv, Retire
  PROVE  LeaseStep
<1> USE ConstantsAssumption
<1>1. /\ deviceOn /\ hardware # fetched
      /\ hardware' = (hardware + 1) % Count
      /\ UNCHANGED <<ring, leases, memory, deviceOn, host, jobs>>
  BY DEF Retire, hostVars, ledgerVars, runtimeVars
<1>2. /\ consumer \in Index /\ hardware \in Index /\ fetched \in Index
      /\ host \in Index /\ pendingBd \in Nat /\ pendingBd < Count
      /\ \A i \in Index : Forward(consumer, i) \in 0 .. Count - 1
      /\ Forward(consumer, hardware) <= Forward(consumer, fetched)
      /\ Forward(consumer, fetched) <= Forward(consumer, host)
      /\ Forward(consumer, host) <= pendingBd
  BY <1>1, CursorsOrdered
<1>3. Forward(consumer, hardware) < Forward(consumer, fetched)
  BY <1>1, <1>2, ForwardInjective
<1>4. /\ hardware' = After(hardware) /\ hardware' \in Index
      /\ Forward(consumer, hardware') = Forward(consumer, hardware) + 1
  <2>1. hardware' = After(hardware) /\ hardware' \in Index
    BY <1>1, <1>2, AfterIs
  <2>2. Forward(consumer, hardware) < Count - 1
    BY <1>2, <1>3
  <2> QED
    BY <2>1, <2>2, <1>2, ForwardAfter
<1>5. Ahead(hardware, host) = Ahead(hardware', host) \cup {hardware}
  <2>1. Forward(hardware, hardware) = 0 /\ Forward(hardware, host) > 0
    BY <1>2, <1>3, ForwardSplit, ForwardIndex
  <2>2. \A i \in Index \ {hardware} :
          Forward(hardware', i) = Forward(hardware, i) - 1
    BY <1>2, <1>4 DEF Forward, After, Index
  <2>3. Forward(hardware', hardware) = Count - 1
    BY <1>2, <1>4 DEF Forward, After, Index
  <2>4. host # hardware
    BY <1>2, <1>3
  <2>5. \A i \in Index : Forward(hardware, i) \in 0 .. Count - 1
    BY <1>2, ForwardIndex
  <2> QED
    BY <2>1, <2>2, <2>3, <2>4, <2>5, <1>2 DEF Ahead
<1> DEFINE p == ring[hardware]
<1>6. Between(hardware, host)' = {ring[i] : i \in Ahead(hardware', host)}
  <2>1. Between(hardware, host)' = Between(hardware', host)
    BY <1>1 DEF Between, Distance
  <2> QED
    BY <2>1, <1>2, <1>4, BetweenIs
<1>7. Between(hardware, host) = Between(hardware, host)' \cup {p}
  BY <1>2, <1>5, <1>6, BetweenIs
<1>8. /\ Exposed = Between(hardware, host) \cup {j.page : j \in jobs}
      /\ Exposed' = Between(hardware, host)' \cup {j.page : j \in jobs}
  BY <1>1 DEF Exposed
<1>9. p \in Exposed /\ Exposed' \in {Exposed, Exposed \ {p}}
  <2> HIDE DEF p
  <2> QED
    BY <1>7, <1>8
<1> QED
  BY <1>1, <1>9, FinishLeases

\* A reported job exposes its page no longer, unless a descriptor does.
LEMMA ReportLeases ==
  ASSUME TxInv, NEW p \in Page, Report(p)
  PROVE  LeaseStep
<1>1. /\ deviceOn
      /\ UNCHANGED <<ring, leases, memory, deviceOn, host, hardware>>
  BY DEF Report, hostVars, ledgerVars, runtimeVars
<1>2. PICK j \in jobs : j.page = p /\ jobs' = jobs \ {j}
  BY DEF Report
<1>3. {k.page : k \in jobs} = {k.page : k \in jobs'} \cup {p}
  BY <1>2
<1>4. Between(hardware, host)' = Between(hardware, host)
  BY <1>1 DEF Between
<1>5. /\ Exposed = Between(hardware, host) \cup {k.page : k \in jobs}
      /\ Exposed' = Between(hardware, host) \cup {k.page : k \in jobs'}
  BY <1>1, <1>4 DEF Exposed
<1>6. p \in Exposed /\ Exposed' \in {Exposed, Exposed \ {p}}
  BY <1>3, <1>5
<1> QED
  BY <1>1, <1>6, FinishLeases

\* Every step of driver and device is one that FrameLease allows.
LEMMA LeaseMoves == TxInv /\ TxInv' /\ [Next]_vars => LeaseStep
<1> SUFFICES ASSUME TxInv, TxInv', [Next]_vars PROVE LeaseStep
  OBVIOUS
<1>0. deviceOn' \in BOOLEAN
  BY DEF TxInv, TypeOK
<1>1. ASSUME NEW f \in Frame, Submit(f) PROVE LeaseStep
  BY <1>0, <1>1, StageLeases DEF Submit
<1>2. ASSUME NEW f \in Frame, NEW seen \in BOOLEAN, NEW proven \in BOOLEAN,
             SubmitFails(f, seen, proven)
      PROVE  LeaseStep
  <2>1. host' \in {host, producer'}
    BY <1>2 DEF SubmitFails
  <2> QED
    BY <1>0, <1>2, <2>1, StageLeases DEF SubmitFails
<1>3. CASE ConsumeTo
  BY <1>3, ConsumeToLeases
<1>4. ASSUME UNCHANGED <<leases, memory, ring, deviceOn, host, hardware, jobs>>
      PROVE  LeaseStep
  <2>1. HeldFrames' = HeldFrames /\ ExposedFrames' = ExposedFrames
    BY <1>4 DEF HeldFrames, Held, ExposedFrames, Exposed, Between
  <2> QED
    BY <1>4, <2>1 DEF LeaseStep
<1>5. CASE PollReports \/ FinishDrain
  BY <1>4, <1>5 DEF PollReports, FinishDrain, ledgerVars, runtimeVars,
                    deviceVars
<1>6. CASE TakeReport
  BY <1>6, TakeReportLeases
<1>7. ASSUME NEW proven \in BOOLEAN, Fault(proven) PROVE LeaseStep
  BY <1>7, StopLeases DEF Fault, ledgerVars
<1>8. ASSUME NEW proven \in BOOLEAN, NEW backend \in BOOLEAN,
             Shutdown(proven, backend)
      PROVE  LeaseStep
  <2>1. CASE MayReclaim(proven, backend)
    BY <1>8, <2>1, StopLeases DEF Shutdown, MayReclaim
  <2>2. CASE ~MayReclaim(proven, backend)
    BY <1>8, <2>2, StopLeases DEF Shutdown, ledgerVars
  <2> QED
    BY <2>1, <2>2
<1>9. CASE Fetch
  BY <1>9, FetchLeases
<1>10. CASE Retire
  BY <1>10, RetireLeases
<1>11. ASSUME NEW p \in Page, Report(p) PROVE LeaseStep
  BY <1>11, ReportLeases
<1>12. CASE UNCHANGED vars
  BY <1>4, <1>12 DEF vars, hostVars, ledgerVars, runtimeVars, deviceVars
<1> QED
  BY <1>1, <1>2, <1>3, <1>5, <1>6, <1>7, <1>8, <1>9, <1>10, <1>11, <1>12
     DEF Next

\* The transmit queue implements FrameLease: a frame is given back only once
\* neither a descriptor nor an unreported job of the device can refer to its
\* page, or after a proven stop; true for rings of every size.
THEOREM QueueImplementsLease == Spec => ImplementsLease
<1>1. TxInv /\ TxInv' /\ [Next]_vars => [Leases!Next]_(Leases!leaseVars)
  BY LeaseMoves, LeaseStepMaps DEF TxInv, TypeOK
<1> QED
  BY <1>1, LeaseInit, TxAlways, PTL DEF Spec, ImplementsLease, Leases!Spec
============================================================================
