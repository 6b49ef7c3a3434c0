------------------------ MODULE ForegroundScanProofs ------------------------
(***************************************************************************)
(* Proofs about ForegroundScan, for every plan, channel set, clock and     *)
(* every size of the cache: its safety invariants, and that the observer   *)
(* with its two banks implements ScanSnapshot.                             *)
(*                                                                         *)
(* The properties are about what has been done (a dwell swept, a probe     *)
(* sent, an entry heard), and say nothing of what is under way.  ScanInv   *)
(* therefore follows the work from its start: Requested and Attended tie   *)
(* the request's dwell to its plan and to the station's scan, Probing ties *)
(* the probe to the dwell, Passing says what the pass under way has heard  *)
(* and where, Banked the same of the published bank, and Covering that     *)
(* each channel the request has counted was swept in the pass still open.  *)
(*                                                                         *)
(* The handlers are put together from a few calls (cancel a request, end a *)
(* pass, tune to a channel).  Each call has a relation that says what it   *)
(* does (GivesUp, Lands, Carries; Ended, Opened, Begins, Hears, Swept,     *)
(* Published) and lemmas that the operator satisfies it and that it keeps  *)
(* its part of the invariant; the proof of an action combines these.  The  *)
(* same relations on the observer carry the refinement at the end.         *)
(***************************************************************************)
EXTENDS ForegroundScan, FiniteSetTheorems, TLAPS

----------------------------------------------------------------------------
(* The inductive invariant, in parts that are about a request f, an observer *)
(* o and the histories t (tuned), w (swept) and p (probed).                  *)

\* The request has a dwell with the station.
Busy(f) == f.phase \in {"scanning", "draining"}

\* The request's books: it has a dwell while it scans or drains, its last and
\* on the next channel of its plan; a drained or waiting request has none.
Requested(f, t) ==
  /\ f.drained \/ f.phase = "queued" => f.dwell = 0
  /\ Busy(f) => /\ f.dwell # 0 /\ f.done < Len(f.plan)
                /\ t[f.dwell] = f.plan[f.done + 1]
  /\ f.dwell # 0 => f.dwell = f.last
  /\ f.last <= Len(t)

\* Request and station: a station in the request's last dwell is one the
\* request has not let go of, and while the driver works, a request with a
\* dwell has the station, which knows of a cancellation.
Attended ==
  /\ sta.op <= Len(tuned)
  /\ sta.state \in ScanState => sta.op # 0
  /\ ~halted /\ sta.state \in ScanState /\ sta.op = fg.last =>
       fg.dwell = fg.last
  /\ ~faulted /\ ~stopping /\ Busy(fg) =>
       /\ sta.state \in ScanState /\ sta.op = fg.dwell
       /\ fg.phase = "draining" => sta.cancelled

\* The probe: in its dwell while the device has it, on record once sent.
Probing ==
  /\ ProbeInItsDwell
  /\ frame.state = "sent" => frame.op \in probed

\* Some dwell on c was swept in pass g, with its probe if the scan is active.
Covered(c, g, active, t, w, p) ==
  \E s \in w : /\ s.op \in 1 .. Len(t)
               /\ t[s.op] = c /\ s.generation = g
               /\ active => s.op \in p

\* What a request has counted as done was swept in the pass g now open, and
\* what a complete one has planned in the pass it names.
Covering(f, g, t, w, p) ==
  /\ f.phase \in {"queued", "scanning"} =>
       \A i \in 1 .. f.done : Covered(f.plan[i], g, f.active, t, w, p)
  /\ f.phase = "complete" =>
       \A i \in 1 .. Len(f.plan) :
         Covered(f.plan[i], f.snapshot, f.active, t, w, p)

\* An entry was heard on its channel, in a dwell that was swept in pass g.
Heard(e, g, t, w) ==
  /\ e.dwell \in 1 .. Len(t) /\ t[e.dwell] = e.channel
  /\ [op |-> e.dwell, generation |-> g] \in w

\* The pass under way: the observer has one exactly while it is open and not
\* blocked, a pending dwell is on a channel of the plan that is still to be
\* swept, and what was heard was heard in a dwell that is swept or pending.
Passing(o, t, w) ==
  /\ o.live <=> o.open /\ ~o.blocked
  /\ o.pending =>
       /\ o.live /\ o.dwell \in 1 .. Len(t)
       /\ t[o.dwell] = o.channel /\ o.channel \in o.plan \ o.done
  /\ o.live =>
       /\ o.generation # 0 /\ o.done \subseteq o.plan
       /\ o.banks[o.working].channels = o.plan
       /\ \A e \in o.banks[o.working].entries :
            /\ e.channel \in o.plan
            /\ \/ Heard(e, o.generation, t, w)
               \/ /\ o.pending /\ e.dwell = o.dwell
                  /\ e.channel = o.channel

\* The two banks: never the same one, the published one of an earlier pass,
\* and what it holds was heard in place.
Banked(o, t, w) ==
  /\ o.working # o.published
  /\ o.has =>
       LET bank == o.banks[o.published]
       IN /\ bank.generation # 0 /\ bank.generation <= o.generation
          /\ o.live => bank.generation < o.generation
          /\ \A e \in bank.entries : Heard(e, bank.generation, t, w)

\* An observer of its type, with finite banks within their capacity.
ObserverOK(o) ==
  /\ o \in Observer
  /\ \A b \in {0, 1} : /\ IsFiniteSet(o.banks[b].entries)
                       /\ Cardinality(o.banks[b].entries) <= MaxNetworks

\* A request of its type.
RequestOK(f) == f \in Request /\ f.done <= Len(f.plan)

\* All that is said of the observer.
Observed(o, t, w) == ObserverOK(o) /\ Passing(o, t, w) /\ Banked(o, t, w)

\* The inductive invariant.
ScanInv ==
  /\ TypeOK /\ Observed(obs, tuned, swept) /\ Requested(fg, tuned)
  /\ Attended /\ Probing /\ Covering(fg, obs.generation, tuned, swept, probed)

----------------------------------------------------------------------------
(* The observer and its banks. *)

\* The pass ends, whatever else happens to the observer: nothing is live or
\* pending any more, and the published bank is left alone.
Ended(o, q) ==
  /\ ObserverOK(q)
  /\ ~q.live /\ ~q.pending /\ (q.open => q.blocked)
  /\ q.generation >= o.generation
  /\ q.working = o.working /\ q.published = o.published /\ q.has = o.has
  /\ q.banks[o.published] = o.banks[o.published]

\* A pass over plan begins.
Opened(o, q, plan) ==
  /\ ObserverOK(q)
  /\ q.live /\ q.open /\ ~q.blocked /\ ~q.pending /\ ~q.overflow
  /\ q.generation = o.generation + 1
  /\ q.plan = plan /\ q.done = {}
  /\ q.working = o.working /\ q.published = o.published /\ q.has = o.has
  /\ q.banks[o.published] = o.banks[o.published]
  /\ q.banks[o.working] = [EmptyBank EXCEPT !.channels = plan]

\* What the assumption says of the sizes.
LEMMA Sizes ==
  /\ Timeout \in Nat /\ MaxTime \in Nat /\ MaxRequest \in Nat
  /\ MaxGeneration \in Nat /\ MaxOperation \in Nat /\ MaxNetworks \in Nat
  /\ 1 <= MaxNetworks
  BY ConstantsAssumption

\* Zero is a time, a pass and no dwell.
LEMMA Zeros == 0 \in Dwell /\ 0 \in Generation /\ 0 \in Time
  BY Sizes DEF Dwell, Generation, Time

\* The empty bank is a bank, finite and with no entry.
LEMMA EmptyBankOK ==
  /\ EmptyBank \in Bank
  /\ IsFiniteSet(EmptyBank.entries) /\ Cardinality(EmptyBank.entries) = 0
  /\ EmptyBank.entries = {}
  BY Sizes, FS_EmptySet DEF EmptyBank, Bank, Generation, Time

\* Store::cancel empties the working bank only, and nothing is live then.
LEMMA DiscardIs ==
  ASSUME NEW o, ObserverOK(o), o.working # o.published
  PROVE  /\ Discard(o) \in Observer /\ ObserverOK(Discard(o))
         /\ ~Discard(o).live
         /\ Discard(o).banks[o.published] = o.banks[o.published]
         /\ Discard(o).open = o.open /\ Discard(o).generation = o.generation
         /\ Discard(o).working = o.working
         /\ Discard(o).published = o.published /\ Discard(o).has = o.has
<1>1. o \in Observer /\ o.working \in {0, 1} /\ o.banks \in [{0, 1} -> Bank]
  BY DEF ObserverOK, Observer
<1>2. Discard(o) \in Observer
  BY <1>1, EmptyBankOK DEF Discard, Observer
<1>3. \A b \in {0, 1} : Discard(o).banks[b] \in {o.banks[b], EmptyBank}
  BY <1>1 DEF Discard, Observer
<1>4. ObserverOK(Discard(o))
  BY <1>2, <1>3, EmptyBankOK, Sizes DEF ObserverOK
<1> QED
  BY <1>1, <1>2, <1>4 DEF Discard, Observer

\* Observer::cancel ends the pass and keeps its number.
LEMMA CancelPassEnds ==
  ASSUME NEW o, ObserverOK(o), o.working # o.published
  PROVE  /\ Ended(o, CancelPass(o)) /\ ~CancelPass(o).open
         /\ CancelPass(o).generation = o.generation
<1> DEFINE d == Discard(o)
           q == CancelPass(o)
<1>1. /\ d \in Observer /\ ObserverOK(d) /\ ~d.live
      /\ d.banks[o.published] = o.banks[o.published]
      /\ d.generation = o.generation /\ d.working = o.working
      /\ d.published = o.published /\ d.has = o.has
  BY DiscardIs
<1>2. q = [d EXCEPT !.open = FALSE, !.blocked = FALSE, !.pending = FALSE,
                    !.dwell = 0, !.plan = {}]
  BY DEF CancelPass
<1> HIDE DEF d, q
<1>3. q \in Observer
  BY <1>1, <1>2, Zeros DEF Observer
<1>4. /\ q.banks = d.banks /\ ~q.open /\ ~q.pending /\ q.live = d.live
      /\ q.generation = d.generation /\ q.working = d.working
      /\ q.published = d.published /\ q.has = d.has
  BY <1>1, <1>2 DEF Observer
<1>5. ObserverOK(q)
  BY <1>1, <1>3, <1>4 DEF ObserverOK
<1>6. q.generation \in Nat
  BY <1>3, Sizes DEF Observer, Generation
<1>7. Ended(o, q)
  BY <1>1, <1>4, <1>5, <1>6 DEF Ended
<1> QED
  BY <1>1, <1>4, <1>7 DEF q

\* Observer::block ends an open pass and keeps its number.
LEMMA BlockEnds ==
  ASSUME NEW o, ObserverOK(o), o.working # o.published
  PROVE  Ended(o, Block(o)) /\ Block(o).generation = o.generation
<1> DEFINE d == Discard(o)
           q == Block(o)
<1>1. /\ d \in Observer /\ ObserverOK(d) /\ ~d.live
      /\ d.banks[o.published] = o.banks[o.published]
      /\ d.generation = o.generation /\ d.working = o.working
      /\ d.published = o.published /\ d.has = o.has
  BY DiscardIs
<1>2. q = [d EXCEPT !.blocked = TRUE, !.pending = FALSE, !.dwell = 0]
  BY DEF Block
<1> HIDE DEF d, q
<1>3. q \in Observer
  BY <1>1, <1>2, Zeros DEF Observer
<1>4. /\ q.banks = d.banks /\ q.blocked /\ ~q.pending /\ q.live = d.live
      /\ q.generation = d.generation /\ q.working = d.working
      /\ q.published = d.published /\ q.has = d.has
  BY <1>1, <1>2 DEF Observer
<1>5. ObserverOK(q)
  BY <1>1, <1>3, <1>4 DEF ObserverOK
<1>6. q.generation \in Nat
  BY <1>3, Sizes DEF Observer, Generation
<1>7. Ended(o, q)
  BY <1>1, <1>4, <1>5, <1>6 DEF Ended
<1> QED
  BY <1>1, <1>4, <1>7 DEF q

\* Observer::begin opens a pass or ends without one; an open observer stays.
LEMMA BeginPassDoes ==
  ASSUME NEW o, ObserverOK(o), o.working # o.published,
         NEW mode \in Mode, NEW plan \in SUBSET Channel
  PROVE  LET q == BeginPass(o, mode, plan)
         IN \/ o.open /\ q = o
            \/ ~o.open /\ Ended(o, q)
            \/ ~o.open /\ Opened(o, q, plan)
<1> DEFINE q == BeginPass(o, mode, plan)
           b == [o EXCEPT !.open = TRUE, !.blocked = FALSE,
                          !.pending = FALSE, !.dwell = 0, !.done = {},
                          !.plan = {}]
           n == [b EXCEPT !.generation = @ + 1, !.mode = mode]
           e == [EmptyBank EXCEPT !.channels = plan]
           l == [b EXCEPT !.generation = @ + 1, !.mode = mode, !.live = TRUE,
                          !.overflow = FALSE, !.plan = plan,
                          !.banks[b.working] = e]
<1>1. /\ o \in Observer /\ o.working \in {0, 1} /\ o.published \in {0, 1}
      /\ o.banks \in [{0, 1} -> Bank] /\ o.generation \in 0 .. MaxGeneration
  BY DEF ObserverOK, Observer, Generation
<1>2. q = CASE o.open -> o
            [] ~o.open /\ o.generation = MaxGeneration -> Block(b)
            [] ~o.open /\ o.generation < MaxGeneration /\ plan = {} -> Block(n)
            [] OTHER -> l
  BY DEF BeginPass
<1>3. e \in Bank /\ e.entries = {}
  BY EmptyBankOK DEF EmptyBank, Bank
<1>4. b \in Observer
  BY <1>1, Zeros DEF Observer
<1>5. /\ b.banks = o.banks /\ b.generation = o.generation
      /\ b.working = o.working /\ b.published = o.published /\ b.has = o.has
      /\ b.open /\ ~b.blocked /\ ~b.pending /\ b.done = {}
  BY <1>1 DEF Observer
<1> HIDE DEF b, e
<1>6. ObserverOK(b)
  BY <1>4, <1>5 DEF ObserverOK
<1>7. CASE o.open
  BY <1>2, <1>7
<1>8. CASE ~o.open /\ o.generation = MaxGeneration
  <2>1. q = Block(b)
    BY <1>1, <1>2, <1>8, Sizes
  <2>2. Ended(b, Block(b))
    BY <1>1, <1>5, <1>6, BlockEnds
  <2>3. Ended(o, q)
    BY <1>5, <2>1, <2>2 DEF Ended
  <2> QED
    BY <1>8, <2>3
<1>9. CASE ~o.open /\ o.generation < MaxGeneration
  <2>1. o.generation + 1 \in Generation
    BY <1>1, <1>9, Sizes DEF Generation
  <2>2. CASE plan = {}
    <3>1. q = Block(n)
      BY <1>1, <1>2, <1>9, <2>2, Sizes
    <3>2. n \in Observer
      BY <1>4, <1>5, <2>1 DEF Observer
    <3>3. /\ n.banks = o.banks /\ n.generation = o.generation + 1
          /\ n.working = o.working /\ n.published = o.published
          /\ n.has = o.has
      BY <1>4, <1>5 DEF Observer
    <3> HIDE DEF n
    <3>4. ObserverOK(n)
      BY <1>5, <1>6, <3>2, <3>3 DEF ObserverOK
    <3>5. Ended(n, Block(n)) /\ Block(n).generation = o.generation + 1
      BY <1>1, <3>3, <3>4, BlockEnds
    <3>6. Ended(o, q)
      BY <1>1, <3>1, <3>3, <3>5, Sizes DEF Ended
    <3> QED
      BY <1>9, <3>6
  <2>3. CASE plan # {}
    <3>1. q = l
      BY <1>1, <1>2, <1>9, <2>3, Sizes
    <3>2. l \in Observer
      BY <1>3, <1>4, <1>5, <2>1 DEF Observer
    <3>3. /\ l.live /\ ~l.overflow /\ l.plan = plan
          /\ l.generation = o.generation + 1 /\ l.working = o.working
          /\ l.published = o.published /\ l.has = o.has
          /\ l.open /\ ~l.blocked /\ ~l.pending /\ l.done = {}
      BY <1>4, <1>5 DEF Observer
    <3>4. \A i \in {0, 1} :
            l.banks[i] = IF i = o.working THEN e ELSE o.banks[i]
      BY <1>1, <1>4, <1>5 DEF Observer
    <3> HIDE DEF l
    <3>5. ObserverOK(l)
      BY <1>3, <1>5, <1>6, <3>2, <3>4, EmptyBankOK, Sizes DEF ObserverOK
    <3>6. Opened(o, l, plan)
      BY <1>1, <3>3, <3>4, <3>5 DEF Opened, e
    <3> QED
      BY <1>9, <3>1, <3>6
  <2> QED
    BY <2>2, <2>3
<1> QED
  BY <1>1, <1>7, <1>8, <1>9, Sizes
----------------------------------------------------------------------------
(* What the observer's methods keep.  Histories only grow. *)

\* The histories t and w grow to t2 and w2.
Grows(t, t2, w, w2) ==
  /\ t \in Seq(Channel) /\ t2 \in Seq(Channel) /\ Len(t) <= Len(t2)
  /\ \A i \in 1 .. Len(t) : t2[i] = t[i]
  /\ w \subseteq w2

\* What was heard in place stays so when the histories grow.
LEMMA HeardStays ==
  ASSUME NEW t, NEW t2, NEW w, NEW w2, Grows(t, t2, w, w2), NEW e, NEW g,
         Heard(e, g, t, w)
  PROVE  Heard(e, g, t2, w2)
<1>1. Len(t) \in Nat /\ Len(t2) \in Nat
  BY DEF Grows
<1> QED
  BY <1>1 DEF Grows, Heard

\* All that is said of the observer stays true when the histories grow.
LEMMA ObservedStays ==
  ASSUME NEW o, NEW t, NEW t2, NEW w, NEW w2, Grows(t, t2, w, w2),
         Observed(o, t, w)
  PROVE  Observed(o, t2, w2)
<1>1. Len(t) \in Nat /\ Len(t2) \in Nat
  BY DEF Grows
<1>2. Passing(o, t2, w2)
  BY <1>1, HeardStays DEF Observed, Passing, Grows
<1>3. Banked(o, t2, w2)
  BY HeardStays DEF Observed, Banked
<1> QED
  BY <1>2, <1>3 DEF Observed

\* The end of a pass leaves nothing to be said but of the published bank.
LEMMA EndedKeeps ==
  ASSUME NEW o, NEW q, NEW t, NEW w, Observed(o, t, w), Ended(o, q)
  PROVE  Observed(q, t, w)
<1>1. Passing(q, t, w)
  BY DEF Passing, Ended
<1>2. o.published \in {0, 1} /\ q.generation \in Int /\ o.generation \in Int
  BY Sizes DEF Observed, ObserverOK, Observer, Ended, Generation
<1>3. o.has => o.banks[o.published].generation \in Int
  BY <1>2, Sizes DEF Observed, ObserverOK, Observer, Bank, Generation
<1>4. Banked(q, t, w)
  BY <1>2, <1>3 DEF Observed, Banked, Ended
<1> QED
  BY <1>1, <1>4 DEF Observed, Ended

\* A new pass has heard and swept nothing.
LEMMA OpenedKeeps ==
  ASSUME NEW o, NEW q, NEW t, NEW w, NEW plan, Observed(o, t, w),
         Opened(o, q, plan)
  PROVE  Observed(q, t, w)
<1>1. o.published \in {0, 1} /\ q.generation \in Int /\ o.generation \in Nat
  BY Sizes DEF Observed, ObserverOK, Observer, Opened, Generation
<1>2. o.banks[o.published].generation \in Int
  BY <1>1, Sizes DEF Observed, ObserverOK, Observer, Bank, Generation
<1>3. q.banks[q.working].entries = {} /\ q.banks[q.working].channels = plan
  BY EmptyBankOK DEF Opened, EmptyBank
<1>4. Passing(q, t, w)
  BY <1>1, <1>3 DEF Passing, Opened
<1>5. Banked(q, t, w)
  BY <1>1, <1>2 DEF Observed, Banked, Opened
<1> QED
  BY <1>4, <1>5 DEF Observed, Opened

\* A dwell becomes pending on a channel still to be swept.
Begins(o, q, c, op) ==
  /\ ObserverOK(q)
  /\ o.open /\ ~o.blocked /\ ~o.pending /\ c \in o.plan \ o.done
  /\ q.pending /\ q.dwell = op /\ q.channel = c
  /\ q.open = o.open /\ q.blocked = o.blocked /\ q.live = o.live
  /\ q.plan = o.plan /\ q.done = o.done /\ q.overflow = o.overflow
  /\ q.generation = o.generation /\ q.banks = o.banks
  /\ q.working = o.working /\ q.published = o.published /\ q.has = o.has

\* Observer::channelAccepted makes the dwell pending, or ends the pass; with no
\* pass it does nothing.
LEMMA AcceptChannelDoes ==
  ASSUME NEW o, ObserverOK(o), o.working # o.published,
         NEW mode, NEW c \in Channel, NEW op \in Dwell
  PROVE  LET q == AcceptChannel(o, mode, c, op)
         IN /\ q.generation = o.generation
            /\ \/ q = o /\ (~o.open \/ o.blocked)
               \/ Ended(o, q)
               \/ Begins(o, q, c, op)
<1> DEFINE q == AcceptChannel(o, mode, c, op)
           a == [o EXCEPT !.last = op, !.dwell = op, !.channel = c,
                          !.pending = TRUE]
<1>1. o \in Observer
  BY DEF ObserverOK
<1>2. CASE ~o.open \/ o.blocked
  BY <1>2 DEF AcceptChannel
<1>3. CASE /\ o.open /\ ~o.blocked
           /\ o.pending \/ mode # o.mode \/ op <= o.last \/ c \notin o.plan
                \/ c \in o.done
  <2>1. q = Block(o)
    BY <1>3 DEF AcceptChannel
  <2> QED
    BY <2>1, BlockEnds
<1>4. CASE /\ o.open /\ ~o.blocked
           /\ ~(o.pending \/ mode # o.mode \/ op <= o.last \/ c \notin o.plan
                  \/ c \in o.done)
  <2>1. q = a
    BY <1>4 DEF AcceptChannel
  <2>2. a \in Observer
    BY <1>1 DEF Observer
  <2>3. /\ a.pending /\ a.dwell = op /\ a.channel = c
        /\ a.open = o.open /\ a.blocked = o.blocked /\ a.live = o.live
        /\ a.plan = o.plan /\ a.done = o.done /\ a.overflow = o.overflow
        /\ a.generation = o.generation /\ a.banks = o.banks
        /\ a.working = o.working /\ a.published = o.published
        /\ a.has = o.has
    BY <1>1 DEF Observer
  <2> HIDE DEF a
  <2>4. ObserverOK(a)
    BY <2>2, <2>3 DEF ObserverOK
  <2>5. Begins(o, a, c, op)
    BY <1>4, <2>3, <2>4 DEF Begins
  <2> QED
    BY <2>1, <2>3, <2>5
<1> QED
  BY <1>2, <1>3, <1>4

\* The dwell is the station's newest scan.
LEMMA BeginsKeeps ==
  ASSUME NEW o, NEW q, NEW t \in Seq(Channel), NEW w, NEW c \in Channel,
         Observed(o, t, w), Begins(o, q, c, Len(t) + 1)
  PROVE  Observed(q, Append(t, c), w)
<1> DEFINE u == Append(t, c)
<1>1. /\ u \in Seq(Channel) /\ Len(u) = Len(t) + 1 /\ Len(t) \in Nat
      /\ u[Len(t) + 1] = c /\ \A i \in 1 .. Len(t) : u[i] = t[i]
  OBVIOUS
<1> HIDE DEF u
<1>2. Grows(t, u, w, w)
  BY <1>1 DEF Grows
<1>3. Observed(o, u, w)
  BY <1>2, ObservedStays
<1>4. Passing(q, u, w)
  BY <1>1, <1>3 DEF Observed, Passing, Begins
<1>5. Banked(q, u, w)
  BY <1>3 DEF Observed, Banked, Begins
<1> QED
  BY <1>4, <1>5 DEF Observed, Begins, u

\* An entry e replaces what is known of its network.
Hears(o, q, e) ==
  LET bank   == o.banks[o.working]
      others == {x \in bank.entries : ~SameNetwork(x, e)}
  IN /\ ObserverOK(q)
     /\ \A x \in bank.entries : SameNetwork(x, e) => x.at < e.at
     /\ Cardinality(others) < MaxNetworks
     /\ q.banks[o.working] \in Bank
     /\ q.banks[o.working].entries = others \cup {e}
     /\ q.banks[o.working].channels = bank.channels
     /\ q.banks[o.published] = o.banks[o.published]
     /\ q.overflow = o.overflow

\* All else of an observer.
SameObserver(o, q) ==
  /\ q.open = o.open /\ q.blocked = o.blocked /\ q.live = o.live
  /\ q.plan = o.plan /\ q.generation = o.generation
  /\ q.working = o.working /\ q.published = o.published /\ q.has = o.has

\* The dwell under way and what was swept.
SameDwell(o, q) ==
  /\ q.pending = o.pending /\ q.dwell = o.dwell /\ q.channel = o.channel
  /\ q.done = o.done

\* Store::add keeps what it had, notes a loss, or takes the observation.
LEMMA AddDoes ==
  ASSUME NEW o, ObserverOK(o), o.working # o.published,
         NEW e \in Entry, NEW fits \in BOOLEAN
  PROVE  LET q == Add(o, e, fits)
         IN /\ SameObserver(o, q) /\ SameDwell(o, q)
            /\ \/ q = o
               \/ ObserverOK(q) /\ q.banks = o.banks /\ q.overflow
               \/ Hears(o, q, e)
<1> DEFINE q == Add(o, e, fits)
           bank   == o.banks[o.working]
           others == {x \in bank.entries : ~SameNetwork(x, e)}
           known  == {x \in bank.entries : SameNetwork(x, e)}
           v == [o EXCEPT !.overflow = TRUE]
           n == [bank EXCEPT !.entries = others \cup {e}]
           h == [o EXCEPT !.banks[o.working].entries = others \cup {e}]
<1>1. /\ o \in Observer /\ o.working \in {0, 1} /\ o.published \in {0, 1}
      /\ o.banks \in [{0, 1} -> Bank] /\ bank \in Bank
      /\ bank.entries \subseteq Entry /\ IsFiniteSet(bank.entries)
      /\ Cardinality(bank.entries) <= MaxNetworks
  BY DEF ObserverOK, Observer, Bank
<1>2. q = CASE o.overflow -> o
            [] ~o.overflow /\ ~fits -> v
            [] ~o.overflow /\ fits /\ \E x \in known : e.at <= x.at -> o
            [] ~o.overflow /\ fits /\ known = {}
                 /\ Cardinality(others) = MaxNetworks -> v
            [] OTHER -> h
  BY DEF Add
<1>3. /\ v \in Observer /\ v.overflow /\ v.banks = o.banks
      /\ SameObserver(o, v) /\ SameDwell(o, v)
  BY <1>1 DEF Observer, SameObserver, SameDwell
<1>4. ObserverOK(v)
  BY <1>3 DEF ObserverOK
<1>5. CASE q = o
  BY <1>5 DEF SameObserver, SameDwell
<1>6. CASE q = v
  BY <1>3, <1>4, <1>6
<1>7. CASE q # o /\ q # v
  <2>1. /\ q = h
        /\ \A x \in known : ~(e.at <= x.at)
        /\ ~(known = {} /\ Cardinality(others) = MaxNetworks)
    BY <1>2, <1>7
  <2>2. \A x \in bank.entries : SameNetwork(x, e) => x.at < e.at
    <3>1. e.at \in Int /\ \A x \in bank.entries : x.at \in Int
      BY <1>1, Sizes DEF Entry, Time
    <3> QED
      BY <2>1, <3>1
  <2>3. others \subseteq bank.entries /\ IsFiniteSet(others)
    BY <1>1, FS_Subset
  <2>4. Cardinality(others) < MaxNetworks
    <3>1. /\ Cardinality(others) \in Nat /\ Cardinality(bank.entries) \in Nat
          /\ Cardinality(others) <= Cardinality(bank.entries)
          /\ Cardinality(others) = Cardinality(bank.entries)
               => others = bank.entries
      BY <1>1, <2>3, FS_Subset, FS_CardinalityType
    <3>2. others = bank.entries => known = {}
      OBVIOUS
    <3> QED
      BY <1>1, <2>1, <3>1, <3>2, Sizes
  <2>5. /\ IsFiniteSet(others \cup {e})
        /\ Cardinality(others \cup {e}) <= MaxNetworks
    <3>1. Cardinality(others) \in Nat
      BY <2>3, FS_CardinalityType
    <3>2. /\ IsFiniteSet(others \cup {e})
          /\ Cardinality(others \cup {e}) \in
               {Cardinality(others), Cardinality(others) + 1}
      BY <2>3, FS_AddElement
    <3> QED
      BY <2>4, <3>1, <3>2, Sizes
  <2>6. /\ others \cup {e} \in SUBSET Entry
        /\ n \in Bank /\ n.entries = others \cup {e}
        /\ n.channels = bank.channels
    BY <1>1, <2>3 DEF Bank
  <2>7. h = [o EXCEPT !.banks = [o.banks EXCEPT ![o.working] = n]]
    BY <1>1 DEF Observer
  <2> HIDE DEF n, h
  <2>8. /\ h \in Observer
        /\ \A i \in {0, 1} : h.banks[i] = IF i = o.working THEN n
                                                          ELSE o.banks[i]
        /\ SameObserver(o, h) /\ SameDwell(o, h) /\ h.overflow = o.overflow
    BY <1>1, <2>6, <2>7 DEF Observer, SameObserver, SameDwell
  <2>9. ObserverOK(h)
    BY <1>1, <2>5, <2>6, <2>8 DEF ObserverOK
  <2>10. Hears(o, h, e)
    BY <1>1, <2>2, <2>4, <2>6, <2>8, <2>9 DEF Hears
  <2> QED
    BY <2>1, <2>8, <2>10
<1> QED
  BY <1>5, <1>6, <1>7

\* What is heard in the pending dwell, on its channel, is kept in order.
LEMMA AddKeeps ==
  ASSUME NEW o, NEW t, NEW w, Observed(o, t, w),
         NEW e \in Entry, NEW fits \in BOOLEAN,
         o.pending, e.dwell = o.dwell, e.channel = o.channel
  PROVE  Observed(Add(o, e, fits), t, w)
<1> DEFINE q == Add(o, e, fits)
<1>1. /\ SameObserver(o, q) /\ SameDwell(o, q)
      /\ \/ q = o
         \/ ObserverOK(q) /\ q.banks = o.banks
         \/ Hears(o, q, e)
  BY AddDoes DEF Observed, Banked
<1> HIDE DEF q
<1>2. CASE q = o
  BY <1>2 DEF q
<1>3. CASE ObserverOK(q) /\ q.banks = o.banks
  <2>1. Passing(q, t, w) /\ Banked(q, t, w)
    BY <1>1, <1>3 DEF Observed, Passing, Banked, SameObserver, SameDwell
  <2> QED
    BY <1>3, <2>1 DEF Observed, q
<1>4. CASE Hears(o, q, e)
  <2>1. \A x \in q.banks[o.working].entries :
          x = e \/ x \in o.banks[o.working].entries
    BY <1>4 DEF Hears
  <2>2. Passing(q, t, w)
    BY <1>1, <1>4, <2>1
    DEF Observed, Passing, SameObserver, SameDwell, Hears
  <2>3. Banked(q, t, w)
    BY <1>1, <1>4 DEF Observed, Banked, SameObserver, Hears
  <2> QED
    BY <1>4, <2>2, <2>3 DEF Observed, Hears, q
<1> QED
  BY <1>1, <1>2, <1>3, <1>4

\* The pending dwell ends and its channel is swept.
Swept(o, q) ==
  /\ ObserverOK(q) /\ SameObserver(o, q)
  /\ o.pending /\ ~q.pending /\ q.done = o.done \cup {o.channel}
  /\ q.banks = o.banks /\ q.overflow = o.overflow

\* Observer::channelFinished sweeps the dwell op if it is the pending one, and
\* ends the pass if that dwell was cancelled.
LEMMA FinishChannelDoes ==
  ASSUME NEW o, ObserverOK(o), o.working # o.published, NEW op,
         o.pending => o.channel \in Channel, NEW cancelled \in BOOLEAN
  PROVE  LET q == FinishChannel(o, op, cancelled)
         IN /\ q.generation = o.generation
            /\ \/ q = o /\ ~Sweeps(o, op)
               \/ Ended(o, q) /\ cancelled
               \/ Swept(o, q) /\ Sweeps(o, op) /\ ~cancelled
<1> DEFINE q == FinishChannel(o, op, cancelled)
           f == [o EXCEPT !.done = @ \cup {o.channel}, !.pending = FALSE,
                          !.dwell = 0]
<1>1. o \in Observer
  BY DEF ObserverOK
<1>2. CASE ~Sweeps(o, op)
  BY <1>2 DEF FinishChannel
<1>3. CASE Sweeps(o, op) /\ cancelled
  BY <1>3, CancelPassEnds DEF FinishChannel
<1>4. CASE Sweeps(o, op) /\ ~cancelled
  <2>1. q = f /\ o.pending
    BY <1>4 DEF FinishChannel, Sweeps
  <2>2. o.done \cup {o.channel} \in SUBSET Channel
    BY <1>1, <2>1 DEF Observer
  <2>3. f \in Observer
    BY <1>1, <2>2, Zeros DEF Observer
  <2>4. /\ SameObserver(o, f) /\ ~f.pending /\ f.banks = o.banks
        /\ f.done = o.done \cup {o.channel} /\ f.overflow = o.overflow
    BY <1>1 DEF Observer, SameObserver
  <2> HIDE DEF f
  <2>5. ObserverOK(f)
    BY <2>3, <2>4 DEF ObserverOK
  <2>6. Swept(o, f)
    BY <2>1, <2>4, <2>5 DEF Swept
  <2> QED
    BY <1>4, <2>1, <2>4, <2>6 DEF SameObserver
<1> QED
  BY <1>2, <1>3, <1>4

\* With the dwell on record, what was heard in it is.
LEMMA SweptKeeps ==
  ASSUME NEW o, NEW q, NEW t, NEW w, NEW w2, Observed(o, t, w), Swept(o, q),
         t \in Seq(Channel), w \subseteq w2,
         [op |-> o.dwell, generation |-> o.generation] \in w2
  PROVE  Observed(q, t, w2)
<1>1. Grows(t, t, w, w2)
  BY DEF Grows
<1>2. Observed(o, t, w2)
  BY <1>1, ObservedStays
<1>3. \A e \in o.banks[o.working].entries :
        o.live => e.channel \in o.plan /\ Heard(e, o.generation, t, w2)
  BY <1>2 DEF Observed, Passing, Swept, Heard
<1>4. Passing(q, t, w2)
  BY <1>2, <1>3 DEF Observed, Passing, Swept, SameObserver
<1>5. Banked(q, t, w2)
  BY <1>2 DEF Observed, Banked, Swept, SameObserver
<1> QED
  BY <1>4, <1>5 DEF Observed, Swept

\* The working bank becomes the published one, as the snapshot of its pass.
Published(o, q) ==
  LET bank == o.banks[o.working]
  IN /\ ObserverOK(q) /\ ~q.live /\ ~q.pending /\ ~q.open
     /\ q.generation = o.generation /\ q.has
     /\ q.published = o.working /\ q.working = o.published
     /\ q.banks[o.working] = [generation |-> o.generation,
                              channels |-> bank.channels, at |-> now,
                              entries |-> bank.entries]

\* A bank is its four fields.
LEMMA SameBank ==
  ASSUME NEW a \in Bank, NEW b \in Bank,
         a.generation = b.generation, a.channels = b.channels,
         a.at = b.at, a.entries = b.entries
  PROVE  a = b
  BY DEF Bank

\* Observer::finish publishes a pass that may be, and ends any other.
LEMMA FinishPassDoes ==
  ASSUME NEW o, ObserverOK(o), o.working # o.published, NEW mode,
         now \in Time
  PROVE  LET q == FinishPass(o, mode)
         IN /\ q.generation = o.generation
            /\ \/ ~Publishable(o, mode) /\ Ended(o, q)
               \/ Publishable(o, mode) /\ Published(o, q)
<1> DEFINE q == FinishPass(o, mode)
           bank == o.banks[o.working]
           new == [generation |-> o.generation, channels |-> bank.channels,
                   at |-> now, entries |-> bank.entries]
           p == PublishPass(o)
           c == CancelPass(p)
<1>1. /\ o \in Observer /\ o.working \in {0, 1} /\ o.published \in {0, 1}
      /\ o.banks \in [{0, 1} -> Bank] /\ bank \in Bank
      /\ o.generation \in Generation
  BY DEF ObserverOK, Observer
<1>2. CASE ~Publishable(o, mode)
  BY <1>2, CancelPassEnds DEF FinishPass
<1>3. CASE Publishable(o, mode)
  <2>1. q = c
    BY <1>3 DEF FinishPass
  <2> DEFINE old == [[bank EXCEPT !.generation = o.generation] EXCEPT !.at = now]
  <2>2. new \in Bank /\ new.entries = bank.entries /\ old = new
    <3>1. new \in Bank /\ old \in Bank
      BY <1>1 DEF Bank
    <3>2. /\ old.generation = new.generation /\ old.channels = new.channels
          /\ old.at = new.at /\ old.entries = new.entries
      BY <1>1 DEF Bank
    <3> QED
      BY <3>1, <3>2, SameBank
  <2>3. p = [o EXCEPT !.banks = [o.banks EXCEPT ![o.working] = new],
                      !.published = o.working, !.working = 1 - o.working,
                      !.has = TRUE, !.live = FALSE]
    <3>1. p = [o EXCEPT !.banks = [o.banks EXCEPT ![o.working] =
                            [[bank EXCEPT !.generation = o.generation]
                               EXCEPT !.at = now]],
                        !.published = o.working, !.working = 1 - o.working,
                        !.has = TRUE, !.live = FALSE]
      BY <1>1 DEF PublishPass, Observer
    <3> QED
      BY <2>2, <3>1
  <2> HIDE DEF p, new
  <2>4. 1 - o.working \in {0, 1} /\ 1 - o.working = o.published
    BY <1>1
  <2>5. p \in Observer
    BY <1>1, <2>2, <2>3, <2>4 DEF Observer
  <2>6. /\ p.published = o.working /\ p.working = o.published /\ p.has
        /\ ~p.live /\ p.generation = o.generation
        /\ \A i \in {0, 1} : p.banks[i] = IF i = o.working THEN new
                                                          ELSE o.banks[i]
    BY <1>1, <2>3, <2>4 DEF Observer
  <2>7. ObserverOK(p)
    BY <1>1, <2>2, <2>5, <2>6 DEF ObserverOK
  <2>8. Ended(p, c) /\ ~c.open /\ c.generation = p.generation
    BY <1>1, <2>6, <2>7, CancelPassEnds
  <2>9. Published(o, c)
    BY <1>1, <2>6, <2>8 DEF Ended, Published, new
  <2> QED
    BY <1>3, <2>1, <2>6, <2>8, <2>9
<1> QED
  BY <1>2, <1>3

\* What is published was all heard in place.
LEMMA PublishedKeeps ==
  ASSUME NEW o, NEW q, NEW t, NEW w, NEW mode, Observed(o, t, w),
         Publishable(o, mode), Published(o, q)
  PROVE  Observed(q, t, w)
<1>1. o.live /\ ~o.pending
  BY DEF Publishable
<1>2. \A e \in o.banks[o.working].entries : Heard(e, o.generation, t, w)
  BY <1>1 DEF Observed, Passing
<1>3. Passing(q, t, w)
  BY DEF Published, Passing
<1>4. o.generation \in Int /\ o.generation # 0
  BY <1>1, Sizes DEF Observed, ObserverOK, Observer, Generation, Passing
<1>5. Banked(q, t, w)
  BY <1>2, <1>4 DEF Observed, Banked, Published
<1> QED
  BY <1>3, <1>5 DEF Observed, Published

----------------------------------------------------------------------------
(* The request. *)

\* The request gives up: between dwells it is over, in a dwell it drains or
\* has failed, and it keeps its dwell either way.
GivesUp(f, c) ==
  /\ RequestOK(c)
  /\ c.dwell = f.dwell /\ c.last = f.last
  /\ c.plan = f.plan /\ c.done = f.done
  /\ c.drained => c.dwell = 0
  /\ c.phase \notin {"queued", "scanning"}
  /\ c.phase = "complete" => c = f
  /\ c.phase = "draining" => Busy(f)

\* Controller::cancel makes a request give up.
LEMMA CancelGivesUp ==
  ASSUME NEW f, RequestOK(f), NEW why \in {"timeout", "other"},
         NEW t, Requested(f, t)
  PROVE  GivesUp(f, Cancel(f, why))
<1> DEFINE c == [f EXCEPT !.reason = why, !.snapshot = 0]
           e == [c EXCEPT !.phase = IF c.reason = "timeout" THEN "timedOut"
                                    ELSE "cancelled",
                          !.drained = TRUE, !.dwell = 0]
           d == [c EXCEPT !.phase = "draining"]
<1>1. f \in Request /\ f.done <= Len(f.plan)
  BY DEF RequestOK
<1>2. CASE ~Active(f) \/ f.phase = "draining"
  <2>1. Cancel(f, why) = f
    BY <1>2 DEF Cancel
  <2> QED
    BY <1>1, <1>2, <2>1 DEF GivesUp, RequestOK, Requested, Active, Busy
<1>3. CASE Active(f) /\ f.phase # "draining" /\ f.dwell # 0
  <2>1. Cancel(f, why) = d
    BY <1>3 DEF Cancel
  <2>2. d \in Request
    BY <1>1, Zeros DEF Request, Phase
  <2>3. /\ d.dwell = f.dwell /\ d.last = f.last /\ d.plan = f.plan
        /\ d.done = f.done /\ d.drained = f.drained /\ d.phase = "draining"
    BY <1>1 DEF Request
  <2>4. Busy(f)
    BY <1>3 DEF Active, Busy, Requested
  <2> HIDE DEF d
  <2>5. GivesUp(f, d)
    BY <1>1, <2>2, <2>3, <2>4 DEF GivesUp, RequestOK, Requested
  <2> QED
    BY <2>1, <2>5
<1>4. CASE Active(f) /\ f.phase # "draining" /\ f.dwell = 0
  <2>1. Cancel(f, why) = e
    BY <1>4 DEF Cancel, EndCancellation
  <2>2. c \in Request
    BY <1>1, Zeros DEF Request
  <2>3. /\ c.dwell = f.dwell /\ c.last = f.last /\ c.plan = f.plan
        /\ c.done = f.done
    BY <1>1 DEF Request
  <2> HIDE DEF c
  <2>4. e \in Request
    BY <2>2, Zeros DEF Request, Phase
  <2>5. /\ e.dwell = 0 /\ e.last = c.last /\ e.plan = c.plan
        /\ e.done = c.done /\ e.phase \in {"timedOut", "cancelled"}
    BY <2>2 DEF Request
  <2> HIDE DEF e
  <2>6. GivesUp(f, e)
    BY <1>1, <1>4, <2>3, <2>4, <2>5 DEF GivesUp, RequestOK
  <2> QED
    BY <2>1, <2>6
<1> QED
  BY <1>2, <1>3, <1>4

\* Controller::fail makes a request give up.
LEMMA FailGivesUp ==
  ASSUME NEW f, RequestOK(f), NEW t, Requested(f, t)
  PROVE  GivesUp(f, FailRequest(f))
<1> DEFINE e == [f EXCEPT !.phase = "failed", !.reason = "other",
                          !.snapshot = 0, !.drained = (f.dwell = 0)]
<1>1. f \in Request /\ f.done <= Len(f.plan)
  BY DEF RequestOK
<1>2. CASE ~Active(f)
  <2>1. FailRequest(f) = f
    BY <1>2 DEF FailRequest
  <2> QED
    BY <1>1, <1>2, <2>1 DEF GivesUp, RequestOK, Requested, Active, Busy
<1>3. CASE Active(f)
  <2>1. FailRequest(f) = e
    BY <1>3 DEF FailRequest
  <2>2. e \in Request
    BY <1>1, Zeros DEF Request, Phase
  <2>3. /\ e.dwell = f.dwell /\ e.last = f.last /\ e.plan = f.plan
        /\ e.done = f.done /\ e.phase = "failed" /\ e.drained = (f.dwell = 0)
    BY <1>1 DEF Request
  <2> HIDE DEF e
  <2>4. GivesUp(f, e)
    BY <1>1, <2>2, <2>3 DEF GivesUp, RequestOK
  <2> QED
    BY <2>1, <2>4
<1> QED
  BY <1>2, <1>3

\* A request that gives up keeps its books, and owes no coverage.
LEMMA GivesUpKeeps ==
  ASSUME NEW f, NEW c, NEW t, Requested(f, t), GivesUp(f, c)
  PROVE  Requested(c, t)
  BY DEF Requested, GivesUp, Busy

\* Giving up twice, as when cancel() is followed by fail(), is giving up.
LEMMA GivesUpTwice ==
  ASSUME NEW f, NEW c, NEW e, GivesUp(f, c), GivesUp(c, e)
  PROVE  GivesUp(f, e)
  BY DEF GivesUp, Busy

\* The same request, whatever its state.
SameRequest(f, c) ==
  /\ c.last = f.last /\ c.plan = f.plan /\ c.active = f.active

\* Controller::endCancellation leaves the same request, over and with no dwell.
LEMMA EndCancellationIs ==
  ASSUME NEW f \in Request
  PROVE  LET c == EndCancellation(f)
         IN /\ c \in Request /\ SameRequest(f, c) /\ c.done = f.done
            /\ c.dwell = 0 /\ c.phase \in {"timedOut", "cancelled"}
<1> DEFINE c == EndCancellation(f)
<1>1. c = [f EXCEPT !.phase = IF f.reason = "timeout" THEN "timedOut"
                                                       ELSE "cancelled",
                    !.drained = TRUE, !.dwell = 0]
  BY DEF EndCancellation
<1>2. c \in Request
  BY <1>1, Zeros DEF Request, Phase
<1> QED
  BY <1>1, <1>2 DEF Request, SameRequest

\* The dwell of the request is over: the request ends or goes on to its next
\* channel, which it does only if the dwell was neither cancelled nor late and
\* an active one had its probe.
Lands(f, c, cancelled) ==
  /\ RequestOK(c) /\ SameRequest(f, c)
  /\ \/ /\ c.phase \in {"failed", "timedOut", "cancelled"}
        /\ c.dwell \in {0, f.dwell} /\ (c.drained => c.dwell = 0)
     \/ /\ c.phase = "queued" /\ c.dwell = 0 /\ c.done = f.done + 1
        /\ f.phase = "scanning" /\ ~cancelled /\ ~Late(f)
        /\ f.active => f.probe = "completed"

\* Controller::channelFinished lands a request that has a dwell.
LEMMA ChannelFinishedLands ==
  ASSUME NEW f, RequestOK(f), NEW t, Requested(f, t), Busy(f),
         NEW cancelled \in BOOLEAN
  PROVE  Lands(f, ChannelFinished(f, cancelled), cancelled)
<1> DEFINE e == IF Expires(f) THEN Cancel(f, "timeout") ELSE f
           h == [e EXCEPT !.dwell = 0, !.drained = TRUE]
           r == [h EXCEPT !.reason = "other"]
           n == [h EXCEPT !.done = @ + 1, !.phase = "queued"]
           x == [h EXCEPT !.phase = "failed", !.reason = "other",
                          !.snapshot = 0, !.drained = (h.dwell = 0)]
           c == ChannelFinished(f, cancelled)
<1>1. /\ f \in Request /\ f.done \in Nat /\ f.done < Len(f.plan)
      /\ f.dwell # 0 /\ Active(f) /\ f.phase \in {"scanning", "draining"}
      /\ Len(f.plan) \in Nat
  BY ConstantsAssumption DEF RequestOK, Request, Requested, Busy, Active
<1>2. c = CASE ~ClockValid(f) -> FailRequest(f)
            [] ClockValid(f) /\ e.phase = "draining" -> EndCancellation(h)
            [] ClockValid(f) /\ e.phase # "draining" /\ cancelled ->
                 EndCancellation(r)
            [] ClockValid(f) /\ e.phase # "draining" /\ ~cancelled
                 /\ f.active /\ f.probe # "completed" -> FailRequest(h)
            [] OTHER -> n
  BY DEF ChannelFinished
<1>3. GivesUp(f, Cancel(f, "timeout"))
  BY CancelGivesUp
<1>4. /\ e \in Request /\ e.done = f.done /\ SameRequest(f, e)
      /\ \/ e.phase = "draining"
         \/ e = f /\ f.phase = "scanning" /\ ~Late(f)
  <2>1. CASE Expires(f)
    <3>1. e = [[f EXCEPT !.reason = "timeout", !.snapshot = 0]
                 EXCEPT !.phase = "draining"]
      BY <1>1, <2>1 DEF Cancel, Expires
    <3> QED
      BY <1>1, <3>1, Zeros DEF Request, SameRequest, Phase
  <2>2. CASE ~Expires(f)
    BY <1>1, <2>2 DEF Expires, SameRequest
  <2> QED
    BY <2>1, <2>2
<1> HIDE DEF e
<1>5. /\ h \in Request /\ SameRequest(e, h) /\ h.done = e.done
      /\ h.phase = e.phase /\ h.dwell = 0 /\ h.drained
  BY <1>4, Zeros DEF Request, SameRequest
<1> HIDE DEF h
<1>6. CASE c = FailRequest(f)
  <2>1. /\ GivesUp(f, c) /\ c.phase = "failed" /\ c.active = f.active
    BY <1>1, <1>6, FailGivesUp DEF FailRequest, Request
  <2> QED
    BY <2>1 DEF GivesUp, Lands, SameRequest
<1>7. CASE c = EndCancellation(h)
  <2>1. /\ c \in Request /\ SameRequest(h, c) /\ c.done = h.done
        /\ c.dwell = 0 /\ c.phase \in {"timedOut", "cancelled"}
    BY <1>5, <1>7, EndCancellationIs
  <2> QED
    BY <1>1, <1>4, <1>5, <2>1 DEF Lands, SameRequest, RequestOK
<1>8. CASE c = EndCancellation(r)
  <2>1. r \in Request /\ SameRequest(h, r) /\ r.done = h.done
    BY <1>5 DEF Request, SameRequest
  <2>2. /\ c \in Request /\ SameRequest(r, c) /\ c.done = r.done
        /\ c.dwell = 0 /\ c.phase \in {"timedOut", "cancelled"}
    BY <1>8, <2>1, EndCancellationIs
  <2> QED
    BY <1>1, <1>4, <1>5, <2>1, <2>2 DEF Lands, SameRequest, RequestOK
<1>9. CASE c = FailRequest(h) /\ e = f /\ f.phase = "scanning"
  <2>1. c = x
    BY <1>5, <1>9 DEF FailRequest, Active
  <2>2. x \in Request
    BY <1>5, Zeros DEF Request, Phase
  <2>3. /\ SameRequest(h, x) /\ x.done = h.done /\ x.phase = "failed"
        /\ x.dwell = 0
    BY <1>5 DEF Request, SameRequest
  <2> HIDE DEF x
  <2> QED
    BY <1>1, <1>4, <1>5, <2>1, <2>2, <2>3 DEF Lands, SameRequest, RequestOK
<1>10. CASE /\ c = n /\ e = f /\ f.phase = "scanning" /\ ~Late(f)
            /\ ~cancelled /\ (f.active => f.probe = "completed")
  <2>1. h.done + 1 \in Nat
    BY <1>1, <1>4, <1>5
  <2>2. n \in Request
    BY <1>5, <2>1 DEF Request, Phase
  <2>3. /\ SameRequest(h, n) /\ n.done = h.done + 1 /\ n.phase = "queued"
        /\ n.dwell = 0
    BY <1>5 DEF Request, SameRequest
  <2> HIDE DEF n
  <2> QED
    BY <1>1, <1>4, <1>5, <1>10, <2>2, <2>3 DEF Lands, SameRequest, RequestOK
<1> QED
  BY <1>2, <1>4, <1>6, <1>7, <1>8, <1>9, <1>10

\* A request that has landed keeps its books.
LEMMA LandsKeeps ==
  ASSUME NEW f, NEW c, NEW t, NEW cancelled, Requested(f, t),
         Lands(f, c, cancelled)
  PROVE  Requested(c, t)
  BY DEF Requested, Lands, SameRequest, Busy

\* Controller::hardwareStopped ends any request and keeps a complete one.
LEMMA HardwareStoppedIs ==
  ASSUME NEW f, RequestOK(f), NEW t, Requested(f, t)
  PROVE  LET c == HardwareStopped(f)
         IN /\ RequestOK(c) /\ Requested(c, t)
            /\ c.phase \notin {"queued", "scanning", "draining"}
            /\ c.phase = "complete" => c = f
<1> DEFINE c == HardwareStopped(f)
           r == [f EXCEPT !.reason = IF @ = "none" THEN "other" ELSE @]
           x == [f EXCEPT !.dwell = 0, !.drained = TRUE]
<1>1. f \in Request /\ f.done <= Len(f.plan)
  BY DEF RequestOK
<1>2. CASE Active(f)
  <2>1. c = EndCancellation(r)
    BY <1>2 DEF HardwareStopped, Active
  <2>2. r \in Request /\ SameRequest(f, r) /\ r.done = f.done
    BY <1>1 DEF Request, SameRequest
  <2>3. /\ c \in Request /\ SameRequest(r, c) /\ c.done = r.done
        /\ c.dwell = 0 /\ c.phase \in {"timedOut", "cancelled"}
    BY <2>1, <2>2, EndCancellationIs
  <2> QED
    BY <1>1, <2>2, <2>3 DEF RequestOK, Requested, SameRequest, Busy
<1>3. CASE f.phase = "failed"
  <2>1. c = x
    BY <1>3 DEF HardwareStopped, Active
  <2>2. x \in Request
    BY <1>1, Zeros DEF Request
  <2>3. /\ x.dwell = 0 /\ x.last = f.last /\ x.plan = f.plan
        /\ x.done = f.done /\ x.phase = "failed"
    BY <1>1, <1>3 DEF Request
  <2> HIDE DEF x
  <2> QED
    BY <1>1, <2>1, <2>2, <2>3 DEF RequestOK, Requested, Busy
<1>4. CASE ~Active(f) /\ f.phase # "failed"
  <2>1. c = f
    BY <1>4 DEF HardwareStopped
  <2> QED
    BY <1>4, <2>1 DEF Active
<1> QED
  BY <1>2, <1>3, <1>4

\* Controller::accepted, for the request's next channel.
LEMMA AcceptedIs ==
  ASSUME NEW f, RequestOK(f), f.done < Len(f.plan), NEW op \in Dwell,
         op # 0
  PROVE  LET c == Accepted(f, op)
         IN /\ RequestOK(c) /\ c.phase = "scanning" /\ c.dwell = op
            /\ c.last = op /\ ~c.drained /\ c.plan = f.plan
            /\ c.done = f.done /\ c.active = f.active
<1> DEFINE c == Accepted(f, op)
<1>1. f \in Request
  BY DEF RequestOK
<1>2. c = [f EXCEPT !.phase = "scanning", !.dwell = op, !.last = op,
                    !.probe = "none", !.drained = FALSE]
  BY DEF Accepted
<1>3. c \in Request
  BY <1>1, <1>2 DEF Request, Phase, ProbeState
<1>4. /\ c.phase = "scanning" /\ c.dwell = op
      /\ c.last = op /\ ~c.drained /\ c.plan = f.plan
      /\ c.done = f.done /\ c.active = f.active
  BY <1>1, <1>2 DEF Request
<1> QED
  BY <1>3, <1>4 DEF RequestOK

----------------------------------------------------------------------------
(* Steps that end the request and the pass. *)

\* The types of what is left.
HostOK ==
  /\ protocol \in {"INIT", "SCAN", "OTHER"}
  /\ deferred \in {"no", "INIT", "SCAN"}
  /\ {enabled, faulted, stopping, halted, finished} \subseteq BOOLEAN
  /\ poll \in {"no", "station", "protocol"}
  /\ now \in Time

\* Of the probe.
Frames == [state : FrameState, op : Dwell]

\* Of the histories.
HistoryOK ==
  /\ tuned \in Seq(Channel) /\ Len(tuned) <= MaxOperation
  /\ swept \subseteq [op : Dwell, generation : Generation]
  /\ probed \subseteq Dwell

\* The type invariant by component.
LEMMA TypeParts ==
  ASSUME ObserverOK(obs)
  PROVE  TypeOK <=> /\ RequestOK(fg) /\ frame \in Frames /\ sta \in Station
                    /\ HostOK /\ HistoryOK
  BY DEF TypeOK, RequestOK, ObserverOK, Frames, HostOK, HistoryOK

\* The type invariant by component, after a step.
LEMMA TypePartsNext ==
  ASSUME ObserverOK(obs)'
  PROVE  TypeOK' <=> /\ RequestOK(fg') /\ frame' \in Frames /\ sta' \in Station
                     /\ HostOK' /\ HistoryOK'
  BY DEF TypeOK, RequestOK, ObserverOK, Frames, HostOK, HistoryOK

\* What the invariant says in the form the steps use it.
LEMMA InvParts ==
  ASSUME ScanInv
  PROVE  /\ RequestOK(fg) /\ ObserverOK(obs) /\ obs.working # obs.published
         /\ frame \in Frames /\ sta \in Station /\ HostOK /\ HistoryOK
         /\ Requested(fg, tuned) /\ Observed(obs, tuned, swept)
         /\ Attended /\ Probing /\ Len(tuned) \in Nat
         /\ Covering(fg, obs.generation, tuned, swept, probed)
         /\ fg.dwell \in Nat /\ fg.last \in Nat /\ sta.op \in Nat
<1>1. /\ ObserverOK(obs) /\ obs.working # obs.published
  BY DEF ScanInv, Observed, Banked
<1>2. /\ RequestOK(fg) /\ frame \in Frames /\ sta \in Station /\ HostOK
      /\ HistoryOK
  BY <1>1, TypeParts DEF ScanInv
<1>3. /\ Len(tuned) \in Nat /\ fg.dwell \in Nat /\ fg.last \in Nat
      /\ sta.op \in Nat
  BY <1>2, Sizes DEF RequestOK, Request, Station, Dwell, HistoryOK
<1> QED
  BY <1>1, <1>2, <1>3 DEF ScanInv

\* The station stays with its scan, or faults.
Stays(s, s2) ==
  /\ s2 \in Station /\ s2.op = s.op
  /\ s2.state \in ScanState => s.state \in ScanState
  /\ s.state \in {"dwell", "restoring", "faulted"} =>
       s2.state \in {"dwell", "restoring", "faulted"}

\* cancelScan() and a fault leave the station with its scan, and a cancelled
\* scan is marked so.
LEMMA StationStays ==
  ASSUME NEW s \in Station
  PROVE  /\ Stays(s, s) /\ Stays(s, FaultedStation(s))
         /\ Stays(s, CancelledScan(s)) /\ CancelledScan(s).cancelled
         /\ s.state \in ScanState => CancelledScan(s).state \in ScanState
  BY DEF Stays, Station, FaultedStation, CancelledScan, ScanState

\* A probe that is not the device's is taken back or left where it was.
FrameStays(fr, fr2) ==
  /\ fr2 \in Frames
  /\ fr2.state \in {"dma", "sent"} => fr2 = fr

\* dropForegroundHostProbe() leaves a probe the device has, or that was sent.
LEMMA DropStays ==
  ASSUME NEW fr \in Frames
  PROVE  FrameStays(fr, fr) /\ FrameStays(fr, Drop(fr))
  BY DEF FrameStays, Frames, Drop, FrameState

\* fail(): the request gives up, the pass ends and the driver is faulted.
LEMMA FaultDoes ==
  ASSUME NEW f, NEW o, NEW t, RequestOK(f), Requested(f, t), ObserverOK(o),
         o.working # o.published, Fault(f, o), HostOK
  PROVE  /\ GivesUp(f, fg') /\ Ended(o, obs') /\ faulted' /\ halted' = halted
         /\ protocol' = protocol /\ deferred' = deferred /\ enabled' = FALSE
         /\ stopping' = stopping /\ faulted' = TRUE
  BY FailGivesUp, CancelPassEnds DEF Fault

\* cancelForeground(): the request gives up, the pass ends, and the station is
\* told of it if the request still has a dwell, or faults.
LEMMA CancelForegroundDoes ==
  ASSUME NEW f, NEW o, NEW fr \in Frames, NEW s \in Station,
         NEW why \in {"timeout", "other"}, NEW t,
         RequestOK(f), Requested(f, t), ObserverOK(o),
         o.working # o.published, HostOK,
         Busy(f) => s.state \in ScanState \/ faulted \/ stopping,
         CancelForeground(f, o, fr, s, why)
  PROVE  /\ GivesUp(f, fg') /\ Ended(o, obs') /\ FrameStays(fr, frame')
         /\ sta' \in {s, CancelledScan(s), FaultedStation(s)}
         /\ halted' = halted /\ stopping' = stopping
         /\ \/ faulted' = TRUE
            \/ faulted' = faulted /\ (Busy(fg') => sta' = CancelledScan(s))
         /\ protocol' = protocol /\ deferred' = deferred
         /\ enabled' \in BOOLEAN /\ faulted' \in BOOLEAN
<1> DEFINE c == Cancel(f, why)
<1>1. GivesUp(f, c) /\ Requested(c, t) /\ RequestOK(c)
  BY CancelGivesUp, GivesUpKeeps DEF GivesUp
<1>2. FrameStays(fr, frame')
  BY DropStays DEF CancelForeground
<1>3. CASE /\ fg' = c /\ obs' = CancelPass(o) /\ UNCHANGED hostVars
           /\ sta' = IF c.phase = "draining" THEN CancelledScan(s) ELSE s
  <2>1. Busy(c) => c.phase = "draining"
    BY <1>1 DEF GivesUp, Busy
  <2> QED
    BY <1>1, <1>2, <1>3, <2>1, CancelPassEnds DEF hostVars, HostOK
<1>4. CASE Fault(c, o) /\ sta' = FaultedStation(s)
  <2>1. /\ GivesUp(c, fg') /\ Ended(o, obs') /\ halted' = halted
        /\ protocol' = protocol /\ deferred' = deferred /\ enabled' = FALSE
        /\ stopping' = stopping /\ faulted' = TRUE
    BY <1>1, <1>4, FaultDoes
  <2> QED
    BY <1>1, <1>2, <1>4, <2>1, GivesUpTwice
<1> QED
  BY <1>3, <1>4 DEF CancelForeground

\* A step in which the request gives up and the pass ends.
LEMMA GivesUpStep ==
  ASSUME ScanInv, GivesUp(fg, fg'), Ended(obs, obs'), Stays(sta, sta'),
         FrameStays(frame, frame'), UNCHANGED historyVars, HostOK',
         halted' = halted,
         \/ faulted' \/ stopping'
         \/ /\ ~faulted /\ ~stopping
            /\ Busy(fg') => sta'.state \in ScanState /\ sta'.cancelled
  PROVE  ScanInv'
<1> USE InvParts
<1>1. UNCHANGED <<tuned, swept, probed>>
  BY DEF historyVars
<1>2. Observed(obs, tuned, swept)'
  BY <1>1, EndedKeeps
<1>3. Requested(fg, tuned)'
  BY <1>1, GivesUpKeeps
<1>4. Attended'
  BY <1>1 DEF Attended, GivesUp, Stays, Busy
<1>5. Probing'
  BY <1>1 DEF Probing, ProbeInItsDwell, FrameStays, Stays
<1>6. Covering(fg, obs.generation, tuned, swept, probed)'
  BY <1>1 DEF Covering, GivesUp
<1>7. TypeOK'
  <2>1. ObserverOK(obs)' /\ HistoryOK'
    BY <1>1 DEF Ended, HistoryOK
  <2> QED
    BY <2>1, TypePartsNext DEF GivesUp, FrameStays, Stays
<1> QED
  BY <1>2, <1>3, <1>4, <1>5, <1>6, <1>7 DEF ScanInv

\* cancelForeground() as the whole step of the scan, on the probe fr.
LEMMA CancelForegroundStep ==
  ASSUME ScanInv, NEW fr, FrameStays(frame, fr), NEW why \in {"timeout", "other"},
         CancelForeground(fg, obs, fr, sta, why),
         UNCHANGED historyVars, finished' \in BOOLEAN,
         poll' \in {"no", "station", "protocol"}, now' \in Time
  PROVE  ScanInv'
<1> USE InvParts
<1>1. /\ GivesUp(fg, fg') /\ Ended(obs, obs') /\ FrameStays(fr, frame')
      /\ sta' \in {sta, CancelledScan(sta), FaultedStation(sta)}
      /\ halted' = halted /\ stopping' = stopping
      /\ \/ faulted' = TRUE
         \/ faulted' = faulted /\ (Busy(fg') => sta' = CancelledScan(sta))
      /\ protocol' = protocol /\ deferred' = deferred
      /\ enabled' \in BOOLEAN /\ faulted' \in BOOLEAN
  BY CancelForegroundDoes DEF Attended, FrameStays
<1>2. Stays(sta, sta')
  BY <1>1, StationStays
<1>3. FrameStays(frame, frame')
  BY <1>1 DEF FrameStays
<1>4. HostOK'
  BY <1>1 DEF HostOK
<1>5. \/ faulted' \/ stopping'
      \/ /\ ~faulted /\ ~stopping
         /\ Busy(fg') => sta'.state \in ScanState /\ sta'.cancelled
  <2>1. CASE faulted \/ stopping \/ faulted'
    BY <1>1, <2>1
  <2>2. CASE ~faulted /\ ~stopping /\ ~faulted'
    <3>1. Busy(fg') => Busy(fg)
      BY <1>1 DEF GivesUp, Busy
    <3> QED
      BY <1>1, <2>2, <3>1, StationStays DEF Attended
  <2> QED
    BY <2>1, <2>2
<1> QED
  BY <1>1, <1>2, <1>3, <1>4, <1>5, GivesUpStep

\* fail() as the whole step of the scan.
LEMMA FaultStep ==
  ASSUME ScanInv, Fault(fg, obs), sta' \in {sta, FaultedStation(sta)},
         FrameStays(frame, frame'),
         UNCHANGED historyVars, finished' \in BOOLEAN,
         poll' \in {"no", "station", "protocol"}, now' \in Time
  PROVE  ScanInv'
<1> USE InvParts
<1>1. /\ GivesUp(fg, fg') /\ Ended(obs, obs') /\ faulted' /\ halted' = halted
      /\ protocol' = protocol /\ deferred' = deferred /\ enabled' = FALSE
      /\ stopping' = stopping /\ faulted' = TRUE
  BY FaultDoes
<1>2. Stays(sta, sta')
  BY StationStays
<1>3. HostOK'
  BY <1>1 DEF HostOK
<1> QED
  BY <1>1, <1>2, <1>3, GivesUpStep

----------------------------------------------------------------------------
(* Steps that leave the request where it is. *)

\* Nothing but the state of the probe changes in the request.
Carries(f, c) ==
  /\ RequestOK(c) /\ SameRequest(f, c)
  /\ c.phase = f.phase /\ c.done = f.done /\ c.dwell = f.dwell
  /\ c.drained = f.drained /\ c.snapshot = f.snapshot

\* An update of the probe is such a step.
LEMMA ProbeCarries ==
  ASSUME NEW f, RequestOK(f), NEW x \in ProbeState
  PROVE  Carries(f, f) /\ Carries(f, [f EXCEPT !.probe = x])
<1> DEFINE c == [f EXCEPT !.probe = x]
<1>1. f \in Request
  BY DEF RequestOK
<1>2. c \in Request
  BY <1>1 DEF Request
<1>3. /\ SameRequest(f, c) /\ c.phase = f.phase /\ c.done = f.done
      /\ c.dwell = f.dwell /\ c.drained = f.drained /\ c.snapshot = f.snapshot
  BY <1>1 DEF Request, SameRequest
<1> HIDE DEF c
<1>4. Carries(f, c)
  BY <1>2, <1>3 DEF Carries, RequestOK, SameRequest
<1>5. Carries(f, f)
  BY DEF Carries, SameRequest
<1> QED
  BY <1>4, <1>5 DEF c

\* A request of which only the probe changes keeps its books.
LEMMA CarriesKeeps ==
  ASSUME NEW f, NEW c, NEW t, Requested(f, t), Carries(f, c)
  PROVE  Requested(c, t)
  BY DEF Requested, Carries, SameRequest, Busy

\* What was covered stays so.
LEMMA CoveredStays ==
  ASSUME NEW t, NEW t2, NEW w, NEW w2, Grows(t, t2, w, w2), NEW p, NEW p2,
         p \subseteq p2, NEW c, NEW g, NEW active,
         Covered(c, g, active, t, w, p)
  PROVE  Covered(c, g, active, t2, w2, p2)
<1>1. Len(t) \in Nat /\ Len(t2) \in Nat
  BY DEF Grows
<1> QED
  BY <1>1 DEF Grows, Covered

\* The same for a request as a whole.
LEMMA CoveringStays ==
  ASSUME NEW f, NEW c, Carries(f, c), NEW g, NEW g2,
         g = g2 \/ f.phase \notin {"queued", "scanning"},
         NEW t, NEW t2, NEW w, NEW w2, Grows(t, t2, w, w2), NEW p, NEW p2,
         p \subseteq p2, Covering(f, g, t, w, p)
  PROVE  Covering(c, g2, t2, w2, p2)
  BY CoveredStays DEF Covering, Carries, SameRequest

\* Steps that carry the request on.
LEMMA CarriesStep ==
  ASSUME ScanInv, Carries(fg, fg'), Observed(obs, tuned, swept)',
         obs'.generation = obs.generation
           \/ fg.phase \notin {"queued", "scanning"},
         UNCHANGED <<tuned, swept>>, probed \subseteq probed', HistoryOK',
         Attended', Probing', sta' \in Station, frame' \in Frames, HostOK'
  PROVE  ScanInv'
<1> USE InvParts
<1>1. Grows(tuned, tuned', swept, swept')
  BY DEF Grows, HistoryOK
<1>2. Covering(fg, obs.generation, tuned, swept, probed)'
  BY <1>1, CoveringStays
<1>3. Requested(fg, tuned)'
  BY CarriesKeeps
<1>4. TypeOK'
  BY TypePartsNext DEF Observed, Carries
<1> QED
  BY <1>2, <1>3, <1>4 DEF ScanInv

\* A station that stays with its scan stays with the request.
LEMMA AttendedStays ==
  ASSUME ScanInv, Carries(fg, fg'), tuned' = tuned, Stays(sta, sta'),
         sta.cancelled => sta'.cancelled, halted => halted',
         \/ faulted' \/ stopping'
         \/ /\ ~faulted /\ ~stopping
            /\ sta.state \in ScanState => sta'.state \in ScanState
  PROVE  Attended'
  BY InvParts DEF Attended, Carries, SameRequest, Stays, Busy

----------------------------------------------------------------------------
(* The invariant holds at first. *)

\* The invariant holds with no request, no pass and no scan yet.
LEMMA ScanStart == Init => ScanInv
<1> SUFFICES ASSUME Init PROVE ScanInv
  OBVIOUS
<1> USE Zeros, Sizes
<1>1. /\ fg \in Request /\ fg.done = 0 /\ fg.plan = <<>> /\ fg.phase = "none"
      /\ ~fg.drained /\ fg.dwell = 0 /\ fg.last = 0
  BY DEF Init, Request, Phase, ProbeState
<1>2. /\ obs \in Observer /\ ~obs.live /\ ~obs.open /\ ~obs.pending
      /\ ~obs.has /\ obs.working # obs.published
      /\ \A b \in {0, 1} : obs.banks[b] = EmptyBank
  BY EmptyBankOK DEF Init, Observer, Mode
<1>3. ObserverOK(obs)
  BY <1>2, EmptyBankOK DEF ObserverOK
<1>4. Observed(obs, tuned, swept)
  BY <1>2, <1>3 DEF Observed, Passing, Banked
<1>5. /\ frame \in Frames /\ frame.state = "none" /\ sta \in Station
      /\ sta.op = 0 /\ sta.state = "idle"
  BY DEF Init, NoFrame, Home, Frames, FrameState, Station
<1>6. tuned = <<>> /\ swept = {} /\ probed = {} /\ Len(tuned) = 0
  BY DEF Init
<1>7. HostOK /\ HistoryOK
  <2>1. /\ protocol = "INIT" /\ deferred = "no" /\ enabled = TRUE
        /\ faulted = FALSE /\ stopping = FALSE /\ halted = FALSE
        /\ poll = "no" /\ finished = FALSE /\ now = 0
    BY DEF Init
  <2>2. HostOK
    BY <2>1 DEF HostOK
  <2>3. HistoryOK
    BY <1>6 DEF HistoryOK
  <2> QED
    BY <2>2, <2>3
<1>8. RequestOK(fg)
  BY <1>1 DEF RequestOK
<1>9. TypeOK
  BY <1>3, <1>5, <1>7, <1>8, TypeParts
<1>10. Requested(fg, tuned) /\ Attended
  BY <1>1, <1>5, <1>6 DEF Requested, Attended, Busy, ScanState
<1>11. Probing /\ Covering(fg, obs.generation, tuned, swept, probed)
  BY <1>1, <1>5 DEF Probing, ProbeInItsDwell, Covering
<1> QED
  BY <1>4, <1>9, <1>10, <1>11 DEF ScanInv

----------------------------------------------------------------------------
(* The steps of a poll. *)

\* cancelMacNetworkForegroundScan() keeps the invariant.
LEMMA CancelRequestKeeps == ScanInv /\ CancelRequest => ScanInv'
<1> SUFFICES ASSUME ScanInv, CancelRequest PROVE ScanInv'
  OBVIOUS
<1>1. /\ finished' \in BOOLEAN /\ poll' \in {"no", "station", "protocol"}
      /\ now' \in Time
  BY InvParts DEF CancelRequest, pollVars, HostOK
<1> QED
  BY <1>1, InvParts, DropStays, CancelForegroundStep DEF CancelRequest

\* A step that changes at most the poll, the clock and what net80211 is told.
LEMMA HostStep ==
  ASSUME ScanInv, UNCHANGED <<fg, obs, frame, sta, historyVars>>, HostOK',
         faulted' = faulted, stopping' = stopping, halted' = halted
  PROVE  ScanInv'
<1> USE InvParts
<1>1. UNCHANGED <<tuned, swept, probed>>
  BY DEF historyVars
<1>2. Carries(fg, fg')
  BY DEF Carries, SameRequest
<1>3. Attended' /\ Probing'
  BY <1>1 DEF Attended, Probing, ProbeInItsDwell
<1>4. HistoryOK'
  BY <1>1 DEF HistoryOK
<1> QED
  BY <1>1, <1>2, <1>3, <1>4, CarriesStep

\* poll(), first part, keeps the invariant.
LEMMA PollStartKeeps == ScanInv /\ PollStart => ScanInv'
<1> SUFFICES ASSUME ScanInv, PollStart PROVE ScanInv'
  OBVIOUS
<1> USE InvParts
<1>1. /\ finished' \in BOOLEAN /\ poll' \in {"no", "station", "protocol"}
      /\ now' \in Time /\ UNCHANGED historyVars
  BY DEF PollStart, HostOK
<1>2. CASE Fault(fg, obs) /\ UNCHANGED <<frame, sta, poll>>
  BY <1>1, <1>2, FaultStep, DropStays
<1>3. CASE ExpireForeground
  BY <1>1, <1>3, CancelForegroundStep, DropStays DEF ExpireForeground
<1>4. CASE UNCHANGED <<fg, obs, frame, sta, hostVars>>
  <2>1. HostOK'
    BY <1>1, <1>4 DEF HostOK, hostVars
  <2> QED
    BY <1>1, <1>4, <2>1, HostStep DEF hostVars
<1> QED
  BY <1>2, <1>3, <1>4 DEF PollStart

\* A station that reaches the channel keeps the invariant.
LEMMA StationTunesKeeps == ScanInv /\ StationTunes => ScanInv'
<1> SUFFICES ASSUME ScanInv, StationTunes PROVE ScanInv'
  OBVIOUS
<1> USE InvParts
<1>1. CASE /\ fg' \in {fg, [fg EXCEPT !.probe = "requested"]}
           /\ sta' = [sta EXCEPT !.state = IF sta.cancelled THEN "restoring"
                                                            ELSE "dwell"]
           /\ UNCHANGED <<obs, hostVars, pollVars>>
           /\ sta.state = "tuning"
           /\ UNCHANGED <<frame, now, historyVars>>
  <2>1. Carries(fg, fg')
    BY <1>1, ProbeCarries DEF ProbeState
  <2>2. /\ Stays(sta, sta') /\ sta'.state \in {"dwell", "restoring"}
        /\ sta'.cancelled = sta.cancelled
    BY <1>1 DEF Stays, Station, ScanState
  <2>3. UNCHANGED <<tuned, swept, probed, halted, faulted, stopping>>
    BY <1>1 DEF historyVars, hostVars
  <2>4. HostOK' /\ HistoryOK'
    BY <1>1, <2>3 DEF HostOK, HistoryOK, hostVars, pollVars
  <2>5. Attended'
    BY <1>1, <2>1, <2>2, <2>3, AttendedStays DEF ScanState
  <2>6. Probing'
    BY <1>1, <2>2, <2>3 DEF Probing, ProbeInItsDwell
  <2> QED
    BY <1>1, <2>1, <2>2, <2>3, <2>4, <2>5, <2>6, CarriesStep DEF Stays
<1>2. CASE /\ Fault(fg, obs) /\ sta' = FaultedStation(sta)
           /\ poll' = "no" /\ UNCHANGED finished
           /\ UNCHANGED <<frame, now, historyVars>>
  BY <1>2, FaultStep, DropStays DEF HostOK
<1> QED
  BY <1>1, <1>2 DEF StationTunes

\* The end of the dwell's time keeps the invariant.
LEMMA StationDwellEndsKeeps == ScanInv /\ StationDwellEnds => ScanInv'
<1> SUFFICES ASSUME ScanInv, StationDwellEnds PROVE ScanInv'
  OBVIOUS
<1> USE InvParts DEF StationDwellEnds
<1>1. Carries(fg, fg')
  BY DEF Carries, SameRequest
<1>2. /\ Stays(sta, sta') /\ sta'.state = "restoring"
      /\ sta'.cancelled = sta.cancelled
  BY DEF Stays, Station, ScanState
<1>3. UNCHANGED <<tuned, swept, probed, halted, faulted, stopping>>
  BY DEF historyVars, hostVars
<1>4. HostOK' /\ HistoryOK'
  BY <1>3 DEF HostOK, HistoryOK, hostVars, pollVars
<1>5. Attended'
  BY <1>1, <1>2, <1>3, AttendedStays DEF ScanState
<1>6. FrameStays(frame, frame')
  BY DropStays
<1>7. Probing'
  BY <1>2, <1>3, <1>6 DEF Probing, ProbeInItsDwell, FrameStays, Stays
<1> QED
  BY <1>1, <1>2, <1>3, <1>4, <1>5, <1>6, <1>7, CarriesStep
  DEF Stays, FrameStays

\* A fault of the station or the firmware keeps the invariant.
LEMMA StationFaultsKeeps == ScanInv /\ StationFaults => ScanInv'
  BY FaultStep, InvParts, DropStays DEF StationFaults, HostOK

\* pumpTx() on the probe of the dwell op.
LEMMA PumpStep ==
  ASSUME ScanInv, NEW op \in Dwell, Pump(op), UNCHANGED historyVars,
         finished' \in BOOLEAN, poll' \in {"no", "station", "protocol"},
         now' \in Time
  PROVE  ScanInv'
<1> USE InvParts
<1>1. CASE \/ Submitted(op)
           \/ /\ ProbeContext(op)
              /\ frame' = [state |-> "queued", op |-> op]
              /\ UNCHANGED <<fg, obs, sta, hostVars>>
  <2>1. /\ fg' \in {fg, [fg EXCEPT !.probe = "submitted"]}
        /\ frame'.op = op /\ frame'.state \in {"dma", "queued"}
        /\ frame' \in Frames
        /\ sta.op = op /\ sta.state = "dwell"
        /\ UNCHANGED <<obs, sta, hostVars>>
    BY <1>1 DEF Submitted, ProbeContext, Frames, FrameState
  <2>2. Carries(fg, fg')
    BY <2>1, ProbeCarries DEF ProbeState
  <2>3. UNCHANGED <<tuned, swept, probed, halted, faulted, stopping>>
    BY <2>1 DEF historyVars, hostVars
  <2>4. HostOK' /\ HistoryOK'
    BY <2>1, <2>3 DEF HostOK, HistoryOK, hostVars
  <2>5. Attended'
    BY <2>1, <2>2, <2>3, AttendedStays, StationStays
  <2>6. Probing'
    BY <2>1, <2>3 DEF Probing, ProbeInItsDwell
  <2> QED
    BY <2>1, <2>2, <2>3, <2>4, <2>5, <2>6, CarriesStep
<1> DEFINE fr == [state |-> "dropped", op |-> op]
<1>2. FrameStays(frame, fr)
  BY DEF FrameStays, Frames, FrameState
<1>3. CASE CancelForeground(fg, obs, fr, sta, "other")
  BY <1>2, <1>3, CancelForegroundStep
<1>4. CASE Fault(fg, obs) /\ frame' = fr /\ UNCHANGED sta
  BY <1>2, <1>4, FaultStep
<1> QED
  BY <1>1, <1>3, <1>4 DEF Pump

\* poll(), second part, keeps the invariant.
LEMMA PollProbeKeeps == ScanInv /\ PollProbe => ScanInv'
<1> SUFFICES ASSUME ScanInv, PollProbe PROVE ScanInv'
  OBVIOUS
<1> USE InvParts
<1>1. /\ finished' \in BOOLEAN /\ poll' \in {"no", "station", "protocol"}
      /\ now' \in Time /\ UNCHANGED historyVars
  BY DEF PollProbe, HostOK
<1>2. CASE Pump(fg.dwell)
  BY <1>1, <1>2, PumpStep DEF RequestOK, Request
<1>3. CASE CancelForeground(fg, obs, frame, sta, "other")
  BY <1>1, <1>3, CancelForegroundStep, DropStays
<1>4. CASE /\ UNCHANGED <<fg, obs, frame, sta, enabled, faulted, stopping,
                          halted>>
           /\ deferred' \in {"no", deferred}
           /\ protocol' \in {protocol, deferred}
           /\ protocol' # "no"
  <2>1. HostOK'
    BY <1>1, <1>4 DEF HostOK
  <2> QED
    BY <1>1, <1>4, <2>1, HostStep
<1>5. protocol \in {"INIT", "SCAN", "OTHER"} /\ deferred \in {"no", "INIT", "SCAN"}
  BY DEF HostOK
<1> QED
  BY <1>2, <1>3, <1>4, <1>5 DEF PollProbe

\* The next channel of a plan is a channel.
LEMMA NextChannel ==
  ASSUME NEW f, RequestOK(f), f.done < Len(f.plan)
  PROVE  /\ f.plan \in Seq(Channel) /\ f.done \in Nat
         /\ f.plan[f.done + 1] \in Channel
<1>1. f.plan \in Seq(Channel) /\ f.done \in Nat
  BY ConstantsAssumption DEF RequestOK, Request
<1> QED
  BY <1>1

\* The history of scans may grow by one while it is below its bound.
LEMMA AppendGrows ==
  ASSUME HistoryOK, NEW c \in Channel, Len(tuned) + 1 <= MaxOperation
  PROVE  LET u == Append(tuned, c)
         IN /\ u \in Seq(Channel) /\ Len(u) = Len(tuned) + 1
            /\ Len(u) <= MaxOperation /\ Len(tuned) + 1 \in Dwell
            /\ u[Len(tuned) + 1] = c /\ Grows(tuned, u, swept, swept)
<1>1. tuned \in Seq(Channel) /\ Len(tuned) \in Nat
  BY DEF HistoryOK
<1> QED
  BY <1>1, Sizes DEF Grows, Dwell

\* submitForegroundChannel() for a waiting request f and an observer o.
LEMMA SubmitChannelStep ==
  ASSUME ScanInv, NEW f, NEW o, RequestOK(f), f.phase = "queued",
         f.done < Len(f.plan), Requested(f, tuned),
         Observed(o, tuned, swept), sta.state = "idle",
         Covering(f, o.generation, tuned, swept, probed),
         SubmitChannel(f, o), finished' \in BOOLEAN,
         poll' \in {"no", "station", "protocol"}, now' \in Time
  PROVE  ScanInv'
<1> USE InvParts
<1> DEFINE c  == f.plan[f.done + 1]
           op == Len(tuned) + 1
           s  == [state |-> "tuning", op |-> op, active |-> f.active,
                  cancelled |-> FALSE]
           o1 == AcceptChannel(o, "foreground", c, op)
           a  == Accepted(f, op)
<1>1. ObserverOK(o) /\ o.working # o.published
  BY DEF Observed, Banked
<1>2. c \in Channel
  BY NextChannel
<1>3. frame.state # "dma" \/ halted
  BY DEF Probing, ProbeInItsDwell
<1>4. CASE op <= MaxOperation /\ tuned' = Append(tuned, c)
           /\ UNCHANGED <<swept, probed>>
           /\ IF o1.pending
                THEN /\ fg' = a /\ obs' = o1 /\ sta' = s
                     /\ UNCHANGED <<frame, hostVars>>
                ELSE CancelForeground(a, o1, frame, s, "other")
  <2>1. /\ tuned' \in Seq(Channel) /\ Len(tuned') = op /\ op \in Dwell
        /\ op \in Nat /\ op # 0 /\ Len(tuned') <= MaxOperation
        /\ tuned'[op] = c /\ Grows(tuned, tuned', swept, swept')
    BY <1>2, <1>4, AppendGrows
  <2>2. HistoryOK'
    BY <1>4, <2>1 DEF HistoryOK
  <2>3. /\ RequestOK(a) /\ a.phase = "scanning" /\ a.dwell = op
        /\ a.last = op /\ ~a.drained /\ a.plan = f.plan
        /\ a.done = f.done /\ a.active = f.active
    BY <2>1, AcceptedIs
  <2>4. Requested(a, tuned')
    BY <2>1, <2>3 DEF Requested
  <2>5. /\ s \in Station /\ s.state = "tuning" /\ s.op = op
    BY <2>1 DEF Station, RequestOK, Request, ScanState
  <2>6. /\ o1.generation = o.generation
        /\ \/ o1 = o /\ (~o.open \/ o.blocked)
           \/ Ended(o, o1)
           \/ Begins(o, o1, c, op)
    BY <1>1, <1>2, <2>1, AcceptChannelDoes
  <2>7. Observed(o, tuned', swept')
    BY <2>1, ObservedStays
  <2> HIDE DEF a, s, o1
  <2>8. CASE o1.pending
    <3>1. /\ fg' = a /\ obs' = o1 /\ sta' = s
          /\ UNCHANGED <<frame, hostVars>>
      BY <1>4, <2>8
    <3>2. Begins(o, o1, c, op)
      BY <2>6, <2>8 DEF Ended, Observed, Passing
    <3>3. Observed(obs, tuned, swept)'
      BY <1>2, <1>4, <3>1, <3>2, BeginsKeeps DEF HistoryOK
    <3>4. Attended'
      BY <2>1, <2>3, <2>5, <3>1 DEF Attended, ScanState
    <3>5. Probing'
      BY <1>3, <1>4, <3>1 DEF Probing, ProbeInItsDwell, hostVars
    <3>6. Covering(fg, obs.generation, tuned, swept, probed)'
      BY <1>4, <2>1, <2>3, <2>6, <3>1, CoveredStays DEF Covering
    <3>7. HostOK'
      BY <3>1 DEF HostOK, hostVars
    <3>8. TypeOK'
      BY <2>2, <2>3, <2>5, <3>1, <3>3, <3>7, TypePartsNext DEF Observed
    <3> QED
      BY <2>4, <3>1, <3>3, <3>4, <3>5, <3>6, <3>8 DEF ScanInv
  <2>9. CASE ~o1.pending
    <3>1. Observed(o1, tuned', swept')
      BY <2>6, <2>7, <2>9, EndedKeeps DEF Begins
    <3>2. /\ GivesUp(a, fg') /\ Ended(o1, obs') /\ FrameStays(frame, frame')
          /\ sta' \in {s, CancelledScan(s), FaultedStation(s)}
          /\ halted' = halted /\ stopping' = stopping
          /\ \/ faulted' = TRUE
             \/ faulted' = faulted /\ (Busy(fg') => sta' = CancelledScan(s))
          /\ protocol' = protocol /\ deferred' = deferred
          /\ enabled' \in BOOLEAN /\ faulted' \in BOOLEAN
      BY <1>4, <2>3, <2>4, <2>5, <2>9, <3>1, CancelForegroundDoes
      DEF Observed, Banked, ScanState
    <3>3. Observed(obs, tuned, swept)' /\ Requested(fg, tuned)'
      BY <2>4, <3>1, <3>2, EndedKeeps, GivesUpKeeps
    <3>4. Stays(s, sta')
      BY <2>5, <3>2, StationStays
    <3>5. Attended'
      <4>1. CancelledScan(s).cancelled /\ CancelledScan(s).state \in ScanState
        BY <2>5, StationStays DEF ScanState
      <4> QED
        BY <2>1, <2>3, <2>5, <3>2, <3>4, <4>1 DEF Attended, GivesUp, Stays, Busy
    <3>6. Probing'
      BY <1>3, <1>4, <3>2 DEF Probing, ProbeInItsDwell, FrameStays
    <3>7. Covering(fg, obs.generation, tuned, swept, probed)'
      BY <2>3, <3>2 DEF Covering, GivesUp
    <3>8. HostOK'
      BY <3>2 DEF HostOK
    <3>9. TypeOK'
      BY <2>2, <3>2, <3>3, <3>4, <3>8, TypePartsNext
      DEF Observed, GivesUp, FrameStays, Stays
    <3> QED
      BY <3>3, <3>5, <3>6, <3>7, <3>9 DEF ScanInv
  <2> QED
    BY <2>8, <2>9
<1>5. CASE /\ Fault(f, o) /\ sta' = FaultedStation(sta)
           /\ UNCHANGED <<frame, historyVars>>
  <2>1. /\ GivesUp(f, fg') /\ Ended(o, obs') /\ faulted' /\ halted' = halted
        /\ protocol' = protocol /\ deferred' = deferred /\ enabled' = FALSE
        /\ stopping' = stopping /\ faulted' = TRUE
    BY <1>1, <1>5, FaultDoes
  <2>2. UNCHANGED <<tuned, swept, probed, frame>>
    BY <1>5 DEF historyVars
  <2>3. /\ sta' \in Station /\ sta'.op = sta.op /\ sta'.state = "faulted"
    BY <1>5 DEF FaultedStation, Station
  <2>4. Observed(obs, tuned, swept)' /\ Requested(fg, tuned)'
    BY <2>1, <2>2, EndedKeeps, GivesUpKeeps
  <2>5. Attended' /\ Probing'
    BY <1>3, <2>1, <2>2, <2>3
    DEF Attended, Probing, ProbeInItsDwell, ScanState
  <2>6. Covering(fg, obs.generation, tuned, swept, probed)'
    BY <2>1, <2>2 DEF Covering, GivesUp
  <2>7. HostOK' /\ HistoryOK'
    BY <2>1, <2>2 DEF HostOK, HistoryOK
  <2>8. TypeOK'
    BY <2>1, <2>2, <2>3, <2>4, <2>7, TypePartsNext DEF Observed, GivesUp
  <2> QED
    BY <2>4, <2>5, <2>6, <2>8 DEF ScanInv
<1> QED
  BY <1>4, <1>5 DEF SubmitChannel

\* beginForeground() keeps the invariant.
LEMMA BeginForegroundKeeps ==
  ASSUME ScanInv, NEW plan \in Plan, NEW active \in BOOLEAN,
         BeginForeground(plan, active)
  PROVE  ScanInv'
<1> USE InvParts
<1> DEFINE f == Begun(plan, active)
           o == BeginPass(obs, "foreground", {plan[i] : i \in DOMAIN plan})
<1>1. /\ sta.state = "idle" /\ ~obs.open /\ fg.request < MaxRequest
      /\ now + Timeout <= MaxTime
      /\ finished' = finished /\ poll' = poll /\ now' = now
  BY DEF BeginForeground, pollVars
<1>2. /\ plan \in Seq(Channel) /\ plan # <<>> /\ Len(plan) \in Nat
      /\ {plan[i] : i \in DOMAIN plan} \in SUBSET Channel /\ Len(plan) # 0
  BY ConstantsAssumption
<1>3. /\ f \in Request
  <2>1. fg.request + 1 \in 0 .. MaxRequest /\ fg \in Request
    BY <1>1, Sizes DEF RequestOK, Request
  <2> QED
    BY <2>1, Zeros DEF Begun, Request, Phase, ProbeState, HostOK
<1>4. /\ f.phase = "queued" /\ f.plan = plan /\ f.done = 0 /\ f.dwell = 0
      /\ f.last = fg.last
  BY DEF Begun
<1>5. RequestOK(f) /\ f.done < Len(f.plan)
  BY <1>2, <1>3, <1>4 DEF RequestOK
<1> HIDE DEF f
<1>6. Requested(f, tuned)
  BY <1>4 DEF Requested, Busy
<1>7. /\ finished' \in BOOLEAN /\ poll' \in {"no", "station", "protocol"}
      /\ now' \in Time
  BY <1>1 DEF HostOK
<1>8. Observed(o, tuned, swept)
  BY <1>1, <1>2, BeginPassDoes, EndedKeeps, OpenedKeeps DEF Mode
<1> HIDE DEF o
<1>9. Covering(f, o.generation, tuned, swept, probed)
  BY <1>4 DEF Covering
<1>10. CASE SubmitChannel(f, o)
  BY <1>1, <1>4, <1>5, <1>6, <1>7, <1>8, <1>9, <1>10, SubmitChannelStep
<1>11. CASE /\ fg' = FailRequest(f) /\ obs' = CancelPass(o)
            /\ UNCHANGED <<frame, sta, hostVars, historyVars>>
  <2>1. GivesUp(f, fg') /\ Ended(o, obs')
    BY <1>5, <1>6, <1>8, <1>11, FailGivesUp, CancelPassEnds
    DEF Observed, Banked
  <2>2. UNCHANGED <<tuned, swept, probed, halted, faulted, stopping>>
    BY <1>11 DEF historyVars, hostVars
  <2>3. Observed(obs, tuned, swept)' /\ Requested(fg, tuned)'
    BY <1>6, <1>8, <2>1, <2>2, EndedKeeps, GivesUpKeeps
  <2>4. Attended' /\ Probing'
    BY <1>1, <1>4, <1>11, <2>1, <2>2
    DEF Attended, Probing, ProbeInItsDwell, GivesUp, Busy, ScanState
  <2>5. Covering(fg, obs.generation, tuned, swept, probed)'
    BY <1>4, <2>1 DEF Covering, GivesUp
  <2>6. HostOK' /\ HistoryOK'
    BY <1>1, <1>11, <2>2 DEF HostOK, HistoryOK, hostVars
  <2>7. TypeOK'
    BY <1>11, <2>1, <2>3, <2>6, TypePartsNext DEF Observed, GivesUp
  <2> QED
    BY <2>3, <2>4, <2>5, <2>7 DEF ScanInv
<1> QED
  BY <1>10, <1>11 DEF BeginForeground, f, o

\* Controller::complete names the pass and leaves the same request.
LEMMA CompleteIs ==
  ASSUME NEW f, RequestOK(f), NEW g \in Generation
  PROVE  LET c == [f EXCEPT !.phase = "complete", !.drained = TRUE,
                            !.snapshot = g]
         IN /\ RequestOK(c) /\ SameRequest(f, c) /\ c.phase = "complete"
            /\ c.snapshot = g /\ c.dwell = f.dwell
<1> DEFINE c == [f EXCEPT !.phase = "complete", !.drained = TRUE,
                          !.snapshot = g]
<1>1. f \in Request
  BY DEF RequestOK
<1>2. c \in Request
  BY <1>1 DEF Request, Phase
<1>3. /\ SameRequest(f, c) /\ c.phase = "complete" /\ c.snapshot = g
      /\ c.dwell = f.dwell /\ c.done = f.done
  BY <1>1 DEF Request, SameRequest
<1> HIDE DEF c
<1>4. RequestOK(c)
  BY <1>2, <1>3 DEF RequestOK, SameRequest
<1> QED
  BY <1>3, <1>4 DEF c

\* The pass ends while no request scans and nothing else happens.
LEMMA QuietStep ==
  ASSUME ScanInv, RequestOK(fg'), Requested(fg', tuned), ~Busy(fg'),
         fg'.dwell = fg.dwell, fg'.last = fg.last,
         Observed(obs', tuned, swept), UNCHANGED <<frame, sta, historyVars>>,
         Covering(fg', obs'.generation, tuned, swept, probed),
         halted' = halted, HostOK'
  PROVE  ScanInv'
<1> USE InvParts
<1>1. UNCHANGED <<tuned, swept, probed>>
  BY DEF historyVars
<1>2. Attended' /\ Probing'
  BY <1>1 DEF Attended, Probing, ProbeInItsDwell
<1>3. HistoryOK'
  BY <1>1 DEF HistoryOK
<1>4. TypeOK'
  BY <1>3, TypePartsNext DEF Observed
<1> QED
  BY <1>1, <1>2, <1>4 DEF ScanInv

\* finishForeground(): the request is complete with the pass just published.
LEMMA FinishStep ==
  ASSUME ScanInv, ReadyToFinish, Finish, finished' \in BOOLEAN,
         poll' \in {"no", "station", "protocol"}, now' \in Time
  PROVE  ScanInv'
<1> USE InvParts
<1>1. /\ fg.phase = "queued" /\ fg.done = Len(fg.plan) /\ fg.dwell = 0
      /\ UNCHANGED <<frame, sta, hostVars, historyVars>>
      /\ obs' = FinishPass(obs, "foreground")
  BY DEF ReadyToFinish, Finish, Requested
<1>2. /\ obs'.generation = obs.generation
      /\ \/ ~Publishable(obs, "foreground") /\ Ended(obs, obs')
         \/ Publishable(obs, "foreground") /\ Published(obs, obs')
  BY <1>1, FinishPassDoes DEF HostOK
<1>3. Observed(obs', tuned, swept)
  BY <1>2, EndedKeeps, PublishedKeeps
<1>4. HostOK' /\ halted' = halted
  BY <1>1 DEF HostOK, hostVars
<1>5. CASE Publishable(obs, "foreground")
  <2>1. fg' = [fg EXCEPT !.phase = "complete", !.drained = TRUE,
                         !.snapshot = obs.generation]
    BY <1>5 DEF Finish
  <2>2. /\ RequestOK(fg') /\ SameRequest(fg, fg') /\ fg'.phase = "complete"
        /\ fg'.snapshot = obs.generation /\ fg'.dwell = fg.dwell
    <3>1. obs.generation \in Generation
      BY DEF ObserverOK, Observer
    <3> QED
      BY <2>1, <3>1, CompleteIs
  <2>3. Requested(fg', tuned) /\ ~Busy(fg')
    BY <1>1, <2>2 DEF Requested, SameRequest, Busy
  <2>4. Covering(fg', obs'.generation, tuned, swept, probed)
    BY <1>1, <2>2 DEF Covering, SameRequest
  <2> QED
    BY <1>1, <1>3, <1>4, <2>2, <2>3, <2>4, QuietStep DEF SameRequest
<1>6. CASE ~Publishable(obs, "foreground")
  <2>1. GivesUp(fg, fg')
    BY <1>6, FailGivesUp DEF Finish
  <2>2. Requested(fg', tuned) /\ ~Busy(fg')
    BY <1>1, <2>1, GivesUpKeeps DEF GivesUp, Busy
  <2>3. Covering(fg', obs'.generation, tuned, swept, probed)
    BY <1>1, <2>1 DEF Covering, GivesUp
  <2> QED
    BY <1>1, <1>3, <1>4, <2>1, <2>2, <2>3, QuietStep DEF GivesUp
<1> QED
  BY <1>5, <1>6

\* poll(), last part, keeps the invariant.
LEMMA PollEndKeeps == ScanInv /\ PollEnd => ScanInv'
<1> SUFFICES ASSUME ScanInv, PollEnd PROVE ScanInv'
  OBVIOUS
<1> USE InvParts
<1>1. /\ finished' \in BOOLEAN /\ poll' \in {"no", "station", "protocol"}
      /\ now' \in Time
  BY DEF PollEnd, HostOK
<1>2. CASE UNCHANGED <<fg, obs, frame, sta, hostVars, historyVars>>
  <2>1. HostOK' /\ faulted' = faulted /\ stopping' = stopping
        /\ halted' = halted
    BY <1>1, <1>2 DEF HostOK, hostVars
  <2> QED
    BY <1>2, <2>1, HostStep
<1>3. CASE Fault(fg, obs) /\ UNCHANGED <<frame, sta, historyVars>>
  BY <1>1, <1>3, FaultStep, DropStays
<1>4. CASE ExpireForeground /\ UNCHANGED historyVars
  BY <1>1, <1>4, CancelForegroundStep, DropStays DEF ExpireForeground
<1>5. CASE Advance
  <2>1. CASE ReadyToFinish /\ Finish
    BY <1>1, <2>1, FinishStep
  <2>2. CASE /\ fg.phase = "queued" /\ ~ReadyToFinish /\ sta.state = "idle"
             /\ SubmitChannel(fg, obs)
    <3>1. fg.done < Len(fg.plan)
      <4>1. fg.done \in Nat /\ Len(fg.plan) \in Nat
        BY ConstantsAssumption DEF RequestOK, Request
      <4> QED
        BY <2>2, <4>1 DEF ReadyToFinish, RequestOK
    <3> QED
      BY <1>1, <2>2, <3>1, SubmitChannelStep
  <2>3. CASE /\ CancelForeground(fg, obs, frame, sta, "other")
             /\ UNCHANGED historyVars
    BY <1>1, <2>3, CancelForegroundStep, DropStays
  <2>4. CASE Pump(frame.op) /\ UNCHANGED historyVars
    BY <1>1, <2>4, PumpStep DEF Frames
  <2> QED
    BY <1>2, <1>5, <2>1, <2>2, <2>3, <2>4 DEF Advance
<1> QED
  BY <1>2, <1>3, <1>4, <1>5 DEF PollEnd

\* The station comes home, which the request's owner and the observer hear.
LEMMA StationFinishesKeeps == ScanInv /\ StationFinishes => ScanInv'
<1> SUFFICES ASSUME ScanInv, StationFinishes PROVE ScanInv'
  OBVIOUS
<1> USE InvParts
<1> DEFINE mark == [op |-> sta.op, generation |-> obs.generation]
<1>1. /\ sta.state = "restoring" /\ frame.state # "dma" /\ sta' = Home
      /\ swept' = IF sta.cancelled \/ ~obs.open THEN swept
                  ELSE swept \cup {mark}
      /\ UNCHANGED <<hostVars, poll, now, tuned, probed>>
      /\ sta.op # 0 /\ sta.op \in 1 .. Len(tuned) /\ sta.op \in Dwell
      /\ sta.cancelled \in BOOLEAN
  <2>1. sta.op \in Dwell /\ sta.cancelled \in BOOLEAN
    BY DEF Station
  <2> QED
    BY <2>1 DEF StationFinishes, Drained, Attended, ScanState
<1>2. /\ sta' \in Station /\ sta'.state = "idle" /\ sta'.op = 0
  BY <1>1, Zeros DEF Home, Station
<1>3. mark \in [op : Dwell, generation : Generation]
  BY <1>1 DEF ObserverOK, Observer
<1>4. HistoryOK' /\ Grows(tuned, tuned', swept, swept')
  BY <1>1, <1>3 DEF HistoryOK, Grows
<1>5. /\ Observed(obs, tuned, swept')
      /\ obs.pending => obs.channel \in Channel
  <2>1. Observed(obs, tuned, swept')
    BY <1>1, <1>4, ObservedStays
  <2> QED
    BY <2>1 DEF Observed, Passing, ObserverOK, Observer
<1>6. CASE ~OwnsDwell(sta.op) /\ UNCHANGED <<fg, frame, finished>>
           /\ obs' = FinishChannel(obs, sta.op, sta.cancelled)
  <2>1. ~Busy(fg) \/ faulted \/ stopping
    BY <1>6 DEF OwnsDwell, Owns, Attended, Active, Busy, Requested
  <2>2. /\ obs'.generation = obs.generation
        /\ \/ obs' = obs
           \/ Ended(obs, obs')
           \/ Swept(obs, obs') /\ Sweeps(obs, sta.op) /\ ~sta.cancelled
    BY <1>1, <1>5, <1>6, FinishChannelDoes
  <2>3. Observed(obs, tuned, swept)'
    <3>1. CASE obs' = obs
      BY <1>1, <1>5, <3>1
    <3>2. CASE Ended(obs, obs')
      BY <1>1, <1>5, <3>2, EndedKeeps
    <3>3. CASE Swept(obs, obs') /\ Sweeps(obs, sta.op) /\ ~sta.cancelled
      <4>1. mark \in swept' /\ obs.dwell = sta.op
        BY <1>1, <3>3 DEF Sweeps
      <4> QED
        BY <1>1, <3>3, <4>1, SweptKeeps DEF HistoryOK
    <3> QED
      BY <2>2, <3>1, <3>2, <3>3
  <2>4. Requested(fg, tuned)'
    BY <1>1, <1>6
  <2>5. Attended' /\ Probing'
    BY <1>1, <1>2, <1>6, <2>1
    DEF Attended, Probing, ProbeInItsDwell, hostVars, ScanState
  <2>6. Covering(fg, obs.generation, tuned, swept, probed)'
    <3>1. Carries(fg, fg')
      BY <1>6, ProbeCarries DEF ProbeState
    <3>2. probed \subseteq probed'
      BY <1>1
    <3> QED
      BY <1>4, <2>2, <3>1, <3>2, CoveringStays
  <2>7. HostOK'
    BY <1>1, <1>6 DEF HostOK, hostVars
  <2>8. TypeOK'
    BY <1>2, <1>4, <1>6, <2>3, <2>7, TypePartsNext DEF Observed
  <2> QED
    BY <2>3, <2>4, <2>5, <2>6, <2>8 DEF ScanInv
<1>7. CASE OwnsDwell(sta.op) /\ ForegroundFinished(sta.op, sta.cancelled)
  <2> DEFINE cancelling == fg.phase = "draining" \/ Late(fg)
             whole == ~sta.cancelled /\ ~cancelling
             ok == ProbeOk(sta.op, whole)
             f1 == IF fg.active /\ whole /\ ok /\ fg.probe = "submitted"
                     THEN [fg EXCEPT !.probe = "completed"] ELSE fg
             f2 == ChannelFinished(f1, sta.cancelled)
             observed == whole /\ ok /\ Sweeps(obs, sta.op)
  <2>1. /\ fg' = IF whole /\ ~observed THEN FailRequest(f2) ELSE f2
        /\ obs' = IF observed THEN FinishChannel(obs, sta.op, FALSE)
                              ELSE CancelPass(obs)
        /\ frame' = IF fg.active /\ frame.state # "dma" THEN NoFrame
                                                        ELSE frame
        /\ finished' = TRUE
    BY <1>7 DEF ForegroundFinished
  <2>2. Busy(fg) /\ fg.dwell = sta.op
    BY <1>7 DEF OwnsDwell, Owns, Active, Busy, Requested
  <2>3. /\ Carries(fg, f1) /\ f1.started = fg.started
    <3>1. Carries(fg, f1)
      BY ProbeCarries DEF ProbeState
    <3>2. f1.started = fg.started
      BY DEF RequestOK, Request
    <3> QED
      BY <3>1, <3>2
  <2>4. Lands(f1, f2, sta.cancelled) /\ Requested(f1, tuned) /\ RequestOK(f1)
    BY <1>1, <2>2, <2>3, CarriesKeeps, ChannelFinishedLands
    DEF Carries, Busy
  <2>5. f2.phase = "queued" => whole
    BY <2>3, <2>4 DEF Lands, Carries, Late
  <2> HIDE DEF whole, ok, f1, f2
  <2>6. Requested(f2, tuned) /\ RequestOK(f2) /\ ~Busy(f2)
    BY <2>4, LandsKeeps DEF Lands, Busy
  <2>7. /\ Requested(fg', tuned) /\ RequestOK(fg') /\ ~Busy(fg')
        /\ fg'.last = fg.last
    <3>1. f2.last = fg.last
      BY <2>3, <2>4 DEF Lands, SameRequest, Carries
    <3>2. GivesUp(f2, FailRequest(f2))
      BY <2>6, FailGivesUp
    <3> QED
      BY <2>1, <2>6, <3>1, <3>2, GivesUpKeeps DEF GivesUp, Busy
  <2>8. /\ obs'.generation = obs.generation /\ Observed(obs, tuned, swept)'
    <3>1. CASE ~observed
      BY <1>1, <1>5, <2>1, <3>1, CancelPassEnds, EndedKeeps
    <3>2. CASE observed
      <4>1. /\ obs' = FinishChannel(obs, sta.op, FALSE)
            /\ Sweeps(obs, sta.op) /\ ~sta.cancelled
        BY <2>1, <3>2 DEF whole
      <4>2. obs'.generation = obs.generation /\ Swept(obs, obs')
        BY <1>5, <4>1, FinishChannelDoes
      <4>3. mark \in swept' /\ obs.dwell = sta.op
        BY <1>1, <4>1 DEF Sweeps
      <4> QED
        BY <1>1, <4>2, <4>3, SweptKeeps DEF HistoryOK
    <3> QED
      BY <3>1, <3>2
  <2>9. Covering(fg, obs.generation, tuned, swept, probed)'
    <3>1. CASE fg'.phase = "queued"
      <4>1. fg' = f2 /\ observed
        <5>1. FailRequest(f2).phase # "queued"
          BY <2>6, FailGivesUp DEF GivesUp
        <5> QED
          BY <2>1, <2>5, <3>1, <5>1
      <4>2. /\ f1.phase = "scanning" /\ fg'.done = fg.done + 1
            /\ fg'.plan = fg.plan /\ fg'.active = fg.active
            /\ fg.phase = "scanning" /\ (fg.active => f1.probe = "completed")
        BY <2>3, <2>4, <3>1, <4>1 DEF Lands, SameRequest, Carries
      <4>3. mark \in swept' /\ (fg.active => sta.op \in probed')
        <5>1. fg.active => frame.state = "sent" /\ frame.op = sta.op
          BY <4>1 DEF ok, ProbeOk, ProbeSucceeded
        <5> QED
          BY <1>1, <4>1, <5>1 DEF Probing, Sweeps, whole
      <4>4. Covered(fg.plan[fg.done + 1], obs'.generation, fg.active,
                    tuned', swept', probed')
        <5>1. tuned[sta.op] = fg.plan[fg.done + 1]
          BY <2>2 DEF Requested
        <5> QED
          BY <1>1, <2>8, <4>3, <5>1 DEF Covered
      <4>5. \A i \in 1 .. fg.done :
              Covered(fg.plan[i], obs'.generation, fg.active,
                      tuned', swept', probed')
        BY <1>1, <1>4, <2>8, <4>2, CoveredStays DEF Covering
      <4>6. fg.done \in Nat
        BY DEF RequestOK, Request
      <4> QED
        BY <3>1, <4>2, <4>4, <4>5, <4>6 DEF Covering
    <3>2. CASE fg'.phase # "queued"
      <4>1. fg'.phase # "complete" /\ fg'.phase # "scanning"
        <5>1. f2.phase \notin {"complete", "scanning"}
          BY <2>4 DEF Lands
        <5>2. GivesUp(f2, FailRequest(f2))
          BY <2>6, FailGivesUp
        <5> QED
          BY <2>1, <5>1, <5>2 DEF GivesUp
      <4> QED
        BY <3>2, <4>1 DEF Covering
    <3> QED
      BY <3>1, <3>2
  <2>10. frame' \in Frames /\ (frame'.state = "sent" => frame' = frame)
         /\ frame'.state # "dma"
    BY <1>1, <2>1, Zeros DEF NoFrame, Frames, FrameState
  <2>11. Attended' /\ Probing'
    BY <1>1, <1>2, <2>7, <2>10
    DEF Attended, Probing, ProbeInItsDwell, ScanState
  <2>12. HostOK'
    BY <1>1, <2>1 DEF HostOK, hostVars
  <2>13. TypeOK'
    BY <1>2, <1>4, <2>7, <2>8, <2>10, <2>12, TypePartsNext DEF Observed
  <2> QED
    BY <1>1, <2>7, <2>8, <2>9, <2>11, <2>13 DEF ScanInv
<1> QED
  BY <1>6, <1>7 DEF StationFinishes

\* newState(INIT), queueSelection() and enableGated(off) keep the invariant.
LEMMA ResetProtocolKeeps ==
  ASSUME ScanInv, NEW off \in BOOLEAN, ResetProtocol(off)
  PROVE  ScanInv'
<1> USE InvParts
<1> DEFINE f == Cancel(fg, "other")
<1>1. /\ UNCHANGED <<finished, now, historyVars>> /\ frame' = Drop(frame)
      /\ ~faulted /\ ~stopping /\ poll' \in {"no", poll}
  BY DEF ResetProtocol, Free
<1>2. GivesUp(fg, f) /\ FrameStays(frame, frame')
  BY <1>1, CancelGivesUp, DropStays
<1> HIDE DEF f
<1>3. CASE /\ fg' = f /\ obs' = CancelPass(obs) /\ sta' = Disconnected(sta)
           /\ deferred' = "INIT" /\ enabled' = (enabled /\ ~off)
           /\ UNCHANGED <<protocol, faulted, stopping, halted>>
  <2>1. Ended(obs, obs')
    BY <1>3, CancelPassEnds
  <2>2. HostOK'
    BY <1>1, <1>3 DEF HostOK
  <2>3. Stays(sta, sta')
    BY <1>3, StationStays DEF Disconnected
  <2>4. Busy(fg') => sta'.state \in ScanState /\ sta'.cancelled
    <3>1. Busy(fg') => Busy(fg)
      BY <1>2, <1>3 DEF GivesUp, Busy
    <3> QED
      BY <1>1, <1>3, <3>1, StationStays DEF Disconnected, Attended
  <2> QED
    BY <1>1, <1>2, <1>3, <2>1, <2>2, <2>3, <2>4, GivesUpStep
<1>4. CASE Fault(f, obs) /\ sta' = FaultedStation(sta)
  <2>1. RequestOK(f) /\ Requested(f, tuned)
    BY <1>2, GivesUpKeeps DEF GivesUp
  <2>2. /\ GivesUp(f, fg') /\ Ended(obs, obs') /\ halted' = halted
        /\ protocol' = protocol /\ deferred' = deferred /\ enabled' = FALSE
        /\ stopping' = stopping /\ faulted' = TRUE
    BY <1>4, <2>1, FaultDoes
  <2>3. GivesUp(fg, fg')
    BY <1>2, <2>2, GivesUpTwice
  <2>4. HostOK'
    BY <1>1, <2>2 DEF HostOK
  <2>5. Stays(sta, sta')
    BY <1>4, StationStays
  <2> QED
    BY <1>1, <1>2, <2>2, <2>3, <2>4, <2>5, GivesUpStep
<1> QED
  BY <1>3, <1>4 DEF ResetProtocol, f

\* enableGated(on) keeps the invariant.
LEMMA EnableKeeps == ScanInv /\ Enable => ScanInv'
  BY HostStep, InvParts DEF Enable, HostOK, pollVars

\* The clock keeps the invariant, in either direction.
LEMMA TickKeeps ==
  ASSUME ScanInv, NEW step \in ClockSteps, Tick(step)
  PROVE  ScanInv'
  BY HostStep, InvParts DEF Tick, HostOK, hostVars, pollVars

\* A request that is over says nothing of the pass that is open.
LEMMA OverCovering ==
  ASSUME ScanInv, ~Active(fg), fg' = fg, NEW g,
         NEW t, Grows(tuned, t, swept, swept)
  PROVE  Covering(fg', g, t, swept, probed)
<1>1. Carries(fg, fg')
  BY InvParts, ProbeCarries DEF ProbeState
<1>2. fg.phase \notin {"queued", "scanning"} /\ probed \subseteq probed
  BY DEF Active
<1> QED
  BY <1>1, <1>2, InvParts, CoveringStays

\* The request is over and the station is busy with something else.
LEMMA OverStep ==
  ASSUME ScanInv, ~Active(fg), fg' = fg, frame' = frame, HostOK',
         halted' = halted, faulted' = faulted, stopping' = stopping,
         UNCHANGED historyVars, Observed(obs', tuned, swept),
         sta' \in Station, halted \/ frame.state # "dma" \/ Stays(sta, sta'),
         sta'.state \in ScanState => Stays(sta, sta'),
         sta'.op \in {0, sta.op}
  PROVE  ScanInv'
<1> USE InvParts
<1>1. UNCHANGED <<tuned, swept, probed>> /\ HistoryOK'
  BY DEF historyVars, HistoryOK
<1>2. ~Busy(fg)
  BY DEF Active, Busy
<1>3. Attended'
  BY <1>1, <1>2 DEF Attended, Stays
<1>4. Probing'
  BY <1>1 DEF Probing, ProbeInItsDwell, Stays
<1>5. Grows(tuned, tuned, swept, swept)
  BY DEF Grows, HistoryOK
<1>6. Covering(fg', obs'.generation, tuned, swept, probed)
  BY <1>5, OverCovering
<1>7. TypeOK'
  BY <1>1, TypePartsNext DEF Observed
<1> QED
  BY <1>1, <1>3, <1>4, <1>6, <1>7 DEF ScanInv

\* protocolEvent(SCAN_DONE) keeps the invariant.
LEMMA OrdinaryDoneKeeps ==
  ASSUME ScanInv, NEW mode, OrdinaryDone(mode)
  PROVE  ScanInv'
<1> USE InvParts
<1>1. /\ ~Active(fg) /\ obs' = FinishPass(obs, mode)
      /\ UNCHANGED <<fg, frame, sta, hostVars, pollVars, now, historyVars>>
  BY DEF OrdinaryDone
<1>2. \/ Ended(obs, obs')
      \/ Publishable(obs, mode) /\ Published(obs, obs')
  BY <1>1, FinishPassDoes DEF HostOK
<1>3. Observed(obs', tuned, swept)
  BY <1>2, EndedKeeps, PublishedKeeps
<1>4. /\ HostOK' /\ halted' = halted /\ faulted' = faulted
      /\ stopping' = stopping
  BY <1>1 DEF HostOK, hostVars, pollVars
<1>5. Stays(sta, sta') /\ sta' \in Station
  BY <1>1, StationStays
<1> QED
  BY <1>1, <1>3, <1>4, <1>5, OverStep

\* newState(AUTH) with the station at home keeps the invariant.
LEMMA JoinKeeps == ScanInv /\ Join => ScanInv'
<1> SUFFICES ASSUME ScanInv, Join PROVE ScanInv'
  OBVIOUS
<1> USE InvParts
<1>1. /\ ~Active(fg) /\ obs' = CancelPass(obs) /\ sta.state = "idle"
      /\ sta' = [Home EXCEPT !.state = "busy"] /\ protocol' = "OTHER"
      /\ UNCHANGED <<fg, frame, deferred, enabled, faulted, stopping, halted,
                     pollVars, now, historyVars>>
  BY DEF Join
<1>2. Observed(obs', tuned, swept)
  BY <1>1, CancelPassEnds, EndedKeeps
<1>3. /\ HostOK' /\ halted' = halted /\ faulted' = faulted
      /\ stopping' = stopping
  BY <1>1 DEF HostOK, hostVars, pollVars
<1>4. /\ sta' \in Station /\ sta'.op = 0 /\ sta'.state \notin ScanState
  BY <1>1, Zeros DEF Home, Station, ScanState
<1>5. halted \/ frame.state # "dma"
  BY <1>1 DEF Probing, ProbeInItsDwell
<1> QED
  BY <1>1, <1>2, <1>3, <1>4, <1>5, OverStep

\* newState() while the station is working keeps the invariant.
LEMMA RescanKeeps ==
  ASSUME ScanInv, NEW scan \in BOOLEAN, Rescan(scan)
  PROVE  ScanInv'
<1> USE InvParts
<1>1. /\ ~Active(fg) /\ obs' = (IF scan THEN obs ELSE CancelPass(obs))
      /\ sta' = Disconnected(sta) /\ deferred' = "SCAN"
      /\ UNCHANGED <<fg, frame, protocol, enabled, faulted, stopping, halted,
                     pollVars, now, historyVars>>
  BY DEF Rescan
<1>2. Observed(obs', tuned, swept)
  BY <1>1, CancelPassEnds, EndedKeeps
<1>3. /\ HostOK' /\ halted' = halted /\ faulted' = faulted
      /\ stopping' = stopping
  BY <1>1 DEF HostOK, hostVars, pollVars
<1>4. Stays(sta, sta') /\ sta' \in Station /\ sta'.op = sta.op
  BY <1>1, StationStays DEF Disconnected, Stays
<1> QED
  BY <1>1, <1>2, <1>3, <1>4, OverStep

\* The end of a disconnect keeps the invariant.
LEMMA BusyEndsKeeps == ScanInv /\ BusyEnds => ScanInv'
<1> SUFFICES ASSUME ScanInv, BusyEnds PROVE ScanInv'
  OBVIOUS
<1> USE InvParts
<1>1. /\ sta.state = "busy" /\ fg' = Cancel(fg, "other")
      /\ obs' = CancelPass(obs) /\ sta' = Home /\ protocol' = "INIT"
      /\ UNCHANGED <<frame, deferred, enabled, faulted, stopping, halted,
                     pollVars, now, tuned, swept, probed>>
  BY DEF BusyEnds, historyVars
<1>2. GivesUp(fg, fg') /\ Requested(fg', tuned)
  BY <1>1, CancelGivesUp, GivesUpKeeps
<1>3. Observed(obs', tuned, swept) /\ obs'.generation = obs.generation
  BY <1>1, CancelPassEnds, EndedKeeps
<1>4. HostOK' /\ HistoryOK'
  BY <1>1 DEF HostOK, pollVars, HistoryOK
<1>5. sta' \in Station /\ sta'.op = 0 /\ sta'.state = "idle"
  BY <1>1, Zeros DEF Home, Station
<1>6. Attended'
  <2>1. ~(~faulted /\ ~stopping /\ Busy(fg))
    BY <1>1 DEF Attended, ScanState
  <2>2. Busy(fg') => Busy(fg)
    BY <1>2 DEF GivesUp, Busy
  <2> QED
    BY <1>1, <1>5, <2>1, <2>2 DEF Attended, ScanState
<1>7. Probing'
  BY <1>1 DEF Probing, ProbeInItsDwell
<1>8. Covering(fg', obs'.generation, tuned, swept, probed)
  BY <1>2 DEF Covering, GivesUp
<1>9. TypeOK'
  BY <1>1, <1>2, <1>3, <1>4, <1>5, TypePartsNext DEF Observed, GivesUp
<1> QED
  BY <1>1, <1>2, <1>3, <1>6, <1>7, <1>8, <1>9 DEF ScanInv

\* deliver() keeps the invariant.
LEMMA DeliverKeeps ==
  ASSUME ScanInv, NEW b \in Bssid, NEW c \in Channel, NEW fits \in BOOLEAN,
         Deliver(b, c, fits)
  PROVE  ScanInv'
<1> USE InvParts
<1> DEFINE e == [bssid |-> b, channel |-> c, at |-> now, dwell |-> sta.op]
<1>1. /\ Observes(sta.op, c) /\ obs' = Add(obs, e, fits)
      /\ UNCHANGED <<fg, frame, sta, hostVars, pollVars, now, historyVars>>
  BY DEF Deliver
<1>2. /\ e \in Entry /\ obs.pending /\ e.dwell = obs.dwell
      /\ e.channel = obs.channel
  BY <1>1 DEF Entry, Observes, Station, HostOK
<1> HIDE DEF e
<1>3. Observed(obs', tuned, swept)
  BY <1>1, <1>2, AddKeeps
<1>4. obs'.generation = obs.generation
  BY <1>1, <1>2, AddDoes DEF SameObserver
<1>5. HostOK' /\ HistoryOK' /\ UNCHANGED <<tuned, swept, probed, halted, faulted, stopping>>
  BY <1>1 DEF HostOK, hostVars, pollVars, HistoryOK, historyVars
<1>6. Carries(fg, fg')
  BY <1>1, ProbeCarries DEF ProbeState
<1>7. Attended' /\ Probing'
  BY <1>1, <1>5 DEF Attended, Probing, ProbeInItsDwell
<1> QED
  BY <1>1, <1>3, <1>4, <1>5, <1>6, <1>7, CarriesStep

\* The report of the probe's transmission keeps the invariant.
LEMMA TxReportKeeps ==
  ASSUME ScanInv, NEW ok \in BOOLEAN, TxReport(ok)
  PROVE  ScanInv'
<1> USE InvParts
<1>1. /\ frame' = [frame EXCEPT !.state = IF ok THEN "sent" ELSE "lost"]
      /\ probed' = (IF ok THEN probed \cup {frame.op} ELSE probed)
      /\ UNCHANGED <<fg, obs, sta, hostVars, pollVars, now, tuned, swept>>
  BY DEF TxReport
<1>2. /\ frame' \in Frames /\ frame'.op = frame.op /\ frame.op \in Dwell
      /\ frame'.state = IF ok THEN "sent" ELSE "lost"
  BY <1>1 DEF Frames, FrameState
<1>3. HostOK' /\ HistoryOK' /\ probed \subseteq probed'
  BY <1>1, <1>2 DEF HostOK, hostVars, pollVars, HistoryOK
<1>4. Carries(fg, fg')
  BY <1>1, ProbeCarries DEF ProbeState
<1>5. Attended' /\ Probing'
  BY <1>1, <1>2 DEF Attended, Probing, ProbeInItsDwell, hostVars
<1> QED
  BY <1>1, <1>2, <1>3, <1>4, <1>5, CarriesStep

\* output() keeps the invariant.
LEMMA OutputKeeps == ScanInv /\ Output => ScanInv'
  BY PumpStep, InvParts DEF Output, Frames, HostOK, pollVars

\* shutdown() keeps the invariant.
LEMMA ShutdownKeeps ==
  ASSUME ScanInv, NEW proven \in BOOLEAN, Shutdown(proven)
  PROVE  ScanInv'
<1> USE InvParts
<1> DEFINE f == Cancel(fg, "other")
<1>1. /\ ~halted /\ obs' = CancelPass(obs) /\ stopping' = TRUE
      /\ enabled' = FALSE /\ halted' = proven
      /\ fg' = (IF proven THEN HardwareStopped(f) ELSE f)
      /\ frame' = (IF proven THEN NoFrame ELSE Drop(frame))
      /\ UNCHANGED <<sta, protocol, deferred, faulted, pollVars, now,
                     historyVars>>
  BY DEF Shutdown
<1>2. /\ GivesUp(fg, f) /\ RequestOK(f) /\ Requested(f, tuned)
      /\ Ended(obs, obs')
  BY <1>1, CancelGivesUp, GivesUpKeeps, CancelPassEnds DEF GivesUp
<1> HIDE DEF f
<1>3. HostOK'
  BY <1>1 DEF HostOK, pollVars
<1>4. CASE ~proven
  <2>1. Stays(sta, sta') /\ FrameStays(frame, frame') /\ halted' = halted
    BY <1>1, <1>3, <1>4, StationStays, DropStays DEF HostOK
  <2> QED
    BY <1>1, <1>2, <1>3, <1>4, <2>1, GivesUpStep
<1>5. CASE proven
  <2>1. /\ RequestOK(fg') /\ Requested(fg', tuned)
        /\ fg'.phase \notin {"queued", "scanning", "draining"}
        /\ fg'.phase = "complete" => fg' = f
    BY <1>1, <1>2, <1>5, HardwareStoppedIs
  <2>2. UNCHANGED <<tuned, swept, probed, sta>> /\ HistoryOK'
    BY <1>1 DEF historyVars, HistoryOK
  <2>3. Observed(obs', tuned, swept)
    BY <1>2, EndedKeeps
  <2>4. frame' \in Frames /\ frame'.state = "none"
    BY <1>1, <1>5, Zeros DEF NoFrame, Frames, FrameState
  <2>5. Attended' /\ Probing'
    BY <1>1, <1>5, <2>1, <2>2, <2>4
    DEF Attended, Probing, ProbeInItsDwell, Busy
  <2>6. Covering(fg', obs'.generation, tuned, swept, probed)
    BY <1>2, <2>1 DEF Covering, GivesUp
  <2>7. TypeOK'
    BY <1>3, <2>1, <2>2, <2>3, <2>4, TypePartsNext DEF Observed
  <2> QED
    BY <2>1, <2>2, <2>3, <2>5, <2>6, <2>7 DEF ScanInv
<1> QED
  BY <1>4, <1>5

\* observeScanPlan() and then the channel, whose scan the station accepted.
LEMMA FollowKeeps ==
  ASSUME NEW o, NEW t \in Seq(Channel), NEW w, Observed(o, t, w),
         NEW mode \in Mode, NEW plan \in SUBSET Channel, NEW c \in Channel,
         Len(t) + 1 \in Dwell
  PROVE  LET b == BeginPass(o, mode, plan)
         IN /\ Observed(b, t, w)
            /\ Grows(t, Append(t, c), w, w) =>
                 Observed(AcceptChannel(b, mode, c, Len(t) + 1),
                          Append(t, c), w)
<1> DEFINE b == BeginPass(o, mode, plan)
           q == AcceptChannel(b, mode, c, Len(t) + 1)
<1>1. ObserverOK(o) /\ o.working # o.published
  BY DEF Observed, Banked
<1>2. Observed(b, t, w)
  BY <1>1, BeginPassDoes, EndedKeeps, OpenedKeeps
<1> HIDE DEF b
<1>3. ObserverOK(b) /\ b.working # b.published
  BY <1>2 DEF Observed, Banked
<1>4. q = b \/ Ended(b, q) \/ Begins(b, q, c, Len(t) + 1)
  BY <1>3, AcceptChannelDoes
<1> HIDE DEF q
<1>5. ASSUME Grows(t, Append(t, c), w, w)
      PROVE  Observed(q, Append(t, c), w)
  <2>1. Begins(b, q, c, Len(t) + 1) => Observed(q, Append(t, c), w)
    BY <1>2, BeginsKeeps
  <2>2. q = b \/ Ended(b, q) => Observed(q, t, w)
    BY <1>2, EndedKeeps
  <2> QED
    BY <1>4, <1>5, <2>1, <2>2, ObservedStays
<1> QED
  BY <1>2, <1>5 DEF q, b

\* newState(SCAN) with the station at home keeps the invariant.
LEMMA OrdinaryChannelKeeps ==
  ASSUME ScanInv, NEW c \in Channel, NEW mode \in OrdinaryMode,
         NEW plan \in SUBSET Channel, OrdinaryChannel(c, mode, plan)
  PROVE  ScanInv'
<1> USE InvParts
<1> DEFINE op == Len(tuned) + 1
           o == BeginPass(obs, mode, plan)
<1>1. /\ ~Active(fg) /\ sta.state = "idle"
      /\ UNCHANGED <<frame, finished, now, swept, probed>>
  BY DEF OrdinaryChannel
<1>2. mode \in Mode /\ ~Busy(fg)
  BY <1>1 DEF Mode, Active, Busy
<1>3. frame.state = "dma" => halted
  BY <1>1 DEF Probing, ProbeInItsDwell
<1>4. CASE /\ op <= MaxOperation
           /\ sta' = [state |-> "tuning", op |-> op, active |-> FALSE,
                      cancelled |-> FALSE]
           /\ tuned' = Append(tuned, c)
           /\ obs' = AcceptChannel(o, mode, c, op)
           /\ protocol' = "SCAN"
           /\ UNCHANGED <<fg, deferred, enabled, faulted, stopping, halted,
                          poll>>
  <2>1. /\ tuned' \in Seq(Channel) /\ Len(tuned') = op
        /\ Len(tuned') <= MaxOperation /\ op \in Dwell
        /\ Grows(tuned, tuned', swept, swept)
    BY <1>4, AppendGrows
  <2>2. Observed(obs', tuned', swept')
    BY <1>1, <1>2, <1>4, <2>1, FollowKeeps DEF HistoryOK
  <2>3. HistoryOK' /\ HostOK'
    BY <1>1, <1>4, <2>1 DEF HistoryOK, HostOK
  <2>4. /\ sta' \in Station /\ sta'.op = op /\ sta'.state = "tuning"
    BY <1>4, <2>1 DEF Station, ScanState
  <2>5. Requested(fg, tuned)'
    BY <1>2, <1>4, <2>1 DEF Requested, Busy
  <2>6. Attended'
    BY <1>2, <1>4, <2>1, <2>4 DEF Attended, Requested, Busy
  <2>7. Probing'
    BY <1>1, <1>3, <1>4 DEF Probing, ProbeInItsDwell
  <2>8. Covering(fg', obs'.generation, tuned', swept, probed)
    BY <1>1, <1>4, <2>1, OverCovering
  <2>9. TypeOK'
    BY <1>1, <1>4, <2>2, <2>3, <2>4, TypePartsNext DEF Observed
  <2> QED
    BY <1>1, <2>2, <2>5, <2>6, <2>7, <2>8, <2>9 DEF ScanInv
<1>5. CASE /\ Fault(fg, o) /\ sta' = FaultedStation(sta)
           /\ poll' = "no" /\ UNCHANGED tuned
  <2>1. Observed(o, tuned, swept)
    BY <1>2, BeginPassDoes, EndedKeeps, OpenedKeeps
  <2> HIDE DEF o
  <2>2. /\ GivesUp(fg, fg') /\ Ended(o, obs') /\ halted' = halted
        /\ protocol' = protocol /\ deferred' = deferred /\ enabled' = FALSE
        /\ stopping' = stopping /\ faulted' = TRUE
    BY <1>5, <2>1, FaultDoes DEF Observed, Banked
  <2>3. fg' = fg
    BY <1>1, <1>5 DEF Fault, FailRequest
  <2>4. Observed(obs, tuned, swept)' /\ Requested(fg, tuned)'
    BY <1>1, <1>5, <2>1, <2>2, <2>3, EndedKeeps
  <2>5. HostOK' /\ HistoryOK'
    BY <1>1, <1>5, <2>2 DEF HostOK, HistoryOK
  <2>6. sta' \in Station /\ sta'.op = sta.op /\ sta'.state = "faulted"
    BY <1>5 DEF FaultedStation, Station
  <2>7. Attended' /\ Probing'
    BY <1>1, <1>3, <1>5, <2>2, <2>3, <2>6
    DEF Attended, Probing, ProbeInItsDwell, ScanState
  <2>8. Grows(tuned, tuned', swept, swept)
    BY <1>5 DEF Grows, HistoryOK
  <2>9. Covering(fg', obs'.generation, tuned', swept, probed)
    BY <1>1, <2>3, <2>8, OverCovering
  <2>10. TypeOK'
    BY <1>1, <2>3, <2>4, <2>5, <2>6, TypePartsNext DEF Observed
  <2> QED
    BY <1>1, <2>4, <2>7, <2>9, <2>10 DEF ScanInv
<1> QED
  BY <1>4, <1>5 DEF OrdinaryChannel, ObserveScanPlan

\* Every step keeps the invariant.
LEMMA StepKeeps == ScanInv /\ [Next]_vars => ScanInv'
<1> SUFFICES ASSUME ScanInv, [Next]_vars PROVE ScanInv'
  OBVIOUS
<1>1. CASE UNCHANGED vars
  <2>1. HostOK'
    BY <1>1, InvParts DEF vars, hostVars, pollVars, HostOK
  <2> QED
    BY <1>1, <2>1, HostStep DEF vars, hostVars
<1> QED
  BY <1>1, BeginForegroundKeeps, CancelRequestKeeps, PollStartKeeps,
     PollProbeKeeps, PollEndKeeps, StationTunesKeeps, StationDwellEndsKeeps,
     StationFinishesKeeps, StationFaultsKeeps, BusyEndsKeeps,
     ResetProtocolKeeps, EnableKeeps, OrdinaryChannelKeeps,
     OrdinaryDoneKeeps, JoinKeeps, RescanKeeps, DeliverKeeps, TxReportKeeps,
     OutputKeeps, ShutdownKeeps, TickKeeps DEF Next

\* The invariant always holds.
LEMMA ScanAlways == Spec => []ScanInv
  BY ScanStart, StepKeeps, PTL DEF Spec

----------------------------------------------------------------------------
(* The theorems. *)

\* The types: counters within their widths, the index of a request within its
\* plan and neither bank of the cache over its capacity.
THEOREM ScanTypes == Spec => []TypeOK
<1>1. ScanInv => TypeOK
  BY DEF ScanInv
<1> QED
  BY <1>1, ScanAlways, PTL

\* A request that says it is drained has the station home from its last dwell,
\* or the hardware proven to have stopped: Attended lets a station be in the
\* last dwell only while the request still has it, and Requested gives a
\* drained request no dwell.
THEOREM DrainedAlwaysHome == Spec => []DrainedMeansHome
<1>1. ScanInv => DrainedMeansHome
  BY DEF ScanInv, Requested, Attended, DrainedMeansHome
<1> QED
  BY <1>1, ScanAlways, PTL

\* Whoever cancels a request in its dwell, the station is told: while it
\* drains, the station is in that dwell and knows that it is cancelled.
THEOREM CancellationAlwaysReaches == Spec => []CancellationReachesStation
<1>1. ScanInv => CancellationReachesStation
  BY DEF ScanInv, Attended, Busy, CancellationReachesStation
<1> QED
  BY <1>1, ScanAlways, PTL

\* The station leaves no channel while the device may still send that dwell's
\* probe.
THEOREM ProbeAlwaysInItsDwell == Spec => []ProbeInItsDwell
<1>1. ScanInv => ProbeInItsDwell
  BY DEF ScanInv, Probing
<1> QED
  BY <1>1, ScanAlways, PTL

\* A complete request has dwelt on all of its plan, uncancelled, in the pass
\* whose snapshot it names, and an active one sent its probe in each dwell.
THEOREM RequestsAnsweredWhole == Spec => []RequestAnswered
<1>1. ScanInv => RequestAnswered
  <2> SUFFICES ASSUME ScanInv PROVE RequestAnswered
    OBVIOUS
  <2>1. DOMAIN fg.plan = 1 .. Len(fg.plan)
    BY ConstantsAssumption, InvParts DEF RequestOK, Request
  <2> QED
    BY <2>1, InvParts DEF Covering, Covered, RequestAnswered
<1> QED
  BY <1>1, ScanAlways, PTL

\* All that readers see was heard while the station dwelt on its channel, in a
\* dwell that ended uncancelled in the published pass.
THEOREM SnapshotHeardInPlace == Spec => []HeardInPlace
<1>1. ScanInv => HeardInPlace
  BY DEF ScanInv, Observed, Banked, Heard, HeardInPlace
<1> QED
  BY <1>1, ScanAlways, PTL

----------------------------------------------------------------------------
(* The refinement: what a step does to the observer, as a reader sees it. *)

\* The reader sees no difference.
SameView(o, q) ==
  /\ SameObserver(o, q) /\ q.done = o.done /\ q.banks = o.banks
  /\ q.overflow = o.overflow

\* A pass over plan is under way that was not, later than all before it.
Opens(o, q, plan) ==
  /\ ~o.live /\ q.live /\ ~q.overflow
  /\ q.generation = o.generation + 1 /\ q.generation \in Generation
  /\ q.plan = plan /\ q.done = {} /\ q.banks[q.working].entries = {}
  /\ q.published = o.published /\ q.has = o.has
  /\ q.banks[o.published] = o.banks[o.published]

\* An observation is lost.
Loses(o, q) ==
  /\ SameObserver(o, q) /\ q.done = o.done /\ q.banks = o.banks
  /\ q.overflow

\* One of these is what a step does.
Moves(o, q) ==
  \/ SameView(o, q)
  \/ Ended(o, q)
  \/ \E plan \in SUBSET Channel : Opens(o, q, plan)
  \/ /\ \E e \in Entry : Hears(o, q, e) /\ e.channel = o.channel
     /\ SameObserver(o, q) /\ SameDwell(o, q) /\ o.pending
  \/ o.live /\ Loses(o, q)
  \/ Swept(o, q)
  \/ \E mode : Publishable(o, mode) /\ Published(o, q)

\* What readers see is left alone, whatever becomes of the pass.
Reaches(o, q) ==
  /\ ObserverOK(q) /\ q.generation >= o.generation
  /\ q.working = o.working /\ q.published = o.published /\ q.has = o.has
  /\ q.banks[o.published] = o.banks[o.published]

\* The number of a pass is a number.
LEMMA GenerationIs ==
  ASSUME NEW o, ObserverOK(o)
  PROVE  o.generation \in Int /\ o.generation \in Generation
  BY Sizes DEF ObserverOK, Observer, Generation

\* Any sequence of the steps that leave the snapshot alone does.
LEMMA ReachesAll ==
  ASSUME NEW o, ObserverOK(o)
  PROVE  /\ Reaches(o, o)
         /\ \A q : Ended(o, q) => Reaches(o, q)
         /\ \A q, plan : Opened(o, q, plan) => Reaches(o, q)
         /\ \A q, c, op : Begins(o, q, c, op) => Reaches(o, q)
  BY GenerationIs DEF Reaches, Ended, Opened, Begins

\* Two such steps after one another leave what readers see alone.
LEMMA ReachesOn ==
  ASSUME NEW o, NEW b, NEW q, ObserverOK(o), Reaches(o, b), Reaches(b, q)
  PROVE  Reaches(o, q)
  BY GenerationIs DEF Reaches

\* Observer::cancel after any of them.
LEMMA CancelAfter ==
  ASSUME NEW o, NEW b, ObserverOK(o), o.working # o.published, Reaches(o, b)
  PROVE  Ended(o, CancelPass(b))
<1> DEFINE q == CancelPass(b)
<1>1. Ended(b, q)
  BY CancelPassEnds DEF Reaches
<1> HIDE DEF q
<1>2. Reaches(b, q)
  BY <1>1, ReachesAll DEF Reaches
<1>3. Reaches(o, q)
  BY <1>2, ReachesOn
<1>4. Ended(o, q)
  BY <1>1, <1>3 DEF Ended, Reaches
<1> QED
  BY <1>4 DEF q

\* Observer::channelAccepted on an observer whose pass was open already.
LEMMA AcceptMoves ==
  ASSUME NEW o, ObserverOK(o), o.working # o.published, NEW mode,
         NEW c \in Channel, NEW op \in Dwell
  PROVE  LET q == AcceptChannel(o, mode, c, op)
         IN Moves(o, q) /\ Reaches(o, q)
<1> DEFINE q == AcceptChannel(o, mode, c, op)
<1>1. q = o \/ Ended(o, q) \/ Begins(o, q, c, op)
  BY AcceptChannelDoes
<1> HIDE DEF q
<1>2. Reaches(o, q)
  BY <1>1, ReachesAll
<1>3. q = o \/ Begins(o, q, c, op) => SameView(o, q)
  BY DEF SameView, SameObserver, Begins
<1> QED
  BY <1>1, <1>2, <1>3 DEF Moves, q

\* Observer::begin and channelAccepted: a pass is opened, or was open already.
LEMMA FollowMoves ==
  ASSUME NEW o, NEW t, NEW w, Observed(o, t, w), NEW mode \in Mode,
         NEW plan \in SUBSET Channel, NEW c \in Channel, NEW op \in Dwell,
         NEW m
  PROVE  LET b == BeginPass(o, m, plan)
             q == AcceptChannel(b, mode, c, op)
         IN m \in Mode => Moves(o, q) /\ Reaches(o, b) /\ Reaches(o, q)
<1> SUFFICES ASSUME m \in Mode
             PROVE  LET b == BeginPass(o, m, plan)
                        q == AcceptChannel(b, mode, c, op)
                    IN Moves(o, q) /\ Reaches(o, b) /\ Reaches(o, q)
  OBVIOUS
<1> DEFINE b == BeginPass(o, m, plan)
           q == AcceptChannel(b, mode, c, op)
<1>1. ObserverOK(o) /\ o.working # o.published
  BY DEF Observed, Banked
<1>2. \/ o.open /\ b = o
      \/ ~o.open /\ Ended(o, b)
      \/ ~o.open /\ Opened(o, b, plan)
  BY <1>1, BeginPassDoes
<1> HIDE DEF b
<1>3. Reaches(o, b)
  BY <1>1, <1>2, ReachesAll
<1>4. ObserverOK(b) /\ b.working # b.published
  BY <1>1, <1>3 DEF Reaches
<1>5. /\ Moves(b, q) /\ Reaches(b, q)
      /\ q = b \/ Ended(b, q) \/ Begins(b, q, c, op)
  BY <1>4, AcceptMoves, AcceptChannelDoes
<1> HIDE DEF q
<1>6. Reaches(o, q)
  BY <1>1, <1>3, <1>5, ReachesOn
<1>7. Moves(o, q)
  <2>1. CASE b = o
    BY <1>5, <2>1
  <2>2. CASE ~q.live /\ ~q.pending /\ (q.open => q.blocked)
    BY <1>6, <2>2 DEF Reaches, Ended, Moves
  <2>3. CASE Ended(o, b) /\ q = b
    BY <2>3 DEF Moves
  <2>4. CASE Ended(o, b) /\ Begins(b, q, c, op)
    BY <2>4 DEF Ended, Begins
  <2>5. CASE /\ ~o.open /\ Opened(o, b, plan)
             /\ q = b \/ Begins(b, q, c, op)
    <3>1. ~o.live
      BY <2>5 DEF Observed, Passing
    <3>2. b.banks[b.working].entries = {}
      BY <2>5, EmptyBankOK DEF Opened, EmptyBank
    <3>3. Opens(o, q, plan)
      BY <1>1, <1>4, <2>5, <3>1, <3>2, GenerationIs
      DEF Opens, Opened, Begins
    <3> QED
      BY <3>3 DEF Moves
  <2> QED
    BY <1>2, <1>5, <2>1, <2>2, <2>3, <2>4, <2>5 DEF Ended
<1> QED
  BY <1>3, <1>6, <1>7 DEF q, b

\* Most steps leave the observer alone or cancel its pass.
LEMMA QuietMoves ==
  ASSUME ScanInv, obs' \in {obs, CancelPass(obs)}
  PROVE  Moves(obs, obs')
<1>1. Ended(obs, CancelPass(obs))
  BY InvParts, CancelPassEnds
<1>2. SameView(obs, obs)
  BY DEF SameView, SameObserver
<1> QED
  BY <1>1, <1>2 DEF Moves

\* cancelForeground() and fail() cancel the pass of the observer they get.
LEMMA CancelsPass ==
  /\ \A f, o, fr, s, why : CancelForeground(f, o, fr, s, why) =>
       obs' = CancelPass(o)
  /\ \A f, o : Fault(f, o) => obs' = CancelPass(o)
  BY DEF CancelForeground, Fault

\* submitForegroundChannel(), for an observer o that begin() left.
LEMMA SubmitMoves ==
  ASSUME ScanInv, NEW f, NEW o, RequestOK(f), f.done < Len(f.plan),
         SubmitChannel(f, o), Reaches(obs, o),
         \A c \in Channel, op \in Dwell :
           LET q == AcceptChannel(o, "foreground", c, op)
           IN Moves(obs, q) /\ Reaches(obs, q)
  PROVE  Moves(obs, obs')
<1> USE InvParts
<1> DEFINE c == f.plan[f.done + 1]
           op == Len(tuned) + 1
           q == AcceptChannel(o, "foreground", c, op)
<1>1. c \in Channel
  BY NextChannel
<1>2. CASE op <= MaxOperation /\ obs' \in {q, CancelPass(q)}
  <2>1. op \in Dwell
    BY <1>2, Sizes DEF Dwell
  <2>2. Moves(obs, q) /\ Reaches(obs, q)
    BY <1>1, <2>1
  <2>3. Ended(obs, CancelPass(q))
    BY <2>2, CancelAfter
  <2> QED
    BY <1>2, <2>2, <2>3 DEF Moves
<1>3. CASE obs' = CancelPass(o)
  BY <1>3, CancelAfter DEF Moves
<1> QED
  <2>1. \/ op <= MaxOperation /\ obs' \in {q, CancelPass(q)}
        \/ obs' = CancelPass(o)
    BY CancelsPass DEF SubmitChannel
  <2> QED
    BY <1>2, <1>3, <2>1

\* Observer::finish publishes or ends the pass.
LEMMA FinishMoves ==
  ASSUME ScanInv, NEW mode, obs' = FinishPass(obs, mode)
  PROVE  Moves(obs, obs')
  BY InvParts, FinishPassDoes DEF HostOK, Moves

\* poll()'s last part finishes a pass, goes on to the next channel or cancels.
LEMMA PollEndMoves == ScanInv /\ PollEnd => Moves(obs, obs')
<1> SUFFICES ASSUME ScanInv, PollEnd PROVE Moves(obs, obs')
  OBVIOUS
<1> USE InvParts
<1>1. CASE Advance
  <2>1. CASE ReadyToFinish /\ Finish
    BY <2>1, FinishMoves DEF Finish
  <2>2. CASE fg.phase = "queued" /\ ~ReadyToFinish /\ SubmitChannel(fg, obs)
    <3>1. fg.done < Len(fg.plan)
      <4>1. fg.done \in Nat /\ Len(fg.plan) \in Nat
        BY ConstantsAssumption DEF RequestOK, Request
      <4> QED
        BY <2>2, <4>1 DEF ReadyToFinish, RequestOK
    <3>2. \A c \in Channel, op \in Dwell :
            LET q == AcceptChannel(obs, "foreground", c, op)
            IN Moves(obs, q) /\ Reaches(obs, q)
      BY AcceptMoves
    <3> QED
      BY <2>2, <3>1, <3>2, SubmitMoves, ReachesAll
  <2>3. CASE obs' \in {obs, CancelPass(obs)}
    BY <2>3, QuietMoves
  <2> QED
    BY <1>1, <2>1, <2>2, <2>3, CancelsPass DEF Advance, Pump, Submitted
<1>2. CASE obs' \in {obs, CancelPass(obs)}
  BY <1>2, QuietMoves
<1> QED
  BY <1>1, <1>2, CancelsPass DEF PollEnd, ExpireForeground

\* beginForeground() opens a pass.
LEMMA BeginForegroundMoves ==
  ASSUME ScanInv, NEW plan \in Plan, NEW active \in BOOLEAN,
         BeginForeground(plan, active)
  PROVE  Moves(obs, obs')
<1> USE InvParts
<1> DEFINE f == Begun(plan, active)
           s == {plan[i] : i \in DOMAIN plan}
           o == BeginPass(obs, "foreground", s)
<1>1. /\ plan \in Seq(Channel) /\ plan # <<>> /\ Len(plan) \in Nat
      /\ s \in SUBSET Channel /\ Len(plan) # 0
  BY ConstantsAssumption
<1>2. /\ fg.request < MaxRequest
      /\ SubmitChannel(f, o) \/ obs' = CancelPass(o)
  BY DEF BeginForeground
<1>3. f \in Request
  <2>1. fg.request + 1 \in 0 .. MaxRequest /\ fg \in Request
    BY <1>2, Sizes DEF RequestOK, Request
  <2> QED
    BY <2>1, Zeros DEF Begun, Request, Phase, ProbeState, HostOK
<1>4. RequestOK(f) /\ f.done < Len(f.plan)
  BY <1>1, <1>3 DEF Begun, RequestOK
<1> HIDE DEF f
<1>5. "foreground" \in Mode
  BY DEF Mode
<1>6. /\ \A c \in Channel, op \in Dwell :
           LET q == AcceptChannel(o, "foreground", c, op)
           IN Moves(obs, q) /\ Reaches(obs, q)
  BY <1>1, <1>5, FollowMoves
<1>7. Reaches(obs, o)
  BY <1>1, <1>5, BeginPassDoes, ReachesAll
<1> HIDE DEF o
<1> QED
  BY <1>2, <1>4, <1>6, <1>7, SubmitMoves, CancelAfter DEF Moves

\* newState(SCAN) opens a pass or follows the one that is open.
LEMMA OrdinaryChannelMoves ==
  ASSUME ScanInv, NEW c \in Channel, NEW mode \in OrdinaryMode,
         NEW plan \in SUBSET Channel, OrdinaryChannel(c, mode, plan)
  PROVE  Moves(obs, obs')
<1> USE InvParts
<1> DEFINE op == Len(tuned) + 1
           o == BeginPass(obs, mode, plan)
<1>1. \/ op <= MaxOperation /\ obs' = AcceptChannel(o, mode, c, op)
      \/ obs' = CancelPass(o)
  BY CancelsPass DEF OrdinaryChannel, ObserveScanPlan
<1>2. mode \in Mode
  BY DEF Mode
<1>3. Reaches(obs, o)
  BY <1>2, BeginPassDoes, ReachesAll
<1>4. CASE op <= MaxOperation /\ obs' = AcceptChannel(o, mode, c, op)
  <2>1. op \in Dwell
    BY <1>4, Sizes DEF Dwell
  <2> QED
    BY <1>2, <1>4, <2>1, FollowMoves
<1>5. CASE obs' = CancelPass(o)
  BY <1>3, <1>5, CancelAfter DEF Moves
<1> QED
  BY <1>1, <1>4, <1>5

\* The end of a dwell sweeps its channel or ends the pass.
LEMMA StationFinishesMoves == ScanInv /\ StationFinishes => Moves(obs, obs')
<1> SUFFICES ASSUME ScanInv, StationFinishes PROVE Moves(obs, obs')
  OBVIOUS
<1> USE InvParts
<1>1. /\ obs.pending => obs.channel \in Channel
      /\ sta.cancelled \in BOOLEAN /\ FALSE \in BOOLEAN
  BY DEF Observed, Passing, ObserverOK, Observer, Station
<1>2. \/ \E cancelled \in BOOLEAN :
           obs' = FinishChannel(obs, sta.op, cancelled)
      \/ obs' = CancelPass(obs)
  BY <1>1 DEF StationFinishes, ForegroundFinished
<1>3. CASE obs' = CancelPass(obs)
  BY <1>3, QuietMoves
<1>4. ASSUME NEW cancelled \in BOOLEAN,
             obs' = FinishChannel(obs, sta.op, cancelled)
      PROVE  Moves(obs, obs')
  <2>1. obs' = obs \/ Ended(obs, obs') \/ Swept(obs, obs')
    BY <1>1, <1>4, FinishChannelDoes
  <2> QED
    BY <2>1, QuietMoves DEF Moves
<1> QED
  BY <1>2, <1>3, <1>4

\* deliver() adds what was heard, or loses it.
LEMMA DeliverMoves ==
  ASSUME ScanInv, NEW b \in Bssid, NEW c \in Channel, NEW fits \in BOOLEAN,
         Deliver(b, c, fits)
  PROVE  Moves(obs, obs')
<1> USE InvParts
<1> DEFINE e == [bssid |-> b, channel |-> c, at |-> now, dwell |-> sta.op]
<1>1. Observes(sta.op, c) /\ obs' = Add(obs, e, fits)
  BY DEF Deliver
<1>2. e \in Entry /\ obs.pending /\ e.channel = obs.channel /\ obs.live
  BY <1>1 DEF Entry, Observes, Station, HostOK, Observed, Passing
<1> HIDE DEF e
<1>3. /\ SameObserver(obs, obs') /\ SameDwell(obs, obs')
      /\ \/ obs' = obs
         \/ ObserverOK(obs') /\ obs'.banks = obs.banks /\ obs'.overflow
         \/ Hears(obs, obs', e)
  BY <1>1, <1>2, AddDoes
<1> QED
  BY <1>2, <1>3, QuietMoves DEF Moves, Loses, SameDwell

\* Every step does one of the moves.
LEMMA StepMoves == ScanInv /\ [Next]_vars => Moves(obs, obs')
<1> SUFFICES ASSUME ScanInv, [Next]_vars PROVE Moves(obs, obs')
  OBVIOUS
<1>1. CASE \/ UNCHANGED vars
           \/ CancelRequest \/ PollStart \/ PollProbe \/ StationTunes
           \/ StationDwellEnds \/ StationFaults \/ BusyEnds
           \/ \E off \in BOOLEAN : ResetProtocol(off)
           \/ Enable \/ Join \/ \E scan \in BOOLEAN : Rescan(scan)
           \/ \E ok \in BOOLEAN : TxReport(ok)
           \/ Output \/ \E proven \in BOOLEAN : Shutdown(proven)
           \/ \E step \in ClockSteps : Tick(step)
  <2>1. obs' \in {obs, CancelPass(obs)}
    BY <1>1, CancelsPass
    DEF vars, CancelRequest, PollStart, PollProbe, StationTunes,
        StationDwellEnds, StationFaults, BusyEnds, ResetProtocol, Enable,
        Join, Rescan, TxReport, Output, Shutdown, Tick, ExpireForeground,
        Pump, Submitted
  <2> QED
    BY <2>1, QuietMoves
<1> QED
  BY <1>1, BeginForegroundMoves, PollEndMoves, StationFinishesMoves,
     OrdinaryChannelMoves, FinishMoves, DeliverMoves
  DEF Next, OrdinaryDone

\* The snapshot of an observer, as ScanSnapshot has it.
Shown(o) == IF o.has THEN o.banks[o.published] ELSE [generation |-> 0]
\* The pass under way.
PassOf(o) ==
  IF o.live
    THEN [generation |-> o.generation, channels |-> o.plan,
          left |-> o.plan \ o.done, entries |-> o.banks[o.working].entries,
          lost |-> o.overflow]
    ELSE [generation |-> 0]

\* A pass under way has a number, so it is not the one that stands for none.
LEMMA PassUnderWay ==
  ASSUME NEW o, o.live, o.generation # 0
  PROVE  PassOf(o) # [generation |-> 0]
<1>1. PassOf(o).generation = o.generation
  BY DEF PassOf
<1> QED
  BY <1>1

\* A pass by its fields.
PassWith(g, c, l, e, b) ==
  [generation |-> g, channels |-> c, left |-> l, entries |-> e, lost |-> b]

\* What is heard is an entry of the pass.
LEMMA PassHears ==
  ASSUME NEW o, NEW q, NEW x, o.live, SameObserver(o, q),
         q.done = o.done, q.overflow = o.overflow,
         q.banks[o.working].entries = x
  PROVE  PassOf(q) = [PassOf(o) EXCEPT !.entries = x]
<1> DEFINE g == o.generation
           c == o.plan
           l == o.plan \ o.done
           e == o.banks[o.working].entries
           b == o.overflow
<1>1. /\ PassOf(o) = PassWith(g, c, l, e, b)
      /\ PassOf(q) = PassWith(g, c, l, x, b)
  BY DEF SameObserver, PassOf, PassWith
<1> HIDE DEF g, c, l, e, b
<1>2. [PassWith(g, c, l, e, b) EXCEPT !.entries = x] = PassWith(g, c, l, x, b)
  BY DEF PassWith
<1> QED
  BY <1>1, <1>2, Zenon

\* A loss is noted in the pass.
LEMMA PassLoses ==
  ASSUME NEW o, NEW q, NEW x, o.live, SameObserver(o, q),
         q.done = o.done, q.banks = o.banks, q.overflow = x
  PROVE  PassOf(q) = [PassOf(o) EXCEPT !.lost = x]
<1> DEFINE g == o.generation
           c == o.plan
           l == o.plan \ o.done
           e == o.banks[o.working].entries
           b == o.overflow
<1>1. /\ PassOf(o) = PassWith(g, c, l, e, b)
      /\ PassOf(q) = PassWith(g, c, l, e, x)
  BY DEF SameObserver, PassOf, PassWith
<1> HIDE DEF g, c, l, e, b
<1>2. [PassWith(g, c, l, e, b) EXCEPT !.lost = x] = PassWith(g, c, l, e, x)
  BY DEF PassWith
<1> QED
  BY <1>1, <1>2, Zenon

\* A channel that was swept is no longer left.
LEMMA PassSweeps ==
  ASSUME NEW o, NEW q, NEW x, o.live, SameObserver(o, q),
         q.plan \ q.done = x, q.banks = o.banks, q.overflow = o.overflow
  PROVE  PassOf(q) = [PassOf(o) EXCEPT !.left = x]
<1> DEFINE g == o.generation
           c == o.plan
           l == o.plan \ o.done
           e == o.banks[o.working].entries
           b == o.overflow
<1>1. /\ PassOf(o) = PassWith(g, c, l, e, b)
      /\ PassOf(q) = PassWith(g, c, x, e, b)
  BY DEF SameObserver, PassOf, PassWith
<1> HIDE DEF g, c, l, e, b
<1>2. [PassWith(g, c, l, e, b) EXCEPT !.left = x] = PassWith(g, c, x, e, b)
  BY DEF PassWith
<1> QED
  BY <1>1, <1>2, Zenon

\* ScanSnapshot's Hear in these terms.
LEMMA HearIs ==
  ASSUME NEW e,
         PassOf(obs) # [generation |-> 0], e.channel \in PassOf(obs).channels,
         \A x \in PassOf(obs).entries : SameNetwork(x, e) => x.at < e.at,
         NEW kept, kept = {x \in PassOf(obs).entries : ~SameNetwork(x, e)},
         Cardinality(kept) < MaxNetworks,
         PassOf(obs') = [PassOf(obs) EXCEPT !.entries = kept \cup {e}],
         Shown(obs') = Shown(obs)
  PROVE  Snapshot!Hear(e)
<1> DEFINE p == IF obs.live
                  THEN [generation |-> obs.generation, channels |-> obs.plan,
                        left |-> obs.plan \ obs.done,
                        entries |-> obs.banks[obs.working].entries,
                        lost |-> obs.overflow]
                  ELSE [generation |-> 0]
           none == [generation |-> 0]
           others == {o \in p.entries : ~Snapshot!SameNetwork(o, e)}
<1>1. p = PassOf(obs) /\ p' = PassOf(obs')
  BY DEF PassOf
<1>2. \A x : Snapshot!SameNetwork(x, e) <=> SameNetwork(x, e)
  BY DEF Snapshot!SameNetwork, SameNetwork
<1>3. UNCHANGED (IF obs.has THEN obs.banks[obs.published]
                            ELSE [generation |-> 0])
  BY DEF Shown
<1>4. Snapshot!Hear(e) <=>
        /\ p # none /\ e.channel \in p.channels
        /\ \A o \in p.entries : Snapshot!SameNetwork(o, e) => o.at < e.at
        /\ Cardinality(others) < MaxNetworks
        /\ p' = [p EXCEPT !.entries = others \cup {e}]
        /\ UNCHANGED (IF obs.has THEN obs.banks[obs.published]
                                 ELSE [generation |-> 0])
  BY Zenon DEF Snapshot!Hear, Snapshot!None, Snapshot!Cardinality, Cardinality
<1> HIDE DEF p
<1>5. others = kept
  BY <1>1, <1>2
<1> HIDE DEF others
<1> QED
  BY <1>1, <1>2, <1>3, <1>4, <1>5, Zenon

\* A move of the observer is a step of the snapshot, or none.
LEMMA MovesSimulate ==
  ASSUME ScanInv, Moves(obs, obs')
  PROVE  [Snapshot!Next]_(Snapshot!snapshotVars)
<1> USE InvParts
<1> DEFINE none == [generation |-> 0]
<1>1. /\ Snapshot!snapshotVars = <<Shown(obs), PassOf(obs)>>
      /\ Snapshot!snapshotVars' = <<Shown(obs'), PassOf(obs')>>
      /\ Snapshot!None = none
  BY DEF Snapshot!snapshotVars, Snapshot!None, Shown, PassOf
<1>2. CASE SameView(obs, obs')
  BY <1>1, <1>2 DEF SameView, SameObserver, Shown, PassOf
<1>3. CASE Ended(obs, obs')
  <2>1. Shown(obs') = Shown(obs) /\ PassOf(obs') = none
    BY <1>3 DEF Ended, Shown, PassOf
  <2>2. Snapshot!Abandon
    BY <2>1 DEF Snapshot!Abandon, Snapshot!None, Shown, PassOf
  <2> QED
    BY <2>2 DEF Snapshot!Next
<1>4. ASSUME NEW plan \in SUBSET Channel, Opens(obs, obs', plan)
      PROVE  Snapshot!Next
  <2>1. /\ Shown(obs') = Shown(obs) /\ PassOf(obs) = none
        /\ PassOf(obs') = [generation |-> obs'.generation, channels |-> plan,
                           left |-> plan, entries |-> {}, lost |-> FALSE]
    <3>1. plan \ {} = plan /\ obs'.overflow = FALSE
      BY <1>4 DEF Opens
    <3> QED
      BY <1>4, <3>1 DEF Opens, Shown, PassOf
  <2>2. obs'.generation > Shown(obs).generation
    <3>1. obs.generation \in Nat
      BY Sizes DEF ObserverOK, Observer, Generation
    <3>2. obs.has => obs.banks[obs.published].generation <= obs.generation
      BY DEF Observed, Banked
    <3>3. obs.has => obs.banks[obs.published].generation \in Int
      BY Sizes DEF ObserverOK, Observer, Bank, Generation
    <3> QED
      BY <1>4, <3>1, <3>2, <3>3 DEF Opens, Shown
  <2>3. Snapshot!Open(obs'.generation, plan)
    BY <2>1, <2>2 DEF Snapshot!Open, Snapshot!None, Shown, PassOf
  <2> QED
    BY <1>4, <2>3 DEF Snapshot!Next, Opens
<1>5. ASSUME NEW e \in Entry, Hears(obs, obs', e), e.channel = obs.channel,
             SameObserver(obs, obs'), SameDwell(obs, obs'), obs.pending
      PROVE  Snapshot!Next
  <2> DEFINE others == {x \in obs.banks[obs.working].entries :
                          ~SameNetwork(x, e)}
  <2>1. obs.live /\ obs.generation # 0 /\ e.channel \in obs.plan
    BY <1>5 DEF Observed, Passing
  <2>2. /\ Shown(obs') = Shown(obs)
        /\ PassOf(obs') = [PassOf(obs) EXCEPT !.entries = others \cup {e}]
    <3>1. /\ obs'.done = obs.done /\ obs'.overflow = obs.overflow
          /\ obs'.banks[obs.working].entries = others \cup {e}
          /\ Shown(obs') = Shown(obs)
      BY <1>5 DEF Hears, SameObserver, SameDwell, Shown
    <3> QED
      BY <1>5, <2>1, <3>1, PassHears
  <2>3. /\ PassOf(obs) # none /\ PassOf(obs).channels = obs.plan
        /\ PassOf(obs).entries = obs.banks[obs.working].entries
    BY <2>1, PassUnderWay DEF PassOf
  <2>4. /\ Cardinality(others) < MaxNetworks
        /\ \A x \in obs.banks[obs.working].entries :
             SameNetwork(x, e) => x.at < e.at
    BY <1>5 DEF Hears
  <2>5. Snapshot!Hear(e)
    <3> DEFINE kept == {x \in PassOf(obs).entries : ~SameNetwork(x, e)}
    <3>1. kept = others
      BY <2>3
    <3> QED
      BY <2>1, <2>2, <2>3, <2>4, <3>1, HearIs
  <2> QED
    BY <2>5 DEF Snapshot!Next
<1>6. CASE obs.live /\ Loses(obs, obs')
  <2>1. PassOf(obs) # none
    BY <1>6, PassUnderWay DEF Observed, Passing
  <2>2. /\ Shown(obs') = Shown(obs)
        /\ PassOf(obs') = [PassOf(obs) EXCEPT !.lost = TRUE]
    <3>1. /\ obs'.overflow = TRUE /\ SameObserver(obs, obs')
          /\ obs'.done = obs.done /\ obs'.banks = obs.banks
          /\ Shown(obs') = Shown(obs)
      BY <1>6 DEF Loses, SameObserver, Shown
    <3> QED
      BY <1>6, <3>1, PassLoses
  <2>3. Snapshot!Lose
    BY <2>1, <2>2 DEF Snapshot!Lose, Snapshot!None, Shown, PassOf
  <2> QED
    BY <2>3 DEF Snapshot!Next
<1>7. CASE Swept(obs, obs')
  <2>1. /\ obs.live /\ obs.generation # 0 /\ obs.channel \in obs.plan \ obs.done
        /\ obs.channel \in Channel
    BY <1>7 DEF Swept, Observed, Passing, ObserverOK, Observer
  <2>2. obs'.plan \ obs'.done = (obs.plan \ obs.done) \ {obs.channel}
    BY <1>7 DEF Swept, SameObserver
  <2>3. /\ Shown(obs') = Shown(obs)
        /\ PassOf(obs') = [PassOf(obs) EXCEPT !.left =
                              PassOf(obs).left \ {obs.channel}]
    <3>1. /\ SameObserver(obs, obs') /\ obs'.overflow = obs.overflow
          /\ obs'.banks = obs.banks /\ Shown(obs') = Shown(obs)
      BY <1>7 DEF Swept, SameObserver, Shown
    <3>2. PassOf(obs).left = obs.plan \ obs.done
      BY <2>1 DEF PassOf
    <3> QED
      <4>1. PassOf(obs') = [PassOf(obs) EXCEPT
                              !.left = (obs.plan \ obs.done) \ {obs.channel}]
        BY <2>1, <2>2, <3>1, PassSweeps
      <4> QED
        BY <3>1, <3>2, <4>1, Zenon
  <2>4. PassOf(obs) # none /\ obs.channel \in PassOf(obs).left
    BY <2>1, PassUnderWay DEF PassOf
  <2>5. Snapshot!Sweep(obs.channel)
    BY <2>3, <2>4 DEF Snapshot!Sweep, Snapshot!None, Shown, PassOf
  <2> QED
    BY <2>1, <2>5 DEF Snapshot!Next
<1>8. ASSUME NEW mode, Publishable(obs, mode), Published(obs, obs')
      PROVE  Snapshot!Next
  <2>1. /\ obs.live /\ obs.generation # 0 /\ now \in Time
        /\ obs.banks[obs.working].channels = obs.plan
        /\ obs.plan \ obs.done = {} /\ ~obs.overflow
    BY <1>8 DEF Publishable, Observed, Passing, HostOK
  <2>2. /\ PassOf(obs) # none /\ PassOf(obs).left = {} /\ ~PassOf(obs).lost
        /\ PassOf(obs).generation = obs.generation
        /\ PassOf(obs).channels = obs.plan
        /\ PassOf(obs).entries = obs.banks[obs.working].entries
    BY <2>1, PassUnderWay DEF PassOf
  <2>3. /\ PassOf(obs') = none
        /\ Shown(obs') = [generation |-> obs.generation,
                          channels |-> obs.plan,
                          entries |-> obs.banks[obs.working].entries,
                          at |-> now]
    BY <1>8, <2>1 DEF Published, Shown, PassOf
  <2>4. /\ \A e \in obs.banks[obs.working].entries : e.at <= now
        /\ Shown(obs) # none => Shown(obs).at <= now
    <3>1. now \in Int /\ (obs.has => obs.banks[obs.published].at \in Int)
      BY <2>1, Sizes DEF Time, ObserverOK, Observer, Bank
    <3> QED
      BY <1>8, <3>1 DEF Publishable, Shown
  <2>5. Snapshot!Publish(now)
    BY <2>2, <2>3, <2>4 DEF Snapshot!Publish, Snapshot!None, Shown, PassOf
  <2> QED
    BY <2>1, <2>5 DEF Snapshot!Next
<1> QED
  BY <1>2, <1>3, <1>4, <1>5, <1>6, <1>7, <1>8 DEF Moves

\* The observer and its two banks implement the snapshot: whatever requests and
\* net80211's own scans do, readers see only whole passes, later ones for
\* earlier ones.
THEOREM ScanImplementsSnapshot == Spec => ImplementsSnapshot
<1>1. Init => Snapshot!Init
  BY DEF Init, Snapshot!Init, Snapshot!None
<1>2. ScanInv /\ [Next]_vars => [Snapshot!Next]_(Snapshot!snapshotVars)
  BY StepMoves, MovesSimulate
<1> QED
  BY <1>1, <1>2, ScanAlways, PTL DEF Spec, ImplementsSnapshot, Snapshot!Spec
=============================================================================
