------------------------------- MODULE TxQueue -------------------------------
(***************************************************************************)
(* One data transmit ring of the driver from submission to return:         *)
(* TxOwnership (network/PciDataPath.hpp), Net80211PciQueue, MacTxDmaQueue, *)
(* the doorbell and index reads of PciRuntime, and the part of             *)
(* PciQueueService::drain that serves transmission, against a device that  *)
(* fetches descriptors, publishes its consumer index and sends release     *)
(* reports through the RPQ ring, at its own pace and in any order.         *)
(*                                                                         *)
(* Host calls run under one gate.  drain() is several steps because the    *)
(* device runs between its register reads; nothing else of the host does.  *)
(* The BD memory and the ledger's ring_ hold the same page and are one     *)
(* variable.  Wire formats, TX status and counters are left out; a report  *)
(* is the page it names (its queue and MACID route it here).               *)
(***************************************************************************)
EXTENDS Integers, Sequences, FiniteSets

CONSTANTS
  Frame, NoFrame,
  Count,          \* descriptors and pages of the ring, 64 in the code
  ReportCount,    \* RPQ descriptors, 64 in the code
  Budget          \* reports taken in one drain, 32 in the code

ASSUME ConstantsAssumption ==
  /\ NoFrame \notin Frame
  /\ Count \in Nat /\ Count >= 2
  /\ ReportCount \in Nat /\ ReportCount >= 2
  /\ Budget \in Nat \ {0}

VARIABLES
  \* TxOwnership: pages_, ring_, the cursors and counts.
  pages, ring, producer, consumer, pendingBd, outstanding, nextPage,
  leases,             \* Net80211PciQueue::leases_
  memory,             \* the frame in each DMA page
  attached,           \* MacTxDmaQueue::attached_
  running,            \* PciRuntime::running()
  phase, limit, taken,\* how far drain() is; reports seen and taken
  \* The device.
  host, hardware,     \* the two halves of the TX index register
  fetched,            \* the device's own fetch pointer
  jobs,               \* pages fetched and not yet reported, with the frame
  rpq,                \* reports between the RPQ's consumer and producer
  deviceOn

ledgerVars  == <<pages, ring, producer, consumer, pendingBd, outstanding,
                 nextPage, leases>>
hostVars    == <<ledgerVars, memory, attached, phase, limit, taken>>
runtimeVars == <<running, deviceOn>>
deviceVars  == <<host, hardware, fetched, jobs, rpq>>
vars        == <<hostVars, runtimeVars, deviceVars>>

----------------------------------------------------------------------------
(* Types. *)

Index == 0 .. Count - 1
Page  == 0 .. Count - 1
Slot  == [used : BOOLEAN, consumed : BOOLEAN, reported : BOOLEAN]
EmptySlot == [used |-> FALSE, consumed |-> FALSE, reported |-> FALSE]
Job   == [page : Page, frame : Frame \cup {NoFrame}]

\* The type invariant: cursors stay inside the ring, the counts inside their
\* ranges, and one drain within its budget.
TypeOK ==
  /\ pages \in [Page -> Slot] /\ ring \in [Index -> Page]
  /\ producer \in Index /\ consumer \in Index /\ nextPage \in Page
  /\ pendingBd \in 0 .. Count - 1 /\ outstanding \in 0 .. Count
  /\ leases \in [Page -> Frame \cup {NoFrame}]
  /\ memory \in [Page -> Frame \cup {NoFrame}]
  /\ attached \in BOOLEAN /\ running \in BOOLEAN
  /\ phase \in {"idle", "poll", "reports"}
  /\ limit \in 0 .. Budget /\ taken \in 0 .. limit
  /\ host \in Index /\ hardware \in Index /\ fetched \in Index
  /\ jobs \subseteq Job
  /\ rpq \in Seq(Page) /\ Len(rpq) < ReportCount
  /\ deviceOn \in BOOLEAN

\* After allocate(), attach() and PciRuntime::start().
Init ==
  /\ pages = [p \in Page |-> EmptySlot] /\ ring = [i \in Index |-> 0]
  /\ producer = 0 /\ consumer = 0 /\ nextPage = 0
  /\ pendingBd = 0 /\ outstanding = 0
  /\ leases = [p \in Page |-> NoFrame] /\ memory = [p \in Page |-> NoFrame]
  /\ attached = TRUE /\ running = TRUE
  /\ phase = "idle" /\ limit = 0 /\ taken = 0
  /\ host = 0 /\ hardware = 0 /\ fetched = 0
  /\ jobs = {} /\ rpq = <<>> /\ deviceOn = TRUE

----------------------------------------------------------------------------
(* PciRuntime::stop() and what follows a fault. *)

\* The runtime is stopped; whether the device is known to be idle and cut
\* off from memory depends on every register access it takes.
StopRuntime(proven) ==
  /\ running' = FALSE
  /\ deviceOn' = (deviceOn /\ ~proven)

\* A fault in drain() or a register access: R16PciInterrupts::fail stops the
\* runtime and gives nothing back.
Fault(proven) ==
  /\ running
  /\ StopRuntime(proven)
  /\ phase' = "idle" /\ limit' = 0 /\ taken' = 0
  /\ UNCHANGED <<ledgerVars, memory, attached, deviceVars>>

----------------------------------------------------------------------------
(* Submission: MacNetworkController::pumpTx, submitNativeData, stage() and *)
(* PciRuntime::publish.                                                    *)

Distance(from, to) == (to + Count - from) % Count

\* TxOwnership::peek; the mutant overlooks that a full ring looks empty.
FullByPages == outstanding = Count
Full == pendingBd = Count - 1 \/ outstanding = Count

\* The first free page from nextPage_ on.
FreePage ==
  LET at(n) == (nextPage + n) % Count
      n == CHOOSE i \in Index : /\ ~pages[at(i)].used
                                /\ \A j \in 0 .. i - 1 : pages[at(j)].used
  IN at(n)

\* Net80211PciQueue::stage: copy the frame, commit the lease, write the BD.
Stage(f, p) ==
  /\ memory' = [memory EXCEPT ![p] = f]
  /\ pages' = [pages EXCEPT ![p] = [EmptySlot EXCEPT !.used = TRUE]]
  /\ leases' = [leases EXCEPT ![p] = f]
  /\ ring' = [ring EXCEPT ![producer] = p]
  /\ producer' = (producer + 1) % Count
  /\ pendingBd' = pendingBd + 1
  /\ outstanding' = outstanding + 1
  /\ nextPage' = (p + 1) % Count
  /\ UNCHANGED consumer

\* publish() accepts one descriptor at a time and never fills the ring.
DoorbellLegal ==
  Distance(host, producer') = 1 /\ producer' # hardware

\* The frame is staged and its doorbell rung.
Submit(f) ==
  /\ running /\ attached /\ phase = "idle" /\ ~Full
  /\ \A p \in Page : leases[p] # f
  /\ Stage(f, FreePage)
  /\ DoorbellLegal
  /\ host' = producer'
  /\ UNCHANGED <<attached, phase, limit, taken, runtimeVars, hardware,
                 fetched, jobs, rpq>>

\* The cache sync or the doorbell fails after the commit: the lease stays
\* with the queue, the device may or may not have seen the new index, and
\* the controller stops the runtime.
SubmitFails(f, seen, proven) ==
  /\ running /\ attached /\ phase = "idle" /\ ~Full
  /\ \A p \in Page : leases[p] # f
  /\ Stage(f, FreePage)
  /\ host' = IF seen /\ DoorbellLegal THEN producer' ELSE host
  /\ StopRuntime(proven)
  /\ UNCHANGED <<attached, phase, limit, taken, hardware, fetched, jobs, rpq>>

----------------------------------------------------------------------------
(* drain(): the consumer index, then the release reports. *)

\* A page is given back when its BD was consumed and its report taken; the
\* mutants ask for one of the two.
ReadyByReport(s) == s.used /\ s.reported
ReadyByIndex(s)  == s.used /\ s.consumed
Ready(s) == s.used /\ s.consumed /\ s.reported

\* drainCompletions() over the pages as they now are.
DrainCompletions(now) ==
  LET done == {p \in Page : Ready(now[p])}
  IN /\ pages' = [p \in Page |-> IF p \in done THEN EmptySlot ELSE now[p]]
     /\ leases' = [p \in Page |-> IF p \in done THEN NoFrame ELSE leases[p]]
     /\ outstanding' = outstanding - Cardinality(done)

\* The ring entries from one index up to another; the mutant's loop misses
\* the last one.
BetweenButLast(from, to) ==
  {ring[(from + n) % Count] : n \in 0 .. Distance(from, to) - 2}
Between(from, to) ==
  {ring[(from + n) % Count] : n \in 0 .. Distance(from, to) - 1}

\* readIndices and consumedTo.
ConsumeTo ==
  /\ running /\ phase = "idle"
  /\ Distance(consumer, hardware) <= pendingBd
  /\ DrainCompletions([p \in Page |->
       IF p \in Between(consumer, hardware)
         THEN [pages[p] EXCEPT !.consumed = TRUE] ELSE pages[p]])
  /\ pendingBd' = pendingBd - Distance(consumer, hardware)
  /\ consumer' = hardware
  /\ phase' = "poll"
  /\ UNCHANGED <<ring, producer, nextPage, memory, attached, limit, taken,
                 runtimeVars, deviceVars>>

\* RxDmaQueue::poll on the RPQ: as many reports as it sees, up to Budget,
\* which the mutant forgets.
PendingUnlimited == Len(rpq)
Pending == IF Len(rpq) < Budget THEN Len(rpq) ELSE Budget

PollReports ==
  /\ running /\ phase = "poll"
  /\ limit' = Pending
  /\ taken' = 0
  /\ phase' = "reports"
  /\ UNCHANGED <<ledgerVars, memory, attached, runtimeVars, deviceVars>>

\* TxOwnership::report on the next one, then drainCompletions().
ReportAcceptable(p) == pages[p].used /\ ~pages[p].reported

TakeReport ==
  /\ running /\ phase = "reports" /\ taken < limit
  /\ ReportAcceptable(rpq[taken + 1])
  /\ DrainCompletions([pages EXCEPT ![rpq[taken + 1]].reported = TRUE])
  /\ taken' = taken + 1
  /\ UNCHANGED <<ring, producer, consumer, pendingBd, nextPage, memory,
                 attached, phase, limit, runtimeVars, deviceVars>>

\* The RPQ consumer is published: the device may reuse those descriptors.
FinishDrain ==
  /\ running /\ phase = "reports" /\ taken = limit
  /\ rpq' = SubSeq(rpq, limit + 1, Len(rpq))
  /\ phase' = "idle" /\ limit' = 0 /\ taken' = 0
  /\ UNCHANGED <<ledgerVars, memory, attached, runtimeVars, host, hardware,
                 fetched, jobs>>

----------------------------------------------------------------------------
(* MacNetworkController::shutdown. *)

\* Leases go back only when the runtime's stop and the backend's are proven
\* and no drain() is running.
MayReclaimUnproven(proven, backend) == backend /\ phase = "idle"
MayReclaim(proven, backend) == proven /\ backend /\ phase = "idle"

Shutdown(proven, backend) ==
  /\ attached
  /\ StopRuntime(proven)
  /\ IF MayReclaim(proven, backend)
       THEN /\ pages' = [p \in Page |-> EmptySlot]
            /\ leases' = [p \in Page |-> NoFrame]
            /\ memory' = [p \in Page |-> NoFrame]
            /\ producer' = 0 /\ consumer' = 0 /\ pendingBd' = 0
            /\ outstanding' = 0 /\ nextPage' = 0 /\ attached' = FALSE
            /\ UNCHANGED ring
       ELSE UNCHANGED <<ledgerVars, memory, attached>>
  /\ phase' = "idle" /\ limit' = 0 /\ taken' = 0
  /\ UNCHANGED deviceVars

----------------------------------------------------------------------------
(* The device. *)

\* It reads the next descriptor and the page it points to.
Fetch ==
  /\ deviceOn /\ fetched # host
  /\ jobs' = jobs \cup {[page  |-> ring[fetched],
                          frame |-> memory[ring[fetched]]]}
  /\ fetched' = (fetched + 1) % Count
  /\ UNCHANGED <<hostVars, runtimeVars, host, hardware, rpq>>

\* It publishes its consumer index.
Retire ==
  /\ deviceOn /\ hardware # fetched
  /\ hardware' = (hardware + 1) % Count
  /\ UNCHANGED <<hostVars, runtimeVars, host, fetched, jobs, rpq>>

\* It is done with a frame, sent or not, and reports the page.
Report(p) ==
  /\ deviceOn /\ Len(rpq) < ReportCount - 1
  /\ \E j \in jobs : j.page = p /\ jobs' = jobs \ {j}
  /\ rpq' = Append(rpq, p)
  /\ UNCHANGED <<hostVars, runtimeVars, host, hardware, fetched>>

Next ==
  \/ \E f \in Frame : Submit(f)
  \/ \E f \in Frame, seen, proven \in BOOLEAN : SubmitFails(f, seen, proven)
  \/ ConsumeTo \/ PollReports \/ TakeReport \/ FinishDrain
  \/ \E proven \in BOOLEAN : Fault(proven)
  \/ \E proven, backend \in BOOLEAN : Shutdown(proven, backend)
  \/ Fetch \/ Retire \/ \E p \in Page : Report(p)

Spec == Init /\ [][Next]_vars

\* dispatch() runs at least every 10 ms; the device works through its ring
\* and, as the RPQ has room again and again, reports every frame in the end
\* (acknowledged, retry limit, expired or dropped).
Fairness ==
  /\ WF_vars(ConsumeTo) /\ WF_vars(PollReports)
  /\ WF_vars(TakeReport) /\ WF_vars(FinishDrain)
  /\ WF_vars(Fetch) /\ WF_vars(Retire)
  /\ \A p \in Page : SF_vars(Report(p))

FairSpec == Spec /\ Fairness

----------------------------------------------------------------------------
(* Properties. *)

\* Pages the device may still read: those behind a descriptor it has not
\* retired and those it has not reported.
Exposed ==
  IF deviceOn THEN Between(hardware, host) \cup {j.page : j \in jobs} ELSE {}
Held == {p \in Page : leases[p] # NoFrame}

\* The queue implements FrameLease: a frame is given back only once neither
\* a descriptor nor an unreported job of the device can refer to its page,
\* or after a proven stop.
Leases == INSTANCE FrameLease WITH
            held    <- {leases[p] : p \in Held},
            exposed <- {memory[p] : p \in Exposed},
            halted  <- ~deviceOn
ImplementsLease == Leases!Spec

\* What the device fetched is still what memory and the lease say: no page is
\* restaged while the device works on it, and no page is in two jobs.
JobsUndisturbed ==
  deviceOn => /\ \A j \in jobs : /\ memory[j.page] = j.frame
                                 /\ leases[j.page] = j.frame
                                 /\ j.frame # NoFrame
              /\ \A j, k \in jobs : j.page = k.page => j = k

\* While the runtime runs, nothing a correct device does is refused: its
\* index is one consumedTo() accepts, each of its reports names a page
\* that is in use and not reported yet, and a frame that peek() admits gets
\* a legal doorbell.
DeviceNeverRefused ==
  running =>
    /\ Distance(consumer, hardware) <= pendingBd
    /\ \A i \in taken + 1 .. Len(rpq) : ReportAcceptable(rpq[i])
    /\ \A i, j \in taken + 1 .. Len(rpq) : rpq[i] = rpq[j] => i = j
    /\ ~Full => Distance(host, (producer + 1) % Count) = 1
                /\ (producer + 1) % Count # hardware

\* Driver and device never disturb each other on the ring: no page is restaged
\* under a job, and nothing the device says or is told is refused (peek(),
\* consumedTo(), report()).
RingSound == JobsUndisturbed /\ DeviceNeverRefused

\* dataDrained(): once outstanding_ is zero the device refers to no page and
\* owes no report, which is what lets the controller retune the radio and
\* reset net80211.
DrainedMeansQuiet ==
  running /\ outstanding = 0 =>
    Exposed = {} /\ Held = {} /\ taken = Len(rpq)

\* A frame the driver holds is given back, unless the runtime stops.
FramesReturn ==
  \A f \in Frame :
    (\E p \in Page : leases[p] = f) ~>
      ((\A p \in Page : leases[p] # f) \/ ~running)
=============================================================================
