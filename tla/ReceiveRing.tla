----------------------------- MODULE ReceiveRing -----------------------------
\* The receive ring RXQ of src/src/network: PciRuntime, R16PciInterrupts,
\* PciQueueService::drain, RxDmaQueue and PciRxAssembly, against a device that
\* fills buffers, raises and loses interrupts and may still be writing when it is
\* told to stop.  Everything of the host runs on one gate; the device moves
\* between any two of its register accesses.  The transmit rings that drain()
\* serves first are TxQueue and FirmwareQueue.
EXTENDS Naturals, Sequences

CONSTANTS
    RxCount,       \* buffers of the ring, 64 in the code
    RxBudget,      \* buffers of one poll, 32 in the code
    RxSegments     \* bound: segments the device writes

ASSUME RxAssumption ==
    /\ RxCount \in Nat /\ RxCount >= 2
    /\ RxBudget \in Nat \ {0} /\ RxSegments \in Nat

VARIABLES
    rxAt,          \* where the gate is: idle, poll, callback, publish, reread, enable
    rx,            \* what the driver keeps
    rxDevice       \* registers and memory

rxVars == <<rxAt, rx, rxDevice>>

RxIndex == 0 .. RxCount - 1
RxBlank == [serial |-> 0, packet |-> 0, part |-> "none"]

RxAfter(i) == (i + 1) % RxCount
RxDistance(from, to) == (to + RxCount - from) % RxCount

RxInit ==
    /\ rxAt = "idle"
    /\ rx = [runtime |-> "new", stopped |-> FALSE, host |-> 0,          \* PciRuntime
             enabled |-> FALSE, timer |-> FALSE,                        \* R16PciInterrupts
             consumer |-> 0, left |-> 0, failed |-> FALSE,              \* RxDmaQueue, Sink
             assembling |-> 0,                                          \* PciRxAssembly
             stopping |-> FALSE, memory |-> TRUE,                       \* the controller
             seen |-> 0, frame |-> <<0, 0>>]                            \* what was handed out
    /\ rxDevice = [producer |-> 0, index |-> 0, memory |-> [i \in RxIndex |-> RxBlank],
                   engine |-> FALSE, busy |-> FALSE, masked |-> TRUE, cause |-> FALSE,
                   edge |-> FALSE, written |-> 0, packet |-> 0, open |-> FALSE,
                   wasBad |-> FALSE]

RxRunning == rx.runtime = "running"

----------------------------------------------------------------------------
(* The runtime and its event sources. *)

\* PciRuntime::stop after the sources are disabled.  Only a device read idle
\* with mastering off and the masks read back counts as stopped; the stop bits
\* and the mask are written in any case.
RxStopBelieved(proven) == TRUE
RxStopProven(proven) == proven => ~rxDevice.busy
\* Mutant: the timer survives the end of service.
RxHaltKeepsTimer(r, proven) ==
    [r EXCEPT !.enabled = FALSE, !.runtime = "ended", !.stopped = proven]
RxHalt(r, proven) ==
    [r EXCEPT !.enabled = FALSE, !.timer = FALSE, !.runtime = "ended", !.stopped = proven]
RxSilenced == [rxDevice EXCEPT !.masked = TRUE, !.engine = FALSE, !.edge = FALSE]

\* PciRuntime::start and R16PciInterrupts::start; what the start cannot verify
\* leaves the engines possibly on, the sources off and the memory visible.
RxStart(ok) ==
    /\ rxAt = "idle" /\ rx.runtime = "new" /\ ~rx.stopping
    /\ rx' = IF ok THEN [rx EXCEPT !.runtime = "running", !.enabled = TRUE, !.timer = TRUE]
                   ELSE [rx EXCEPT !.runtime = "ended"]
    /\ \E on \in BOOLEAN :
          /\ ok => on
          /\ rxDevice' = [rxDevice EXCEPT !.engine = on, !.masked = ~ok]
    /\ UNCHANGED rxAt

\* dispatch() of R16PciInterrupts, from the edge or from the timer, up to the
\* poll: mask, acknowledge what was seen, read the producer.
RxDispatch(left) ==
    /\ rxAt' = "poll"
    /\ rx' = [rx EXCEPT !.timer = FALSE, !.left = left, !.failed = FALSE]
    /\ rxDevice' = [rxDevice EXCEPT !.masked = TRUE, !.cause = FALSE, !.edge = FALSE]

RxWake ==
    /\ rxAt = "idle" /\ rx.enabled
    /\ rxDevice.edge \/ rx.timer
    /\ LET pending == RxDistance(rx.consumer, rxDevice.producer)
       IN RxDispatch(IF pending > RxBudget THEN RxBudget ELSE pending)

\* fail(): a register that cannot be masked or read, a fatal cause, or a drain
\* that faulted.
RxFail ==
    \E proven \in BOOLEAN :
        /\ RxStopProven(proven)
        /\ rx' = RxHalt(rx, proven) /\ rxDevice' = RxSilenced /\ rxAt' = "idle"

RxWakeFails ==
    /\ rxAt = "idle" /\ rx.enabled /\ (rxDevice.edge \/ rx.timer)
    /\ RxFail

----------------------------------------------------------------------------
(* One drain of the ring. *)

RxBuffer == rxDevice.memory[rx.consumer]

\* Mutant: a first segment replaces nothing while a packet is being assembled.
RxFeedAppends(s) ==
    IF s.part \in {"whole", "last"} /\ rx.assembling # 0
    THEN [going |-> 0, frame |-> <<rx.assembling, s.packet>>]
    ELSE IF s.part = "whole" THEN [going |-> 0, frame |-> <<s.packet, s.packet>>]
    ELSE IF s.part = "first" /\ rx.assembling = 0 THEN [going |-> s.packet, frame |-> rx.frame]
    ELSE [going |-> rx.assembling, frame |-> rx.frame]
\* PciRxAssembly::feed: the packet it goes on assembling and the frame it hands
\* over, as the packets its first and its last segment came from.
RxFeed(s) ==
    IF s.part = "whole" /\ rx.assembling = 0 THEN [going |-> 0, frame |-> <<s.packet, s.packet>>]
    ELSE IF s.part = "first" /\ rx.assembling = 0 THEN [going |-> s.packet, frame |-> rx.frame]
    ELSE IF s.part = "last" /\ rx.assembling # 0
         THEN [going |-> 0, frame |-> <<rx.assembling, s.packet>>]
    ELSE [going |-> 0, frame |-> rx.frame]

\* RxDmaQueue::poll and the sink: a segment of impossible length is dropped, one
\* that comes after a failure is skipped, any other is lent to the callback.
RxTaken == [rx EXCEPT !.seen = @ + 1]
RxRecycle(r) ==
    /\ rx' = [r EXCEPT !.consumer = RxAfter(@), !.left = @ - 1]
    /\ rxDevice' = [rxDevice EXCEPT !.memory[rx.consumer] = RxBlank]
    /\ rxAt' = "poll"

RxSkip ==
    /\ rxAt = "poll" /\ rx.left > 0
    /\ RxBuffer.part \in {"bad", "none"} \/ rx.failed
    /\ RxRecycle(RxTaken)

RxBorrow ==
    /\ rxAt = "poll" /\ rx.left > 0
    /\ RxBuffer.part \notin {"bad", "none"} /\ ~rx.failed
    /\ LET fed == RxFeed(RxBuffer)
       IN rx' = [RxTaken EXCEPT !.assembling = fed.going, !.frame = fed.frame]
    /\ rxAt' = "callback"
    /\ UNCHANGED rxDevice

\* The protocol's callback returns; false is a refused firmware event or a fault.
RxCallbackReturns(ok) ==
    /\ rxAt = "callback"
    /\ RxRecycle([rx EXCEPT !.failed = ~ok \/ ~RxRunning])

\* drain() faulted; dispatch() leaves a stop that the callback asked for alone.
RxFault == IF rx.enabled THEN RxFail ELSE rxAt' = "idle" /\ UNCHANGED <<rx, rxDevice>>

\* A buffer cannot be synchronised, or a register cannot be read back.
RxServiceFails ==
    /\ rxAt \in {"poll", "publish", "reread", "enable"}
    /\ RxFault

RxPolled ==
    /\ rxAt = "poll" /\ rx.left = 0
    /\ IF rx.failed \/ ~RxRunning THEN RxFault ELSE rxAt' = "publish" /\ UNCHANGED <<rx, rxDevice>>

\* Mutant: everything the device had produced counts as consumed.
RxPublishAhead ==
    /\ rxAt = "publish"
    /\ rx' = [rx EXCEPT !.host = rxDevice.producer]
    /\ rxDevice' = [rxDevice EXCEPT !.index = rxDevice.producer]
    /\ rxAt' = "reread"
\* PciRuntime::publish of the consumer the poll returned.
RxPublish ==
    /\ rxAt = "publish"
    /\ IF RxDistance(rx.host, rx.consumer) > RxDistance(rx.host, rxDevice.producer)
       THEN RxFault
       ELSE /\ rx' = [rx EXCEPT !.host = rx.consumer]
            /\ rxDevice' = [rxDevice EXCEPT !.index = rx.consumer]
            /\ rxAt' = "reread"

\* Mutant: what came in during the drain waits for an interrupt that is masked.
RxRereadForgets ==
    /\ rxAt = "reread"
    /\ rxAt' = (IF rx.host # rxDevice.producer THEN "idle" ELSE "enable")
    /\ UNCHANGED <<rx, rxDevice>>
\* The indices are read again: more keeps the mask and arms the timer.
RxReread ==
    /\ rxAt = "reread"
    /\ IF rx.host # rxDevice.producer
       THEN rxAt' = "idle" /\ rx' = [rx EXCEPT !.timer = TRUE]
       ELSE rxAt' = "enable" /\ UNCHANGED rx
    /\ UNCHANGED rxDevice

\* enableInterrupts and the backstop timer; a cause that is still up raises an
\* edge now, unless it is lost.
RxEnable ==
    /\ rxAt = "enable"
    /\ rxAt' = "idle"
    /\ rx' = [rx EXCEPT !.timer = TRUE]
    /\ \E lost \in BOOLEAN :
          rxDevice' = [rxDevice EXCEPT !.masked = FALSE, !.edge = rxDevice.cause /\ ~lost]

\* MacNetworkState::shutdown, also from inside a callback.  Memory goes back
\* only when the device was seen idle and nothing is being served; an unmap that
\* fails keeps it, and the caller tries again.
RxShutdown ==
    /\ rxAt \in {"idle", "callback"} /\ rx.memory
    /\ \E proven, unmapped \in BOOLEAN :
          /\ RxStopProven(proven)
          /\ rx' = [RxHalt(rx, proven) EXCEPT !.stopping = TRUE,
                       !.memory = ~(proven /\ rxAt = "idle" /\ unmapped)]
    /\ rxDevice' = RxSilenced
    /\ UNCHANGED rxAt

----------------------------------------------------------------------------
(* The device: it keeps one buffer free of the index the host published. *)

RxDeviceBegins ==
    /\ rxDevice.engine /\ ~rxDevice.busy /\ rxDevice.written < RxSegments
    /\ RxAfter(rxDevice.producer) # rxDevice.index
    /\ rxDevice' = [rxDevice EXCEPT !.busy = TRUE]
    /\ UNCHANGED <<rxAt, rx>>

\* A packet is one segment or a first and a last one.  A segment may carry an
\* impossible length, but no two in a row do.
RxDeviceWrites(part, open, lost) ==
    /\ rxDevice.busy
    /\ LET p == RxAfter(rxDevice.producer)
           n == rxDevice.written + 1
           packet == IF rxDevice.open THEN rxDevice.packet ELSE rxDevice.packet + 1
       IN /\ part \in (IF rxDevice.open THEN {"last", "bad"} ELSE {"whole", "first", "bad"})
          /\ open => part = "first" \/ (part = "bad" /\ ~rxDevice.open)
          /\ part = "first" => open
          /\ part = "bad" => ~rxDevice.wasBad
          /\ rxDevice' = [rxDevice EXCEPT !.busy = FALSE, !.producer = p, !.written = n,
                 !.memory[rxDevice.producer] = [serial |-> n, packet |-> packet, part |-> part],
                 !.packet = packet, !.open = open, !.wasBad = (part = "bad"), !.cause = TRUE,
                 !.edge = @ \/ (~rxDevice.masked /\ ~lost)]
    /\ UNCHANGED <<rxAt, rx>>

RxHost ==
    \/ RxWake \/ RxWakeFails \/ RxSkip \/ RxBorrow
    \/ \E ok \in BOOLEAN : RxCallbackReturns(ok)
    \/ RxServiceFails \/ RxPolled \/ RxPublish \/ RxReread \/ RxEnable

RxNext ==
    \/ \E ok \in BOOLEAN : RxStart(ok)
    \/ RxHost
    \/ RxShutdown
    \/ RxDeviceBegins
    \/ \E part \in {"whole", "first", "last", "bad"}, open, lost \in BOOLEAN :
          RxDeviceWrites(part, open, lost)

\* Fairness is that of RxHost: the workloop runs, its timer fires and callbacks
\* return; no interrupt is relied on.

----------------------------------------------------------------------------
(* Properties. *)

\* Each buffer poll() takes holds the next segment the device wrote: consumer,
\* published index and producer agree however the device moves between their
\* reads, so no buffer is overwritten, skipped or read twice.
RxReadsInOrder ==
    rxAt = "poll" /\ rx.left > 0 => RxBuffer.serial = rx.seen + 1

\* PciRxAssembly hands over a frame only if its first and its last segment are
\* of one packet, whatever segments were dropped in between.
RxWholeFrames == rx.frame[1] = rx.frame[2]

\* Buffers go back only when the device can no longer write them and no
\* callback still reads the one it was lent, also when the callback itself asked
\* for the shutdown.
RxReleasedQuiet ==
    ~rx.memory => ~rxDevice.busy /\ ~rxDevice.engine /\ rxAt = "idle"

\* Once stop() has reported success nothing is left that would dispatch again,
\* and a drain that was under way does not rearm what it stopped.
RxStoppedSilent ==
    rx.stopped => rxDevice.masked /\ ~rxDevice.engine /\ ~rx.enabled /\ ~rx.timer

\* The host catches up with the segments the device wrote, or the runtime ends,
\* although interrupts are lost or coalesced and a drain takes only its budget.
RxDelivered == []<>(rx.seen = rxDevice.written \/ ~RxRunning)
=============================================================================
