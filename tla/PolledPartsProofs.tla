---------------------------- MODULE PolledPartsProofs -----------------------------
(***************************************************************************)
(* Proofs about the parts that the driver polls, for every ring size,      *)
(* every bound on what the device sends, every number of selections and    *)
(* every set of channels: each part has an inductive invariant of its own, *)
(* and a behaviour of MCSpec steps one part and leaves the others alone.   *)
(***************************************************************************)
EXTENDS MCPolledParts, Integers, TLAPS

----------------------------------------------------------------------------
(* The receive ring: its inductive invariant.                              *)

RxForward(from, to) == IF to >= from THEN to - from ELSE to - from + RxCount
RxNextIndex(i) == IF i = RxCount - 1 THEN 0 ELSE i + 1

RxParts == {"whole", "first", "last", "bad", "none"}
RxSegment == [serial : Nat, packet : Nat, part : RxParts]

RxDriverType ==
  [runtime : {"new", "running", "ended"}, stopped : BOOLEAN, host : RxIndex,
   enabled : BOOLEAN, timer : BOOLEAN, consumer : RxIndex, left : Nat,
   failed : BOOLEAN, assembling : Nat, stopping : BOOLEAN, memory : BOOLEAN,
   seen : Nat, frame : Nat \X Nat]

RxDeviceType ==
  [producer : RxIndex, index : RxIndex, memory : [RxIndex -> RxSegment],
   engine : BOOLEAN, busy : BOOLEAN, masked : BOOLEAN, cause : BOOLEAN,
   edge : BOOLEAN, written : Nat, packet : Nat, open : BOOLEAN,
   wasBad : BOOLEAN]

RxTypeOK ==
  /\ rxAt \in {"idle", "poll", "callback", "publish", "reread", "enable"}
  /\ rx \in RxDriverType /\ rxDevice \in RxDeviceType

\* Buffers the device has filled and the poll has not recycled.
RxWaiting == RxForward(rx.consumer, rxDevice.producer)

\* Segments whose buffers were recycled: the one lent to a callback is not yet.
RxGiven == IF rxAt = "callback" THEN rx.seen - 1 ELSE rx.seen

\* The published index is behind the consumer, the consumer behind the producer,
\* and a device that is writing has a buffer free of the index.
RxCursors ==
  /\ rxDevice.index = rx.host
  /\ RxForward(rx.host, rx.consumer) <= RxForward(rx.host, rxDevice.producer)
  /\ rxDevice.busy => RxForward(rx.host, rxDevice.producer) < RxCount - 1
  /\ rxAt \in {"poll", "callback"} => rx.left <= RxWaiting
  /\ rxAt = "callback" => rx.left > 0

\* The waiting buffers hold the segments that follow those given back, in order.
RxOrdered ==
  /\ rxDevice.written = RxGiven + RxWaiting
  /\ \A i \in RxIndex : RxForward(rx.consumer, i) < RxWaiting =>
       rxDevice.memory[i].serial = RxGiven + RxForward(rx.consumer, i) + 1

\* The segment at i, written or still to come, begins a packet.
RxFresh(i) ==
  IF i = rxDevice.producer THEN ~rxDevice.open /\ rxDevice.wasBad
  ELSE rxDevice.memory[i].part \in {"whole", "first"}

\* What follows the first segment of packet p from i on: its last segment, or a
\* dropped one and then the beginning of another packet.
RxEnds(p, i) ==
  \/ RxFresh(i)
  \/ i = rxDevice.producer /\ rxDevice.open /\ rxDevice.packet = p
  \/ /\ i # rxDevice.producer
     /\ \/ rxDevice.memory[i].part = "last" /\ rxDevice.memory[i].packet = p
        \/ rxDevice.memory[i].part = "bad" /\ RxFresh(RxNextIndex(i))

\* The buffer whose segment the assembly is given next.
RxUpcoming == IF rxAt = "callback" THEN RxNextIndex(rx.consumer) ELSE rx.consumer

RxAssembly ==
  /\ \A i \in RxIndex :
       RxForward(rx.consumer, i) < RxWaiting /\ rxDevice.memory[i].part = "first" =>
         RxEnds(rxDevice.memory[i].packet, RxNextIndex(i))
  /\ rx.assembling # 0 /\ rx.enabled /\ ~rx.failed => RxEnds(rx.assembling, RxUpcoming)
  /\ RxWholeFrames

\* A drain goes on only while the runtime runs, except to the end of a poll that
\* has failed; what has stopped stays stopped, what is released is stopped.
RxService ==
  /\ rx.enabled <=> rx.runtime = "running"
  /\ rxAt = "poll" => rx.enabled \/ rx.failed
  /\ rxAt \in {"publish", "reread", "enable"} => rx.enabled
  /\ rx.failed => rxAt = "poll" \/ ~rx.enabled
  /\ rx.stopped => /\ rx.runtime = "ended" /\ ~rx.timer
                   /\ rxDevice.masked /\ ~rxDevice.engine /\ ~rxDevice.busy
  /\ ~rx.memory => rx.stopped /\ rxAt = "idle"
  /\ rx.runtime = "new" => rx.assembling = 0 /\ ~rx.failed /\ rxAt = "idle"

RxInv == RxTypeOK /\ RxCursors /\ RxOrdered /\ RxAssembly /\ RxService

----------------------------------------------------------------------------
(* Arithmetic of the receive ring. *)

\* One wrap at most: % on a sum of an index and a distance.
LEMMA RxWraps ==
  ASSUME NEW a \in Nat, a < 2 * RxCount
  PROVE  a % RxCount = IF a < RxCount THEN a ELSE a - RxCount
  BY RxAssumption

\* publish() and poll() distances, without the modulus.
LEMMA RxDistanceIs ==
  ASSUME NEW a \in RxIndex, NEW b \in RxIndex
  PROVE  RxDistance(a, b) = RxForward(a, b)
  BY RxWraps, RxAssumption DEF RxDistance, RxForward, RxIndex

\* A cursor's next place, without the modulus.
LEMMA RxAfterIs ==
  ASSUME NEW a \in RxIndex
  PROVE  RxAfter(a) = RxNextIndex(a) /\ RxNextIndex(a) \in RxIndex
  BY RxWraps, RxAssumption DEF RxAfter, RxNextIndex, RxIndex

\* Distances on the ring are below its size, and zero only at home.
LEMMA RxForwardIndex ==
  ASSUME NEW a \in RxIndex, NEW b \in RxIndex
  PROVE  /\ RxForward(a, b) \in Nat /\ RxForward(a, b) <= RxCount - 1
         /\ RxForward(a, b) = 0 <=> a = b
  BY RxAssumption DEF RxForward, RxIndex

\* Distances from one cursor tell all places apart.
LEMMA RxForwardInjective ==
  ASSUME NEW a \in RxIndex, NEW b \in RxIndex, NEW c \in RxIndex,
         RxForward(a, b) = RxForward(a, c)
  PROVE  b = c
  BY RxAssumption DEF RxForward, RxIndex

\* One step ahead is one further, except from the last place before home.
LEMMA RxForwardNext ==
  ASSUME NEW a \in RxIndex, NEW b \in RxIndex, RxForward(a, b) < RxCount - 1
  PROVE  RxForward(a, RxNextIndex(b)) = RxForward(a, b) + 1
  BY RxAssumption DEF RxForward, RxNextIndex, RxIndex

\* Seen from one place further on, everything but home is one nearer.
LEMMA RxForwardFrom ==
  ASSUME NEW a \in RxIndex, NEW b \in RxIndex, a # b
  PROVE  RxForward(RxNextIndex(a), b) = RxForward(a, b) - 1
  BY RxAssumption DEF RxForward, RxNextIndex, RxIndex

\* From one place further on, home is the furthest.
LEMMA RxForwardHome ==
  ASSUME NEW a \in RxIndex
  PROVE  RxForward(RxNextIndex(a), a) = RxCount - 1
  BY RxAssumption DEF RxForward, RxNextIndex, RxIndex

\* Distances add up when they do not pass home.
LEMMA RxForwardSplit ==
  ASSUME NEW a \in RxIndex, NEW b \in RxIndex, NEW c \in RxIndex,
         RxForward(a, b) <= RxForward(a, c)
  PROVE  RxForward(b, c) = RxForward(a, c) - RxForward(a, b)
  BY RxAssumption DEF RxForward, RxIndex

\* The place before home is the last.
LEMMA RxForwardLast ==
  ASSUME NEW a \in RxIndex, NEW b \in RxIndex
  PROVE  RxNextIndex(b) = a <=> RxForward(a, b) = RxCount - 1
  BY RxAssumption DEF RxForward, RxNextIndex, RxIndex

\* What the invariant says of the cursors' types.
LEMMA RxFields ==
  ASSUME RxTypeOK
  PROVE  /\ rx.host \in RxIndex /\ rx.consumer \in RxIndex
         /\ rxDevice.producer \in RxIndex /\ rxDevice.index \in RxIndex
         /\ rx.left \in Nat /\ rx.seen \in Nat /\ rx.assembling \in Nat
         /\ rx.frame \in Nat \X Nat
         /\ rxDevice.written \in Nat /\ rxDevice.packet \in Nat
         /\ rxDevice.memory \in [RxIndex -> RxSegment]
         /\ RxGiven \in Int /\ RxUpcoming \in RxIndex
         /\ RxWaiting \in Nat /\ RxWaiting <= RxCount - 1
<1>1. /\ rx.host \in RxIndex /\ rx.consumer \in RxIndex
      /\ rxDevice.producer \in RxIndex /\ rxDevice.index \in RxIndex
      /\ rx.left \in Nat /\ rx.seen \in Nat /\ rx.assembling \in Nat
      /\ rx.frame \in Nat \X Nat
      /\ rxDevice.written \in Nat /\ rxDevice.packet \in Nat
      /\ rxDevice.memory \in [RxIndex -> RxSegment]
  BY DEF RxTypeOK, RxDriverType, RxDeviceType
<1>2. RxGiven \in Int
  BY <1>1 DEF RxGiven
<1>3. RxUpcoming \in RxIndex
  BY <1>1, RxAfterIs DEF RxUpcoming
<1>4. RxWaiting \in Nat /\ RxWaiting <= RxCount - 1
  BY <1>1, RxForwardIndex DEF RxWaiting
<1> QED
  BY <1>1, <1>2, <1>3, <1>4

\* RxFields in the next state.
LEMMA RxFieldsNext ==
  ASSUME RxTypeOK'
  PROVE  /\ rx'.host \in RxIndex /\ rx'.consumer \in RxIndex
         /\ rxDevice'.producer \in RxIndex /\ rxDevice'.index \in RxIndex
         /\ rx'.left \in Nat /\ rx'.seen \in Nat
         /\ rxDevice'.written \in Nat
         /\ RxWaiting' \in Nat /\ RxWaiting' <= RxCount - 1
<1>1. /\ rx'.host \in RxIndex /\ rx'.consumer \in RxIndex
      /\ rxDevice'.producer \in RxIndex /\ rxDevice'.index \in RxIndex
      /\ rx'.left \in Nat /\ rx'.seen \in Nat
      /\ rxDevice'.written \in Nat
  BY DEF RxTypeOK, RxDriverType, RxDeviceType
<1>4. RxWaiting' \in Nat /\ RxWaiting' <= RxCount - 1
  BY <1>1, RxForwardIndex DEF RxWaiting
<1> QED
  BY <1>1, <1>4

\* A ring that is set up is empty and not served.
LEMMA RxInvInit == RxInit => RxInv
<1> SUFFICES ASSUME RxInit PROVE RxInv
  OBVIOUS
<1>1. 0 \in RxIndex
  BY RxAssumption DEF RxIndex
<1>2. RxTypeOK
  <2>1. rx \in RxDriverType
    BY <1>1 DEF RxInit, RxDriverType
  <2>2. [i \in RxIndex |-> RxBlank] \in [RxIndex -> RxSegment]
    BY DEF RxBlank, RxSegment, RxParts
  <2>3. rxDevice \in RxDeviceType
    BY <1>1, <2>2 DEF RxInit, RxDeviceType
  <2> QED
    BY <2>1, <2>3 DEF RxInit, RxTypeOK
<1>3. rx.consumer = 0 /\ rxDevice.producer = 0 /\ rx.host = 0 /\ rxDevice.index = 0
      /\ rxDevice.written = 0 /\ rx.seen = 0 /\ rx.assembling = 0 /\ rx.frame = <<0, 0>>
      /\ ~rxDevice.busy /\ ~rx.enabled /\ ~rx.failed /\ ~rx.stopped /\ rx.memory
      /\ rx.runtime = "new" /\ rxAt = "idle"
  BY DEF RxInit
<1>4. RxForward(0, 0) = 0
  BY <1>1, RxForwardIndex
<1>5. \A i \in RxIndex : RxForward(0, i) \in Nat
  BY <1>1, RxForwardIndex
<1> QED
  BY <1>2, <1>3, <1>4, <1>5
     DEF RxInv, RxCursors, RxOrdered, RxAssembly, RxService, RxWaiting, RxGiven, RxWholeFrames

----------------------------------------------------------------------------
(* Steps that leave buffers and cursors alone. *)

\* The part of the invariant about the buffers' contents rests on these fields:
\* a step that keeps them, and revives no assembly, keeps it.
LEMMA RxBuffersKept ==
  ASSUME RxInv, RxTypeOK',
         rx'.consumer = rx.consumer, rx'.seen = rx.seen,
         rx'.assembling = rx.assembling, rx'.frame = rx.frame,
         rxDevice'.producer = rxDevice.producer, rxDevice'.memory = rxDevice.memory,
         rxDevice'.written = rxDevice.written, rxDevice'.packet = rxDevice.packet,
         rxDevice'.open = rxDevice.open, rxDevice'.wasBad = rxDevice.wasBad,
         rxAt' = "callback" <=> rxAt = "callback",
         rx'.enabled /\ ~rx'.failed => rx.assembling = 0 \/ (rx.enabled /\ ~rx.failed)
  PROVE  RxOrdered' /\ RxAssembly'
<1>1. RxWaiting' = RxWaiting /\ RxGiven' = RxGiven /\ RxUpcoming' = RxUpcoming
  BY DEF RxWaiting, RxGiven, RxUpcoming
<1>2. RxOrdered'
  BY <1>1 DEF RxInv, RxOrdered
<1>3. /\ \A i : RxFresh(i)' <=> RxFresh(i)
      /\ \A p, i : RxEnds(p, i)' <=> RxEnds(p, i)
  BY DEF RxFresh, RxEnds
<1>4. RxWholeFrames'
  BY DEF RxInv, RxAssembly, RxWholeFrames
<1>5. ASSUME NEW i \in RxIndex, RxForward(rx'.consumer, i) < RxWaiting',
             rxDevice'.memory[i].part = "first"
      PROVE  RxEnds(rxDevice.memory[i].packet, RxNextIndex(i))'
  <2>1. RxEnds(rxDevice.memory[i].packet, RxNextIndex(i))
    BY <1>1, <1>5 DEF RxInv, RxAssembly
  <2> QED
    BY <2>1 DEF RxFresh, RxEnds
<1>6. ASSUME rx'.assembling # 0, rx'.enabled, ~rx'.failed
      PROVE  RxEnds(rx.assembling, RxUpcoming)'
  <2>1. RxEnds(rx.assembling, RxUpcoming)
    BY <1>6 DEF RxInv, RxAssembly
  <2> QED
    BY <2>1, <1>1 DEF RxFresh, RxEnds
<1> QED
  BY <1>2, <1>4, <1>5, <1>6 DEF RxAssembly

\* The same for the cursors, where a drain is not begun.
LEMMA RxCursorsKept ==
  ASSUME RxInv, RxTypeOK',
         rx'.consumer = rx.consumer, rx'.host = rx.host,
         rxDevice'.producer = rxDevice.producer, rxDevice'.index = rxDevice.index,
         rxDevice'.busy => rxDevice.busy,
         rxAt' \in {"poll", "callback"} => rxAt' = rxAt /\ rx'.left = rx.left
  PROVE  RxCursors'
  BY DEF RxInv, RxCursors, RxWaiting

\* PciRuntime::start and R16PciInterrupts::start.
LEMMA RxStartKeeps ==
  ASSUME RxInv, NEW ok \in BOOLEAN, RxStart(ok)
  PROVE  RxInv'
<1>0. RxTypeOK /\ RxService
  BY DEF RxInv
<1>1. PICK on \in BOOLEAN : /\ ok => on
                            /\ rxDevice' = [rxDevice EXCEPT !.engine = on, !.masked = ~ok]
  BY DEF RxStart
<1>2. rx' = IF ok THEN [rx EXCEPT !.runtime = "running", !.enabled = TRUE, !.timer = TRUE]
                  ELSE [rx EXCEPT !.runtime = "ended"]
  BY DEF RxStart
<1>3. rxAt = "idle" /\ rx.runtime = "new" /\ rxAt' = rxAt
  BY DEF RxStart
<1>4. RxTypeOK'
  BY <1>0, <1>1, <1>2, <1>3 DEF RxTypeOK, RxDriverType, RxDeviceType
<1>5. /\ rx'.consumer = rx.consumer /\ rx'.seen = rx.seen /\ rx'.host = rx.host
      /\ rx'.assembling = rx.assembling /\ rx'.frame = rx.frame /\ rx'.failed = rx.failed
      /\ rx'.stopped = rx.stopped /\ rx'.memory = rx.memory
      /\ ok => rx'.runtime = "running" /\ rx'.enabled
      /\ ~ok => rx'.runtime = "ended" /\ rx'.enabled = rx.enabled
  BY <1>0, <1>2 DEF RxTypeOK, RxDriverType
<1>6. /\ rxDevice'.producer = rxDevice.producer /\ rxDevice'.memory = rxDevice.memory
      /\ rxDevice'.written = rxDevice.written /\ rxDevice'.packet = rxDevice.packet
      /\ rxDevice'.open = rxDevice.open /\ rxDevice'.wasBad = rxDevice.wasBad
      /\ rxDevice'.index = rxDevice.index /\ rxDevice'.busy = rxDevice.busy
  BY <1>0, <1>1 DEF RxTypeOK, RxDeviceType
<1>7. RxCursors'
  BY <1>3, <1>4, <1>5, <1>6, RxCursorsKept
<1>8. RxOrdered' /\ RxAssembly'
  <2>1. rx'.enabled /\ ~rx'.failed => rx.assembling = 0 \/ (rx.enabled /\ ~rx.failed)
    BY <1>0, <1>3, <1>5 DEF RxService
  <2>2. rxAt' = "callback" <=> rxAt = "callback"
    BY <1>3
  <2> QED
    BY <2>1, <2>2, <1>4, <1>5, <1>6, RxBuffersKept
<1>9. RxService'
  <2>1. ~rx.enabled /\ ~rx.stopped /\ rx.memory /\ ~rx.failed
    BY <1>0, <1>3 DEF RxService
  <2> QED
    BY <2>1, <1>0, <1>3, <1>5 DEF RxService
<1> QED
  BY <1>4, <1>7, <1>8, <1>9 DEF RxInv

\* fail() and shutdown(): service ends; a stop counts only with the device idle,
\* and memory goes back only after such a stop and outside any drain.
LEMMA RxHaltKeeps ==
  ASSUME RxInv, NEW proven \in BOOLEAN, NEW stopping \in BOOLEAN, NEW memory \in BOOLEAN,
         RxStopProven(proven),
         rx' = [RxHalt(rx, proven) EXCEPT !.stopping = stopping, !.memory = memory],
         rxDevice' = RxSilenced,
         (rxAt' = "idle" /\ rxAt # "callback") \/ (rxAt' = rxAt /\ rxAt \in {"idle", "callback"}),
         ~memory => rxAt' = "idle" /\ proven
  PROVE  RxInv'
<1>0. RxTypeOK /\ RxService
  BY DEF RxInv
<1>1. rxAt' \in {"idle", "callback"} /\ (rxAt' = "callback" <=> rxAt = "callback")
  OBVIOUS
<1>2. /\ rx'.consumer = rx.consumer /\ rx'.seen = rx.seen /\ rx'.host = rx.host
      /\ rx'.assembling = rx.assembling /\ rx'.frame = rx.frame /\ rx'.failed = rx.failed
      /\ rx'.left = rx.left /\ rx'.stopped = proven /\ rx'.memory = memory
      /\ rx'.runtime = "ended" /\ ~rx'.enabled /\ ~rx'.timer
  BY <1>0 DEF RxTypeOK, RxDriverType, RxHalt
<1>3. /\ rxDevice'.producer = rxDevice.producer /\ rxDevice'.memory = rxDevice.memory
      /\ rxDevice'.written = rxDevice.written /\ rxDevice'.packet = rxDevice.packet
      /\ rxDevice'.open = rxDevice.open /\ rxDevice'.wasBad = rxDevice.wasBad
      /\ rxDevice'.index = rxDevice.index /\ rxDevice'.busy = rxDevice.busy
      /\ rxDevice'.masked /\ ~rxDevice'.engine
  BY <1>0 DEF RxTypeOK, RxDeviceType, RxSilenced
<1>4. RxTypeOK'
  <2>1. rx' \in RxDriverType
    BY <1>0 DEF RxTypeOK, RxDriverType, RxHalt
  <2>2. rxDevice' \in RxDeviceType
    BY <1>0 DEF RxTypeOK, RxDeviceType, RxSilenced
  <2> QED
    BY <1>1, <2>1, <2>2 DEF RxTypeOK
<1>5. RxCursors'
  BY <1>1, <1>2, <1>3, <1>4, RxCursorsKept
<1>6. RxOrdered' /\ RxAssembly'
  BY <1>1, <1>2, <1>3, <1>4, RxBuffersKept
<1>7. RxService'
  BY <1>0, <1>1, <1>2, <1>3 DEF RxService, RxStopProven
<1> QED
  BY <1>4, <1>5, <1>6, <1>7 DEF RxInv

\* A failure outside callbacks.
LEMMA RxFailKeeps ==
  ASSUME RxInv, rxAt # "callback", rx.memory, RxFail
  PROVE  RxInv'
<1>1. PICK proven \in BOOLEAN :
        /\ RxStopProven(proven)
        /\ rx' = RxHalt(rx, proven) /\ rxDevice' = RxSilenced /\ rxAt' = "idle"
  BY DEF RxFail
<1>2. rx.stopping \in BOOLEAN /\ rx.memory \in BOOLEAN
  BY DEF RxInv, RxTypeOK, RxDriverType
<1>3. rx' = [RxHalt(rx, proven) EXCEPT !.stopping = rx.stopping, !.memory = rx.memory]
  BY <1>1 DEF RxInv, RxTypeOK, RxDriverType, RxHalt
<1> QED
  BY <1>1, <1>2, <1>3, RxHaltKeeps

\* MacNetworkState::shutdown.
LEMMA RxShutdownKeeps ==
  ASSUME RxInv, RxShutdown
  PROVE  RxInv'
<1>1. PICK proven \in BOOLEAN, unmapped \in BOOLEAN :
        /\ RxStopProven(proven)
        /\ rx' = [RxHalt(rx, proven) EXCEPT !.stopping = TRUE,
                     !.memory = ~(proven /\ rxAt = "idle" /\ unmapped)]
  BY DEF RxShutdown
<1> DEFINE memory == ~(proven /\ rxAt = "idle" /\ unmapped)
<1>2. /\ rxDevice' = RxSilenced /\ rxAt' = rxAt /\ rxAt \in {"idle", "callback"}
  BY DEF RxShutdown
<1>3. memory \in BOOLEAN /\ TRUE \in BOOLEAN /\ (~memory => rxAt' = "idle" /\ proven)
  BY <1>2
<1>4. rx' = [RxHalt(rx, proven) EXCEPT !.stopping = TRUE, !.memory = memory]
  BY <1>1
<1> HIDE DEF memory
<1> QED
  BY <1>1, <1>2, <1>3, <1>4, RxHaltKeeps

\* drain() faulted: what a callback's stop has left is left alone.
LEMMA RxFaultKeeps ==
  ASSUME RxInv, rxAt \in {"poll", "publish", "reread", "enable"}, RxFault
  PROVE  RxInv'
<1>0. RxTypeOK /\ RxService
  BY DEF RxInv
<1>1. CASE rx.enabled
  <2>1. rx.memory
    BY <1>0, <1>1 DEF RxService
  <2> QED
    BY <1>1, <2>1, RxFailKeeps DEF RxFault
<1>2. CASE ~rx.enabled
  <2>1. rxAt' = "idle" /\ rx' = rx /\ rxDevice' = rxDevice
    BY <1>2 DEF RxFault
  <2>2. RxTypeOK'
    BY <1>0, <2>1 DEF RxTypeOK
  <2>3. RxCursors'
    BY <2>1, <2>2, RxCursorsKept
  <2>4. RxOrdered' /\ RxAssembly'
    BY <2>1, <2>2, RxBuffersKept
  <2>5. RxService'
    BY <1>0, <1>2, <2>1 DEF RxService
  <2> QED
    BY <2>2, <2>3, <2>4, <2>5 DEF RxInv
<1> QED
  BY <1>1, <1>2

\* A wake-up that cannot be served.
LEMMA RxWakeFailsKeeps ==
  ASSUME RxInv, RxWakeFails
  PROVE  RxInv'
<1>1. rxAt # "callback" /\ RxFail
  BY DEF RxWakeFails
<1>2. rx.memory
  BY DEF RxWakeFails, RxInv, RxService
<1> QED
  BY <1>1, <1>2, RxFailKeeps

\* dispatch(): the poll may take what the device has filled, up to its budget.
LEMMA RxWakeKeeps ==
  ASSUME RxInv, RxWake
  PROVE  RxInv'
<1>0. RxTypeOK /\ RxService /\ RxCursors
  BY DEF RxInv
<1> DEFINE left == IF RxWaiting > RxBudget THEN RxBudget ELSE RxWaiting
<1>1. RxDistance(rx.consumer, rxDevice.producer) = RxWaiting
  BY <1>0, RxFields, RxDistanceIs DEF RxWaiting
<1>2. RxDispatch(left)
  BY <1>1 DEF RxWake
<1>3. left \in Nat /\ left <= RxWaiting
  BY <1>0, RxFields, RxAssumption
<1>4. rxAt = "idle" /\ rx.enabled /\ ~rx.failed /\ rxAt' = "poll"
  BY <1>0, <1>2 DEF RxWake, RxDispatch, RxService
<1> HIDE DEF left
<1>5. /\ rx'.consumer = rx.consumer /\ rx'.seen = rx.seen /\ rx'.host = rx.host
      /\ rx'.assembling = rx.assembling /\ rx'.frame = rx.frame /\ ~rx'.failed
      /\ rx'.left = left /\ rx'.stopped = rx.stopped /\ rx'.memory = rx.memory
      /\ rx'.runtime = rx.runtime /\ rx'.enabled = rx.enabled
  BY <1>0, <1>2 DEF RxTypeOK, RxDriverType, RxDispatch
<1>6. /\ rxDevice'.producer = rxDevice.producer /\ rxDevice'.memory = rxDevice.memory
      /\ rxDevice'.written = rxDevice.written /\ rxDevice'.packet = rxDevice.packet
      /\ rxDevice'.open = rxDevice.open /\ rxDevice'.wasBad = rxDevice.wasBad
      /\ rxDevice'.index = rxDevice.index /\ rxDevice'.busy = rxDevice.busy
  BY <1>0, <1>2 DEF RxTypeOK, RxDeviceType, RxDispatch
<1>7. RxTypeOK'
  <2>1. rx' \in RxDriverType
    BY <1>0, <1>2, <1>3 DEF RxTypeOK, RxDriverType, RxDispatch
  <2>2. rxDevice' \in RxDeviceType
    BY <1>0, <1>2 DEF RxTypeOK, RxDeviceType, RxDispatch
  <2> QED
    BY <1>4, <2>1, <2>2 DEF RxTypeOK
<1>8. RxCursors'
  BY <1>0, <1>3, <1>4, <1>5, <1>6 DEF RxCursors, RxWaiting
<1>9. RxOrdered' /\ RxAssembly'
  BY <1>4, <1>5, <1>6, <1>7, RxBuffersKept
<1>10. RxService'
  BY <1>0, <1>4, <1>5 DEF RxService
<1> QED
  BY <1>7, <1>8, <1>9, <1>10 DEF RxInv

\* Steps that change where the gate is, the timer or the mask, and nothing else,
\* of a runtime that is running.
LEMMA RxGateMoves ==
  ASSUME RxInv, rx.enabled, ~rx.failed, rxAt # "callback",
         rxAt' \in {"idle", "publish", "reread", "enable"},
         NEW timer \in BOOLEAN, NEW masked \in BOOLEAN, NEW edge \in BOOLEAN,
         rx' = [rx EXCEPT !.timer = timer],
         rxDevice' = [rxDevice EXCEPT !.masked = masked, !.edge = edge]
  PROVE  RxInv'
<1>0. RxTypeOK /\ RxService /\ RxCursors
  BY DEF RxInv
<1>5. /\ rx'.consumer = rx.consumer /\ rx'.seen = rx.seen /\ rx'.host = rx.host
      /\ rx'.assembling = rx.assembling /\ rx'.frame = rx.frame /\ rx'.failed = rx.failed
      /\ rx'.left = rx.left /\ rx'.stopped = rx.stopped /\ rx'.memory = rx.memory
      /\ rx'.runtime = rx.runtime /\ rx'.enabled = rx.enabled
  BY <1>0 DEF RxTypeOK, RxDriverType
<1>6. /\ rxDevice'.producer = rxDevice.producer /\ rxDevice'.memory = rxDevice.memory
      /\ rxDevice'.written = rxDevice.written /\ rxDevice'.packet = rxDevice.packet
      /\ rxDevice'.open = rxDevice.open /\ rxDevice'.wasBad = rxDevice.wasBad
      /\ rxDevice'.index = rxDevice.index /\ rxDevice'.busy = rxDevice.busy
  BY <1>0 DEF RxTypeOK, RxDeviceType
<1>7. RxTypeOK'
  <2>1. rx' \in RxDriverType
    BY <1>0 DEF RxTypeOK, RxDriverType
  <2>2. rxDevice' \in RxDeviceType
    BY <1>0 DEF RxTypeOK, RxDeviceType
  <2> QED
    BY <2>1, <2>2 DEF RxTypeOK
<1>8. RxCursors'
  BY <1>5, <1>6, <1>7, RxCursorsKept
<1>9. RxOrdered' /\ RxAssembly'
  BY <1>5, <1>6, <1>7, RxBuffersKept
<1>10. RxService'
  BY <1>0, <1>5 DEF RxService
<1> QED
  BY <1>7, <1>8, <1>9, <1>10 DEF RxInv

\* The end of a poll, the second look at the indices, and the interrupts again.
LEMMA RxPolledKeeps ==
  ASSUME RxInv, RxPolled \/ RxReread \/ RxEnable
  PROVE  RxInv'
<1>0. RxTypeOK /\ RxService
  BY DEF RxInv
<1>1. /\ rx.timer \in BOOLEAN /\ rxDevice.masked \in BOOLEAN /\ rxDevice.edge \in BOOLEAN
      /\ rx = [rx EXCEPT !.timer = rx.timer]
      /\ rxDevice = [rxDevice EXCEPT !.masked = rxDevice.masked, !.edge = rxDevice.edge]
      /\ rxDevice.cause \in BOOLEAN
  BY <1>0 DEF RxTypeOK, RxDriverType, RxDeviceType
<1>2. CASE RxPolled
  <2>1. CASE rx.failed \/ ~RxRunning
    BY <1>2, <2>1, RxFaultKeeps DEF RxPolled
  <2>2. CASE ~(rx.failed \/ ~RxRunning)
    <3>1. /\ rx.enabled /\ ~rx.failed /\ rxAt = "poll" /\ rxAt' = "publish"
          /\ rx' = rx /\ rxDevice' = rxDevice
      BY <1>0, <1>2, <2>2 DEF RxPolled, RxRunning, RxService
    <3> QED
      BY <1>1, <3>1, RxGateMoves
  <2> QED
    BY <2>1, <2>2
<1>3. CASE RxReread
  <2>1. rx.enabled /\ ~rx.failed /\ rxAt = "reread" /\ rxDevice' = rxDevice
    BY <1>0, <1>3 DEF RxReread, RxService
  <2>2. CASE rx.host # rxDevice.producer
    <3>1. rxAt' = "idle" /\ rx' = [rx EXCEPT !.timer = TRUE] /\ TRUE \in BOOLEAN
      BY <1>3, <2>2 DEF RxReread
    <3> QED
      BY <1>1, <2>1, <3>1, RxGateMoves
  <2>3. CASE rx.host = rxDevice.producer
    <3>1. rxAt' = "enable" /\ rx' = rx
      BY <1>3, <2>3 DEF RxReread
    <3> QED
      BY <1>1, <2>1, <3>1, RxGateMoves
  <2> QED
    BY <2>2, <2>3
<1>4. CASE RxEnable
  <2>1. PICK lost \in BOOLEAN :
          rxDevice' = [rxDevice EXCEPT !.masked = FALSE, !.edge = rxDevice.cause /\ ~lost]
    BY <1>4 DEF RxEnable
  <2>2. /\ rx.enabled /\ ~rx.failed /\ rxAt = "enable" /\ rxAt' = "idle"
        /\ rx' = [rx EXCEPT !.timer = TRUE] /\ TRUE \in BOOLEAN /\ FALSE \in BOOLEAN
        /\ (rxDevice.cause /\ ~lost) \in BOOLEAN
    BY <1>0, <1>4 DEF RxEnable, RxService
  <2> QED
    BY <2>1, <2>2, RxGateMoves
<1> QED
  BY <1>2, <1>3, <1>4

\* PciRuntime::publish: the check of the distances never fails, and the device
\* gains the buffers between the old and the new index.
LEMMA RxPublishKeeps ==
  ASSUME RxInv, RxPublish
  PROVE  RxInv'
<1>0. RxTypeOK /\ RxService /\ RxCursors
  BY DEF RxInv
<1>1. /\ rx.host \in RxIndex /\ rx.consumer \in RxIndex /\ rxDevice.producer \in RxIndex
  BY <1>0, RxFields
<1>2. /\ RxDistance(rx.host, rx.consumer) = RxForward(rx.host, rx.consumer)
      /\ RxDistance(rx.host, rxDevice.producer) = RxForward(rx.host, rxDevice.producer)
      /\ RxForward(rx.host, rx.consumer) \in Nat
      /\ RxForward(rx.host, rxDevice.producer) \in Nat
      /\ RxForward(rx.consumer, rxDevice.producer) \in Nat
      /\ RxForward(rx.consumer, rx.consumer) = 0
  BY <1>1, RxDistanceIs, RxForwardIndex
<1>3. RxForward(rx.host, rx.consumer) <= RxForward(rx.host, rxDevice.producer)
  BY <1>0 DEF RxCursors
<1>4. /\ rxAt = "publish" /\ rxAt' = "reread" /\ rx' = [rx EXCEPT !.host = rx.consumer]
      /\ rxDevice' = [rxDevice EXCEPT !.index = rx.consumer]
  <2>1. ~(RxDistance(rx.host, rx.consumer) > RxDistance(rx.host, rxDevice.producer))
    BY <1>2, <1>3
  <2> QED
    BY <2>1 DEF RxPublish
<1>5. /\ rx'.consumer = rx.consumer /\ rx'.seen = rx.seen /\ rx'.host = rx.consumer
      /\ rx'.assembling = rx.assembling /\ rx'.frame = rx.frame /\ rx'.failed = rx.failed
      /\ rx'.left = rx.left /\ rx'.stopped = rx.stopped /\ rx'.memory = rx.memory
      /\ rx'.runtime = rx.runtime /\ rx'.enabled = rx.enabled
  BY <1>0, <1>4 DEF RxTypeOK, RxDriverType
<1>6. /\ rxDevice'.producer = rxDevice.producer /\ rxDevice'.memory = rxDevice.memory
      /\ rxDevice'.written = rxDevice.written /\ rxDevice'.packet = rxDevice.packet
      /\ rxDevice'.open = rxDevice.open /\ rxDevice'.wasBad = rxDevice.wasBad
      /\ rxDevice'.index = rx.consumer /\ rxDevice'.busy = rxDevice.busy
  BY <1>0, <1>4 DEF RxTypeOK, RxDeviceType
<1>7. RxTypeOK'
  <2>1. rx' \in RxDriverType
    BY <1>0, <1>1, <1>4 DEF RxTypeOK, RxDriverType
  <2>2. rxDevice' \in RxDeviceType
    BY <1>0, <1>1, <1>4 DEF RxTypeOK, RxDeviceType
  <2> QED
    BY <1>4, <2>1, <2>2 DEF RxTypeOK
<1>8. RxCursors'
  <2>1. RxForward(rx.consumer, rxDevice.producer)
          = RxForward(rx.host, rxDevice.producer) - RxForward(rx.host, rx.consumer)
    BY <1>1, <1>3, RxForwardSplit
  <2>2. rxDevice.busy => RxForward(rx.consumer, rxDevice.producer) < RxCount - 1
    BY <1>0, <1>2, <2>1, RxAssumption DEF RxCursors
  <2> QED
    BY <1>2, <1>4, <1>5, <1>6, <2>2 DEF RxCursors
<1>9. RxOrdered' /\ RxAssembly'
  BY <1>4, <1>5, <1>6, <1>7, RxBuffersKept
<1>10. RxService'
  BY <1>0, <1>4, <1>5 DEF RxService
<1> QED
  BY <1>7, <1>8, <1>9, <1>10 DEF RxInv

\* A device that begins to write has a free buffer.
LEMMA RxBeginsKeeps ==
  ASSUME RxInv, RxDeviceBegins
  PROVE  RxInv'
<1>0. RxTypeOK /\ RxService /\ RxCursors
  BY DEF RxInv
<1>1. /\ rx.host \in RxIndex /\ rx.consumer \in RxIndex /\ rxDevice.producer \in RxIndex
  BY <1>0, RxFields
<1>2. /\ rxAt' = rxAt /\ rx' = rx /\ rxDevice' = [rxDevice EXCEPT !.busy = TRUE]
      /\ rxDevice.engine /\ RxAfter(rxDevice.producer) # rxDevice.index
  BY DEF RxDeviceBegins
<1>3. RxForward(rx.host, rxDevice.producer) < RxCount - 1
  BY <1>0, <1>1, <1>2, RxAfterIs, RxForwardLast, RxForwardIndex, RxAssumption DEF RxCursors
<1>6. /\ rxDevice'.producer = rxDevice.producer /\ rxDevice'.memory = rxDevice.memory
      /\ rxDevice'.written = rxDevice.written /\ rxDevice'.packet = rxDevice.packet
      /\ rxDevice'.open = rxDevice.open /\ rxDevice'.wasBad = rxDevice.wasBad
      /\ rxDevice'.index = rxDevice.index
  BY <1>0, <1>2 DEF RxTypeOK, RxDeviceType
<1>7. RxTypeOK'
  <2>1. rxDevice' \in RxDeviceType
    BY <1>0, <1>2 DEF RxTypeOK, RxDeviceType
  <2> QED
    BY <1>0, <1>2, <2>1 DEF RxTypeOK
<1>8. RxCursors'
  BY <1>0, <1>2, <1>3, <1>6 DEF RxCursors, RxWaiting
<1>9. RxOrdered' /\ RxAssembly'
  BY <1>2, <1>6, <1>7, RxBuffersKept
<1>10. RxService'
  BY <1>0, <1>2 DEF RxService
<1> QED
  BY <1>7, <1>8, <1>9, <1>10 DEF RxInv

----------------------------------------------------------------------------
(* Steps that move a cursor. *)

\* From a waiting buffer one comes to another one or to the producer, and not
\* back to the consumer.
LEMMA RxNextAhead ==
  ASSUME RxTypeOK, NEW i \in RxIndex, RxForward(rx.consumer, i) < RxWaiting
  PROVE  /\ i # rxDevice.producer
         /\ RxNextIndex(i) \in RxIndex /\ RxNextIndex(i) # rx.consumer
         /\ \/ RxNextIndex(i) = rxDevice.producer
            \/ RxForward(rx.consumer, RxNextIndex(i)) < RxWaiting
<1> DEFINE c == rx.consumer
           p == rxDevice.producer
<1>1. c \in RxIndex /\ p \in RxIndex /\ RxWaiting \in Nat /\ RxWaiting <= RxCount - 1
      /\ RxForward(c, p) = RxWaiting
  BY RxFields DEF RxWaiting
<1>2. RxForward(c, i) \in Nat /\ RxForward(c, i) < RxCount - 1 /\ RxNextIndex(i) \in RxIndex
  BY <1>1, RxForwardIndex, RxAfterIs, RxAssumption
<1>3. RxForward(c, RxNextIndex(i)) = RxForward(c, i) + 1
  BY <1>1, <1>2, RxForwardNext
<1>4. RxNextIndex(i) # c
  BY <1>1, <1>2, RxForwardLast, RxAssumption
<1>5. RxForward(c, RxNextIndex(i)) = RxWaiting => RxNextIndex(i) = p
  BY <1>1, <1>2, RxForwardInjective
<1> QED
  BY <1>1, <1>2, <1>3, <1>4, <1>5

\* A buffer goes back to the device: what waits is one less, and in the same
\* order, and an assembly that goes on does so at the next buffer.
LEMMA RxRecycleKeeps ==
  ASSUME RxInv, rxAt \in {"poll", "callback"}, rx.left > 0,
         rx.assembling # 0 /\ rx.enabled /\ ~rx.failed =>
            RxEnds(rx.assembling, RxNextIndex(rx.consumer)),
         NEW seen \in Nat, seen = RxGiven + 1,
         NEW failed \in BOOLEAN, rx.failed \/ ~rx.enabled => failed,
         rxAt' = "poll",
         rx' = [rx EXCEPT !.seen = seen, !.failed = failed,
                          !.consumer = RxAfter(rx.consumer), !.left = rx.left - 1],
         rxDevice' = [rxDevice EXCEPT !.memory[rx.consumer] = RxBlank]
  PROVE  RxInv'
<1> DEFINE h == rx.host
           c == rx.consumer
           d == RxNextIndex(rx.consumer)
           p == rxDevice.producer
<1>0. RxTypeOK /\ RxService /\ RxCursors /\ RxOrdered /\ RxAssembly
  BY DEF RxInv
<1>1. /\ h \in RxIndex /\ c \in RxIndex /\ p \in RxIndex /\ d \in RxIndex
      /\ RxAfter(c) = d /\ rx.left \in Nat /\ RxGiven \in Int
      /\ RxWaiting \in Nat /\ RxWaiting <= RxCount - 1 /\ RxForward(c, p) = RxWaiting
      /\ rxDevice.written \in Nat /\ rxDevice.memory \in [RxIndex -> RxSegment]
  BY <1>0, RxFields, RxAfterIs DEF RxWaiting
<1>2. rx.left <= RxWaiting /\ RxWaiting > 0 /\ c # p
  BY <1>0, <1>1, RxForwardIndex DEF RxCursors
<1>3. /\ rx'.consumer = d /\ rx'.seen = seen /\ rx'.host = h
      /\ rx'.assembling = rx.assembling /\ rx'.frame = rx.frame /\ rx'.failed = failed
      /\ rx'.left = rx.left - 1 /\ rx'.stopped = rx.stopped /\ rx'.memory = rx.memory
      /\ rx'.runtime = rx.runtime /\ rx'.enabled = rx.enabled /\ rx'.timer = rx.timer
  BY <1>0, <1>1 DEF RxTypeOK, RxDriverType
<1>4. /\ rxDevice'.producer = p
      /\ rxDevice'.written = rxDevice.written /\ rxDevice'.packet = rxDevice.packet
      /\ rxDevice'.open = rxDevice.open /\ rxDevice'.wasBad = rxDevice.wasBad
      /\ rxDevice'.index = rxDevice.index /\ rxDevice'.busy = rxDevice.busy
      /\ rxDevice'.masked = rxDevice.masked /\ rxDevice'.engine = rxDevice.engine
      /\ rxDevice'.memory = [rxDevice.memory EXCEPT ![c] = RxBlank]
  BY <1>0 DEF RxTypeOK, RxDeviceType
<1>5. \A i \in RxIndex : i # c => rxDevice'.memory[i] = rxDevice.memory[i]
  BY <1>1, <1>4
<1>6. RxTypeOK'
  <2>1. RxBlank \in RxSegment
    BY DEF RxBlank, RxSegment, RxParts
  <2>2. rxDevice'.memory \in [RxIndex -> RxSegment]
    BY <1>1, <1>4, <2>1
  <2>3. rxDevice' \in RxDeviceType
    BY <1>0, <1>1, <2>1 DEF RxTypeOK, RxDeviceType
  <2>4. rx.left - 1 \in Nat
    BY <1>1
  <2>5. rx' \in RxDriverType
    BY <1>0, <1>1, <2>4 DEF RxTypeOK, RxDriverType
  <2> QED
    BY <2>3, <2>5 DEF RxTypeOK
<1>7. RxWaiting' = RxWaiting - 1 /\ RxGiven' = RxGiven + 1 /\ RxUpcoming' = d
  BY <1>1, <1>2, <1>3, <1>4, RxForwardFrom DEF RxWaiting, RxGiven, RxUpcoming
<1>8. \A i \in RxIndex : RxForward(d, i) < RxWaiting' =>
        i # c /\ RxForward(c, i) = RxForward(d, i) + 1 /\ RxForward(c, i) < RxWaiting
  <2> TAKE i \in RxIndex
  <2> HAVE RxForward(d, i) < RxWaiting'
  <2>1. RxForward(d, i) \in Nat /\ RxForward(c, i) \in Nat
    BY <1>1, RxForwardIndex
  <2>2. i # c
    BY <1>1, <1>7, <2>1, RxForwardHome, RxAssumption
  <2>3. RxForward(d, i) = RxForward(c, i) - 1
    BY <1>1, <2>2, RxForwardFrom
  <2> QED
    BY <1>1, <1>7, <2>1, <2>2, <2>3
<1>9. RxCursors'
  <2>1. RxForward(c, p) = RxForward(h, p) - RxForward(h, c)
    BY <1>0, <1>1, RxForwardSplit DEF RxCursors
  <2>2. /\ RxForward(h, p) \in Nat /\ RxForward(h, c) \in Nat
        /\ RxForward(h, p) <= RxCount - 1
    BY <1>1, RxForwardIndex
  <2>3. RxForward(h, d) = RxForward(h, c) + 1
    BY <1>1, <1>2, <2>1, <2>2, RxForwardNext, RxAssumption
  <2>4. RxForward(h, d) <= RxForward(h, p)
    BY <1>1, <1>2, <2>1, <2>2, <2>3
  <2> QED
    BY <1>0, <1>1, <1>2, <1>3, <1>4, <1>7, <2>4 DEF RxCursors
<1>10. RxOrdered'
  <2>1. rxDevice'.written = RxGiven' + RxWaiting'
    BY <1>0, <1>1, <1>4, <1>7 DEF RxOrdered
  <2>2. ASSUME NEW i \in RxIndex, RxForward(rx'.consumer, i) < RxWaiting'
        PROVE  rxDevice'.memory[i].serial = RxGiven' + RxForward(rx'.consumer, i) + 1
    <3>1. /\ i # c /\ RxForward(c, i) = RxForward(d, i) + 1
          /\ RxForward(c, i) < RxWaiting /\ RxForward(d, i) \in Nat
      BY <1>1, <1>3, <1>8, <2>2, RxForwardIndex
    <3>2. rxDevice.memory[i].serial = RxGiven + RxForward(c, i) + 1
      BY <1>0, <3>1 DEF RxOrdered
    <3> QED
      BY <1>1, <1>3, <1>5, <1>7, <3>1, <3>2
  <2> QED
    BY <2>1, <2>2 DEF RxOrdered
<1>11. ASSUME NEW i \in RxIndex, i = p \/ (i # c /\ RxForward(c, i) < RxWaiting),
              RxFresh(i)
       PROVE  RxFresh(i)'
  BY <1>4, <1>5, <1>11 DEF RxFresh
<1>12. ASSUME NEW i \in RxIndex, i = p \/ (i # c /\ RxForward(c, i) < RxWaiting),
              NEW q, RxEnds(q, i)
       PROVE  RxEnds(q, i)'
  <2>1. CASE i = p
    BY <1>4, <1>11, <1>12, <2>1 DEF RxEnds
  <2>2. CASE i # p
    <3>1. /\ RxNextIndex(i) \in RxIndex
          /\ \/ RxNextIndex(i) = p
             \/ RxNextIndex(i) # c /\ RxForward(c, RxNextIndex(i)) < RxWaiting
      BY <1>0, <1>12, <2>2, RxNextAhead
    <3>2. CASE RxFresh(i)
      BY <1>11, <1>12, <3>2 DEF RxEnds
    <3>3. CASE rxDevice.memory[i].part = "last" /\ rxDevice.memory[i].packet = q
      BY <1>4, <1>5, <1>12, <2>2, <3>3 DEF RxEnds
    <3>4. CASE rxDevice.memory[i].part = "bad" /\ RxFresh(RxNextIndex(i))
      <4>1. RxFresh(RxNextIndex(i))'
        BY <3>1, <3>4, <1>11
      <4> QED
        BY <1>4, <1>5, <1>12, <2>2, <3>4, <4>1 DEF RxEnds
    <3> QED
      BY <1>12, <2>2, <3>2, <3>3, <3>4 DEF RxEnds
  <2> QED
    BY <2>1, <2>2
<1>13. RxAssembly'
  <2>1. ASSUME NEW i \in RxIndex, RxForward(rx'.consumer, i) < RxWaiting',
               rxDevice'.memory[i].part = "first"
        PROVE  RxEnds(rxDevice.memory[i].packet, RxNextIndex(i))'
    <3>1. i # c /\ RxForward(c, i) < RxWaiting
      BY <1>3, <1>8, <2>1
    <3>2. RxEnds(rxDevice.memory[i].packet, RxNextIndex(i))
      BY <1>0, <1>5, <2>1, <3>1 DEF RxAssembly
    <3>3. /\ RxNextIndex(i) \in RxIndex /\ RxNextIndex(i) # c
          /\ RxNextIndex(i) = p \/ RxForward(c, RxNextIndex(i)) < RxWaiting
      BY <1>0, <3>1, RxNextAhead
    <3>4. \A q : RxEnds(q, RxNextIndex(i)) => RxEnds(q, RxNextIndex(i))'
      BY <3>3, <1>12
    <3>5. rxDevice'.memory[i] = rxDevice.memory[i]
      BY <1>5, <3>1
    <3> QED
      BY <3>2, <3>4, <3>5
  <2>2. ASSUME rx'.assembling # 0, rx'.enabled, ~rx'.failed
        PROVE  RxEnds(rx.assembling, RxUpcoming)'
    <3>0. PICK k \in RxIndex : k = d
      BY <1>1
    <3>1. RxEnds(rx.assembling, k)
      BY <1>3, <2>2, <3>0
    <3>2. k # c /\ (k = p \/ RxForward(c, k) < RxWaiting)
      BY <1>0, <1>1, <1>2, <3>0, RxForwardIndex, RxNextAhead
    <3>3. \A q : RxEnds(q, k) => RxEnds(q, k)'
      BY <3>2, <1>12
    <3>4. rx'.assembling = rx.assembling /\ RxUpcoming' = k
      BY <1>3, <1>7, <3>0
    <3> QED
      BY <3>1, <3>3, <3>4
  <2>3. RxWholeFrames'
    BY <1>0, <1>3 DEF RxAssembly, RxWholeFrames
  <2> QED
    BY <2>1, <2>2, <2>3 DEF RxAssembly
<1>14. RxService'
  BY <1>0, <1>3, <1>4 DEF RxService
<1> QED
  BY <1>6, <1>9, <1>10, <1>13, <1>14 DEF RxInv

\* A buffer that is skipped: a dropped segment in the middle of a packet is
\* followed by the beginning of another one.
LEMMA RxSkipKeeps ==
  ASSUME RxInv, RxSkip
  PROVE  RxInv'
<1>0. RxTypeOK /\ RxCursors /\ RxAssembly /\ RxService
  BY DEF RxInv
<1>1. rxAt = "poll" /\ rx.left > 0 /\ (RxBuffer.part \in {"bad", "none"} \/ rx.failed)
  BY DEF RxSkip
<1>2. /\ rxAt' = "poll"
      /\ rx' = [rx EXCEPT !.seen = rx.seen + 1, !.failed = rx.failed,
                          !.consumer = RxAfter(rx.consumer), !.left = rx.left - 1]
      /\ rxDevice' = [rxDevice EXCEPT !.memory[rx.consumer] = RxBlank]
  BY <1>0 DEF RxSkip, RxRecycle, RxTaken, RxTypeOK, RxDriverType
<1>3. rx.seen + 1 \in Nat /\ rx.seen + 1 = RxGiven + 1 /\ rx.failed \in BOOLEAN
  BY <1>0, <1>1 DEF RxTypeOK, RxDriverType, RxGiven
<1>4. rx.failed \/ ~rx.enabled => rx.failed
  BY <1>0, <1>1 DEF RxService
<1>5. ASSUME rx.assembling # 0, rx.enabled, ~rx.failed
      PROVE  RxEnds(rx.assembling, RxNextIndex(rx.consumer))
  <2>1. RxEnds(rx.assembling, rx.consumer)
    BY <1>0, <1>1, <1>5 DEF RxAssembly, RxUpcoming
  <2>2. rx.consumer # rxDevice.producer
    BY <1>0, <1>1, RxFields, RxForwardIndex DEF RxCursors, RxWaiting
  <2>3. RxFresh(RxNextIndex(rx.consumer))
    BY <1>1, <1>5, <2>1, <2>2 DEF RxEnds, RxFresh, RxBuffer
  <2> QED
    BY <2>3 DEF RxEnds
<1> QED
  BY <1>1, <1>2, <1>3, <1>4, <1>5, RxRecycleKeeps

\* The callback returns the buffer it was lent.
LEMMA RxCallbackKeeps ==
  ASSUME RxInv, NEW ok \in BOOLEAN, RxCallbackReturns(ok)
  PROVE  RxInv'
<1>0. RxTypeOK /\ RxCursors /\ RxAssembly /\ RxService
  BY DEF RxInv
<1> DEFINE failed == ~ok \/ ~RxRunning
<1>1. rxAt = "callback" /\ rx.left > 0
  BY <1>0 DEF RxCallbackReturns, RxCursors
<1>2. /\ rxAt' = "poll"
      /\ rx' = [rx EXCEPT !.seen = rx.seen, !.failed = failed,
                          !.consumer = RxAfter(rx.consumer), !.left = rx.left - 1]
      /\ rxDevice' = [rxDevice EXCEPT !.memory[rx.consumer] = RxBlank]
  BY <1>0 DEF RxCallbackReturns, RxRecycle, RxTypeOK, RxDriverType
<1>3. rx.seen \in Nat /\ rx.seen = RxGiven + 1 /\ failed \in BOOLEAN
  BY <1>0, <1>1 DEF RxTypeOK, RxDriverType, RxGiven
<1>4. rx.failed \/ ~rx.enabled => failed
  BY <1>0, <1>1 DEF RxService, RxRunning
<1>5. rx.assembling # 0 /\ rx.enabled /\ ~rx.failed =>
        RxEnds(rx.assembling, RxNextIndex(rx.consumer))
  BY <1>0, <1>1 DEF RxAssembly, RxUpcoming
<1> HIDE DEF failed
<1> QED
  BY <1>1, <1>2, <1>3, <1>4, <1>5, RxRecycleKeeps

\* PciRxAssembly::feed of the buffer lent to the callback: a last segment is
\* that of the packet being assembled.
LEMMA RxBorrowKeeps ==
  ASSUME RxInv, RxBorrow
  PROVE  RxInv'
<1> DEFINE c == rx.consumer
           p == rxDevice.producer
           s == RxBuffer
<1>0. RxTypeOK /\ RxService /\ RxCursors /\ RxOrdered /\ RxAssembly
  BY DEF RxInv
<1>1. /\ rxAt = "poll" /\ rx.left > 0 /\ ~rx.failed /\ rx.enabled
      /\ s.part \notin {"bad", "none"} /\ rxAt' = "callback" /\ rxDevice' = rxDevice
  BY <1>0 DEF RxBorrow, RxService
<1>2. PICK going, frame : /\ going = RxFeed(s).going /\ frame = RxFeed(s).frame
                          /\ rx' = [RxTaken EXCEPT !.assembling = going, !.frame = frame]
  BY DEF RxBorrow
<1>3. /\ c \in RxIndex /\ p \in RxIndex /\ RxWaiting \in Nat /\ rx.left \in Nat
      /\ RxNextIndex(c) \in RxIndex /\ rx.seen \in Nat /\ rx.assembling \in Nat
      /\ rx.frame \in Nat \X Nat
      /\ s \in RxSegment /\ s = rxDevice.memory[c]
  BY <1>0, RxFields, RxAfterIs DEF RxBuffer
<1>4. /\ rx.left <= RxWaiting /\ c # p /\ RxForward(c, c) < RxWaiting
  BY <1>0, <1>1, <1>3, RxForwardIndex DEF RxCursors, RxWaiting
<1>5. rx.assembling # 0 => RxEnds(rx.assembling, c)
  BY <1>0, <1>1 DEF RxAssembly, RxUpcoming
<1>6. s.part = "first" => RxEnds(s.packet, RxNextIndex(c))
  BY <1>0, <1>3, <1>4 DEF RxAssembly
<1>7. /\ going = 0 \/ (s.part = "first" /\ going = s.packet)
      /\ \/ frame = rx.frame
         \/ frame = <<s.packet, s.packet>>
         \/ s.part = "last" /\ rx.assembling # 0 /\ frame = <<rx.assembling, s.packet>>
  BY <1>2 DEF RxFeed
<1>8. s.packet \in Nat
  BY <1>3 DEF RxSegment
<1>9. going \in Nat /\ frame \in Nat \X Nat /\ frame[1] = frame[2]
  <2>1. s.part = "last" /\ rx.assembling # 0 => rx.assembling = s.packet
    BY <1>3, <1>4, <1>5 DEF RxEnds, RxFresh
  <2>2. rx.frame[1] = rx.frame[2]
    BY <1>0 DEF RxAssembly, RxWholeFrames
  <2> QED
    BY <1>3, <1>7, <1>8, <2>1, <2>2
<1>10. /\ rx'.consumer = c /\ rx'.seen = rx.seen + 1 /\ rx'.host = rx.host
       /\ rx'.assembling = going /\ rx'.frame = frame /\ rx'.failed = rx.failed
       /\ rx'.left = rx.left /\ rx'.stopped = rx.stopped /\ rx'.memory = rx.memory
       /\ rx'.runtime = rx.runtime /\ rx'.enabled = rx.enabled /\ rx'.timer = rx.timer
  BY <1>0, <1>2 DEF RxTypeOK, RxDriverType, RxTaken
<1>11. RxTypeOK'
  <2>0. PICK n \in Nat : n = rx.seen + 1
    BY <1>3
  <2>1. rx' = [rx EXCEPT !.seen = n, !.assembling = going, !.frame = frame]
    BY <1>2, <2>0 DEF RxTaken
  <2>2. rx' \in RxDriverType
    BY <1>0, <1>9, <2>1 DEF RxTypeOK, RxDriverType
  <2> QED
    BY <1>0, <1>1, <2>2 DEF RxTypeOK
<1>12. RxWaiting' = RxWaiting /\ RxGiven' = RxGiven
  BY <1>1, <1>3, <1>10 DEF RxWaiting, RxGiven
<1>13. RxCursors'
  BY <1>0, <1>1, <1>4, <1>10, <1>12 DEF RxCursors
<1>14. RxOrdered'
  BY <1>0, <1>1, <1>10, <1>12 DEF RxOrdered
<1>15. RxAssembly'
  <2>1. ASSUME NEW i \in RxIndex, RxForward(rx'.consumer, i) < RxWaiting',
               rxDevice'.memory[i].part = "first"
        PROVE  RxEnds(rxDevice.memory[i].packet, RxNextIndex(i))'
    <3>1. RxEnds(rxDevice.memory[i].packet, RxNextIndex(i))
      BY <1>0, <1>1, <1>10, <1>12, <2>1 DEF RxAssembly
    <3> QED
      BY <1>1, <3>1 DEF RxEnds, RxFresh
  <2>2. ASSUME rx'.assembling # 0
        PROVE  RxEnds(rx.assembling, RxUpcoming)'
    <3>1. RxEnds(going, RxNextIndex(c)) /\ RxUpcoming' = RxNextIndex(c) /\ rx'.assembling = going
      BY <1>1, <1>6, <1>7, <1>10, <2>2 DEF RxUpcoming
    <3> QED
      BY <1>1, <3>1 DEF RxEnds, RxFresh
  <2>3. RxWholeFrames'
    BY <1>9, <1>10 DEF RxWholeFrames
  <2> QED
    BY <2>1, <2>2, <2>3 DEF RxAssembly
<1>16. RxService'
  BY <1>0, <1>1, <1>10 DEF RxService
<1> QED
  BY <1>11, <1>13, <1>14, <1>15, <1>16 DEF RxInv

\* The device fills the buffer at the producer: there is room for it, it comes
\* last, and it continues the packet that is open.
LEMMA RxWritesKeeps ==
  ASSUME RxInv, NEW segment \in {"whole", "first", "last", "bad"}, NEW open \in BOOLEAN,
         NEW lost \in BOOLEAN, RxDeviceWrites(segment, open, lost)
  PROVE  RxInv'
<1> DEFINE h == rx.host
           c == rx.consumer
           p == rxDevice.producer
           m == rxDevice.memory
<1>0. RxTypeOK /\ RxService /\ RxCursors /\ RxOrdered /\ RxAssembly
  BY DEF RxInv
<1>1. /\ h \in RxIndex /\ c \in RxIndex /\ p \in RxIndex /\ RxGiven \in Int
      /\ RxWaiting \in Nat /\ RxForward(c, p) = RxWaiting
      /\ rxDevice.written \in Nat /\ rxDevice.packet \in Nat /\ m \in [RxIndex -> RxSegment]
  BY <1>0, RxFields DEF RxWaiting
<1>2. PICK np \in RxIndex : np = RxNextIndex(p)
  BY <1>1, RxAfterIs
<1>3. PICK n \in Nat : n = rxDevice.written + 1
  BY <1>1
<1>4. PICK packet \in Nat :
        packet = IF rxDevice.open THEN rxDevice.packet ELSE rxDevice.packet + 1
  BY <1>1
<1>5. PICK buffer \in RxSegment : buffer = [serial |-> n, packet |-> packet, part |-> segment]
  BY DEF RxSegment, RxParts
<1>6. RxAfter(p) = np
  BY <1>1, <1>2, RxAfterIs
<1>7. /\ rxAt' = rxAt /\ rx' = rx /\ rxDevice.busy
      /\ rxDevice' = [rxDevice EXCEPT !.busy = FALSE, !.producer = np, !.written = n,
             !.memory[p] = buffer, !.packet = packet, !.open = open,
             !.wasBad = (segment = "bad"), !.cause = TRUE,
             !.edge = @ \/ (~rxDevice.masked /\ ~lost)]
  BY <1>3, <1>4, <1>5, <1>6 DEF RxDeviceWrites
<1>8. /\ segment \in (IF rxDevice.open THEN {"last", "bad"} ELSE {"whole", "first", "bad"})
      /\ open => segment = "first" \/ (segment = "bad" /\ ~rxDevice.open)
      /\ segment = "first" => open
      /\ segment = "bad" => ~rxDevice.wasBad
  BY DEF RxDeviceWrites
<1>9. /\ rxDevice'.producer = np /\ rxDevice'.written = n /\ rxDevice'.packet = packet
      /\ rxDevice'.open = open /\ rxDevice'.wasBad = (segment = "bad")
      /\ rxDevice'.index = rxDevice.index /\ ~rxDevice'.busy
      /\ rxDevice'.masked = rxDevice.masked /\ rxDevice'.engine = rxDevice.engine
      /\ rxDevice'.memory = [m EXCEPT ![p] = buffer]
  BY <1>0, <1>7 DEF RxTypeOK, RxDeviceType
<1>10. rxDevice'.memory[p] = buffer /\ \A i \in RxIndex : i # p => rxDevice'.memory[i] = m[i]
  BY <1>1, <1>9
<1>11. RxTypeOK'
  <2>1. PICK edge \in BOOLEAN : edge = (rxDevice.edge \/ (~rxDevice.masked /\ ~lost))
    OBVIOUS
  <2>2. PICK bad \in BOOLEAN : bad = (segment = "bad")
    OBVIOUS
  <2>3. PICK memory \in [RxIndex -> RxSegment] : memory = [m EXCEPT ![p] = buffer]
    BY <1>1
  <2>4. rxDevice' = [rxDevice EXCEPT !.busy = FALSE, !.producer = np, !.written = n,
             !.memory = memory, !.packet = packet, !.open = open,
             !.wasBad = bad, !.cause = TRUE, !.edge = edge]
    BY <1>7, <2>1, <2>2, <2>3
  <2>5. rxDevice' \in RxDeviceType
    BY <1>0, <2>4 DEF RxTypeOK, RxDeviceType
  <2> QED
    BY <1>0, <1>7, <2>5 DEF RxTypeOK
<1>12. /\ RxForward(h, p) \in Nat /\ RxForward(h, c) \in Nat
       /\ RxForward(h, p) < RxCount - 1 /\ RxForward(h, c) <= RxForward(h, p)
       /\ RxWaiting = RxForward(h, p) - RxForward(h, c) /\ RxWaiting < RxCount - 1
  <2>1. /\ RxForward(h, p) \in Nat /\ RxForward(h, c) \in Nat
        /\ RxForward(h, p) < RxCount - 1 /\ RxForward(h, c) <= RxForward(h, p)
    BY <1>0, <1>1, <1>7, RxForwardIndex DEF RxCursors
  <2> QED
    BY <1>1, <2>1, RxForwardSplit, RxAssumption
<1>13. RxWaiting' = RxWaiting + 1 /\ RxGiven' = RxGiven /\ RxUpcoming' = RxUpcoming
  <2>1. RxForward(c, np) = RxForward(c, p) + 1
    BY <1>1, <1>2, <1>12, RxForwardNext
  <2> QED
    BY <1>1, <1>7, <1>9, <2>1 DEF RxWaiting, RxGiven, RxUpcoming
<1>14. RxCursors'
  <2>1. RxForward(h, np) = RxForward(h, p) + 1
    BY <1>1, <1>2, <1>12, RxForwardNext
  <2>2. rx.left \in Nat
    BY <1>0, RxFields
  <2> QED
    BY <1>0, <1>1, <1>7, <1>9, <1>12, <1>13, <2>1, <2>2 DEF RxCursors
<1>15. RxOrdered'
  <2>1. rxDevice'.written = RxGiven' + RxWaiting'
    BY <1>0, <1>1, <1>3, <1>9, <1>13 DEF RxOrdered
  <2>2. ASSUME NEW i \in RxIndex, RxForward(c, i) < RxWaiting'
        PROVE  rxDevice'.memory[i].serial = RxGiven' + RxForward(c, i) + 1
    <3>1. RxForward(c, i) \in Nat
      BY <1>1, RxForwardIndex
    <3>2. CASE i = p
      BY <1>0, <1>1, <1>3, <1>5, <1>10, <1>13, <3>2 DEF RxOrdered
    <3>3. CASE i # p
      <4>1. RxForward(c, i) # RxWaiting
        BY <1>1, <3>3, RxForwardInjective
      <4>2. RxForward(c, i) < RxWaiting
        BY <1>1, <1>13, <2>2, <3>1, <4>1
      <4> QED
        BY <1>0, <1>10, <1>13, <3>3, <4>2 DEF RxOrdered
    <3> QED
      BY <3>2, <3>3
  <2> QED
    BY <1>7, <2>1, <2>2 DEF RxOrdered
<1>16. ASSUME NEW i \in RxIndex, i = p \/ RxForward(c, i) < RxWaiting
       PROVE  i # np
  <2>1. RxForward(c, np) = RxWaiting + 1 /\ RxForward(c, i) \in Nat
    BY <1>1, <1>2, <1>12, RxForwardNext, RxForwardIndex
  <2> QED
    BY <1>1, <1>16, <2>1
<1>17. ASSUME NEW i \in RxIndex, i = p \/ RxForward(c, i) < RxWaiting, RxFresh(i)
       PROVE  RxFresh(i)'
  <2>1. i # np
    BY <1>16, <1>17
  <2>2. CASE i = p
    BY <1>5, <1>8, <1>9, <1>10, <1>17, <2>1, <2>2 DEF RxFresh
  <2>3. CASE i # p
    BY <1>9, <1>10, <1>17, <2>1, <2>3 DEF RxFresh
  <2> QED
    BY <2>2, <2>3
<1>18. ASSUME NEW i \in RxIndex, i = p \/ RxForward(c, i) < RxWaiting,
              NEW q, RxEnds(q, i)
       PROVE  RxEnds(q, i)'
  <2>0. i # np
    BY <1>16, <1>18
  <2>1. CASE RxFresh(i)
    BY <1>17, <1>18, <2>1 DEF RxEnds
  <2>2. CASE i = p /\ rxDevice.open /\ rxDevice.packet = q
    <3>1. packet = q /\ buffer.packet = packet /\ buffer.part = segment
      BY <1>4, <1>5, <2>2
    <3>2. CASE segment = "last"
      BY <1>9, <1>10, <2>0, <2>2, <3>1, <3>2 DEF RxEnds
    <3>3. CASE segment = "bad"
      <4>1. ~open
        BY <1>8, <2>2, <3>3
      <4>2. RxFresh(np)'
        BY <1>9, <3>3, <4>1 DEF RxFresh
      <4>3. RxNextIndex(i) = np
        BY <1>2, <2>2
      <4> QED
        BY <1>9, <1>10, <2>0, <2>2, <3>1, <3>3, <4>2, <4>3 DEF RxEnds
    <3> QED
      BY <1>8, <2>2, <3>2, <3>3
  <2>3. CASE i # p /\ m[i].part = "last" /\ m[i].packet = q
    BY <1>9, <1>10, <2>0, <2>3 DEF RxEnds
  <2>4. CASE i # p /\ m[i].part = "bad" /\ RxFresh(RxNextIndex(i))
    <3>1. /\ RxNextIndex(i) \in RxIndex
          /\ RxNextIndex(i) = p \/ RxForward(c, RxNextIndex(i)) < RxWaiting
      BY <1>0, <1>18, <2>4, RxNextAhead
    <3>2. RxFresh(RxNextIndex(i))'
      BY <1>17, <2>4, <3>1
    <3> QED
      BY <1>9, <1>10, <2>0, <2>4, <3>2 DEF RxEnds
  <2> QED
    BY <1>18, <2>1, <2>2, <2>3, <2>4 DEF RxEnds
<1>19. RxAssembly'
  <2>1. ASSUME NEW i \in RxIndex, RxForward(rx'.consumer, i) < RxWaiting',
               rxDevice'.memory[i].part = "first"
        PROVE  RxEnds(rxDevice.memory[i].packet, RxNextIndex(i))'
    <3>1. CASE i = p
      <4>1. rxDevice'.memory[i].packet = packet /\ RxNextIndex(i) = np /\ open
        BY <1>2, <1>5, <1>8, <1>10, <2>1, <3>1
      <4>2. RxEnds(packet, np)'
        BY <1>9, <4>1 DEF RxEnds
      <4> QED
        BY <4>1, <4>2
    <3>2. CASE i # p
      <4>1. RxForward(c, i) < RxWaiting
        <5>1. RxForward(c, i) \in Nat /\ RxForward(c, i) # RxWaiting
          BY <1>1, <3>2, RxForwardInjective, RxForwardIndex
        <5> QED
          BY <1>1, <1>7, <1>13, <2>1, <5>1
      <4>2. RxEnds(m[i].packet, RxNextIndex(i))
        BY <1>0, <1>10, <2>1, <3>2, <4>1 DEF RxAssembly
      <4>3. /\ RxNextIndex(i) \in RxIndex
            /\ RxNextIndex(i) = p \/ RxForward(c, RxNextIndex(i)) < RxWaiting
        BY <1>0, <4>1, RxNextAhead
      <4>4. \A q : RxEnds(q, RxNextIndex(i)) => RxEnds(q, RxNextIndex(i))'
        BY <4>3, <1>18
      <4>5. rxDevice'.memory[i] = rxDevice.memory[i]
        BY <1>10, <3>2
      <4> QED
        BY <4>2, <4>4, <4>5
    <3> QED
      BY <3>1, <3>2
  <2>2. ASSUME rx'.assembling # 0, rx'.enabled, ~rx'.failed
        PROVE  RxEnds(rx.assembling, RxUpcoming)'
    <3>0. PICK k \in RxIndex : k = RxUpcoming
      BY <1>0, RxFields
    <3>1. RxEnds(rx.assembling, k)
      BY <1>0, <1>7, <2>2, <3>0 DEF RxAssembly
    <3>2. k = p \/ RxForward(c, k) < RxWaiting
      <4>1. c = p \/ RxForward(c, c) < RxWaiting
        BY <1>1, RxForwardIndex
      <4>2. rxAt = "callback" => RxForward(c, c) < RxWaiting
        <5>1. rxAt = "callback" => rx.left > 0 /\ rx.left <= RxWaiting
          BY <1>0 DEF RxCursors
        <5>2. rx.left \in Nat /\ RxForward(c, c) = 0
          BY <1>0, <1>1, RxFields, RxForwardIndex
        <5> QED
          BY <1>1, <5>1, <5>2
      <4> QED
        BY <1>0, <1>1, <3>0, <4>1, <4>2, RxNextAhead DEF RxUpcoming
    <3>3. \A q : RxEnds(q, k) => RxEnds(q, k)'
      BY <3>2, <1>18
    <3>4. rx'.assembling = rx.assembling /\ RxUpcoming' = k
      BY <1>7, <1>13, <3>0
    <3> QED
      BY <3>1, <3>3, <3>4
  <2>3. RxWholeFrames'
    BY <1>0, <1>7 DEF RxAssembly, RxWholeFrames
  <2> QED
    BY <2>1, <2>2, <2>3 DEF RxAssembly
<1>20. RxService'
  BY <1>0, <1>7, <1>9 DEF RxService
<1> QED
  BY <1>11, <1>14, <1>15, <1>19, <1>20 DEF RxInv

----------------------------------------------------------------------------
(* The receive ring as a whole. *)

\* Every step of the gate and of the device keeps the invariant.
LEMMA RxInvStep ==
  ASSUME RxInv, RxNext
  PROVE  RxInv'
<1>1. CASE \E ok \in BOOLEAN : RxStart(ok)
  BY <1>1, RxStartKeeps
<1>2. CASE RxHost
  <2>1. CASE RxServiceFails
    BY <2>1, RxFaultKeeps DEF RxServiceFails
  <2>2. CASE \E ok \in BOOLEAN : RxCallbackReturns(ok)
    BY <2>2, RxCallbackKeeps
  <2> QED
    BY <1>2, <2>1, <2>2, RxWakeKeeps, RxWakeFailsKeeps, RxSkipKeeps, RxBorrowKeeps,
       RxPolledKeeps, RxPublishKeeps DEF RxHost
<1>3. CASE RxShutdown
  BY <1>3, RxShutdownKeeps
<1>4. CASE RxDeviceBegins
  BY <1>4, RxBeginsKeeps
<1>5. CASE \E segment \in {"whole", "first", "last", "bad"}, open, lost \in BOOLEAN :
             RxDeviceWrites(segment, open, lost)
  BY <1>5, RxWritesKeeps
<1> QED
  BY <1>1, <1>2, <1>3, <1>4, <1>5 DEF RxNext

\* The invariant implies what is said of the frames handed up.
LEMMA RxInvSafe ==
  ASSUME RxInv
  PROVE  RxReadsInOrder /\ RxWholeFrames /\ RxReleasedQuiet /\ RxStoppedSilent
<1>0. RxTypeOK /\ RxService /\ RxCursors /\ RxOrdered /\ RxAssembly
  BY DEF RxInv
<1>1. RxReadsInOrder
  <2> SUFFICES ASSUME rxAt = "poll", rx.left > 0
               PROVE  RxBuffer.serial = rx.seen + 1
    BY DEF RxReadsInOrder
  <2>1. /\ rx.consumer \in RxIndex /\ rx.left \in Nat /\ RxWaiting \in Nat
        /\ rx.seen \in Nat /\ RxForward(rx.consumer, rx.consumer) = 0
    BY <1>0, RxFields, RxForwardIndex
  <2>2. rx.left <= RxWaiting /\ RxGiven = rx.seen
    BY <1>0 DEF RxCursors, RxGiven
  <2> QED
    BY <1>0, <2>1, <2>2 DEF RxOrdered, RxBuffer
<1>2. RxWholeFrames
  BY <1>0 DEF RxAssembly
<1>3. RxReleasedQuiet /\ RxStoppedSilent
  BY <1>0 DEF RxService, RxReleasedQuiet, RxStoppedSilent
<1> QED
  BY <1>1, <1>2, <1>3

\* The invariant is about the ring's variables only.
LEMMA RxInvStutter ==
  ASSUME RxInv, UNCHANGED rxVars
  PROVE  RxInv'
<1>1. rxAt' = rxAt /\ rx' = rx /\ rxDevice' = rxDevice
  BY DEF rxVars
<1> QED
  BY <1>1 DEF RxInv, RxTypeOK, RxCursors, RxOrdered, RxAssembly, RxService, RxWaiting, RxGiven,
     RxFresh, RxEnds, RxUpcoming, RxWholeFrames

----------------------------------------------------------------------------
(* The controller: its inductive invariant, on any state its handlers pass *)
(* through.                                                                *)

\* The fields of the state; what they hold is told by the parts below.
NetFields ==
  {"station", "disconnect", "cancelled", "authenticated", "traffic", "scheduler",
   "action", "out", "held", "ic", "queued", "port", "reset", "deferred", "auth",
   "probe", "run", "scanDone", "selected", "waiting", "selections", "credentials",
   "rsn", "enabled", "link", "fault"}

NetShape(s) == DOMAIN s = NetFields

\* The station waits for an action exactly where the controller has one, which
\* admits nothing and, once it runs, found everything drained.
NetAction(s) ==
  /\ s.action # "none" <=> s.station \in NetActionStates
  /\ s.action # "none" => s.traffic = "none" /\ ~s.held
  /\ s.action \in {"running", "complete"} => s.out = {} /\ s.scheduler = "none"

NetKeys(s) == s.out \subseteq {s.selected}

NetLink(s) ==
  s.link => s.traffic = "authorized" /\ s.station = "authorized" /\ s.ic = "RUN"

\* What poll() has pending belongs to the state the station is in; a reset waits
\* only for the drain that the disconnect waits for.
NetPending(s) ==
  /\ s.auth => s.station = "authenticating"
  /\ s.probe => s.station \in {"scanningDwell", "scanningRestore"}
  /\ s.scanDone => /\ s.station = "idle" /\ s.deferred = "none"
                   /\ s.enabled /\ s.waiting = 0
  /\ s.reset => s.station \in {"disconnectingCmac", "disconnecting"}
  /\ s.reset => NetDrained(s) \/ (s.station = "disconnectingCmac" /\ s.action = "deferred")

\* net80211 follows the station; within poll() it may still have to be told.
NetProtocol(s) ==
  \/ s.reset
  \/ /\ s.ic = "SCAN" =>
          \/ s.station \in NetScanning \cup {"preparingAuthentication"}
          \/ s.station = "authenticating" /\ s.auth
          \/ s.station = "idle" /\ (s.scanDone \/ (s.deferred # "none" /\ NetDrained(s)))
     /\ s.ic = "RUN" => s.station \in {"associated", "authorized"}
     /\ s.ic \in {"AUTH", "ASSOC"} =>
           s.station \in {"authenticating", "installingAssociationCmac", "joining",
                          "installingAssociationCam", "associated"}

NetLinking ==
  {"preparingAuthentication", "installingAssociationCmac", "joining", "installingAssociationCam"}

NetLinked == {"authenticating", "associated", "authorized"}

\* A scan is cancelled exactly when another state is wished for, and always when
\* the interface is down or a network waits to be installed; a station on its way
\* to a link with the interface down is told to disconnect, and has none.
NetObeys(s) ==
  /\ s.station \in NetScanning =>
       /\ s.cancelled <=> s.deferred # "none"
       /\ ~s.enabled \/ s.waiting # 0 => s.cancelled
  /\ s.station \in NetLinking /\ ~s.enabled => s.disconnect
  /\ s.station \in NetLinked => s.enabled

\* A scan that is wished for can begin.
NetWishes(s) == s.deferred \notin {"none", "INIT"} => s.enabled /\ s.waiting = 0

NetBase(s) ==
  /\ NetShape(s) /\ s.fault = "none"
  /\ NetAction(s) /\ NetKeys(s) /\ NetLink(s) /\ NetPending(s) /\ NetProtocol(s)

NetCore(s) == NetBase(s) /\ NetObeys(s) /\ NetWishes(s)

\* Between two handlers nothing is left that poll() does on the spot.
NetSettled(s) ==
  /\ ~s.auth /\ ~s.probe /\ ~s.scanDone
  /\ s.reset => s.station = "disconnectingCmac" /\ s.action = "deferred"
  /\ s.ic = "SCAN" => s.station # "idle"

\* After a failure of the device everything is closed and stays so.
NetDead(s) ==
  /\ NetShape(s) /\ s.fault = "device" /\ s.traffic = "none" /\ ~s.link
  /\ NetKeys(s)
  /\ s.action \in {"running", "complete"} =>
       s.out = {} /\ s.scheduler = "none" /\ ~s.held

NetInv == NetDead(net) \/ (NetCore(net) /\ NetSettled(net))

----------------------------------------------------------------------------
(* What the station's requests come to while the controller works. *)

\* setTraffic(none).
LEMMA NetTrafficNone ==
  ASSUME NEW s, NetShape(s), s.fault = "none"
  PROVE  \E x :
           /\ x \in {"none", s.scheduler}
           /\ NetSetTraffic(s, "none") =
                [s EXCEPT !.traffic = "none", !.held = FALSE, !.link = FALSE, !.scheduler = x]
<1>1. PICK u : u = [s EXCEPT !.traffic = "none", !.held = FALSE, !.link = FALSE]
  OBVIOUS
<1>2. /\ u = [s EXCEPT !.traffic = "none", !.held = FALSE, !.link = FALSE, !.scheduler = s.scheduler]
      /\ [u EXCEPT !.scheduler = "none"]
           = [s EXCEPT !.traffic = "none", !.held = FALSE, !.link = FALSE, !.scheduler = "none"]
  BY <1>1 DEF NetShape, NetFields
<1>3. NetSetTraffic(s, "none") \in {u, [u EXCEPT !.scheduler = "none"]}
  BY <1>1 DEF NetSetTraffic
<1> QED
  BY <1>2, <1>3

\* setTraffic() of anything else, with no action under way.
LEMMA NetTrafficOpen ==
  ASSUME NEW s, NetShape(s), s.fault = "none", s.action = "none",
         NEW t, t # "none"
  PROVE  \E h, l \in BOOLEAN :
           /\ h => s.held
           /\ l => s.link /\ t = "authorized"
           /\ NetSetTraffic(s, t) =
                [s EXCEPT !.traffic = t, !.scheduler = t, !.held = h, !.link = l]
<1>1. PICK h \in BOOLEAN : h = (s.held /\ t = "authorized")
  OBVIOUS
<1>2. PICK l \in BOOLEAN : l = (s.link /\ t = "authorized")
  OBVIOUS
<1>3. NetSetTraffic(s, t) = [s EXCEPT !.traffic = t, !.scheduler = t, !.held = h, !.link = l]
  BY <1>1, <1>2 DEF NetSetTraffic
<1> QED
  BY <1>1, <1>2, <1>3

\* The same, field by field.
LEMMA NetTrafficOpened ==
  ASSUME NEW s, NetShape(s), s.fault = "none", s.action = "none",
         NEW t, t # "none", NEW u, u = NetSetTraffic(s, t)
  PROVE  /\ NetShape(u) /\ u.traffic = t /\ (u.link => t = "authorized")
         /\ \A f \in NetFields \ {"traffic", "scheduler", "held", "link"} : u[f] = s[f]
<1>1. PICK h, l \in BOOLEAN :
        /\ h => s.held
        /\ l => s.link /\ t = "authorized"
        /\ NetSetTraffic(s, t) =
             [s EXCEPT !.traffic = t, !.scheduler = t, !.held = h, !.link = l]
  BY NetTrafficOpen
<1>2. NetShape(u)
  BY <1>1 DEF NetShape
<1>3. \A f \in NetFields \ {"traffic", "scheduler", "held", "link"} : u[f] = s[f]
  BY <1>1 DEF NetShape
<1>4. u.traffic = t /\ (u.link => t = "authorized")
  BY <1>1 DEF NetShape, NetFields
<1> QED
  BY <1>2, <1>3, <1>4

\* beginAction() with no action under way.
LEMMA NetActionBegun ==
  ASSUME NEW s, s.fault = "none", s.action = "none", NEW state
  PROVE  NetBeginAction(s, state) =
           [s EXCEPT !.station = state, !.traffic = "none", !.held = FALSE, !.action = "deferred"]
  BY DEF NetBeginAction

\* beginDisconnect() with no action under way.
LEMMA NetDisconnectBegun ==
  ASSUME NEW s, NetShape(s), s.fault = "none", s.action = "none"
  PROVE  \E x :
           NetBeginDisconnect(s) =
             [s EXCEPT !.traffic = "none", !.held = FALSE, !.link = FALSE, !.scheduler = x,
                       !.auth = FALSE, !.probe = FALSE, !.run = FALSE, !.reset = TRUE,
                       !.station = "disconnectingCmac", !.action = "deferred"]
<1>1. PICK x : NetSetTraffic(s, "none") =
        [s EXCEPT !.traffic = "none", !.held = FALSE, !.link = FALSE, !.scheduler = x]
  BY NetTrafficNone
<1>2. PICK u : u = [s EXCEPT !.traffic = "none", !.held = FALSE, !.link = FALSE, !.scheduler = x]
  OBVIOUS
<1>3. u.fault = "none" /\ u.action = "none"
  BY <1>2 DEF NetShape, NetFields
<1>4. PICK v : v = [u EXCEPT !.auth = FALSE, !.probe = FALSE, !.run = FALSE, !.reset = TRUE]
  OBVIOUS
<1>5. NetCancelProtocol(u) = v
  BY <1>3, <1>4 DEF NetCancelProtocol
<1>6. v.fault = "none" /\ v.action = "none"
  BY <1>2, <1>3, <1>4 DEF NetShape, NetFields
<1>7. NetBeginDisconnect(s) = [v EXCEPT !.station = "disconnectingCmac", !.traffic = "none",
                                         !.held = FALSE, !.action = "deferred"]
  <2>1. NetSetTraffic(s, "none") = u
    BY <1>1, <1>2
  <2>2. NetBeginDisconnect(s) = NetBeginAction(v, "disconnectingCmac")
    BY <2>1, <1>5 DEF NetBeginDisconnect
  <2> QED
    BY <2>2, <1>6, NetActionBegun
<1>8. NetBeginDisconnect(s) =
             [s EXCEPT !.traffic = "none", !.held = FALSE, !.link = FALSE, !.scheduler = x,
                       !.auth = FALSE, !.probe = FALSE, !.run = FALSE, !.reset = TRUE,
                       !.station = "disconnectingCmac", !.action = "deferred"]
  BY <1>2, <1>4, <1>7 DEF NetShape, NetFields
<1> QED
  BY <1>8

\* restoreScan() with no action under way.
LEMMA NetScanRestored ==
  ASSUME NEW s, NetShape(s), s.fault = "none", s.action = "none",
         NEW state \in NetActionStates
  PROVE  \E x :
           NetBeginAction(NetSetTraffic(s, "none"), state) =
             [s EXCEPT !.traffic = "none", !.held = FALSE, !.link = FALSE, !.scheduler = x,
                       !.station = state, !.action = "deferred"]
<1>1. PICK x : NetSetTraffic(s, "none") =
        [s EXCEPT !.traffic = "none", !.held = FALSE, !.link = FALSE, !.scheduler = x]
  BY NetTrafficNone
<1>2. PICK u : u = [s EXCEPT !.traffic = "none", !.held = FALSE, !.link = FALSE, !.scheduler = x]
  OBVIOUS
<1>3. u.fault = "none" /\ u.action = "none"
  BY <1>2 DEF NetShape, NetFields
<1>4. NetBeginAction(u, state) = [u EXCEPT !.station = state, !.traffic = "none",
                                            !.held = FALSE, !.action = "deferred"]
  BY <1>3, NetActionBegun
<1>5. NetBeginAction(u, state) =
             [s EXCEPT !.traffic = "none", !.held = FALSE, !.link = FALSE, !.scheduler = x,
                       !.station = state, !.action = "deferred"]
  BY <1>2, <1>4 DEF NetShape, NetFields
<1> QED
  BY <1>1, <1>2, <1>5

----------------------------------------------------------------------------
(* Requests keep the invariant. *)

\* The fields that beginDisconnect() and restoreScan() leave alone, and that the
\* wishes of others are about.
NetSameWishes(s, u) ==
  /\ u.deferred = s.deferred /\ u.enabled = s.enabled /\ u.waiting = s.waiting
  /\ u.scanDone = s.scanDone /\ u.ic = s.ic /\ u.cancelled = s.cancelled
  /\ u.out = s.out /\ u.selected = s.selected

\* A disconnect begins: net80211 is reset when everything is drained.
LEMMA NetBeginDisconnectKeeps ==
  ASSUME NEW s, NetShape(s), s.fault = "none", NetKeys(s), s.action = "none", ~s.scanDone,
         NEW u, u = NetBeginDisconnect(s)
  PROVE  /\ NetBase(u) /\ NetSettled(u) /\ NetSameWishes(s, u)
         /\ u.station = "disconnectingCmac" /\ u.action = "deferred"
<1>2. PICK x : u =
             [s EXCEPT !.traffic = "none", !.held = FALSE, !.link = FALSE, !.scheduler = x,
                       !.auth = FALSE, !.probe = FALSE, !.run = FALSE, !.reset = TRUE,
                       !.station = "disconnectingCmac", !.action = "deferred"]
  BY NetDisconnectBegun
<1>3. "disconnectingCmac" \in NetActionStates
  BY DEF NetActionStates
<1>4. NetShape(u)
  BY <1>2 DEF NetShape
<1>5. /\ u.traffic = "none" /\ ~u.held /\ ~u.link /\ ~u.auth /\ ~u.probe /\ u.reset
      /\ u.station = "disconnectingCmac" /\ u.action = "deferred" /\ u.fault = "none"
      /\ NetSameWishes(s, u)
  BY <1>2 DEF NetShape, NetFields, NetSameWishes
<1>6. NetBase(u)
  BY <1>3, <1>4, <1>5
     DEF NetBase, NetAction, NetKeys, NetLink, NetPending, NetProtocol, NetSameWishes
<1> QED
  BY <1>5, <1>6 DEF NetSettled, NetSameWishes

\* An action that begins from a state without one, with traffic closed first;
\* net80211 must be content with the state it leads to.
LEMMA NetActionKeeps ==
  ASSUME NEW s, NetShape(s), s.fault = "none", NetKeys(s),
         s.action = "none", ~s.scanDone, ~s.reset, ~s.auth,
         NEW state \in NetActionStates,
         s.probe => state = "scanningRestore",
         s.ic = "SCAN" => state \in NetScanning \cup {"preparingAuthentication"},
         s.ic # "RUN", s.ic \notin {"AUTH", "ASSOC"},
         NEW u, u = NetBeginAction(NetSetTraffic(s, "none"), state)
  PROVE  /\ NetBase(u) /\ NetSameWishes(s, u)
         /\ u.station = state /\ u.action = "deferred" /\ ~u.reset
         /\ u.probe = s.probe /\ u.auth = s.auth /\ u.disconnect = s.disconnect
         /\ ~u.link
<1>2. PICK x : NetBeginAction(NetSetTraffic(s, "none"), state) =
             [s EXCEPT !.traffic = "none", !.held = FALSE, !.link = FALSE, !.scheduler = x,
                       !.station = state, !.action = "deferred"]
  BY NetScanRestored
<1>4. NetShape(u)
  BY <1>2 DEF NetShape
<1>5. /\ u.traffic = "none" /\ ~u.held /\ ~u.link /\ u.auth = s.auth /\ u.probe = s.probe
      /\ u.reset = s.reset /\ u.disconnect = s.disconnect
      /\ u.station = state /\ u.action = "deferred" /\ u.fault = "none"
      /\ NetSameWishes(s, u)
  BY <1>2 DEF NetShape, NetFields, NetSameWishes
<1>6. NetBase(u)
  BY <1>4, <1>5
     DEF NetBase, NetAction, NetKeys, NetLink, NetPending, NetProtocol, NetSameWishes
<1> QED
  BY <1>5, <1>6

\* restoreScan() of a dwell.
LEMMA NetRestoreKeeps ==
  ASSUME NEW s, NetBase(s), s.station = "scanningDwell",
         NEW u, u = NetRestoreScan(s)
  PROVE  /\ NetBase(u) /\ NetSameWishes(s, u)
         /\ u.station = "scanningRestore" /\ ~u.reset
         /\ u.probe = s.probe /\ u.auth = s.auth
<1>1. s.action = "none"
  BY DEF NetBase, NetAction, NetActionStates
<1>2. ~s.scanDone /\ ~s.reset /\ ~s.auth
  BY DEF NetBase, NetPending
<1>3. s.ic # "RUN" /\ s.ic \notin {"AUTH", "ASSOC"}
  BY <1>2 DEF NetBase, NetProtocol
<1>4. "scanningRestore" \in NetActionStates /\ "scanningRestore" \in NetScanning
  BY DEF NetActionStates, NetScanning
<1>5. u = NetBeginAction(NetSetTraffic(s, "none"), "scanningRestore")
  BY DEF NetRestoreScan
<1>6. NetShape(s) /\ s.fault = "none" /\ NetKeys(s)
  BY DEF NetBase
<1> QED
  BY <1>1, <1>2, <1>3, <1>4, <1>5, <1>6, NetActionKeeps

\* Flags and wishes that the invariant's parts about net80211 do not mention, and
\* traffic that is closed, may change freely.
LEMMA NetNoted ==
  ASSUME NEW s, NetBase(s), NEW u, NetShape(u),
         \A f \in NetFields \ {"cancelled", "disconnect", "authenticated", "queued", "port",
                               "run", "credentials", "rsn", "selections"} : u[f] = s[f]
  PROVE  NetBase(u) /\ (NetSettled(s) => NetSettled(u))
<1>1. /\ u.station = s.station /\ u.traffic = s.traffic /\ u.scheduler = s.scheduler
      /\ u.action = s.action /\ u.out = s.out /\ u.held = s.held /\ u.ic = s.ic
      /\ u.reset = s.reset /\ u.deferred = s.deferred /\ u.auth = s.auth
      /\ u.probe = s.probe /\ u.scanDone = s.scanDone /\ u.selected = s.selected
      /\ u.waiting = s.waiting /\ u.enabled = s.enabled /\ u.link = s.link
      /\ u.fault = s.fault
  BY DEF NetFields
<1> QED
  BY <1>1 DEF NetBase, NetAction, NetKeys, NetLink, NetPending, NetProtocol, NetDrained, NetSettled

\* setTraffic(none) in any state.
LEMMA NetTrafficNoneKeeps ==
  ASSUME NEW s, NetBase(s), NEW u, u = NetSetTraffic(s, "none")
  PROVE  /\ NetBase(u) /\ (NetSettled(s) => NetSettled(u)) /\ NetSameWishes(s, u)
         /\ u.station = s.station /\ u.action = s.action /\ u.probe = s.probe
         /\ u.auth = s.auth /\ u.reset = s.reset /\ u.disconnect = s.disconnect
<1>1. NetShape(s) /\ s.fault = "none"
  BY DEF NetBase
<1>2. PICK x : /\ x \in {"none", s.scheduler}
               /\ NetSetTraffic(s, "none") =
                    [s EXCEPT !.traffic = "none", !.held = FALSE, !.link = FALSE, !.scheduler = x]
  BY <1>1, NetTrafficNone
<1>3. NetShape(u)
  BY <1>1, <1>2 DEF NetShape
<1>4. /\ u.traffic = "none" /\ ~u.held /\ ~u.link /\ u.scheduler = x
      /\ u.station = s.station /\ u.action = s.action /\ u.probe = s.probe
      /\ u.auth = s.auth /\ u.reset = s.reset /\ u.fault = s.fault
      /\ u.disconnect = s.disconnect /\ NetSameWishes(s, u)
  BY <1>1, <1>2 DEF NetShape, NetFields, NetSameWishes
<1>5. NetBase(u)
  BY <1>1, <1>2, <1>3, <1>4
     DEF NetBase, NetAction, NetKeys, NetLink, NetPending, NetProtocol, NetDrained, NetSameWishes
<1> QED
  BY <1>4, <1>5 DEF NetSettled, NetSameWishes

\* disconnect(): whatever the station does, it is on its way to stop doing it.
LEMMA NetDisconnectKeeps ==
  ASSUME NEW s, NetBase(s), ~s.scanDone,
         NEW u, u = NetDisconnect(s)
  PROVE  /\ NetBase(u) /\ (NetSettled(s) => NetSettled(u))
         /\ u.deferred = s.deferred /\ u.enabled = s.enabled /\ u.waiting = s.waiting
         /\ ~u.scanDone /\ u.ic = s.ic
         /\ u.station \in NetScanning => u.cancelled
         /\ u.station \in NetLinking => u.disconnect
         /\ u.station \notin NetLinked
         /\ u.probe => s.probe
         /\ u.auth => s.auth
         /\ u.station = "idle" => s.station = "idle"
         /\ u.reset => s.reset \/ (u.station = "disconnectingCmac" /\ u.action = "deferred")
         /\ s.station \in NetNoRole \cup {"idle"} => u = s
<1>1. NetShape(s) /\ s.fault = "none"
  BY DEF NetBase
<1>2. CASE s.station \in NetNoRole \cup {"idle"}
  BY <1>2 DEF NetDisconnect, NetScanning, NetNoRole, NetLinking, NetLinked
<1>3. CASE s.station \in NetScanning
  <2>0. s.station \notin NetNoRole \cup {"idle"}
    BY <1>3 DEF NetNoRole, NetScanning
  <2>1. PICK v : v = [s EXCEPT !.cancelled = TRUE]
    OBVIOUS
  <2>2. NetShape(v) /\ \A f \in NetFields \ {"cancelled"} : v[f] = s[f]
    BY <1>1, <2>1 DEF NetShape
  <2>3. NetBase(v) /\ (NetSettled(s) => NetSettled(v))
    BY <2>2, NetNoted
  <2>4. /\ v.cancelled /\ v.station = s.station /\ v.probe = s.probe /\ v.auth = s.auth
        /\ v.reset = s.reset /\ ~v.scanDone /\ v.deferred = s.deferred
        /\ v.enabled = s.enabled /\ v.waiting = s.waiting /\ v.ic = s.ic
    BY <1>1, <2>1 DEF NetShape, NetFields
  <2>5. CASE s.station = "scanningDwell"
    <3>1. u = NetRestoreScan(v)
      BY <1>1, <1>3, <2>0, <2>1, <2>5 DEF NetDisconnect
    <3>2. /\ NetBase(u) /\ NetSameWishes(v, u) /\ u.station = "scanningRestore"
          /\ ~u.reset /\ u.probe = v.probe /\ u.auth = v.auth
      BY <2>3, <2>4, <2>5, <3>1, NetRestoreKeeps
    <3> QED
      BY <2>0, <2>4, <3>2 DEF NetSameWishes, NetSettled, NetLinking, NetLinked
  <2>6. CASE s.station # "scanningDwell"
    <3>1. u = v
      BY <1>1, <1>3, <2>0, <2>1, <2>6 DEF NetDisconnect
    <3> QED
      BY <1>3, <2>0, <2>3, <2>4, <3>1 DEF NetLinking, NetLinked, NetScanning
  <2> QED
    BY <2>5, <2>6
<1>4. CASE s.station \notin NetNoRole \cup {"idle"} /\ s.station \notin NetScanning
  <2>1. PICK v : v = [s EXCEPT !.disconnect = TRUE]
    OBVIOUS
  <2>2. NetShape(v) /\ \A f \in NetFields \ {"disconnect"} : v[f] = s[f]
    BY <1>1, <2>1 DEF NetShape
  <2>3. NetBase(v) /\ (NetSettled(s) => NetSettled(v))
    BY <2>2, NetNoted
  <2>4. /\ v.station = s.station /\ v.probe = s.probe /\ v.auth = s.auth /\ v.action = s.action
        /\ v.reset = s.reset /\ ~v.scanDone /\ v.deferred = s.deferred
        /\ v.enabled = s.enabled /\ v.waiting = s.waiting /\ v.ic = s.ic
        /\ v.disconnect
    BY <1>1, <2>1 DEF NetShape, NetFields
  <2>5. PICK w : w = NetSetTraffic(v, "none")
    OBVIOUS
  <2>6. /\ NetBase(w) /\ (NetSettled(v) => NetSettled(w)) /\ NetSameWishes(v, w)
        /\ w.station = v.station /\ w.action = v.action /\ w.probe = v.probe
        /\ w.auth = v.auth /\ w.reset = v.reset /\ w.disconnect = v.disconnect
    BY <2>3, <2>5, NetTrafficNoneKeeps
  <2>7. CASE s.station \in NetActionStates \cup NetCommandStates
    <3>1. u = w
      BY <1>1, <1>4, <2>1, <2>5, <2>7 DEF NetDisconnect
    <3> QED
      BY <1>4, <2>3, <2>4, <2>6, <2>7, <3>1
         DEF NetSameWishes, NetActionStates, NetCommandStates, NetLinked
  <2>8. CASE s.station \notin NetActionStates \cup NetCommandStates
    <3>1. u = NetBeginDisconnect(w)
      BY <1>1, <1>4, <2>1, <2>5, <2>8 DEF NetDisconnect
    <3>2. w.action = "none" /\ ~w.scanDone
      BY <2>4, <2>6, <2>8 DEF NetBase, NetAction, NetSameWishes
    <3>3. /\ NetBase(u) /\ NetSettled(u) /\ NetSameWishes(w, u)
          /\ u.station = "disconnectingCmac" /\ u.action = "deferred"
      BY <2>6, <3>1, <3>2, NetBeginDisconnectKeeps DEF NetBase
    <3> QED
      BY <1>4, <2>4, <2>6, <3>2, <3>3 DEF NetSameWishes, NetScanning, NetSettled, NetLinking, NetLinked
  <2> QED
    BY <2>7, <2>8
<1> QED
  BY <1>2, <1>3, <1>4

\* A state that is deferred until the station is idle.
LEMMA NetDeferKeeps ==
  ASSUME NEW s, NetBase(s), ~s.scanDone, NEW state \in {"INIT", "SCAN"},
         state = "SCAN" => s.enabled /\ s.waiting = 0,
         NEW u, u = NetDefer(s, state)
  PROVE  /\ NetCore(u) /\ (NetSettled(s) => NetSettled(u))
         /\ ~u.scanDone /\ u.ic = s.ic
         /\ u.enabled = s.enabled /\ u.waiting = s.waiting
         /\ u.probe => s.probe
         /\ u.auth => s.auth
         /\ u.station = "idle" => s.station = "idle"
         /\ u.station \notin NetLinked
         /\ u.reset => s.reset \/ (u.station = "disconnectingCmac" /\ u.action = "deferred")
<1>1. NetShape(s) /\ s.fault = "none"
  BY DEF NetBase
<1>2. PICK v : v = [s EXCEPT !.deferred = state]
  OBVIOUS
<1>3. u = NetDisconnect(v)
  BY <1>2 DEF NetDefer
<1>4. NetShape(v) /\ \A f \in NetFields \ {"deferred"} : v[f] = s[f]
  BY <1>1, <1>2 DEF NetShape
<1>5. /\ v.station = s.station /\ v.traffic = s.traffic /\ v.scheduler = s.scheduler
      /\ v.action = s.action /\ v.out = s.out /\ v.held = s.held /\ v.ic = s.ic
      /\ v.reset = s.reset /\ v.auth = s.auth
      /\ v.probe = s.probe /\ v.scanDone = s.scanDone /\ v.selected = s.selected
      /\ v.waiting = s.waiting /\ v.enabled = s.enabled /\ v.link = s.link
      /\ v.fault = s.fault /\ v.deferred = state
  BY <1>1, <1>2, <1>4 DEF NetFields, NetShape
<1>6. NetBase(v) /\ ~v.scanDone /\ (NetSettled(s) => NetSettled(v))
  BY <1>4, <1>5
     DEF NetBase, NetAction, NetKeys, NetLink, NetPending, NetProtocol, NetDrained, NetSettled
<1> QED
  BY <1>3, <1>5, <1>6, NetDisconnectKeeps DEF NetCore, NetObeys, NetWishes

\* A station that is idle, and what net80211 may be in then.
NetFree(s) ==
  /\ NetShape(s) /\ s.fault = "none" /\ NetKeys(s) /\ NetWishes(s)
  /\ s.station = "idle" /\ s.action = "none"
  /\ ~s.scanDone /\ ~s.reset /\ ~s.auth /\ ~s.probe
  /\ s.ic \notin {"RUN", "AUTH", "ASSOC"}

\* An idle station has nothing pending but the end of a scan.
LEMMA NetIdleIsFree ==
  ASSUME NEW s, NetCore(s), s.station = "idle", ~s.scanDone
  PROVE  NetFree(s)
  BY DEF NetCore, NetBase, NetAction, NetActionStates, NetPending, NetProtocol, NetFree,
     NetScanning

\* scan() of an idle station.
LEMMA NetScanKeeps ==
  ASSUME NEW s, NetFree(s), s.deferred = "none", s.enabled, s.waiting = 0,
         NEW u, u = NetScan(s)
  PROVE  NetCore(u) /\ NetSettled(u) /\ u.station = "scanningBegin"
<1>1. PICK v : v = [s EXCEPT !.cancelled = FALSE]
  OBVIOUS
<1>2. NetShape(v) /\ \A f \in NetFields \ {"cancelled"} : v[f] = s[f]
  BY <1>1 DEF NetShape, NetFree
<1>3. /\ v.action = "none" /\ v.out = s.out /\ v.ic = s.ic
      /\ ~v.reset /\ ~v.auth /\ ~v.probe /\ ~v.scanDone /\ v.selected = s.selected
      /\ v.waiting = 0 /\ v.enabled /\ v.fault = "none" /\ v.deferred = "none"
      /\ ~v.cancelled
  BY <1>1, <1>2 DEF NetFields, NetShape, NetFree
<1>4. NetKeys(v) /\ v.ic # "RUN" /\ v.ic \notin {"AUTH", "ASSOC"}
  BY <1>3 DEF NetFree, NetKeys
<1>5. u = NetBeginAction(NetSetTraffic(v, "none"), "scanningBegin")
  BY <1>1 DEF NetScan
<1>6. "scanningBegin" \in NetActionStates /\ "scanningBegin" \in NetScanning
  BY DEF NetActionStates, NetScanning
<1>7. /\ NetBase(u) /\ NetSameWishes(v, u)
      /\ u.station = "scanningBegin" /\ u.action = "deferred" /\ ~u.reset
      /\ u.probe = v.probe /\ u.auth = v.auth
  BY <1>2, <1>3, <1>4, <1>5, <1>6, NetActionKeeps
<1> QED
  BY <1>3, <1>7 DEF NetCore, NetObeys, NetWishes, NetSettled, NetSameWishes, NetLinking, NetLinked

\* connect() of an idle station.
LEMMA NetConnectKeeps ==
  ASSUME NEW s, NetFree(s), s.enabled,
         NEW u, u = NetConnect(s)
  PROVE  NetCore(u) /\ NetSettled(u)
<1>1. PICK v : v = [s EXCEPT !.authenticated = FALSE]
  OBVIOUS
<1>2. NetShape(v) /\ \A f \in NetFields \ {"authenticated"} : v[f] = s[f]
  BY <1>1 DEF NetShape, NetFree
<1>3. /\ v.action = "none" /\ v.out = s.out /\ v.ic = s.ic
      /\ ~v.reset /\ ~v.auth /\ ~v.probe /\ ~v.scanDone /\ v.selected = s.selected
      /\ v.waiting = s.waiting /\ v.enabled /\ v.fault = "none" /\ v.deferred = s.deferred
  BY <1>1, <1>2 DEF NetFields, NetShape, NetFree
<1>4. NetKeys(v) /\ v.ic # "RUN" /\ v.ic \notin {"AUTH", "ASSOC"}
  BY <1>3 DEF NetFree, NetKeys
<1>5. u = NetBeginAction(NetSetTraffic(v, "none"), "preparingAuthentication")
  BY <1>1 DEF NetConnect
<1>6. "preparingAuthentication" \in NetActionStates
  BY DEF NetActionStates
<1>7. /\ NetBase(u) /\ NetSameWishes(v, u)
      /\ u.station = "preparingAuthentication" /\ u.action = "deferred" /\ ~u.reset
      /\ u.probe = v.probe /\ u.auth = v.auth
  BY <1>2, <1>3, <1>4, <1>5, <1>6, NetActionKeeps
<1> QED
  BY <1>3, <1>7
     DEF NetCore, NetObeys, NetWishes, NetSettled, NetSameWishes, NetScanning, NetLinked, NetFree

\* A scan that net80211 asks for while the station is idle.
LEMMA NetNewScanIdle ==
  ASSUME NEW s, NetFree(s), s.deferred = "none", s.enabled, s.waiting = 0,
         NEW u, u = NetNewScan(s)
  PROVE  NetCore(u) /\ NetSettled(u) /\ u.station = "scanningBegin"
<1>1. NetUp(s) /\ s.station = "idle"
  BY DEF NetUp, NetFree
<1>2. CASE s.ic = "SCAN"
  <2>1. u = NetScan(s)
    BY <1>1, <1>2 DEF NetNewScan
  <2> QED
    BY <2>1, NetScanKeeps
<1>3. CASE s.ic # "SCAN"
  <2>1. PICK v : v = [s EXCEPT !.ic = "SCAN", !.port = FALSE]
    OBVIOUS
  <2>2. u = NetScan(v)
    BY <1>1, <1>3, <2>1 DEF NetNewScan, NetSavedScan
  <2>3. NetShape(v)
    BY <2>1 DEF NetFree, NetShape
  <2>4. /\ v.station = "idle" /\ v.action = "none" /\ v.out = s.out /\ v.ic = "SCAN"
        /\ ~v.reset /\ ~v.auth /\ ~v.probe /\ ~v.scanDone /\ v.selected = s.selected
        /\ v.waiting = 0 /\ v.enabled /\ v.fault = "none" /\ v.deferred = "none"
    BY <2>1 DEF NetFree, NetShape, NetFields
  <2>5. NetFree(v)
    BY <2>3, <2>4 DEF NetFree, NetKeys, NetWishes
  <2> QED
    BY <2>2, <2>4, <2>5, NetScanKeeps
<1> QED
  BY <1>2, <1>3

\* newState(SCAN) from a settled state.
LEMMA NetNewScanKeeps ==
  ASSUME NEW s, NetCore(s), NetSettled(s), s.station = "idle" => s.deferred = "none",
         NEW u, u = NetNewScan(s)
  PROVE  NetCore(u) /\ NetSettled(u)
<1>1. ~s.scanDone
  BY DEF NetSettled
<1>2. CASE ~NetUp(s)
  BY <1>2 DEF NetNewScan
<1>3. CASE NetUp(s) /\ s.station # "idle"
  <2>1. u = NetDefer(s, "SCAN")
    BY <1>3 DEF NetNewScan
  <2>2. s.enabled /\ s.waiting = 0 /\ NetBase(s)
    BY <1>3 DEF NetUp, NetCore
  <2> QED
    BY <1>1, <2>1, <2>2, NetDeferKeeps
<1>4. CASE NetUp(s) /\ s.station = "idle"
  <2>1. NetFree(s) /\ s.deferred = "none"
    BY <1>1, <1>4, NetIdleIsFree
  <2>2. s.enabled /\ s.waiting = 0
    BY <1>4 DEF NetUp
  <2> QED
    BY <2>1, <2>2, NetNewScanIdle
<1> QED
  BY <1>2, <1>3, <1>4

\* newState(AUTH) from a settled state.
LEMMA NetNewAuthKeeps ==
  ASSUME NEW s, NetCore(s), NetSettled(s), NEW u, u = NetNewAuth(s)
  PROVE  NetCore(u) /\ NetSettled(u)
<1>1. ~s.scanDone
  BY DEF NetSettled
<1>2. CASE ~NetUp(s)
  BY <1>2 DEF NetNewAuth
<1>3. CASE NetUp(s) /\ s.station # "idle"
  <2>1. u = NetDefer(s, "SCAN")
    BY <1>3 DEF NetNewAuth
  <2>2. s.enabled /\ s.waiting = 0 /\ NetBase(s)
    BY <1>3 DEF NetUp, NetCore
  <2> QED
    BY <1>1, <2>1, <2>2, NetDeferKeeps
<1>4. CASE NetUp(s) /\ s.station = "idle"
  <2>1. NetFree(s) /\ s.enabled
    BY <1>1, <1>4, NetIdleIsFree DEF NetUp
  <2>2. u = NetConnect(s)
    BY <1>4 DEF NetNewAuth
  <2> QED
    BY <2>1, <2>2, NetConnectKeeps
<1> QED
  BY <1>2, <1>3, <1>4

\* newState(ASSOC) from a settled state.
LEMMA NetNewAssocKeeps ==
  ASSUME NEW s, NetCore(s), NetSettled(s), NEW response, NEW u, u = NetNewAssoc(s, response)
  PROVE  NetCore(u) /\ NetSettled(u)
<1>1. ~s.scanDone /\ NetBase(s) /\ NetShape(s)
  BY DEF NetSettled, NetCore, NetBase
<1>2. CASE NetUp(s) /\ s.ic = "RUN"
  <2>1. u = NetDefer(s, "SCAN")
    BY <1>2 DEF NetNewAssoc
  <2>2. s.enabled /\ s.waiting = 0
    BY <1>2 DEF NetUp
  <2> QED
    BY <1>1, <2>1, <2>2, NetDeferKeeps
<1>3. CASE u = s
  BY <1>3
<1>4. CASE /\ s.ic = "AUTH" /\ s.station = "authenticating"
           /\ u = [s EXCEPT !.authenticated = TRUE, !.ic = "ASSOC", !.queued = TRUE]
  <2>1. NetShape(u)
    BY <1>1, <1>4 DEF NetShape
  <2>2. \A f \in NetFields \ {"authenticated", "ic", "queued"} : u[f] = s[f]
    BY <1>1, <1>4 DEF NetShape
  <2>3. u.ic = "ASSOC" /\ u.station = "authenticating"
    BY <1>1, <1>4 DEF NetShape, NetFields
  <2>4. NetBase(u) /\ NetSettled(u)
    BY <1>1, <1>4, <2>1, <2>2, <2>3
       DEF NetBase, NetAction, NetKeys, NetLink, NetPending, NetProtocol, NetDrained,
           NetSettled, NetFields, NetScanning
  <2> QED
    BY <1>1, <1>4, <2>2, <2>3, <2>4 DEF NetCore, NetObeys, NetWishes, NetFields
<1> QED
  BY <1>2, <1>3, <1>4 DEF NetNewAssoc

\* newState(RUN) from a settled state.
LEMMA NetNewRunKeeps ==
  ASSUME NEW s, NetCore(s), NetSettled(s), NEW u, u = NetNewRun(s)
  PROVE  NetCore(u) /\ NetSettled(u)
<1>1. NetBase(s) /\ NetShape(s) /\ s.fault = "none"
  BY DEF NetCore, NetBase
<1>2. CASE u = s
  BY <1>2
<1>3. CASE /\ NetUp(s) /\ s.ic = "ASSOC" /\ s.station = "authenticating"
           /\ u = [NetBeginAction(s, "installingAssociationCmac") EXCEPT !.run = TRUE]
  <2>1. s.action = "none" /\ ~s.link
    BY <1>1, <1>3 DEF NetBase, NetAction, NetActionStates, NetLink
  <2>2. PICK v : v = [s EXCEPT !.station = "installingAssociationCmac", !.traffic = "none",
                               !.held = FALSE, !.action = "deferred"]
    OBVIOUS
  <2>3. u = [v EXCEPT !.run = TRUE]
    BY <1>1, <1>3, <2>1, <2>2, NetActionBegun
  <2>4. NetShape(u)
    BY <1>1, <2>2, <2>3 DEF NetShape
  <2>5. \A f \in NetFields \ {"station", "traffic", "held", "action", "run"} : u[f] = s[f]
    BY <1>1, <2>2, <2>3 DEF NetShape
  <2>6. /\ u.station = "installingAssociationCmac" /\ u.traffic = "none" /\ ~u.held
        /\ u.action = "deferred"
    BY <1>1, <2>2, <2>3 DEF NetShape, NetFields
  <2>7. NetBase(u) /\ NetSettled(u)
    BY <1>1, <1>3, <2>1, <2>4, <2>5, <2>6
       DEF NetBase, NetAction, NetKeys, NetLink, NetPending, NetProtocol, NetActionStates,
           NetSettled, NetFields
  <2> QED
    BY <1>1, <1>3, <2>5, <2>6, <2>7
       DEF NetCore, NetObeys, NetWishes, NetFields, NetUp, NetScanning, NetLinked
<1> QED
  BY <1>2, <1>3 DEF NetNewRun

----------------------------------------------------------------------------
(* poll(), step by step. *)

\* tick() with the time up.
LEMMA NetTickedKeeps ==
  ASSUME NEW s, NetCore(s), NEW late, NEW u, u = NetTicked(s, late)
  PROVE  NetCore(u) /\ (NetSettled(s) => NetSettled(u))
<1>1. NetBase(s) /\ NetShape(s) /\ s.fault = "none"
  BY DEF NetCore, NetBase
<1>2. CASE u = s
  BY <1>2
<1>3. CASE s.station = "scanningDwell" /\ u = NetRestoreScan(s)
  <2>1. /\ NetBase(u) /\ NetSameWishes(s, u)
        /\ u.station = "scanningRestore" /\ ~u.reset
        /\ u.probe = s.probe /\ u.auth = s.auth
    BY <1>1, <1>3, NetRestoreKeeps
  <2> QED
    BY <1>3, <2>1
       DEF NetCore, NetObeys, NetWishes, NetSameWishes, NetSettled, NetScanning, NetLinking, NetLinked
<1>4. CASE s.station = "authenticating" /\ u = NetBeginDisconnect([s EXCEPT !.disconnect = TRUE])
  <2>1. PICK v : v = [s EXCEPT !.disconnect = TRUE]
    OBVIOUS
  <2>2. NetShape(v) /\ \A f \in NetFields \ {"disconnect"} : v[f] = s[f]
    BY <1>1, <2>1 DEF NetShape
  <2>3. NetBase(v)
    BY <1>1, <2>2, NetNoted
  <2>4. /\ v.station = "authenticating" /\ v.deferred = s.deferred
        /\ v.enabled = s.enabled /\ v.waiting = s.waiting
    BY <1>1, <1>4, <2>1 DEF NetShape, NetFields
  <2>5. v.action = "none" /\ ~v.scanDone
    BY <2>3, <2>4 DEF NetBase, NetAction, NetActionStates, NetPending
  <2>6. /\ NetBase(u) /\ NetSettled(u) /\ NetSameWishes(v, u)
        /\ u.station = "disconnectingCmac"
    BY <1>4, <2>1, <2>3, <2>5, NetBeginDisconnectKeeps DEF NetBase
  <2> QED
    BY <2>4, <2>6
       DEF NetCore, NetObeys, NetWishes, NetSameWishes, NetScanning, NetLinking, NetLinked
<1> QED
  BY <1>2, <1>3, <1>4 DEF NetTicked, NetTick

\* What poll() may rely on until an action has completed.
NetQuiet(s) ==
  /\ ~s.auth /\ ~s.probe /\ ~s.scanDone
  /\ s.reset => s.station = "disconnectingCmac"
  /\ s.ic = "SCAN" => s.station # "idle"

\* The deferred action starts once everything is drained.
LEMMA NetStartActionKeeps ==
  ASSUME NEW s, NetCore(s), NetSettled(s), NEW u, u = NetStartAction(s)
  PROVE  NetCore(u) /\ NetQuiet(u)
<1>1. NetBase(s) /\ NetShape(s) /\ NetQuiet(s)
  BY DEF NetCore, NetBase, NetSettled, NetQuiet
<1>2. CASE u = s
  BY <1>1, <1>2
<1>3. CASE /\ s.action = "deferred" /\ NetDrained(s)
           /\ u = [s EXCEPT !.scheduler = "none", !.action = "running"]
  <2>1. NetShape(u)
    BY <1>1, <1>3 DEF NetShape
  <2>2. \A f \in NetFields \ {"scheduler", "action"} : u[f] = s[f]
    BY <1>1, <1>3 DEF NetShape
  <2>3. u.scheduler = "none" /\ u.action = "running"
    BY <1>1, <1>3 DEF NetShape, NetFields
  <2>4. NetBase(u) /\ NetQuiet(u)
    BY <1>1, <1>3, <2>1, <2>2, <2>3
       DEF NetBase, NetAction, NetKeys, NetLink, NetPending, NetProtocol, NetDrained,
           NetQuiet, NetFields
  <2> QED
    BY <2>2, <2>4 DEF NetCore, NetObeys, NetWishes, NetFields
<1> QED
  BY <1>2, <1>3 DEF NetStartAction

\* The boot service finishes an action, or is ready for the station.
LEMMA NetBootServiceKeeps ==
  ASSUME NEW s, NetCore(s), NetQuiet(s), NEW done, NEW u, u = NetBootService(s, done)
  PROVE  NetCore(u) /\ NetQuiet(u)
<1>1. NetBase(s) /\ NetShape(s) /\ s.fault = "none"
  BY DEF NetCore, NetBase
<1>2. CASE u = s
  BY <1>2
<1>3. CASE s.station = "stopped" /\ u = NetBeginAction(s, "preparing")
  <2>1. s.action = "none"
    BY <1>1, <1>3 DEF NetBase, NetAction, NetActionStates
  <2>2. u = [s EXCEPT !.station = "preparing", !.traffic = "none", !.held = FALSE,
                      !.action = "deferred"]
    BY <1>1, <1>3, <2>1, NetActionBegun
  <2>3. NetShape(u)
    BY <1>1, <2>2 DEF NetShape
  <2>4. \A f \in NetFields \ {"station", "traffic", "held", "action"} : u[f] = s[f]
    BY <1>1, <2>2 DEF NetShape
  <2>5. /\ u.station = "preparing" /\ u.traffic = "none" /\ ~u.held
        /\ u.action = "deferred"
    BY <1>1, <2>2 DEF NetShape, NetFields
  <2>6. NetBase(u) /\ NetQuiet(u)
    BY <1>1, <1>3, <2>3, <2>4, <2>5
       DEF NetBase, NetAction, NetKeys, NetLink, NetPending, NetProtocol, NetActionStates,
           NetScanning, NetQuiet, NetFields
  <2> QED
    BY <2>4, <2>5, <2>6
       DEF NetCore, NetObeys, NetWishes, NetFields, NetScanning, NetLinking, NetLinked
<1>4. CASE s.action = "running" /\ u = [s EXCEPT !.action = "complete"]
  <2>1. NetShape(u)
    BY <1>1, <1>4 DEF NetShape
  <2>2. \A f \in NetFields \ {"action"} : u[f] = s[f]
    BY <1>1, <1>4 DEF NetShape
  <2>3. u.action = "complete"
    BY <1>1, <1>4 DEF NetShape, NetFields
  <2>4. NetBase(u) /\ NetQuiet(u)
    BY <1>1, <1>4, <2>1, <2>2, <2>3
       DEF NetBase, NetAction, NetKeys, NetLink, NetPending, NetProtocol, NetDrained,
           NetQuiet, NetFields
  <2> QED
    BY <2>2, <2>4 DEF NetCore, NetObeys, NetWishes, NetFields
<1> QED
  BY <1>1, <1>2, <1>3, <1>4 DEF NetBootService

\* An action that has completed and is taken off: the station is told next.
NetDone(s) ==
  /\ NetShape(s) /\ s.fault = "none" /\ s.action = "none" /\ s.station \in NetActionStates
  /\ s.out = {} /\ ~s.held /\ ~s.link /\ NetQuiet(s)
  /\ NetProtocol(s) /\ NetObeys(s) /\ NetWishes(s)

\* The controller takes the completed action off.
LEMMA NetTakenOff ==
  ASSUME NEW r, NetCore(r), NetQuiet(r), r.action = "complete",
         NEW s, s = [r EXCEPT !.action = "none"]
  PROVE  NetDone(s)
<1>1. NetBase(r) /\ NetShape(r)
  BY DEF NetCore, NetBase
<1>2. NetShape(s)
  BY <1>1 DEF NetShape
<1>3. \A f \in NetFields \ {"action"} : s[f] = r[f]
  BY <1>1 DEF NetShape
<1>4. s.action = "none"
  BY <1>1 DEF NetShape, NetFields
<1> QED
  BY <1>1, <1>2, <1>3, <1>4
     DEF NetDone, NetBase, NetCore, NetAction, NetActionStates, NetLink, NetQuiet, NetProtocol,
         NetObeys, NetWishes, NetFields, NetDrained

\* The station enters a state with traffic once its action is done.
LEMMA NetEntered ==
  ASSUME NEW s, NetShape(s), s.fault = "none", s.action = "none", ~s.held, ~s.link,
         NEW state, NEW t, t # "none",
         NEW u, u = NetEnter(s, state, t)
  PROVE  /\ NetShape(u)
         /\ u.station = state /\ u.traffic = t /\ ~u.held /\ ~u.link
         /\ \A f \in NetFields \ {"station", "traffic", "scheduler", "held", "link"} : u[f] = s[f]
<1>1. PICK v : v = [s EXCEPT !.station = state]
  OBVIOUS
<1>2. NetShape(v) /\ v.fault = "none" /\ v.action = "none" /\ ~v.held /\ ~v.link
  BY <1>1 DEF NetShape, NetFields
<1>3. PICK h, l \in BOOLEAN :
        /\ h => v.held
        /\ l => v.link
        /\ NetSetTraffic(v, t) = [v EXCEPT !.traffic = t, !.scheduler = t, !.held = h, !.link = l]
  BY <1>2, NetTrafficOpen
<1>4. h = FALSE /\ l = FALSE
  BY <1>2, <1>3
<1>5. u = [v EXCEPT !.traffic = t, !.scheduler = t, !.held = FALSE, !.link = FALSE]
  BY <1>1, <1>3, <1>4 DEF NetEnter
<1>6. NetShape(u)
  BY <1>2, <1>5 DEF NetShape
<1>7. \A f \in NetFields \ {"station", "traffic", "scheduler", "held", "link"} : u[f] = s[f]
  BY <1>1, <1>5 DEF NetShape
<1> QED
  BY <1>1, <1>5, <1>6, <1>7 DEF NetShape, NetFields

\* A command follows an action.
LEMMA NetDoneCommand ==
  ASSUME NEW s, NetDone(s), NEW state, NEW u, u = NetCommand(s, state),
         \/ s.station = "preparing" /\ state = "creatingRole"
         \/ s.station = "installingAssociationCmac" /\ state = "joining"
         \/ s.station = "disconnectingCmac" /\ state = "disconnecting"
  PROVE  NetCore(u)
<1>1. NetShape(s) /\ u = [s EXCEPT !.station = state]
  BY DEF NetDone, NetCommand
<1>2. NetShape(u)
  BY <1>1 DEF NetShape
<1>3. (\A f \in NetFields \ {"station"} : u[f] = s[f]) /\ u.station = state
  BY <1>1 DEF NetShape, NetFields
<1>4. NetBase(u)
  BY <1>2, <1>3
     DEF NetDone, NetQuiet, NetBase, NetAction, NetActionStates, NetKeys, NetLink, NetPending,
         NetProtocol, NetDrained, NetFields, NetScanning
<1> QED
  BY <1>3, <1>4
     DEF NetDone, NetCore, NetObeys, NetWishes, NetFields, NetScanning, NetLinking, NetLinked

\* A disconnect that waited for the action begins.
LEMMA NetDoneDisconnect ==
  ASSUME NEW s, NetDone(s), NEW u, u = NetBeginDisconnect(s)
  PROVE  NetCore(u)
<1>1. NetShape(s) /\ s.fault = "none" /\ NetKeys(s) /\ s.action = "none" /\ ~s.scanDone
  BY DEF NetDone, NetKeys, NetQuiet
<1>2. NetBase(u) /\ NetSameWishes(s, u) /\ u.station = "disconnectingCmac"
  BY <1>1, NetBeginDisconnectKeeps
<1> QED
  BY <1>2
     DEF NetDone, NetCore, NetObeys, NetWishes, NetSameWishes, NetScanning, NetLinking, NetLinked

\* The next action of a scan.
LEMMA NetDoneScanning ==
  ASSUME NEW s, NetDone(s), s.station \in NetScanning,
         NEW state \in NetScanning \cap NetActionStates,
         NEW u, u = NetBeginAction(NetSetTraffic(s, "none"), state)
  PROVE  NetCore(u)
<1>1. /\ NetShape(s) /\ s.fault = "none" /\ NetKeys(s) /\ s.action = "none" /\ ~s.scanDone
      /\ ~s.auth /\ ~s.probe /\ ~s.reset
  BY DEF NetDone, NetKeys, NetQuiet, NetScanning
<1>2. s.ic # "RUN" /\ s.ic \notin {"AUTH", "ASSOC"}
  BY <1>1 DEF NetDone, NetProtocol, NetScanning
<1>3. NetBase(u) /\ NetSameWishes(s, u) /\ u.station = state
  BY <1>1, <1>2, NetActionKeeps
<1> QED
  BY <1>3
     DEF NetDone, NetCore, NetObeys, NetWishes, NetSameWishes, NetScanning, NetLinking, NetLinked

\* The scan of a channel ends with the restored channel.
LEMMA NetDoneRestored ==
  ASSUME NEW s, NetDone(s), s.station = "scanningRestore",
         NEW u, u = NetBeginAction(s, "scanningEnd")
  PROVE  NetCore(u)
<1>1. NetShape(s)
  BY DEF NetDone
<1>2. u = [s EXCEPT !.station = "scanningEnd", !.traffic = "none", !.held = FALSE,
                    !.action = "deferred"]
  BY NetActionBegun DEF NetDone
<1>3. NetShape(u)
  BY <1>1, <1>2 DEF NetShape
<1>4. \A f \in NetFields \ {"station", "traffic", "held", "action"} : u[f] = s[f]
  BY <1>1, <1>2 DEF NetShape
<1>5. u.station = "scanningEnd" /\ u.traffic = "none" /\ ~u.held /\ u.action = "deferred"
  BY <1>1, <1>2 DEF NetShape, NetFields
<1>6. NetBase(u)
  BY <1>3, <1>4, <1>5
     DEF NetDone, NetQuiet, NetBase, NetAction, NetActionStates, NetKeys, NetLink, NetPending,
         NetProtocol, NetDrained, NetFields, NetScanning
<1> QED
  BY <1>4, <1>5, <1>6
     DEF NetDone, NetCore, NetObeys, NetWishes, NetFields, NetScanning, NetLinking, NetLinked

\* The dwell on a channel, probed or not.
LEMMA NetDoneTuned ==
  ASSUME NEW s, NetDone(s), s.station = "scanningTune", NEW active \in BOOLEAN,
         NEW v, v = NetEnter(s, "scanningDwell", IF active THEN "scanProbe" ELSE "none"),
         NEW u, u = [v EXCEPT !.probe = @ \/ active]
  PROVE  NetCore(u)
<1>1. /\ NetShape(s) /\ s.fault = "none" /\ s.action = "none" /\ ~s.held /\ ~s.link
      /\ "scanProbe" # "none"
  BY DEF NetDone
<1>2. /\ NetShape(v)
      /\ v.station = "scanningDwell" /\ ~v.held /\ ~v.link
      /\ \A f \in NetFields \ {"station", "traffic", "scheduler", "held", "link"} : v[f] = s[f]
  <2>1. CASE active
    <3>1. v = NetEnter(s, "scanningDwell", "scanProbe")
      BY <2>1
    <3> QED
      BY <1>1, <3>1, NetEntered
  <2>2. CASE ~active
    <3>1. PICK w : w = [s EXCEPT !.station = "scanningDwell"]
      OBVIOUS
    <3>2. NetShape(w) /\ w.fault = "none"
      BY <1>1, <3>1 DEF NetShape, NetFields
    <3>3. v = NetSetTraffic(w, "none")
      BY <2>2, <3>1 DEF NetEnter
    <3>4. PICK x : v = [w EXCEPT !.traffic = "none", !.held = FALSE, !.link = FALSE,
                                 !.scheduler = x]
      BY <3>2, <3>3, NetTrafficNone
    <3>5. NetShape(v)
      BY <3>2, <3>4 DEF NetShape
    <3>6. \A f \in NetFields \ {"station", "traffic", "scheduler", "held", "link"} : v[f] = s[f]
      BY <1>1, <3>1, <3>2, <3>4 DEF NetShape
    <3> QED
      BY <1>1, <3>1, <3>4, <3>5, <3>6 DEF NetShape, NetFields
  <2> QED
    BY <2>1, <2>2
<1>3. NetShape(u)
  BY <1>1, <1>2 DEF NetShape
<1>4. \A f \in NetFields \ {"station", "traffic", "scheduler", "held", "link", "probe"} : u[f] = s[f]
  BY <1>1, <1>2 DEF NetShape
<1>5. u.station = "scanningDwell" /\ ~u.held /\ ~u.link
  BY <1>1, <1>2 DEF NetShape, NetFields
<1>6. NetBase(u)
  BY <1>3, <1>4, <1>5
     DEF NetDone, NetQuiet, NetBase, NetAction, NetActionStates, NetKeys, NetLink, NetPending,
         NetProtocol, NetDrained, NetFields, NetScanning
<1> QED
  BY <1>4, <1>5, <1>6
     DEF NetDone, NetCore, NetObeys, NetWishes, NetFields, NetScanning, NetLinking, NetLinked

\* The station is idle again: after a start, or a disconnect.
LEMMA NetDoneIdle ==
  ASSUME NEW s, NetDone(s), s.station \in {"installingIdle", "disconnectingCam"},
         NEW v, NetShape(v),
         \A f \in NetFields \ {"disconnect", "authenticated"} : v[f] = s[f],
         NEW u, u = NetEnter(v, "idle", "management")
  PROVE  NetCore(u)
<1>1. /\ NetShape(v) /\ v.fault = "none" /\ v.action = "none" /\ ~v.held /\ ~v.link
      /\ "management" # "none"
  BY DEF NetDone, NetFields
<1>3. /\ NetShape(u)
      /\ u.station = "idle" /\ u.traffic = "management" /\ ~u.held /\ ~u.link
      /\ \A f \in NetFields \ {"station", "traffic", "scheduler", "held", "link"} : u[f] = v[f]
  BY <1>1, NetEntered
<1>6. NetBase(u)
  BY <1>3
     DEF NetDone, NetQuiet, NetBase, NetAction, NetActionStates, NetKeys, NetLink, NetPending,
         NetProtocol, NetDrained, NetFields, NetScanning
<1> QED
  BY <1>3, <1>6
     DEF NetDone, NetCore, NetObeys, NetWishes, NetFields, NetScanning, NetLinking, NetLinked

\* completeScan() and scanFinished(): net80211 hears of a scan that was not cancelled.
LEMMA NetDoneScan ==
  ASSUME NEW s, NetDone(s), s.station = "scanningEnd",
         NEW v, v = NetEnter(s, "idle", "management"),
         NEW u, u = [v EXCEPT !.scanDone = @ \/ (~s.cancelled /\ s.ic = "SCAN")]
  PROVE  NetCore(u)
<1>1. /\ NetShape(s) /\ s.fault = "none" /\ s.action = "none" /\ ~s.held /\ ~s.link
      /\ "management" # "none"
  BY DEF NetDone
<1>2. /\ NetShape(v)
      /\ v.station = "idle" /\ v.traffic = "management" /\ ~v.held /\ ~v.link
      /\ \A f \in NetFields \ {"station", "traffic", "scheduler", "held", "link"} : v[f] = s[f]
  BY <1>1, NetEntered
<1>3. NetShape(u)
  BY <1>1, <1>2 DEF NetShape
<1>4. \A f \in NetFields \ {"station", "traffic", "scheduler", "held", "link", "scanDone"} :
        u[f] = s[f]
  BY <1>1, <1>2 DEF NetShape
<1>5. u.station = "idle" /\ u.traffic = "management" /\ ~u.held /\ ~u.link
  BY <1>1, <1>2 DEF NetShape, NetFields
<1>6. u.scanDone <=> s.scanDone \/ (~s.cancelled /\ s.ic = "SCAN")
  BY <1>1, <1>2 DEF NetShape, NetFields
<1>7. NetBase(u)
  BY <1>3, <1>4, <1>5, <1>6
     DEF NetDone, NetQuiet, NetBase, NetAction, NetActionStates, NetKeys, NetLink, NetPending,
         NetProtocol, NetDrained, NetFields, NetScanning, NetObeys
<1> QED
  BY <1>4, <1>5, <1>7
     DEF NetDone, NetCore, NetObeys, NetWishes, NetFields, NetScanning, NetLinking, NetLinked

\* The station authenticates, and net80211 is to be told.
LEMMA NetDoneAuthenticating ==
  ASSUME NEW s, NetDone(s), s.station = "preparingAuthentication", ~s.disconnect,
         NEW v, v = NetEnter(s, "authenticating", "management"),
         NEW u, u = [v EXCEPT !.auth = TRUE]
  PROVE  NetCore(u)
<1>1. /\ NetShape(s) /\ s.fault = "none" /\ s.action = "none" /\ ~s.held /\ ~s.link
      /\ "management" # "none"
  BY DEF NetDone
<1>2. /\ NetShape(v)
      /\ v.station = "authenticating" /\ v.traffic = "management" /\ ~v.held /\ ~v.link
      /\ \A f \in NetFields \ {"station", "traffic", "scheduler", "held", "link"} : v[f] = s[f]
  BY <1>1, NetEntered
<1>3. NetShape(u)
  BY <1>1, <1>2 DEF NetShape
<1>4. \A f \in NetFields \ {"station", "traffic", "scheduler", "held", "link", "auth"} :
        u[f] = s[f]
  BY <1>1, <1>2 DEF NetShape
<1>5. u.station = "authenticating" /\ u.traffic = "management" /\ ~u.held /\ ~u.link /\ u.auth
  BY <1>1, <1>2 DEF NetShape, NetFields
<1>7. NetBase(u)
  BY <1>3, <1>4, <1>5
     DEF NetDone, NetQuiet, NetBase, NetAction, NetActionStates, NetKeys, NetLink, NetPending,
         NetProtocol, NetDrained, NetFields, NetScanning
<1> QED
  BY <1>4, <1>5, <1>7
     DEF NetDone, NetCore, NetObeys, NetWishes, NetFields, NetScanning, NetLinking, NetLinked

\* The station is associated.
LEMMA NetDoneAssociated ==
  ASSUME NEW s, NetDone(s), s.station = "installingAssociationCam", ~s.disconnect,
         NEW u, u = NetEnter(s, "associated", "controlledPort")
  PROVE  NetCore(u)
<1>1. /\ NetShape(s) /\ s.fault = "none" /\ s.action = "none" /\ ~s.held /\ ~s.link
      /\ "controlledPort" # "none"
  BY DEF NetDone
<1>3. /\ NetShape(u)
      /\ u.station = "associated" /\ u.traffic = "controlledPort" /\ ~u.held /\ ~u.link
      /\ \A f \in NetFields \ {"station", "traffic", "scheduler", "held", "link"} : u[f] = s[f]
  BY <1>1, NetEntered
<1>7. NetBase(u)
  BY <1>3
     DEF NetDone, NetQuiet, NetBase, NetAction, NetActionStates, NetKeys, NetLink, NetPending,
         NetProtocol, NetDrained, NetFields, NetScanning
<1> QED
  BY <1>3, <1>7
     DEF NetDone, NetCore, NetObeys, NetWishes, NetFields, NetScanning, NetLinking, NetLinked

\* actionComplete(): the station goes on to what follows its action.
LEMMA NetActionCompleteKeeps ==
  ASSUME NEW s, NetDone(s), NEW active \in BOOLEAN, NEW u, u = NetActionComplete(s, active)
  PROVE  NetCore(u)
<1>0. NetShape(s) /\ s.station \in NetActionStates
  BY DEF NetDone
<1>1. CASE s.station = "preparing"
  <2>1. u = NetCommand(s, "creatingRole")
    BY <1>1 DEF NetActionComplete
  <2> QED
    BY <1>1, <2>1, NetDoneCommand
<1>2. CASE s.station = "installingIdle"
  <2>1. u = NetEnter(s, "idle", "management")
    BY <1>2 DEF NetActionComplete
  <2> QED
    BY <1>0, <1>2, <2>1, NetDoneIdle
<1>3. CASE s.station = "scanningBegin"
  <2>1. PICK state \in NetScanning \cap NetActionStates :
          u = NetBeginAction(NetSetTraffic(s, "none"), state)
    BY <1>3 DEF NetActionComplete, NetRestoreScan, NetScanning, NetActionStates
  <2> QED
    BY <1>3, <2>1, NetDoneScanning DEF NetScanning
<1>4. CASE s.station = "scanningTune" /\ s.cancelled
  <2>1. u = NetBeginAction(NetSetTraffic(s, "none"), "scanningRestore")
    BY <1>4 DEF NetActionComplete, NetRestoreScan
  <2> QED
    BY <1>4, <2>1, NetDoneScanning DEF NetScanning, NetActionStates
<1>5. CASE s.station = "scanningTune" /\ ~s.cancelled
  <2>1. PICK v : v = NetEnter(s, "scanningDwell", IF active THEN "scanProbe" ELSE "none")
    OBVIOUS
  <2>2. u = [v EXCEPT !.probe = @ \/ active]
    BY <1>5, <2>1 DEF NetActionComplete
  <2> QED
    BY <1>5, <2>1, <2>2, NetDoneTuned
<1>6. CASE s.station = "scanningRestore"
  <2>1. u = NetBeginAction(s, "scanningEnd")
    BY <1>6 DEF NetActionComplete
  <2> QED
    BY <1>6, <2>1, NetDoneRestored
<1>7. CASE s.station = "scanningEnd"
  <2>1. PICK v : v = NetEnter(s, "idle", "management")
    OBVIOUS
  <2>2. u = [v EXCEPT !.scanDone = @ \/ (~s.cancelled /\ s.ic = "SCAN")]
    BY <1>7, <2>1 DEF NetActionComplete
  <2> QED
    BY <1>7, <2>1, <2>2, NetDoneScan
<1>8. CASE s.disconnect /\ s.station \in {"preparingAuthentication", "installingAssociationCmac",
                                         "installingAssociationCam"}
  <2>1. u = NetBeginDisconnect(s)
    BY <1>8 DEF NetActionComplete, NetOrDisconnect
  <2> QED
    BY <2>1, NetDoneDisconnect
<1>9. CASE s.station = "preparingAuthentication" /\ ~s.disconnect
  <2>1. PICK v : v = NetEnter(s, "authenticating", "management")
    OBVIOUS
  <2>2. u = [v EXCEPT !.auth = TRUE]
    BY <1>9, <2>1 DEF NetActionComplete, NetOrDisconnect
  <2> QED
    BY <1>9, <2>1, <2>2, NetDoneAuthenticating
<1>10. CASE s.station = "installingAssociationCmac" /\ ~s.disconnect
  <2>1. u = NetCommand(s, "joining")
    BY <1>10 DEF NetActionComplete, NetOrDisconnect
  <2> QED
    BY <1>10, <2>1, NetDoneCommand
<1>11. CASE s.station = "installingAssociationCam" /\ ~s.disconnect
  <2>1. u = NetEnter(s, "associated", "controlledPort")
    BY <1>11 DEF NetActionComplete, NetOrDisconnect
  <2> QED
    BY <1>11, <2>1, NetDoneAssociated
<1>12. CASE s.station = "disconnectingCmac"
  <2>1. u = NetCommand(s, "disconnecting")
    BY <1>12 DEF NetActionComplete
  <2> QED
    BY <1>12, <2>1, NetDoneCommand
<1>13. CASE s.station = "disconnectingCam"
  <2>1. PICK v : v = [s EXCEPT !.disconnect = FALSE, !.authenticated = FALSE]
    OBVIOUS
  <2>2. u = NetEnter(v, "idle", "management")
    BY <1>13, <2>1 DEF NetActionComplete
  <2>3. NetShape(v) /\ \A f \in NetFields \ {"disconnect", "authenticated"} : v[f] = s[f]
    BY <1>0, <2>1 DEF NetShape
  <2> QED
    BY <1>13, <2>2, <2>3, NetDoneIdle
<1> QED
  BY <1>0, <1>1, <1>2, <1>3, <1>4, <1>5, <1>6, <1>7, <1>8, <1>9, <1>10, <1>11, <1>12, <1>13
     DEF NetActionStates

\* The completion of an action, if it has completed.
LEMMA NetCompletionsKeeps ==
  ASSUME NEW s, NetCore(s), NetQuiet(s), NEW active \in BOOLEAN,
         NEW u, u = NetCompletions(s, active)
  PROVE  NetCore(u)
<1>1. CASE u = s
  BY <1>1
<1>2. CASE s.action = "complete" /\ u = NetActionComplete([s EXCEPT !.action = "none"], active)
  <2>1. PICK v : v = [s EXCEPT !.action = "none"]
    OBVIOUS
  <2>2. NetDone(v)
    BY <1>2, <2>1, NetTakenOff
  <2>3. u = NetActionComplete(v, active)
    BY <1>2, <2>1
  <2> QED
    BY <2>2, <2>3, NetActionCompleteKeeps
<1> QED
  BY <1>1, <1>2 DEF NetCompletions

\* A reset is left only while the disconnect still waits for its frames.
NetResetWaits(s) == s.reset => s.station = "disconnectingCmac" /\ s.action = "deferred"

\* net80211 is reset once everything is drained.
LEMMA NetResetKeeps ==
  ASSUME NEW s, NetCore(s), NEW u, u = NetReset(s)
  PROVE  NetCore(u) /\ NetResetWaits(u)
<1>1. NetBase(s) /\ NetShape(s)
  BY DEF NetCore, NetBase
<1>2. CASE u = s /\ ~(s.reset /\ NetDrained(s))
  BY <1>1, <1>2 DEF NetBase, NetPending, NetResetWaits
<1>3. CASE s.reset /\ NetDrained(s) /\ u = NetSavedInit([s EXCEPT !.reset = FALSE])
  <2>1. PICK v : v = [s EXCEPT !.reset = FALSE]
    OBVIOUS
  <2>2. u = [v EXCEPT !.ic = "INIT", !.queued = FALSE, !.port = FALSE]
    BY <1>3, <2>1 DEF NetSavedInit
  <2>3. NetShape(u)
    BY <1>1, <2>1, <2>2 DEF NetShape
  <2>4. \A f \in NetFields \ {"reset", "ic", "queued", "port"} : u[f] = s[f]
    BY <1>1, <2>1, <2>2 DEF NetShape
  <2>5. ~u.reset /\ u.ic = "INIT"
    BY <1>1, <2>1, <2>2 DEF NetShape, NetFields
  <2>6. NetBase(u)
    BY <1>1, <1>3, <2>3, <2>4, <2>5
       DEF NetBase, NetAction, NetKeys, NetLink, NetPending, NetProtocol, NetDrained, NetFields
  <2> QED
    BY <2>4, <2>5, <2>6 DEF NetCore, NetObeys, NetWishes, NetFields, NetResetWaits
<1> QED
  BY <1>1, <1>2, <1>3 DEF NetReset, NetBase

\* An idle station leaves net80211 scanning only to hear of the scan's end.
NetScanHeard(s) == s.ic = "SCAN" /\ s.station = "idle" => s.scanDone

\* The deferred state is entered.
LEMMA NetDeferredKeeps ==
  ASSUME NEW s, NetCore(s), NetResetWaits(s), NEW u, u = NetDeferred(s)
  PROVE  NetCore(u) /\ NetResetWaits(u) /\ NetScanHeard(u)
<1>1. NetBase(s) /\ NetShape(s) /\ s.fault = "none"
  BY DEF NetCore, NetBase
<1>2. CASE /\ u = s
           /\ s.deferred = "none" \/ s.reset \/ ~NetDrained(s) \/ s.station # "idle"
  <2>1. NetScanHeard(s)
    BY <1>1, <1>2
       DEF NetBase, NetProtocol, NetPending, NetScanHeard, NetScanning
  <2> QED
    BY <1>2, <2>1
<1>3. CASE /\ s.deferred # "none" /\ ~s.reset /\ NetDrained(s) /\ s.station = "idle"
           /\ u = IF s.deferred = "INIT" THEN NetSavedInit([s EXCEPT !.deferred = "none"])
                  ELSE NetNewScan([s EXCEPT !.deferred = "none"])
  <2>1. PICK v : v = [s EXCEPT !.deferred = "none"]
    OBVIOUS
  <2>2. NetShape(v)
    BY <1>1, <2>1 DEF NetShape
  <2>3. (\A f \in NetFields \ {"deferred"} : v[f] = s[f]) /\ v.deferred = "none"
    BY <1>1, <2>1 DEF NetShape, NetFields
  <2>4. ~s.scanDone
    BY <1>1, <1>3 DEF NetBase, NetPending
  <2>5. NetFree(s)
    BY <1>3, <2>4, NetIdleIsFree
  <2>6. NetFree(v)
    BY <2>2, <2>3, <2>5 DEF NetFree, NetKeys, NetWishes, NetFields
  <2>7. CASE s.deferred = "INIT"
    <3>1. u = [v EXCEPT !.ic = "INIT", !.queued = FALSE, !.port = FALSE]
      BY <1>3, <2>1, <2>7 DEF NetSavedInit
    <3>2. NetShape(u)
      BY <2>2, <3>1 DEF NetShape
    <3>3. (\A f \in NetFields \ {"ic", "queued", "port"} : u[f] = v[f]) /\ u.ic = "INIT"
      BY <2>2, <3>1 DEF NetShape, NetFields
    <3>4. NetFree(u) /\ u.deferred = "none" /\ u.link = s.link /\ u.station = "idle"
      BY <2>3, <2>6, <3>2, <3>3 DEF NetFree, NetKeys, NetWishes, NetFields
    <3>5. NetBase(u)
      BY <1>1, <1>3, <3>4, <3>3
         DEF NetFree, NetBase, NetAction, NetActionStates, NetLink, NetPending, NetProtocol
    <3> QED
      BY <3>3, <3>4, <3>5
         DEF NetCore, NetObeys, NetWishes, NetFree, NetResetWaits, NetScanHeard, NetScanning,
             NetLinking, NetLinked
  <2>8. CASE s.deferred # "INIT"
    <3>1. u = NetNewScan(v)
      BY <1>3, <2>1, <2>8
    <3>2. s.enabled /\ s.waiting = 0
      BY <1>3, <2>8 DEF NetCore, NetWishes
    <3>3. v.enabled /\ v.waiting = 0
      BY <2>3, <3>2 DEF NetFields
    <3>4. NetCore(u) /\ NetSettled(u)
      BY <2>3, <2>6, <3>1, <3>3, NetNewScanIdle
    <3> QED
      BY <3>4 DEF NetSettled, NetResetWaits, NetScanHeard
  <2> QED
    BY <2>7, <2>8
<1> QED
  BY <1>1, <1>2, <1>3 DEF NetDeferred

\* net80211 starts the authentication.
LEMMA NetAuthKeeps ==
  ASSUME NEW s, NetCore(s), NetResetWaits(s), NetScanHeard(s), NEW u, u = NetAuth(s)
  PROVE  NetCore(u) /\ NetResetWaits(u) /\ NetScanHeard(u) /\ ~u.auth
<1>1. NetBase(s) /\ NetShape(s)
  BY DEF NetCore, NetBase
<1>2. CASE u = s /\ ~s.auth
  BY <1>2
<1>3. CASE s.auth /\ u = [s EXCEPT !.auth = FALSE, !.ic = "AUTH", !.queued = TRUE]
  <2>1. NetShape(u)
    BY <1>1, <1>3 DEF NetShape
  <2>2. \A f \in NetFields \ {"auth", "ic", "queued"} : u[f] = s[f]
    BY <1>1, <1>3 DEF NetShape
  <2>3. ~u.auth /\ u.ic = "AUTH"
    BY <1>1, <1>3 DEF NetShape, NetFields
  <2>4. s.station = "authenticating"
    BY <1>1, <1>3 DEF NetBase, NetPending
  <2>5. NetBase(u)
    BY <1>1, <2>1, <2>2, <2>3, <2>4
       DEF NetBase, NetAction, NetKeys, NetLink, NetPending, NetProtocol, NetDrained, NetFields
  <2> QED
    BY <2>2, <2>3, <2>5 DEF NetCore, NetObeys, NetWishes, NetFields, NetResetWaits, NetScanHeard
<1> QED
  BY <1>1, <1>2, <1>3 DEF NetAuth, NetBase

\* net80211 sends its probe request, or begins a scan through newState().
LEMMA NetProbeKeeps ==
  ASSUME NEW s, NetCore(s), NetResetWaits(s), NetScanHeard(s), ~s.auth, NEW u, u = NetProbe(s)
  PROVE  NetCore(u) /\ NetResetWaits(u) /\ NetScanHeard(u) /\ ~u.auth /\ ~u.probe
<1>1. NetBase(s) /\ NetShape(s)
  BY DEF NetCore, NetBase
<1>2. CASE u = s /\ ~s.probe
  BY <1>2
<1>3. CASE s.probe /\ u = NetSavedScan([s EXCEPT !.probe = FALSE])
  <2>1. s.station \in {"scanningDwell", "scanningRestore"}
    BY <1>1, <1>3 DEF NetBase, NetPending
  <2>2. PICK v : v = [s EXCEPT !.probe = FALSE]
    OBVIOUS
  <2>3. PICK w : w = [v EXCEPT !.ic = "SCAN", !.port = FALSE]
    OBVIOUS
  <2>4. NetShape(v) /\ NetShape(w)
    BY <1>1, <2>2, <2>3 DEF NetShape
  <2>5. (\A f \in NetFields \ {"probe"} : v[f] = s[f]) /\ ~v.probe
    BY <1>1, <2>2 DEF NetShape, NetFields
  <2>6. (\A f \in NetFields \ {"probe", "ic", "port"} : w[f] = s[f]) /\ w.ic = "SCAN" /\ ~w.probe
    BY <1>1, <2>2, <2>3, <2>4, <2>5 DEF NetShape, NetFields
  <2>7. CASE s.ic = "SCAN"
    <3>1. u = [v EXCEPT !.queued = TRUE]
      BY <1>3, <2>2, <2>5, <2>7 DEF NetSavedScan, NetFields
    <3>2. NetShape(u)
      BY <2>4, <3>1 DEF NetShape
    <3>3. (\A f \in NetFields \ {"probe", "queued"} : u[f] = s[f]) /\ ~u.probe
      BY <2>4, <2>5, <3>1 DEF NetShape, NetFields
    <3>4. NetBase(u)
      BY <1>1, <3>2, <3>3
         DEF NetBase, NetAction, NetKeys, NetLink, NetPending, NetProtocol, NetDrained, NetFields
    <3> QED
      BY <3>3, <3>4 DEF NetCore, NetObeys, NetWishes, NetFields, NetResetWaits, NetScanHeard
  <2>8. CASE s.ic # "SCAN"
    <3>1. v.ic # "SCAN" /\ v.station # "idle" /\ (NetUp(v) <=> NetUp(s))
      BY <2>1, <2>5, <2>8 DEF NetUp, NetFields
    <3>2. u = IF ~NetUp(s) THEN w ELSE NetDefer(w, "SCAN")
      BY <1>3, <2>2, <2>3, <3>1 DEF NetSavedScan
    <3>3. NetBase(w) /\ ~w.scanDone /\ ~w.reset /\ w.station = s.station
      BY <1>1, <2>1, <2>4, <2>6
         DEF NetBase, NetAction, NetKeys, NetLink, NetPending, NetProtocol, NetDrained, NetFields,
             NetScanning
    <3>4. CASE ~NetUp(s)
      <4>1. u = w
        BY <3>2, <3>4
      <4>2. NetCore(w)
        BY <2>6, <3>3 DEF NetCore, NetObeys, NetWishes, NetFields
      <4> QED
        BY <2>1, <2>6, <3>3, <4>1, <4>2 DEF NetResetWaits, NetScanHeard, NetFields
    <3>5. CASE NetUp(s)
      <4>1. u = NetDefer(w, "SCAN")
        BY <3>2, <3>5
      <4>2. w.enabled /\ w.waiting = 0 /\ ~w.auth
        BY <2>6, <3>5 DEF NetUp, NetFields
      <4>3. /\ NetCore(u) /\ ~u.probe /\ ~u.auth
            /\ u.station = "idle" => w.station = "idle"
            /\ u.reset => u.station = "disconnectingCmac" /\ u.action = "deferred"
        BY <2>6, <3>3, <4>1, <4>2, NetDeferKeeps
      <4> QED
        BY <2>1, <3>3, <4>3 DEF NetResetWaits, NetScanHeard
    <3> QED
      BY <3>4, <3>5
  <2> QED
    BY <2>7, <2>8
<1> QED
  BY <1>1, <1>2, <1>3 DEF NetProbe, NetBase

\* The end of a scan: the next channel, or the access point that was found.
LEMMA NetScanDoneKeeps ==
  ASSUME NEW s, NetCore(s), NetResetWaits(s), NetScanHeard(s), ~s.auth, ~s.probe,
         NEW found, NEW u, u = NetScanDone(s, found)
  PROVE  NetCore(u) /\ NetSettled(u)
<1>1. NetBase(s) /\ NetShape(s) /\ s.fault = "none"
  BY DEF NetCore, NetBase
<1>2. CASE u = s /\ ~s.scanDone
  BY <1>2 DEF NetSettled, NetResetWaits, NetScanHeard
<1>3. CASE s.scanDone
  <2>1. PICK v : v = [s EXCEPT !.scanDone = FALSE]
    OBVIOUS
  <2>2. u = NetNewAuth(v) \/ u = NetNewScan(v)
    BY <1>1, <1>3, <2>1 DEF NetScanDone
  <2>3. NetShape(v)
    BY <1>1, <2>1 DEF NetShape
  <2>4. (\A f \in NetFields \ {"scanDone"} : v[f] = s[f]) /\ ~v.scanDone
    BY <1>1, <2>1 DEF NetShape, NetFields
  <2>5. s.station = "idle" /\ s.deferred = "none" /\ s.enabled /\ s.waiting = 0
    BY <1>1, <1>3 DEF NetBase, NetPending
  <2>6. v.station = "idle" /\ v.deferred = "none" /\ v.enabled /\ v.waiting = 0
    BY <2>4, <2>5 DEF NetFields
  <2>7. s.ic \notin {"RUN", "AUTH", "ASSOC"} /\ ~s.reset /\ s.action = "none"
    BY <1>1, <2>5 DEF NetBase, NetProtocol, NetPending, NetAction, NetActionStates
  <2>8. NetFree(v)
    BY <1>1, <2>3, <2>4, <2>6, <2>7 DEF NetFree, NetBase, NetKeys, NetWishes, NetFields
  <2>9. CASE u = NetNewScan(v)
    BY <2>6, <2>8, <2>9, NetNewScanIdle
  <2>10. CASE u = NetNewAuth(v)
    <3>1. u = NetConnect(v)
      BY <2>6, <2>8, <2>10 DEF NetNewAuth, NetUp, NetFree
    <3> QED
      BY <2>6, <2>8, <3>1, NetConnectKeeps
  <2> QED
    BY <2>2, <2>9, <2>10
<1> QED
  BY <1>1, <1>2, <1>3 DEF NetScanDone

\* A network is installed only when nothing is on its way and net80211 is reset.
LEMMA NetApplySelectionKeeps ==
  ASSUME NEW s, NetCore(s), NetSettled(s), NEW rsn, NEW u, u = NetApplySelection(s, rsn)
  PROVE  NetCore(u) /\ NetSettled(u)
<1>1. NetBase(s) /\ NetShape(s)
  BY DEF NetCore, NetBase
<1>2. CASE u = s
  BY <1>2
<1>3. CASE /\ s.station = "idle" /\ NetDrained(s) /\ s.deferred = "none"
           /\ u = [s EXCEPT !.selected = s.waiting, !.waiting = 0, !.credentials = TRUE,
                            !.rsn = rsn]
  <2>1. NetShape(u)
    BY <1>1, <1>3 DEF NetShape
  <2>2. \A f \in NetFields \ {"selected", "waiting", "credentials", "rsn"} : u[f] = s[f]
    BY <1>1, <1>3 DEF NetShape
  <2>3. u.waiting = 0
    BY <1>1, <1>3 DEF NetShape, NetFields
  <2>4. NetBase(u) /\ NetSettled(u)
    BY <1>1, <1>3, <2>1, <2>2, <2>3
       DEF NetBase, NetAction, NetKeys, NetLink, NetPending, NetProtocol, NetDrained, NetFields,
           NetSettled
  <2> QED
    BY <1>3, <2>2, <2>4
       DEF NetCore, NetObeys, NetWishes, NetFields, NetScanning, NetLinking, NetLinked
<1> QED
  BY <1>2, <1>3 DEF NetApplySelection

\* net80211 enters RUN with the association.
LEMMA NetRunKeeps ==
  ASSUME NEW s, NetCore(s), NetSettled(s), NEW u, u = NetRun(s)
  PROVE  NetCore(u) /\ NetSettled(u)
<1>1. NetBase(s) /\ NetShape(s)
  BY DEF NetCore, NetBase
<1>2. CASE u = s
  BY <1>2
<1>3. CASE s.station = "associated" /\ u = [s EXCEPT !.run = FALSE, !.ic = "RUN"]
  <2>1. NetShape(u)
    BY <1>1, <1>3 DEF NetShape
  <2>2. (\A f \in NetFields \ {"run", "ic"} : u[f] = s[f]) /\ u.ic = "RUN"
    BY <1>1, <1>3 DEF NetShape, NetFields
  <2>3. NetBase(u) /\ NetSettled(u)
    BY <1>1, <1>3, <2>1, <2>2
       DEF NetBase, NetAction, NetKeys, NetLink, NetPending, NetProtocol, NetDrained, NetFields,
           NetSettled
  <2> QED
    BY <2>2, <2>3 DEF NetCore, NetObeys, NetWishes, NetFields
<1> QED
  BY <1>2, <1>3 DEF NetRun

\* The scan that begins by itself.
LEMMA NetAutoScanKeeps ==
  ASSUME NEW s, NetCore(s), NetSettled(s), NEW u, u = NetAutoScan(s)
  PROVE  NetCore(u) /\ NetSettled(u)
<1>1. CASE u = s
  BY <1>1
<1>2. CASE s.deferred = "none" /\ u = NetNewScan(s)
  BY <1>2, NetNewScanKeeps
<1> QED
  BY <1>1, <1>2 DEF NetAutoScan

\* The port opens: the link comes up with its traffic.
LEMMA NetAuthorizeKeeps ==
  ASSUME NEW s, NetCore(s), NetSettled(s), NEW u, u = NetAuthorize(s)
  PROVE  NetCore(u) /\ NetSettled(u)
<1>1. NetBase(s) /\ NetShape(s) /\ s.fault = "none"
  BY DEF NetCore, NetBase
<1>2. CASE u = s
  BY <1>2
<1>3. CASE s.station = "associated" /\ s.ic = "RUN" /\ u # s
  <2>1. PICK v : v = [s EXCEPT !.station = "authorized"]
    OBVIOUS
  <2>2. PICK w : w = NetSetTraffic(v, "authorized")
    OBVIOUS
  <2>3. u = [w EXCEPT !.link = w.traffic = "authorized"]
    BY <1>3, <2>1, <2>2 DEF NetAuthorize
  <2>4. s.action = "none"
    BY <1>1, <1>3 DEF NetBase, NetAction, NetActionStates
  <2>5. NetShape(v) /\ v.fault = "none" /\ v.action = "none"
    BY <1>1, <2>1, <2>4 DEF NetShape, NetFields
  <2>6. "authorized" # "none"
    OBVIOUS
  <2>7. /\ NetShape(w) /\ w.traffic = "authorized"
        /\ \A f \in NetFields \ {"traffic", "scheduler", "held", "link"} : w[f] = v[f]
    BY <2>2, <2>5, <2>6, NetTrafficOpened
  <2>8. NetShape(u)
    BY <2>3, <2>7 DEF NetShape
  <2>9. \A f \in NetFields \ {"station", "traffic", "scheduler", "held", "link"} : u[f] = s[f]
    BY <1>1, <2>1, <2>3, <2>7 DEF NetShape
  <2>10. u.station = "authorized" /\ u.traffic = "authorized"
    BY <1>1, <2>1, <2>3, <2>7 DEF NetShape, NetFields
  <2>11. NetBase(u) /\ NetSettled(u)
    BY <1>1, <1>3, <2>4, <2>8, <2>9, <2>10
       DEF NetBase, NetAction, NetActionStates, NetKeys, NetLink, NetPending, NetProtocol,
           NetDrained, NetFields, NetSettled
  <2> QED
    BY <1>3, <2>9, <2>10, <2>11
       DEF NetCore, NetObeys, NetWishes, NetFields, NetScanning, NetLinking, NetLinked
<1> QED
  BY <1>2, <1>3 DEF NetAuthorize

\* The port closes, and the link with it.
LEMMA NetRevokeKeeps ==
  ASSUME NEW s, NetCore(s), NetSettled(s), NEW u, u = NetRevoke(s)
  PROVE  NetCore(u) /\ NetSettled(u)
<1>1. NetBase(s) /\ NetShape(s) /\ s.fault = "none"
  BY DEF NetCore, NetBase
<1>2. CASE u = s
  BY <1>2
<1>3. CASE s.station = "authorized" /\ u = NetEnter(s, "associated", "controlledPort")
  <2>1. PICK v : v = [s EXCEPT !.station = "associated"]
    OBVIOUS
  <2>2. u = NetSetTraffic(v, "controlledPort")
    BY <1>3, <2>1 DEF NetEnter
  <2>4. s.action = "none"
    BY <1>1, <1>3 DEF NetBase, NetAction, NetActionStates
  <2>5. NetShape(v) /\ v.fault = "none" /\ v.action = "none"
    BY <1>1, <2>1, <2>4 DEF NetShape, NetFields
  <2>6. "controlledPort" # "none" /\ "controlledPort" # "authorized"
    OBVIOUS
  <2>7. /\ NetShape(u) /\ u.traffic = "controlledPort" /\ ~u.link
        /\ \A f \in NetFields \ {"traffic", "scheduler", "held", "link"} : u[f] = v[f]
    BY <2>2, <2>5, <2>6, NetTrafficOpened
  <2>8. \A f \in NetFields \ {"station", "traffic", "scheduler", "held", "link"} : u[f] = s[f]
    BY <1>1, <2>1, <2>7 DEF NetShape
  <2>10. u.station = "associated"
    BY <1>1, <2>1, <2>7 DEF NetShape, NetFields
  <2>11. NetBase(u) /\ NetSettled(u)
    BY <1>1, <1>3, <2>4, <2>7, <2>8, <2>10
       DEF NetBase, NetAction, NetActionStates, NetKeys, NetLink, NetPending, NetProtocol,
           NetDrained, NetFields, NetSettled, NetScanning
  <2> QED
    BY <1>3, <2>8, <2>10, <2>11
       DEF NetCore, NetObeys, NetWishes, NetFields, NetScanning, NetLinking, NetLinked
<1> QED
  BY <1>2, <1>3 DEF NetRevoke

\* The watchdog scans again; an idle station is never waited for.
LEMMA NetWatchdogKeeps ==
  ASSUME NEW s, NetCore(s), NetSettled(s), NEW silent, NEW u, u = NetWatchdog(s, silent)
  PROVE  NetCore(u) /\ NetSettled(u)
<1>1. CASE u = s
  BY <1>1
<1>2. CASE s.ic \in {"AUTH", "ASSOC"} /\ u = NetNewScan(s)
  <2>1. s.station # "idle"
    BY <1>2 DEF NetCore, NetBase, NetPending, NetProtocol
  <2> QED
    BY <1>2, <2>1, NetNewScanKeeps
<1> QED
  BY <1>1, <1>2 DEF NetWatchdog

\* A frame is published with the keys of the installed network, or held.
LEMMA NetPumpTxKeeps ==
  ASSUME NEW s, NetDead(s) \/ (NetCore(s) /\ NetSettled(s)),
         NEW full, NEW u, u = NetPumpTx(s, full)
  PROVE  NetDead(u) \/ (NetCore(u) /\ NetSettled(u))
<1>1. CASE u = s
  BY <1>1
<1>2. CASE /\ s.fault = "none" /\ s.action = "none"
           /\ \/ u = [s EXCEPT !.held = TRUE, !.queued = FALSE]
              \/ u = [s EXCEPT !.held = FALSE, !.queued = FALSE, !.out = @ \cup {s.selected}]
  <2>1. NetCore(s) /\ NetSettled(s) /\ NetBase(s) /\ NetShape(s)
    BY <1>2 DEF NetDead, NetCore, NetBase
  <2>2. NetShape(u)
    BY <1>2, <2>1 DEF NetShape
  <2>3. /\ \A f \in NetFields \ {"held", "queued", "out"} : u[f] = s[f]
        /\ u.out = s.out \/ u.out = s.out \cup {s.selected}
    BY <1>2, <2>1 DEF NetShape, NetFields
  <2>4. NetBase(u) /\ NetSettled(u)
    BY <1>2, <2>1, <2>2, <2>3
       DEF NetBase, NetAction, NetKeys, NetLink, NetPending, NetProtocol, NetFields, NetSettled
  <2> QED
    BY <2>1, <2>3, <2>4 DEF NetCore, NetObeys, NetWishes, NetFields
<1> QED
  BY <1>1, <1>2 DEF NetPumpTx

\* poll() keeps the invariant.
LEMMA NetPollKeeps ==
  ASSUME NetInv, NetPoll
  PROVE  NetInv'
<1>1. PICK s : s = net
  OBVIOUS
<1>2. PICK late, done, yes, full \in BOOLEAN :
        /\ s.fault = "none"
        /\ \E a \in {NetStartAction(NetTicked(s, late))} :
           \E b \in {NetCompletions(NetBootService(a, done), yes)} :
           \E c \in {NetDeferred(NetReset(NetTicked(b, late)))} :
           \E d \in {NetScanDone(NetProbe(NetAuth(c)), yes)} :
           \E e \in {NetAutoScan(NetRun(NetApplySelection(d, yes)))} :
           \E f \in {NetWatchdog(NetRevoke(NetAuthorize(e)), yes)} :
              net' = NetPumpTx(f, full)
  BY <1>1 DEF NetPoll, NetPollWith
<1>3. NetCore(s) /\ NetSettled(s)
  BY <1>1, <1>2 DEF NetInv, NetDead
<1>4. PICK t : t = NetTicked(s, late)
  OBVIOUS
<1>5. PICK a : a = NetStartAction(t)
  OBVIOUS
<1>6. NetCore(a) /\ NetQuiet(a)
  <2>1. NetCore(t) /\ NetSettled(t)
    BY <1>3, <1>4, NetTickedKeeps
  <2> QED
    BY <1>5, <2>1, NetStartActionKeeps
<1>7. PICK b1 : b1 = NetBootService(a, done)
  OBVIOUS
<1>8. PICK b : b = NetCompletions(b1, yes)
  OBVIOUS
<1>9. NetCore(b)
  <2>1. NetCore(b1) /\ NetQuiet(b1)
    BY <1>6, <1>7, NetBootServiceKeeps
  <2> QED
    BY <1>8, <2>1, NetCompletionsKeeps
<1>10. PICK c1 : c1 = NetTicked(b, late)
  OBVIOUS
<1>11. PICK c2 : c2 = NetReset(c1)
  OBVIOUS
<1>12. PICK c : c = NetDeferred(c2)
  OBVIOUS
<1>13. NetCore(c) /\ NetResetWaits(c) /\ NetScanHeard(c)
  <2>1. NetCore(c1)
    BY <1>9, <1>10, NetTickedKeeps
  <2>2. NetCore(c2) /\ NetResetWaits(c2)
    BY <1>11, <2>1, NetResetKeeps
  <2> QED
    BY <1>12, <2>2, NetDeferredKeeps
<1>14. PICK d1 : d1 = NetAuth(c)
  OBVIOUS
<1>15. PICK d2 : d2 = NetProbe(d1)
  OBVIOUS
<1>16. PICK d : d = NetScanDone(d2, yes)
  OBVIOUS
<1>17. NetCore(d) /\ NetSettled(d)
  <2>1. NetCore(d1) /\ NetResetWaits(d1) /\ NetScanHeard(d1) /\ ~d1.auth
    BY <1>13, <1>14, NetAuthKeeps
  <2>2. NetCore(d2) /\ NetResetWaits(d2) /\ NetScanHeard(d2) /\ ~d2.auth /\ ~d2.probe
    BY <1>15, <2>1, NetProbeKeeps
  <2> QED
    BY <1>16, <2>2, NetScanDoneKeeps
<1>18. PICK e1 : e1 = NetApplySelection(d, yes)
  OBVIOUS
<1>19. PICK e2 : e2 = NetRun(e1)
  OBVIOUS
<1>20. PICK e : e = NetAutoScan(e2)
  OBVIOUS
<1>21. NetCore(e) /\ NetSettled(e)
  <2>1. NetCore(e1) /\ NetSettled(e1)
    BY <1>17, <1>18, NetApplySelectionKeeps
  <2>2. NetCore(e2) /\ NetSettled(e2)
    BY <1>19, <2>1, NetRunKeeps
  <2> QED
    BY <1>20, <2>2, NetAutoScanKeeps
<1>22. PICK f1 : f1 = NetAuthorize(e)
  OBVIOUS
<1>23. PICK f2 : f2 = NetRevoke(f1)
  OBVIOUS
<1>24. PICK f : f = NetWatchdog(f2, yes)
  OBVIOUS
<1>25. NetCore(f) /\ NetSettled(f)
  <2>1. NetCore(f1) /\ NetSettled(f1)
    BY <1>21, <1>22, NetAuthorizeKeeps
  <2>2. NetCore(f2) /\ NetSettled(f2)
    BY <1>23, <2>1, NetRevokeKeeps
  <2> QED
    BY <1>24, <2>2, NetWatchdogKeeps
<1>26. net' = NetPumpTx(f, full)
  BY <1>2, <1>4, <1>5, <1>7, <1>8, <1>10, <1>11, <1>12, <1>14, <1>15, <1>16, <1>18, <1>19, <1>20,
     <1>22, <1>23, <1>24
<1>27. NetDead(net') \/ (NetCore(net') /\ NetSettled(net'))
  BY <1>25, <1>26, NetPumpTxKeeps
<1> QED
  BY <1>27 DEF NetInv

----------------------------------------------------------------------------
(* The other handlers. *)

\* A frame is on its way no more.
LEMMA NetFrameCompletesKeeps ==
  ASSUME NetInv, NetFrameCompletes
  PROVE  NetInv'
<1>1. PICK s : s = net
  OBVIOUS
<1>2. PICK n \in s.out, full \in BOOLEAN : net' = NetPumpTx([s EXCEPT !.out = @ \ {n}], full)
  BY <1>1 DEF NetFrameCompletes
<1>3. PICK v : v = [s EXCEPT !.out = @ \ {n}]
  OBVIOUS
<1>4. NetDead(s) \/ (NetCore(s) /\ NetSettled(s))
  BY <1>1 DEF NetInv
<1>5. NetShape(s)
  BY <1>4 DEF NetDead, NetCore, NetBase
<1>6. NetShape(v)
  BY <1>3, <1>5 DEF NetShape
<1>7. (\A f \in NetFields \ {"out"} : v[f] = s[f]) /\ v.out = s.out \ {n}
  BY <1>3, <1>5 DEF NetShape, NetFields
<1>8. CASE NetDead(s)
  <2>1. NetDead(v)
    BY <1>6, <1>7, <1>8 DEF NetDead, NetKeys, NetFields
  <2>2. NetDead(net') \/ (NetCore(net') /\ NetSettled(net'))
    BY <1>2, <1>3, <2>1, NetPumpTxKeeps
  <2> QED
    BY <2>2 DEF NetInv
<1>9. CASE NetCore(s) /\ NetSettled(s)
  <2>1. NetBase(v) /\ NetSettled(v)
    BY <1>6, <1>7, <1>9
       DEF NetCore, NetBase, NetAction, NetKeys, NetLink, NetPending, NetProtocol, NetFields,
           NetSettled
  <2>2. NetCore(v)
    BY <1>7, <1>9, <2>1 DEF NetCore, NetObeys, NetWishes, NetFields
  <2>3. NetDead(net') \/ (NetCore(net') /\ NetSettled(net'))
    BY <1>2, <1>3, <2>1, <2>2, NetPumpTxKeeps
  <2> QED
    BY <2>3 DEF NetInv
<1> QED
  BY <1>4, <1>8, <1>9

\* An action follows a command.
LEMMA NetCommandAction ==
  ASSUME NEW s, NetCore(s), NetSettled(s), NEW state, NEW u, u = NetBeginAction(s, state),
         \/ s.station = "initialNoLink" /\ state = "installingIdle"
         \/ s.station = "joining" /\ state = "installingAssociationCam"
         \/ s.station = "disconnecting" /\ state = "disconnectingCam"
  PROVE  NetCore(u) /\ NetSettled(u)
<1>1. NetBase(s) /\ NetShape(s) /\ s.fault = "none"
  BY DEF NetCore, NetBase
<1>2. s.action = "none"
  BY <1>1 DEF NetBase, NetAction, NetActionStates
<1>3. u = [s EXCEPT !.station = state, !.traffic = "none", !.held = FALSE, !.action = "deferred"]
  BY <1>1, <1>2, NetActionBegun
<1>4. NetShape(u)
  BY <1>1, <1>3 DEF NetShape
<1>5. \A f \in NetFields \ {"station", "traffic", "held", "action"} : u[f] = s[f]
  BY <1>1, <1>3 DEF NetShape
<1>6. u.station = state /\ u.traffic = "none" /\ ~u.held /\ u.action = "deferred"
  BY <1>1, <1>3 DEF NetShape, NetFields
<1>7. NetBase(u) /\ NetSettled(u)
  BY <1>1, <1>4, <1>5, <1>6
     DEF NetBase, NetAction, NetActionStates, NetKeys, NetLink, NetPending, NetProtocol,
         NetSettled, NetScanning, NetFields
<1> QED
  BY <1>5, <1>6, <1>7
     DEF NetCore, NetObeys, NetWishes, NetFields, NetScanning, NetLinking, NetLinked

\* firmwareEvent(): the station goes on to what follows its command.
LEMMA NetFirmwareEventKeeps ==
  ASSUME NEW s, NetCore(s), NetSettled(s), s.station \in NetCommandStates,
         NEW u, u = NetFirmwareEvent(s)
  PROVE  NetCore(u) /\ NetSettled(u)
<1>1. NetBase(s) /\ NetShape(s) /\ s.fault = "none"
  BY DEF NetCore, NetBase
<1>2. CASE s.station = "creatingRole"
  <2>1. u = [s EXCEPT !.station = "initialNoLink"]
    BY <1>1, <1>2 DEF NetFirmwareEvent, NetCommand
  <2>2. NetShape(u)
    BY <1>1, <2>1 DEF NetShape
  <2>3. (\A f \in NetFields \ {"station"} : u[f] = s[f]) /\ u.station = "initialNoLink"
    BY <1>1, <2>1 DEF NetShape, NetFields
  <2>4. NetBase(u) /\ NetSettled(u)
    BY <1>1, <1>2, <2>2, <2>3
       DEF NetBase, NetAction, NetActionStates, NetKeys, NetLink, NetPending, NetProtocol,
           NetSettled, NetScanning, NetFields
  <2> QED
    BY <1>2, <2>3, <2>4
       DEF NetCore, NetObeys, NetWishes, NetFields, NetScanning, NetLinking, NetLinked
<1>3. CASE s.station = "initialNoLink"
  <2>1. u = NetBeginAction(s, "installingIdle")
    BY <1>3 DEF NetFirmwareEvent
  <2> QED
    BY <1>3, <2>1, NetCommandAction
<1>4. CASE s.station = "joining" /\ ~s.disconnect
  <2>1. u = NetBeginAction(s, "installingAssociationCam")
    BY <1>4 DEF NetFirmwareEvent, NetOrDisconnect
  <2> QED
    BY <1>4, <2>1, NetCommandAction
<1>5. CASE s.station = "joining" /\ s.disconnect
  <2>1. u = NetBeginDisconnect(s)
    BY <1>5 DEF NetFirmwareEvent, NetOrDisconnect
  <2>2. s.action = "none" /\ ~s.scanDone /\ NetKeys(s)
    BY <1>1, <1>5 DEF NetBase, NetAction, NetActionStates, NetSettled
  <2>3. NetBase(u) /\ NetSettled(u) /\ NetSameWishes(s, u) /\ u.station = "disconnectingCmac"
    BY <1>1, <2>1, <2>2, NetBeginDisconnectKeeps
  <2> QED
    BY <2>3
       DEF NetCore, NetObeys, NetWishes, NetSameWishes, NetScanning, NetLinking, NetLinked
<1>6. CASE s.station = "disconnecting"
  <2>1. u = NetBeginAction(s, "disconnectingCam")
    BY <1>6 DEF NetFirmwareEvent
  <2> QED
    BY <1>6, <2>1, NetCommandAction
<1> QED
  BY <1>2, <1>3, <1>4, <1>5, <1>6 DEF NetCommandStates

\* The firmware's answer keeps the invariant.
LEMMA NetFirmwareAnswersKeeps ==
  ASSUME NetInv, NetFirmwareAnswers
  PROVE  NetInv'
<1>1. PICK s : s = net
  OBVIOUS
<1>2. NetCore(s) /\ NetSettled(s) /\ s.station \in NetCommandStates
  BY <1>1 DEF NetInv, NetDead, NetFirmwareAnswers
<1>3. PICK v : v = NetFirmwareEvent(s)
  OBVIOUS
<1>4. PICK full \in BOOLEAN : net' = NetPumpTx(v, full)
  BY <1>1, <1>3 DEF NetFirmwareAnswers
<1>5. NetCore(v) /\ NetSettled(v)
  BY <1>2, <1>3, NetFirmwareEventKeeps
<1>6. NetDead(net') \/ (NetCore(net') /\ NetSettled(net'))
  BY <1>4, <1>5, NetPumpTxKeeps
<1> QED
  BY <1>6 DEF NetInv

\* Received frames keep the invariant.
LEMMA NetReceivesKeeps ==
  ASSUME NetInv, NetReceives
  PROVE  NetInv'
<1>1. PICK s : s = net
  OBVIOUS
<1>2. NetCore(s) /\ NetSettled(s)
  BY <1>1 DEF NetInv, NetDead, NetReceives
<1>3. PICK full \in BOOLEAN, v \in {NetNewAssoc(s, TRUE), NetNewRun(s), NetNewAssoc(s, FALSE),
                                    NetNewAuth(s)} : net' = NetPumpTx(v, full)
  BY <1>1 DEF NetReceives
<1>4. NetCore(v) /\ NetSettled(v)
  BY <1>2, <1>3, NetNewAssocKeeps, NetNewRunKeeps, NetNewAuthKeeps
<1>5. NetDead(net') \/ (NetCore(net') /\ NetSettled(net'))
  BY <1>3, <1>4, NetPumpTxKeeps
<1> QED
  BY <1>5 DEF NetInv

\* The port of the handshake is the bridge's own.
LEMMA NetPortChangesKeeps ==
  ASSUME NetInv, NetPortChanges
  PROVE  NetInv'
<1>1. PICK s : s = net
  OBVIOUS
<1>2. NetCore(s) /\ NetSettled(s) /\ NetBase(s) /\ NetShape(s)
  BY <1>1 DEF NetInv, NetDead, NetPortChanges, NetCore, NetBase
<1>3. PICK u : u = [s EXCEPT !.port = ~@]
  OBVIOUS
<1>4. net' = u
  BY <1>1, <1>3 DEF NetPortChanges
<1>5. NetShape(u) /\ \A f \in NetFields \ {"port"} : u[f] = s[f]
  BY <1>2, <1>3 DEF NetShape
<1>6. NetBase(u) /\ NetSettled(u)
  BY <1>2, <1>5, NetNoted
<1>7. NetCore(u)
  BY <1>2, <1>5, <1>6 DEF NetCore, NetObeys, NetWishes, NetFields
<1> QED
  BY <1>4, <1>6, <1>7 DEF NetInv

\* queueSelection(): whatever is under way makes room for the network.
LEMMA NetQueuedKeeps ==
  ASSUME NEW s, NetCore(s), NetSettled(s), NEW network, NEW u, u = NetQueued(s, network)
  PROVE  NetCore(u) /\ NetSettled(u)
<1>1. NetBase(s) /\ NetShape(s) /\ s.fault = "none"
  BY DEF NetCore, NetBase
<1>2. PICK v : v = [s EXCEPT !.waiting = network]
  OBVIOUS
<1>3. PICK w : w = NetDisconnect(v)
  OBVIOUS
<1>4. NetShape(v)
  BY <1>1, <1>2 DEF NetShape
<1>5. \A f \in NetFields \ {"waiting"} : v[f] = s[f]
  BY <1>1, <1>2 DEF NetShape
<1>6. NetBase(v) /\ NetSettled(v) /\ ~v.scanDone
  BY <1>1, <1>4, <1>5
     DEF NetBase, NetAction, NetKeys, NetLink, NetPending, NetProtocol, NetDrained, NetFields,
         NetSettled
<1>7. /\ NetBase(w) /\ NetSettled(w)
      /\ w.station \in NetScanning => w.cancelled
      /\ w.station \in NetLinking => w.disconnect
      /\ w.station \notin NetLinked
  BY <1>3, <1>6, NetDisconnectKeeps
<1>8. w.fault = "none" /\ NetShape(w)
  BY <1>7 DEF NetBase
<1>9. CASE s.station \in NetNoRole
  <2>1. u = [s EXCEPT !.waiting = 0]
    BY <1>2, <1>3, <1>8, <1>9 DEF NetQueued
  <2>2. NetShape(u)
    BY <1>1, <2>1 DEF NetShape
  <2>3. (\A f \in NetFields \ {"waiting"} : u[f] = s[f]) /\ u.waiting = 0
    BY <1>1, <2>1 DEF NetShape, NetFields
  <2>4. NetBase(u) /\ NetSettled(u)
    BY <1>1, <2>2, <2>3
       DEF NetBase, NetAction, NetKeys, NetLink, NetPending, NetProtocol, NetDrained, NetFields,
           NetSettled
  <2> QED
    BY <1>9, <2>3, <2>4
       DEF NetCore, NetObeys, NetWishes, NetFields, NetNoRole, NetScanning, NetLinking, NetLinked
<1>10. CASE s.station \notin NetNoRole
  <2>1. u = [w EXCEPT !.credentials = FALSE, !.deferred = "INIT", !.auth = FALSE, !.probe = FALSE,
                      !.run = FALSE, !.scanDone = FALSE, !.link = FALSE]
    BY <1>2, <1>3, <1>8, <1>10 DEF NetQueued
  <2>2. NetShape(u)
    BY <1>8, <2>1 DEF NetShape
  <2>3. \A f \in NetFields \ {"credentials", "deferred", "auth", "probe", "run", "scanDone", "link"} :
          u[f] = w[f]
    BY <1>8, <2>1 DEF NetShape
  <2>4. u.deferred = "INIT" /\ ~u.auth /\ ~u.probe /\ ~u.scanDone /\ ~u.link
    BY <1>8, <2>1 DEF NetShape, NetFields
  <2>5. NetBase(u) /\ NetSettled(u)
    BY <1>7, <2>2, <2>3, <2>4
       DEF NetBase, NetAction, NetKeys, NetLink, NetPending, NetProtocol, NetDrained, NetFields,
           NetSettled
  <2> QED
    BY <1>7, <2>3, <2>4, <2>5 DEF NetCore, NetObeys, NetWishes, NetFields
<1> QED
  BY <1>9, <1>10

\* A selection keeps the invariant.
LEMMA NetSelectKeeps ==
  ASSUME NetInv, NetSelect
  PROVE  NetInv'
<1>1. PICK s : s = net
  OBVIOUS
<1>2. NetCore(s) /\ NetSettled(s) /\ NetBase(s) /\ NetShape(s)
  BY <1>1 DEF NetInv, NetDead, NetSelect, NetCore, NetBase
<1>3. PICK v : v = [s EXCEPT !.selections = @ + 1]
  OBVIOUS
<1>4. NetShape(v) /\ \A f \in NetFields \ {"selections"} : v[f] = s[f]
  BY <1>2, <1>3 DEF NetShape
<1>5. NetBase(v) /\ NetSettled(v)
  BY <1>2, <1>4, NetNoted
<1>6. NetCore(v)
  BY <1>2, <1>4, <1>5 DEF NetCore, NetObeys, NetWishes, NetFields
<1>7. net' = NetQueued(v, s.selections + 1) \/ net' = NetQueued(s, 0)
  BY <1>1, <1>3 DEF NetSelect
<1>8. NetCore(net') /\ NetSettled(net')
  BY <1>2, <1>5, <1>6, <1>7, NetQueuedKeeps
<1> QED
  BY <1>8 DEF NetInv

\* The interface comes up.
LEMMA NetEnableKeeps ==
  ASSUME NetInv, NetEnable
  PROVE  NetInv'
<1>1. PICK s : s = net
  OBVIOUS
<1>2. NetCore(s) /\ NetSettled(s) /\ NetBase(s) /\ NetShape(s)
  BY <1>1 DEF NetInv, NetDead, NetEnable, NetCore, NetBase
<1>3. PICK u : u = [s EXCEPT !.enabled = TRUE]
  OBVIOUS
<1>4. net' = u
  BY <1>1, <1>3 DEF NetEnable
<1>5. NetShape(u)
  BY <1>2, <1>3 DEF NetShape
<1>6. (\A f \in NetFields \ {"enabled"} : u[f] = s[f]) /\ u.enabled
  BY <1>2, <1>3 DEF NetShape, NetFields
<1>7. NetBase(u) /\ NetSettled(u)
  BY <1>2, <1>5, <1>6
     DEF NetBase, NetAction, NetKeys, NetLink, NetPending, NetProtocol, NetDrained, NetFields,
         NetSettled
<1>8. NetCore(u)
  BY <1>2, <1>6, <1>7 DEF NetCore, NetObeys, NetWishes, NetFields
<1> QED
  BY <1>4, <1>7, <1>8 DEF NetInv

\* The interface goes down: the link at once, the rest when it is idle.
LEMMA NetDisableKeeps ==
  ASSUME NetInv, NetDisable
  PROVE  NetInv'
<1>1. PICK s : s = net
  OBVIOUS
<1>2. NetCore(s) /\ NetSettled(s) /\ NetBase(s) /\ NetShape(s)
  BY <1>1 DEF NetInv, NetDead, NetDisable, NetCore, NetBase
<1>3. PICK v : v = [s EXCEPT !.enabled = FALSE, !.waiting = 0]
  OBVIOUS
<1>4. PICK w : w = NetDefer(v, "INIT")
  OBVIOUS
<1>5. PICK u : u = [w EXCEPT !.link = FALSE]
  OBVIOUS
<1>6. net' = u
  BY <1>1, <1>3, <1>4, <1>5 DEF NetDisable
<1>7. NetShape(v)
  BY <1>2, <1>3 DEF NetShape
<1>8. \A f \in NetFields \ {"enabled", "waiting"} : v[f] = s[f]
  BY <1>2, <1>3 DEF NetShape
<1>9. NetBase(v) /\ NetSettled(v) /\ ~v.scanDone
  BY <1>2, <1>7, <1>8
     DEF NetBase, NetAction, NetKeys, NetLink, NetPending, NetProtocol, NetDrained, NetFields,
         NetSettled
<1>10. NetCore(w) /\ NetSettled(w)
  BY <1>4, <1>9, NetDeferKeeps
<1>11. NetShape(w)
  BY <1>10 DEF NetCore, NetBase
<1>12. NetShape(u)
  BY <1>5, <1>11 DEF NetShape
<1>13. (\A f \in NetFields \ {"link"} : u[f] = w[f]) /\ ~u.link
  BY <1>5, <1>11 DEF NetShape, NetFields
<1>14. NetBase(u) /\ NetSettled(u)
  BY <1>10, <1>12, <1>13
     DEF NetCore, NetBase, NetAction, NetKeys, NetLink, NetPending, NetProtocol, NetDrained,
         NetFields, NetSettled
<1>15. NetCore(u)
  BY <1>10, <1>13, <1>14 DEF NetCore, NetObeys, NetWishes, NetFields
<1> QED
  BY <1>6, <1>14, <1>15 DEF NetInv

\* A failure of the device closes everything.
LEMMA NetHardwareFailsKeeps ==
  ASSUME NetInv, NetHardwareFails
  PROVE  NetInv'
<1>1. PICK s : s = net
  OBVIOUS
<1>2. NetBase(s) /\ NetShape(s) /\ s.fault = "none"
  BY <1>1 DEF NetInv, NetDead, NetHardwareFails, NetCore, NetBase
<1>3. net' = [s EXCEPT !.fault = "device", !.traffic = "none", !.enabled = FALSE, !.link = FALSE,
                       !.waiting = 0]
  BY <1>1, <1>2 DEF NetHardwareFails, NetFail
<1>4. PICK u : u = net'
  OBVIOUS
<1>5. NetShape(u)
  BY <1>2, <1>3, <1>4 DEF NetShape
<1>6. \A f \in NetFields \ {"fault", "traffic", "enabled", "link", "waiting"} : u[f] = s[f]
  BY <1>2, <1>3, <1>4 DEF NetShape
<1>7. u.fault = "device" /\ u.traffic = "none" /\ ~u.link
  BY <1>2, <1>3, <1>4 DEF NetShape, NetFields
<1>8. NetDead(u)
  BY <1>2, <1>5, <1>6, <1>7 DEF NetBase, NetAction, NetKeys, NetDead, NetFields
<1> QED
  BY <1>4, <1>8 DEF NetInv

----------------------------------------------------------------------------
(* The controller's invariant is one, and says what it should. *)

\* The controller starts in it.
LEMMA NetInvInit == NetInit => NetInv
<1> SUFFICES ASSUME NetInit PROVE NetInv
  OBVIOUS
<1>1. NetShape(net)
  BY DEF NetInit, NetShape, NetFields
<1>2. /\ net.station = "stopped" /\ net.traffic = "none" /\ net.action = "none" /\ net.out = {}
      /\ ~net.held /\ net.ic = "INIT" /\ ~net.reset /\ net.deferred = "none" /\ ~net.auth
      /\ ~net.probe /\ ~net.scanDone /\ ~net.link /\ net.fault = "none"
  BY DEF NetInit
<1>3. NetBase(net) /\ NetSettled(net)
  BY <1>1, <1>2
     DEF NetBase, NetAction, NetActionStates, NetKeys, NetLink, NetPending, NetProtocol, NetSettled
<1> QED
  BY <1>2, <1>3
     DEF NetInv, NetCore, NetObeys, NetWishes, NetScanning, NetLinking, NetLinked

\* Every handler keeps it.
LEMMA NetInvStep == NetInv /\ NetNext => NetInv'
  BY NetPollKeeps, NetFrameCompletesKeeps, NetFirmwareAnswersKeeps, NetReceivesKeeps,
     NetPortChangesKeeps, NetSelectKeeps, NetEnableKeeps, NetDisableKeeps, NetHardwareFailsKeeps
     DEF NetNext

\* It implies that actions are alone, frames carry the right keys, the link means an
\* open port, no check of the driver fires and net80211 follows the station.
LEMMA NetInvSafe ==
  NetInv => /\ NetActionAlone /\ NetOldKeysDrained /\ NetLinkMeansPort
            /\ NetChecksNeverFire /\ NetProtocolFollowsStation
<1> SUFFICES ASSUME NetInv
             PROVE  /\ NetActionAlone /\ NetOldKeysDrained /\ NetLinkMeansPort
                    /\ NetChecksNeverFire /\ NetProtocolFollowsStation
  OBVIOUS
<1>1. CASE NetDead(net)
  BY <1>1
     DEF NetDead, NetKeys, NetActionAlone, NetOldKeysDrained, NetLinkMeansPort,
         NetChecksNeverFire, NetProtocolFollowsStation
<1>2. CASE NetCore(net) /\ NetSettled(net)
  BY <1>2
     DEF NetCore, NetBase, NetAction, NetKeys, NetLink, NetProtocol, NetObeys, NetLinked,
         NetSettled, NetActionAlone, NetOldKeysDrained, NetLinkMeansPort, NetChecksNeverFire,
         NetProtocolFollowsStation
<1> QED
  BY <1>1, <1>2 DEF NetInv

----------------------------------------------------------------------------
(* The radio: its inductive invariant.                                     *)

RlBegins == {"await", "clear", "publish", "recheck", "grant"}
RlEnds == {"restore", "unpublish", "release"}
RlGranted == {"waitingStartAck", "calibrating", "waitingStopAck", "restore"}

\* The lease is where the sequence waits for it.
RlSeqStage ==
  /\ rlSeq \in {"idle", "upload", "btInitialization", "acquire", "run", "restore", "ready",
                "fault", "stopped"}
  /\ rlSeq \in {"idle", "upload", "btInitialization"} => rlStage = "none"
  /\ rlSeq = "acquire" => rlStage \in RlBegins \cup {"waitingStartAck", "calibrating", "fault"}
  /\ rlSeq = "run" => rlStage = "calibrating"
  /\ rlSeq = "restore" => rlStage \in RlEnds \cup {"waitingStopAck", "complete", "fault"}
  /\ rlSeq = "ready" => rlStage = "complete"
  /\ rlSeq \in {"fault", "stopped"} => rlStage \in {"none", "complete", "fault"}

\* What the lease has taken at each of its stages: the grants are taken after
\* Bluetooth was seen quiet with the word delivered, and given back before the word
\* is withdrawn.
RlOwned ==
  /\ rlStage \in {"none", "await", "clear", "complete"} => ~rlHeld /\ ~rlPublished
  /\ rlStage \in {"publish", "recheck", "grant", "unpublish"} \cup RlGranted =>
       rlHeld /\ rlPublished
  /\ rlStage = "release" => rlHeld /\ ~rlPublished
  /\ rlStage \in {"recheck", "grant", "unpublish"} \cup RlGranted => rlBtSees
  /\ rlStage \in {"grant", "unpublish"} \cup RlGranted => rlBt # "run"
  /\ rlStage \in RlGranted => rlGrants = "calibration"
  /\ rlStage \notin RlGranted \cup {"fault"} => rlGrants = "baseline"
  /\ rlGrants # "baseline" => rlPublished /\ rlBtSees /\ rlBt # "run"

\* The command in flight is the one the lease waits for, as long as the bus works;
\* none is in flight that could lift the policy under a calibration.
RlCommanded ==
  /\ DOMAIN rlFw = {"policy", "cam", "cmac", "edca"}
  /\ rlCommand # RlNoCommand => rlCommand.to \in {"policy", "cam", "cmac", "edca"}
  /\ rlCommand.to = "policy" /\ "bus" \in rlHealthy =>
       \/ rlStage = "waitingStartAck" /\ rlCommand = RlPolicy("off")
       \/ rlStage = "waitingStopAck"
  /\ rlStage = "calibrating" \/ rlBody # "idle" =>
       rlCommand = RlNoCommand /\ rlFw.policy = <<"off", 0>> /\ rlGrants = "calibration"

\* The plan of an action holds table writes, and one is under way until its end.
RlPlanned ==
  /\ \E x, y : /\ rlPlan \in {<<>>, <<x>>, <<x, y>>}
               /\ x.to \in {"cam", "cmac"} /\ y.to \in {"cam", "cmac"}
  /\ rlCommand.to \in {"cam", "cmac"} => rlPlan # <<>>

\* A calibration runs inside the sequence; one that is not known to have ended
\* keeps the boot service failed.
RlBodies ==
  /\ rlBody \in {"idle", "running", "unproven"}
  /\ rlBody = "running" => rlSeq = "run"
  /\ rlBody = "unproven" => rlSeq \in {"fault", "stopped"} /\ rlBoot = "failed"
  /\ rlEmitting => rlBody # "idle"

\* Every failure costs the bus.
RlBoots ==
  /\ rlBoot \in {"configuration", "radio", "ready", "failed", "stopped"}
  /\ rlHealthy \subseteq {"bus", "mailbox"}
  /\ rlSeq \in {"fault", "stopped"} \/ rlBoot \in {"failed", "stopped"} \/ rlStage = "fault" =>
       "bus" \notin rlHealthy
  /\ rlBoot = "configuration" <=> rlSeq = "idle"
  /\ rlBoot = "stopped" => rlSeq = "stopped"
  /\ rlBoot = "ready" => rlSeq \notin {"idle", "upload", "btInitialization"}
  /\ rlStage \in RlInCall => rlBoot \in {"radio", "ready"}

RlClosed ==
  /\ RlBusy \/ rlSeq = "idle" \/ rlHeld \/ rlBody # "idle" \/ rlBoot = "stopped" => rlMask = "none"
  /\ rlMask \in {"none", "management", "all"}

RlLease ==
  RlSeqStage /\ RlOwned /\ RlCommanded /\ RlPlanned /\ RlBodies /\ RlBoots /\ RlClosed

\* Data on a calibrated channel, management frames on a scanned one at least.
RlFull == RlTx \subseteq rlRfk.ok /\ rlRfk.iq = rlHw /\ ~rlRfk.active
RlOpen ==
  /\ rlMask = "all" => RlFull
  /\ rlMask = "management" =>
       RlFull \/ (rlRfk.active /\ "scan" \in rlRfk.ok /\ rlRfk.scan = rlHw)

\* What is calibrated when n calibrations of an action are done.
RlReached(action, n) ==
  /\ action = "initialize" =>
       /\ ~rlRfk.active /\ rlHw = rlTarget
       /\ n = 0 => rlRfk.ok = {}
       /\ n >= 1 => "rck" \in rlRfk.ok
       /\ n >= 2 => "dack" \in rlRfk.ok
       /\ n >= 3 => "rxDc" \in rlRfk.ok
  /\ action # "initialize" => "rxDc" \in rlRfk.ok
  /\ action = "tune" =>
       /\ ~rlRfk.active
       /\ n >= 1 => rlHw = rlTarget
       /\ n = 2 => "prepared" \in rlRfk.ok /\ rlRfk.rxDc = rlTarget
       /\ n >= 3 => "iq" \in rlRfk.ok /\ rlRfk.iq = rlTarget
       /\ n >= 4 => "tssi" \in rlRfk.ok
  /\ action = "scanBegin" =>
       /\ rlHw = rlTarget
       /\ n = 0 => ~rlRfk.active /\ RlTx \subseteq rlRfk.ok /\ rlRfk.iq = rlTarget
       /\ n >= 1 => rlRfk.active /\ rlRfk.scan = rlTarget /\ rlRfk.home = rlTarget
  /\ action = "scanTune" =>
       /\ rlRfk.active
       /\ n >= 1 => rlHw = rlTarget
       /\ n >= 2 => rlRfk.scan = rlTarget
  /\ action = "scanEnd" =>
       /\ rlHw = rlTarget
       /\ n = 0 => rlRfk.active /\ rlRfk.home = rlTarget
       /\ n >= 1 => ~rlRfk.active /\ rlRfk.iq = rlTarget

\* The sequence has the calibrations that its place in the action says, and its
\* flags tell what they are good for.
RlSequenced ==
  /\ DOMAIN rlRfk = {"ok", "rxDc", "iq", "active", "home", "scan", "dpk"}
  /\ rlRun.action \in {"initialize", "tune", "scanBegin", "scanTune", "scanEnd"}
  /\ rlRun.index \in 1 .. Len(RlSteps[rlRun.action])
  /\ rlSeq \in {"idle", "upload", "btInitialization"} =>
       rlFlags = {} /\ rlRfk.ok = {} /\ ~rlRfk.active /\ rlHw = rlTarget
  /\ rlSeq \in {"acquire", "run"} => RlReached(rlRun.action, rlRun.index - 1)
  /\ rlSeq \in {"restore", "ready"} => RlReached(rlRun.action, rlRun.index)
  /\ rlSeq \in {"acquire", "run", "restore"} =>
       ("scanning" \in rlFlags <=> rlRun.action \in {"scanTune", "scanEnd"})
  /\ rlSeq = "ready" =>
       /\ rlRun.index = Len(RlSteps[rlRun.action])
       /\ "scanning" \in rlFlags <=> rlRun.action \in {"scanBegin", "scanTune"}
       /\ "full" \in rlFlags => rlRun.action \in {"tune", "scanEnd"} /\ RlTx \subseteq rlRfk.ok

\* The action of the sequence for each station action that has launched one.
RlLaunches ==
  {<<"prepareInterface", 2, "tune">>, <<"prepareAuthentication", 1, "tune">>,
   <<"scanBegin", 1, "scanBegin">>, <<"scanTune", 1, "scanTune">>,
   <<"scanRestore", 1, "scanTune">>, <<"scanEnd", 1, "scanEnd">>}

\* The states of the station in which it asks for each action.
RlAsked ==
  {<<"prepareInterface", "stopped">>, <<"idleTables", "created">>, <<"scanBegin", "idle">>,
   <<"scanBegin", "linked">>, <<"prepareAuthentication", "idle">>, <<"removeCam", "idle">>,
   <<"scanTune", "scan">>, <<"scanRestore", "scan">>, <<"scanEnd", "restored">>,
   <<"associationCmac", "authenticating">>, <<"associationCam", "cmac">>,
   <<"disconnectCmac", "authenticating">>, <<"disconnectCmac", "cmac">>,
   <<"disconnectCmac", "linked">>, <<"disconnectCam", "left">>}

RlLinking == {"authenticating", "cmac", "linked", "left"}

\* The action the station waits for, and where the sequence is in it.
RlActing ==
  /\ rlPhase \in Nat
  /\ rlBoot \in {"configuration", "radio"} => rlAction.action = "none" /\ rlStation.state = "stopped"
  /\ rlBoot = "ready" /\ rlSeq # "ready" => <<rlAction.action, rlPhase, rlRun.action>> \in RlLaunches
  /\ rlAction.action = "scanBegin" /\ rlPhase > 0 => rlPhase = 1 /\ rlRun.action = "scanBegin"
  /\ rlAction.action # "none" => <<rlAction.action, rlStation.state>> \in RlAsked
  /\ rlAction.action \in {"prepareInterface", "scanRestore"} => rlAction.channel = rlStation.home
  /\ rlAction.action = "prepareAuthentication" => rlAction.channel = rlStation.peer

\* The home the station will return to is the channel the radio is on outside a
\* scan, and the one rfk::Initialization set aside during it.
RlHomed ==
  /\ DOMAIN rlStation = {"state", "resume", "home", "peer"}
  /\ rlAction.action = "prepareAuthentication" /\ rlPhase > 0 => rlTarget = rlStation.peer
  /\ rlAction.action = "prepareInterface" /\ rlPhase > 1 => rlTarget = rlStation.home
  /\ rlAction.action = "scanRestore" /\ rlPhase > 0 => rlTarget = rlStation.home
  /\ /\ rlStation.state \in {"created", "idle", "restored", "removed"} \cup RlLinking
     /\ ~(rlAction.action = "prepareAuthentication" /\ rlPhase > 0)
     => rlTarget = rlStation.home
  /\ rlStation.state \in {"scan", "restored"} => rlRfk.home = rlStation.home
  /\ rlStation.state \in RlLinking => rlStation.peer = rlStation.home
  /\ rlStation.state \in {"scan", "restored"} \/ rlAction.action = "scanBegin" =>
       /\ rlStation.resume \in {"idle", "linked"}
       /\ rlStation.resume = "linked" => rlStation.peer = rlStation.home

RlPlaced == "bus" \in rlHealthy => RlActing /\ RlHomed

RlInv == RlLease /\ RlOpen /\ RlSequenced /\ RlPlaced

----------------------------------------------------------------------------
(* Steps that move only some of the parts.                                 *)

\* What the sequence has reached does not depend on the lease or the station.
LEMMA RlSequencedFrame ==
  ASSUME RlSequenced, UNCHANGED <<rlSeq, rlRun, rlFlags, rlRfk, rlTarget, rlHw>>
  PROVE  RlSequenced'
  BY DEF RlSequenced, RlReached

\* A sequence that has failed or stopped has nothing left to show.
LEMMA RlSequencedFails ==
  ASSUME RlSequenced, rlSeq' \in {"fault", "stopped"}, UNCHANGED <<rlRun, rlRfk>>
  PROVE  RlSequenced'
  BY DEF RlSequenced

\* Traffic stays calibrated while neither the channel nor the calibrations change.
LEMMA RlOpenFrame ==
  ASSUME RlOpen, UNCHANGED <<rlRfk, rlHw>>, rlMask' \in {rlMask, "none"}
  PROVE  RlOpen'
  BY DEF RlOpen, RlFull

\* The station's place does not depend on the lease.
LEMMA RlPlacedFrame ==
  ASSUME RlPlaced, UNCHANGED <<rlBoot, rlSeq, rlRun, rlTarget, rlRfk, rlAction, rlPhase, rlStation>>,
         "bus" \in rlHealthy' => "bus" \in rlHealthy
  PROVE  RlPlaced'
  BY DEF RlPlaced, RlActing, RlHomed

\* Bluetooth, told to keep off, does not start.
LEMMA RlBluetoothKeeps ==
  ASSUME RlInv, RlBluetooth, UNCHANGED radioVars
  PROVE  RlInv'
<1>1. UNCHANGED <<rlPublished, rlStage, rlHeld, rlGrants, rlFw, rlCommand, rlMask, rlBody, rlEmitting>>
  BY DEF RlBluetooth
<1>2. UNCHANGED <<rlBoot, rlSeq, rlRun, rlFlags, rlRfk, rlTarget, rlHw, rlAction, rlPhase, rlPlan, rlDone,
                  rlChannel, rlIo, rlHealthy, rlClosure, rlStation>>
  BY DEF radioVars
<1>3. RlOwned'
  BY <1>1 DEF RlInv, RlLease, RlOwned, RlBluetooth, RlBtRequests, RlBtStarts, RlBtWithdraws, RlBtEnds,
              RlBtIsTold, RlGranted
<1>4. RlSeqStage' /\ RlCommanded' /\ RlPlanned' /\ RlBodies' /\ RlBoots' /\ RlClosed'
  BY <1>1, <1>2 DEF RlInv, RlLease, RlSeqStage, RlCommanded, RlPlanned, RlBodies, RlBoots, RlClosed, RlBusy
<1>5. RlOpen' /\ RlSequenced' /\ RlPlaced'
  BY <1>1, <1>2, RlOpenFrame, RlSequencedFrame, RlPlacedFrame DEF RlInv
<1> QED
  BY <1>3, <1>4, <1>5 DEF RlInv, RlLease

\* begin() and restore() go on inside their call.
LEMMA RlLeaseStepKeeps ==
  ASSUME RlInv, RlLeaseStep, UNCHANGED radioVars
  PROVE  RlInv'
<1>1. UNCHANGED <<rlBt, rlBtSees, rlFw, rlMask, rlBody, rlEmitting>>
  BY DEF RlLeaseStep, RlAwaitBt, RlPublish, RlDelivered, RlRecheck, RlGrant, RlRestoreGrants, RlUnpublish,
         RlReleased
<1>2. UNCHANGED <<rlBoot, rlSeq, rlRun, rlFlags, rlRfk, rlTarget, rlHw, rlAction, rlPhase, rlPlan, rlDone,
                  rlChannel, rlIo, rlHealthy, rlClosure, rlStation>>
  BY DEF radioVars
<1>3. RlOwned'
  BY <1>1
     DEF RlInv, RlLease, RlOwned, RlLeaseStep, RlAwaitBt, RlPublish, RlDelivered, RlRecheck, RlGrant,
         RlRestoreGrants, RlUnpublish, RlReleased, RlStep, RlGranted
<1>4. RlSeqStage' /\ RlBoots'
  BY <1>2
     DEF RlInv, RlLease, RlSeqStage, RlBoots, RlLeaseStep, RlAwaitBt, RlPublish, RlDelivered, RlRecheck,
         RlGrant, RlRestoreGrants, RlUnpublish, RlReleased, RlStep, RlBegins, RlEnds, RlInCall
<1>5. RlCommanded' /\ RlPlanned'
  BY <1>1, <1>2
     DEF RlInv, RlLease, RlCommanded, RlPlanned, RlBodies, RlSeqStage, RlLeaseStep, RlAwaitBt, RlPublish,
         RlDelivered, RlRecheck, RlGrant, RlRestoreGrants, RlUnpublish, RlReleased, RlStep, RlPolicy,
         RlNoCommand
<1>6. RlBodies' /\ RlClosed'
  BY <1>1, <1>2
     DEF RlInv, RlLease, RlBodies, RlClosed, RlBusy, RlSeqStage, RlOwned, RlLeaseStep, RlAwaitBt, RlPublish,
         RlDelivered, RlRecheck, RlGrant, RlRestoreGrants, RlUnpublish, RlReleased, RlStep
<1>7. RlOpen' /\ RlSequenced' /\ RlPlaced'
  BY <1>1, <1>2, RlOpenFrame, RlSequencedFrame, RlPlacedFrame DEF RlInv
<1> QED
  BY <1>3, <1>4, <1>5, <1>6, <1>7 DEF RlInv, RlLease

----------------------------------------------------------------------------
(* Failures.                                                               *)

\* A failure that costs the bus keeps what is said of the sequence and the station.
LEMMA RlFailureKeeps ==
  ASSUME RlOpen, RlSequenced, RlFailed(rlBody') \/ UNCHANGED rlMask,
         rlSeq' \in {"fault", "stopped"}, UNCHANGED <<rlRun, rlRfk, rlHw>>, "bus" \notin rlHealthy'
  PROVE  RlOpen' /\ RlSequenced' /\ RlPlaced'
<1>1. rlMask' \in {rlMask, "none"}
  BY DEF RlFailed
<1> QED
  BY <1>1, RlOpenFrame, RlSequencedFails DEF RlPlaced

\* begin() fails: what it has taken stays taken.
LEMMA RlBeginFailsKeeps ==
  ASSUME RlInv, RlBeginFails
  PROVE  RlInv'
<1>1. /\ rlSeq = "acquire" /\ rlBody = "idle" /\ ~rlEmitting /\ rlMask = "none"
      /\ rlBoot \in {"radio", "ready"}
  BY DEF RlInv, RlLease, RlSeqStage, RlBodies, RlClosed, RlBusy, RlBeginFails, RlBegins, RlEnds, RlBoots,
         RlInCall
<1>2. /\ rlSeq' = "fault" /\ rlBoot' = "failed" /\ "bus" \notin rlHealthy' /\ rlMask' = "none"
      /\ ~rlEmitting' /\ rlBody' = "idle" /\ rlStage' = "fault" /\ rlHealthy' \subseteq {"bus", "mailbox"}
  BY <1>1 DEF RlBeginFails, RlSequenceFailed, RlBootFailed, RlFailed
<1>3. UNCHANGED <<rlBt, rlBtSees, rlFw, rlBody, rlRfk, rlHw, rlIo, rlRun, rlPlan>>
  BY DEF RlBeginFails, RlSequenceFailed
<1>4. RlOwned'
  <2>1. CASE rlStage = "grant"
    <3>1. rlPublished' = rlPublished /\ rlPublished /\ rlBtSees /\ rlBt # "run"
      BY <2>1 DEF RlInv, RlLease, RlOwned, RlBeginFails
    <3> QED
      BY <3>1, <1>2, <1>3 DEF RlOwned, RlGranted
  <2>2. CASE rlStage # "grant"
    <3>1. rlGrants' = rlGrants
      BY <2>2 DEF RlBeginFails
    <3>2. rlGrants = "baseline"
      BY <2>2 DEF RlInv, RlLease, RlOwned, RlBeginFails, RlGranted
    <3> QED
      BY <3>1, <3>2, <1>2, <1>3 DEF RlOwned, RlGranted
  <2> QED
    BY <2>1, <2>2
<1>5. RlSeqStage' /\ RlBodies' /\ RlBoots' /\ RlClosed'
  BY <1>2 DEF RlSeqStage, RlBodies, RlBoots, RlClosed, RlInCall
<1>6. RlCommanded' /\ RlPlanned'
  BY <1>2, <1>3
     DEF RlInv, RlLease, RlCommanded, RlPlanned, RlBeginFails, RlPolicy, RlNoCommand
<1>7. RlOpen' /\ RlSequenced' /\ RlPlaced'
  BY <1>1, <1>2, <1>3, RlFailureKeeps DEF RlInv
<1> QED
  BY <1>4, <1>5, <1>6, <1>7 DEF RlInv, RlLease

\* restore() fails: service() will find the bus gone.
LEMMA RlRestoreFailsKeeps ==
  ASSUME RlInv, RlRestoreFails
  PROVE  RlInv'
<1>1. UNCHANGED <<rlBt, rlBtSees, rlHeld, rlFw, rlCommand, rlMask, rlBody, rlEmitting, rlBoot, rlSeq, rlRun,
                  rlFlags, rlRfk, rlTarget, rlHw, rlAction, rlPhase, rlPlan, rlStation>>
  BY DEF RlRestoreFails
<1>2. rlSeq = "restore" /\ rlStage' = "fault" /\ "bus" \notin rlHealthy'
      /\ rlHealthy' \subseteq {"bus", "mailbox"} /\ rlBody = "idle"
  BY DEF RlInv, RlLease, RlSeqStage, RlBoots, RlBodies, RlRestoreFails, RlBegins
<1>3. RlOwned'
  <2>1. CASE rlStage = "restore"
    <3>1. rlPublished' = rlPublished /\ rlPublished /\ rlBtSees /\ rlBt # "run"
      BY <2>1 DEF RlInv, RlLease, RlOwned, RlGranted, RlRestoreFails
    <3> QED
      BY <3>1, <1>1, <1>2 DEF RlOwned, RlGranted
  <2>2. CASE rlStage # "restore"
    <3>1. rlGrants' = rlGrants
      BY <2>2 DEF RlRestoreFails
    <3>2. rlGrants = "baseline"
      BY <2>2 DEF RlInv, RlLease, RlOwned, RlRestoreFails, RlGranted
    <3> QED
      BY <3>1, <3>2, <1>1, <1>2 DEF RlOwned, RlGranted
  <2> QED
    BY <2>1, <2>2
<1>4. RlSeqStage' /\ RlBodies' /\ RlBoots' /\ RlClosed'
  BY <1>1, <1>2 DEF RlInv, RlLease, RlSeqStage, RlBodies, RlBoots, RlClosed, RlBusy, RlInCall
<1>5. RlCommanded' /\ RlPlanned'
  BY <1>1, <1>2 DEF RlInv, RlLease, RlCommanded, RlPlanned
<1>6. RlOpen' /\ RlSequenced' /\ RlPlaced'
  BY <1>1, <1>2, RlOpenFrame, RlSequencedFrame DEF RlInv, RlPlaced
<1> QED
  BY <1>3, <1>4, <1>5, <1>6 DEF RlInv, RlLease

\* The sequence fails outside begin() and restore(): a lease that is held stays so.
LEMMA RlSequenceFailsKeeps ==
  ASSUME RlInv, NEW body \in {"idle", "unproven"}, RlSequenceFails(body),
         rlStage \notin RlInCall, rlBoot # "configuration",
         body = "unproven" => rlBody = "running" /\ UNCHANGED rlCommand,
         body = "idle" => ~rlEmitting' \/ rlBody = "idle",
         UNCHANGED rlCommand \/ rlCommand' = RlPolicy("baseline"),
         UNCHANGED rlHw \/ rlMask = "none"
  PROVE  RlInv'
<1>1. /\ rlSeq' = "fault" /\ rlBoot' = "failed" /\ "bus" \notin rlHealthy' /\ rlMask' \in {rlMask, "none"}
      /\ (rlEmitting' => rlEmitting) /\ rlBody' = body /\ rlHealthy' \subseteq {"bus", "mailbox"}
  BY DEF RlSequenceFails, RlSequenceFailed, RlBootFailed, RlFailed
<1>2. UNCHANGED <<rlBt, rlBtSees, rlFw, rlGrants, rlRfk, rlRun, rlPlan, rlPublished, rlHeld>>
  BY DEF RlSequenceFails, RlSequenceFailed, RlRetain
<1>3. rlStage' = IF rlHeld THEN "fault" ELSE rlStage
  BY DEF RlSequenceFails, RlRetain
<1>4. RlOwned'
  BY <1>2, <1>3 DEF RlInv, RlLease, RlOwned, RlGranted
<1>5. RlSeqStage'
  BY <1>1, <1>3 DEF RlInv, RlLease, RlSeqStage, RlOwned, RlInCall, RlBegins, RlEnds, RlGranted
<1>6. RlBodies' /\ RlBoots' /\ RlClosed'
  BY <1>1, <1>2, <1>5
     DEF RlInv, RlLease, RlSeqStage, RlBodies, RlBoots, RlClosed, RlBusy, RlInCall
<1>7. RlCommanded' /\ RlPlanned'
  BY <1>1, <1>2, <1>5
     DEF RlInv, RlLease, RlCommanded, RlPlanned, RlPolicy, RlNoCommand, RlSeqStage
<1>8. RlOpen'
  BY <1>1, <1>2 DEF RlInv, RlOpen, RlFull
<1>9. RlSequenced' /\ RlPlaced'
  BY <1>1, <1>2, RlSequencedFails DEF RlInv, RlPlaced
<1> QED
  BY <1>4, <1>5, <1>6, <1>7, <1>8, <1>9 DEF RlInv, RlLease

\* A calibration fails, known to have ended or not.
LEMMA RlRunFailsKeeps ==
  ASSUME RlInv, RlRunFails
  PROVE  RlInv'
<1>1. /\ rlBody = "running" /\ rlSeq = "run" /\ rlStage \notin RlInCall /\ rlBoot # "configuration"
      /\ rlMask = "none"
  BY DEF RlInv, RlLease, RlBodies, RlSeqStage, RlBoots, RlRunFails, RlInCall, RlClosed
<1>2. CASE RlSequenceFails("unproven") /\ UNCHANGED rlCommand
  BY <1>1, <1>2, RlSequenceFailsKeeps
<1>3. CASE RlSequenceFails("idle") /\ ~rlEmitting' /\ rlCommand' \in {rlCommand, RlPolicy("baseline")}
  BY <1>1, <1>3, RlSequenceFailsKeeps
<1> QED
  BY <1>2, <1>3 DEF RlRunFails

\* service() finds the bus gone, or the sequence fails by itself.
LEMMA RlServiceFailsKeeps ==
  ASSUME RlInv, RlServiceFails
  PROVE  RlInv'
<1>1. CASE "bus" \in rlHealthy /\ RlSequenceFails(rlBody) /\ UNCHANGED <<rlHw, rlCommand>>
  <2>1. rlStage \notin RlInCall /\ rlBoot # "configuration" /\ rlBody = "idle"
    BY <1>1 DEF RlInv, RlLease, RlBodies, RlBoots, RlServiceFails, RlGateFree
  <2> QED
    BY <1>1, <2>1, RlSequenceFailsKeeps
<1>2. CASE /\ "bus" \notin rlHealthy /\ RlBootFailed
           /\ UNCHANGED <<leaseVars, rlSeq, rlRun, rlFlags, rlRfk, rlTarget, rlHw, rlPhase, rlPlan, rlDone, rlIo,
                          rlHealthy, rlClosure, rlStation>>
  <2>1. UNCHANGED <<rlBt, rlBtSees, rlPublished, rlStage, rlHeld, rlGrants, rlFw, rlCommand, rlMask, rlBody,
                    rlEmitting, rlSeq, rlRun, rlFlags, rlRfk, rlTarget, rlHw, rlPlan, rlHealthy>>
    BY <1>2 DEF leaseVars
  <2>2. rlBoot' = "failed" /\ rlStage \notin RlInCall /\ rlBoot \in {"radio", "ready"}
    BY <1>2 DEF RlBootFailed, RlServiceFails, RlGateFree
  <2>3. RlOwned' /\ RlSeqStage'
    BY <2>1 DEF RlInv, RlLease, RlOwned, RlSeqStage
  <2>4. RlBodies' /\ RlBoots' /\ RlClosed'
    BY <1>2, <2>1, <2>2 DEF RlInv, RlLease, RlBodies, RlBoots, RlClosed, RlBusy
  <2>5. RlCommanded' /\ RlPlanned'
    BY <2>1 DEF RlInv, RlLease, RlCommanded, RlPlanned
  <2>6. RlOpen' /\ RlSequenced' /\ RlPlaced'
    BY <1>2, <2>1, RlOpenFrame, RlSequencedFrame DEF RlInv, RlPlaced
  <2> QED
    BY <2>3, <2>4, <2>5, <2>6 DEF RlInv, RlLease
<1> QED
  BY <1>1, <1>2 DEF RlServiceFails

\* An action that fails: the boot service alone.
LEMMA RlActionFailsKeeps ==
  ASSUME RlInv, RlActionFails
  PROVE  RlInv'
<1>1. UNCHANGED <<rlBt, rlBtSees, rlPublished, rlStage, rlHeld, rlGrants, rlFw, rlCommand, rlMask, rlBody,
                  rlEmitting, rlSeq, rlRun, rlFlags, rlRfk, rlTarget, rlHw, rlPlan>>
  BY DEF leaseVars, RlActionFails
<1>2. /\ rlBoot' = "failed" /\ rlStage \notin RlInCall /\ rlBoot = "ready"
      /\ rlHealthy' = rlHealthy \ {"bus"}
  BY DEF RlBootFailed, RlActionFails, RlService, RlGateFree
<1>3. RlOwned' /\ RlSeqStage'
  BY <1>1 DEF RlInv, RlLease, RlOwned, RlSeqStage
<1>4. RlBodies' /\ RlBoots' /\ RlClosed'
  BY <1>1, <1>2 DEF RlInv, RlLease, RlBodies, RlBoots, RlClosed, RlBusy
<1>5. RlCommanded' /\ RlPlanned'
  BY <1>1, <1>2 DEF RlInv, RlLease, RlCommanded, RlPlanned
<1>6. RlOpen' /\ RlSequenced' /\ RlPlaced'
  BY <1>1, <1>2, RlOpenFrame, RlSequencedFrame DEF RlInv, RlPlaced
<1> QED
  BY <1>3, <1>4, <1>5, <1>6 DEF RlInv, RlLease

\* stop(): it counts as one only with everything known to be closed.
LEMMA RlStopKeeps ==
  ASSUME RlInv, RlStop
  PROVE  RlInv'
<1>1. UNCHANGED <<rlBt, rlBtSees, rlPublished, rlHeld, rlGrants, rlFw, rlCommand, rlBody, rlRun, rlRfk, rlHw, rlPlan>>
  BY DEF RlStop, RlRetain
<1>2. /\ rlStage' = IF rlHeld THEN "fault" ELSE rlStage
      /\ rlSeq' = "stopped" /\ rlStage \notin RlInCall /\ rlBody # "running" /\ rlBoot # "stopped"
  BY DEF RlStop, RlRetain, RlGateFree
<1>3. /\ rlMask' \in {rlMask, "none"} /\ (rlEmitting' => rlEmitting)
      /\ "bus" \notin rlHealthy' /\ rlHealthy' \subseteq {"bus", "mailbox"}
      /\ rlBoot' = "stopped" =>
           rlBoot = "configuration" \/ (rlMask' = "none" /\ rlBody = "idle")
      /\ rlBoot' \in {rlBoot, "stopped"} /\ rlBoot' # "configuration"
  BY <1>2 DEF RlStop, RlFailed
<1>4. RlOwned'
  BY <1>1, <1>2 DEF RlInv, RlLease, RlOwned, RlGranted
<1>5. RlSeqStage'
  BY <1>2 DEF RlInv, RlLease, RlSeqStage, RlOwned, RlInCall, RlBegins, RlEnds, RlGranted
<1>6. RlBodies' /\ RlBoots' /\ RlClosed'
  BY <1>1, <1>2, <1>3, <1>5
     DEF RlInv, RlLease, RlSeqStage, RlBodies, RlBoots, RlClosed, RlBusy, RlInCall
<1>7. RlCommanded' /\ RlPlanned'
  BY <1>1, <1>2, <1>3, <1>5
     DEF RlInv, RlLease, RlCommanded, RlPlanned, RlSeqStage
<1>8. RlOpen' /\ RlSequenced' /\ RlPlaced'
  BY <1>1, <1>2, <1>3, RlOpenFrame, RlSequencedFails DEF RlInv, RlPlaced
<1> QED
  BY <1>4, <1>5, <1>6, <1>7, <1>8 DEF RlInv, RlLease

----------------------------------------------------------------------------
(* The sequence.                                                           *)

\* Nothing of the lease moves.
LEMMA RlLeaseFrame ==
  ASSUME RlLease, UNCHANGED <<leaseVars, rlBoot, rlSeq, rlPlan, rlHealthy>>
  PROVE  RlLease'
<1>1. UNCHANGED <<rlBt, rlBtSees, rlPublished, rlStage, rlHeld, rlGrants, rlFw, rlCommand, rlMask, rlBody,
                  rlEmitting, rlBoot, rlSeq, rlPlan, rlHealthy>>
  BY DEF leaseVars
<1>2. RlOwned' /\ RlSeqStage'
  BY <1>1 DEF RlLease, RlOwned, RlSeqStage
<1>3. RlBodies' /\ RlBoots' /\ RlClosed'
  BY <1>1 DEF RlLease, RlBodies, RlBoots, RlClosed, RlBusy
<1>4. RlCommanded' /\ RlPlanned'
  BY <1>1 DEF RlLease, RlCommanded, RlPlanned
<1> QED
  BY <1>2, <1>3, <1>4 DEF RlLease

\* The sequence begins with the scheduler closed.
LEMMA RlBeginRadioKeeps ==
  ASSUME RlInv, RlBeginRadio
  PROVE  RlInv'
<1>1. UNCHANGED <<rlBt, rlBtSees, rlPublished, rlStage, rlHeld, rlGrants, rlFw, rlCommand, rlBody, rlEmitting,
                  rlRun, rlFlags, rlRfk, rlTarget, rlHw, rlAction, rlPhase, rlPlan, rlHealthy, rlStation>>
  BY DEF RlBeginRadio
<1>2. /\ rlBoot = "configuration" /\ rlSeq = "idle" /\ rlBoot' = "radio" /\ rlSeq' = "upload"
      /\ rlMask' = "none"
  BY DEF RlBeginRadio
<1>3. RlOwned' /\ RlSeqStage'
  BY <1>1, <1>2 DEF RlInv, RlLease, RlOwned, RlSeqStage
<1>4. RlBodies' /\ RlBoots' /\ RlClosed'
  BY <1>1, <1>2 DEF RlInv, RlLease, RlBodies, RlBoots, RlClosed, RlBusy
<1>5. RlCommanded' /\ RlPlanned'
  BY <1>1 DEF RlInv, RlLease, RlCommanded, RlPlanned
<1>6. RlOpen'
  BY <1>2 DEF RlOpen
<1>7. RlSequenced'
  BY <1>1, <1>2 DEF RlInv, RlSequenced
<1>8. RlPlaced'
  BY <1>1, <1>2 DEF RlInv, RlPlaced, RlActing, RlHomed
<1> QED
  BY <1>3, <1>4, <1>5, <1>6, <1>7, <1>8 DEF RlInv, RlLease

\* The tables are uploaded.
LEMMA RlUploadKeeps ==
  ASSUME RlInv, RlUpload
  PROVE  RlInv'
<1>1. UNCHANGED <<rlBt, rlBtSees, rlPublished, rlStage, rlHeld, rlGrants, rlFw, rlCommand, rlBody, rlEmitting,
                  rlMask, rlBoot, rlRun, rlFlags, rlRfk, rlTarget, rlHw, rlAction, rlPhase, rlPlan, rlHealthy,
                  rlStation>>
  BY DEF RlUpload, leaseVars
<1>2. rlSeq = "upload" /\ rlSeq' = "btInitialization"
  BY DEF RlUpload
<1>3. RlOwned' /\ RlSeqStage'
  BY <1>1, <1>2 DEF RlInv, RlLease, RlOwned, RlSeqStage
<1>4. RlBodies' /\ RlBoots' /\ RlClosed'
  BY <1>1, <1>2 DEF RlInv, RlLease, RlBodies, RlBoots, RlClosed, RlBusy
<1>5. RlCommanded' /\ RlPlanned'
  BY <1>1 DEF RlInv, RlLease, RlCommanded, RlPlanned
<1>6. RlOpen'
  BY <1>1, RlOpenFrame DEF RlInv
<1>7. RlSequenced'
  BY <1>1, <1>2 DEF RlInv, RlSequenced
<1>8. RlPlaced'
  BY <1>1, <1>2 DEF RlInv, RlLease, RlBoots, RlPlaced, RlActing, RlHomed
<1> QED
  BY <1>3, <1>4, <1>5, <1>6, <1>7, <1>8 DEF RlInv, RlLease

\* A lease is asked for when the former one has been given back.
LEMMA RlRequestLeaseKeeps ==
  ASSUME RlLease, NEW action, NEW index, RlRequestLease(action, index), rlMask' = "none",
         rlBoot \in {"radio", "ready"}, "bus" \in rlHealthy, UNCHANGED <<rlBoot, rlPlan, rlHealthy>>
  PROVE  RlLease'
<1>1. UNCHANGED <<rlBt, rlBtSees, rlPublished, rlHeld, rlGrants, rlFw, rlCommand, rlBody, rlEmitting>>
  BY DEF RlRequestLease
<1>2. /\ rlStage \in {"none", "complete"} /\ rlBody = "idle" /\ rlStage' = "await" /\ rlSeq' = "acquire"
  BY DEF RlRequestLease
<1>3. RlOwned' /\ RlSeqStage'
  BY <1>1, <1>2 DEF RlLease, RlOwned, RlSeqStage, RlGranted, RlBegins
<1>4. RlBodies' /\ RlBoots' /\ RlClosed'
  BY <1>1, <1>2 DEF RlLease, RlBodies, RlBoots, RlClosed
<1>5. RlCommanded' /\ RlPlanned'
  BY <1>1, <1>2 DEF RlLease, RlCommanded, RlPlanned
<1> QED
  BY <1>3, <1>4, <1>5 DEF RlLease

\* The number of calibrations in each action.
LEMMA RlStepCounts ==
  /\ Len(RlSteps["initialize"]) = 3 /\ Len(RlSteps["tune"]) = 5 /\ Len(RlSteps["scanBegin"]) = 1
  /\ Len(RlSteps["scanTune"]) = 2 /\ Len(RlSteps["scanEnd"]) = 1
  BY DEF RlSteps

\* The calibrations of each action, in their order.
LEMMA RlStepNames ==
  /\ RlSteps["initialize"][1] = "rck" /\ RlSteps["initialize"][2] = "dack"
  /\ RlSteps["initialize"][3] = "initialRxDc"
  /\ RlSteps["tune"][1] = "channel" /\ RlSteps["tune"][2] = "rxDc" /\ RlSteps["tune"][3] = "iqk"
  /\ RlSteps["tune"][4] = "tssi" /\ RlSteps["tune"][5] = "dpk"
  /\ RlSteps["scanBegin"][1] = "scanBegin"
  /\ RlSteps["scanTune"][1] = "channel" /\ RlSteps["scanTune"][2] = "scanTune"
  /\ RlSteps["scanEnd"][1] = "scanEnd"
  BY DEF RlSteps

\* Bluetooth is initialised: the first lease.
LEMMA RlBtInitializedKeeps ==
  ASSUME RlInv, RlBtInitialized
  PROVE  RlInv'
<1>1. UNCHANGED <<rlMask, rlBoot, rlFlags, rlRfk, rlTarget, rlHw, rlAction, rlPhase, rlPlan, rlHealthy, rlStation>>
  BY DEF RlBtInitialized
<1>2. /\ rlSeq = "btInitialization" /\ rlSeq' = "acquire" /\ rlMask = "none"
      /\ rlRun' = [action |-> "initialize", index |-> 1]
      /\ rlBoot \in {"radio", "ready"} /\ "bus" \in rlHealthy
  BY DEF RlBtInitialized, RlRequestLease, RlService
<1>3. RlLease'
  BY <1>1, <1>2, RlRequestLeaseKeeps DEF RlInv, RlBtInitialized
<1>4. RlOpen'
  BY <1>1, RlOpenFrame DEF RlInv
<1>5. RlSequenced'
  <2>1. rlFlags = {} /\ rlRfk.ok = {} /\ ~rlRfk.active /\ rlHw = rlTarget
    BY <1>2 DEF RlInv, RlSequenced
  <2>2. rlRun'.action = "initialize" /\ rlRun'.index = 1
    BY <1>2
  <2>3. RlReached(rlRun.action, rlRun.index - 1)'
    BY <1>1, <2>1, <2>2 DEF RlReached
  <2>4. rlRun'.index \in 1 .. Len(RlSteps[rlRun'.action])
    BY <2>2, RlStepCounts
  <2>5. DOMAIN rlRfk' = {"ok", "rxDc", "iq", "active", "home", "scan", "dpk"}
    BY <1>1 DEF RlInv, RlSequenced
  <2>6. "scanning" \notin rlFlags'
    BY <1>1, <2>1
  <2> QED
    BY <1>2, <2>2, <2>3, <2>4, <2>5, <2>6 DEF RlSequenced
<1>6. RlPlaced'
  BY <1>1, <1>2 DEF RlInv, RlLease, RlBoots, RlPlaced, RlActing, RlHomed
<1> QED
  BY <1>3, <1>4, <1>5, <1>6 DEF RlInv

\* The lease is granted: the calibration may run.
LEMMA RlPollLeaseKeeps ==
  ASSUME RlInv, RlPollLease
  PROVE  RlInv'
<1>1. UNCHANGED <<rlBt, rlBtSees, rlPublished, rlStage, rlHeld, rlGrants, rlFw, rlCommand, rlBody, rlEmitting,
                  rlMask, rlBoot, rlRun, rlFlags, rlRfk, rlTarget, rlHw, rlAction, rlPhase, rlPlan, rlHealthy,
                  rlStation>>
  BY DEF RlPollLease, leaseVars
<1>2. rlSeq = "acquire" /\ rlSeq' = "run" /\ rlStage = "calibrating" /\ rlMask = "none"
  BY DEF RlPollLease
<1>3. RlOwned' /\ RlSeqStage'
  BY <1>1, <1>2 DEF RlInv, RlLease, RlOwned, RlSeqStage
<1>4. RlBodies' /\ RlBoots' /\ RlClosed'
  BY <1>1, <1>2 DEF RlInv, RlLease, RlBodies, RlBoots, RlClosed, RlBusy
<1>5. RlCommanded' /\ RlPlanned'
  BY <1>1 DEF RlInv, RlLease, RlCommanded, RlPlanned
<1>6. RlOpen'
  BY <1>1, RlOpenFrame DEF RlInv
<1>7. RlSequenced'
  BY <1>1, <1>2 DEF RlInv, RlSequenced, RlReached
<1>8. RlPlaced'
  BY <1>1, <1>2 DEF RlInv, RlPlaced, RlActing, RlHomed
<1> QED
  BY <1>3, <1>4, <1>5, <1>6, <1>7, <1>8 DEF RlInv, RlLease

\* A calibration begins: the lease it runs under is granted.
LEMMA RlRunBeginsKeeps ==
  ASSUME RlInv, RlRunBegins
  PROVE  RlInv'
<1>1. UNCHANGED <<rlBt, rlBtSees, rlPublished, rlStage, rlHeld, rlGrants, rlFw, rlCommand, rlMask, rlBoot, rlSeq,
                  rlRun, rlFlags, rlRfk, rlTarget, rlHw, rlAction, rlPhase, rlPlan, rlHealthy, rlStation>>
  BY DEF RlRunBegins, radioVars
<1>2. rlSeq = "run" /\ rlStage = "calibrating" /\ rlMask = "none" /\ rlBody' = "running"
  BY DEF RlRunBegins
<1>3. RlOwned' /\ RlSeqStage'
  BY <1>1 DEF RlInv, RlLease, RlOwned, RlSeqStage
<1>4. RlBodies' /\ RlBoots' /\ RlClosed'
  BY <1>1, <1>2 DEF RlInv, RlLease, RlBodies, RlBoots, RlClosed, RlBusy
<1>5. RlCommanded' /\ RlPlanned'
  BY <1>1, <1>2 DEF RlInv, RlLease, RlCommanded, RlPlanned
<1>6. RlOpen' /\ RlSequenced' /\ RlPlaced'
  BY <1>1, RlOpenFrame, RlSequencedFrame, RlPlacedFrame DEF RlInv
<1> QED
  BY <1>3, <1>4, <1>5, <1>6 DEF RlInv, RlLease

\* The calibration that runs, by the action of the sequence and its place in it.
LEMMA RlPlaces ==
  ASSUME RlSequenced
  PROVE  \/ rlRun.action = "initialize" /\ rlRun.index \in {1, 2, 3}
         \/ rlRun.action = "tune" /\ rlRun.index \in {1, 2, 3, 4, 5}
         \/ rlRun.action = "scanBegin" /\ rlRun.index = 1
         \/ rlRun.action = "scanTune" /\ rlRun.index \in {1, 2}
         \/ rlRun.action = "scanEnd" /\ rlRun.index = 1
<1>1. rlRun.index \in 1 .. Len(RlSteps[rlRun.action])
  BY DEF RlSequenced
<1>2. CASE rlRun.action = "initialize"
  BY <1>1, <1>2, RlStepCounts
<1>3. CASE rlRun.action = "tune"
  BY <1>1, <1>3, RlStepCounts
<1>4. CASE rlRun.action = "scanBegin"
  BY <1>1, <1>4, RlStepCounts
<1>5. CASE rlRun.action = "scanTune"
  BY <1>1, <1>5, RlStepCounts
<1>6. CASE rlRun.action = "scanEnd"
  BY <1>1, <1>6, RlStepCounts
<1> QED
  BY <1>2, <1>3, <1>4, <1>5, <1>6 DEF RlSequenced

\* What each calibration leaves in rfk::Result.
RlAfter(step, r) ==
  /\ step \in {"rck", "dack"} =>
       /\ DOMAIN r = DOMAIN rlRfk /\ r.ok = rlRfk.ok \cup {step}
       /\ r.active = rlRfk.active /\ r.home = rlRfk.home
  /\ step = "initialRxDc" =>
       /\ DOMAIN r = DOMAIN rlRfk /\ r.ok = rlRfk.ok \cup {"rxDc"}
       /\ r.active = rlRfk.active /\ r.home = rlRfk.home
  /\ step = "channel" => r = rlRfk
  /\ step = "rxDc" =>
       /\ DOMAIN r = DOMAIN rlRfk /\ r.ok = (rlRfk.ok \ RlTx) \cup {"rxDc", "prepared"}
       /\ r.active = rlRfk.active /\ r.home = rlRfk.home /\ r.rxDc = rlTarget
  /\ step = "iqk" =>
       /\ DOMAIN r = DOMAIN rlRfk /\ r.ok = (rlRfk.ok \ {"prepared"}) \cup {"iq"}
       /\ r.active = rlRfk.active /\ r.home = rlRfk.home /\ r.iq = rlTarget
  /\ step \in {"tssi", "dpk"} =>
       /\ DOMAIN r = DOMAIN rlRfk /\ r.ok = rlRfk.ok \cup {step}
       /\ r.active = rlRfk.active /\ r.home = rlRfk.home /\ r.iq = rlRfk.iq
  /\ step = "scanBegin" =>
       /\ DOMAIN r = DOMAIN rlRfk /\ r.ok = (rlRfk.ok \ RlTx) \cup {"scan"}
       /\ r.active = TRUE /\ r.home = rlRfk.iq /\ r.scan = rlRfk.iq
  /\ step = "scanTune" =>
       /\ DOMAIN r = DOMAIN rlRfk /\ r.ok = rlRfk.ok \cup {"scan"}
       /\ r.active = rlRfk.active /\ r.home = rlRfk.home /\ r.scan = rlTarget
  /\ step = "scanEnd" =>
       /\ DOMAIN r = DOMAIN rlRfk /\ rlRfk.ok \ {"scan"} \subseteq r.ok
       /\ r.active = FALSE /\ r.home = rlRfk.home /\ r.iq = rlTarget

\* The calibrations leave that.
LEMMA RlCalibratedFields ==
  ASSUME DOMAIN rlRfk = {"ok", "rxDc", "iq", "active", "home", "scan", "dpk"}, NEW step
  PROVE  RlAfter(step, RlCalibrated(step))
<1>1. CASE step \in {"rck", "dack"}
  BY <1>1 DEF RlCalibrated, RlAfter
<1>2. CASE step = "initialRxDc"
  BY <1>2 DEF RlCalibrated, RlAfter
<1>3. CASE step = "channel"
  BY <1>3 DEF RlCalibrated, RlAfter
<1>4. CASE step = "rxDc"
  BY <1>4 DEF RlCalibrated, RlAfter
<1>5. CASE step = "iqk"
  BY <1>5 DEF RlCalibrated, RlAfter
<1>6. CASE step \in {"tssi", "dpk"}
  BY <1>6 DEF RlCalibrated, RlAfter
<1>7. CASE step = "scanBegin"
  BY <1>7 DEF RlCalibrated, RlAfter
<1>8. CASE step = "scanTune"
  BY <1>8 DEF RlCalibrated, RlAfter
<1>9. CASE step = "scanEnd"
  BY <1>9 DEF RlCalibrated, RlAfter
<1> QED
  BY <1>1, <1>2, <1>3, <1>4, <1>5, <1>6, <1>7, <1>8, <1>9 DEF RlAfter

\* A calibration that ends takes its action one place further.
LEMMA RlAdvances ==
  ASSUME RlSequenced, rlSeq = "run", rlRfk' = RlCalibrated(RlCurrent),
         rlHw' = IF RlCurrent = "channel" THEN rlTarget ELSE rlHw, UNCHANGED <<rlRun, rlTarget>>
  PROVE  /\ RlReached(rlRun.action, rlRun.index)'
         /\ DOMAIN rlRfk' = {"ok", "rxDc", "iq", "active", "home", "scan", "dpk"}
         /\ rlRun.action # "scanBegin" => rlRfk'.home = rlRfk.home
<1>1. DOMAIN rlRfk = {"ok", "rxDc", "iq", "active", "home", "scan", "dpk"}
  BY DEF RlSequenced
<1>2. RlReached(rlRun.action, rlRun.index - 1)
  BY DEF RlSequenced
<1> DEFINE step == RlSteps[rlRun.action][rlRun.index]
<1>3. RlCurrent = step
  BY DEF RlCurrent
<1>4. rlRfk' = RlCalibrated(step) /\ rlHw' = IF step = "channel" THEN rlTarget ELSE rlHw
  BY <1>3
<1>10. RlAfter(step, rlRfk')
  <2> HIDE DEF step
  <2> QED
    BY <1>1, <1>4, RlCalibratedFields
<1> HIDE DEF step
<1>5. CASE rlRun.action = "initialize"
  <2>1. CASE rlRun.index = 1
    <3>1. step = "rck"
      BY <1>5, <2>1, RlStepNames DEF step
    <3>2. ~rlRfk.active /\ rlHw = rlTarget
      BY <1>2, <1>5 DEF RlReached
    <3>3. DOMAIN rlRfk' = DOMAIN rlRfk /\ rlRfk'.ok = rlRfk.ok \cup {"rck"} /\ ~rlRfk'.active
          /\ rlRfk'.home = rlRfk.home
      BY <1>1, <1>4, <3>1, <3>2, <1>10 DEF RlAfter
    <3> QED
      BY <1>1, <1>4, <1>5, <2>1, <3>1, <3>2, <3>3 DEF RlReached
  <2>2. CASE rlRun.index = 2
    <3>1. step = "dack"
      BY <1>5, <2>2, RlStepNames DEF step
    <3>2. ~rlRfk.active /\ rlHw = rlTarget /\ "rck" \in rlRfk.ok
      BY <1>2, <1>5, <2>2 DEF RlReached
    <3>3. DOMAIN rlRfk' = DOMAIN rlRfk /\ rlRfk'.ok = rlRfk.ok \cup {"dack"} /\ ~rlRfk'.active
          /\ rlRfk'.home = rlRfk.home
      BY <1>1, <1>4, <3>1, <3>2, <1>10 DEF RlAfter
    <3> QED
      BY <1>1, <1>4, <1>5, <2>2, <3>1, <3>2, <3>3 DEF RlReached
  <2>3. CASE rlRun.index = 3
    <3>1. step = "initialRxDc"
      BY <1>5, <2>3, RlStepNames DEF step
    <3>2. ~rlRfk.active /\ rlHw = rlTarget /\ "rck" \in rlRfk.ok /\ "dack" \in rlRfk.ok
      BY <1>2, <1>5, <2>3 DEF RlReached
    <3>3. DOMAIN rlRfk' = DOMAIN rlRfk /\ rlRfk'.ok = rlRfk.ok \cup {"rxDc"} /\ ~rlRfk'.active
          /\ rlRfk'.home = rlRfk.home
      BY <1>1, <1>4, <3>1, <3>2, <1>10 DEF RlAfter
    <3> QED
      BY <1>1, <1>4, <1>5, <2>3, <3>1, <3>2, <3>3 DEF RlReached
  <2> QED
    BY <1>5, <2>1, <2>2, <2>3, RlPlaces
<1>6. CASE rlRun.action = "tune"
  <2>0. "rxDc" \in rlRfk.ok /\ ~rlRfk.active
    BY <1>2, <1>6 DEF RlReached
  <2>1. CASE rlRun.index = 1
    <3>1. step = "channel"
      BY <1>6, <2>1, RlStepNames DEF step
    <3>3. rlRfk' = rlRfk /\ rlHw' = rlTarget
      BY <1>1, <1>4, <3>1, <1>10 DEF RlAfter
    <3> QED
      BY <1>1, <1>6, <2>0, <2>1, <3>3 DEF RlReached
  <2>2. CASE rlRun.index = 2
    <3>1. step = "rxDc"
      BY <1>6, <2>2, RlStepNames DEF step
    <3>2. rlHw = rlTarget
      BY <1>2, <1>6, <2>2 DEF RlReached
    <3>3. DOMAIN rlRfk' = DOMAIN rlRfk /\ rlRfk'.ok = (rlRfk.ok \ RlTx) \cup {"rxDc", "prepared"}
          /\ ~rlRfk'.active /\ rlRfk'.home = rlRfk.home /\ rlRfk'.rxDc = rlTarget
      BY <1>1, <1>4, <2>0, <3>1, <1>10 DEF RlAfter
    <3> QED
      BY <1>1, <1>4, <1>6, <2>2, <3>1, <3>2, <3>3 DEF RlReached
  <2>3. CASE rlRun.index = 3
    <3>1. step = "iqk"
      BY <1>6, <2>3, RlStepNames DEF step
    <3>2. rlHw = rlTarget
      BY <1>2, <1>6, <2>3 DEF RlReached
    <3>3. DOMAIN rlRfk' = DOMAIN rlRfk /\ rlRfk'.ok = (rlRfk.ok \ {"prepared"}) \cup {"iq"}
          /\ ~rlRfk'.active /\ rlRfk'.home = rlRfk.home /\ rlRfk'.iq = rlTarget
      BY <1>1, <1>4, <2>0, <3>1, <1>10 DEF RlAfter
    <3> QED
      BY <1>1, <1>4, <1>6, <2>0, <2>3, <3>1, <3>2, <3>3 DEF RlReached
  <2>4. CASE rlRun.index \in {4, 5}
    <3>1. step \in {"tssi", "dpk"} /\ (rlRun.index = 4 => step = "tssi")
      BY <1>6, <2>4, RlStepNames DEF step
    <3>2. /\ rlHw = rlTarget /\ "iq" \in rlRfk.ok /\ rlRfk.iq = rlTarget
          /\ rlRun.index = 5 => "tssi" \in rlRfk.ok
      BY <1>2, <1>6, <2>4 DEF RlReached
    <3>3. DOMAIN rlRfk' = DOMAIN rlRfk /\ rlRfk'.ok = rlRfk.ok \cup {step}
          /\ ~rlRfk'.active /\ rlRfk'.home = rlRfk.home /\ rlRfk'.iq = rlRfk.iq
      BY <1>1, <1>4, <2>0, <3>1, <1>10 DEF RlAfter
    <3> QED
      BY <1>1, <1>4, <1>6, <2>0, <2>4, <3>1, <3>2, <3>3 DEF RlReached
  <2> QED
    BY <1>6, <2>1, <2>2, <2>3, <2>4, RlPlaces
<1>7. CASE rlRun.action = "scanBegin"
  <2>1. rlRun.index = 1
    BY <1>7, RlPlaces
  <2>2. step = "scanBegin"
    BY <1>7, <2>1, RlStepNames DEF step
  <2>3. "rxDc" \in rlRfk.ok /\ rlHw = rlTarget /\ rlRfk.iq = rlTarget
    BY <1>2, <1>7, <2>1 DEF RlReached
  <2>4. DOMAIN rlRfk' = DOMAIN rlRfk /\ rlRfk'.ok = (rlRfk.ok \ RlTx) \cup {"scan"}
        /\ rlRfk'.active /\ rlRfk'.home = rlTarget /\ rlRfk'.scan = rlTarget
    BY <1>1, <1>4, <2>2, <2>3, <1>10 DEF RlAfter
  <2>5. "rxDc" \in rlRfk'.ok
    BY <2>3, <2>4 DEF RlTx
  <2> QED
    BY <1>1, <1>4, <1>7, <2>1, <2>2, <2>3, <2>4, <2>5 DEF RlReached
<1>8. CASE rlRun.action = "scanTune"
  <2>0. "rxDc" \in rlRfk.ok /\ rlRfk.active
    BY <1>2, <1>8 DEF RlReached
  <2>1. CASE rlRun.index = 1
    <3>1. step = "channel"
      BY <1>8, <2>1, RlStepNames DEF step
    <3>3. rlRfk' = rlRfk /\ rlHw' = rlTarget
      BY <1>1, <1>4, <3>1, <1>10 DEF RlAfter
    <3> QED
      BY <1>1, <1>8, <2>0, <2>1, <3>3 DEF RlReached
  <2>2. CASE rlRun.index = 2
    <3>1. step = "scanTune"
      BY <1>8, <2>2, RlStepNames DEF step
    <3>2. rlHw = rlTarget
      BY <1>2, <1>8, <2>2 DEF RlReached
    <3>3. DOMAIN rlRfk' = DOMAIN rlRfk /\ rlRfk'.ok = rlRfk.ok \cup {"scan"}
          /\ rlRfk'.active /\ rlRfk'.home = rlRfk.home /\ rlRfk'.scan = rlTarget
      BY <1>1, <1>4, <2>0, <3>1, <1>10 DEF RlAfter
    <3> QED
      BY <1>1, <1>4, <1>8, <2>0, <2>2, <3>1, <3>2, <3>3 DEF RlReached
  <2> QED
    BY <1>8, <2>1, <2>2, RlPlaces
<1>9. CASE rlRun.action = "scanEnd"
  <2>1. rlRun.index = 1
    BY <1>9, RlPlaces
  <2>2. step = "scanEnd"
    BY <1>9, <2>1, RlStepNames DEF step
  <2>3. "rxDc" \in rlRfk.ok /\ rlHw = rlTarget
    BY <1>2, <1>9, <2>1 DEF RlReached
  <2>4. DOMAIN rlRfk' = DOMAIN rlRfk /\ rlRfk.ok \ {"scan"} \subseteq rlRfk'.ok
        /\ ~rlRfk'.active /\ rlRfk'.home = rlRfk.home /\ rlRfk'.iq = rlTarget
    BY <1>1, <1>4, <2>2, <1>10 DEF RlAfter
  <2>5. "rxDc" \in rlRfk'.ok
    BY <2>3, <2>4
  <2> QED
    BY <1>1, <1>4, <1>9, <2>1, <2>2, <2>3, <2>4, <2>5 DEF RlReached
<1> QED
  BY <1>5, <1>6, <1>7, <1>8, <1>9 DEF RlSequenced

\* A calibration ends, and the lease is to be given back.
LEMMA RlRunEndsKeeps ==
  ASSUME RlInv, RlRunEnds
  PROVE  RlInv'
<1>1. UNCHANGED <<rlBt, rlBtSees, rlPublished, rlHeld, rlGrants, rlFw, rlMask, rlBoot, rlRun, rlFlags, rlTarget,
                  rlAction, rlPhase, rlPlan, rlHealthy, rlStation>>
  BY DEF RlRunEnds
<1>2. /\ rlBody = "running" /\ rlBody' = "idle" /\ ~rlEmitting' /\ rlStage' = "waitingStopAck"
      /\ rlCommand' = RlPolicy("baseline") /\ rlSeq' = "restore"
  BY DEF RlRunEnds
<1>3. rlSeq = "run" /\ rlStage = "calibrating" /\ rlMask = "none"
  BY <1>2 DEF RlInv, RlLease, RlBodies, RlSeqStage, RlClosed
<1>4. RlOwned' /\ RlSeqStage'
  BY <1>1, <1>2, <1>3 DEF RlInv, RlLease, RlOwned, RlSeqStage, RlGranted
<1>5. RlBodies' /\ RlBoots' /\ RlClosed'
  BY <1>1, <1>2, <1>3 DEF RlInv, RlLease, RlBodies, RlBoots, RlClosed, RlBusy, RlInCall
<1>6. RlCommanded' /\ RlPlanned'
  BY <1>1, <1>2 DEF RlInv, RlLease, RlCommanded, RlPlanned, RlPolicy
<1>7. RlOpen'
  BY <1>1, <1>3 DEF RlOpen
<1>8. /\ RlReached(rlRun.action, rlRun.index)'
      /\ DOMAIN rlRfk' = {"ok", "rxDc", "iq", "active", "home", "scan", "dpk"}
      /\ rlRun.action # "scanBegin" => rlRfk'.home = rlRfk.home
  BY <1>1, <1>3, RlAdvances DEF RlInv, RlRunEnds
<1>9. RlSequenced'
  BY <1>1, <1>2, <1>3, <1>8 DEF RlInv, RlSequenced
<1>10. RlPlaced'
  <2>1. SUFFICES ASSUME "bus" \in rlHealthy PROVE RlActing' /\ RlHomed'
    BY <1>1 DEF RlPlaced
  <2>2. RlActing /\ RlHomed
    BY <2>1 DEF RlInv, RlPlaced
  <2>3. RlActing'
    BY <1>1, <1>2, <1>3, <2>2 DEF RlActing
  <2>4. rlBoot \in {"radio", "ready"}
    BY <1>3, <2>1 DEF RlInv, RlLease, RlBoots
  <2>5. rlStation.state \in {"scan", "restored"} => rlRfk'.home = rlRfk.home
    <3>1. SUFFICES ASSUME rlRun.action = "scanBegin" PROVE rlStation.state \notin {"scan", "restored"}
      BY <1>8
    <3>2. CASE rlBoot = "radio"
      BY <2>2, <3>2 DEF RlActing
    <3>3. CASE rlBoot = "ready"
      <4>1. <<rlAction.action, rlPhase, rlRun.action>> \in RlLaunches
        BY <1>3, <2>2, <3>3 DEF RlActing
      <4>2. rlAction.action = "scanBegin"
        BY <3>1, <4>1 DEF RlLaunches
      <4>3. <<rlAction.action, rlStation.state>> \in RlAsked
        BY <2>2, <4>2 DEF RlActing
      <4> QED
        BY <4>2, <4>3 DEF RlAsked
    <3> QED
      BY <2>4, <3>2, <3>3
  <2>6. RlHomed'
    BY <1>1, <2>2, <2>5 DEF RlHomed
  <2> QED
    BY <2>3, <2>6
<1> QED
  BY <1>4, <1>5, <1>6, <1>7, <1>9, <1>10 DEF RlInv, RlLease

\* The lease is given back: the next calibration, or the end of the action.
LEMMA RlPollRestoreKeeps ==
  ASSUME RlInv, RlPollRestore
  PROVE  RlInv'
<1>1. UNCHANGED <<rlMask, rlRfk, rlTarget, rlHw, rlAction, rlPhase, rlPlan, rlHealthy, rlStation>>
  BY DEF RlPollRestore
<1>2. /\ rlSeq = "restore" /\ rlStage = "complete" /\ rlBoot \in {"radio", "ready"} /\ "bus" \in rlHealthy
      /\ rlMask = "none"
  BY DEF RlPollRestore, RlService, RlInv, RlLease, RlClosed, RlBusy
<1>3. RlOpen'
  BY <1>1, RlOpenFrame DEF RlInv
<1>4. RlActing /\ RlHomed
  BY <1>2 DEF RlInv, RlPlaced
<1>5. CASE /\ rlRun.index < Len(RlSteps[rlRun.action]) /\ RlRequestLease(rlRun.action, rlRun.index + 1)
           /\ UNCHANGED <<rlFlags, rlBoot>>
  <2>1. RlLease'
    BY <1>1, <1>2, <1>5, RlRequestLeaseKeeps DEF RlInv
  <2>2. rlSeq' = "acquire" /\ rlRun'.action = rlRun.action /\ rlRun'.index = rlRun.index + 1
    BY <1>5 DEF RlRequestLease
  <2>3. rlRun.index \in Nat /\ rlRun'.index - 1 = rlRun.index /\ rlRun'.index \in 1 .. Len(RlSteps[rlRun'.action])
    BY <1>5, <2>2, RlPlaces, RlStepCounts DEF RlInv
  <2>4. RlReached(rlRun.action, rlRun.index)
    BY <1>2 DEF RlInv, RlSequenced
  <2>5. RlReached(rlRun.action, rlRun.index - 1)'
    BY <1>1, <2>2, <2>3, <2>4 DEF RlReached
  <2>6. RlSequenced'
    BY <1>1, <1>2, <1>5, <2>2, <2>3, <2>5 DEF RlInv, RlSequenced
  <2>7. RlActing' /\ RlHomed'
    BY <1>1, <1>2, <1>4, <1>5, <2>2 DEF RlActing, RlHomed
  <2> QED
    BY <1>3, <2>1, <2>6, <2>7 DEF RlInv, RlPlaced
<1>6. CASE /\ rlRun.index = Len(RlSteps[rlRun.action]) /\ RlOperationFinished
           /\ rlSeq' = "ready" /\ rlFlags' = RlFlagsAfter(rlRun.action) /\ rlBoot' = "ready"
           /\ UNCHANGED <<rlRun, rlBt, rlBtSees, rlPublished, rlStage, rlHeld, rlGrants, rlFw, rlCommand, rlBody,
                          rlEmitting>>
  <2>1. RlOwned' /\ RlSeqStage'
    BY <1>2, <1>6 DEF RlInv, RlLease, RlOwned, RlSeqStage
  <2>2. RlBodies' /\ RlBoots' /\ RlClosed'
    BY <1>1, <1>2, <1>6 DEF RlInv, RlLease, RlBodies, RlBoots, RlClosed, RlBusy
  <2>3. RlCommanded' /\ RlPlanned'
    BY <1>1, <1>6 DEF RlInv, RlLease, RlCommanded, RlPlanned
  <2>4. RlReached(rlRun.action, rlRun.index)
    BY <1>2 DEF RlInv, RlSequenced
  <2>5. RlReached(rlRun.action, rlRun.index)'
    BY <1>1, <1>6, <2>4 DEF RlReached
  <2>6. "scanning" \in rlFlags <=> rlRun.action \in {"scanTune", "scanEnd"}
    BY <1>2 DEF RlInv, RlSequenced
  <2>7. "scanning" \in rlFlags' <=> rlRun.action \in {"scanBegin", "scanTune"}
    BY <1>6, <2>6 DEF RlFlagsAfter, RlInv, RlSequenced
  <2>8. "full" \in rlFlags' => rlRun.action \in {"tune", "scanEnd"} /\ RlTx \subseteq rlRfk.ok
    <3>1. "full" \in rlFlags' => rlRun.action \in {"tune", "scanEnd"}
      BY <1>6 DEF RlFlagsAfter
    <3>2. rlRun.action \in {"tune", "scanEnd"} => RlTx \subseteq rlRfk.ok
      BY <1>6 DEF RlOperationFinished
    <3> QED
      BY <3>1, <3>2
  <2>9. RlSequenced'
    BY <1>1, <1>6, <2>5, <2>7, <2>8 DEF RlInv, RlSequenced
  <2>10. RlActing' /\ RlHomed'
    BY <1>1, <1>4, <1>6 DEF RlActing, RlHomed
  <2> QED
    BY <1>3, <2>1, <2>2, <2>3, <2>9, <2>10 DEF RlInv, RlLease, RlPlaced
<1> QED
  BY <1>5, <1>6 DEF RlPollRestore

----------------------------------------------------------------------------
(* The actions of the station.                                             *)

\* Between two actions of the sequence no lease is taken.
LEMMA RlAtRest ==
  ASSUME RlInv, RlGateFree, rlBoot = "ready", rlHealthy = {"bus", "mailbox"}, ~RlBusy
  PROVE  /\ rlSeq = "ready" /\ rlStage = "complete" /\ rlBody = "idle" /\ ~rlHeld
         /\ RlActing /\ RlHomed /\ RlReached(rlRun.action, rlRun.index) /\ "bus" \in rlHealthy
<1>1. rlSeq = "ready"
  BY DEF RlInv, RlLease, RlSeqStage, RlBoots, RlBusy
<1>2. rlStage = "complete" /\ rlBody = "idle" /\ ~rlHeld
  BY <1>1 DEF RlInv, RlLease, RlSeqStage, RlBodies, RlOwned
<1> QED
  BY <1>1, <1>2 DEF RlInv, RlPlaced, RlSequenced

\* What service() finds when it serves an action.
LEMMA RlServing ==
  ASSUME RlInv, NEW actions, NEW phase, RlServiceAction(actions, phase)
  PROVE  /\ rlSeq = "ready" /\ rlStage = "complete" /\ rlBody = "idle" /\ ~rlHeld
         /\ RlActing /\ RlHomed /\ RlReached(rlRun.action, rlRun.index) /\ "bus" \in rlHealthy
         /\ rlBoot = "ready" /\ rlAction.action \in actions /\ rlPhase = phase
<1>1. RlGateFree /\ rlBoot = "ready" /\ rlHealthy = {"bus", "mailbox"} /\ ~RlBusy
      /\ rlAction.action \in actions /\ rlPhase = phase
  BY DEF RlServiceAction, RlService
<1> QED
  BY <1>1, RlAtRest

\* The port is being programmed.
LEMMA RlPortBeginsKeeps ==
  ASSUME RlInv, RlPortBegins
  PROVE  RlInv'
<1>1. UNCHANGED <<leaseVars, rlBoot, rlSeq, rlRun, rlFlags, rlRfk, rlTarget, rlHw, rlAction, rlPlan, rlHealthy,
                  rlStation>> /\ rlPhase' = 1
  BY DEF RlPortBegins
<1>2. /\ rlSeq = "ready" /\ RlActing /\ RlHomed
      /\ rlAction.action \in {"prepareInterface", "associationCmac", "disconnectCmac"}
  BY RlServing DEF RlPortBegins
<1>3. RlLease' /\ RlSequenced'
  BY <1>1, RlLeaseFrame, RlSequencedFrame DEF RlInv
<1>4. RlOpen'
  BY <1>1, RlOpenFrame DEF RlInv, leaseVars
<1>5. RlActing'
  BY <1>1, <1>2 DEF RlActing
<1>6. RlHomed'
  BY <1>1, <1>2 DEF RlHomed
<1> QED
  BY <1>3, <1>4, <1>5, <1>6 DEF RlInv, RlPlaced

\* launch(): the calibrations an action starts from are there.
LEMMA RlLaunched ==
  ASSUME RlInv, NEW action, RlLaunch(action), rlSeq = "ready", RlActing, RlHomed,
         RlReached(rlRun.action, rlRun.index), <<rlAction.action, rlPhase + 1, action>> \in RlLaunches
  PROVE  RlSequenced'
<1>1. /\ UNCHANGED <<rlRfk, rlHw>> /\ rlSeq' = "acquire"
      /\ rlRun' = [action |-> action, index |-> 1] /\ rlFlags' = rlFlags \ {"tuned", "full"}
      /\ rlTarget' = IF action \in {"tune", "scanTune"} THEN rlAction.channel ELSE rlTarget
  BY DEF RlLaunch, RlRequestLease
<1>2. rlRun'.action = action /\ rlRun'.index = 1 /\ rlRun'.index - 1 = 0
  BY <1>1
<1>3. action \in {"tune", "scanBegin", "scanTune", "scanEnd"}
  BY DEF RlLaunches
<1>4. rlRun'.index \in 1 .. Len(RlSteps[rlRun'.action])
  <2>1. Len(RlSteps[action]) \in {1, 2, 5}
    BY <1>3, RlStepCounts
  <2>2. \A n \in {1, 2, 5} : 1 \in 1 .. n
    OBVIOUS
  <2>3. 1 \in 1 .. Len(RlSteps[action])
    BY <2>1, <2>2
  <2> QED
    BY <1>2, <2>3
<1>5. /\ DOMAIN rlRfk = {"ok", "rxDc", "iq", "active", "home", "scan", "dpk"}
      /\ "scanning" \in rlFlags <=> rlRun.action \in {"scanBegin", "scanTune"}
      /\ "full" \in rlFlags => rlRun.action \in {"tune", "scanEnd"} /\ RlTx \subseteq rlRfk.ok
      /\ rlRun.index = Len(RlSteps[rlRun.action])
  BY DEF RlInv, RlSequenced
<1>6. "rxDc" \in rlRfk.ok /\ rlHw = rlTarget
  <2>1. \/ rlRun.action = "initialize" /\ rlRun.index = 3
        \/ rlRun.action = "tune" /\ rlRun.index = 5
        \/ rlRun.action = "scanBegin" /\ rlRun.index = 1
        \/ rlRun.action = "scanTune" /\ rlRun.index = 2
        \/ rlRun.action = "scanEnd" /\ rlRun.index = 1
    BY <1>5, RlPlaces, RlStepCounts DEF RlInv
  <2> QED
    BY <2>1 DEF RlReached
<1>7. CASE action = "tune"
  <2>1. "scanning" \notin rlFlags
    BY <1>7 DEF RlLaunch
  <2>2. rlRun.action \in {"initialize", "tune", "scanEnd"} /\ (rlRun.action = "scanEnd" => rlRun.index = 1)
    BY <1>5, <2>1, RlPlaces DEF RlInv, RlSequenced
  <2>3. ~rlRfk.active
    BY <2>2 DEF RlReached
  <2>4. RlReached(rlRun.action, rlRun.index - 1)'
    BY <1>1, <1>2, <1>6, <1>7, <2>3 DEF RlReached
  <2> QED
    BY <1>1, <1>2, <1>4, <1>5, <1>7, <2>1, <2>4 DEF RlSequenced
<1>8. CASE action = "scanBegin"
  <2>1. "full" \in rlFlags /\ "scanning" \notin rlFlags
    BY <1>8 DEF RlLaunch
  <2>2. /\ rlRun.action \in {"tune", "scanEnd"} /\ (rlRun.action = "scanEnd" => rlRun.index = 1)
        /\ (rlRun.action = "tune" => rlRun.index = 5) /\ RlTx \subseteq rlRfk.ok
    BY <1>5, <2>1, RlPlaces, RlStepCounts DEF RlInv
  <2>3. ~rlRfk.active /\ rlRfk.iq = rlTarget
    BY <2>2 DEF RlReached
  <2>4. RlReached(rlRun.action, rlRun.index - 1)'
    BY <1>1, <1>2, <1>6, <1>8, <2>2, <2>3 DEF RlReached
  <2> QED
    BY <1>1, <1>2, <1>4, <1>5, <1>8, <2>1, <2>4 DEF RlSequenced
<1>9. CASE action \in {"scanTune", "scanEnd"}
  <2>1. "scanning" \in rlFlags
    BY <1>9 DEF RlLaunch
  <2>2. /\ rlRun.action \in {"scanBegin", "scanTune"} /\ (rlRun.action = "scanBegin" => rlRun.index = 1)
    BY <1>5, <2>1, RlPlaces DEF RlInv
  <2>3. rlRfk.active
    BY <2>2 DEF RlReached
  <2>4. action = "scanEnd" => rlRfk.home = rlTarget
    <3>1. SUFFICES ASSUME action = "scanEnd" PROVE rlRfk.home = rlTarget
      OBVIOUS
    <3>2. rlAction.action = "scanEnd"
      BY <3>1 DEF RlLaunches
    <3>3. <<rlAction.action, rlStation.state>> \in RlAsked
      BY <3>2 DEF RlActing
    <3>4. rlStation.state = "restored"
      BY <3>2, <3>3 DEF RlAsked
    <3> QED
      BY <3>2, <3>4 DEF RlHomed
  <2>5. RlReached(rlRun.action, rlRun.index - 1)'
    BY <1>1, <1>2, <1>6, <1>9, <2>3, <2>4 DEF RlReached
  <2> QED
    BY <1>1, <1>2, <1>4, <1>5, <1>9, <2>1, <2>5 DEF RlSequenced
<1> QED
  BY <1>3, <1>7, <1>8, <1>9

\* launch(): the lease is asked for, and the target is what the action names.
LEMMA RlLaunchKeeps ==
  ASSUME RlInv, NEW action, RlLaunch(action), rlSeq = "ready", RlActing, RlHomed, rlBoot = "ready",
         RlReached(rlRun.action, rlRun.index), "bus" \in rlHealthy,
         <<rlAction.action, rlPhase + 1, action>> \in RlLaunches
  PROVE  RlInv'
<1>1. /\ UNCHANGED <<rlBoot, rlRfk, rlHw, rlAction, rlPlan, rlHealthy, rlStation>> /\ rlMask' = "none"
      /\ RlRequestLease(action, 1) /\ rlPhase' = rlPhase + 1
      /\ rlTarget' = IF action \in {"tune", "scanTune"} THEN rlAction.channel ELSE rlTarget
  BY DEF RlLaunch
<1>2. rlSeq' = "acquire" /\ rlRun'.action = action
  BY <1>1 DEF RlRequestLease
<1>3. RlLease'
  BY <1>1, RlRequestLeaseKeeps DEF RlInv
<1>4. RlOpen'
  BY <1>1 DEF RlOpen
<1>5. RlSequenced'
  BY RlLaunched
<1>6. rlPhase \in Nat /\ rlPhase' \in Nat
  BY <1>1 DEF RlActing
<1>7. <<rlAction', rlPhase'>> = <<rlAction, rlPhase + 1>>
      /\ <<rlAction'.action, rlPhase', rlRun'.action>> \in RlLaunches
  BY <1>1, <1>2
<1>8. rlAction.action = "scanBegin" => rlPhase' = 1 /\ action = "scanBegin"
  BY <1>1, <1>6 DEF RlLaunches
<1>9. rlAction.action # "none"
  BY DEF RlLaunches
<1>10. RlActing'
  BY <1>1, <1>2, <1>6, <1>7, <1>8 DEF RlActing
<1>11. RlHomed'
  <2>1. \/ rlAction.action = "prepareInterface" /\ action = "tune"
        \/ rlAction.action = "prepareAuthentication" /\ action = "tune"
        \/ rlAction.action \in {"scanTune", "scanRestore"} /\ action = "scanTune"
        \/ rlAction.action \in {"scanBegin", "scanEnd"} /\ action = rlAction.action
    BY DEF RlLaunches
  <2>2. <<rlAction.action, rlStation.state>> \in RlAsked
    BY <1>9 DEF RlActing
  <2>3. CASE rlAction.action = "prepareInterface"
    <3>1. rlStation.state = "stopped"
      BY <2>2, <2>3 DEF RlAsked
    <3>2. rlTarget' = rlStation.home
      BY <1>1, <2>1, <2>3 DEF RlActing
    <3> QED
      BY <1>1, <2>3, <3>1, <3>2 DEF RlHomed, RlLinking
  <2>4. CASE rlAction.action = "prepareAuthentication"
    <3>1. rlStation.state = "idle"
      BY <2>2, <2>4 DEF RlAsked
    <3>2. rlTarget' = rlStation.peer /\ rlPhase' > 0
      BY <1>1, <1>6, <2>1, <2>4 DEF RlActing
    <3> QED
      BY <1>1, <2>4, <3>1, <3>2 DEF RlHomed, RlLinking
  <2>5. CASE rlAction.action \in {"scanTune", "scanRestore"}
    <3>1. rlStation.state = "scan"
      BY <2>2, <2>5 DEF RlAsked
    <3>2. rlAction.action = "scanRestore" => rlTarget' = rlStation.home
      BY <1>1, <2>1, <2>5 DEF RlActing
    <3> QED
      BY <1>1, <2>5, <3>1, <3>2 DEF RlHomed, RlLinking
  <2>6. CASE rlAction.action \in {"scanBegin", "scanEnd"}
    <3>1. rlTarget' = rlTarget
      BY <1>1, <2>1, <2>6
    <3> QED
      BY <1>1, <2>6, <3>1 DEF RlHomed
  <2> QED
    BY <2>1, <2>3, <2>4, <2>5, <2>6
<1> QED
  BY <1>3, <1>4, <1>5, <1>10, <1>11 DEF RlInv, RlPlaced

\* The phases that tune.
LEMMA RlActionTunesKeeps ==
  ASSUME RlInv, RlActionTunes
  PROVE  RlInv'
<1>1. CASE RlServiceAction({"prepareAuthentication"}, 0) /\ RlLaunch("tune")
  <2>1. <<rlAction.action, rlPhase + 1, "tune">> \in RlLaunches
    BY <1>1 DEF RlLaunches, RlServiceAction
  <2> QED
    BY <1>1, <2>1, RlServing, RlLaunchKeeps
<1>2. CASE RlServiceAction({"scanTune", "scanRestore"}, 0) /\ RlLaunch("scanTune")
  <2>1. <<rlAction.action, rlPhase + 1, "scanTune">> \in RlLaunches
    BY <1>2 DEF RlLaunches, RlServiceAction
  <2> QED
    BY <1>2, <2>1, RlServing, RlLaunchKeeps
<1>3. CASE RlServiceAction({"scanBegin"}, 0) /\ RlLaunch("scanBegin")
  <2>1. <<rlAction.action, rlPhase + 1, "scanBegin">> \in RlLaunches
    BY <1>3 DEF RlLaunches, RlServiceAction
  <2> QED
    BY <1>3, <2>1, RlServing, RlLaunchKeeps
<1>4. CASE RlServiceAction({"scanEnd"}, 0) /\ RlLaunch("scanEnd")
  <2>1. <<rlAction.action, rlPhase + 1, "scanEnd">> \in RlLaunches
    BY <1>4 DEF RlLaunches, RlServiceAction
  <2> QED
    BY <1>4, <2>1, RlServing, RlLaunchKeeps
<1>5. CASE RlServiceAction({"prepareInterface"}, 1) /\ RlLaunch("tune")
  <2>1. <<rlAction.action, rlPhase + 1, "tune">> \in RlLaunches
    BY <1>5 DEF RlLaunches, RlServiceAction
  <2> QED
    BY <1>5, <2>1, RlServing, RlLaunchKeeps
<1> QED
  BY <1>1, <1>2, <1>3, <1>4, <1>5 DEF RlActionTunes

\* Commands and plans of an action, at rest: none of them is a policy.
LEMMA RlSubmits ==
  ASSUME RlLease, rlSeq = "ready", rlStage = "complete", rlBody = "idle",
         rlCommand'.to \in {"cam", "cmac", "edca"},
         \/ rlCommand'.to = "edca" /\ UNCHANGED rlPlan
         \/ \E x, y : /\ rlPlan' \in {<<x>>, <<x, y>>}
                       /\ x.to \in {"cam", "cmac"} /\ y.to \in {"cam", "cmac"},
         UNCHANGED <<rlBt, rlBtSees, rlPublished, rlStage, rlHeld, rlGrants, rlFw, rlMask, rlBody, rlEmitting,
                     rlBoot, rlSeq, rlHealthy>>
  PROVE  RlLease'
<1>1. RlOwned' /\ RlSeqStage'
  BY DEF RlLease, RlOwned, RlSeqStage
<1>2. RlBodies' /\ RlBoots' /\ RlClosed'
  BY DEF RlLease, RlBodies, RlBoots, RlClosed, RlBusy
<1>3. RlCommanded'
  BY DEF RlLease, RlCommanded
<1>4. RlPlanned'
  <2>1. CASE rlCommand'.to = "edca" /\ UNCHANGED rlPlan
    BY <2>1 DEF RlLease, RlPlanned
  <2>2. CASE \E x, y : /\ rlPlan' \in {<<x>>, <<x, y>>}
                       /\ x.to \in {"cam", "cmac"} /\ y.to \in {"cam", "cmac"}
    <3>1. PICK x, y : /\ rlPlan' \in {<<x>>, <<x, y>>}
                      /\ x.to \in {"cam", "cmac"} /\ y.to \in {"cam", "cmac"}
      BY <2>2
    <3>2. rlPlan' # <<>>
      BY <3>1
    <3> QED
      BY <3>1, <3>2 DEF RlPlanned
  <2> QED
    BY <2>1, <2>2
<1> QED
  BY <1>1, <1>2, <1>3, <1>4 DEF RlLease

\* The tables of an action are one or two table writes.
LEMMA RlTablesShape ==
  ASSUME rlAction.action \in {"idleTables", "prepareAuthentication", "disconnectCam", "associationCam",
                              "removeCam", "associationCmac", "disconnectCmac"}
  PROVE  /\ \E x, y : /\ RlTables \in {<<x>>, <<x, y>>}
                      /\ x.to \in {"cam", "cmac"} /\ y.to \in {"cam", "cmac"}
         /\ RlTables[1].to \in {"cam", "cmac"}
<1> DEFINE write(to, kind) == [to |-> to, value |-> <<kind, rlAction.channel>>]
<1>1. SUFFICES \E x, y : /\ RlTables \in {<<x>>, <<x, y>>}
                         /\ x.to \in {"cam", "cmac"} /\ y.to \in {"cam", "cmac"}
  OBVIOUS
<1>2. CASE rlAction.action = "idleTables"
  <2>1. RlTables = <<write("cam", "unlinked"), write("cmac", "default")>>
    BY <1>2 DEF RlTables
  <2> QED
    BY <2>1
<1>3. CASE rlAction.action # "idleTables"
  <2>1. \/ RlTables = <<write("cam", "unlinked")>> \/ RlTables = <<write("cam", "linked")>>
        \/ RlTables = <<write("cam", "gone")>>
        \/ RlTables = <<write("cmac", "linked")>> \/ RlTables = <<write("cmac", "unlinked")>>
    BY <1>3 DEF RlTables
  <2>2. \A to, kind : write(to, kind).to = to
    OBVIOUS
  <2>3. ASSUME NEW w, w.to \in {"cam", "cmac"}, RlTables = <<w>>
        PROVE  \E x, y : /\ RlTables \in {<<x>>, <<x, y>>}
                         /\ x.to \in {"cam", "cmac"} /\ y.to \in {"cam", "cmac"}
    BY <2>3
  <2> QED
    BY <2>1, <2>2, <2>3
<1> QED
  BY <1>2, <1>3

\* The phase moves on within an action whose calibrations, if any, are done.
LEMMA RlPhaseMoves ==
  ASSUME RlActing, RlHomed, rlSeq = "ready", rlPhase' = rlPhase + 1,
         rlAction.action \in {"prepareAuthentication", "scanBegin"} => rlPhase = 1,
         rlAction.action \notin {"prepareInterface", "scanBegin", "scanRestore"},
         UNCHANGED <<rlBoot, rlSeq, rlRun, rlRfk, rlTarget, rlAction, rlStation>>
  PROVE  RlActing' /\ RlHomed'
<1>1. rlPhase \in Nat
  BY DEF RlActing
<1>2. RlActing'
  BY <1>1 DEF RlActing
<1>3. RlHomed'
  BY <1>1 DEF RlHomed
<1> QED
  BY <1>2, <1>3

\* The port is programmed: EDCA parameters, or the tables, are next.
LEMMA RlPortDoneKeeps ==
  ASSUME RlInv, RlPortDone
  PROVE  RlInv'
<1>1. UNCHANGED <<rlBt, rlBtSees, rlPublished, rlStage, rlHeld, rlGrants, rlFw, rlMask, rlBody, rlEmitting, rlBoot,
                  rlSeq, rlRun, rlFlags, rlRfk, rlTarget, rlHw, rlAction, rlHealthy, rlStation>>
  BY DEF RlPortDone
<1>2. /\ rlSeq = "ready" /\ rlStage = "complete" /\ rlBody = "idle" /\ RlActing /\ RlHomed
      /\ rlAction.action \in {"associationCmac", "disconnectCmac"} /\ rlPhase = 1
  BY RlServing DEF RlPortDone
<1>3. CASE rlAction.action = "associationCmac" /\ rlCommand' = RlEdca /\ rlPhase' = 2 /\ UNCHANGED rlPlan
  <2>1. rlCommand'.to = "edca"
    BY <1>3 DEF RlEdca
  <2>2. RlLease'
    BY <1>1, <1>2, <1>3, <2>1, RlSubmits DEF RlInv
  <2>3. RlActing' /\ RlHomed'
    BY <1>1, <1>2, <1>3, RlPhaseMoves
  <2> QED
    BY <1>1, <2>2, <2>3, RlOpenFrame, RlSequencedFrame DEF RlInv, RlPlaced
<1>4. CASE rlAction.action = "disconnectCmac" /\ RlSubmit
  <2>1. rlPlan' = RlTables /\ rlCommand' = RlTables[1] /\ rlPhase' = rlPhase + 1
    BY <1>4 DEF RlSubmit
  <2>2. /\ \E x, y : /\ rlPlan' \in {<<x>>, <<x, y>>}
                     /\ x.to \in {"cam", "cmac"} /\ y.to \in {"cam", "cmac"}
        /\ rlCommand'.to \in {"cam", "cmac"}
    BY <1>4, <2>1, RlTablesShape
  <2>3. RlLease'
    BY <1>1, <1>2, <2>2, RlSubmits DEF RlInv
  <2>4. RlActing' /\ RlHomed'
    BY <1>1, <1>2, <2>1, RlPhaseMoves
  <2> QED
    BY <1>1, <2>3, <2>4, RlOpenFrame, RlSequencedFrame DEF RlInv, RlPlaced
<1> QED
  BY <1>3, <1>4 DEF RlPortDone

\* The tables are submitted.
LEMMA RlTablesBeginKeeps ==
  ASSUME RlInv, RlTablesBegin
  PROVE  RlInv'
<1>1. UNCHANGED <<rlBt, rlBtSees, rlPublished, rlStage, rlHeld, rlGrants, rlFw, rlMask, rlBody, rlEmitting, rlBoot,
                  rlSeq, rlRun, rlFlags, rlRfk, rlTarget, rlHw, rlAction, rlHealthy, rlStation>>
  BY DEF RlTablesBegin
<1>2. PICK actions, phase :
        /\ RlServiceAction(actions, phase)
        /\ actions \subseteq {"idleTables", "associationCam", "disconnectCam", "removeCam", "prepareAuthentication",
                              "associationCmac"}
        /\ "prepareAuthentication" \in actions => phase = 1
  BY DEF RlTablesBegin
<1>3. /\ rlSeq = "ready" /\ rlStage = "complete" /\ rlBody = "idle" /\ RlActing /\ RlHomed
      /\ rlAction.action \in actions /\ rlPhase = phase
  BY <1>2, RlServing
<1>4. rlPlan' = RlTables /\ rlCommand' = RlTables[1] /\ rlPhase' = rlPhase + 1
  BY DEF RlTablesBegin, RlSubmit
<1>5. /\ \E x, y : /\ rlPlan' \in {<<x>>, <<x, y>>}
                   /\ x.to \in {"cam", "cmac"} /\ y.to \in {"cam", "cmac"}
      /\ rlCommand'.to \in {"cam", "cmac"}
  <2>1. rlAction.action \in {"idleTables", "associationCam", "disconnectCam", "removeCam", "prepareAuthentication",
                            "associationCmac"}
    BY <1>2, <1>3
  <2> QED
    BY <1>4, <2>1, RlTablesShape
<1>6. RlLease'
  BY <1>1, <1>3, <1>5, RlSubmits DEF RlInv
<1>7. RlActing' /\ RlHomed'
  BY <1>1, <1>2, <1>3, <1>4, RlPhaseMoves
<1> QED
  BY <1>1, <1>6, <1>7, RlOpenFrame, RlSequencedFrame DEF RlInv, RlPlaced

\* What the station makes of a completed action.
LEMMA RlStationAfterIs ==
  ASSUME RlHomed, NEW s, s = RlStationAfter
  PROVE  /\ DOMAIN s = DOMAIN rlStation /\ s.resume = rlStation.resume /\ s.peer = rlStation.peer
         /\ s.home = IF rlAction.action = "prepareAuthentication" THEN rlStation.peer ELSE rlStation.home
         /\ rlAction.action = "prepareInterface" => s.state = "created"
         /\ rlAction.action \in {"idleTables", "disconnectCam"} => s.state = "idle"
         /\ rlAction.action \in {"scanBegin", "scanTune"} => s.state = "scan"
         /\ rlAction.action = "scanRestore" => s.state = "restored"
         /\ rlAction.action = "scanEnd" => s.state = rlStation.resume
         /\ rlAction.action = "prepareAuthentication" => s.state = "authenticating"
         /\ rlAction.action = "associationCmac" => s.state = "cmac"
         /\ rlAction.action = "associationCam" => s.state = "linked"
         /\ rlAction.action = "disconnectCmac" => s.state = "left"
         /\ rlAction.action = "removeCam" => s.state = "removed"
<1> DEFINE next == [prepareInterface |-> "created", idleTables |-> "idle", scanBegin |-> "scan", scanTune |-> "scan",
                    scanRestore |-> "restored", scanEnd |-> rlStation.resume,
                    prepareAuthentication |-> "authenticating", associationCmac |-> "cmac",
                    associationCam |-> "linked", disconnectCmac |-> "left", disconnectCam |-> "idle",
                    removeCam |-> "removed"]
<1>1. /\ DOMAIN s = DOMAIN rlStation /\ s.resume = rlStation.resume /\ s.peer = rlStation.peer
      /\ s.home = IF rlAction.action = "prepareAuthentication" THEN rlStation.peer ELSE rlStation.home
      /\ s.state = next[rlAction.action]
  BY DEF RlStationAfter, RlHomed
<1>2. /\ next["prepareInterface"] = "created" /\ next["idleTables"] = "idle" /\ next["disconnectCam"] = "idle"
      /\ next["scanBegin"] = "scan" /\ next["scanTune"] = "scan" /\ next["scanRestore"] = "restored"
      /\ next["scanEnd"] = rlStation.resume /\ next["prepareAuthentication"] = "authenticating"
      /\ next["associationCmac"] = "cmac" /\ next["associationCam"] = "linked"
      /\ next["disconnectCmac"] = "left" /\ next["removeCam"] = "removed"
  OBVIOUS
<1> HIDE DEF next
<1> QED
  BY <1>1, <1>2

\* An action is complete: the station is where the radio is.
LEMMA RlFinishKeeps ==
  ASSUME RlInv, RlFinish, rlSeq = "ready", RlActing, RlHomed, RlReached(rlRun.action, rlRun.index),
         "bus" \in rlHealthy, rlBoot = "ready", rlAction.action # "none",
         rlAction.action \in {"prepareAuthentication", "scanRestore", "scanBegin"} => rlPhase > 0,
         rlAction.action = "prepareInterface" => rlPhase > 1,
         UNCHANGED <<leaseVars, rlBoot, rlSeq, rlRun, rlFlags, rlRfk, rlTarget, rlHw, rlPlan, rlHealthy>>
  PROVE  RlInv'
<1>1. RlLease' /\ RlSequenced'
  BY RlLeaseFrame, RlSequencedFrame DEF RlInv
<1>2. RlOpen'
  BY RlOpenFrame DEF RlInv, leaseVars
<1>3. rlAction'.action = "none" /\ rlPhase' = 0
  BY DEF RlFinish, RlNoAction
<1>4. RlActing'
  BY <1>3 DEF RlActing
<1>5. PICK s : s = RlStationAfter
  OBVIOUS
<1>6. rlStation' = s
  BY <1>5 DEF RlFinish
<1>7. <<rlAction.action, rlStation.state>> \in RlAsked
  BY DEF RlActing
<1>8. /\ DOMAIN s = DOMAIN rlStation /\ s.resume = rlStation.resume /\ s.peer = rlStation.peer
      /\ s.home = IF rlAction.action = "prepareAuthentication" THEN rlStation.peer ELSE rlStation.home
      /\ rlAction.action = "prepareInterface" => s.state = "created"
      /\ rlAction.action \in {"idleTables", "disconnectCam"} => s.state = "idle"
      /\ rlAction.action \in {"scanBegin", "scanTune"} => s.state = "scan"
      /\ rlAction.action = "scanRestore" => s.state = "restored"
      /\ rlAction.action = "scanEnd" => s.state = rlStation.resume
      /\ rlAction.action = "prepareAuthentication" => s.state = "authenticating"
      /\ rlAction.action = "associationCmac" => s.state = "cmac"
      /\ rlAction.action = "associationCam" => s.state = "linked"
      /\ rlAction.action = "disconnectCmac" => s.state = "left"
      /\ rlAction.action = "removeCam" => s.state = "removed"
  BY <1>5, RlStationAfterIs
<1>9. RlHomed'
  <2>1. CASE rlAction.action = "prepareInterface"
    BY <1>3, <1>6, <1>8, <2>1 DEF RlHomed, RlLinking
  <2>2. CASE rlAction.action = "idleTables"
    <3>1. rlStation.state = "created"
      BY <1>7, <2>2 DEF RlAsked
    <3> QED
      BY <1>3, <1>6, <1>8, <2>2, <3>1 DEF RlHomed, RlLinking
  <2>3. CASE rlAction.action = "disconnectCam"
    <3>1. rlStation.state = "left"
      BY <1>7, <2>3 DEF RlAsked
    <3> QED
      BY <1>3, <1>6, <1>8, <2>3, <3>1 DEF RlHomed, RlLinking
  <2>4. CASE rlAction.action = "scanBegin"
    <3>1. rlStation.state \in {"idle", "linked"}
      BY <1>7, <2>4 DEF RlAsked
    <3>2. rlRun.action = "scanBegin"
      BY <2>4 DEF RlActing
    <3>3. rlRun.index = 1
      BY <3>2, RlPlaces DEF RlInv
    <3>4. rlRfk.home = rlTarget
      BY <3>2, <3>3 DEF RlReached
    <3> QED
      BY <1>3, <1>6, <1>8, <2>4, <3>1, <3>4 DEF RlHomed, RlLinking
  <2>5. CASE rlAction.action = "scanTune"
    <3>1. rlStation.state = "scan"
      BY <1>7, <2>5 DEF RlAsked
    <3> QED
      BY <1>3, <1>6, <1>8, <2>5, <3>1 DEF RlHomed, RlLinking
  <2>6. CASE rlAction.action = "scanRestore"
    <3>1. rlStation.state = "scan"
      BY <1>7, <2>6 DEF RlAsked
    <3> QED
      BY <1>3, <1>6, <1>8, <2>6, <3>1 DEF RlHomed, RlLinking
  <2>7. CASE rlAction.action = "scanEnd"
    <3>1. rlStation.state = "restored"
      BY <1>7, <2>7 DEF RlAsked
    <3>2. rlStation.resume \in {"idle", "linked"}
      BY <3>1 DEF RlHomed
    <3> QED
      BY <1>3, <1>6, <1>8, <2>7, <3>1, <3>2 DEF RlHomed, RlLinking
  <2>8. CASE rlAction.action = "prepareAuthentication"
    <3>1. rlStation.state = "idle"
      BY <1>7, <2>8 DEF RlAsked
    <3> QED
      BY <1>3, <1>6, <1>8, <2>8, <3>1 DEF RlHomed, RlLinking
  <2>9. CASE rlAction.action \in {"associationCmac", "associationCam", "disconnectCmac"}
    <3>1. rlStation.state \in {"authenticating", "cmac", "linked"}
      BY <1>7, <2>9 DEF RlAsked
    <3>2. s.state \in {"cmac", "linked", "left"}
      BY <1>8, <2>9
    <3> QED
      BY <1>3, <1>6, <1>8, <2>9, <3>1, <3>2 DEF RlHomed, RlLinking
  <2>10. CASE rlAction.action = "removeCam"
    <3>1. rlStation.state = "idle"
      BY <1>7, <2>10 DEF RlAsked
    <3> QED
      BY <1>3, <1>6, <1>8, <2>10, <3>1 DEF RlHomed, RlLinking
  <2> QED
    BY <1>7, <2>1, <2>2, <2>3, <2>4, <2>5, <2>6, <2>7, <2>8, <2>9, <2>10 DEF RlAsked
<1> QED
  BY <1>1, <1>2, <1>4, <1>9 DEF RlInv, RlPlaced

\* The tables are acknowledged.
LEMMA RlTablesDoneKeeps ==
  ASSUME RlInv, RlTablesDone
  PROVE  RlInv'
<1>1. UNCHANGED <<leaseVars, rlBoot, rlSeq, rlRun, rlFlags, rlRfk, rlTarget, rlHw, rlPlan, rlHealthy>> /\ RlFinish
  BY DEF RlTablesDone
<1>2. PICK actions, phase :
        /\ RlServiceAction(actions, phase)
        /\ actions \subseteq {"idleTables", "associationCam", "disconnectCam", "removeCam", "prepareAuthentication",
                              "disconnectCmac", "associationCmac"}
        /\ "prepareAuthentication" \in actions => phase = 2
  BY DEF RlTablesDone
<1>3. /\ rlSeq = "ready" /\ RlActing /\ RlHomed /\ RlReached(rlRun.action, rlRun.index) /\ "bus" \in rlHealthy
      /\ rlBoot = "ready" /\ rlAction.action \in actions /\ rlPhase = phase
  BY <1>2, RlServing
<1>4. /\ rlAction.action \in {"idleTables", "associationCam", "disconnectCam", "removeCam",
                              "prepareAuthentication", "disconnectCmac", "associationCmac"}
      /\ rlAction.action = "prepareAuthentication" => rlPhase = 2
  BY <1>2, <1>3
<1> QED
  BY <1>1, <1>3, <1>4, RlFinishKeeps

\* The radio is tuned.
LEMMA RlTunedKeeps ==
  ASSUME RlInv, RlTuned
  PROVE  RlInv'
<1>1. UNCHANGED <<leaseVars, rlBoot, rlSeq, rlRun, rlFlags, rlRfk, rlTarget, rlHw, rlPlan, rlHealthy>> /\ RlFinish
  BY DEF RlTuned
<1>2. PICK actions, phase :
        /\ RlServiceAction(actions, phase)
        /\ actions \subseteq {"prepareInterface", "scanTune", "scanRestore", "scanBegin", "scanEnd"}
        /\ "prepareInterface" \in actions => phase = 2
        /\ "prepareInterface" \notin actions => phase = 1
  BY DEF RlTuned
<1>3. /\ rlSeq = "ready" /\ RlActing /\ RlHomed /\ RlReached(rlRun.action, rlRun.index) /\ "bus" \in rlHealthy
      /\ rlBoot = "ready" /\ rlAction.action \in actions /\ rlPhase = phase
  BY <1>2, RlServing
<1>4. /\ rlAction.action \in {"prepareInterface", "scanTune", "scanRestore", "scanBegin", "scanEnd"}
      /\ rlAction.action = "prepareInterface" => rlPhase = 2
      /\ rlPhase \in {1, 2}
  BY <1>2, <1>3
<1> QED
  BY <1>1, <1>3, <1>4, RlFinishKeeps

----------------------------------------------------------------------------
(* The firmware's answers, traffic and requests.                           *)

\* While a command is in flight, no calibration runs under the policy it may lift.
LEMMA RlInFlight ==
  ASSUME RlLease, rlCommand # RlNoCommand, rlStage \notin RlInCall
  PROVE  /\ rlStage # "calibrating" /\ rlBody = "idle"
         /\ rlCommand.to \in {"policy", "cam", "cmac", "edca"}
         /\ rlCommand.to = "policy" /\ "bus" \in rlHealthy =>
              /\ \/ rlStage = "waitingStartAck" /\ rlCommand = RlPolicy("off") /\ rlSeq = "acquire"
                 \/ rlStage = "waitingStopAck" /\ rlSeq = "restore"
              /\ rlMask = "none" /\ rlBoot \in {"radio", "ready"}
<1>1. /\ rlStage # "calibrating" /\ rlBody = "idle"
      /\ rlCommand.to \in {"policy", "cam", "cmac", "edca"}
  BY DEF RlLease, RlCommanded
<1>2. ASSUME rlCommand.to = "policy", "bus" \in rlHealthy
      PROVE  /\ \/ rlStage = "waitingStartAck" /\ rlCommand = RlPolicy("off") /\ rlSeq = "acquire"
                \/ rlStage = "waitingStopAck" /\ rlSeq = "restore"
             /\ rlMask = "none" /\ rlBoot \in {"radio", "ready"}
  <2>1. \/ rlStage = "waitingStartAck" /\ rlCommand = RlPolicy("off")
        \/ rlStage = "waitingStopAck"
    BY <1>2 DEF RlLease, RlCommanded
  <2>2. \/ rlStage = "waitingStartAck" /\ rlSeq = "acquire"
        \/ rlStage = "waitingStopAck" /\ rlSeq = "restore"
    BY <2>1 DEF RlLease, RlSeqStage, RlBegins, RlEnds
  <2>3. rlMask = "none"
    BY <2>2 DEF RlLease, RlClosed, RlBusy
  <2>4. rlBoot \in {"radio", "ready"}
    BY <1>2, <2>2 DEF RlLease, RlBoots
  <2> QED
    BY <2>1, <2>2, <2>3, <2>4
<1> QED
  BY <1>1, <1>2

\* An acknowledged command: the lease moves on, or the plan does.
LEMMA RlAnswersKeeps ==
  ASSUME RlInv, RlAnswers
  PROVE  RlInv'
<1>1. UNCHANGED <<rlBt, rlBtSees, rlPublished, rlHeld, rlGrants, rlMask, rlBody, rlEmitting, rlBoot, rlSeq, rlRun,
                  rlFlags, rlRfk, rlTarget, rlHw, rlAction, rlPhase, rlStation>>
  BY DEF RlAnswers
<1>2. /\ rlStage \notin RlInCall /\ rlCommand # RlNoCommand /\ "bus" \in rlHealthy
      /\ rlFw' = [rlFw EXCEPT ![rlCommand.to] = rlCommand.value]
      /\ rlHealthy' = IF rlStage' = "fault" THEN rlHealthy \ {"bus"} ELSE rlHealthy
  BY DEF RlAnswers, RlGateFree, RlAccepted
<1>3. /\ rlStage # "calibrating" /\ rlBody = "idle" /\ rlStage # "fault"
      /\ rlCommand.to \in {"policy", "cam", "cmac", "edca"}
      /\ rlCommand.to = "policy" =>
           /\ \/ rlStage = "waitingStartAck" /\ rlCommand = RlPolicy("off") /\ rlSeq = "acquire"
              \/ rlStage = "waitingStopAck" /\ rlSeq = "restore"
           /\ rlMask = "none" /\ rlBoot \in {"radio", "ready"}
  BY <1>2, RlInFlight DEF RlInv, RlLease, RlBoots
<1>4. DOMAIN rlFw' = {"policy", "cam", "cmac", "edca"}
  BY <1>2 DEF RlInv, RlLease, RlCommanded
<1>6. RlOpen' /\ RlSequenced'
  BY <1>1, RlOpenFrame, RlSequencedFrame DEF RlInv
<1>7. RlPlaced'
  BY <1>1, <1>2, RlPlacedFrame DEF RlInv
<1>8. CASE /\ rlCommand.to = "policy"
           /\ rlStage' = IF rlMask # "none" THEN "fault"
                         ELSE IF rlStage = "waitingStartAck" THEN "calibrating" ELSE "restore"
           /\ rlCommand' = RlNoCommand /\ UNCHANGED rlPlan
  <2>1. \/ /\ rlStage = "waitingStartAck" /\ rlStage' = "calibrating" /\ rlSeq = "acquire"
           /\ rlCommand = RlPolicy("off")
        \/ rlStage = "waitingStopAck" /\ rlStage' = "restore" /\ rlSeq = "restore"
    BY <1>3, <1>8
  <2>2. rlHealthy' = rlHealthy
    BY <1>2, <2>1
  <2>3. RlOwned' /\ RlSeqStage'
    BY <1>1, <2>1 DEF RlInv, RlLease, RlOwned, RlSeqStage, RlGranted, RlBegins, RlEnds
  <2>4. RlBodies' /\ RlClosed'
    BY <1>1 DEF RlInv, RlLease, RlBodies, RlClosed, RlBusy
  <2>5. RlBoots'
    BY <1>1, <1>3, <1>8, <2>1, <2>2 DEF RlInv, RlLease, RlBoots
  <2>6. rlStage' = "calibrating" => rlFw'.policy = <<"off", 0>> /\ rlGrants' = "calibration"
    <3>1. ASSUME rlStage' = "calibrating" PROVE rlFw'.policy = <<"off", 0>> /\ rlGrants' = "calibration"
      <4>1. rlStage = "waitingStartAck" /\ rlCommand = RlPolicy("off")
        BY <2>1, <3>1
      <4>2. rlCommand.to = "policy" /\ rlCommand.value = <<"off", 0>>
        BY <4>1 DEF RlPolicy
      <4>3. rlFw'.policy = <<"off", 0>>
        BY <1>2, <4>2 DEF RlInv, RlLease, RlCommanded
      <4>4. rlGrants = "calibration"
        BY <4>1 DEF RlInv, RlLease, RlOwned, RlGranted
      <4> QED
        BY <1>1, <4>3, <4>4
    <3> QED
      BY <3>1
  <2>7. RlCommanded'
    BY <1>1, <1>3, <1>4, <1>8, <2>6 DEF RlCommanded, RlNoCommand
  <2>8. RlPlanned'
    BY <1>8 DEF RlInv, RlLease, RlPlanned, RlNoCommand
  <2> QED
    BY <1>6, <1>7, <2>3, <2>4, <2>5, <2>7, <2>8 DEF RlInv, RlLease
<1>9. ASSUME UNCHANGED rlStage, RlPlanned',
             rlCommand' = RlNoCommand \/ rlCommand'.to \in {"cam", "cmac"}
      PROVE  RlInv'
  <2>1. rlHealthy' = rlHealthy
    BY <1>2, <1>3, <1>9
  <2>2. RlOwned' /\ RlSeqStage'
    BY <1>1, <1>9 DEF RlInv, RlLease, RlOwned, RlSeqStage
  <2>3. RlBodies' /\ RlClosed' /\ RlBoots'
    BY <1>1, <1>9, <2>1 DEF RlInv, RlLease, RlBodies, RlClosed, RlBoots, RlBusy
  <2>4. RlCommanded'
    BY <1>1, <1>3, <1>4, <1>9 DEF RlCommanded, RlNoCommand
  <2> QED
    BY <1>6, <1>7, <1>9, <2>2, <2>3, <2>4 DEF RlInv, RlLease
<1>10. CASE /\ rlCommand.to = "edca" /\ rlCommand' = RlNoCommand /\ UNCHANGED <<rlStage, rlPlan>>
  <2>1. RlPlanned'
    BY <1>10 DEF RlInv, RlLease, RlPlanned, RlNoCommand
  <2> QED
    BY <1>9, <1>10, <2>1
<1>11. CASE rlCommand.to \in {"cam", "cmac"} /\ RlTableAnswered /\ UNCHANGED rlStage
  <2>1. PICK x, y : /\ rlPlan \in {<<>>, <<x>>, <<x, y>>}
                    /\ x.to \in {"cam", "cmac"} /\ y.to \in {"cam", "cmac"}
    BY DEF RlInv, RlLease, RlPlanned
  <2>2. rlPlan # <<>>
    BY <1>11 DEF RlInv, RlLease, RlPlanned
  <2>3. rlPlan' = Tail(rlPlan) /\ rlCommand' = IF Len(rlPlan) = 1 THEN RlNoCommand ELSE rlPlan[2]
    BY <1>11 DEF RlTableAnswered
  <2>4. CASE rlPlan = <<x>>
    <3>1. rlPlan' = <<>> /\ rlCommand' = RlNoCommand
      BY <2>3, <2>4
    <3>2. RlPlanned'
      BY <2>1, <3>1 DEF RlPlanned, RlNoCommand
    <3> QED
      BY <1>9, <1>11, <3>1, <3>2
  <2>5. CASE rlPlan = <<x, y>>
    <3>1. rlPlan' = <<y>> /\ rlCommand' = y
      BY <2>3, <2>5
    <3>2. rlPlan' # <<>>
      BY <3>1
    <3>3. RlPlanned'
      BY <2>1, <3>1, <3>2 DEF RlPlanned
    <3> QED
      BY <1>9, <1>11, <2>1, <3>1, <3>3
  <2> QED
    BY <2>1, <2>2, <2>4, <2>5
<1> QED
  BY <1>8, <1>10, <1>11 DEF RlAnswers

\* A command that is refused, or never answered, costs the bus.
LEMMA RlNotAnsweredKeeps ==
  ASSUME RlInv, RlNotAnswered
  PROVE  RlInv'
<1>1. UNCHANGED <<rlBt, rlBtSees, rlPublished, rlHeld, rlGrants, rlMask, rlBody, rlEmitting, rlBoot, rlSeq, rlRun,
                  rlFlags, rlRfk, rlTarget, rlHw, rlAction, rlPhase, rlPlan, rlStation>>
  BY DEF RlNotAnswered
<1>2. rlStage \notin RlInCall /\ rlCommand # RlNoCommand
  BY DEF RlNotAnswered, RlGateFree
<1>3. /\ rlStage # "calibrating" /\ rlBody = "idle"
      /\ rlCommand.to \in {"policy", "cam", "cmac", "edca"}
      /\ rlCommand.to = "policy" /\ "bus" \in rlHealthy =>
           \/ rlStage = "waitingStartAck" /\ rlSeq = "acquire"
           \/ rlStage = "waitingStopAck" /\ rlSeq = "restore"
  BY <1>2, RlInFlight DEF RlInv
<1>4. /\ rlHealthy' = rlHealthy \ {"bus"} /\ rlCommand' \in {rlCommand, RlNoCommand}
      /\ DOMAIN rlFw' = DOMAIN rlFw /\ rlStage' \in {rlStage, "fault"}
      /\ rlStage' # rlStage => rlSeq \in {"acquire", "restore"}
  <2>1. CASE /\ "bus" \in rlHealthy /\ rlHealthy' = rlHealthy \ {"bus"} /\ rlFw' = rlFw
             /\ rlCommand' \in {rlCommand, RlNoCommand}
             /\ rlStage' = IF rlCommand' = RlNoCommand /\ rlCommand.to = "policy" THEN "fault" ELSE rlStage
    BY <1>3, <2>1
  <2>2. CASE /\ "bus" \notin rlHealthy /\ RlAccepted /\ rlCommand' = RlNoCommand /\ UNCHANGED <<rlHealthy, rlStage>>
    <3>1. DOMAIN rlFw' = DOMAIN rlFw
      BY <2>2 DEF RlAccepted
    <3>2. rlHealthy' = rlHealthy \ {"bus"}
      BY <2>2 DEF RlInv, RlLease, RlBoots
    <3> QED
      BY <2>2, <3>1, <3>2
  <2> QED
    BY <2>1, <2>2 DEF RlNotAnswered
<1>5. RlOwned' /\ RlSeqStage'
  BY <1>1, <1>4 DEF RlInv, RlLease, RlOwned, RlSeqStage, RlGranted
<1>6. RlBodies' /\ RlClosed' /\ RlBoots'
  BY <1>1, <1>2, <1>4 DEF RlInv, RlLease, RlBodies, RlClosed, RlBoots, RlBusy, RlInCall
<1>7. RlCommanded' /\ RlPlanned'
  <2>1. rlStage' # "calibrating" /\ "bus" \notin rlHealthy' /\ rlBody' = "idle"
    BY <1>1, <1>3, <1>4
  <2>2. rlCommand' # RlNoCommand => rlCommand'.to \in {"policy", "cam", "cmac", "edca"}
    BY <1>3, <1>4
  <2>3. RlCommanded'
    BY <1>4, <2>1, <2>2 DEF RlInv, RlLease, RlCommanded
  <2>4. RlPlanned'
    BY <1>1, <1>4 DEF RlInv, RlLease, RlPlanned, RlNoCommand
  <2> QED
    BY <2>3, <2>4
<1>8. RlOpen' /\ RlSequenced' /\ RlPlaced'
  BY <1>1, <1>4, RlOpenFrame, RlSequencedFrame, RlPlacedFrame DEF RlInv
<1> QED
  BY <1>5, <1>6, <1>7, <1>8 DEF RlInv, RlLease

\* Traffic is changed between actions of the sequence only.
LEMMA RlMaskMoves ==
  ASSUME RlLease, rlSeq = "ready", rlBoot = "ready", rlBody = "idle", ~rlHeld,
         rlMask' \in {"none", "management", "all"},
         rlHealthy' \in {rlHealthy, rlHealthy \ {"mailbox"}},
         UNCHANGED <<rlBt, rlBtSees, rlPublished, rlStage, rlHeld, rlGrants, rlFw, rlCommand, rlBody, rlEmitting,
                     rlBoot, rlSeq, rlPlan>>
  PROVE  RlLease'
<1>1. RlOwned' /\ RlSeqStage'
  BY DEF RlLease, RlOwned, RlSeqStage
<1>2. "bus" \in rlHealthy' <=> "bus" \in rlHealthy
  OBVIOUS
<1>3. rlHealthy' \subseteq {"bus", "mailbox"}
  BY DEF RlLease, RlBoots
<1>4. RlBodies' /\ RlClosed' /\ RlBoots'
  BY <1>2, <1>3 DEF RlLease, RlBodies, RlClosed, RlBoots, RlBusy
<1>5. RlCommanded' /\ RlPlanned'
  BY <1>2 DEF RlLease, RlCommanded, RlPlanned
<1> QED
  BY <1>1, <1>4, <1>5 DEF RlLease

\* Traffic is opened on a channel that is calibrated for it.
LEMMA RlSetTrafficKeeps ==
  ASSUME RlInv, NEW mask \in {"none", "management", "all"}, RlSetTraffic(mask)
  PROVE  RlInv'
<1>1. UNCHANGED <<rlBt, rlBtSees, rlPublished, rlStage, rlHeld, rlGrants, rlFw, rlCommand, rlBody, rlEmitting, rlBoot,
                  rlSeq, rlRun, rlFlags, rlRfk, rlTarget, rlHw, rlAction, rlPhase, rlPlan, rlStation>>
  BY DEF RlSetTraffic
<1>2. /\ rlSeq = "ready" /\ rlBoot = "ready" /\ rlBody = "idle" /\ ~rlHeld
      /\ RlReached(rlRun.action, rlRun.index)
  BY RlAtRest DEF RlSetTraffic
<1>3. rlMask' \in {rlMask, mask} /\ rlHealthy' \in {rlHealthy, rlHealthy \ {"mailbox"}}
  BY DEF RlSetTraffic, RlSetMask
<1>4. RlLease'
  <2>1. rlMask \in {"none", "management", "all"}
    BY DEF RlInv, RlLease, RlClosed
  <2> QED
    BY <1>1, <1>2, <1>3, <2>1, RlMaskMoves DEF RlInv
<1>5. RlOpen'
  <2>1. CASE rlMask' = rlMask \/ mask = "none"
    BY <1>1, <1>3, <2>1, RlOpenFrame DEF RlInv
  <2>2. CASE mask # "none"
    <3>1. "full" \in rlFlags \/ (mask = "management" /\ rlRfk.active /\ "scan" \in rlRfk.ok)
      BY <2>2 DEF RlSetTraffic, RlMayOpen
    <3>2. "full" \in rlFlags => rlRun.action \in {"tune", "scanEnd"} /\ RlTx \subseteq rlRfk.ok
      BY <1>2 DEF RlInv, RlSequenced
    <3>3. /\ rlRun.index = Len(RlSteps[rlRun.action])
          /\ rlRun.action \in {"initialize", "tune", "scanBegin", "scanTune", "scanEnd"}
      BY <1>2 DEF RlInv, RlSequenced
    <3>4. /\ rlRun.action = "tune" => rlRun.index = 5
          /\ rlRun.action \in {"scanBegin", "scanEnd"} => rlRun.index = 1
          /\ rlRun.action = "scanTune" => rlRun.index = 2
      BY <3>3, RlStepCounts
    <3>5. "full" \in rlFlags => RlFull
      <4>1. rlRun.action \in {"tune", "scanEnd"} => ~rlRfk.active /\ rlRfk.iq = rlTarget /\ rlHw = rlTarget
        BY <1>2, <3>4 DEF RlReached
      <4> QED
        BY <3>2, <4>1 DEF RlFull
    <3>6. rlRfk.active => rlRfk.scan = rlHw
      BY <1>2, <3>3, <3>4 DEF RlReached
    <3>7. RlFull' = RlFull
      BY <1>1 DEF RlFull
    <3>8. CASE rlMask' = mask
      BY <1>1, <3>1, <3>5, <3>6, <3>7, <3>8 DEF RlOpen
    <3> QED
      BY <1>3, <2>1, <3>8
  <2> QED
    BY <2>1, <2>2
<1>6. RlSequenced' /\ RlPlaced'
  BY <1>1, <1>3, RlSequencedFrame, RlPlacedFrame DEF RlInv
<1> QED
  BY <1>4, <1>5, <1>6 DEF RlInv

\* The requests of a station, by its state.
LEMMA RlRequested ==
  ASSUME RlHomed, rlStation.state \in {"scan", "restored"} => rlStation.resume \in {"idle", "linked"},
         NEW request \in RlRequests
  PROVE  /\ <<request.action, rlStation.state>> \in RlAsked /\ request.action # "none"
         /\ request.action \in {"prepareInterface", "scanRestore"} => request.channel = rlStation.home
<1> DEFINE one(action, c) == {[action |-> action, channel |-> c]}
           tunes(action) == {[action |-> action, channel |-> c] : c \in RlChannels}
<1>1. CASE rlStation.state = "stopped"
  <2>1. RlRequests = one("prepareInterface", rlStation.home)
    BY <1>1 DEF RlRequests
  <2> QED
    BY <1>1, <2>1 DEF RlAsked
<1>2. CASE rlStation.state = "created"
  <2>1. RlRequests = one("idleTables", 0)
    BY <1>2 DEF RlRequests
  <2> QED
    BY <1>2, <2>1 DEF RlAsked
<1>3. CASE rlStation.state = "idle"
  <2>1. RlRequests = one("scanBegin", 0) \cup tunes("prepareAuthentication") \cup one("removeCam", 0)
    BY <1>3 DEF RlRequests
  <2>2. request.action \in {"scanBegin", "prepareAuthentication", "removeCam"}
    BY <2>1
  <2> QED
    BY <1>3, <2>2 DEF RlAsked
<1>4. CASE rlStation.state = "scan"
  <2>1. RlRequests = tunes("scanTune")
          \cup one("scanRestore", IF rlStation.resume = "idle" THEN rlStation.home ELSE rlStation.peer)
    BY <1>4 DEF RlRequests
  <2>2. \/ request.action = "scanTune"
        \/ /\ request.action = "scanRestore"
           /\ request.channel = IF rlStation.resume = "idle" THEN rlStation.home ELSE rlStation.peer
    BY <2>1
  <2>3. rlStation.resume # "idle" => rlStation.peer = rlStation.home
    BY <1>4 DEF RlHomed
  <2> QED
    BY <1>4, <2>2, <2>3 DEF RlAsked
<1>5. CASE rlStation.state = "restored"
  <2>1. RlRequests = one("scanEnd", 0)
    BY <1>5 DEF RlRequests
  <2> QED
    BY <1>5, <2>1 DEF RlAsked
<1>6. CASE rlStation.state = "authenticating"
  <2>1. RlRequests = one("associationCmac", rlStation.peer) \cup one("disconnectCmac", rlStation.peer)
    BY <1>6 DEF RlRequests
  <2> QED
    BY <1>6, <2>1 DEF RlAsked
<1>7. CASE rlStation.state = "cmac"
  <2>1. RlRequests = one("associationCam", rlStation.peer) \cup one("disconnectCmac", rlStation.peer)
    BY <1>7 DEF RlRequests
  <2> QED
    BY <1>7, <2>1 DEF RlAsked
<1>8. CASE rlStation.state = "linked"
  <2>1. RlRequests = one("scanBegin", 0) \cup one("disconnectCmac", rlStation.peer)
    BY <1>8 DEF RlRequests
  <2> QED
    BY <1>8, <2>1 DEF RlAsked
<1>9. CASE rlStation.state = "left"
  <2>1. RlRequests = one("disconnectCam", rlStation.peer)
    BY <1>9 DEF RlRequests
  <2> QED
    BY <1>9, <2>1 DEF RlAsked
<1>10. CASE rlStation.state \notin {"stopped", "created", "idle", "scan", "restored", "authenticating", "cmac",
                                    "linked", "left"}
  <2>1. RlRequests = {}
    BY <1>10 DEF RlRequests
  <2> QED
    BY <2>1
<1> QED
  BY <1>1, <1>2, <1>3, <1>4, <1>5, <1>6, <1>7, <1>8, <1>9, <1>10

\* An action is taken with traffic closed.
LEMMA RlBeginActionKeeps ==
  ASSUME RlInv, NEW request \in RlRequests, RlBeginAction(request)
  PROVE  RlInv'
<1>1. UNCHANGED <<rlBt, rlBtSees, rlPublished, rlStage, rlHeld, rlGrants, rlFw, rlCommand, rlBody, rlEmitting, rlBoot,
                  rlSeq, rlRun, rlFlags, rlRfk, rlTarget, rlHw, rlPlan>>
  BY DEF RlBeginAction
<1>2. ~RlBusy
  BY DEF RlBeginAction, RlReady, RlBusy
<1>3. /\ rlSeq = "ready" /\ rlBoot = "ready" /\ rlBody = "idle" /\ ~rlHeld /\ RlActing /\ RlHomed
      /\ "bus" \in rlHealthy
  BY <1>2, RlAtRest DEF RlBeginAction
<1>4. rlMask' \in {rlMask, "none"} /\ rlHealthy' \in {rlHealthy, rlHealthy \ {"mailbox"}}
  BY DEF RlBeginAction, RlSetMask
<1>5. RlLease'
  <2>1. rlMask \in {"none", "management", "all"}
    BY DEF RlInv, RlLease, RlClosed
  <2> QED
    BY <1>1, <1>3, <1>4, <2>1, RlMaskMoves DEF RlInv
<1>6. RlOpen' /\ RlSequenced'
  BY <1>1, <1>4, RlOpenFrame, RlSequencedFrame DEF RlInv
<1>7. RlPlaced'
  <2>1. CASE UNCHANGED <<rlAction, rlPhase, rlStation>>
    BY <1>1, <1>3, <2>1, RlPlacedFrame DEF RlInv
  <2>2. CASE RlTakes(request)
    <3>1. /\ rlAction' = request /\ rlPhase' = 0
      BY <2>2 DEF RlTakes
    <3>2. PICK s : s = [rlStation EXCEPT
                          !.peer = IF request.action = "prepareAuthentication" THEN request.channel ELSE @,
                          !.resume = IF request.action = "scanBegin" THEN rlStation.state ELSE @]
      OBVIOUS
    <3>3. rlStation' = s
      BY <2>2, <3>2 DEF RlTakes
    <3>4. /\ DOMAIN s = DOMAIN rlStation /\ s.state = rlStation.state /\ s.home = rlStation.home
          /\ s.peer = IF request.action = "prepareAuthentication" THEN request.channel ELSE rlStation.peer
          /\ s.resume = IF request.action = "scanBegin" THEN rlStation.state ELSE rlStation.resume
      BY <1>3, <3>2 DEF RlHomed
    <3>5. /\ <<request.action, rlStation.state>> \in RlAsked /\ request.action # "none"
          /\ request.action \in {"prepareInterface", "scanRestore"} => request.channel = rlStation.home
      BY <1>3, RlRequested DEF RlHomed
    <3>6. rlAction.action = "none"
      BY DEF RlBeginAction, RlNoAction
    <3>7. RlActing'
      BY <1>1, <1>3, <3>1, <3>3, <3>4, <3>5 DEF RlActing
    <3>8. request.action = "prepareAuthentication" => rlStation.state = "idle"
      BY <3>5 DEF RlAsked
    <3>9. request.action = "scanBegin" => rlStation.state \in {"idle", "linked"}
      BY <3>5 DEF RlAsked
    <3>10. RlHomed'
      BY <1>1, <1>3, <3>1, <3>3, <3>4, <3>6, <3>8, <3>9 DEF RlHomed, RlLinking
    <3> QED
      BY <3>7, <3>10 DEF RlPlaced
  <2> QED
    BY <2>1, <2>2 DEF RlBeginAction
<1> QED
  BY <1>5, <1>6, <1>7 DEF RlInv

----------------------------------------------------------------------------
(* The radio: every step, and what follows.                                *)

\* The radio as it is built.
LEMMA RlInvInit == RlInit => RlInv
<1> SUFFICES ASSUME RlInit PROVE RlInv
  OBVIOUS
<1>1. /\ rlBt = "quiet" /\ rlBtSees = FALSE /\ rlPublished = FALSE /\ rlStage = "none" /\ rlHeld = FALSE
      /\ rlGrants = "baseline" /\ rlCommand = RlNoCommand /\ rlMask = "none"
      /\ rlBody = "idle" /\ rlEmitting = FALSE /\ DOMAIN rlFw = {"policy", "cam", "cmac", "edca"}
  BY DEF RlInit, RlLeaseInit
<1>2. rlBoot = "configuration" /\ rlSeq = "idle" /\ rlPlan = <<>> /\ rlHealthy = {"bus", "mailbox"}
  BY DEF RlInit
<1>3. RlOwned /\ RlSeqStage
  BY <1>1, <1>2 DEF RlOwned, RlSeqStage, RlGranted
<1>4. RlBodies /\ RlBoots /\ RlClosed
  BY <1>1, <1>2 DEF RlBodies, RlBoots, RlClosed, RlInCall
<1>5. RlCommanded
  BY <1>1 DEF RlCommanded, RlNoCommand
<1>6. RlPlanned
  <2>0. PICK w : w = [to |-> "cam"]
    OBVIOUS
  <2>1. rlPlan \in {<<>>, <<w>>, <<w, w>>} /\ w.to \in {"cam", "cmac"}
    BY <1>2, <2>0
  <2>2. rlCommand.to \notin {"cam", "cmac"}
    BY <1>1 DEF RlNoCommand
  <2> QED
    BY <2>1, <2>2 DEF RlPlanned
<1>7. RlOpen
  BY <1>1 DEF RlOpen
<1>8. RlSequenced
  <2>1. /\ DOMAIN rlRfk = {"ok", "rxDc", "iq", "active", "home", "scan", "dpk"}
        /\ rlRfk.ok = {} /\ ~rlRfk.active /\ rlFlags = {} /\ rlHw = rlTarget
        /\ rlRun.action = "initialize" /\ rlRun.index = 1
    BY DEF RlInit
  <2>2. rlRun.index \in 1 .. Len(RlSteps[rlRun.action])
    BY <2>1, RlStepCounts
  <2> QED
    BY <1>2, <2>1, <2>2 DEF RlSequenced
<1>9. RlPlaced
  <2>1. /\ rlAction.action = "none" /\ rlPhase = 0 /\ rlStation.state = "stopped"
        /\ DOMAIN rlStation = {"state", "resume", "home", "peer"}
    BY DEF RlInit, RlNoAction
  <2> QED
    BY <1>2, <2>1 DEF RlPlaced, RlActing, RlHomed, RlLinking
<1> QED
  BY <1>3, <1>4, <1>5, <1>6, <1>7, <1>8, <1>9 DEF RlInv, RlLease

\* Every step of the radio, the firmware and Bluetooth keeps it.
LEMMA RlInvStep == RlInv /\ RlNext => RlInv'
<1> SUFFICES ASSUME RlInv, RlNext PROVE RlInv'
  OBVIOUS
<1>1. CASE RlBluetooth /\ UNCHANGED radioVars
  BY <1>1, RlBluetoothKeeps
<1>2. CASE RlProgress
  BY <1>2, RlLeaseStepKeeps, RlBeginFailsKeeps, RlBeginRadioKeeps, RlUploadKeeps, RlBtInitializedKeeps,
     RlPollLeaseKeeps, RlRunBeginsKeeps, RlRunEndsKeeps, RlPollRestoreKeeps, RlServiceFailsKeeps,
     RlPortBeginsKeeps, RlActionTunesKeeps, RlPortDoneKeeps, RlTablesBeginKeeps, RlTablesDoneKeeps, RlTunedKeeps
     DEF RlProgress
<1>3. CASE RlRunFails \/ RlRestoreFails \/ RlActionFails \/ RlAnswers \/ RlNotAnswered \/ RlStop
  BY <1>3, RlRunFailsKeeps, RlRestoreFailsKeeps, RlActionFailsKeeps, RlAnswersKeeps, RlNotAnsweredKeeps,
     RlStopKeeps
<1>4. CASE \E mask \in {"none", "management", "all"} : RlSetTraffic(mask)
  BY <1>4, RlSetTrafficKeeps
<1>5. CASE \E request \in RlRequests : RlBeginAction(request)
  BY <1>5, RlBeginActionKeeps
<1> QED
  BY <1>1, <1>2, <1>3, <1>4, <1>5 DEF RlNext

\* ... and so does a step in which the radio does not move.
LEMMA RlInvStutter == RlInv /\ UNCHANGED rlVars => RlInv'
<1> SUFFICES ASSUME RlInv, UNCHANGED rlVars PROVE RlInv'
  OBVIOUS
<1>1. UNCHANGED <<leaseVars, rlMask, rlBoot, rlSeq, rlRun, rlFlags, rlRfk, rlTarget, rlHw, rlAction, rlPhase,
                  rlPlan, rlHealthy, rlStation>>
  BY DEF rlVars, leaseVars, radioVars
<1> QED
  BY <1>1, RlLeaseFrame, RlOpenFrame, RlSequencedFrame, RlPlacedFrame DEF RlInv

\* What a calibration builds on is there when its turn comes.
LEMMA RlInvRunnable == RlInv => RlNeverRefused
<1> SUFFICES ASSUME RlInv, rlSeq = "run" PROVE RlRunnable(RlCurrent)
  BY DEF RlNeverRefused
<1>1. RlReached(rlRun.action, rlRun.index - 1)
  BY DEF RlInv, RlSequenced
<1> DEFINE step == RlSteps[rlRun.action][rlRun.index]
<1>2. RlCurrent = step
  BY DEF RlCurrent
<1>3. CASE rlRun.action = "initialize"
  <2>1. rlRun.index \in {1, 2, 3}
    BY <1>3, RlPlaces DEF RlInv
  <2>2. /\ rlRun.index = 1 => step = "rck"
        /\ rlRun.index = 2 => step = "dack"
        /\ rlRun.index = 3 => step = "initialRxDc"
    BY <1>3, RlStepNames
  <2>3. /\ rlRun.index = 1 => rlRfk.ok = {}
        /\ rlRun.index = 2 => "rck" \in rlRfk.ok
        /\ rlRun.index = 3 => "dack" \in rlRfk.ok
    BY <1>1, <1>3 DEF RlReached
  <2> HIDE DEF step
  <2> QED
    BY <1>2, <2>1, <2>2, <2>3 DEF RlRunnable
<1>4. CASE rlRun.action = "tune"
  <2>1. rlRun.index \in {1, 2, 3, 4, 5}
    BY <1>4, RlPlaces DEF RlInv
  <2>2. /\ rlRun.index = 1 => step = "channel"
        /\ rlRun.index = 2 => step = "rxDc"
        /\ rlRun.index = 3 => step = "iqk"
        /\ rlRun.index = 4 => step = "tssi"
        /\ rlRun.index = 5 => step = "dpk"
    BY <1>4, RlStepNames
  <2>3. /\ ~rlRfk.active /\ "rxDc" \in rlRfk.ok
        /\ rlRun.index = 3 => "prepared" \in rlRfk.ok /\ rlRfk.rxDc = rlTarget
        /\ rlRun.index = 4 => "iq" \in rlRfk.ok
        /\ rlRun.index = 5 => "iq" \in rlRfk.ok /\ "tssi" \in rlRfk.ok
    BY <1>1, <1>4 DEF RlReached
  <2> HIDE DEF step
  <2> QED
    BY <1>2, <2>1, <2>2, <2>3 DEF RlRunnable
<1>5. CASE rlRun.action = "scanBegin"
  <2>1. rlRun.index = 1
    BY <1>5, RlPlaces DEF RlInv
  <2>2. step = "scanBegin"
    BY <1>5, <2>1, RlStepNames
  <2>3. ~rlRfk.active /\ RlTx \subseteq rlRfk.ok
    BY <1>1, <1>5, <2>1 DEF RlReached
  <2> HIDE DEF step
  <2> QED
    BY <1>2, <2>2, <2>3 DEF RlRunnable, RlTx
<1>6. CASE rlRun.action = "scanTune"
  <2>1. rlRun.index \in {1, 2}
    BY <1>6, RlPlaces DEF RlInv
  <2>2. /\ rlRun.index = 1 => step = "channel"
        /\ rlRun.index = 2 => step = "scanTune"
    BY <1>6, RlStepNames
  <2>3. rlRfk.active
    BY <1>1, <1>6 DEF RlReached
  <2> HIDE DEF step
  <2> QED
    BY <1>2, <2>1, <2>2, <2>3 DEF RlRunnable
<1>7. CASE rlRun.action = "scanEnd"
  <2>1. rlRun.index = 1
    BY <1>7, RlPlaces DEF RlInv
  <2>2. step = "scanEnd"
    BY <1>7, <2>1, RlStepNames
  <2>3. rlRfk.active /\ rlRfk.home = rlTarget
    BY <1>1, <1>7, <2>1 DEF RlReached
  <2> HIDE DEF step
  <2> QED
    BY <1>2, <2>2, <2>3 DEF RlRunnable
<1> QED
  BY <1>3, <1>4, <1>5, <1>6, <1>7 DEF RlInv, RlSequenced

\* The invariant implies that calibrations are protected, Bluetooth keeps its turn,
\* traffic is calibrated, no calibration is refused and a stopped radio is quiet.
LEMMA RlInvSafe ==
  RlInv => /\ RlBodyProtected /\ RlBluetoothKeepsAntenna /\ RlTrafficCalibrated
           /\ RlNeverRefused /\ RlStoppedQuiet
<1> SUFFICES ASSUME RlInv
             PROVE  /\ RlBodyProtected /\ RlBluetoothKeepsAntenna /\ RlTrafficCalibrated
                    /\ RlNeverRefused /\ RlStoppedQuiet
  OBVIOUS
<1>1. RlBodyProtected /\ RlBluetoothKeepsAntenna
  BY DEF RlInv, RlLease, RlOwned, RlCommanded, RlClosed, RlBodyProtected, RlBluetoothKeepsAntenna
<1>2. RlTrafficCalibrated
  BY DEF RlInv, RlLease, RlClosed, RlOpen, RlFull, RlTrafficCalibrated
<1>3. RlStoppedQuiet
  BY DEF RlInv, RlLease, RlClosed, RlBodies, RlBoots, RlStoppedQuiet
<1> QED
  BY <1>1, <1>2, <1>3, RlInvRunnable

----------------------------------------------------------------------------
(* The parts together.                                                     *)

\* FramesWhole: received buffers are read in the order they were written, a frame is
\* handed up only whole, and neither a stopped nor a released ring is touched again
\* (RxDmaQueue::poll(), PciRxAssembly), for every ring and every device.
THEOREM FramesAlwaysWhole == MCSpec => []FramesWhole
<1>1. MCInit => RxInv
  BY RxInvInit DEF MCInit
<1>2. RxInv /\ [MCNext]_MCVars => RxInv'
  <2> SUFFICES ASSUME RxInv, [MCNext]_MCVars
               PROVE  RxInv'
    OBVIOUS
  <2>1. CASE RxNext
    BY <2>1, RxInvStep
  <2>2. CASE UNCHANGED rxVars
    BY <2>2, RxInvStutter
  <2> QED
    BY <2>1, <2>2 DEF MCNext, MCVars
<1>3. RxInv => FramesWhole
  BY RxInvSafe DEF FramesWhole
<1> QED
  BY <1>1, <1>2, <1>3, PTL DEF MCSpec

\* ControllerConsistent: one action at a time and after its drain, no frame under keys
\* of the old link, the link and net80211 follow the station, and no check of the
\* controller's own fires (poll(), beginAction(), newState()), for every sequence of
\* calls, interrupts and failures.
THEOREM ControllerAlwaysConsistent == MCSpec => []ControllerConsistent
<1>1. MCInit => NetInv
  BY NetInvInit DEF MCInit
<1>2. NetInv /\ [MCNext]_MCVars => NetInv'
  <2> SUFFICES ASSUME NetInv, [MCNext]_MCVars
               PROVE  NetInv'
    OBVIOUS
  <2>1. CASE NetNext
    BY <2>1, NetInvStep
  <2>2. CASE UNCHANGED netVars
    BY <2>2 DEF NetInv, netVars
  <2> QED
    BY <2>1, <2>2 DEF MCNext, MCVars
<1>3. NetInv => ControllerConsistent
  BY NetInvSafe DEF ControllerConsistent
<1> QED
  BY <1>1, <1>2, <1>3, PTL DEF MCSpec

\* RadioSafe: calibrations run only under a lease that Bluetooth has been told of and
\* respects, traffic only on the channel that is calibrated, no calibration is asked
\* for before what it builds on, and a stopped radio is quiet (BtRfkCoordination,
\* radioboot::Sequence, BootService), for every set of channels and every failure.
THEOREM RadioAlwaysSafe == MCSpec => []RadioSafe
<1>1. MCInit => RlInv
  BY RlInvInit DEF MCInit
<1>2. RlInv /\ [MCNext]_MCVars => RlInv'
  <2> SUFFICES ASSUME RlInv, [MCNext]_MCVars
               PROVE  RlInv'
    OBVIOUS
  <2>1. CASE RlNext
    BY <2>1, RlInvStep
  <2>2. CASE UNCHANGED rlVars
    BY <2>2, RlInvStutter
  <2> QED
    BY <2>1, <2>2 DEF MCNext, MCVars
<1>3. RlInv => RadioSafe
  BY RlInvSafe DEF RadioSafe
<1> QED
  BY <1>1, <1>2, <1>3, PTL DEF MCSpec
=============================================================================
