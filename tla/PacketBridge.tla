---------------------------- MODULE PacketBridge ----------------------------
\* Who owns a frame and the reference to the node it goes to, from the queues of
\* net80211 through the one prepared lease of the controller (Net80211PacketBridge,
\* pumpTx()) to the transmit rings, and the detached node of a foreground probe
\* (NativeScanProbeTx).  What the steps on the way answer is left open.  One record
\* holds the state, as the calls of a handler run under the gate one after another.
\* Below it, two parts with state of their own: what the descriptors and reports
\* say on the wire, and the received frames that wait for a report.
EXTENDS Integers, Sequences, SequencesExt, FiniteSets, FiniteSetsExt

CONSTANTS PbFrames, \* the frames there may be at once
          PbBudget, \* the rounds of a pumpTx()
          WfTop,    \* the last address a device can reach, scaled down from 2^32 - 1
          HfPpdus,  \* the counts of PPDUs, which wrap
          HfMaxAge, \* the age at which a held frame is given up
          HfActions, \* the bound on actions of the controller
          HfFrames  \* the bound on received frames

ASSUME HfAssumption == HfMaxAge \in Nat

VARIABLE pb

VARIABLES
    wfIn,    \* what is to be encoded or decoded
    wfStep,  \* "given", then where it has come to, or "refused"
    wfOut    \* what came of it

VARIABLE hf  \* the held frames and what decides about them

wfVars == <<wfIn, wfStep, wfOut>>

\* A lease is a frame with its node; frame 0 is none.
PbEmpty == [frame |-> 0, node |-> "none"]

\* mode: no traffic; a dwell with its probe; associated; faulted; shut down.
\* buffers and refs count what was taken less what was given back.
PbInit ==
    pb = [mode |-> "idle", mgtq |-> <<>>, sndq |-> <<>>, lease |-> PbEmpty, ring |-> {},
          buffers |-> [f \in PbFrames |-> 0], refs |-> [n \in {"bss", "probe"} |-> 0],
          owner |-> FALSE, alive |-> FALSE]

PbSpare(f) == pb.buffers[f] = 0

----------------------------------------------------------------------------
(* Giving back                                                             *)

PbFreeFrame(s, f) == IF f = 0 THEN s ELSE [s EXCEPT !.buffers[f] = @ - 1]
PbUnref(s, n) == IF n = "none" THEN s ELSE [s EXCEPT !.refs[n] = @ - 1]
PbRef(s, n) == [s EXCEPT !.refs[n] = @ + 1]

PbGiveBack(s, l) == PbUnref(PbFreeFrame(s, l.frame), l.node)

\* releaseTx(pendingTx)
PbReleaseTx(s) == [PbGiveBack(s, s.lease) EXCEPT !.lease = PbEmpty]

PbReleaseIfHeld(s) == IF s.lease.frame # 0 THEN PbReleaseTx(s) ELSE s

\* FrameOwner::releaseOwner(): only when no frame refers to the node.
\* Mutant: the node is freed whatever still refers to it.
PbReleaseOwnerAnyhow(s) ==
    IF s.owner THEN [PbUnref(s, "probe") EXCEPT !.owner = FALSE, !.alive = FALSE] ELSE s
PbReleaseOwner(s) ==
    IF s.owner /\ s.refs["probe"] = 1
    THEN [PbUnref(s, "probe") EXCEPT !.owner = FALSE, !.alive = FALSE] ELSE s

\* dropForegroundHostProbe(): the head of the queue, and the prepared frame.
\* Mutant: only the prepared frame is looked at.
PbDropHeldProbe(s) == IF s.owner /\ s.lease.node = "probe" THEN PbReleaseTx(s) ELSE s
PbDropProbe(s) ==
    LET q == IF s.owner /\ s.mgtq # <<>> /\ Head(s.mgtq).node = "probe"
             THEN [PbGiveBack(s, Head(s.mgtq)) EXCEPT !.mgtq = Tail(@)] ELSE s
    IN  IF q.owner /\ q.lease.node = "probe" THEN PbReleaseTx(q) ELSE q

----------------------------------------------------------------------------
(* Preparing and publishing                                                *)

\* protectFrame(): it passes, a check fails, or the encryption consumes the frame.
\* Mutant: a frame the encryption consumed is freed again.
PbProtectTwice(s) == {s, PbReleaseTx(s), PbReleaseTx(PbFreeFrame(s, s.lease.frame))}
PbProtect(s) ==
    {s, PbReleaseTx(s), PbReleaseTx([PbFreeFrame(s, s.lease.frame) EXCEPT !.lease.frame = 0])}

\* prepareEthernetTx(): the frame is too short, cannot be pulled up, or is not
\* encapsulated, and is consumed; else it goes to the node of the network.
PbPrepareEthernet(s, f) ==
    {PbFreeFrame(s, f)} \cup PbProtect([PbRef(s, "bss") EXCEPT !.lease = [frame |-> f, node |-> "bss"]])

\* prepareNextTx(), when there is something to prepare.
PbHasNext(s) == s.mgtq # <<>> \/ (s.mode = "run" /\ s.sndq # <<>>)
PbPrepareNext(s) ==
    IF s.mgtq # <<>>
    THEN LET t == [s EXCEPT !.lease = Head(s.mgtq), !.mgtq = Tail(@)]
         IN  IF t.lease.node = "none" THEN {PbReleaseTx(t)} ELSE PbProtect(t)
    ELSE PbPrepareEthernet([s EXCEPT !.sndq = Tail(@)], Head(s.sndq))

PbEnded(s) == [go |-> FALSE, s |-> s]
PbDown(s) == [s EXCEPT !.mode = "down"]
PbDropsAndFails(s) == PbEnded(PbDown(PbReleaseTx(s)))

\* The probe's dwell is over: cancelForeground().
PbCancel(s) == [PbDropProbe(s) EXCEPT !.mode = IF @ = "scan" THEN "idle" ELSE @]

\* submitNativeData(): published; refused with the lease still here; or refused after
\* the ring has it.
PbSubmit(s) ==
    LET staged == [s EXCEPT !.ring = @ \cup {s.lease}, !.lease = PbEmpty]
    IN  {[go |-> TRUE, s |-> staged], PbDropsAndFails(s), PbEnded(PbDown(staged))}

\* A prepared frame on its way to a ring.
PbPublish(s) ==
    LET probe == s.owner /\ s.lease.node = "probe"
    IN  CASE s.mode = "scan" /\ ~probe -> {PbDropsAndFails(s)}
          [] probe /\ s.mode # "scan" -> {PbEnded(PbCancel(PbReleaseTx(s)))}
          [] probe /\ s.ring # {} -> {PbDropsAndFails(s), PbEnded(s)}
          [] OTHER -> {PbDropsAndFails(s)} \cup PbSubmit(s)
                      \cup {PbEnded(s) : x \in IF s.ring # {} THEN {1} ELSE {}}
                      \cup {PbEnded(PbCancel(PbReleaseTx(s))) : x \in IF probe THEN {1} ELSE {}}

\* One round of pumpTx().
PbRound(s) ==
    IF s.lease.frame # 0 THEN PbPublish(s)
    ELSE IF ~PbHasNext(s) THEN {PbEnded(s)}
    ELSE UNION {IF p.lease.frame # 0 THEN PbPublish(p)
                ELSE IF p.mode = "scan" THEN {PbEnded(PbDown(p))} ELSE {[go |-> TRUE, s |-> p]} :
                p \in PbPrepareNext(s)}

PbPumped(s) ==
    IF s.mode \notin {"scan", "run"} THEN {s}
    ELSE LET rounds == FoldLeft(LAMBDA all, i : UNION {IF x.go THEN PbRound(x.s) ELSE {x} : x \in all},
                                {[go |-> TRUE, s |-> s]}, [i \in 1..PbBudget |-> i])
         IN  {x.s : x \in rounds}

PbPump == pb.mode \in {"scan", "run"} /\ pb' \in PbPumped(pb)

----------------------------------------------------------------------------
(* The probe of a dwell                                                    *)

\* FrameOwner::queueFrame(): no node; no body; the queue is not empty; or the output
\* routine, which consumes the frame, queues it, fails, or drops it without a word.
\* Mutant: the reference of a frame that was not queued is kept.
PbQueueFrameKeeping(s, f) ==
    LET retained == [s EXCEPT !.owner = TRUE, !.alive = TRUE, !.refs["probe"] = 2, !.buffers[f] = 1]
        queued   == [retained EXCEPT !.mgtq = Append(@, [frame |-> f, node |-> "probe"])]
    IN  {[go |-> TRUE, s |-> queued], PbEnded(PbReleaseOwner(PbFreeFrame(retained, f)))}
PbQueueFrame(s, f) ==
    LET made     == [s EXCEPT !.owner = TRUE, !.alive = TRUE, !.refs["probe"] = 1]
        body     == [made EXCEPT !.buffers[f] = 1]
        retained == PbRef(body, "probe")
        queued   == [retained EXCEPT !.mgtq = Append(@, [frame |-> f, node |-> "probe"])]
        consumed == PbReleaseOwner(PbUnref(PbFreeFrame(retained, f), "probe"))
    IN  {PbEnded(s), PbEnded(PbReleaseOwner(made))}
        \cup (IF s.mgtq # <<>> THEN {PbEnded(PbReleaseOwner(PbFreeFrame(body, f)))}
              ELSE {[go |-> TRUE, s |-> queued], PbEnded(queued), PbEnded(consumed)})

\* serviceForegroundProbe(): a frame that was not accepted is taken back.
PbServiceProbe(f) ==
    /\ pb.mode = "scan" /\ ~pb.owner /\ PbSpare(f)
    /\ \E x \in PbQueueFrame(pb, f) :
           pb' \in IF x.go THEN PbPumped(x.s) ELSE {PbCancel(PbReleaseOwner(PbDropProbe(x.s)))}

\* finishForegroundProbe(), after the dwell.
PbFinishProbe == pb.mode = "idle" /\ pb.owner /\ pb' = PbReleaseOwner(PbDropProbe(pb))

----------------------------------------------------------------------------
(* Around                                                                  *)

\* net80211 queues a management frame with its reference, and the system a packet.
PbManagementQueued(f, n) ==
    /\ pb.mode # "stopped" /\ PbSpare(f) /\ n \in {"bss", "none"}
    /\ LET s == [pb EXCEPT !.buffers[f] = 1, !.mgtq = Append(@, [frame |-> f, node |-> n])]
       IN  pb' = IF n = "none" THEN s ELSE PbRef(s, n)

PbPacketQueued(f) ==
    pb.mode = "run" /\ PbSpare(f) /\ pb' = [pb EXCEPT !.buffers[f] = 1, !.sndq = Append(@, f)]

\* drainCompletions()
PbComplete(l) == pb' = [PbGiveBack(pb, l) EXCEPT !.ring = @ \ {l}]

\* Traffic opens, for a dwell whose predecessor's probe is gone, or for a network.
PbOpen(mode) == pb.mode = "idle" /\ pb.ring = {} /\ ~pb.owner /\ pb' = [pb EXCEPT !.mode = mode]

\* setTraffic(none), or the start of a hardware action.
PbClose == pb.mode \in {"scan", "run"} /\ pb' = [PbReleaseIfHeld(PbDropProbe(pb)) EXCEPT !.mode = "idle"]

\* shutdown(): the rings give their frames back once the device has stopped; what did
\* not stop leaves the rest for another call.
PbShutdown ==
    /\ pb.mode # "stopped"
    /\ LET dropped == PbDropProbe(pb)
           emptied == FoldSet(LAMBDA l, s : PbGiveBack(s, l), [PbReleaseIfHeld(dropped) EXCEPT !.ring = {}], dropped.ring)
           ended   == PbReleaseOwner(emptied)
       IN  \/ pb' = PbDown(dropped)
           \/ pb' = IF ended.owner THEN PbDown(ended) ELSE [ended EXCEPT !.mode = "stopped"]

PbNext ==
    \/ PbPump \/ PbFinishProbe \/ PbClose \/ PbShutdown
    \/ \E f \in PbFrames : PbServiceProbe(f) \/ PbPacketQueued(f) \/ \E n \in {"bss", "none"} : PbManagementQueued(f, n)
    \/ \E l \in pb.ring : PbComplete(l)
    \/ \E mode \in {"scan", "run"} : PbOpen(mode)

PbSpec == PbInit /\ [][PbNext]_pb

----------------------------------------------------------------------------
(* Properties                                                              *)

PbLeases == pb.ring \cup {pb.lease} \cup ToSet(pb.mgtq)
PbHolds(f) == Cardinality({l \in pb.ring : l.frame = f}) + (IF pb.lease.frame = f THEN 1 ELSE 0)
              + Cardinality({i \in DOMAIN pb.mgtq : pb.mgtq[i].frame = f})
              + Cardinality({i \in DOMAIN pb.sndq : pb.sndq[i] = f})

\* No frame leaks, is freed twice or has two owners: on every path, through each of
\* the steps that consume a frame even when they fail, a buffer that was taken is
\* in exactly one place.
PbBuffersOwned == \A f \in PbFrames : pb.buffers[f] = PbHolds(f)

\* The same of the references to nodes: one for each frame that goes to it, and for
\* the probe's node its owner's.
PbNodesOwned ==
    \A n \in {"bss", "probe"} :
        pb.refs[n] = Cardinality({l \in PbLeases : l.node = n}) + (IF n = "probe" /\ pb.owner THEN 1 ELSE 0)

\* The probe's node outlives each frame that refers to it, in the queue, prepared or
\* with the device.
PbNodeOutlives == (\E l \in PbLeases : l.node = "probe") => pb.alive /\ pb.owner

\* A dwell that is over leaves its probe nowhere but with the device, so that the node
\* can be given up as soon as the ring has let go, and the driver is shut down with
\* nothing of its own left.
PbProbeGone ==
    /\ pb.mode \notin {"scan", "down"} => \A l \in {pb.lease} \cup ToSet(pb.mgtq) : l.node # "probe"
    /\ pb.mode = "stopped" => pb.lease = PbEmpty /\ pb.ring = {} /\ ~pb.owner /\ ~pb.alive

----------------------------------------------------------------------------
(* Descriptors.  A descriptor is the set of its bits that are one, each      *)
(* <<word, bit>>; a field is a place <<word, highest bit, lowest bit>>.      *)

WfNumber(bits) == FoldSet(LAMBDA i, sum : sum + 2 ^ i, 0, bits)
WfGet(bits, place) == WfNumber({i \in 0 .. place[2] - place[3] : <<place[1], place[3] + i>> \in bits})
WfPut(place, n) ==
    {<<place[1], place[3] + i>> : i \in {j \in 0 .. place[2] - place[3] : (n \div 2 ^ j) % 2 = 1}}

WfBody ==
    [wp_offset |-> <<0, 31, 24>>, en_wd_info |-> <<0, 22, 22>>, fw_dl |-> <<0, 20, 20>>,
     ch_dma |-> <<0, 19, 16>>, hdr_llc_len |-> <<0, 15, 11>>, wd_page |-> <<0, 7, 7>>,
     hw_ssn_sel |-> <<0, 3, 2>>, hw_seq_mode |-> <<0, 1, 0>>,
     mac_id |-> <<2, 30, 24>>, tid_indicate |-> <<2, 23, 23>>, qsel |-> <<2, 22, 17>>, pkt_size |-> <<2, 13, 0>>,
     bk |-> <<3, 13, 13>>, agg_en |-> <<3, 12, 12>>, seq |-> <<3, 11, 0>>]
WfInfo ==
    [use_rate |-> <<6, 30, 30>>, data_rate |-> <<6, 24, 16>>, dis_data_fb |-> <<6, 10, 10>>, port |-> <<6, 6, 4>>,
     data_retry_lowest_rate |-> <<7, 24, 16>>, a_ctrl_bsr |-> <<7, 14, 14>>, ampdu_num |-> <<7, 7, 0>>,
     ampdu_density |-> <<8, 20, 18>>, sec_type |-> <<8, 12, 9>>, sec_en |-> <<8, 8, 8>>,
     sec_cam_idx |-> <<8, 7, 0>>]
WfRts == <<10, 27, 27>>
WfHwRts == <<10, 31, 31>>

WfPlaces == WfBody @@ WfInfo
WfNoInfo == [f \in DOMAIN WfPlaces |-> 0] @@ [is_bmc |-> 0]

WfLimits ==
    [ch_dma |-> 15, hdr_llc_len |-> 31, hw_ssn_sel |-> 3, hw_seq_mode |-> 3, qsel |-> 63, pkt_size |-> 16383,
     mac_id |-> 127, seq |-> 4095, data_rate |-> 511, port |-> 7, data_retry_lowest_rate |-> 511,
     ampdu_density |-> 7, sec_type |-> 15]

\* txFieldsFit()
\* Mutant: the limit of the rate below which a retry may not go is forgotten.
WfFieldsMostlyFit(p) == \A f \in DOMAIN WfLimits \ {"data_retry_lowest_rate"} : p[f] <= WfLimits[f]
WfFieldsFit(p) == \A f \in DOMAIN WfLimits : p[f] <= WfLimits[f]

\* rtw89_core_fill_txdesc(): words are or-ed together from their fields.
WfFill(p) ==
    UNION {WfPut(WfBody[f], p[f]) : f \in DOMAIN WfBody}
      \cup IF p.en_wd_info = 0 THEN {}
           ELSE UNION {WfPut(WfInfo[f], p[f]) : f \in DOMAIN WfInfo}
                  \cup WfPut(WfRts, 1 - p.is_bmc) \cup WfPut(WfHwRts, 1)

WfBytes(p) == IF p.en_wd_info = 1 THEN 48 ELSE 24

\* encodeTx(), whether it can, for a buffer of this capacity.
WfEncodable(p, capacity) == p.pkt_size # 0 /\ WfFieldsFit(p) /\ WfBytes(p) <= capacity

WfReachable(address, length) == length # 0 /\ address <= WfTop /\ length - 1 <= WfTop - address

\* dataChannel(), -1 for no queue of this device
WfChannel(qsel) == IF qsel \in 0 .. 3 THEN qsel ELSE IF qsel = 18 THEN 8 ELSE IF qsel = 17 THEN 9 ELSE -1

\* legacyTx(): the rate is the lowest basic rate that the channel allows.
\* Mutant: a basic rate is taken whatever the band.
WfAllowedAnywhere(frame) == frame.rates
WfAllowed(frame) ==
    frame.rates \cap (IF frame.band = 1 THEN 4 .. 11 ELSE IF frame.primary = 14 THEN 0 .. 3 ELSE 0 .. 11)

WfSendable(frame) ==
    /\ frame.bytes \in 24 .. 16383 /\ frame.macid < 128 /\ frame.width = 0 /\ frame.validChannel
    /\ frame.version = 0 /\ frame.rates \subseteq 0 .. 11
    /\ frame.type \in {"management", "null", "data"} /\ frame.plain
    /\ frame.rates # {} => WfAllowed(frame) # {}

WfLegacyTx(frame) ==
    LET rate == IF WfAllowed(frame) # {} THEN Min(WfAllowed(frame)) ELSE 4 * frame.band
        all == [pkt_size |-> frame.bytes, mac_id |-> frame.macid, seq |-> frame.number, is_bmc |-> frame.group,
                wd_page |-> 1, en_wd_info |-> 1, use_rate |-> 1, dis_data_fb |-> 1,
                data_rate |-> rate, data_retry_lowest_rate |-> rate]
    IN  (IF frame.type = "data" THEN [qsel |-> 0, ch_dma |-> 0, hdr_llc_len |-> 12]
         ELSE [qsel |-> 18, ch_dma |-> 8, hw_ssn_sel |-> 1, hw_seq_mode |-> 1]) @@ all @@ WfNoInfo

\* The fields of a receive descriptor, and those of its long form (the time stamp in
\* word 2 is only passed on).
WfShort ==
    [pkt_size |-> <<0, 13, 0>>, shift |-> <<0, 15, 14>>, mac_info_valid |-> <<0, 23, 23>>, pkt_type |-> <<0, 27, 24>>,
     drv_info_size |-> <<0, 30, 28>>, long_rxdesc |-> <<0, 31, 31>>,
     ppdu_type |-> <<1, 3, 0>>, ppdu_cnt |-> <<1, 6, 4>>, sr_en |-> <<1, 7, 7>>, user_id |-> <<1, 15, 8>>,
     data_rate |-> <<1, 24, 16>>, gi_ltf |-> <<1, 27, 25>>, bw |-> <<1, 31, 30>>,
     addr1_match |-> <<3, 0, 0>>, sw_dec |-> <<3, 1, 1>>, hw_dec |-> <<3, 2, 2>>, crc32_err |-> <<3, 9, 9>>,
     icv_err |-> <<3, 10, 10>>]
WfLong ==
    [frame_type |-> <<4, 1, 0>>, sec_cam_id |-> <<5, 7, 0>>, addr_cam_id |-> <<5, 15, 8>>, mac_id |-> <<5, 23, 16>>,
     rx_pl_id |-> <<5, 27, 24>>, addr_cam_valid |-> <<5, 28, 28>>]

\* rtw89_core_query_rxdesc(), with the shift that decodeRxHeader() sets before it.
WfQuery(bits) ==
    LET long == <<0, 31>> \in bits
        short == [f \in DOMAIN WfShort |-> WfGet(bits, WfShort[f])]
    IN  [f \in DOMAIN WfLong |-> IF long THEN WfGet(bits, WfLong[f]) ELSE 0] @@ short
          @@ [offset |-> 2 * short.shift + 8 * short.drv_info_size, rxd_len |-> IF long THEN 32 ELSE 16]

\* Before a descriptor are the four bytes of the segment.
WfPrefix == 4

\* decodeRxHeader() of size bytes: nothing, or the info with the place of the payload.
\* Mutant: the driver information and the shift are not looked for in the segment.
WfHeaderShort(bits, size) ==
    LET info == WfQuery(bits)
    IN  IF \/ size - WfPrefix < info.rxd_len \/ info.pkt_size = 0 \/ info.pkt_type = 15
           \/ info.icv_err + info.crc32_err > 0
        THEN {} ELSE {[info |-> info, at |-> WfPrefix + info.offset + info.rxd_len, length |-> info.pkt_size]}
WfHeader(bits, size) ==
    LET info == WfQuery(bits)
        overhead == info.offset + info.rxd_len
    IN  IF \/ size < WfPrefix \/ size - WfPrefix < info.rxd_len \/ info.pkt_size = 0 \/ info.pkt_type = 15
           \/ overhead > size - WfPrefix \/ info.icv_err + info.crc32_err > 0
        THEN {} ELSE {[info |-> info, at |-> WfPrefix + overhead, length |-> info.pkt_size]}

\* decodeRx()
WfDecode(bits, size) == {packet \in WfHeader(bits, size) : packet.length <= size - packet.at}

\* The bytes of a PciRxAssembly
WfAssembly == 4 + 32 + 6 + 56 + 16383

(* A report of the PHY on a received PPDU, in units of eight bytes; a unit is *)
(* its first and its second word.                                           *)

\* Bytes of an element by its kind; 255: the element says it.
WfSizes == <<16, 32, 24, 24, 8, 8, 8, 8, 255, 8, 255, 176, 255, 255, 255, 255, 255, 255, 16, 24, 255, 255, 255, 0,
             24, 24, 24, 24, 32, 32, 32, 32>>
WfUnits(word) ==
    LET size == WfSizes[(word % 32) + 1]
    IN  IF size = 255 THEN (word \div 32) % 128 ELSE size \div 8

\* Mutant: an element that ends after the report is taken.
WfElementStarts(units, at) == WfUnits(units[at + 1][1]) # 0
WfElementWhole(units, at) == WfUnits(units[at + 1][1]) \in 1 .. Len(units) - at

\* The channel an element of kind 1 names, none, or one this device does not have.
WfNoChannel == [band |-> 0, channel |-> 0]
WfNamed(word) ==
    LET index == (word \div 2 ^ 20) % 16
        delta == (word \div 2 ^ 16) % 16
    IN  IF index = 0 THEN [band |-> 0, channel |-> delta]
        ELSE [band |-> 1, channel |-> IF index \in 2 .. 5 THEN <<36, 100, 132, 149>>[index - 1] + 2 * delta ELSE 0]
WfExists(c) ==
    IF c.band = 0 THEN c.channel \in 1 .. 14
    ELSE \/ c.channel \in 36 .. 144 /\ c.channel \notin 65 .. 99 /\ c.channel % 4 = 0
         \/ c.channel \in 149 .. 177 /\ c.channel % 4 = 1

\* Units before the report when the MAC put its own information there.
WfMacUnits(unit) ==
    1 + (((unit[1] % 16) + 1) \div 2) + 12 * ((unit[1] \div 2 ^ 29) % 2) + ((unit[2] \div 2 ^ 16) % 256)

\* The walk over the elements: where it is, whether it goes on, the channel so far.
WfWalk(units) ==
    LET step[n \in 0 .. Len(units)] ==
          IF n = 0 THEN [at |-> 1, fine |-> TRUE, channel |-> WfNoChannel]
          ELSE LET w == step[n - 1]
                   word == units[w.at + 1][1]
                   names == word % 32 = 1 /\ (word \div 2 ^ 16) % 256 # 0
               IN  IF ~w.fine \/ w.at >= Len(units) THEN w
                   ELSE IF ~WfElementWhole(units, w.at) \/ (names /\ ~WfExists(WfNamed(word)))
                        THEN [w EXCEPT !.fine = FALSE]
                        ELSE [at |-> w.at + WfUnits(word), fine |-> TRUE,
                              channel |-> IF names THEN WfNamed(word) ELSE w.channel]
    IN  step[Len(units)]

\* phySample(): nothing, or the sample.
WfSampleOf(report) ==
    LET skip == IF report.mac THEN WfMacUnits(report.units[1]) ELSE 0
        units == SubSeq(report.units, skip + 1, Len(report.units))
        head == units[1]
        walk == WfWalk(units)
        loud == (Max({head[2] % 256, (head[2] \div 256) % 256}) \div 2) - 110
    IN  IF \/ report.units = <<>> \/ (report.mac /\ report.units[1][1] % 16 > 4)
           \/ skip >= Len(report.units)
           \/ (head[1] \div 128) % 2 = 0 \/ head[1] % 32 < 11
           \/ 8 * ((head[1] \div 256) % 256) # 8 * Len(units) + report.extra
           \/ ~walk.fine
        THEN {}
        ELSE {[channel |-> walk.channel, dbm |-> loud, normalized |-> Max({0, Min({100, loud + 100})})]}

----------------------------------------------------------------------------
(* What is encoded and decoded here, at the edges of every field and limit. *)

WfInfos ==
    LET top(f) == 2 ^ (WfPlaces[f][2] - WfPlaces[f][3] + 1) - 1
        wide == {"pkt_size", "seq", "data_rate", "data_retry_lowest_rate"}
        values(f) == {v \in {0, 1, top(f), top(f) + 1} : v <= IF top(f) = 1 THEN 1 ELSE IF f \in wide THEN 65535 ELSE 255}
        base == {[WfNoInfo EXCEPT !.pkt_size = 1], [f \in DOMAIN WfPlaces |-> top(f)] @@ WfNoInfo}
    IN  UNION {{[b EXCEPT ![f] = v, !.is_bmc = g] : b \in base, v \in values(f), g \in 0 .. 1} : f \in DOMAIN WfPlaces}

WfFrames ==
    LET channel(b, p, w, v) == [band |-> b, primary |-> p, width |-> w, validChannel |-> v]
        channels == {channel(0, 1, 0, TRUE), channel(0, 14, 0, TRUE), channel(1, 36, 0, TRUE),
                     channel(1, 37, 0, FALSE), channel(1, 36, 1, TRUE)}
        frame(t, b, m, c, r) == [type |-> t, bytes |-> b, macid |-> m, rates |-> r, version |-> 0, plain |-> TRUE,
                                 number |-> 4095, group |-> IF m = 0 THEN 1 ELSE 0] @@ c
    IN  {frame(t, b, m, c, r) :
           t \in {"management", "null", "data", "control"}, b \in {23, 24, 16383, 16384}, m \in {0, 127, 128},
           c \in channels, r \in {{}, {0}, {0, 11}, {3, 4}, {4, 5}, {12}}}
        \cup {[frame("data", 24, 0, channel(0, 1, 0, TRUE), {}) EXCEPT !.version = v, !.plain = p] :
                v \in 0 .. 1, p \in BOOLEAN}

WfSegments ==
    LET bits(size, type, shift, driver, long, wrong, rest) ==
          LET set == {<<"pkt_size", size>>, <<"pkt_type", type>>, <<"shift", shift>>, <<"drv_info_size", driver>>,
                      <<"long_rxdesc", long>>, <<"crc32_err", wrong>>}
              others == {"mac_info_valid", "ppdu_cnt", "data_rate", "bw", "sw_dec", "hw_dec"}
          IN  UNION {WfPut(WfShort[v[1]], v[2]) : v \in set}
                \cup IF rest THEN UNION {WfPut(WfShort[f], 511) : f \in others} \cup WfPut(WfLong.mac_id, 255) ELSE {}
    IN  {[bits |-> bits(z, t, s, d, l, w, r), written |-> n] :
           z \in {0, 1, 16383}, t \in {0, 15}, s \in {0, 3}, d \in {0, 7}, l \in 0 .. 1, w \in 0 .. 1, r \in BOOLEAN,
           n \in {0, 3, 4, 19, 20, 35, 36, 41, 42, 97, 98, 99}}

WfReports ==
    LET head(n) == <<11 + 128 + 256 * n, 60 + 256 * 100>>
        names(code) == 1 + 65536 * code
        few == {4, names(6), names(112), 8 + 32 * 2, 8}
        whole(words) == <<head(Len(words) + 1)>> \o [i \in 1 .. Len(words) |-> <<words[i], 0>>]
        report(mac, units, extra) == [mac |-> mac, units |-> units, extra |-> extra]
        two == <<names(6), 4, 4, 4, names(36), 23, 8, 4>>
        macs == {<<users + b, c * 65536>> : users \in {0, 3, 4, 5}, b \in {0, 2 ^ 29}, c \in {0, 2}}
    IN  {report(FALSE, whole(words), 0) : words \in BoundedSeq(few, 4) \cup [1 .. 5 -> few \ {8}]}
          \cup {report(FALSE, whole(words), extra) : words \in {two, <<23>>, <<names(0)>>, <<2, 4, 4>>}, extra \in {0, 4}}
          \cup {report(FALSE, <<h>>, 0) : h \in {head(0), head(2), <<10 + 128 + 256, 0>>, <<11 + 256, 0>>}}
          \cup {report(FALSE, <<>>, e) : e \in {0, 4}}
          \cup {report(TRUE, <<m>> \o [i \in 1 .. n |-> <<4, 0>>] \o whole(<<4, names(6), 4, 4, 4>>), 0) :
                  m \in macs, n \in {0, 2, 4, 14, 16, 18}}

WfInputs ==
    {[kind |-> "info", info |-> p, capacity |-> c] : p \in WfInfos, c \in {23, 24, 47, 48}}
      \cup {[kind |-> "frame", frame |-> f] : f \in WfFrames}
      \cup {[kind |-> "command", bytes |-> n, room |-> r, at |-> a, says |-> s, apart |-> d] :
              n \in {7, 8, 16383, 16384}, r \in {23, 24}, a \in {0, WfTop - 31, WfTop - 30}, s \in BOOLEAN, d \in BOOLEAN}
      \cup {[kind |-> "segment", segment |-> g] : g \in WfSegments}
      \cup {[kind |-> "report", report |-> r] : r \in WfReports}

WfInit == wfIn \in WfInputs /\ wfStep = "given" /\ wfOut = <<>>

WfGoes(step, out) == wfStep' = step /\ wfOut' = out /\ UNCHANGED wfIn
WfRefuses == WfGoes("refused", <<>>)
WfGiven(kind) == wfStep = "given" /\ wfIn.kind = kind

WfEncode ==
    /\ WfGiven("info")
    /\ IF WfEncodable(wfIn.info, wfIn.capacity)
       THEN WfGoes("encoded", [info |-> wfIn.info, bits |-> WfFill(wfIn.info)]) ELSE WfRefuses

\* encodeCommandDma(); at is where the packet is mapped.
WfCommand ==
    /\ WfGiven("command")
    /\ LET p == [WfNoInfo EXCEPT !.ch_dma = 12, !.pkt_size = wfIn.bytes, !.seq = 4095]
       IN  IF /\ wfIn.bytes \in 8 .. 16383 /\ wfIn.room >= 24 /\ WfReachable(wfIn.at, wfIn.bytes + 24)
              /\ wfIn.says /\ wfIn.apart /\ WfEncodable(p, wfIn.bytes + wfIn.room)
           THEN WfGoes("encoded", [info |-> p, bits |-> WfFill(p)]) ELSE WfRefuses

WfPrepare ==
    /\ WfGiven("frame")
    /\ IF WfSendable(wfIn.frame) THEN WfGoes("prepared", [info |-> WfLegacyTx(wfIn.frame)]) ELSE WfRefuses

\* stage() with encodePciTx(); the two addresses are those of the page of the ring.
WfStage ==
    /\ wfStep = "prepared"
    /\ \E page \in {0, 32767}, descriptor \in {0, WfTop - 63, WfTop - 62}, buffer \in {0, WfTop - 23, WfTop - 22} :
         LET p == wfOut.info
             word == WfBytes(p) \div 4
             tail == WfPut(<<word, 14, 0>>, page) \cup {<<word, 15>>} \cup WfPut(<<word + 2, 15, 0>>, p.pkt_size)
                       \cup {<<word + 2, 16>>, <<word + 2, 31>>} \cup WfPut(<<word + 3, 30, 0>>, buffer)
         IN  IF /\ p.pkt_size = wfIn.frame.bytes /\ WfChannel(p.qsel) >= 0 /\ p.ch_dma = WfChannel(p.qsel)
                /\ WfReachable(descriptor, WfBytes(p) + 16) /\ WfReachable(buffer, p.pkt_size) /\ WfEncodable(p, 64)
             THEN WfGoes("posted", [info |-> p, page |-> page, buffer |-> buffer, bits |-> WfFill(p) \cup tail])
             ELSE WfGoes("refused", [mapped |-> {<<descriptor, 64>>, <<buffer, p.pkt_size>>}])

\* The device sends the frame and reports, from what it read, that it let go of it.
WfReport ==
    /\ wfStep = "posted"
    /\ \E status \in 0 .. 4, polluted \in 0 .. 1 :
         WfGoes("reported",
           [wfOut EXCEPT !.bits =
              WfPut(<<0, 30, 16>>, WfGet(@, <<12, 14, 0>>)) \cup WfPut(<<0, 12, 8>>, WfGet(@, WfPlaces.qsel))
                \cup WfPut(<<0, 7, 0>>, WfGet(@, WfPlaces.mac_id)) \cup WfPut(<<0, 15, 13>>, status)
                \cup WfPut(<<0, 31, 31>>, polluted)])

\* decodeRelease()
WfRelease ==
    /\ wfStep = "reported"
    /\ LET of(hi, lo) == WfGet(wfOut.bits, <<0, hi, lo>>)
           report == [page |-> of(30, 16), qsel |-> of(12, 8), macid |-> of(7, 0), status |-> of(15, 13)]
       IN  IF WfChannel(report.qsel) >= 0 /\ report.status <= 3
           THEN WfGoes("released", [info |-> wfOut.info, page |-> wfOut.page, report |-> report])
           ELSE WfGoes("refused", [status |-> report.status])

\* feed(): the first segment says where the frame ends; the later ones fill it.
WfSegment ==
    /\ WfGiven("segment")
    /\ \E heads \in {WfHeader(wfIn.segment.bits, wfIn.segment.written)} :
         IF heads = {} \/ \E h \in heads : h.at + h.length > WfAssembly
         THEN WfGoes("refused", [header |-> heads]) ELSE \E h \in heads : WfGoes("headed", h)

WfFrameWhole ==
    /\ wfStep = "headed"
    /\ \E packets \in {WfDecode(wfIn.segment.bits, wfOut.at + wfOut.length)} :
         IF packets = {} THEN WfGoes("refused", [header |-> {wfOut}])
         ELSE \E packet \in packets : WfGoes("whole", [packet |-> packet, header |-> wfOut])

WfSample ==
    /\ WfGiven("report")
    /\ \E samples \in {WfSampleOf(wfIn.report)} :
         IF samples = {} THEN WfRefuses ELSE \E sample \in samples : WfGoes("sampled", sample)

WfNext ==
    \/ WfEncode \/ WfCommand \/ WfPrepare \/ WfStage \/ WfReport \/ WfRelease
    \/ WfSegment \/ WfFrameWhole \/ WfSample

----------------------------------------------------------------------------
(* Frames that wait for the first report after a channel was set            *)
(* (MacNetworkPhyWait): a frame is its number, and carries the number of the *)
(* actions begun before it was received.                                    *)

HfNone == [frame |-> 0, age |-> 0, rate |-> 0, actions |-> 0]

HfInit ==
    hf = [slots |-> [p \in HfPpdus |-> HfNone], sample |-> FALSE, channel |-> "set", action |-> "none",
          actions |-> 0, frames |-> 0, given |-> <<>>]

\* phyWait.clear()
HfClear(s) == [s EXCEPT !.slots = [p \in HfPpdus |-> HfNone]]

\* rxInfo() and the conditions of receiveData()
HfKnown(s) == s.channel = "set" /\ s.sample
HfOpen == hf.action = "none" /\ hf.frames < HfFrames

HfDeliver(s, f) == [s EXCEPT !.given = Append(@, <<f.frame, f.actions = s.actions>>)]

HfReceive ==
    /\ HfOpen
    /\ \E p \in HfPpdus, rate \in 0 .. 1 :
         LET f == [frame |-> hf.frames + 1, age |-> 0, rate |-> rate, actions |-> hf.actions]
             next == [hf EXCEPT !.frames = @ + 1]
         IN  hf' = IF HfKnown(hf) THEN HfDeliver(next, f) ELSE [next EXCEPT !.slots[p] = f]

\* take(): the slot is emptied before the protocol sees the frame.
\* Mutant: it is left to the next frame.
HfTakeKeeping(s, p, rate) ==
    IF s.slots[p].frame # 0 /\ s.slots[p].rate = rate /\ s.slots[p].age \in 0 .. HfMaxAge
    THEN HfDeliver(s, s.slots[p]) ELSE s
HfTake(s, p, rate) ==
    LET f == s.slots[p]
        out == [s EXCEPT !.slots[p] = HfNone]
    IN  IF f.frame # 0 /\ f.rate = rate /\ f.age \in 0 .. HfMaxAge THEN HfDeliver(out, f) ELSE out

\* A report that is well formed, and names this channel, another one, or none.
HfReport ==
    \E p \in HfPpdus, rate \in 0 .. 1, names \in {"this", "other", "none"} :
      LET next == IF hf.channel = "set" /\ names # "other" THEN [hf EXCEPT !.sample = TRUE] ELSE hf
      IN  hf' = IF hf.action = "none" /\ HfKnown(next) /\ names # "other" THEN HfTake(next, p, rate) ELSE next

\* setTraffic(none)
HfQuiet == hf' = HfClear(hf)

\* beginAction()
\* Mutant: frames held so far are kept over the action.
HfBeginKeeping ==
    /\ hf.action = "none" /\ hf.actions < HfActions
    /\ hf' = [hf EXCEPT !.action = "begun", !.actions = @ + 1]
HfBegin ==
    /\ hf.action = "none" /\ hf.actions < HfActions
    /\ hf' = [HfClear(hf) EXCEPT !.action = "begun", !.actions = @ + 1]

\* launchTune() and finishTune(); other actions leave the channel alone.
HfTune == hf.action = "begun" /\ hf' = [hf EXCEPT !.action = "tuning", !.sample = FALSE, !.channel = "none"]
HfTuned == hf.action = "tuning" /\ hf' = [hf EXCEPT !.action = "done", !.channel = "set"]
HfOther == hf.action = "begun" /\ hf' = [hf EXCEPT !.action = "done"]
HfEnd == hf.action = "done" /\ hf' = [hf EXCEPT !.action = "none"]

\* Time, which may also step back.
HfAged(f, d) == IF f.frame = 0 THEN f ELSE [f EXCEPT !.age = Max({-1, Min({HfMaxAge + 1, f.age + d})})]
HfTime == \E d \in {-1, 1} : hf' = [hf EXCEPT !.slots = [p \in HfPpdus |-> HfAged(hf.slots[p], d)]]

HfNext ==
    \/ HfReceive \/ HfReport \/ HfQuiet \/ HfBegin \/ HfTune \/ HfTuned \/ HfOther \/ HfEnd \/ HfTime

----------------------------------------------------------------------------

\* What the device reads in a descriptor is what the host meant, field by field;
\* a field is refused only when it would lose bits or the buffer is too small; no
\* bit stands outside of the fields (rtw89_core_fill_txdesc() or-s masked values,
\* so that a limit forgotten in DescriptorLimits.inc would be lost silently).
WfDescriptorsTrue ==
    LET read(out) ==
          \A f \in DOMAIN WfPlaces :
            f \in DOMAIN WfBody \/ out.info.en_wd_info = 1 => WfGet(out.bits, WfPlaces[f]) = out.info[f]
    IN  /\ wfStep \in {"encoded", "posted"} => read(wfOut)
        /\ wfStep = "encoded" /\ wfOut.info.en_wd_info = 1 =>
             /\ WfGet(wfOut.bits, WfRts) = 1 - wfOut.info.is_bmc
             /\ \A b \in wfOut.bits : \E q \in Range(WfPlaces) \cup {WfRts, WfHwRts} : b[1] = q[1] /\ b[2] \in q[3] .. q[2]
        /\ wfStep = "refused" /\ wfIn.kind = "info" =>
             LET p == wfIn.info
             IN  \/ p.pkt_size = 0 \/ wfIn.capacity < WfBytes(p)
                 \/ \E f \in DOMAIN WfPlaces : p[f] >= 2 ^ (WfPlaces[f][2] - WfPlaces[f][3] + 1)

\* A frame that was accepted for sending is encoded unless its memory is out of the
\* device's reach, goes out at a rate its band has, and the release report the
\* device makes of it leads back to the page, queue and station it was posted for
\* (legacyTx, encodePciTx and decodeRelease, which have limits of their own).
WfReleaseFindsFrame ==
    /\ wfStep = "prepared" =>
         /\ wfOut.info.data_rate \in IF wfIn.frame.band = 1 THEN 4 .. 11 ELSE IF wfIn.frame.primary = 14 THEN 0 .. 3 ELSE 0 .. 11
         /\ wfIn.frame.rates # {} => wfOut.info.data_rate \in wfIn.frame.rates
    /\ wfStep = "refused" /\ wfIn.kind = "frame" /\ wfOut # <<>> =>
         IF "mapped" \in DOMAIN wfOut THEN \E m \in wfOut.mapped : m[1] + m[2] > WfTop + 1 ELSE wfOut.status > 3
    /\ wfStep = "released" =>
         /\ wfOut.report.page = wfOut.page /\ wfOut.report.qsel = wfOut.info.qsel
         /\ wfOut.report.macid = wfOut.info.mac_id

\* The payload of a received frame lies inside of what was assembled, the frame
\* always fits the storage, what the first segment let pass is not refused when it
\* is whole, and is then decoded the same; the header lay in the first segment
\* (decodeRxHeader for a fragment against decodeRx for the frame).
WfReceivedInside ==
    /\ wfStep = "headed" => wfOut.at <= wfIn.segment.written
    /\ wfStep = "whole" => wfOut.packet = wfOut.header
    /\ wfStep = "refused" /\ wfIn.kind = "segment" => wfOut.header = {}

\* The units are a head and elements end to end, whose channels exist; c is the one
\* that the last of those which name one names.
WfTiled(units, c) ==
    LET word(i) == units[i][1]
        end(i) == i + WfUnits(word(i))
        last == Len(units) + 1
    IN  \E starts \in SUBSET (2 .. Len(units)) :
          LET named == {i \in starts : word(i) % 32 = 1 /\ (word(i) \div 2 ^ 16) % 256 # 0}
          IN  /\ \A i \in starts : end(i) > i /\ end(i) \in starts \cup {last}
              /\ {2} \cup {end(i) : i \in starts} = starts \cup {last}
              /\ \A i \in named : WfExists(WfNamed(word(i)))
              /\ c = IF named = {} THEN WfNoChannel ELSE WfNamed(word(Max(named)))

\* An accepted report is tiled by its elements to its last byte, and the sample's
\* channel is the one that the last element to name one names; and a report with a
\* proper head that is so tiled is not refused (phySample).
WfReportTiled ==
    LET skip == IF wfIn.report.mac THEN WfMacUnits(wfIn.report.units[1]) ELSE 0
        units == SubSeq(wfIn.report.units, skip + 1, Len(wfIn.report.units))
    IN  /\ wfStep = "sampled" => WfTiled(units, wfOut.channel)
        /\ wfStep = "refused" /\ wfIn.kind = "report" /\ ~wfIn.report.mac /\ wfIn.report.extra = 0 =>
             ~(/\ units # <<>> /\ units[1][1] = 11 + 128 + 256 * Len(units)
               /\ \E c \in {WfNoChannel} \cup {WfNamed(units[i][1]) : i \in DOMAIN units} : WfTiled(units, c))

\* A frame that waits for its report is never handed up under another channel than
\* the one it was received on, over whatever actions and reports come in between,
\* and no frame is handed up twice or kept when it was (MacNetworkPhyWait).
HfHeldInTime ==
    LET frames == [i \in DOMAIN hf.given |-> hf.given[i][1]]
    IN  /\ IsInjective(frames)
        /\ \A i \in DOMAIN hf.given : hf.given[i][2]
        /\ \A p \in HfPpdus : hf.slots[p].frame # 0 => hf.slots[p].frame \notin ToSet(frames)

=============================================================================
