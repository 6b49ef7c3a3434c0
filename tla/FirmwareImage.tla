---------------------------- MODULE FirmwareImage ---------------------------
\* The firmware container (FirmwarePlan.hpp): which image of it is chosen, how its
\* sections lie, and the packets (FirmwarePackets.hpp) that carry them to the
\* device.  A file is what its headers say: the table of images with their cut,
\* kind, start and length, and the sections of the image; the bytes themselves
\* are named by their offsets.  Offsets are words below FiWord, as size_t is.
EXTENDS Naturals, Sequences, SequencesExt, FiniteSetsExt

CONSTANTS FiWord,    \* offsets and lengths are below it, and wrap at it
          FiBytes,   \* the length of the file
          FiTable,   \* where its table of images ends
          FiPacket,  \* packetBytes
          FiTrailer, \* the bytes of a checksum trailer
          FiRing     \* ringSize

\* The file fits a word, and the ring holds at least the header and a packet.
ASSUME FiAssumption ==
    /\ FiWord \in Nat /\ FiBytes \in 1..(FiWord - 1) /\ FiTable \in 1..FiBytes
    /\ FiPacket \in Nat \ {0} /\ FiTrailer \in Nat /\ FiRing \in Nat /\ FiRing > 2

VARIABLES fiFile,  \* the file
          fiPlan,  \* what parse() and initialize() made of it
          fiAt,    \* the next packet to encode, or "given", "refused", "done"
          fiSent   \* the packets, each the sequence of the offsets it carries

fiVars == <<fiFile, fiPlan, fiAt, fiSent>>

FiHeader == 1
FiWords == 0..(FiWord - 1)
FiImages == [cut : {"ours", "other"}, kind : {"normal", "ce", "log"}, start : FiWords, length : FiWords]
FiSections == [payload : 0..3, trailer : BOOLEAN, room : {1, FiWord}]
FiPlain(n) == [payload |-> n, trailer |-> FALSE, room |-> FiWord]

\* dynamic is the opaque part behind the base header, which is not sent.
\* Two kinds of file: two images with a section that fills each, and one image with
\* any one or two sections.
FiFiles ==
    {[images |-> <<a, b>>, dynamic |-> 0,
      sections |-> <<FiPlain((IF b.kind = "ce" /\ b.cut = "ours" THEN b ELSE a).length - FiHeader)>>] :
         a \in {i \in FiImages : i.cut = "ours" /\ i.kind = "normal" /\ i.length > 0},
         b \in {i \in FiImages : i.length > 0 /\ i.kind # "log"}}
    \cup
    {[images |-> <<[cut |-> "ours", kind |-> k, start |-> FiTable, length |-> n]>>, dynamic |-> d, sections |-> s] :
         d \in 0..1, k \in {"ce", "log"}, n \in 1..(FiBytes - FiTable), s \in SeqOf(FiSections, 2) \ {<<>>}}

FiNoPlan == [valid |-> FALSE, start |-> 0, length |-> 0, header |-> 0, sections |-> <<>>, packets |-> 0]

FiInit == fiFile \in FiFiles /\ fiPlan = FiNoPlan /\ fiAt = "given" /\ fiSent = <<>>

----------------------------------------------------------------------------
(* parse()                                                                 *)

\* Mutant: the end is computed, and wraps.
FiFitsWrapping(offset, bytes, total) == (offset + bytes) % FiWord <= total

FiFits(offset, bytes, total) == offset <= total /\ bytes <= total - offset

\* The subtraction form of the overlap of two images.
FiOverlap(image, prior) ==
    IF image.start >= prior.start THEN image.start - prior.start < prior.length
    ELSE prior.start - image.start < image.length

FiMatches(image, kind) == image.cut = "ours" /\ image.kind = kind
FiOfKind(images, kind) == {i \in DOMAIN images : FiMatches(images[i], kind)}

\* The table: every image inside the file and clear of the table and of the images
\* before it, and no two that could be meant.
FiTableGood(images) ==
    /\ \A i \in DOMAIN images :
         /\ images[i].length # 0 /\ images[i].start >= FiTable
         /\ FiFits(images[i].start, images[i].length, FiBytes)
         /\ \A j \in 1..(i - 1) : ~FiOverlap(images[i], images[j])
    /\ \A kind \in {"ce", "normal"} : \A i, j \in FiOfKind(images, kind) : i = j

FiCandidates(images) ==
    IF FiOfKind(images, "ce") # {} THEN FiOfKind(images, "ce") ELSE FiOfKind(images, "normal")

\* The sections one after the other behind the header; the walk stops at the first
\* that is empty, leaves the address space or leaves the image.
FiLaid(length, header, sections) ==
    FoldLeft(LAMBDA walk, s :
        LET transfer == s.payload + IF s.trailer THEN FiTrailer ELSE 0 IN
        IF ~walk.good \/ s.payload = 0 \/ transfer > s.room \/ ~FiFits(walk.cursor, transfer, length)
        THEN [walk EXCEPT !.good = FALSE]
        ELSE [walk EXCEPT !.cursor = @ + transfer,
                          !.sections = Append(@, [offset |-> walk.cursor, bytes |-> transfer]),
                          !.packets = @ + (transfer + FiPacket - 1) \div FiPacket],
        [good |-> FiFits(0, header, length), cursor |-> header, sections |-> <<>>, packets |-> 0],
        sections)

FiParsed(file) ==
    IF ~FiTableGood(file.images) \/ FiCandidates(file.images) = {} THEN FiNoPlan
    ELSE LET image == file.images[CHOOSE i \in FiCandidates(file.images) : TRUE]
             walk == FiLaid(image.length, FiHeader + file.dynamic, file.sections)
         IN  IF ~walk.good \/ walk.cursor # image.length THEN FiNoPlan
             ELSE [valid |-> TRUE, start |-> image.start, length |-> image.length, header |-> FiHeader + file.dynamic,
                   sections |-> walk.sections, packets |-> walk.packets]

\* Mutant: one packet too many for the ring.
FiTooManyOff(plan) == plan.packets = 0 \/ plan.packets > FiRing - 1

\* maxPackets is one below the ring, and the header takes a packet of its own.
FiTooMany(plan) == plan.packets = 0 \/ plan.packets >= FiRing - 1

FiInitialize ==
    /\ fiAt = "given"
    /\ LET plan == FiParsed(fiFile) IN
       IF ~plan.valid \/ FiTooMany(plan)
       THEN fiAt' = "refused" /\ fiPlan' = FiNoPlan
       ELSE fiAt' = "header" /\ fiPlan' = plan
    /\ UNCHANGED <<fiFile, fiSent>>

----------------------------------------------------------------------------
(* encode()                                                                *)

FiRange(from, count) == [k \in 1..count |-> from + k - 1]

FiEncodeHeader ==
    /\ fiAt = "header"
    /\ fiSent' = <<FiRange(fiPlan.start, FiHeader)>> /\ fiAt' = "packets"
    /\ UNCHANGED <<fiFile, fiPlan>>

\* Mutant: the tail of a section is not counted.
FiChunksShort(s) == s.bytes \div FiPacket

FiChunks(s) == s.bytes \div FiPacket + IF s.bytes % FiPacket # 0 THEN 1 ELSE 0

\* chunkAt(): the section that holds the packet, by taking the packets of the ones
\* before it off the index, and the part of it.
FiChunkAt(plan, index) ==
    FoldLeft(LAMBDA found, s :
        IF found.done THEN found
        ELSE IF found.index >= FiChunks(s) THEN [found EXCEPT !.index = @ - FiChunks(s)]
        ELSE LET offset == found.index * FiPacket
                 left == s.bytes - offset
             IN  [done |-> TRUE, index |-> 0,
                  bytes |-> FiRange(plan.start + s.offset + offset, IF left < FiPacket THEN left ELSE FiPacket)],
        [done |-> FALSE, index |-> index, bytes |-> <<>>], plan.sections)

FiEncode ==
    /\ fiAt = "packets"
    /\ LET chunk == FiChunkAt(fiPlan, Len(fiSent) - 1) IN
       IF Len(fiSent) - 1 < fiPlan.packets /\ chunk.done
       THEN fiSent' = Append(fiSent, chunk.bytes) /\ fiAt' = fiAt
       ELSE fiSent' = fiSent /\ fiAt' = "done"
    /\ UNCHANGED <<fiFile, fiPlan>>

FiNext == FiInitialize \/ FiEncodeHeader \/ FiEncode

FiSpec == FiInit /\ [][FiNext]_fiVars

----------------------------------------------------------------------------
(* Properties                                                              *)

\* The offsets an image covers, without arithmetic that wraps.
FiCovers(image) == image.start..(image.start + image.length - 1)

\* A file is good when its images are nonempty, lie behind the table inside the
\* file and share no byte, and the image of our cut is unmistakable.
FiGoodTable(images) ==
    /\ \A i \in DOMAIN images : FiCovers(images[i]) # {} /\ FiCovers(images[i]) \subseteq FiTable..(FiBytes - 1)
    /\ \A i, j \in DOMAIN images : i # j => FiCovers(images[i]) \cap FiCovers(images[j]) = {}
    /\ \A kind \in {"ce", "normal"} : Cardinality(FiOfKind(images, kind)) <= 1
    /\ FiOfKind(images, "ce") \cup FiOfKind(images, "normal") # {}

\* A file is accepted only with a good table, and the plan is the image it means.
FiAcceptsGood ==
    fiPlan.valid =>
        /\ FiGoodTable(fiFile.images)
        /\ \E i \in DOMAIN fiFile.images :
              /\ fiFile.images[i].start = fiPlan.start /\ fiFile.images[i].length = fiPlan.length
              /\ FiMatches(fiFile.images[i], "ce") \/ FiOfKind(fiFile.images, "ce") = {}

\* The packets carry the base header and every byte of the sections once and in
\* order, none longer than the device takes.
FiSentWhole ==
    fiAt = "done" =>
        /\ FlattenSeq(fiSent) = FiRange(fiPlan.start, FiHeader)
                                 \o FiRange(fiPlan.start + fiPlan.header, fiPlan.length - fiPlan.header)
        /\ \A k \in DOMAIN fiSent : Len(fiSent[k]) \in 1..FiPacket

\* Every packet of an image has a descriptor: one of the ring always stays free.
FiRingHolds == Len(fiSent) < FiRing
=============================================================================
