---------------------------- MODULE FirmwareQueue ----------------------------
(***************************************************************************)
(* The firmware command ring CH12: FirmwareDmaOwnership, the               *)
(* Net80211FirmwareQueue and MacFirmwareDmaQueue around it, its doorbell   *)
(* in PciRuntime and its part of PciQueueService::drain, against a device  *)
(* with several reads under way at once.                                   *)
(*                                                                         *)
(* Command packets have no release report.  The device's index says that a *)
(* descriptor was taken, not that its packet has been read, so the ledger  *)
(* keeps the most recently consumed packets for a while longer.  The       *)
(* packet buffer of a slot belongs to the slot; the command is the bytes   *)
(* in it.  A drain reads this ring's index once, so it is one step.        *)
(***************************************************************************)
EXTENDS Integers, Sequences

CONSTANTS
  Command, NoCommand,
  Count,      \* descriptors and packets of the ring, 64 in the code
  Retained,   \* consumed packets kept back, 8 in the code
  Tags        \* reads the device has under way behind its index, at most

ASSUME ConstantsAssumption ==
  /\ NoCommand \notin Command
  /\ Count \in Nat /\ Retained \in Nat \ {0} /\ Count > Retained + 1
  /\ Tags \in 1 .. Retained

VARIABLES
  cookies,            \* cookies_: the command each slot holds
  held,               \* retained_ between holdHead_ and holdTail_
  producer, consumer, pending,
  memory,             \* the command in each packet buffer
  attached, synced,   \* attached_; memory_.ready()
  running,            \* PciRuntime::running()
  deviceOn,
  host, hardware,     \* the two halves of the index register
  reads               \* packet reads under way

ledgerVars == <<cookies, held, producer, consumer, pending>>
bankVars   == <<memory, attached, synced>>
deviceVars == <<host, hardware, reads>>
vars       == <<ledgerVars, bankVars, running, deviceOn, deviceVars>>

Index == 0 .. Count - 1
Read  == [slot : Index, command : Command \cup {NoCommand}]

\* The type invariant: cursors and counts stay inside the ring.
TypeOK ==
  /\ cookies \in [Index -> Command \cup {NoCommand}]
  /\ memory \in [Index -> Command \cup {NoCommand}]
  /\ held \in Seq(Index)
  /\ producer \in Index /\ consumer \in Index /\ pending \in 0 .. Count - 1
  /\ attached \in BOOLEAN /\ synced \in BOOLEAN
  /\ running \in BOOLEAN /\ deviceOn \in BOOLEAN
  /\ host \in Index /\ hardware \in Index
  /\ reads \subseteq Read

\* After allocate(), attach() and PciRuntime::start().
Init ==
  /\ cookies = [i \in Index |-> NoCommand]
  /\ memory = [i \in Index |-> NoCommand]
  /\ held = <<>>
  /\ producer = 0 /\ consumer = 0 /\ pending = 0
  /\ attached = TRUE /\ synced = TRUE
  /\ running = TRUE /\ deviceOn = TRUE
  /\ host = 0 /\ hardware = 0 /\ reads = {}

Distance(from, to) == (to + Count - from) % Count
\* Cursors wrap; the mutant's do not.
AdvanceUnwrapped(i, n) == i + n
Advance(i, n) == (i + n) % Count

----------------------------------------------------------------------------
(* submitNativeFirmware: stage(), the cache sync and the doorbell. *)

\* full(); the mutant overlooks that a full ring looks empty.
FullByCookie == cookies[producer] # NoCommand
Full == pending = Count - 1 \/ cookies[producer] # NoCommand

\* encodeCommandDma into the slot's packet, commit() and the descriptor.
Stage(c) ==
  /\ memory' = [memory EXCEPT ![producer] = c]
  /\ cookies' = [cookies EXCEPT ![producer] = c]
  /\ producer' = Advance(producer, 1)
  /\ pending' = pending + 1
  /\ UNCHANGED <<held, consumer>>

MayStage(c) ==
  /\ running /\ attached /\ synced /\ ~Full
  /\ \A i \in Index : cookies[i] # c

\* publish() accepts one descriptor at a time and never fills the ring.
DoorbellLegal == Distance(host, producer') = 1 /\ producer' # hardware

Submit(c) ==
  /\ MayStage(c)
  /\ Stage(c)
  /\ DoorbellLegal
  /\ host' = producer'
  /\ UNCHANGED <<attached, synced, running, deviceOn, hardware, reads>>

\* The cache sync fails after the commit.  The doorbell is not rung and the
\* bank takes no more packets; the command bus is faulted, and the runtime
\* runs on until the next poll sees it.
SubmitUnsynced(c) ==
  /\ MayStage(c)
  /\ Stage(c)
  /\ synced' = FALSE
  /\ UNCHANGED <<attached, running, deviceOn, deviceVars>>

\* A register access of the doorbell fails: the device may have seen the
\* index, and the runtime counts as not running from then on.
SubmitFails(c, seen) ==
  /\ MayStage(c)
  /\ Stage(c)
  /\ host' = IF seen /\ DoorbellLegal THEN producer' ELSE host
  /\ running' = FALSE
  /\ UNCHANGED <<attached, synced, deviceOn, hardware, reads>>

----------------------------------------------------------------------------
(* drain() on this ring. *)

\* How many of the consumed packets stay; the mutants keep one too few or one
\* too many.
KeepLess(n) == IF n > Retained - 1 THEN Retained - 1 ELSE n
KeepMore(n) == IF n > Retained + 1 THEN Retained + 1 ELSE n
Keep(n) == IF n > Retained THEN Retained ELSE n

\* consumeTo(): every consumed slot joins the queue of those kept back and
\* pushes out the oldest once there are enough.
ConsumeTo ==
  LET advance == Distance(consumer, hardware)
      all     == held \o [n \in 1 .. advance |-> Advance(consumer, n - 1)]
      kept    == Keep(Len(all))
      gone    == {all[n] : n \in 1 .. Len(all) - kept}
  IN /\ running /\ advance # 0 /\ advance <= pending
     /\ held' = SubSeq(all, Len(all) - kept + 1, Len(all))
     /\ cookies' = [i \in Index |-> IF i \in gone THEN NoCommand
                                                  ELSE cookies[i]]
     /\ consumer' = hardware
     /\ pending' = pending - advance
     /\ UNCHANGED <<producer, bankVars, running, deviceOn, deviceVars>>

----------------------------------------------------------------------------
(* Stopping. *)

\* A fault elsewhere, or the poll that sees the bus faulted: the runtime is
\* stopped, and proven idle or not.  Nothing is given back.
Fault(proven) ==
  /\ running
  /\ running' = FALSE
  /\ deviceOn' = (deviceOn /\ ~proven)
  /\ UNCHANGED <<ledgerVars, bankVars, deviceVars>>

\* MacNetworkController::shutdown: quiet says that the boot backend stopped
\* and no drain or interrupt service is running.  The mutant trusts it alone.
MayReclaimQuiet(proven, quiet) == quiet
MayReclaim(proven, quiet) == proven /\ quiet

Shutdown(proven, quiet) ==
  /\ attached
  /\ running' = FALSE
  /\ deviceOn' = (deviceOn /\ ~proven)
  /\ IF MayReclaim(proven, quiet)
       THEN /\ cookies' = [i \in Index |-> NoCommand]
            /\ memory' = [i \in Index |-> NoCommand]
            /\ held' = <<>>
            /\ producer' = 0 /\ consumer' = 0 /\ pending' = 0
            /\ attached' = FALSE /\ synced' = FALSE
       ELSE UNCHANGED <<ledgerVars, bankVars>>
  /\ UNCHANGED deviceVars

----------------------------------------------------------------------------
(* The device. *)

\* It takes the next descriptor, publishes that, and starts to read the
\* packet; reads older than the last Tags descriptors have finished.
Fetch ==
  /\ deviceOn /\ hardware # host
  /\ \A r \in reads : Distance(r.slot, Advance(hardware, 1)) <= Tags
  /\ hardware' = Advance(hardware, 1)
  /\ reads' = reads \cup {[slot |-> hardware, command |-> memory[hardware]]}
  /\ UNCHANGED <<ledgerVars, bankVars, running, deviceOn, host>>

\* Reads finish in any order.
FinishRead(r) ==
  /\ deviceOn
  /\ reads' = reads \ {r}
  /\ UNCHANGED <<ledgerVars, bankVars, running, deviceOn, host, hardware>>

Next ==
  \/ \E c \in Command : Submit(c) \/ SubmitUnsynced(c)
  \/ \E c \in Command, seen \in BOOLEAN : SubmitFails(c, seen)
  \/ ConsumeTo
  \/ \E proven \in BOOLEAN : Fault(proven)
  \/ \E proven, quiet \in BOOLEAN : Shutdown(proven, quiet)
  \/ Fetch
  \/ \E r \in reads : FinishRead(r)

Spec == Init /\ [][Next]_vars

----------------------------------------------------------------------------
(* Properties. *)

\* Slots behind a descriptor the device has not taken.
Announced == {Advance(hardware, n) : n \in 0 .. Distance(hardware, host) - 1}
Exposed == IF deviceOn THEN Announced \cup {r.slot : r \in reads} ELSE {}

\* The queue implements FrameLease, as the data rings do: a packet is given
\* back only when the device can no longer be reading it, or after a proven
\* stop, although the device never says that it is done with one.
Leases == INSTANCE FrameLease WITH
            Frame   <- Command,
            held    <- {cookies[i] : i \in Index} \ {NoCommand},
            exposed <- {memory[i] : i \in Exposed},
            halted  <- ~deviceOn
ImplementsLease == Leases!Spec

\* A packet the device is reading still holds the command it held when the
\* read began: a slot is not staged again while a tag refers to it.
ReadsUndisturbed ==
  deviceOn => \A r \in reads : /\ memory[r.slot] = r.command
                               /\ r.command # NoCommand
                               /\ cookies[r.slot] = r.command

\* The packets kept back never stop the ring: a command is refused only when
\* the device is so far behind that those waiting and those kept back fill it.
RoomWhenFewPending == attached /\ pending + Retained < Count => ~Full

\* While the runtime runs, the device's index is one consumeTo() accepts, even
\* with a packet staged that was never announced, and a command that full()
\* admits gets a legal doorbell.
DeviceNeverRefused ==
  running =>
    /\ Distance(consumer, hardware) <= pending
    /\ synced /\ ~Full => /\ Distance(host, Advance(producer, 1)) = 1
                          /\ Advance(producer, 1) # hardware

\* Driver and device never disturb each other on the command ring: no slot is
\* restaged under a read, keeping packets back never blocks the ring, and
\* nothing the device says or is told is refused (commit(), consumeTo()).
CommandRingSound == ReadsUndisturbed /\ RoomWhenFewPending /\ DeviceNeverRefused

=============================================================================
