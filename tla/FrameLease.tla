----------------------------- MODULE FrameLease -----------------------------
(***************************************************************************)
(* What the transmit path promises about a frame it accepted: the frame    *)
(* and its DMA page are held until the device is done with them, or until  *)
(* the device is known to have stopped, and are then given back once.      *)
(***************************************************************************)
CONSTANT Frame

VARIABLES
  held,       \* frames the driver accepted and has not given back
  exposed,    \* frames the device may still read from memory
  halted      \* the device is known to have stopped

leaseVars == <<held, exposed, halted>>

Init == held = {} /\ exposed = {} /\ halted = FALSE

\* The device may learn of the frame now, or never: the doorbell failed, and
\* the device may be stopped because of it.
Accept(f) ==
  /\ f \in Frame \ held
  /\ held' = held \cup {f}
  /\ \/ exposed' \in {exposed, exposed \cup {f}} /\ UNCHANGED halted
     \/ exposed' = {} /\ halted' = TRUE

Finish(f) ==
  /\ f \in exposed
  /\ exposed' = exposed \ {f}
  /\ UNCHANGED <<held, halted>>

GiveBack(frames) ==
  /\ frames \cap exposed = {}
  /\ held' = held \ frames
  /\ UNCHANGED <<exposed, halted>>

\* A stop that is proven may give back in the same step.
Halt ==
  /\ halted' = TRUE /\ exposed' = {}
  /\ held' \in {held, {}}

Next ==
  \/ \E f \in Frame : Accept(f) \/ Finish(f)
  \/ \E frames \in SUBSET held : GiveBack(frames)
  \/ Halt

Spec == Init /\ [][Next]_leaseVars
=============================================================================
