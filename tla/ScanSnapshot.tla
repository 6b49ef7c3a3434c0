---------------------------- MODULE ScanSnapshot ----------------------------
(***************************************************************************)
(* What the scan cache promises its readers: there is at most one complete *)
(* snapshot; it is only ever replaced as a whole, by the snapshot of a     *)
(* later pass that swept every channel it planned and lost nothing; and it *)
(* holds exactly what that pass heard, the newest observation of each      *)
(* network on each channel.                                                *)
(***************************************************************************)
EXTENDS Naturals, FiniteSets

CONSTANTS
  Channel,
  Entry,        \* observations: [bssid, channel, at, ...]
  Time,
  Generation,   \* numbers of passes
  MaxNetworks   \* observations a snapshot has room for

VARIABLES
  current,      \* the snapshot readers see, or None
  pass          \* the pass under way, or None

None == [generation |-> 0]
snapshotVars == <<current, pass>>

Init == current = None /\ pass = None

Open(g, channels) ==
  /\ pass = None
  /\ g > current.generation
  /\ pass' = [generation |-> g, channels |-> channels, left |-> channels,
              entries |-> {}, lost |-> FALSE]
  /\ UNCHANGED current

SameNetwork(a, b) == a.bssid = b.bssid /\ a.channel = b.channel

\* Only a newer observation replaces one of the same network.
Hear(e) ==
  /\ pass # None
  /\ e.channel \in pass.channels
  /\ \A o \in pass.entries : SameNetwork(o, e) => o.at < e.at
  /\ LET others == {o \in pass.entries : ~SameNetwork(o, e)}
     IN /\ Cardinality(others) < MaxNetworks
        /\ pass' = [pass EXCEPT !.entries = others \cup {e}]
  /\ UNCHANGED current

\* An observation there is no room for spoils the pass.
Lose ==
  /\ pass # None
  /\ pass' = [pass EXCEPT !.lost = TRUE]
  /\ UNCHANGED current

Sweep(c) ==
  /\ pass # None /\ c \in pass.left
  /\ pass' = [pass EXCEPT !.left = @ \ {c}]
  /\ UNCHANGED current

Publish(at) ==
  /\ pass # None /\ pass.left = {} /\ ~pass.lost
  /\ \A e \in pass.entries : e.at <= at
  /\ current # None => current.at <= at
  /\ current' = [generation |-> pass.generation, channels |-> pass.channels,
                 entries |-> pass.entries, at |-> at]
  /\ pass' = None

Abandon == pass' = None /\ UNCHANGED current

Next ==
  \/ \E g \in Generation, channels \in SUBSET Channel : Open(g, channels)
  \/ \E e \in Entry : Hear(e)
  \/ Lose
  \/ \E c \in Channel : Sweep(c)
  \/ \E at \in Time : Publish(at)
  \/ Abandon

Spec == Init /\ [][Next]_snapshotVars
=============================================================================
