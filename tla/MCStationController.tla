------------------------ MODULE MCStationController ------------------------
(* Small instances of StationController for TLC. *)
EXTENDS StationController

CONSTANTS ch1, ch2, ap1, ap2

MCPeerChannel == [p \in Peer |-> IF p = ap1 THEN ch1 ELSE ch2]

\* An active channel alone, and an active channel followed by a passive one.
MCPlan == {<<[channel |-> ch2, dwell |-> 1, active |-> TRUE]>>}
MCLongPlan == {<<[channel |-> ch2, dwell |-> 1, active |-> TRUE],
                 [channel |-> ch1, dwell |-> 1, active |-> FALSE]>>}

============================================================================
