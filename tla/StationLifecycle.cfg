\* One incarnation with enough serial numbers for start, connect, a scan of
\* an active and a passive channel on the link, disconnect and stop.
SPECIFICATION Spec
CONSTANTS
  ch1 = ch1
  ch2 = ch2
  ap1 = ap1
  ap2 = ap2
  Channel = {ch1, ch2}
  NoChannel = NoChannel
  Peer = {ap1}
  NoPeer = NoPeer
  PeerChannel <- MCPeerChannel
  Plan <- MCLongPlan
  ActionTimeout = 1
  CommandTimeout = 1
  AuthenticationTimeout = 1
  MaxTime = 8
  MaxSerial = 18
  MaxEpoch = 1
  SequenceCount = 4
  Refusals = {}
  MaxDuplicates = 0
INVARIANTS
  LinkSound
  AirRespected
  IdleIsClean
CHECK_DEADLOCK FALSE
