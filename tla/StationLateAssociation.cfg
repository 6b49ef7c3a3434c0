\* A frame of the access point is the first to see the expired deadline.
SPECIFICATION FairSpec
CONSTANTS
  ch1 = ch1
  ch2 = ch2
  ap1 = ap1
  ap2 = ap2
  Channel = {ch1, ch2}
  NoChannel = NoChannel
  Peer = {ap1}
  NoPeer = NoPeer
  PeerChannel <- MCPeerChannel
  Plan <- MCPlan
  ActionTimeout = 1
  CommandTimeout = 1
  AuthenticationTimeout = 1
  MaxTime = 6
  MaxSerial = 8
  MaxEpoch = 1
  SequenceCount = 4
  Refusals = {}
  MaxDuplicates = 0
CHECK_DEADLOCK FALSE
PROPERTY AuthenticationTimeoutIsOrdered
