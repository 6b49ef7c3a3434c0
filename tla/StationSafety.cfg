\* Two firmware incarnations, every backend call may be refused, and a
\* completion may be delivered twice; short serial numbers run out during
\* authentication.
SPECIFICATION Spec
CONSTANTS
  ch1 = ch1
  ch2 = ch2
  ap1 = ap1
  ap2 = ap2
  Channel = {ch1, ch2}
  NoChannel = NoChannel
  Peer = {ap1}
  NoPeer = NoPeer
  PeerChannel <- MCPeerChannel
  Plan <- MCPlan
  ActionTimeout = 1
  CommandTimeout = 1
  AuthenticationTimeout = 1
  MaxTime = 6
  MaxSerial = 6
  MaxEpoch = 2
  SequenceCount = 4
  Refusals = {"setTraffic","reserveH2cSequence","publishH2c","beginAction","beginAuthentication","sendProbe","cancelProtocol"}
  MaxDuplicates = 1
INVARIANTS
  TypeOK
  FirmwareAgrees
  NoStrayWork
CHECK_DEADLOCK FALSE
