\* The documented policy: no sequence is given out twice.
SPECIFICATION Spec
CONSTANTS
  Client = {"station"}
  NoClient = "nobody"
  Command = {"join"}
  SequenceCount = 2
  ReceiveAckPeriod = 4
  Timeout = {2}
  MaxTime = 3
  MaxAllocated = 3
  ClockForward = {1}
  ClockBack = {}
  Nested = FALSE
PROPERTIES
  SequenceNeverReused
