\* Three reservations over two sequences: the allocator wraps onto a
\* completed record, runs into an open one, and into MaxAllocated; one of
\* the two sequences asks for a periodic receipt.  The clock may step back,
\* but settles in the end, and events are delivered from inside the transport
\* and a callback.  Poll and the clock are fair; firmware may never answer.
SPECIFICATION FairSpec
CONSTANTS
  Client = {"station"}
  NoClient = "nobody"
  Command = {"join"}
  SequenceCount = 2
  ReceiveAckPeriod = 2
  Timeout = {1}
  MaxTime = 2
  MaxAllocated = 3
  ClockForward = {1}
  ClockBack = {1}
  Nested = TRUE
INVARIANTS
  TypeOK
  AnswersStillExpected
PROPERTIES
  ImplementsLedger
  NoLateSuccess
  CommandsEnd
