\* Each part within the bounds its module names; a part may come to its end.
SPECIFICATION MCSpec
CONSTANTS
  SaeRetryMs = 1
  SaeTimeoutMs = 4
  SaeRetries = 1
  SaeClockMax = 5
  OweStranger = stranger
  EvClient = {c1, c2}
  EvNobody = nobody
  EvDepth = 2
  EvGenerationMax = 3
  EvOperations = 3
  EvFrames = 4
  MailMask = {0, 3}
  MailRequests = 4
  MailNotices = 2
  UpPackets = 3
  UpStops = 2
  Command = {c1, c2, c3, c4}
  NoCommand = NoCommand
  Count = 4
  Retained = 2
  Tags = 2
  WrActiveDwells = {100}
  WrPassiveDwells = {5, 20}
  WrChannels = {1, 6}
  WrPassive = {1, 6}
  WrActive = {1}
  WrNetworks = 2
  WrScans = 2
  DpPackets = 1
  CtChannels = {1, 6}
  DbCount = 3
  RtChip = 257
  RtHeadKeys = {256, 257, 258, 511, 65281, 65535}
  RtCapacity = 2
  RtPageWords = 2
  RsBoards = {256, 257, 258, 768, 2305, 11009}
  RsCapacity = 1500
  EfBytes = 2
  CxAcks = 7
  TpActions = 3
  TmFunctions = {f, g}
  TmNone = none
  TmArmings = 4
  HsRings = 2
  HsSessions = 2
  MiRetries = 1
  MiTimeMax = 2
  AdSsid = 1
  AdRates = 1
  AdStore = 7
  AdDraft = 6
  EdPhysical = 9
  EdLogical = 6
  EdSecurity = 1
  FiWord = 7
  FiBytes = 6
  FiTable = 1
  FiPacket = 2
  FiTrailer = 1
  FiRing = 4
  PbFrames = {1, 2, 3}
  PbBudget = 2
  SpEntries = 2
  SpTicks = 4
  SpWait = 2
  SpLimit = 3
  WfTop = 65535
  HfPpdus = {0, 1}
  HfMaxAge = 1
  HfActions = 2
  HfFrames = 3
INVARIANTS
  KeysConfirmed
  AnswersAreOurs
  NothingFreedInUse
  ReadyMeansWhole
  FailureIsHonest
  
  DecodedExactly
  ControlPlaneSound
  CommandRingSound
PROPERTIES
  NothingLateOrTwice
  
  EvImplementsTranscript
  ImplementsLease
CHECK_DEADLOCK FALSE
