\* Each part within the bounds its module names; a part may come to its end.
SPECIFICATION MCSpec
CONSTANTS
  NetSelections = 2
  RlChannels = {1, 6}
  RlHomeChannel = 1
  RxCount = 3
  RxBudget = 1
  RxSegments = 5
INVARIANTS
  
  RadioSafe
  
PROPERTIES
  WorkEnds
CHECK_DEADLOCK FALSE
