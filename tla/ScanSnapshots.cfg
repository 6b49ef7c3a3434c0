\* A request and net80211's scans share the observer; a bank holds one entry,
\* so that a second network in a pass is a loss.
SPECIFICATION Spec
CONSTANTS
  c1 = c1
  c2 = c2
  Channel = {c1, c2}
  Bssid = {b1}
  Plan <- PlanBoth
  OrdinaryMode = {"passive"}
  Timeout = 1
  MaxTime = 1
  ClockSteps <- StepsForward
  MaxRequest = 1
  MaxGeneration = 2
  MaxOperation = 3
  MaxNetworks = 1
INVARIANTS
  HeardInPlace
PROPERTIES
  ImplementsSnapshot
CHECK_DEADLOCK FALSE
