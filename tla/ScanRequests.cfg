\* Two requests over two channels, with every cause of cancellation, a clock
\* that runs both ways and no net80211 scans; what is heard does not matter.
SPECIFICATION FairSpec
CONSTANTS
  c1 = c1
  c2 = c2
  Channel = {c1, c2}
  Bssid = {}
  Plan <- PlanBoth
  OrdinaryMode = {}
  Timeout = 2
  MaxTime = 3
  ClockSteps <- StepsBothWays
  MaxRequest = 2
  MaxGeneration = 2
  MaxOperation = 4
  MaxNetworks = 1
INVARIANTS
  DrainedMeansHome
  CancellationReachesStation
  ProbeInItsDwell
  RequestAnswered
PROPERTIES
  RequestsEnd
CHECK_DEADLOCK FALSE
