\* Three pages and descriptors: the ring wraps, fills (two in flight) and
\* pages are reused in another order than descriptors; three frames fill all
\* pages.  Two reports fit the RPQ and one is taken per drain.
SPECIFICATION Spec
CONSTANTS
  Frame = {f1, f2, f3}
  NoFrame = NoFrame
  Count = 3
  ReportCount = 3
  Budget = 1
INVARIANTS
  RingSound
  DrainedMeansQuiet
PROPERTIES
  ImplementsLease
CHECK_DEADLOCK FALSE
