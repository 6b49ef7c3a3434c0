\* Progress.  One report fits the RPQ at a time, so the
\* device has to wait for the driver and the driver for the device.
SPECIFICATION FairSpec
CONSTANTS
  Frame = {f1, f2}
  NoFrame = NoFrame
  Count = 3
  ReportCount = 2
  Budget = 1
PROPERTIES
  FramesReturn
CHECK_DEADLOCK FALSE
