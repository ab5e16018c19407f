SPECIFICATION FairSpec
CONSTANTS
  NEvents = 3
  Captures = {2, 3}
  Stuck = {1}
  OneShots = {3}
  Limit = 3
  SpinLimit = 2
INVARIANTS
  DegradedExactly
  EnablesKept
PROPERTIES
  CaptureNotStolen
  CallReturns
