SPECIFICATION Spec
CONSTANTS
  PollLimit = 2
  StopRaisesTip = TRUE
  LateIack = TRUE
  Ops <- MCOps
INVARIANTS
  OkMeansComplete
