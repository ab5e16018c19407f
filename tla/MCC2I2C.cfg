SPECIFICATION FairSpec
CONSTANTS
  PollLimit = 2
  StopRaisesTip = FALSE
  LateIack = FALSE
  Ops <- MCOps
INVARIANTS
  OkMeansComplete
  CmdNeverOverwritten
  NoStaleCompletion
  StopOnlyByOwner
  BusReleased
  DisabledMeansQuiet
PROPERTIES
  CallReturns
  ImplementsTransaction
