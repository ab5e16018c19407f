SPECIFICATION FairSpec
CONSTANTS
  Pins = {14, 15}
  QpiPin = 15
  Chunk = 3
  ClockHz = 3
  Units = 2
  Recovery = 3
  Guards <- MCGuards
  PollLimits = {2, 3, 5}
  DelayLimits = {0, 2, 5}
  Durations = {0, 2}
INVARIANTS
  MappedMeansQpi
  PinsAsAsked
  DelayLongEnough
PROPERTIES
  MappedStays
  CallReturns
