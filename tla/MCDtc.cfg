SPECIFICATION Spec
CONSTANTS
  Configs <- MCConfigs
  References <- MCReferences
  Intervals <- MCIntervals
  FluxMax = 6
  TorqueMax = 16
  Volt = 1
  Magnet = 3
  Inductance = 2
  Winding = 1
  Turns = {0, 1, 5}
  MaxLost = 1
INVARIANTS
  VectorObeys
  OneStep
  ObserverTracks

  
