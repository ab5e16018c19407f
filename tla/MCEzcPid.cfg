SPECIFICATION Spec
CONSTANTS
  Max = 3
  One = 2
  Configs <- MCConfigs
  GainSets <- MCGainSets
  Limits <- MCLimits
  IntegralLimits <- MCIntegralLimits
  FilterTimes = {0, 9}
  Separations = {0, 1}
  Weights = {1, 3}
  Presets = {1, 9}
  SourceArgs = {"measurement", "other"}
  Setpoints = {1}
  Measurements = {0, 3}
  Periods = {0, 1, 2}
INVARIANTS
  ConfigInEffect
  IntegralInBounds
  CacheFresh
  ReportAddsUp
PROPERTIES
  WindupStops
  ImplementsLoop
