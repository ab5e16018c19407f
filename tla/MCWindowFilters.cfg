SPECIFICATION Spec
CONSTANTS
  One = 4
  Windows = {0, 1, 2, 3, 4}
  Capacities = {3, 4}
  Coefficients <- MCCoefficients
INVARIANTS
  FirRight
  AverageRight
  MedianRight
PROPERTIES
  ImplementsWindow
