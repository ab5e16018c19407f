SPECIFICATION Spec
CONSTANTS
  NUnits = 2
  NPins = 1
  Faults = {1, 2}
  IrqFaults = {}
  Masks <- NoneOrAll
  Latches = {TRUE}
  Api = {"init", "pwm_init", "out_enable", "fault_config", "fault_attach", "fault_reset"}
INVARIANTS
  ProtectionKept
  CutHolds
PROPERTIES
  Resumes
