SPECIFICATION Spec
CONSTANTS
  NUnits = 2
  NPins = 1
  Faults = {1}
  IrqFaults = {}
  Masks <- NoneOrAll
  Latches = {TRUE}
  Api = {"init", "pwm_init", "pwm_init_fails", "pwm_start", "pwm_stop", "out_disable", "fault_config", "fault_attach", "fault_reset"}
INVARIANTS
  StoppedHolds
  StartRestores
