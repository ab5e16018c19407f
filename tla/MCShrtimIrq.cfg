SPECIFICATION Spec
CONSTANTS
  NUnits = 1
  NPins = 1
  Faults = {1, 2}
  IrqFaults = {1}
  Masks <- NoneOrAll
  Latches = {TRUE}
  Api = {"init", "deinit", "irq_hook", "irq_enable", "pwm_init", "pwm_start", "pwm_stop", "fault_config", "fault_attach", "fault_reset"}
INVARIANTS
  CutHolds
