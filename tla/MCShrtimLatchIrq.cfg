SPECIFICATION Spec
CONSTANTS
  NUnits = 1
  NPins = 1
  Faults = {1, 2}
  IrqFaults = {1}
  Masks <- NoneOrAll
  Latches = {TRUE}
  Api = {"irq_hook", "irq_enable", "init", "pwm_init", "fault_config", "fault_attach", "fault_reset"}
INVARIANTS
  LatchedUntilReset
