SPECIFICATION Spec
CONSTANTS
  NUnits = 1
  NPins = 2
  Faults = {1}
  IrqFaults = {}
  Masks <- NoneOrAll
  Latches = {TRUE, FALSE}
  Api = {"init", "deinit", "pwm_init", "pwm_init_off", "pwm_init_fails", "pwm_start", "pwm_stop", "out_enable", "out_disable", "fault_config", "fault_attach", "fault_reset"}
INVARIANTS
  StartRestores
PROPERTIES
  Resumes
