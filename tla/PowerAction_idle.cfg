SPECIFICATION Spec
CONSTANTS
  Policies = {"blank", "suspend", "nothing"}
  Passwordless = FALSE
  MaxFaults = 0
INVARIANT IdlePressWakes
