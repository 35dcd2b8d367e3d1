SPECIFICATION Spec
CONSTANTS
  Policies = {"blank", "suspend", "nothing"}
  Passwordless = TRUE
  MaxFaults = 1
INVARIANTS TypeOK 
PROPERTY PressToggles
