SPECIFICATION Spec
CONSTANTS
  Entries = {e1, e2}
  CqCount = 2
  MaxFaults = 2
INVARIANT HealthyWhileDelivering
