\* A period of two ticks and turns of up to two; the clock is set twice.
CONSTANTS
  Client = {c1, c2}
  Period = 2
  BacklogLimit = 2
  ClockModulus = 16
  MaxDelay = 2
  MaxAdjustments = 2
  InitFails = {TRUE, FALSE}
SPECIFICATION Spec
INVARIANTS AcceptsAreTimely
PROPERTIES ServedBetweenAccepts WaitingClientsAreAccepted
