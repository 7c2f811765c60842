\* Command lines of up to five arguments.
CONSTANTS
  Option <- Options
  StringOption = {"IP_ADDRESS"}
  Text = {"8", "-1", "20"}
  Number <- Numbers
  Default <- Defaults
  NULL = NULL
  WordModulus = 4096
  PortModulus = 16
  MaxArguments = 5
  MallocFails = {TRUE, FALSE}
SPECIFICATION Spec
INVARIANTS ServesAsSaid ValuesAreTheHeap FailedStartsLeaveNothing
CHECK_DEADLOCK FALSE
