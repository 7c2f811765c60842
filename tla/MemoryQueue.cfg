\* Small entries, of which three fit, so that every way of wrapping around
\* happens, one of 11 bytes, which leaves less than a header, one of 12, the
\* whole buffer, and one of 13, which is refused.  Two readers fill a lock.
CONSTANTS
  Capacity = 12
  HeaderSize = 2
  SizeModulus = 64
  LockCapacity = 2
  PayloadSizes = {1, 3, 9, 10, 11}
SPECIFICATION FairSpec
INVARIANTS TypeOK Layout ExtentsDisjoint ChainLeadsToEntries ForceCleanIsSafe MarkerRoom OccupiedBytesExact
PROPERTIES LockedEntriesStay AllocationReturns ImplementsFifo
CHECK_DEADLOCK FALSE
