\* The buffer holds every entry the clients put: nothing is evicted.  Keys and
\* values may be empty.
CONSTANTS
  Conn = {c1, c2}
  NULL = NULL
  Heap = Heap
  CountModulus = 8
  MayFail = {c1}
  Key = {k1, k2}
  Value = {v1}
  Empty = Empty
  Torn = Torn
  KeySizes = {0, 1}
  Stalling = {}
  RequestTypes = {"GET", "PUT", "DELETE", "PING", "UNKNOWN", "BAD_VERSION"}
  MaxPuts = 2
  HeapFails = {TRUE, FALSE}
  Capacity = 8
  HeaderSize = 1
  SizeModulus = 64
  PayloadSizes = {0, 1, 2}
  LockCapacity = 2
SPECIFICATION Spec
INVARIANTS TypeOK LocksCountReaders GetsAnswerTheStore
PROPERTIES QueueIsUsedAsMeant ServesACache
CHECK_DEADLOCK FALSE
