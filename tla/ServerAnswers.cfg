\* Two clients, one of which may stall or go away; room
\* for all that is put and read, empty keys and values included.
CONSTANTS
  Conn = {c1, c2}
  NULL = NULL
  Heap = Heap
  CountModulus = 8
  MayFail = {c1}
  Key = {k1}
  Value = {v1}
  Empty = Empty
  Torn = Torn
  KeySizes = {0, 1}
  Stalling = {c1}
  RequestTypes = {"GET", "PUT", "DELETE", "BAD_VERSION"}
  MaxPuts = 2
  HeapFails = {FALSE}
  Capacity = 8
  HeaderSize = 1
  SizeModulus = 64
  PayloadSizes = {1, 2, 9}
  LockCapacity = 3
SPECIFICATION FairSpec
PROPERTIES TurnsComeRound RequestsAreAnswered
CHECK_DEADLOCK FALSE
