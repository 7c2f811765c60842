\* A write that finds its room locked by a reader.
CONSTANTS
  Conn = {c1, c2}
  NULL = NULL
  Heap = Heap
  CountModulus = 8
  MayFail = {}
  Key = {k1}
  Value = {v1}
  Empty = Empty
  Torn = Torn
  KeySizes = {1}
  Stalling = {}
  RequestTypes = {"GET", "PUT"}
  MaxPuts = 2
  HeapFails = {FALSE}
  Capacity = 5
  HeaderSize = 1
  SizeModulus = 64
  PayloadSizes = {2}
  LockCapacity = 2
SPECIFICATION Spec
INVARIANTS TransfersAreSupported
CHECK_DEADLOCK FALSE
