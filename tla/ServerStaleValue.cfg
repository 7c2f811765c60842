\* One entry fits; a second one takes its place.
CONSTANTS
  Conn = {c1, c2}
  NULL = NULL
  Heap = Heap
  CountModulus = 8
  MayFail = {}
  Key = {k1}
  Value = {v1, v2}
  Empty = Empty
  Torn = Torn
  KeySizes = {1}
  Stalling = {}
  RequestTypes = {"GET", "PUT"}
  MaxPuts = 2
  HeapFails = {FALSE}
  Capacity = 5
  HeaderSize = 1
  SizeModulus = 64
  PayloadSizes = {2}
  LockCapacity = 2
SPECIFICATION Spec
INVARIANTS GetReturnsWhatWasPut
CHECK_DEADLOCK FALSE
