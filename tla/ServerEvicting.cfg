\* Entries of two sizes, of which the buffer holds one or two, and a lock of one
\* reader: reads and writes block, and pointers to entries that were evicted lead
\* to what they left, to another entry, or into the middle of one.
CONSTANTS
  Conn = {c1, c2, c3}
  NULL = NULL
  Heap = Heap
  CountModulus = 8
  MayFail = {}
  Key = {k1}
  Value = {v1}
  Empty = Empty
  Torn = Torn
  KeySizes = {1}
  Stalling = {}
  RequestTypes = {"GET", "PUT"}
  MaxPuts = 4
  HeapFails = {FALSE}
  Capacity = 6
  HeaderSize = 1
  SizeModulus = 64
  PayloadSizes = {1, 2}
  LockCapacity = 1
SPECIFICATION Spec
SYMMETRY Alike
INVARIANTS CurrentIsAlive NothingToUnblock QueueStaysSound
PROPERTIES ListIsUsedAsMeant
CHECK_DEADLOCK FALSE
