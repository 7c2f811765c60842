\* Six keys: the table grows from 4 to 8 buckets, and to 16 when one of the six
\* is put again; it shrinks with an entry left in it.  No key changes.
CONSTANTS
  k1 = k1 k2 = k2 k3 = k3 k4 = k4 k5 = k5 k6 = k6
  i1 = i1 i2 = i2 i3 = i3 i4 = i4 i5 = i5 i6 = i6 i7 = i7
  Item = {i1, i2, i3, i4, i5, i6, i7}
  Key = {k1, k2, k3, k4, k5, k6}
  NULL = NULL
  FirstKey <- OneKeyEach
  HashOf <- Hashes
  Rewritable = {}
  MinCap = 4
  MaxCount = 7
  MallocFails = {TRUE, FALSE}
SPECIFICATION Spec
INVARIANTS TypeOK
PROPERTIES ImplementsMap
