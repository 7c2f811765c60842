\* Four entries, two of which change their keys at any time, as those of
\* evicted entries do.
CONSTANTS
  k1 = k1 k2 = k2 k3 = k3 k4 = k4 k5 = k5 k6 = k6
  i1 = i1 i2 = i2 i3 = i3 i4 = i4 i5 = i5 i6 = i6 i7 = i7
  Item = {i1, i2, i3, i4}
  Key = {k1, k2, k3, k4}
  NULL = NULL
  FirstKey <- FourEntries
  HashOf <- FourHashes
  Rewritable = {i1, i2}
  MinCap = 4
  MaxCount = 4
  MallocFails = {FALSE}
SPECIFICATION Spec
INVARIANTS Placement ProbesEnd
PROPERTIES PutsAreFound KeysStayFound
