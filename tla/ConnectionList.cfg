\* Five connections: every position in the list, and lists of every length,
\* are removed from.  The counter wraps around at four.
CONSTANTS
  Conn = {c1, c2, c3, c4, c5}
  NULL = NULL
  CountModulus = 4
SPECIFICATION Spec
INVARIANTS TypeOK LinksSpellOrder RemovesAreSafe
