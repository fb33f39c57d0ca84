\* Three names that print and one that does not, a table for two of them,
\* allocations that may fail, and a second file behind the first.
SPECIFICATION Spec
CONSTANTS
  Ranges = {r1, r2, r3, bad}
  Printable = {r1, r2, r3}
  Patterns = {0, 1, 2}
  NFiles = 2
  DEDUP_CAP = 2
  MAX_MATCHES_PER_FILE = 4
  VecCap = 1
  MayFail = TRUE
SYMMETRY RangeSymmetry
INVARIANTS TypeOK TableAgrees KeepsHighest NoNameLost OwnsOnlyLines
PROPERTIES EarlierFilesKept
CHECK_DEADLOCK FALSE
