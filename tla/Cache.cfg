\* Four files of which three may be stored, so that a creation evicts, and a write
\* may evict one other file or both; four sizes, so that it may or may not need room.
CONSTANTS
  Files = {f1, f2, f3, f4}
  MaxFileNum = 3
  MaxStorageSize = 3
  MaxRefs = 2
  MaxTime = 2
  NoFile = noFile
SPECIFICATION Spec
SYMMETRY MCSymmetry
INVARIANTS TypeOK Accounting WithinLimits VictimExists VictimIsLeast
\* The clock and the counters are bounded.
CHECK_DEADLOCK FALSE
