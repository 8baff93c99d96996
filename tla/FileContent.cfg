\* A 0 byte, the digits '2' and '9', and a letter; runs around the limit of 9 and
\* its double; four writes.
CONSTANTS
  Chars = {0, 50, 57, 97}
  RunLengths = {1, 2, 8, 9, 10}
  MaxWrites = 4
  Garbage = 57
SPECIFICATION Spec
INVARIANTS ReadsBack FitsBuffer
PROPERTIES NeverShrinks
\* The number of writes is bounded.
CHECK_DEADLOCK FALSE
