\* Two producers and three consumers on a buffer of two: both wait sets get two
\* threads, and the buffer is empty, partly full and full.
CONSTANTS
  Producers = {p1, p2}
  Consumers = {c1, c2, c3}
  Items = {a, b}
  Capacity = 2
  NoItem = none
SPECIFICATION Spec
INVARIANTS TypeOK NoLostWakeup
PROPERTIES ImplementsFifo
