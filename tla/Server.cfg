\* Two workers, so that one can notify a client the other has just parked; three
\* clients, so that two can wait for the same one.
CONSTANTS
  Workers = {w1, w2}
  MaxClients = 3
  MaxTasks = 3
  LogCap = 3
SPECIFICATION Spec
SYMMETRY MCSymmetry
INVARIANTS TypeOK FdConservation ClientCountExact FdNumCovers QueueHasRoom SoftExitDrains
\* The process ends.
CHECK_DEADLOCK FALSE
