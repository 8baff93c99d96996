\* Two workers and two clients, without symmetry.
CONSTANTS
  Workers = {w1, w2}
  MaxClients = 2
  MaxTasks = 2
  LogCap = 2
SPECIFICATION Spec
PROPERTIES RequestsServed CleanupEnds
\* The process ends.
CHECK_DEADLOCK FALSE
