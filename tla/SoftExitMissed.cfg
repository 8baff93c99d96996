\* One worker and one client are enough.
CONSTANTS
  Workers = {w1}
  MaxClients = 1
  MaxTasks = 1
  LogCap = 1
SPECIFICATION Spec
PROPERTIES SoftExitEnds
CHECK_DEADLOCK FALSE
