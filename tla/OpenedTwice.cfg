\* The shipped client: a file that it was not allowed to read it leaves open, and
\* may open again.
CONSTANTS
  f1 = f1
  f2 = f2
  f3 = f3
  Files = {f1}
  Fds = {1, 2}
  MaxFileNum = 1
  Commands <- ShippedCommands
  MaxCommands = 3
SPECIFICATION Spec
INVARIANTS OnlyOpenersMayUse
CHECK_DEADLOCK FALSE
