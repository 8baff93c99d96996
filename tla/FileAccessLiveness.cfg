\* Three workers and two files, both stored: a write evicts the other file while a
\* third worker reads or locks it, and an exit goes through both.
CONSTANTS
  Workers = {w1, w2, w3}
  Fds = {r1, r2, r3}
  Files = {f1, f2}
  MaxFileNum = 2
  Ops <- WaitingOps
  NoWorker = noWorker
  NoFd = noFd
  NoFile = noFile
SPECIFICATION SpecPaired
PROPERTIES HandlersEnd
CHECK_DEADLOCK FALSE
