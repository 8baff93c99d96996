\* Two workers, one of them locking a file and the other writing to it.
CONSTANTS
  Workers = {w1, w2}
  Fds = {r1, r2}
  Files = {f1, f2}
  MaxFileNum = 1
  Ops <- ClientOps
  NoWorker = noWorker
  NoFd = noFd
  NoFile = noFile
SPECIFICATION Spec
INVARIANTS NeverAborts
CHECK_DEADLOCK FALSE
