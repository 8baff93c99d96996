\* Two clients, both after the lock of one file, one by way of openFile.
CONSTANTS
  Workers = {w1, w2}
  Fds = {r1, r2}
  Files = {f1}
  MaxFileNum = 1
  Ops <- AllOps
  NoWorker = noWorker
  NoFd = noFd
  NoFile = noFile
SPECIFICATION Spec
PROPERTIES ImplementsFileLock
CHECK_DEADLOCK FALSE
