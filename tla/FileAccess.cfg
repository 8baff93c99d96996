\* Three workers, so that one can wait, one be waited for and one interfere;
\* three files of which two may be stored, so that a creation evicts, and a
\* write evicts another file; three clients, so that two can wait for a lock.
CONSTANTS
  Workers = {w1, w2, w3}
  Fds = {r1, r2, r3}
  Files = {f1, f2, f3}
  MaxFileNum = 2
  Ops <- ClientOps
  NoWorker = noWorker
  NoFd = noFd
  NoFile = noFile
SPECIFICATION Spec
SYMMETRY MCSymmetry
INVARIANTS TypeOK RWExclusion WaitersHaveReason NoDanglingNode WritesRespectLock
PROPERTIES LockStaysForReads ImplementsFileLock
\* The storage may come to rest: every client may be blocked on a lock that
\* another blocked client holds, and the process is gone after an abort.
CHECK_DEADLOCK FALSE
