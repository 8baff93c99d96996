\* Two connections, whose descriptors are given again to later ones, and three
\* commands: enough for two programs to wait for each other, for a lock to pass
\* to one that waits when its owner ends, for a creation to evict a file of
\* another (three files, of which two may be stored), for a close to come between
\* the test and the write of a writeFile.
CONSTANTS
  f1 = f1
  f2 = f2
  f3 = f3
  Files = {f1, f2, f3}
  Fds = {1, 2}
  MaxFileNum = 2
  Commands <- LibraryCommands
  MaxCommands = 3
SPECIFICATION Spec
INVARIANTS TypeOK RightsAreOwn InStep DiesOnlyOfDesertion
PROPERTIES FirstWriteKept ImplementsService CallsReturn
\* The programs end, the server may die, and programs may wait for each other.
CHECK_DEADLOCK FALSE
