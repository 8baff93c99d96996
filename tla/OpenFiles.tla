----------------------------- MODULE OpenFiles -----------------------------
(***************************************************************************)
(* The rights of clients over the files of the storage, at the grain of a  *)
(* request (the handlers of src/src/filesystemApi.c): who has a file       *)
(* locked, who waits for the lock, who has it open, who may still make the *)
(* first write.  A handler is one step; what happens inside it is the      *)
(* subject of FileAccess, sizes and the choice of a victim are those of    *)
(* CacheStorage, contents those of FileContent.                            *)
(*                                                                         *)
(* A handler answers the client it serves and may settle the call of       *)
(* clients that wait for a lock.  Of an error the client library keeps     *)
(* only that it is not OK, so there is one kind of refusal.                *)
(***************************************************************************)
EXTENDS Naturals, Sequences, SequencesExt, FiniteSets

CONSTANTS
  Files,
  Fds,          \* the descriptors of the connections
  MaxFileNum    \* maxFileNum of the storage

Nobody == 0

ASSUME RightsAssumption ==
  /\ Nobody \notin Fds
  /\ MaxFileNum \in Nat \ {0}

VARIABLES
  store,   \* the stored files, each with its FileNode_t
  answer   \* what the server has decided to answer to each client, until it has

FileNode == [lockedBy : Fds \union {Nobody},
             pendingLocks : Seq(Fds),
             openDescriptors : Seq(Fds),
             canDoFirstWrite : Fds \union {Nobody}]

None == [code |-> "none", files |-> {}]
Refused == [code |-> "refused", files |-> {}]
Ok(files) == [code |-> "OK", files |-> files]
Answers == [code : {"none", "OK", "refused"}, files : SUBSET Files]

Stored == DOMAIN store

StoreOK ==
  /\ Stored \subseteq Files
  /\ Cardinality(Stored) <= MaxFileNum
  /\ \A f \in Stored : store[f] \in FileNode
  /\ answer \in [Fds -> Answers]

StoreInit ==
  /\ store = << >>
  /\ answer = [fd \in Fds |-> None]

-----------------------------------------------------------------------------
\* Answers and destroyed files

Settle(fd, a, others, b) ==
  answer' = [g \in Fds |-> IF g = fd THEN a ELSE IF g \in others THEN b ELSE answer[g]]

Accept(fd, files) == Settle(fd, Ok(files), {}, None)

Refuse(fd) == Settle(fd, Refused, {}, None) /\ UNCHANGED store

\* A definition named for what it gets wrong is a variant of the one that follows
\* it, and used only to confirm that a property can fail.
WaitersUntold(files) == {}

\* The clients to be told that a file they wait for is no more.
Waiters(files) == UNION {ToSet(store[f].pendingLocks) : f \in files}

AcceptAndDestroy(fd, answered, files) ==
  Settle(fd, Ok(answered), Waiters(files), Refused)

\* The storage without some of its files.
Without(files) == Restrict(store, Stored \ files)

-----------------------------------------------------------------------------
\* openFile

NewFile(fd, lock) ==
  LET owner == IF lock THEN fd ELSE Nobody
  IN [lockedBy |-> owner, pendingLocks |-> << >>,
      openDescriptors |-> <<fd>>, canDoFirstWrite |-> owner]

NeverFull == {{}}

\* A full storage loses one file, which nobody is sent.
Victims == IF Cardinality(Stored) = MaxFileNum THEN {{v} : v \in Stored} ELSE {{}}

CreateFile(fd, f, lock) ==
  /\ f \notin Stored
  /\ \E victims \in Victims :
       /\ store' = [g \in (Stored \ victims) \union {f} |->
                      IF g = f THEN NewFile(fd, lock) ELSE store[g]]
       /\ AcceptAndDestroy(fd, {}, victims)

OpenExisting(fd, f) ==
  /\ f \in Stored
  /\ store' = [store EXCEPT ![f].openDescriptors = Append(@, fd)]
  /\ Accept(fd, {})

\* O_CREATE is for files that are not there, and for no others.
OpenFile(fd, f, create, lock) ==
  \/ (f \in Stored) = create /\ Refuse(fd)
  \/ create /\ CreateFile(fd, f, lock)
  \/ ~create /\ OpenExisting(fd, f)

-----------------------------------------------------------------------------
\* readFile, readNFiles, writeFile, appendToFile

\* The test of readFileHandler and writeToFileHandler.
MayUse(fd, f) ==
  /\ f \in Stored
  /\ store[f].lockedBy \in {Nobody, fd}
  /\ fd \in ToSet(store[f].openDescriptors)

ReadFile(fd, f) ==
  \/ ~MayUse(fd, f) /\ Refuse(fd)
  \/ /\ MayUse(fd, f)
     /\ store' = [store EXCEPT ![f].canDoFirstWrite = Nobody]
     /\ Accept(fd, {})

\* All the files, or as many as the request asks for.
ReadNFiles(fd) == \E files \in SUBSET Stored : Accept(fd, files) /\ UNCHANGED store

TestFirstWrite(fd, f) == f \in Stored /\ store[f].canDoFirstWrite = fd

\* Some other files make room, and are sent to the client. A write that is
\* allowed may still be refused, if the file would be too big.
WriteToFile(fd, f) ==
  \/ Refuse(fd)
  \/ /\ MayUse(fd, f)
     /\ \E victims \in SUBSET (Stored \ {f}) :
          /\ store' = [Without(victims) EXCEPT ![f].canDoFirstWrite = Nobody]
          /\ AcceptAndDestroy(fd, victims, victims)

-----------------------------------------------------------------------------
\* lockFile, unlockFile, closeFile, removeFile, and a closed connection

LockBlockedUsesUp(fd, f) ==
  /\ f \in Stored /\ store[f].lockedBy \notin {Nobody, fd}
  /\ store' = [store EXCEPT ![f].pendingLocks = Append(@, fd),
                            ![f].canDoFirstWrite = Nobody]
  /\ UNCHANGED answer

\* -2: the client waits, and is not answered.
LockBlocked(fd, f) ==
  /\ f \in Stored /\ store[f].lockedBy \notin {Nobody, fd}
  /\ store' = [store EXCEPT ![f].pendingLocks = Append(@, fd)]
  /\ UNCHANGED answer

LockFile(fd, f) ==
  \/ f \notin Stored /\ Refuse(fd)
  \/ LockBlocked(fd, f)
  \/ /\ f \in Stored /\ store[f].lockedBy \in {Nobody, fd}
     /\ store' = [store EXCEPT ![f].lockedBy = fd, ![f].canDoFirstWrite = Nobody]
     /\ Accept(fd, {})

\* The first that waits for the file gets its lock.
Heirs(file) == IF file.pendingLocks = << >> THEN {} ELSE {Head(file.pendingLocks)}

PassLock(file) ==
  IF file.pendingLocks = << >>
    THEN [file EXCEPT !.lockedBy = Nobody]
    ELSE [file EXCEPT !.lockedBy = Head(file.pendingLocks), !.pendingLocks = Tail(@)]

UnlockFile(fd, f) ==
  \/ ~(f \in Stored /\ store[f].lockedBy = fd) /\ Refuse(fd)
  \/ /\ f \in Stored /\ store[f].lockedBy = fd
     /\ store' = [store EXCEPT ![f] = [PassLock(@) EXCEPT !.canDoFirstWrite = Nobody]]
     /\ Settle(fd, Ok({}), Heirs(store[f]), Ok({}))

CloseFile(fd, f) ==
  \/ f \notin Stored /\ Refuse(fd)
  \/ /\ f \in Stored
     /\ store' = [store EXCEPT ![f].openDescriptors = RemoveFirst(@, fd),
                               ![f].canDoFirstWrite = Nobody]
     /\ Accept(fd, {})

RemoveFile(fd, f) ==
  \/ ~(f \in Stored /\ store[f].lockedBy = fd) /\ Refuse(fd)
  \/ /\ f \in Stored /\ store[f].lockedBy = fd
     /\ store' = Without({f})
     /\ AcceptAndDestroy(fd, {}, {f})

ExitFileStaysOpen(file, fd) ==
  LET passed == IF file.lockedBy = fd THEN PassLock(file) ELSE file
  IN [passed EXCEPT !.pendingLocks = RemoveFirst(@, fd)]

\* What clientExitHandler does to one file.
ExitFile(file, fd) ==
  LET passed == IF file.lockedBy = fd THEN PassLock(file) ELSE file
  IN [passed EXCEPT !.pendingLocks = RemoveFirst(@, fd),
                    !.openDescriptors = RemoveFirst(@, fd)]

ClientExit(fd) ==
  /\ store' = [f \in Stored |-> ExitFile(store[f], fd)]
  /\ Settle(fd, None, UNION {Heirs(store[f]) : f \in {g \in Stored : store[g].lockedBy = fd}},
            Ok({}))

-----------------------------------------------------------------------------
\* The requests. A call names the function of the library; openFile comes with
\* O_CREATE and O_LOCK ("create"), with O_CREATE ("openNew") or with no flag
\* ("open"). An openFile with O_LOCK alone is left to FileAccess, where lockFile
\* is not atomic with respect to it.

Ops == {"create", "openNew", "open", "read", "readN", "write", "append", "lock",
        "unlock", "close", "remove"}
Calls == [op : Ops, file : Files]

\* The calls that an OK is not the whole answer to.
HasBody(call) == call.op \in {"read", "readN", "write", "append"}

\* The handler of any request but WRITE_FILE, which takes two.
Handle(fd, call) ==
  \/ call.op = "create" /\ OpenFile(fd, call.file, TRUE, TRUE)
  \/ call.op = "openNew" /\ OpenFile(fd, call.file, TRUE, FALSE)
  \/ call.op = "open" /\ OpenFile(fd, call.file, FALSE, FALSE)
  \/ call.op = "read" /\ ReadFile(fd, call.file)
  \/ call.op = "readN" /\ ReadNFiles(fd)
  \/ call.op = "append" /\ WriteToFile(fd, call.file)
  \/ call.op = "lock" /\ LockFile(fd, call.file)
  \/ call.op = "unlock" /\ UnlockFile(fd, call.file)
  \/ call.op = "close" /\ CloseFile(fd, call.file)
  \/ call.op = "remove" /\ RemoveFile(fd, call.file)
=============================================================================
