----------------------------- MODULE FileAccess -----------------------------
(***************************************************************************)
(* How the worker threads of the server share the files of the storage:    *)
(* the request handlers of src/src/filesystemApi.c, at the grain of their  *)
(* mutexes and condition variables.                                        *)
(*                                                                         *)
(* Three kinds of mutex: `mutex` of the storage; `ordering` of a file,     *)
(* which a handler that waits for the file keeps, so that at most one      *)
(* does; `mutex` of a file, which pthread_cond_wait gives up.  A step is   *)
(* the code from one acquisition to the next, or to the wait.  The file    *)
(* mutex is held within a step and never across two, so it needs no        *)
(* variable; entering a file takes `ordering` and `mutex` together, since  *)
(* between the two nothing can be done that could not be done before.      *)
(*                                                                         *)
(* Abstracted: contents and sizes (a write may evict any other files, a    *)
(* creation any file), the list order of the files, openDescriptors and    *)
(* canDoFirstWrite (any read or write may be refused for want of an open), *)
(* the usage counters, logging, failed allocations.  A handler's reply,    *)
(* and the reply to a client it unblocks, go out at its last step.         *)
(***************************************************************************)
EXTENDS Integers, FiniteSets, Sequences, SequencesExt

CONSTANTS
  Workers,     \* the threads of the pool
  Fds,         \* the connected clients
  Files,       \* pathnames
  MaxFileNum,  \* store->maxFileNum
  Ops,         \* the requests the clients make
  NoWorker, NoFd, NoFile

\* A creation or an open may carry O_LOCK; "exit" is a closed connection.
FileOps == {"create", "createLocked", "open", "openLocked", "read", "write",
            "lock", "unlock", "close", "remove", "testFirstWrite"}
StoreOps == {"readN", "exit"}
Creations == {"create", "createLocked"}

ASSUME WorkersAssumption == NoWorker \notin Workers /\ IsFiniteSet(Workers)
ASSUME FdsAssumption == NoFd \notin Fds
ASSUME FilesAssumption == NoFile \notin Files
ASSUME OpsAssumption == Ops \subseteq FileOps \union StoreOps
\* server.c:441 replaces a configured maximum of 0 or less by the default.
ASSUME MaxFileNumAssumption == MaxFileNum \in Nat \ {0}

VARIABLES
  stored,         \* the files in dictStore and in the list hPtr .. tPtr
  lockedBy,       \* per file, the fd that has it locked or NoFd (0)
  pendingLocks,   \* per file, the fds waiting for its lock
  activeReaders,  \* per file
  isBeingWritten, \* per file
  ordering,       \* per file, the worker that owns the mutex or NoWorker
  storeMutex,     \* the worker that owns store->mutex or NoWorker
  req,            \* per worker, the request it serves
  step,           \* per worker, where it is in the handler
  at,             \* per worker, the file it has entered or is entering
  todo            \* per worker, the files clientExitHandler has yet to visit

fileVars == <<lockedBy, pendingLocks, activeReaders, isBeingWritten>>
vars == <<stored, fileVars, ordering, storeMutex, req, step, at, todo>>

Steps ==
  { "idle",     \* in dequeue, or reading a request
    "store",    \* about to lock store->mutex
    "scan",     \* owns store->mutex, between two files (exit) or reading all
    "entry",    \* owns store->mutex, about to lock the mutexes of file `at`
    "waiting",  \* owns `ordering` of file `at`, in pthread_cond_wait
    "woken",    \* owns `ordering` of file `at`, about to relock its mutex
    "inside",   \* has marked file `at` as read or written
    "locked",   \* inside, with lockedBy assigned (lockFileHandler)
    "add",      \* owns store->mutex, about to add the file it creates
    "dead" }    \* the process has aborted

NoRequest == [op |-> "none", fd |-> NoFd, file |-> NoFile]
Requests ==
  [op : Ops \intersect FileOps, fd : Fds, file : Files]
    \union [op : Ops \intersect StoreOps, fd : Fds, file : {NoFile}]

TypeOK ==
  /\ stored \subseteq Files
  /\ lockedBy \in [Files -> Fds \union {NoFd}]
  /\ pendingLocks \in [Files -> Seq(Fds)]
  /\ activeReaders \in [Files -> Nat]
  /\ isBeingWritten \in [Files -> BOOLEAN]
  /\ ordering \in [Files -> Workers \union {NoWorker}]
  /\ storeMutex \in Workers \union {NoWorker}
  /\ req \in [Workers -> Requests \union {NoRequest}]
  /\ step \in [Workers -> Steps]
  /\ at \in [Workers -> Files \union {NoFile}]
  /\ todo \in [Workers -> SUBSET Files]

Init ==
  /\ stored = {}
  /\ lockedBy = [f \in Files |-> NoFd]
  /\ pendingLocks = [f \in Files |-> <<>>]
  /\ activeReaders = [f \in Files |-> 0]
  /\ isBeingWritten = [f \in Files |-> FALSE]
  /\ ordering = [f \in Files |-> NoWorker]
  /\ storeMutex = NoWorker
  /\ req = [w \in Workers |-> NoRequest]
  /\ step = [w \in Workers |-> "idle"]
  /\ at = [w \in Workers |-> NoFile]
  /\ todo = [w \in Workers |-> {}]

-----------------------------------------------------------------------------
\* What a worker does with the file it is entering: its request, or destroying
\* the file (destroyFile, called to create, write and remove).
Task(w) ==
  IF req[w].op \in Creations \union {"remove"} \/
     (req[w].op = "write" /\ at[w] # req[w].file)
    THEN "destroy"
    ELSE req[w].op

\* These handlers give up store->mutex as soon as they have entered the file.
ReleasesStoreEarly(t) == t \in {"read", "lock", "unlock", "testFirstWrite"}

\* Variants of definitions, each named for what it gets wrong, are used only to
\* confirm that a property can fail.
WriteAmongReaders(t, f) ==
  \/ t \in {"read", "lock", "unlock", "close", "exit", "destroy"} /\ isBeingWritten[f]
  \/ t \in {"lock", "unlock", "close", "exit", "destroy"} /\ activeReaders[f] > 0
DestroyAtOnce(t, f) ==
  \/ t \in {"read", "lock", "unlock", "close", "exit"} /\ isBeingWritten[f]
  \/ t \in {"write", "lock", "unlock", "close", "exit"} /\ activeReaders[f] > 0
LockAmongReaders(t, f) ==
  \/ /\ t \in {"read", "lock", "unlock", "close", "exit", "destroy"}
     /\ isBeingWritten[f]
  \/ t \in {"write", "close", "destroy"} /\ activeReaders[f] > 0
LockDuringWrite(t, f) ==
  \/ t \in {"read", "unlock", "close", "exit", "destroy"} /\ isBeingWritten[f]
  \/ t \in {"write", "lock", "unlock", "close", "exit", "destroy"}
     /\ activeReaders[f] > 0

\* The loops around pthread_cond_wait.
MustWait(t, f) ==
  \/ /\ t \in {"read", "lock", "unlock", "close", "exit", "destroy"}
     /\ isBeingWritten[f]
  \/ /\ t \in {"write", "lock", "unlock", "close", "exit", "destroy"}
     /\ activeReaders[f] > 0

\* Waiters(f) is what pthread_cond_broadcast on f's rwCond wakes.
Waiters(f) == {w \in Workers : step[w] = "waiting" /\ at[w] = f}

\* Worker w goes to step s, the workers in W are woken.
Goto(w, s, W) ==
  step' = [x \in Workers |->
             IF x = w THEN s ELSE IF x \in W THEN "woken" ELSE step[x]]

\* Worker w answers its client and asks for another request.
Finish(w, W) ==
  /\ Goto(w, "idle", W)
  /\ req' = [req EXCEPT ![w] = NoRequest]
  /\ at' = [at EXCEPT ![w] = NoFile]

Stay(w, s) == Goto(w, s, {}) /\ UNCHANGED <<req, at>>

ReleaseOrdering(w) == ordering' = [ordering EXCEPT ![at[w]] = NoWorker]
ReleaseStore == storeMutex' = NoWorker
LeaveStoreEarly(w) ==
  storeMutex' = IF ReleasesStoreEarly(Task(w)) /\ step[w] = "entry"
                  THEN NoWorker ELSE storeMutex

LastWaiter(f) ==
  IF pendingLocks[f] = <<>> THEN NoFd ELSE Last(pendingLocks[f])

\* popNodeFromFdQueue(-1) on the waiting list of f: whom the lock passes to, and
\* who goes on waiting.
NextHolder(f) ==
  IF pendingLocks[f] = <<>> THEN NoFd ELSE Head(pendingLocks[f])
StillPending(f) ==
  IF pendingLocks[f] = <<>> THEN <<>> ELSE Tail(pendingLocks[f])

-----------------------------------------------------------------------------
\* Requests and store->mutex

\* A client has one request in progress: its fd is with one worker, or in a
\* waiting list, or in the readset of the manager.
Available(r) ==
  /\ \A w \in Workers : req[w].fd # r
  /\ \A f \in Files : ~ Contains(pendingLocks[f], r)

Dequeue(w, q) ==
  /\ step[w] = "idle"
  /\ Available(q.fd)
  /\ req' = [req EXCEPT ![w] = q]
  /\ Goto(w, "store", {})
  /\ UNCHANGED <<stored, fileVars, ordering, storeMutex, at, todo>>

AtStore(w) == step[w] = "store" /\ storeMutex = NoWorker

\* The early returns after findFile.
LookupFails(w) ==
  LET f == req[w].file IN
  /\ AtStore(w)
  /\ \/ req[w].op \in Creations /\ f \in stored
     \/ req[w].op \in FileOps \ Creations /\ f \notin stored
     \/ req[w].op = "remove" /\ f \in stored /\ lockedBy[f] # req[w].fd
  /\ Finish(w, {})
  /\ UNCHANGED <<stored, fileVars, ordering, storeMutex, todo>>

LookupSucceeds(w) ==
  LET f == req[w].file IN
  /\ AtStore(w)
  /\ req[w].op \in FileOps \ Creations
  /\ f \in stored
  /\ req[w].op = "remove" => lockedBy[f] = req[w].fd
  /\ storeMutex' = w
  /\ at' = [at EXCEPT ![w] = f]
  /\ Goto(w, "entry", {})
  /\ UNCHANGED <<stored, fileVars, ordering, req, todo>>

\* A creation in a storage with room for one more file.
Create(w) ==
  /\ AtStore(w)
  /\ req[w].op \in Creations
  /\ req[w].file \notin stored
  /\ Cardinality(stored) # MaxFileNum
  /\ storeMutex' = w
  /\ Stay(w, "add")
  /\ UNCHANGED <<stored, fileVars, ordering, todo>>

\* A creation in a storage that has all the files it may have.
CreateEvicting(w, victim) ==
  /\ AtStore(w)
  /\ req[w].op \in Creations
  /\ req[w].file \notin stored
  /\ Cardinality(stored) = MaxFileNum
  /\ victim \in stored
  /\ storeMutex' = w
  /\ at' = [at EXCEPT ![w] = victim]
  /\ Goto(w, "entry", {})
  /\ UNCHANGED <<stored, fileVars, ordering, req, todo>>

AddFile(w) ==
  LET f == req[w].file IN
  /\ step[w] = "add"
  /\ stored' = stored \union {f}
  /\ lockedBy' =
       [lockedBy EXCEPT ![f] =
          IF req[w].op = "createLocked" THEN req[w].fd ELSE NoFd]
  /\ Finish(w, {})
  /\ ReleaseStore
  /\ UNCHANGED <<pendingLocks, activeReaders, isBeingWritten, ordering, todo>>

ScanStore(w) ==
  /\ AtStore(w)
  /\ req[w].op \in StoreOps
  /\ storeMutex' = w
  /\ todo' = [todo EXCEPT ![w] = IF req[w].op = "exit" THEN stored ELSE {}]
  /\ Stay(w, "scan")
  /\ UNCHANGED <<stored, fileVars, ordering>>

ScanNext(w, f) ==
  /\ step[w] = "scan"
  /\ f \in todo[w]
  /\ todo' = [todo EXCEPT ![w] = @ \ {f}]
  /\ at' = [at EXCEPT ![w] = f]
  /\ Goto(w, "entry", {})
  /\ UNCHANGED <<stored, fileVars, ordering, storeMutex, req>>

EndScan(w) ==
  /\ step[w] = "scan"
  /\ todo[w] = {}
  /\ Finish(w, {})
  /\ ReleaseStore
  /\ UNCHANGED <<stored, fileVars, ordering, todo>>

-----------------------------------------------------------------------------
\* Entering a file: `ordering`, then `mutex`

AtFile(w) == step[w] = "entry" /\ ordering[at[w]] = NoWorker

\* assert(!fptr->isBeingWritten) at the entry of writeToFileHandler.
AssertionFails(w) ==
  /\ AtFile(w)
  /\ Task(w) = "write"
  /\ isBeingWritten[at[w]]
  /\ step' = [x \in Workers |-> "dead"]
  /\ UNCHANGED <<stored, fileVars, ordering, storeMutex, req, at, todo>>

\* Reads and writes are checked on entry and not again after a wait.
Allowed(w) ==
  Task(w) \in {"read", "write"} => lockedBy[at[w]] \in {NoFd, req[w].fd}

\* EACCES: locked by another client, or (any time, here) not opened.
Refuse(w) ==
  /\ AtFile(w)
  /\ Task(w) \in {"read", "write"}
  /\ Task(w) = "write" => ~ isBeingWritten[at[w]]
  /\ Finish(w, {})
  /\ ReleaseStore
  /\ UNCHANGED <<stored, fileVars, ordering, todo>>

\* The worker has both mutexes of its file and may go on to the loop.
HasFile(w) ==
  \/ /\ AtFile(w)
     /\ Allowed(w)
     /\ Task(w) = "write" => ~ isBeingWritten[at[w]]
  \/ step[w] = "woken"

WaitForFile(w) ==
  /\ HasFile(w)
  /\ MustWait(Task(w), at[w])
  /\ ordering' = [ordering EXCEPT ![at[w]] = w]
  /\ LeaveStoreEarly(w)
  /\ Stay(w, "waiting")
  /\ UNCHANGED <<stored, fileVars, todo>>

\* The worker is past the loop, with the file to itself for this step.
Enters(w, t) ==
  /\ HasFile(w)
  /\ Task(w) = t
  /\ ~ MustWait(t, at[w])
  /\ ReleaseOrdering(w)

SpuriousWakeup(w) ==
  /\ step[w] = "waiting"
  /\ Stay(w, "woken")
  /\ UNCHANGED <<stored, fileVars, ordering, storeMutex, todo>>

-----------------------------------------------------------------------------
\* What each handler does once it has the file

Open(w) ==
  LET f == at[w] IN
  /\ Enters(w, req[w].op)
  /\ Task(w) \in {"open", "openLocked", "testFirstWrite"}
  /\ lockedBy' =
       [lockedBy EXCEPT ![f] =
          IF Task(w) = "openLocked" /\ @ = NoFd THEN req[w].fd ELSE @]
  /\ Finish(w, {})
  /\ ReleaseStore
  /\ UNCHANGED <<stored, pendingLocks, activeReaders, isBeingWritten, todo>>

StartReadUncounted(w) ==
  /\ Enters(w, "read")
  /\ LeaveStoreEarly(w)
  /\ Stay(w, "inside")
  /\ UNCHANGED <<stored, fileVars, todo>>

StartRead(w) ==
  /\ Enters(w, "read")
  /\ LeaveStoreEarly(w)
  /\ activeReaders' = [activeReaders EXCEPT ![at[w]] = @ + 1]
  /\ Stay(w, "inside")
  /\ UNCHANGED <<stored, lockedBy, pendingLocks, isBeingWritten, todo>>

SignalledBefore(f) == IF activeReaders[f] = 0 /\ Waiters(f) # {} THEN 1 ELSE 0

\* The last reader signals: one waiter is woken, if there is one.
Signalled(f) == IF activeReaders[f] = 1 /\ Waiters(f) # {} THEN 1 ELSE 0

EndRead(w) ==
  LET f == at[w] IN
  /\ step[w] = "inside"
  /\ req[w].op = "read"
  /\ activeReaders' = [activeReaders EXCEPT ![f] = @ - 1]
  /\ \E W \in SUBSET Waiters(f) :
       /\ Cardinality(W) = Signalled(f)
       /\ Finish(w, W)
  /\ UNCHANGED <<stored, lockedBy, pendingLocks, isBeingWritten, ordering,
                 storeMutex, todo>>

\* Both keep store->mutex.
StartWriteOrClose(w) ==
  /\ Enters(w, req[w].op)
  /\ Task(w) \in {"write", "close"}
  /\ isBeingWritten' = [isBeingWritten EXCEPT ![at[w]] = TRUE]
  /\ Stay(w, "inside")
  /\ UNCHANGED <<stored, lockedBy, pendingLocks, activeReaders, storeMutex,
                 todo>>

\* The write needs room: destroyFile on another file.
Evict(w, victim) ==
  /\ step[w] = "inside"
  /\ req[w].op = "write"
  /\ victim \in stored \ {req[w].file}
  /\ at' = [at EXCEPT ![w] = victim]
  /\ Goto(w, "entry", {})
  /\ UNCHANGED <<stored, fileVars, ordering, storeMutex, req, todo>>

EndWriteOrClose(w) ==
  /\ step[w] = "inside"
  /\ req[w].op \in {"write", "close"}
  /\ isBeingWritten' = [isBeingWritten EXCEPT ![at[w]] = FALSE]
  /\ Finish(w, Waiters(at[w]))
  /\ ReleaseStore
  /\ UNCHANGED <<stored, lockedBy, pendingLocks, activeReaders, ordering, todo>>

\* The file is locked by another client: the requestor waits for an answer.
Park(w) ==
  LET f == at[w] IN
  /\ Enters(w, "lock")
  /\ LeaveStoreEarly(w)
  /\ lockedBy[f] \notin {NoFd, req[w].fd}
  /\ pendingLocks' = [pendingLocks EXCEPT ![f] = Append(@, req[w].fd)]
  /\ Finish(w, {})
  /\ UNCHANGED <<stored, lockedBy, activeReaders, isBeingWritten, todo>>

StartLock(w) ==
  LET f == at[w] IN
  /\ Enters(w, "lock")
  /\ LeaveStoreEarly(w)
  /\ lockedBy[f] \in {NoFd, req[w].fd}
  /\ isBeingWritten' = [isBeingWritten EXCEPT ![f] = TRUE]
  /\ Stay(w, "inside")
  /\ UNCHANGED <<stored, lockedBy, pendingLocks, activeReaders, todo>>

\* fptr->lockedBy = requestor, with no mutex held.
SetLock(w) ==
  /\ step[w] = "inside"
  /\ req[w].op = "lock"
  /\ lockedBy' = [lockedBy EXCEPT ![at[w]] = req[w].fd]
  /\ Stay(w, "locked")
  /\ UNCHANGED <<stored, pendingLocks, activeReaders, isBeingWritten, ordering,
                 storeMutex, todo>>

EndLockSilently(w) ==
  /\ step[w] = "locked"
  /\ isBeingWritten' = [isBeingWritten EXCEPT ![at[w]] = FALSE]
  /\ Finish(w, {})
  /\ UNCHANGED <<stored, lockedBy, pendingLocks, activeReaders, ordering,
                 storeMutex, todo>>

EndLock(w) ==
  /\ step[w] = "locked"
  /\ isBeingWritten' = [isBeingWritten EXCEPT ![at[w]] = FALSE]
  /\ Finish(w, Waiters(at[w]))
  /\ UNCHANGED <<stored, lockedBy, pendingLocks, activeReaders, ordering,
                 storeMutex, todo>>

\* Nothing changes when the requestor is not the holder (EACCES).
Unlock(w) ==
  LET f == at[w]
      mine == lockedBy[f] = req[w].fd
  IN
  /\ Enters(w, "unlock")
  /\ LeaveStoreEarly(w)
  /\ lockedBy' = [lockedBy EXCEPT ![f] = IF mine THEN NextHolder(f) ELSE @]
  /\ pendingLocks' =
       [pendingLocks EXCEPT ![f] = IF mine THEN StillPending(f) ELSE @]
  /\ Finish(w, Waiters(f))
  /\ UNCHANGED <<stored, activeReaders, isBeingWritten, todo>>

\* clientExitHandler at one file; it keeps store->mutex to the end of the list.
ExitFile(w) ==
  LET f == at[w]
      r == req[w].fd
      mine == lockedBy[f] = r
  IN
  /\ Enters(w, "exit")
  /\ lockedBy' = [lockedBy EXCEPT ![f] = IF mine THEN NextHolder(f) ELSE @]
  /\ pendingLocks' =
       [pendingLocks EXCEPT ![f] =
          RemoveFirst(IF mine THEN StillPending(f) ELSE @, r)]
  /\ at' = [at EXCEPT ![w] = NoFile]
  /\ Goto(w, "scan", {})
  /\ UNCHANGED <<stored, activeReaders, isBeingWritten, storeMutex, req, todo>>

\* destroyFile; the clients that waited for the lock are told the file is gone.
\* A write goes on with its own file, a creation with the new one.
Destroy(w) ==
  LET f == at[w] IN
  /\ Enters(w, "destroy")
  /\ stored' = stored \ {f}
  /\ lockedBy' = [lockedBy EXCEPT ![f] = NoFd]
  /\ pendingLocks' = [pendingLocks EXCEPT ![f] = <<>>]
  /\ \/ /\ req[w].op = "remove"
        /\ Finish(w, {})
        /\ ReleaseStore
     \/ /\ req[w].op = "write"
        /\ at' = [at EXCEPT ![w] = req[w].file]
        /\ Goto(w, "inside", {})
        /\ UNCHANGED <<storeMutex, req>>
     \/ /\ req[w].op \in Creations
        /\ at' = [at EXCEPT ![w] = NoFile]
        /\ Goto(w, "add", {})
        /\ UNCHANGED <<storeMutex, req>>
  /\ UNCHANGED <<activeReaders, isBeingWritten, todo>>

-----------------------------------------------------------------------------
\* Any step of a worker that has entered the critical section of the storage,
\* except returning from pthread_cond_wait for no reason.
Continue(w) ==
  \/ AddFile(w)
  \/ \E f \in Files : ScanNext(w, f) \/ Evict(w, f)
  \/ EndScan(w)
  \/ AssertionFails(w)
  \/ Refuse(w)
  \/ WaitForFile(w)
  \/ Open(w)
  \/ StartRead(w)
  \/ EndRead(w)
  \/ StartWriteOrClose(w)
  \/ EndWriteOrClose(w)
  \/ Park(w)
  \/ StartLock(w)
  \/ SetLock(w)
  \/ EndLock(w)
  \/ Unlock(w)
  \/ ExitFile(w)
  \/ Destroy(w)

EnterStore(w) ==
  \/ LookupFails(w)
  \/ LookupSucceeds(w)
  \/ Create(w)
  \/ \E f \in Files : CreateEvicting(w, f)
  \/ ScanStore(w)

Next ==
  \E w \in Workers :
    \/ \E q \in Requests : Dequeue(w, q)
    \/ EnterStore(w)
    \/ Continue(w)
    \/ SpuriousWakeup(w)

\* A thread that can run gets to run.  Nothing is assumed of the order in which
\* pthread mutexes are granted, so nothing is promised to a thread that has yet
\* to get store->mutex.
Fairness == \A w \in Workers : WF_vars(Continue(w))

Spec == Init /\ [][Next]_vars /\ Fairness

-----------------------------------------------------------------------------
\* Properties

\* Worker w decompresses the content of f.
Reads(w, f) ==
  \/ step[w] = "inside" /\ req[w].op = "read" /\ at[w] = f
  \/ step[w] = "scan" /\ req[w].op = "readN" /\ f \in stored

\* Worker w is between its two critical sections on f, perhaps evicting others.
Writes(w, f) ==
  /\ req[w].op = "write" /\ req[w].file = f
  /\ \/ step[w] = "inside"
     \/ step[w] \in {"entry", "waiting", "woken"} /\ at[w] # f

\* A content that is being written is neither read nor written by anybody else,
\* whatever mutexes the readers (of one file, of all files) and the writer have
\* given up meanwhile.
RWExclusion ==
  \A w, v \in Workers : \A f \in Files :
    w # v /\ Writes(w, f) => ~ Reads(v, f) /\ ~ Writes(v, f)

\* A thread in pthread_cond_wait waits for something: the signal of the last
\* reader and the broadcasts of the writers reach whoever they are for.
WaitersHaveReason ==
  \A w \in Workers : step[w] = "waiting" => MustWait(Task(w), at[w])

\* No thread has a pointer to a file that eviction or removal has freed, and a
\* file being written is not evicted.
NoDanglingNode ==
  \A w \in Workers :
    /\ at[w] # NoFile => at[w] \in stored
    /\ \A f \in Files : Writes(w, f) => f \in stored

\* What lockedBy allowed a write or a removal on entry, it still allows when that
\* takes effect: a write (tested at filesystemApi.c:744) after the readers have
\* left, a removal (1102, before it has the file's mutex) after everybody has.
\* Not so a read: it tests lockedBy (574) before it waits for the writer to leave (585),
\* which may be a lockFile of another client (LockStaysForReads).
WritesRespectLock ==
  \A w \in Workers :
    /\ \A f \in Files : Writes(w, f) => lockedBy[f] \in {NoFd, req[w].fd}
    /\ req[w].op = "remove" /\ at[w] # NoFile => lockedBy[at[w]] = req[w].fd

\* While the content of a file is read, nobody gets, gives up or inherits its lock,
\* though readers keep no mutex: whatever changes lockedBy waits for them, or, if it
\* waits for nothing (lockFile at 887), had marked the file before they came in.
LockStaysForReads ==
  [][\A w \in Workers :
       step[w] = "inside" /\ req[w].op = "read" => lockedBy'[at[w]] = lockedBy[at[w]]]_vars

\* Lock, unlock, exit and destruction, each spread over several steps of several
\* threads, together keep the promise of FileLock.
Lock == INSTANCE FileLock WITH holder <- lockedBy, queue <- pendingLocks
ImplementsFileLock == Lock!Spec

\* Worker w, once it has got hold of the storage, comes to the end of its handler.
HandlerEnds(w) == step[w] \notin {"idle", "store"} ~> step[w] \in {"idle", "dead"}

\* filesystemApi.c:741-742: "this can't be true at this time because it would
\* mean two writers both have mutex over the store".
NeverAborts == \A w \in Workers : step[w] # "dead"
=============================================================================
