# A TLA+ model of the file storage server

The program is a file storage server for one machine: clients connect to a Unix
socket and store, read, lock and remove files that live in the server's memory.
This directory holds TLA+ modules translated from its source, TLC configurations
that check them on small instances, and theorems proved with TLAPS for every
instance.

    tlc -workers 2 -config FileAccess.cfg MCFileAccess   # one run
    tlapm FileAccessProofs.tla                           # one set of proofs

`PROJECT.json` lists every run, maps every definition to the lines it models, and
lists the hazards of the code with the properties that cover them. Paths below are
relative to the repository's root (`src/src/server.c` is `server.c` here).

## The system

| Part | Source | State | Operations |
| --- | --- | --- | --- |
| manager | `server.c`, `main` 527-612 | `setsave`, `rset`, `fd_num`, `clientCount`, `softExit`, `hardExit` | select, scan, accept, reject, dispatch, read the pipe, wind up |
| workers | `server.c`, `_startWorker` | the descriptor served, `notifyList`, `putFdBack` | take a task, serve a request, park a client, notify, give back |
| storage | `filesystemApi.c` | the list of files, two counts, the mutex of the storage | 11 handlers |
| file | `filesystemApi.c` | content and sizes, `lockedBy`, waiting list, `openDescriptors`, `canDoFirstWrite`, `activeReaders`, `isBeingWritten`, counters, two mutexes, one condition | in the handlers |
| replacement | `filesystemApi.c` 41-62, `cacheFns.c` | the counters of the files | choose a victim: FIFO, LRU or LFU |
| content | `rleCompression.c` | none | compress, decompress |
| bounded buffer | `boundedbuffer.c` | a list, its length, a mutex, two conditions | enqueue, dequeue |
| logger | `log.c`, `logEvent` | the log buffer | log an event, flush |
| client library | `clientApi.c`, `clientInternals.c` | one connection | one blocking call per request, which reads all of its response |
| client program | `client.c` | the options not yet run | each option is a sequence of calls |
| parsers, hash table, scripts | `cliParser.c`, `fileparser.c`, `icl_hash.c`, `statistiche.sh`, `tests/` | | |

How they interact. The manager waits in `select` for a request on a descriptor
nobody is serving, takes the descriptor out of the set and queues it in a bounded
buffer. A worker dequeues it, reads the request, calls the handler of the storage,
answers, and writes the descriptor to a pipe the manager also selects on. When
`lockFile` meets a lock that somebody else has, the descriptor goes into the list of
the file instead, and whichever worker later releases the lock or destroys the
file answers that client and puts its descriptor into the pipe. The handlers share
the files under three kinds of mutex: one for the storage, and for each file
`ordering`, kept while waiting so that at most one thread waits, and `mutex`, which
goes with the condition `rwCond`. Events are logged through a second bounded buffer.
SIGHUP asks the server to end when the clients have left, SIGINT and SIGQUIT at once.

What is hard, and what makes each part correct:

- **Buffer**: broadcasts are made on the edges from empty and from full only. No item
  and no wake-up may be lost.
- **File sharing**: a count, a flag, a condition variable and three mutexes, some of
  them given up early and one assignment made with none. Readers and writers must
  exclude each other; nobody may use a freed file, wait for nothing, or wait for ever
  in a cycle; a lock has one owner at a time and passes on in order of arrival.
- **Cache**: two counts kept by additions and subtractions in several handlers, and
  a search through counters that others are changing. The limits must hold, a victim
  must exist whenever one is needed, and it should be the right one.
- **Content**: every write decodes, appends and encodes again. What is read must be
  what was written.
- **Sessions**: requests and responses have parts (a code, a payload, files, the end of
  a list), sent by one side and read by the other, whatever the outcome. Neither side
  may leave a part unread, and a call must return what its request did. A file keeps
  descriptors of clients, and the kernel gives a closed descriptor to the next client: no
  right over a file should outlive the connection it was given to (two of them can).
- **Threads of the server**: a descriptor travels through five places. It must be in
  exactly one; the count of clients decides when the server ends; `fd_num` decides
  whom `select` looks at; signals arrive at any time.

## Modules

| Module | Models | Checked by | Proved in |
| --- | --- | --- | --- |
| `BoundedFifo` | what the buffer promises (abstract) | through `BoundedBuffer` | |
| `BoundedBuffer` | `boundedbuffer.c` | run `buffer` | `BoundedBufferProofs` |
| `FileLock` | what the locks promise (abstract) | through `FileAccess` | `FileAccessProofs` |
| `FileAccess` | the handlers at the grain of their mutexes | runs `access`, `access_ends`, `assert_fails`, `lock_stolen` (`MCFileAccess`) | `FileAccessProofs` |
| `CacheStorage` | list, counts, limits, eviction | run `cache` (`MCCacheStorage`) | `CacheStorageProofs` |
| `FileContent` | run-length coding under repeated writes | run `content` | `FileContentProofs` |
| `OpenFiles` | the rights of clients over files, a handler in one step | through `Session` | |
| `FileService` | what the client library promises (abstract) | through `Session` | `SessionService` |
| `Session` | client programs, client library and workers over connections | runs `sessions`, `opened_twice` (`MCSession`) | `SessionProofs`, `SessionService` |
| `Server` | manager, workers, pipe, signals, clients, logger | runs `server`, `server_ends`, `soft_exit_missed` (`MCServer`) | `ServerProofs` |

`DataLemmas` holds the facts about numbers, sums, sequences and finite sets that several
of the proofs cite.

They are layers of one program, cut where the code has an interface. `Server` takes a
handler for one step with an outcome (answered, or parked; some parked clients
released), whose inside is `FileAccess`; `FileAccess` lets a write evict any other
files, and `CacheStorage` says which and how many; `CacheStorage` lets a write give
any size no less than before, which is property `NeverShrinks` of `FileContent`; and
`Server` takes its task queue to be a FIFO, which is what `BoundedBuffer` implements.
`Session` is the other cut through the server: it keeps what a request says and does,
which `Server` leaves out, and takes from `Server` how a descriptor reaches a worker
and comes back, and from `FileAccess` that a handler may be seen as one step (what is
wrong with that is the subject of `lock_stolen` and `assert_fails`, and `Session` keeps
to requests without `O_LOCK` alone).

In several modules a few definitions are followed or preceded by variants named for
what they get wrong (`EnqueueSignals`, `WriteAmongReaders`, `KeepWatching`, ...). No
behaviour uses them. Each is the mistake one property is there to catch, and
`PROJECT.json` says which: put in the place of the definition it varies, it makes
the property fail.

### BoundedBuffer

State: the list as a sequence, the two wait sets, the item of each producer's call
and of each consumer's last return. A critical section is one step, since nothing
else touches the buffer; a thread in `pthread_cond_wait` is in a wait set, a
broadcast empties it, and the threads compete for the mutex again and test the
loop's condition again. A wait may also end for no reason, as POSIX allows.

- `NoLostWakeup`: consumers sleep only while the buffer is empty, producers only
  while it is full.
- `ImplementsFifo`: it implements `BoundedFifo` with `queue <- buffer`, liveness
  included: while there is an item, some consumer gets one. Which one is up to the
  mutex, so no thread alone is promised anything.

Fairness: a thread that is not blocked gets to run its critical section, taken for
each thread (the mutex is held for finitely many instructions).

### FileAccess

A step is the code from one acquisition of a mutex to the next, or to the wait. The
mutex of the storage and `ordering` are variables with an owner. `mutex` of a file is
never held across two steps and needs none. Each worker has a request, a place in the
handler, the file it is at, and the files an exiting client has yet to visit.

| Steps | Code |
| --- | --- |
| `LookupFails`, `LookupSucceeds`, `Create`, `CreateEvicting`, `ScanStore` | from the lock of `store->mutex` on |
| `Refuse`, `AssertionFails`, `WaitForFile`, `Enters` | the mutexes of the file, the checks, the loop around the wait |
| `Open`, `Park`, `Unlock`, `ExitFile`, `Destroy` | one critical section |
| `StartRead`/`EndRead`, `StartWriteOrClose`/`EndWriteOrClose`, `StartLock`/`SetLock`/`EndLock` | two, with the work between |
| `Evict` | `destroyFile` from within a write |
| `SpuriousWakeup` | a return from `pthread_cond_wait` without a signal |

Abstracted: contents and sizes; which file is evicted (any); `openDescriptors` and
`canDoFirstWrite`, so that any read or write may be refused (they are kept by
`OpenFiles`); the counters; the log. A
client has one request in progress, as its library waits for each response.

- `RWExclusion`: a content being written is read by nobody, neither by a read of that
  file nor by a read of all files, and written by nobody else.
- `WaitersHaveReason`: nobody waits on a file that is at rest. The last reader
  signals one thread where the others broadcast, which is right only because
  `ordering` lets one thread wait at a time.
- `NoDanglingNode`: no thread is at a file that was freed.
- `WritesRespectLock`: the lock that a write or a removal has tested still allows it
  when it takes effect, after the wait. The same is not true of reads: a read waits for a
  `lockFile` under way, and does not test again.
- `LockStaysForReads`: while a file is read, with no mutex held, its lock does not change.
- `ImplementsFileLock`: lock, unlock, exit and destruction implement `FileLock`
  with `holder <- lockedBy`, `queue <- pendingLocks`.
- `HandlersEnd`: a handler that has got `store->mutex` ends, those included that keep it
  while they go from file to file: the exit of a client, and a write that evicts.

Fairness of `HandlersEnd`: each worker past that point runs on when it can. Nothing is
assumed of the order in which mutexes are granted, so a thread that has yet to get
`store->mutex` is promised nothing: others could always be first.

`MCFileAccess` names the requests. `ClientOps` are those the shipped client can make:
it uses `O_LOCK` only together with `O_CREATE` (`client.c` 207, 289; 119 opens without
flags), and a creation of a file that exists fails. `AllOps` adds the opening
of an existing file with a lock, which the protocol has and the server implements.
`WaitingOps`, for `HandlersEnd`, are the handlers that wait on the condition of a file or keep
others waiting, creations (which evict) included; opening, the test of a first write and
`readNFiles` take mutexes and give them up without waiting on a condition, and the creation with
a lock differs from the other in `lockedBy` alone, on which no wait depends. `SpecPaired` gives
each client a worker of its own: there are as many workers as clients, a client has one
request at a time, and a worker that is idle is like any other, so each behaviour is one of
these but for the names of the workers. Workers with their clients being alike, the run
follows one of them (`AWorker`).

### CacheStorage

State: the list, both counts, each file's size and counters, the clock, and where the
owner of the storage is in its operation: `getVictim`'s place in the list and its
candidate, the size the write needs, what it has evicted. One comparison of
`getVictim` is one step, and any other file may be used (`Touch`) between two, since
the handlers that use files need only the mutex of the file by then.

- `Accounting`: the counts are the number and the total size of the listed files.
- `WithinLimits`: neither is ever above its limit, between two evictions included.
- `VictimExists`: whenever `getVictim` is called there is a file besides the spare one,
  and it stays until it is evicted. Each round of the loop therefore removes a file,
  which is why the loop ends.
- `VictimIsLeast`: the victim has the least counter, unless its candidate was used
  while it was one. Without that exception TLC finds the victim that has just
  become the most used; `misled` is a history variable that records it.

### FileContent

`RLEcompress` and `RLEdecompress` are recursive functions on sequences of bytes. The
decoder looks two bytes ahead, past the end of the code: it then sees the 0s of a
buffer twice as large as the data, and for one single 0 byte what lies past the buffer
(`Garbage`), which does no harm as a run stops at the size of the data. A `char` is signed,
so characters are numbers from -128; a configuration file cannot hold a negative number, so
the run takes characters up to 127, and the theorems cover all.
`ReadsBack`: after any sequence of writes a reader gets what was written.
`FitsBuffer`: the code fits. `NeverShrinks`: it is never shorter after a write.

### OpenFiles and FileService

`OpenFiles` keeps of each stored file the four fields of `FileNode_t` that name clients:
`lockedBy`, `pendingLocks`, `openDescriptors` (in order, with repetitions, as the code
has no check) and `canDoFirstWrite`. It has one operator per handler, with the code's
tests and early returns, and `answer`: what was decided for each client and is not sent
yet, as a handler settles the call of its client and those of clients that wait for a
lock. Of an error code the library keeps only that it is not OK (it sets `errno`), so there is one
refusal. A write may be refused for its size whatever its rights (`CacheStorage`), and
evicts any set of other files.

`FileService` is what a caller of `clientApi.c` may rely on: every call takes effect
once, in one step, between the call and its return, and returns the outcome and the
files of that step. Two things in the code fall short of it and are stated there rather
than hidden. `writeFile` takes two steps (`Allow`, then `TakeEffect`), since `WRITE_FILE` tests
`canDoFirstWrite` and writes in two critical sections (`server.c` 290-307). And `removeFile` may
report a failure though the file is gone: its buffer for the response code is not
initialised (513), where all the others start from an empty string.

### Session

A connection is two streams of items, an item being what is read in one go: a request,
the payload of a write, a response code, a content, a file, the end of a list. A client
is the program with the library in it: it runs commands, each a sequence of calls, and
stops a command at the first call that is refused. A worker is known by the connection it
serves: it is reading a request, between the test and the write of a `WRITE_FILE`
(`tested`), about to refuse one (`forbidden`), or has done so and is to read the payload away
(`discarding`), about to answer, or telling others (`notifying`).

| Steps | Code |
| --- | --- |
| `Connect`, `NextCommand`, `ContinueCommand`, `CloseConnection` | the loop of `client.c` over its options |
| `ReadRefusal`, `ReadOK` | `WAIT_FOR_RESPONSE`, `readFile`, `storeFiles` |
| `Desert` | a program killed in a call, or that ends there as it cannot save a file |
| `Serve`, `ServeWrite`, `WriteTested` | the request read and its handler run (`_startWorker`) |
| `Forbid`, `ThrowAwayPayload` | the two steps of a `WRITE_FILE` refused (`server.c` 291, 293): the client may go on in between |
| `Respond`, `Notify`, `Finish` | `SEND_RESPONSE_CODE`, `NOTIFY_PENDING_CLIENTS`, what follows the code |
| `ServeExit` | end of stream: `clientExitHandler`, `close`, the heirs told |
| `Die` | `DIE_ON_NEG_ONE` after EPIPE or ECONNRESET |

- `RightsAreOwn`: a file is open for the clients that opened it on the connection they
  have now, and for others only where it was opened twice by a connection with that number;
  locks and waiting lists name only present clients, the latter only those that wait for
  that file. `opened` and `reopened` are history variables. `OnlyOpenersMayUse` makes no
  exception, and is false (`opened_twice`). The right to the first write, `canDoFirstWrite`,
  is not part of it: the model leaves it behind as the code does (see "Also met").
- `FirstWriteKept`: the right to the first write of a file its owner has locked is not
  lost by what others do, except that they close it.
- `InStep`: between two calls nothing of a response is left unread, and of the requests at
  most the payload of a `writeFile` that was refused, which a worker is about to read away;
  what a worker finds that takes up a connection is one whole request.
- `DiesOnlyOfDesertion`: if all programs read their responses to the end, the server
  is not brought down by a failed read or write.
- `ImplementsService`: `Session` implements `FileService`. A call is in progress while
  its client is in the library; its answer is what a worker has decided, or has sent and
  the library has not returned (`AnswerSoFar`); what it returned is `received` and whether the
  program goes on. So the answer in the streams, in parts and possibly
  to a client whose call was settled by another's worker, is the outcome of the step.
- `CallsReturn`: a call returns, unless the server dies or the client is in a circle of
  clients that wait for each other's locks (`InCircle`), which the code does nothing about:
  a waiting client keeps its locks. A client outside a circle does get an answer, from a
  lock passed on or a file destroyed.

Fairness: a program that is alive and not blocked goes on, ends or is killed in the
end, so a lock is not held for ever by a program that does nothing; a worker runs on when it can. The latter is two
results of other runs: a handler ends (`HandlersEnd`) and a request is served
(`RequestsServed`). Nothing is assumed of new programs or of programs being killed.

All of this is about programs that read each response to the end or go. The shipped client
goes on after a `readNFiles` whose files it could not save (`client.c` 319), with the rest of
the response in the stream: that is left out, and `InStep` does not hold of it.

Abstracted: the streams are unbounded, so that no `write` blocks; a response is read in
one step once all of it has come (nobody else reads that stream, and its parts are
sent with nothing to wait for in between but `NOTIFY_PENDING_CLIENTS`); a program's
arguments are any sequence of commands; `close` of the connection by the library is
followed by no new connection of the same program. The items of a response (codes, a content, the
end of a list, files) differ from one another (`SessionAssumption`): the code tells them
apart by their place and length.

### Server

Descriptors are numbers, for `fd_num` to be compared with; the pipe and the socket have
the lowest. `manager` is where `main` is: at the loop's condition, in `select`,
interrupted, in the scan, or winding up. A worker is idle, serving, or has answered
(or closed) and has clients to notify. A client thinks, has asked, has left, or was
killed while it waited: a response to it fails, and as `DIE_ON_NEG_ONE` exits, the
server is dead.

- `FdConservation`: each connected client's descriptor is in one place: watched,
  queued, served, parked, to be notified, or in the pipe.
- `ClientCountExact`: `clientCount` is the number of connected clients and of
  departures it has not been told of.
- `FdNumCovers`: `fd_num` bounds what is watched, and no scan ends before the last
  ready descriptor.
- `QueueHasRoom`: the manager never blocks on the task queue.
- `SoftExitDrains`: without a SIGINT, winding up starts only when no client is
  connected, no request is queued or served, nobody is parked, and no event is late.
- `RequestsServed`: a request is answered or parked, unless the server ends.
- `CleanupEnds`: winding up ends: every worker gets its message and is joined.

Fairness: the manager, the flusher and each worker run on when they can. Clients and
signals may do nothing.

Abstracted: a request arrives in one piece; at most `MaxClients` clients are counted
or wait to be accepted; the pipe (64 KiB of four-byte messages) does not fill; the log
buffer matters only after the flusher's exit message, with one event per handler
(evictions log more).

## Runs

| Run | Instance | Result |
| --- | --- | --- |
| `buffer` | 2 producers, 3 consumers, 2 items, capacity 2 | holds |
| `access` | 3 workers, 3 clients, 3 files of which 2 stored, `ClientOps`, symmetry | holds |
| `access_ends` | 3 workers, each with its client, 2 files, both stored, `WaitingOps` | holds |
| `assert_fails` | 2 workers, 2 clients | `NeverAborts` violated |
| `lock_stolen` | 2 workers, 2 clients, 1 file, `AllOps` | `ImplementsFileLock` violated |
| `cache` | 4 files of which 3 stored, 3 units of space, counters and clock up to 2, symmetry | holds |
| `content` | bytes 0, '2', '9', 'a'; runs of 1, 2, 8, 9, 10; 4 writes | holds |
| `sessions` | 2 connections, 3 files of which 2 stored, 3 commands of any program | holds |
| `opened_twice` | 2 connections, 1 file, 3 commands of the shipped client | `OnlyOpenersMayUse` violated |
| `server` | 2 workers, 3 clients, symmetry of the workers | holds |
| `server_ends` | 2 workers, 2 clients | holds |
| `soft_exit_missed` | 1 worker, 1 client | `SoftExitEnds` violated |

Why the bounds are enough. *buffer*: each wait set gets two threads, one of which is
woken too late, and the buffer is empty, partly full and full. *access*: one thread
waits, one is waited for, one interferes; at most one thread waits on a file, so a
fourth could only wait for a mutex. Two files stored let a write evict another file,
the third lets a creation evict. Three clients: a holder and two that wait, for the
order to matter. *access_ends*: two files stored, so that a write evicts one while it has the other, an exit goes
through both, a creation evicts either, and all three workers meet on one file with each
handler. *cache*: a write may need to evict none,
one or both of the other files; the counters get two values above 0 to be compared.
*content*: 9 is the largest digit, 10 its successor, and adjacent writes of one
character make runs up to 40. *sessions*: two
connections make a circle of waits, a lock passed on, and a request that comes between
the test and the write of another; three commands let a descriptor be given to a third
program after its first owner left rights behind, or a program go on after a refusal;
the third file makes a creation evict. The instance was searched for each of these:
circles, heirs told by a leaving client, waiting clients refused because their file was
destroyed, payloads thrown away, files sent with a write, a list after
notifications, and the end of the server all occur. Programs there run what the shipped
client runs on one file, and append to or lock others, which only programs
that use the library directly do. *server*: two workers are what it takes for one to
notify the client the other has just parked; a third client lets two be released at
once. Bounded on purpose: `MaxRefs` and `MaxTime` (counters and clock), `MaxWrites`,
`MaxClients`, `LogCap` (late events), `MaxCommands`.

## Where the code and what it says of itself part

1. `assert_fails`. `filesystemApi.c` 741-742 asserts that no file a write enters is
   being written: "it would mean two writers both have mutex over the store".
   `lockFileHandler` sets the same flag after it has given up the storage (866, 882),
   so a write that comes while a lock is being taken aborts the server.
2. `lock_stolen`. `lockFileHandler` tests `lockedBy` (872), gives up the file's mutexes
   and assigns `lockedBy` (887). `openFileHandler` with `O_LOCK` (512-515) does not look
   at `isBeingWritten` and may take the lock in between: its client is told it has a
   lock that the other then takes, against 833-836. The shipped client never opens an
   existing file with `O_LOCK`, and for what it does the promise holds (run `access`).
3. `opened_twice`. `openFileHandler` (521) adds the client to `openDescriptors` though it
   may be there, where `pushFdToList` takes it that "the fd isn't already present in
   the queue" (123); close and exit remove one entry. The other stays, and is a right
   of whoever is given the descriptor next. The shipped client gets there: `-r` does not
   close a file it was not allowed to read.
4. `soft_exit_missed`. SIGHUP is noticed when it interrupts `select` or when a client
   leaves. One that comes while the manager is elsewhere and nobody is connected
   leaves the server in `select`; `tests/test1.sh` 8 and 28 send it and wait.

Also met, and not the subject of a run:

- The counts of uses are reset "after evicting victims" (`filesystemApi.c` 800): the loop
  runs after every successful write.
- `readFileHandler` tests `lockedBy` (574), waits for the writer to leave (585), and reads
  without a second test. The writer it waits for may be a `lockFile` (882), which locks the
  file for another client (887) before it wakes the reader: a locked file is read, against 547.
  Writes and removals keep the storage while they wait, and what they wait for does not
  give the lock to another client (`WritesRespectLock`).
- `clientExitHandler` (931-947) takes the lock and the open entry of a client that leaves, but
  not `canDoFirstWrite`: a new connection with its number passes `testFirstWrite` (1142) once it has
  opened the file, which 1119-1120 keep for who "created and locked" it. The shipped client
  only writes files it has just created.
- `storeFiles` returns in the middle of a response when it cannot save a file (`clientApi.c`
  123-125), and `runCommands` ignores that for `readNFiles` (`client.c` 319). The next call takes
  the first character of what is left for its response code and fails, before the server has read
  its request, which is carried out all the same.
- `closeFileHandler` (1070) clears `canDoFirstWrite` whoever closes and whether it had the
  file open, so that any client can take the right of the first write from the creator,
  between the two steps of its `WRITE_FILE` too; 1119-1120 speak of the last operation
  being the creation.
- `openFileHandler` is documented (447) to answer EPERM for a file that does not exist
  and is not to be created; it answers ENOENT.
- SIGPIPE is ignored (`server.c` 453), but a response to a killed client still ends the
  server (62), as does a client that closes with a response unread (213, ECONNRESET).
- A new file's `lastRef` is 0, so LRU evicts the newest file first.

## What is proved

For every number of threads, clients, files and items, from the modules' ASSUMEs
(the capacity and the limits are positive, as `allocBoundedBuffer` and `server.c` 441
see to; the placeholders and the items of a response are not members of the sets; there
are finitely many workers).
A hypothesis that goes beyond the ASSUMEs is in the table:

| Theorem | Statement |
| --- | --- |
| `BoundedBufferProofs!TypeCorrect` | `Spec => []TypeOK` |
| `BoundedBufferProofs!WaitersAreExact` | `Spec => []NoLostWakeup` |
| `BoundedBufferProofs!RefinesFifo` | `Spec => Fifo!SafeSpec` |
| `FileAccessProofs!TypeCorrect` | `Spec => []TypeOK` |
| `FileAccessProofs!ReadersAndWritersExclude` | `Spec => []RWExclusion` |
| `FileAccessProofs!NoUseAfterFree` | `Spec => []NoDanglingNode` |
| `FileAccessProofs!NoLostSignal` | `Spec => []WaitersHaveReason` |
| `FileAccessProofs!WritesRespectLocks` | `Spec => []WritesRespectLock`, without `openLocked` |
| `FileAccessProofs!ReadersKeepLock` | `Spec => LockStaysForReads`, without `openLocked` |
| `FileAccessProofs!RefinesFileLock` | `Spec => ImplementsFileLock`, without `openLocked` |
| `CacheStorageProofs!Typed` | `Spec => []TypeOK` |
| `CacheStorageProofs!AccountingHolds` | `Spec => []Accounting` |
| `CacheStorageProofs!LimitsHold` | `Spec => []WithinLimits` |
| `CacheStorageProofs!VictimFoundAlways` | `Spec => []VictimExists` |
| `CacheStorageProofs!VictimLeast` | `Spec => []VictimIsLeast` |
| `FileContentProofs!AlwaysReadsBack` | `Spec => []ReadsBack` |
| `FileContentProofs!AlwaysFits` | `Spec => []FitsBuffer` |
| `FileContentProofs!NeverGetsShorter` | `Spec => NeverShrinks` |
| `ServerProofs!Typed` | `Spec => []TypeOK` |
| `ServerProofs!DescriptorsConserved` | `Spec => []FdConservation` |
| `ServerProofs!CountHolds` | `Spec => []ClientCountExact` |
| `ServerProofs!FdNumSuffices` | `Spec => []FdNumCovers` |
| `ServerProofs!SoftExitComplete` | `Spec => []SoftExitDrains` |
| `ServerProofs!RoomForRequests` | `Spec => []QueueHasRoom`, with `MaxTasks >= MaxClients` |
| `SessionProofs!Typed` | `Spec => []TypeOK` |
| `SessionProofs!KeepsInStep` | `Spec => []InStep` |
| `SessionProofs!OnlyDesertionKills` | `Spec => []DiesOnlyOfDesertion` |
| `SessionProofs!FirstWriteStays` | `Spec => FirstWriteKept` |
| `SessionProofs!RightsFollow` | `Spec => []RightsAreOwn` |
| `SessionService!RefinesFileService` | `Spec => ImplementsService` |

**BoundedBuffer.** `NoLostWakeup` is inductive together with the type and
`Len(buffer) <= Capacity`: the code compares the length with the capacity for equality
only, so a buffer over capacity would be filled further. The refinement follows step by
step: waits, wake-ups and spurious returns are stutters of the FIFO.

**FileAccess.** None of the properties is inductive. The invariant `IInv` adds who owns
what: a worker between certain steps owns the storage (`StoreOwned`), one that waits
or was woken owns `ordering` of its file (`OrderingOwned`), `isBeingWritten` is set for
whoever marks a file and by one worker only (`Marked`, `OneMark`), `activeReaders` is
the number of workers that read (`ReadersCounted`), no reader is in a marked file
(`Exclusive`), a write that waits waits for readers only (`WriteClear`), and the
request, step and file of a worker agree (`Located`, `TodoStored`). With some twenty
actions and eleven conjuncts about pairs of workers, a proof by cases on both would be
mostly repetition. It goes by rely and guarantee instead: `LiveStep(w)` lists rules a
step of worker `w` keeps towards the others (it takes a mutex only if it is free, marks
a file only at rest, removes only its own mark, counts itself when it starts to read,
removes a file only when nobody uses it); `RulesPreserve` shows once that such a step
preserves `IInv`; and one lemma per action shows that the action keeps the rules.
`NoLostSignal` is then inductive relative to `IInv`: a step that puts a file to rest
wakes everybody on it, where "everybody" for the reader's single signal is the one
owner of `ordering`.

**FileLock.** The last three theorems are for requests without `openLocked`, which is what the shipped
client sends; `lock_stolen` is the counterexample with it. `LInv` adds to `IInv` what a
handler relies on between the test of a lock and the step that uses it (`ReliesOn`): its
client still has the lock, or nobody has, or it is the one that is setting it. A client
has one request in progress (`OneRequest`), so nobody else can release its lock. The rules of
`LockStep(w)` say what a step may do to the locks while others rely on them: only the
owner gives a lock up (`HolderRule`), and a lock that is free and being set is left
alone because the file is marked. Each action then is one action of `FileLock`, or a stutter.
`ReadersKeepLock` needs that a reader is counted and meets no mark (`ReadingFacts`).

**CacheStorage.** The invariant is `Books` (the list has no file twice, a file that is not listed has
size 0, the count is the length, the total is the sum of the sizes, and insertion times do not
decrease along the list), `WithinLimits`, `VictimExists` and `Best`: the candidate of a search
is the least of the files it has passed. `Best` survives uses of other files, as a use only
raises counters, and `misled` is set by a use of the candidate itself. For FIFO that is the
order of the list, hence the insertion times in `Books`. That a write which fits ends with
room follows from `VictimExists` and the sum: while the total is too large, there is a
file other than the spare one with a size above 0.

**FileContent.** The invariant is that the file holds the code of all that was written (`CInv`);
everything else is about the two functions, for every text (`RoundTrip`, `CompressFits`,
`CompressGrows`). A recursive definition means some function that obeys its equation, so
`DataLemmas!RecursionExists` first shows that there is one where the value at a point depends on
points of lower rank only, and it is used for a run, a text and a code (`EncodesExists`,
`CompressesExists`, `DecodesExists`). The code of a text then is that of its first chunk, of one
to nine equal characters, followed by that of the rest (`FromSteps`), whether the chunk
ends a run or not. `DecodesRest` takes one chunk at a time: a coded chunk is decoded to itself
as the digit fits what is left of the text, and a single character is not mistaken for a pair,
since a different one follows, or else nothing does and the size cuts the run short.

**Server.** The invariant ties `clientCount` to the descriptors (`Hands`: what each worker has in
hand; `Scans`: what the manager's scan has yet to see; `Terms`: the termination messages
sent and received; `Logs`: the events after the flusher's last message).
`FdConservation` and `ClientCountExact` both count places a descriptor is in; the lemmas named for
what a step of one worker balances count it once for all actions, and `NobodyLeft` draws
from a count of 0 that no descriptor is anywhere, which is `SoftExitDrains`. `QueueHasRoom`
needs that the queue is as long as the clients that may be connected. `server.c` does not
see to it: with a shorter queue the manager waits for the workers, which take the
next task without it; the theorem says when it never does.

**Session.** `InStep` says what the streams hold between two calls; to be inductive it needs what
they hold during one. `IInv` lists the phases of a call: asked, tested, forbidden, decided,
parked, released, sent, each with all that is kept for the connection at that moment: where
the worker is, what either stream and `rest` hold, the answer, whether the client is in a
line for a lock or on a list to be told. A client in no call is `Quiet`. While a worker has a
payload to read away, it stands before the rest of the stream (`StreamIs`), whether its client
is still in the call, has returned, or has sent its next request. Beside
the phases there are three facts about several clients: whoever is in a line asked for that
lock (`Lines`), so it is in one line only; nobody is on two lists, and a list is that
of a worker that has answered (`Lists`); no line names a client twice. A step of one
worker can then touch another client in one way, by settling its call: parked becomes
released (`HandlerRule`, shown handler by handler). `DiesOnlyOfDesertion` follows as a client
that is not deserted and not in a call has nothing left to be sent.

`FirstWriteKept` is read off what a handler may do to one file (`FileRule`, `RightsRule`), for any
`IInv` state. `RightsAreOwn` follows from `RInv`, which says of every file and connection (`Listed`):
what it opened it is listed for, and if it never opened it twice it is listed once at most,
and only if it opened it. A removal of one entry then leaves none behind (`OnceGone`).
`Owners` says that whoever has a lock is connected; whoever inherits it was in line, and
so is in a call.

The refinement of `FileService` maps the answer to a call to what was decided of it wherever it
is: in `answer`, in the stream, in part in `rest`. `Reads` says what that is in every
phase; so sending (`AnswerMaps`) is a stutter, a handler is the step where the call
takes effect (`EffectMaps`), and reading a response is the return, with the same outcome and
files (`ClientMaps`). Since both sides use the operators of `OpenFiles`, a handler's effect needs to be
compared only in where it puts answers (`Maps`, `HandleMaps`).

## What is only model-checked

All liveness
(`HandlersEnd`, `RequestsServed`, `CleanupEnds`, `CallsReturn`, the liveness half of `ImplementsFifo`):
liveness under fairness is beyond the provers used here. The library's induction theorems cannot be
used with them either; where the proofs need induction over data (sums, positions in
lists, texts), they take the least counterexample, which exists by `DataLemmas!LeastNatural`.

The inductive invariants were checked by TLC on the instances of the runs before they
were proved.

## What is not modelled

- Failed allocations. The handlers' answers to them differ (some drop the clients to be
  notified, `HANDLE_REQ_ERROR` sends nothing), and are listed as hazards.
- Requests that the library does not send, short reads and writes on sockets, full
  socket buffers, the format of events, the sizes of buffers.
- The names and contents of files in the session: where the client saves what it is
  sent, what it reads from disk, the directories `-w` visits.
- A client that goes on in a stream it has not read to the end, after a `readNFiles` whose files
  could not be saved.
- `openFile` with `O_LOCK` alone in sessions (`FileAccess` has it, at the grain where it
  goes wrong).
- The command line and configuration parsers, beyond the commands and the limits they
  produce: sequential string handling, for tests rather than a model checker. The
  hash table is third-party code used under the storage's mutex. The scripts.

## Plan

Every safety invariant and every action property that a passing run checks is now a theorem too, as are the
safety halves of the three refinements. What is left is to model more: `openFile` with `O_LOCK`
alone in sessions, where the hypothesis without `openLocked` would become one about
sessions, the save that fails in a `readNFiles`, and the failed allocations among the hazards.
