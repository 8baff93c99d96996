------------------------------- MODULE Server -------------------------------
(***************************************************************************)
(* The server's threads (src/src/server.c, src/src/log.c): the manager in  *)
(* main, which watches with select the descriptors nobody is busy with,    *)
(* the workers, which take one ready descriptor after another from the     *)
(* task queue and give it back through the pipe w2mPipe, the log flusher,  *)
(* the signals that end them, and the clients at the other ends.           *)
(*                                                                         *)
(* A handler of the storage is one step here (its own steps are those of   *)
(* FileAccess), of which only its outcome counts: the client is answered,  *)
(* or it waits for a lock (the handler returned -2), and any of the        *)
(* clients that wait for one may be told that it waits no longer.  The     *)
(* task queue is a FIFO (see BoundedBuffer).  A request arrives in one     *)
(* piece.  A descriptor is a number, for fd_num to be compared with.       *)
(***************************************************************************)
EXTENDS Integers, FiniteSets, Sequences, SequencesExt

CONSTANTS
  Workers,
  MaxClients,  \* bound on the clients that are counted or wait to be accepted
  MaxTasks,    \* capacity of the task queue
  LogCap       \* capacity of the log buffer

ASSUME SizesAssumption ==
  /\ IsFiniteSet(Workers) /\ Workers # {}
  /\ MaxClients \in Nat \ {0}
  /\ MaxTasks \in Nat \ {0}
  /\ LogCap \in Nat

\* The pipe is opened before the socket, and both before any client's descriptor.
PipeFd == 1
SocketFd == 2
Fds == 3 .. MaxClients + 2

Left == 0     \* CLIENT_LEFT_MSG, in the pipe
Term == 0     \* the termination message, in the task queue
NoFd == 0     \* in no worker's hands

VARIABLES
  manager,      \* where main is
  setsave,      \* the descriptors select watches
  rset,         \* those it found ready and main has yet to look at
  fd_num,
  clientCount,
  termsLeft,    \* termination messages yet to be sent
  tasks,        \* the task queue
  pipe,         \* w2mPipe
  worker,       \* where each worker is
  rdy_fd,       \* the descriptor it serves
  notifyList,   \* the clients it has yet to tell
  parked,       \* the descriptors in the pendingLocks list of some file
  conn,         \* the client at the other end of each descriptor
  backlog,      \* connections nobody has accepted
  flusher,      \* the log flusher
  late,         \* events logged after LOGGER_EXIT_MSG
  softExit, hardExit

mainVars == <<manager, termsLeft>>
watchVars == <<setsave, fd_num>>
managerVars == <<mainVars, watchVars, rset, clientCount>>
workerVars == <<worker, rdy_fd, notifyList>>
clientVars == <<conn, backlog>>
logVars == <<flusher, late>>
signals == <<softExit, hardExit>>
notManager == <<workerVars, parked, clientVars, logVars, signals>>
vars == <<managerVars, tasks, pipe, notManager>>

Cleaning == {"clean", "join", "joinLogger", "done"}

TypeOK ==
  /\ manager \in {"top", "select", "interrupted", "scan", "dead"} \union Cleaning
  /\ setsave \subseteq {PipeFd, SocketFd} \union Fds
  /\ rset \subseteq setsave
  /\ fd_num \in 0 .. MaxClients + 2
  /\ clientCount \in 0 .. MaxClients
  /\ termsLeft \in 0 .. Cardinality(Workers)
  /\ tasks \in Seq({Term} \union Fds)
  /\ pipe \in Seq({Left} \union Fds)
  /\ worker \in [Workers -> {"idle", "serving", "answered", "closed", "ended"}]
  /\ rdy_fd \in [Workers -> {NoFd} \union Fds]
  /\ notifyList \in [Workers -> SUBSET Fds]
  /\ parked \subseteq Fds
  /\ conn \in [Fds -> {"free", "thinking", "asked", "left", "gone"}]
  /\ backlog \in 0 .. MaxClients
  /\ flusher \in {"running", "told", "ended"}
  /\ late \in 0 .. LogCap
  /\ softExit \in BOOLEAN /\ hardExit \in BOOLEAN

Init ==
  /\ manager = "top"
  /\ setsave = {PipeFd, SocketFd}
  /\ rset = {}
  /\ fd_num = SocketFd
  /\ clientCount = 0
  /\ termsLeft = 0
  /\ tasks = <<>>
  /\ pipe = <<>>
  /\ worker = [w \in Workers |-> "idle"]
  /\ rdy_fd = [w \in Workers |-> NoFd]
  /\ notifyList = [w \in Workers |-> {}]
  /\ parked = {}
  /\ conn = [f \in Fds |-> "free"]
  /\ backlog = 0
  /\ flusher = "running"
  /\ late = 0
  /\ softExit = FALSE /\ hardExit = FALSE

\* exit ends every thread.
Alive == manager \notin {"dead", "done"}

\* logEvent. The flusher makes room in the log buffer as long as it runs; what
\* comes after its exit message stays.
LogEvent ==
  IF flusher = "running"
    THEN UNCHANGED logVars
    ELSE late < LogCap /\ late' = late + 1 /\ UNCHANGED flusher

-----------------------------------------------------------------------------
\* The manager

\* Variants of definitions, each named for what it gets wrong, are used only to
\* confirm that a property can fail.
CleanUpOneShort == manager' = "clean" /\ termsLeft' = Cardinality(Workers) - 1

CleanUp == manager' = "clean" /\ termsLeft' = Cardinality(Workers)

\* The condition of the main loop.
Loop ==
  /\ manager = "top"
  /\ IF hardExit THEN CleanUp ELSE manager' = "select" /\ UNCHANGED termsLeft
  /\ UNCHANGED <<watchVars, rset, clientCount, tasks, pipe, notManager>>

\* A descriptor has something to read: a message, a connection, a request or the
\* end of file a client leaves.
Readable(f) ==
  CASE f = PipeFd -> pipe # <<>>
    [] f = SocketFd -> backlog > 0
    [] OTHER -> conn[f] \in {"asked", "left", "gone"}

Ready == {f \in setsave : f <= fd_num /\ Readable(f)}

Select ==
  /\ manager = "select"
  /\ Ready # {}
  /\ manager' = "scan"
  /\ rset' = Ready
  /\ UNCHANGED <<watchVars, clientCount, termsLeft, tasks, pipe, notManager>>

\* select was interrupted by a signal.
Interrupted ==
  /\ manager = "interrupted"
  /\ IF softExit /\ clientCount = 0
       THEN CleanUp
       ELSE manager' = "top" /\ UNCHANGED termsLeft
  /\ UNCHANGED <<watchVars, rset, clientCount, tasks, pipe, notManager>>

\* The scan comes to f, the least descriptor left up to fd_num.
Scan(f) ==
  /\ manager = "scan"
  /\ f \in rset
  /\ f <= fd_num
  /\ \A g \in rset : f <= g
  /\ rset' = rset \ {f}

EndScan ==
  /\ manager = "scan"
  /\ \A f \in rset : f > fd_num
  /\ manager' = "top"
  /\ UNCHANGED <<watchVars, rset, clientCount, termsLeft, tasks, pipe, notManager>>

WatchUnbounded(f) == setsave' = setsave \union {f} /\ UNCHANGED fd_num

WatchBelow(f) ==
  /\ setsave' = setsave \union {f}
  /\ fd_num' = IF f >= fd_num THEN f + 1 ELSE fd_num

Watch(f) ==
  /\ setsave' = setsave \union {f}
  /\ fd_num' = IF f > fd_num THEN f ELSE fd_num

KeepWatching(f) == UNCHANGED watchVars

Unwatch(f) ==
  /\ setsave' = setsave \ {f}
  /\ fd_num' = IF f = fd_num THEN fd_num - 1 ELSE fd_num

\* A worker is done with a descriptor.
Rewatch ==
  /\ Scan(PipeFd)
  /\ Head(pipe) # Left
  /\ Watch(Head(pipe))
  /\ pipe' = Tail(pipe)
  /\ UNCHANGED <<mainVars, clientCount, tasks, notManager>>

SoftExitAnyway == softExit

\* After a SIGHUP the last client to leave takes the server with it.
LastHasLeft == clientCount' = 0 /\ softExit

CountLeft ==
  /\ Scan(PipeFd)
  /\ Head(pipe) = Left
  /\ LogEvent
  /\ clientCount' = clientCount - 1
  /\ pipe' = Tail(pipe)
  /\ IF LastHasLeft THEN CleanUp ELSE UNCHANGED mainVars
  /\ UNCHANGED <<watchVars, tasks, workerVars, parked, clientVars, signals>>

\* accept returns the lowest descriptor that is free.
Accept ==
  /\ Scan(SocketFd)
  /\ ~ softExit
  /\ \E f \in Fds :
       /\ conn[f] = "free"
       /\ \A g \in Fds : conn[g] = "free" => f <= g
       /\ conn' = [conn EXCEPT ![f] = "thinking"]
       /\ Watch(f)
  /\ LogEvent
  /\ backlog' = backlog - 1
  /\ clientCount' = clientCount + 1
  /\ UNCHANGED <<mainVars, tasks, pipe, workerVars, parked, signals>>

\* Accepted and closed at once.
Reject ==
  /\ Scan(SocketFd)
  /\ softExit
  /\ backlog' = backlog - 1
  /\ UNCHANGED <<mainVars, watchVars, clientCount, tasks, pipe, workerVars, parked, conn,
                 logVars, signals>>

\* A request goes to the workers.
Dispatch(f) ==
  /\ Scan(f)
  /\ Unwatch(f)
  /\ Len(tasks) < MaxTasks
  /\ tasks' = Append(tasks, f)
  /\ UNCHANGED <<mainVars, clientCount, pipe, notManager>>

\* One termination message for each worker.
SendTerm ==
  /\ manager = "clean"
  /\ termsLeft > 0
  /\ Len(tasks) < MaxTasks
  /\ tasks' = Append(tasks, Term)
  /\ termsLeft' = termsLeft - 1
  /\ UNCHANGED <<manager, watchVars, rset, clientCount, pipe, notManager>>

\* LOGGER_EXIT_MSG
EndLog ==
  /\ manager = "clean"
  /\ termsLeft = 0
  /\ manager' = "join"
  /\ flusher' = "told"
  /\ UNCHANGED <<watchVars, rset, clientCount, termsLeft, tasks, pipe, workerVars, parked,
                 clientVars, late, signals>>

\* pthread_join of the workers, then of the flusher.
Join(from, to, ended) ==
  /\ manager = from
  /\ ended
  /\ manager' = to
  /\ UNCHANGED <<watchVars, rset, clientCount, termsLeft, tasks, pipe, notManager>>

JoinWorkers == Join("join", "joinLogger", \A w \in Workers : worker[w] = "ended")

JoinLogger == Join("joinLogger", "done", flusher = "ended")

Manage ==
  \/ Loop
  \/ Select
  \/ Interrupted
  \/ Rewatch
  \/ CountLeft
  \/ Accept
  \/ Reject
  \/ \E f \in Fds : Dispatch(f)
  \/ EndScan
  \/ SendTerm
  \/ EndLog
  \/ JoinWorkers
  \/ JoinLogger

-----------------------------------------------------------------------------
\* The log flusher
Flush ==
  /\ Alive
  /\ flusher = "told"
  /\ flusher' = "ended"
  /\ UNCHANGED <<managerVars, tasks, pipe, workerVars, parked, clientVars, late, signals>>

-----------------------------------------------------------------------------
\* The workers

Dequeue(w) ==
  /\ Alive
  /\ worker[w] = "idle"
  /\ tasks # <<>>
  /\ tasks' = Tail(tasks)
  /\ IF Head(tasks) = Term
       THEN worker' = [worker EXCEPT ![w] = "ended"] /\ UNCHANGED rdy_fd
       ELSE /\ worker' = [worker EXCEPT ![w] = "serving"]
            /\ rdy_fd' = [rdy_fd EXCEPT ![w] = Head(tasks)]
  /\ UNCHANGED <<managerVars, pipe, notifyList, parked, clientVars, logVars, signals>>

Asking(w) == Alive /\ worker[w] = "serving" /\ conn[rdy_fd[w]] \in {"asked", "gone"}

\* SEND_RESPONSE_CODE: a write to a client that is gone fails with EPIPE, and
\* DIE_ON_NEG_ONE ends the process.
Respond(f) ==
  IF conn[f] = "gone"
    THEN manager' = "dead" /\ UNCHANGED conn
    ELSE conn' = [conn EXCEPT ![f] = "thinking"] /\ UNCHANGED manager

\* The handler returns, with the clients it has taken out of the lists of files
\* (unlocked, destroyed or evicted), and the response is sent.
Handle(w, released) ==
  /\ Asking(w)
  /\ released \subseteq parked
  /\ parked' = parked \ released
  /\ notifyList' = [notifyList EXCEPT ![w] = released]
  /\ LogEvent
  /\ Respond(rdy_fd[w])
  /\ worker' = [worker EXCEPT ![w] = "answered"]
  /\ UNCHANGED <<watchVars, rset, clientCount, termsLeft, tasks, pipe, rdy_fd, backlog, signals>>

\* lockFileHandler returns -2: no response, and putFdBack is false.
Park(w) ==
  /\ Asking(w)
  /\ parked' = parked \union {rdy_fd[w]}
  /\ LogEvent
  /\ worker' = [worker EXCEPT ![w] = "idle"]
  /\ rdy_fd' = [rdy_fd EXCEPT ![w] = NoFd]
  /\ UNCHANGED <<managerVars, tasks, pipe, notifyList, clientVars, signals>>

\* Nothing to read: clientExitHandler passes the client's locks on and the
\* descriptor is closed, free for the next accept.
HandleExit(w, released) ==
  /\ Alive
  /\ worker[w] = "serving"
  /\ conn[rdy_fd[w]] = "left"
  /\ released \subseteq parked
  /\ parked' = parked \ released
  /\ notifyList' = [notifyList EXCEPT ![w] = released]
  /\ conn' = [conn EXCEPT ![rdy_fd[w]] = "free"]
  /\ worker' = [worker EXCEPT ![w] = "closed"]
  /\ rdy_fd' = [rdy_fd EXCEPT ![w] = NoFd]
  /\ UNCHANGED <<managerVars, tasks, pipe, backlog, logVars, signals>>

KeepToOneself(f) == UNCHANGED pipe

GiveBackNothing(f) == pipe' = Append(pipe, Left)

\* To the manager: a descriptor, or that there is none any more.
GiveBack(f) == pipe' = Append(pipe, f)

\* NOTIFY_PENDING_CLIENTS, one client: its response, and its descriptor.
Notify(w, f) ==
  /\ Alive
  /\ worker[w] \in {"answered", "closed"}
  /\ f \in notifyList[w]
  /\ notifyList' = [notifyList EXCEPT ![w] = @ \ {f}]
  /\ Respond(f)
  /\ GiveBack(f)
  /\ UNCHANGED <<watchVars, rset, clientCount, termsLeft, tasks, worker, rdy_fd, parked,
                 backlog, logVars, signals>>

PutBack(w) ==
  /\ Alive
  /\ worker[w] \in {"answered", "closed"}
  /\ notifyList[w] = {}
  /\ GiveBack(IF worker[w] = "answered" THEN rdy_fd[w] ELSE Left)
  /\ worker' = [worker EXCEPT ![w] = "idle"]
  /\ rdy_fd' = [rdy_fd EXCEPT ![w] = NoFd]
  /\ UNCHANGED <<managerVars, tasks, notifyList, parked, clientVars, logVars, signals>>

Work(w) ==
  \/ Dequeue(w)
  \/ \E released \in SUBSET Fds : Handle(w, released) \/ HandleExit(w, released)
  \/ Park(w)
  \/ \E f \in Fds : Notify(w, f)
  \/ PutBack(w)

-----------------------------------------------------------------------------
\* The clients: each sends one request at a time, and leaves between requests.

Connect ==
  /\ Alive
  /\ clientCount + backlog < MaxClients
  /\ backlog' = backlog + 1
  /\ UNCHANGED <<managerVars, tasks, pipe, workerVars, parked, conn, logVars, signals>>

ClientStep(f, from, to) ==
  /\ Alive
  /\ conn[f] = from
  /\ conn' = [conn EXCEPT ![f] = to]
  /\ UNCHANGED <<managerVars, tasks, pipe, workerVars, parked, backlog, logVars, signals>>

Ask(f) == ClientStep(f, "thinking", "asked")

Leave(f) == ClientStep(f, "thinking", "left")

\* It is killed while it waits for a response.
Crash(f) == ClientStep(f, "asked", "gone")

-----------------------------------------------------------------------------
\* exitSigHandler: SIGHUP sets softExit, SIGINT and SIGQUIT set hardExit; select
\* returns at once if the signal comes while the manager is in it.

Interrupt ==
  /\ Alive
  /\ manager' = IF manager = "select" THEN "interrupted" ELSE manager
  /\ UNCHANGED <<watchVars, rset, clientCount, termsLeft, tasks, pipe, workerVars, parked,
                 clientVars, logVars>>

SigHup == ~ softExit /\ softExit' = TRUE /\ Interrupt /\ UNCHANGED hardExit

SigInt == ~ hardExit /\ hardExit' = TRUE /\ Interrupt /\ UNCHANGED softExit

-----------------------------------------------------------------------------
Next ==
  \/ Manage
  \/ Flush
  \/ \E w \in Workers : Work(w)
  \/ Connect
  \/ \E f \in Fds : Ask(f) \/ Leave(f) \/ Crash(f)
  \/ SigHup
  \/ SigInt

\* Every thread runs on. Clients and signals may do nothing.
Spec ==
  /\ Init
  /\ [][Next]_vars
  /\ WF_vars(Manage)
  /\ WF_vars(Flush)
  /\ \A w \in Workers : WF_vars(Work(w))

-----------------------------------------------------------------------------
Held(w) == {rdy_fd[w]} \ {NoFd}

\* How many of those who may pass f on have it.
Owners(f) ==
  LET One(b) == IF b THEN 1 ELSE 0 IN
    One(f \in setsave) + One(f \in parked)
      + Cardinality({k \in DOMAIN tasks : tasks[k] = f})
      + Cardinality({k \in DOMAIN pipe : pipe[k] = f})
      + Cardinality({w \in Workers : f \in Held(w)})
      + Cardinality({w \in Workers : f \in notifyList[w]})

\* The descriptor of a client is in one place, never lost and never in two: it is
\* watched, queued, served, waiting for a lock, about to be notified or on its way
\* back; a descriptor that was closed is nowhere, although accept may return it
\* again before the manager has read that a client left.
FdConservation ==
  \A f \in Fds : Owners(f) = IF conn[f] = "free" THEN 0 ELSE 1

\* clientCount is the number of connected clients and of messages not yet read, or
\* not yet written, that one has left: it is 0 only when nobody is connected.
ClientCountExact ==
  clientCount = Cardinality({f \in Fds : conn[f] # "free"})
                  + Cardinality({k \in DOMAIN pipe : pipe[k] = Left})
                  + Cardinality({w \in Workers : worker[w] = "closed"})

\* fd_num, raised and lowered as descriptors come and go, stays an upper bound of
\* what select must watch, and no scan ends before the last ready descriptor.
FdNumCovers ==
  /\ \A f \in setsave : f <= fd_num
  /\ manager = "top" => rset = {}

\* The manager never waits for a worker: with room for every client in the task
\* queue, which then holds no descriptor twice, there is room for the next.
QueueHasRoom ==
  rset \intersect Fds # {} => Len(tasks) < MaxTasks

\* SIGHUP lets every client finish: without a SIGINT the server winds up only when
\* nobody is connected, no request is queued or served, no client waits for a
\* lock, and every event is in the log.
SoftExitDrains ==
  manager \in Cleaning /\ ~ hardExit =>
    /\ \A f \in Fds : conn[f] = "free"
    /\ parked = {}
    /\ \A k \in DOMAIN tasks : tasks[k] = Term
    /\ \A w \in Workers : worker[w] \in {"idle", "ended"}
    /\ late = 0

\* A request is answered or waits for a lock, whatever the others send, unless the
\* server ends.
RequestsServed ==
  \A f \in Fds :
    conn[f] = "asked" ~> conn[f] # "asked" \/ f \in parked \/ hardExit \/ ~ Alive

\* Winding up ends: each worker gets one termination message after the requests
\* still queued, and the flusher gets its own.
CleanupEnds == manager = "clean" ~> ~ Alive

\* tests/test1.sh:8, 28 sends SIGHUP and waits for the server to end: once everybody
\* has left after a SIGHUP, it ends.
SoftExitEnds == softExit /\ clientCount = 0 ~> ~ Alive
=============================================================================
