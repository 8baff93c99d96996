------------------------------ MODULE Session ------------------------------
(***************************************************************************)
(* Clients and the server's workers over their connections: the client     *)
(* program (src/src/client.c), which runs one command after another and    *)
(* turns each into calls of the library; the library (src/src/clientApi.c),*)
(* where a call sends a request and reads its response; and the worker     *)
(* (src/src/server.c), which reads the request, runs the handlers of       *)
(* OpenFiles and sends the response, to its client and to those that have  *)
(* waited for a lock.                                                      *)
(*                                                                         *)
(* A connection is two streams.  What is read of them in one go is one     *)
(* item: a request, the payload of a write, a response code, the content   *)
(* of a file that was read, a file, the end of a list of files.  How a     *)
(* descriptor reaches a worker and comes back is left to Server: here a    *)
(* connection nobody serves is watched.                                    *)
(***************************************************************************)
EXTENDS OpenFiles

CONSTANTS
  Commands,     \* what a client program may do, each a sequence of calls
  MaxCommands   \* bound on the commands all programs run together

ASSUME SessionAssumption ==
  /\ Fds \subseteq Nat
  /\ Commands \subseteq Seq(Calls) \ {<< >>}
  /\ MaxCommands \in Nat
  /\ Files \intersect {"OK", "refused", "content", "end"} = {}

VARIABLES
  client,       \* the program at the other end of each connection
  todo,         \* the calls of its command that have not returned
  received,     \* the files its last call has read so far
  toServer, toClient,
  worker,       \* where the worker is that serves each connection
  notifyList,   \* the clients it has yet to tell
  rest,         \* what it has yet to send after them
  server,       \* "dead" once exit was called
  commandsLeft,
  opened,       \* history: the files that each connection has open
  reopened      \* history: the files that were opened when they already were, by a
                \* connection with that number

clientVars == <<client, todo, received, commandsLeft>>
streams == <<toServer, toClient>>
workerVars == <<worker, notifyList, rest>>
storeVars == <<store, answer, opened, reopened>>
vars == <<storeVars, clientVars, streams, workerVars, server>>

Closed == 0   \* stands for the connections that were closed
Content == "content"
EndOfFiles == "end"    \* NO_MORE_CONTENT
PayloadOf(call) == [call EXCEPT !.op = "payload"]
Payloads == {PayloadOf(call) : call \in Calls}

Talking == {"waiting", "ok", "refused"}
Lost == {"gone", "deserted"}   \* the client has closed its end

TypeOK ==
  /\ StoreOK
  /\ client \in [Fds -> {"none"} \union Talking \union Lost]
  /\ todo \in [Fds -> Seq(Calls)]
  /\ received \in [Fds -> SUBSET Files]
  /\ toServer \in [Fds -> Seq(Calls \union Payloads)]
  /\ toClient \in [Fds -> Seq({"OK", "refused", Content, EndOfFiles} \union Files)]
  /\ worker \in [Fds -> {"none", "tested", "forbidden", "discarding", "answered", "notifying"}]
  /\ notifyList \in [Fds \union {Closed} -> SUBSET Fds]
  /\ rest \in [Fds -> Seq({Content, EndOfFiles} \union Files)]
  /\ server \in {"up", "dead"}
  /\ commandsLeft \in 0 .. MaxCommands
  /\ opened \in [Fds -> SUBSET Files]
  /\ reopened \in [Fds -> SUBSET Files]

Init ==
  /\ StoreInit
  /\ client = [fd \in Fds |-> "none"]
  /\ todo = [fd \in Fds |-> << >>]
  /\ received = [fd \in Fds |-> {}]
  /\ toServer = [fd \in Fds |-> << >>]
  /\ toClient = [fd \in Fds |-> << >>]
  /\ worker = [fd \in Fds |-> "none"]
  /\ notifyList = [fd \in Fds \union {Closed} |-> {}]
  /\ rest = [fd \in Fds |-> << >>]
  /\ server = "up"
  /\ commandsLeft = MaxCommands
  /\ opened = [fd \in Fds |-> {}]
  /\ reopened = [fd \in Fds |-> {}]

-----------------------------------------------------------------------------
\* The client program

OnFile(ops, f) == [i \in DOMAIN ops |-> [op |-> ops[i], file |-> f]]

\* What the shipped client does with a file for its options -W or -w, and -r.
SendFile(f) == OnFile(<<"create", "write", "close">>, f)
FetchFile(f) == OnFile(<<"open", "read", "close">>, f)

\* And for those and -R (for which the file does not matter), -l, -u, -c.
Shipped(f) ==
  {SendFile(f), FetchFile(f)}
  \union {OnFile(<<op>>, f) : op \in {"readN", "lock", "unlock", "remove"}}

\* A new program gets the lowest descriptor that is free.
Connects(fd) ==
  /\ client[fd] = "none"
  /\ \A g \in Fds : client[g] = "none" => fd <= g

\* A call of the library sends its request in one piece, and waits.
Request(call) ==
  IF call.op \in {"write", "append"} THEN <<call, PayloadOf(call)>> ELSE <<call>>

Send(fd, calls) ==
  /\ client' = [client EXCEPT ![fd] = "waiting"]
  /\ todo' = [todo EXCEPT ![fd] = calls]
  /\ received' = [received EXCEPT ![fd] = {}]
  /\ toServer' = [toServer EXCEPT ![fd] = @ \o Request(Head(calls))]
  /\ UNCHANGED <<storeVars, toClient, workerVars, server>>

StartCommand(fd, command) ==
  /\ commandsLeft > 0
  /\ Send(fd, command)
  /\ commandsLeft' = commandsLeft - 1

Connect(fd) == Connects(fd) /\ \E command \in Commands : StartCommand(fd, command)

\* The present command is over: all its calls have returned, or one has failed.
NextCommand(fd) ==
  /\ client[fd] \in {"ok", "refused"} /\ todo[fd] = << >>
  /\ \E command \in Commands : StartCommand(fd, command)

ContinueCommand(fd) ==
  /\ client[fd] = "ok" /\ todo[fd] # << >>
  /\ Send(fd, todo[fd])
  /\ UNCHANGED commandsLeft

\* A program ends, or is killed between two calls.
CloseConnection(fd) ==
  /\ client[fd] \in {"ok", "refused"}
  /\ client' = [client EXCEPT ![fd] = "gone"]
  /\ todo' = [todo EXCEPT ![fd] = << >>]
  /\ received' = [received EXCEPT ![fd] = {}]
  /\ UNCHANGED <<storeVars, commandsLeft, streams, workerVars, server>>

\* It is killed in a call, or ends there because it cannot save a file that it was
\* sent. (After readNFiles the shipped client does not end, but goes on with the rest
\* of the response unread, client.c 319; that is left out.)
Desert(fd) ==
  /\ client[fd] = "waiting"
  /\ client' = [client EXCEPT ![fd] = "deserted"]
  /\ UNCHANGED <<storeVars, todo, received, commandsLeft, streams, workerVars, server>>

-----------------------------------------------------------------------------
\* The client library reads a response

\* What of the stream is the response to a call, {} until it has all come.
Response(call, stream) ==
  IF stream # << >> /\ Head(stream) = "OK" /\ HasBody(call)
    THEN {SubSeq(stream, 1, i) : i \in {j \in DOMAIN stream : stream[j] \in {Content, EndOfFiles}}}
    ELSE {SubSeq(stream, 1, i) : i \in {1} \intersect DOMAIN stream}

ReadResponse(fd, response) ==
  /\ toClient' = [toClient EXCEPT ![fd] = SubSeq(@, Len(response) + 1, Len(@))]
  /\ UNCHANGED <<storeVars, commandsLeft, toServer, workerVars, server>>

\* WAIT_FOR_RESPONSE. A refusal ends the command.
ReadRefusal(fd) ==
  /\ client[fd] = "waiting"
  /\ \E response \in Response(Head(todo[fd]), toClient[fd]) :
       /\ response[1] = "refused" \/ Head(todo[fd]).op = "remove"
       /\ ReadResponse(fd, response)
       /\ client' = [client EXCEPT ![fd] = "refused"]
       /\ todo' = [todo EXCEPT ![fd] = << >>]
       /\ UNCHANGED received

\* With the content of readFile, or what the loop of storeFiles reads.
ReadOK(fd) ==
  /\ client[fd] = "waiting"
  /\ \E response \in Response(Head(todo[fd]), toClient[fd]) :
       /\ response[1] = "OK"
       /\ ReadResponse(fd, response)
       /\ client' = [client EXCEPT ![fd] = "ok"]
       /\ todo' = [todo EXCEPT ![fd] = Tail(@)]
       /\ received' = [received EXCEPT ![fd] = ToSet(response) \intersect Files]

-----------------------------------------------------------------------------
\* A worker. It is known by the connection it serves; while all are busy, a
\* request waits in its stream, as it would in the task queue.

Waiting(fd) == \E f \in Stored : fd \in ToSet(store[f].pendingLocks)

\* Neither served, nor waiting for a lock, nor to be told that it does no more.
Watched(fd) ==
  /\ client[fd] # "none" /\ worker[fd] = "none" /\ ~Waiting(fd)
  /\ \A g \in Fds \union {Closed} : fd \notin notifyList[g]

BodyAfterRefusal(call, a) ==
  CASE call.op = "read" -> <<Content>>
    [] HasBody(call) /\ call.op # "read" -> SetToSeq(a.files) \o <<EndOfFiles>>
    [] OTHER -> << >>

BodyLacksFile(call, a) ==
  CASE a.code # "OK" \/ ~HasBody(call) -> << >>
    [] a.code = "OK" /\ call.op = "read" -> <<Content>>
    [] OTHER -> Tail(Append(SetToSeq(a.files), EndOfFiles))

\* What follows an OK.
Body(call, a) ==
  CASE a.code # "OK" \/ ~HasBody(call) -> << >>
    [] a.code = "OK" /\ call.op = "read" -> <<Content>>
    [] OTHER -> SetToSeq(a.files) \o <<EndOfFiles>>

\* The clients whose calls a handler has settled, besides that of fd.
Settled(fd) == {g \in Fds \ {fd} : answer[g] = None /\ answer'[g] # None}

OpenedAfter(fd, call) ==
  LET mine == IF answer'[fd].code # "OK" THEN opened[fd]
              ELSE CASE call.op \in {"create", "openNew", "open"} -> opened[fd] \union {call.file}
                     [] call.op = "close" -> opened[fd] \ {call.file}
                     [] OTHER -> opened[fd]
  IN [g \in Fds |-> (IF g = fd THEN mine ELSE opened[g]) \intersect DOMAIN store']

OpenedTwice(fd, call) ==
  answer'[fd].code = "OK" /\ call.op = "open" /\ call.file \in opened[fd]

ReopenedAfter(fd, call) ==
  [g \in Fds |-> (IF g = fd /\ OpenedTwice(fd, call) THEN reopened[g] \union {call.file}
                 ELSE reopened[g]) \intersect DOMAIN store']

\* A handler has run; unless its client waits now, it is answered.
Handled(fd, call) ==
  /\ opened' = OpenedAfter(fd, call)
  /\ reopened' = ReopenedAfter(fd, call)
  /\ notifyList' = [notifyList EXCEPT ![fd] = Settled(fd)]
  /\ rest' = [rest EXCEPT ![fd] = Body(call, answer'[fd])]
  /\ worker' = [worker EXCEPT ![fd] = IF answer'[fd] = None THEN "none" ELSE "answered"]

Serve(fd) ==
  /\ Watched(fd) /\ toServer[fd] # << >>
  /\ LET call == Head(toServer[fd])
     IN /\ Handle(fd, call)
        /\ toServer' = [toServer EXCEPT ![fd] = SubSeq(@, Len(Request(call)) + 1, Len(@))]
        /\ Handled(fd, call)
  /\ UNCHANGED <<clientVars, toClient, server>>

\* WRITE_FILE first tests whether this would be the first write.
ServeWrite(fd) ==
  /\ Watched(fd) /\ toServer[fd] # << >>
  /\ Head(toServer[fd]).op = "write"
  /\ IF TestFirstWrite(fd, Head(toServer[fd]).file)
       THEN worker' = [worker EXCEPT ![fd] = "tested"] /\ UNCHANGED <<store, answer>>
       ELSE worker' = [worker EXCEPT ![fd] = "forbidden"] /\ Refuse(fd)
  /\ toServer' = [toServer EXCEPT ![fd] = Tail(@)]
  /\ UNCHANGED <<opened, reopened, clientVars, toClient, notifyList, rest, server>>

\* If not, FORBIDDEN goes out first: the client's call may return, and its next
\* request be sent behind the payload of this one.
Forbid(fd) ==
  /\ worker[fd] = "forbidden" /\ client[fd] \notin Lost
  /\ toClient' = [toClient EXCEPT ![fd] = Append(@, answer[fd].code)]
  /\ answer' = [answer EXCEPT ![fd] = None]
  /\ worker' = [worker EXCEPT ![fd] = "discarding"]
  /\ UNCHANGED <<store, opened, reopened, clientVars, toServer, notifyList, rest, server>>

LeavePayload(fd) ==
  /\ worker[fd] = "discarding"
  /\ worker' = [worker EXCEPT ![fd] = "none"]
  /\ UNCHANGED <<storeVars, clientVars, streams, notifyList, rest, server>>

\* Then the payload is read away, and the descriptor given back.
ThrowAwayPayload(fd) ==
  /\ worker[fd] = "discarding"
  /\ toServer' = [toServer EXCEPT ![fd] = Tail(@)]
  /\ worker' = [worker EXCEPT ![fd] = "none"]
  /\ UNCHANGED <<storeVars, clientVars, toClient, notifyList, rest, server>>

\* If it is, it writes, as APPEND_TO_FILE does.
WriteTested(fd) ==
  /\ worker[fd] = "tested"
  /\ LET call == [op |-> "write", file |-> Head(toServer[fd]).file]
     IN WriteToFile(fd, call.file) /\ Handled(fd, call)
  /\ toServer' = [toServer EXCEPT ![fd] = Tail(@)]
  /\ UNCHANGED <<clientVars, toClient, server>>

\* The code goes out, with all that follows it if nobody is to be told first.
Respond(fd) ==
  /\ worker[fd] = "answered" /\ client[fd] \notin Lost
  /\ answer' = [answer EXCEPT ![fd] = None]
  /\ IF notifyList[fd] = {}
       THEN /\ toClient' = [toClient EXCEPT ![fd] = Append(@, answer[fd].code) \o rest[fd]]
            /\ rest' = [rest EXCEPT ![fd] = << >>]
            /\ worker' = [worker EXCEPT ![fd] = "none"]
       ELSE /\ toClient' = [toClient EXCEPT ![fd] = Append(@, answer[fd].code)]
            /\ worker' = [worker EXCEPT ![fd] = "notifying"]
            /\ UNCHANGED rest
  /\ UNCHANGED <<store, opened, reopened, clientVars, toServer, notifyList, server>>

\* NOTIFY_PENDING_CLIENTS: a client is told, and its descriptor given back.
Notify(fd, g) ==
  /\ fd # Closed => worker[fd] = "notifying"
  /\ g \in notifyList[fd] /\ client[g] \notin Lost
  /\ toClient' = [toClient EXCEPT ![g] = Append(@, answer[g].code)]
  /\ answer' = [answer EXCEPT ![g] = None]
  /\ notifyList' = [notifyList EXCEPT ![fd] = @ \ {g}]
  /\ UNCHANGED <<store, opened, reopened, clientVars, toServer, worker, rest, server>>

\* The rest of the response goes out, and the descriptor is given back.
Finish(fd) ==
  /\ worker[fd] = "notifying" /\ notifyList[fd] = {}
  /\ rest[fd] # << >> => client[fd] \notin Lost
  /\ toClient' = [toClient EXCEPT ![fd] = @ \o rest[fd]]
  /\ rest' = [rest EXCEPT ![fd] = << >>]
  /\ worker' = [worker EXCEPT ![fd] = "none"]
  /\ UNCHANGED <<storeVars, clientVars, toServer, notifyList, server>>

\* The end of the stream: the client's rights go, and its descriptor is closed.
ServeExit(fd) ==
  /\ Watched(fd) /\ client[fd] \in Lost
  /\ toServer[fd] = << >> /\ toClient[fd] = << >>
  /\ ClientExit(fd)
  /\ opened' = [opened EXCEPT ![fd] = {}]
  /\ client' = [client EXCEPT ![fd] = "none"]
  /\ notifyList' = [notifyList EXCEPT ![Closed] = @ \union Settled(fd)]
  /\ reopened' = [g \in Fds |-> reopened[g] \intersect DOMAIN store']
  /\ UNCHANGED <<todo, received, commandsLeft, streams, worker, rest, server>>

\* DIE_ON_NEG_ONE. A write to a client that has closed its end fails with EPIPE;
\* a read fails with ECONNRESET if it did so before it had read everything.
WriteFails(fd) ==
  /\ client[fd] \in Lost
  /\ \/ worker[fd] \in {"answered", "forbidden"}
     \/ worker[fd] = "notifying" /\ notifyList[fd] = {} /\ rest[fd] # << >>
     \/ fd \in notifyList[Closed]
     \/ \E g \in Fds : worker[g] = "notifying" /\ fd \in notifyList[g]

ReadFails(fd) ==
  /\ Watched(fd) /\ client[fd] \in Lost
  /\ toServer[fd] = << >> /\ toClient[fd] # << >>

Die(fd) ==
  /\ WriteFails(fd) \/ ReadFails(fd)
  /\ server' = "dead"
  /\ UNCHANGED <<storeVars, clientVars, streams, workerVars>>

-----------------------------------------------------------------------------
ClientStep(fd) ==
  \/ NextCommand(fd)
  \/ ContinueCommand(fd)
  \/ CloseConnection(fd)
  \/ ReadRefusal(fd)
  \/ ReadOK(fd)

WorkerStep(fd) ==
  \/ Serve(fd)
  \/ ServeWrite(fd)
  \/ Forbid(fd)
  \/ ThrowAwayPayload(fd)
  \/ WriteTested(fd)
  \/ Respond(fd)
  \/ \E g \in Fds : Notify(fd, g)
  \/ Finish(fd)
  \/ ServeExit(fd)
  \/ Die(fd)

\* Once the server is dead nothing is left to happen on the connections.
Next ==
  /\ server = "up"
  /\ \/ \E fd \in Fds : Connect(fd) \/ Desert(fd) \/ ClientStep(fd) \/ WorkerStep(fd)
     \/ \E g \in Fds : Notify(Closed, g)

\* A worker and a program run on when they can. Nothing is assumed of new programs,
\* nor of those that are killed.
Fairness ==
  /\ \A fd \in Fds : WF_vars(server = "up" /\ ClientStep(fd))
  /\ \A fd \in Fds : WF_vars(server = "up" /\ WorkerStep(fd))
  /\ \A g \in Fds : WF_vars(server = "up" /\ Notify(Closed, g))

Spec == Init /\ [][Next]_vars /\ Fairness

-----------------------------------------------------------------------------
InCall(fd) == client[fd] \in {"waiting", "deserted"}

\* Who has a file open, has it locked or waits for its lock is a client of now, and
\* no program of before: what a connection opened it has open, and nothing else;
\* though numbers of closed descriptors are given to new connections, no entry, no
\* lock and no wait outlives its connection (openFileHandler, closeFileHandler,
\* clientExitHandler). A file that was opened twice is the exception, of which an
\* entry may stay (OnlyOpenersMayUse); and the right to the first write is not one
\* of these: clientExitHandler leaves canDoFirstWrite alone, and the next connection
\* with that number inherits it.
RightsAreOwn ==
  \A f \in Stored :
    /\ \A fd \in Fds :
         LET mayUse == fd \in ToSet(store[f].openDescriptors)
         IN (f \in opened[fd] => mayUse) /\ (mayUse => f \in opened[fd] \union reopened[fd])
    /\ store[f].lockedBy # Nobody => client[store[f].lockedBy] # "none"
    /\ \A fd \in ToSet(store[f].pendingLocks) :
         InCall(fd) /\ Head(todo[fd]) = [op |-> "lock", file |-> f]

\* No exception made: only a connection that has opened a file, and not closed it,
\* is taken to have it open, "the fd isn't already present in the queue"
\* (filesystemApi.c 123), the client is removed "from list of fd's who opened this
\* file" (946).
OnlyOpenersMayUse ==
  \A f \in Stored : \A fd \in ToSet(store[f].openDescriptors) : f \in opened[fd]

\* The right to the first write, while its owner has the file locked, is not taken
\* away by what others do: a request that is refused, a lock they wait for, another
\* openFile. It goes with a request of the owner; and with a close by anybody, for
\* closeFileHandler looks at nothing (canDoFirstWrite).
FirstWriteKept ==
  [][\A fd \in Fds :
       \A f \in Stored \intersect DOMAIN store' :
         /\ store[f].canDoFirstWrite = fd /\ store[f].lockedBy = fd
         /\ store'[f].canDoFirstWrite # fd
         => \E g \in Fds : /\ toServer'[g] # toServer[g]
                           /\ g = fd \/ Head(toServer[g]) = [op |-> "close", file |-> f]]_vars

\* The two ends stay in step. Between two calls nothing of a response is unread, and
\* of the requests only the payload of a writeFile that was forbidden, while the
\* worker reads it away; and what a worker finds that takes up a connection is one
\* whole request, that of the call its client is in (getRequestPayloadSegment after
\* FORBIDDEN, storeFiles up to NO_MORE_CONTENT). As long as no program goes on after
\* a readNFiles whose files it could not save (see Desert).
InStep ==
  \A fd \in Fds :
    /\ ~InCall(fd) =>
         /\ toClient[fd] = << >>
         /\ IF worker[fd] = "discarding" THEN \E p \in Payloads : toServer[fd] = <<p>>
                                         ELSE toServer[fd] = << >>
    /\ Watched(fd) /\ toServer[fd] # << >> =>
         InCall(fd) /\ toServer[fd] = Request(Head(todo[fd])) /\ toClient[fd] = << >>

\* Programs that read their responses to the end never bring the server down
\* (DIE_ON_NEG_ONE around every read and write of a worker).
DiesOnlyOfDesertion == server = "dead" => \E fd \in Fds : client[fd] = "deserted"

\* A client waits for a lock that only clients who wait themselves could release.
InCircle(fd) ==
  \E circle \in SUBSET Fds :
    /\ fd \in circle
    /\ \A g \in circle : \E f \in Stored :
         g \in ToSet(store[f].pendingLocks) /\ store[f].lockedBy \in circle

\* Every call returns, unless the server dies, the program is killed, or clients
\* wait for each other: a lock that is waited for comes free when the program of
\* its owner ends, and whoever waits for a file that is destroyed is told.
CallsReturn ==
  \A fd \in Fds :
    client[fd] = "waiting" ~> client[fd] # "waiting" \/ server = "dead" \/ InCircle(fd)

\* What the programs see is FileService: what a worker has decided or sent, and the
\* library has not yet returned, is the answer to a call in progress.
AnswerSoFar(fd) ==
  LET sent == ToSet(toClient[fd] \o rest[fd])
  IN CASE ~InCall(fd) -> None
       [] InCall(fd) /\ answer[fd] # None -> answer[fd]
       [] InCall(fd) /\ answer[fd] = None /\ "refused" \in sent -> Refused
       [] InCall(fd) /\ answer[fd] = None /\ "OK" \in sent -> Ok(sent \intersect Files)
       [] OTHER -> None

Returned(fd) ==
  CASE client[fd] = "ok" -> Ok(received[fd])
    [] client[fd] = "refused" -> Refused
    [] OTHER -> None

Service == INSTANCE FileService WITH
  answer <- [fd \in Fds |-> AnswerSoFar(fd)],
  calls <- [fd \in Fds |-> IF InCall(fd) THEN {Head(todo[fd])} ELSE {}],
  allowed <- {fd \in Fds : worker[fd] = "tested"},
  result <- [fd \in Fds |-> Returned(fd)]

ImplementsService == Service!Spec
=============================================================================
