---------------------------- MODULE FileService ----------------------------
(***************************************************************************)
(* What the client library promises its caller (src/src/clientApi.c): each *)
(* call takes effect on the storage once, in one step, at some moment      *)
(* between the call and its return, and the caller learns the outcome and  *)
(* the files of that step.  No streams, no workers.                        *)
(*                                                                         *)
(* Two things fall short of that.  writeFile takes two steps: it is allowed*)
(* if at some moment of the call it would be the first operation on a file *)
(* that its client has created with a lock; when it writes, another client *)
(* may have closed the file.  And removeFile may report a failure that did *)
(* not happen: it looks for the end of the response code in memory nobody  *)
(* has written (clientApi.c 513; the others start from an empty string).   *)
(***************************************************************************)
EXTENDS OpenFiles

VARIABLES
  calls,    \* the call each client is in, a set of at most one
  allowed,  \* the clients whose writeFile may go on
  result    \* what the client's last call returned, None if it has quit

vars == <<store, answer, calls, allowed, result>>

Init ==
  /\ StoreInit
  /\ calls = [fd \in Fds |-> {}]
  /\ allowed = {}
  /\ result = [fd \in Fds |-> None]

Call(fd, call) ==
  /\ calls[fd] = {}
  /\ calls' = [calls EXCEPT ![fd] = {call}]
  /\ result' = [result EXCEPT ![fd] = None]
  /\ UNCHANGED <<store, answer, allowed>>

Allow(fd) ==
  /\ answer[fd] = None
  /\ \E call \in calls[fd] : call.op = "write" /\ TestFirstWrite(fd, call.file)
  /\ allowed' = allowed \union {fd}
  /\ UNCHANGED <<store, answer, calls, result>>

WriteFile(fd, call) ==
  /\ call.op = "write"
  /\ Refuse(fd) \/ (fd \in allowed /\ WriteToFile(fd, call.file))

Waits(fd) == \E f \in Stored : fd \in ToSet(store[f].pendingLocks)

\* A call that is not answered by this waits for a lock, and is settled by the
\* call of another client that passes the lock on or destroys the file.
TakeEffect(fd) ==
  /\ answer[fd] = None /\ ~Waits(fd)
  /\ \E call \in calls[fd] : Handle(fd, call) \/ WriteFile(fd, call)
  /\ allowed' = allowed \ {fd}
  /\ UNCHANGED <<calls, result>>

Return(fd) ==
  /\ answer[fd] # None
  /\ \/ result' = [result EXCEPT ![fd] = answer[fd]]
     \/ /\ \E call \in calls[fd] : call.op = "remove"
        /\ result' = [result EXCEPT ![fd] = Refused]
  /\ calls' = [calls EXCEPT ![fd] = {}]
  /\ answer' = [answer EXCEPT ![fd] = None]
  /\ UNCHANGED <<store, allowed>>

Quit(fd) ==
  /\ calls[fd] = {}
  /\ result' = [result EXCEPT ![fd] = None]
  /\ UNCHANGED <<store, answer, calls, allowed>>

\* The connection of a client that has quit is closed.
Leave(fd) ==
  /\ calls[fd] = {} /\ result[fd] = None
  /\ ClientExit(fd)
  /\ UNCHANGED <<calls, allowed, result>>

Next ==
  \E fd \in Fds :
    \/ \E call \in Calls : Call(fd, call)
    \/ Allow(fd)
    \/ TakeEffect(fd)
    \/ Return(fd)
    \/ Quit(fd)
    \/ Leave(fd)

Spec == Init /\ [][Next]_vars
=============================================================================
