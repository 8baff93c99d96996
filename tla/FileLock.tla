------------------------------ MODULE FileLock ------------------------------
(***************************************************************************)
(* What the lock operations of the storage promise its clients, file by    *)
(* file: a client holds a lock until it gives it up (or the file is        *)
(* destroyed), clients that ask for a held lock wait in order of arrival,  *)
(* and the lock goes from its holder directly to the first of them         *)
(* (src/src/filesystemApi.c:833-836, 900-913, 959-962).                    *)
(*                                                                         *)
(* A client is its connection's file descriptor.                           *)
(***************************************************************************)
EXTENDS Naturals, Sequences, SequencesExt

CONSTANTS Fds, Files, NoFd

VARIABLES
  holder,  \* holder[f]: the client that has file f locked, or NoFd
  queue    \* queue[f]: the clients blocked on the lock of f, oldest first

vars == <<holder, queue>>

Init ==
  /\ holder = [f \in Files |-> NoFd]
  /\ queue = [f \in Files |-> <<>>]

\* A blocked client waits for one lock.
Blocked(r) == \E f \in Files : Contains(queue[f], r)

Acquire(f, r) ==
  /\ ~ Blocked(r)
  /\ holder[f] = NoFd
  /\ holder' = [holder EXCEPT ![f] = r]
  /\ UNCHANGED queue

Wait(f, r) ==
  /\ ~ Blocked(r)
  /\ holder[f] \notin {NoFd, r}
  /\ queue' = [queue EXCEPT ![f] = Append(@, r)]
  /\ UNCHANGED holder

\* The holder unlocks, or leaves.
Release(f) ==
  /\ holder[f] # NoFd
  /\ IF queue[f] = <<>>
       THEN holder' = [holder EXCEPT ![f] = NoFd] /\ UNCHANGED queue
       ELSE /\ holder' = [holder EXCEPT ![f] = Head(queue[f])]
            /\ queue' = [queue EXCEPT ![f] = Tail(@)]

\* The file is evicted or removed: nobody holds its lock or waits for it.
Drop(f) ==
  /\ holder' = [holder EXCEPT ![f] = NoFd]
  /\ queue' = [queue EXCEPT ![f] = <<>>]

Next ==
  \E f \in Files :
    \/ \E r \in Fds : Acquire(f, r) \/ Wait(f, r)
    \/ Release(f)
    \/ Drop(f)

Spec == Init /\ [][Next]_vars
=============================================================================
