---------------------------- MODULE MCFileAccess ----------------------------
\* FileAccess on small instances.
EXTENDS FileAccess, TLC

\* Workers, clients and files are interchangeable. Only for safety runs.
MCSymmetry ==
  Permutations(Workers) \union Permutations(Fds) \union Permutations(Files)

\* Every request the shipped client can make. It never opens an existing file
\* with O_LOCK (client.c:119, 207, 289).
ClientOps == (FileOps \ {"openLocked"}) \union StoreOps

\* Every request the protocol has.
AllOps == FileOps \union StoreOps

\* All that wait for a file to be at rest, or keep one from it. The others (open,
\* the test of a first write, readNFiles) pass by without waiting on its condition.
WaitingOps == {"create", "read", "write", "lock", "unlock", "close", "remove", "exit"}

\* Workers that are idle are alike, so with as many workers as clients let each
\* client have its own: any behaviour is one of these, up to the names of workers.
Serves == CHOOSE s \in [Fds -> Workers] : \A r, q \in Fds : s[r] = s[q] => r = q
NextPaired ==
  \E w \in Workers :
    \/ \E q \in Requests : w = Serves[q.fd] /\ Dequeue(w, q)
    \/ EnterStore(w)
    \/ Continue(w)
    \/ SpuriousWakeup(w)
SpecPaired == Init /\ [][NextPaired]_vars /\ Fairness

\* Workers, each with its client, are alike: what holds of one holds of all.
AWorker == CHOOSE w \in Workers : TRUE

\* A handler that has got hold of the storage ends, those that wait with it in hand
\* included (clientExitHandler from file to file, a write that evicts others): no
\* cycle of mutexes and waits, no waiter left behind.
HandlersEnd == HandlerEnds(AWorker)
=============================================================================
