---------------------------- MODULE ServerProofs ----------------------------
(***************************************************************************)
(* Proofs about Server: where descriptors are, who is counted as           *)
(* connected, and what is left when the server winds up.                   *)
(***************************************************************************)
EXTENDS Server, DataLemmas

Running == {"top", "select", "interrupted", "scan"}

\* A worker has a descriptor from the task queue to the pipe, and clients to notify
\* only after its handler has returned.
Hands ==
  \A w \in Workers :
    /\ rdy_fd[w] # NoFd <=> worker[w] \in {"serving", "answered"}
    /\ notifyList[w] # {} => worker[w] \in {"answered", "closed"}

\* What select found ready and main has yet to look at is still ready, and no client
\* is left unserved when the server winds up by itself or on its way to the loop.
Scans ==
  /\ manager \in {"top", "select", "interrupted"} => rset = {}
  /\ manager \in Cleaning => rset \intersect Fds = {}
  /\ PipeFd \in rset => pipe # <<>>
  /\ SocketFd \in rset => backlog > 0

\* No worker is told to end while requests may still be queued.
Terms ==
  rset \intersect Fds # {} \/ manager \in Running =>
    \A k \in 1 .. Len(tasks) : tasks[k] # Term

\* The flusher is told to end only when the queue is complete, and misses nothing
\* before that.
Logs ==
  /\ manager \in Running \union {"clean"} => flusher = "running"
  /\ flusher = "running" => late = 0

IInv ==
  /\ TypeOK
  /\ clientCount + backlog <= MaxClients
  /\ FdNumCovers
  /\ Hands
  /\ Scans
  /\ Terms
  /\ Logs
  /\ FdConservation
  /\ ClientCountExact
  /\ SoftExitDrains

-----------------------------------------------------------------------------
\* Counting

One(b) == IF b THEN 1 ELSE 0

Serving(rd, f) == {w \in Workers : rd[w] = f}
Telling(nl, f) == {w \in Workers : f \in nl[w]}
InUse(cn) == {f \in Fds : cn[f] # "free"}
Closed(wk) == {w \in Workers : wk[w] = "closed"}

\* How many have f, place by place.
Total(f, ss, pk, ts, pp, rd, nl) ==
  One(f \in ss) + One(f \in pk)
    + Cardinality(Places(ts, f)) + Cardinality(Places(pp, f))
    + Cardinality(Serving(rd, f)) + Cardinality(Telling(nl, f))

LEMMA OwnersAre ==
  ASSUME NEW f \in Fds
  PROVE  /\ Owners(f) = Total(f, setsave, parked, tasks, pipe, rdy_fd, notifyList)
         /\ Owners(f)' = Total(f, setsave', parked', tasks', pipe', rdy_fd', notifyList')
<1>1. f # NoFd
  BY SizesAssumption DEF Fds, NoFd
<1>2. {w \in Workers : f \in Held(w)} = Serving(rdy_fd, f)
  BY <1>1 DEF Held, Serving
<1>3. {w \in Workers : f \in Held(w)}' = Serving(rdy_fd', f)
  BY <1>1 DEF Held, Serving
<1>4. Owners(f) = Total(f, setsave, parked, tasks, pipe, rdy_fd, notifyList)
  BY <1>2 DEF Owners, Total, One, Places, Telling
<1>5. Owners(f)' = Total(f, setsave', parked', tasks', pipe', rdy_fd', notifyList')
  BY <1>3 DEF Owners, Total, One, Places, Telling
<1> QED
  BY <1>4, <1>5

LEMMA ServingChange ==
  ASSUME NEW rd, NEW w \in Workers, NEW f, NEW r2,
         \A v \in Workers \ {w} : r2[v] = rd[v]
  PROVE  /\ Cardinality(Serving(rd, f)) \in Nat /\ Cardinality(Serving(r2, f)) \in Nat
         /\ Cardinality(Serving(r2, f)) + One(rd[w] = f) =
              Cardinality(Serving(rd, f)) + One(r2[w] = f)
<1>1. IsFiniteSet(Serving(rd, f))
  BY SizesAssumption, FS_Subset DEF Serving
<1>2. Serving(rd, f) \ {w} = Serving(r2, f) \ {w}
  BY DEF Serving
<1>3. (w \in Serving(rd, f) <=> rd[w] = f) /\ (w \in Serving(r2, f) <=> r2[w] = f)
  BY DEF Serving
<1>4. /\ Cardinality(Serving(rd, f)) \in Nat /\ Cardinality(Serving(r2, f)) \in Nat
      /\ Cardinality(Serving(r2, f)) + (IF w \in Serving(rd, f) THEN 1 ELSE 0) =
           Cardinality(Serving(rd, f)) + (IF w \in Serving(r2, f) THEN 1 ELSE 0)
  BY <1>1, <1>2, CardinalityChange
<1> QED
  BY <1>3, <1>4 DEF One

LEMMA TellingChange ==
  ASSUME NEW nl, NEW w \in Workers, NEW f, NEW n2,
         \A v \in Workers \ {w} : n2[v] = nl[v]
  PROVE  /\ Cardinality(Telling(nl, f)) \in Nat /\ Cardinality(Telling(n2, f)) \in Nat
         /\ Cardinality(Telling(n2, f)) + One(f \in nl[w]) =
              Cardinality(Telling(nl, f)) + One(f \in n2[w])
<1>1. IsFiniteSet(Telling(nl, f))
  BY SizesAssumption, FS_Subset DEF Telling
<1>2. Telling(nl, f) \ {w} = Telling(n2, f) \ {w}
  BY DEF Telling
<1>3. (w \in Telling(nl, f) <=> f \in nl[w]) /\ (w \in Telling(n2, f) <=> f \in n2[w])
  BY DEF Telling
<1>4. /\ Cardinality(Telling(nl, f)) \in Nat /\ Cardinality(Telling(n2, f)) \in Nat
      /\ Cardinality(Telling(n2, f)) + (IF w \in Telling(nl, f) THEN 1 ELSE 0) =
           Cardinality(Telling(nl, f)) + (IF w \in Telling(n2, f) THEN 1 ELSE 0)
  BY <1>1, <1>2, CardinalityChange
<1> QED
  BY <1>3, <1>4 DEF One

LEMMA ClosedChange ==
  ASSUME NEW wk, NEW w \in Workers, NEW k2, \A v \in Workers \ {w} : k2[v] = wk[v]
  PROVE  /\ Cardinality(Closed(wk)) \in Nat /\ Cardinality(Closed(k2)) \in Nat
         /\ Cardinality(Closed(k2)) + One(wk[w] = "closed") =
              Cardinality(Closed(wk)) + One(k2[w] = "closed")
<1>1. IsFiniteSet(Closed(wk))
  BY SizesAssumption, FS_Subset DEF Closed
<1>2. Closed(wk) \ {w} = Closed(k2) \ {w}
  BY DEF Closed
<1>3. (w \in Closed(wk) <=> wk[w] = "closed") /\ (w \in Closed(k2) <=> k2[w] = "closed")
  BY DEF Closed
<1>4. /\ Cardinality(Closed(wk)) \in Nat /\ Cardinality(Closed(k2)) \in Nat
      /\ Cardinality(Closed(k2)) + (IF w \in Closed(wk) THEN 1 ELSE 0) =
           Cardinality(Closed(wk)) + (IF w \in Closed(k2) THEN 1 ELSE 0)
  BY <1>1, <1>2, CardinalityChange
<1> QED
  BY <1>3, <1>4 DEF One

LEMMA FdsCount == IsFiniteSet(Fds) /\ Cardinality(Fds) = MaxClients
<1>1. MaxClients \in Nat \ {0}
  BY SizesAssumption
<1>2. IsFiniteSet(3 .. MaxClients + 2)
      /\ Cardinality(3 .. MaxClients + 2) =
           IF 3 > MaxClients + 2 THEN 0 ELSE MaxClients + 2 - 3 + 1
  BY <1>1, FS_Interval
<1> QED
  BY <1>1, <1>2 DEF Fds

LEMMA InUseChange ==
  ASSUME NEW cn, NEW f \in Fds, NEW c2, \A g \in Fds \ {f} : c2[g] = cn[g]
  PROVE  /\ Cardinality(InUse(cn)) \in Nat /\ Cardinality(InUse(c2)) \in Nat
         /\ Cardinality(InUse(c2)) + One(cn[f] # "free") =
              Cardinality(InUse(cn)) + One(c2[f] # "free")
<1>1. IsFiniteSet(InUse(cn))
  BY FdsCount, FS_Subset DEF InUse
<1>2. InUse(cn) \ {f} = InUse(c2) \ {f}
  BY DEF InUse
<1>3. (f \in InUse(cn) <=> cn[f] # "free") /\ (f \in InUse(c2) <=> c2[f] # "free")
  BY DEF InUse
<1>4. /\ Cardinality(InUse(cn)) \in Nat /\ Cardinality(InUse(c2)) \in Nat
      /\ Cardinality(InUse(c2)) + (IF f \in InUse(cn) THEN 1 ELSE 0) =
           Cardinality(InUse(cn)) + (IF f \in InUse(c2) THEN 1 ELSE 0)
  BY <1>1, <1>2, CardinalityChange
<1> QED
  BY <1>3, <1>4 DEF One

\* Every count is a number.
LEMMA CountTypes ==
  ASSUME TypeOK, NEW f
  PROVE  /\ Cardinality(Places(tasks, f)) \in Nat /\ Cardinality(Places(pipe, f)) \in Nat
         /\ Cardinality(Serving(rdy_fd, f)) \in Nat
         /\ Cardinality(Telling(notifyList, f)) \in Nat
         /\ Cardinality(InUse(conn)) \in Nat /\ Cardinality(Closed(worker)) \in Nat
<1>1. tasks \in Seq({Term} \union Fds) /\ pipe \in Seq({Left} \union Fds)
  BY DEF TypeOK
<1>2. /\ IsFiniteSet(Serving(rdy_fd, f)) /\ IsFiniteSet(Telling(notifyList, f))
      /\ IsFiniteSet(InUse(conn)) /\ IsFiniteSet(Closed(worker))
  BY SizesAssumption, FdsCount, FS_Subset DEF Serving, Telling, InUse, Closed
<1> QED
  BY <1>1, <1>2, PlacesFinite, FS_CardinalityType

-----------------------------------------------------------------------------
\* Nobody is connected, so nothing is left to do.
Drained ==
  /\ \A f \in Fds : conn[f] = "free"
  /\ parked = {}
  /\ \A k \in DOMAIN tasks : tasks[k] = Term
  /\ \A w \in Workers : worker[w] \in {"idle", "ended"}

LEMMA NobodyLeft ==
  TypeOK /\ Hands /\ FdConservation /\ ClientCountExact /\ clientCount = 0
    => Drained /\ setsave \intersect Fds = {}
<1> SUFFICES ASSUME TypeOK, Hands, FdConservation, ClientCountExact, clientCount = 0
             PROVE  Drained /\ setsave \intersect Fds = {}
  OBVIOUS
<1>1. Cardinality(InUse(conn)) = 0 /\ Cardinality(Closed(worker)) = 0
  <2>1. 0 = Cardinality(InUse(conn)) + Cardinality(Places(pipe, Left))
              + Cardinality(Closed(worker))
    BY DEF ClientCountExact, InUse, Places, Closed
  <2> QED
    BY <2>1, CountTypes
<1>2. InUse(conn) = {} /\ Closed(worker) = {}
  <2>1. IsFiniteSet(InUse(conn)) /\ IsFiniteSet(Closed(worker))
    BY FdsCount, SizesAssumption, FS_Subset DEF InUse, Closed
  <2> QED
    BY <1>1, <2>1, FS_EmptySet
<1>3. \A f \in Fds : conn[f] = "free"
  BY <1>2 DEF InUse
<1>4. \A f \in Fds : Total(f, setsave, parked, tasks, pipe, rdy_fd, notifyList) = 0
  BY <1>3, OwnersAre DEF FdConservation
<1>5. ASSUME NEW f \in Fds
      PROVE  /\ f \notin setsave /\ f \notin parked
             /\ Cardinality(Places(tasks, f)) = 0
             /\ Cardinality(Serving(rdy_fd, f)) = 0
  <2> DEFINE a == One(f \in setsave)
             b == One(f \in parked)
             c == Cardinality(Places(tasks, f))
             d == Cardinality(Places(pipe, f))
             e == Cardinality(Serving(rdy_fd, f))
             t == Cardinality(Telling(notifyList, f))
  <2>1. a \in Nat /\ b \in Nat
    BY DEF One
  <2>2. c \in Nat /\ d \in Nat /\ e \in Nat /\ t \in Nat
    BY CountTypes
  <2>3. a + b + c + d + e + t = 0
    BY <1>4 DEF Total
  <2> HIDE DEF a, b, c, d, e, t
  <2>4. a = 0 /\ b = 0 /\ c = 0 /\ e = 0
    BY <2>1, <2>2, <2>3
  <2> QED
    BY <2>4 DEF One, a, b, c, e
<1>6. parked = {} /\ setsave \intersect Fds = {}
  BY <1>5 DEF TypeOK
<1>7. \A k \in DOMAIN tasks : tasks[k] = Term
  <2> SUFFICES ASSUME NEW k \in DOMAIN tasks, tasks[k] # Term PROVE FALSE
    OBVIOUS
  <2>1. tasks \in Seq({Term} \union Fds) /\ k \in 1 .. Len(tasks)
    BY LenProperties DEF TypeOK
  <2>2. tasks[k] \in Fds
    BY <2>1, ElementOfSeq
  <2> QED
    BY <1>5, <2>1, <2>2, PlacesFinite
<1>8. ASSUME NEW w \in Workers PROVE worker[w] \in {"idle", "ended"}
  <2>1. worker[w] # "closed"
    BY <1>2 DEF Closed
  <2>2. rdy_fd[w] = NoFd
    <3> SUFFICES ASSUME rdy_fd[w] \in Fds PROVE FALSE
      BY DEF TypeOK
    <3>1. Cardinality(Serving(rdy_fd, rdy_fd[w])) = 0
      BY <1>5
    <3>2. IsFiniteSet(Serving(rdy_fd, rdy_fd[w])) /\ w \in Serving(rdy_fd, rdy_fd[w])
      BY SizesAssumption, FS_Subset DEF Serving
    <3> QED
      BY <3>1, <3>2, FS_EmptySet
  <2> QED
    BY <2>1, <2>2 DEF Hands, TypeOK
<1> QED
  BY <1>3, <1>6, <1>7, <1>8 DEF Drained

LEMMA NobodyLeftThen ==
  (TypeOK /\ Hands /\ FdConservation /\ ClientCountExact /\ clientCount = 0)'
    => (Drained /\ setsave \intersect Fds = {})'
BY NobodyLeft, PTL

LEMMA InitIInv == Init => IInv
<1> SUFFICES ASSUME Init PROVE IInv
  OBVIOUS
<1>1. MaxClients \in Nat \ {0} /\ LogCap \in Nat /\ Cardinality(Workers) \in Nat
  BY SizesAssumption, FS_CardinalityType
<1>t. /\ setsave \subseteq {PipeFd, SocketFd} \union Fds
      /\ fd_num \in 0 .. MaxClients + 2 /\ clientCount \in 0 .. MaxClients
      /\ termsLeft \in 0 .. Cardinality(Workers) /\ backlog \in 0 .. MaxClients
      /\ late \in 0 .. LogCap
  BY <1>1 DEF Init, PipeFd, SocketFd
<1>e. /\ tasks \in Seq({Term} \union Fds) /\ pipe \in Seq({Left} \union Fds)
      /\ Len(tasks) = 0 /\ Len(pipe) = 0
      /\ DOMAIN tasks = {} /\ DOMAIN pipe = {}
  BY DEF Init
<1>f. /\ worker \in [Workers -> {"idle", "serving", "answered", "closed", "ended"}]
      /\ rdy_fd \in [Workers -> {NoFd} \union Fds]
      /\ notifyList \in [Workers -> SUBSET Fds]
      /\ conn \in [Fds -> {"free", "thinking", "asked", "left", "gone"}]
  BY DEF Init
<1>2. TypeOK
  BY <1>t, <1>e, <1>f DEF TypeOK, Init
<1>0. Cardinality({}) = 0
  BY FS_EmptySet
<1>3. clientCount + backlog <= MaxClients /\ FdNumCovers
  BY <1>1 DEF Init, FdNumCovers, PipeFd, SocketFd
<1>4. Hands /\ Scans /\ Terms /\ Logs /\ SoftExitDrains
  BY DEF Init, Hands, Scans, Terms, Logs, SoftExitDrains, Cleaning, NoFd
<1>5. FdConservation
  <2> SUFFICES ASSUME NEW f \in Fds PROVE Owners(f) = 0
    BY DEF Init, FdConservation
  <2>1. f \notin setsave /\ f \notin parked /\ f # NoFd
    BY <1>1 DEF Init, Fds, PipeFd, SocketFd, NoFd
  <2>2. /\ Places(tasks, f) = {} /\ Places(pipe, f) = {}
        /\ Serving(rdy_fd, f) = {} /\ Telling(notifyList, f) = {}
    BY <1>e, <2>1 DEF Init, Places, Serving, Telling
  <2>3. /\ Cardinality(Places(tasks, f)) = 0 /\ Cardinality(Places(pipe, f)) = 0
        /\ Cardinality(Serving(rdy_fd, f)) = 0 /\ Cardinality(Telling(notifyList, f)) = 0
    BY <1>0, <2>2
  <2>4. One(f \in setsave) = 0 /\ One(f \in parked) = 0
    BY <2>1 DEF One
  <2>5. Total(f, setsave, parked, tasks, pipe, rdy_fd, notifyList) = 0
    BY <2>3, <2>4 DEF Total
  <2> QED
    BY <2>5, OwnersAre
<1>6. ClientCountExact
  <2>1. InUse(conn) = {} /\ Closed(worker) = {} /\ Places(pipe, Left) = {}
    BY <1>e DEF Init, InUse, Closed, Places
  <2>2. /\ Cardinality(InUse(conn)) = 0 /\ Cardinality(Places(pipe, Left)) = 0
        /\ Cardinality(Closed(worker)) = 0 /\ clientCount = 0
    BY <1>0, <2>1 DEF Init
  <2>3. clientCount = Cardinality(InUse(conn)) + Cardinality(Places(pipe, Left))
                        + Cardinality(Closed(worker))
    BY <2>2
  <2> QED
    BY <2>3 DEF ClientCountExact, InUse, Closed, Places
<1> QED
  BY <1>2, <1>3, <1>4, <1>5, <1>6 DEF IInv

-----------------------------------------------------------------------------
\* Steps that move no descriptor

LEMMA KeepsConservation ==
  ASSUME FdConservation, UNCHANGED <<setsave, parked, tasks, pipe, rdy_fd, notifyList>>,
         \A f \in Fds : conn'[f] = "free" <=> conn[f] = "free"
  PROVE  FdConservation'
<1> SUFFICES ASSUME NEW f \in Fds
             PROVE  Owners(f)' = IF conn'[f] = "free" THEN 0 ELSE 1
  BY DEF FdConservation
<1>1. Owners(f)' = Owners(f)
  BY OwnersAre
<1> QED
  BY <1>1 DEF FdConservation

LEMMA KeepsCount ==
  ASSUME ClientCountExact, UNCHANGED <<clientCount, pipe>>,
         \A w \in Workers : worker'[w] = "closed" <=> worker[w] = "closed",
         \A f \in Fds : conn'[f] = "free" <=> conn[f] = "free"
  PROVE  ClientCountExact'
<1>1. InUse(conn') = InUse(conn) /\ Closed(worker') = Closed(worker)
  BY DEF InUse, Closed
<1> QED
  BY <1>1 DEF ClientCountExact, InUse, Closed

LEMMA LoopStep == IInv /\ Loop => IInv'
<1> SUFFICES ASSUME IInv, Loop PROVE IInv'
  OBVIOUS
<1> USE DEF mainVars, watchVars, workerVars, clientVars, logVars, signals, notManager
<1>1. Cardinality(Workers) \in Nat
  BY SizesAssumption, FS_CardinalityType
<1>2. TypeOK'
  BY <1>1 DEF IInv, TypeOK, Loop, CleanUp, Cleaning
<1>3. (clientCount + backlog <= MaxClients)' /\ FdNumCovers' /\ Hands'
  BY DEF IInv, Loop, CleanUp, FdNumCovers, Hands
<1>4. Scans' /\ Terms' /\ Logs' /\ SoftExitDrains'
  BY DEF IInv, Loop, CleanUp, Scans, Terms, Logs, SoftExitDrains, Running, Cleaning
<1>5. FdConservation' /\ ClientCountExact'
  BY KeepsConservation, KeepsCount DEF IInv, Loop
<1> QED
  BY <1>2, <1>3, <1>4, <1>5 DEF IInv

LEMMA SelectStep == IInv /\ Select => IInv'
<1> SUFFICES ASSUME IInv, Select PROVE IInv'
  OBVIOUS
<1> USE DEF mainVars, watchVars, workerVars, clientVars, logVars, signals, notManager
<1>2. TypeOK'
  BY DEF IInv, TypeOK, Select, Ready, Cleaning
<1>3. (clientCount + backlog <= MaxClients)' /\ FdNumCovers' /\ Hands'
  BY DEF IInv, Select, FdNumCovers, Hands
<1>4. Scans'
  <2>1. Readable(PipeFd) => pipe # <<>>
    BY DEF Readable, PipeFd, SocketFd
  <2>2. Readable(SocketFd) => backlog > 0
    BY DEF Readable, PipeFd, SocketFd
  <2> QED
    BY <2>1, <2>2 DEF IInv, Select, Scans, Cleaning, Ready
<1>5. Terms' /\ Logs' /\ SoftExitDrains'
  BY DEF IInv, Select, Terms, Logs, SoftExitDrains, Running, Cleaning
<1>6. FdConservation' /\ ClientCountExact'
  BY KeepsConservation, KeepsCount DEF IInv, Select
<1> QED
  BY <1>2, <1>3, <1>4, <1>5, <1>6 DEF IInv

LEMMA InterruptedStep == IInv /\ Interrupted => IInv'
<1> SUFFICES ASSUME IInv, Interrupted PROVE IInv'
  OBVIOUS
<1> USE DEF mainVars, watchVars, workerVars, clientVars, logVars, signals, notManager
<1>1. Cardinality(Workers) \in Nat
  BY SizesAssumption, FS_CardinalityType
<1>2. TypeOK'
  BY <1>1 DEF IInv, TypeOK, Interrupted, CleanUp, Cleaning
<1>3. (clientCount + backlog <= MaxClients)' /\ FdNumCovers' /\ Hands'
  BY DEF IInv, Interrupted, CleanUp, FdNumCovers, Scans, Hands
<1>4. Scans' /\ Terms' /\ Logs'
  BY DEF IInv, Interrupted, CleanUp, Scans, Terms, Logs, Running, Cleaning
<1>5. SoftExitDrains'
  <2>1. clientCount = 0 => Drained
    BY NobodyLeft DEF IInv
  <2>2. late = 0
    BY DEF IInv, Logs, Interrupted, Running
  <2> QED
    BY <2>1, <2>2 DEF Interrupted, CleanUp, SoftExitDrains, Drained, Cleaning
<1>6. FdConservation' /\ ClientCountExact'
  BY KeepsConservation, KeepsCount DEF IInv, Interrupted
<1> QED
  BY <1>2, <1>3, <1>4, <1>5, <1>6 DEF IInv

LEMMA EndScanStep == IInv /\ EndScan => IInv'
<1> SUFFICES ASSUME IInv, EndScan PROVE IInv'
  OBVIOUS
<1> USE DEF mainVars, watchVars, workerVars, clientVars, logVars, signals, notManager
<1>1. rset = {}
  <2> SUFFICES ASSUME NEW f \in rset PROVE FALSE
    OBVIOUS
  <2>1. f \in setsave /\ f \in Int /\ fd_num \in Int
    BY SizesAssumption DEF IInv, TypeOK, PipeFd, SocketFd, Fds
  <2> QED
    BY <2>1 DEF IInv, FdNumCovers, EndScan
<1>2. TypeOK'
  BY DEF IInv, TypeOK, EndScan
<1>3. (clientCount + backlog <= MaxClients)' /\ FdNumCovers' /\ Hands'
  BY <1>1 DEF IInv, EndScan, FdNumCovers, Hands
<1>4. Scans' /\ Terms' /\ Logs' /\ SoftExitDrains'
  BY <1>1 DEF IInv, EndScan, Scans, Terms, Logs, SoftExitDrains, Running, Cleaning
<1>5. FdConservation' /\ ClientCountExact'
  BY KeepsConservation, KeepsCount DEF IInv, EndScan
<1> QED
  BY <1>2, <1>3, <1>4, <1>5 DEF IInv

LEMMA SendTermStep == IInv /\ SendTerm => IInv'
<1> SUFFICES ASSUME IInv, SendTerm PROVE IInv'
  OBVIOUS
<1> USE DEF mainVars, watchVars, workerVars, clientVars, logVars, signals, notManager
<1>1. tasks \in Seq({Term} \union Fds) /\ Term \in {Term} \union Fds /\ Term \notin Fds
      /\ Len(tasks) \in Nat
  BY SizesAssumption, LenProperties DEF IInv, TypeOK, Term, Fds
<1>2. /\ tasks' = Append(tasks, Term) /\ tasks' \in Seq({Term} \union Fds)
      /\ DOMAIN tasks' = 1 .. Len(tasks) + 1 /\ DOMAIN tasks = 1 .. Len(tasks)
      /\ Len(tasks') = Len(tasks) + 1
      /\ \A k \in 1 .. Len(tasks) : tasks'[k] = tasks[k]
      /\ tasks'[Len(tasks) + 1] = Term
  BY <1>1, AppendProperties, LenProperties DEF SendTerm
<1>3. TypeOK'
  <2>1. termsLeft' \in 0 .. Cardinality(Workers)
    BY SizesAssumption, FS_CardinalityType DEF IInv, TypeOK, SendTerm
  <2> QED
    BY <1>2, <2>1 DEF IInv, TypeOK, SendTerm
<1>4. (clientCount + backlog <= MaxClients)' /\ FdNumCovers' /\ Hands'
  BY DEF IInv, SendTerm, FdNumCovers, Hands
<1>5. Scans' /\ Terms' /\ Logs'
  BY DEF IInv, SendTerm, Scans, Terms, Logs, Running, Cleaning
<1>6. SoftExitDrains'
  <2> SUFFICES ASSUME ~ hardExit PROVE SoftExitDrains'
    BY DEF SendTerm, SoftExitDrains
  <2>1. /\ \A f \in Fds : conn[f] = "free"
        /\ parked = {} /\ \A k \in DOMAIN tasks : tasks[k] = Term
        /\ \A w \in Workers : worker[w] \in {"idle", "ended"}
        /\ late = 0
    BY DEF IInv, SoftExitDrains, SendTerm, Cleaning
  <2>2. \A k \in DOMAIN tasks' : tasks'[k] = Term
    BY <1>1, <1>2, <2>1
  <2>3. UNCHANGED <<conn, parked, worker, late>>
    BY DEF SendTerm
  <2> QED
    BY <2>1, <2>2, <2>3 DEF SoftExitDrains
<1>7. FdConservation'
  <2> SUFFICES ASSUME NEW f \in Fds
               PROVE  Owners(f)' = IF conn[f] = "free" THEN 0 ELSE 1
    BY DEF FdConservation, SendTerm
  <2>1. Cardinality(Places(tasks', f)) = Cardinality(Places(tasks, f)) + 0
    BY <1>1, <1>2, PlacesAppend
  <2>2. Cardinality(Places(tasks', f)) = Cardinality(Places(tasks, f))
    BY <2>1, CountTypes DEF IInv
  <2>3. Owners(f)' = Owners(f)
    BY <2>2, OwnersAre DEF SendTerm, Total
  <2> QED
    BY <2>3 DEF IInv, FdConservation
<1>8. ClientCountExact'
  BY KeepsCount DEF IInv, SendTerm
<1> QED
  BY <1>3, <1>4, <1>5, <1>6, <1>7, <1>8 DEF IInv

LEMMA EndLogStep == IInv /\ EndLog => IInv'
<1> SUFFICES ASSUME IInv, EndLog PROVE IInv'
  OBVIOUS
<1> USE DEF mainVars, watchVars, workerVars, clientVars, logVars, signals, notManager
<1>1. TypeOK'
  BY DEF IInv, TypeOK, EndLog, Cleaning
<1>2. (clientCount + backlog <= MaxClients)' /\ FdNumCovers' /\ Hands'
  BY DEF IInv, EndLog, FdNumCovers, Hands
<1>3. Scans' /\ Terms' /\ Logs' /\ SoftExitDrains'
  BY DEF IInv, EndLog, Scans, Terms, Logs, SoftExitDrains, Running, Cleaning
<1>4. FdConservation' /\ ClientCountExact'
  BY KeepsConservation, KeepsCount DEF IInv, EndLog
<1> QED
  BY <1>1, <1>2, <1>3, <1>4 DEF IInv

LEMMA JoinStep == IInv /\ (JoinWorkers \/ JoinLogger) => IInv'
<1> SUFFICES ASSUME IInv, JoinWorkers \/ JoinLogger PROVE IInv'
  OBVIOUS
<1> USE DEF mainVars, watchVars, workerVars, clientVars, logVars, signals, notManager
<1>0. /\ manager \in {"join", "joinLogger"} /\ manager' \in {"joinLogger", "done"}
      /\ UNCHANGED <<watchVars, rset, clientCount, termsLeft, tasks, pipe, notManager>>
  BY DEF JoinWorkers, JoinLogger, Join
<1>1. TypeOK'
  BY <1>0 DEF IInv, TypeOK, Cleaning
<1>2. (clientCount + backlog <= MaxClients)' /\ FdNumCovers' /\ Hands'
  BY <1>0 DEF IInv, FdNumCovers, Hands
<1>3. Scans' /\ Terms' /\ Logs' /\ SoftExitDrains'
  BY <1>0 DEF IInv, Scans, Terms, Logs, SoftExitDrains, Running, Cleaning
<1>4. FdConservation' /\ ClientCountExact'
  BY <1>0, KeepsConservation, KeepsCount DEF IInv
<1> QED
  BY <1>1, <1>2, <1>3, <1>4 DEF IInv

LEMMA FlushStep == IInv /\ Flush => IInv'
<1> SUFFICES ASSUME IInv, Flush PROVE IInv'
  OBVIOUS
<1> USE DEF managerVars, mainVars, watchVars, workerVars, clientVars, logVars, signals
<1>1. TypeOK'
  BY DEF IInv, TypeOK, Flush
<1>2. (clientCount + backlog <= MaxClients)' /\ FdNumCovers' /\ Hands'
  BY DEF IInv, Flush, FdNumCovers, Hands
<1>3. Scans' /\ Terms' /\ Logs' /\ SoftExitDrains'
  BY DEF IInv, Flush, Scans, Terms, Logs, SoftExitDrains
<1>4. FdConservation' /\ ClientCountExact'
  BY KeepsConservation, KeepsCount DEF IInv, Flush
<1> QED
  BY <1>1, <1>2, <1>3, <1>4 DEF IInv

LEMMA ConnectStep == IInv /\ Connect => IInv'
<1> SUFFICES ASSUME IInv, Connect PROVE IInv'
  OBVIOUS
<1> USE DEF managerVars, mainVars, watchVars, workerVars, clientVars, logVars, signals
<1>0. backlog' \in 0 .. MaxClients /\ clientCount' + backlog' <= MaxClients
      /\ (backlog > 0 => backlog' > 0)
  BY SizesAssumption DEF IInv, TypeOK, Connect
<1>1. TypeOK'
  BY <1>0 DEF IInv, TypeOK, Connect
<1>2. FdNumCovers' /\ Hands'
  BY DEF IInv, Connect, FdNumCovers, Hands
<1>3. Scans' /\ Terms' /\ Logs' /\ SoftExitDrains'
  BY <1>0 DEF IInv, Connect, Scans, Terms, Logs, SoftExitDrains
<1>4. FdConservation' /\ ClientCountExact'
  BY KeepsConservation, KeepsCount DEF IInv, Connect
<1> QED
  BY <1>0, <1>1, <1>2, <1>3, <1>4 DEF IInv

LEMMA ClientSteps == IInv /\ (\E f \in Fds : Ask(f) \/ Leave(f) \/ Crash(f)) => IInv'
<1> SUFFICES ASSUME IInv, NEW f \in Fds, Ask(f) \/ Leave(f) \/ Crash(f) PROVE IInv'
  OBVIOUS
<1> USE DEF managerVars, mainVars, watchVars, workerVars, clientVars, logVars, signals
<1>0. PICK to \in {"asked", "left", "gone"} :
        /\ Alive
        /\ conn[f] \in {"thinking", "asked"}
        /\ conn' = [conn EXCEPT ![f] = to]
        /\ UNCHANGED <<managerVars, tasks, pipe, workerVars, parked, backlog, logVars,
                       signals>>
  BY DEF Ask, Leave, Crash, ClientStep
<1>f. \A g \in Fds : conn'[g] = "free" <=> conn[g] = "free"
  BY <1>0 DEF IInv, TypeOK
<1>1. TypeOK'
  BY <1>0 DEF IInv, TypeOK
<1>2. (clientCount + backlog <= MaxClients)' /\ FdNumCovers' /\ Hands'
  BY <1>0 DEF IInv, FdNumCovers, Hands
<1>3. Scans' /\ Terms' /\ Logs' /\ SoftExitDrains'
  BY <1>0, <1>f DEF IInv, Scans, Terms, Logs, SoftExitDrains
<1>4. FdConservation' /\ ClientCountExact'
  BY <1>0, <1>f, KeepsConservation, KeepsCount DEF IInv
<1> QED
  BY <1>1, <1>2, <1>3, <1>4 DEF IInv

LEMMA SignalSteps == IInv /\ (SigHup \/ SigInt) => IInv'
<1> SUFFICES ASSUME IInv, SigHup \/ SigInt PROVE IInv'
  OBVIOUS
<1> USE DEF mainVars, watchVars, workerVars, clientVars, logVars, signals
<1>0. /\ manager' = IF manager = "select" THEN "interrupted" ELSE manager
      /\ UNCHANGED <<watchVars, rset, clientCount, termsLeft, tasks, pipe, workerVars,
                     parked, clientVars, logVars>>
      /\ softExit' \in BOOLEAN /\ hardExit' \in BOOLEAN
      /\ ~ hardExit' => ~ hardExit
  BY DEF SigHup, SigInt, Interrupt, IInv, TypeOK
<1>1. TypeOK'
  BY <1>0 DEF IInv, TypeOK
<1>2. (clientCount + backlog <= MaxClients)' /\ FdNumCovers' /\ Hands'
  BY <1>0 DEF IInv, FdNumCovers, Hands
<1>3. Scans' /\ Terms' /\ Logs' /\ SoftExitDrains'
  BY <1>0 DEF IInv, Scans, Terms, Logs, SoftExitDrains, Running, Cleaning
<1>4. FdConservation' /\ ClientCountExact'
  BY <1>0, KeepsConservation, KeepsCount DEF IInv
<1> QED
  BY <1>1, <1>2, <1>3, <1>4 DEF IInv

-----------------------------------------------------------------------------
\* Steps of the scan

LEMMA LogEventKeeps ==
  ASSUME IInv, LogEvent
  PROVE  /\ flusher' = flusher
         /\ late' \in 0 .. LogCap
         /\ flusher = "running" => late' = late
BY SizesAssumption DEF IInv, TypeOK, LogEvent, logVars

LEMMA WatchTypes ==
  ASSUME IInv, NEW f \in Fds, Watch(f)
  PROVE  /\ setsave' = setsave \union {f}
         /\ setsave' \subseteq {PipeFd, SocketFd} \union Fds
         /\ fd_num' \in 0 .. MaxClients + 2
         /\ \A g \in setsave' : g <= fd_num'
<1>1. /\ setsave \subseteq {PipeFd, SocketFd} \union Fds /\ fd_num \in 0 .. MaxClients + 2
      /\ \A g \in setsave : g <= fd_num /\ g \in Int
  BY SizesAssumption DEF IInv, TypeOK, FdNumCovers, PipeFd, SocketFd, Fds
<1>2. f \in 0 .. MaxClients + 2
  BY SizesAssumption DEF Fds
<1>3. setsave' = setsave \union {f} /\ fd_num' = IF f > fd_num THEN f ELSE fd_num
  BY DEF Watch
<1>4. fd_num' \in 0 .. MaxClients + 2 /\ fd_num <= fd_num' /\ f <= fd_num'
  BY <1>1, <1>2, <1>3, SizesAssumption
<1>5. \A g \in setsave' : g <= fd_num'
  BY <1>1, <1>2, <1>3, <1>4, SizesAssumption
<1> QED
  BY <1>1, <1>3, <1>4, <1>5

LEMMA RewatchStep == IInv /\ Rewatch => IInv'
<1> SUFFICES ASSUME IInv, Rewatch PROVE IInv'
  OBVIOUS
<1> USE DEF mainVars, watchVars, workerVars, clientVars, logVars, signals, notManager
<1> DEFINE g == Head(pipe)
<1>1. /\ manager = "scan" /\ PipeFd \in rset /\ rset' = rset \ {PipeFd}
      /\ g # Left /\ Watch(g) /\ pipe' = Tail(pipe)
      /\ UNCHANGED <<mainVars, clientCount, tasks, notManager>>
  BY DEF Rewatch, Scan
<1>2. pipe \in Seq({Left} \union Fds) /\ pipe # <<>>
  BY <1>1 DEF IInv, TypeOK, Scans
<1>3. g \in Fds /\ pipe' \in Seq({Left} \union Fds)
  BY <1>1, <1>2, HeadTailProperties
<1> HIDE DEF g
<1>4. /\ setsave' = setsave \union {g}
      /\ setsave' \subseteq {PipeFd, SocketFd} \union Fds
      /\ fd_num' \in 0 .. MaxClients + 2
      /\ \A h \in setsave' : h <= fd_num'
  BY <1>1, <1>3, WatchTypes
<1>5. TypeOK'
  BY <1>1, <1>3, <1>4 DEF IInv, TypeOK
<1>6. (clientCount + backlog <= MaxClients)' /\ FdNumCovers' /\ Hands'
  BY <1>1, <1>4 DEF IInv, FdNumCovers, Hands
<1>7. Scans' /\ Terms' /\ Logs' /\ SoftExitDrains'
  BY <1>1 DEF IInv, Scans, Terms, Logs, SoftExitDrains, Running, Cleaning
<1>8. \A f : Cardinality(Places(pipe, f)) =
               Cardinality(Places(pipe', f)) + IF g = f THEN 1 ELSE 0
  BY <1>1, <1>2, PlacesTail DEF g
<1>9. \A f : Cardinality(Places(pipe', f)) \in Nat /\ Cardinality(Places(pipe, f)) \in Nat
  BY <1>2, <1>3, PlacesFinite
<1>10. FdConservation'
  <2> SUFFICES ASSUME NEW f \in Fds
               PROVE  Owners(f)' = IF conn[f] = "free" THEN 0 ELSE 1
    BY <1>1 DEF FdConservation
  <2>1. Owners(f) = IF conn[f] = "free" THEN 0 ELSE 1
    BY DEF IInv, FdConservation
  <2> DEFINE a == One(f \in setsave)
             a2 == One(f \in setsave')
             b == One(f \in parked)
             c == Cardinality(Places(tasks, f))
             d == Cardinality(Places(pipe, f))
             d2 == Cardinality(Places(pipe', f))
             e == Cardinality(Serving(rdy_fd, f))
             t == Cardinality(Telling(notifyList, f))
  <2>2. Owners(f) = a + b + c + d + e + t /\ Owners(f)' = a2 + b + c + d2 + e + t
    BY <1>1, OwnersAre DEF Total
  <2>3. a \in Nat /\ a2 \in Nat /\ b \in Nat /\ (f \in setsave => a = 1)
        /\ (f \notin setsave => a = 0) /\ (f \in setsave' => a2 = 1)
        /\ (f \notin setsave' => a2 = 0)
    BY DEF One
  <2>4. c \in Nat /\ d \in Nat /\ d2 \in Nat /\ e \in Nat /\ t \in Nat
    BY <1>9, CountTypes DEF IInv
  <2>5. d = d2 + IF g = f THEN 1 ELSE 0
    BY <1>8
  <2> HIDE DEF a, a2, b, c, d, d2, e, t
  <2>6. CASE g = f
    <3>1. d = d2 + 1 /\ a2 = 1
      BY <1>4, <2>3, <2>5, <2>6
    <3>2. a = 0 /\ Owners(f) = 1
      BY <2>1, <2>2, <2>3, <2>4, <3>1
    <3> QED
      BY <2>1, <2>2, <2>3, <2>4, <3>1, <3>2
  <2>7. CASE g # f
    <3>1. d = d2 /\ a2 = a
      BY <1>4, <2>3, <2>4, <2>5, <2>7
    <3> QED
      BY <2>1, <2>2, <3>1
  <2> QED
    BY <2>6, <2>7
<1>11. ClientCountExact'
  <2>1. Cardinality(Places(pipe', Left)) = Cardinality(Places(pipe, Left))
    BY <1>1, <1>8, <1>9 DEF g
  <2> QED
    BY <1>1, <2>1 DEF IInv, ClientCountExact, Places
<1> QED
  BY <1>5, <1>6, <1>7, <1>10, <1>11 DEF IInv

LEMMA CountLeftStep == IInv /\ CountLeft => IInv'
<1> SUFFICES ASSUME IInv, CountLeft PROVE IInv'
  OBVIOUS
<1> USE DEF mainVars, watchVars, workerVars, clientVars, signals
<1>1. /\ manager = "scan" /\ PipeFd \in rset /\ rset' = rset \ {PipeFd}
      /\ Head(pipe) = Left /\ pipe' = Tail(pipe)
      /\ LogEvent
      /\ clientCount' = clientCount - 1
      /\ IF clientCount' = 0 /\ softExit THEN CleanUp ELSE UNCHANGED mainVars
      /\ UNCHANGED <<watchVars, tasks, workerVars, parked, clientVars, signals>>
  BY DEF CountLeft, Scan, LastHasLeft
<1>2. pipe \in Seq({Left} \union Fds) /\ pipe # <<>>
  BY <1>1 DEF IInv, TypeOK, Scans
<1>3. pipe' \in Seq({Left} \union Fds)
  BY <1>1, <1>2, HeadTailProperties
<1>4. \A f : Cardinality(Places(pipe, f)) =
               Cardinality(Places(pipe', f)) + IF Left = f THEN 1 ELSE 0
  BY <1>1, <1>2, PlacesTail
<1>5. \A f : Cardinality(Places(pipe', f)) \in Nat /\ Cardinality(Places(pipe, f)) \in Nat
  BY <1>2, <1>3, PlacesFinite
<1>6. \A f \in Fds : f # Left
  BY SizesAssumption DEF Fds, Left
<1>7. \A f \in Fds : Cardinality(Places(pipe', f)) = Cardinality(Places(pipe, f))
  BY <1>4, <1>5, <1>6
<1>8. FdConservation'
  <2> SUFFICES ASSUME NEW f \in Fds
               PROVE  Owners(f)' = IF conn[f] = "free" THEN 0 ELSE 1
    BY <1>1 DEF FdConservation
  <2>1. Owners(f)' = Owners(f)
    BY <1>1, <1>7, OwnersAre DEF Total
  <2> QED
    BY <2>1 DEF IInv, FdConservation
<1> DEFINE n == Cardinality(InUse(conn))
           m == Cardinality(Places(pipe, Left))
           m2 == Cardinality(Places(pipe', Left))
           k == Cardinality(Closed(worker))
<1>9. clientCount = n + m + k /\ m = m2 + 1
  BY <1>4 DEF IInv, ClientCountExact, InUse, Places, Closed
<1>10. n \in Nat /\ m \in Nat /\ m2 \in Nat /\ k \in Nat
  BY <1>5, CountTypes DEF IInv
<1>11. ClientCountExact' <=> clientCount' = n + m2 + k
  BY <1>1 DEF ClientCountExact, InUse, Places, Closed
<1> HIDE DEF n, m, m2, k
<1>12. ClientCountExact' /\ clientCount' \in Nat /\ clientCount' <= clientCount
  BY <1>1, <1>9, <1>10, <1>11
<1>13. clientCount \in 0 .. MaxClients /\ backlog \in 0 .. MaxClients
       /\ clientCount + backlog <= MaxClients /\ MaxClients \in Nat
  BY SizesAssumption DEF IInv, TypeOK
<1>14. clientCount' \in 0 .. MaxClients /\ clientCount' + backlog' <= MaxClients
  BY <1>1, <1>12, <1>13
<1>15. /\ flusher' = flusher
       /\ late' \in 0 .. LogCap
       /\ flusher = "running" => late' = late
  BY <1>1, LogEventKeeps
<1>16. manager' \in {"clean", "scan"} /\ (manager' = "clean" => clientCount' = 0)
       /\ termsLeft' \in 0 .. Cardinality(Workers)
  BY <1>1, SizesAssumption, FS_CardinalityType DEF IInv, TypeOK, CleanUp
<1>17. TypeOK'
  BY <1>1, <1>3, <1>14, <1>15, <1>16 DEF IInv, TypeOK, Cleaning
<1>18. FdNumCovers' /\ Hands'
  BY <1>1, <1>16 DEF IInv, FdNumCovers, Hands
<1>19. clientCount' = 0 => Drained' /\ setsave' \intersect Fds = {}
  BY <1>8, <1>12, <1>17, <1>18, NobodyLeftThen
<1>20. Scans' /\ Terms' /\ Logs' /\ SoftExitDrains'
  <2>1. rset' \subseteq setsave'
    BY <1>17 DEF TypeOK
  <2>2. Scans'
    BY <1>1, <1>16, <1>19, <2>1 DEF IInv, Scans, Cleaning
  <2>3. Terms' /\ Logs'
    BY <1>1, <1>15, <1>16 DEF IInv, Terms, Logs, Running
  <2>4. flusher = "running" /\ late = 0
    BY <1>1 DEF IInv, Logs, Running
  <2>5. SoftExitDrains'
    BY <1>15, <1>16, <1>19, <2>4 DEF SoftExitDrains, Drained, Cleaning
  <2> QED
    BY <2>2, <2>3, <2>5
<1> QED
  BY <1>8, <1>12, <1>14, <1>17, <1>18, <1>20 DEF IInv

LEMMA AcceptStep == IInv /\ Accept => IInv'
<1> SUFFICES ASSUME IInv, Accept PROVE IInv'
  OBVIOUS
<1> USE DEF mainVars, watchVars, workerVars, signals
<1>1. PICK f \in Fds :
        /\ conn[f] = "free"
        /\ conn' = [conn EXCEPT ![f] = "thinking"]
        /\ Watch(f)
  BY DEF Accept
<1>2. /\ manager = "scan" /\ SocketFd \in rset /\ rset' = rset \ {SocketFd}
      /\ LogEvent
      /\ backlog' = backlog - 1
      /\ clientCount' = clientCount + 1
      /\ UNCHANGED <<mainVars, tasks, pipe, workerVars, parked, signals>>
  BY DEF Accept, Scan
<1>3. /\ setsave' = setsave \union {f}
      /\ setsave' \subseteq {PipeFd, SocketFd} \union Fds
      /\ fd_num' \in 0 .. MaxClients + 2
      /\ \A h \in setsave' : h <= fd_num'
  BY <1>1, WatchTypes
<1>4. /\ flusher' = flusher
      /\ late' \in 0 .. LogCap
      /\ flusher = "running" => late' = late
  BY <1>2, LogEventKeeps
<1>5. backlog > 0 /\ backlog \in 0 .. MaxClients /\ clientCount \in 0 .. MaxClients
      /\ clientCount + backlog <= MaxClients /\ MaxClients \in Nat
  BY <1>2, SizesAssumption DEF IInv, TypeOK, Scans
<1>6. backlog' \in 0 .. MaxClients /\ clientCount' \in 0 .. MaxClients
      /\ clientCount' + backlog' <= MaxClients
  BY <1>2, <1>5
<1>7. conn' \in [Fds -> {"free", "thinking", "asked", "left", "gone"}]
      /\ \A g \in Fds \ {f} : conn'[g] = conn[g]
  BY <1>1 DEF IInv, TypeOK
<1>c. conn'[f] = "thinking"
  BY <1>1 DEF IInv, TypeOK
<1>8. TypeOK'
  BY <1>2, <1>3, <1>4, <1>6, <1>7 DEF IInv, TypeOK
<1>9. FdNumCovers' /\ Hands'
  BY <1>2, <1>3 DEF IInv, FdNumCovers, Hands
<1>10. Scans' /\ Terms' /\ Logs' /\ SoftExitDrains'
  BY <1>2, <1>4 DEF IInv, Scans, Terms, Logs, SoftExitDrains, Running, Cleaning
<1>11. FdConservation'
  <2> SUFFICES ASSUME NEW g \in Fds
               PROVE  Owners(g)' = IF conn'[g] = "free" THEN 0 ELSE 1
    BY DEF FdConservation
  <2>1. Owners(g) = IF conn[g] = "free" THEN 0 ELSE 1
    BY DEF IInv, FdConservation
  <2> DEFINE a == One(g \in setsave)
             a2 == One(g \in setsave')
             b == One(g \in parked)
             c == Cardinality(Places(tasks, g))
             d == Cardinality(Places(pipe, g))
             e == Cardinality(Serving(rdy_fd, g))
             t == Cardinality(Telling(notifyList, g))
  <2>2. Owners(g) = a + b + c + d + e + t /\ Owners(g)' = a2 + b + c + d + e + t
    BY <1>2, OwnersAre DEF Total
  <2>3. a \in Nat /\ a2 \in Nat /\ b \in Nat /\ (g = f => a2 = 1) /\ (g # f => a2 = a)
    BY <1>3 DEF One
  <2>4. c \in Nat /\ d \in Nat /\ e \in Nat /\ t \in Nat
    BY CountTypes DEF IInv
  <2> HIDE DEF a, a2, b, c, d, e, t
  <2>5. CASE g = f
    <3>1. a + b + c + d + e + t = 0 /\ a2 = 1
      BY <1>1, <2>1, <2>2, <2>3, <2>5
    <3>2. a2 + b + c + d + e + t = 1
      BY <2>3, <2>4, <3>1
    <3> QED
      BY <1>c, <2>2, <2>5, <3>2
  <2>6. CASE g # f
    BY <1>7, <2>1, <2>2, <2>3, <2>6
  <2> QED
    BY <2>5, <2>6
<1>12. ClientCountExact'
  <2> DEFINE n == Cardinality(InUse(conn))
             n2 == Cardinality(InUse(conn'))
             m == Cardinality(Places(pipe, Left))
             k == Cardinality(Closed(worker))
  <2>1. n \in Nat /\ n2 \in Nat
        /\ n2 + One(conn[f] # "free") = n + One(conn'[f] # "free")
    BY <1>7, InUseChange
  <2>2. One(conn[f] # "free") = 0 /\ One(conn'[f] # "free") = 1
    BY <1>1, <1>c DEF One
  <2>3. clientCount = n + m + k
    BY DEF IInv, ClientCountExact, InUse, Places, Closed
  <2>4. m \in Nat /\ k \in Nat
    BY CountTypes DEF IInv
  <2>5. ClientCountExact' <=> clientCount' = n2 + m + k
    BY <1>2 DEF ClientCountExact, InUse, Places, Closed
  <2> HIDE DEF n, n2, m, k
  <2> QED
    BY <1>2, <2>1, <2>2, <2>3, <2>4, <2>5
<1> QED
  BY <1>6, <1>8, <1>9, <1>10, <1>11, <1>12 DEF IInv

LEMMA RejectStep == IInv /\ Reject => IInv'
<1> SUFFICES ASSUME IInv, Reject PROVE IInv'
  OBVIOUS
<1> USE DEF mainVars, watchVars, workerVars, logVars, signals
<1>1. /\ manager = "scan" /\ SocketFd \in rset /\ rset' = rset \ {SocketFd}
      /\ backlog' = backlog - 1
      /\ UNCHANGED <<mainVars, watchVars, clientCount, tasks, pipe, workerVars, parked,
                     conn, logVars, signals>>
  BY DEF Reject, Scan
<1>2. backlog > 0 /\ backlog \in 0 .. MaxClients /\ clientCount \in 0 .. MaxClients
      /\ clientCount + backlog <= MaxClients /\ MaxClients \in Nat
  BY <1>1, SizesAssumption DEF IInv, TypeOK, Scans
<1>3. backlog' \in 0 .. MaxClients /\ clientCount' + backlog' <= MaxClients
  BY <1>1, <1>2
<1>4. TypeOK'
  BY <1>1, <1>3 DEF IInv, TypeOK
<1>5. FdNumCovers' /\ Hands'
  BY <1>1 DEF IInv, FdNumCovers, Hands
<1>6. Scans' /\ Terms' /\ Logs' /\ SoftExitDrains'
  BY <1>1 DEF IInv, Scans, Terms, Logs, SoftExitDrains, Running, Cleaning
<1>7. FdConservation' /\ ClientCountExact'
  BY <1>1, KeepsConservation, KeepsCount DEF IInv
<1> QED
  BY <1>3, <1>4, <1>5, <1>6, <1>7 DEF IInv

LEMMA DispatchStep == IInv /\ (\E f \in Fds : Dispatch(f)) => IInv'
<1> SUFFICES ASSUME IInv, NEW f \in Fds, Dispatch(f) PROVE IInv'
  OBVIOUS
<1> USE DEF mainVars, watchVars, workerVars, clientVars, logVars, signals, notManager
<1>1. /\ manager = "scan" /\ f \in rset /\ rset' = rset \ {f}
      /\ setsave' = setsave \ {f}
      /\ fd_num' = IF f = fd_num THEN fd_num - 1 ELSE fd_num
      /\ tasks' = Append(tasks, f)
      /\ UNCHANGED <<mainVars, clientCount, pipe, notManager>>
  BY DEF Dispatch, Scan, Unwatch
<1>2. tasks \in Seq({Term} \union Fds) /\ f \in {Term} \union Fds /\ f # Term
      /\ Len(tasks) \in Nat
  BY SizesAssumption, LenProperties DEF IInv, TypeOK, Term, Fds
<1>3. /\ tasks' \in Seq({Term} \union Fds) /\ Len(tasks') = Len(tasks) + 1
      /\ \A k \in 1 .. Len(tasks) : tasks'[k] = tasks[k]
      /\ tasks'[Len(tasks) + 1] = f
  BY <1>1, <1>2, AppendProperties
<1>4. fd_num' \in 0 .. MaxClients + 2 /\ \A g \in setsave' : g <= fd_num'
  <2>1. /\ \A g \in setsave : g <= fd_num /\ g \in Int
        /\ fd_num \in 0 .. MaxClients + 2 /\ MaxClients \in Nat
        /\ f \in Nat /\ f >= 3
    BY SizesAssumption DEF IInv, TypeOK, FdNumCovers, PipeFd, SocketFd, Fds
  <2>2. CASE f = fd_num
    BY <1>1, <2>1, <2>2
  <2>3. CASE f # fd_num
    BY <1>1, <2>1, <2>3
  <2> QED
    BY <2>2, <2>3
<1>5. TypeOK'
  BY <1>1, <1>3, <1>4 DEF IInv, TypeOK
<1>6. (clientCount + backlog <= MaxClients)' /\ FdNumCovers' /\ Hands'
  BY <1>1, <1>4 DEF IInv, FdNumCovers, Hands
<1>7. Scans' /\ Logs' /\ SoftExitDrains'
  BY <1>1 DEF IInv, Scans, Logs, SoftExitDrains, Running, Cleaning
<1>8. Terms'
  <2>1. \A k \in 1 .. Len(tasks) : tasks[k] # Term
    BY <1>1 DEF IInv, Terms, Running
  <2>2. \A k \in 1 .. Len(tasks') : tasks'[k] # Term
    BY <1>2, <1>3, <2>1
  <2> QED
    BY <2>2 DEF Terms
<1>9. FdConservation'
  <2> SUFFICES ASSUME NEW g \in Fds
               PROVE  Owners(g)' = IF conn[g] = "free" THEN 0 ELSE 1
    BY <1>1 DEF FdConservation
  <2>1. Owners(g) = IF conn[g] = "free" THEN 0 ELSE 1
    BY DEF IInv, FdConservation
  <2> DEFINE a == One(g \in setsave)
             a2 == One(g \in setsave')
             b == One(g \in parked)
             c == Cardinality(Places(tasks, g))
             c2 == Cardinality(Places(tasks', g))
             d == Cardinality(Places(pipe, g))
             e == Cardinality(Serving(rdy_fd, g))
             t == Cardinality(Telling(notifyList, g))
  <2>2. Owners(g) = a + b + c + d + e + t /\ Owners(g)' = a2 + b + c2 + d + e + t
    BY <1>1, OwnersAre DEF Total
  <2>3. f \in setsave
    BY <1>1 DEF IInv, TypeOK
  <2>4. a \in Nat /\ a2 \in Nat /\ b \in Nat
        /\ (g = f => a = 1 /\ a2 = 0) /\ (g # f => a2 = a)
    BY <1>1, <2>3 DEF One
  <2>5. c \in Nat /\ d \in Nat /\ e \in Nat /\ t \in Nat
    BY CountTypes DEF IInv
  <2>6. c2 = c + IF f = g THEN 1 ELSE 0
    BY <1>1, <1>2, PlacesAppend
  <2> HIDE DEF a, a2, b, c, c2, d, e, t
  <2>7. a2 + c2 = a + c
    BY <2>4, <2>5, <2>6
  <2>8. c2 \in Nat
    BY <2>5, <2>6
  <2> QED
    BY <2>1, <2>2, <2>4, <2>5, <2>7, <2>8
<1>10. ClientCountExact'
  BY <1>1, KeepsCount DEF IInv
<1> QED
  BY <1>5, <1>6, <1>7, <1>8, <1>9, <1>10 DEF IInv

-----------------------------------------------------------------------------
\* Steps of the workers

\* What one worker does to where f is balances.
LEMMA Balanced ==
  ASSUME IInv, NEW w \in Workers, NEW f \in Fds, setsave' = setsave,
         tasks' \in Seq({Term} \union Fds), pipe' \in Seq({Left} \union Fds),
         \A v \in Workers \ {w} : rdy_fd'[v] = rdy_fd[v],
         \A v \in Workers \ {w} : notifyList'[v] = notifyList[v],
         One(f \in parked') + Cardinality(Places(tasks', f)) + Cardinality(Places(pipe', f))
             + One(rdy_fd'[w] = f) + One(f \in notifyList'[w]) + One(conn[f] # "free")
           = One(f \in parked) + Cardinality(Places(tasks, f)) + Cardinality(Places(pipe, f))
               + One(rdy_fd[w] = f) + One(f \in notifyList[w]) + One(conn'[f] # "free")
  PROVE  Owners(f)' = IF conn'[f] = "free" THEN 0 ELSE 1
<1> DEFINE a == One(f \in setsave)
           b == One(f \in parked)
           c == Cardinality(Places(tasks, f))
           d == Cardinality(Places(pipe, f))
           e == Cardinality(Serving(rdy_fd, f))
           t == Cardinality(Telling(notifyList, f))
           b2 == One(f \in parked')
           c2 == Cardinality(Places(tasks', f))
           d2 == Cardinality(Places(pipe', f))
           e2 == Cardinality(Serving(rdy_fd', f))
           t2 == Cardinality(Telling(notifyList', f))
           r == One(rdy_fd[w] = f)
           r2 == One(rdy_fd'[w] = f)
           n == One(f \in notifyList[w])
           n2 == One(f \in notifyList'[w])
           o == One(conn[f] # "free")
           o2 == One(conn'[f] # "free")
<1>1. Owners(f) = a + b + c + d + e + t /\ Owners(f)' = a + b2 + c2 + d2 + e2 + t2
  BY OwnersAre DEF Total
<1>2. e \in Nat /\ e2 \in Nat /\ e2 + r = e + r2
  BY ServingChange
<1>3. t \in Nat /\ t2 \in Nat /\ t2 + n = t + n2
  BY TellingChange
<1>4. c \in Nat /\ d \in Nat /\ c2 \in Nat /\ d2 \in Nat
  BY PlacesFinite DEF IInv, TypeOK
<1>5. /\ a \in Nat /\ b \in Nat /\ b2 \in Nat /\ r \in Nat /\ r2 \in Nat
      /\ n \in Nat /\ n2 \in Nat /\ o \in Nat /\ o2 \in Nat
  BY DEF One
<1>6. b2 + c2 + d2 + r2 + n2 + o = b + c + d + r + n + o2
  OBVIOUS
<1>7. Owners(f) = o
  BY DEF IInv, FdConservation, One
<1>8. o2 = IF conn'[f] = "free" THEN 0 ELSE 1
  BY DEF One
<1> HIDE DEF a, b, c, d, e, t, b2, c2, d2, e2, t2, r, r2, n, n2, o, o2
<1>9. Owners(f)' = o2
  BY <1>1, <1>2, <1>3, <1>4, <1>5, <1>6, <1>7
<1> QED
  BY <1>8, <1>9

\* And to who is counted.
LEMMA Counted ==
  ASSUME IInv, NEW w \in Workers, NEW f \in Fds, clientCount' = clientCount,
         pipe' \in Seq({Left} \union Fds),
         \A v \in Workers \ {w} : worker'[v] = worker[v],
         \A g \in Fds \ {f} : conn'[g] = conn[g],
         One(conn'[f] # "free") + Cardinality(Places(pipe', Left)) + One(worker'[w] = "closed")
           = One(conn[f] # "free") + Cardinality(Places(pipe, Left)) + One(worker[w] = "closed")
  PROVE  ClientCountExact'
<1> DEFINE n == Cardinality(InUse(conn))
           m == Cardinality(Places(pipe, Left))
           k == Cardinality(Closed(worker))
           n2 == Cardinality(InUse(conn'))
           m2 == Cardinality(Places(pipe', Left))
           k2 == Cardinality(Closed(worker'))
           o == One(conn[f] # "free")
           o2 == One(conn'[f] # "free")
           c == One(worker[w] = "closed")
           c2 == One(worker'[w] = "closed")
<1>1. clientCount = n + m + k
  BY DEF IInv, ClientCountExact, InUse, Places, Closed
<1>2. ClientCountExact' <=> clientCount = n2 + m2 + k2
  BY DEF ClientCountExact, InUse, Places, Closed
<1>3. n \in Nat /\ n2 \in Nat /\ n2 + o = n + o2
  BY InUseChange
<1>4. k \in Nat /\ k2 \in Nat /\ k2 + c = k + c2
  BY ClosedChange
<1>5. m \in Nat /\ m2 \in Nat
  BY PlacesFinite DEF IInv, TypeOK
<1>6. o \in Nat /\ o2 \in Nat /\ c \in Nat /\ c2 \in Nat
  BY DEF One
<1>7. o2 + m2 + c2 = o + m + c
  OBVIOUS
<1> HIDE DEF n, m, k, n2, m2, k2, o, o2, c, c2
<1> QED
  BY <1>1, <1>2, <1>3, <1>4, <1>5, <1>6, <1>7

\* A worker that is serving, or has something to pass on, is not there once the
\* server winds up by itself.
LEMMA Busy ==
  ASSUME IInv, NEW w \in Workers, worker[w] \in {"serving", "answered", "closed"}
  PROVE  manager \in Cleaning => hardExit
BY DEF IInv, SoftExitDrains

\* The descriptor a worker serves has a client, and does not wait for a lock.
LEMMA InHand ==
  ASSUME IInv, NEW w \in Workers, rdy_fd[w] \in Fds
  PROVE  rdy_fd[w] \notin parked /\ conn[rdy_fd[w]] # "free"
<1> DEFINE f == rdy_fd[w]
           a == One(f \in setsave)
           b == One(f \in parked)
           c == Cardinality(Places(tasks, f))
           d == Cardinality(Places(pipe, f))
           e == Cardinality(Serving(rdy_fd, f))
           t == Cardinality(Telling(notifyList, f))
<1>1. a + b + c + d + e + t = IF conn[f] = "free" THEN 0 ELSE 1
  BY OwnersAre DEF IInv, FdConservation, Total
<1>2. c \in Nat /\ d \in Nat /\ e \in Nat /\ t \in Nat
  BY CountTypes DEF IInv
<1>3. IsFiniteSet(Serving(rdy_fd, f)) /\ Serving(rdy_fd, f) # {}
  BY SizesAssumption, FS_Subset DEF Serving
<1>4. e # 0
  BY <1>3, FS_EmptySet
<1>5. a \in Nat /\ b \in Nat /\ (f \in parked => b = 1)
  BY DEF One
<1> HIDE DEF a, b, c, d, e, t
<1>6. conn[f] # "free"
  BY <1>1, <1>2, <1>4, <1>5
<1>7. f \notin parked
  BY <1>1, <1>2, <1>4, <1>5, <1>6
<1> QED
  BY <1>6, <1>7

\* A client that is about to be told is there, and waits no longer.
LEMMA ToBeTold ==
  ASSUME IInv, NEW w \in Workers, NEW f \in notifyList[w], f \in Fds
  PROVE  conn[f] # "free"
<1> DEFINE a == One(f \in setsave)
           b == One(f \in parked)
           c == Cardinality(Places(tasks, f))
           d == Cardinality(Places(pipe, f))
           e == Cardinality(Serving(rdy_fd, f))
           t == Cardinality(Telling(notifyList, f))
<1>1. a + b + c + d + e + t = IF conn[f] = "free" THEN 0 ELSE 1
  BY OwnersAre DEF IInv, FdConservation, Total
<1>2. c \in Nat /\ d \in Nat /\ e \in Nat /\ t \in Nat
  BY CountTypes DEF IInv
<1>3. IsFiniteSet(Telling(notifyList, f)) /\ Telling(notifyList, f) # {}
  BY SizesAssumption, FS_Subset DEF Telling
<1>4. t # 0
  BY <1>3, FS_EmptySet
<1>5. a \in Nat /\ b \in Nat
  BY DEF One
<1> HIDE DEF a, b, c, d, e, t
<1> QED
  BY <1>1, <1>2, <1>4, <1>5

LEMMA ParkStep == IInv /\ (\E w \in Workers : Park(w)) => IInv'
<1> SUFFICES ASSUME IInv, NEW w \in Workers, Park(w) PROVE IInv'
  OBVIOUS
<1> USE DEF managerVars, mainVars, watchVars, clientVars, signals
<1>1. /\ Alive /\ worker[w] = "serving"
      /\ parked' = parked \union {rdy_fd[w]} /\ LogEvent
      /\ worker' = [worker EXCEPT ![w] = "idle"]
      /\ rdy_fd' = [rdy_fd EXCEPT ![w] = NoFd]
      /\ UNCHANGED <<managerVars, tasks, pipe, notifyList, clientVars, signals>>
  BY DEF Park, Asking
<1>2. /\ flusher' = flusher
      /\ late' \in 0 .. LogCap
      /\ flusher = "running" => late' = late
  BY <1>1, LogEventKeeps
<1>3. rdy_fd[w] # NoFd /\ rdy_fd[w] \in Fds /\ notifyList[w] = {}
  BY <1>1 DEF IInv, Hands, TypeOK
<1>4. /\ worker'[w] = "idle" /\ rdy_fd'[w] = NoFd
      /\ \A v \in Workers \ {w} : worker'[v] = worker[v] /\ rdy_fd'[v] = rdy_fd[v]
  BY <1>1 DEF IInv, TypeOK
<1>5. TypeOK'
  BY <1>1, <1>2, <1>3 DEF IInv, TypeOK
<1>6. (clientCount + backlog <= MaxClients)' /\ FdNumCovers' /\ Hands'
  BY <1>1, <1>3, <1>4 DEF IInv, FdNumCovers, Hands
<1>7. Scans' /\ Terms' /\ Logs'
  BY <1>1, <1>2 DEF IInv, Scans, Terms, Logs, Running
<1>8. SoftExitDrains'
  BY <1>1, Busy DEF SoftExitDrains
<1>9. FdConservation'
  <2> SUFFICES ASSUME NEW f \in Fds
               PROVE  Owners(f)' = IF conn'[f] = "free" THEN 0 ELSE 1
    BY DEF FdConservation
  <2>0. f # NoFd
    BY SizesAssumption DEF Fds, NoFd
  <2>1. tasks' \in Seq({Term} \union Fds) /\ pipe' \in Seq({Left} \union Fds)
    BY <1>5 DEF TypeOK
  <2>2. CASE rdy_fd[w] = f
    <3>1. f \notin parked
      BY <1>3, <2>2, InHand
    <3>2. /\ One(f \in parked') = 1 /\ One(f \in parked) = 0
          /\ One(rdy_fd'[w] = f) = 0 /\ One(rdy_fd[w] = f) = 1
      BY <1>1, <1>4, <2>0, <2>2, <3>1 DEF One
    <3>3. UNCHANGED <<setsave, tasks, pipe, notifyList, conn>>
      BY <1>1
    <3>4. /\ Cardinality(Places(tasks, f)) \in Nat /\ Cardinality(Places(pipe, f)) \in Nat
          /\ One(f \in notifyList[w]) \in Nat /\ One(conn[f] # "free") \in Nat
      BY CountTypes DEF IInv, One
    <3> QED
      BY <1>4, <2>1, <3>2, <3>3, <3>4, Balanced
  <2>3. CASE rdy_fd[w] # f
    <3>1. /\ (f \in parked') <=> (f \in parked)
          /\ (rdy_fd'[w] = f) <=> (rdy_fd[w] = f)
      BY <1>1, <1>4, <2>0, <2>3
    <3>2. One(f \in parked') = One(f \in parked) /\ One(rdy_fd'[w] = f) = One(rdy_fd[w] = f)
      BY <3>1 DEF One
    <3>3. UNCHANGED <<setsave, tasks, pipe, notifyList, conn>>
      BY <1>1
    <3> QED
      BY <1>4, <2>1, <3>2, <3>3, Balanced
  <2> QED
    BY <2>2, <2>3
<1>10. ClientCountExact'
  <2>1. \A v \in Workers : worker'[v] = "closed" <=> worker[v] = "closed"
    BY <1>1, <1>4
  <2> QED
    BY <1>1, <2>1, KeepsCount DEF IInv
<1> QED
  BY <1>5, <1>6, <1>7, <1>8, <1>9, <1>10 DEF IInv

LEMMA DequeueStep == IInv /\ (\E w \in Workers : Dequeue(w)) => IInv'
<1> SUFFICES ASSUME IInv, NEW w \in Workers, Dequeue(w) PROVE IInv'
  OBVIOUS
<1> USE DEF managerVars, mainVars, watchVars, clientVars, logVars, signals
<1> DEFINE h == Head(tasks)
<1>1. /\ Alive /\ worker[w] = "idle" /\ tasks # <<>> /\ tasks' = Tail(tasks)
      /\ IF h = Term
           THEN worker' = [worker EXCEPT ![w] = "ended"] /\ UNCHANGED rdy_fd
           ELSE /\ worker' = [worker EXCEPT ![w] = "serving"]
                /\ rdy_fd' = [rdy_fd EXCEPT ![w] = h]
      /\ UNCHANGED <<managerVars, pipe, notifyList, parked, clientVars, logVars, signals>>
  BY DEF Dequeue
<1>2. tasks \in Seq({Term} \union Fds)
  BY DEF IInv, TypeOK
<1>3. /\ h \in {Term} \union Fds /\ tasks' \in Seq({Term} \union Fds)
      /\ h = tasks[1] /\ Len(tasks) \in Nat \ {0} /\ Len(tasks') = Len(tasks) - 1
      /\ \A k \in 1 .. Len(tasks') : tasks'[k] = tasks[k + 1]
      /\ DOMAIN tasks = 1 .. Len(tasks) /\ DOMAIN tasks' = 1 .. Len(tasks')
  BY <1>1, <1>2, HeadTailProperties, LenProperties
<1>4. rdy_fd[w] = NoFd /\ notifyList[w] = {}
  BY <1>1 DEF IInv, Hands
<1>5. /\ worker'[w] = IF h = Term THEN "ended" ELSE "serving"
      /\ rdy_fd'[w] = IF h = Term THEN NoFd ELSE h
      /\ \A v \in Workers \ {w} : worker'[v] = worker[v] /\ rdy_fd'[v] = rdy_fd[v]
  BY <1>1, <1>4 DEF IInv, TypeOK
<1>6. \A f \in Fds : f # NoFd /\ f # Term
  BY SizesAssumption DEF Fds, NoFd, Term
<1> HIDE DEF h
<1>7. TypeOK'
  <2>1. rdy_fd' \in [Workers -> {NoFd} \union Fds]
    BY <1>1, <1>3 DEF IInv, TypeOK
  <2>2. worker' \in [Workers -> {"idle", "serving", "answered", "closed", "ended"}]
    BY <1>1 DEF IInv, TypeOK
  <2> QED
    BY <1>1, <1>3, <2>1, <2>2 DEF IInv, TypeOK
<1>8. (clientCount + backlog <= MaxClients)' /\ FdNumCovers' /\ Hands'
  <2>1. (clientCount + backlog <= MaxClients)' /\ FdNumCovers'
    BY <1>1 DEF IInv, FdNumCovers
  <2>2. Hands'
    BY <1>1, <1>3, <1>4, <1>5, <1>6 DEF IInv, Hands
  <2> QED
    BY <2>1, <2>2
<1>9. Scans' /\ Logs'
  BY <1>1 DEF IInv, Scans, Logs, Running
<1>10. Terms'
  <2> SUFFICES ASSUME rset' \intersect Fds # {} \/ manager' \in Running,
                      NEW k \in 1 .. Len(tasks')
               PROVE  tasks'[k] # Term
    BY DEF Terms
  <2>1. \A i \in 1 .. Len(tasks) : tasks[i] # Term
    BY <1>1 DEF IInv, Terms
  <2>2. k + 1 \in 1 .. Len(tasks)
    BY <1>3
  <2> QED
    BY <1>3, <2>1, <2>2
<1>11. SoftExitDrains'
  <2> SUFFICES ASSUME manager' \in Cleaning, ~ hardExit' PROVE SoftExitDrains'
    BY DEF SoftExitDrains
  <2>1. /\ \A f \in Fds : conn[f] = "free"
        /\ parked = {} /\ \A k \in DOMAIN tasks : tasks[k] = Term
        /\ \A v \in Workers : worker[v] \in {"idle", "ended"}
        /\ late = 0
    BY <1>1 DEF IInv, SoftExitDrains
  <2>2. h = Term
    BY <1>3, <2>1
  <2>3. \A k \in DOMAIN tasks' : tasks'[k] = Term
    BY <1>3, <2>1
  <2>4. \A v \in Workers : worker'[v] \in {"idle", "ended"}
    BY <1>5, <2>1, <2>2
  <2> QED
    BY <1>1, <2>1, <2>3, <2>4 DEF SoftExitDrains
<1>12. FdConservation'
  <2> SUFFICES ASSUME NEW f \in Fds
               PROVE  Owners(f)' = IF conn'[f] = "free" THEN 0 ELSE 1
    BY DEF FdConservation
  <2> DEFINE c == Cardinality(Places(tasks, f))
             c2 == Cardinality(Places(tasks', f))
             r == One(rdy_fd[w] = f)
             r2 == One(rdy_fd'[w] = f)
             b == One(f \in parked)
             d == Cardinality(Places(pipe, f))
             n == One(f \in notifyList[w])
             o == One(conn[f] # "free")
  <2>1. c = c2 + IF h = f THEN 1 ELSE 0
    BY <1>1, <1>2, PlacesTail DEF h
  <2>2. r = 0 /\ (h = f => r2 = 1) /\ (h # f => r2 = 0)
    BY <1>4, <1>5, <1>6 DEF One
  <2>3. c \in Nat /\ c2 \in Nat /\ d \in Nat
    BY <1>3, CountTypes, PlacesFinite DEF IInv
  <2>4. b \in Nat /\ n \in Nat /\ o \in Nat
    BY DEF One
  <2>5. pipe' \in Seq({Left} \union Fds)
    BY <1>7 DEF TypeOK
  <2>6. UNCHANGED <<setsave, parked, pipe, notifyList, conn>>
    BY <1>1
  <2>7. b + c2 + d + r2 + n + o = b + c + d + r + n + o
    <3> HIDE DEF b, c, c2, d, r, r2, n, o
    <3>1. CASE h = f
      BY <2>1, <2>2, <2>3, <2>4, <3>1
    <3>2. CASE h # f
      BY <2>1, <2>2, <2>3, <2>4, <3>2
    <3> QED
      BY <3>1, <3>2
  <2> QED
    BY <1>3, <1>5, <2>5, <2>6, <2>7, Balanced
<1>13. ClientCountExact'
  <2>1. \A v \in Workers : worker'[v] = "closed" <=> worker[v] = "closed"
    BY <1>1, <1>5
  <2> QED
    BY <1>1, <2>1, KeepsCount DEF IInv
<1> QED
  BY <1>7, <1>8, <1>9, <1>10, <1>11, <1>12, <1>13 DEF IInv

LEMMA PutBackStep == IInv /\ (\E w \in Workers : PutBack(w)) => IInv'
<1> SUFFICES ASSUME IInv, NEW w \in Workers, PutBack(w) PROVE IInv'
  OBVIOUS
<1> USE DEF managerVars, mainVars, watchVars, clientVars, logVars, signals
<1> DEFINE g == IF worker[w] = "answered" THEN rdy_fd[w] ELSE Left
<1>1. /\ Alive /\ worker[w] \in {"answered", "closed"} /\ notifyList[w] = {}
      /\ pipe' = Append(pipe, g)
      /\ worker' = [worker EXCEPT ![w] = "idle"]
      /\ rdy_fd' = [rdy_fd EXCEPT ![w] = NoFd]
      /\ UNCHANGED <<managerVars, tasks, notifyList, parked, clientVars, logVars, signals>>
  BY DEF PutBack, GiveBack
<1>2. /\ worker[w] = "answered" => rdy_fd[w] \in Fds
      /\ worker[w] = "closed" => rdy_fd[w] = NoFd
  BY DEF IInv, Hands, TypeOK
<1>3. /\ worker'[w] = "idle" /\ rdy_fd'[w] = NoFd
      /\ \A v \in Workers \ {w} : worker'[v] = worker[v] /\ rdy_fd'[v] = rdy_fd[v]
  BY <1>1 DEF IInv, TypeOK
<1>4. \A f \in Fds : f # NoFd /\ f # Left
  BY SizesAssumption DEF Fds, NoFd, Left
<1>5. /\ g \in {Left} \union Fds
      /\ worker[w] = "closed" => g = Left
      /\ worker[w] = "answered" => g = rdy_fd[w] /\ g \in Fds /\ g # Left
  BY <1>2, <1>4
<1> HIDE DEF g
<1>6. pipe \in Seq({Left} \union Fds)
  BY DEF IInv, TypeOK
<1>7. pipe' \in Seq({Left} \union Fds) /\ pipe' # <<>>
  BY <1>1, <1>5, <1>6, AppendProperties
<1>8. TypeOK'
  BY <1>1, <1>7 DEF IInv, TypeOK
<1>9. (clientCount + backlog <= MaxClients)' /\ FdNumCovers' /\ Hands'
  BY <1>1, <1>3 DEF IInv, FdNumCovers, Hands
<1>10. Scans' /\ Terms' /\ Logs'
  BY <1>1, <1>7 DEF IInv, Scans, Terms, Logs, Running
<1>11. SoftExitDrains'
  BY <1>1, Busy DEF SoftExitDrains
<1>12. \A f : Cardinality(Places(pipe', f)) =
                Cardinality(Places(pipe, f)) + IF g = f THEN 1 ELSE 0
  BY <1>1, <1>5, <1>6, PlacesAppend
<1>13. FdConservation'
  <2> SUFFICES ASSUME NEW f \in Fds
               PROVE  Owners(f)' = IF conn'[f] = "free" THEN 0 ELSE 1
    BY DEF FdConservation
  <2> DEFINE c == Cardinality(Places(tasks, f))
             r == One(rdy_fd[w] = f)
             r2 == One(rdy_fd'[w] = f)
             b == One(f \in parked)
             d == Cardinality(Places(pipe, f))
             d2 == Cardinality(Places(pipe', f))
             n == One(f \in notifyList[w])
             o == One(conn[f] # "free")
  <2>1. d2 = d + IF g = f THEN 1 ELSE 0
    BY <1>12
  <2>2. r2 = 0 /\ (g = f => r = 1) /\ (g # f => r = 0)
    BY <1>1, <1>2, <1>3, <1>4, <1>5 DEF One
  <2>3. c \in Nat /\ d \in Nat
    BY CountTypes DEF IInv
  <2>4. b \in Nat /\ n \in Nat /\ o \in Nat
    BY DEF One
  <2>5. tasks' \in Seq({Term} \union Fds)
    BY <1>8 DEF TypeOK
  <2>6. UNCHANGED <<setsave, parked, tasks, notifyList, conn>>
    BY <1>1
  <2>7. b + c + d2 + r2 + n + o = b + c + d + r + n + o
    <3> HIDE DEF b, c, d, d2, r, r2, n, o
    <3>1. CASE g = f
      BY <2>1, <2>2, <2>3, <2>4, <3>1
    <3>2. CASE g # f
      BY <2>1, <2>2, <2>3, <2>4, <3>2
    <3> QED
      BY <3>1, <3>2
  <2> QED
    BY <1>3, <1>7, <2>5, <2>6, <2>7, Balanced
<1>14. ClientCountExact'
  <2> DEFINE m == Cardinality(Places(pipe, Left))
             m2 == Cardinality(Places(pipe', Left))
             c == One(worker[w] = "closed")
             c2 == One(worker'[w] = "closed")
             o == One(conn[3] # "free")
  <2>1. m2 = m + IF g = Left THEN 1 ELSE 0
    BY <1>12
  <2>2. c2 = 0 /\ (g = Left => c = 1) /\ (g # Left => c = 0)
    BY <1>1, <1>3, <1>5 DEF One
  <2>3. m \in Nat /\ o \in Nat
    BY CountTypes DEF IInv, One
  <2>4. 3 \in Fds /\ conn' = conn /\ clientCount' = clientCount
    BY <1>1, SizesAssumption DEF Fds
  <2>5. o + m2 + c2 = o + m + c
    <3> HIDE DEF m, m2, c, c2, o
    <3> QED
      BY <2>1, <2>2, <2>3
  <2> QED
    BY <1>3, <1>7, <2>4, <2>5, Counted
<1> QED
  BY <1>8, <1>9, <1>10, <1>11, <1>13, <1>14 DEF IInv

\* A response changes no client's place, and ends the process or nothing.
LEMMA Responded ==
  ASSUME IInv, NEW f \in Fds, conn[f] # "free", Respond(f)
  PROVE  /\ manager' \in {manager, "dead"}
         /\ conn' \in [Fds -> {"free", "thinking", "asked", "left", "gone"}]
         /\ \A g \in Fds : conn'[g] = "free" <=> conn[g] = "free"
BY DEF IInv, TypeOK, Respond

\* Clients taken out of the lists of files are told next.
LEMMA Released ==
  ASSUME NEW released, released \subseteq parked, parked' = parked \ released, NEW f
  PROVE  One(f \in parked') + One(f \in released) = One(f \in parked)
BY DEF One

LEMMA HandleStep == IInv /\ (\E w \in Workers, released \in SUBSET Fds : Handle(w, released)) => IInv'
<1> SUFFICES ASSUME IInv, NEW w \in Workers, NEW released \in SUBSET Fds, Handle(w, released)
             PROVE  IInv'
  OBVIOUS
<1> USE DEF watchVars, signals
<1>1. /\ Alive /\ worker[w] = "serving" /\ released \subseteq parked
      /\ parked' = parked \ released
      /\ notifyList' = [notifyList EXCEPT ![w] = released]
      /\ LogEvent /\ Respond(rdy_fd[w])
      /\ worker' = [worker EXCEPT ![w] = "answered"]
      /\ UNCHANGED <<watchVars, rset, clientCount, termsLeft, tasks, pipe, rdy_fd, backlog,
                     signals>>
  BY DEF Handle, Asking
<1>2. /\ flusher' = flusher
      /\ late' \in 0 .. LogCap
      /\ flusher = "running" => late' = late
  BY <1>1, LogEventKeeps
<1>3. rdy_fd[w] # NoFd /\ rdy_fd[w] \in Fds /\ notifyList[w] = {}
  BY <1>1 DEF IInv, Hands, TypeOK
<1>4. /\ manager' \in {manager, "dead"}
      /\ conn' \in [Fds -> {"free", "thinking", "asked", "left", "gone"}]
      /\ \A g \in Fds : conn'[g] = "free" <=> conn[g] = "free"
  BY <1>1, <1>3, InHand, Responded
<1>5. /\ worker'[w] = "answered" /\ notifyList'[w] = released
      /\ \A v \in Workers \ {w} : worker'[v] = worker[v] /\ notifyList'[v] = notifyList[v]
  BY <1>1 DEF IInv, TypeOK
<1>6. TypeOK'
  <2>1. /\ notifyList' \in [Workers -> SUBSET Fds] /\ parked' \subseteq Fds
        /\ worker' \in [Workers -> {"idle", "serving", "answered", "closed", "ended"}]
    BY <1>1 DEF IInv, TypeOK
  <2>2. manager' \in {"top", "select", "interrupted", "scan", "dead"} \union Cleaning
    BY <1>4 DEF IInv, TypeOK
  <2> QED
    BY <1>1, <1>2, <1>4, <2>1, <2>2 DEF IInv, TypeOK
<1>7. (clientCount + backlog <= MaxClients)' /\ FdNumCovers' /\ Hands'
  BY <1>1, <1>3, <1>4, <1>5 DEF IInv, FdNumCovers, Hands
<1>8. Scans' /\ Terms' /\ Logs'
  BY <1>1, <1>2, <1>4 DEF IInv, Scans, Terms, Logs, Running, Cleaning
<1>9. SoftExitDrains'
  BY <1>1, <1>4, Busy DEF SoftExitDrains, Cleaning
<1>10. FdConservation'
  <2> SUFFICES ASSUME NEW f \in Fds
               PROVE  Owners(f)' = IF conn'[f] = "free" THEN 0 ELSE 1
    BY DEF FdConservation
  <2> DEFINE b == One(f \in parked)
             b2 == One(f \in parked')
             c == Cardinality(Places(tasks, f))
             d == Cardinality(Places(pipe, f))
             r == One(rdy_fd[w] = f)
             n == One(f \in notifyList[w])
             n2 == One(f \in notifyList'[w])
             o == One(conn[f] # "free")
             o2 == One(conn'[f] # "free")
  <2>1. b2 + One(f \in released) = b
    BY <1>1, Released
  <2>2. n2 = One(f \in released) /\ n = 0 /\ o2 = o
    BY <1>3, <1>4, <1>5 DEF One
  <2>3. c \in Nat /\ d \in Nat
    BY CountTypes DEF IInv
  <2>4. /\ b \in Nat /\ b2 \in Nat /\ r \in Nat /\ o \in Nat
        /\ One(f \in released) \in Nat
    BY DEF One
  <2>5. tasks' \in Seq({Term} \union Fds) /\ pipe' \in Seq({Left} \union Fds)
    BY <1>6 DEF TypeOK
  <2>6. UNCHANGED <<setsave, tasks, pipe, rdy_fd>>
    BY <1>1
  <2>7. b2 + c + d + r + n2 + o = b + c + d + r + n + o2
    <3> HIDE DEF b, b2, c, d, r, n, n2, o, o2
    <3> QED
      BY <2>1, <2>2, <2>3, <2>4
  <2> QED
    BY <1>5, <2>5, <2>6, <2>7, Balanced
<1>11. ClientCountExact'
  <2>1. \A v \in Workers : worker'[v] = "closed" <=> worker[v] = "closed"
    BY <1>1, <1>5
  <2> QED
    BY <1>1, <1>4, <2>1, KeepsCount DEF IInv
<1> QED
  BY <1>6, <1>7, <1>8, <1>9, <1>10, <1>11 DEF IInv

LEMMA HandleExitStep ==
  IInv /\ (\E w \in Workers, released \in SUBSET Fds : HandleExit(w, released)) => IInv'
<1> SUFFICES ASSUME IInv, NEW w \in Workers, NEW released \in SUBSET Fds,
                    HandleExit(w, released)
             PROVE  IInv'
  OBVIOUS
<1> USE DEF managerVars, mainVars, watchVars, logVars, signals
<1>1. /\ Alive /\ worker[w] = "serving" /\ conn[rdy_fd[w]] = "left"
      /\ released \subseteq parked
      /\ parked' = parked \ released
      /\ notifyList' = [notifyList EXCEPT ![w] = released]
      /\ conn' = [conn EXCEPT ![rdy_fd[w]] = "free"]
      /\ worker' = [worker EXCEPT ![w] = "closed"]
      /\ rdy_fd' = [rdy_fd EXCEPT ![w] = NoFd]
      /\ UNCHANGED <<managerVars, tasks, pipe, backlog, logVars, signals>>
  BY DEF HandleExit
<1>2. rdy_fd[w] # NoFd /\ rdy_fd[w] \in Fds /\ notifyList[w] = {}
  BY <1>1 DEF IInv, Hands, TypeOK
<1>3. \A f \in Fds : f # NoFd
  BY SizesAssumption DEF Fds, NoFd
<1>4. /\ worker'[w] = "closed" /\ rdy_fd'[w] = NoFd /\ notifyList'[w] = released
      /\ \A v \in Workers \ {w} : /\ worker'[v] = worker[v] /\ rdy_fd'[v] = rdy_fd[v]
                                  /\ notifyList'[v] = notifyList[v]
      /\ conn'[rdy_fd[w]] = "free"
      /\ \A g \in Fds \ {rdy_fd[w]} : conn'[g] = conn[g]
  BY <1>1, <1>2 DEF IInv, TypeOK
<1>5. TypeOK'
  <2>1. /\ notifyList' \in [Workers -> SUBSET Fds] /\ parked' \subseteq Fds
        /\ worker' \in [Workers -> {"idle", "serving", "answered", "closed", "ended"}]
        /\ rdy_fd' \in [Workers -> {NoFd} \union Fds]
        /\ conn' \in [Fds -> {"free", "thinking", "asked", "left", "gone"}]
    BY <1>1 DEF IInv, TypeOK
  <2> QED
    BY <1>1, <2>1 DEF IInv, TypeOK
<1>6. (clientCount + backlog <= MaxClients)' /\ FdNumCovers' /\ Hands'
  BY <1>1, <1>4 DEF IInv, FdNumCovers, Hands
<1>7. Scans' /\ Terms' /\ Logs'
  BY <1>1 DEF IInv, Scans, Terms, Logs, Running
<1>8. SoftExitDrains'
  BY <1>1, Busy DEF SoftExitDrains
<1>9. FdConservation'
  <2> SUFFICES ASSUME NEW f \in Fds
               PROVE  Owners(f)' = IF conn'[f] = "free" THEN 0 ELSE 1
    BY DEF FdConservation
  <2> DEFINE b == One(f \in parked)
             b2 == One(f \in parked')
             c == Cardinality(Places(tasks, f))
             d == Cardinality(Places(pipe, f))
             r == One(rdy_fd[w] = f)
             r2 == One(rdy_fd'[w] = f)
             n == One(f \in notifyList[w])
             n2 == One(f \in notifyList'[w])
             o == One(conn[f] # "free")
             o2 == One(conn'[f] # "free")
  <2>1. b2 + One(f \in released) = b
    BY <1>1, Released
  <2>2. n2 = One(f \in released) /\ n = 0 /\ r2 = 0
    BY <1>2, <1>3, <1>4 DEF One
  <2>3. r + o2 = o
    BY <1>1, <1>2, <1>4 DEF One
  <2>4. c \in Nat /\ d \in Nat
    BY CountTypes DEF IInv
  <2>5. /\ b \in Nat /\ b2 \in Nat /\ r \in Nat /\ o \in Nat /\ o2 \in Nat
        /\ One(f \in released) \in Nat
    BY DEF One
  <2>6. tasks' \in Seq({Term} \union Fds) /\ pipe' \in Seq({Left} \union Fds)
    BY <1>5 DEF TypeOK
  <2>7. UNCHANGED <<setsave, tasks, pipe>>
    BY <1>1
  <2>8. b2 + c + d + r2 + n2 + o = b + c + d + r + n + o2
    <3> HIDE DEF b, b2, c, d, r, r2, n, n2, o, o2
    <3> QED
      BY <2>1, <2>2, <2>3, <2>4, <2>5
  <2> QED
    BY <1>4, <2>6, <2>7, <2>8, Balanced
<1>10. ClientCountExact'
  <2>1. /\ One(conn'[rdy_fd[w]] # "free") = 0 /\ One(conn[rdy_fd[w]] # "free") = 1
        /\ One(worker'[w] = "closed") = 1 /\ One(worker[w] = "closed") = 0
    BY <1>1, <1>4 DEF One
  <2>2. pipe' \in Seq({Left} \union Fds) /\ pipe' = pipe /\ clientCount' = clientCount
    BY <1>1, <1>5 DEF TypeOK
  <2>3. Cardinality(Places(pipe, Left)) \in Nat
    BY CountTypes DEF IInv
  <2>4. One(conn'[rdy_fd[w]] # "free") + Cardinality(Places(pipe', Left))
          + One(worker'[w] = "closed")
        = One(conn[rdy_fd[w]] # "free") + Cardinality(Places(pipe, Left))
            + One(worker[w] = "closed")
    BY <2>1, <2>2, <2>3
  <2> QED
    BY <1>2, <1>4, <2>2, <2>4, Counted
<1> QED
  BY <1>5, <1>6, <1>7, <1>8, <1>9, <1>10 DEF IInv

LEMMA NotifyStep == IInv /\ (\E w \in Workers, f \in Fds : Notify(w, f)) => IInv'
<1> SUFFICES ASSUME IInv, NEW w \in Workers, NEW g \in Fds, Notify(w, g) PROVE IInv'
  OBVIOUS
<1> USE DEF watchVars, logVars, signals
<1>1. /\ Alive /\ worker[w] \in {"answered", "closed"} /\ g \in notifyList[w]
      /\ notifyList' = [notifyList EXCEPT ![w] = @ \ {g}]
      /\ Respond(g) /\ pipe' = Append(pipe, g)
      /\ UNCHANGED <<watchVars, rset, clientCount, termsLeft, tasks, worker, rdy_fd, parked,
                     backlog, logVars, signals>>
  BY DEF Notify, GiveBack
<1>2. /\ manager' \in {manager, "dead"}
      /\ conn' \in [Fds -> {"free", "thinking", "asked", "left", "gone"}]
      /\ \A h \in Fds : conn'[h] = "free" <=> conn[h] = "free"
  BY <1>1, ToBeTold, Responded
<1>3. /\ notifyList'[w] = notifyList[w] \ {g}
      /\ \A v \in Workers \ {w} : notifyList'[v] = notifyList[v]
  BY <1>1 DEF IInv, TypeOK
<1>4. pipe \in Seq({Left} \union Fds) /\ g \in {Left} \union Fds /\ g # Left
  BY SizesAssumption DEF IInv, TypeOK, Fds, Left
<1>5. pipe' \in Seq({Left} \union Fds) /\ pipe' # <<>>
  BY <1>1, <1>4, AppendProperties
<1>6. TypeOK'
  <2>1. notifyList' \in [Workers -> SUBSET Fds]
    BY <1>1 DEF IInv, TypeOK
  <2>2. manager' \in {"top", "select", "interrupted", "scan", "dead"} \union Cleaning
    BY <1>2 DEF IInv, TypeOK
  <2> QED
    BY <1>1, <1>2, <1>5, <2>1, <2>2 DEF IInv, TypeOK
<1>7. (clientCount + backlog <= MaxClients)' /\ FdNumCovers' /\ Hands'
  BY <1>1, <1>2, <1>3 DEF IInv, FdNumCovers, Hands
<1>8. Scans' /\ Terms' /\ Logs'
  BY <1>1, <1>2, <1>5 DEF IInv, Scans, Terms, Logs, Running, Cleaning
<1>9. SoftExitDrains'
  BY <1>1, <1>2, Busy DEF SoftExitDrains, Cleaning
<1>10. \A f : Cardinality(Places(pipe', f)) =
                Cardinality(Places(pipe, f)) + IF g = f THEN 1 ELSE 0
  BY <1>1, <1>4, PlacesAppend
<1>11. FdConservation'
  <2> SUFFICES ASSUME NEW f \in Fds
               PROVE  Owners(f)' = IF conn'[f] = "free" THEN 0 ELSE 1
    BY DEF FdConservation
  <2> DEFINE b == One(f \in parked)
             c == Cardinality(Places(tasks, f))
             d == Cardinality(Places(pipe, f))
             d2 == Cardinality(Places(pipe', f))
             r == One(rdy_fd[w] = f)
             n == One(f \in notifyList[w])
             n2 == One(f \in notifyList'[w])
             o == One(conn[f] # "free")
             o2 == One(conn'[f] # "free")
  <2>1. d2 = d + IF g = f THEN 1 ELSE 0
    BY <1>10
  <2>2. /\ g = f => n = 1 /\ n2 = 0
        /\ g # f => n2 = n
        /\ o2 = o
    BY <1>1, <1>2, <1>3 DEF One
  <2>3. c \in Nat /\ d \in Nat
    BY CountTypes DEF IInv
  <2>4. b \in Nat /\ r \in Nat /\ o \in Nat /\ n \in Nat
    BY DEF One
  <2>5. tasks' \in Seq({Term} \union Fds)
    BY <1>6 DEF TypeOK
  <2>6. UNCHANGED <<setsave, parked, tasks, rdy_fd>>
    BY <1>1
  <2>7. b + c + d2 + r + n2 + o = b + c + d + r + n + o2
    <3> HIDE DEF b, c, d, d2, r, n, n2, o, o2
    <3>1. CASE g = f
      BY <2>1, <2>2, <2>3, <2>4, <3>1
    <3>2. CASE g # f
      BY <2>1, <2>2, <2>3, <2>4, <3>2
    <3> QED
      BY <3>1, <3>2
  <2> QED
    BY <1>3, <1>5, <2>5, <2>6, <2>7, Balanced
<1>12. ClientCountExact'
  <2> DEFINE m == Cardinality(Places(pipe, Left))
             m2 == Cardinality(Places(pipe', Left))
             c == One(worker[w] = "closed")
             o == One(conn[g] # "free")
             o2 == One(conn'[g] # "free")
             n == Cardinality(InUse(conn))
             k == Cardinality(Closed(worker))
  <2>1. InUse(conn') = InUse(conn) /\ Closed(worker') = Closed(worker)
    BY <1>1, <1>2 DEF InUse, Closed
  <2>2. m2 = m
    BY <1>4, <1>10, CountTypes DEF IInv
  <2>3. clientCount = n + m + k
    BY DEF IInv, ClientCountExact, InUse, Places, Closed
  <2>4. ClientCountExact' <=> clientCount = n + m2 + k
    BY <1>1, <2>1 DEF ClientCountExact, InUse, Places, Closed
  <2> QED
    BY <2>2, <2>3, <2>4
<1> QED
  BY <1>6, <1>7, <1>8, <1>9, <1>11, <1>12 DEF IInv

-----------------------------------------------------------------------------
\* The invariant

LEMMA WorkerSteps == IInv /\ (\E w \in Workers : Work(w)) => IInv'
BY DequeueStep, HandleStep, HandleExitStep, ParkStep, NotifyStep, PutBackStep DEF Work

LEMMA StutterStep == IInv /\ UNCHANGED vars => IInv'
<1> SUFFICES ASSUME IInv, UNCHANGED vars PROVE IInv'
  OBVIOUS
<1> USE DEF vars, managerVars, mainVars, watchVars, workerVars, clientVars, logVars, signals,
            notManager
<1>1. TypeOK' /\ (clientCount + backlog <= MaxClients)' /\ FdNumCovers' /\ Hands'
  BY DEF IInv, TypeOK, FdNumCovers, Hands
<1>2. Scans' /\ Terms' /\ Logs' /\ SoftExitDrains'
  BY DEF IInv, Scans, Terms, Logs, SoftExitDrains
<1>3. FdConservation' /\ ClientCountExact'
  BY KeepsConservation, KeepsCount DEF IInv
<1> QED
  BY <1>1, <1>2, <1>3 DEF IInv

LEMMA NextIInv == IInv /\ [Next]_vars => IInv'
<1> SUFFICES ASSUME IInv, [Next]_vars PROVE IInv'
  OBVIOUS
<1>1. CASE Manage
  BY <1>1, LoopStep, SelectStep, InterruptedStep, RewatchStep, CountLeftStep, AcceptStep,
     RejectStep, DispatchStep, EndScanStep, SendTermStep, EndLogStep, JoinStep DEF Manage
<1>2. CASE Flush
  BY <1>2, FlushStep
<1>3. CASE \E w \in Workers : Work(w)
  BY <1>3, WorkerSteps
<1>4. CASE Connect
  BY <1>4, ConnectStep
<1>5. CASE \E f \in Fds : Ask(f) \/ Leave(f) \/ Crash(f)
  BY <1>5, ClientSteps
<1>6. CASE SigHup \/ SigInt
  BY <1>6, SignalSteps
<1>7. CASE UNCHANGED vars
  BY <1>7, StutterStep
<1> QED
  BY <1>1, <1>2, <1>3, <1>4, <1>5, <1>6, <1>7 DEF Next

LEMMA Invariance == Spec => []IInv
BY InitIInv, NextIInv, PTL DEF Spec

\* In every state every variable has a value of its type: no count of clients or of
\* termination messages goes below zero or above its bound, and fd_num stays the
\* number of a descriptor.
THEOREM Typed == Spec => []TypeOK
<1>1. IInv => TypeOK
  BY DEF IInv
<1> QED
  BY <1>1, Invariance, PTL

\* A client's descriptor is in exactly one place (FdConservation), for any number of
\* workers and clients, although the manager, the workers and the clients move it
\* and reuse it with no lock in common.
THEOREM DescriptorsConserved == Spec => []FdConservation
<1>1. IInv => FdConservation
  BY DEF IInv
<1> QED
  BY <1>1, Invariance, PTL

\* clientCount counts exactly those who are connected or whose leaving is not yet
\* known to main (ClientCountExact).
THEOREM CountHolds == Spec => []ClientCountExact
<1>1. IInv => ClientCountExact
  BY DEF IInv
<1> QED
  BY <1>1, Invariance, PTL

\* fd_num bounds the descriptors select must watch, whatever the order in which main
\* forgets and remembers them (FdNumCovers).
THEOREM FdNumSuffices == Spec => []FdNumCovers
<1>1. IInv => FdNumCovers
  BY DEF IInv
<1> QED
  BY <1>1, Invariance, PTL

\* After a SIGHUP the server winds up only when nobody is connected and nothing is
\* left to do or to log (SoftExitDrains).
THEOREM SoftExitComplete == Spec => []SoftExitDrains
<1>1. IInv => SoftExitDrains
  BY DEF IInv
<1> QED
  BY <1>1, Invariance, PTL

\* With a task queue as large as the number of clients main never waits for room in
\* it (QueueHasRoom): what it holds are descriptors, none of them twice, and not the
\* one main is about to add.
THEOREM RoomForRequests ==
  ASSUME MaxTasks >= MaxClients
  PROVE  Spec => []QueueHasRoom
<1>1. IInv => QueueHasRoom
  <2> SUFFICES ASSUME IInv, NEW f \in rset \intersect Fds PROVE Len(tasks) < MaxTasks
    BY DEF QueueHasRoom
  <2>1. tasks \in Seq({Term} \union Fds) /\ f \in setsave
    BY DEF IInv, TypeOK
  <2>2. /\ \A k \in 1 .. Len(tasks) : tasks[k] # Term
        /\ \A k \in 1 .. Len(tasks) : tasks[k] \in Fds
    <3>1. \A k \in 1 .. Len(tasks) : tasks[k] # Term
      BY DEF IInv, Terms
    <3> QED
      BY <2>1, <3>1, ElementOfSeq
  <2>3. ASSUME NEW g \in Fds
        PROVE  /\ Cardinality(Places(tasks, g)) <= 1
               /\ g \in setsave => Cardinality(Places(tasks, g)) = 0
    <3> DEFINE a == One(g \in setsave)
               b == One(g \in parked)
               c == Cardinality(Places(tasks, g))
               d == Cardinality(Places(pipe, g))
               e == Cardinality(Serving(rdy_fd, g))
               t == Cardinality(Telling(notifyList, g))
    <3>1. a + b + c + d + e + t <= 1
      BY OwnersAre DEF IInv, FdConservation, Total
    <3>2. c \in Nat /\ d \in Nat /\ e \in Nat /\ t \in Nat
      BY CountTypes DEF IInv
    <3>3. a \in Nat /\ b \in Nat /\ (g \in setsave => a = 1)
      BY DEF One
    <3> HIDE DEF a, b, c, d, e, t
    <3>4. c <= 1 /\ (g \in setsave => c = 0)
      BY <3>1, <3>2, <3>3
    <3> QED
      BY <3>4 DEF c
  <2>4. Distinct(tasks)
    BY <2>1, <2>2, <2>3, PlacesOnce DEF Distinct
  <2>5. ToSet(tasks) \subseteq Fds \ {f}
    <3>1. \A k \in 1 .. Len(tasks) : tasks[k] # f
      BY <2>1, <2>3, PlacesFinite
    <3> QED
      BY <2>1, <2>2, <3>1, ToSetMembers
  <2>6. IsFiniteSet(Fds \ {f}) /\ Cardinality(Fds \ {f}) = MaxClients - 1
    BY FdsCount, FS_RemoveElement
  <2>7. Cardinality(ToSet(tasks)) <= MaxClients - 1
    BY <2>5, <2>6, FS_Subset
  <2>8. Cardinality(ToSet(tasks)) = Len(tasks) /\ Len(tasks) \in Nat
    BY <2>1, <2>4, DistinctCardinality, LenProperties
  <2> QED
    BY <2>7, <2>8, SizesAssumption
<1> QED
  BY <1>1, Invariance, PTL
=============================================================================
