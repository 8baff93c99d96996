-------------------------- MODULE FileAccessProofs --------------------------
(***************************************************************************)
(* For any number of threads, clients and files: readers and writers of a  *)
(* file exclude each other, no file is freed under a thread that uses it,  *)
(* and no thread is left in pthread_cond_wait.                             *)
(*                                                                         *)
(* The inductive invariant says who owns each mutex and each mark of a     *)
(* file.  It is preserved by rely and guarantee: LiveStep(w) lists the     *)
(* rules a step of worker w keeps, RulesPreserve shows that a step which   *)
(* keeps them preserves the invariant for the other workers, and one lemma *)
(* per action shows that the action keeps them.                            *)
(***************************************************************************)
EXTENDS FileAccess, DataLemmas

\* Worker w needs store->mutex where it is.
HoldsStore(w) ==
  \/ step[w] \in {"scan", "entry", "add"}
  \/ step[w] \in {"waiting", "woken"} /\ ~ ReleasesStoreEarly(Task(w))
  \/ step[w] = "inside" /\ req[w].op \in {"write", "close"}

\* Worker w needs `ordering` of the file it is at.
HoldsOrdering(w) == step[w] \in {"waiting", "woken"}

\* Worker w has set isBeingWritten of f and will reset it.
Marks(w, f) ==
  \/ step[w] = "inside" /\ req[w].op \in {"close", "lock"} /\ at[w] = f
  \/ step[w] = "locked" /\ at[w] = f
  \/ Writes(w, f)

\* The workers counted in activeReaders of f.
ReadersOf(f) ==
  {w \in Workers : step[w] = "inside" /\ req[w].op = "read" /\ at[w] = f}

Alive == \A w \in Workers : step[w] # "dead"

\* What the request, the step and the file of a worker say of each other.
LocatedAt(w) ==
    /\ at[w] # NoFile => at[w] \in stored
    /\ step[w] \in {"entry", "waiting", "woken", "inside", "locked"}
         => at[w] # NoFile
    /\ step[w] \in {"idle", "store", "scan", "add"} => at[w] = NoFile
    /\ step[w] \notin {"idle", "dead"} => req[w] \in Requests
    /\ step[w] = "scan" => req[w].op \in StoreOps
    /\ step[w] = "add" => req[w].op \in Creations
    /\ step[w] = "inside" => req[w].op \in {"read", "write", "close", "lock"}
    /\ step[w] = "locked" => req[w].op = "lock"
    /\ step[w] = "inside" => at[w] = req[w].file
    /\ step[w] \in {"waiting", "woken"} => req[w].op # "testFirstWrite"
    /\ at[w] # NoFile /\ req[w].op \in {"read", "lock", "close"}
         => at[w] = req[w].file
    /\ \A f \in Files : Writes(w, f) => f \in stored

Located == \A w \in Workers : LocatedAt(w)

\* The files a leaving client has yet to be removed from are still there.
TodoAt(w) ==
  step[w] # "dead" /\ todo[w] # {}
    => /\ step[w] \in {"scan", "entry", "waiting", "woken"}
       /\ req[w].op = "exit"
       /\ todo[w] \subseteq stored
TodoStored == \A w \in Workers : TodoAt(w)

StoreOwned == \A w \in Workers : HoldsStore(w) => storeMutex = w
OrderingOwned ==
  \A w \in Workers : HoldsOrdering(w) => ordering[at[w]] = w

Marked ==
  \A w \in Workers : \A f \in Files : Marks(w, f) => isBeingWritten[f]
OneMark ==
  \A w, v \in Workers : \A f \in Files : Marks(w, f) /\ Marks(v, f) => w = v

\* A write waits for readers only, with nobody able to begin writing.
WriteClear ==
  \A w \in Workers :
    HoldsOrdering(w) /\ Task(w) = "write" => ~ isBeingWritten[at[w]]

Exclusive ==
  \A w, v \in Workers : \A f \in Files : Marks(w, f) => v \notin ReadersOf(f)

ReadersCounted ==
  Alive => \A f \in Files : activeReaders[f] = Cardinality(ReadersOf(f))

DeadTogether ==
  \A w, v \in Workers : step[w] = "dead" => step[v] = "dead"

IInv ==
  /\ TypeOK
  /\ Located
  /\ TodoStored
  /\ StoreOwned
  /\ OrderingOwned
  /\ Marked
  /\ OneMark
  /\ WriteClear
  /\ Exclusive
  /\ ReadersCounted
  /\ DeadTogether

-----------------------------------------------------------------------------
\* Worker w takes a step: the others stay where they are or are woken.
OthersStay(w) ==
  /\ \A x \in Workers \ {w} :
       \/ step'[x] = step[x]
       \/ step[x] = "waiting" /\ step'[x] = "woken"
  /\ \A x \in Workers \ {w} : req'[x] = req[x] /\ at'[x] = at[x]

\* Worker w may lock the mutexes of f.
Owns(w, f) == ordering[f] \in {w, NoWorker}

\* It touches store->mutex if it owns it or nobody does.
StoreRule(w) ==
  /\ storeMutex' = storeMutex \/ storeMutex \in {w, NoWorker}
  /\ HoldsStore(w)' => storeMutex' = w

OrderingRule(w) ==
  /\ \A f \in Files : ordering'[f] = ordering[f] \/ Owns(w, f)
  /\ HoldsOrdering(w)' => ordering'[at'[w]] = w

\* It marks a file that is at rest, and removes its own mark only.
MarkRule(w) ==
  /\ \A f \in Files :
       /\ Marks(w, f)' => isBeingWritten'[f]
       /\ Marks(w, f)' /\ ~ Marks(w, f)
            => ~ isBeingWritten[f] /\ activeReaders[f] = 0
       /\ isBeingWritten[f] /\ ~ isBeingWritten'[f] => Marks(w, f)
       /\ isBeingWritten'[f] /\ ~ isBeingWritten[f] => Owns(w, f)
  /\ HoldsOrdering(w)' /\ Task(w)' = "write" => ~ isBeingWritten'[at'[w]]

\* It reads a file that is not being written, and counts itself.
ReadRule(w) ==
  \A f \in Files :
    /\ w \in ReadersOf(f)' /\ w \notin ReadersOf(f)
         => ~ isBeingWritten[f] /\ activeReaders'[f] = activeReaders[f] + 1
    /\ w \notin ReadersOf(f)' /\ w \in ReadersOf(f)
         => activeReaders'[f] = activeReaders[f] - 1
    /\ (w \in ReadersOf(f)' <=> w \in ReadersOf(f))
         => activeReaders'[f] = activeReaders[f]

\* It removes a file only when nobody uses it.
FileRule(w) ==
  /\ LocatedAt(w)'
  /\ \A f \in stored \ stored' :
       /\ HoldsStore(w)
       /\ Owns(w, f)
       /\ ~ isBeingWritten[f]
       /\ activeReaders[f] = 0

TodoRule(w) ==
  /\ TodoAt(w)'
  /\ \A x \in Workers \ {w} : todo'[x] = todo[x]

LiveStep(w) ==
  /\ TypeOK'
  /\ OthersStay(w)
  /\ step[w] # "dead" /\ step'[w] # "dead"
  /\ StoreRule(w)
  /\ OrderingRule(w)
  /\ MarkRule(w)
  /\ ReadRule(w)
  /\ FileRule(w)
  /\ TodoRule(w)

\* A worker that keeps the rules preserves the invariant, for the others too.
LEMMA RulesPreserve ==
  ASSUME IInv, NEW w \in Workers, LiveStep(w)
  PROVE  IInv'
<1> USE DEF IInv, LiveStep
<1>0. \A v \in Workers : step[v] # "dead" /\ step'[v] # "dead"
  BY DEF DeadTogether, OthersStay
<1>1. \A v \in Workers \ {w} :
        /\ HoldsStore(v)' <=> HoldsStore(v)
        /\ HoldsOrdering(v)' <=> HoldsOrdering(v)
        /\ Task(v)' = Task(v)
        /\ at'[v] = at[v] /\ req'[v] = req[v]
        /\ \A f \in Files : /\ Marks(v, f)' <=> Marks(v, f)
                            /\ Writes(v, f)' <=> Writes(v, f)
                            /\ v \in ReadersOf(f)' <=> v \in ReadersOf(f)
  BY DEF OthersStay, HoldsStore, HoldsOrdering, Task, Marks, Writes, ReadersOf
<1>2. \A f \in Files : activeReaders[f] = 0 => ReadersOf(f) = {}
  <2> SUFFICES ASSUME NEW f \in Files, activeReaders[f] = 0
               PROVE  ReadersOf(f) = {}
    OBVIOUS
  <2>1. IsFiniteSet(ReadersOf(f))
    BY WorkersAssumption, FS_Subset DEF ReadersOf
  <2> QED
    BY <1>0, <2>1, FS_EmptySet DEF ReadersCounted, Alive
<1>3. Located'
  <2> SUFFICES ASSUME NEW v \in Workers \ {w} PROVE LocatedAt(v)'
    BY DEF Located, FileRule
  <2>1. LocatedAt(v)
    BY DEF Located
  <2>2. at[v] # NoFile => at[v] \in stored'
    <3> SUFFICES ASSUME at[v] # NoFile, at[v] \notin stored' PROVE FALSE
      OBVIOUS
    <3> DEFINE f == at[v]
    <3>1. f \in stored \ stored' /\ f \in Files
      BY <2>1 DEF LocatedAt, TypeOK
    <3>2. ~ HoldsStore(v) /\ step[v] # "entry"
      BY <3>1 DEF FileRule, StoreOwned, HoldsStore
    <3>3. ~ HoldsOrdering(v)
      BY <3>1, WorkersAssumption DEF FileRule, Owns, OrderingOwned, TypeOK
    <3>4. ~ Marks(v, f) /\ v \notin ReadersOf(f)
      BY <1>2, <3>1 DEF FileRule, Marked
    <3> QED
      BY <1>0, <2>1, <3>1, <3>2, <3>3, <3>4
      DEF LocatedAt, HoldsOrdering, Marks, Writes, ReadersOf, TypeOK, Steps
  <2>3. \A f \in Files : Writes(v, f) => f \in stored'
    BY <2>1 DEF LocatedAt, FileRule, Marked, Marks
  <2> QED
    BY <1>1, <2>1, <2>2, <2>3 DEF LocatedAt, OthersStay
<1>4. StoreOwned'
  BY <1>1, WorkersAssumption DEF StoreOwned, StoreRule
<1>a. \A v \in Workers : HoldsOrdering(v) => at[v] \in Files
  BY DEF Located, LocatedAt, HoldsOrdering, TypeOK
<1>5. OrderingOwned'
  <2> SUFFICES ASSUME NEW v \in Workers, HoldsOrdering(v)'
               PROVE  ordering'[at'[v]] = v
    BY DEF OrderingOwned
  <2>1. CASE v = w
    BY <2>1 DEF OrderingRule
  <2>2. CASE v # w
    BY <1>1, <1>a, <2>2, WorkersAssumption DEF OrderingOwned, OrderingRule, Owns
  <2> QED
    BY <2>1, <2>2
<1>6. Marked' /\ OneMark'
  BY <1>1 DEF Marked, OneMark, MarkRule
<1>7. WriteClear'
  <2> SUFFICES ASSUME NEW v \in Workers, HoldsOrdering(v)', Task(v)' = "write"
               PROVE  ~ isBeingWritten'[at'[v]]
    BY DEF WriteClear
  <2>1. CASE v = w
    BY <2>1 DEF MarkRule
  <2>2. CASE v # w
    BY <1>1, <1>a, <2>2, WorkersAssumption
    DEF OrderingOwned, WriteClear, MarkRule, Owns
  <2> QED
    BY <2>1, <2>2
<1>8. Exclusive'
  <2> SUFFICES ASSUME NEW v \in Workers, NEW x \in Workers, NEW f \in Files,
                      Marks(v, f)', x \in ReadersOf(f)'
               PROVE  FALSE
    BY DEF Exclusive
  <2>1. CASE v = x
    BY <2>1 DEF Marks, Writes, ReadersOf
  <2>2. CASE v = w /\ x # w
    BY <1>1, <1>2, <2>2 DEF Exclusive, MarkRule
  <2>3. CASE x = w /\ v # w
    BY <1>1, <2>3 DEF Exclusive, ReadRule, Marked
  <2>4. CASE x # w /\ v # w
    BY <1>1, <2>4 DEF Exclusive
  <2> QED
    BY <2>1, <2>2, <2>3, <2>4
<1>9. ReadersCounted'
  <2> SUFFICES ASSUME NEW f \in Files
               PROVE  activeReaders'[f] = Cardinality(ReadersOf(f)')
    BY DEF ReadersCounted
  <2>1. /\ IsFiniteSet(ReadersOf(f))
        /\ activeReaders[f] = Cardinality(ReadersOf(f))
    BY <1>0, WorkersAssumption, FS_Subset DEF ReadersOf, ReadersCounted, Alive
  <2>2. CASE w \in ReadersOf(f)' /\ w \notin ReadersOf(f)
    <3>1. ReadersOf(f)' = ReadersOf(f) \union {w}
      BY <1>1, <2>2 DEF ReadersOf
    <3> QED
      BY <2>1, <2>2, <3>1, FS_AddElement DEF ReadRule
  <2>3. CASE w \notin ReadersOf(f)' /\ w \in ReadersOf(f)
    <3>1. ReadersOf(f)' = ReadersOf(f) \ {w}
      BY <1>1, <2>3 DEF ReadersOf
    <3> QED
      BY <2>1, <2>3, <3>1, FS_RemoveElement DEF ReadRule
  <2>4. CASE w \in ReadersOf(f)' <=> w \in ReadersOf(f)
    <3>1. ReadersOf(f)' = ReadersOf(f)
      BY <1>1, <2>4 DEF ReadersOf
    <3> QED
      BY <2>1, <2>4, <3>1 DEF ReadRule
  <2> QED
    BY <2>2, <2>3, <2>4
<1>10. DeadTogether'
  BY <1>0 DEF DeadTogether
<1>11. TodoStored'
  <2> SUFFICES ASSUME NEW v \in Workers \ {w} PROVE TodoAt(v)'
    BY DEF TodoStored, TodoRule
  <2>1. CASE todo[v] = {}
    BY <2>1 DEF TodoAt, TodoRule
  <2>2. CASE todo[v] # {}
    <3>1. /\ step[v] \in {"scan", "entry", "waiting", "woken"}
          /\ req[v].op = "exit"
          /\ todo[v] \subseteq stored
      BY <1>0, <2>2 DEF TodoStored, TodoAt
    <3>2. HoldsStore(v)
      BY <3>1 DEF HoldsStore, Task, ReleasesStoreEarly, Creations
    <3>3. ~ HoldsStore(w)
      BY <3>2 DEF StoreOwned
    <3>4. todo[v] \subseteq stored'
      BY <3>1, <3>3 DEF FileRule
    <3> QED
      BY <1>1, <3>1, <3>4 DEF TodoAt, TodoRule, OthersStay
  <2> QED
    BY <2>1, <2>2
<1> QED
  BY <1>11, <1>3, <1>4, <1>5, <1>6, <1>7, <1>8, <1>9, <1>10

-----------------------------------------------------------------------------
\* The operators the actions are made of

\* Waking only workers that wait, other than itself, w disturbs nobody.
LEMMA GotoFacts ==
  ASSUME TypeOK, NEW w \in Workers, NEW s \in Steps, NEW STATE W,
         \A x \in W : x # w /\ step[x] = "waiting",
         Goto(w, s, W)
  PROVE  /\ step' \in [Workers -> Steps]
         /\ step'[w] = s
         /\ \A x \in Workers \ {w} :
              step'[x] = step[x] \/ (step[x] = "waiting" /\ step'[x] = "woken")
<1>1. "woken" \in Steps
  BY DEF Steps
<1>2. \A x \in Workers :
        step'[x] = IF x = w THEN s ELSE IF x \in W THEN "woken" ELSE step[x]
  BY DEF Goto
<1>3. step' = [x \in Workers |->
                 IF x = w THEN s ELSE IF x \in W THEN "woken" ELSE step[x]]
  BY DEF Goto
<1>4. \A x \in Workers : step[x] \in Steps
  BY DEF TypeOK
<1>5. step' \in [Workers -> Steps]
  BY <1>1, <1>3, <1>4
<1>6. step'[w] = s
  BY <1>2
<1>7. ASSUME NEW x \in Workers \ {w}
      PROVE  step'[x] = step[x] \/ (step[x] = "waiting" /\ step'[x] = "woken")
  BY <1>2
<1> QED
  BY <1>5, <1>6, <1>7

\* Where w is after it has moved, with the other workers where they were.
Moved(w, s, q, g) ==
  /\ OthersStay(w)
  /\ step' \in [Workers -> Steps]
  /\ req' \in [Workers -> Requests \union {NoRequest}]
  /\ at' \in [Workers -> Files \union {NoFile}]
  /\ step'[w] = s /\ req'[w] = q /\ at'[w] = g

\* Where a worker is that has answered its client.
LEMMA FinishFacts ==
  ASSUME TypeOK, NEW w \in Workers, NEW STATE W,
         \A x \in W : x # w /\ step[x] = "waiting",
         Finish(w, W)
  PROVE  Moved(w, "idle", NoRequest, NoFile)
<1>1. "idle" \in Steps
  BY DEF Steps
<1>2. Goto(w, "idle", W) /\ req' = [req EXCEPT ![w] = NoRequest]
      /\ at' = [at EXCEPT ![w] = NoFile]
  BY DEF Finish
<1>3. /\ req' \in [Workers -> Requests \union {NoRequest}]
      /\ at' \in [Workers -> Files \union {NoFile}]
      /\ req'[w] = NoRequest /\ at'[w] = NoFile
      /\ \A x \in Workers \ {w} : req'[x] = req[x] /\ at'[x] = at[x]
  BY <1>2 DEF TypeOK
<1> QED
  BY <1>1, <1>2, <1>3, GotoFacts DEF Moved, OthersStay

\* Where a worker is that goes on with another file, or none.
LEMMA MoveFacts ==
  ASSUME TypeOK, NEW w \in Workers, NEW s \in Steps,
         NEW g \in Files \union {NoFile},
         Goto(w, s, {}), at' = [at EXCEPT ![w] = g], req' = req
  PROVE  Moved(w, s, req[w], g)
<1>1. /\ at' \in [Workers -> Files \union {NoFile}]
      /\ at'[w] = g
      /\ \A x \in Workers \ {w} : at'[x] = at[x]
  BY DEF TypeOK
<1> QED
  BY <1>1, GotoFacts DEF Moved, OthersStay, TypeOK

\* Where a worker is that goes on with the same file.
LEMMA StayFacts ==
  ASSUME TypeOK, NEW w \in Workers, NEW s \in Steps, Stay(w, s)
  PROVE  Moved(w, s, req[w], at[w])
  BY GotoFacts DEF Moved, OthersStay, TypeOK, Stay

\* A step that begins and ends no read, write, lock or close.
LEMMA KeepsMarks ==
  ASSUME Marked, NEW w \in Workers,
         isBeingWritten' = isBeingWritten, activeReaders' = activeReaders,
         \A f \in Files : Marks(w, f)' <=> Marks(w, f),
         \A f \in Files : w \in ReadersOf(f)' <=> w \in ReadersOf(f),
         HoldsOrdering(w)' /\ Task(w)' = "write" => ~ isBeingWritten[at'[w]]
  PROVE  MarkRule(w) /\ ReadRule(w)
<1>1. MarkRule(w)
  BY DEF MarkRule, Marked
<1>2. ReadRule(w)
  BY DEF ReadRule
<1> QED
  BY <1>1, <1>2

\* A step of a worker that is neither reading nor marking a file, before or
\* after.
LEMMA CalmStep ==
  ASSUME IInv, NEW w \in Workers, NEW s, NEW q, NEW g, Moved(w, s, q, g),
         isBeingWritten' = isBeingWritten, activeReaders' = activeReaders,
         step[w] \notin {"inside", "locked"},
         s \notin {"inside", "locked", "waiting", "woken"},
         \A f \in Files : ~ Writes(w, f),
         \A f \in Files : ~ Writes(w, f)'
  PROVE  MarkRule(w) /\ ReadRule(w)
<1>1. \A f \in Files : Marks(w, f)' <=> Marks(w, f)
  BY DEF Marks, Moved
<1>2. \A f \in Files : w \in ReadersOf(f)' <=> w \in ReadersOf(f)
  BY DEF ReadersOf, Moved
<1>3. ~ HoldsOrdering(w)'
  BY DEF HoldsOrdering, Moved
<1> QED
  BY <1>1, <1>2, <1>3, KeepsMarks DEF IInv

\* What a worker that has both mutexes of a file may rely on.
LEMMA HasFileFacts ==
  ASSUME IInv, NEW w \in Workers, HasFile(w)
  PROVE  /\ step[w] \in {"entry", "woken"}
         /\ at[w] \in Files /\ at[w] \in stored
         /\ Owns(w, at[w])
         /\ step[w] = "entry" \/ ~ ReleasesStoreEarly(Task(w)) => storeMutex = w
         /\ Task(w) = "write" => ~ isBeingWritten[at[w]]
         /\ req[w] \in Requests
<1> USE DEF IInv, Located, LocatedAt, TypeOK
<1>1. step[w] \in {"entry", "woken"}
  BY DEF HasFile, AtFile
<1>2. at[w] \in Files /\ at[w] \in stored /\ req[w] \in Requests
  BY <1>1
<1>3. Owns(w, at[w])
  BY <1>1 DEF HasFile, AtFile, Owns, OrderingOwned, HoldsOrdering
<1>4. (step[w] = "entry" \/ ~ ReleasesStoreEarly(Task(w))) => storeMutex = w
  BY <1>1 DEF StoreOwned, HoldsStore
<1>5. Task(w) = "write" => ~ isBeingWritten[at[w]]
  BY <1>1 DEF HasFile, AtFile, WriteClear, HoldsOrdering
<1> QED
  BY <1>1, <1>2, <1>3, <1>4, <1>5

-----------------------------------------------------------------------------
\* Each action keeps the rules

\* A worker that takes a request has nothing yet.
LEMMA DequeueRules ==
  ASSUME IInv, NEW w \in Workers, NEW q \in Requests, Dequeue(w, q)
  PROVE  LiveStep(w)
<1> USE DEF IInv
<1>1. Moved(w, "store", q, NoFile)
  BY GotoFacts DEF Dequeue, Moved, OthersStay, TypeOK, Steps, Located, LocatedAt
<1>2. /\ step[w] = "idle" /\ at[w] = NoFile
      /\ UNCHANGED <<stored, isBeingWritten, activeReaders, ordering>>
      /\ storeMutex' = storeMutex
  BY DEF Dequeue, Located, LocatedAt, fileVars
<1>3. TypeOK'
  BY <1>1, <1>2 DEF Moved, TypeOK, Dequeue, fileVars
<1>4. StoreRule(w) /\ OrderingRule(w)
  BY <1>1, <1>2 DEF Moved, StoreRule, OrderingRule, HoldsStore, HoldsOrdering,
     Task, ReleasesStoreEarly, Owns
<1>5. MarkRule(w) /\ ReadRule(w)
  BY <1>1, <1>2, CalmStep DEF Moved, Writes
<1>6. FileRule(w)
  BY <1>1, <1>2, <1>3, FilesAssumption
  DEF FileRule, LocatedAt, Writes, Moved, TypeOK
<1>7. TodoRule(w)
  BY <1>1, <1>2 DEF TodoRule, TodoStored, TodoAt, Moved, TypeOK, Dequeue
<1> QED
  BY <1>1, <1>2, <1>3, <1>4, <1>5, <1>6, <1>7 DEF LiveStep, Moved

\* An early return after findFile.
LEMMA LookupFailsRules ==
  ASSUME IInv, NEW w \in Workers, LookupFails(w)
  PROVE  LiveStep(w)
<1> USE DEF IInv
<1>1. Moved(w, "idle", NoRequest, NoFile)
  BY FinishFacts DEF LookupFails
<1>2. /\ step[w] = "store" /\ at[w] = NoFile /\ storeMutex = NoWorker
      /\ UNCHANGED <<stored, isBeingWritten, activeReaders, ordering>>
      /\ storeMutex' = storeMutex
  BY DEF LookupFails, AtStore, Located, LocatedAt, fileVars
<1>3. TypeOK'
  BY <1>1, <1>2 DEF Moved, TypeOK, LookupFails, fileVars
<1>4. StoreRule(w) /\ OrderingRule(w)
  BY <1>1, <1>2 DEF Moved, StoreRule, OrderingRule, HoldsStore, HoldsOrdering,
     Task, ReleasesStoreEarly, Owns
<1>5. MarkRule(w) /\ ReadRule(w)
  BY <1>1, <1>2, CalmStep DEF Moved, Writes
<1>6. FileRule(w)
  BY <1>1, <1>2, <1>3, FilesAssumption
  DEF FileRule, LocatedAt, Writes, Moved, TypeOK
<1>7. TodoRule(w)
  BY <1>1, <1>2 DEF TodoRule, TodoStored, TodoAt, Moved, TypeOK, LookupFails
<1> QED
  BY <1>1, <1>2, <1>3, <1>4, <1>5, <1>6, <1>7 DEF LiveStep, Moved

\* The file is found: it stays, for the worker owns store->mutex.
LEMMA LookupSucceedsRules ==
  ASSUME IInv, NEW w \in Workers, LookupSucceeds(w)
  PROVE  LiveStep(w)
<1> USE DEF IInv
<1>1. Moved(w, "entry", req[w], req[w].file)
  BY MoveFacts DEF LookupSucceeds, TypeOK, Steps
<1>2. /\ step[w] = "store" /\ at[w] = NoFile /\ storeMutex = NoWorker
      /\ UNCHANGED <<stored, isBeingWritten, activeReaders, ordering>>
      /\ storeMutex' = w /\ req[w].file \in stored /\ req[w] \in Requests
      /\ req[w].op \in FileOps \ Creations
  BY DEF LookupSucceeds, AtStore, Located, LocatedAt, fileVars
<1>3. TypeOK'
  BY <1>1, <1>2 DEF Moved, TypeOK, LookupSucceeds, fileVars
<1>4. StoreRule(w) /\ OrderingRule(w)
  BY <1>1, <1>2 DEF Moved, StoreRule, OrderingRule, HoldsStore, HoldsOrdering,
     Task, ReleasesStoreEarly, Owns
<1>5. MarkRule(w) /\ ReadRule(w)
  BY <1>1, <1>2, CalmStep DEF Moved, Writes
<1>6. FileRule(w)
  BY <1>1, <1>2, <1>3, FilesAssumption
  DEF FileRule, LocatedAt, Writes, Moved, TypeOK
<1>7. TodoRule(w)
  BY <1>1, <1>2 DEF TodoRule, TodoStored, TodoAt, Moved, TypeOK, LookupSucceeds
<1> QED
  BY <1>1, <1>2, <1>3, <1>4, <1>5, <1>6, <1>7 DEF LiveStep, Moved

\* A creation with room for the file.
LEMMA CreateRules ==
  ASSUME IInv, NEW w \in Workers, Create(w)
  PROVE  LiveStep(w)
<1> USE DEF IInv
<1>1. Moved(w, "add", req[w], NoFile)
  BY StayFacts DEF Create, AtStore, Steps, Located, LocatedAt
<1>2. /\ step[w] = "store" /\ at[w] = NoFile /\ storeMutex = NoWorker
      /\ UNCHANGED <<stored, isBeingWritten, activeReaders, ordering>>
      /\ storeMutex' = w /\ req[w].op \in Creations /\ req[w] \in Requests
  BY DEF Create, AtStore, Located, LocatedAt, fileVars
<1>3. TypeOK'
  BY <1>1, <1>2 DEF Moved, TypeOK, Create, fileVars
<1>4. StoreRule(w) /\ OrderingRule(w)
  BY <1>1, <1>2 DEF Moved, StoreRule, OrderingRule, HoldsStore, HoldsOrdering,
     Task, ReleasesStoreEarly, Owns
<1>5. MarkRule(w) /\ ReadRule(w)
  BY <1>1, <1>2, CalmStep DEF Moved, Writes
<1>6. FileRule(w)
  BY <1>1, <1>2, <1>3, FilesAssumption
  DEF FileRule, LocatedAt, Writes, Moved, TypeOK, Creations
<1>7. TodoRule(w)
  BY <1>1, <1>2 DEF TodoRule, TodoStored, TodoAt, Moved, TypeOK, Create
<1> QED
  BY <1>1, <1>2, <1>3, <1>4, <1>5, <1>6, <1>7 DEF LiveStep, Moved

\* A creation that picks a victim.
LEMMA CreateEvictingRules ==
  ASSUME IInv, NEW w \in Workers, NEW victim \in Files,
         CreateEvicting(w, victim)
  PROVE  LiveStep(w)
<1> USE DEF IInv
<1>1. Moved(w, "entry", req[w], victim)
  BY MoveFacts DEF CreateEvicting, TypeOK, Steps
<1>2. /\ step[w] = "store" /\ at[w] = NoFile /\ storeMutex = NoWorker
      /\ UNCHANGED <<stored, isBeingWritten, activeReaders, ordering>>
      /\ storeMutex' = w /\ req[w].op \in Creations /\ req[w] \in Requests
      /\ victim \in stored
  BY DEF CreateEvicting, AtStore, Located, LocatedAt, fileVars
<1>3. TypeOK'
  BY <1>1, <1>2 DEF Moved, TypeOK, CreateEvicting, fileVars
<1>4. StoreRule(w) /\ OrderingRule(w)
  BY <1>1, <1>2 DEF Moved, StoreRule, OrderingRule, HoldsStore, HoldsOrdering,
     Task, ReleasesStoreEarly, Owns
<1>5. MarkRule(w) /\ ReadRule(w)
  BY <1>1, <1>2, CalmStep DEF Moved, Writes, Creations
<1>6. FileRule(w)
  BY <1>1, <1>2, <1>3, FilesAssumption
  DEF FileRule, LocatedAt, Writes, Moved, TypeOK, Creations
<1>7. TodoRule(w)
  BY <1>1, <1>2 DEF TodoRule, TodoStored, TodoAt, Moved, TypeOK, CreateEvicting
<1> QED
  BY <1>1, <1>2, <1>3, <1>4, <1>5, <1>6, <1>7 DEF LiveStep, Moved

\* The new file comes in while the worker owns store->mutex.
LEMMA AddFileRules ==
  ASSUME IInv, NEW w \in Workers, AddFile(w)
  PROVE  LiveStep(w)
<1> USE DEF IInv
<1>1. Moved(w, "idle", NoRequest, NoFile)
  BY FinishFacts DEF AddFile
<1>2. /\ step[w] = "add" /\ storeMutex = w
      /\ UNCHANGED <<isBeingWritten, activeReaders, ordering>>
      /\ storeMutex' = NoWorker
      /\ req[w] \in Requests /\ req[w].op \in Creations
      /\ stored' = stored \union {req[w].file}
  BY DEF AddFile, Located, LocatedAt, StoreOwned, HoldsStore, ReleaseStore
<1>3. TypeOK'
  BY <1>1, <1>2 DEF Moved, TypeOK, AddFile, Requests, Creations, StoreOps, NoRequest
<1>4. StoreRule(w) /\ OrderingRule(w)
  BY <1>1, <1>2 DEF Moved, StoreRule, OrderingRule, HoldsStore, HoldsOrdering,
     Task, ReleasesStoreEarly, Owns
<1>5. MarkRule(w) /\ ReadRule(w)
  BY <1>1, <1>2, CalmStep DEF Moved, Writes
<1>6. FileRule(w)
  BY <1>1, <1>2, <1>3, FilesAssumption
  DEF FileRule, LocatedAt, Writes, Moved, TypeOK
<1>7. TodoRule(w)
  BY <1>1, <1>2 DEF TodoRule, TodoStored, TodoAt, Moved, TypeOK, AddFile
<1> QED
  BY <1>1, <1>2, <1>3, <1>4, <1>5, <1>6, <1>7 DEF LiveStep, Moved

\* An exit or a reading of all files begins.
LEMMA ScanStoreRules ==
  ASSUME IInv, NEW w \in Workers, ScanStore(w)
  PROVE  LiveStep(w)
<1> USE DEF IInv
<1>1. Moved(w, "scan", req[w], NoFile)
  BY StayFacts DEF ScanStore, AtStore, Steps, Located, LocatedAt
<1>2. /\ step[w] = "store" /\ at[w] = NoFile /\ storeMutex = NoWorker
      /\ UNCHANGED <<stored, isBeingWritten, activeReaders, ordering>>
      /\ storeMutex' = w /\ req[w].op \in StoreOps /\ req[w] \in Requests
  BY DEF ScanStore, AtStore, Located, LocatedAt, fileVars
<1>3. TypeOK'
  BY <1>1, <1>2 DEF Moved, TypeOK, ScanStore, fileVars
<1>4. StoreRule(w) /\ OrderingRule(w)
  BY <1>1, <1>2 DEF Moved, StoreRule, OrderingRule, HoldsStore, HoldsOrdering,
     Task, ReleasesStoreEarly, Owns
<1>5. MarkRule(w) /\ ReadRule(w)
  BY <1>1, <1>2, CalmStep DEF Moved, Writes
<1>6. FileRule(w)
  BY <1>1, <1>2, <1>3, FilesAssumption
  DEF FileRule, LocatedAt, Writes, Moved, TypeOK, StoreOps
<1>7. TodoRule(w)
  BY <1>1, <1>2 DEF TodoRule, TodoStored, TodoAt, Moved, TypeOK, ScanStore
<1> QED
  BY <1>1, <1>2, <1>3, <1>4, <1>5, <1>6, <1>7 DEF LiveStep, Moved

\* An exit goes on with a file that is still there.
LEMMA ScanNextRules ==
  ASSUME IInv, NEW w \in Workers, NEW f \in Files, ScanNext(w, f)
  PROVE  LiveStep(w)
<1> USE DEF IInv
<1>1. Moved(w, "entry", req[w], f)
  BY MoveFacts DEF ScanNext, TypeOK, Steps
<1>2. /\ step[w] = "scan" /\ storeMutex = w
      /\ UNCHANGED <<stored, isBeingWritten, activeReaders, ordering>>
      /\ storeMutex' = storeMutex
      /\ req[w] \in Requests /\ req[w].op \in StoreOps /\ f \in stored
  BY DEF ScanNext, Located, LocatedAt, TodoStored, TodoAt, fileVars, StoreOwned,
     HoldsStore
<1>3. TypeOK'
  BY <1>1, <1>2 DEF Moved, TypeOK, ScanNext, fileVars
<1>4. StoreRule(w) /\ OrderingRule(w)
  BY <1>1, <1>2 DEF Moved, StoreRule, OrderingRule, HoldsStore, HoldsOrdering,
     Task, ReleasesStoreEarly, Owns
<1>5. MarkRule(w) /\ ReadRule(w)
  BY <1>1, <1>2, CalmStep DEF Moved, Writes, StoreOps
<1>6. FileRule(w)
  BY <1>1, <1>2, <1>3, FilesAssumption
  DEF FileRule, LocatedAt, Writes, Moved, TypeOK, StoreOps
<1>7. TodoRule(w)
  BY <1>1, <1>2 DEF TodoRule, TodoStored, TodoAt, Moved, TypeOK, ScanNext
<1> QED
  BY <1>1, <1>2, <1>3, <1>4, <1>5, <1>6, <1>7 DEF LiveStep, Moved

\* An exit or a reading of all files ends.
LEMMA EndScanRules ==
  ASSUME IInv, NEW w \in Workers, EndScan(w)
  PROVE  LiveStep(w)
<1> USE DEF IInv
<1>1. Moved(w, "idle", NoRequest, NoFile)
  BY FinishFacts DEF EndScan
<1>2. /\ step[w] = "scan" /\ storeMutex = w
      /\ UNCHANGED <<stored, isBeingWritten, activeReaders, ordering>>
      /\ storeMutex' = NoWorker
  BY DEF EndScan, Located, LocatedAt, fileVars, StoreOwned, HoldsStore, ReleaseStore
<1>3. TypeOK'
  BY <1>1, <1>2 DEF Moved, TypeOK, EndScan, fileVars
<1>4. StoreRule(w) /\ OrderingRule(w)
  BY <1>1, <1>2 DEF Moved, StoreRule, OrderingRule, HoldsStore, HoldsOrdering,
     Task, ReleasesStoreEarly, Owns
<1>5. MarkRule(w) /\ ReadRule(w)
  BY <1>1, <1>2, CalmStep DEF Moved, Writes
<1>6. FileRule(w)
  BY <1>1, <1>2, <1>3, FilesAssumption
  DEF FileRule, LocatedAt, Writes, Moved, TypeOK
<1>7. TodoRule(w)
  BY <1>1, <1>2 DEF TodoRule, TodoStored, TodoAt, Moved, TypeOK, EndScan
<1> QED
  BY <1>1, <1>2, <1>3, <1>4, <1>5, <1>6, <1>7 DEF LiveStep, Moved

\* The file is locked by another client, or not opened.
LEMMA RefuseRules ==
  ASSUME IInv, NEW w \in Workers, Refuse(w)
  PROVE  LiveStep(w)
<1> USE DEF IInv
<1>1. Moved(w, "idle", NoRequest, NoFile)
  BY FinishFacts DEF Refuse
<1>2. /\ step[w] = "entry" /\ storeMutex = w
      /\ UNCHANGED <<stored, isBeingWritten, activeReaders, ordering>>
      /\ storeMutex' = NoWorker
      /\ req[w].op = "write" => at[w] = req[w].file
  BY DEF Refuse, AtFile, Task, fileVars, StoreOwned, HoldsStore, ReleaseStore
<1>3. TypeOK'
  BY <1>1, <1>2 DEF Moved, TypeOK, Refuse, fileVars
<1>4. StoreRule(w) /\ OrderingRule(w)
  BY <1>1, <1>2 DEF Moved, StoreRule, OrderingRule, HoldsStore, HoldsOrdering,
     Task, ReleasesStoreEarly, Owns
<1>5. MarkRule(w) /\ ReadRule(w)
  BY <1>1, <1>2, CalmStep DEF Moved, Writes
<1>6. FileRule(w)
  BY <1>1, <1>2, <1>3, FilesAssumption
  DEF FileRule, LocatedAt, Writes, Moved, TypeOK
<1>7. TodoRule(w)
  BY <1>1, <1>2 DEF TodoRule, TodoStored, TodoAt, Moved, TypeOK, Refuse, Task, Creations
<1> QED
  BY <1>1, <1>2, <1>3, <1>4, <1>5, <1>6, <1>7 DEF LiveStep, Moved

\* A worker that waits keeps `ordering`, and store->mutex unless its handler
\* gives it up.
LEMMA WaitForFileRules ==
  ASSUME IInv, NEW w \in Workers, WaitForFile(w)
  PROVE  LiveStep(w)
<1> USE DEF IInv
<1>1. Moved(w, "waiting", req[w], at[w])
  BY StayFacts DEF WaitForFile, Steps
<1>2. /\ step[w] \in {"entry", "woken"} /\ at[w] \in Files /\ at[w] \in stored
      /\ Owns(w, at[w]) /\ req[w] \in Requests
      /\ (step[w] = "entry" \/ ~ ReleasesStoreEarly(Task(w))) => storeMutex = w
      /\ (Task(w) = "write" => ~ isBeingWritten[at[w]])
      /\ UNCHANGED <<stored, isBeingWritten, activeReaders>>
      /\ ordering' = [ordering EXCEPT ![at[w]] = w]
      /\ LeaveStoreEarly(w)
  BY HasFileFacts DEF WaitForFile, fileVars
<1>3. TypeOK'
  BY <1>1, <1>2 DEF Moved, TypeOK, WaitForFile, fileVars, LeaveStoreEarly
<1>4. StoreRule(w) /\ OrderingRule(w)
  BY <1>1, <1>2 DEF Moved, StoreRule, OrderingRule, HoldsStore, HoldsOrdering,
     Task, ReleasesStoreEarly, Owns, TypeOK, LeaveStoreEarly
<1>5. MarkRule(w) /\ ReadRule(w)
  <2>1. \A f \in Files : Marks(w, f)' <=> Marks(w, f)
    BY <1>1, <1>2 DEF Moved, Marks, Writes
  <2>2. \A f \in Files : w \in ReadersOf(f)' <=> w \in ReadersOf(f)
    BY <1>1, <1>2 DEF Moved, ReadersOf
  <2>3. HoldsOrdering(w)' /\ Task(w)' = "write" => ~ isBeingWritten[at'[w]]
    BY <1>1, <1>2 DEF Moved, HoldsOrdering, Task
  <2> QED
    BY <1>2, <2>1, <2>2, <2>3, KeepsMarks
<1>6. FileRule(w)
  BY <1>1, <1>2, <1>3, FilesAssumption
  DEF FileRule, LocatedAt, Writes, Moved, TypeOK, Located, Creations, WaitForFile, MustWait, Task
<1>7. TodoRule(w)
  BY <1>1, <1>2 DEF TodoRule, TodoStored, TodoAt, Moved, TypeOK, WaitForFile, LeaveStoreEarly
<1> QED
  BY <1>1, <1>2, <1>3, <1>4, <1>5, <1>6, <1>7 DEF LiveStep, Moved

\* An open, or the test for a first write.
LEMMA OpenRules ==
  ASSUME IInv, NEW w \in Workers, Open(w)
  PROVE  LiveStep(w)
<1> USE DEF IInv
<1>1. Moved(w, "idle", NoRequest, NoFile)
  BY FinishFacts DEF Open
<1>2. /\ step[w] \in {"entry", "woken"} /\ at[w] \in Files /\ at[w] \in stored
      /\ Owns(w, at[w]) /\ req[w] \in Requests
      /\ (step[w] = "entry" \/ ~ ReleasesStoreEarly(Task(w))) => storeMutex = w
      /\ UNCHANGED <<stored, isBeingWritten, activeReaders>>
      /\ ordering' = [ordering EXCEPT ![at[w]] = NoWorker]
      /\ storeMutex' = NoWorker
      /\ storeMutex \in {w, NoWorker}
      /\ Task(w) \in {"open", "openLocked", "testFirstWrite"}
  BY HasFileFacts DEF Open, Enters, ReleaseOrdering, ReleaseStore, Located, LocatedAt,
     Task, ReleasesStoreEarly, Creations
<1>3. TypeOK'
  BY <1>1, <1>2 DEF Moved, TypeOK, Open, Requests, Creations, StoreOps, Task
<1>4. StoreRule(w) /\ OrderingRule(w)
  BY <1>1, <1>2 DEF Moved, StoreRule, OrderingRule, HoldsStore, HoldsOrdering,
     Task, ReleasesStoreEarly, Owns, TypeOK
<1>5. MarkRule(w) /\ ReadRule(w)
  BY <1>1, <1>2, CalmStep DEF Moved, Writes, Task, Creations
<1>6. FileRule(w)
  BY <1>1, <1>2, <1>3, FilesAssumption
  DEF FileRule, LocatedAt, Writes, Moved, TypeOK
<1>7. TodoRule(w)
  BY <1>1, <1>2 DEF TodoRule, TodoStored, TodoAt, Moved, TypeOK, Open, Task, Creations
<1> QED
  BY <1>1, <1>2, <1>3, <1>4, <1>5, <1>6, <1>7 DEF LiveStep, Moved

\* A requestor joins the waiting list of a file.
LEMMA ParkRules ==
  ASSUME IInv, NEW w \in Workers, Park(w)
  PROVE  LiveStep(w)
<1> USE DEF IInv
<1>1. Moved(w, "idle", NoRequest, NoFile)
  BY FinishFacts DEF Park
<1>2. /\ step[w] \in {"entry", "woken"} /\ at[w] \in Files /\ at[w] \in stored
      /\ Owns(w, at[w]) /\ req[w] \in Requests
      /\ (step[w] = "entry" \/ ~ ReleasesStoreEarly(Task(w))) => storeMutex = w
      /\ UNCHANGED <<stored, isBeingWritten, activeReaders>>
      /\ ordering' = [ordering EXCEPT ![at[w]] = NoWorker]
      /\ LeaveStoreEarly(w)
      /\ Task(w) = "lock"
  BY HasFileFacts DEF Park, Enters, ReleaseOrdering
<1>3. TypeOK'
  BY <1>1, <1>2 DEF Moved, TypeOK, Park, Requests, StoreOps, NoRequest, Task, LeaveStoreEarly
<1>4. StoreRule(w) /\ OrderingRule(w)
  BY <1>1, <1>2 DEF Moved, StoreRule, OrderingRule, HoldsStore, HoldsOrdering,
     Task, ReleasesStoreEarly, Owns, TypeOK, LeaveStoreEarly
<1>5. MarkRule(w) /\ ReadRule(w)
  BY <1>1, <1>2, CalmStep DEF Moved, Writes, Task, Creations
<1>6. FileRule(w)
  BY <1>1, <1>2, <1>3, FilesAssumption
  DEF FileRule, LocatedAt, Writes, Moved, TypeOK
<1>7. TodoRule(w)
  BY <1>1, <1>2 DEF TodoRule, TodoStored, TodoAt, Moved, TypeOK, Park, Task, Creations
<1> QED
  BY <1>1, <1>2, <1>3, <1>4, <1>5, <1>6, <1>7 DEF LiveStep, Moved

\* A lock marks a file at rest.
LEMMA StartLockRules ==
  ASSUME IInv, NEW w \in Workers, StartLock(w)
  PROVE  LiveStep(w)
<1> USE DEF IInv
<1>1. Moved(w, "inside", req[w], at[w])
  BY StayFacts DEF StartLock, Steps
<1>2. /\ step[w] \in {"entry", "woken"} /\ at[w] \in Files /\ at[w] \in stored
      /\ Owns(w, at[w]) /\ req[w] \in Requests
      /\ (step[w] = "entry" \/ ~ ReleasesStoreEarly(Task(w))) => storeMutex = w
      /\ UNCHANGED <<stored, activeReaders>>
      /\ ordering' = [ordering EXCEPT ![at[w]] = NoWorker]
      /\ isBeingWritten' = [isBeingWritten EXCEPT ![at[w]] = TRUE]
      /\ LeaveStoreEarly(w)
      /\ Task(w) = "lock" /\ req[w].op = "lock" /\ at[w] = req[w].file
      /\ ~ isBeingWritten[at[w]] /\ ~ activeReaders[at[w]] > 0
  BY HasFileFacts DEF StartLock, Enters, ReleaseOrdering, MustWait, Task, Located,
     LocatedAt, Creations
<1>3. TypeOK'
  BY <1>1, <1>2 DEF Moved, TypeOK, StartLock, LeaveStoreEarly
<1>4. StoreRule(w) /\ OrderingRule(w)
  BY <1>1, <1>2 DEF Moved, StoreRule, OrderingRule, HoldsStore, HoldsOrdering,
     Task, ReleasesStoreEarly, Owns, TypeOK, LeaveStoreEarly
<1>5. MarkRule(w) /\ ReadRule(w)
  <2>1. \A f \in Files : Marks(w, f)' <=> (Marks(w, f) \/ f = at[w])
    BY <1>1, <1>2 DEF Moved, Marks, Writes, Task
  <2>2. \A f \in Files : w \in ReadersOf(f)' <=> w \in ReadersOf(f)
    BY <1>1, <1>2 DEF Moved, ReadersOf
  <2>3. ~ HoldsOrdering(w)'
    BY <1>1 DEF Moved, HoldsOrdering
  <2>4. MarkRule(w)
    BY <1>2, <2>1, <2>3 DEF MarkRule, Marked, TypeOK
  <2>5. ReadRule(w)
    BY <1>2, <2>2 DEF ReadRule
  <2> QED
    BY <2>4, <2>5
<1>6. FileRule(w)
  BY <1>1, <1>2, <1>3, FilesAssumption
  DEF FileRule, LocatedAt, Writes, Moved, TypeOK
<1>7. TodoRule(w)
  BY <1>1, <1>2 DEF TodoRule, TodoStored, TodoAt, Moved, TypeOK, StartLock, Task, Creations
<1> QED
  BY <1>1, <1>2, <1>3, <1>4, <1>5, <1>6, <1>7 DEF LiveStep, Moved

\* A write or a close marks a file at rest.
LEMMA StartWriteOrCloseRules ==
  ASSUME IInv, NEW w \in Workers, StartWriteOrClose(w)
  PROVE  LiveStep(w)
<1> USE DEF IInv
<1>1. Moved(w, "inside", req[w], at[w])
  BY StayFacts DEF StartWriteOrClose, Steps
<1>2. /\ step[w] \in {"entry", "woken"} /\ at[w] \in Files /\ at[w] \in stored
      /\ Owns(w, at[w]) /\ req[w] \in Requests
      /\ (step[w] = "entry" \/ ~ ReleasesStoreEarly(Task(w))) => storeMutex = w
      /\ UNCHANGED <<stored, activeReaders>>
      /\ ordering' = [ordering EXCEPT ![at[w]] = NoWorker]
      /\ isBeingWritten' = [isBeingWritten EXCEPT ![at[w]] = TRUE]
      /\ storeMutex' = storeMutex
      /\ Task(w) = req[w].op /\ req[w].op \in {"write", "close"}
      /\ at[w] = req[w].file
      /\ ~ isBeingWritten[at[w]] /\ ~ activeReaders[at[w]] > 0
  BY HasFileFacts DEF StartWriteOrClose, Enters, ReleaseOrdering, MustWait, Task,
     Located, LocatedAt, Creations
<1>3. TypeOK'
  BY <1>1, <1>2 DEF Moved, TypeOK, StartWriteOrClose
<1>4. StoreRule(w) /\ OrderingRule(w)
  BY <1>1, <1>2 DEF Moved, StoreRule, OrderingRule, HoldsStore, HoldsOrdering,
     Task, ReleasesStoreEarly, Owns, TypeOK
<1>5. MarkRule(w) /\ ReadRule(w)
  <2>1. \A f \in Files : Marks(w, f)' <=> (Marks(w, f) \/ f = at[w])
    BY <1>1, <1>2 DEF Moved, Marks, Writes, Task
  <2>2. \A f \in Files : w \in ReadersOf(f)' <=> w \in ReadersOf(f)
    BY <1>1, <1>2 DEF Moved, ReadersOf
  <2>3. ~ HoldsOrdering(w)'
    BY <1>1 DEF Moved, HoldsOrdering
  <2>4. MarkRule(w)
    BY <1>2, <2>1, <2>3 DEF MarkRule, Marked, TypeOK
  <2>5. ReadRule(w)
    BY <1>2, <2>2 DEF ReadRule
  <2> QED
    BY <2>4, <2>5
<1>6. FileRule(w)
  BY <1>1, <1>2, <1>3, FilesAssumption
  DEF FileRule, LocatedAt, Writes, Moved, TypeOK
<1>7. TodoRule(w)
  BY <1>1, <1>2 DEF TodoRule, TodoStored, TodoAt, Moved, TypeOK, StartWriteOrClose, Task, Creations
<1> QED
  BY <1>1, <1>2, <1>3, <1>4, <1>5, <1>6, <1>7 DEF LiveStep, Moved

\* A write or a close removes its own mark.
LEMMA EndWriteOrCloseRules ==
  ASSUME IInv, NEW w \in Workers, EndWriteOrClose(w)
  PROVE  LiveStep(w)
<1> USE DEF IInv
<1>1. Moved(w, "idle", NoRequest, NoFile)
  BY FinishFacts DEF EndWriteOrClose, Waiters
<1>2. /\ step[w] = "inside" /\ at[w] = req[w].file /\ at[w] \in Files
      /\ req[w].op \in {"write", "close"} /\ storeMutex = w
      /\ UNCHANGED <<stored, activeReaders, ordering>>
      /\ isBeingWritten' = [isBeingWritten EXCEPT ![at[w]] = FALSE]
      /\ storeMutex' = NoWorker
  BY DEF EndWriteOrClose, ReleaseStore, Located, LocatedAt, StoreOwned, HoldsStore, TypeOK
<1>3. TypeOK'
  BY <1>1, <1>2 DEF Moved, TypeOK, EndWriteOrClose
<1>4. StoreRule(w) /\ OrderingRule(w)
  BY <1>1, <1>2 DEF Moved, StoreRule, OrderingRule, HoldsStore, HoldsOrdering,
     Task, ReleasesStoreEarly, Owns, TypeOK
<1>5. MarkRule(w) /\ ReadRule(w)
  <2>1. \A f \in Files : ~ Marks(w, f)' /\ (Marks(w, f) <=> f = at[w])
    BY <1>1, <1>2 DEF Moved, Marks, Writes
  <2>2. \A f \in Files : w \in ReadersOf(f)' <=> w \in ReadersOf(f)
    BY <1>1, <1>2 DEF Moved, ReadersOf
  <2>3. ~ HoldsOrdering(w)'
    BY <1>1 DEF Moved, HoldsOrdering
  <2>4. MarkRule(w)
    BY <1>2, <2>1, <2>3 DEF MarkRule, TypeOK
  <2>5. ReadRule(w)
    BY <1>2, <2>2 DEF ReadRule
  <2> QED
    BY <2>4, <2>5
<1>6. FileRule(w)
  BY <1>1, <1>2, <1>3, FilesAssumption
  DEF FileRule, LocatedAt, Writes, Moved, TypeOK
<1>7. TodoRule(w)
  BY <1>1, <1>2 DEF TodoRule, TodoStored, TodoAt, Moved, TypeOK, EndWriteOrClose
<1> QED
  BY <1>1, <1>2, <1>3, <1>4, <1>5, <1>6, <1>7 DEF LiveStep, Moved

\* lockedBy is assigned under the mark.
LEMMA SetLockRules ==
  ASSUME IInv, NEW w \in Workers, SetLock(w)
  PROVE  LiveStep(w)
<1> USE DEF IInv
<1>1. Moved(w, "locked", req[w], at[w])
  BY StayFacts DEF SetLock, Steps
<1>2. /\ step[w] = "inside" /\ at[w] = req[w].file /\ at[w] \in stored
      /\ req[w].op = "lock" /\ req[w] \in Requests
      /\ UNCHANGED <<stored, isBeingWritten, activeReaders, ordering, storeMutex>>
  BY DEF SetLock, Located, LocatedAt, TypeOK
<1>3. TypeOK'
  BY <1>1, <1>2 DEF Moved, TypeOK, SetLock, Requests, StoreOps, NoRequest
<1>4. StoreRule(w) /\ OrderingRule(w)
  BY <1>1, <1>2 DEF Moved, StoreRule, OrderingRule, HoldsStore, HoldsOrdering,
     Task, ReleasesStoreEarly, Owns, TypeOK
<1>5. MarkRule(w) /\ ReadRule(w)
  <2>1. \A f \in Files : Marks(w, f)' <=> Marks(w, f)
    BY <1>1, <1>2 DEF Moved, Marks, Writes
  <2>2. \A f \in Files : w \in ReadersOf(f)' <=> w \in ReadersOf(f)
    BY <1>1, <1>2 DEF Moved, ReadersOf
  <2>3. HoldsOrdering(w)' /\ Task(w)' = "write" => ~ isBeingWritten[at'[w]]
    BY <1>1, <1>2 DEF Moved, HoldsOrdering, Task
  <2> QED
    BY <1>2, <2>1, <2>2, <2>3, KeepsMarks
<1>6. FileRule(w)
  BY <1>1, <1>2, <1>3, FilesAssumption
  DEF FileRule, LocatedAt, Writes, Moved, TypeOK
<1>7. TodoRule(w)
  BY <1>1, <1>2 DEF TodoRule, TodoStored, TodoAt, Moved, TypeOK, SetLock
<1> QED
  BY <1>1, <1>2, <1>3, <1>4, <1>5, <1>6, <1>7 DEF LiveStep, Moved

\* A lock removes its own mark.
LEMMA EndLockRules ==
  ASSUME IInv, NEW w \in Workers, EndLock(w)
  PROVE  LiveStep(w)
<1> USE DEF IInv
<1>1. Moved(w, "idle", NoRequest, NoFile)
  BY FinishFacts DEF EndLock, Waiters
<1>2. /\ step[w] = "locked" /\ req[w].op = "lock" /\ at[w] \in Files
      /\ UNCHANGED <<stored, activeReaders, ordering, storeMutex>>
      /\ isBeingWritten' = [isBeingWritten EXCEPT ![at[w]] = FALSE]
  BY DEF EndLock, Located, LocatedAt, TypeOK
<1>3. TypeOK'
  BY <1>1, <1>2 DEF Moved, TypeOK, EndLock
<1>4. StoreRule(w) /\ OrderingRule(w)
  BY <1>1, <1>2 DEF Moved, StoreRule, OrderingRule, HoldsStore, HoldsOrdering,
     Task, ReleasesStoreEarly, Owns, TypeOK
<1>5. MarkRule(w) /\ ReadRule(w)
  <2>1. \A f \in Files : ~ Marks(w, f)' /\ (Marks(w, f) <=> f = at[w])
    BY <1>1, <1>2 DEF Moved, Marks, Writes
  <2>2. \A f \in Files : w \in ReadersOf(f)' <=> w \in ReadersOf(f)
    BY <1>1, <1>2 DEF Moved, ReadersOf
  <2>3. ~ HoldsOrdering(w)'
    BY <1>1 DEF Moved, HoldsOrdering
  <2>4. MarkRule(w)
    BY <1>2, <2>1, <2>3 DEF MarkRule, TypeOK
  <2>5. ReadRule(w)
    BY <1>2, <2>2 DEF ReadRule
  <2> QED
    BY <2>4, <2>5
<1>6. FileRule(w)
  BY <1>1, <1>2, <1>3, FilesAssumption
  DEF FileRule, LocatedAt, Writes, Moved, TypeOK
<1>7. TodoRule(w)
  BY <1>1, <1>2 DEF TodoRule, TodoStored, TodoAt, Moved, TypeOK, EndLock
<1> QED
  BY <1>1, <1>2, <1>3, <1>4, <1>5, <1>6, <1>7 DEF LiveStep, Moved

\* A write keeps its mark while it goes and destroys another file.
LEMMA EvictRules ==
  ASSUME IInv, NEW w \in Workers, NEW victim \in Files, Evict(w, victim)
  PROVE  LiveStep(w)
<1> USE DEF IInv
<1>1. Moved(w, "entry", req[w], victim)
  BY MoveFacts DEF Evict, Steps
<1>2. /\ step[w] = "inside" /\ at[w] = req[w].file /\ at[w] \in stored
      /\ req[w].op = "write" /\ req[w] \in Requests /\ storeMutex = w
      /\ victim \in stored /\ victim # req[w].file
      /\ UNCHANGED <<stored, isBeingWritten, activeReaders, ordering, storeMutex>>
  BY DEF Evict, Located, LocatedAt, StoreOwned, HoldsStore, fileVars
<1>3. TypeOK'
  BY <1>1, <1>2 DEF Moved, TypeOK, Evict, fileVars
<1>4. StoreRule(w) /\ OrderingRule(w)
  BY <1>1, <1>2 DEF Moved, StoreRule, OrderingRule, HoldsStore, HoldsOrdering,
     Task, ReleasesStoreEarly, Owns, TypeOK
<1>5. MarkRule(w) /\ ReadRule(w)
  <2>1. \A f \in Files : Marks(w, f)' <=> Marks(w, f)
    BY <1>1, <1>2 DEF Moved, Marks, Writes
  <2>2. \A f \in Files : w \in ReadersOf(f)' <=> w \in ReadersOf(f)
    BY <1>1, <1>2 DEF Moved, ReadersOf
  <2>3. HoldsOrdering(w)' /\ Task(w)' = "write" => ~ isBeingWritten[at'[w]]
    BY <1>1, <1>2 DEF Moved, HoldsOrdering, Task
  <2> QED
    BY <1>2, <2>1, <2>2, <2>3, KeepsMarks
<1>6. FileRule(w)
  BY <1>1, <1>2, <1>3, FilesAssumption
  DEF FileRule, LocatedAt, Writes, Moved, TypeOK
<1>7. TodoRule(w)
  BY <1>1, <1>2 DEF TodoRule, TodoStored, TodoAt, Moved, TypeOK, Evict
<1> QED
  BY <1>1, <1>2, <1>3, <1>4, <1>5, <1>6, <1>7 DEF LiveStep, Moved

\* A thread that wakes for no reason still owns what it owned.
LEMMA SpuriousWakeupRules ==
  ASSUME IInv, NEW w \in Workers, SpuriousWakeup(w)
  PROVE  LiveStep(w)
<1> USE DEF IInv
<1>1. Moved(w, "woken", req[w], at[w])
  BY StayFacts DEF SpuriousWakeup, Steps
<1>2. /\ step[w] = "waiting" /\ at[w] \in stored /\ req[w] \in Requests
      /\ ordering[at[w]] = w
      /\ HoldsOrdering(w) /\ (HoldsStore(w) => storeMutex = w)
      /\ UNCHANGED <<stored, isBeingWritten, activeReaders, ordering, storeMutex>>
  BY DEF SpuriousWakeup, Located, LocatedAt, OrderingOwned, HoldsOrdering, StoreOwned,
     fileVars
<1>3. TypeOK'
  BY <1>1, <1>2 DEF Moved, TypeOK, SpuriousWakeup, fileVars
<1>4. StoreRule(w) /\ OrderingRule(w)
  BY <1>1, <1>2 DEF Moved, StoreRule, OrderingRule, HoldsStore, HoldsOrdering,
     Task, ReleasesStoreEarly, Owns, TypeOK
<1>5. MarkRule(w) /\ ReadRule(w)
  <2>1. \A f \in Files : Marks(w, f)' <=> Marks(w, f)
    BY <1>1, <1>2 DEF Moved, Marks, Writes
  <2>2. \A f \in Files : w \in ReadersOf(f)' <=> w \in ReadersOf(f)
    BY <1>1, <1>2 DEF Moved, ReadersOf
  <2>3. HoldsOrdering(w)' /\ Task(w)' = "write" => ~ isBeingWritten[at'[w]]
    BY <1>1, <1>2 DEF Moved, HoldsOrdering, Task, WriteClear
  <2> QED
    BY <1>2, <2>1, <2>2, <2>3, KeepsMarks
<1>6. FileRule(w)
  BY <1>1, <1>2, <1>3, FilesAssumption
  DEF FileRule, LocatedAt, Writes, Moved, TypeOK, Located, SpuriousWakeup
<1>7. TodoRule(w)
  BY <1>1, <1>2 DEF TodoRule, TodoStored, TodoAt, Moved, TypeOK, SpuriousWakeup
<1> QED
  BY <1>1, <1>2, <1>3, <1>4, <1>5, <1>6, <1>7 DEF LiveStep, Moved

\* A lock is passed on.
LEMMA UnlockRules ==
  ASSUME IInv, NEW w \in Workers, Unlock(w)
  PROVE  LiveStep(w)
<1> USE DEF IInv
<1>1. Moved(w, "idle", NoRequest, NoFile)
  BY FinishFacts DEF Unlock, Waiters, Enters, HasFile, AtFile
<1>2. /\ step[w] \in {"entry", "woken"} /\ at[w] \in Files /\ at[w] \in stored
      /\ Owns(w, at[w]) /\ req[w] \in Requests
      /\ (step[w] = "entry" \/ ~ ReleasesStoreEarly(Task(w))) => storeMutex = w
      /\ UNCHANGED <<stored, isBeingWritten, activeReaders>>
      /\ ordering' = [ordering EXCEPT ![at[w]] = NoWorker]
      /\ LeaveStoreEarly(w)
      /\ Task(w) = "unlock"
  BY HasFileFacts DEF Unlock, Enters, ReleaseOrdering
<1>3. TypeOK'
  BY <1>1, <1>2 DEF Moved, TypeOK, Unlock, LeaveStoreEarly, NextHolder, StillPending
<1>4. StoreRule(w) /\ OrderingRule(w)
  BY <1>1, <1>2 DEF Moved, StoreRule, OrderingRule, HoldsStore, HoldsOrdering,
     Task, ReleasesStoreEarly, Owns, TypeOK, LeaveStoreEarly
<1>5. MarkRule(w) /\ ReadRule(w)
  BY <1>1, <1>2, CalmStep DEF Moved, Writes, Task, Creations
<1>6. FileRule(w)
  BY <1>1, <1>2, <1>3, FilesAssumption
  DEF FileRule, LocatedAt, Writes, Moved, TypeOK
<1>7. TodoRule(w)
  BY <1>1, <1>2 DEF TodoRule, TodoStored, TodoAt, Moved, TypeOK, Unlock, Task, Creations
<1> QED
  BY <1>1, <1>2, <1>3, <1>4, <1>5, <1>6, <1>7 DEF LiveStep, Moved

\* A leaving client is removed from one file.
LEMMA ExitFileRules ==
  ASSUME IInv, NEW w \in Workers, ExitFile(w)
  PROVE  LiveStep(w)
<1> USE DEF IInv
<1>1. Moved(w, "scan", req[w], NoFile)
  BY MoveFacts DEF ExitFile, Steps
<1>2. /\ step[w] \in {"entry", "woken"} /\ at[w] \in Files /\ at[w] \in stored
      /\ Owns(w, at[w]) /\ req[w] \in Requests
      /\ (step[w] = "entry" \/ ~ ReleasesStoreEarly(Task(w))) => storeMutex = w
      /\ UNCHANGED <<stored, isBeingWritten, activeReaders>>
      /\ ordering' = [ordering EXCEPT ![at[w]] = NoWorker]
      /\ storeMutex' = storeMutex
      /\ Task(w) = "exit" /\ req[w].op = "exit"
  BY HasFileFacts DEF ExitFile, Enters, ReleaseOrdering, Task
<1>3. TypeOK'
  <2> DEFINE f == at[w]
             rest == IF lockedBy[f] = req[w].fd THEN StillPending(f)
                                                ELSE pendingLocks[f]
  <2>1. /\ pendingLocks[f] \in Seq(Fds) /\ rest \in Seq(Fds)
        /\ NextHolder(f) \in Fds \union {NoFd}
    BY <1>2 DEF TypeOK, StillPending, NextHolder
  <2>2. RemoveFirst(rest, req[w].fd) \in Seq(Fds)
    BY <2>1, RemoveFirstType, Zenon
  <2>3. pendingLocks' = [pendingLocks EXCEPT ![f] = RemoveFirst(rest, req[w].fd)]
    BY DEF ExitFile
  <2>4. pendingLocks' \in [Files -> Seq(Fds)]
    BY <2>2, <2>3 DEF TypeOK
  <2>5. lockedBy' \in [Files -> Fds \union {NoFd}]
    BY <2>1 DEF ExitFile, TypeOK
  <2> QED
    BY <1>1, <1>2, <2>4, <2>5 DEF Moved, TypeOK, ExitFile
<1>4. StoreRule(w) /\ OrderingRule(w)
  BY <1>1, <1>2 DEF Moved, StoreRule, OrderingRule, HoldsStore, HoldsOrdering,
     Task, ReleasesStoreEarly, Owns, TypeOK
<1>5. MarkRule(w) /\ ReadRule(w)
  BY <1>1, <1>2, CalmStep DEF Moved, Writes, Task, Creations
<1>6. FileRule(w)
  BY <1>1, <1>2, <1>3, FilesAssumption
  DEF FileRule, LocatedAt, Writes, Moved, TypeOK, StoreOps
<1>7. TodoRule(w)
  BY <1>1, <1>2 DEF TodoRule, TodoStored, TodoAt, Moved, TypeOK, ExitFile, Task, Creations
<1> QED
  BY <1>1, <1>2, <1>3, <1>4, <1>5, <1>6, <1>7 DEF LiveStep, Moved

\* A read counts itself.
LEMMA StartReadRules ==
  ASSUME IInv, NEW w \in Workers, StartRead(w)
  PROVE  LiveStep(w)
<1> USE DEF IInv
<1>1. Moved(w, "inside", req[w], at[w])
  BY StayFacts DEF StartRead, Steps
<1>2. /\ step[w] \in {"entry", "woken"} /\ at[w] \in Files /\ at[w] \in stored
      /\ Owns(w, at[w]) /\ req[w] \in Requests
      /\ (step[w] = "entry" \/ ~ ReleasesStoreEarly(Task(w))) => storeMutex = w
      /\ UNCHANGED <<stored, isBeingWritten>>
      /\ ordering' = [ordering EXCEPT ![at[w]] = NoWorker]
      /\ activeReaders' = [activeReaders EXCEPT ![at[w]] = @ + 1]
      /\ LeaveStoreEarly(w)
      /\ Task(w) = "read" /\ req[w].op = "read" /\ at[w] = req[w].file
      /\ ~ isBeingWritten[at[w]]
  BY HasFileFacts DEF StartRead, Enters, ReleaseOrdering, MustWait, Task,
     Located, LocatedAt, Creations
<1>3. TypeOK'
  BY <1>1, <1>2 DEF Moved, TypeOK, StartRead, LeaveStoreEarly
<1>4. StoreRule(w) /\ OrderingRule(w)
  BY <1>1, <1>2 DEF Moved, StoreRule, OrderingRule, HoldsStore, HoldsOrdering,
     Task, ReleasesStoreEarly, Owns, TypeOK, LeaveStoreEarly
<1>5. MarkRule(w) /\ ReadRule(w)
  <2>1. \A f \in Files : Marks(w, f)' <=> Marks(w, f)
    BY <1>1, <1>2 DEF Moved, Marks, Writes
  <2>2. \A f \in Files : /\ w \in ReadersOf(f)' <=> f = at[w]
                         /\ w \notin ReadersOf(f)
    BY <1>1, <1>2 DEF Moved, ReadersOf
  <2>3. ~ HoldsOrdering(w)'
    BY <1>1 DEF Moved, HoldsOrdering
  <2>4. MarkRule(w)
    BY <1>2, <2>1, <2>3 DEF MarkRule, Marked
  <2>5. ReadRule(w)
    BY <1>2, <2>2 DEF ReadRule, TypeOK
  <2> QED
    BY <2>4, <2>5
<1>6. FileRule(w)
  BY <1>1, <1>2, <1>3, FilesAssumption
  DEF FileRule, LocatedAt, Writes, Moved, TypeOK
<1>7. TodoRule(w)
  BY <1>1, <1>2 DEF TodoRule, TodoStored, TodoAt, Moved, TypeOK, StartRead, Task, Creations
<1> QED
  BY <1>1, <1>2, <1>3, <1>4, <1>5, <1>6, <1>7 DEF LiveStep, Moved

\* A read that ends was counted.
LEMMA EndReadRules ==
  ASSUME IInv, NEW w \in Workers, EndRead(w)
  PROVE  LiveStep(w)
<1> USE DEF IInv
<1>1. Moved(w, "idle", NoRequest, NoFile)
  <2>1. PICK W \in SUBSET Waiters(at[w]) : Finish(w, W)
    BY DEF EndRead
  <2>2. \A x \in W : x # w /\ step[x] = "waiting"
    BY DEF EndRead, Waiters
  <2> QED
    BY <2>1, <2>2, FinishFacts
<1>2. /\ step[w] = "inside" /\ req[w].op = "read" /\ at[w] \in Files
      /\ UNCHANGED <<stored, isBeingWritten, ordering, storeMutex>>
      /\ activeReaders' = [activeReaders EXCEPT ![at[w]] = @ - 1]
  BY DEF EndRead, Located, LocatedAt, TypeOK
<1>3. TypeOK'
  <2>1. w \in ReadersOf(at[w])
    BY <1>2 DEF ReadersOf
  <2>2. IsFiniteSet(ReadersOf(at[w]))
    BY WorkersAssumption, FS_Subset DEF ReadersOf
  <2>3. activeReaders[at[w]] = Cardinality(ReadersOf(at[w]))
    BY <1>2 DEF ReadersCounted, Alive, DeadTogether
  <2>4. activeReaders[at[w]] # 0 /\ activeReaders[at[w]] \in Nat
    BY <1>2, <2>1, <2>2, <2>3, FS_EmptySet DEF TypeOK
  <2>5. activeReaders' \in [Files -> Nat]
    BY <1>2, <2>4 DEF TypeOK
  <2> QED
    BY <1>1, <1>2, <2>5 DEF Moved, TypeOK, EndRead
<1>4. StoreRule(w) /\ OrderingRule(w)
  BY <1>1, <1>2 DEF Moved, StoreRule, OrderingRule, HoldsStore, HoldsOrdering,
     Task, ReleasesStoreEarly, Owns, TypeOK
<1>5. MarkRule(w) /\ ReadRule(w)
  <2>1. \A f \in Files : Marks(w, f)' <=> Marks(w, f)
    BY <1>1, <1>2 DEF Moved, Marks, Writes
  <2>2. \A f \in Files : /\ w \notin ReadersOf(f)'
                         /\ w \in ReadersOf(f) <=> f = at[w]
    BY <1>1, <1>2 DEF Moved, ReadersOf
  <2>3. ~ HoldsOrdering(w)'
    BY <1>1 DEF Moved, HoldsOrdering
  <2>4. MarkRule(w)
    BY <1>2, <2>1, <2>3 DEF MarkRule, Marked
  <2>5. ReadRule(w)
    BY <1>2, <2>2 DEF ReadRule, TypeOK
  <2> QED
    BY <2>4, <2>5
<1>6. FileRule(w)
  BY <1>1, <1>2, <1>3, FilesAssumption
  DEF FileRule, LocatedAt, Writes, Moved, TypeOK
<1>7. TodoRule(w)
  BY <1>1, <1>2 DEF TodoRule, TodoStored, TodoAt, Moved, TypeOK, EndRead
<1> QED
  BY <1>1, <1>2, <1>3, <1>4, <1>5, <1>6, <1>7 DEF LiveStep, Moved

\* Eviction and removal: the worker owns store->mutex and `ordering`, and has
\* seen the file at rest.
LEMMA DestroyRules ==
  ASSUME IInv, NEW w \in Workers, Destroy(w)
  PROVE  LiveStep(w)
<1> USE DEF IInv
<1> DEFINE f == at[w]
<1>1. /\ step[w] \in {"entry", "woken"} /\ f \in Files /\ f \in stored
      /\ Owns(w, f) /\ req[w] \in Requests
      /\ storeMutex = w /\ HoldsStore(w)
      /\ ~ isBeingWritten[f] /\ ~ activeReaders[f] > 0
      /\ Task(w) = "destroy"
      /\ UNCHANGED <<isBeingWritten, activeReaders, todo>>
      /\ stored' = stored \ {f}
      /\ ordering' = [ordering EXCEPT ![f] = NoWorker]
  BY HasFileFacts DEF Destroy, Enters, ReleaseOrdering, MustWait, HoldsStore,
     ReleasesStoreEarly
<1>2. todo[w] = {} \/ req[w].op = "exit"
  BY <1>1 DEF TodoStored, TodoAt
<1>3. req[w].op # "exit"
  BY <1>1, OpsAssumption DEF Task, Creations
<1>4. lockedBy' \in [Files -> Fds \union {NoFd}]
      /\ pendingLocks' \in [Files -> Seq(Fds)]
  BY <1>1 DEF Destroy, TypeOK
<1>5. activeReaders[f] = 0
  BY <1>1 DEF TypeOK
<1>6. CASE req[w].op = "remove"
  <2>1. Moved(w, "idle", NoRequest, NoFile) /\ storeMutex' = NoWorker
    BY <1>6, FinishFacts DEF Destroy, ReleaseStore, Creations
  <2>2. TypeOK'
    BY <1>1, <1>4, <2>1 DEF Moved, TypeOK
  <2>3. StoreRule(w) /\ OrderingRule(w)
    BY <1>1, <2>1 DEF Moved, StoreRule, OrderingRule, HoldsStore,
       HoldsOrdering, Owns, TypeOK
  <2>4. MarkRule(w) /\ ReadRule(w)
    BY <1>1, <1>6, <2>1, CalmStep DEF Moved, Writes
  <2>5. FileRule(w)
    BY <1>1, <1>5, <2>1, <2>2, FilesAssumption
    DEF FileRule, LocatedAt, Writes, Moved, TypeOK
  <2>6. TodoRule(w)
    BY <1>1, <1>2, <1>3 DEF TodoRule, TodoAt
  <2> QED
    BY <1>1, <2>1, <2>2, <2>3, <2>4, <2>5, <2>6 DEF LiveStep, Moved
<1>7. CASE req[w].op = "write"
  <2> DEFINE g == req[w].file
  <2>1. g \in Files /\ g # f /\ g \in stored
    BY <1>1, <1>7 DEF Requests, StoreOps, Task, Creations, Located, LocatedAt,
       Writes
  <2>2. Moved(w, "inside", req[w], g) /\ storeMutex' = w
    BY <1>1, <1>7, <2>1, MoveFacts DEF Destroy, Creations, Steps
  <2>3. TypeOK'
    BY <1>1, <1>4, <2>2 DEF Moved, TypeOK
  <2>4. StoreRule(w) /\ OrderingRule(w)
    BY <1>1, <2>2 DEF Moved, StoreRule, OrderingRule, HoldsStore,
       HoldsOrdering, Owns, TypeOK
  <2>5. MarkRule(w) /\ ReadRule(w)
    <3>1. \A h \in Files : Marks(w, h)' <=> Marks(w, h)
      BY <1>1, <1>7, <2>1, <2>2 DEF Moved, Marks, Writes
    <3>2. \A h \in Files : w \in ReadersOf(h)' <=> w \in ReadersOf(h)
      BY <1>1, <1>7, <2>2 DEF Moved, ReadersOf
    <3>3. ~ HoldsOrdering(w)'
      BY <2>2 DEF Moved, HoldsOrdering
    <3> QED
      BY <1>1, <3>1, <3>2, <3>3, KeepsMarks
  <2>6. FileRule(w)
    BY <1>1, <1>5, <1>7, <2>1, <2>2, <2>3, FilesAssumption
    DEF FileRule, LocatedAt, Writes, Moved, TypeOK
  <2>7. TodoRule(w)
    BY <1>1, <1>2, <1>3 DEF TodoRule, TodoAt
  <2> QED
    BY <1>1, <2>2, <2>3, <2>4, <2>5, <2>6, <2>7 DEF LiveStep, Moved
<1>8. CASE req[w].op \in Creations
  <2>1. Moved(w, "add", req[w], NoFile) /\ storeMutex' = w
    BY <1>1, <1>8, MoveFacts DEF Destroy, Creations, Steps
  <2>2. TypeOK'
    BY <1>1, <1>4, <2>1 DEF Moved, TypeOK
  <2>3. StoreRule(w) /\ OrderingRule(w)
    BY <1>1, <2>1 DEF Moved, StoreRule, OrderingRule, HoldsStore,
       HoldsOrdering, Owns, TypeOK
  <2>4. MarkRule(w) /\ ReadRule(w)
    BY <1>1, <1>8, <2>1, CalmStep DEF Moved, Writes, Creations
  <2>5. FileRule(w)
    BY <1>1, <1>5, <1>8, <2>1, <2>2, FilesAssumption
    DEF FileRule, LocatedAt, Writes, Moved, TypeOK
  <2>6. TodoRule(w)
    BY <1>1, <1>2, <1>3 DEF TodoRule, TodoAt
  <2> QED
    BY <1>1, <2>1, <2>2, <2>3, <2>4, <2>5, <2>6 DEF LiveStep, Moved
<1> QED
  BY <1>6, <1>7, <1>8 DEF Destroy

-----------------------------------------------------------------------------
\* The invariant

\* An abort stops every thread where it is: what it had stays as it was.
LEMMA AbortPreserves ==
  ASSUME IInv, NEW w \in Workers, AssertionFails(w)
  PROVE  IInv'
<1> USE DEF IInv
<1>1. /\ \A v \in Workers : step'[v] = "dead"
      /\ step' \in [Workers -> Steps]
      /\ UNCHANGED <<stored, lockedBy, pendingLocks, activeReaders,
                     isBeingWritten, ordering, storeMutex, req, at, todo>>
  BY DEF AssertionFails, fileVars, Steps
<1>2. TypeOK'
  BY <1>1 DEF TypeOK
<1>3. /\ \A v \in Workers : ~ HoldsStore(v)' /\ ~ HoldsOrdering(v)'
      /\ \A v \in Workers : \A f \in Files : ~ Marks(v, f)' /\ ~ Writes(v, f)'
  BY <1>1 DEF HoldsStore, HoldsOrdering, Marks, Writes
<1>4. Located' /\ TodoStored'
  BY <1>1, <1>3 DEF Located, LocatedAt, TodoStored, TodoAt
<1>5. ReadersCounted' /\ DeadTogether'
  BY <1>1 DEF ReadersCounted, Alive, DeadTogether
<1> QED
  BY <1>2, <1>3, <1>4, <1>5
  DEF StoreOwned, OrderingOwned, Marked, OneMark, WriteClear, Exclusive

\* The invariant holds in the empty storage.
LEMMA InitInvariant == Init => IInv
<1> SUFFICES ASSUME Init PROVE IInv
  OBVIOUS
<1> USE DEF Init
<1>1. TypeOK
  BY DEF TypeOK, Steps
<1>2. /\ \A w \in Workers : ~ HoldsStore(w) /\ ~ HoldsOrdering(w)
      /\ \A w \in Workers : \A f \in Files : ~ Marks(w, f) /\ ~ Writes(w, f)
      /\ \A f \in Files : ReadersOf(f) = {}
  BY DEF HoldsStore, HoldsOrdering, Marks, Writes, ReadersOf
<1>3. Located /\ TodoStored
  BY <1>2 DEF Located, LocatedAt, TodoStored, TodoAt
<1>4. ReadersCounted
  BY <1>2, FS_EmptySet DEF ReadersCounted
<1> QED
  BY <1>1, <1>2, <1>3, <1>4
  DEF IInv, StoreOwned, OrderingOwned, Marked, OneMark, WriteClear, Exclusive,
      DeadTogether

\* Every step preserves it, one case per action.
LEMMA NextInvariant == IInv /\ [Next]_vars => IInv'
<1> SUFFICES ASSUME IInv, [Next]_vars PROVE IInv'
  OBVIOUS
<1>1. CASE UNCHANGED vars
  BY <1>1 DEF vars, fileVars, IInv, TypeOK, Located, LocatedAt, TodoStored,
     TodoAt, StoreOwned, OrderingOwned, Marked, OneMark, WriteClear, Exclusive,
     ReadersCounted, DeadTogether, HoldsStore, HoldsOrdering, Marks, ReadersOf,
     Alive, Writes, Task
<1>2. CASE Next
  <2>1. PICK w \in Workers :
          \/ \E q \in Requests : Dequeue(w, q)
          \/ EnterStore(w)
          \/ Continue(w)
          \/ SpuriousWakeup(w)
    BY <1>2 DEF Next
  <2>2. CASE \E q \in Requests : Dequeue(w, q)
    BY <2>2, DequeueRules, RulesPreserve
  <2>3. CASE EnterStore(w)
    BY <2>3, LookupFailsRules, LookupSucceedsRules, CreateRules,
       CreateEvictingRules, ScanStoreRules, RulesPreserve DEF EnterStore
  <2>4. CASE Continue(w)
    <3>1. CASE \E f \in Files : ScanNext(w, f) \/ Evict(w, f)
      BY <3>1, ScanNextRules, EvictRules, RulesPreserve
    <3>2. CASE AddFile(w) \/ EndScan(w) \/ Refuse(w) \/ WaitForFile(w)
      BY <3>2, AddFileRules, EndScanRules, RefuseRules, WaitForFileRules,
         RulesPreserve
    <3>3. CASE AssertionFails(w)
      BY <3>3, AbortPreserves
    <3>4. CASE Open(w) \/ StartRead(w) \/ EndRead(w)
      BY <3>4, OpenRules, StartReadRules, EndReadRules, RulesPreserve
    <3>5. CASE StartWriteOrClose(w) \/ EndWriteOrClose(w)
      BY <3>5, StartWriteOrCloseRules, EndWriteOrCloseRules, RulesPreserve
    <3>6. CASE Park(w) \/ StartLock(w) \/ SetLock(w) \/ EndLock(w)
      BY <3>6, ParkRules, StartLockRules, SetLockRules, EndLockRules,
         RulesPreserve
    <3>7. CASE Unlock(w) \/ ExitFile(w) \/ Destroy(w)
      BY <3>7, UnlockRules, ExitFileRules, DestroyRules, RulesPreserve
    <3> QED
      BY <2>4, <3>1, <3>2, <3>3, <3>4, <3>5, <3>6, <3>7 DEF Continue
  <2>5. CASE SpuriousWakeup(w)
    BY <2>5, SpuriousWakeupRules, RulesPreserve
  <2> QED
    BY <2>1, <2>2, <2>3, <2>4, <2>5
<1> QED
  BY <1>1, <1>2

\* So it holds in every reachable state.
LEMMA Invariance == Spec => []IInv
<1> QED
  BY InitInvariant, NextInvariant, PTL DEF Spec

-----------------------------------------------------------------------------
\* Type correctness: in particular no count of readers falls below 0.
THEOREM TypeCorrect == Spec => []TypeOK
<1>1. IInv => TypeOK
  BY DEF IInv
<1> QED
  BY <1>1, Invariance, PTL

\* Readers and writers exclude each other, and writers each other, for any number
\* of threads, clients and files: a thread that writes has the file's mark, or
\* store->mutex while it evicts others, and nobody reads a marked file.
THEOREM ReadersAndWritersExclude == Spec => []RWExclusion
<1>1. IInv => RWExclusion
  <2> SUFFICES ASSUME IInv, NEW w \in Workers, NEW v \in Workers,
                      NEW f \in Files, w # v, Writes(w, f)
               PROVE  ~ Reads(v, f) /\ ~ Writes(v, f)
    BY DEF RWExclusion
  <2> USE DEF IInv
  <2>1. v \notin ReadersOf(f) /\ ~ Writes(v, f)
    BY DEF Exclusive, OneMark, Marks
  <2>2. storeMutex = w
    BY DEF StoreOwned, HoldsStore, Writes, Task, ReleasesStoreEarly
  <2>3. step[v] # "scan"
    BY <2>2 DEF StoreOwned, HoldsStore
  <2> QED
    BY <2>1, <2>3 DEF Reads, ReadersOf
<1> QED
  BY <1>1, Invariance, PTL

\* Eviction and removal free a file only when no thread has a pointer to it,
\* including the threads that wait for it and the files an exit has yet to visit.
THEOREM NoUseAfterFree == Spec => []NoDanglingNode
<1>1. IInv => NoDanglingNode
  BY DEF IInv, Located, LocatedAt, NoDanglingNode
<1> QED
  BY <1>1, Invariance, PTL

-----------------------------------------------------------------------------
\* No wait is left behind

\* What a worker that is not w waits for does not depend on w's place.
LEMMA WaitersStay ==
  ASSUME IInv, NEW w \in Workers, OthersStay(w), NEW x \in Workers \ {w},
         step'[x] = "waiting"
  PROVE  /\ step[x] = "waiting" /\ Task(x)' = Task(x) /\ at'[x] = at[x]
         /\ at[x] \in Files /\ ordering[at[x]] = x
  BY DEF OthersStay, Task, IInv, OrderingOwned, HoldsOrdering, Located,
     LocatedAt, TypeOK

\* A step that ends no read and no write leaves every wait its reason.
LEMMA WaitsGoOn ==
  ASSUME IInv, WaitersHaveReason, NEW w \in Workers, OthersStay(w),
         step'[w] # "waiting",
         \A f \in Files : /\ isBeingWritten[f] => isBeingWritten'[f]
                          /\ activeReaders[f] > 0 => activeReaders'[f] > 0
  PROVE  WaitersHaveReason'
<1> SUFFICES ASSUME NEW x \in Workers, step'[x] = "waiting"
             PROVE  MustWait(Task(x), at[x])'
  BY DEF WaitersHaveReason
<1>1. x # w
  OBVIOUS
<1>2. step[x] = "waiting" /\ Task(x)' = Task(x) /\ at'[x] = at[x]
      /\ at[x] \in Files
  BY <1>1, WaitersStay
<1> QED
  BY <1>2 DEF WaitersHaveReason, MustWait

\* A worker that begins to wait has a reason to.
LEMMA WaitForFileWaits ==
  ASSUME IInv, WaitersHaveReason, NEW w \in Workers, WaitForFile(w)
  PROVE  WaitersHaveReason'
<1>1. LiveStep(w)
  BY WaitForFileRules
<1>2. /\ Task(w)' = Task(w) /\ at' = at
      /\ UNCHANGED <<isBeingWritten, activeReaders>>
      /\ MustWait(Task(w), at[w])
  BY DEF WaitForFile, Stay, Task, fileVars
<1> SUFFICES ASSUME NEW x \in Workers, step'[x] = "waiting"
             PROVE  MustWait(Task(x), at[x])'
  BY DEF WaitersHaveReason
<1>3. CASE x = w
  BY <1>2, <1>3 DEF MustWait
<1>4. CASE x # w
  BY <1>1, <1>2, <1>4, WaitersStay DEF LiveStep, WaitersHaveReason, MustWait
<1> QED
  BY <1>3, <1>4

\* The signal of the last reader: the one waiter, which owns `ordering`, is the
\* one that is woken.
LEMMA EndReadWakes ==
  ASSUME IInv, WaitersHaveReason, NEW w \in Workers, EndRead(w)
  PROVE  WaitersHaveReason'
<1> DEFINE f == at[w]
<1>1. OthersStay(w)
  BY EndReadRules DEF LiveStep
<1>2. /\ activeReaders' = [activeReaders EXCEPT ![f] = @ - 1]
      /\ isBeingWritten' = isBeingWritten
      /\ f \in Files
      /\ activeReaders \in [Files -> Nat]
  BY DEF EndRead, IInv, Located, LocatedAt, TypeOK
<1>3. PICK W \in SUBSET Waiters(f) :
        /\ Cardinality(W) = IF activeReaders[f] = 1 /\ Waiters(f) # {}
                              THEN 1 ELSE 0
        /\ Goto(w, "idle", W)
  BY DEF EndRead, Finish, Signalled
<1>4. step'[w] # "waiting"
  BY <1>3 DEF Goto
<1> SUFFICES ASSUME NEW x \in Workers \ {w}, step'[x] = "waiting"
             PROVE  MustWait(Task(x), at[x])'
  BY <1>4 DEF WaitersHaveReason
<1>5. step[x] = "waiting" /\ Task(x)' = Task(x) /\ at'[x] = at[x]
      /\ at[x] \in Files /\ ordering[at[x]] = x
  BY <1>1, WaitersStay
<1>6. MustWait(Task(x), at[x])
  BY <1>5 DEF WaitersHaveReason
<1>7. x \notin W
  BY <1>3, <1>5 DEF Goto
<1>8. CASE at[x] # f \/ activeReaders[f] # 1
  BY <1>2, <1>5, <1>6, <1>8 DEF MustWait
<1>9. CASE at[x] = f /\ activeReaders[f] = 1
  <2>1. x \in Waiters(f)
    BY <1>5, <1>9 DEF Waiters
  <2>2. \A y \in Waiters(f) : y = x
    BY <1>5, <1>9 DEF Waiters, IInv, OrderingOwned, HoldsOrdering
  <2>3. Cardinality(W) = 1
    BY <1>3, <1>9, <2>1
  <2>4. W # {}
    BY <2>3, FS_EmptySet
  <2> QED
    BY <1>7, <2>2, <2>4
<1> QED
  BY <1>8, <1>9

\* The broadcast of a writer.
LEMMA EndMarkWakes ==
  ASSUME IInv, WaitersHaveReason, NEW w \in Workers,
         EndWriteOrClose(w) \/ EndLock(w)
  PROVE  WaitersHaveReason'
<1>1. OthersStay(w)
  BY EndWriteOrCloseRules, EndLockRules DEF LiveStep
<1>2. /\ isBeingWritten' = [isBeingWritten EXCEPT ![at[w]] = FALSE]
      /\ activeReaders' = activeReaders
      /\ Goto(w, "idle", Waiters(at[w]))
  BY DEF EndWriteOrClose, EndLock, Finish
<1>3. step'[w] # "waiting"
  BY <1>2 DEF Goto
<1> SUFFICES ASSUME NEW x \in Workers \ {w}, step'[x] = "waiting"
             PROVE  MustWait(Task(x), at[x])'
  BY <1>3 DEF WaitersHaveReason
<1>4. step[x] = "waiting" /\ Task(x)' = Task(x) /\ at'[x] = at[x]
      /\ at[x] \in Files
  BY <1>1, WaitersStay
<1>5. at[x] # at[w]
  BY <1>2, <1>4 DEF Goto, Waiters
<1>6. isBeingWritten'[at[x]] = isBeingWritten[at[x]]
  BY <1>2, <1>4, <1>5 DEF IInv, TypeOK
<1> QED
  BY <1>2, <1>4, <1>6 DEF WaitersHaveReason, MustWait

\* The other steps neither wait nor end what others wait for.
LEMMA OtherStepsWaits ==
  ASSUME IInv, WaitersHaveReason, NEW w \in Workers, LiveStep(w),
         step'[w] # "waiting", activeReaders' = activeReaders,
         \/ isBeingWritten' = isBeingWritten
         \/ \E f \in Files : isBeingWritten' = [isBeingWritten EXCEPT ![f] = TRUE]
  PROVE  WaitersHaveReason'
<1>1. \A f \in Files : isBeingWritten[f] => isBeingWritten'[f]
  BY DEF IInv, TypeOK
<1> QED
  BY <1>1, WaitsGoOn DEF LiveStep

\* Every step preserves WaitersHaveReason, one case per action.
LEMMA NextWaits ==
  IInv /\ WaitersHaveReason /\ [Next]_vars => WaitersHaveReason'
<1> SUFFICES ASSUME IInv, WaitersHaveReason, [Next]_vars
             PROVE  WaitersHaveReason'
  OBVIOUS
<1>1. CASE UNCHANGED vars
  BY <1>1 DEF vars, fileVars, WaitersHaveReason, MustWait, Task
<1>2. CASE Next
  <2>1. PICK w \in Workers :
          \/ \E q \in Requests : Dequeue(w, q)
          \/ EnterStore(w)
          \/ Continue(w)
          \/ SpuriousWakeup(w)
    BY <1>2 DEF Next
  <2>2. CASE \E q \in Requests : Dequeue(w, q)
    BY <2>2, DequeueRules, OtherStepsWaits DEF Dequeue, Goto, fileVars
  <2>3. CASE EnterStore(w)
    <3>1. CASE LookupFails(w)
      BY <3>1, LookupFailsRules, OtherStepsWaits
      DEF LookupFails, Finish, Goto, fileVars
    <3>2. CASE LookupSucceeds(w) \/ Create(w)
      BY <3>2, LookupSucceedsRules, CreateRules, OtherStepsWaits
      DEF LookupSucceeds, Create, Stay, Goto, fileVars
    <3>3. CASE \E f \in Files : CreateEvicting(w, f)
      BY <3>3, CreateEvictingRules, OtherStepsWaits
      DEF CreateEvicting, Goto, fileVars
    <3>4. CASE ScanStore(w)
      BY <3>4, ScanStoreRules, OtherStepsWaits
      DEF ScanStore, Stay, Goto, fileVars
    <3> QED
      BY <2>3, <3>1, <3>2, <3>3, <3>4 DEF EnterStore
  <2>4. CASE Continue(w)
    <3>1. CASE \E f \in Files : ScanNext(w, f) \/ Evict(w, f)
      BY <3>1, ScanNextRules, EvictRules, OtherStepsWaits
      DEF ScanNext, Evict, Goto, fileVars
    <3>2. CASE AddFile(w) \/ EndScan(w) \/ Refuse(w)
      BY <3>2, AddFileRules, EndScanRules, RefuseRules, OtherStepsWaits
      DEF AddFile, EndScan, Refuse, Finish, Goto, fileVars
    <3>3. CASE WaitForFile(w)
      BY <3>3, WaitForFileWaits
    <3>4. CASE AssertionFails(w)
      BY <3>4 DEF AssertionFails, WaitersHaveReason
    <3>5. CASE Open(w) \/ Park(w) \/ Unlock(w)
      BY <3>5, OpenRules, ParkRules, UnlockRules, OtherStepsWaits
      DEF Open, Park, Unlock, Finish, Goto
    <3>6. CASE StartRead(w)
      <4>1. /\ LiveStep(w) /\ step'[w] # "waiting"
            /\ isBeingWritten' = isBeingWritten
            /\ activeReaders' = [activeReaders EXCEPT ![at[w]] = @ + 1]
        BY <3>6, StartReadRules DEF StartRead, Stay, Goto
      <4>2. \A f \in Files : activeReaders[f] > 0 => activeReaders'[f] > 0
        BY <4>1 DEF IInv, TypeOK
      <4> QED
        BY <4>1, <4>2, WaitsGoOn DEF LiveStep
    <3>7. CASE EndRead(w)
      BY <3>7, EndReadWakes
    <3>8. CASE StartWriteOrClose(w) \/ StartLock(w)
      <4>1. /\ LiveStep(w) /\ step'[w] # "waiting" /\ at[w] \in Files
            /\ activeReaders' = activeReaders
            /\ isBeingWritten' = [isBeingWritten EXCEPT ![at[w]] = TRUE]
        BY <3>8, StartWriteOrCloseRules, StartLockRules, HasFileFacts
        DEF StartWriteOrClose, StartLock, Stay, Goto, Enters
      <4> QED
        BY <4>1, OtherStepsWaits
    <3>9. CASE EndWriteOrClose(w) \/ EndLock(w)
      BY <3>9, EndMarkWakes
    <3>10. CASE SetLock(w) \/ ExitFile(w)
      BY <3>10, SetLockRules, ExitFileRules, OtherStepsWaits
      DEF SetLock, ExitFile, Stay, Goto
    <3>11. CASE Destroy(w)
      BY <3>11, DestroyRules, OtherStepsWaits DEF Destroy, Finish, Goto
    <3> QED
      BY <2>4, <3>1, <3>2, <3>3, <3>4, <3>5, <3>6, <3>7, <3>8, <3>9, <3>10,
         <3>11 DEF Continue
  <2>5. CASE SpuriousWakeup(w)
    BY <2>5, SpuriousWakeupRules, OtherStepsWaits
    DEF SpuriousWakeup, Stay, Goto, fileVars
  <2> QED
    BY <2>1, <2>2, <2>3, <2>4, <2>5
<1> QED
  BY <1>1, <1>2

\* No signal is lost: in every reachable state each thread in pthread_cond_wait
\* is there because of a read or a write still going on, although the last reader
\* signals a single thread.  `ordering` is what makes that enough: the waiter owns
\* it, so there is at most one per file.
THEOREM NoLostSignal == Spec => []WaitersHaveReason
<1>1. Init => WaitersHaveReason
  BY DEF Init, WaitersHaveReason
<1> QED
  BY <1>1, NextWaits, Invariance, PTL DEF Spec

-----------------------------------------------------------------------------
(***************************************************************************)
(* The locks of the files are respected where they take effect, and the    *)
(* handlers together keep the promise of FileLock, as long as no client    *)
(* opens an existing file with O_LOCK, which the shipped client never does *)
(* (LockStolen shows what becomes of both when one does).                  *)
(*                                                                         *)
(* The argument is the same once more: LockStep(w) lists what a step of    *)
(* worker w does to the locks of others, and one lemma per action shows    *)
(* that the action does no more.                                           *)
(***************************************************************************)

\* The clients whose lock request f keeps.
InQueue(f, r) == Contains(pendingLocks[f], r)

\* A client has one request at a time, with a worker or in a waiting list.
OneRequest ==
  \A w \in Workers : req[w].fd # NoFd =>
    /\ \A v \in Workers : req[v].fd = req[w].fd => v = w
    /\ \A f \in Files : ~ InQueue(f, req[w].fd)

\* Nobody holds, or waits for, the lock of a file that is not there.
Absent ==
  \A f \in Files \ stored : lockedBy[f] = NoFd /\ pendingLocks[f] = <<>>

\* What a worker found out about a lock and still relies on.
Allows(w, f) == lockedBy[f] \in {NoFd, req[w].fd}

ReliesOn(w) ==
  /\ step[w] = "inside" /\ req[w].op = "lock" => Allows(w, at[w])
  /\ HoldsOrdering(w) /\ Task(w) = "write" => Allows(w, at[w])
  /\ \A f \in Files : Writes(w, f) => Allows(w, f)
  /\ req[w].op = "remove" /\ at[w] # NoFile => lockedBy[at[w]] = req[w].fd
  /\ step[w] \in {"entry", "waiting", "woken", "add"} /\ req[w].op \in Creations
       => req[w].file \notin stored

LInv ==
  /\ OneRequest
  /\ Absent
  /\ \A w \in Workers : ReliesOn(w)

-----------------------------------------------------------------------------
\* Worker w serves another request only if its client has no other.
ClientRule(w) ==
  /\ \/ req'[w].fd \in {req[w].fd, NoFd}
     \/ Available(req'[w].fd)
  /\ \A f \in Files : \A r \in Fds :
       InQueue(f, r)' => InQueue(f, r) \/ (r = req[w].fd /\ req'[w].fd = NoFd)

\* It changes the lock of a file it has to itself, or has marked, and only if the
\* lock is free or its client's, or else destroys the file.
HolderRule(w) ==
  \A f \in Files : lockedBy'[f] # lockedBy[f] =>
    \/ f \notin stored
    \/ /\ Marks(w, f) \/ (Owns(w, f) /\ ~ isBeingWritten[f])
       /\ Allows(w, f) \/ HoldsStore(w)

LockStep(w) ==
  /\ ClientRule(w)
  /\ HolderRule(w)
  /\ Absent'
  /\ ~ stored' \subseteq stored => HoldsStore(w)
  /\ ReliesOn(w)'

\* The lock of f means the same to v after a step of w, if v relies on it.
LEMMA LockStays ==
  ASSUME IInv, NEW w \in Workers, HolderRule(w), NEW v \in Workers \ {w},
         NEW f \in Files \intersect stored,
         \/ Marks(v, f)
         \/ HoldsOrdering(v) /\ at[v] = f /\ Task(v) = "write"
         \/ HoldsStore(v) /\ ~ Allows(w, f)
  PROVE  lockedBy'[f] = lockedBy[f]
<1> SUFFICES ASSUME lockedBy'[f] # lockedBy[f] PROVE FALSE
  OBVIOUS
<1>1. /\ Marks(w, f) \/ (Owns(w, f) /\ ~ isBeingWritten[f])
      /\ Allows(w, f) \/ HoldsStore(w)
  BY DEF HolderRule
<1>2. CASE Marks(v, f)
  BY <1>1, <1>2 DEF IInv, OneMark, Marked
<1>3. CASE HoldsOrdering(v) /\ at[v] = f /\ Task(v) = "write"
  BY <1>1, <1>3, WorkersAssumption DEF IInv, OrderingOwned, WriteClear, Owns, Marked
<1>4. CASE HoldsStore(v) /\ ~ Allows(w, f)
  BY <1>1, <1>4 DEF IInv, StoreOwned
<1> QED
  BY <1>2, <1>3, <1>4

\* A worker that keeps the rules preserves the invariant, for the others too.
LEMMA LockRulesPreserve ==
  ASSUME IInv, LInv, NEW w \in Workers, LiveStep(w), LockStep(w)
  PROVE  LInv'
<1>0. /\ \A v \in Workers : step[v] # "dead" /\ step'[v] # "dead"
      /\ OthersStay(w)
  BY DEF LiveStep, IInv, DeadTogether, OthersStay
<1>1. \A v \in Workers \ {w} :
        /\ HoldsStore(v)' <=> HoldsStore(v)
        /\ HoldsOrdering(v)' <=> HoldsOrdering(v)
        /\ Task(v)' = Task(v)
        /\ at'[v] = at[v] /\ req'[v] = req[v]
        /\ \A f \in Files : Writes(v, f)' <=> Writes(v, f)
  BY <1>0 DEF OthersStay, HoldsStore, HoldsOrdering, Task, Writes
<1>2. OneRequest'
  <2>0. \A v \in Workers : req'[v].fd # NoFd => req'[v].fd \in Fds
    <3>1. \A v \in Workers : req'[v] \in Requests \union {NoRequest}
      BY DEF LiveStep, TypeOK
    <3> QED
      BY <3>1 DEF Requests, NoRequest
  <2> SUFFICES ASSUME NEW v \in Workers, NEW r \in Fds, req'[v].fd = r, r # NoFd
               PROVE  /\ \A x \in Workers : req'[x].fd = r => x = v
                      /\ \A f \in Files : ~ InQueue(f, r)'
    BY <2>0 DEF OneRequest, InQueue
  <2>1. ASSUME NEW x \in Workers, req'[x].fd = r, x # v PROVE FALSE
    <3>1. ASSUME NEW y \in Workers \ {w}, req'[w].fd = req[y].fd, req[y].fd # NoFd
          PROVE  FALSE
      <4>1. CASE req'[w].fd \in {req[w].fd, NoFd}
        BY <3>1, <4>1 DEF LInv, OneRequest
      <4>2. CASE Available(req'[w].fd)
        BY <3>1, <4>2 DEF Available
      <4> QED
        BY <4>1, <4>2 DEF LockStep, ClientRule
    <3>2. CASE x = w
      BY <1>1, <2>1, <3>1, <3>2
    <3>3. CASE v = w
      BY <1>1, <2>1, <3>1, <3>3
    <3>4. CASE x # w /\ v # w
      BY <1>1, <2>1, <3>4 DEF LInv, OneRequest
    <3> QED
      BY <3>2, <3>3, <3>4
  <2>2. ASSUME NEW f \in Files, InQueue(f, r)' PROVE FALSE
    <3>1. InQueue(f, r) \/ (r = req[w].fd /\ req'[w].fd = NoFd)
      BY <2>2 DEF LockStep, ClientRule
    <3>2. CASE v # w
      BY <1>1, <3>1, <3>2 DEF LInv, OneRequest
    <3>3. CASE v = w
      <4>1. InQueue(f, r)
        BY <3>1, <3>3
      <4>2. CASE req'[w].fd = req[w].fd
        BY <3>3, <4>1, <4>2 DEF LInv, OneRequest
      <4>3. CASE Available(req'[w].fd)
        BY <3>3, <4>1, <4>3 DEF Available, InQueue
      <4> QED
        BY <3>3, <4>2, <4>3 DEF LockStep, ClientRule
    <3> QED
      BY <3>2, <3>3
  <2> QED
    BY <2>1, <2>2
<1>3. ASSUME NEW v \in Workers PROVE ReliesOn(v)'
  <2>1. CASE v = w
    BY <2>1 DEF LockStep
  <2>2. CASE v # w
    <3>1. ReliesOn(v) /\ LocatedAt(v) /\ HolderRule(w)
      BY DEF LInv, IInv, Located, LockStep
    <3>2. /\ at'[v] = at[v] /\ req'[v] = req[v]
          /\ at[v] # NoFile => at[v] \in Files /\ at[v] \in stored
      BY <1>1, <2>2, <3>1 DEF LocatedAt, IInv, TypeOK
    <3>3. step'[v] = "inside" /\ req'[v].op = "lock" => Allows(v, at[v])'
      <4> SUFFICES ASSUME step'[v] = "inside", req'[v].op = "lock" PROVE Allows(v, at[v])'
        OBVIOUS
      <4>1. step[v] = "inside" /\ req[v].op = "lock"
        BY <1>0, <2>2, <3>2 DEF OthersStay
      <4>2. at[v] # NoFile /\ Marks(v, at[v]) /\ Allows(v, at[v])
        BY <3>1, <4>1 DEF LocatedAt, Marks, ReliesOn
      <4> QED
        BY <2>2, <3>1, <3>2, <4>2, LockStays DEF Allows
    <3>4. HoldsOrdering(v)' /\ Task(v)' = "write" => Allows(v, at[v])'
      <4> SUFFICES ASSUME HoldsOrdering(v), Task(v) = "write" PROVE Allows(v, at[v])'
        BY <1>1, <2>2
      <4>1. at[v] # NoFile /\ Allows(v, at[v])
        BY <3>1 DEF LocatedAt, ReliesOn, HoldsOrdering
      <4> QED
        BY <2>2, <3>1, <3>2, <4>1, LockStays DEF Allows
    <3>5. ASSUME NEW f \in Files, Writes(v, f)' PROVE Allows(v, f)'
      <4>1. Writes(v, f) /\ Marks(v, f)
        BY <1>1, <2>2, <3>5 DEF Marks
      <4>2. Allows(v, f) /\ f \in stored
        BY <3>1, <4>1 DEF ReliesOn, LocatedAt
      <4> QED
        BY <2>2, <3>1, <3>2, <4>1, <4>2, LockStays DEF Allows
    <3>6. req'[v].op = "remove" /\ at'[v] # NoFile => lockedBy'[at'[v]] = req'[v].fd
      <4> SUFFICES ASSUME req[v].op = "remove", at[v] # NoFile
                   PROVE  lockedBy'[at[v]] = req[v].fd
        BY <3>2
      <4>1. lockedBy[at[v]] = req[v].fd
        BY <3>1 DEF ReliesOn
      <4>2. HoldsStore(v) /\ req[v].fd # NoFd
        <5>1. step[v] \in {"entry", "waiting", "woken", "inside", "locked"}
          BY <1>0, <3>1 DEF LocatedAt, IInv, TypeOK, Steps
        <5>2. step[v] \in {"entry", "waiting", "woken"} /\ req[v] \in Requests
          BY <3>1, <5>1 DEF LocatedAt
        <5>3. req[v].fd # NoFd
          BY <5>2, FdsAssumption DEF Requests
        <5>4. Task(v) = "destroy"
          BY DEF Task
        <5> QED
          BY <5>2, <5>3, <5>4 DEF HoldsStore, ReleasesStoreEarly
      <4>3. ~ Allows(w, at[v])
        BY <2>2, <4>1, <4>2 DEF Allows, LInv, OneRequest
      <4> QED
        BY <2>2, <3>1, <3>2, <4>1, <4>2, <4>3, LockStays
    <3>7. step'[v] \in {"entry", "waiting", "woken", "add"} /\ req'[v].op \in Creations
            => req'[v].file \notin stored'
      <4> SUFFICES ASSUME step'[v] \in {"entry", "waiting", "woken", "add"},
                          req[v].op \in Creations
                   PROVE  req[v].file \notin stored'
        BY <3>2
      <4>1. step[v] \in {"entry", "waiting", "woken", "add"}
        BY <1>0, <2>2 DEF OthersStay
      <4>2. HoldsStore(v)
        BY <4>1 DEF HoldsStore, Task, Creations, ReleasesStoreEarly
      <4>3. stored' \subseteq stored
        BY <2>2, <4>2 DEF LockStep, IInv, StoreOwned
      <4> QED
        BY <3>1, <4>1, <4>3 DEF ReliesOn
    <3> QED
      BY <3>3, <3>4, <3>5, <3>6, <3>7, <3>2 DEF ReliesOn, Allows
  <2> QED
    BY <2>1, <2>2
<1>4. Absent'
  BY DEF LockStep
<1> QED
  BY <1>2, <1>3, <1>4 DEF LInv

-----------------------------------------------------------------------------
\* Each action keeps the rules

\* A step that changes no lock.
LEMMA QuietStep ==
  ASSUME LInv, NEW w \in Workers, UNCHANGED <<stored, lockedBy, pendingLocks>>,
         req'[w].fd \in {req[w].fd, NoFd} \/ Available(req'[w].fd),
         ReliesOn(w)'
  PROVE  LockStep(w)
<1>1. ClientRule(w)
  BY DEF ClientRule, InQueue
<1>2. HolderRule(w) /\ Absent'
  BY DEF HolderRule, LInv, Absent
<1> QED
  BY <1>1, <1>2 DEF LockStep

\* A worker that has answered its client relies on nothing.
LEMMA FinishedRelies ==
  ASSUME NEW w \in Workers, Moved(w, "idle", NoRequest, NoFile)
  PROVE  ReliesOn(w)' /\ req'[w].fd = NoFd
BY DEF Moved, ReliesOn, NoRequest, HoldsOrdering, Writes, Creations

LEMMA FinishedQuietly ==
  ASSUME IInv, LInv, NEW w \in Workers, NEW STATE W,
         \A x \in W : x # w /\ step[x] = "waiting",
         Finish(w, W), UNCHANGED <<stored, lockedBy, pendingLocks>>
  PROVE  LockStep(w)
<1>1. Moved(w, "idle", NoRequest, NoFile)
  BY FinishFacts DEF IInv
<1> QED
  BY <1>1, FinishedRelies, QuietStep

\* Requests that end without a change to a lock.
LEMMA QuietEnds ==
  ASSUME IInv, LInv, NEW w \in Workers,
         LookupFails(w) \/ EndScan(w) \/ Refuse(w) \/ EndRead(w) \/ EndWriteOrClose(w)
           \/ EndLock(w)
  PROVE  LockStep(w)
<1>1. UNCHANGED <<stored, lockedBy, pendingLocks>>
  BY DEF LookupFails, EndScan, Refuse, EndRead, EndWriteOrClose, EndLock, fileVars
<1>2. CASE LookupFails(w) \/ EndScan(w) \/ Refuse(w)
  BY <1>1, <1>2, FinishedQuietly DEF LookupFails, EndScan, Refuse
<1>3. CASE EndRead(w)
  <2>1. PICK W \in SUBSET Waiters(at[w]) : Finish(w, W)
    BY <1>3 DEF EndRead
  <2>2. \A x \in W : x # w /\ step[x] = "waiting"
    BY <1>3, <2>1 DEF EndRead, Waiters
  <2>3. Moved(w, "idle", NoRequest, NoFile)
    BY <2>1, <2>2, FinishFacts DEF IInv
  <2> QED
    BY <1>1, <2>3, FinishedRelies, QuietStep
<1>4. CASE EndWriteOrClose(w) \/ EndLock(w)
  BY <1>1, <1>4, FinishedQuietly DEF EndWriteOrClose, EndLock, Waiters
<1> QED
  BY <1>2, <1>3, <1>4

LEMMA QuietRequests ==
  ASSUME IInv, LInv, NEW w \in Workers,
         \/ \E q \in Requests : Dequeue(w, q)
         \/ LookupSucceeds(w) \/ Create(w) \/ ScanStore(w)
         \/ \E f \in Files : CreateEvicting(w, f)
  PROVE  LockStep(w)
<1>1. CASE \E q \in Requests : Dequeue(w, q)
  <2>1. PICK q \in Requests : Dequeue(w, q)
    BY <1>1
  <2>2. Moved(w, "store", q, NoFile)
    BY <2>1, GotoFacts DEF Dequeue, Moved, OthersStay, IInv, TypeOK, Steps, Located, LocatedAt
  <2>3. ReliesOn(w)'
    BY <2>2 DEF Moved, ReliesOn, HoldsOrdering, Writes
  <2> QED
    BY <2>1, <2>2, <2>3, QuietStep DEF Dequeue, Moved, fileVars
<1>2. CASE LookupSucceeds(w)
  <2>1. Moved(w, "entry", req[w], req[w].file)
    BY <1>2, MoveFacts DEF LookupSucceeds, IInv, TypeOK, Steps
  <2>2. /\ UNCHANGED <<stored, lockedBy, pendingLocks>>
        /\ req[w].op \notin Creations
        /\ req[w].op = "remove" => lockedBy[req[w].file] = req[w].fd
    BY <1>2 DEF LookupSucceeds, fileVars
  <2>3. ReliesOn(w)'
    BY <2>1, <2>2 DEF Moved, ReliesOn, HoldsOrdering, Writes
  <2> QED
    BY <2>1, <2>2, <2>3, QuietStep DEF Moved
<1>3. CASE Create(w)
  <2>0. at[w] = NoFile
    BY <1>3 DEF Create, AtStore, IInv, Located, LocatedAt
  <2>1. Moved(w, "add", req[w], NoFile)
    BY <1>3, <2>0, StayFacts DEF Create, IInv, Steps
  <2>2. /\ UNCHANGED <<stored, lockedBy, pendingLocks>>
        /\ req[w].op \in Creations /\ req[w].file \notin stored
    BY <1>3 DEF Create, fileVars
  <2>3. ReliesOn(w)'
    BY <2>1, <2>2 DEF Moved, ReliesOn, HoldsOrdering, Writes, Creations
  <2> QED
    BY <2>1, <2>2, <2>3, QuietStep DEF Moved
<1>4. CASE ScanStore(w)
  <2>0. at[w] = NoFile
    BY <1>4 DEF ScanStore, AtStore, IInv, Located, LocatedAt
  <2>1. Moved(w, "scan", req[w], NoFile)
    BY <1>4, <2>0, StayFacts DEF ScanStore, IInv, Steps
  <2>2. UNCHANGED <<stored, lockedBy, pendingLocks>>
    BY <1>4 DEF ScanStore, fileVars
  <2>3. ReliesOn(w)'
    BY <2>1, <2>2 DEF Moved, ReliesOn, HoldsOrdering, Writes
  <2> QED
    BY <2>1, <2>2, <2>3, QuietStep DEF Moved
<1>5. CASE \E f \in Files : CreateEvicting(w, f)
  <2>1. PICK f \in Files : CreateEvicting(w, f)
    BY <1>5
  <2>2. Moved(w, "entry", req[w], f)
    BY <2>1, MoveFacts DEF CreateEvicting, IInv, Steps
  <2>3. /\ UNCHANGED <<stored, lockedBy, pendingLocks>>
        /\ req[w].op \in Creations /\ req[w].file \notin stored
    BY <2>1 DEF CreateEvicting, fileVars
  <2>4. ReliesOn(w)'
    BY <2>2, <2>3 DEF Moved, ReliesOn, HoldsOrdering, Writes, Creations
  <2> QED
    BY <2>2, <2>3, <2>4, QuietStep DEF Moved
<1> QED
  BY <1>1, <1>2, <1>3, <1>4, <1>5

\* Steps within a request that change no lock.
LEMMA QuietSteps ==
  ASSUME IInv, LInv, NEW w \in Workers,
         \/ \E f \in Files : ScanNext(w, f) \/ Evict(w, f)
         \/ WaitForFile(w) \/ StartRead(w) \/ StartWriteOrClose(w) \/ StartLock(w)
         \/ SpuriousWakeup(w)
  PROVE  LockStep(w)
<1>0. ReliesOn(w) /\ LocatedAt(w)
  BY DEF LInv, IInv, Located
<1>1. CASE \E f \in Files : ScanNext(w, f)
  <2>1. PICK f \in Files : ScanNext(w, f)
    BY <1>1
  <2>2. Moved(w, "entry", req[w], f) /\ req[w].op \in StoreOps
    BY <1>0, <2>1, MoveFacts DEF ScanNext, IInv, Steps, LocatedAt
  <2>3. UNCHANGED <<stored, lockedBy, pendingLocks>>
    BY <2>1 DEF ScanNext, fileVars
  <2>4. ReliesOn(w)'
    BY <2>2, <2>3 DEF Moved, ReliesOn, HoldsOrdering, Writes, Creations, StoreOps
  <2> QED
    BY <2>2, <2>3, <2>4, QuietStep DEF Moved
<1>2. CASE \E f \in Files : Evict(w, f)
  <2>1. PICK f \in Files : Evict(w, f)
    BY <1>2
  <2>2. Moved(w, "entry", req[w], f)
    BY <2>1, MoveFacts DEF Evict, IInv, Steps
  <2>3. /\ UNCHANGED <<stored, lockedBy, pendingLocks>>
        /\ step[w] = "inside" /\ req[w].op = "write"
    BY <2>1 DEF Evict, fileVars
  <2>4. ReliesOn(w)'
    BY <1>0, <2>2, <2>3 DEF Moved, ReliesOn, HoldsOrdering, Writes, Creations, Allows
  <2> QED
    BY <2>2, <2>3, <2>4, QuietStep DEF Moved
<1>3. CASE WaitForFile(w)
  <2>1. Moved(w, "waiting", req[w], at[w])
    BY <1>3, StayFacts DEF WaitForFile, IInv, Steps
  <2>2. /\ UNCHANGED <<stored, lockedBy, pendingLocks>>
        /\ HasFile(w) /\ step[w] \in {"entry", "woken"}
    BY <1>3 DEF WaitForFile, HasFile, AtFile, fileVars
  <2>3. Task(w) = "write" => Allows(w, at[w])
    BY <1>0, <2>2 DEF HasFile, Allowed, Allows, ReliesOn, HoldsOrdering
  <2>4. Task(w)' = Task(w)
    BY <2>1 DEF Moved, Task
  <2>5. ReliesOn(w)'
    BY <1>0, <2>1, <2>2, <2>3, <2>4 DEF Moved, ReliesOn, Writes, Allows
  <2> QED
    BY <2>1, <2>2, <2>5, QuietStep DEF Moved
<1>4. CASE StartRead(w)
  <2>1. Moved(w, "inside", req[w], at[w])
    BY <1>4, StayFacts DEF StartRead, IInv, Steps
  <2>2. UNCHANGED <<stored, lockedBy, pendingLocks>> /\ Task(w) = "read"
    BY <1>4 DEF StartRead, Enters
  <2>3. req[w].op = "read"
    BY <2>2 DEF Task
  <2>4. ReliesOn(w)'
    BY <1>0, <2>1, <2>2, <2>3 DEF Moved, ReliesOn, HoldsOrdering, Writes
  <2> QED
    BY <2>1, <2>2, <2>4, QuietStep DEF Moved
<1>5. CASE StartWriteOrClose(w)
  <2>1. Moved(w, "inside", req[w], at[w])
    BY <1>5, StayFacts DEF StartWriteOrClose, IInv, Steps
  <2>2. /\ UNCHANGED <<stored, lockedBy, pendingLocks>>
        /\ HasFile(w) /\ Task(w) \in {"write", "close"}
    BY <1>5 DEF StartWriteOrClose, Enters
  <2>3. req[w].op = Task(w) /\ (Task(w) = "write" => at[w] = req[w].file)
    BY <2>2 DEF Task
  <2>4. Task(w) = "write" => Allows(w, at[w])
    BY <1>0, <2>2 DEF HasFile, Allowed, Allows, ReliesOn, HoldsOrdering
  <2>5. ReliesOn(w)'
    BY <2>1, <2>2, <2>3, <2>4 DEF Moved, ReliesOn, HoldsOrdering, Writes, Allows
  <2> QED
    BY <2>1, <2>2, <2>5, QuietStep DEF Moved
<1>6. CASE StartLock(w)
  <2>1. Moved(w, "inside", req[w], at[w])
    BY <1>6, StayFacts DEF StartLock, IInv, Steps
  <2>2. /\ UNCHANGED <<stored, lockedBy, pendingLocks>>
        /\ Allows(w, at[w]) /\ Task(w) = "lock"
    BY <1>6 DEF StartLock, Enters, Allows
  <2>3. req[w].op = "lock"
    BY <2>2 DEF Task
  <2>4. ReliesOn(w)'
    BY <2>1, <2>2, <2>3 DEF Moved, ReliesOn, HoldsOrdering, Writes, Allows
  <2> QED
    BY <2>1, <2>2, <2>4, QuietStep DEF Moved
<1>7. CASE SpuriousWakeup(w)
  <2>1. Moved(w, "woken", req[w], at[w])
    BY <1>7, StayFacts DEF SpuriousWakeup, IInv, Steps
  <2>2. UNCHANGED <<stored, lockedBy, pendingLocks>> /\ step[w] = "waiting"
    BY <1>7 DEF SpuriousWakeup, fileVars
  <2>3. Task(w)' = Task(w)
    BY <2>1 DEF Moved, Task
  <2>4. ReliesOn(w)'
    BY <1>0, <2>1, <2>2, <2>3 DEF Moved, ReliesOn, HoldsOrdering, Writes, Allows
  <2> QED
    BY <2>1, <2>2, <2>4, QuietStep DEF Moved
<1> QED
  BY <1>1, <1>2, <1>3, <1>4, <1>5, <1>6, <1>7

-----------------------------------------------------------------------------
\* The actions that change locks: what each does to the locks of others, and which
\* step of FileLock it is.

LEMMA NotBlocked ==
  ASSUME LInv, NEW w \in Workers, req[w].fd # NoFd
  PROVE  ~ Lock!Blocked(req[w].fd)
BY DEF LInv, OneRequest, InQueue, Lock!Blocked, Contains, Lock!Contains

\* What the operators of the waiting list keep, and whom they give the lock to.
LEMMA NextInQueue ==
  ASSUME NEW f \in Files, pendingLocks[f] \in Seq(Fds)
  PROVE  /\ StillPending(f) \in Seq(Fds) /\ NextHolder(f) \in Fds \union {NoFd}
         /\ \A r : Contains(StillPending(f), r) => Contains(pendingLocks[f], r)
<1>1. CASE pendingLocks[f] = <<>>
  BY <1>1 DEF StillPending, NextHolder
<1>2. CASE pendingLocks[f] # <<>>
  <2>1. /\ Tail(pendingLocks[f]) \in Seq(Fds) /\ Head(pendingLocks[f]) \in Fds
        /\ Len(Tail(pendingLocks[f])) = Len(pendingLocks[f]) - 1
        /\ Len(pendingLocks[f]) \in Nat
        /\ \A i \in 1 .. Len(pendingLocks[f]) - 1 :
             Tail(pendingLocks[f])[i] = pendingLocks[f][i + 1]
    BY <1>2, HeadTailProperties, LenProperties
  <2>2. ASSUME NEW r, Contains(Tail(pendingLocks[f]), r) PROVE Contains(pendingLocks[f], r)
    <3>1. PICK i \in 1 .. Len(pendingLocks[f]) - 1 : Tail(pendingLocks[f])[i] = r
      BY <2>1, <2>2 DEF Contains
    <3>2. i + 1 \in 1 .. Len(pendingLocks[f]) /\ pendingLocks[f][i + 1] = r
      BY <2>1, <3>1
    <3> QED
      BY <3>2 DEF Contains
  <2> QED
    BY <1>2, <2>1, <2>2 DEF StillPending, NextHolder
<1> QED
  BY <1>1, <1>2

\* The holder of a lock passes it on.
LEMMA PassingOn ==
  ASSUME IInv, NEW f \in Files, lockedBy[f] # NoFd,
         lockedBy' = [lockedBy EXCEPT ![f] = NextHolder(f)],
         pendingLocks' = [pendingLocks EXCEPT ![f] = StillPending(f)]
  PROVE  Lock!Release(f)
<1>1. pendingLocks \in [Files -> Seq(Fds)]
  BY DEF IInv, TypeOK
<1>2. CASE pendingLocks[f] = <<>>
  BY <1>1, <1>2 DEF Lock!Release, NextHolder, StillPending
<1>3. CASE pendingLocks[f] # <<>>
  BY <1>1, <1>3 DEF Lock!Release, NextHolder, StillPending
<1> QED
  BY <1>2, <1>3

LEMMA AddFileLocks ==
  ASSUME IInv, LInv, NEW w \in Workers, AddFile(w)
  PROVE  LockStep(w) /\ [Lock!Next]_(Lock!vars)
<1> DEFINE f == req[w].file
           r == req[w].fd
<1>1. Moved(w, "idle", NoRequest, NoFile)
  BY FinishFacts DEF AddFile, IInv
<1>2. /\ step[w] = "add" /\ stored' = stored \union {f} /\ pendingLocks' = pendingLocks
      /\ lockedBy' = [lockedBy EXCEPT ![f] = IF req[w].op = "createLocked" THEN r ELSE NoFd]
      /\ lockedBy \in [Files -> Fds \union {NoFd}]
  BY DEF AddFile, IInv, TypeOK
<1>3. req[w] \in Requests /\ req[w].op \in Creations
  BY <1>2 DEF IInv, Located, LocatedAt
<1>4. f \in Files /\ r \in Fds /\ f \notin stored
  BY <1>2, <1>3 DEF Requests, Creations, StoreOps, LInv, ReliesOn
<1>5. lockedBy[f] = NoFd
  BY <1>4 DEF LInv, Absent
<1>6. ClientRule(w)
  BY <1>1, <1>2 DEF ClientRule, InQueue, Moved, NoRequest
<1>7. HolderRule(w) /\ Absent'
  BY <1>2, <1>4 DEF HolderRule, LInv, Absent
<1>8. HoldsStore(w)
  BY <1>2 DEF HoldsStore
<1>9. LockStep(w)
  BY <1>1, <1>6, <1>7, <1>8, FinishedRelies DEF LockStep
<1>10. CASE req[w].op = "createLocked"
  <2>1. Lock!Acquire(f, r)
    BY <1>2, <1>4, <1>5, <1>10, NotBlocked, FdsAssumption DEF Lock!Acquire
  <2> QED
    BY <1>4, <1>9, <2>1 DEF Lock!Next
<1>11. CASE req[w].op # "createLocked"
  <2>1. lockedBy' = lockedBy
    BY <1>2, <1>4, <1>5, <1>11
  <2> QED
    BY <1>2, <1>9, <2>1 DEF Lock!vars
<1> QED
  BY <1>10, <1>11

LEMMA OpenLocks ==
  ASSUME IInv, LInv, NEW w \in Workers, Open(w), "openLocked" \notin Ops
  PROVE  LockStep(w) /\ [Lock!Next]_(Lock!vars)
<1>1. Enters(w, req[w].op) /\ req[w] \in Requests
  BY HasFileFacts DEF Open, Enters
<1>2. req[w].op # "openLocked"
  BY <1>1 DEF Requests
<1>3. lockedBy' = lockedBy
  <2>1. lockedBy \in [Files -> Fds \union {NoFd}] /\ Task(w) # "openLocked"
    BY <1>2 DEF IInv, TypeOK, Task
  <2> QED
    BY <2>1 DEF Open
<1>4. UNCHANGED <<stored, lockedBy, pendingLocks>> /\ Finish(w, {})
  BY <1>3 DEF Open
<1> QED
  BY <1>4, FinishedQuietly DEF Lock!vars

LEMMA ParkLocks ==
  ASSUME IInv, LInv, NEW w \in Workers, Park(w)
  PROVE  LockStep(w) /\ [Lock!Next]_(Lock!vars)
<1> DEFINE f == at[w]
           r == req[w].fd
<1>1. Moved(w, "idle", NoRequest, NoFile)
  BY FinishFacts DEF Park, IInv
<1>2. f \in Files /\ f \in stored /\ req[w] \in Requests /\ Task(w) = "lock"
  BY HasFileFacts DEF Park, Enters
<1>3. /\ lockedBy[f] \notin {NoFd, r}
      /\ pendingLocks' = [pendingLocks EXCEPT ![f] = Append(@, r)]
      /\ UNCHANGED <<stored, lockedBy>>
      /\ pendingLocks \in [Files -> Seq(Fds)]
  BY DEF Park, IInv, TypeOK
<1>4. r \in Fds
  BY <1>2 DEF Requests
<1>5. ASSUME NEW x, Contains(pendingLocks'[f], x), x # r
      PROVE  Contains(pendingLocks[f], x)
  <2>1. pendingLocks'[f] = Append(pendingLocks[f], r) /\ pendingLocks[f] \in Seq(Fds)
    BY <1>2, <1>3
  <2>2. /\ Len(pendingLocks'[f]) = Len(pendingLocks[f]) + 1
        /\ pendingLocks'[f][Len(pendingLocks[f]) + 1] = r
        /\ \A i \in 1 .. Len(pendingLocks[f]) : pendingLocks'[f][i] = pendingLocks[f][i]
        /\ Len(pendingLocks[f]) \in Nat
    BY <1>4, <2>1, AppendProperties, LenProperties
  <2>3. PICK i \in 1 .. Len(pendingLocks'[f]) : pendingLocks'[f][i] = x
    BY <1>5 DEF Contains
  <2>4. i \in 1 .. Len(pendingLocks[f])
    BY <1>5, <2>2, <2>3
  <2> QED
    BY <2>2, <2>3, <2>4 DEF Contains
<1>6. ClientRule(w)
  <2>1. ASSUME NEW g \in Files, NEW x \in Fds, Contains(pendingLocks'[g], x)
        PROVE  Contains(pendingLocks[g], x) \/ x = r
    BY <1>3, <1>5, <2>1
  <2>2. req'[w].fd = NoFd
    BY <1>1 DEF Moved, NoRequest
  <2> QED
    BY <2>1, <2>2 DEF ClientRule, InQueue
<1>7. HolderRule(w) /\ Absent'
  BY <1>2, <1>3 DEF HolderRule, LInv, Absent
<1>8. LockStep(w)
  BY <1>1, <1>3, <1>6, <1>7, FinishedRelies DEF LockStep
<1>9. Lock!Wait(f, r)
  BY <1>3, <1>4, NotBlocked, FdsAssumption DEF Lock!Wait
<1> QED
  BY <1>2, <1>4, <1>8, <1>9 DEF Lock!Next

LEMMA SetLockLocks ==
  ASSUME IInv, LInv, NEW w \in Workers, SetLock(w)
  PROVE  LockStep(w) /\ [Lock!Next]_(Lock!vars)
<1> DEFINE f == at[w]
           r == req[w].fd
<1>1. Moved(w, "locked", req[w], f)
  BY StayFacts DEF SetLock, IInv, Steps
<1>2. /\ step[w] = "inside" /\ req[w].op = "lock"
      /\ lockedBy' = [lockedBy EXCEPT ![f] = r]
      /\ UNCHANGED <<stored, pendingLocks>>
      /\ lockedBy \in [Files -> Fds \union {NoFd}]
  BY DEF SetLock, IInv, TypeOK
<1>3. f \in Files /\ f \in stored /\ req[w] \in Requests /\ r \in Fds
  <2>1. f # NoFile /\ f \in stored /\ req[w] \in Requests
    BY <1>2 DEF IInv, Located, LocatedAt
  <2> QED
    BY <2>1 DEF IInv, TypeOK, Requests
<1>4. Allows(w, f) /\ Marks(w, f)
  BY <1>2 DEF LInv, ReliesOn, Marks
<1>5. ClientRule(w)
  BY <1>1, <1>2 DEF ClientRule, InQueue, Moved
<1>6. HolderRule(w) /\ Absent'
  BY <1>2, <1>3, <1>4 DEF HolderRule, LInv, Absent
<1>7. ReliesOn(w)'
  BY <1>1, <1>2 DEF Moved, ReliesOn, HoldsOrdering, Writes, Creations
<1>8. LockStep(w)
  BY <1>2, <1>5, <1>6, <1>7 DEF LockStep
<1>9. CASE lockedBy[f] = NoFd
  <2>1. Lock!Acquire(f, r)
    BY <1>2, <1>3, <1>9, NotBlocked, FdsAssumption DEF Lock!Acquire
  <2> QED
    BY <1>3, <1>8, <2>1 DEF Lock!Next
<1>10. CASE lockedBy[f] = r
  <2>1. lockedBy' = lockedBy
    BY <1>2, <1>3, <1>10
  <2> QED
    BY <1>2, <1>8, <2>1 DEF Lock!vars
<1> QED
  BY <1>4, <1>9, <1>10 DEF Allows

LEMMA UnlockLocks ==
  ASSUME IInv, LInv, NEW w \in Workers, Unlock(w)
  PROVE  LockStep(w) /\ [Lock!Next]_(Lock!vars)
<1> DEFINE f == at[w]
           r == req[w].fd
<1>1. Moved(w, "idle", NoRequest, NoFile)
  BY FinishFacts DEF Unlock, Waiters, Enters, HasFile, AtFile, IInv
<1>2. f \in Files /\ f \in stored /\ Owns(w, f) /\ req[w] \in Requests
      /\ ~ isBeingWritten[f] /\ Task(w) = "unlock"
  BY HasFileFacts DEF Unlock, Enters, MustWait
<1>3. /\ lockedBy' = [lockedBy EXCEPT ![f] = IF lockedBy[f] = r THEN NextHolder(f) ELSE @]
      /\ pendingLocks' =
           [pendingLocks EXCEPT ![f] = IF lockedBy[f] = r THEN StillPending(f) ELSE @]
      /\ stored' = stored
      /\ lockedBy \in [Files -> Fds \union {NoFd}] /\ pendingLocks \in [Files -> Seq(Fds)]
  BY DEF Unlock, IInv, TypeOK
<1>4. r \in Fds /\ r # NoFd
  BY <1>2, FdsAssumption DEF Requests
<1>5. ClientRule(w)
  <2>1. ASSUME NEW g \in Files, NEW x \in Fds, Contains(pendingLocks'[g], x)
        PROVE  Contains(pendingLocks[g], x)
    BY <1>2, <1>3, <2>1, NextInQueue
  <2>2. req'[w].fd = NoFd
    BY <1>1 DEF Moved, NoRequest
  <2> QED
    BY <2>1, <2>2 DEF ClientRule, InQueue
<1>6. HolderRule(w) /\ Absent'
  BY <1>2, <1>3 DEF HolderRule, LInv, Absent, Allows
<1>7. LockStep(w)
  BY <1>1, <1>3, <1>5, <1>6, FinishedRelies DEF LockStep
<1>8. CASE lockedBy[f] = r
  <2>1. Lock!Release(f)
    BY <1>2, <1>3, <1>4, <1>8, PassingOn
  <2> QED
    BY <1>2, <1>7, <2>1 DEF Lock!Next
<1>9. CASE lockedBy[f] # r
  <2>1. UNCHANGED <<lockedBy, pendingLocks>>
    BY <1>2, <1>3, <1>9
  <2> QED
    BY <1>7, <2>1 DEF Lock!vars
<1> QED
  BY <1>8, <1>9

LEMMA ExitFileLocks ==
  ASSUME IInv, LInv, NEW w \in Workers, ExitFile(w)
  PROVE  LockStep(w) /\ [Lock!Next]_(Lock!vars)
<1> DEFINE f == at[w]
           r == req[w].fd
           rest == IF lockedBy[f] = r THEN StillPending(f) ELSE pendingLocks[f]
<1>1. Moved(w, "scan", req[w], NoFile)
  BY MoveFacts DEF ExitFile, Steps, IInv
<1>2. f \in Files /\ f \in stored /\ Owns(w, f) /\ req[w] \in Requests
      /\ ~ isBeingWritten[f] /\ req[w].op = "exit"
  BY HasFileFacts DEF ExitFile, Enters, MustWait, Task
<1>3. /\ lockedBy' = [lockedBy EXCEPT ![f] = IF lockedBy[f] = r THEN NextHolder(f) ELSE @]
      /\ pendingLocks' = [pendingLocks EXCEPT ![f] = RemoveFirst(rest, r)]
      /\ stored' = stored
      /\ lockedBy \in [Files -> Fds \union {NoFd}] /\ pendingLocks \in [Files -> Seq(Fds)]
  BY DEF ExitFile, IInv, TypeOK
<1>4. r \in Fds /\ r # NoFd
  BY <1>2, FdsAssumption DEF Requests
<1>5. \A x : Contains(rest, x) => Contains(pendingLocks[f], x)
  BY <1>2, <1>3, NextInQueue
<1>6. RemoveFirst(rest, r) = rest
  <2>1. ~ Contains(pendingLocks[f], r)
    BY <1>2, <1>4 DEF LInv, OneRequest, InQueue
  <2>2. \A i \in 1 .. Len(rest) : rest[i] # r
    BY <1>5, <2>1 DEF Contains
  <2> HIDE DEF rest
  <2> QED
    BY <2>2, RemoveFirstAbsent
<1>7. pendingLocks' = [pendingLocks EXCEPT ![f] = rest]
  BY <1>3, <1>6
<1>8. ClientRule(w)
  <2>1. ASSUME NEW g \in Files, NEW x \in Fds, Contains(pendingLocks'[g], x)
        PROVE  Contains(pendingLocks[g], x)
    <3> HIDE DEF rest
    <3> QED
      BY <1>2, <1>3, <1>5, <1>7, <2>1
  <2>2. req'[w].fd = req[w].fd
    BY <1>1 DEF Moved
  <2> QED
    BY <2>1, <2>2 DEF ClientRule, InQueue
<1>9. HolderRule(w)
  BY <1>2, <1>3 DEF HolderRule, Allows
<1>10. Absent'
  BY <1>2, <1>3 DEF LInv, Absent
<1>11. ReliesOn(w)'
  BY <1>1, <1>2 DEF Moved, ReliesOn, HoldsOrdering, Writes, Creations
<1>12. LockStep(w)
  BY <1>3, <1>8, <1>9, <1>10, <1>11 DEF LockStep
<1>13. CASE lockedBy[f] = r
  <2>1. Lock!Release(f)
    BY <1>2, <1>3, <1>4, <1>7, <1>13, PassingOn
  <2> QED
    BY <1>2, <1>12, <2>1 DEF Lock!Next
<1>14. CASE lockedBy[f] # r
  <2>1. UNCHANGED <<lockedBy, pendingLocks>>
    BY <1>2, <1>3, <1>7, <1>14
  <2> QED
    BY <1>12, <2>1 DEF Lock!vars
<1> QED
  BY <1>13, <1>14

LEMMA DestroyLocks ==
  ASSUME IInv, LInv, NEW w \in Workers, Destroy(w)
  PROVE  LockStep(w) /\ [Lock!Next]_(Lock!vars)
<1> DEFINE f == at[w]
<1>1. /\ step[w] \in {"entry", "woken"} /\ f \in Files /\ f \in stored
      /\ Owns(w, f) /\ req[w] \in Requests
      /\ HoldsStore(w) /\ ~ isBeingWritten[f] /\ Task(w) = "destroy"
  BY HasFileFacts DEF Destroy, Enters, MustWait, HoldsStore, ReleasesStoreEarly
<1>2. /\ stored' = stored \ {f}
      /\ lockedBy' = [lockedBy EXCEPT ![f] = NoFd]
      /\ pendingLocks' = [pendingLocks EXCEPT ![f] = <<>>]
      /\ lockedBy \in [Files -> Fds \union {NoFd}] /\ pendingLocks \in [Files -> Seq(Fds)]
  BY DEF Destroy, IInv, TypeOK
<1>3. Lock!Drop(f)
  BY <1>2 DEF Lock!Drop
<1>4. HolderRule(w) /\ Absent'
  BY <1>1, <1>2 DEF HolderRule, LInv, Absent
<1>5. \A g \in Files, x \in Fds : Contains(pendingLocks'[g], x) => Contains(pendingLocks[g], x)
  BY <1>1, <1>2 DEF Contains
<1>6. req'[w].fd \in {req[w].fd, NoFd} /\ ReliesOn(w)'
  <2>1. CASE req[w].op = "remove"
    <3>1. Moved(w, "idle", NoRequest, NoFile)
      BY <2>1, FinishFacts DEF Destroy, Creations, IInv
    <3> QED
      BY <3>1, FinishedRelies
  <2>2. CASE req[w].op = "write"
    <3> DEFINE g == req[w].file
    <3>1. g \in Files /\ g # f
      BY <1>1, <2>2 DEF Requests, StoreOps, Task, Creations
    <3>2. Moved(w, "inside", req[w], g)
      BY <2>2, <3>1, MoveFacts DEF Destroy, Creations, Steps, IInv
    <3>3. Allows(w, g)
      BY <1>1, <2>2, <3>1 DEF LInv, ReliesOn, Writes
    <3>4. lockedBy'[g] \in {NoFd, req[w].fd}
      BY <1>2, <3>1, <3>3 DEF Allows
    <3> QED
      BY <2>2, <3>2, <3>4 DEF Moved, ReliesOn, HoldsOrdering, Writes, Creations, Allows
  <2>3. CASE req[w].op \in Creations
    <3>1. Moved(w, "add", req[w], NoFile)
      BY <2>3, MoveFacts DEF Destroy, Creations, Steps, IInv
    <3>2. req[w].file \notin stored
      BY <1>1, <2>3 DEF LInv, ReliesOn
    <3> QED
      BY <1>2, <2>3, <3>1, <3>2 DEF Moved, ReliesOn, HoldsOrdering, Writes, Creations
  <2> QED
    BY <2>1, <2>2, <2>3 DEF Destroy
<1>7. ClientRule(w)
  BY <1>5, <1>6 DEF ClientRule, InQueue
<1>8. LockStep(w)
  BY <1>1, <1>4, <1>6, <1>7 DEF LockStep
<1> QED
  BY <1>1, <1>3, <1>8 DEF Lock!Next

-----------------------------------------------------------------------------
\* The invariant

\* An abort leaves the locks as they are.
LEMMA AbortKeepsLocks ==
  ASSUME LInv, NEW w \in Workers, AssertionFails(w)
  PROVE  LInv' /\ UNCHANGED Lock!vars
<1>1. /\ \A v \in Workers : step'[v] = "dead"
      /\ UNCHANGED <<stored, lockedBy, pendingLocks, req, at>>
  BY DEF AssertionFails, fileVars
<1>2. OneRequest' /\ Absent'
  BY <1>1 DEF LInv, OneRequest, Absent, InQueue
<1>3. ASSUME NEW v \in Workers PROVE ReliesOn(v)'
  BY <1>1 DEF LInv, ReliesOn, HoldsOrdering, Writes
<1> QED
  BY <1>1, <1>2, <1>3 DEF LInv, Lock!vars

LEMMA InitLInv == Init => LInv
<1> SUFFICES ASSUME Init PROVE LInv
  OBVIOUS
<1>1. OneRequest /\ Absent
  BY DEF Init, OneRequest, Absent, NoRequest
<1>2. ASSUME NEW w \in Workers PROVE ReliesOn(w)
  BY DEF Init, ReliesOn, NoRequest, HoldsOrdering, Writes
<1> QED
  BY <1>1, <1>2 DEF LInv

LEMMA NextLInv ==
  ASSUME "openLocked" \notin Ops
  PROVE  IInv /\ LInv /\ [Next]_vars => LInv' /\ [Lock!Next]_(Lock!vars)
<1> SUFFICES ASSUME IInv, LInv, [Next]_vars
             PROVE  LInv' /\ [Lock!Next]_(Lock!vars)
  OBVIOUS
<1>1. CASE UNCHANGED vars
  BY <1>1 DEF vars, fileVars, LInv, OneRequest, Absent, InQueue, ReliesOn, Allows,
     HoldsOrdering, Writes, Task, Lock!vars
<1>2. ASSUME NEW w \in Workers, LiveStep(w), LockStep(w), [Lock!Next]_(Lock!vars)
      PROVE  LInv' /\ [Lock!Next]_(Lock!vars)
  BY <1>2, LockRulesPreserve
<1>3. CASE Next
  <2>1. PICK w \in Workers :
          \/ \E q \in Requests : Dequeue(w, q)
          \/ EnterStore(w)
          \/ Continue(w)
          \/ SpuriousWakeup(w)
    BY <1>3 DEF Next
  <2>2. CASE \E q \in Requests : Dequeue(w, q)
    <3>1. UNCHANGED Lock!vars
      BY <2>2 DEF Dequeue, fileVars, Lock!vars
    <3> QED
      BY <1>2, <2>2, <3>1, DequeueRules, QuietRequests
  <2>3. CASE EnterStore(w)
    <3>1. UNCHANGED Lock!vars
      BY <2>3 DEF EnterStore, LookupFails, LookupSucceeds, Create, CreateEvicting, ScanStore,
         fileVars, Lock!vars
    <3>2. LiveStep(w)
      BY <2>3, LookupFailsRules, LookupSucceedsRules, CreateRules, CreateEvictingRules,
         ScanStoreRules DEF EnterStore
    <3>3. LockStep(w)
      BY <2>3, QuietEnds, QuietRequests DEF EnterStore
    <3> QED
      BY <1>2, <3>1, <3>2, <3>3
  <2>4. CASE Continue(w)
    <3>1. CASE \E f \in Files : ScanNext(w, f) \/ Evict(w, f)
      <4>1. UNCHANGED Lock!vars
        BY <3>1 DEF ScanNext, Evict, fileVars, Lock!vars
      <4> QED
        BY <1>2, <3>1, <4>1, ScanNextRules, EvictRules, QuietSteps
    <3>2. CASE EndScan(w) \/ Refuse(w) \/ EndRead(w) \/ EndWriteOrClose(w) \/ EndLock(w)
      <4>1. UNCHANGED Lock!vars
        BY <3>2 DEF EndScan, Refuse, EndRead, EndWriteOrClose, EndLock, fileVars, Lock!vars
      <4>2. LiveStep(w)
        BY <3>2, EndScanRules, RefuseRules, EndReadRules, EndWriteOrCloseRules, EndLockRules
      <4> QED
        BY <1>2, <3>2, <4>1, <4>2, QuietEnds
    <3>3. CASE WaitForFile(w) \/ StartRead(w) \/ StartWriteOrClose(w) \/ StartLock(w)
      <4>1. UNCHANGED Lock!vars
        BY <3>3 DEF WaitForFile, StartRead, StartWriteOrClose, StartLock, fileVars, Lock!vars
      <4>2. LiveStep(w)
        BY <3>3, WaitForFileRules, StartReadRules, StartWriteOrCloseRules, StartLockRules
      <4> QED
        BY <1>2, <3>3, <4>1, <4>2, QuietSteps
    <3>4. CASE AssertionFails(w)
      BY <3>4, AbortKeepsLocks
    <3>5. CASE AddFile(w) \/ Open(w)
      BY <1>2, <3>5, AddFileRules, OpenRules, AddFileLocks, OpenLocks
    <3>6. CASE Park(w) \/ SetLock(w)
      BY <1>2, <3>6, ParkRules, SetLockRules, ParkLocks, SetLockLocks
    <3>7. CASE Unlock(w) \/ ExitFile(w) \/ Destroy(w)
      BY <1>2, <3>7, UnlockRules, ExitFileRules, DestroyRules, UnlockLocks, ExitFileLocks,
         DestroyLocks
    <3> QED
      BY <2>4, <3>1, <3>2, <3>3, <3>4, <3>5, <3>6, <3>7 DEF Continue
  <2>5. CASE SpuriousWakeup(w)
    <3>1. UNCHANGED Lock!vars
      BY <2>5 DEF SpuriousWakeup, fileVars, Lock!vars
    <3> QED
      BY <1>2, <2>5, <3>1, SpuriousWakeupRules, QuietSteps
  <2> QED
    BY <2>1, <2>2, <2>3, <2>4, <2>5
<1> QED
  BY <1>1, <1>3

LEMMA LockInvariance ==
  ASSUME "openLocked" \notin Ops
  PROVE  Spec => []LInv
<1>1. IInv /\ LInv /\ [Next]_vars => LInv'
  BY NextLInv
<1> QED
  BY <1>1, InitLInv, Invariance, PTL DEF Spec

\* When a write or a removal takes effect, the lock of its file still allows it
\* (WritesRespectLock): a write that waited for readers or evicted other files, a
\* removal that waited for everybody. A read has no such promise: the lockFile it
\* waited for may have given the file to another client.
THEOREM WritesRespectLocks ==
  ASSUME "openLocked" \notin Ops
  PROVE  Spec => []WritesRespectLock
<1>1. LInv => WritesRespectLock
  BY DEF LInv, ReliesOn, WritesRespectLock, Allows
<1> QED
  BY <1>1, LockInvariance, PTL

\* A worker that reads a file is counted, and no other has marked the file.
LEMMA ReadingFacts ==
  ASSUME IInv, NEW w \in Workers, step[w] = "inside", req[w].op = "read"
  PROVE  /\ at[w] \in Files /\ at[w] \in stored
         /\ activeReaders[at[w]] # 0
         /\ \A v \in Workers : ~ Marks(v, at[w])
<1> DEFINE R == ReadersOf(at[w])
<1>1. at[w] \in Files /\ at[w] \in stored
  BY DEF IInv, Located, LocatedAt, TypeOK
<1>2. w \in R /\ R \subseteq Workers
  BY DEF ReadersOf
<1>3. Alive
  BY DEF IInv, DeadTogether, Alive
<1>4. Cardinality(R) # 0
  <2>1. IsFiniteSet(R)
    BY <1>2, WorkersAssumption, FS_Subset
  <2> QED
    BY <1>2, <2>1, FS_EmptySet
<1>5. activeReaders[at[w]] = Cardinality(R)
  BY <1>1, <1>3 DEF IInv, ReadersCounted
<1>6. \A v \in Workers : ~ Marks(v, at[w])
  BY <1>1, <1>2 DEF IInv, Exclusive
<1> QED
  BY <1>1, <1>4, <1>5, <1>6

\* While a file is read its lock is left alone (LockStaysForReads): unlockFile, the exit
\* of its holder and its destruction wait for the readers, lockFile had it marked.
THEOREM ReadersKeepLock ==
  ASSUME "openLocked" \notin Ops
  PROVE  Spec => LockStaysForReads
<1>1. ASSUME IInv, LInv, Next, NEW w \in Workers, step[w] = "inside", req[w].op = "read"
      PROVE  lockedBy'[at[w]] = lockedBy[at[w]]
  <2> DEFINE f == at[w]
  <2>1. /\ f \in Files /\ f \in stored /\ activeReaders[f] # 0
        /\ \A v \in Workers : ~ Marks(v, f)
    BY <1>1, ReadingFacts
  <2>2. lockedBy \in [Files -> Fds \union {NoFd}]
    BY <1>1 DEF IInv, TypeOK
  <2>3. PICK v \in Workers :
          \/ \E q \in Requests : Dequeue(v, q)
          \/ EnterStore(v)
          \/ Continue(v)
          \/ SpuriousWakeup(v)
    BY <1>1 DEF Next
  <2>4. CASE UNCHANGED lockedBy
    BY <2>4
  <2>5. CASE AddFile(v)
    <3>1. req[v].file \notin stored
      BY <1>1, <2>5 DEF AddFile, LInv, ReliesOn, IInv, Located, LocatedAt
    <3> QED
      BY <2>1, <2>2, <2>5, <3>1 DEF AddFile
  <2>6. CASE Open(v)
    <3>1. req[v] \in Requests
      BY <1>1, <2>6, HasFileFacts DEF Open, Enters
    <3>2. Task(v) # "openLocked"
      BY <3>1 DEF Task, Requests
    <3> QED
      BY <2>2, <2>6, <3>2 DEF Open
  <2>7. CASE SetLock(v)
    <3>1. Marks(v, at[v])
      BY <2>7 DEF SetLock, Marks
    <3> QED
      BY <2>1, <2>2, <2>7, <3>1 DEF SetLock
  <2>8. CASE Unlock(v) \/ ExitFile(v) \/ Destroy(v)
    <3>1. activeReaders[at[v]] = 0
      <4>1. activeReaders[at[v]] \in Nat
        BY <1>1, <2>8, HasFileFacts DEF Unlock, ExitFile, Destroy, Enters, IInv, TypeOK
      <4> QED
        BY <2>8, <4>1 DEF Unlock, ExitFile, Destroy, Enters, MustWait
    <3>2. at[v] # f
      BY <2>1, <3>1
    <3> QED
      BY <2>1, <2>2, <2>8, <3>2 DEF Unlock, ExitFile, Destroy
  <2> QED
    BY <2>3, <2>4, <2>5, <2>6, <2>7, <2>8
       DEF EnterStore, Continue, Dequeue, LookupFails, LookupSucceeds, Create, CreateEvicting,
           ScanStore, ScanNext, EndScan, AssertionFails, Refuse, WaitForFile, StartRead, EndRead,
           StartWriteOrClose, Evict, EndWriteOrClose, Park, StartLock, EndLock, SpuriousWakeup,
           fileVars
<1>2. IInv /\ LInv /\ [Next]_vars =>
        [\A w \in Workers : step[w] = "inside" /\ req[w].op = "read" =>
           lockedBy'[at[w]] = lockedBy[at[w]]]_vars
  BY <1>1
<1> QED
  BY <1>2, Invariance, LockInvariance, PTL DEF Spec, LockStaysForReads

\* The handlers implement the lock service FileLock (ImplementsFileLock): whatever
\* the interleaving, a lock passes from holder to first waiter, and nobody loses a
\* lock but by giving it up or with its file.
THEOREM RefinesFileLock ==
  ASSUME "openLocked" \notin Ops
  PROVE  Spec => ImplementsFileLock
<1>1. Init => Lock!Init
  BY DEF Init, Lock!Init
<1>2. IInv /\ LInv /\ [Next]_vars => [Lock!Next]_(Lock!vars)
  BY NextLInv
<1> QED
  BY <1>1, <1>2, Invariance, LockInvariance, PTL DEF Spec, ImplementsFileLock, Lock!Spec
=============================================================================
