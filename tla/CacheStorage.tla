---------------------------- MODULE CacheStorage ----------------------------
(***************************************************************************)
(* The storage as a cache: the list of its files, their sizes, the limits  *)
(* on both, and the choice of the files that make room for others          *)
(* (src/src/filesystemApi.c, src/src/cacheFns.c).                          *)
(*                                                                         *)
(* A creation, a write or a removal owns the mutex of the storage from     *)
(* beginning to end, but not the mutexes of the files getVictim compares:  *)
(* the other handlers go on using files, and updating their counters,      *)
(* while it looks for a victim and while destroyFile waits for it.         *)
(*                                                                         *)
(* Sizes are those of the compressed contents.  A write of any length      *)
(* gives some size no less than before (see FileContent).  Who may write or        *)
(* remove, and who is told what, is not modelled here.                     *)
(***************************************************************************)
EXTENDS Integers, FiniteSets, Sequences, SequencesExt

CONSTANTS
  Files,           \* pathnames
  MaxFileNum,      \* store->maxFileNum
  MaxStorageSize,  \* store->maxStorageSize
  MaxRefs,         \* bound on refCount
  MaxTime,         \* bound on the clock
  NoFile

ASSUME NoFileAssumption == NoFile \notin Files
\* server.c:440-441 replaces limits of 0 or less by the defaults.
ASSUME LimitsAssumption == MaxFileNum \in Nat \ {0} /\ MaxStorageSize \in Nat \ {0}
ASSUME BoundsAssumption == MaxRefs \in Nat /\ MaxTime \in Nat \ {0}

VARIABLES
  replacementAlgo,  \* FIFO, LRU or LFU, from the configuration
  list,             \* the files from hPtr to tPtr
  currFileNum,
  currStorageSize,
  contentSize,      \* per file
  refCount,         \* per file, for LFU
  lastRef,          \* per file, for LRU; 0 in a new file
  insertionTime,    \* per file
  now,              \* time(0)
  op,               \* what the owner of store->mutex is doing
  file,             \* the file it creates or writes to
  newSize,          \* newCompressedSize of the write
  victim,           \* getVictim's candidate, then its result
  cursor,           \* where getVictim is in the list, 0 outside it
  misled,           \* getVictim's candidate was used while it was one (history)
  evictedList       \* the files evicted by the write, for its client

fileVars == <<contentSize, refCount, lastRef, insertionTime>>
opVars == <<op, file, newSize, victim, cursor, misled, evictedList>>
storeVars == <<list, currFileNum, currStorageSize>>
vars == <<replacementAlgo, storeVars, fileVars, now, opVars>>

Algos == {"FIFO", "LRU", "LFU"}
Stored == ToSet(list)

TypeOK ==
  /\ replacementAlgo \in Algos
  /\ list \in Seq(Files)
  /\ currFileNum \in Nat
  /\ currStorageSize \in Nat
  /\ contentSize \in [Files -> 0 .. MaxStorageSize]
  /\ refCount \in [Files -> 0 .. MaxRefs]
  /\ lastRef \in [Files -> 0 .. MaxTime]
  /\ insertionTime \in [Files -> 0 .. MaxTime]
  /\ now \in 1 .. MaxTime
  /\ op \in {"none", "create", "write"}
  /\ file \in Files \union {NoFile}
  /\ newSize \in 0 .. MaxStorageSize
  /\ victim \in Files \union {NoFile}
  /\ cursor \in 0 .. Len(list) + 1
  /\ misled \in BOOLEAN
  /\ evictedList \subseteq Files

Init ==
  /\ replacementAlgo \in Algos
  /\ list = <<>>
  /\ currFileNum = 0
  /\ currStorageSize = 0
  /\ contentSize = [f \in Files |-> 0]
  /\ refCount = [f \in Files |-> 0]
  /\ lastRef = [f \in Files |-> 0]
  /\ insertionTime = [f \in Files |-> 0]
  /\ now = 1
  /\ op = "none"
  /\ file = NoFile
  /\ newSize = 0
  /\ victim = NoFile
  /\ cursor = 0
  /\ misled = FALSE
  /\ evictedList = {}

-----------------------------------------------------------------------------
\* Variants of definitions, each named for what it gets wrong, are used only to
\* confirm that a property can fail.
UnlinkNewSize(f) ==
  /\ list' = RemoveFirst(list, f)
  /\ currFileNum' = currFileNum - 1
  /\ currStorageSize' = currStorageSize - newSize
  /\ contentSize' = [contentSize EXCEPT ![f] = 0]
  /\ lastRef' = [lastRef EXCEPT ![f] = 0]
  /\ insertionTime' = [insertionTime EXCEPT ![f] = 0]

UnlinkUncounted(f) ==
  /\ list' = RemoveFirst(list, f)
  /\ currFileNum' = currFileNum - 1
  /\ contentSize' = [contentSize EXCEPT ![f] = 0]
  /\ lastRef' = [lastRef EXCEPT ![f] = 0]
  /\ insertionTime' = [insertionTime EXCEPT ![f] = 0]
  /\ UNCHANGED currStorageSize

\* destroyFile: the file is out of the list and out of both counts. What a file
\* outside the storage would hold, and a file starts with, is 0.
Unlink(f) ==
  /\ list' = RemoveFirst(list, f)
  /\ currFileNum' = currFileNum - 1
  /\ currStorageSize' = currStorageSize - contentSize[f]
  /\ contentSize' = [contentSize EXCEPT ![f] = 0]
  /\ lastRef' = [lastRef EXCEPT ![f] = 0]
  /\ insertionTime' = [insertionTime EXCEPT ![f] = 0]

Idle ==
  /\ op' = "none"
  /\ file' = NoFile
  /\ newSize' = 0
  /\ victim' = NoFile
  /\ cursor' = 0
  /\ misled' = FALSE
  /\ evictedList' = {}

\* UPDATE_CACHE_BITS, at most MaxRefs times.
Use(f) ==
  /\ refCount[f] < MaxRefs
  /\ refCount' = [refCount EXCEPT ![f] = @ + 1]
  /\ lastRef' = [lastRef EXCEPT ![f] = now]

\* The reference counts of all files in the storage start again.
ResetRefs == [f \in Files |-> 0]

-----------------------------------------------------------------------------
\* getVictim, which never picks `spare`

Spare == IF op = "write" THEN file ELSE NoFile

\* cmp_fns: the least of these is evicted.
Measure(f) ==
  CASE replacementAlgo = "FIFO" -> insertionTime[f]
    [] replacementAlgo = "LRU" -> lastRef[f]
    [] replacementAlgo = "LFU" -> refCount[f]

\* hPtr or its nextPtr, which may be NULL.
FirstBut(spare) ==
  CASE list[1] # spare -> list[1]
    [] list[1] = spare /\ Len(list) > 1 -> list[2]
    [] OTHER -> NoFile

\* The victim is the first file but the spare, until a better one is found; FIFO
\* looks no further.
BeginSearch(spare) ==
  /\ victim' = FirstBut(spare)
  /\ cursor' = IF replacementAlgo = "FIFO" THEN Len(list) + 1 ELSE 1
  /\ misled' = FALSE

CompareNextOrSpare ==
  /\ cursor \in 1 .. Len(list)
  /\ victim' = IF Measure(list[cursor]) < Measure(victim)
                 THEN list[cursor] ELSE victim
  /\ cursor' = cursor + 1
  /\ UNCHANGED <<replacementAlgo, storeVars, fileVars, now, op, file, newSize,
                 misled, evictedList>>

CompareNextReversed ==
  /\ cursor \in 1 .. Len(list)
  /\ victim' = IF /\ list[cursor] # Spare
                  /\ Measure(list[cursor]) > Measure(victim)
                 THEN list[cursor] ELSE victim
  /\ cursor' = cursor + 1
  /\ UNCHANGED <<replacementAlgo, storeVars, fileVars, now, op, file, newSize,
                 misled, evictedList>>

CompareNext ==
  /\ cursor \in 1 .. Len(list)
  /\ victim' = IF /\ list[cursor] # Spare
                  /\ Measure(list[cursor]) < Measure(victim)
                 THEN list[cursor] ELSE victim
  /\ cursor' = cursor + 1
  /\ UNCHANGED <<replacementAlgo, storeVars, fileVars, now, op, file, newSize,
                 misled, evictedList>>

VictimFound == cursor > Len(list)

-----------------------------------------------------------------------------
\* openFileHandler with O_CREATE

Create(f) ==
  /\ op = "none"
  /\ f \notin Stored
  /\ currFileNum # MaxFileNum
  /\ list' = Append(list, f)
  /\ currFileNum' = currFileNum + 1
  /\ insertionTime' = [insertionTime EXCEPT ![f] = now]
  /\ UNCHANGED <<replacementAlgo, currStorageSize, contentSize, refCount, lastRef,
                 now, opVars>>

BeginCreate(f) ==
  /\ op = "none"
  /\ f \notin Stored
  /\ currFileNum = MaxFileNum
  /\ op' = "create"
  /\ file' = f
  /\ BeginSearch(NoFile)
  /\ UNCHANGED <<replacementAlgo, storeVars, fileVars, now, newSize, evictedList>>

\* The victim goes and the file is added.
EndCreate ==
  /\ op = "create"
  /\ VictimFound
  /\ list' = Append(RemoveFirst(list, victim), file)
  /\ currFileNum' = (currFileNum - 1) + 1
  /\ currStorageSize' = currStorageSize - contentSize[victim]
  /\ contentSize' = [contentSize EXCEPT ![victim] = 0]
  /\ lastRef' = [lastRef EXCEPT ![victim] = 0]
  /\ insertionTime' = [insertionTime EXCEPT ![victim] = 0, ![file] = now]
  /\ refCount' = ResetRefs
  /\ Idle
  /\ UNCHANGED <<replacementAlgo, now>>

-----------------------------------------------------------------------------
\* writeToFileHandler

\* E2BIG: the file has been used, and nothing else happened.
WriteTooBig(f) ==
  /\ op = "none"
  /\ f \in Stored
  /\ Use(f)
  /\ UNCHANGED <<replacementAlgo, storeVars, contentSize, insertionTime, now, opVars>>

BeginWrite(f, size) ==
  /\ op = "none"
  /\ f \in Stored
  /\ size \in contentSize[f] .. MaxStorageSize
  /\ Use(f)
  /\ op' = "write"
  /\ file' = f
  /\ newSize' = size
  /\ UNCHANGED <<replacementAlgo, storeVars, contentSize, insertionTime, now,
                 victim, cursor, misled, evictedList>>

NeedsRoomAlready == currStorageSize > MaxStorageSize

\* The loop's condition.
NeedsRoom ==
  currStorageSize - contentSize[file] + newSize > MaxStorageSize

BeginEviction ==
  /\ op = "write"
  /\ cursor = 0
  /\ NeedsRoom
  /\ BeginSearch(file)
  /\ UNCHANGED <<replacementAlgo, storeVars, fileVars, now, op, file, newSize,
                 evictedList>>

EndEviction ==
  /\ op = "write"
  /\ VictimFound
  /\ Unlink(victim)
  /\ refCount' = [refCount EXCEPT ![victim] = 0]
  /\ evictedList' = evictedList \union {victim}
  /\ victim' = NoFile
  /\ cursor' = 0
  /\ misled' = FALSE
  /\ UNCHANGED <<replacementAlgo, now, op, file, newSize>>

EndWrite ==
  /\ op = "write"
  /\ cursor = 0
  /\ ~ NeedsRoom
  /\ refCount' = ResetRefs
  /\ currStorageSize' = currStorageSize - contentSize[file] + newSize
  /\ contentSize' = [contentSize EXCEPT ![file] = newSize]
  /\ Idle
  /\ UNCHANGED <<replacementAlgo, list, currFileNum, lastRef, insertionTime, now>>

-----------------------------------------------------------------------------
\* removeFileHandler
RemoveFile(f) ==
  /\ op = "none"
  /\ f \in Stored
  /\ Unlink(f)
  /\ refCount' = [refCount EXCEPT ![f] = 0]
  /\ UNCHANGED <<replacementAlgo, now, opVars>>

\* A read, a lock, an unlock or a close of a file: all but the close run while
\* others own the storage, but they wait for a file that is being written.
Touch(f) ==
  /\ f \in Stored \ {Spare}
  /\ Use(f)
  /\ misled' = (misled \/ f = victim)
  /\ UNCHANGED <<replacementAlgo, storeVars, contentSize, insertionTime, now, op,
                 file, newSize, victim, cursor, evictedList>>

Tick ==
  /\ now < MaxTime
  /\ now' = now + 1
  /\ UNCHANGED <<replacementAlgo, storeVars, fileVars, opVars>>

Next ==
  \/ CompareNext
  \/ EndCreate
  \/ BeginEviction
  \/ EndEviction
  \/ EndWrite
  \/ Tick
  \/ \E f \in Files :
       \/ Create(f)
       \/ BeginCreate(f)
       \/ WriteTooBig(f)
       \/ \E size \in 0 .. MaxStorageSize : BeginWrite(f, size)
       \/ RemoveFile(f)
       \/ Touch(f)

Spec == Init /\ [][Next]_vars

-----------------------------------------------------------------------------
\* The counts, kept by adding and subtracting in four handlers, are the number
\* and the total size of the files in the list, and no file is in it twice.
Accounting ==
  /\ currFileNum = Len(list)
  /\ currFileNum = Cardinality(Stored)
  /\ currStorageSize = SumFunctionOnSet(contentSize, Stored)

\* The limits hold after every operation, and while a write evicts to keep them.
WithinLimits ==
  currFileNum <= MaxFileNum /\ currStorageSize <= MaxStorageSize

\* getVictim is called only when there is a file to evict besides the spare one,
\* so it never follows a NULL pointer nor returns one (filesystemApi.c:51, 787),
\* and it never picks the file that is being written.
VictimExists ==
  /\ op = "create" => victim \in Stored
  /\ op = "write" =>
       /\ file \in Stored
       /\ cursor = 0 /\ NeedsRoom => Stored # {file}
       /\ cursor # 0 => victim \in Stored \ {file}

\* getVictim reads the counters of all files with no mutex but that of the
\* storage, while readers raise them. It still finds the least used file, and FIFO
\* the oldest although it never looks at insertionTime, unless somebody uses its
\* candidate behind its back.
VictimIsLeast ==
  VictimFound /\ op # "none" /\ (replacementAlgo = "FIFO" \/ ~ misled)
    => \A f \in Stored \ {Spare} : Measure(victim) <= Measure(f)
=============================================================================
