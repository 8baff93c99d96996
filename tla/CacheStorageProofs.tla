------------------------- MODULE CacheStorageProofs -------------------------
(***************************************************************************)
(* Proofs about CacheStorage: the counts are right, the limits hold, there *)
(* is always a file to evict, and it is the least used.                    *)
(***************************************************************************)
EXTENDS CacheStorage, DataLemmas

\* The list, its two counts, the sizes and the times of insertion agree: they are
\* arguments because EndCreate unlinks a file and adds another in one step.
Books(q, num, total, size, since, t) ==
  /\ q \in Seq(Files) /\ Distinct(q)
  /\ num = Len(q)
  /\ size \in [Files -> 0 .. MaxStorageSize]
  /\ \A f \in Files \ ToSet(q) : size[f] = 0
  /\ total = SumFunctionOnSet(size, ToSet(q))
  /\ since \in [Files -> 0 .. MaxTime]
  /\ \A f \in Files : since[f] <= t
  /\ \A i, j \in 1 .. Len(q) : i <= j => since[q[i]] <= since[q[j]]

\* An operation that waits for a victim has one to look for.
Owner ==
  /\ op = "none" => cursor = 0
  /\ op = "create" =>
       file \in Files \ Stored /\ currFileNum = MaxFileNum /\ cursor # 0

\* The candidate is the least of the files getVictim has seen.
Best ==
  cursor # 0 /\ (replacementAlgo = "FIFO" \/ ~ misled)
    => \A k \in 1 .. Len(list) :
         k < cursor /\ list[k] # Spare => Measure(victim) <= Measure(list[k])

IInv ==
  /\ TypeOK
  /\ Books(list, currFileNum, currStorageSize, contentSize, insertionTime, now)
  /\ \A f \in Files : lastRef[f] <= now
  /\ WithinLimits
  /\ Owner
  /\ VictimExists
  /\ Best

-----------------------------------------------------------------------------
\* What agreeing books say of their numbers.
LEMMA BooksFacts ==
  ASSUME NEW q, NEW num, NEW total, NEW size, NEW since, NEW t,
         Books(q, num, total, size, since, t)
  PROVE  /\ ToSet(q) \subseteq Files /\ IsFiniteSet(ToSet(q))
         /\ num = Cardinality(ToSet(q)) /\ num = Len(q) /\ num \in Nat
         /\ \A f \in ToSet(q) : size[f] \in Nat
         /\ total \in Nat
<1>1. q \in Seq(Files) /\ Distinct(q) /\ num = Len(q)
      /\ size \in [Files -> 0 .. MaxStorageSize]
      /\ total = SumFunctionOnSet(size, ToSet(q))
  BY DEF Books
<1>2. ToSet(q) \subseteq Files
  BY <1>1, ToSetMembers
<1>3. IsFiniteSet(ToSet(q)) /\ num = Cardinality(ToSet(q)) /\ num \in Nat
  BY <1>1, DistinctCardinality, LenProperties
<1>4. \A f \in ToSet(q) : size[f] \in Nat
  BY <1>1, <1>2, LimitsAssumption
<1>5. total \in Nat
  BY <1>1, <1>3, <1>4, SumNatural
<1> QED
  BY <1>1, <1>2, <1>3, <1>4, <1>5

\* The total is that of one file and that of the others.
LEMMA BooksSplit ==
  ASSUME NEW q, NEW num, NEW total, NEW size, NEW since, NEW t,
         Books(q, num, total, size, since, t), NEW f \in ToSet(q)
  PROVE  /\ total - size[f] = SumFunctionOnSet(size, ToSet(q) \ {f})
         /\ total - size[f] \in Nat
         /\ IsFiniteSet(ToSet(q) \ {f})
<1> DEFINE rest == SumFunctionOnSet(size, ToSet(q) \ {f})
<1>0. total = SumFunctionOnSet(size, ToSet(q))
  BY DEF Books
<1>1. total \in Nat /\ IsFiniteSet(ToSet(q)) /\ \A g \in ToSet(q) : size[g] \in Nat
  BY BooksFacts
<1>2. total = size[f] + rest
  BY <1>0, <1>1, SumTakeOne
<1>3. IsFiniteSet(ToSet(q) \ {f})
  BY <1>1, FS_RemoveElement
<1>4. rest \in Nat
  BY <1>1, <1>3, SumNatural
<1>5. size[f] \in Nat
  BY <1>1
<1> HIDE DEF rest
<1>6. total - size[f] = rest
  BY <1>1, <1>2, <1>4, <1>5
<1> QED
  BY <1>3, <1>4, <1>6 DEF rest

\* Unlinking a file, as destroyFile does.
LEMMA BooksWithout ==
  ASSUME NEW q, NEW num, NEW total, NEW size, NEW since, NEW t \in Nat,
         Books(q, num, total, size, since, t), NEW f \in ToSet(q)
  PROVE  /\ Books(RemoveFirst(q, f), num - 1, total - size[f],
                  [size EXCEPT ![f] = 0], [since EXCEPT ![f] = 0], t)
         /\ ToSet(RemoveFirst(q, f)) = ToSet(q) \ {f}
<1> DEFINE r == RemoveFirst(q, f)
           size2 == [size EXCEPT ![f] = 0]
           since2 == [since EXCEPT ![f] = 0]
<1>1. /\ q \in Seq(Files) /\ Distinct(q) /\ num = Len(q)
      /\ size \in [Files -> 0 .. MaxStorageSize]
      /\ \A g \in Files \ ToSet(q) : size[g] = 0
      /\ since \in [Files -> 0 .. MaxTime]
      /\ \A g \in Files : since[g] <= t
      /\ \A i, j \in 1 .. Len(q) : i <= j => since[q[i]] <= since[q[j]]
  BY DEF Books
<1>2. /\ IsFiniteSet(ToSet(q) \ {f})
      /\ total - size[f] = SumFunctionOnSet(size, ToSet(q) \ {f})
  BY BooksSplit
<1>s. ToSet(q) \subseteq Files
  BY <1>1, ToSetMembers
<1>3. Distinct(r) /\ ToSet(r) = ToSet(q) \ {f}
  BY <1>1, DistinctRemove
<1>4. PICK n \in 1 .. Len(q) : q[n] = f
  BY <1>1, ToSetMembers
<1>5. /\ r \in Seq(Files)
      /\ \E k \in 1 .. Len(q) : q[k] = f /\ Shortened(r, q, k)
  BY <1>1, <1>4, RemoveFirstShape
<1> HIDE DEF r
<1>6. PICK k \in 1 .. Len(q) : q[k] = f /\ Shortened(r, q, k)
  BY <1>5
<1>7. Len(r) = num - 1
  BY <1>1, <1>6 DEF Shortened
<1>8. /\ size2 \in [Files -> 0 .. MaxStorageSize] /\ since2 \in [Files -> 0 .. MaxTime]
      /\ \A g \in Files : g # f => size2[g] = size[g] /\ since2[g] = since[g]
      /\ size2[f] = 0 /\ since2[f] = 0
  BY <1>1, <1>s, LimitsAssumption, BoundsAssumption
<1> HIDE DEF size2, since2
<1>9. total - size[f] = SumFunctionOnSet(size2, ToSet(r))
  <2>1. \A g \in ToSet(q) \ {f} : size[g] = size2[g]
    BY <1>s, <1>8
  <2> QED
    BY <1>2, <1>3, <2>1, SumEqual
<1>10. \A g \in Files \ ToSet(r) : size2[g] = 0
  BY <1>1, <1>3, <1>8
<1>11. \A g \in Files : since2[g] <= t
  <2>1. 0 <= t
    OBVIOUS
  <2> QED
    BY <1>1, <1>8, <2>1
<1>12. \A i, j \in 1 .. Len(r) : i <= j => since2[r[i]] <= since2[r[j]]
  <2> SUFFICES ASSUME NEW i \in 1 .. Len(r), NEW j \in 1 .. Len(r), i <= j
               PROVE  since2[r[i]] <= since2[r[j]]
    OBVIOUS
  <2> DEFINE at(m) == IF m < k THEN m ELSE m + 1
  <2>1. Len(q) \in Nat /\ Len(r) = Len(q) - 1
    BY <1>1, <1>7, LenProperties
  <2>2. r[i] = q[at(i)] /\ r[j] = q[at(j)]
    BY <1>6, <2>1 DEF Shortened
  <2>3. at(i) \in 1 .. Len(q) /\ at(j) \in 1 .. Len(q) /\ at(i) <= at(j)
    BY <2>1
  <2> HIDE DEF at
  <2>4. r[i] \in Files \ {f} /\ r[j] \in Files \ {f}
    BY <1>s, <1>3, <1>5, ToSetMembers
  <2> QED
    BY <1>1, <1>8, <2>2, <2>3, <2>4
<1>13. Books(r, num - 1, total - size[f], size2, since2, t)
  BY <1>3, <1>5, <1>7, <1>8, <1>9, <1>10, <1>11, <1>12 DEF Books
<1> QED
  BY <1>3, <1>13 DEF r, size2, since2

\* Adding a new, empty file, as openFileHandler does.
LEMMA BooksWith ==
  ASSUME NEW q, NEW num, NEW total, NEW size, NEW since, NEW t \in 0 .. MaxTime,
         Books(q, num, total, size, since, t), NEW f \in Files \ ToSet(q)
  PROVE  /\ Books(Append(q, f), num + 1, total, size, [since EXCEPT ![f] = t], t)
         /\ ToSet(Append(q, f)) = ToSet(q) \union {f}
<1> DEFINE r == Append(q, f)
           since2 == [since EXCEPT ![f] = t]
<1>1. /\ q \in Seq(Files) /\ Distinct(q) /\ num = Len(q)
      /\ size \in [Files -> 0 .. MaxStorageSize]
      /\ \A g \in Files \ ToSet(q) : size[g] = 0
      /\ total = SumFunctionOnSet(size, ToSet(q))
      /\ since \in [Files -> 0 .. MaxTime]
      /\ \A g \in Files : since[g] <= t
      /\ \A i, j \in 1 .. Len(q) : i <= j => since[q[i]] <= since[q[j]]
  BY DEF Books
<1>2. /\ ToSet(q) \subseteq Files /\ IsFiniteSet(ToSet(q))
      /\ \A g \in ToSet(q) : size[g] \in Nat
      /\ total \in Nat /\ Len(q) \in Nat
  BY BooksFacts
<1>3. /\ r \in Seq(Files) /\ Len(r) = Len(q) + 1
      /\ \A i \in 1 .. Len(q) : r[i] = q[i]
      /\ r[Len(q) + 1] = f
      /\ ToSet(r) = ToSet(q) \union {f}
      /\ Distinct(r)
  BY <1>1, DistinctAppend
<1> HIDE DEF r
<1>4. since2 \in [Files -> 0 .. MaxTime] /\ since2[f] = t
      /\ \A g \in Files \ {f} : since2[g] = since[g]
  BY <1>1
<1> HIDE DEF since2
<1>5. total = SumFunctionOnSet(size, ToSet(r))
  <2>1. IsFiniteSet(ToSet(r)) /\ f \in ToSet(r) /\ ToSet(r) \ {f} = ToSet(q)
    BY <1>2, <1>3, FS_AddElement
  <2>2. size[f] = 0 /\ \A g \in ToSet(r) : size[g] \in Nat
    BY <1>1, <1>2, <1>3
  <2>3. SumFunctionOnSet(size, ToSet(r)) = size[f] + SumFunctionOnSet(size, ToSet(r) \ {f})
    BY <2>1, <2>2, SumTakeOne
  <2>4. SumFunctionOnSet(size, ToSet(r)) = 0 + total
    BY <1>1, <2>1, <2>2, <2>3
  <2> QED
    BY <1>2, <2>4
<1>6. \A g \in Files : since2[g] <= t
  <2>1. t <= t
    OBVIOUS
  <2> QED
    BY <1>1, <1>4, <2>1
<1>7. \A i, j \in 1 .. Len(r) : i <= j => since2[r[i]] <= since2[r[j]]
  <2> SUFFICES ASSUME NEW i \in 1 .. Len(r), NEW j \in 1 .. Len(r), i <= j
               PROVE  since2[r[i]] <= since2[r[j]]
    OBVIOUS
  <2>1. CASE j = Len(q) + 1
    <3>1. r[i] \in Files /\ r[j] = f
      BY <1>3, <2>1, ElementOfSeq
    <3> QED
      BY <1>4, <1>6, <3>1
  <2>2. CASE j # Len(q) + 1
    <3>1. i \in 1 .. Len(q) /\ j \in 1 .. Len(q)
      BY <1>2, <1>3, <2>2
    <3>2. r[i] = q[i] /\ r[j] = q[j] /\ q[i] \in ToSet(q) /\ q[j] \in ToSet(q)
      BY <1>1, <1>3, <3>1, ToSetMembers
    <3>3. since2[r[i]] = since[q[i]] /\ since2[r[j]] = since[q[j]]
      BY <1>2, <1>4, <3>2
    <3> QED
      BY <1>1, <3>1, <3>3
  <2> QED
    BY <2>1, <2>2
<1>8. Books(r, num + 1, total, size, since2, t)
  BY <1>1, <1>3, <1>4, <1>5, <1>6, <1>7 DEF Books
<1> QED
  BY <1>3, <1>8 DEF r, since2

\* Replacing the contents of a file, as writeToFileHandler does.
LEMMA BooksResized ==
  ASSUME NEW q, NEW num, NEW total, NEW size, NEW since, NEW t,
         Books(q, num, total, size, since, t),
         NEW f \in ToSet(q), NEW s \in 0 .. MaxStorageSize
  PROVE  Books(q, num, total - size[f] + s, [size EXCEPT ![f] = s], since, t)
<1>1. /\ q \in Seq(Files) /\ Distinct(q) /\ num = Len(q)
      /\ size \in [Files -> 0 .. MaxStorageSize]
      /\ total = SumFunctionOnSet(size, ToSet(q))
      /\ \A g \in Files \ ToSet(q) : size[g] = 0
      /\ since \in [Files -> 0 .. MaxTime]
      /\ \A g \in Files : since[g] <= t
      /\ \A i, j \in 1 .. Len(q) : i <= j => since[q[i]] <= since[q[j]]
  BY DEF Books
<1>2. /\ ToSet(q) \subseteq Files /\ IsFiniteSet(ToSet(q))
      /\ \A g \in ToSet(q) : size[g] \in Nat
  BY BooksFacts
<1>t. total = size[f] + SumFunctionOnSet(size, ToSet(q) \ {f})
  BY <1>1, <1>2, SumTakeOne
<1>i. IsFiniteSet(ToSet(q) \ {f})
  BY <1>2, FS_RemoveElement
<1> DEFINE size2 == [size EXCEPT ![f] = s]
           rest == SumFunctionOnSet(size, ToSet(q) \ {f})
<1>r. rest \in Nat /\ size[f] \in Nat
  BY <1>2, <1>i, SumNatural
<1>3. /\ size2 \in [Files -> 0 .. MaxStorageSize] /\ size2[f] = s
      /\ \A g \in Files \ {f} : size2[g] = size[g]
  BY <1>1, <1>2
<1> HIDE DEF size2
<1>4. \A g \in Files \ ToSet(q) : size2[g] = 0
  BY <1>1, <1>3
<1>5. SumFunctionOnSet(size2, ToSet(q)) = s + SumFunctionOnSet(size2, ToSet(q) \ {f})
  <2>1. s \in Nat /\ \A g \in ToSet(q) : size2[g] \in Nat
    BY <1>2, <1>3, LimitsAssumption
  <2> QED
    BY <1>2, <1>3, <2>1, SumTakeOne
<1>6. SumFunctionOnSet(size2, ToSet(q) \ {f}) = rest
  <2>1. \A g \in ToSet(q) \ {f} : size2[g] = size[g]
    BY <1>2, <1>3
  <2> QED
    BY <1>2, <1>i, <2>1, SumEqual
<1>t2. total = size[f] + rest
  BY <1>t
<1> HIDE DEF rest
<1>7. total - size[f] + s = SumFunctionOnSet(size2, ToSet(q))
  BY <1>t2, <1>r, <1>5, <1>6
<1>8. Books(q, num, total - size[f] + s, size2, since, t)
  BY <1>1, <1>3, <1>4, <1>7 DEF Books
<1> QED
  BY <1>8 DEF size2

-----------------------------------------------------------------------------
\* The books of the state, and what they say of its variables.
Books0 == Books(list, currFileNum, currStorageSize, contentSize, insertionTime, now)

LEMMA InvFacts ==
  ASSUME IInv
  PROVE  /\ Books0
         /\ Stored \subseteq Files /\ IsFiniteSet(Stored)
         /\ currFileNum = Cardinality(Stored) /\ currFileNum = Len(list)
         /\ currFileNum \in Nat /\ currStorageSize \in Nat
         /\ contentSize \in [Files -> 0 .. MaxStorageSize]
         /\ list \in Seq(Files)
         /\ now \in 0 .. MaxTime /\ now \in Nat
         /\ \A f : f \in Stored <=> \E k \in 1 .. Len(list) : list[k] = f
<1>1. Books0 /\ TypeOK
  BY DEF IInv, Books0
<1>2. /\ ToSet(list) \subseteq Files /\ IsFiniteSet(ToSet(list))
      /\ currFileNum = Cardinality(ToSet(list)) /\ currFileNum = Len(list)
      /\ currFileNum \in Nat /\ currStorageSize \in Nat
  BY <1>1, BooksFacts DEF Books0
<1>3. list \in Seq(Files)
  BY <1>1 DEF TypeOK
<1>4. now \in 0 .. MaxTime /\ now \in Nat
  BY <1>1, BoundsAssumption DEF TypeOK
<1> QED
  BY <1>1, <1>2, <1>3, <1>4, ToSetMembers DEF Stored, TypeOK

\* The files' measures are numbers.
LEMMA MeasureType ==
  ASSUME IInv, NEW f \in Files
  PROVE  Measure(f) \in Int
<1>1. /\ replacementAlgo \in Algos /\ refCount[f] \in 0 .. MaxRefs
      /\ lastRef[f] \in 0 .. MaxTime /\ insertionTime[f] \in 0 .. MaxTime
  BY DEF IInv, TypeOK
<1>2. CASE replacementAlgo = "FIFO"
  BY <1>1, <1>2, BoundsAssumption DEF Measure
<1>3. CASE replacementAlgo = "LRU"
  BY <1>1, <1>3, BoundsAssumption DEF Measure
<1>4. CASE replacementAlgo = "LFU"
  BY <1>1, <1>4, BoundsAssumption DEF Measure
<1> QED
  BY <1>1, <1>2, <1>3, <1>4 DEF Algos

\* The list is in order of insertion, so its first file but the spare one is the
\* oldest of them; there is one, if any other file than the spare is stored.
LEMMA FirstButRight ==
  ASSUME IInv, NEW spare, Stored \ {spare} # {}
  PROVE  /\ FirstBut(spare) \in Stored \ {spare}
         /\ \A k \in 1 .. Len(list) : list[k] # spare =>
              insertionTime[FirstBut(spare)] <= insertionTime[list[k]]
<1>1. /\ list \in Seq(Files) /\ Len(list) \in Nat
      /\ \A f : f \in Stored <=> \E k \in 1 .. Len(list) : list[k] = f
  BY InvFacts, LenProperties
<1>2. /\ Distinct(list)
      /\ \A i, j \in 1 .. Len(list) : i <= j =>
           insertionTime[list[i]] <= insertionTime[list[j]]
  BY DEF IInv, Books
<1>3. PICK n \in 1 .. Len(list) : list[n] # spare
  BY <1>1
<1>4. 1 \in 1 .. Len(list) /\ \A k \in 1 .. Len(list) : 1 <= k
  BY <1>1
<1>5. CASE list[1] # spare
  <2>1. FirstBut(spare) = list[1]
    BY <1>5 DEF FirstBut
  <2> QED
    BY <1>1, <1>2, <1>4, <1>5, <2>1
<1>6. CASE list[1] = spare
  <2>1. 2 \in 1 .. Len(list) /\ Len(list) > 1
    BY <1>1, <1>3, <1>6
  <2>2. FirstBut(spare) = list[2]
    BY <1>6, <2>1 DEF FirstBut
  <2>3. list[2] # spare
    BY <1>2, <1>4, <1>6, <2>1 DEF Distinct
  <2>4. \A k \in 1 .. Len(list) : list[k] # spare => 2 <= k
    BY <1>1, <1>6
  <2> QED
    BY <1>1, <1>2, <2>1, <2>2, <2>3, <2>4
<1> QED
  BY <1>5, <1>6

LEMMA InitIInv == Init => IInv
<1> SUFFICES ASSUME Init PROVE IInv
  OBVIOUS
<1>1. ToSet(list) = {} /\ Len(list) = 0 /\ list \in Seq(Files)
  BY EmptySeq DEF Init, ToSet
<1>2. SumFunctionOnSet(contentSize, {}) = 0
  BY SumEmpty
<1> DEFINE zero == [f \in Files |-> 0]
<1>z. /\ zero \in [Files -> 0 .. MaxStorageSize] /\ zero \in [Files -> 0 .. MaxRefs]
      /\ zero \in [Files -> 0 .. MaxTime] /\ \A f \in Files : zero[f] = 0
      /\ 0 \in 0 .. MaxStorageSize /\ 1 \in 1 .. MaxTime
      /\ 0 <= 1 /\ 0 \in Nat /\ 0 \in 0 .. 0 + 1
  BY LimitsAssumption, BoundsAssumption
<1>i. /\ contentSize = zero /\ refCount = zero /\ lastRef = zero /\ insertionTime = zero
      /\ now = 1 /\ currFileNum = 0 /\ currStorageSize = 0
      /\ replacementAlgo \in Algos /\ op = "none" /\ file = NoFile /\ newSize = 0
      /\ victim = NoFile /\ cursor = 0 /\ misled = FALSE /\ evictedList = {}
  BY DEF Init
<1> HIDE DEF zero
<1>3. TypeOK
  BY <1>1, <1>z, <1>i DEF TypeOK
<1>d. Distinct(list) /\ \A i, j \in 1 .. Len(list) :
                           i <= j => insertionTime[list[i]] <= insertionTime[list[j]]
  BY <1>1 DEF Distinct
<1>4. Books(list, currFileNum, currStorageSize, contentSize, insertionTime, now)
  BY <1>1, <1>2, <1>z, <1>i, <1>d DEF Books
<1>5. WithinLimits /\ Owner /\ VictimExists /\ Best /\ \A f \in Files : lastRef[f] <= now
  BY <1>1, LimitsAssumption DEF Init, WithinLimits, Owner, VictimExists, Best
<1> QED
  BY <1>3, <1>4, <1>5 DEF IInv

-----------------------------------------------------------------------------
\* One lemma per action

\* A file that is used is never measured lower than before, others are measured
\* as before, and FIFO does not look at uses.
LEMMA MeasureUsed ==
  ASSUME IInv, NEW f \in Files, Use(f), UNCHANGED <<replacementAlgo, insertionTime>>,
         NEW g \in Files
  PROVE  /\ Measure(g) <= Measure(g)'
         /\ g # f \/ replacementAlgo = "FIFO" => Measure(g)' = Measure(g)
<1>1. /\ refCount \in [Files -> 0 .. MaxRefs] /\ lastRef \in [Files -> 0 .. MaxTime]
      /\ insertionTime \in [Files -> 0 .. MaxTime]
      /\ replacementAlgo \in Algos /\ lastRef[g] <= now
      /\ MaxRefs \in Nat /\ MaxTime \in Nat
  BY BoundsAssumption DEF IInv, TypeOK
<1>2. /\ refCount' = [refCount EXCEPT ![f] = @ + 1]
      /\ lastRef' = [lastRef EXCEPT ![f] = now]
      /\ insertionTime' = insertionTime /\ replacementAlgo' = replacementAlgo
  BY DEF Use
<1>3. /\ refCount[g] <= refCount'[g] /\ lastRef[g] <= lastRef'[g]
      /\ insertionTime[g] <= insertionTime'[g]
      /\ g # f => refCount'[g] = refCount[g] /\ lastRef'[g] = lastRef[g]
  BY <1>1, <1>2
<1>4. CASE replacementAlgo = "FIFO"
  BY <1>2, <1>3, <1>4 DEF Measure
<1>5. CASE replacementAlgo = "LRU"
  BY <1>2, <1>3, <1>5 DEF Measure
<1>6. CASE replacementAlgo = "LFU"
  BY <1>2, <1>3, <1>6 DEF Measure
<1> QED
  BY <1>1, <1>4, <1>5, <1>6 DEF Algos

LEMMA UseTypes ==
  ASSUME IInv, NEW f \in Files, Use(f), UNCHANGED now
  PROVE  /\ refCount' \in [Files -> 0 .. MaxRefs]
         /\ lastRef' \in [Files -> 0 .. MaxTime]
         /\ \A g \in Files : lastRef'[g] <= now'
<1>1. /\ refCount \in [Files -> 0 .. MaxRefs] /\ lastRef \in [Files -> 0 .. MaxTime]
      /\ now \in 1 .. MaxTime /\ MaxRefs \in Nat /\ MaxTime \in Nat
      /\ \A g \in Files : lastRef[g] <= now
  BY BoundsAssumption DEF IInv, TypeOK
<1>2. /\ refCount' = [refCount EXCEPT ![f] = @ + 1] /\ refCount[f] < MaxRefs
      /\ lastRef' = [lastRef EXCEPT ![f] = now] /\ now' = now
  BY DEF Use
<1>3. refCount[f] + 1 \in 0 .. MaxRefs /\ now \in 0 .. MaxTime /\ now <= now
  BY <1>1, <1>2
<1> QED
  BY <1>1, <1>2, <1>3

LEMMA CompareNextStep == IInv /\ CompareNext => IInv'
<1> SUFFICES ASSUME IInv, CompareNext PROVE IInv'
  OBVIOUS
<1> USE DEF storeVars, fileVars
<1>1. TypeOK /\ Owner /\ VictimExists /\ Best /\ WithinLimits
  BY DEF IInv
<1>2. /\ list \in Seq(Files) /\ Stored \subseteq Files /\ Len(list) \in Nat
      /\ \A f : f \in Stored <=> \E k \in 1 .. Len(list) : list[k] = f
  BY InvFacts, LenProperties
<1>3. /\ cursor \in 1 .. Len(list) /\ cursor' = cursor + 1
      /\ victim' = IF list[cursor] # Spare /\ Measure(list[cursor]) < Measure(victim)
                     THEN list[cursor] ELSE victim
      /\ UNCHANGED <<replacementAlgo, storeVars, fileVars, now, op, file, newSize,
                     misled, evictedList>>
  BY DEF CompareNext
<1>4. op = "create" \/ op = "write"
  BY <1>1, <1>3 DEF TypeOK, Owner
<1>5. victim \in Stored \ {Spare} /\ list[cursor] \in Stored
  <2>1. NoFile \notin Stored
    BY <1>2, NoFileAssumption
  <2> QED
    BY <1>1, <1>2, <1>3, <1>4, <2>1 DEF VictimExists, Spare
<1>6. victim' \in Stored \ {Spare}
  BY <1>3, <1>5
<1>7. Stored' = Stored /\ Spare' = Spare /\ cursor' \in 1 .. Len(list) + 1
  BY <1>2, <1>3 DEF Stored, Spare
<1>8. TypeOK'
  <2>1. cursor' \in 0 .. Len(list') + 1
    BY <1>2, <1>3
  <2>2. victim' \in Files \union {NoFile}
    BY <1>2, <1>6
  <2> QED
    BY <1>1, <1>3, <2>1, <2>2 DEF TypeOK
<1>9. Books(list, currFileNum, currStorageSize, contentSize, insertionTime, now)'
  BY <1>3 DEF IInv
<1>10. (\A f \in Files : lastRef[f] <= now)'
  BY <1>3 DEF IInv
<1>11. WithinLimits' /\ Owner'
  BY <1>1, <1>3, <1>7 DEF WithinLimits, Owner
<1>12. VictimExists'
  <2>1. (op = "create" => victim \in Stored)'
    BY <1>6, <1>7
  <2>2. ASSUME op' = "write"
        PROVE  (/\ file \in Stored
                /\ cursor = 0 /\ NeedsRoom => Stored # {file}
                /\ cursor # 0 => victim \in Stored \ {file})'
    <3>1. Spare = file /\ op = "write" /\ cursor' # 0
      BY <1>3, <1>7, <2>2 DEF Spare
    <3> QED
      BY <1>1, <1>3, <1>6, <1>7, <3>1 DEF VictimExists
  <2> QED
    BY <2>1, <2>2 DEF VictimExists
<1>13. Best'
  <2> SUFFICES ASSUME replacementAlgo = "FIFO" \/ ~ misled,
                      NEW k \in 1 .. Len(list), k < cursor + 1, list[k] # Spare
               PROVE  Measure(victim)' <= Measure(list[k])'
    BY <1>3, <1>7 DEF Best
  <2>2. Measure(victim') <= Measure(list[k])
    <3>1. list[k] \in Files /\ victim \in Files
      BY <1>2, <1>5
    <3>2. /\ Measure(list[k]) \in Int /\ Measure(victim) \in Int
          /\ Measure(list[cursor]) \in Int
      BY <1>2, <1>5, <3>1, MeasureType
    <3>3. CASE k = cursor
      BY <1>3, <3>2, <3>3
    <3>4. CASE k # cursor
      <4>1. k < cursor
        BY <1>3, <3>4
      <4>2. Measure(victim) <= Measure(list[k])
        BY <1>1, <1>3, <4>1 DEF Best
      <4> QED
        BY <1>3, <3>2, <4>2
    <3> QED
      BY <3>3, <3>4
  <2>3. Measure(victim)' = Measure(victim') /\ Measure(list[k])' = Measure(list[k])
    BY <1>3 DEF Measure
  <2> QED
    BY <2>2, <2>3
<1> QED
  BY <1>8, <1>9, <1>10, <1>11, <1>12, <1>13 DEF IInv

LEMMA CreateStep == \A f \in Files : IInv /\ Create(f) => IInv'
<1> SUFFICES ASSUME NEW f \in Files, IInv, Create(f) PROVE IInv'
  OBVIOUS
<1>1. TypeOK /\ Owner /\ WithinLimits /\ Books0
  BY DEF IInv, Books0
<1>2. /\ list \in Seq(Files) /\ currFileNum = Len(list) /\ currFileNum \in Nat
      /\ now \in 0 .. MaxTime /\ currStorageSize \in Nat
  BY InvFacts
<1>3. /\ op = "none" /\ f \in Files \ ToSet(list) /\ currFileNum # MaxFileNum
      /\ list' = Append(list, f)
      /\ currFileNum' = currFileNum + 1
      /\ insertionTime' = [insertionTime EXCEPT ![f] = now]
      /\ UNCHANGED <<replacementAlgo, currStorageSize, contentSize, refCount, lastRef,
                     now, opVars>>
  BY DEF Create, Stored
<1>4. Books(Append(list, f), currFileNum + 1, currStorageSize, contentSize,
            [insertionTime EXCEPT ![f] = now], now)
  BY <1>1, <1>2, <1>3, BooksWith DEF Books0
<1>5. Books(list, currFileNum, currStorageSize, contentSize, insertionTime, now)'
  BY <1>3, <1>4
<1>6. op' = "none" /\ cursor' = 0
  BY <1>1, <1>3 DEF Owner, opVars
<1>7. /\ list' \in Seq(Files) /\ currFileNum' \in Nat /\ cursor' \in 0 .. Len(list') + 1
      /\ insertionTime' \in [Files -> 0 .. MaxTime]
  <2>1. list' \in Seq(Files) /\ insertionTime' \in [Files -> 0 .. MaxTime]
    BY <1>5 DEF Books
  <2>2. Len(list') \in Nat
    BY <2>1, LenProperties
  <2> QED
    BY <1>2, <1>3, <1>6, <2>1, <2>2
<1>8. TypeOK'
  BY <1>1, <1>3, <1>7 DEF TypeOK, opVars
<1>9. WithinLimits'
  <2>1. currFileNum <= MaxFileNum /\ MaxFileNum \in Nat
    BY <1>1, LimitsAssumption DEF WithinLimits
  <2>2. currFileNum' <= MaxFileNum
    BY <1>2, <1>3, <2>1
  <2> QED
    BY <1>1, <1>3, <2>2 DEF WithinLimits
<1>10. Owner' /\ VictimExists' /\ Best'
  BY <1>6 DEF Owner, VictimExists, Best
<1>11. (\A g \in Files : lastRef[g] <= now)'
  BY <1>3 DEF IInv
<1> QED
  BY <1>5, <1>8, <1>9, <1>10, <1>11 DEF IInv

\* getVictim's loop has nothing to show for itself when it begins, and FIFO's
\* choice of the first file is the right one.
LEMMA BeginSearchBest ==
  ASSUME IInv, NEW spare, Stored \ {spare} # {}, BeginSearch(spare), Spare' = spare,
         UNCHANGED <<replacementAlgo, list, fileVars>>
  PROVE  Best'
<1>1. /\ victim' = FirstBut(spare)
      /\ cursor' = IF replacementAlgo = "FIFO" THEN Len(list) + 1 ELSE 1
  BY DEF BeginSearch
<1>2. CASE replacementAlgo = "FIFO"
  <2> SUFFICES ASSUME NEW k \in 1 .. Len(list), list[k] # spare
               PROVE  Measure(victim)' <= Measure(list[k])'
    BY DEF Best
  <2>1. insertionTime[FirstBut(spare)] <= insertionTime[list[k]]
    BY FirstButRight
  <2>2. /\ Measure(victim)' = insertionTime[victim']
        /\ Measure(list[k])' = insertionTime[list[k]]
    BY <1>2 DEF Measure, fileVars
  <2> QED
    BY <1>1, <2>1, <2>2
<1>3. CASE replacementAlgo # "FIFO"
  <2>1. \A k \in 1 .. Len(list) : ~ k < 1
    BY InvFacts
  <2> QED
    BY <1>1, <1>3, <2>1 DEF Best
<1> QED
  BY <1>2, <1>3

LEMMA BeginCreateStep == \A f \in Files : IInv /\ BeginCreate(f) => IInv'
<1> SUFFICES ASSUME NEW f \in Files, IInv, BeginCreate(f) PROVE IInv'
  OBVIOUS
<1>1. TypeOK /\ Owner /\ WithinLimits
  BY DEF IInv
<1>2. /\ list \in Seq(Files) /\ currFileNum = Cardinality(Stored) /\ Stored \subseteq Files
      /\ Len(list) \in Nat /\ MaxFileNum # 0
  BY InvFacts, LenProperties, LimitsAssumption
<1>3. /\ op = "none" /\ f \notin Stored /\ currFileNum = MaxFileNum
      /\ op' = "create" /\ file' = f
      /\ BeginSearch(NoFile)
      /\ UNCHANGED <<replacementAlgo, storeVars, fileVars, now, newSize, evictedList>>
  BY DEF BeginCreate
<1>4. Stored \ {NoFile} # {}
  <2>1. Stored # {}
    BY <1>2, <1>3, FS_EmptySet
  <2> QED
    BY <1>2, <2>1, NoFileAssumption
<1>5. Stored' = Stored /\ Spare' = NoFile
  BY <1>3 DEF Stored, Spare, storeVars
<1>6. victim' \in Stored /\ misled' = FALSE
      /\ cursor' = IF replacementAlgo = "FIFO" THEN Len(list) + 1 ELSE 1
  BY <1>3, <1>4, FirstButRight DEF BeginSearch
<1>7. cursor' # 0 /\ cursor' \in 0 .. Len(list) + 1
  BY <1>2, <1>6
<1>8. TypeOK'
  BY <1>1, <1>2, <1>3, <1>6, <1>7 DEF TypeOK, storeVars, fileVars
<1>9. Books(list, currFileNum, currStorageSize, contentSize, insertionTime, now)'
      /\ (\A g \in Files : lastRef[g] <= now)'
  BY <1>3 DEF IInv, storeVars, fileVars
<1>10. WithinLimits' /\ Owner' /\ VictimExists'
  BY <1>1, <1>3, <1>5, <1>6, <1>7 DEF WithinLimits, Owner, VictimExists, storeVars
<1>11. Best'
  BY <1>3, <1>4, <1>5, BeginSearchBest DEF storeVars
<1> QED
  BY <1>8, <1>9, <1>10, <1>11 DEF IInv

LEMMA EndCreateStep == IInv /\ EndCreate => IInv'
<1> SUFFICES ASSUME IInv, EndCreate PROVE IInv'
  OBVIOUS
<1>1. TypeOK /\ Owner /\ WithinLimits /\ VictimExists /\ Books0
  BY DEF IInv, Books0
<1>2. /\ list \in Seq(Files) /\ currFileNum = Len(list) /\ currFileNum \in Nat
      /\ now \in 0 .. MaxTime /\ now \in Nat /\ currStorageSize \in Nat
      /\ contentSize \in [Files -> 0 .. MaxStorageSize] /\ Stored \subseteq Files
  BY InvFacts
<1>3. /\ op = "create"
      /\ list' = Append(RemoveFirst(list, victim), file)
      /\ currFileNum' = (currFileNum - 1) + 1
      /\ currStorageSize' = currStorageSize - contentSize[victim]
      /\ contentSize' = [contentSize EXCEPT ![victim] = 0]
      /\ lastRef' = [lastRef EXCEPT ![victim] = 0]
      /\ insertionTime' = [insertionTime EXCEPT ![victim] = 0, ![file] = now]
      /\ refCount' = ResetRefs
      /\ Idle
      /\ UNCHANGED <<replacementAlgo, now>>
  BY DEF EndCreate
<1>4. victim \in ToSet(list) /\ file \in Files \ ToSet(list)
  BY <1>1, <1>3 DEF VictimExists, Owner, Stored
<1> DEFINE r == RemoveFirst(list, victim)
           num == currFileNum - 1
           total == currStorageSize - contentSize[victim]
           since == [insertionTime EXCEPT ![victim] = 0]
<1>5. /\ Books(r, num, total, contentSize', since, now)
      /\ ToSet(r) = ToSet(list) \ {victim}
  BY <1>1, <1>2, <1>3, <1>4, BooksWithout DEF Books0
<1>6. /\ insertionTime' = [since EXCEPT ![file] = now]
      /\ list' = Append(r, file) /\ currFileNum' = num + 1 /\ currStorageSize' = total
  BY <1>3
<1>7. total \in Nat
  BY <1>1, <1>4, BooksSplit DEF Books0
<1>8. currStorageSize' <= currStorageSize
  BY <1>2, <1>3, <1>4 DEF Stored
<1> HIDE DEF r, num, total, since
<1>9. Books(Append(r, file), num + 1, total, contentSize', [since EXCEPT ![file] = now],
            now)
  BY <1>2, <1>4, <1>5, BooksWith
<1>10. Books(list, currFileNum, currStorageSize, contentSize, insertionTime, now)'
  BY <1>3, <1>6, <1>9
<1>11. /\ op' = "none" /\ file' = NoFile /\ newSize' = 0 /\ victim' = NoFile
       /\ cursor' = 0 /\ misled' = FALSE /\ evictedList' = {}
  BY <1>3 DEF Idle
<1>12. TypeOK'
  <2>1. /\ list' \in Seq(Files) /\ insertionTime' \in [Files -> 0 .. MaxTime]
        /\ contentSize' \in [Files -> 0 .. MaxStorageSize]
    BY <1>10 DEF Books
  <2>2. cursor' \in 0 .. Len(list') + 1 /\ 0 \in 0 .. MaxStorageSize
    BY <1>11, <2>1, LenProperties, LimitsAssumption
  <2>3. refCount' \in [Files -> 0 .. MaxRefs] /\ lastRef' \in [Files -> 0 .. MaxTime]
    <3>1. 0 \in 0 .. MaxRefs /\ 0 \in 0 .. MaxTime
      BY BoundsAssumption
    <3>2. lastRef \in [Files -> 0 .. MaxTime] /\ refCount' = [g \in Files |-> 0]
      BY <1>1, <1>3 DEF ResetRefs, TypeOK
    <3> QED
      BY <1>3, <3>1, <3>2
  <2>4. currFileNum' \in Nat /\ currStorageSize' \in Nat
    BY <1>2, <1>3, <1>6, <1>7
  <2> QED
    BY <1>1, <1>3, <1>11, <2>1, <2>2, <2>3, <2>4 DEF TypeOK
<1>13. WithinLimits'
  <2>1. currFileNum' = currFileNum
    BY <1>2, <1>3
  <2>2. currStorageSize' <= MaxStorageSize
    BY <1>1, <1>2, <1>6, <1>7, <1>8, LimitsAssumption DEF WithinLimits
  <2> QED
    BY <1>1, <2>1, <2>2 DEF WithinLimits
<1>14. Owner' /\ VictimExists' /\ Best'
  BY <1>11 DEF Owner, VictimExists, Best
<1>15. (\A g \in Files : lastRef[g] <= now)'
  BY <1>1, <1>2, <1>3 DEF TypeOK, IInv
<1> QED
  BY <1>10, <1>12, <1>13, <1>14, <1>15 DEF IInv

\* A use in a write that fails, at the beginning of one, or in another operation:
\* the books and the list stay, and only the files' uses and the operation change.
LEMMA UsePreserves ==
  ASSUME IInv, NEW f \in Files, Use(f),
         UNCHANGED <<replacementAlgo, storeVars, contentSize, insertionTime, now>>
  PROVE  /\ Books(list, currFileNum, currStorageSize, contentSize, insertionTime, now)'
         /\ (\A g \in Files : lastRef[g] <= now)'
         /\ WithinLimits' /\ Stored' = Stored
         /\ refCount' \in [Files -> 0 .. MaxRefs] /\ lastRef' \in [Files -> 0 .. MaxTime]
BY UseTypes DEF IInv, storeVars, WithinLimits, Stored

LEMMA WriteTooBigStep == \A f \in Files : IInv /\ WriteTooBig(f) => IInv'
<1> SUFFICES ASSUME NEW f \in Files, IInv, WriteTooBig(f) PROVE IInv'
  OBVIOUS
<1>1. TypeOK /\ Owner
  BY DEF IInv
<1>2. /\ op = "none" /\ Use(f)
      /\ UNCHANGED <<replacementAlgo, storeVars, contentSize, insertionTime, now, opVars>>
  BY DEF WriteTooBig
<1>3. /\ Books(list, currFileNum, currStorageSize, contentSize, insertionTime, now)'
      /\ (\A g \in Files : lastRef[g] <= now)'
      /\ WithinLimits'
      /\ refCount' \in [Files -> 0 .. MaxRefs] /\ lastRef' \in [Files -> 0 .. MaxTime]
  BY <1>2, UsePreserves
<1>4. TypeOK'
  BY <1>1, <1>2, <1>3 DEF TypeOK, storeVars, opVars
<1>5. op' = "none" /\ cursor' = 0
  BY <1>1, <1>2 DEF Owner, opVars
<1>6. Owner' /\ VictimExists' /\ Best'
  BY <1>5 DEF Owner, VictimExists, Best
<1> QED
  BY <1>3, <1>4, <1>6 DEF IInv

\* A file that is alone takes all the room that is taken.
LEMMA BooksAlone ==
  ASSUME NEW q, NEW num, NEW total, NEW size, NEW since, NEW t,
         Books(q, num, total, size, since, t), NEW f, ToSet(q) = {f}
  PROVE  total - size[f] = 0
<1>1. f \in ToSet(q) /\ ToSet(q) \ {f} = {}
  OBVIOUS
<1>2. total - size[f] = SumFunctionOnSet(size, ToSet(q) \ {f})
  BY <1>1, BooksSplit
<1>3. total - size[f] = SumFunctionOnSet(size, {})
  BY <1>1, <1>2
<1> QED
  BY <1>3, SumEmpty

\* It always fits: a write needs room only while others take it.
LEMMA AloneFits ==
  ASSUME IInv, NEW f, Stored = {f}, NEW size \in 0 .. MaxStorageSize
  PROVE  ~ currStorageSize - contentSize[f] + size > MaxStorageSize
<1>1. currStorageSize - contentSize[f] = 0
  BY BooksAlone DEF Stored, IInv
<1> QED
  BY <1>1, LimitsAssumption

LEMMA BeginWriteStep ==
  \A f \in Files, size \in 0 .. MaxStorageSize : IInv /\ BeginWrite(f, size) => IInv'
<1> SUFFICES ASSUME NEW f \in Files, NEW size \in 0 .. MaxStorageSize,
                    IInv, BeginWrite(f, size)
             PROVE  IInv'
  OBVIOUS
<1>1. TypeOK /\ Owner
  BY DEF IInv
<1>2. /\ op = "none" /\ Use(f) /\ f \in Stored
      /\ op' = "write" /\ file' = f /\ newSize' = size
      /\ UNCHANGED <<replacementAlgo, storeVars, contentSize, insertionTime, now,
                     victim, cursor, misled, evictedList>>
  BY DEF BeginWrite
<1>3. /\ Books(list, currFileNum, currStorageSize, contentSize, insertionTime, now)'
      /\ (\A g \in Files : lastRef[g] <= now)'
      /\ WithinLimits' /\ Stored' = Stored
      /\ refCount' \in [Files -> 0 .. MaxRefs] /\ lastRef' \in [Files -> 0 .. MaxTime]
  BY <1>2, UsePreserves
<1>4. TypeOK'
  BY <1>1, <1>2, <1>3 DEF TypeOK, storeVars
<1>5. cursor' = 0
  BY <1>1, <1>2 DEF Owner
<1>6. Owner' /\ Best'
  BY <1>2, <1>5 DEF Owner, Best
<1>7. VictimExists'
  <2>1. NeedsRoom' => Stored # {f}
    BY <1>2, AloneFits DEF NeedsRoom, storeVars
  <2> QED
    BY <1>2, <1>3, <1>5, <2>1 DEF VictimExists
<1> QED
  BY <1>3, <1>4, <1>6, <1>7 DEF IInv

LEMMA BeginEvictionStep == IInv /\ BeginEviction => IInv'
<1> SUFFICES ASSUME IInv, BeginEviction PROVE IInv'
  OBVIOUS
<1>1. TypeOK /\ Owner /\ WithinLimits /\ VictimExists
  BY DEF IInv
<1>2. /\ list \in Seq(Files) /\ Len(list) \in Nat /\ Stored \subseteq Files
  BY InvFacts, LenProperties
<1>3. /\ op = "write" /\ cursor = 0 /\ NeedsRoom
      /\ BeginSearch(file)
      /\ UNCHANGED <<replacementAlgo, storeVars, fileVars, now, op, file, newSize,
                     evictedList>>
  BY DEF BeginEviction
<1>4. file \in Stored /\ Stored \ {file} # {}
  <2>1. file \in Stored
    BY <1>1, <1>3 DEF VictimExists
  <2>2. newSize \in 0 .. MaxStorageSize
    BY <1>1 DEF TypeOK
  <2>3. Stored # {file}
    BY <1>3, <2>1, <2>2, AloneFits DEF NeedsRoom
  <2> QED
    BY <2>1, <2>3
<1>5. Stored' = Stored /\ Spare' = file
  BY <1>3 DEF Stored, Spare, storeVars
<1>6. /\ victim' \in Stored \ {file} /\ misled' = FALSE
      /\ cursor' = IF replacementAlgo = "FIFO" THEN Len(list) + 1 ELSE 1
  BY <1>3, <1>4, FirstButRight DEF BeginSearch
<1>7. cursor' # 0 /\ cursor' \in 0 .. Len(list) + 1
  BY <1>2, <1>6
<1>8. TypeOK'
  BY <1>1, <1>2, <1>3, <1>6, <1>7 DEF TypeOK, storeVars, fileVars
<1>9. Books(list, currFileNum, currStorageSize, contentSize, insertionTime, now)'
      /\ (\A g \in Files : lastRef[g] <= now)'
  BY <1>3 DEF IInv, storeVars, fileVars
<1>10. WithinLimits' /\ Owner' /\ VictimExists'
  BY <1>1, <1>3, <1>4, <1>5, <1>6, <1>7 DEF WithinLimits, Owner, VictimExists, storeVars
<1>11. Best'
  BY <1>3, <1>4, <1>5, BeginSearchBest DEF storeVars
<1> QED
  BY <1>8, <1>9, <1>10, <1>11 DEF IInv

\* What destroyFile does to the books and the limits.
LEMMA UnlinkPreserves ==
  ASSUME IInv, NEW f \in Stored, Unlink(f), UNCHANGED now
  PROVE  /\ Books(list, currFileNum, currStorageSize, contentSize, insertionTime, now)'
         /\ (\A g \in Files : lastRef[g] <= now)'
         /\ WithinLimits' /\ Stored' = Stored \ {f}
         /\ list' \in Seq(Files) /\ currFileNum' \in Nat /\ currStorageSize' \in Nat
         /\ Len(list') \in Nat
         /\ contentSize' \in [Files -> 0 .. MaxStorageSize]
         /\ lastRef' \in [Files -> 0 .. MaxTime]
         /\ insertionTime' \in [Files -> 0 .. MaxTime]
<1>1. TypeOK /\ WithinLimits /\ Books0
  BY DEF IInv, Books0
<1>2. /\ currFileNum \in Nat /\ currStorageSize \in Nat /\ now \in Nat
      /\ contentSize \in [Files -> 0 .. MaxStorageSize] /\ Stored \subseteq Files
  BY InvFacts
<1>3. /\ list' = RemoveFirst(list, f)
      /\ currFileNum' = currFileNum - 1
      /\ currStorageSize' = currStorageSize - contentSize[f]
      /\ contentSize' = [contentSize EXCEPT ![f] = 0]
      /\ lastRef' = [lastRef EXCEPT ![f] = 0]
      /\ insertionTime' = [insertionTime EXCEPT ![f] = 0]
      /\ now' = now
  BY DEF Unlink
<1>4. /\ Books(RemoveFirst(list, f), currFileNum - 1, currStorageSize - contentSize[f],
               [contentSize EXCEPT ![f] = 0], [insertionTime EXCEPT ![f] = 0], now)
      /\ ToSet(RemoveFirst(list, f)) = ToSet(list) \ {f}
  BY <1>1, <1>2, BooksWithout DEF Books0, Stored
<1>5. Books(list, currFileNum, currStorageSize, contentSize, insertionTime, now)'
  BY <1>3, <1>4
<1>6. currStorageSize' \in Nat
  BY <1>1, <1>3, BooksSplit DEF Books0, Stored
<1>7. /\ list' \in Seq(Files) /\ currFileNum' = Len(list')
      /\ contentSize' \in [Files -> 0 .. MaxStorageSize]
      /\ insertionTime' \in [Files -> 0 .. MaxTime]
  BY <1>5 DEF Books
<1>8. lastRef' \in [Files -> 0 .. MaxTime] /\ (\A g \in Files : lastRef[g] <= now)'
  <2>1. 0 \in 0 .. MaxTime /\ 0 <= now
    BY <1>2, BoundsAssumption
  <2>2. lastRef \in [Files -> 0 .. MaxTime] /\ \A g \in Files : lastRef[g] <= now
    BY DEF IInv, TypeOK
  <2> QED
    BY <1>3, <2>1, <2>2
<1>9. Len(list') \in Nat /\ currFileNum' \in Nat
  BY <1>7, LenProperties
<1>10. WithinLimits'
  <2>1. /\ contentSize[f] \in Nat /\ currFileNum <= MaxFileNum
        /\ currStorageSize <= MaxStorageSize
        /\ MaxFileNum \in Nat /\ MaxStorageSize \in Nat
    BY <1>1, <1>2, LimitsAssumption DEF WithinLimits
  <2>2. currFileNum' <= MaxFileNum
    BY <1>2, <1>3, <2>1
  <2>3. currStorageSize' <= MaxStorageSize
    BY <1>2, <1>3, <2>1
  <2> QED
    BY <2>2, <2>3 DEF WithinLimits
<1>11. Stored' = Stored \ {f}
  BY <1>3, <1>4 DEF Stored
<1> QED
  BY <1>5, <1>6, <1>7, <1>8, <1>9, <1>10, <1>11

LEMMA EndEvictionStep == IInv /\ EndEviction => IInv'
<1> SUFFICES ASSUME IInv, EndEviction PROVE IInv'
  OBVIOUS
<1>1. TypeOK /\ Owner /\ VictimExists
  BY DEF IInv
<1>2. /\ op = "write" /\ VictimFound /\ Unlink(victim)
      /\ refCount' = [refCount EXCEPT ![victim] = 0]
      /\ evictedList' = evictedList \union {victim}
      /\ victim' = NoFile /\ cursor' = 0 /\ misled' = FALSE
      /\ UNCHANGED <<replacementAlgo, now, op, file, newSize>>
  BY DEF EndEviction
<1>3. cursor # 0
  <2>1. Len(list) \in Nat
    BY InvFacts
  <2> QED
    BY <1>2, <2>1 DEF VictimFound
<1>4. victim \in Stored \ {file} /\ file \in Stored
  BY <1>1, <1>2, <1>3 DEF VictimExists
<1>5. /\ Books(list, currFileNum, currStorageSize, contentSize, insertionTime, now)'
      /\ (\A g \in Files : lastRef[g] <= now)'
      /\ WithinLimits' /\ Stored' = Stored \ {victim}
      /\ list' \in Seq(Files) /\ currFileNum' \in Nat /\ currStorageSize' \in Nat
      /\ Len(list') \in Nat
      /\ contentSize' \in [Files -> 0 .. MaxStorageSize]
      /\ lastRef' \in [Files -> 0 .. MaxTime]
      /\ insertionTime' \in [Files -> 0 .. MaxTime]
  BY <1>2, <1>4, UnlinkPreserves
<1>6. TypeOK'
  <2>1. refCount' \in [Files -> 0 .. MaxRefs]
    <3>1. refCount \in [Files -> 0 .. MaxRefs] /\ 0 \in 0 .. MaxRefs
      BY <1>1, BoundsAssumption DEF TypeOK
    <3> QED
      BY <1>2, <3>1
  <2>2. cursor' \in 0 .. Len(list') + 1
    BY <1>2, <1>5
  <2>3. evictedList' \subseteq Files
    BY <1>1, <1>2, <1>4, InvFacts DEF TypeOK
  <2> QED
    BY <1>1, <1>2, <1>5, <2>1, <2>2, <2>3 DEF TypeOK
<1>7. Owner' /\ Best'
  BY <1>2 DEF Owner, Best
<1>8. VictimExists'
  <2>1. file' \in Stored'
    BY <1>2, <1>4, <1>5
  <2>2. NeedsRoom' => Stored' # {file'}
    <3> SUFFICES ASSUME NeedsRoom', Stored' = {file} PROVE FALSE
      BY <1>2
    <3>1. ToSet(list') = {file}
      BY DEF Stored
    <3>2. Books(list', currFileNum', currStorageSize', contentSize', insertionTime', now')
      BY <1>5
    <3>3. currStorageSize' - contentSize'[file] = 0
      BY <3>1, <3>2, BooksAlone
    <3>4. currStorageSize' - contentSize'[file] + newSize > MaxStorageSize
      BY <1>2 DEF NeedsRoom
    <3>5. newSize \in 0 .. MaxStorageSize
      BY <1>1 DEF TypeOK
    <3> QED
      BY <3>3, <3>4, <3>5, LimitsAssumption
  <2> QED
    BY <1>2, <2>1, <2>2 DEF VictimExists
<1> QED
  BY <1>5, <1>6, <1>7, <1>8 DEF IInv

LEMMA EndWriteStep == IInv /\ EndWrite => IInv'
<1> SUFFICES ASSUME IInv, EndWrite PROVE IInv'
  OBVIOUS
<1>1. TypeOK /\ Owner /\ VictimExists /\ WithinLimits /\ Books0
  BY DEF IInv, Books0
<1>2. /\ list \in Seq(Files) /\ Len(list) \in Nat /\ newSize \in 0 .. MaxStorageSize
      /\ MaxStorageSize \in Nat
  BY <1>1, LenProperties, LimitsAssumption DEF TypeOK
<1>3. /\ op = "write" /\ ~ NeedsRoom
      /\ refCount' = ResetRefs
      /\ currStorageSize' = currStorageSize - contentSize[file] + newSize
      /\ contentSize' = [contentSize EXCEPT ![file] = newSize]
      /\ Idle
      /\ UNCHANGED <<replacementAlgo, list, currFileNum, lastRef, insertionTime, now>>
  BY DEF EndWrite
<1>4. file \in ToSet(list)
  BY <1>1, <1>3 DEF VictimExists, Stored
<1>5. Books(list, currFileNum, currStorageSize - contentSize[file] + newSize,
            [contentSize EXCEPT ![file] = newSize], insertionTime, now)
  BY <1>1, <1>2, <1>4, BooksResized DEF Books0
<1>6. Books(list, currFileNum, currStorageSize, contentSize, insertionTime, now)'
  BY <1>3, <1>5
<1>7. currStorageSize' \in Nat /\ currStorageSize' <= MaxStorageSize
  <2>1. currStorageSize - contentSize[file] \in Nat
    BY <1>1, <1>4, BooksSplit DEF Books0
  <2> QED
    BY <1>2, <1>3, <2>1 DEF NeedsRoom
<1>8. /\ op' = "none" /\ file' = NoFile /\ newSize' = 0 /\ victim' = NoFile
      /\ cursor' = 0 /\ misled' = FALSE /\ evictedList' = {}
  BY <1>3 DEF Idle
<1>9. TypeOK'
  <2>1. contentSize' \in [Files -> 0 .. MaxStorageSize]
    BY <1>6 DEF Books
  <2>2. refCount' \in [Files -> 0 .. MaxRefs]
    <3>1. 0 \in 0 .. MaxRefs
      BY BoundsAssumption
    <3> QED
      BY <1>3, <3>1 DEF ResetRefs
  <2>3. cursor' \in 0 .. Len(list') + 1 /\ newSize' \in 0 .. MaxStorageSize
    BY <1>2, <1>3, <1>8
  <2> QED
    BY <1>1, <1>3, <1>7, <1>8, <2>1, <2>2, <2>3 DEF TypeOK
<1>10. WithinLimits' /\ (\A g \in Files : lastRef[g] <= now)'
  BY <1>1, <1>3, <1>7 DEF WithinLimits, IInv
<1>11. Owner' /\ VictimExists' /\ Best'
  BY <1>8 DEF Owner, VictimExists, Best
<1> QED
  BY <1>6, <1>9, <1>10, <1>11 DEF IInv

LEMMA RemoveFileStep == \A f \in Files : IInv /\ RemoveFile(f) => IInv'
<1> SUFFICES ASSUME NEW f \in Files, IInv, RemoveFile(f) PROVE IInv'
  OBVIOUS
<1>1. TypeOK /\ Owner
  BY DEF IInv
<1>2. /\ op = "none" /\ f \in Stored /\ Unlink(f)
      /\ refCount' = [refCount EXCEPT ![f] = 0]
      /\ UNCHANGED <<replacementAlgo, now, opVars>>
  BY DEF RemoveFile
<1>3. /\ Books(list, currFileNum, currStorageSize, contentSize, insertionTime, now)'
      /\ (\A g \in Files : lastRef[g] <= now)'
      /\ WithinLimits'
      /\ list' \in Seq(Files) /\ currFileNum' \in Nat /\ currStorageSize' \in Nat
      /\ Len(list') \in Nat
      /\ contentSize' \in [Files -> 0 .. MaxStorageSize]
      /\ lastRef' \in [Files -> 0 .. MaxTime]
      /\ insertionTime' \in [Files -> 0 .. MaxTime]
  BY <1>2, UnlinkPreserves
<1>4. op' = "none" /\ cursor' = 0
  BY <1>1, <1>2 DEF Owner, opVars
<1>5. TypeOK'
  <2>1. refCount' \in [Files -> 0 .. MaxRefs]
    <3>1. refCount \in [Files -> 0 .. MaxRefs] /\ 0 \in 0 .. MaxRefs
      BY <1>1, BoundsAssumption DEF TypeOK
    <3> QED
      BY <1>2, <3>1
  <2>2. cursor' \in 0 .. Len(list') + 1
    BY <1>3, <1>4
  <2> QED
    BY <1>1, <1>2, <1>3, <2>1, <2>2 DEF TypeOK, opVars
<1>6. Owner' /\ VictimExists' /\ Best'
  BY <1>4 DEF Owner, VictimExists, Best
<1> QED
  BY <1>3, <1>5, <1>6 DEF IInv

LEMMA TouchStep == \A f \in Files : IInv /\ Touch(f) => IInv'
<1> SUFFICES ASSUME NEW f \in Files, IInv, Touch(f) PROVE IInv'
  OBVIOUS
<1>1. TypeOK /\ Owner /\ VictimExists /\ Best
  BY DEF IInv
<1>2. /\ Use(f) /\ f \in Stored \ {Spare}
      /\ misled' = (misled \/ f = victim)
      /\ UNCHANGED <<replacementAlgo, storeVars, contentSize, insertionTime, now, op,
                     file, newSize, victim, cursor, evictedList>>
  BY DEF Touch
<1>3. /\ Books(list, currFileNum, currStorageSize, contentSize, insertionTime, now)'
      /\ (\A g \in Files : lastRef[g] <= now)'
      /\ WithinLimits' /\ Stored' = Stored
      /\ refCount' \in [Files -> 0 .. MaxRefs] /\ lastRef' \in [Files -> 0 .. MaxTime]
  BY <1>2, UsePreserves
<1>4. TypeOK'
  <2>1. misled' \in BOOLEAN
    BY <1>1, <1>2 DEF TypeOK
  <2> QED
    BY <1>1, <1>2, <1>3, <2>1 DEF TypeOK, storeVars
<1>5. Owner' /\ VictimExists'
  BY <1>1, <1>2, <1>3 DEF Owner, VictimExists, NeedsRoom, storeVars
<1>6. Best'
  <2> SUFFICES ASSUME cursor # 0, replacementAlgo = "FIFO" \/ ~ misled',
                      NEW k \in 1 .. Len(list), k < cursor, list[k] # Spare
               PROVE  Measure(victim)' <= Measure(list[k])'
    BY <1>2 DEF Best, storeVars, Spare
  <2>1. victim \in Files /\ list[k] \in Files
    <3>1. op = "create" \/ op = "write"
      BY <1>1 DEF TypeOK, Owner
    <3>2. victim \in Stored
      BY <1>1, <3>1 DEF VictimExists
    <3> QED
      BY <3>2, InvFacts
  <2>2. replacementAlgo = "FIFO" \/ (~ misled /\ victim # f)
    BY <1>2
  <2>3. Measure(victim) <= Measure(list[k])
    BY <1>1, <2>2 DEF Best
  <2>4. PICK v \in Files, g \in Files : v = victim /\ g = list[k]
    BY <2>1
  <2>5. Measure(victim)' = Measure(v)' /\ Measure(list[k])' = Measure(g)'
    BY <1>2, <2>4 DEF Measure, storeVars
  <2>6. Measure(v) <= Measure(g) /\ Measure(v) \in Int /\ Measure(g) \in Int
    BY <2>3, <2>4, MeasureType
  <2>7. Measure(v)' = Measure(v) /\ Measure(g) <= Measure(g)'
    BY <1>2, <2>2, <2>4, MeasureUsed
  <2>8. Measure(g)' \in Int
    BY <1>2, <1>4 DEF Measure, TypeOK, Algos
  <2> QED
    BY <2>5, <2>6, <2>7, <2>8
<1> QED
  BY <1>3, <1>4, <1>5, <1>6 DEF IInv

LEMMA TickStep == IInv /\ Tick => IInv'
<1> SUFFICES ASSUME IInv, Tick PROVE IInv'
  OBVIOUS
<1>1. /\ TypeOK /\ Owner /\ VictimExists /\ Best /\ WithinLimits
      /\ \A f \in Files : lastRef[f] <= now
      /\ Books(list, currFileNum, currStorageSize, contentSize, insertionTime, now)
  BY DEF IInv
<1>2. /\ now < MaxTime /\ now' = now + 1
      /\ UNCHANGED <<replacementAlgo, storeVars, fileVars, opVars>>
  BY DEF Tick
<1>3. now \in 1 .. MaxTime /\ now' \in 1 .. MaxTime /\ MaxTime \in Nat /\ now < now'
  BY <1>1, <1>2, BoundsAssumption DEF TypeOK
<1>4. TypeOK'
  BY <1>1, <1>2, <1>3 DEF TypeOK, storeVars, fileVars, opVars
<1>5. \A f \in Files : lastRef[f] <= now' /\ insertionTime[f] <= now'
  <2>1. \A f \in Files : lastRef[f] <= now /\ insertionTime[f] <= now
    BY <1>1 DEF Books
  <2>2. \A f \in Files : lastRef[f] \in 0 .. MaxTime /\ insertionTime[f] \in 0 .. MaxTime
    BY <1>1 DEF TypeOK
  <2> QED
    BY <1>3, <2>1, <2>2
<1>6. Books(list, currFileNum, currStorageSize, contentSize, insertionTime, now')
  BY <1>1, <1>5 DEF Books
<1>7. Books(list, currFileNum, currStorageSize, contentSize, insertionTime, now)'
      /\ (\A f \in Files : lastRef[f] <= now)'
  BY <1>2, <1>5, <1>6 DEF storeVars, fileVars
<1>8. WithinLimits' /\ Owner' /\ VictimExists'
  BY <1>1, <1>2 DEF WithinLimits, Owner, VictimExists, NeedsRoom, Stored, storeVars,
                    fileVars, opVars
<1>9. Best'
  BY <1>1, <1>2 DEF Best, Measure, Spare, storeVars, fileVars, opVars
<1> QED
  BY <1>4, <1>7, <1>8, <1>9 DEF IInv

-----------------------------------------------------------------------------
\* The invariant is inductive.
LEMMA NextIInv == IInv /\ [Next]_vars => IInv'
<1> SUFFICES ASSUME IInv, [Next]_vars PROVE IInv'
  OBVIOUS
<1>1. CASE Next
  BY <1>1, CompareNextStep, CreateStep, BeginCreateStep, EndCreateStep, WriteTooBigStep,
     BeginWriteStep, BeginEvictionStep, EndEvictionStep, EndWriteStep, RemoveFileStep,
     TouchStep, TickStep
     DEF Next
<1>2. CASE UNCHANGED vars
  <2> USE <1>2 DEF vars, storeVars, fileVars, opVars
  <2>1. TypeOK' /\ WithinLimits' /\ Owner' /\ VictimExists'
    BY DEF IInv, TypeOK, WithinLimits, Owner, VictimExists, NeedsRoom, Stored
  <2>2. Books(list, currFileNum, currStorageSize, contentSize, insertionTime, now)'
        /\ (\A f \in Files : lastRef[f] <= now)'
    BY DEF IInv
  <2>3. Best'
    BY DEF IInv, Best, Measure, Spare
  <2> QED
    BY <2>1, <2>2, <2>3 DEF IInv
<1> QED
  BY <1>1, <1>2

LEMMA Invariance == Spec => []IInv
BY InitIInv, NextIInv, PTL DEF Spec

\* CacheStorage.TypeOK.
THEOREM Typed == Spec => []TypeOK
<1>1. IInv => TypeOK
  BY DEF IInv
<1> QED
  BY <1>1, Invariance, PTL

\* Whatever the files, the limits and the algorithm: the two counts that four
\* handlers keep by adding and subtracting are the number and the total size of the
\* files in the list.
THEOREM AccountingHolds == Spec => []Accounting
<1>1. IInv => Accounting
  <2> SUFFICES ASSUME IInv PROVE Accounting
    OBVIOUS
  <2>1. currFileNum = Len(list) /\ currFileNum = Cardinality(Stored)
    BY InvFacts
  <2>2. currStorageSize = SumFunctionOnSet(contentSize, Stored)
    BY DEF IInv, Books, Stored
  <2> QED
    BY <2>1, <2>2 DEF Accounting
<1> QED
  BY <1>1, Invariance, PTL

\* The limits of the configuration are never exceeded, not even in the middle of a
\* write that evicts.
THEOREM LimitsHold == Spec => []WithinLimits
<1>1. IInv => WithinLimits
  BY DEF IInv
<1> QED
  BY <1>1, Invariance, PTL

\* getVictim always has a file to return, and it is never the one that is written.
THEOREM VictimFoundAlways == Spec => []VictimExists
<1>1. IInv => VictimExists
  BY DEF IInv
<1> QED
  BY <1>1, Invariance, PTL

\* What getVictim returns is the least of the files it may evict, unless somebody
\* used its candidate while it was looking.
THEOREM VictimLeast == Spec => []VictimIsLeast
<1>1. IInv => VictimIsLeast
  <2> SUFFICES ASSUME IInv, VictimFound, op # "none",
                      replacementAlgo = "FIFO" \/ ~ misled, NEW f \in Stored \ {Spare}
               PROVE  Measure(victim) <= Measure(f)
    BY DEF VictimIsLeast
  <2>1. Len(list) \in Nat /\ \E k \in 1 .. Len(list) : list[k] = f
    BY InvFacts
  <2>2. PICK k \in 1 .. Len(list) : list[k] = f
    BY <2>1
  <2>3. cursor # 0 /\ cursor \in Int /\ cursor > Len(list)
    BY <2>1 DEF VictimFound, IInv, TypeOK
  <2>4. k < cursor
    BY <2>1, <2>3
  <2> QED
    BY <2>2, <2>3, <2>4 DEF IInv, Best
<1> QED
  BY <1>1, Invariance, PTL
=============================================================================
