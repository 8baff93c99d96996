--------------------------- MODULE SessionProofs ---------------------------
(***************************************************************************)
(* For any numbers of connections, files and commands: between two calls   *)
(* nothing is under way on a connection but the payload of a write that    *)
(* was refused, only a program that deserts a call brings the server down, *)
(* and who has a file open or locked is who asked for it, except that a    *)
(* file opened twice may stay open (OpenedTwice).  The right to the first  *)
(* write is not among these: clientExitHandler leaves it behind.           *)
(*                                                                         *)
(* A call goes through phases.  Each is described by everything that is    *)
(* kept for the connection; the step of another client's worker can only   *)
(* take a call from one phase to another by settling it, while it waits.   *)
(***************************************************************************)
EXTENDS Session, DataLemmas

\* Client g waits for the lock of file f.
InLine(g, f) == f \in Stored /\ g \in ToSet(store[f].pendingLocks)

\* Somebody is going to tell it that it does no more.
Told(g) == \E x \in Fds \union {Closed} : g \in notifyList[x]

Current(g) == Head(todo[g])

\* What may be answered to a call: only some answers come with files.
Fits(call, a) ==
  /\ a \in Answers /\ a.code # "none"
  /\ IsFiniteSet(a.files)
  /\ a.files # {} => a.code = "OK" /\ call.op \in {"readN", "write", "append"}

\* Nobody has anything to do for it but, maybe, to tell others, or to throw away the
\* payload of a write that was forbidden.
AtRest(g) ==
  /\ worker[g] \in {"none", "notifying", "discarding"}
  /\ rest[g] = << >> /\ answer[g] = None

\* What its worker will find of it, once it has thrown that away.
StreamIs(g, s) ==
  IF worker[g] = "discarding" THEN \E p \in Payloads : toServer[g] = <<p>> \o s
                              ELSE toServer[g] = s

NotHeld(g) == ~ Waiting(g) /\ ~ Told(g)

Quiet(g) ==
  AtRest(g) /\ NotHeld(g) /\ StreamIs(g, << >>) /\ toClient[g] = << >>

Asked(g) ==
  AtRest(g) /\ NotHeld(g) /\ StreamIs(g, Request(Current(g))) /\ toClient[g] = << >>

Tested(g) ==
  /\ worker[g] = "tested" /\ Current(g).op = "write"
  /\ rest[g] = << >> /\ answer[g] = None /\ NotHeld(g)
  /\ toServer[g] = <<PayloadOf(Current(g))>> /\ toClient[g] = << >>

Forbidden(g) ==
  /\ worker[g] = "forbidden" /\ Current(g).op = "write"
  /\ rest[g] = << >> /\ answer[g] = Refused /\ NotHeld(g)
  /\ toServer[g] = <<PayloadOf(Current(g))>> /\ toClient[g] = << >>

Decided(g) ==
  /\ worker[g] = "answered" /\ Fits(Current(g), answer[g])
  /\ rest[g] = Body(Current(g), answer[g]) /\ NotHeld(g)
  /\ toServer[g] = << >> /\ toClient[g] = << >>

Parked(g) ==
  /\ worker[g] = "none" /\ rest[g] = << >> /\ answer[g] = None
  /\ Waiting(g) /\ ~ Told(g)
  /\ toServer[g] = << >> /\ toClient[g] = << >>

Released(g) ==
  /\ worker[g] = "none" /\ rest[g] = << >> /\ answer[g] \in {Ok({}), Refused}
  /\ ~ Waiting(g) /\ Told(g) /\ Current(g).op = "lock"
  /\ toServer[g] = << >> /\ toClient[g] = << >>

\* The first part of an answer was sent, or all of it.
Sent(g) ==
  /\ answer[g] = None /\ NotHeld(g) /\ StreamIs(g, << >>)
  /\ \E a \in Answers :
       /\ Fits(Current(g), a)
       /\ \/ /\ worker[g] = "notifying"
             /\ toClient[g] = <<a.code>> /\ rest[g] = Body(Current(g), a)
          \/ /\ worker[g] \in {"none", "notifying", "discarding"}
             /\ toClient[g] = <<a.code>> \o Body(Current(g), a) /\ rest[g] = << >>

\* An answer the client was sent all of, or only the code of.
SentAs(g, a) ==
  /\ Fits(Current(g), a)
  /\ \/ toClient[g] = <<a.code>> /\ rest[g] = Body(Current(g), a)
     \/ toClient[g] = <<a.code>> \o Body(Current(g), a) /\ rest[g] = << >>

Talks(g) ==
  \/ ~ InCall(g) /\ Quiet(g)
  \/ /\ InCall(g) /\ todo[g] # << >>
     /\ \/ Asked(g) \/ Tested(g) \/ Forbidden(g) \/ Decided(g)
        \/ Parked(g) \/ Released(g) \/ Sent(g)

StoreWell ==
  /\ StoreOK /\ IsFiniteSet(Stored)
  /\ \A f \in Stored : Distinct(store[f].pendingLocks)

\* A client waits for the lock it asks for.
Lines ==
  \A g \in Fds : \A f \in Files :
    InLine(g, f) => InCall(g) /\ Current(g) = [op |-> "lock", file |-> f]

\* Nobody is told twice.
Lists ==
  /\ \A x, y \in Fds \union {Closed} : \A g \in Fds :
       g \in notifyList[x] /\ g \in notifyList[y] => x = y
  /\ \A x \in Fds : notifyList[x] # {} => worker[x] \in {"answered", "notifying"}

IInv ==
  /\ TypeOK
  /\ StoreWell
  /\ Lines
  /\ \A g \in Fds : Talks(g)
  /\ Lists
  /\ DiesOnlyOfDesertion

-----------------------------------------------------------------------------
\* What is sent and how it is read

LEMMA BodyShape ==
  ASSUME NEW call \in Calls, NEW a, Fits(call, a)
  PROVE  /\ Body(call, a) \in Seq({Content, EndOfFiles} \union Files)
         /\ ToSet(Body(call, a)) \intersect Files = a.files
         /\ a.code = "OK" /\ HasBody(call) =>
              /\ Body(call, a) # << >>
              /\ Body(call, a)[Len(Body(call, a))] \in {Content, EndOfFiles}
              /\ \A i \in 1 .. Len(Body(call, a)) - 1 : Body(call, a)[i] \in Files
         /\ a.code # "OK" \/ ~ HasBody(call) => Body(call, a) = << >>
<1>1. a.files \in SUBSET Files /\ IsFiniteSet(a.files) /\ a.code \in {"OK", "refused"}
  BY DEF Fits, Answers
<1>2. Content \notin Files /\ EndOfFiles \notin Files
  BY SessionAssumption DEF Content, EndOfFiles
<1>3. CASE a.code # "OK" \/ ~ HasBody(call)
  <2>1. ~ (a.code = "OK" /\ call.op = "read")
    BY <1>3 DEF HasBody
  <2>3. Body(call, a) = << >>
    BY <1>3, <2>1 DEF Body
  <2>2. a.files = {}
    BY <1>3 DEF Fits, HasBody
  <2> QED
    BY <1>3, <2>2, <2>3 DEF ToSet
<1>4. CASE a.code = "OK" /\ call.op = "read"
  <2>1. Body(call, a) = <<Content>> /\ HasBody(call)
    BY <1>4 DEF Body, HasBody
  <2>2. a.files = {}
    BY <1>4 DEF Fits
  <2>3. ToSet(<<Content>>) = {Content}
    BY DEF ToSet
  <2> QED
    BY <1>2, <1>4, <2>1, <2>2, <2>3
<1>5. CASE a.code = "OK" /\ HasBody(call) /\ call.op # "read"
  <2> DEFINE l == SetToSeq(a.files)
             b == l \o <<EndOfFiles>>
  <2>1. Body(call, a) = b
    BY <1>5 DEF Body
  <2>2. l \in Seq(a.files) /\ ToSet(l) = a.files
    BY <1>1, SetToSeqLists
  <2> HIDE DEF l
  <2>3. /\ b \in Seq({Content, EndOfFiles} \union Files) /\ Len(b) = Len(l) + 1
        /\ Len(l) \in Nat /\ b[Len(l) + 1] = EndOfFiles
        /\ \A i \in 1 .. Len(l) : b[i] = l[i]
    <3>1. l \in Seq({Content, EndOfFiles} \union Files) /\ Len(l) \in Nat
      BY <1>1, <2>2, LenProperties, ElementOfSeq
    <3>2. <<EndOfFiles>> \in Seq({Content, EndOfFiles} \union Files)
      OBVIOUS
    <3> QED
      BY <3>1, <3>2, ConcatProperties
  <2> HIDE DEF b
  <2>4. \A i \in 1 .. Len(l) : l[i] \in Files
    BY <1>1, <2>2, ElementOfSeq
  <2>5. ToSet(b) \intersect Files = a.files
    <3>1. \A x : x \in ToSet(b) <=> \E i \in 1 .. Len(l) + 1 : b[i] = x
      BY <2>3, ToSetMembers
    <3>2. \A x : x \in a.files <=> \E i \in 1 .. Len(l) : l[i] = x
      BY <2>2, ToSetMembers
    <3>3. \A i : i \in 1 .. Len(l) + 1 <=> i \in 1 .. Len(l) \/ i = Len(l) + 1
      BY <2>3
    <3>4. ASSUME NEW x \in ToSet(b) \intersect Files PROVE x \in a.files
      BY <1>2, <2>3, <3>1, <3>2, <3>3
    <3>5. ASSUME NEW x \in a.files PROVE x \in ToSet(b) \intersect Files
      BY <1>1, <2>3, <3>1, <3>2, <3>3
    <3> QED
      BY <3>4, <3>5
  <2> QED
    BY <1>5, <2>1, <2>3, <2>4, <2>5
<1> QED
  BY <1>1, <1>3, <1>4, <1>5

\* What the library reads of an answer is all of it, and it has all been sent.
LEMMA ReadsAll ==
  ASSUME NEW call \in Calls, NEW a, Fits(call, a), NEW stream,
         stream = <<a.code>> \/ stream = <<a.code>> \o Body(call, a),
         NEW r \in Response(call, stream)
  PROVE  /\ r = stream /\ stream = <<a.code>> \o Body(call, a)
         /\ stream = <<a.code>> => Body(call, a) = << >>
         /\ r[1] = a.code /\ SubSeq(stream, Len(r) + 1, Len(stream)) = << >>
<1> DEFINE b == Body(call, a)
           T == {Content, EndOfFiles, "OK", "refused"} \union Files
<1>1. /\ b \in Seq(T) /\ Len(b) \in Nat
      /\ a.code = "OK" /\ HasBody(call) =>
           /\ b # << >> /\ b[Len(b)] \in {Content, EndOfFiles}
           /\ \A i \in 1 .. Len(b) - 1 : b[i] \in Files
      /\ a.code # "OK" \/ ~ HasBody(call) => b = << >>
  <2>1. b \in Seq({Content, EndOfFiles} \union Files)
    BY BodyShape
  <2>2. b \in Seq(T)
    BY <2>1, SeqWider
  <2> QED
    BY <2>2, BodyShape, LenProperties
<1>2. a.code \in {"OK", "refused"}
  BY DEF Fits, Answers
<1> DEFINE w == <<a.code>> \o b
<1> HIDE DEF b, T
<1>3. /\ w \in Seq(T) /\ Len(w) = Len(b) + 1 /\ w[1] = a.code
      /\ \A i \in 1 .. Len(b) : w[i + 1] = b[i]
  <2>1. <<a.code>> \in Seq(T) /\ Len(<<a.code>>) = 1
    BY <1>2 DEF T
  <2>2. \A i \in 1 .. Len(b) : i + 1 \in 1 .. Len(b) + 1 /\ ~ (i + 1 <= 1) /\ (i + 1) - 1 = i
    BY <1>1
  <2> QED
    BY <1>1, <2>1, <2>2, ConcatProperties
<1> HIDE DEF w
<1>4. Content \notin Files \union {"OK", "refused"}
      /\ EndOfFiles \notin Files \union {"OK", "refused"}
  BY SessionAssumption DEF Content, EndOfFiles
<1>5. stream # << >> /\ Head(stream) = a.code
  <2>1. CASE stream = <<a.code>>
    BY <2>1
  <2>2. CASE stream = w
    BY <2>2, <1>1, <1>3, HeadTailProperties, EmptySeq
  <2> QED
    BY <2>1, <2>2 DEF w, b
<1>6. stream = w /\ r = SubSeq(w, 1, Len(w)) /\ (stream = <<a.code>> => b = << >>)
  <2>1. CASE a.code = "OK" /\ HasBody(call)
    <3>1. PICK i \in DOMAIN stream :
            stream[i] \in {Content, EndOfFiles} /\ r = SubSeq(stream, 1, i)
      BY <1>5, <2>1 DEF Response
    <3>2. stream # <<a.code>>
      BY <1>2, <1>4, <3>1
    <3>3. stream = w
      BY <3>2 DEF w, b
    <3>4. i \in 1 .. Len(b) + 1
      BY <1>3, <3>3, LenProperties
    <3>5. i # 1
      BY <1>2, <1>3, <1>4, <3>1, <3>3
    <3>6. i - 1 \in 1 .. Len(b) /\ (i - 1) + 1 = i
      BY <1>1, <3>4, <3>5
    <3>7. b[i - 1] \in {Content, EndOfFiles}
      BY <1>3, <3>1, <3>3, <3>6
    <3>8. i - 1 = Len(b)
      BY <1>1, <1>4, <2>1, <3>6, <3>7
    <3> QED
      BY <1>1, <1>3, <3>1, <3>2, <3>3, <3>6, <3>8
  <2>2. CASE a.code # "OK" \/ ~ HasBody(call)
    <3>1. b = << >> /\ Len(b) = 0
      BY <1>1, <2>2
    <3>2. w = <<a.code>> /\ Len(w) = 1
      BY <3>1 DEF w
    <3>3. stream = w
      BY <3>1, <3>2 DEF w, b
    <3>4. r = SubSeq(stream, 1, 1)
      BY <1>5, <2>2 DEF Response
    <3> QED
      BY <3>1, <3>2, <3>3, <3>4
  <2> QED
    BY <2>1, <2>2
<1>7. SubSeq(w, 1, Len(w)) = w /\ SubSeq(w, Len(w) + 1, Len(w)) = << >>
  BY <1>1, <1>3
<1> QED
  BY <1>3, <1>6, <1>7 DEF w, b

\* Nothing is read before anything was sent.
LEMMA NothingToRead ==
  ASSUME NEW call PROVE Response(call, << >>) = {}
BY DEF Response

-----------------------------------------------------------------------------
\* What a handler does to the clients that wait for a lock

\* A handler run for fd: to any other client it does nothing, or settles its call.
HandlerRule(fd) ==
  /\ StoreWell'
  /\ \A g \in Fds \ {fd} :
       \/ answer'[g] = answer[g] /\ \A f \in Files : InLine(g, f)' <=> InLine(g, f)
       \/ Waiting(g) /\ ~ Waiting(g)' /\ answer'[g] \in {Ok({}), Refused}

LEMMA WaitingIs ==
  ASSUME StoreWell, NEW g
  PROVE  Waiting(g) <=> \E f \in Files : InLine(g, f)
BY DEF StoreWell, StoreOK, Waiting, InLine

LEMMA WaitingIsThen ==
  StoreWell' => \A g : Waiting(g)' <=> \E f \in Files : InLine(g, f)'
<1>1. StoreWell => \A g : Waiting(g) <=> \E f \in Files : InLine(g, f)
  BY WaitingIs
<1>2. StoreWell' => (\A g : Waiting(g) <=> \E f \in Files : InLine(g, f))'
  BY <1>1, PTL
<1> QED
  BY <1>2

\* A client waits for one file.
LEMMA OneLine ==
  ASSUME Lines, NEW g \in Fds, NEW f \in Files, NEW h \in Files, InLine(g, f), InLine(g, h)
  PROVE  f = h
<1>1. [op |-> "lock", file |-> f] = [op |-> "lock", file |-> h]
  BY DEF Lines
<1> QED
  BY <1>1

LEMMA FileShape ==
  ASSUME StoreWell, NEW f \in Stored
  PROVE  /\ f \in Files /\ store[f].pendingLocks \in Seq(Fds)
         /\ store[f].openDescriptors \in Seq(Fds) /\ Distinct(store[f].pendingLocks)
         /\ store[f].lockedBy \in Fds \union {Nobody}
         /\ store[f].canDoFirstWrite \in Fds \union {Nobody}
         /\ ToSet(store[f].pendingLocks) \subseteq Fds
<1>1. f \in Files /\ store[f] \in FileNode /\ Distinct(store[f].pendingLocks)
  BY DEF StoreWell, StoreOK
<1>2. store[f].pendingLocks \in Seq(Fds)
  BY <1>1 DEF FileNode
<1> QED
  BY <1>1, <1>2, ToSetMembers DEF FileNode

\* Files D are destroyed, and files N are new.
LEMMA Destroys ==
  ASSUME StoreWell, Lines, NEW fd \in Fds, ~ Waiting(fd),
         NEW D \in SUBSET Stored, NEW N \in SUBSET Files, IsFiniteSet(N),
         Stored' = (Stored \ D) \union N, Cardinality(Stored)' <= MaxFileNum,
         \A f \in Stored' : store'[f] \in FileNode,
         \A f \in Stored' \ N : store'[f].pendingLocks = store[f].pendingLocks,
         \A f \in N : store'[f].pendingLocks = << >>,
         N \intersect Stored \subseteq D,
         answer' \in [Fds -> Answers],
         \A g \in Fds \ {fd} : answer'[g] = IF g \in Waiters(D) THEN Refused ELSE answer[g]
  PROVE  HandlerRule(fd) /\ ~ Waiting(fd)'
<1>1. \A g : \A f \in Files : InLine(g, f)' <=> InLine(g, f) /\ f \notin D
  <2> SUFFICES ASSUME NEW g, NEW f \in Files
               PROVE  InLine(g, f)' <=> InLine(g, f) /\ f \notin D
    OBVIOUS
  <2>1. InLine(g, f)' <=> f \in Stored' /\ g \in ToSet(store'[f].pendingLocks)
    BY DEF InLine
  <2>2. CASE f \in N
    <3>1. ToSet(store'[f].pendingLocks) = {}
      BY <2>2 DEF ToSet
    <3> QED
      BY <2>1, <2>2, <3>1 DEF InLine
  <2>3. CASE f \notin N
    BY <2>1, <2>3 DEF InLine
  <2> QED
    BY <2>2, <2>3
<1>2. StoreWell'
  <2>1. Stored' \subseteq Files /\ IsFiniteSet(Stored')
    <3>1. IsFiniteSet(Stored \ D)
      BY FS_Subset DEF StoreWell
    <3> QED
      BY <3>1, FS_Union DEF StoreWell, StoreOK
  <2>2. ASSUME NEW f \in Stored' PROVE Distinct(store'[f].pendingLocks)
    <3>1. CASE f \in N
      BY <3>1 DEF Distinct
    <3>2. CASE f \notin N
      BY <3>2, FileShape
    <3> QED
      BY <3>1, <3>2
  <2> QED
    BY <2>1, <2>2 DEF StoreWell, StoreOK
<1>3. \A g : Waiting(g)' <=> \E f \in Files : InLine(g, f) /\ f \notin D
  BY <1>1, <1>2, WaitingIsThen
<1>4. ASSUME NEW g \in Fds \ {fd}
      PROVE  \/ answer'[g] = answer[g] /\ \A f \in Files : InLine(g, f)' <=> InLine(g, f)
             \/ Waiting(g) /\ ~ Waiting(g)' /\ answer'[g] \in {Ok({}), Refused}
  <2>1. g \in Waiters(D) <=> \E f \in Files : f \in D /\ InLine(g, f)
    BY DEF Waiters, InLine, StoreWell, StoreOK
  <2>2. CASE g \in Waiters(D)
    <3>1. PICK f \in Files : f \in D /\ InLine(g, f)
      BY <2>1, <2>2
    <3>2. \A h \in Files : InLine(g, h) => h = f
      BY <3>1, OneLine
    <3> QED
      BY <1>3, <2>2, <3>1, <3>2, WaitingIs
  <2>3. CASE g \notin Waiters(D)
    BY <1>1, <2>1, <2>3
  <2> QED
    BY <2>2, <2>3
<1>5. ~ Waiting(fd)'
  BY <1>3, WaitingIs
<1> QED
  BY <1>2, <1>4, <1>5 DEF HandlerRule

\* Nobody's lock or place in a line changes.
LEMMA ChangesNoLine ==
  ASSUME StoreWell, Lines, NEW fd \in Fds, ~ Waiting(fd), Stored' = Stored,
         \A f \in Stored : store'[f] \in FileNode
                           /\ store'[f].pendingLocks = store[f].pendingLocks,
         answer' \in [Fds -> Answers], \A g \in Fds \ {fd} : answer'[g] = answer[g]
  PROVE  HandlerRule(fd) /\ ~ Waiting(fd)'
<1>1. Waiters({}) = {}
  BY DEF Waiters
<1>2. Cardinality(Stored)' <= MaxFileNum /\ IsFiniteSet({})
  BY FS_EmptySet DEF StoreWell, StoreOK
<1>3. Stored' = (Stored \ {}) \union {}
  OBVIOUS
<1>4. \A g \in Fds \ {fd} : answer'[g] = IF g \in Waiters({}) THEN Refused ELSE answer[g]
  BY <1>1
<1> QED
  BY <1>2, <1>3, <1>4, Destroys

\* The locks of files P pass to those that wait first.
LEMMA Passes ==
  ASSUME StoreWell, Lines, NEW fd \in Fds, ~ Waiting(fd),
         NEW P \in SUBSET Stored, Stored' = Stored,
         \A f \in Stored : store'[f] \in FileNode,
         \A f \in Stored : store'[f].pendingLocks =
           IF f \in P /\ store[f].pendingLocks # << >> THEN Tail(store[f].pendingLocks)
                                                       ELSE store[f].pendingLocks,
         answer' \in [Fds -> Answers],
         \A g \in Fds \ {fd} :
           answer'[g] = IF g \in UNION {Heirs(store[f]) : f \in P} THEN Ok({}) ELSE answer[g]
  PROVE  HandlerRule(fd) /\ ~ Waiting(fd)'
<1> DEFINE Heir(g, f) == f \in P /\ store[f].pendingLocks # << >>
                         /\ g = Head(store[f].pendingLocks)
<1>1. ASSUME NEW f \in Stored
      PROVE  /\ Distinct(store'[f].pendingLocks)
             /\ \A g : g \in ToSet(store'[f].pendingLocks) <=>
                         g \in ToSet(store[f].pendingLocks) /\ ~ Heir(g, f)
             /\ \A g : Heir(g, f) => g \in ToSet(store[f].pendingLocks)
  <2>1. store[f].pendingLocks \in Seq(Fds) /\ Distinct(store[f].pendingLocks)
    BY FileShape
  <2>2. CASE f \in P /\ store[f].pendingLocks # << >>
    <3>1. store'[f].pendingLocks = Tail(store[f].pendingLocks)
      BY <2>2
    <3> QED
      BY <2>1, <2>2, <3>1, DistinctTail
  <2>3. CASE ~ (f \in P /\ store[f].pendingLocks # << >>)
    BY <2>1, <2>3
  <2> QED
    BY <2>2, <2>3
<1>2. \A g : \A f \in Files : InLine(g, f)' <=> InLine(g, f) /\ ~ Heir(g, f)
  BY <1>1 DEF InLine
<1>3. StoreWell'
  <2>1. Stored' \subseteq Files /\ IsFiniteSet(Stored') /\ Cardinality(Stored)' <= MaxFileNum
    BY DEF StoreWell, StoreOK
  <2> QED
    BY <1>1, <2>1 DEF StoreWell, StoreOK
<1>4. \A g : g \in UNION {Heirs(store[f]) : f \in P} <=> \E f \in Files : Heir(g, f)
  BY DEF Heirs, StoreWell, StoreOK
<1>5. \A g : \A f \in Files : Heir(g, f) => InLine(g, f)
  BY <1>1 DEF InLine
<1> HIDE DEF Heir
<1>6. \A g : Waiting(g)' <=> \E f \in Files : InLine(g, f) /\ ~ Heir(g, f)
  BY <1>2, <1>3, WaitingIsThen
<1>7. ASSUME NEW g \in Fds \ {fd}
      PROVE  \/ answer'[g] = answer[g] /\ \A f \in Files : InLine(g, f)' <=> InLine(g, f)
             \/ Waiting(g) /\ ~ Waiting(g)' /\ answer'[g] \in {Ok({}), Refused}
  <2>1. CASE \E f \in Files : Heir(g, f)
    <3>1. PICK f \in Files : Heir(g, f)
      BY <2>1
    <3>2. InLine(g, f) /\ \A h \in Files : InLine(g, h) => h = f
      BY <1>5, <3>1, OneLine
    <3>3. answer'[g] = Ok({})
      BY <1>4, <3>1
    <3> QED
      BY <1>6, <3>1, <3>2, <3>3, WaitingIs
  <2>2. CASE ~ \E f \in Files : Heir(g, f)
    BY <1>2, <1>4, <2>2
  <2> QED
    BY <2>1, <2>2
<1>8. ~ Waiting(fd)'
  BY <1>6, WaitingIs
<1> QED
  BY <1>3, <1>7, <1>8 DEF HandlerRule

-----------------------------------------------------------------------------
\* The handlers

\* The handler of a call of fd has answered it, or lets its client wait.
Served(fd, call) ==
  /\ HandlerRule(fd)
  /\ answer' \in [Fds -> Answers]
  /\ \/ Fits(call, answer'[fd]) /\ ~ Waiting(fd)'
     \/ /\ call.op = "lock" /\ answer' = answer
        /\ \A f \in Files : InLine(fd, f)' <=> f = call.file

\* When a handler runs, its client waits for nothing and has no answer yet.
Ready(fd) ==
  StoreWell /\ Lines /\ answer \in [Fds -> Answers] /\ ~ Waiting(fd) /\ answer[fd] = None

LEMMA AnswersAre ==
  /\ None \in Answers /\ Refused \in Answers /\ Ok({}) \in Answers
  /\ \A files \in SUBSET Files : Ok(files) \in Answers
  /\ \A call : Fits(call, Refused) /\ Fits(call, Ok({}))
  /\ \A call : \A files \in SUBSET Files :
       IsFiniteSet(files) /\ call.op \in {"readN", "write", "append"} => Fits(call, Ok(files))
  /\ Refused # None /\ \A files : Ok(files) # None /\ Ok(files) # Refused
<1>1. IsFiniteSet({})
  BY FS_EmptySet
<1> QED
  BY <1>1 DEF None, Refused, Ok, Answers, Fits

LEMMA Settles ==
  ASSUME NEW fd \in Fds, NEW a \in Answers, NEW others, NEW b \in Answers,
         answer \in [Fds -> Answers], Settle(fd, a, others, b)
  PROVE  /\ answer' \in [Fds -> Answers] /\ answer'[fd] = a
         /\ \A g \in Fds \ {fd} : answer'[g] = IF g \in others THEN b ELSE answer[g]
BY DEF Settle

\* A refusal changes nothing else.
LEMMA Refuses ==
  ASSUME NEW fd \in Fds, NEW call, Ready(fd), Refuse(fd)
  PROVE  Served(fd, call)
<1>1. /\ answer' \in [Fds -> Answers] /\ answer'[fd] = Refused
      /\ \A g \in Fds \ {fd} : answer'[g] = answer[g]
  BY AnswersAre, Settles DEF Ready, Refuse
<1>2. Stored' = Stored /\ \A f \in Stored : store'[f] = store[f] /\ store[f] \in FileNode
  BY DEF Refuse, Stored, Ready, StoreWell, StoreOK
<1>3. HandlerRule(fd) /\ ~ Waiting(fd)'
  BY <1>1, <1>2, ChangesNoLine DEF Ready
<1> QED
  BY <1>1, <1>3, AnswersAre DEF Served

\* A handler that answers OK and sends no file.
LEMMA Accepts ==
  ASSUME NEW fd \in Fds, NEW call, Ready(fd), Accept(fd, {}), Stored' = Stored,
         \A f \in Stored : store'[f] \in FileNode
                           /\ store'[f].pendingLocks = store[f].pendingLocks
  PROVE  Served(fd, call)
<1>1. /\ answer' \in [Fds -> Answers] /\ answer'[fd] = Ok({})
      /\ \A g \in Fds \ {fd} : answer'[g] = answer[g]
  BY AnswersAre, Settles DEF Ready, Accept
<1>2. HandlerRule(fd) /\ ~ Waiting(fd)'
  BY <1>1, ChangesNoLine DEF Ready
<1> QED
  BY <1>1, <1>2, AnswersAre DEF Served

LEMMA FileChanged ==
  ASSUME StoreWell, NEW f \in Stored, NEW file \in FileNode,
         store' = [store EXCEPT ![f] = file]
  PROVE  /\ Stored' = Stored /\ store'[f] = file
         /\ \A g \in Stored : g # f => store'[g] = store[g]
         /\ \A g \in Stored : store'[g] \in FileNode
BY DEF StoreWell, StoreOK, Stored

LEMMA CreateFileStep ==
  ASSUME NEW fd \in Fds, NEW call, Ready(fd), NEW f \in Files, NEW lock \in BOOLEAN,
         CreateFile(fd, f, lock)
  PROVE  Served(fd, call)
<1>1. PICK D \in Victims :
        /\ store' = [g \in (Stored \ D) \union {f} |->
                       IF g = f THEN NewFile(fd, lock) ELSE store[g]]
        /\ AcceptAndDestroy(fd, {}, D)
  BY DEF CreateFile
<1>2. f \notin Stored /\ IsFiniteSet(Stored) /\ Cardinality(Stored) <= MaxFileNum
      /\ Cardinality(Stored) \in Nat /\ MaxFileNum \in Nat \ {0}
  BY RightsAssumption, FS_CardinalityType DEF CreateFile, Ready, StoreWell, StoreOK
<1>3. Stored' = (Stored \ D) \union {f}
  BY <1>1 DEF Stored
<1>4. D \in SUBSET Stored /\ Cardinality((Stored \ D) \union {f}) <= MaxFileNum
  <2>1. CASE Cardinality(Stored) = MaxFileNum
    <3>1. PICK v \in Stored : D = {v}
      BY <2>1 DEF Victims
    <3>2. Cardinality(Stored \ D) = MaxFileNum - 1 /\ IsFiniteSet(Stored \ D)
      BY <1>2, <2>1, <3>1, FS_RemoveElement
    <3>3. Cardinality((Stored \ D) \union {f}) = MaxFileNum - 1 + 1
      BY <1>2, <3>2, FS_AddElement
    <3> QED
      BY <1>2, <3>1, <3>3
  <2>2. CASE Cardinality(Stored) # MaxFileNum
    <3>1. D = {} /\ Stored \ D = Stored
      BY <2>2 DEF Victims
    <3>2. Cardinality((Stored \ D) \union {f}) = Cardinality(Stored) + 1
      BY <1>2, <3>1, FS_AddElement
    <3> QED
      BY <1>2, <2>2, <3>1, <3>2
  <2> QED
    BY <2>1, <2>2
<1>5. NewFile(fd, lock) \in FileNode /\ NewFile(fd, lock).pendingLocks = << >>
  BY DEF NewFile, FileNode
<1>6. store'[f] = NewFile(fd, lock)
      /\ \A g \in Stored' \ {f} : store'[g] = store[g] /\ g \in Stored
  BY <1>1, <1>3
<1>7. \A g \in Stored' : store'[g] \in FileNode
  BY <1>3, <1>5, <1>6 DEF Ready, StoreWell, StoreOK
<1>8. /\ answer' \in [Fds -> Answers] /\ answer'[fd] = Ok({})
      /\ \A g \in Fds \ {fd} : answer'[g] = IF g \in Waiters(D) THEN Refused ELSE answer[g]
  BY AnswersAre, Settles, <1>1 DEF Ready, AcceptAndDestroy
<1>9. IsFiniteSet({f}) /\ {f} \in SUBSET Files
  BY FS_Singleton
<1>10. Cardinality(Stored)' <= MaxFileNum
  BY <1>3, <1>4
<1>11. HandlerRule(fd) /\ ~ Waiting(fd)'
  BY <1>2, <1>3, <1>4, <1>5, <1>6, <1>7, <1>8, <1>9, <1>10, Destroys DEF Ready
<1> QED
  BY <1>8, <1>11, AnswersAre DEF Served

LEMMA OpenFileStep ==
  ASSUME NEW fd \in Fds, NEW call, Ready(fd), NEW f \in Files, NEW create \in BOOLEAN,
         NEW lock \in BOOLEAN, OpenFile(fd, f, create, lock)
  PROVE  Served(fd, call)
<1>1. CASE Refuse(fd)
  BY <1>1, Refuses
<1>2. CASE CreateFile(fd, f, lock)
  BY <1>2, CreateFileStep
<1>3. CASE OpenExisting(fd, f)
  <2> DEFINE file == [store[f] EXCEPT !.openDescriptors = Append(@, fd)]
  <2>1. /\ f \in Stored /\ store' = [store EXCEPT ![f] = file] /\ Accept(fd, {})
    BY <1>3 DEF OpenExisting
  <2>2. file \in FileNode /\ file.pendingLocks = store[f].pendingLocks
    <3>1. store[f] \in FileNode /\ store[f].openDescriptors \in Seq(Fds)
      BY <2>1, FileShape DEF Ready, StoreWell, StoreOK
    <3>2. Append(store[f].openDescriptors, fd) \in Seq(Fds)
      BY <3>1, AppendProperties
    <3> QED
      BY <3>1, <3>2 DEF FileNode
  <2> HIDE DEF file
  <2>3. /\ Stored' = Stored
        /\ \A g \in Stored : store'[g] \in FileNode
                             /\ store'[g].pendingLocks = store[g].pendingLocks
    BY <2>1, <2>2, FileChanged DEF Ready
  <2> QED
    BY <2>1, <2>3, Accepts
<1> QED
  BY <1>1, <1>2, <1>3 DEF OpenFile

LEMMA ReadFileStep ==
  ASSUME NEW fd \in Fds, NEW call, Ready(fd), NEW f \in Files, ReadFile(fd, f)
  PROVE  Served(fd, call)
<1>1. CASE Refuse(fd)
  BY <1>1, Refuses
<1>2. CASE ~ Refuse(fd)
  <2> DEFINE file == [store[f] EXCEPT !.canDoFirstWrite = Nobody]
  <2>1. /\ f \in Stored /\ store' = [store EXCEPT ![f] = file] /\ Accept(fd, {})
    BY <1>2 DEF ReadFile, MayUse
  <2>2. file \in FileNode /\ file.pendingLocks = store[f].pendingLocks
    BY <2>1 DEF FileNode, Ready, StoreWell, StoreOK
  <2> HIDE DEF file
  <2>3. /\ Stored' = Stored
        /\ \A g \in Stored : store'[g] \in FileNode
                             /\ store'[g].pendingLocks = store[g].pendingLocks
    BY <2>1, <2>2, FileChanged DEF Ready
  <2> QED
    BY <2>1, <2>3, Accepts
<1> QED
  BY <1>1, <1>2

LEMMA ReadNFilesStep ==
  ASSUME NEW fd \in Fds, NEW call, call.op = "readN", Ready(fd), ReadNFiles(fd)
  PROVE  Served(fd, call)
<1>1. PICK files \in SUBSET Stored : Accept(fd, files) /\ store' = store
  BY DEF ReadNFiles
<1>2. files \in SUBSET Files /\ IsFiniteSet(files)
  BY FS_Subset DEF Ready, StoreWell, StoreOK
<1>3. /\ answer' \in [Fds -> Answers] /\ answer'[fd] = Ok(files)
      /\ \A g \in Fds \ {fd} : answer'[g] = answer[g]
  BY <1>1, <1>2, AnswersAre, Settles DEF Ready, Accept
<1>4. Stored' = Stored /\ \A f \in Stored : store'[f] = store[f] /\ store[f] \in FileNode
  BY <1>1 DEF Stored, Ready, StoreWell, StoreOK
<1>5. HandlerRule(fd) /\ ~ Waiting(fd)'
  BY <1>3, <1>4, ChangesNoLine DEF Ready
<1> QED
  BY <1>2, <1>3, <1>5, AnswersAre DEF Served

LEMMA WriteToFileStep ==
  ASSUME NEW fd \in Fds, NEW call, call.op \in {"write", "append"}, Ready(fd),
         NEW f \in Files, WriteToFile(fd, f)
  PROVE  Served(fd, call)
<1>1. CASE Refuse(fd)
  BY <1>1, Refuses
<1>2. CASE ~ Refuse(fd)
  <2>1. PICK D \in SUBSET (Stored \ {f}) :
          /\ store' = [Without(D) EXCEPT ![f].canDoFirstWrite = Nobody]
          /\ AcceptAndDestroy(fd, D, D)
    BY <1>2 DEF WriteToFile
  <2>2. f \in Stored /\ StoreWell
    BY <1>2 DEF WriteToFile, MayUse, Ready
  <2>3. /\ Stored' = Stored \ D
        /\ \A g \in Stored' : g # f => store'[g] = store[g]
        /\ store'[f] = [store[f] EXCEPT !.canDoFirstWrite = Nobody]
    BY <2>1, <2>2 DEF Stored, Without, Restrict
  <2>4. \A g \in Stored' : store'[g] \in FileNode
                           /\ store'[g].pendingLocks = store[g].pendingLocks
    <3>1. \A g \in Stored : store[g] \in FileNode
      BY <2>2 DEF StoreWell, StoreOK
    <3>2. store'[f] \in FileNode /\ store'[f].pendingLocks = store[f].pendingLocks
      BY <2>2, <2>3, <3>1 DEF FileNode
    <3> QED
      BY <2>3, <3>1, <3>2
  <2>5. D \in SUBSET Files /\ IsFiniteSet(D)
    BY <2>2, FS_Subset DEF StoreWell, StoreOK
  <2>6. /\ answer' \in [Fds -> Answers] /\ answer'[fd] = Ok(D)
        /\ \A g \in Fds \ {fd} : answer'[g] = IF g \in Waiters(D) THEN Refused ELSE answer[g]
    BY <2>1, <2>5, AnswersAre, Settles DEF Ready, AcceptAndDestroy
  <2>7. Cardinality(Stored)' <= MaxFileNum
    <3>1. /\ Cardinality(Stored \ D) <= Cardinality(Stored)
          /\ Cardinality(Stored \ D) \in Nat /\ Cardinality(Stored) \in Nat
      BY <2>2, FS_Subset, FS_CardinalityType DEF StoreWell
    <3> QED
      BY <2>2, <2>3, <3>1, RightsAssumption DEF StoreWell, StoreOK
  <2>8. Stored' = (Stored \ D) \union {} /\ IsFiniteSet({}) /\ D \in SUBSET Stored
    BY <2>3, FS_EmptySet
  <2>9. HandlerRule(fd) /\ ~ Waiting(fd)'
    BY <2>4, <2>6, <2>7, <2>8, Destroys DEF Ready
  <2> QED
    BY <2>5, <2>6, <2>9, AnswersAre DEF Served
<1> QED
  BY <1>1, <1>2

LEMMA LockFileStep ==
  ASSUME NEW fd \in Fds, NEW call, call.op = "lock", Ready(fd), NEW f \in Files,
         f = call.file, LockFile(fd, f)
  PROVE  Served(fd, call)
<1>1. CASE Refuse(fd)
  BY <1>1, Refuses
<1>2. CASE LockBlocked(fd, f)
  <2> DEFINE line == store[f].pendingLocks
             file == [store[f] EXCEPT !.pendingLocks = Append(@, fd)]
  <2>1. f \in Stored /\ store' = [store EXCEPT ![f] = file] /\ answer' = answer
    BY <1>2 DEF LockBlocked
  <2>2. /\ StoreWell /\ line \in Seq(Fds) /\ Distinct(line) /\ store[f] \in FileNode
        /\ fd \notin ToSet(line)
    BY <2>1, FileShape DEF Ready, StoreWell, StoreOK, Waiting
  <2>3. /\ Append(line, fd) \in Seq(Fds) /\ Distinct(Append(line, fd))
        /\ ToSet(Append(line, fd)) = ToSet(line) \union {fd}
    BY <2>2, DistinctAppend
  <2>4. file \in FileNode /\ file.pendingLocks = Append(line, fd)
    BY <2>2, <2>3 DEF FileNode
  <2> HIDE DEF file
  <2>5. /\ Stored' = Stored /\ store'[f].pendingLocks = Append(line, fd)
        /\ \A g \in Stored : g # f => store'[g] = store[g]
        /\ \A g \in Stored : store'[g] \in FileNode
    BY <2>1, <2>2, <2>4, FileChanged
  <2> HIDE DEF line
  <2>6. \A g : \A h \in Files : InLine(g, h)' <=> InLine(g, h) \/ (g = fd /\ h = f)
    <3> SUFFICES ASSUME NEW g, NEW h \in Files
                 PROVE  InLine(g, h)' <=> InLine(g, h) \/ (g = fd /\ h = f)
      OBVIOUS
    <3>1. InLine(g, h)' <=> h \in Stored /\ g \in ToSet(store'[h].pendingLocks)
      BY <2>5 DEF InLine
    <3>2. CASE h = f
      <4>1. InLine(g, f)' <=> g \in ToSet(Append(line, fd))
        BY <2>1, <2>5, <3>1, <3>2
      <4>2. InLine(g, f) <=> g \in ToSet(line)
        BY <2>1 DEF InLine, line
      <4> QED
        BY <2>3, <3>2, <4>1, <4>2
    <3>3. CASE h # f
      BY <2>5, <3>1, <3>3 DEF InLine
    <3> QED
      BY <3>2, <3>3
  <2>7. StoreWell'
    <3>1. Stored' \subseteq Files /\ IsFiniteSet(Stored') /\ Cardinality(Stored)' <= MaxFileNum
      BY <2>2, <2>5 DEF StoreWell, StoreOK
    <3>2. \A g \in Stored : Distinct(store'[g].pendingLocks)
      BY <2>2, <2>3, <2>5, FileShape
    <3> QED
      BY <2>1, <2>5, <3>1, <3>2 DEF Ready, StoreWell, StoreOK
  <2>8. HandlerRule(fd)
    BY <2>1, <2>6, <2>7 DEF HandlerRule
  <2>9. \A h \in Files : InLine(fd, h)' <=> h = f
    BY <2>2, <2>6, WaitingIs DEF Ready
  <2> QED
    BY <2>1, <2>8, <2>9 DEF Served, Ready
<1>3. CASE ~ Refuse(fd) /\ ~ LockBlocked(fd, f)
  <2> DEFINE file == [store[f] EXCEPT !.lockedBy = fd, !.canDoFirstWrite = Nobody]
  <2>1. /\ f \in Stored /\ Accept(fd, {})
        /\ store' = [store EXCEPT ![f].lockedBy = fd, ![f].canDoFirstWrite = Nobody]
    BY <1>3 DEF LockFile
  <2>2. store' = [store EXCEPT ![f] = file]
    BY <2>1 DEF Stored
  <2>3. file \in FileNode /\ file.pendingLocks = store[f].pendingLocks
    BY <2>1 DEF FileNode, Ready, StoreWell, StoreOK
  <2> HIDE DEF file
  <2>4. /\ Stored' = Stored
        /\ \A g \in Stored : store'[g] \in FileNode
                             /\ store'[g].pendingLocks = store[g].pendingLocks
    <3>1. /\ Stored' = Stored /\ store'[f] = file
          /\ \A g \in Stored : g # f => store'[g] = store[g]
          /\ \A g \in Stored : store'[g] \in FileNode
      BY <2>1, <2>2, <2>3, FileChanged DEF Ready
    <3> QED
      BY <2>3, <3>1
  <2> QED
    BY <2>1, <2>4, Accepts
<1> QED
  BY <1>1, <1>2, <1>3

\* What a lock that is passed on leaves behind.
LEMMA PassedShape ==
  ASSUME NEW file \in FileNode
  PROVE  /\ PassLock(file) \in FileNode
         /\ PassLock(file).pendingLocks =
              IF file.pendingLocks # << >> THEN Tail(file.pendingLocks) ELSE file.pendingLocks
         /\ PassLock(file).openDescriptors = file.openDescriptors
         /\ PassLock(file).canDoFirstWrite = file.canDoFirstWrite
         /\ PassLock(file).lockedBy =
              IF file.pendingLocks = << >> THEN Nobody ELSE Head(file.pendingLocks)
<1>1. CASE file.pendingLocks = << >>
  BY <1>1 DEF PassLock, FileNode
<1>2. CASE file.pendingLocks # << >>
  <2>1. file.pendingLocks \in Seq(Fds)
    BY DEF FileNode
  <2>2. Head(file.pendingLocks) \in Fds /\ Tail(file.pendingLocks) \in Seq(Fds)
    BY <1>2, <2>1, HeadTailProperties, EmptySeq
  <2>3. PassLock(file) = [file EXCEPT !.lockedBy = Head(file.pendingLocks),
                                      !.pendingLocks = Tail(file.pendingLocks)]
    BY <1>2 DEF PassLock
  <2> QED
    BY <1>2, <2>2, <2>3 DEF FileNode
<1> QED
  BY <1>1, <1>2

LEMMA UnlockFileStep ==
  ASSUME NEW fd \in Fds, NEW call, Ready(fd), NEW f \in Files, UnlockFile(fd, f)
  PROVE  Served(fd, call)
<1>1. CASE Refuse(fd)
  BY <1>1, Refuses
<1>2. CASE ~ Refuse(fd)
  <2> DEFINE file == [PassLock(store[f]) EXCEPT !.canDoFirstWrite = Nobody]
  <2>1. /\ f \in Stored /\ store' = [store EXCEPT ![f] = file]
        /\ Settle(fd, Ok({}), Heirs(store[f]), Ok({}))
    BY <1>2 DEF UnlockFile
  <2>2. StoreWell /\ store[f] \in FileNode
    BY <2>1 DEF Ready, StoreWell, StoreOK
  <2>3. /\ file \in FileNode
        /\ file.pendingLocks =
             IF store[f].pendingLocks # << >> THEN Tail(store[f].pendingLocks)
                                              ELSE store[f].pendingLocks
    BY <2>2, PassedShape DEF FileNode
  <2> HIDE DEF file
  <2>4. /\ Stored' = Stored /\ store'[f] = file
        /\ \A g \in Stored : g # f => store'[g] = store[g]
        /\ \A g \in Stored : store'[g] \in FileNode
    BY <2>1, <2>2, <2>3, FileChanged
  <2>5. \A g \in Stored : store'[g].pendingLocks =
          IF g \in {f} /\ store[g].pendingLocks # << >> THEN Tail(store[g].pendingLocks)
                                                        ELSE store[g].pendingLocks
    BY <2>3, <2>4
  <2>6. UNION {Heirs(store[g]) : g \in {f}} = Heirs(store[f])
    OBVIOUS
  <2>7. /\ answer' \in [Fds -> Answers] /\ answer'[fd] = Ok({})
        /\ \A g \in Fds \ {fd} : answer'[g] = IF g \in Heirs(store[f]) THEN Ok({}) ELSE answer[g]
    BY <2>1, AnswersAre, Settles DEF Ready
  <2> DEFINE P == {f}
  <2>p. /\ P \in SUBSET Stored
        /\ \A g \in Fds \ {fd} : answer'[g] =
             IF g \in UNION {Heirs(store[h]) : h \in P} THEN Ok({}) ELSE answer[g]
        /\ \A g \in Stored : store'[g].pendingLocks =
             IF g \in P /\ store[g].pendingLocks # << >> THEN Tail(store[g].pendingLocks)
                                                         ELSE store[g].pendingLocks
    BY <2>1, <2>5, <2>6, <2>7
  <2> HIDE DEF P
  <2>8. HandlerRule(fd) /\ ~ Waiting(fd)'
    BY <2>p, <2>4, <2>7, Passes DEF Ready
  <2> QED
    BY <2>7, <2>8, AnswersAre DEF Served
<1> QED
  BY <1>1, <1>2

LEMMA CloseFileStep ==
  ASSUME NEW fd \in Fds, NEW call, Ready(fd), NEW f \in Files, CloseFile(fd, f)
  PROVE  Served(fd, call)
<1>1. CASE Refuse(fd)
  BY <1>1, Refuses
<1>2. CASE ~ Refuse(fd)
  <2> DEFINE file == [store[f] EXCEPT !.openDescriptors = RemoveFirst(@, fd),
                                      !.canDoFirstWrite = Nobody]
  <2>1. /\ f \in Stored /\ Accept(fd, {})
        /\ store' = [store EXCEPT ![f].openDescriptors = RemoveFirst(@, fd),
                                  ![f].canDoFirstWrite = Nobody]
    BY <1>2 DEF CloseFile
  <2>2. store' = [store EXCEPT ![f] = file]
    BY <2>1 DEF Stored
  <2>3. file \in FileNode /\ file.pendingLocks = store[f].pendingLocks
    <3>1. store[f] \in FileNode /\ store[f].openDescriptors \in Seq(Fds)
      BY <2>1, FileShape DEF Ready, StoreWell, StoreOK
    <3>2. RemoveFirst(store[f].openDescriptors, fd) \in Seq(Fds)
      BY <3>1, RemoveFirstType
    <3> QED
      BY <3>1, <3>2 DEF FileNode
  <2> HIDE DEF file
  <2>4. /\ Stored' = Stored
        /\ \A g \in Stored : store'[g] \in FileNode
                             /\ store'[g].pendingLocks = store[g].pendingLocks
    <3>1. /\ Stored' = Stored /\ store'[f] = file
          /\ \A g \in Stored : g # f => store'[g] = store[g]
          /\ \A g \in Stored : store'[g] \in FileNode
      BY <2>1, <2>2, <2>3, FileChanged DEF Ready
    <3> QED
      BY <2>3, <3>1
  <2> QED
    BY <2>1, <2>4, Accepts
<1> QED
  BY <1>1, <1>2

LEMMA RemoveFileStep ==
  ASSUME NEW fd \in Fds, NEW call, Ready(fd), NEW f \in Files, RemoveFile(fd, f)
  PROVE  Served(fd, call)
<1>1. CASE Refuse(fd)
  BY <1>1, Refuses
<1>2. CASE ~ Refuse(fd)
  <2>1. /\ f \in Stored /\ store' = Without({f}) /\ AcceptAndDestroy(fd, {}, {f})
    BY <1>2 DEF RemoveFile
  <2>2. /\ Stored' = Stored \ {f}
        /\ \A g \in Stored' : store'[g] = store[g]
    BY <2>1 DEF Stored, Without, Restrict
  <2>3. \A g \in Stored' : store'[g] \in FileNode
    BY <2>2 DEF Ready, StoreWell, StoreOK
  <2>4. /\ answer' \in [Fds -> Answers] /\ answer'[fd] = Ok({})
        /\ \A g \in Fds \ {fd} :
             answer'[g] = IF g \in Waiters({f}) THEN Refused ELSE answer[g]
    BY <2>1, AnswersAre, Settles DEF Ready, AcceptAndDestroy
  <2>5. Cardinality(Stored)' <= MaxFileNum
    <3>1. /\ Cardinality(Stored \ {f}) <= Cardinality(Stored)
          /\ Cardinality(Stored \ {f}) \in Nat /\ Cardinality(Stored) \in Nat
      BY FS_Subset, FS_CardinalityType DEF Ready, StoreWell
    <3> QED
      BY <2>2, <3>1, RightsAssumption DEF Ready, StoreWell, StoreOK
  <2>6. Stored' = (Stored \ {f}) \union {} /\ IsFiniteSet({}) /\ {f} \in SUBSET Stored
    BY <2>1, <2>2, FS_EmptySet
  <2>7. HandlerRule(fd) /\ ~ Waiting(fd)'
    BY <2>2, <2>3, <2>4, <2>5, <2>6, Destroys DEF Ready
  <2> QED
    BY <2>4, <2>7, AnswersAre DEF Served
<1> QED
  BY <1>1, <1>2

LEMMA HandleStep ==
  ASSUME NEW fd \in Fds, NEW call \in Calls, Ready(fd), Handle(fd, call)
  PROVE  Served(fd, call)
<1>1. call.file \in Files
  BY DEF Calls
<1>2. CASE \E create, lock \in BOOLEAN : OpenFile(fd, call.file, create, lock)
  BY <1>1, <1>2, OpenFileStep
<1>3. CASE call.op = "read" /\ ReadFile(fd, call.file)
  BY <1>1, <1>3, ReadFileStep
<1>4. CASE call.op = "readN" /\ ReadNFiles(fd)
  BY <1>1, <1>4, ReadNFilesStep
<1>5. CASE call.op = "append" /\ WriteToFile(fd, call.file)
  BY <1>1, <1>5, WriteToFileStep
<1>6. CASE call.op = "lock" /\ LockFile(fd, call.file)
  BY <1>1, <1>6, LockFileStep
<1>7. CASE call.op = "unlock" /\ UnlockFile(fd, call.file)
  BY <1>1, <1>7, UnlockFileStep
<1>8. CASE call.op = "close" /\ CloseFile(fd, call.file)
  BY <1>1, <1>8, CloseFileStep
<1>9. CASE call.op = "remove" /\ RemoveFile(fd, call.file)
  BY <1>1, <1>9, RemoveFileStep
<1> QED
  BY <1>2, <1>3, <1>4, <1>5, <1>6, <1>7, <1>8, <1>9 DEF Handle

\* Its client has closed the connection.
LEMMA ClientExitStep ==
  ASSUME NEW fd \in Fds, Ready(fd), ClientExit(fd)
  PROVE  /\ HandlerRule(fd) /\ ~ Waiting(fd)'
         /\ answer' \in [Fds -> Answers] /\ answer'[fd] = None
<1> DEFINE P == {g \in Stored : store[g].lockedBy = fd}
<1>1. /\ store' = [f \in Stored |-> ExitFile(store[f], fd)]
      /\ Settle(fd, None, UNION {Heirs(store[f]) : f \in P}, Ok({}))
  BY DEF ClientExit
<1>2. /\ answer' \in [Fds -> Answers] /\ answer'[fd] = None
      /\ \A g \in Fds \ {fd} :
           answer'[g] = IF g \in UNION {Heirs(store[f]) : f \in P} THEN Ok({}) ELSE answer[g]
  BY <1>1, AnswersAre, Settles DEF Ready
<1>3. ASSUME NEW f \in Stored
      PROVE  /\ store'[f] \in FileNode
             /\ store'[f].pendingLocks =
                  IF f \in P /\ store[f].pendingLocks # << >> THEN Tail(store[f].pendingLocks)
                                                              ELSE store[f].pendingLocks
  <2> DEFINE passed == IF store[f].lockedBy = fd THEN PassLock(store[f]) ELSE store[f]
  <2>1. store[f] \in FileNode /\ StoreWell
    BY DEF Ready, StoreWell, StoreOK
  <2>2. /\ passed \in FileNode
        /\ passed.pendingLocks =
             IF f \in P /\ store[f].pendingLocks # << >> THEN Tail(store[f].pendingLocks)
                                                         ELSE store[f].pendingLocks
    BY <2>1, PassedShape
  <2>3. store'[f] = [passed EXCEPT !.pendingLocks = RemoveFirst(@, fd),
                                   !.openDescriptors = RemoveFirst(@, fd)]
    BY <1>1 DEF ExitFile
  <2> HIDE DEF passed
  <2>4. /\ store[f].pendingLocks \in Seq(Fds) /\ Distinct(store[f].pendingLocks)
        /\ fd \notin ToSet(store[f].pendingLocks)
    BY <2>1, FileShape DEF Ready, Waiting
  <2>5. passed.pendingLocks \in Seq(Fds) /\ fd \notin ToSet(passed.pendingLocks)
    <3>1. CASE f \in P /\ store[f].pendingLocks # << >>
      BY <2>2, <2>4, <3>1, DistinctTail
    <3>2. CASE ~ (f \in P /\ store[f].pendingLocks # << >>)
      BY <2>2, <2>4, <3>2
    <3> QED
      BY <3>1, <3>2
  <2>6. RemoveFirst(passed.pendingLocks, fd) = passed.pendingLocks
    BY <2>5, ToSetMembers, RemoveFirstAbsent
  <2>7. RemoveFirst(passed.openDescriptors, fd) \in Seq(Fds)
    BY <2>2, RemoveFirstType DEF FileNode
  <2>8. store'[f] \in FileNode /\ store'[f].pendingLocks = passed.pendingLocks
    BY <2>2, <2>3, <2>6, <2>7 DEF FileNode
  <2> QED
    BY <2>2, <2>8
<1>4. Stored' = Stored /\ P \in SUBSET Stored
  BY <1>1 DEF Stored
<1> HIDE DEF P
<1>5. HandlerRule(fd) /\ ~ Waiting(fd)'
  BY <1>2, <1>3, <1>4, Passes DEF Ready
<1> QED
  BY <1>2, <1>5

-----------------------------------------------------------------------------
\* Steps that concern one client

\* Nothing that is kept for client g changes but, maybe, its place in a line or list.
Untouched(g) ==
  /\ client'[g] = client[g] /\ todo'[g] = todo[g]
  /\ toServer'[g] = toServer[g] /\ toClient'[g] = toClient[g]
  /\ worker'[g] = worker[g] /\ rest'[g] = rest[g]

LEMMA TalksOn ==
  ASSUME NEW g \in Fds, Talks(g), Untouched(g), answer'[g] = answer[g],
         Waiting(g)' <=> Waiting(g), Told(g)' <=> Told(g)
  PROVE  Talks(g)'
<1>1. /\ InCall(g)' <=> InCall(g)
      /\ Current(g)' = Current(g)
      /\ NotHeld(g)' <=> NotHeld(g)
      /\ AtRest(g)' <=> AtRest(g)
      /\ StreamIs(g, << >>)' <=> StreamIs(g, << >>)
      /\ StreamIs(g, Request(Current(g)))' <=> StreamIs(g, Request(Current(g)))
  BY DEF Untouched, InCall, Current, NotHeld, AtRest, StreamIs
<1>2. Quiet(g) => Quiet(g)'
  BY <1>1 DEF Untouched, Quiet
<1>3. Asked(g) => Asked(g)'
  BY <1>1 DEF Untouched, Asked
<1>4. Tested(g) => Tested(g)'
  BY <1>1 DEF Untouched, Tested
<1>10. Forbidden(g) => Forbidden(g)'
  BY <1>1 DEF Untouched, Forbidden
<1>5. Decided(g) => Decided(g)'
  BY <1>1 DEF Untouched, Decided
<1>6. Parked(g) => Parked(g)'
  BY <1>1 DEF Untouched, Parked
<1>7. Released(g) => Released(g)'
  BY <1>1 DEF Untouched, Released
<1>8. Sent(g) => Sent(g)'
  <2> SUFFICES ASSUME Sent(g) PROVE Sent(g)'
    OBVIOUS
  <2>1. PICK a : /\ Fits(Current(g), a)
                 /\ \/ /\ worker[g] = "notifying"
                       /\ toClient[g] = <<a.code>> /\ rest[g] = Body(Current(g), a)
                    \/ /\ worker[g] \in {"none", "notifying", "discarding"}
                       /\ toClient[g] = <<a.code>> \o Body(Current(g), a) /\ rest[g] = << >>
    BY DEF Sent
  <2>2. answer'[g] = None /\ NotHeld(g)' /\ StreamIs(g, << >>)'
    BY <1>1 DEF Sent, Untouched
  <2>3. /\ Fits(Current(g)', a)
        /\ \/ /\ worker'[g] = "notifying"
              /\ toClient'[g] = <<a.code>> /\ rest'[g] = Body(Current(g)', a)
           \/ /\ worker'[g] \in {"none", "notifying", "discarding"}
              /\ toClient'[g] = <<a.code>> \o Body(Current(g)', a) /\ rest'[g] = << >>
    BY <1>1, <2>1 DEF Untouched
  <2> QED
    BY <2>2, <2>3 DEF Sent, Fits
<1>9. InCall(g)' => todo'[g] = todo[g]
  BY DEF Untouched
<1> QED
  BY <1>1, <1>2, <1>3, <1>4, <1>5, <1>6, <1>7, <1>8, <1>9, <1>10 DEF Talks

\* A step of client fd, or of its worker, that leaves the files and the lists alone.
LEMMA OwnStep ==
  ASSUME IInv, NEW fd \in Fds, TypeOK', store' = store, notifyList' = notifyList,
         \A g \in Fds \ {fd} : Untouched(g) /\ answer'[g] = answer[g],
         Talks(fd)',
         Waiting(fd) => InCall(fd)' /\ Current(fd)' = Current(fd),
         notifyList[fd] = {} \/ worker'[fd] \in {"answered", "notifying"},
         DiesOnlyOfDesertion'
  PROVE  IInv'
<1>1. /\ \A g : \A f \in Files : InLine(g, f)' <=> InLine(g, f)
      /\ \A g : Waiting(g)' <=> Waiting(g)
      /\ \A g : Told(g)' <=> Told(g)
      /\ Stored' = Stored
  BY DEF InLine, Waiting, Told, Stored
<1>2. StoreWell'
  BY DEF IInv, StoreWell, Stored, TypeOK
<1>3. Lines'
  <2> SUFFICES ASSUME NEW g \in Fds, NEW f \in Files, InLine(g, f)'
               PROVE  InCall(g)' /\ Current(g)' = [op |-> "lock", file |-> f]
    BY DEF Lines
  <2>1. InLine(g, f) /\ InCall(g) /\ Current(g) = [op |-> "lock", file |-> f]
    BY <1>1 DEF IInv, Lines
  <2>2. CASE g = fd
    BY <2>1, <2>2, WaitingIs DEF IInv
  <2>3. CASE g # fd
    BY <2>1, <2>3 DEF Untouched, InCall, Current
  <2> QED
    BY <2>2, <2>3
<1>4. ASSUME NEW g \in Fds PROVE Talks(g)'
  <2>1. CASE g # fd
    BY <1>1, <2>1, TalksOn DEF IInv
  <2> QED
    BY <2>1
<1>5. Lists'
  <2>1. \A x \in Fds : notifyList'[x] # {} => worker'[x] \in {"answered", "notifying"}
    BY DEF IInv, Lists, Untouched
  <2> QED
    BY <2>1 DEF IInv, Lists
<1> QED
  BY <1>2, <1>3, <1>4, <1>5 DEF IInv

\* A client that is in no call is at rest, and one that has nothing to read is not
\* answered; what the phases say for any g.
LEMMA CallFacts ==
  ASSUME IInv, NEW g \in Fds
  PROVE  /\ ~ InCall(g) => Quiet(g)
         /\ InCall(g) => /\ todo[g] \in Seq(Calls) /\ todo[g] # << >>
                         /\ Current(g) \in Calls /\ Tail(todo[g]) \in Seq(Calls)
                         /\ \/ Asked(g) \/ Tested(g) \/ Forbidden(g) \/ Decided(g)
                            \/ Parked(g) \/ Released(g) \/ Sent(g)
<1>1. Talks(g) /\ todo[g] \in Seq(Calls)
  BY DEF IInv, TypeOK
<1>2. todo[g] # << >> => Head(todo[g]) \in Calls /\ Tail(todo[g]) \in Seq(Calls)
  BY <1>1, HeadTailProperties, EmptySeq
<1> QED
  BY <1>1, <1>2 DEF Talks, Current

LEMMA RequestType ==
  ASSUME NEW call \in Calls
  PROVE  /\ Request(call) \in Seq(Calls \union Payloads)
         /\ Request(call) # << >> /\ Head(Request(call)) = call
         /\ PayloadOf(call) \in Payloads /\ call \notin Payloads
         /\ call.op \in {"write", "append"} =>
              /\ Tail(Request(call)) = <<PayloadOf(call)>>
              /\ SubSeq(Request(call), Len(Request(call)) + 1, Len(Request(call))) = << >>
         /\ SubSeq(Request(call), Len(Request(call)) + 1, Len(Request(call))) = << >>
<1>1. PayloadOf(call) \in Payloads
  BY DEF Payloads
<1>2. call \notin Payloads
  BY DEF Payloads, PayloadOf, Calls, Ops
<1>3. CASE call.op \in {"write", "append"}
  <2>1. Request(call) = <<call, PayloadOf(call)>>
    BY <1>3 DEF Request
  <2>2. Request(call) \in Seq(Calls \union Payloads) /\ Len(Request(call)) = 2
    BY <1>1, <2>1
  <2>3. Head(Request(call)) = call /\ Tail(Request(call)) = <<PayloadOf(call)>>
        /\ Request(call) # << >>
    BY <2>1
  <2>4. SubSeq(Request(call), 3, 2) = << >>
    BY <2>2
  <2> QED
    BY <1>1, <1>2, <2>2, <2>3, <2>4
<1>4. CASE call.op \notin {"write", "append"}
  <2>1. Request(call) = <<call>>
    BY <1>4 DEF Request
  <2>2. SubSeq(Request(call), 2, 1) = << >> /\ Len(Request(call)) = 1
    BY <2>1
  <2> QED
    BY <1>1, <1>2, <1>4, <2>1, <2>2
<1> QED
  BY <1>3, <1>4

\* A stream of one payload, and one that begins with it.
LEMMA PayloadFirst ==
  ASSUME NEW p \in Payloads, NEW s \in Seq(Calls \union Payloads)
  PROVE  /\ <<p>> \o << >> = <<p>> /\ << >> \in Seq(Calls \union Payloads)
         /\ <<p>> \o s \in Seq(Calls \union Payloads)
         /\ Head(<<p>> \o s) = p /\ Tail(<<p>> \o s) = s /\ <<p>> \o s # << >>
<1> DEFINE T == Calls \union Payloads
<1>1. p \in T
  OBVIOUS
<1> HIDE DEF T
<1>2. <<p>> \in Seq(T) /\ << >> \in Seq(T) /\ Len(<<p>>) = 1
  BY <1>1
<1>3. s \in Seq(T)
  BY DEF T
<1>4. /\ <<p>> \o s \in Seq(T) /\ Head(<<p>> \o s) = p /\ Tail(<<p>> \o s) = s
      /\ <<p>> \o s # << >> /\ <<p>> \o << >> = <<p>>
  BY <1>1, <1>2, <1>3
<1> QED
  BY <1>2, <1>4 DEF T

\* What is kept of an idle connection's stream, when something is sent.
LEMMA StreamGrows ==
  ASSUME NEW fd \in Fds, StreamIs(fd, << >>), NEW s \in Seq(Calls \union Payloads),
         toServer'[fd] = toServer[fd] \o s, worker'[fd] = worker[fd]
  PROVE  StreamIs(fd, s)' /\ toServer[fd] \o s \in Seq(Calls \union Payloads)
<1>1. CASE worker[fd] = "discarding"
  <2>1. PICK p \in Payloads : toServer[fd] = <<p>> \o << >>
    BY <1>1 DEF StreamIs
  <2>2. toServer[fd] = <<p>> /\ <<p>> \o s \in Seq(Calls \union Payloads)
    BY <2>1, PayloadFirst
  <2> QED
    BY <1>1, <2>2 DEF StreamIs
<1>2. CASE worker[fd] # "discarding"
  <2>1. toServer[fd] = << >> /\ << >> \o s = s
    BY <1>2 DEF StreamIs
  <2>2. toServer'[fd] = s /\ toServer[fd] \o s \in Seq(Calls \union Payloads)
    BY <2>1
  <2> QED
    BY <1>2, <2>2 DEF StreamIs
<1> QED
  BY <1>1, <1>2

LEMMA SendStep ==
  ASSUME IInv, NEW fd \in Fds, client[fd] \in {"none", "ok", "refused"},
         NEW calls \in Seq(Calls) \ {<< >>}, Send(fd, calls),
         commandsLeft' \in 0 .. MaxCommands, server = "up"
  PROVE  IInv'
<1>1. Quiet(fd)
  BY CallFacts DEF InCall
<1>2. Head(calls) \in Calls
  BY HeadTailProperties, EmptySeq
<1>3. /\ client' = [client EXCEPT ![fd] = "waiting"]
      /\ todo' = [todo EXCEPT ![fd] = calls]
      /\ received' = [received EXCEPT ![fd] = {}]
      /\ toServer' = [toServer EXCEPT ![fd] = toServer[fd] \o Request(Head(calls))]
      /\ store' = store /\ answer' = answer /\ opened' = opened /\ reopened' = reopened
      /\ toClient' = toClient /\ worker' = worker /\ notifyList' = notifyList
      /\ rest' = rest /\ server' = server
  BY DEF Send, storeVars, workerVars
<1>4. /\ StreamIs(fd, Request(Head(calls)))'
      /\ toServer[fd] \o Request(Head(calls)) \in Seq(Calls \union Payloads)
  <2>1. toServer'[fd] = toServer[fd] \o Request(Head(calls)) /\ worker'[fd] = worker[fd]
    BY <1>3 DEF IInv, TypeOK
  <2>2. Request(Head(calls)) \in Seq(Calls \union Payloads) /\ StreamIs(fd, << >>)
    BY <1>1, <1>2, RequestType DEF Quiet
  <2>3. toServer[fd] \o Request(Head(calls)) \in Seq(Calls \union Payloads)
        /\ \A s : s = Request(Head(calls)) => StreamIs(fd, s)'
    BY <2>1, <2>2, StreamGrows
  <2> QED
    BY <2>3 DEF StreamIs
<1>5. TypeOK'
  BY <1>3, <1>4 DEF IInv, TypeOK, StoreOK, Stored, Talking
<1>6. client'[fd] = "waiting" /\ todo'[fd] = calls
  BY <1>3 DEF IInv, TypeOK
<1>7. \A g \in Fds \ {fd} : Untouched(g) /\ answer'[g] = answer[g]
  BY <1>3 DEF Untouched, IInv, TypeOK
<1>8. (Waiting(fd)' <=> Waiting(fd)) /\ (Told(fd)' <=> Told(fd))
  BY <1>3 DEF Waiting, Told, Stored
<1>9. Talks(fd)'
  <2>1. InCall(fd)' /\ Current(fd)' = Head(calls) /\ todo'[fd] # << >>
    BY <1>6 DEF InCall, Current
  <2>2. Asked(fd)'
    BY <1>1, <1>3, <1>4, <1>8, <2>1 DEF Asked, Quiet, AtRest, NotHeld
  <2> QED
    BY <2>1, <2>2 DEF Talks
<1>10. ~ Waiting(fd)
  BY <1>1 DEF Quiet, NotHeld
<1>11. notifyList[fd] = {} \/ worker'[fd] \in {"answered", "notifying"}
  BY <1>3 DEF IInv, Lists
<1>12. DiesOnlyOfDesertion'
  BY <1>3 DEF DiesOnlyOfDesertion
<1> QED
  BY <1>3, <1>5, <1>7, <1>9, <1>10, <1>11, <1>12, OwnStep

LEMMA ConnectStep ==
  ASSUME IInv, server = "up", NEW fd \in Fds, Connect(fd) \/ NextCommand(fd)
  PROVE  IInv'
<1>1. PICK command \in Commands : StartCommand(fd, command)
  BY DEF Connect, NextCommand
<1>2. client[fd] \in {"none", "ok", "refused"}
  BY DEF Connect, Connects, NextCommand
<1>3. command \in Seq(Calls) \ {<< >>} /\ MaxCommands \in Nat
  BY SessionAssumption
<1>4. Send(fd, command) /\ commandsLeft' = commandsLeft - 1 /\ commandsLeft > 0
  BY <1>1 DEF StartCommand
<1>5. commandsLeft \in 0 .. MaxCommands
  BY DEF IInv, TypeOK
<1>6. commandsLeft' \in 0 .. MaxCommands
  BY <1>3, <1>4, <1>5
<1> QED
  BY <1>2, <1>3, <1>4, <1>6, SendStep

LEMMA ContinueStep ==
  ASSUME IInv, server = "up", NEW fd \in Fds, ContinueCommand(fd)
  PROVE  IInv'
<1>1. /\ client[fd] \in {"none", "ok", "refused"} /\ Send(fd, todo[fd])
      /\ todo[fd] \in Seq(Calls) \ {<< >>} /\ commandsLeft' \in 0 .. MaxCommands
  BY DEF ContinueCommand, IInv, TypeOK
<1> QED
  BY <1>1, SendStep

LEMMA CloseConnectionStep ==
  ASSUME IInv, server = "up", NEW fd \in Fds, CloseConnection(fd)
  PROVE  IInv'
<1>1. Quiet(fd)
  BY CallFacts DEF CloseConnection, InCall
<1>3. /\ client' = [client EXCEPT ![fd] = "gone"]
      /\ todo' = [todo EXCEPT ![fd] = << >>]
      /\ received' = [received EXCEPT ![fd] = {}]
      /\ commandsLeft' = commandsLeft
      /\ toServer' = toServer /\ toClient' = toClient
      /\ store' = store /\ answer' = answer /\ opened' = opened /\ reopened' = reopened
      /\ worker' = worker /\ notifyList' = notifyList /\ rest' = rest /\ server' = server
  BY DEF CloseConnection, storeVars, workerVars, streams
<1>5. TypeOK'
  BY <1>3 DEF IInv, TypeOK, StoreOK, Stored, Lost
<1>6. client'[fd] = "gone"
  BY <1>3 DEF IInv, TypeOK
<1>7. \A g \in Fds \ {fd} : Untouched(g) /\ answer'[g] = answer[g]
  BY <1>3 DEF Untouched, IInv, TypeOK
<1>8. (Waiting(fd)' <=> Waiting(fd)) /\ (Told(fd)' <=> Told(fd))
  BY <1>3 DEF Waiting, Told, Stored
<1>9. Talks(fd)'
  BY <1>1, <1>3, <1>6, <1>8 DEF Talks, InCall, Quiet, AtRest, NotHeld, StreamIs
<1>10. ~ Waiting(fd)
  BY <1>1 DEF Quiet, NotHeld
<1>11. notifyList[fd] = {} \/ worker'[fd] \in {"answered", "notifying"}
  BY <1>3 DEF IInv, Lists
<1>12. DiesOnlyOfDesertion'
  BY <1>3 DEF DiesOnlyOfDesertion
<1> QED
  BY <1>3, <1>5, <1>7, <1>9, <1>10, <1>11, <1>12, OwnStep

\* A program that is killed leaves its call where it is.
LEMMA DesertStep ==
  ASSUME IInv, server = "up", NEW fd \in Fds, Desert(fd)
  PROVE  IInv'
<1>1. InCall(fd)
  BY DEF Desert, InCall
<1>3. /\ client' = [client EXCEPT ![fd] = "deserted"]
      /\ todo' = todo /\ received' = received /\ commandsLeft' = commandsLeft
      /\ toServer' = toServer /\ toClient' = toClient
      /\ store' = store /\ answer' = answer /\ opened' = opened /\ reopened' = reopened
      /\ worker' = worker /\ notifyList' = notifyList /\ rest' = rest /\ server' = server
  BY DEF Desert, storeVars, workerVars, streams
<1>5. TypeOK'
  BY <1>3 DEF IInv, TypeOK, StoreOK, Stored, Lost
<1>6. InCall(fd)' /\ Current(fd)' = Current(fd)
  BY <1>3 DEF IInv, TypeOK, InCall, Current
<1>7. \A g \in Fds \ {fd} : Untouched(g) /\ answer'[g] = answer[g]
  BY <1>3 DEF Untouched, IInv, TypeOK
<1>8. (Waiting(fd)' <=> Waiting(fd)) /\ (Told(fd)' <=> Told(fd))
  BY <1>3 DEF Waiting, Told, Stored
<1>9. Talks(fd)'
  <2>1. /\ Asked(fd) => Asked(fd)'
        /\ Tested(fd) => Tested(fd)'
        /\ Forbidden(fd) => Forbidden(fd)'
        /\ Decided(fd) => Decided(fd)'
        /\ Parked(fd) => Parked(fd)'
        /\ Released(fd) => Released(fd)'
    BY <1>3, <1>6, <1>8
       DEF Asked, Tested, Forbidden, Decided, Parked, Released, AtRest, NotHeld, StreamIs
  <2>2. Sent(fd) => Sent(fd)'
    BY <1>3, <1>6, <1>8 DEF Sent, NotHeld, StreamIs
  <2> QED
    BY <1>1, <1>3, <1>6, <2>1, <2>2, CallFacts DEF Talks
<1>11. notifyList[fd] = {} \/ worker'[fd] \in {"answered", "notifying"}
  BY <1>3 DEF IInv, Lists
<1>12. DiesOnlyOfDesertion'
  BY <1>3 DEF DiesOnlyOfDesertion
<1> QED
  BY <1>3, <1>5, <1>6, <1>7, <1>9, <1>11, <1>12, OwnStep

\* The library has read a whole response, and nothing is left.
LEMMA ReadFacts ==
  ASSUME IInv, NEW fd \in Fds, client[fd] = "waiting",
         NEW r \in Response(Head(todo[fd]), toClient[fd])
  PROVE  /\ Sent(fd) /\ rest[fd] = << >>
         /\ worker[fd] \in {"none", "notifying", "discarding"} /\ StreamIs(fd, << >>)
         /\ r = toClient[fd]
         /\ SubSeq(toClient[fd], Len(r) + 1, Len(toClient[fd])) = << >>
         /\ todo[fd] \in Seq(Calls) /\ todo[fd] # << >> /\ Tail(todo[fd]) \in Seq(Calls)
         /\ \E a : /\ Fits(Current(fd), a) /\ r = <<a.code>> \o Body(Current(fd), a)
                   /\ r[1] = a.code
<1>1. InCall(fd)
  BY DEF InCall
<1>2. toClient[fd] # << >>
  BY NothingToRead
<1>3. Sent(fd) /\ Current(fd) \in Calls
  BY <1>1, <1>2, CallFacts DEF Asked, Tested, Forbidden, Decided, Parked, Released
<1>4. PICK a : /\ Fits(Current(fd), a)
               /\ \/ /\ worker[fd] = "notifying"
                     /\ toClient[fd] = <<a.code>> /\ rest[fd] = Body(Current(fd), a)
                  \/ /\ worker[fd] \in {"none", "notifying", "discarding"}
                     /\ toClient[fd] = <<a.code>> \o Body(Current(fd), a) /\ rest[fd] = << >>
  BY <1>3 DEF Sent
<1>5. r \in Response(Current(fd), toClient[fd])
  BY DEF Current
<1>6. toClient[fd] = <<a.code>> \/ toClient[fd] = <<a.code>> \o Body(Current(fd), a)
  BY <1>4
<1>7. /\ r = toClient[fd] /\ toClient[fd] = <<a.code>> \o Body(Current(fd), a)
      /\ toClient[fd] = <<a.code>> => Body(Current(fd), a) = << >>
      /\ r[1] = a.code /\ SubSeq(toClient[fd], Len(r) + 1, Len(toClient[fd])) = << >>
  <2> DEFINE call == Current(fd)
             stream == toClient[fd]
  <2>1. call \in Calls /\ Fits(call, a) /\ r \in Response(call, stream)
        /\ (stream = <<a.code>> \/ stream = <<a.code>> \o Body(call, a))
    BY <1>3, <1>4, <1>5, <1>6
  <2> HIDE DEF call, stream
  <2>2. /\ r = stream /\ stream = <<a.code>> \o Body(call, a)
        /\ stream = <<a.code>> => Body(call, a) = << >>
        /\ r[1] = a.code /\ SubSeq(stream, Len(r) + 1, Len(stream)) = << >>
    BY <2>1, ReadsAll
  <2> QED
    BY <2>2 DEF call, stream
<1>8. rest[fd] = << >>
  BY <1>4, <1>7
<1> QED
  BY <1>1, <1>3, <1>4, <1>7, <1>8, CallFacts DEF Sent

LEMMA ReadStep ==
  ASSUME IInv, server = "up", NEW fd \in Fds, ReadRefusal(fd) \/ ReadOK(fd)
  PROVE  IInv'
<1>1. client[fd] = "waiting"
  BY DEF ReadRefusal, ReadOK
<1>2. PICK r \in Response(Head(todo[fd]), toClient[fd]) :
        /\ ReadResponse(fd, r)
        /\ \/ /\ client' = [client EXCEPT ![fd] = "refused"]
              /\ todo' = [todo EXCEPT ![fd] = << >>] /\ received' = received
           \/ /\ client' = [client EXCEPT ![fd] = "ok"]
              /\ todo' = [todo EXCEPT ![fd] = Tail(todo[fd])]
              /\ received' = [received EXCEPT ![fd] = ToSet(r) \intersect Files]
  BY DEF ReadRefusal, ReadOK
<1>3. /\ toClient' =
           [toClient EXCEPT ![fd] = SubSeq(toClient[fd], Len(r) + 1, Len(toClient[fd]))]
      /\ store' = store /\ answer' = answer /\ opened' = opened /\ reopened' = reopened
      /\ commandsLeft' = commandsLeft /\ toServer' = toServer
      /\ worker' = worker /\ notifyList' = notifyList /\ rest' = rest /\ server' = server
  BY <1>2 DEF ReadResponse, storeVars, workerVars
<1>4. /\ Sent(fd) /\ rest[fd] = << >> /\ StreamIs(fd, << >>)
      /\ worker[fd] \in {"none", "notifying", "discarding"}
      /\ SubSeq(toClient[fd], Len(r) + 1, Len(toClient[fd])) = << >>
      /\ Tail(todo[fd]) \in Seq(Calls)
  BY <1>1, <1>2, ReadFacts
<1>5. TypeOK'
  <2> DEFINE t == {"none"} \union Talking \union Lost
  <2>1. /\ client' \in [Fds -> t]
        /\ todo' \in [Fds -> Seq(Calls)] /\ received' \in [Fds -> SUBSET Files]
    <3>1. /\ client \in [Fds -> t] /\ "ok" \in t /\ "refused" \in t
          /\ todo \in [Fds -> Seq(Calls)] /\ received \in [Fds -> SUBSET Files]
          /\ << >> \in Seq(Calls)
      BY DEF IInv, TypeOK, Talking
    <3> HIDE DEF t
    <3>2. client' \in [Fds -> t]
      BY <1>2, <3>1
    <3>3. todo' \in [Fds -> Seq(Calls)]
      BY <1>2, <1>4, <3>1
    <3>4. received' \in [Fds -> SUBSET Files]
      BY <1>2, <3>1
    <3> QED
      BY <3>2, <3>3, <3>4
  <2>2. toClient' \in [Fds -> Seq({"OK", "refused", Content, EndOfFiles} \union Files)]
    BY <1>3, <1>4 DEF IInv, TypeOK
  <2> QED
    BY <1>3, <2>1, <2>2 DEF IInv, TypeOK, StoreOK, Stored
<1>6. client'[fd] \in {"ok", "refused"} /\ toClient'[fd] = << >>
  BY <1>2, <1>3, <1>4 DEF IInv, TypeOK
<1>7. \A g \in Fds \ {fd} : Untouched(g) /\ answer'[g] = answer[g]
  BY <1>2, <1>3 DEF Untouched, IInv, TypeOK
<1>8. (Waiting(fd)' <=> Waiting(fd)) /\ (Told(fd)' <=> Told(fd))
  BY <1>3 DEF Waiting, Told, Stored
<1>9. Talks(fd)'
  BY <1>3, <1>4, <1>6, <1>8 DEF Talks, InCall, Quiet, Sent, AtRest, NotHeld, StreamIs
<1>10. ~ Waiting(fd)
  BY <1>4 DEF Sent, NotHeld
<1>11. notifyList[fd] = {} \/ worker'[fd] \in {"answered", "notifying"}
  BY <1>3 DEF IInv, Lists
<1>12. DiesOnlyOfDesertion'
  BY <1>3 DEF DiesOnlyOfDesertion
<1> QED
  BY <1>3, <1>5, <1>7, <1>9, <1>10, <1>11, <1>12, OwnStep

LEMMA RespondStep ==
  ASSUME IInv, server = "up", NEW fd \in Fds, Respond(fd)
  PROVE  /\ IInv'
         /\ InCall(fd) /\ Decided(fd) /\ InCall(fd)' /\ Sent(fd)'
         /\ \A a : a = answer[fd] => SentAs(fd, a)'
<1> DEFINE a == answer[fd]
           call == Current(fd)
<1>1. worker[fd] = "answered"
  BY DEF Respond
<1>2. InCall(fd) /\ Decided(fd) /\ call \in Calls /\ todo[fd] # << >>
  BY <1>1, CallFacts DEF Quiet, AtRest, Asked, Tested, Forbidden, Parked, Released, Sent
<1>3. /\ Fits(call, a) /\ rest[fd] = Body(call, a) /\ NotHeld(fd)
      /\ toServer[fd] = << >> /\ toClient[fd] = << >>
  BY <1>2 DEF Decided
<1>4. /\ answer' = [answer EXCEPT ![fd] = None]
      /\ toServer' = toServer
      /\ \/ /\ notifyList[fd] = {}
            /\ toClient' = [toClient EXCEPT ![fd] = Append(toClient[fd], a.code) \o rest[fd]]
            /\ rest' = [rest EXCEPT ![fd] = << >>]
            /\ worker' = [worker EXCEPT ![fd] = "none"]
         \/ /\ toClient' = [toClient EXCEPT ![fd] = Append(toClient[fd], a.code)]
            /\ worker' = [worker EXCEPT ![fd] = "notifying"]
            /\ rest' = rest
      /\ store' = store /\ opened' = opened /\ reopened' = reopened /\ notifyList' = notifyList /\ server' = server
      /\ client' = client /\ todo' = todo /\ received' = received
      /\ commandsLeft' = commandsLeft
  BY DEF Respond, clientVars
<1>6. /\ Append(toClient[fd], a.code) = <<a.code>>
      /\ Body(call, a) \in Seq({Content, EndOfFiles} \union Files)
      /\ a.code \in {"OK", "refused"}
  BY <1>2, <1>3, BodyShape DEF Fits, Answers
<1> DEFINE T == {"OK", "refused", Content, EndOfFiles} \union Files
<1>7. <<a.code>> \in Seq(T) /\ <<a.code>> \o Body(call, a) \in Seq(T)
  <2>1. Body(call, a) \in Seq(T)
    BY <1>6, SeqWider
  <2>2. <<a.code>> \in Seq(T)
    BY <1>6
  <2> QED
    BY <2>1, <2>2, ConcatProperties
<1>8. TypeOK'
  <2>1. toClient' \in [Fds -> Seq(T)]
    <3>1. toClient \in [Fds -> Seq(T)]
      BY DEF IInv, TypeOK
    <3> HIDE DEF T
    <3> QED
      BY <1>3, <1>4, <1>6, <1>7, <3>1
  <2> DEFINE R == Seq({Content, EndOfFiles} \union Files)
             W == {"none", "tested", "forbidden", "discarding", "answered", "notifying"}
  <2>2. worker' \in [Fds -> W] /\ rest' \in [Fds -> R]
    <3>1. worker \in [Fds -> W] /\ rest \in [Fds -> R] /\ << >> \in R
      BY DEF IInv, TypeOK
    <3>2. "none" \in W /\ "notifying" \in W
      OBVIOUS
    <3> HIDE DEF R, W
    <3>3. worker' \in [Fds -> W]
      BY <1>4, <3>1, <3>2
    <3>4. rest' \in [Fds -> R]
      BY <1>4, <3>1
    <3> QED
      BY <3>3, <3>4
  <2>3. answer' \in [Fds -> Answers] /\ toServer' \in [Fds -> Seq(Calls \union Payloads)]
    BY <1>4, AnswersAre DEF IInv, TypeOK, StoreOK
  <2> QED
    BY <1>4, <2>1, <2>2, <2>3 DEF IInv, TypeOK, StoreOK, Stored
<1>9. \A g \in Fds \ {fd} : Untouched(g) /\ answer'[g] = answer[g]
  BY <1>4 DEF Untouched, IInv, TypeOK, StoreOK
<1>10. /\ (Waiting(fd)' <=> Waiting(fd)) /\ (Told(fd)' <=> Told(fd))
       /\ InCall(fd)' /\ Current(fd)' = call
  BY <1>2, <1>4 DEF Waiting, Told, Stored, InCall, Current
<1>11. answer'[fd] = None /\ NotHeld(fd)' /\ toServer'[fd] = << >>
  BY <1>3, <1>4, <1>10 DEF NotHeld, IInv, TypeOK, StoreOK
<1>12. \/ /\ worker'[fd] = "notifying"
          /\ toClient'[fd] = <<a.code>> /\ rest'[fd] = Body(call, a)
       \/ /\ worker'[fd] \in {"none", "notifying"}
          /\ toClient'[fd] = <<a.code>> \o Body(call, a) /\ rest'[fd] = << >>
  BY <1>3, <1>4, <1>6 DEF IInv, TypeOK
<1> HIDE DEF a, call
<1>13. Sent(fd)'
  BY <1>3, <1>10, <1>11, <1>12 DEF Sent, Fits, StreamIs
<1>14. Talks(fd)'
  BY <1>2, <1>4, <1>10, <1>13 DEF Talks
<1>15. notifyList[fd] = {} \/ worker'[fd] \in {"answered", "notifying"}
  BY <1>4 DEF IInv, TypeOK
<1>16. DiesOnlyOfDesertion'
  BY <1>4 DEF DiesOnlyOfDesertion
<1>17. IInv'
  BY <1>4, <1>8, <1>9, <1>10, <1>14, <1>15, <1>16, OwnStep DEF call
<1>18. \A b : b = a => SentAs(fd, b)'
  BY <1>3, <1>10, <1>12 DEF SentAs
<1> QED
  BY <1>2, <1>10, <1>13, <1>17, <1>18 DEF a

\* FORBIDDEN goes out, and nothing comes after it.
LEMMA ForbidStep ==
  ASSUME IInv, server = "up", NEW fd \in Fds, Forbid(fd)
  PROVE  /\ IInv'
         /\ InCall(fd) /\ Forbidden(fd) /\ InCall(fd)' /\ Sent(fd)'
         /\ SentAs(fd, Refused)'
<1> DEFINE call == Current(fd)
<1>1. worker[fd] = "forbidden"
  BY DEF Forbid
<1>2. InCall(fd) /\ Forbidden(fd) /\ call \in Calls /\ todo[fd] # << >>
  BY <1>1, CallFacts DEF Quiet, AtRest, Asked, Tested, Decided, Parked, Released, Sent
<1>3. /\ answer[fd] = Refused /\ rest[fd] = << >> /\ NotHeld(fd)
      /\ toServer[fd] = <<PayloadOf(call)>> /\ toClient[fd] = << >>
  BY <1>2 DEF Forbidden
<1>4. /\ answer' = [answer EXCEPT ![fd] = None]
      /\ toClient' = [toClient EXCEPT ![fd] = Append(toClient[fd], answer[fd].code)]
      /\ worker' = [worker EXCEPT ![fd] = "discarding"]
      /\ store' = store /\ opened' = opened /\ reopened' = reopened
      /\ toServer' = toServer /\ notifyList' = notifyList /\ rest' = rest
      /\ server' = server /\ client' = client /\ todo' = todo /\ received' = received
      /\ commandsLeft' = commandsLeft
  BY DEF Forbid, clientVars
<1>5. Append(toClient[fd], answer[fd].code) = <<"refused">>
  BY <1>3 DEF Refused
<1>6. TypeOK'
  <2>1. toClient' \in [Fds -> Seq({"OK", "refused", Content, EndOfFiles} \union Files)]
    BY <1>4, <1>5 DEF IInv, TypeOK
  <2>2. answer' \in [Fds -> Answers]
    BY <1>4, AnswersAre DEF IInv, TypeOK, StoreOK
  <2> DEFINE W == {"none", "tested", "forbidden", "discarding", "answered", "notifying"}
  <2>3. worker' \in [Fds -> W]
    BY <1>4 DEF IInv, TypeOK
  <2> QED
    BY <1>4, <2>1, <2>2, <2>3 DEF IInv, TypeOK, StoreOK, Stored
<1>7. \A g \in Fds \ {fd} : Untouched(g) /\ answer'[g] = answer[g]
  BY <1>4 DEF Untouched, IInv, TypeOK, StoreOK
<1>8. /\ (Waiting(fd)' <=> Waiting(fd)) /\ (Told(fd)' <=> Told(fd))
      /\ InCall(fd)' /\ Current(fd)' = call
  BY <1>2, <1>4 DEF Waiting, Told, Stored, InCall, Current
<1>9. /\ Fits(call, Refused) /\ Body(call, Refused) = << >> /\ Refused \in Answers
      /\ Refused.code = "refused"
  BY AnswersAre DEF Body, Refused
<1>10. StreamIs(fd, << >>)'
  <2> DEFINE p == PayloadOf(call)
  <2>1. p \in Payloads /\ toServer'[fd] = <<p>> /\ worker'[fd] = "discarding"
    BY <1>2, <1>3, <1>4, RequestType DEF IInv, TypeOK
  <2> HIDE DEF p
  <2>2. <<p>> \o << >> = <<p>>
    BY <2>1, PayloadFirst
  <2> QED
    BY <2>1, <2>2 DEF StreamIs
<1>11. /\ answer'[fd] = None /\ NotHeld(fd)' /\ worker'[fd] = "discarding"
       /\ rest'[fd] = << >> /\ toClient'[fd] = <<"refused">>
  BY <1>3, <1>4, <1>5, <1>8 DEF NotHeld, IInv, TypeOK, StoreOK
<1>12. <<"refused">> = <<"refused">> \o << >>
  OBVIOUS
<1> HIDE DEF call
<1>13. Sent(fd)' /\ SentAs(fd, Refused)'
  BY <1>8, <1>9, <1>10, <1>11, <1>12 DEF Sent, SentAs, Fits
<1>14. Talks(fd)'
  BY <1>2, <1>4, <1>8, <1>13 DEF Talks
<1>15. notifyList[fd] = {}
  BY <1>1 DEF IInv, Lists
<1>16. DiesOnlyOfDesertion'
  BY <1>4 DEF DiesOnlyOfDesertion
<1>17. IInv'
  BY <1>4, <1>6, <1>7, <1>8, <1>14, <1>15, <1>16, OwnStep DEF call
<1> QED
  BY <1>2, <1>8, <1>13, <1>17

\* The payload is read away, and what is left is as it was.
LEMMA ThrowAwayStep ==
  ASSUME IInv, server = "up", NEW fd \in Fds, ThrowAwayPayload(fd)
  PROVE  IInv'
<1>1. /\ worker[fd] = "discarding"
      /\ toServer' = [toServer EXCEPT ![fd] = Tail(toServer[fd])]
      /\ worker' = [worker EXCEPT ![fd] = "none"]
      /\ store' = store /\ answer' = answer /\ opened' = opened /\ reopened' = reopened
      /\ client' = client /\ todo' = todo /\ received' = received
      /\ commandsLeft' = commandsLeft /\ toClient' = toClient
      /\ notifyList' = notifyList /\ rest' = rest /\ server' = server
  BY DEF ThrowAwayPayload, storeVars, clientVars
<1>2. /\ toServer'[fd] = Tail(toServer[fd]) /\ worker'[fd] = "none"
      /\ client'[fd] = client[fd] /\ todo'[fd] = todo[fd] /\ toClient'[fd] = toClient[fd]
      /\ rest'[fd] = rest[fd] /\ answer'[fd] = answer[fd]
  BY <1>1 DEF IInv, TypeOK
<1>3. /\ (Waiting(fd)' <=> Waiting(fd)) /\ (Told(fd)' <=> Told(fd))
      /\ (InCall(fd)' <=> InCall(fd)) /\ Current(fd)' = Current(fd)
      /\ (NotHeld(fd)' <=> NotHeld(fd))
  BY <1>1 DEF Waiting, Told, Stored, InCall, Current, NotHeld
<1>4. /\ \/ ~ InCall(fd) /\ Quiet(fd)
         \/ InCall(fd) /\ (Asked(fd) \/ Sent(fd))
      /\ InCall(fd) => todo[fd] # << >> /\ Current(fd) \in Calls
  BY <1>1, CallFacts DEF Tested, Forbidden, Decided, Parked, Released
<1>5. ASSUME NEW s \in Seq(Calls \union Payloads), StreamIs(fd, s)
      PROVE  toServer'[fd] = s
  <2>1. PICK p \in Payloads : toServer[fd] = <<p>> \o s
    BY <1>1, <1>5 DEF StreamIs
  <2>2. Tail(<<p>> \o s) = s
    BY PayloadFirst
  <2> QED
    BY <1>2, <2>1, <2>2
<1>6. << >> \in Seq(Calls \union Payloads)
  OBVIOUS
<1>7. ~ InCall(fd) => Quiet(fd)' /\ toServer'[fd] = << >>
  BY <1>2, <1>3, <1>4, <1>5, <1>6 DEF Quiet, AtRest, StreamIs
<1>8. InCall(fd) /\ Asked(fd) => Asked(fd)' /\ toServer'[fd] = Request(Current(fd))
  <2> SUFFICES ASSUME InCall(fd), Asked(fd)
               PROVE  Asked(fd)' /\ toServer'[fd] = Request(Current(fd))
    OBVIOUS
  <2>1. toServer'[fd] = Request(Current(fd))
    BY <1>4, <1>5, RequestType DEF Asked
  <2> QED
    BY <1>2, <1>3, <2>1 DEF Asked, AtRest, StreamIs
<1>9. InCall(fd) /\ Sent(fd) => Sent(fd)' /\ toServer'[fd] = << >>
  <2> SUFFICES ASSUME InCall(fd), Sent(fd) PROVE Sent(fd)' /\ toServer'[fd] = << >>
    OBVIOUS
  <2>1. toServer'[fd] = << >> /\ answer[fd] = None /\ NotHeld(fd)
    BY <1>5, <1>6 DEF Sent
  <2>2. PICK a \in Answers :
          /\ Fits(Current(fd), a)
          /\ toClient[fd] = <<a.code>> \o Body(Current(fd), a) /\ rest[fd] = << >>
    BY <1>1 DEF Sent
  <2>3. StreamIs(fd, << >>)'
    BY <1>2, <2>1 DEF StreamIs
  <2> QED
    BY <1>2, <1>3, <2>1, <2>2, <2>3 DEF Sent, Fits
<1>10. Talks(fd)'
  BY <1>2, <1>3, <1>4, <1>7, <1>8, <1>9 DEF Talks
<1>11. TypeOK'
  <2>1. toServer'[fd] \in Seq(Calls \union Payloads)
    BY <1>4, <1>6, <1>7, <1>8, <1>9, RequestType
  <2>2. toServer' \in [Fds -> Seq(Calls \union Payloads)]
    BY <1>1, <1>2, <2>1 DEF IInv, TypeOK
  <2> DEFINE W == {"none", "tested", "forbidden", "discarding", "answered", "notifying"}
  <2>3. worker' \in [Fds -> W]
    BY <1>1 DEF IInv, TypeOK
  <2> QED
    BY <1>1, <2>2, <2>3 DEF IInv, TypeOK, StoreOK, Stored
<1>12. \A g \in Fds \ {fd} : Untouched(g) /\ answer'[g] = answer[g]
  BY <1>1 DEF Untouched, IInv, TypeOK
<1>13. ~ Waiting(fd)
  BY <1>4 DEF Quiet, Asked, Sent, NotHeld
<1>14. notifyList[fd] = {} /\ DiesOnlyOfDesertion'
  BY <1>1 DEF IInv, Lists, DiesOnlyOfDesertion
<1> QED
  BY <1>1, <1>10, <1>11, <1>12, <1>13, <1>14, OwnStep

LEMMA FinishStep ==
  ASSUME IInv, server = "up", NEW fd \in Fds, Finish(fd)
  PROVE  IInv'
<1>1. worker[fd] = "notifying"
  BY DEF Finish
<1>2. /\ toClient' = [toClient EXCEPT ![fd] = toClient[fd] \o rest[fd]]
      /\ rest' = [rest EXCEPT ![fd] = << >>]
      /\ worker' = [worker EXCEPT ![fd] = "none"]
      /\ store' = store /\ answer' = answer /\ opened' = opened /\ reopened' = reopened
      /\ client' = client /\ todo' = todo /\ received' = received
      /\ commandsLeft' = commandsLeft
      /\ toServer' = toServer /\ notifyList' = notifyList /\ server' = server
      /\ notifyList[fd] = {}
  BY DEF Finish, storeVars, clientVars
<1> DEFINE T == {"OK", "refused", Content, EndOfFiles} \union Files
<1>3. toClient[fd] \in Seq(T) /\ rest[fd] \in Seq(T)
  <2>1. toClient[fd] \in Seq(T) /\ rest[fd] \in Seq({Content, EndOfFiles} \union Files)
    BY DEF IInv, TypeOK
  <2> QED
    BY <2>1, SeqWider
<1>4. toClient[fd] \o rest[fd] \in Seq(T)
  BY <1>3, ConcatProperties
<1>5. TypeOK'
  <2>1. toClient' \in [Fds -> Seq(T)]
    <3>1. toClient \in [Fds -> Seq(T)]
      BY DEF IInv, TypeOK
    <3> HIDE DEF T
    <3> QED
      BY <1>2, <1>4, <3>1
  <2>2. worker' \in [Fds -> {"none", "tested", "forbidden", "discarding", "answered", "notifying"}]
        /\ rest' \in [Fds -> Seq({Content, EndOfFiles} \union Files)]
    BY <1>2 DEF IInv, TypeOK
  <2> QED
    BY <1>2, <2>1, <2>2 DEF IInv, TypeOK, StoreOK, Stored
<1>6. \A g \in Fds \ {fd} : Untouched(g) /\ answer'[g] = answer[g]
  BY <1>2 DEF Untouched, IInv, TypeOK, StoreOK
<1>7. /\ (Waiting(fd)' <=> Waiting(fd)) /\ (Told(fd)' <=> Told(fd))
      /\ (InCall(fd)' <=> InCall(fd)) /\ Current(fd)' = Current(fd)
  BY <1>2 DEF Waiting, Told, Stored, InCall, Current
<1>8. /\ toClient'[fd] = toClient[fd] \o rest[fd] /\ rest'[fd] = << >>
      /\ worker'[fd] = "none" /\ answer'[fd] = answer[fd] /\ toServer'[fd] = toServer[fd]
  BY <1>2 DEF IInv, TypeOK
<1>9. rest[fd] = << >> => toClient'[fd] = toClient[fd]
  BY <1>3, <1>8
<1>10. Talks(fd)'
  <2>1. CASE Quiet(fd) /\ ~ InCall(fd)
    BY <1>1, <1>7, <1>8, <1>9, <2>1 DEF Talks, Quiet, AtRest, NotHeld, StreamIs
  <2>2. CASE Asked(fd) /\ InCall(fd)
    <3>1. Asked(fd)'
      BY <1>1, <1>7, <1>8, <1>9, <2>2 DEF Asked, AtRest, NotHeld, StreamIs
    <3> QED
      BY <1>2, <1>7, <2>2, <3>1, CallFacts DEF Talks
  <2>3. CASE Sent(fd) /\ InCall(fd)
    <3>1. PICK a : /\ Fits(Current(fd), a)
                   /\ \/ toClient[fd] = <<a.code>> /\ rest[fd] = Body(Current(fd), a)
                      \/ /\ toClient[fd] = <<a.code>> \o Body(Current(fd), a)
                         /\ rest[fd] = << >>
      BY <2>3 DEF Sent
    <3>2. toClient'[fd] = <<a.code>> \o Body(Current(fd), a)
      BY <1>8, <1>9, <3>1
    <3>3. answer'[fd] = None /\ NotHeld(fd)' /\ StreamIs(fd, << >>)'
      BY <1>1, <1>7, <1>8, <2>3 DEF Sent, NotHeld, StreamIs
    <3>4. Sent(fd)'
      BY <1>7, <1>8, <3>1, <3>2, <3>3 DEF Sent, Fits
    <3> QED
      BY <1>2, <1>7, <2>3, <3>4, CallFacts DEF Talks
  <2> QED
    BY <1>1, <2>1, <2>2, <2>3, CallFacts DEF Tested, Forbidden, Decided, Parked, Released
<1>11. DiesOnlyOfDesertion'
  BY <1>2 DEF DiesOnlyOfDesertion
<1>12. Waiting(fd) => InCall(fd)' /\ Current(fd)' = Current(fd)
  BY <1>7, CallFacts DEF Quiet, NotHeld
<1> QED
  BY <1>2, <1>5, <1>6, <1>10, <1>11, <1>12, OwnStep

\* A watched client that has sent something has asked.
LEMMA ServeFacts ==
  ASSUME IInv, NEW fd \in Fds, Watched(fd), toServer[fd] # << >>
  PROVE  /\ InCall(fd) /\ Asked(fd) /\ worker[fd] = "none" /\ notifyList[fd] = {}
         /\ Current(fd) \in Calls /\ Head(toServer[fd]) = Current(fd)
         /\ todo[fd] # << >> /\ Ready(fd) /\ toServer[fd] = Request(Current(fd))
<1>1. worker[fd] = "none" /\ ~ Waiting(fd) /\ ~ Told(fd)
  BY DEF Watched, Told
<1>2. InCall(fd) /\ Asked(fd) /\ Current(fd) \in Calls /\ todo[fd] # << >>
  BY <1>1, CallFacts DEF Quiet, Tested, Forbidden, Decided, Parked, Released, Sent, StreamIs
<1>3. Head(toServer[fd]) = Current(fd) /\ toServer[fd] = Request(Current(fd))
  BY <1>1, <1>2, RequestType DEF Asked, StreamIs
<1>4. Ready(fd)
  BY <1>2 DEF Ready, IInv, StoreWell, StoreOK, Asked, AtRest, NotHeld
<1> QED
  BY <1>1, <1>2, <1>3, <1>4 DEF IInv, Lists

LEMMA ServeWriteStep ==
  ASSUME IInv, server = "up", NEW fd \in Fds, ServeWrite(fd)
  PROVE  IInv'
<1> DEFINE call == Current(fd)
<1>1. /\ InCall(fd) /\ Asked(fd) /\ call \in Calls /\ call.op = "write"
      /\ notifyList[fd] = {} /\ todo[fd] # << >> /\ Ready(fd)
      /\ toServer[fd] = Request(call)
  BY ServeFacts DEF ServeWrite
<1>2. /\ \/ /\ worker' = [worker EXCEPT ![fd] = "tested"] /\ answer' = answer
            /\ store' = store
         \/ worker' = [worker EXCEPT ![fd] = "forbidden"] /\ Refuse(fd)
      /\ toServer' = [toServer EXCEPT ![fd] = Tail(toServer[fd])]
      /\ opened' = opened /\ reopened' = reopened /\ client' = client /\ todo' = todo /\ received' = received
      /\ commandsLeft' = commandsLeft /\ toClient' = toClient
      /\ notifyList' = notifyList /\ rest' = rest /\ server' = server
  BY DEF ServeWrite, clientVars
<1>3. Tail(toServer[fd]) = <<PayloadOf(call)>> /\ PayloadOf(call) \in Payloads
  BY <1>1, RequestType
<1>4. /\ store' = store /\ answer' \in [Fds -> Answers]
      /\ \A g \in Fds \ {fd} : answer'[g] = answer[g]
      /\ \/ worker' = [worker EXCEPT ![fd] = "tested"] /\ answer'[fd] = answer[fd]
         \/ worker' = [worker EXCEPT ![fd] = "forbidden"] /\ answer'[fd] = Refused
  <2>1. CASE Refuse(fd) /\ worker' = [worker EXCEPT ![fd] = "forbidden"]
    <3>1. /\ answer' \in [Fds -> Answers] /\ answer'[fd] = Refused
          /\ \A g \in Fds \ {fd} : answer'[g] = answer[g]
      BY <1>1, <2>1, AnswersAre, Settles DEF Ready, Refuse
    <3> QED
      BY <2>1, <3>1 DEF Refuse
  <2>2. CASE /\ worker' = [worker EXCEPT ![fd] = "tested"]
             /\ answer' = answer /\ store' = store
    BY <1>1, <2>2 DEF Ready
  <2> QED
    BY <1>2, <2>1, <2>2
<1>5. TypeOK'
  <2>1. worker' \in [Fds -> {"none", "tested", "forbidden", "discarding", "answered", "notifying"}]
    <3> DEFINE W == {"none", "tested", "forbidden", "discarding", "answered", "notifying"}
    <3>1. worker \in [Fds -> W] /\ "tested" \in W /\ "forbidden" \in W
      BY DEF IInv, TypeOK
    <3> HIDE DEF W
    <3>2. worker' \in [Fds -> W]
      BY <1>4, <3>1
    <3> QED
      BY <3>2 DEF W
  <2>2. toServer' \in [Fds -> Seq(Calls \union Payloads)]
    <3> DEFINE p == PayloadOf(call)
    <3>1. p \in Calls \union Payloads
      BY <1>3
    <3> HIDE DEF p
    <3>2. <<p>> \in Seq(Calls \union Payloads)
      BY <3>1
    <3> QED
      BY <1>2, <1>3, <3>2 DEF IInv, TypeOK, p
  <2> QED
    BY <1>2, <1>4, <2>1, <2>2 DEF IInv, TypeOK, StoreOK, Stored
<1>6. \A g \in Fds \ {fd} : Untouched(g) /\ answer'[g] = answer[g]
  BY <1>2, <1>4 DEF Untouched, IInv, TypeOK
<1>7. /\ (Waiting(fd)' <=> Waiting(fd)) /\ (Told(fd)' <=> Told(fd))
      /\ InCall(fd)' /\ Current(fd)' = call
  BY <1>1, <1>2, <1>4 DEF Waiting, Told, Stored, InCall, Current
<1>8. /\ rest'[fd] = << >> /\ toClient'[fd] = << >> /\ NotHeld(fd)'
      /\ toServer'[fd] = <<PayloadOf(call)>> /\ answer[fd] = None
  BY <1>1, <1>2, <1>3, <1>7 DEF Asked, AtRest, NotHeld, IInv, TypeOK
<1>9. \/ worker'[fd] = "tested" /\ answer'[fd] = None
      \/ worker'[fd] = "forbidden" /\ answer'[fd] = Refused
  BY <1>4, <1>8 DEF IInv, TypeOK
<1> HIDE DEF call
<1>11. Talks(fd)'
  <2>1. CASE worker'[fd] = "tested" /\ answer'[fd] = None
    <3>1. Tested(fd)'
      BY <1>1, <1>7, <1>8, <2>1 DEF Tested
    <3> QED
      BY <1>1, <1>2, <1>7, <3>1 DEF Talks
  <2>2. CASE worker'[fd] = "forbidden" /\ answer'[fd] = Refused
    <3>1. Forbidden(fd)'
      BY <1>1, <1>7, <1>8, <2>2 DEF Forbidden
    <3> QED
      BY <1>1, <1>2, <1>7, <3>1 DEF Talks
  <2> QED
    BY <1>9, <2>1, <2>2
<1>12. DiesOnlyOfDesertion'
  BY <1>2 DEF DiesOnlyOfDesertion
<1> QED
  BY <1>1, <1>2, <1>4, <1>5, <1>6, <1>7, <1>11, <1>12, OwnStep DEF call

\* What a handler run for fd means for the other clients: some that were waiting now
\* are to be told.
LEMMA Others ==
  ASSUME IInv, NEW fd \in Fds, HandlerRule(fd), ~ Told(fd), notifyList[fd] = {},
         \A g \in Fds \ {fd} : Untouched(g),
         NEW x \in {fd, Closed},
         notifyList' = [notifyList EXCEPT ![x] = notifyList[x] \union Settled(fd)]
  PROVE  /\ \A g \in Fds \ {fd} : Talks(g)'
         /\ \A g \in Fds \ {fd} : \A f \in Files :
              InLine(g, f)' => InCall(g)' /\ Current(g)' = [op |-> "lock", file |-> f]
         /\ \A y, z \in Fds \union {Closed} : \A g \in Fds :
              g \in notifyList'[y] /\ g \in notifyList'[z] => y = z
         /\ \A y \in Fds \ {fd} : notifyList'[y] # {} =>
              worker'[y] \in {"answered", "notifying"}
         /\ x # fd => notifyList'[fd] = {}
         /\ ~ Told(fd)'
<1> DEFINE S == Settled(fd)
           N == Fds \union {Closed}
<1>1. /\ x \in N /\ notifyList \in [N -> SUBSET Fds]
      /\ notifyList'[x] = notifyList[x] \union S
      /\ \A y \in N : y # x => notifyList'[y] = notifyList[y]
  BY DEF IInv, TypeOK
<1>2. Closed \notin Fds
  BY RightsAssumption DEF Closed, Nobody
<1>3. \A g \in Fds : g \in S <=> g # fd /\ answer[g] = None /\ answer'[g] # None
  BY DEF Settled
<1>4. S \subseteq Fds /\ fd \notin S
  BY DEF Settled
<1> HIDE DEF S, N
<1>5. \A g \in Fds : Told(g)' <=> Told(g) \/ g \in S
  <2>1. \A g : Told(g)' <=> \E y \in N : g \in notifyList'[y]
    BY DEF Told, N
  <2>2. \A g : Told(g) <=> \E y \in N : g \in notifyList[y]
    BY DEF Told, N
  <2> QED
    BY <1>1, <2>1, <2>2
<1>6. ASSUME NEW g \in Fds \ {fd}
      PROVE  \/ /\ answer'[g] = answer[g] /\ g \notin S
                /\ \A f \in Files : InLine(g, f)' <=> InLine(g, f)
             \/ /\ Parked(g) /\ InCall(g) /\ ~ Waiting(g)' /\ answer'[g] \in {Ok({}), Refused}
                /\ g \in S
  <2>1. CASE answer'[g] = answer[g] /\ \A f \in Files : InLine(g, f)' <=> InLine(g, f)
    BY <1>3, <2>1
  <2>2. CASE Waiting(g) /\ ~ Waiting(g)' /\ answer'[g] \in {Ok({}), Refused}
    <3>1. Parked(g) /\ InCall(g)
      BY <2>2, CallFacts DEF Quiet, NotHeld, Asked, Tested, Forbidden, Decided, Released, Sent
    <3>2. answer[g] = None
      BY <3>1 DEF Parked
    <3> QED
      BY <1>3, <2>2, <3>1, <3>2, AnswersAre
  <2> QED
    BY <2>1, <2>2 DEF HandlerRule
<1>7. StoreWell' /\ StoreWell
  BY DEF HandlerRule, IInv
<1>8. ASSUME NEW g \in Fds \ {fd} PROVE Talks(g)'
  <2>1. CASE answer'[g] = answer[g] /\ g \notin S
             /\ \A f \in Files : InLine(g, f)' <=> InLine(g, f)
    <3>1. Waiting(g)' <=> Waiting(g)
      BY <1>7, <2>1, WaitingIs, WaitingIsThen
    <3>2. Told(g)' <=> Told(g)
      BY <1>5, <2>1
    <3> QED
      BY <2>1, <3>1, <3>2, TalksOn DEF IInv
  <2>2. CASE /\ Parked(g) /\ InCall(g) /\ ~ Waiting(g)' /\ answer'[g] \in {Ok({}), Refused}
             /\ g \in S
    <3>1. Told(g)' /\ Untouched(g)
      BY <1>5, <2>2
    <3>2. Current(g).op = "lock" /\ todo[g] # << >>
      <4>1. PICK f \in Files : InLine(g, f)
        BY <1>7, <2>2, WaitingIs DEF Parked
      <4>2. Current(g) = [op |-> "lock", file |-> f]
        BY <4>1 DEF IInv, Lines
      <4> QED
        BY <2>2, <4>2, CallFacts
    <3>3. Released(g)'
      BY <2>2, <3>1, <3>2 DEF Parked, Released, Untouched, Current
    <3> QED
      BY <2>2, <3>1, <3>2, <3>3 DEF Talks, Untouched, InCall
  <2> QED
    BY <1>6, <2>1, <2>2
<1>9. ASSUME NEW g \in Fds \ {fd}, NEW f \in Files, InLine(g, f)'
      PROVE  InCall(g)' /\ Current(g)' = [op |-> "lock", file |-> f]
  <2>1. InLine(g, f)
    BY <1>6, <1>7, <1>9, WaitingIsThen
  <2>2. InCall(g) /\ Current(g) = [op |-> "lock", file |-> f]
    BY <2>1 DEF IInv, Lines
  <2> QED
    BY <2>2 DEF Untouched, InCall, Current
<1>10. ASSUME NEW y \in N, NEW z \in N, NEW g \in Fds,
              g \in notifyList'[y], g \in notifyList'[z]
       PROVE  y = z
  <2>1. CASE g \in S
    <3>1. ~ Told(g)
      BY <1>4, <1>6, <2>1 DEF Parked
    <3>2. \A u \in N : g \notin notifyList[u]
      BY <3>1 DEF Told, N
    <3> QED
      BY <1>1, <1>10, <3>2
  <2>2. CASE g \notin S
    <3>1. g \in notifyList[y] /\ g \in notifyList[z]
      BY <1>1, <1>10, <2>2
    <3> QED
      BY <3>1 DEF IInv, Lists, N
  <2> QED
    BY <2>1, <2>2
<1>11. ASSUME NEW y \in Fds \ {fd}, notifyList'[y] # {}
       PROVE  worker'[y] \in {"answered", "notifying"}
  <2>1. notifyList[y] # {}
    BY <1>1, <1>2, <1>11 DEF N
  <2> QED
    BY <2>1 DEF IInv, Lists, Untouched
<1>12. x # fd => notifyList'[fd] = {}
  BY <1>1 DEF N
<1>13. ~ Told(fd)'
  BY <1>4, <1>5
<1> QED
  BY <1>8, <1>9, <1>10, <1>11, <1>12, <1>13 DEF N

\* A request has been handled: it is answered, or its client waits.
LEMMA HandledStep ==
  ASSUME IInv, server = "up", NEW fd \in Fds, NEW call \in Calls, call = Current(fd),
         InCall(fd), todo[fd] # << >>, ~ Told(fd), notifyList[fd] = {},
         toClient[fd] = << >>, answer[fd] = None,
         Served(fd, call), Handled(fd, call),
         toServer' = [toServer EXCEPT ![fd] = << >>],
         UNCHANGED <<clientVars, toClient, server>>
  PROVE  IInv'
<1> DEFINE a == answer'[fd]
<1>1. /\ HandlerRule(fd) /\ StoreWell' /\ StoreOK'
      /\ \/ ~ Waiting(fd)' /\ Fits(call, a)
         \/ /\ call.op = "lock" /\ answer' = answer
            /\ \A f \in Files : InLine(fd, f)' <=> f = call.file
  BY DEF Served, HandlerRule, StoreWell
<1>2. /\ notifyList' = [notifyList EXCEPT ![fd] = Settled(fd)]
      /\ rest' = [rest EXCEPT ![fd] = Body(call, a)]
      /\ worker' = [worker EXCEPT ![fd] = IF a = None THEN "none" ELSE "answered"]
      /\ opened' = OpenedAfter(fd, call) /\ reopened' = ReopenedAfter(fd, call)
      /\ client' = client /\ todo' = todo /\ received' = received
      /\ commandsLeft' = commandsLeft /\ toClient' = toClient /\ server' = server
  BY DEF Handled, clientVars
<1>3. \/ a # None /\ Fits(call, a) /\ ~ Waiting(fd)'
      \/ /\ a = None /\ call.op = "lock" /\ answer' = answer
         /\ \A f \in Files : InLine(fd, f)' <=> f = call.file
  BY <1>1 DEF Fits, None
<1>4. Body(call, a) \in Seq({Content, EndOfFiles} \union Files)
      /\ (a = None => Body(call, a) = << >>)
  <2>1. a = None => Body(call, a) = << >>
    BY DEF Body, None
  <2>2. << >> \in Seq({Content, EndOfFiles} \union Files)
    OBVIOUS
  <2>3. CASE a = None
    BY <2>1, <2>2, <2>3
  <2>4. CASE a # None
    BY <1>3, <2>4, BodyShape
  <2> QED
    BY <2>1, <2>3, <2>4
<1>5. Settled(fd) \subseteq Fds /\ (a = None => Settled(fd) = {})
  <2>1. Settled(fd) \subseteq Fds
    BY DEF Settled
  <2>2. a = None => Settled(fd) = {}
    BY <1>3 DEF Settled
  <2> QED
    BY <2>1, <2>2
<1>6. opened' \in [Fds -> SUBSET Files]
  <2>1. Stored' \subseteq Files
    BY <1>1 DEF StoreOK
  <2> DEFINE mine == IF a.code # "OK" THEN opened[fd]
                     ELSE CASE call.op \in {"create", "openNew", "open"} ->
                                 opened[fd] \union {call.file}
                            [] call.op = "close" -> opened[fd] \ {call.file}
                            [] OTHER -> opened[fd]
  <2>2. opened' = [g \in Fds |-> (IF g = fd THEN mine ELSE opened[g]) \intersect Stored']
    BY <1>2 DEF OpenedAfter, Stored
  <2> HIDE DEF mine
  <2> QED
    BY <2>1, <2>2
<1>16. reopened' \in [Fds -> SUBSET Files]
  <2>1. Stored' \subseteq Files
    BY <1>1 DEF StoreOK
  <2>2. reopened' = [g \in Fds |-> (IF g = fd /\ OpenedTwice(fd, call)
                                     THEN reopened[g] \union {call.file}
                                     ELSE reopened[g]) \intersect Stored']
    BY <1>2 DEF ReopenedAfter, Stored
  <2> QED
    BY <2>1, <2>2
<1> HIDE DEF a
<1>7. worker'[fd] = (IF a = None THEN "none" ELSE "answered")
      /\ rest'[fd] = Body(call, a) /\ notifyList'[fd] = Settled(fd)
      /\ toServer'[fd] = << >> /\ toClient'[fd] = << >>
  BY <1>2 DEF IInv, TypeOK
<1>8. TypeOK'
  <2> DEFINE W == {"none", "tested", "forbidden", "discarding", "answered", "notifying"}
             R == Seq({Content, EndOfFiles} \union Files)
  <2>1. /\ worker \in [Fds -> W] /\ rest \in [Fds -> R]
        /\ (IF a = None THEN "none" ELSE "answered") \in W
    BY DEF IInv, TypeOK
  <2> HIDE DEF W, R
  <2>2. worker' \in [Fds -> W]
    BY <1>2, <2>1
  <2>3. rest' \in [Fds -> R]
    BY <1>2, <1>4, <2>1 DEF R
  <2>4. notifyList' \in [Fds \union {Closed} -> SUBSET Fds]
    BY <1>2, <1>5 DEF IInv, TypeOK
  <2>5. toServer' \in [Fds -> Seq(Calls \union Payloads)]
    BY DEF IInv, TypeOK
  <2> QED
    BY <1>1, <1>2, <1>6, <1>16, <2>2, <2>3, <2>4, <2>5 DEF IInv, TypeOK, W, R
<1>9. \A g \in Fds \ {fd} : Untouched(g)
  BY <1>2 DEF Untouched, IInv, TypeOK
<1>10. /\ \A g \in Fds \ {fd} : Talks(g)'
       /\ \A g \in Fds \ {fd} : \A f \in Files :
            InLine(g, f)' => InCall(g)' /\ Current(g)' = [op |-> "lock", file |-> f]
       /\ \A y, z \in Fds \union {Closed} : \A g \in Fds :
            g \in notifyList'[y] /\ g \in notifyList'[z] => y = z
       /\ \A y \in Fds \ {fd} : notifyList'[y] # {} =>
            worker'[y] \in {"answered", "notifying"}
       /\ ~ Told(fd)'
  <2>1. notifyList' = [notifyList EXCEPT ![fd] = notifyList[fd] \union Settled(fd)]
    BY <1>2
  <2> QED
    BY <1>1, <1>9, <2>1, Others
<1>11. InCall(fd)' /\ Current(fd)' = call /\ todo'[fd] # << >>
  BY <1>2 DEF InCall, Current
<1>12. Talks(fd)'
  <2>1. CASE a # None /\ Fits(call, a) /\ ~ Waiting(fd)'
    <3>1. Decided(fd)'
      BY <1>7, <1>10, <1>11, <2>1 DEF Decided, NotHeld, a
    <3> QED
      BY <1>11, <3>1 DEF Talks
  <2>2. CASE /\ a = None /\ call.op = "lock" /\ answer' = answer
             /\ \A f \in Files : InLine(fd, f)' <=> f = call.file
    <3>1. Waiting(fd)'
      BY <1>1, <2>2, WaitingIsThen DEF Calls
    <3>2. Parked(fd)'
      BY <1>4, <1>7, <1>10, <2>2, <3>1 DEF Parked, a
    <3> QED
      BY <1>11, <3>2 DEF Talks
  <2> QED
    BY <1>3, <2>1, <2>2
<1>13. Lines'
  <2> SUFFICES ASSUME NEW g \in Fds, NEW f \in Files, InLine(g, f)'
               PROVE  InCall(g)' /\ Current(g)' = [op |-> "lock", file |-> f]
    BY DEF Lines
  <2>1. CASE g # fd
    BY <1>10, <2>1
  <2>2. CASE g = fd
    <3>1. Waiting(fd)'
      BY <1>1, <2>2, WaitingIsThen
    <3>2. call.op = "lock" /\ f = call.file
      BY <1>3, <2>2, <3>1
    <3>3. call = [op |-> "lock", file |-> f]
      BY <3>2 DEF Calls
    <3> QED
      BY <1>11, <2>2, <3>3
  <2> QED
    BY <2>1, <2>2
<1>14. Lists'
  <2>1. \A y \in Fds : notifyList'[y] # {} => worker'[y] \in {"answered", "notifying"}
    <3>1. notifyList'[fd] # {} => worker'[fd] = "answered"
      BY <1>5, <1>7
    <3> QED
      BY <1>10, <3>1
  <2> QED
    BY <1>10, <2>1 DEF Lists
<1>15. DiesOnlyOfDesertion'
  BY <1>2 DEF DiesOnlyOfDesertion
<1> QED
  BY <1>1, <1>8, <1>10, <1>12, <1>13, <1>14, <1>15 DEF IInv

LEMMA ServeStep ==
  ASSUME IInv, server = "up", NEW fd \in Fds, Serve(fd)
  PROVE  IInv'
<1> DEFINE call == Current(fd)
<1>1. /\ InCall(fd) /\ Asked(fd) /\ call \in Calls /\ notifyList[fd] = {}
      /\ todo[fd] # << >> /\ Ready(fd) /\ Head(toServer[fd]) = call
      /\ toServer[fd] = Request(call)
  BY ServeFacts DEF Serve
<1>2. /\ Handle(fd, call) /\ Handled(fd, call)
      /\ toServer' = [toServer EXCEPT ![fd] =
           SubSeq(toServer[fd], Len(Request(call)) + 1, Len(toServer[fd]))]
      /\ UNCHANGED <<clientVars, toClient, server>>
  BY <1>1 DEF Serve
<1>3. SubSeq(toServer[fd], Len(Request(call)) + 1, Len(toServer[fd])) = << >>
  BY <1>1, RequestType
<1>4. toServer' = [toServer EXCEPT ![fd] = << >>]
  BY <1>2, <1>3
<1>5. Served(fd, call)
  BY <1>1, <1>2, HandleStep
<1>6. ~ Told(fd) /\ toClient[fd] = << >> /\ answer[fd] = None
  BY <1>1 DEF Asked, NotHeld, AtRest
<1> HIDE DEF call
<1> QED
  BY <1>1, <1>2, <1>4, <1>5, <1>6, HandledStep DEF call

LEMMA WriteTestedStep ==
  ASSUME IInv, server = "up", NEW fd \in Fds, WriteTested(fd)
  PROVE  IInv'
<1> DEFINE call == Current(fd)
<1>1. worker[fd] = "tested"
  BY DEF WriteTested
<1>2. InCall(fd) /\ Tested(fd) /\ call \in Calls /\ todo[fd] # << >>
  BY <1>1, CallFacts DEF Quiet, AtRest, Asked, Forbidden, Decided, Parked, Released, Sent
<1>3. /\ call.op = "write" /\ answer[fd] = None /\ ~ Told(fd) /\ ~ Waiting(fd)
      /\ toServer[fd] = <<PayloadOf(call)>> /\ toClient[fd] = << >>
  BY <1>2 DEF Tested, NotHeld
<1>4. Head(toServer[fd]) = PayloadOf(call) /\ Tail(toServer[fd]) = << >>
  <2> DEFINE p == PayloadOf(call)
  <2> HIDE DEF p
  <2>1. Head(<<p>>) = p /\ Tail(<<p>>) = << >>
    OBVIOUS
  <2> QED
    BY <1>3, <2>1 DEF p
<1>5. [op |-> "write", file |-> Head(toServer[fd]).file] = call /\ call.file \in Files
      /\ Head(toServer[fd]).file = call.file
  BY <1>2, <1>3, <1>4 DEF PayloadOf, Calls
<1>6. /\ WriteToFile(fd, call.file) /\ Handled(fd, call)
      /\ toServer' = [toServer EXCEPT ![fd] = << >>]
      /\ UNCHANGED <<clientVars, toClient, server>>
  BY <1>4, <1>5 DEF WriteTested
<1>7. Ready(fd)
  BY <1>3 DEF Ready, IInv, StoreWell, StoreOK
<1>8. Served(fd, call)
  BY <1>3, <1>5, <1>6, <1>7, WriteToFileStep
<1>9. notifyList[fd] = {}
  BY <1>1 DEF IInv, Lists
<1> HIDE DEF call
<1> QED
  BY <1>2, <1>3, <1>6, <1>8, <1>9, HandledStep DEF call

\* The end of a stream is only read of a client that was in no call.
LEMMA ExitFacts ==
  ASSUME IInv, NEW fd \in Fds, ServeExit(fd)
  PROVE  /\ worker[fd] = "none" /\ ~ Waiting(fd) /\ ~ Told(fd) /\ Quiet(fd) /\ ~ InCall(fd)
         /\ toServer[fd] = << >> /\ toClient[fd] = << >>
<1>1. worker[fd] = "none" /\ ~ Waiting(fd) /\ ~ Told(fd)
      /\ toServer[fd] = << >> /\ toClient[fd] = << >>
  BY DEF ServeExit, Watched, Told
<1>2. Quiet(fd) /\ ~ InCall(fd)
  <2>1. ~ Tested(fd) /\ ~ Forbidden(fd) /\ ~ Decided(fd) /\ ~ Parked(fd) /\ ~ Released(fd)
    BY <1>1 DEF Tested, Forbidden, Decided, Parked, Released
  <2>2. InCall(fd) => ~ Asked(fd)
    BY <1>1, CallFacts, RequestType DEF Asked, StreamIs
  <2>3. InCall(fd) => ~ Sent(fd)
    <3> SUFFICES ASSUME InCall(fd), Sent(fd) PROVE FALSE
      OBVIOUS
    <3>1. PICK a : \/ toClient[fd] = <<a.code>>
                   \/ toClient[fd] = <<a.code>> \o Body(Current(fd), a)
                      /\ Fits(Current(fd), a) /\ Current(fd) \in Calls
      BY CallFacts DEF Sent
    <3>2. CASE toClient[fd] = <<a.code>>
      <4> DEFINE c == a.code
      <4> HIDE DEF c
      <4>1. <<c>> # << >>
        OBVIOUS
      <4> QED
        BY <1>1, <3>2, <4>1 DEF c
    <3>3. CASE toClient[fd] = <<a.code>> \o Body(Current(fd), a)
               /\ Fits(Current(fd), a) /\ Current(fd) \in Calls
      <4> DEFINE b == Body(Current(fd), a)
                 T == {Content, EndOfFiles, a.code} \union Files
      <4>1. b \in Seq({Content, EndOfFiles} \union Files)
        BY <3>3, BodyShape
      <4>2. b \in Seq(T)
        BY <4>1, SeqWider
      <4> HIDE DEF b
      <4>3. <<a.code>> \in Seq(T) /\ Len(<<a.code>>) = 1
        OBVIOUS
      <4> HIDE DEF T
      <4>4. Len(<<a.code>> \o b) = 1 + Len(b) /\ Len(b) \in Nat
        BY <4>2, <4>3, ConcatProperties, LenProperties
      <4> QED
        BY <1>1, <3>3, <4>4 DEF b
    <3> QED
      BY <3>1, <3>2, <3>3
  <2> QED
    BY <2>1, <2>2, <2>3, CallFacts
<1> QED
  BY <1>1, <1>2

LEMMA ServeExitStep ==
  ASSUME IInv, server = "up", NEW fd \in Fds, ServeExit(fd)
  PROVE  IInv'
<1>1. worker[fd] = "none" /\ ~ Waiting(fd) /\ ~ Told(fd)
      /\ toServer[fd] = << >> /\ toClient[fd] = << >>
  BY ExitFacts
<1>2. Quiet(fd)
  BY ExitFacts
<1>3. /\ ClientExit(fd)
      /\ opened' = [opened EXCEPT ![fd] = {}]
      /\ reopened' = [g \in Fds |-> reopened[g] \intersect Stored']
      /\ client' = [client EXCEPT ![fd] = "none"]
      /\ notifyList' = [notifyList EXCEPT ![Closed] = notifyList[Closed] \union Settled(fd)]
      /\ todo' = todo /\ received' = received /\ commandsLeft' = commandsLeft
      /\ toServer' = toServer /\ toClient' = toClient
      /\ worker' = worker /\ rest' = rest /\ server' = server
  BY DEF ServeExit, streams, Stored
<1>4. notifyList[fd] = {} /\ Ready(fd)
  BY <1>1, <1>2 DEF IInv, Lists, Ready, StoreWell, StoreOK, Quiet, AtRest
<1>5. /\ HandlerRule(fd) /\ ~ Waiting(fd)' /\ answer' \in [Fds -> Answers]
      /\ answer'[fd] = None /\ StoreWell'
  BY <1>3, <1>4, ClientExitStep DEF HandlerRule
<1>6. Closed \notin Fds
  BY RightsAssumption DEF Closed, Nobody
<1>7. \A g \in Fds \ {fd} : Untouched(g)
  BY <1>3 DEF Untouched, IInv, TypeOK
<1>8. /\ \A g \in Fds \ {fd} : Talks(g)'
      /\ \A g \in Fds \ {fd} : \A f \in Files :
           InLine(g, f)' => InCall(g)' /\ Current(g)' = [op |-> "lock", file |-> f]
      /\ \A y, z \in Fds \union {Closed} : \A g \in Fds :
           g \in notifyList'[y] /\ g \in notifyList'[z] => y = z
      /\ \A y \in Fds \ {fd} : notifyList'[y] # {} =>
           worker'[y] \in {"answered", "notifying"}
      /\ notifyList'[fd] = {}
      /\ ~ Told(fd)'
  <2>1. Closed \in {fd, Closed} /\ Closed # fd
    BY <1>6
  <2> QED
    BY <1>1, <1>3, <1>4, <1>5, <1>7, <2>1, Others
<1>9. TypeOK'
  <2>1. Settled(fd) \subseteq Fds
    BY DEF Settled
  <2>2. notifyList' \in [Fds \union {Closed} -> SUBSET Fds]
    BY <1>3, <2>1 DEF IInv, TypeOK
  <2>3. reopened' \in [Fds -> SUBSET Files]
    BY <1>3 DEF IInv, TypeOK
  <2> QED
    BY <1>3, <1>5, <2>2, <2>3 DEF IInv, TypeOK, StoreWell
<1>10. Talks(fd)'
  <2>1. client'[fd] = "none"
    BY <1>3 DEF IInv, TypeOK
  <2> QED
    BY <1>2, <1>3, <1>5, <1>8, <2>1 DEF Talks, InCall, Quiet, AtRest, NotHeld, StreamIs
<1>11. Lines'
  <2> SUFFICES ASSUME NEW g \in Fds, NEW f \in Files, InLine(g, f)'
               PROVE  InCall(g)' /\ Current(g)' = [op |-> "lock", file |-> f]
    BY DEF Lines
  <2>1. g # fd
    BY <1>5, WaitingIsThen
  <2> QED
    BY <1>8, <2>1
<1>12. Lists'
  BY <1>8 DEF Lists
<1>13. DiesOnlyOfDesertion'
  BY <1>3 DEF DiesOnlyOfDesertion
<1> QED
  BY <1>5, <1>8, <1>9, <1>10, <1>11, <1>12, <1>13 DEF IInv

\* A client that waited is told, by the worker of x or in the name of a closed one.
LEMMA NotifyStep ==
  ASSUME IInv, server = "up", NEW x \in Fds \union {Closed}, NEW g \in Fds, Notify(x, g)
  PROVE  /\ IInv'
         /\ InCall(g) /\ Released(g) /\ InCall(g)' /\ Sent(g)'
         /\ \A a : a = answer[g] => SentAs(g, a)'
<1> DEFINE a == answer[g]
           N == Fds \union {Closed}
<1>1. /\ g \in notifyList[x]
      /\ toClient' = [toClient EXCEPT ![g] = Append(toClient[g], a.code)]
      /\ answer' = [answer EXCEPT ![g] = None]
      /\ notifyList' = [notifyList EXCEPT ![x] = notifyList[x] \ {g}]
      /\ store' = store /\ opened' = opened /\ reopened' = reopened /\ client' = client /\ todo' = todo
      /\ received' = received /\ commandsLeft' = commandsLeft /\ toServer' = toServer
      /\ worker' = worker /\ rest' = rest /\ server' = server
  BY DEF Notify, clientVars
<1>2. Told(g)
  BY <1>1 DEF Told
<1>3. Released(g) /\ InCall(g) /\ todo[g] # << >>
  BY <1>2, CallFacts DEF Quiet, NotHeld, Asked, Tested, Forbidden, Decided, Parked, Sent
<1>4. /\ worker[g] = "none" /\ rest[g] = << >> /\ a \in {Ok({}), Refused}
      /\ ~ Waiting(g) /\ Current(g).op = "lock"
      /\ toServer[g] = << >> /\ toClient[g] = << >>
  BY <1>3 DEF Released
<1>5. Fits(Current(g), a) /\ Body(Current(g), a) = << >> /\ a.code \in {"OK", "refused"}
  <2>1. Fits(Current(g), a)
    BY <1>4, AnswersAre
  <2>2. ~ HasBody(Current(g)) /\ ~ (a.code = "OK" /\ Current(g).op = "read")
    BY <1>4 DEF HasBody
  <2>3. Body(Current(g), a) = << >>
    BY <2>2 DEF Body
  <2>4. a.code \in {"OK", "refused"}
    BY <1>4 DEF Ok, Refused
  <2> QED
    BY <2>1, <2>3, <2>4
<1>6. /\ notifyList \in [N -> SUBSET Fds] /\ notifyList'[x] = notifyList[x] \ {g}
      /\ \A y \in N : y # x => notifyList'[y] = notifyList[y]
  BY <1>1 DEF IInv, TypeOK
<1> HIDE DEF N
<1>7. \A h \in Fds : Told(h)' <=> Told(h) /\ h # g
  <2>1. \A h : Told(h)' <=> \E y \in N : h \in notifyList'[y]
    BY DEF Told, N
  <2>2. \A h : Told(h) <=> \E y \in N : h \in notifyList[y]
    BY DEF Told, N
  <2>3. \A y \in N : g \in notifyList[y] => y = x
    BY <1>1 DEF IInv, Lists, N
  <2>4. ~ Told(g)'
    BY <1>6, <2>1, <2>3
  <2>5. ASSUME NEW h \in Fds, h # g PROVE Told(h)' <=> Told(h)
    BY <1>6, <2>1, <2>2, <2>5
  <2> QED
    BY <2>4, <2>5
<1>8. /\ \A h : Waiting(h)' <=> Waiting(h)
      /\ \A h : \A f \in Files : InLine(h, f)' <=> InLine(h, f)
      /\ Stored' = Stored
  BY <1>1 DEF Waiting, InLine, Stored
<1>9. \A h \in Fds \ {g} : Untouched(h) /\ answer'[h] = answer[h]
  BY <1>1 DEF Untouched, IInv, TypeOK, StoreOK
<1> HIDE DEF a
<1>10. TypeOK'
  <2> DEFINE T == Seq({"OK", "refused", Content, EndOfFiles} \union Files)
  <2>1. toClient \in [Fds -> T] /\ Append(toClient[g], a.code) \in T
    BY <1>4, <1>5 DEF IInv, TypeOK
  <2> HIDE DEF T
  <2>2. toClient' \in [Fds -> T]
    BY <1>1, <2>1
  <2>3. answer' \in [Fds -> Answers]
    BY <1>1, AnswersAre DEF IInv, TypeOK, StoreOK
  <2>4. notifyList' \in [Fds \union {Closed} -> SUBSET Fds]
    BY <1>1 DEF IInv, TypeOK
  <2> QED
    BY <1>1, <1>8, <2>2, <2>3, <2>4 DEF IInv, TypeOK, StoreOK, T
<1>11. Talks(g)' /\ InCall(g)' /\ Sent(g)' /\ \A b : b = a => SentAs(g, b)'
  <2>1. InCall(g)' /\ Current(g)' = Current(g) /\ todo'[g] # << >>
    BY <1>1, <1>3 DEF InCall, Current
  <2>2. /\ toClient'[g] = <<a.code>> /\ rest'[g] = Body(Current(g), a)
        /\ rest'[g] = << >> /\ worker'[g] = "none" /\ toServer'[g] = << >>
        /\ answer'[g] = None /\ NotHeld(g)'
    BY <1>1, <1>4, <1>5, <1>7, <1>8 DEF NotHeld, IInv, TypeOK, StoreOK
  <2>3. toClient'[g] = <<a.code>> \o Body(Current(g), a)
    BY <1>5, <2>2
  <2>4. Sent(g)'
    BY <1>5, <2>1, <2>2, <2>3 DEF Sent, Fits, StreamIs
  <2>5. \A b : b = a => SentAs(g, b)'
    BY <1>5, <2>1, <2>2, <2>3 DEF SentAs
  <2> QED
    BY <2>1, <2>4, <2>5 DEF Talks
<1>12. ASSUME NEW h \in Fds PROVE Talks(h)'
  <2>1. CASE h # g
    BY <1>7, <1>8, <1>9, <2>1, TalksOn DEF IInv
  <2> QED
    BY <1>11, <2>1
<1>13. Lines'
  BY <1>1, <1>8 DEF IInv, Lines, InCall, Current
<1>14. Lists'
  <2>1. \A y \in N : notifyList'[y] \subseteq notifyList[y]
    BY <1>6
  <2>2. /\ \A y, z \in N : \A h \in Fds :
             h \in notifyList[y] /\ h \in notifyList[z] => y = z
        /\ \A y \in Fds : notifyList[y] # {} => worker[y] \in {"answered", "notifying"}
    BY DEF IInv, Lists, N
  <2>3. /\ \A y, z \in N : \A h \in Fds :
             h \in notifyList'[y] /\ h \in notifyList'[z] => y = z
        /\ \A y \in Fds : notifyList'[y] # {} => worker[y] \in {"answered", "notifying"}
    <3>1. \A y \in Fds : y \in N
      BY DEF N
    <3> QED
      BY <2>1, <2>2, <3>1
  <2> QED
    BY <1>1, <2>3 DEF Lists, N
<1>15. DiesOnlyOfDesertion' /\ StoreWell'
  BY <1>1, <1>8, <1>10 DEF DiesOnlyOfDesertion, StoreWell, IInv, TypeOK
<1> QED
  BY <1>3, <1>10, <1>11, <1>12, <1>13, <1>14, <1>15 DEF IInv, a

\* The server dies of a client that has left a call, never of one that was in none.
LEMMA DieStep ==
  ASSUME IInv, server = "up", NEW fd \in Fds, Die(fd)
  PROVE  IInv'
<1>1. client[fd] \in Lost
  BY DEF Die, WriteFails, ReadFails
<1>2. ~ Quiet(fd)
  <2>1. CASE ReadFails(fd)
    BY <2>1 DEF ReadFails, Quiet
  <2>2. CASE WriteFails(fd)
    BY <2>2 DEF WriteFails, Quiet, AtRest, NotHeld, Told
  <2> QED
    BY <2>1, <2>2 DEF Die
<1>3. client[fd] = "deserted"
  BY <1>1, <1>2, CallFacts DEF InCall, Lost
<1>4. /\ store' = store /\ answer' = answer /\ opened' = opened /\ reopened' = reopened /\ client' = client
      /\ todo' = todo /\ received' = received /\ commandsLeft' = commandsLeft
      /\ toServer' = toServer /\ toClient' = toClient
      /\ worker' = worker /\ notifyList' = notifyList /\ rest' = rest /\ server' = "dead"
  BY DEF Die, storeVars, clientVars, streams, workerVars
<1>5. TypeOK' /\ DiesOnlyOfDesertion'
  BY <1>3, <1>4 DEF IInv, TypeOK, StoreOK, Stored, DiesOnlyOfDesertion
<1>6. \A g \in Fds : Untouched(g) /\ answer'[g] = answer[g]
  BY <1>4 DEF Untouched
<1>7. (Waiting(fd)' <=> Waiting(fd)) /\ (Told(fd)' <=> Told(fd))
      /\ (InCall(fd)' <=> InCall(fd)) /\ Current(fd)' = Current(fd)
  BY <1>4 DEF Waiting, Told, Stored, InCall, Current
<1>8. Talks(fd)'
  BY <1>6, <1>7, TalksOn DEF IInv
<1>9. notifyList[fd] = {} \/ worker'[fd] \in {"answered", "notifying"}
  BY <1>4 DEF IInv, Lists
<1>10. InCall(fd)
  BY <1>3 DEF InCall
<1> QED
  BY <1>4, <1>5, <1>6, <1>7, <1>8, <1>9, <1>10, OwnStep

-----------------------------------------------------------------------------
LEMMA InitInv ==
  ASSUME Init PROVE IInv
<1>1. /\ store = << >> /\ answer = [fd \in Fds |-> None]
      /\ client = [fd \in Fds |-> "none"] /\ todo = [fd \in Fds |-> << >>]
      /\ received = [fd \in Fds |-> {}] /\ toServer = [fd \in Fds |-> << >>]
      /\ toClient = [fd \in Fds |-> << >>] /\ worker = [fd \in Fds |-> "none"]
      /\ notifyList = [fd \in Fds \union {Closed} |-> {}]
      /\ rest = [fd \in Fds |-> << >>] /\ server = "up" /\ commandsLeft = MaxCommands
      /\ opened = [fd \in Fds |-> {}] /\ reopened = [fd \in Fds |-> {}]
  BY DEF Init, StoreInit
<1>2. Stored = {} /\ MaxFileNum \in Nat /\ MaxCommands \in Nat
  BY <1>1, RightsAssumption, SessionAssumption DEF Stored
<1>3. IsFiniteSet(Stored) /\ Cardinality(Stored) = 0
  BY <1>2, FS_EmptySet
<1>4. StoreWell
  BY <1>1, <1>2, <1>3, AnswersAre DEF StoreWell, StoreOK
<1>5. TypeOK
  <2>1. /\ todo \in [Fds -> Seq(Calls)] /\ toServer \in [Fds -> Seq(Calls \union Payloads)]
    BY <1>1
  <2>2. /\ toClient \in [Fds -> Seq({"OK", "refused", Content, EndOfFiles} \union Files)]
        /\ rest \in [Fds -> Seq({Content, EndOfFiles} \union Files)]
    BY <1>1
  <2>3. client \in [Fds -> {"none"} \union Talking \union Lost]
    BY <1>1
  <2> QED
    BY <1>1, <1>2, <1>4, <2>1, <2>2, <2>3 DEF TypeOK, StoreWell
<1>6. \A g : ~ Waiting(g) /\ (\A f : ~ InLine(g, f)) /\ ~ Told(g)
  BY <1>1, <1>2 DEF Waiting, InLine, Told
<1>7. \A g \in Fds : Talks(g)
  BY <1>1, <1>6 DEF Talks, InCall, Quiet, AtRest, NotHeld, StreamIs
<1>8. Lists
  BY <1>1 DEF Lists
<1> QED
  BY <1>1, <1>4, <1>5, <1>6, <1>7, <1>8 DEF IInv, Lines, DiesOnlyOfDesertion

LEMMA StepInv ==
  ASSUME IInv, [Next]_vars PROVE IInv'
<1>1. CASE UNCHANGED vars
  <2>1. /\ store' = store /\ answer' = answer /\ opened' = opened /\ reopened' = reopened /\ client' = client
        /\ todo' = todo /\ received' = received /\ commandsLeft' = commandsLeft
        /\ toServer' = toServer /\ toClient' = toClient
        /\ worker' = worker /\ notifyList' = notifyList /\ rest' = rest /\ server' = server
    BY <1>1 DEF vars, storeVars, clientVars, streams, workerVars
  <2>2. TypeOK' /\ StoreWell' /\ DiesOnlyOfDesertion'
    BY <2>1 DEF IInv, TypeOK, StoreOK, StoreWell, Stored, DiesOnlyOfDesertion
  <2>3. Lines'
    BY <2>1 DEF IInv, Lines, InLine, InCall, Current, Stored
  <2>4. Lists'
    BY <2>1 DEF IInv, Lists
  <2>5. ASSUME NEW g \in Fds PROVE Talks(g)'
    <3>1. Untouched(g) /\ (Waiting(g)' <=> Waiting(g)) /\ (Told(g)' <=> Told(g))
      BY <2>1 DEF Untouched, Waiting, Told, Stored
    <3> QED
      BY <2>1, <3>1, TalksOn DEF IInv
  <2> QED
    BY <2>2, <2>3, <2>4, <2>5 DEF IInv
<1>2. CASE Next
  <2>1. server = "up"
    BY <1>2 DEF Next
  <2>2. CASE \E g \in Fds : Notify(Closed, g)
    BY <2>1, <2>2, NotifyStep
  <2>3. CASE \E fd \in Fds : Connect(fd) \/ Desert(fd) \/ ClientStep(fd)
    BY <2>1, <2>3, ConnectStep, DesertStep, ContinueStep, CloseConnectionStep, ReadStep
       DEF ClientStep
  <2>4. CASE \E fd \in Fds : WorkerStep(fd)
    <3>1. PICK fd \in Fds : WorkerStep(fd)
      BY <2>4
    <3>2. CASE \E g \in Fds : Notify(fd, g)
      BY <2>1, <3>2, NotifyStep
    <3> QED
      BY <2>1, <3>1, <3>2, ServeStep, ServeWriteStep, ForbidStep, ThrowAwayStep,
         WriteTestedStep, RespondStep, FinishStep, ServeExitStep, DieStep DEF WorkerStep
  <2> QED
    BY <1>2, <2>2, <2>3, <2>4 DEF Next
<1> QED
  BY <1>1, <1>2

LEMMA Invariant == Spec => []IInv
<1>1. Init => IInv
  BY InitInv
<1>2. IInv /\ [Next]_vars => IInv'
  BY StepInv
<1> QED
  BY <1>1, <1>2, PTL DEF Spec

\* Every variable keeps its type, and the storage its limit of files.
THEOREM Typed == Spec => []TypeOK
<1>1. IInv => TypeOK
  BY DEF IInv
<1> QED
  BY <1>1, Invariant, PTL

\* Between two calls nothing is left in the streams of a connection but the payload of
\* a writeFile that was forbidden, while its worker throws it away; and a worker that
\* takes up a connection finds the request of the call its client is in.
THEOREM KeepsInStep == Spec => []InStep
<1>1. IInv => InStep
  <2> SUFFICES ASSUME IInv, NEW fd \in Fds
               PROVE  /\ ~ InCall(fd) =>
                           /\ toClient[fd] = << >>
                           /\ IF worker[fd] = "discarding"
                                THEN \E p \in Payloads : toServer[fd] = <<p>>
                                ELSE toServer[fd] = << >>
                      /\ Watched(fd) /\ toServer[fd] # << >> =>
                           /\ InCall(fd) /\ toServer[fd] = Request(Head(todo[fd]))
                           /\ toClient[fd] = << >>
    BY DEF InStep
  <2>1. ASSUME ~ InCall(fd)
        PROVE  /\ toClient[fd] = << >>
               /\ IF worker[fd] = "discarding"
                    THEN \E p \in Payloads : toServer[fd] = <<p>>
                    ELSE toServer[fd] = << >>
    <3>1. StreamIs(fd, << >>) /\ toClient[fd] = << >>
      BY <2>1, CallFacts DEF Quiet
    <3>2. \A p \in Payloads : <<p>> \o << >> = <<p>>
      BY PayloadFirst
    <3> QED
      BY <3>1, <3>2 DEF StreamIs
  <2>2. Watched(fd) /\ toServer[fd] # << >> =>
          /\ InCall(fd) /\ toServer[fd] = Request(Head(todo[fd]))
          /\ toClient[fd] = << >>
    BY ServeFacts DEF Asked, Current
  <2> QED
    BY <2>1, <2>2
<1> QED
  BY <1>1, Invariant, PTL

\* The server is brought down by a program that leaves a call, and by no other.
THEOREM OnlyDesertionKills == Spec => []DiesOnlyOfDesertion
<1>1. IInv => DiesOnlyOfDesertion
  BY DEF IInv
<1> QED
  BY <1>1, Invariant, PTL


-----------------------------------------------------------------------------
\* Who has a file open and locked after a handler

Opens(call, a) == a.code = "OK" /\ call.op \in {"create", "openNew", "open"}
Closes(call, a) == a.code = "OK" /\ call.op = "close"

\* A call of fd, answered a, changes of file f who has it open only by what it is
\* named for, gives the lock to its client or one in line, and takes the right to
\* the first write of another who has the lock only if it is a close.
FileRule(fd, call, a, f) ==
  /\ ~ (f = call.file /\ (Opens(call, a) \/ Closes(call, a))) =>
       f \in Stored /\ store'[f].openDescriptors = store[f].openDescriptors
  /\ f = call.file /\ Opens(call, a) =>
       \/ /\ f \in Stored /\ call.op = "open"
          /\ store'[f].openDescriptors = Append(store[f].openDescriptors, fd)
       \/ f \notin Stored /\ store'[f].openDescriptors = <<fd>>
  /\ f = call.file /\ Closes(call, a) =>
       f \in Stored /\ store'[f].openDescriptors = RemoveFirst(store[f].openDescriptors, fd)
  /\ \/ store'[f].lockedBy \in {Nobody, fd}
     \/ /\ f \in Stored
        /\ \/ store'[f].lockedBy = store[f].lockedBy
           \/ InLine(store'[f].lockedBy, f)
  /\ f \in Stored /\ store[f].lockedBy \notin {Nobody, fd} =>
       \/ store'[f].canDoFirstWrite = store[f].canDoFirstWrite
       \/ call = [op |-> "close", file |-> f]

RightsRule(fd, call) == \A f \in Stored' : FileRule(fd, call, answer'[fd], f)

LEMMA SameFile ==
  ASSUME NEW fd, NEW call, NEW a, NEW f \in Stored, store'[f] = store[f],
         f # call.file \/ ~ (Opens(call, a) \/ Closes(call, a))
  PROVE  FileRule(fd, call, a, f)
BY DEF FileRule, Opens, Closes

LEMMA RefuseRights ==
  ASSUME NEW fd \in Fds, NEW call, answer \in [Fds -> Answers], Refuse(fd)
  PROVE  RightsRule(fd, call)
<1>1. answer'[fd] = Refused /\ store' = store /\ Stored' = Stored
  BY AnswersAre, Settles DEF Refuse, Stored
<1>2. ~ Opens(call, answer'[fd]) /\ ~ Closes(call, answer'[fd])
  BY <1>1 DEF Opens, Closes, Refused
<1>3. \A f \in Stored' : FileRule(fd, call, answer'[fd], f)
  BY <1>1, <1>2, SameFile
<1> QED
  BY <1>3 DEF RightsRule

\* A handler that answers OK changes one file, f, and perhaps destroys others.
LEMMA OneFileRights ==
  ASSUME NEW fd, NEW call, NEW f, NEW a, answer'[fd] = a,
         \A g \in Stored' : g # f => g \in Stored /\ store'[g] = store[g],
         Opens(call, a) \/ Closes(call, a) => f = call.file,
         f \in Stored' => FileRule(fd, call, a, f)
  PROVE  RightsRule(fd, call)
<1>1. ASSUME NEW g \in Stored' PROVE FileRule(fd, call, a, g)
  <2>1. CASE g # f
    <3>1. g # call.file \/ ~ (Opens(call, a) \/ Closes(call, a))
      BY <2>1
    <3> QED
      BY <2>1, <3>1, SameFile
  <2> QED
    BY <2>1
<1> QED
  BY <1>1 DEF RightsRule

LEMMA CreateRights ==
  ASSUME NEW fd \in Fds, NEW call, NEW lock \in BOOLEAN, answer \in [Fds -> Answers],
         call.op \in {"create", "openNew"}, CreateFile(fd, call.file, lock)
  PROVE  RightsRule(fd, call)
<1> DEFINE f == call.file
<1>1. PICK D \in Victims :
        /\ store' = [g \in (Stored \ D) \union {f} |->
                       IF g = f THEN NewFile(fd, lock) ELSE store[g]]
        /\ AcceptAndDestroy(fd, {}, D)
  BY DEF CreateFile
<1>2. f \notin Stored
  BY DEF CreateFile
<1>3. answer'[fd] = Ok({})
  BY <1>1, AnswersAre, Settles DEF AcceptAndDestroy
<1>4. Stored' = (Stored \ D) \union {f} /\ store'[f] = NewFile(fd, lock)
      /\ \A g \in Stored' : g # f => g \in Stored /\ store'[g] = store[g]
  BY <1>1 DEF Stored
<1>5. store'[f].openDescriptors = <<fd>> /\ store'[f].lockedBy \in {Nobody, fd}
  BY <1>4 DEF NewFile
<1>6. Opens(call, Ok({})) /\ ~ Closes(call, Ok({}))
  BY DEF Opens, Closes, Ok
<1> HIDE DEF f
<1>7. FileRule(fd, call, Ok({}), f)
  BY <1>2, <1>5, <1>6 DEF FileRule, f
<1> QED
  BY <1>3, <1>4, <1>7, OneFileRights DEF f

LEMMA OpenRights ==
  ASSUME NEW fd \in Fds, NEW call, StoreWell, answer \in [Fds -> Answers],
         call.op = "open", OpenExisting(fd, call.file)
  PROVE  RightsRule(fd, call)
<1> DEFINE f == call.file
           od == Append(store[f].openDescriptors, fd)
           file == [store[f] EXCEPT !.openDescriptors = od]
<1>1. f \in Stored /\ store' = [store EXCEPT ![f] = file] /\ answer'[fd] = Ok({})
  BY AnswersAre, Settles DEF OpenExisting, Accept
<1>2. store[f] \in FileNode
  BY <1>1 DEF StoreWell, StoreOK
<1>3. /\ file.openDescriptors = od /\ file.lockedBy = store[f].lockedBy
      /\ file.canDoFirstWrite = store[f].canDoFirstWrite
  BY <1>2 DEF FileNode
<1> HIDE DEF file, od
<1>4. /\ Stored' = Stored /\ store'[f] = file
      /\ \A g \in Stored' : g # f => g \in Stored /\ store'[g] = store[g]
  BY <1>1 DEF Stored
<1>5. Opens(call, Ok({})) /\ ~ Closes(call, Ok({}))
  BY DEF Opens, Closes, Ok
<1>6. FileRule(fd, call, Ok({}), f)
  BY <1>1, <1>3, <1>4, <1>5 DEF FileRule, od
<1> QED
  BY <1>1, <1>4, <1>6, OneFileRights

LEMMA CloseRights ==
  ASSUME NEW fd \in Fds, NEW call \in Calls, StoreWell, answer \in [Fds -> Answers],
         call.op = "close", call.file \in Stored, CloseFile(fd, call.file)
  PROVE  RightsRule(fd, call)
<1> DEFINE f == call.file
           od == RemoveFirst(store[f].openDescriptors, fd)
           file == [store[f] EXCEPT !.openDescriptors = od, !.canDoFirstWrite = Nobody]
<1>1. f \in Stored /\ answer'[fd] = Ok({})
      /\ store' = [store EXCEPT ![f].openDescriptors = od, ![f].canDoFirstWrite = Nobody]
  BY AnswersAre, Settles DEF CloseFile, Accept
<1>2. store[f] \in FileNode /\ store' = [store EXCEPT ![f] = file]
  BY <1>1 DEF StoreWell, StoreOK, Stored
<1>3. /\ file.openDescriptors = od /\ file.lockedBy = store[f].lockedBy
  BY <1>2 DEF FileNode
<1> HIDE DEF file, od
<1>4. /\ Stored' = Stored /\ store'[f] = file
      /\ \A g \in Stored' : g # f => g \in Stored /\ store'[g] = store[g]
  BY <1>1, <1>2 DEF Stored
<1>5. ~ Opens(call, Ok({})) /\ Closes(call, Ok({}))
  BY DEF Opens, Closes, Ok
<1>6. call = [op |-> "close", file |-> f]
  BY DEF Calls
<1>7. FileRule(fd, call, Ok({}), f)
  BY <1>1, <1>3, <1>4, <1>5, <1>6 DEF FileRule, od
<1> QED
  BY <1>1, <1>4, <1>7, OneFileRights

\* Reading, writing, locking, unlocking: nothing is opened or closed.
LEMMA UseRights ==
  ASSUME NEW fd, NEW call, NEW f, call.op \notin {"create", "openNew", "open", "close"},
         \A g \in Stored' : g # f => g \in Stored /\ store'[g] = store[g],
         f \in Stored' =>
           /\ f \in Stored /\ store'[f].openDescriptors = store[f].openDescriptors
           /\ \/ store'[f].lockedBy \in {Nobody, fd, store[f].lockedBy}
              \/ InLine(store'[f].lockedBy, f)
           /\ store[f].lockedBy \notin {Nobody, fd} =>
                store'[f].canDoFirstWrite = store[f].canDoFirstWrite
  PROVE  RightsRule(fd, call)
<1> DEFINE a == answer'[fd]
<1>1. ~ Opens(call, a) /\ ~ Closes(call, a)
  BY DEF Opens, Closes
<1>2. f \in Stored' => FileRule(fd, call, a, f)
  BY <1>1 DEF FileRule
<1> QED
  BY <1>1, <1>2, OneFileRights

LEMMA KeepRights ==
  ASSUME NEW fd, NEW call, NEW f, call.op \in {"read", "write", "append", "lock"}, f \in Stored,
         \A g \in Stored' : g # f => g \in Stored /\ store'[g] = store[g],
         store'[f].openDescriptors = store[f].openDescriptors,
         store'[f].lockedBy \in {fd, store[f].lockedBy},
         \/ store[f].lockedBy \in {Nobody, fd}
         \/ store'[f].canDoFirstWrite = store[f].canDoFirstWrite
  PROVE  RightsRule(fd, call)
<1>1. call.op \notin {"create", "openNew", "open", "close"}
  OBVIOUS
<1>2. \/ store'[f].lockedBy \in {Nobody, fd, store[f].lockedBy}
      \/ InLine(store'[f].lockedBy, f)
  OBVIOUS
<1> QED
  BY <1>1, <1>2, UseRights

LEMMA HandleRights ==
  ASSUME NEW fd \in Fds, NEW call \in Calls, StoreWell, answer \in [Fds -> Answers],
         Handle(fd, call) \/ (call.op = "write" /\ WriteToFile(fd, call.file))
  PROVE  RightsRule(fd, call)
<1> DEFINE f == call.file
<1>1. CASE Refuse(fd)
  BY <1>1, RefuseRights
<1>2. CASE call.op \in {"create", "openNew", "open"} /\ ~ Refuse(fd)
  <2>1. \/ call.op \in {"create", "openNew"} /\ \E lock \in BOOLEAN : CreateFile(fd, f, lock)
        \/ call.op = "open" /\ OpenExisting(fd, f)
    BY <1>2 DEF Handle, OpenFile
  <2> QED
    BY <2>1, CreateRights, OpenRights
<1>3. CASE call.op = "read" /\ ~ Refuse(fd)
  <2>1. MayUse(fd, f) /\ store' = [store EXCEPT ![f].canDoFirstWrite = Nobody]
    BY <1>3 DEF Handle, ReadFile
  <2>2. f \in Stored /\ store[f].lockedBy \in {Nobody, fd} /\ store[f] \in FileNode
    BY <2>1 DEF MayUse, StoreWell, StoreOK
  <2>3. /\ Stored' = Stored /\ \A g \in Stored : g # f => store'[g] = store[g]
        /\ store'[f] = [store[f] EXCEPT !.canDoFirstWrite = Nobody]
    BY <2>1, <2>2 DEF Stored
  <2>4. /\ store'[f].openDescriptors = store[f].openDescriptors
        /\ store'[f].lockedBy = store[f].lockedBy
    BY <2>2, <2>3 DEF FileNode
  <2> HIDE DEF f
  <2>7. call.op \in {"read", "write", "append", "lock"} /\ f \in Stored
    BY <1>3, <2>2, <2>3, <2>4
  <2>8. \A g \in Stored' : g # f => g \in Stored /\ store'[g] = store[g]
    BY <1>3, <2>2, <2>3, <2>4
  <2>9. /\ store'[f].openDescriptors = store[f].openDescriptors
        /\ store'[f].lockedBy \in {fd, store[f].lockedBy}
        /\ \/ store[f].lockedBy \in {Nobody, fd}
           \/ store'[f].canDoFirstWrite = store[f].canDoFirstWrite
    BY <1>3, <2>2, <2>3, <2>4
  <2> QED
    BY <2>7, <2>8, <2>9, KeepRights
<1>4. CASE call.op = "readN" /\ ~ Refuse(fd)
  <2>1. store' = store /\ Stored' = Stored
    BY <1>4 DEF Handle, ReadNFiles, Stored
  <2> HIDE DEF f
  <2> QED
    BY <1>4, <2>1, UseRights
<1>5. CASE call.op \in {"write", "append"} /\ ~ Refuse(fd)
  <2>1. MayUse(fd, f) /\ WriteToFile(fd, f)
    BY <1>5 DEF Handle, WriteToFile
  <2>2. PICK D \in SUBSET (Stored \ {f}) :
          store' = [Without(D) EXCEPT ![f].canDoFirstWrite = Nobody]
    BY <1>5, <2>1 DEF WriteToFile
  <2>3. f \in Stored /\ store[f].lockedBy \in {Nobody, fd} /\ store[f] \in FileNode
    BY <2>1 DEF MayUse, StoreWell, StoreOK
  <2>4. /\ Stored' = Stored \ D /\ \A g \in Stored' : g # f => store'[g] = store[g]
        /\ store'[f] = [store[f] EXCEPT !.canDoFirstWrite = Nobody]
    BY <2>2, <2>3 DEF Stored, Without, Restrict
  <2>5. /\ store'[f].openDescriptors = store[f].openDescriptors
        /\ store'[f].lockedBy = store[f].lockedBy
    BY <2>3, <2>4 DEF FileNode
  <2> HIDE DEF f
  <2>7. call.op \in {"read", "write", "append", "lock"} /\ f \in Stored
    BY <1>5, <2>3, <2>4, <2>5
  <2>8. \A g \in Stored' : g # f => g \in Stored /\ store'[g] = store[g]
    BY <1>5, <2>3, <2>4, <2>5
  <2>9. /\ store'[f].openDescriptors = store[f].openDescriptors
        /\ store'[f].lockedBy \in {fd, store[f].lockedBy}
        /\ \/ store[f].lockedBy \in {Nobody, fd}
           \/ store'[f].canDoFirstWrite = store[f].canDoFirstWrite
    BY <1>5, <2>3, <2>4, <2>5
  <2> QED
    BY <2>7, <2>8, <2>9, KeepRights
<1>6. CASE call.op = "lock" /\ ~ Refuse(fd)
  <2>1. CASE LockBlocked(fd, f)
    <3>1. /\ f \in Stored /\ store[f] \in FileNode
          /\ store' = [store EXCEPT ![f].pendingLocks = Append(@, fd)]
      BY <2>1 DEF LockBlocked, StoreWell, StoreOK
    <3>2. /\ Stored' = Stored /\ \A g \in Stored : g # f => store'[g] = store[g]
          /\ store'[f] = [store[f] EXCEPT !.pendingLocks = Append(@, fd)]
      BY <3>1 DEF Stored
    <3>3. /\ store'[f].openDescriptors = store[f].openDescriptors
          /\ store'[f].lockedBy = store[f].lockedBy
          /\ store'[f].canDoFirstWrite = store[f].canDoFirstWrite
      BY <3>1, <3>2 DEF FileNode
    <3> HIDE DEF f
    <3>7. call.op \in {"read", "write", "append", "lock"} /\ f \in Stored
      BY <1>6, <3>1, <3>2, <3>3
    <3>8. \A g \in Stored' : g # f => g \in Stored /\ store'[g] = store[g]
      BY <1>6, <3>1, <3>2, <3>3
    <3>9. /\ store'[f].openDescriptors = store[f].openDescriptors
          /\ store'[f].lockedBy \in {fd, store[f].lockedBy}
          /\ \/ store[f].lockedBy \in {Nobody, fd}
             \/ store'[f].canDoFirstWrite = store[f].canDoFirstWrite
      BY <1>6, <3>1, <3>2, <3>3
    <3> QED
      BY <3>7, <3>8, <3>9, KeepRights
  <2>2. CASE ~ LockBlocked(fd, f)
    <3> DEFINE file == [store[f] EXCEPT !.lockedBy = fd, !.canDoFirstWrite = Nobody]
    <3>1. /\ f \in Stored /\ store[f] \in FileNode /\ store[f].lockedBy \in {Nobody, fd}
          /\ store' = [store EXCEPT ![f].lockedBy = fd, ![f].canDoFirstWrite = Nobody]
      BY <1>6, <2>2 DEF Handle, LockFile, StoreWell, StoreOK
    <3>2. /\ Stored' = Stored /\ \A g \in Stored : g # f => store'[g] = store[g]
          /\ store'[f] = file
      BY <3>1 DEF Stored
    <3>6. file.openDescriptors = store[f].openDescriptors /\ file.lockedBy = fd
      BY <3>1 DEF FileNode
    <3> HIDE DEF file
    <3>3. store'[f].openDescriptors = store[f].openDescriptors
      BY <3>2, <3>6
    <3>4. store'[f].lockedBy = fd
      BY <3>2, <3>6
    <3> HIDE DEF f
    <3>7. call.op \in {"read", "write", "append", "lock"} /\ f \in Stored
      BY <1>6, <3>1, <3>2, <3>3, <3>4
    <3>8. \A g \in Stored' : g # f => g \in Stored /\ store'[g] = store[g]
      BY <1>6, <3>1, <3>2, <3>3, <3>4
    <3>9. /\ store'[f].openDescriptors = store[f].openDescriptors
          /\ store'[f].lockedBy \in {fd, store[f].lockedBy}
          /\ \/ store[f].lockedBy \in {Nobody, fd}
             \/ store'[f].canDoFirstWrite = store[f].canDoFirstWrite
      BY <1>6, <3>1, <3>2, <3>3, <3>4
    <3> QED
      BY <3>7, <3>8, <3>9, KeepRights
  <2> QED
    BY <2>1, <2>2
<1>7. CASE call.op = "unlock" /\ ~ Refuse(fd)
  <2>1. /\ f \in Stored /\ store[f].lockedBy = fd /\ store[f] \in FileNode
        /\ store' = [store EXCEPT ![f] = [PassLock(@) EXCEPT !.canDoFirstWrite = Nobody]]
    BY <1>7 DEF Handle, UnlockFile, StoreWell, StoreOK
  <2>2. /\ Stored' = Stored /\ \A g \in Stored : g # f => store'[g] = store[g]
        /\ store'[f] = [PassLock(store[f]) EXCEPT !.canDoFirstWrite = Nobody]
    BY <2>1 DEF Stored
  <2>3. /\ PassLock(store[f]) \in FileNode
        /\ PassLock(store[f]).openDescriptors = store[f].openDescriptors
        /\ PassLock(store[f]).lockedBy =
              IF store[f].pendingLocks = << >> THEN Nobody ELSE Head(store[f].pendingLocks)
    BY <2>1, PassedShape
  <2>4. /\ store'[f].openDescriptors = store[f].openDescriptors
        /\ store'[f].lockedBy =
              IF store[f].pendingLocks = << >> THEN Nobody ELSE Head(store[f].pendingLocks)
    BY <2>2, <2>3 DEF FileNode
  <2>5. store'[f].lockedBy = Nobody \/ InLine(store'[f].lockedBy, f)
    <3>1. store[f].pendingLocks \in Seq(Fds) /\ Distinct(store[f].pendingLocks)
      BY <2>1, FileShape
    <3>2. store[f].pendingLocks # << >> =>
            Head(store[f].pendingLocks) \in ToSet(store[f].pendingLocks)
      BY <3>1, DistinctTail
    <3> QED
      BY <2>1, <2>4, <3>2 DEF InLine
  <2> HIDE DEF f
  <2> QED
    BY <1>7, <2>1, <2>2, <2>4, <2>5, UseRights
<1>8. CASE call.op = "close" /\ ~ Refuse(fd)
  <2>1. CloseFile(fd, call.file) /\ call.file \in Stored
    BY <1>8 DEF Handle, CloseFile
  <2> QED
    BY <1>8, <2>1, CloseRights
<1>9. CASE call.op = "remove" /\ ~ Refuse(fd)
  <2>1. store' = Without({f})
    BY <1>9 DEF Handle, RemoveFile
  <2>2. Stored' = Stored \ {f} /\ \A g \in Stored' : store'[g] = store[g]
    BY <2>1 DEF Stored, Without, Restrict
  <2> HIDE DEF f
  <2> QED
    BY <1>9, <2>2, UseRights
<1> QED
  BY <1>1, <1>2, <1>3, <1>4, <1>5, <1>6, <1>7, <1>8, <1>9 DEF Calls, Ops

\* What the handler of a closed connection does to one file.
LEMMA ExitRights ==
  ASSUME NEW fd \in Fds, StoreWell, ClientExit(fd), NEW f \in Stored
  PROVE  /\ Stored' = Stored
         /\ store'[f].openDescriptors = RemoveFirst(store[f].openDescriptors, fd)
         /\ store'[f].canDoFirstWrite = store[f].canDoFirstWrite
         /\ \/ store'[f].lockedBy = Nobody
            \/ store'[f].lockedBy = store[f].lockedBy /\ store[f].lockedBy # fd
            \/ InLine(store'[f].lockedBy, f)
<1> DEFINE passed == IF store[f].lockedBy = fd THEN PassLock(store[f]) ELSE store[f]
           exited == [passed EXCEPT !.pendingLocks = RemoveFirst(@, fd),
                                    !.openDescriptors = RemoveFirst(@, fd)]
<1>1. store[f] \in FileNode
  BY DEF StoreWell, StoreOK
<1>2. /\ passed \in FileNode /\ passed.openDescriptors = store[f].openDescriptors
      /\ passed.canDoFirstWrite = store[f].canDoFirstWrite
      /\ \/ passed.lockedBy = Nobody
         \/ passed.lockedBy = store[f].lockedBy /\ store[f].lockedBy # fd
         \/ InLine(passed.lockedBy, f)
  <2>1. CASE store[f].lockedBy # fd
    BY <1>1, <2>1
  <2>2. CASE store[f].lockedBy = fd
    <3>1. store[f].pendingLocks \in Seq(Fds) /\ Distinct(store[f].pendingLocks)
      BY FileShape
    <3>2. store[f].pendingLocks # << >> => InLine(Head(store[f].pendingLocks), f)
      BY <3>1, DistinctTail DEF InLine
    <3> QED
      BY <1>1, <2>2, <3>2, PassedShape
  <2> QED
    BY <2>1, <2>2
<1>3. Stored' = Stored /\ store'[f] = exited
  BY DEF ClientExit, Stored, ExitFile
<1> HIDE DEF passed
<1>4. /\ exited.openDescriptors = RemoveFirst(passed.openDescriptors, fd)
      /\ exited.canDoFirstWrite = passed.canDoFirstWrite
      /\ exited.lockedBy = passed.lockedBy
  BY <1>2 DEF FileNode
<1> HIDE DEF exited
<1> QED
  BY <1>2, <1>3, <1>4

-----------------------------------------------------------------------------
\* The right to the first write of a file that its owner has locked

LEMMA ServesCall ==
  ASSUME IInv, NEW g \in Fds, Serve(g) \/ WriteTested(g)
  PROVE  /\ RightsRule(g, Current(g)) /\ Current(g) \in Calls /\ InCall(g)
         /\ toServer[g] # << >> /\ toServer'[g] = << >>
         /\ \/ Head(toServer[g]) = Current(g)
            \/ Current(g).op = "write"
         /\ opened' = OpenedAfter(g, Current(g)) /\ reopened' = ReopenedAfter(g, Current(g))
         /\ \A h \in Fds \ {g} : toServer'[h] = toServer[h]
         /\ client' = client /\ todo' = todo
<1>1. StoreWell /\ answer \in [Fds -> Answers]
  BY DEF IInv, StoreWell, StoreOK
<1>2. CASE Serve(g)
  <2>1. /\ InCall(g) /\ Asked(g) /\ Current(g) \in Calls /\ toServer[g] # << >>
        /\ Head(toServer[g]) = Current(g) /\ toServer[g] = Request(Current(g))
    BY <1>2, ServeFacts DEF Serve
  <2>2. /\ Handle(g, Current(g)) /\ Handled(g, Current(g))
        /\ toServer' = [toServer EXCEPT ![g] =
             SubSeq(toServer[g], Len(Request(Current(g))) + 1, Len(toServer[g]))]
        /\ client' = client /\ todo' = todo
    BY <1>2, <2>1 DEF Serve, clientVars
  <2>3. SubSeq(toServer[g], Len(Request(Current(g))) + 1, Len(toServer[g])) = << >>
    BY <2>1, RequestType
  <2>4. RightsRule(g, Current(g))
    BY <1>1, <2>1, <2>2, HandleRights
  <2> QED
    BY <2>1, <2>2, <2>3, <2>4 DEF IInv, TypeOK, Handled
<1>3. CASE WriteTested(g)
  <2> DEFINE call == Current(g)
  <2>1. worker[g] = "tested"
    BY <1>3 DEF WriteTested
  <2>2. InCall(g) /\ Tested(g) /\ call \in Calls
    BY <2>1, CallFacts DEF Quiet, AtRest, Asked, Forbidden, Decided, Parked, Released, Sent
  <2>3. call.op = "write" /\ toServer[g] = <<PayloadOf(call)>>
    BY <2>2 DEF Tested
  <2>4. Head(toServer[g]) = PayloadOf(call) /\ Tail(toServer[g]) = << >>
        /\ toServer[g] # << >>
    <3> DEFINE p == PayloadOf(call)
    <3> HIDE DEF p
    <3>1. Head(<<p>>) = p /\ Tail(<<p>>) = << >> /\ <<p>> # << >>
      OBVIOUS
    <3> QED
      BY <2>3, <3>1 DEF p
  <2>5. [op |-> "write", file |-> Head(toServer[g]).file] = call
        /\ Head(toServer[g]).file = call.file
    BY <2>2, <2>3, <2>4 DEF PayloadOf, Calls
  <2>6. /\ WriteToFile(g, call.file) /\ Handled(g, call)
        /\ toServer' = [toServer EXCEPT ![g] = << >>]
        /\ client' = client /\ todo' = todo
    BY <1>3, <2>4, <2>5 DEF WriteTested, clientVars
  <2>7. RightsRule(g, call)
    BY <1>1, <2>2, <2>3, <2>6, HandleRights
  <2> QED
    BY <2>2, <2>3, <2>4, <2>6, <2>7 DEF IInv, TypeOK, Handled
<1> QED
  BY <1>2, <1>3

\* Every other step leaves the files alone.
LEMMA OtherSteps ==
  ASSUME [Next]_vars
  PROVE  \/ store' = store
         \/ \E g \in Fds : Serve(g) \/ WriteTested(g)
         \/ \E g \in Fds : ServeExit(g)
<1>1. CASE UNCHANGED vars
  BY <1>1 DEF vars, storeVars
<1>2. CASE \E g \in Fds : Notify(Closed, g)
  BY <1>2 DEF Notify
<1>3. CASE \E fd \in Fds : Connect(fd) \/ Desert(fd) \/ ClientStep(fd)
  BY <1>3 DEF Connect, Desert, ClientStep, NextCommand, StartCommand, Send, ContinueCommand,
     CloseConnection, ReadRefusal, ReadOK, ReadResponse, storeVars
<1>4. CASE \E fd \in Fds : WorkerStep(fd)
  BY <1>4 DEF WorkerStep, ServeWrite, Refuse, Forbid, ThrowAwayPayload, Respond, Notify,
     Finish, Die, storeVars
<1> QED
  BY <1>1, <1>2, <1>3, <1>4 DEF Next

\* While its owner has a file locked, the right to the first write of it goes only
\* with a request of the owner, or with a close by anybody.
THEOREM FirstWriteStays == Spec => FirstWriteKept
<1> DEFINE Goal ==
      \A fd \in Fds :
        \A f \in Stored \intersect DOMAIN store' :
          /\ store[f].canDoFirstWrite = fd /\ store[f].lockedBy = fd
          /\ store'[f].canDoFirstWrite # fd
          => \E g \in Fds : /\ toServer'[g] # toServer[g]
                            /\ g = fd \/ Head(toServer[g]) = [op |-> "close", file |-> f]
<1>1. IInv /\ [Next]_vars => Goal
  <2> SUFFICES ASSUME IInv, [Next]_vars, NEW fd \in Fds, NEW f \in Stored \intersect Stored',
                      store[f].canDoFirstWrite = fd, store[f].lockedBy = fd,
                      store'[f].canDoFirstWrite # fd
               PROVE  \E g \in Fds :
                        /\ toServer'[g] # toServer[g]
                        /\ g = fd \/ Head(toServer[g]) = [op |-> "close", file |-> f]
    BY DEF Stored
  <2>1. CASE store' = store
    BY <2>1
  <2>2. CASE \E g \in Fds : Serve(g) \/ WriteTested(g)
    <3>1. PICK g \in Fds : Serve(g) \/ WriteTested(g)
      BY <2>2
    <3>2. /\ RightsRule(g, Current(g)) /\ toServer[g] # << >> /\ toServer'[g] = << >>
          /\ Head(toServer[g]) = Current(g) \/ Current(g).op = "write"
      BY <3>1, ServesCall
    <3>3. FileRule(g, Current(g), answer'[g], f)
      BY <3>2 DEF RightsRule
    <3>4. fd # Nobody
      BY RightsAssumption
    <3>5. g = fd \/ Current(g) = [op |-> "close", file |-> f]
      BY <3>3, <3>4 DEF FileRule
    <3> QED
      BY <3>2, <3>5
  <2>3. CASE \E g \in Fds : ServeExit(g)
    BY <2>3, ExitRights DEF ServeExit, IInv
  <2> QED
    BY <2>1, <2>2, <2>3, OtherSteps
<1>2. IInv /\ [Next]_vars => [Goal]_vars
  BY <1>1
<1> QED
  BY <1>2, Invariant, PTL DEF Spec, FirstWriteKept

-----------------------------------------------------------------------------
\* The rights over files

\* A client is listed for a file that it has opened; if it never did so twice it is
\* listed once, and for nothing else.
Listed(g, f, l, mine, again) ==
  /\ f \in mine => g \in ToSet(l)
  /\ f \notin again => Once(g, l) /\ (g \in ToSet(l) => f \in mine)

OpenLists ==
  /\ \A g \in Fds : opened[g] \subseteq Stored
  /\ \A f \in Stored : \A g \in Fds :
       Listed(g, f, store[f].openDescriptors, opened[g], reopened[g])

Owners == \A f \in Stored : store[f].lockedBy # Nobody => client[store[f].lockedBy] # "none"

RInv == OpenLists /\ Owners

\* What is listed of a client whose own places in the list are left as they are.
LEMMA ListedKept ==
  ASSUME NEW g, NEW f, NEW l, NEW l2, NEW mine, NEW again, NEW mine2, NEW again2,
         Listed(g, f, l, mine, again), f \in mine2 <=> f \in mine, f \in again2 <=> f \in again,
         g \in ToSet(l2) <=> g \in ToSet(l), Once(g, l) => Once(g, l2)
  PROVE  Listed(g, f, l2, mine2, again2)
BY DEF Listed

\* A step that leaves the files alone, and in which nobody leaves.
LEMMA FilesKept ==
  ASSUME IInv, RInv, store' = store, opened' = opened, reopened' = reopened,
         \A g \in Fds : client[g] # "none" => client'[g] # "none"
  PROVE  RInv'
<1>1. OpenLists'
  BY DEF RInv, OpenLists, Stored
<1>2. Owners'
  BY FileShape DEF IInv, RInv, Owners, Stored
<1> QED
  BY <1>1, <1>2 DEF RInv

LEMMA ClientRights ==
  ASSUME IInv, RInv, NEW fd \in Fds, Connect(fd) \/ Desert(fd) \/ ClientStep(fd)
  PROVE  RInv'
<1>1. /\ store' = store /\ opened' = opened /\ reopened' = reopened
      /\ \E c \in {"waiting", "gone", "deserted", "refused", "ok"} :
           client' = [client EXCEPT ![fd] = c]
  BY DEF Connect, Desert, ClientStep, NextCommand, StartCommand, Send, ContinueCommand,
     CloseConnection, ReadRefusal, ReadOK, ReadResponse, storeVars
<1>2. \A g \in Fds : client[g] # "none" => client'[g] # "none"
  BY <1>1 DEF IInv, TypeOK
<1> QED
  BY <1>1, <1>2, FilesKept

\* Steps of a worker that leave the files alone.
LEMMA WorkerRights ==
  ASSUME IInv, RInv, NEW x \in Fds \union {Closed}, NEW fd,
         \/ ServeWrite(fd) \/ Forbid(fd) \/ ThrowAwayPayload(fd) \/ Respond(fd)
         \/ Notify(x, fd) \/ Finish(fd) \/ Die(fd) \/ UNCHANGED vars
  PROVE  RInv'
<1>1. store' = store /\ opened' = opened /\ reopened' = reopened /\ client' = client
  BY DEF ServeWrite, Refuse, Forbid, ThrowAwayPayload, Respond, Notify, Finish, Die, vars,
     storeVars, clientVars
<1> QED
  BY <1>1, FilesKept

\* A handler has run, and its client's own list of open files was kept up with it.
LEMMA ServeRights ==
  ASSUME IInv, RInv, NEW fd \in Fds, Serve(fd) \/ WriteTested(fd), IInv'
  PROVE  RInv'
<1> DEFINE call == Current(fd)
           a == answer'[fd]
           mine == IF a.code # "OK" THEN opened[fd]
                   ELSE CASE call.op \in {"create", "openNew", "open"} ->
                               opened[fd] \union {call.file}
                          [] call.op = "close" -> opened[fd] \ {call.file}
                          [] OTHER -> opened[fd]
<1>1. /\ RightsRule(fd, call) /\ call \in Calls /\ InCall(fd)
      /\ opened' = OpenedAfter(fd, call) /\ reopened' = ReopenedAfter(fd, call)
      /\ client' = client
  BY ServesCall
<1>2. opened' = [g \in Fds |-> (IF g = fd THEN mine ELSE opened[g]) \intersect Stored']
  BY <1>1 DEF OpenedAfter, Stored
<1>3. mine = IF Opens(call, a) THEN opened[fd] \union {call.file}
             ELSE IF Closes(call, a) THEN opened[fd] \ {call.file} ELSE opened[fd]
  <2>1. CASE Opens(call, a)
    BY <2>1 DEF Opens
  <2>2. CASE Closes(call, a)
    <3>1. a.code = "OK" /\ call.op = "close" /\ call.op \notin {"create", "openNew", "open"}
      BY <2>2 DEF Closes
    <3>2. mine = opened[fd] \ {call.file}
      BY <3>1
    <3>3. ~ Opens(call, a)
      BY <3>1 DEF Opens
    <3> QED
      BY <2>2, <3>2, <3>3
  <2>3. CASE ~ Opens(call, a) /\ ~ Closes(call, a)
    BY <2>3 DEF Opens, Closes
  <2>4. ~ (Opens(call, a) /\ Closes(call, a))
    BY DEF Opens, Closes
  <2> QED
    BY <2>1, <2>2, <2>3, <2>4
<1> DEFINE again == IF OpenedTwice(fd, call) THEN reopened[fd] \union {call.file}
                                             ELSE reopened[fd]
<1>9. reopened' = [g \in Fds |-> (IF g = fd THEN again ELSE reopened[g]) \intersect Stored']
  BY <1>1 DEF ReopenedAfter, Stored
<1>10. /\ reopened[fd] \subseteq again
       /\ \A f : f \in again /\ f \notin reopened[fd] => f = call.file /\ Opens(call, a)
       /\ call.op = "open" /\ Opens(call, a) /\ call.file \in opened[fd] => call.file \in again
  BY DEF OpenedTwice, Opens
<1> HIDE DEF mine, a, again
<1>4. \A f \in Stored' : FileRule(fd, call, a, f)
  BY <1>1 DEF RightsRule, a
<1> HIDE DEF call
<1>5. \A g \in Fds : opened[g] \subseteq Stored
  BY DEF RInv, OpenLists
<1>6. ASSUME NEW f \in Stored'
      PROVE  \A g \in Fds :
               Listed(g, f, store'[f].openDescriptors, opened'[g], reopened'[g])
  <2>1. FileRule(fd, call, a, f)
    BY <1>4
  <2>2. /\ f \in opened'[fd] <=> f \in mine
        /\ f \in reopened'[fd] <=> f \in again
        /\ \A g \in Fds \ {fd} : /\ f \in opened'[g] <=> f \in opened[g]
                                 /\ f \in reopened'[g] <=> f \in reopened[g]
    BY <1>2, <1>9
  <2> DEFINE od == store[f].openDescriptors
             nd == store'[f].openDescriptors
  <2>3. f \in Stored => od \in Seq(Fds) /\ \A g \in Fds : Listed(g, f, od, opened[g], reopened[g])
    BY FileShape DEF IInv, RInv, OpenLists
  <2>4. CASE f = call.file /\ Opens(call, a)
    <3>1. f \in mine
      BY <1>3, <2>4
    <3>2. CASE f \notin Stored
      <4>1. nd = <<fd>>
        BY <2>1, <2>4, <3>2 DEF FileRule
      <4>2. \A g \in Fds : f \notin opened[g]
        BY <1>5, <3>2
      <4>3. \A g : Once(g, <<fd>>) /\ (g \in ToSet(<<fd>>) <=> g = fd)
        BY DEF Once, ToSet
      <4>4. Listed(fd, f, nd, opened'[fd], reopened'[fd])
        BY <2>2, <3>1, <4>1, <4>3 DEF Listed
      <4>5. ASSUME NEW g \in Fds, g # fd PROVE Listed(g, f, nd, opened'[g], reopened'[g])
        <5>1. f \notin opened'[g] /\ g \notin ToSet(nd) /\ Once(g, nd)
          BY <2>2, <4>1, <4>2, <4>3, <4>5
        <5> QED
          BY <5>1 DEF Listed
      <4> QED
        BY <4>4, <4>5
    <3>3. CASE f \in Stored
      <4>1. nd = Append(od, fd) /\ call.op = "open"
        BY <2>1, <2>4, <3>3 DEF FileRule
      <4> HIDE DEF od, nd
      <4>2. /\ od \in Seq(Fds) /\ ToSet(nd) = ToSet(od) \union {fd}
            /\ \A g \in Fds : Listed(g, f, od, opened[g], reopened[g])
        BY <2>3, <3>3, <4>1, DistinctAppend
      <4>3. \A g : Once(g, od) /\ (g # fd \/ fd \notin ToSet(od)) => Once(g, nd)
        BY <4>1, <4>2, OnceAppend
      <4>4. f \notin again => fd \notin ToSet(od) /\ Once(fd, od)
        BY <1>10, <2>4, <4>1, <4>2 DEF Listed
      <4>5. Listed(fd, f, nd, opened'[fd], reopened'[fd])
        BY <2>2, <3>1, <4>2, <4>3, <4>4 DEF Listed
      <4>6. ASSUME NEW g \in Fds, g # fd PROVE Listed(g, f, nd, opened'[g], reopened'[g])
        <5>1. /\ f \in opened'[g] <=> f \in opened[g]
              /\ f \in reopened'[g] <=> f \in reopened[g]
          BY <2>2, <4>6
        <5>2. (g \in ToSet(nd) <=> g \in ToSet(od)) /\ (Once(g, od) => Once(g, nd))
          BY <4>2, <4>3, <4>6
        <5>3. Listed(g, f, od, opened[g], reopened[g])
          BY <4>2
        <5> QED
          BY <5>1, <5>2, <5>3, ListedKept
      <4> QED
        BY <4>5, <4>6 DEF nd
    <3> QED
      BY <3>2, <3>3
  <2>5. CASE f = call.file /\ Closes(call, a)
    <3>1. f \notin mine /\ ~ Opens(call, a)
      BY <1>3, <2>5 DEF Opens, Closes
    <3>2. f \in Stored /\ nd = RemoveFirst(od, fd)
      BY <2>1, <2>5 DEF FileRule
    <3> HIDE DEF od, nd
    <3>3. /\ \A x : x \in ToSet(nd) => x \in ToSet(od)
          /\ \A x : x \in ToSet(od) /\ x # fd => x \in ToSet(nd)
          /\ \A x : Once(x, od) => Once(x, nd)
          /\ Once(fd, od) => fd \notin ToSet(nd)
      BY <2>3, <3>2, OnceGone
    <3>4. \A g \in Fds : Listed(g, f, od, opened[g], reopened[g])
      BY <2>3, <3>2
    <3>5. Listed(fd, f, nd, opened'[fd], reopened'[fd])
      BY <1>10, <2>2, <3>1, <3>3, <3>4 DEF Listed
    <3>6. ASSUME NEW g \in Fds, g # fd PROVE Listed(g, f, nd, opened'[g], reopened'[g])
      <4>1. /\ f \in opened'[g] <=> f \in opened[g]
            /\ f \in reopened'[g] <=> f \in reopened[g]
        BY <2>2, <3>6
      <4>2. (g \in ToSet(nd) <=> g \in ToSet(od)) /\ (Once(g, od) => Once(g, nd))
        BY <3>3, <3>6
      <4>3. Listed(g, f, od, opened[g], reopened[g])
        BY <3>4
      <4> QED
        BY <4>1, <4>2, <4>3, ListedKept
    <3> QED
      BY <3>5, <3>6 DEF nd
  <2>6. CASE ~ (f = call.file /\ (Opens(call, a) \/ Closes(call, a)))
    <3>1. f \in Stored /\ nd = od
      BY <2>1, <2>6 DEF FileRule
    <3>2. (f \in mine <=> f \in opened[fd]) /\ (f \in again <=> f \in reopened[fd])
      BY <1>3, <1>10, <2>6
    <3> HIDE DEF od, nd
    <3>3. ASSUME NEW g \in Fds PROVE Listed(g, f, nd, opened'[g], reopened'[g])
      <4>1. /\ f \in opened'[g] <=> f \in opened[g]
            /\ f \in reopened'[g] <=> f \in reopened[g]
        <5>1. CASE g = fd
          BY <2>2, <3>2, <5>1
        <5>2. CASE g # fd
          BY <2>2, <5>2
        <5> QED
          BY <5>1, <5>2
      <4>2. Listed(g, f, od, opened[g], reopened[g])
        BY <2>3, <3>1
      <4> QED
        BY <3>1, <4>1, <4>2, ListedKept
    <3> QED
      BY <3>3 DEF nd
  <2> QED
    BY <2>4, <2>5, <2>6
<1>7. OpenLists'
  <2>1. \A g \in Fds : opened'[g] \subseteq Stored'
    BY <1>2
  <2> QED
    BY <1>6, <2>1 DEF OpenLists
<1>8. Owners'
  <2> SUFFICES ASSUME NEW f \in Stored', store'[f].lockedBy # Nobody
               PROVE  client'[store'[f].lockedBy] # "none"
    BY DEF Owners
  <2>1. \/ store'[f].lockedBy = fd
        \/ f \in Stored /\ store'[f].lockedBy = store[f].lockedBy
        \/ f \in Stored /\ InLine(store'[f].lockedBy, f)
    BY <1>4 DEF FileRule
  <2>2. CASE store'[f].lockedBy = fd
    BY <1>1, <2>2 DEF InCall
  <2>3. CASE f \in Stored /\ store'[f].lockedBy = store[f].lockedBy
    BY <1>1, <2>3 DEF RInv, Owners
  <2>4. CASE f \in Stored /\ InLine(store'[f].lockedBy, f)
    <3>1. store'[f].lockedBy \in Fds /\ f \in Files
      BY <2>4, FileShape DEF InLine, IInv
    <3>2. InCall(store'[f].lockedBy)
      BY <2>4, <3>1 DEF IInv, Lines
    <3> QED
      BY <1>1, <3>2 DEF InCall
  <2> QED
    BY <2>1, <2>2, <2>3, <2>4
<1> QED
  BY <1>7, <1>8 DEF RInv

\* A connection is closed, and its rights go with it.
LEMMA LeaveRights ==
  ASSUME IInv, RInv, NEW fd \in Fds, ServeExit(fd)
  PROVE  RInv'
<1>1. /\ ClientExit(fd) /\ opened' = [opened EXCEPT ![fd] = {}]
      /\ client' = [client EXCEPT ![fd] = "none"]
      /\ reopened' = [g \in Fds |-> reopened[g] \intersect Stored'] /\ ~ Waiting(fd)
  BY DEF ServeExit, Watched, Stored
<1>2. Stored' = Stored
  BY <1>1 DEF ClientExit, Stored
<1>3. /\ opened'[fd] = {} /\ client'[fd] = "none"
      /\ \A g \in Fds \ {fd} : opened'[g] = opened[g] /\ client'[g] = client[g]
      /\ \A g \in Fds : \A f \in Stored : f \in reopened'[g] <=> f \in reopened[g]
  BY <1>1, <1>2 DEF IInv, TypeOK
<1>4. ASSUME NEW f \in Stored
      PROVE  /\ \A g \in Fds :
                  Listed(g, f, store'[f].openDescriptors, opened'[g], reopened'[g])
             /\ store'[f].lockedBy # Nobody => client'[store'[f].lockedBy] # "none"
  <2> DEFINE od == store[f].openDescriptors
  <2>1. /\ store'[f].openDescriptors = RemoveFirst(od, fd)
        /\ \/ store'[f].lockedBy = Nobody
           \/ store'[f].lockedBy = store[f].lockedBy /\ store[f].lockedBy # fd
           \/ InLine(store'[f].lockedBy, f)
    BY <1>1, ExitRights DEF IInv
  <2>2. od \in Seq(Fds) /\ \A g \in Fds : Listed(g, f, od, opened[g], reopened[g])
    BY FileShape DEF IInv, RInv, OpenLists
  <2> DEFINE nd == RemoveFirst(od, fd)
  <2> HIDE DEF od
  <2>3. /\ \A x : x \in ToSet(nd) => x \in ToSet(od)
        /\ \A x : x \in ToSet(od) /\ x # fd => x \in ToSet(nd)
        /\ \A x : Once(x, od) => Once(x, nd)
        /\ Once(fd, od) => fd \notin ToSet(nd)
    BY <2>2, OnceGone
  <2> HIDE DEF nd
  <2>4. \A g \in Fds : Listed(g, f, nd, opened'[g], reopened'[g])
    <3>1. Listed(fd, f, nd, opened'[fd], reopened'[fd])
      BY <1>3, <2>2, <2>3 DEF Listed
    <3>2. ASSUME NEW g \in Fds, g # fd PROVE Listed(g, f, nd, opened'[g], reopened'[g])
      BY <1>3, <2>2, <2>3, <3>2 DEF Listed
    <3> QED
      BY <3>1, <3>2
  <2>5. store'[f].lockedBy # Nobody => client'[store'[f].lockedBy] # "none"
    <3>1. CASE store'[f].lockedBy = store[f].lockedBy /\ store[f].lockedBy # fd
      BY <1>3, <3>1, FileShape DEF RInv, Owners, IInv
    <3>2. CASE InLine(store'[f].lockedBy, f)
      <4>1. store'[f].lockedBy \in Fds /\ f \in Files
        BY <3>2, FileShape DEF InLine, IInv
      <4>2. store'[f].lockedBy # fd
        BY <1>1, <3>2 DEF InLine, Waiting
      <4>3. InCall(store'[f].lockedBy)
        BY <3>2, <4>1 DEF IInv, Lines
      <4> QED
        BY <1>3, <4>1, <4>2, <4>3 DEF InCall
    <3> QED
      BY <2>1, <3>1, <3>2
  <2> QED
    BY <2>1, <2>4, <2>5 DEF nd
<1>5. OpenLists' /\ Owners'
  <2>1. \A g \in Fds : opened'[g] \subseteq Stored
    BY <1>3 DEF RInv, OpenLists
  <2> QED
    BY <1>2, <1>4, <2>1 DEF OpenLists, Owners
<1> QED
  BY <1>5 DEF RInv

LEMMA StepRights ==
  ASSUME IInv, RInv, [Next]_vars, IInv'
  PROVE  RInv'
<1>1. CASE UNCHANGED vars
  BY <1>1, WorkerRights
<1>2. CASE \E g \in Fds : Notify(Closed, g)
  BY <1>2, WorkerRights
<1>3. CASE \E fd \in Fds : Connect(fd) \/ Desert(fd) \/ ClientStep(fd)
  BY <1>3, ClientRights
<1>4. CASE \E fd \in Fds : WorkerStep(fd)
  <2>1. PICK fd \in Fds : WorkerStep(fd)
    BY <1>4
  <2>2. CASE \E g \in Fds : Notify(fd, g)
    BY <2>2, WorkerRights
  <2>3. CASE \/ ServeWrite(fd) \/ Forbid(fd) \/ ThrowAwayPayload(fd) \/ Respond(fd)
            \/ Finish(fd) \/ Die(fd)
    BY <2>3, WorkerRights
  <2>4. CASE Serve(fd) \/ WriteTested(fd)
    BY <2>4, ServeRights
  <2>5. CASE ServeExit(fd)
    BY <2>5, LeaveRights
  <2> QED
    BY <2>1, <2>2, <2>3, <2>4, <2>5 DEF WorkerStep
<1> QED
  BY <1>1, <1>2, <1>3, <1>4 DEF Next

\* Who has a file open is who has opened it, except where a file was opened twice, and
\* every lock and every place in a line for one belongs to a client of now: no entry, no
\* lock and no wait outlives its connection, though its descriptor is given to the next.
THEOREM RightsFollow == Spec => []RightsAreOwn
<1>1. Init => RInv
  <2> SUFFICES ASSUME Init PROVE RInv
    OBVIOUS
  <2>1. Stored = {} /\ opened = [fd \in Fds |-> {}]
    BY DEF Init, StoreInit, Stored
  <2> QED
    BY <2>1 DEF RInv, OpenLists, Owners
<1>2. IInv /\ IInv' /\ RInv /\ [Next]_vars => RInv'
  BY StepRights
<1>3. IInv /\ RInv => RightsAreOwn
  <2> SUFFICES ASSUME IInv, RInv, NEW f \in Stored
               PROVE  /\ \A fd \in Fds :
                           LET mayUse == fd \in ToSet(store[f].openDescriptors)
                           IN /\ f \in opened[fd] => mayUse
                              /\ mayUse => f \in opened[fd] \union reopened[fd]
                      /\ store[f].lockedBy # Nobody => client[store[f].lockedBy] # "none"
                      /\ \A fd \in ToSet(store[f].pendingLocks) :
                           InCall(fd) /\ Head(todo[fd]) = [op |-> "lock", file |-> f]
    BY DEF RightsAreOwn
  <2>1. f \in Files /\ ToSet(store[f].pendingLocks) \subseteq Fds
    BY FileShape DEF IInv
  <2>2. \A fd \in ToSet(store[f].pendingLocks) : InLine(fd, f)
    BY DEF InLine
  <2>3. \A fd \in ToSet(store[f].pendingLocks) :
          InCall(fd) /\ Current(fd) = [op |-> "lock", file |-> f]
    BY <2>1, <2>2 DEF IInv, Lines
  <2>4. \A fd \in Fds :
          Listed(fd, f, store[f].openDescriptors, opened[fd], reopened[fd])
    BY DEF RInv, OpenLists
  <2> QED
    BY <2>3, <2>4 DEF RInv, Owners, Current, Listed
<1> QED
  BY <1>1, <1>2, <1>3, Invariant, PTL DEF Spec
=============================================================================
