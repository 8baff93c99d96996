--------------------------- MODULE SessionService ---------------------------
(***************************************************************************)
(* For any numbers of connections, files and commands: what the programs   *)
(* see of the library, the streams and the workers is FileService.         *)
(*                                                                         *)
(* A handler is the step at which a call takes effect, the test of a first *)
(* write the step at which it is allowed, and all that is between them and *)
(* the return is not seen: the phases of IInv tell what has been decided   *)
(* wherever it is, in answer, in rest or in the stream (Reads), and so the *)
(* handlers are the same on both sides but for where they put an answer    *)
(* (Maps).                                                                 *)
(***************************************************************************)
EXTENDS SessionProofs

-----------------------------------------------------------------------------
\* The handlers under the refinement mapping: the same, but for the answers

Answered == [g \in Fds |-> AnswerSoFar(g)]

\* What a handler run for fd settles is settled in the service as well.
Maps(fd) ==
  /\ \A a, others, b :
       Settle(fd, a, others, b) /\ (b # None \/ others = {}) => Service!Settle(fd, a, others, b)
  /\ answer' = answer => Answered' = Answered

LEMMA SameWords ==
  /\ Service!None = None /\ Service!Refused = Refused
  /\ \A files : Service!Ok(files) = Ok(files)
  /\ Service!Stored = Stored /\ Service!Nobody = Nobody
  /\ \A files : Service!Waiters(files) = Waiters(files)
  /\ \A files : Service!Without(files) = Without(files)
  /\ \A fd, lock : Service!NewFile(fd, lock) = NewFile(fd, lock)
  /\ \A file : Service!Heirs(file) = Heirs(file) /\ Service!PassLock(file) = PassLock(file)
  /\ \A file, fd : Service!ExitFile(file, fd) = ExitFile(file, fd)
  /\ Service!Victims = Victims
  /\ \A fd, f : Service!MayUse(fd, f) <=> MayUse(fd, f)
<1>1. /\ Service!None = None /\ Service!Refused = Refused
      /\ \A files : Service!Ok(files) = Ok(files)
      /\ Service!Stored = Stored /\ Service!Nobody = Nobody
  BY DEF Service!None, None, Service!Refused, Refused, Service!Ok, Ok, Service!Stored, Stored,
     Service!Nobody, Nobody
<1>2. \A s : Service!ToSet(s) = ToSet(s)
  BY DEF Service!ToSet, ToSet
<1>3. \A files : Service!Waiters(files) = Waiters(files)
  BY <1>2 DEF Service!Waiters, Waiters
<1>4. \A files : Service!Without(files) = Without(files)
  BY <1>1 DEF Service!Without, Without, Service!Restrict, Restrict
<1>5. \A fd, lock : Service!NewFile(fd, lock) = NewFile(fd, lock)
  BY <1>1 DEF Service!NewFile, NewFile
<1>6. \A file : Service!Heirs(file) = Heirs(file)
  BY DEF Service!Heirs, Heirs
<1>7. \A file : Service!PassLock(file) = PassLock(file)
  BY <1>1 DEF Service!PassLock, PassLock
<1>8. \A s, e : Service!RemoveFirst(s, e) = RemoveFirst(s, e)
  BY DEF Service!RemoveFirst, RemoveFirst, Service!SelectInSeq, SelectInSeq,
     Service!RemoveAt, RemoveAt, Service!Min, Min
<1>9. \A file, fd : Service!ExitFile(file, fd) = ExitFile(file, fd)
  BY <1>7, <1>8 DEF Service!ExitFile, ExitFile
<1>10. Service!Victims = Victims
  <2>1. \A S : Service!Cardinality(S) = Cardinality(S)
    BY DEF Service!Cardinality, Cardinality, Service!IsFiniteSet, IsFiniteSet
  <2> QED
    BY <1>1, <2>1 DEF Service!Victims, Victims
<1>11. \A fd, f : Service!MayUse(fd, f) <=> MayUse(fd, f)
  BY <1>1, <1>2 DEF Service!MayUse, MayUse
<1> QED
  BY <1>1, <1>3, <1>4, <1>5, <1>6, <1>7, <1>9, <1>10, <1>11

LEMMA AnswersMap ==
  ASSUME NEW fd, Maps(fd)
  PROVE  /\ Refuse(fd) => Service!Refuse(fd)
         /\ \A files : Accept(fd, files) => Service!Accept(fd, files)
         /\ \A answered, files :
              AcceptAndDestroy(fd, answered, files) =>
                Service!AcceptAndDestroy(fd, answered, files)
<1>1. Refused # None /\ \A files : Ok(files) # None
  BY AnswersAre
<1>2. Refuse(fd) => Service!Refuse(fd)
  <2>1. Settle(fd, Refused, {}, None) => Service!Settle(fd, Refused, {}, None)
    BY DEF Maps
  <2> QED
    BY <2>1, SameWords DEF Refuse, Service!Refuse
<1>3. ASSUME NEW files, Accept(fd, files) PROVE Service!Accept(fd, files)
  <2>1. Service!Settle(fd, Ok(files), {}, None)
    BY <1>3 DEF Maps, Accept
  <2> QED
    BY <2>1, SameWords DEF Service!Accept
<1>4. ASSUME NEW answered, NEW files, AcceptAndDestroy(fd, answered, files)
      PROVE  Service!AcceptAndDestroy(fd, answered, files)
  <2>1. Service!Settle(fd, Ok(answered), Waiters(files), Refused)
    BY <1>1, <1>4 DEF Maps, AcceptAndDestroy
  <2> QED
    BY <2>1, SameWords DEF Service!AcceptAndDestroy
<1> QED
  BY <1>2, <1>3, <1>4

LEMMA OpenMaps ==
  ASSUME NEW fd, NEW f, NEW create, NEW lock, Maps(fd), OpenFile(fd, f, create, lock)
  PROVE  Service!OpenFile(fd, f, create, lock)
<1>1. CASE (f \in Stored) = create /\ Refuse(fd)
  BY <1>1, SameWords, AnswersMap DEF Service!OpenFile
<1>2. CASE create /\ CreateFile(fd, f, lock)
  <2>1. PICK D \in Victims :
          /\ store' = [g \in (Stored \ D) \union {f} |->
                         IF g = f THEN NewFile(fd, lock) ELSE store[g]]
          /\ AcceptAndDestroy(fd, {}, D)
    BY <1>2 DEF CreateFile
  <2>2. /\ f \notin Service!Stored /\ D \in Service!Victims
        /\ store' = [g \in (Service!Stored \ D) \union {f} |->
                       IF g = f THEN Service!NewFile(fd, lock) ELSE store[g]]
        /\ Service!AcceptAndDestroy(fd, {}, D)
    BY <1>2, <2>1, SameWords, AnswersMap DEF CreateFile
  <2> QED
    BY <1>2, <2>2 DEF Service!OpenFile, Service!CreateFile
<1>3. CASE ~ create /\ OpenExisting(fd, f)
  <2>1. Service!OpenExisting(fd, f)
    BY <1>3, SameWords, AnswersMap DEF OpenExisting, Service!OpenExisting
  <2> QED
    BY <1>3, <2>1 DEF Service!OpenFile
<1> QED
  BY <1>1, <1>2, <1>3 DEF OpenFile

LEMMA WriteMaps ==
  ASSUME NEW fd, NEW f, Maps(fd), WriteToFile(fd, f)
  PROVE  Service!WriteToFile(fd, f)
<1>1. CASE Refuse(fd)
  BY <1>1, AnswersMap DEF Service!WriteToFile
<1>2. CASE ~ Refuse(fd)
  <2>1. PICK D \in SUBSET (Stored \ {f}) :
          /\ store' = [Without(D) EXCEPT ![f].canDoFirstWrite = Nobody]
          /\ AcceptAndDestroy(fd, D, D)
    BY <1>2 DEF WriteToFile
  <2>2. /\ Service!MayUse(fd, f) /\ D \in SUBSET (Service!Stored \ {f})
        /\ store' = [Service!Without(D) EXCEPT ![f].canDoFirstWrite = Service!Nobody]
        /\ Service!AcceptAndDestroy(fd, D, D)
    BY <1>2, <2>1, SameWords, AnswersMap DEF WriteToFile
  <2> QED
    BY <2>2 DEF Service!WriteToFile
<1> QED
  BY <1>1, <1>2

LEMMA LockMaps ==
  ASSUME NEW fd, NEW f, Maps(fd), LockFile(fd, f)
  PROVE  Service!LockFile(fd, f)
<1>1. CASE f \notin Stored /\ Refuse(fd)
  BY <1>1, SameWords, AnswersMap DEF Service!LockFile
<1>2. CASE LockBlocked(fd, f)
  <2>1. Service!LockBlocked(fd, f)
    BY <1>2, SameWords DEF LockBlocked, Service!LockBlocked, Maps, Answered
  <2> QED
    BY <2>1 DEF Service!LockFile
<1>3. CASE ~ (f \notin Stored /\ Refuse(fd)) /\ ~ LockBlocked(fd, f)
  BY <1>3, SameWords, AnswersMap DEF LockFile, Service!LockFile
<1> QED
  BY <1>1, <1>2, <1>3

LEMMA UnlockMaps ==
  ASSUME NEW fd, NEW f, Maps(fd), UnlockFile(fd, f)
  PROVE  Service!UnlockFile(fd, f)
<1>1. CASE ~ (f \in Stored /\ store[f].lockedBy = fd) /\ Refuse(fd)
  BY <1>1, SameWords, AnswersMap DEF Service!UnlockFile
<1>2. CASE f \in Stored /\ store[f].lockedBy = fd
  <2>1. /\ store' = [store EXCEPT ![f] = [PassLock(@) EXCEPT !.canDoFirstWrite = Nobody]]
        /\ Settle(fd, Ok({}), Heirs(store[f]), Ok({}))
    BY <1>2 DEF UnlockFile
  <2>2. Service!Settle(fd, Ok({}), Heirs(store[f]), Ok({}))
    BY <2>1, AnswersAre DEF Maps
  <2> QED
    BY <1>2, <2>1, <2>2, SameWords DEF Service!UnlockFile
<1> QED
  BY <1>1, <1>2 DEF UnlockFile

LEMMA OthersMap ==
  ASSUME NEW fd, NEW f, Maps(fd)
  PROVE  /\ ReadFile(fd, f) => Service!ReadFile(fd, f)
         /\ ReadNFiles(fd) => Service!ReadNFiles(fd)
         /\ CloseFile(fd, f) => Service!CloseFile(fd, f)
         /\ RemoveFile(fd, f) => Service!RemoveFile(fd, f)
<1>1. ReadFile(fd, f) => Service!ReadFile(fd, f)
  BY SameWords, AnswersMap DEF ReadFile, Service!ReadFile
<1>2. ReadNFiles(fd) => Service!ReadNFiles(fd)
  BY SameWords, AnswersMap DEF ReadNFiles, Service!ReadNFiles
<1>3. CloseFile(fd, f) => Service!CloseFile(fd, f)
  <2>1. CASE f \notin Stored /\ Refuse(fd)
    BY <2>1, SameWords, AnswersMap DEF Service!CloseFile
  <2>2. \A s, e : Service!RemoveFirst(s, e) = RemoveFirst(s, e)
    BY DEF Service!RemoveFirst, RemoveFirst, Service!SelectInSeq, SelectInSeq,
       Service!RemoveAt, RemoveAt, Service!Min, Min
  <2>3. CASE f \in Stored
    BY <2>2, <2>3, SameWords, AnswersMap DEF CloseFile, Service!CloseFile
  <2> QED
    BY <2>1, <2>3 DEF CloseFile
<1>4. RemoveFile(fd, f) => Service!RemoveFile(fd, f)
  BY SameWords, AnswersMap DEF RemoveFile, Service!RemoveFile
<1> QED
  BY <1>1, <1>2, <1>3, <1>4

LEMMA HandleMaps ==
  ASSUME NEW fd, NEW call, Maps(fd), Handle(fd, call)
  PROVE  Service!Handle(fd, call)
BY OpenMaps, WriteMaps, LockMaps, UnlockMaps, OthersMap DEF Handle, Service!Handle

LEMMA ExitMaps ==
  ASSUME NEW fd, ClientExit(fd),
         \A others : Settle(fd, None, others, Ok({})) => Service!Settle(fd, None, others, Ok({}))
  PROVE  Service!ClientExit(fd)
<1> DEFINE heirs == UNION {Heirs(store[f]) : f \in {g \in Stored : store[g].lockedBy = fd}}
<1>1. /\ store' = [f \in Stored |-> ExitFile(store[f], fd)]
      /\ Settle(fd, None, heirs, Ok({}))
  BY DEF ClientExit
<1>2. Service!Settle(fd, None, heirs, Ok({}))
  BY <1>1
<1>3. heirs = UNION {Service!Heirs(store[f]) :
                       f \in {g \in Service!Stored : store[g].lockedBy = fd}}
  BY SameWords
<1> HIDE DEF heirs
<1> QED
  BY <1>1, <1>2, <1>3, SameWords DEF Service!ClientExit

-----------------------------------------------------------------------------
\* What has been decided of a call, wherever it is on its way to the library

Reads(g) ==
  /\ ~ InCall(g) => AnswerSoFar(g) = None
  /\ answer[g] # None => AnswerSoFar(g) = answer[g]
  /\ InCall(g) /\ (Asked(g) \/ Tested(g) \/ Parked(g)) => AnswerSoFar(g) = None
  /\ \A a : InCall(g) /\ Sent(g) /\ SentAs(g, a) => AnswerSoFar(g) = a

LEMMA StreamMeans ==
  ASSUME NEW call \in Calls, NEW a, Fits(call, a)
  PROVE  /\ "refused" \in ToSet(<<a.code>> \o Body(call, a)) <=> a.code = "refused"
         /\ "OK" \in ToSet(<<a.code>> \o Body(call, a)) <=> a.code = "OK"
         /\ ToSet(<<a.code>> \o Body(call, a)) \intersect Files = a.files
         /\ a.code = "refused" => a = Refused
         /\ a.code = "OK" => a = Ok(a.files)
<1> DEFINE b == Body(call, a)
           q == <<a.code>> \o b
<1>1. b \in Seq({Content, EndOfFiles} \union Files) /\ ToSet(b) \intersect Files = a.files
  BY BodyShape
<1>2. a \in Answers /\ a.code \in {"OK", "refused"} /\ (a.files # {} => a.code = "OK")
  BY DEF Fits, Answers
<1>3. a.code = "refused" => a = Refused
  BY <1>2 DEF Answers, Refused
<1>4. a.code = "OK" => a = Ok(a.files)
  BY <1>2 DEF Answers, Ok
<1>5. "refused" \notin {Content, EndOfFiles} \union Files
      /\ "OK" \notin {Content, EndOfFiles} \union Files /\ a.code \notin Files
  BY <1>2, SessionAssumption DEF Content, EndOfFiles
<1> HIDE DEF b
<1>6. \A x : x \in ToSet(q) <=> x = a.code \/ x \in ToSet(b)
  <2> DEFINE T == {a.code, Content, EndOfFiles} \union Files
  <2>1. b \in Seq(T) /\ <<a.code>> \in Seq(T) /\ Len(<<a.code>>) = 1 /\ Len(b) \in Nat
    BY <1>1
  <2> HIDE DEF T
  <2>2. /\ q \in Seq(T) /\ Len(q) = Len(b) + 1 /\ q[1] = a.code
        /\ \A i \in 1 .. Len(b) : q[i + 1] = b[i]
    <3>1. \A i \in 1 .. Len(b) : i + 1 \in 1 .. Len(b) + 1 /\ ~ (i + 1 <= 1) /\ (i + 1) - 1 = i
      BY <2>1
    <3> QED
      BY <2>1, <3>1, ConcatProperties
  <2> HIDE DEF q
  <2>3. ASSUME NEW x \in ToSet(q) PROVE x = a.code \/ x \in ToSet(b)
    <3>1. PICK i \in 1 .. Len(q) : q[i] = x
      BY <2>2, ToSetMembers
    <3>2. CASE i = 1
      BY <2>2, <3>1, <3>2
    <3>3. CASE i # 1
      <4>1. i - 1 \in 1 .. Len(b) /\ (i - 1) + 1 = i
        BY <2>1, <2>2, <3>3
      <4>2. b[i - 1] = x
        BY <2>2, <3>1, <4>1
      <4> QED
        BY <2>1, <4>1, <4>2, ToSetMembers
    <3> QED
      BY <3>2, <3>3
  <2>4. a.code \in ToSet(q)
    <3>1. 1 \in 1 .. Len(q)
      BY <2>1, <2>2
    <3> QED
      BY <2>2, <3>1, ToSetMembers
  <2>5. ASSUME NEW x \in ToSet(b) PROVE x \in ToSet(q)
    <3>1. PICK i \in 1 .. Len(b) : b[i] = x
      BY <2>1, ToSetMembers
    <3>2. i + 1 \in 1 .. Len(q) /\ q[i + 1] = x
      BY <2>1, <2>2, <3>1
    <3> QED
      BY <2>2, <3>2, ToSetMembers
  <2> QED
    BY <2>3, <2>4, <2>5
<1> HIDE DEF q
<1>7. ToSet(b) \subseteq {Content, EndOfFiles} \union Files
  BY <1>1, ToSetMembers
<1>8. /\ "refused" \in ToSet(q) <=> a.code = "refused"
      /\ "OK" \in ToSet(q) <=> a.code = "OK"
      /\ ToSet(q) \intersect Files = a.files
  BY <1>1, <1>2, <1>5, <1>6, <1>7
<1> QED
  BY <1>3, <1>4, <1>8 DEF q, b

LEMMA SoFar == IInv => \A g \in Fds : Reads(g)
<1> SUFFICES ASSUME IInv, NEW g \in Fds PROVE Reads(g)
  OBVIOUS
<1> DEFINE stream == toClient[g] \o rest[g]
           sent == ToSet(stream)
<1>1. /\ AnswerSoFar(g) =
           CASE ~ InCall(g) -> None
             [] InCall(g) /\ answer[g] # None -> answer[g]
             [] InCall(g) /\ answer[g] = None /\ "refused" \in sent -> Refused
             [] InCall(g) /\ answer[g] = None /\ "OK" \in sent -> Ok(sent \intersect Files)
             [] OTHER -> None
  BY DEF AnswerSoFar
<1> HIDE DEF sent
<1>2. CASE ~ InCall(g)
  BY <1>1, <1>2, CallFacts DEF Reads, Quiet, AtRest
<1>3. CASE InCall(g) /\ answer[g] # None
  BY <1>1, <1>3 DEF Reads, Asked, AtRest, Tested, Parked, Sent
<1>4. CASE InCall(g) /\ answer[g] = None
  <2>1. ASSUME Asked(g) \/ Tested(g) \/ Parked(g) PROVE AnswerSoFar(g) = None
    <3>1. toClient[g] = << >> /\ rest[g] = << >>
      BY <2>1 DEF Asked, AtRest, Tested, Parked
    <3>2. stream = << >>
      BY <3>1
    <3>3. sent = {}
      BY <3>2 DEF sent, ToSet
    <3> QED
      BY <1>1, <1>4, <3>3
  <2>2. ASSUME NEW a, Sent(g), SentAs(g, a) PROVE AnswerSoFar(g) = a
    <3> DEFINE b == Body(Current(g), a)
    <3>1. Fits(Current(g), a) /\ Current(g) \in Calls
      BY <1>4, <2>2, CallFacts DEF SentAs
    <3>2. stream = <<a.code>> \o b
      <4>1. CASE toClient[g] = <<a.code>> /\ rest[g] = b
        BY <4>1
      <4>2. CASE toClient[g] = <<a.code>> \o b /\ rest[g] = << >>
        <5>1. toClient[g] \in Seq({"OK", "refused", Content, EndOfFiles} \union Files)
          BY DEF IInv, TypeOK
        <5> HIDE DEF b
        <5>2. toClient[g] \o << >> = toClient[g]
          BY <5>1
        <5> QED
          BY <4>2, <5>2
      <4> QED
        BY <2>2, <4>1, <4>2 DEF SentAs
    <3>3. /\ "refused" \in sent <=> a.code = "refused"
          /\ "OK" \in sent <=> a.code = "OK"
          /\ sent \intersect Files = a.files
          /\ a.code = "refused" => a = Refused
          /\ a.code = "OK" => a = Ok(a.files)
      BY <3>1, <3>2, StreamMeans DEF sent
    <3>4. a.code \in {"OK", "refused"}
      BY <3>1 DEF Fits, Answers
    <3>5. CASE a.code = "refused"
      BY <1>1, <1>4, <3>3, <3>5
    <3>6. CASE a.code = "OK"
      BY <1>1, <1>4, <3>3, <3>6
    <3> QED
      BY <3>4, <3>5, <3>6
  <2> QED
    BY <1>4, <2>1, <2>2 DEF Reads
<1> QED
  BY <1>2, <1>3, <1>4

LEMMA SoFarThen == IInv' => \A g \in Fds : Reads(g)'
<1>1. IInv' => (\A g \in Fds : Reads(g))'
  BY SoFar, PTL
<1> QED
  BY <1>1

-----------------------------------------------------------------------------
\* The state of the service, and the steps

Asks == [g \in Fds |-> IF InCall(g) THEN {Head(todo[g])} ELSE {}]
May == {g \in Fds : worker[g] = "tested"}
Results == [g \in Fds |-> Returned(g)]

\* What the service sees of client g.
Same(g) == Untouched(g) /\ answer'[g] = answer[g] /\ received'[g] = received[g]

LEMMA Unseen ==
  ASSUME NEW g \in Fds, Untouched(g), answer'[g] = answer[g]
  PROVE  AnswerSoFar(g)' = AnswerSoFar(g)
<1>1. (InCall(g)' <=> InCall(g)) /\ toClient'[g] \o rest'[g] = toClient[g] \o rest[g]
  BY DEF Untouched, InCall
<1> QED
  BY <1>1 DEF AnswerSoFar

LEMMA OwnMaps ==
  ASSUME NEW fd \in Fds, \A g \in Fds \ {fd} : Same(g)
  PROVE  /\ Answered' = [Answered EXCEPT ![fd] = AnswerSoFar(fd)']
         /\ Asks' = [Asks EXCEPT ![fd] = IF InCall(fd)' THEN {Head(todo'[fd])} ELSE {}]
         /\ Results' = [Results EXCEPT ![fd] = Returned(fd)']
         /\ (worker'[fd] = "tested") = (worker[fd] = "tested") => May' = May
<1>1. \A g \in Fds \ {fd} : AnswerSoFar(g)' = AnswerSoFar(g)
  BY Unseen DEF Same
<1>2. \A g \in Fds \ {fd} :
        (InCall(g)' <=> InCall(g)) /\ todo'[g] = todo[g] /\ Returned(g)' = Returned(g)
        /\ worker'[g] = worker[g]
  BY DEF Same, Untouched, InCall, Returned
<1>3. Answered' = [Answered EXCEPT ![fd] = AnswerSoFar(fd)']
  BY <1>1 DEF Answered
<1>4. Asks' = [Asks EXCEPT ![fd] = IF InCall(fd)' THEN {Head(todo'[fd])} ELSE {}]
  BY <1>2 DEF Asks
<1>5. Results' = [Results EXCEPT ![fd] = Returned(fd)']
  BY <1>2 DEF Results
<1>6. (worker'[fd] = "tested") = (worker[fd] = "tested") => May' = May
  BY <1>2 DEF May
<1> QED
  BY <1>3, <1>4, <1>5, <1>6

\* A step that the service does not see.
LEMMA OwnStutters ==
  ASSUME NEW fd \in Fds, \A g \in Fds \ {fd} : Same(g), store' = store,
         AnswerSoFar(fd)' = AnswerSoFar(fd), InCall(fd)' <=> InCall(fd),
         todo'[fd] = todo[fd], Returned(fd)' = Returned(fd),
         (worker'[fd] = "tested") = (worker[fd] = "tested")
  PROVE  UNCHANGED Service!vars
<1>1. /\ Answered' = [Answered EXCEPT ![fd] = AnswerSoFar(fd)]
      /\ Asks' = [Asks EXCEPT ![fd] = IF InCall(fd) THEN {Head(todo[fd])} ELSE {}]
      /\ Results' = [Results EXCEPT ![fd] = Returned(fd)]
      /\ May' = May
  BY OwnMaps
<1>2. Answered' = Answered /\ Asks' = Asks /\ Results' = Results
  BY <1>1 DEF Answered, Asks, Results
<1> QED
  BY <1>1, <1>2 DEF Service!vars, Answered, Asks, Results, May

LEMMA SendMaps ==
  ASSUME IInv, NEW fd \in Fds, NEW calls \in Seq(Calls) \ {<< >>}, Send(fd, calls),
         client[fd] \in {"none", "ok", "refused"}, IInv'
  PROVE  Service!Next
<1>1. Quiet(fd) /\ ~ InCall(fd)
  BY CallFacts DEF InCall
<1>2. Head(calls) \in Calls
  BY HeadTailProperties, EmptySeq
<1>3. /\ client' = [client EXCEPT ![fd] = "waiting"]
      /\ todo' = [todo EXCEPT ![fd] = calls]
      /\ received' = [received EXCEPT ![fd] = {}]
      /\ toServer' = [toServer EXCEPT ![fd] = toServer[fd] \o Request(Head(calls))]
      /\ store' = store /\ answer' = answer /\ toClient' = toClient
      /\ worker' = worker /\ rest' = rest
  BY DEF Send, storeVars, workerVars
<1>4. InCall(fd)' /\ todo'[fd] = calls /\ Returned(fd)' = None
  BY <1>3 DEF IInv, TypeOK, InCall, Returned
<1>5. AnswerSoFar(fd)' = None /\ AnswerSoFar(fd) = None
  <2>2. toClient'[fd] = << >> /\ answer'[fd] = None /\ rest'[fd] = << >>
    BY <1>1, <1>3 DEF Quiet, AtRest
  <2>3. toClient'[fd] \o rest'[fd] = << >>
    BY <2>2
  <2>4. ToSet(toClient'[fd] \o rest'[fd]) = {}
    BY <2>3 DEF ToSet
  <2> QED
    BY <1>1, <1>4, <2>2, <2>4 DEF AnswerSoFar
<1>6. \A g \in Fds \ {fd} : Same(g)
  BY <1>3 DEF Same, Untouched, IInv, TypeOK
<1>7. /\ Answered' = Answered /\ May' = May
      /\ Asks' = [Asks EXCEPT ![fd] = {Head(calls)}] /\ Asks[fd] = {}
      /\ Results' = [Results EXCEPT ![fd] = None]
  <2>1. /\ Answered' = [Answered EXCEPT ![fd] = None]
        /\ Asks' = [Asks EXCEPT ![fd] = {Head(calls)}]
        /\ Results' = [Results EXCEPT ![fd] = None]
        /\ May' = May
    BY <1>3, <1>4, <1>5, <1>6, OwnMaps
  <2> QED
    BY <1>1, <1>5, <2>1 DEF Answered, Asks
<1>8. Service!Call(fd, Head(calls))
  BY <1>3, <1>7, SameWords DEF Service!Call, Answered, Asks, Results, May
<1>9. Service!Calls = Calls
  BY DEF Service!Calls, Calls, Service!Ops, Ops
<1> QED
  BY <1>2, <1>8, <1>9 DEF Service!Next

LEMMA ClientMaps ==
  ASSUME IInv, NEW fd \in Fds, Connect(fd) \/ Desert(fd) \/ ClientStep(fd), IInv'
  PROVE  [Service!Next]_(Service!vars)
<1>1. CASE Connect(fd) \/ NextCommand(fd)
  <2>1. PICK command \in Commands : StartCommand(fd, command)
    BY <1>1 DEF Connect, NextCommand
  <2>2. command \in Seq(Calls) \ {<< >>} /\ client[fd] \in {"none", "ok", "refused"}
    BY <1>1, SessionAssumption DEF Connect, Connects, NextCommand
  <2>3. Send(fd, command)
    BY <2>1 DEF StartCommand
  <2> QED
    BY <2>2, <2>3, SendMaps
<1>2. CASE ContinueCommand(fd)
  <2>1. client[fd] = "ok" /\ todo[fd] \in Seq(Calls) \ {<< >>} /\ Send(fd, todo[fd])
    BY <1>2 DEF ContinueCommand, IInv, TypeOK
  <2> QED
    BY <2>1, SendMaps
<1>3. CASE CloseConnection(fd)
  <2>1. /\ client' = [client EXCEPT ![fd] = "gone"]
        /\ todo' = [todo EXCEPT ![fd] = << >>] /\ received' = [received EXCEPT ![fd] = {}]
        /\ store' = store /\ answer' = answer /\ toServer' = toServer /\ toClient' = toClient
        /\ worker' = worker /\ rest' = rest
    BY <1>3 DEF CloseConnection, storeVars, streams, workerVars
  <2>2. ~ InCall(fd)
    BY <1>3 DEF CloseConnection, InCall
  <2>3. ~ InCall(fd)' /\ Returned(fd)' = None
    BY <2>1 DEF IInv, TypeOK, InCall, Returned
  <2>4. AnswerSoFar(fd) = None /\ AnswerSoFar(fd)' = None
    BY <2>2, <2>3, SoFar, SoFarThen DEF Reads
  <2>5. \A g \in Fds \ {fd} : Same(g)
    BY <2>1 DEF Same, Untouched, IInv, TypeOK
  <2>6. /\ Answered' = [Answered EXCEPT ![fd] = None] /\ May' = May
        /\ Asks' = [Asks EXCEPT ![fd] = {}]
        /\ Results' = [Results EXCEPT ![fd] = None]
    BY <2>1, <2>3, <2>4, <2>5, OwnMaps
  <2>7. Answered' = Answered /\ Asks' = Asks /\ Asks[fd] = {}
    BY <2>2, <2>4, <2>6 DEF Answered, Asks
  <2>8. Service!Quit(fd)
    BY <2>1, <2>6, <2>7, SameWords DEF Service!Quit, Answered, Asks, Results, May
  <2> QED
    BY <2>8 DEF Service!Next
<1>4. CASE ReadRefusal(fd) \/ ReadOK(fd)
  <2>1. client[fd] = "waiting" /\ InCall(fd)
    BY <1>4 DEF ReadRefusal, ReadOK, InCall
  <2>2. PICK r \in Response(Head(todo[fd]), toClient[fd]) :
          /\ ReadResponse(fd, r)
          /\ \/ /\ r[1] = "refused" \/ Current(fd).op = "remove"
                /\ client' = [client EXCEPT ![fd] = "refused"]
                /\ todo' = [todo EXCEPT ![fd] = << >>] /\ received' = received
             \/ /\ r[1] = "OK"
                /\ client' = [client EXCEPT ![fd] = "ok"]
                /\ todo' = [todo EXCEPT ![fd] = Tail(todo[fd])]
                /\ received' = [received EXCEPT ![fd] = ToSet(r) \intersect Files]
    BY <1>4 DEF ReadRefusal, ReadOK, Current
  <2>3. /\ toClient' =
             [toClient EXCEPT ![fd] = SubSeq(toClient[fd], Len(r) + 1, Len(toClient[fd]))]
        /\ store' = store /\ answer' = answer /\ toServer' = toServer
        /\ worker' = worker /\ rest' = rest
    BY <2>2 DEF ReadResponse, storeVars, workerVars
  <2>4. /\ Sent(fd) /\ rest[fd] = << >> /\ r = toClient[fd] /\ Current(fd) \in Calls
        /\ \E a : /\ Fits(Current(fd), a) /\ r = <<a.code>> \o Body(Current(fd), a)
                  /\ r[1] = a.code
    BY <2>1, <2>2, ReadFacts, CallFacts
  <2>5. PICK a : /\ Fits(Current(fd), a) /\ r = <<a.code>> \o Body(Current(fd), a)
                 /\ r[1] = a.code
    BY <2>4
  <2>6. AnswerSoFar(fd) = a
    BY <2>1, <2>4, <2>5, SoFar DEF Reads, SentAs
  <2>7. /\ ToSet(r) \intersect Files = a.files
        /\ a.code = "refused" => a = Refused
        /\ a.code = "OK" => a = Ok(a.files)
    BY <2>4, <2>5, StreamMeans
  <2>8. a # None
    BY <2>5 DEF Fits, None
  <2>9. ~ InCall(fd)' /\ (\/ Returned(fd)' = a
                          \/ Current(fd).op = "remove" /\ Returned(fd)' = Refused)
    <3>1. CASE /\ r[1] = "refused" \/ Current(fd).op = "remove"
               /\ client' = [client EXCEPT ![fd] = "refused"]
      <4>1. client'[fd] = "refused"
        BY <3>1 DEF IInv, TypeOK
      <4> QED
        BY <2>5, <2>7, <3>1, <4>1 DEF InCall, Returned
    <3>2. CASE /\ r[1] = "OK"
               /\ client' = [client EXCEPT ![fd] = "ok"]
               /\ received' = [received EXCEPT ![fd] = ToSet(r) \intersect Files]
      <4>1. client'[fd] = "ok" /\ received'[fd] = a.files
        BY <2>7, <3>2 DEF IInv, TypeOK
      <4> QED
        BY <2>5, <2>7, <3>2, <4>1 DEF InCall, Returned
    <3> QED
      BY <2>2, <3>1, <3>2
  <2>10. \A g \in Fds \ {fd} : Same(g)
    BY <2>2, <2>3 DEF Same, Untouched, IInv, TypeOK
  <2>11. AnswerSoFar(fd)' = None
    BY <2>9, SoFarThen DEF Reads
  <2>12. /\ Answered' = [Answered EXCEPT ![fd] = None] /\ May' = May
         /\ Asks' = [Asks EXCEPT ![fd] = {}]
         /\ Results' = [Results EXCEPT ![fd] = Returned(fd)']
    BY <2>3, <2>9, <2>10, <2>11, OwnMaps
  <2>13. Answered[fd] = a /\ Current(fd) \in Asks[fd]
    BY <2>1, <2>6 DEF Answered, Asks, Current
  <2>14. Service!Return(fd)
    BY <2>3, <2>8, <2>9, <2>12, <2>13, SameWords
       DEF Service!Return, Answered, Asks, Results, May
  <2> QED
    BY <2>14 DEF Service!Next
<1>5. CASE Desert(fd)
  <2>1. /\ client' = [client EXCEPT ![fd] = "deserted"] /\ client[fd] = "waiting"
        /\ todo' = todo /\ received' = received
        /\ store' = store /\ answer' = answer /\ toServer' = toServer /\ toClient' = toClient
        /\ worker' = worker /\ rest' = rest
    BY <1>5 DEF Desert, storeVars, streams, workerVars
  <2>2. client'[fd] = "deserted"
    BY <2>1 DEF IInv, TypeOK
  <2>3. InCall(fd) /\ InCall(fd)' /\ Returned(fd)' = None /\ Returned(fd) = None
    BY <2>1, <2>2 DEF InCall, Returned
  <2>4. AnswerSoFar(fd)' = AnswerSoFar(fd)
    BY <2>1, <2>3 DEF AnswerSoFar
  <2>5. \A g \in Fds \ {fd} : Same(g)
    BY <2>1 DEF Same, Untouched, IInv, TypeOK
  <2> QED
    BY <2>1, <2>3, <2>4, <2>5, OwnStutters
<1> QED
  BY <1>1, <1>2, <1>3, <1>4, <1>5 DEF ClientStep

\* Sending an answer changes nothing in the service.
LEMMA AnswerMaps ==
  ASSUME IInv, server = "up", NEW x \in Fds \union {Closed}, NEW fd \in Fds,
         \/ Respond(fd) \/ Forbid(fd) \/ ThrowAwayPayload(fd)
         \/ Notify(x, fd) \/ Finish(fd) \/ Die(fd),
         IInv'
  PROVE  UNCHANGED Service!vars
<1>1. /\ store' = store /\ client' = client /\ todo' = todo /\ received' = received
      /\ \A g \in Fds \ {fd} : Same(g)
      /\ (worker'[fd] = "tested") = (worker[fd] = "tested")
  <2>1. /\ store' = store /\ client' = client /\ todo' = todo /\ received' = received
    BY DEF Respond, Forbid, ThrowAwayPayload, Notify, Finish, Die, storeVars, clientVars
  <2>2. CASE Respond(fd)
    <3>1. /\ answer' = [answer EXCEPT ![fd] = answer'[fd]]
          /\ toServer' = [toServer EXCEPT ![fd] = toServer'[fd]]
          /\ toClient' = [toClient EXCEPT ![fd] = toClient'[fd]]
          /\ rest' = [rest EXCEPT ![fd] = rest'[fd]]
      <4>1. /\ answer' = [answer EXCEPT ![fd] = answer'[fd]]
            /\ toServer' = [toServer EXCEPT ![fd] = toServer'[fd]]
        BY <2>2 DEF Respond, IInv, TypeOK, StoreOK
      <4>2. /\ toClient' = [toClient EXCEPT ![fd] = toClient'[fd]]
            /\ rest' = [rest EXCEPT ![fd] = rest'[fd]]
        BY <2>2 DEF Respond, IInv, TypeOK
      <4> QED
        BY <4>1, <4>2
    <3>2. /\ worker[fd] = "answered" /\ worker'[fd] \in {"none", "notifying"}
          /\ \A g \in Fds \ {fd} : worker'[g] = worker[g]
      BY <2>2 DEF Respond, IInv, TypeOK
    <3>3. \A g \in Fds \ {fd} : /\ answer'[g] = answer[g] /\ toServer'[g] = toServer[g]
                                /\ toClient'[g] = toClient[g] /\ rest'[g] = rest[g]
      BY <3>1 DEF IInv, TypeOK, StoreOK
    <3> QED
      BY <2>1, <3>2, <3>3 DEF Same, Untouched
  <2>3. CASE Notify(x, fd)
    <3>1. /\ answer' = [answer EXCEPT ![fd] = None] /\ toServer' = toServer
          /\ toClient' = [toClient EXCEPT ![fd] = Append(toClient[fd], answer[fd].code)]
          /\ rest' = rest /\ worker' = worker
      BY <2>3 DEF Notify
    <3> QED
      BY <2>1, <3>1 DEF Same, Untouched, IInv, TypeOK, StoreOK
  <2>4. CASE Finish(fd)
    <3>1. /\ answer' = answer /\ toServer' = toServer
          /\ toClient' = [toClient EXCEPT ![fd] = toClient[fd] \o rest[fd]]
          /\ rest' = [rest EXCEPT ![fd] = << >>]
          /\ worker' = [worker EXCEPT ![fd] = "none"] /\ worker[fd] = "notifying"
      BY <2>4 DEF Finish, storeVars
    <3> QED
      BY <2>1, <3>1 DEF Same, Untouched, IInv, TypeOK, StoreOK
  <2>5. CASE Die(fd)
    <3>1. /\ answer' = answer /\ toServer' = toServer /\ toClient' = toClient
          /\ rest' = rest /\ worker' = worker
      BY <2>5 DEF Die, storeVars, streams, workerVars
    <3> QED
      BY <2>1, <3>1 DEF Same, Untouched
  <2>6. CASE Forbid(fd)
    <3>1. /\ answer' = [answer EXCEPT ![fd] = None] /\ toServer' = toServer
          /\ toClient' = [toClient EXCEPT ![fd] = Append(toClient[fd], answer[fd].code)]
          /\ worker' = [worker EXCEPT ![fd] = "discarding"] /\ worker[fd] = "forbidden"
          /\ rest' = rest
      BY <2>6 DEF Forbid
    <3> QED
      BY <2>1, <3>1 DEF Same, Untouched, IInv, TypeOK, StoreOK
  <2>7. CASE ThrowAwayPayload(fd)
    <3>1. /\ answer' = answer /\ toClient' = toClient /\ rest' = rest
          /\ toServer' = [toServer EXCEPT ![fd] = Tail(toServer[fd])]
          /\ worker' = [worker EXCEPT ![fd] = "none"] /\ worker[fd] = "discarding"
      BY <2>7 DEF ThrowAwayPayload, storeVars
    <3> QED
      BY <2>1, <3>1 DEF Same, Untouched, IInv, TypeOK, StoreOK
  <2> QED
    BY <2>2, <2>3, <2>4, <2>5, <2>6, <2>7
<1>2. (InCall(fd)' <=> InCall(fd)) /\ Returned(fd)' = Returned(fd)
  BY <1>1 DEF InCall, Returned
<1>3. AnswerSoFar(fd)' = AnswerSoFar(fd)
  <2>1. CASE Respond(fd)
    <3>1. /\ InCall(fd) /\ Decided(fd) /\ InCall(fd)' /\ Sent(fd)'
          /\ \A a : a = answer[fd] => SentAs(fd, a)'
      BY <2>1, RespondStep
    <3>2. answer[fd] # None
      BY <3>1 DEF Decided, Fits, None
    <3> QED
      BY <3>1, <3>2, SoFar, SoFarThen DEF Reads
  <2>2. CASE Notify(x, fd)
    <3>1. /\ InCall(fd) /\ Released(fd) /\ InCall(fd)' /\ Sent(fd)'
          /\ \A a : a = answer[fd] => SentAs(fd, a)'
      BY <2>2, NotifyStep
    <3>2. answer[fd] # None
      BY <3>1, AnswersAre DEF Released
    <3> QED
      BY <3>1, <3>2, SoFar, SoFarThen DEF Reads
  <2>3. CASE Finish(fd)
    <3> DEFINE T == {"OK", "refused", Content, EndOfFiles} \union Files
    <3>1. toClient[fd] \in Seq(T) /\ rest[fd] \in Seq(T)
      <4>1. toClient[fd] \in Seq(T) /\ rest[fd] \in Seq({Content, EndOfFiles} \union Files)
        BY DEF IInv, TypeOK
      <4> QED
        BY <4>1, SeqWider
    <3>2. toClient'[fd] = toClient[fd] \o rest[fd] /\ rest'[fd] = << >> /\ answer' = answer
      BY <2>3 DEF Finish, IInv, TypeOK, storeVars
    <3> HIDE DEF T
    <3>3. toClient'[fd] \o rest'[fd] = toClient[fd] \o rest[fd]
      BY <3>1, <3>2, ConcatProperties
    <3> QED
      BY <1>2, <3>2, <3>3 DEF AnswerSoFar
  <2>4. CASE Die(fd)
    <3>1. answer' = answer /\ toClient' = toClient /\ rest' = rest
      BY <2>4 DEF Die, storeVars, streams, workerVars
    <3> QED
      BY <1>2, <3>1 DEF AnswerSoFar
  <2>5. CASE Forbid(fd)
    <3>1. /\ InCall(fd) /\ Forbidden(fd) /\ InCall(fd)' /\ Sent(fd)' /\ SentAs(fd, Refused)'
      BY <2>5, ForbidStep
    <3>2. answer[fd] = Refused /\ answer[fd] # None
      BY <3>1, AnswersAre DEF Forbidden
    <3>3. \A a : a = Refused => SentAs(fd, a)'
      BY <3>1
    <3> QED
      BY <3>1, <3>2, <3>3, SoFar, SoFarThen DEF Reads
  <2>6. CASE ThrowAwayPayload(fd)
    <3>1. answer' = answer /\ toClient' = toClient /\ rest' = rest
      BY <2>6 DEF ThrowAwayPayload, storeVars
    <3> QED
      BY <1>2, <3>1 DEF AnswerSoFar
  <2> QED
    BY <2>1, <2>2, <2>3, <2>4, <2>5, <2>6
<1> QED
  BY <1>1, <1>2, <1>3, OwnStutters

LEMMA SettleMaps ==
  ASSUME IInv', NEW fd \in Fds, \A g \in Fds \ {fd} : Untouched(g),
         answer'[fd] = None => AnswerSoFar(fd)' = None,
         NEW a, NEW others, NEW b, Settle(fd, a, others, b), b # None \/ others = {}
  PROVE  Service!Settle(fd, a, others, b)
<1>1. \A g \in Fds : answer'[g] = IF g = fd THEN a ELSE IF g \in others THEN b ELSE answer[g]
  BY DEF Settle
<1>2. \A g \in Fds : answer'[g] # None => AnswerSoFar(g)' = answer'[g]
  BY SoFarThen DEF Reads
<1>3. AnswerSoFar(fd)' = a
  BY <1>1, <1>2
<1>4. ASSUME NEW g \in Fds \ {fd}
      PROVE  AnswerSoFar(g)' = IF g \in others THEN b ELSE AnswerSoFar(g)
  <2>1. CASE g \in others
    BY <1>1, <1>2, <2>1
  <2>2. CASE g \notin others
    BY <1>1, <2>2, Unseen
  <2> QED
    BY <2>1, <2>2
<1>5. Answered' = [g \in Fds |-> IF g = fd THEN a ELSE IF g \in others THEN b ELSE Answered[g]]
  BY <1>3, <1>4 DEF Answered
<1> QED
  BY <1>5 DEF Service!Settle, Answered

\* A handler that runs for a call of fd is the moment at which it takes effect.
LEMMA EffectMaps ==
  ASSUME IInv, NEW fd \in Fds, InCall(fd), Asked(fd) \/ Tested(fd),
         client' = client, todo' = todo, received' = received,
         \A g \in Fds \ {fd} : Untouched(g), worker'[fd] # "tested",
         answer'[fd] = None => toClient'[fd] \o rest'[fd] = << >>,
         Maps(fd) => \/ Service!Handle(fd, Current(fd))
                     \/ Service!WriteFile(fd, Current(fd)),
         IInv'
  PROVE  Service!TakeEffect(fd)
<1>1. AnswerSoFar(fd) = None /\ answer[fd] = None /\ ~ Waiting(fd)
  BY SoFar DEF Reads, Asked, Tested, AtRest, NotHeld
<1>2. answer'[fd] = None => AnswerSoFar(fd)' = None
  <2>1. toClient'[fd] \o rest'[fd] = << >> => ToSet(toClient'[fd] \o rest'[fd]) = {}
    BY DEF ToSet
  <2> QED
    BY <2>1 DEF AnswerSoFar
<1>3. answer' = answer => Answered' = Answered
  <2>1. SUFFICES ASSUME answer' = answer PROVE \A g \in Fds : AnswerSoFar(g)' = AnswerSoFar(g)
    BY DEF Answered
  <2>2. AnswerSoFar(fd)' = AnswerSoFar(fd)
    BY <1>1, <1>2, <2>1
  <2>3. \A g \in Fds \ {fd} : AnswerSoFar(g)' = AnswerSoFar(g)
    BY <2>1, Unseen
  <2> QED
    BY <2>2, <2>3
<1>4. Maps(fd)
  BY <1>2, <1>3, SettleMaps DEF Maps
<1>5. ~ Service!Waits(fd)
  <2>1. \A s : Service!ToSet(s) = ToSet(s)
    BY DEF Service!ToSet, ToSet
  <2> QED
    BY <1>1, <2>1, SameWords DEF Service!Waits, Waiting
<1>6. Asks' = Asks /\ Results' = Results
  BY DEF Asks, Results, InCall, Returned
<1>7. May' = May \ {fd}
  BY DEF May, Untouched
<1>8. Current(fd) \in Asks[fd] /\ Answered[fd] = None
  BY <1>1 DEF Asks, Answered, Current
<1> QED
  BY <1>4, <1>5, <1>6, <1>7, <1>8, SameWords DEF Service!TakeEffect, Asks, Answered, May, Results

LEMMA ServeMaps ==
  ASSUME IInv, NEW fd \in Fds, Serve(fd), IInv'
  PROVE  Service!TakeEffect(fd)
<1> DEFINE call == Current(fd)
<1>1. /\ InCall(fd) /\ Asked(fd) /\ call \in Calls /\ Ready(fd) /\ Head(toServer[fd]) = call
  BY ServeFacts DEF Serve
<1>2. /\ Handle(fd, call) /\ Handled(fd, call)
      /\ toServer' = [toServer EXCEPT ![fd] = toServer'[fd]]
      /\ client' = client /\ todo' = todo /\ received' = received /\ toClient' = toClient
  BY <1>1 DEF Serve, clientVars, IInv, TypeOK
<1>3. \A g \in Fds \ {fd} : Untouched(g)
  BY <1>2 DEF Untouched, Handled, IInv, TypeOK
<1>4. /\ worker'[fd] # "tested"
      /\ rest'[fd] = Body(call, answer'[fd]) /\ toClient'[fd] = << >>
  BY <1>1, <1>2 DEF Handled, Asked, IInv, TypeOK
<1>5. answer'[fd] = None => Body(call, answer'[fd]) = << >>
  BY DEF Body, None
<1>6. Maps(fd) => Service!Handle(fd, call)
  BY <1>2, HandleMaps
<1> HIDE DEF call
<1>7. answer'[fd] = None => toClient'[fd] \o rest'[fd] = << >>
  BY <1>4, <1>5
<1> QED
  BY <1>1, <1>2, <1>3, <1>4, <1>6, <1>7, EffectMaps DEF call

\* The test of a first write either allows it, or is its effect.
LEMMA ServeWriteMaps ==
  ASSUME IInv, NEW fd \in Fds, ServeWrite(fd), IInv'
  PROVE  Service!Allow(fd) \/ Service!TakeEffect(fd)
<1> DEFINE call == Current(fd)
<1>1. /\ InCall(fd) /\ Asked(fd) /\ call \in Calls /\ Head(toServer[fd]) = call
      /\ call.op = "write"
  BY ServeFacts DEF ServeWrite
<1>2. /\ toServer' = [toServer EXCEPT ![fd] = Tail(toServer[fd])]
      /\ client' = client /\ todo' = todo /\ received' = received /\ toClient' = toClient
      /\ rest' = rest
  BY DEF ServeWrite, clientVars
<1>3. rest'[fd] = << >> /\ toClient'[fd] = << >>
  BY <1>1, <1>2 DEF Asked, AtRest
<1>4. CASE /\ TestFirstWrite(fd, call.file)
           /\ worker' = [worker EXCEPT ![fd] = "tested"] /\ store' = store /\ answer' = answer
  <2>1. \A g \in Fds \ {fd} : Untouched(g)
    BY <1>2, <1>4 DEF Untouched, IInv, TypeOK
  <2>2. /\ AnswerSoFar(fd) = None
    BY <1>1, SoFar DEF Reads
  <2>3. AnswerSoFar(fd)' = AnswerSoFar(fd)
    BY <1>2, <1>4 DEF AnswerSoFar, InCall
  <2>4. Answered' = Answered /\ Answered[fd] = None
    <3>1. \A g \in Fds \ {fd} : AnswerSoFar(g)' = AnswerSoFar(g)
      BY <1>4, <2>1, Unseen
    <3> QED
      BY <2>2, <2>3, <3>1 DEF Answered
  <2>5. Asks' = Asks /\ Results' = Results /\ call \in Asks[fd]
    BY <1>1, <1>2 DEF Asks, Results, InCall, Returned, Current
  <2>6. worker'[fd] = "tested"
    BY <1>4 DEF IInv, TypeOK
  <2>7. May' = May \union {fd}
    BY <2>1, <2>6 DEF May, Untouched
  <2>8. Service!TestFirstWrite(fd, call.file)
    BY <1>4, SameWords DEF TestFirstWrite, Service!TestFirstWrite
  <2> QED
    BY <1>1, <1>4, <2>4, <2>5, <2>7, <2>8, SameWords
       DEF Service!Allow, Asks, Answered, May, Results
<1>5. CASE worker' = [worker EXCEPT ![fd] = "forbidden"] /\ Refuse(fd)
  <2>1. \A g \in Fds \ {fd} : Untouched(g)
    BY <1>2, <1>5 DEF Untouched, IInv, TypeOK
  <2>2. Maps(fd) => Service!WriteFile(fd, call)
    BY <1>1, <1>5, AnswersMap DEF Service!WriteFile
  <2>3. worker'[fd] # "tested" /\ toClient'[fd] \o rest'[fd] = << >>
    BY <1>3, <1>5 DEF IInv, TypeOK
  <2> QED
    BY <1>1, <1>2, <2>1, <2>2, <2>3, EffectMaps
<1> QED
  BY <1>1, <1>4, <1>5 DEF ServeWrite

LEMMA WriteTestedMaps ==
  ASSUME IInv, NEW fd \in Fds, WriteTested(fd), IInv'
  PROVE  Service!TakeEffect(fd)
<1> DEFINE call == Current(fd)
<1>1. worker[fd] = "tested"
  BY DEF WriteTested
<1>2. InCall(fd) /\ Tested(fd) /\ call \in Calls
  BY <1>1, CallFacts DEF Quiet, AtRest, Asked, Forbidden, Decided, Parked, Released, Sent
<1>3. /\ call.op = "write" /\ toServer[fd] = <<PayloadOf(call)>> /\ toClient[fd] = << >>
  BY <1>2 DEF Tested
<1>4. Head(toServer[fd]) = PayloadOf(call)
  <2> DEFINE p == PayloadOf(call)
  <2> HIDE DEF p
  <2>1. Head(<<p>>) = p
    OBVIOUS
  <2> QED
    BY <1>3, <2>1 DEF p
<1>5. [op |-> "write", file |-> Head(toServer[fd]).file] = call
      /\ Head(toServer[fd]).file = call.file
  BY <1>2, <1>3, <1>4 DEF PayloadOf, Calls
<1>6. /\ WriteToFile(fd, call.file) /\ Handled(fd, call)
      /\ toServer' = [toServer EXCEPT ![fd] = Tail(toServer[fd])]
      /\ client' = client /\ todo' = todo /\ received' = received /\ toClient' = toClient
  BY <1>5 DEF WriteTested, clientVars
<1>7. \A g \in Fds \ {fd} : Untouched(g)
  BY <1>6 DEF Untouched, Handled, IInv, TypeOK
<1>8. /\ worker'[fd] # "tested"
      /\ rest'[fd] = Body(call, answer'[fd]) /\ toClient'[fd] = << >>
  BY <1>3, <1>6 DEF Handled, IInv, TypeOK
<1>9. answer'[fd] = None => Body(call, answer'[fd]) = << >>
  BY DEF Body, None
<1>10. fd \in May
  BY <1>1 DEF May
<1>11. Maps(fd) => Service!WriteFile(fd, call)
  BY <1>3, <1>6, <1>10, WriteMaps DEF Service!WriteFile, May
<1> HIDE DEF call
<1>12. answer'[fd] = None => toClient'[fd] \o rest'[fd] = << >>
  BY <1>8, <1>9
<1> QED
  BY <1>2, <1>6, <1>7, <1>8, <1>11, <1>12, EffectMaps DEF call

LEMMA ServeExitMaps ==
  ASSUME IInv, NEW fd \in Fds, ServeExit(fd), IInv'
  PROVE  Service!Leave(fd)
<1>1. /\ Quiet(fd) /\ ~ InCall(fd) /\ client[fd] \in Lost
  BY ExitFacts DEF ServeExit
<1>2. /\ ClientExit(fd) /\ client' = [client EXCEPT ![fd] = "none"]
      /\ todo' = todo /\ received' = received /\ toServer' = toServer /\ toClient' = toClient
      /\ worker' = worker /\ rest' = rest
  BY DEF ServeExit, streams
<1>3. client'[fd] = "none" /\ \A g \in Fds \ {fd} : client'[g] = client[g]
  BY <1>2 DEF IInv, TypeOK
<1>4. \A g \in Fds \ {fd} : Untouched(g)
  BY <1>2, <1>3 DEF Untouched
<1>5. ~ InCall(fd)' /\ Returned(fd)' = None /\ Returned(fd) = None
  BY <1>1, <1>3 DEF InCall, Returned, Lost
<1>6. AnswerSoFar(fd)' = None
  BY <1>5, SoFarThen DEF Reads
<1>7. \A others : Settle(fd, None, others, Ok({})) => Service!Settle(fd, None, others, Ok({}))
  BY <1>4, <1>6, AnswersAre, SettleMaps
<1>8. Service!ClientExit(fd)
  BY <1>2, <1>7, ExitMaps
<1>9. \A g \in Fds : (InCall(g)' <=> InCall(g)) /\ Returned(g)' = Returned(g)
  BY <1>1, <1>2, <1>3, <1>5 DEF InCall, Returned
<1>10. Asks' = Asks /\ Results' = Results /\ May' = May
  BY <1>2, <1>9 DEF Asks, Results, May
<1>11. Asks[fd] = {} /\ Results[fd] = None
  BY <1>1, <1>5 DEF Asks, Results
<1> QED
  BY <1>8, <1>10, <1>11, SameWords DEF Service!Leave, Asks, Results, May

-----------------------------------------------------------------------------
\* The refinement

LEMMA ServiceInit == Init => Service!Init
<1> SUFFICES ASSUME Init PROVE Service!Init
  OBVIOUS
<1>1. \A g \in Fds : client[g] = "none" /\ worker[g] = "none"
  BY DEF Init
<1>2. \A g \in Fds : ~ InCall(g) /\ Returned(g) = None
  BY <1>1 DEF InCall, Returned
<1>3. \A g \in Fds : AnswerSoFar(g) = None
  BY <1>2 DEF AnswerSoFar
<1>4. /\ Answered = [g \in Fds |-> None] /\ Asks = [g \in Fds |-> {}]
      /\ May = {} /\ Results = [g \in Fds |-> None]
  BY <1>1, <1>2, <1>3 DEF Answered, Asks, May, Results
<1>5. store = << >>
  BY DEF Init, StoreInit
<1> QED
  BY <1>4, <1>5, SameWords DEF Service!Init, Service!StoreInit, Answered, Asks, May, Results

LEMMA StepMaps == IInv /\ IInv' /\ [Next]_vars => [Service!Next]_(Service!vars)
<1> SUFFICES ASSUME IInv, IInv', [Next]_vars PROVE [Service!Next]_(Service!vars)
  OBVIOUS
<1>1. CASE UNCHANGED vars
  <2>1. /\ store' = store /\ answer' = answer /\ client' = client
        /\ todo' = todo /\ received' = received /\ toClient' = toClient
        /\ worker' = worker /\ rest' = rest
    BY <1>1 DEF vars, storeVars, clientVars, streams, workerVars
  <2>2. \A g \in Fds : /\ AnswerSoFar(g)' = AnswerSoFar(g) /\ (InCall(g)' <=> InCall(g))
                       /\ Returned(g)' = Returned(g)
    BY <2>1 DEF AnswerSoFar, InCall, Returned
  <2>3. Answered' = Answered /\ Asks' = Asks /\ May' = May /\ Results' = Results
    BY <2>1, <2>2 DEF Answered, Asks, May, Results
  <2> QED
    BY <2>1, <2>3 DEF Service!vars, Answered, Asks, May, Results
<1>2. CASE Next
  <2>1. server = "up"
    BY <1>2 DEF Next
  <2>2. CASE \E g \in Fds : Notify(Closed, g)
    BY <2>1, <2>2, AnswerMaps
  <2>3. CASE \E fd \in Fds : Connect(fd) \/ Desert(fd) \/ ClientStep(fd)
    BY <2>3, ClientMaps
  <2>4. CASE \E fd \in Fds : WorkerStep(fd)
    <3>1. PICK fd \in Fds : WorkerStep(fd)
      BY <2>4
    <3>2. CASE Serve(fd) \/ ServeWrite(fd) \/ WriteTested(fd)
      BY <3>2, ServeMaps, ServeWriteMaps, WriteTestedMaps DEF Service!Next
    <3>3. CASE ServeExit(fd)
      BY <3>3, ServeExitMaps DEF Service!Next
    <3>4. CASE Respond(fd) \/ Forbid(fd) \/ ThrowAwayPayload(fd) \/ Finish(fd) \/ Die(fd)
      BY <2>1, <3>4, AnswerMaps
    <3>5. CASE \E g \in Fds : Notify(fd, g)
      BY <2>1, <3>5, AnswerMaps
    <3> QED
      BY <3>1, <3>2, <3>3, <3>4, <3>5 DEF WorkerStep
  <2> QED
    BY <1>2, <2>2, <2>3, <2>4 DEF Next
<1> QED
  BY <1>1, <1>2

\* What the programs see is FileService: every call takes effect once, in one step,
\* between its request and its return, and returns the answer of that step.
THEOREM RefinesFileService == Spec => ImplementsService
<1>1. IInv /\ IInv' /\ [Next]_vars => [Service!Next]_(Service!vars)
  BY StepMaps
<1> QED
  BY <1>1, ServiceInit, Invariant, PTL DEF ImplementsService, Service!Spec, Spec
=============================================================================
