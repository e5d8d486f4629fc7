------------------------ MODULE WorkspaceStoreProofs ------------------------
(***************************************************************************)
(* Theorems about WorkspaceStore for any number of threads, processes,     *)
(* requests, revisions and database files.                                 *)
(***************************************************************************)
EXTENDS WorkspaceStore, SequenceTheorems, TLAPS

(* A thread at work has a request, and a client once it has opened one. *)
InHand ==
    \A w \in Workers :
        /\ pc[w] # "idle" => request[w] \in Requests
        /\ pc[w] \in {"opened", "client", "read", "save", "written"} => connection[w] \in Files

(* What a thread under the locks has in memory is what its file holds, or  *)
(* that with its own command added: no one else has touched the file.      *)
Snapshot ==
    \A w \in Workers :
        /\ pc[w] = "read" => memory[w] = files[connection[w]]
        /\ pc[w] = "save" => /\ memory[w] = Append(files[connection[w]], request[w])
                             /\ expected[w] = Len(files[connection[w]])
        /\ pc[w] = "written" => /\ memory[w] = files[connection[w]]
                                /\ Len(memory[w]) > 0
                                /\ memory[w][Len(memory[w])] = request[w]

(* Every answer ever given is on record in the file it came from. *)
AnswersKept ==
    \A a \in answers : /\ a.revision <= Len(files[a.file])
                        /\ files[a.file][a.revision] = a.request

(* A thread inside goes on under its locks, or leaves and gives both back. *)
Inside == {"locked", "opened", "client", "read", "save", "written"}

LEMMA LocksStay ==
    ASSUME TypeOK, LocksMatchThreads, NEW w \in Workers, NEW step \in Inside,
           pc[w] \in Inside, pc' = [pc EXCEPT ![w] = step], UNCHANGED lockVars
    PROVE  LocksMatchThreads'
<1>1. \A v \in Workers : pc'[v] = IF v = w THEN step ELSE pc[v]
  BY DEF TypeOK
<1>2. QED
  BY <1>1 DEF LocksMatchThreads, lockVars, Inside

LEMMA LocksLeft ==
    ASSUME TypeOK, LocksMatchThreads, NEW w \in Workers,
           pc[w] \in Inside, pc' = [pc EXCEPT ![w] = "idle"], Release(w)
    PROVE  LocksMatchThreads'
<1>1. \A v \in Workers : pc'[v] = IF v = w THEN "idle" ELSE pc[v]
  BY DEF TypeOK
<1>2. /\ fileLock' = NoWorker
      /\ \A q \in Processes :
             threadLock'[q] = IF q = ProcessOf[w] THEN NoWorker ELSE threadLock[q]
  BY DEF Release, TypeOK
<1>3. fileLock = w /\ threadLock[ProcessOf[w]] = w
  BY DEF LocksMatchThreads, Inside
<1>4. QED
  BY <1>1, <1>2, <1>3, WorkerAssumption DEF LocksMatchThreads, Inside

(* Both locks are held by the threads inside, and by no one else. *)
LEMMA LocksNext ==
    TypeOK /\ LocksMatchThreads /\ [Next]_vars => LocksMatchThreads'
<1> SUFFICES ASSUME TypeOK /\ LocksMatchThreads, [Next]_vars
             PROVE  LocksMatchThreads'
  OBVIOUS
<1> USE WorkerAssumption, BoundAssumption
<1>1. ASSUME NEW w \in Workers, NEW r \in Requests, NEW n \in 0..MaxRevision,
             Submit(w, r, n)
      PROVE  LocksMatchThreads'
  BY <1>1 DEF Submit, Goto, LocksMatchThreads, TypeOK, Files, workerVars, lockVars
<1>2. ASSUME NEW w \in Workers, TakeThreadLock(w)
      PROVE  LocksMatchThreads'
  BY <1>2 DEF TakeThreadLock, Goto, LocksMatchThreads, TypeOK, Files, workerVars, lockVars
<1>3. ASSUME NEW w \in Workers, TakeFileLock(w)
      PROVE  LocksMatchThreads'
  BY <1>3 DEF TakeFileLock, Goto, LocksMatchThreads, TypeOK, Files, workerVars, lockVars
<1>4. ASSUME NEW w \in Workers, LockTimeout(w)
      PROVE  LocksMatchThreads'
  <2>1. pc' = [pc EXCEPT ![w] = "idle"]
    BY <1>4 DEF LockTimeout, End, Goto
  <2>2. CASE pc[w] = "thread" /\ UNCHANGED lockVars
    BY <2>1, <2>2 DEF LocksMatchThreads, TypeOK, lockVars
  <2>3. CASE /\ pc[w] = "file"
             /\ threadLock' = [threadLock EXCEPT ![ProcessOf[w]] = NoWorker]
             /\ UNCHANGED fileLock
    <3>1. \A v \in Workers : pc'[v] = IF v = w THEN "idle" ELSE pc[v]
      BY <2>1 DEF TypeOK
    <3>2. \A q \in Processes :
             threadLock'[q] = IF q = ProcessOf[w] THEN NoWorker ELSE threadLock[q]
      BY <2>3 DEF TypeOK
    <3>3. threadLock[ProcessOf[w]] = w
      BY <2>3 DEF LocksMatchThreads
    <3>4. QED
      BY <2>3, <3>1, <3>2, <3>3 DEF LocksMatchThreads
  <2>4. QED
    BY <1>4, <2>2, <2>3 DEF LockTimeout
<1>5. ASSUME NEW w \in Workers, Open(w)
      PROVE  LocksMatchThreads'
  <2>1. /\ pc[w] \in Inside /\ UNCHANGED lockVars
        /\ \E step \in Inside : pc' = [pc EXCEPT ![w] = step]
    BY <1>5 DEF Open, Goto, Inside, lockVars
  <2>2. QED
    BY <2>1, LocksStay
<1>6. ASSUME NEW w \in Workers, Read(w)
      PROVE  LocksMatchThreads'
  <2>1. /\ pc[w] \in Inside /\ UNCHANGED lockVars
        /\ \E step \in Inside : pc' = [pc EXCEPT ![w] = step]
    BY <1>6 DEF Read, Goto, Inside, lockVars
  <2>2. QED
    BY <2>1, LocksStay
<1>7. ASSUME NEW w \in Workers, BackendFails(w)
      PROVE  LocksMatchThreads'
  <2>1. pc[w] \in Inside /\ End(w) /\ Release(w)
    BY <1>7 DEF BackendFails, Fail, Inside
  <2>2. QED
    BY <2>1, LocksLeft DEF End, Goto
<1>8. ASSUME NEW w \in Workers, RefuseReplaced(w)
      PROVE  LocksMatchThreads'
  <2>1. pc[w] \in Inside /\ End(w) /\ Release(w)
    BY <1>8 DEF RefuseReplaced, Fail, Inside
  <2>2. QED
    BY <2>1, LocksLeft DEF End, Goto
<1>9. ASSUME NEW w \in Workers, Replay(w)
      PROVE  LocksMatchThreads'
  <2>1. pc[w] \in Inside /\ End(w) /\ Release(w)
    BY <1>9 DEF Replay, Inside
  <2>2. QED
    BY <2>1, LocksLeft DEF End, Goto
<1>10. ASSUME NEW w \in Workers, Reject(w)
      PROVE  LocksMatchThreads'
  <2>1. pc[w] \in Inside /\ End(w) /\ Release(w)
    BY <1>10 DEF Reject, Fail, Inside
  <2>2. QED
    BY <2>1, LocksLeft DEF End, Goto
<1>11. ASSUME NEW w \in Workers, Change(w)
      PROVE  LocksMatchThreads'
  <2>1. /\ pc[w] \in Inside /\ UNCHANGED lockVars
        /\ \E step \in Inside : pc' = [pc EXCEPT ![w] = step]
    BY <1>11 DEF Change, Goto, Inside, lockVars
  <2>2. QED
    BY <2>1, LocksStay
<1>12. ASSUME NEW w \in Workers, Write(w)
      PROVE  LocksMatchThreads'
  <2>1. /\ pc[w] \in Inside /\ UNCHANGED lockVars
        /\ \E step \in Inside : pc' = [pc EXCEPT ![w] = step]
    BY <1>12 DEF Write, Goto, Inside, lockVars
  <2>2. QED
    BY <2>1, LocksStay
<1>13. ASSUME NEW w \in Workers, WriteUncertain(w)
      PROVE  LocksMatchThreads'
  <2>1. pc[w] \in Inside /\ End(w) /\ Release(w)
    BY <1>13 DEF WriteUncertain, Inside
  <2>2. QED
    BY <2>1, LocksLeft DEF End, Goto
<1>14. ASSUME NEW w \in Workers, Answer(w)
      PROVE  LocksMatchThreads'
  <2>1. pc[w] \in Inside /\ End(w) /\ Release(w)
    BY <1>14 DEF Answer, Inside
  <2>2. QED
    BY <2>1, LocksLeft DEF End, Goto
<1>15. ASSUME NEW w \in Workers, LockFileFails(w)
      PROVE  LocksMatchThreads'
  <2>1. \A v \in Workers : pc'[v] = IF v = w THEN "idle" ELSE pc[v]
    BY <1>15 DEF LockFileFails, End, Goto, TypeOK
  <2>2. /\ pc[w] = "file" /\ UNCHANGED fileLock
        /\ \A q \in Processes :
              threadLock'[q] = IF q = ProcessOf[w] THEN NoWorker ELSE threadLock[q]
    BY <1>15 DEF LockFileFails, TypeOK
  <2>3. threadLock[ProcessOf[w]] = w
    BY <2>2 DEF LocksMatchThreads
  <2>4. QED
    BY <2>1, <2>2, <2>3 DEF LocksMatchThreads
<1>16. ASSUME NEW w \in Workers, Pin(w)
      PROVE  LocksMatchThreads'
  <2>1. /\ pc[w] \in Inside /\ UNCHANGED lockVars
        /\ \E step \in Inside : pc' = [pc EXCEPT ![w] = step]
    BY <1>16 DEF Pin, Goto, Inside, lockVars
  <2>2. QED
    BY <2>1, LocksStay
<1>17. ASSUME NEW p \in Processes, Crash(p)
      PROVE  LocksMatchThreads'
  BY <1>17 DEF Crash, LocksMatchThreads, TypeOK, Files, workerVars, lockVars
<1>18. CASE Replace
  BY <1>18 DEF Replace, LocksMatchThreads, TypeOK, Files, workerVars, lockVars
<1>19. CASE UNCHANGED vars
  BY <1>19 DEF vars, LocksMatchThreads, TypeOK, Files, workerVars, lockVars
<1>20. QED
  BY <1>1, <1>2, <1>3, <1>4, <1>5, <1>6, <1>7, <1>8, <1>9, <1>10, <1>11, <1>12,
     <1>13, <1>14, <1>15, <1>16, <1>17, <1>18, <1>19
     DEF Next, Step

(* A request is kept to the end, a client from its opening on. *)
LEMMA InHandNext ==
    TypeOK /\ InHand /\ [Next]_vars => InHand'
<1> SUFFICES ASSUME TypeOK /\ InHand, [Next]_vars
             PROVE  InHand'
  OBVIOUS
<1> USE WorkerAssumption, BoundAssumption
<1>1. ASSUME NEW w \in Workers, NEW r \in Requests, NEW n \in 0..MaxRevision,
             Submit(w, r, n)
      PROVE  InHand'
  BY <1>1 DEF Submit, Goto, InHand, TypeOK, Files, workerVars, lockVars
<1>2. ASSUME NEW w \in Workers, TakeThreadLock(w)
      PROVE  InHand'
  BY <1>2 DEF TakeThreadLock, Goto, InHand, TypeOK, Files, workerVars, lockVars
<1>3. ASSUME NEW w \in Workers, TakeFileLock(w)
      PROVE  InHand'
  BY <1>3 DEF TakeFileLock, Goto, InHand, TypeOK, Files, workerVars, lockVars
<1>4. ASSUME NEW w \in Workers, LockTimeout(w)
      PROVE  InHand'
  BY <1>4 DEF LockTimeout, End, Goto, InHand, TypeOK, Files, workerVars, lockVars
<1>5. ASSUME NEW w \in Workers, Open(w)
      PROVE  InHand'
  BY <1>5 DEF Open, Goto, InHand, TypeOK, Files, workerVars, lockVars
<1>6. ASSUME NEW w \in Workers, Read(w)
      PROVE  InHand'
  BY <1>6 DEF Read, Goto, InHand, TypeOK, Files, workerVars, lockVars
<1>7. ASSUME NEW w \in Workers, BackendFails(w)
      PROVE  InHand'
  BY <1>7
     DEF BackendFails, Fail, End, Release, Goto, InHand, TypeOK, Files, workerVars,
         lockVars
<1>8. ASSUME NEW w \in Workers, RefuseReplaced(w)
      PROVE  InHand'
  BY <1>8
     DEF RefuseReplaced, Fail, End, Release, Goto, InHand, TypeOK, Files,
         workerVars, lockVars
<1>9. ASSUME NEW w \in Workers, Replay(w)
      PROVE  InHand'
  BY <1>9 DEF Replay, End, Release, Goto, InHand, TypeOK, Files, workerVars, lockVars
<1>10. ASSUME NEW w \in Workers, Reject(w)
      PROVE  InHand'
  BY <1>10
     DEF Reject, Fail, End, Release, Goto, InHand, TypeOK, Files, workerVars,
         lockVars
<1>11. ASSUME NEW w \in Workers, Change(w)
      PROVE  InHand'
  BY <1>11 DEF Change, Goto, InHand, TypeOK, Files, workerVars, lockVars
<1>12. ASSUME NEW w \in Workers, Write(w)
      PROVE  InHand'
  BY <1>12 DEF Write, Goto, InHand, TypeOK, Files, workerVars, lockVars
<1>13. ASSUME NEW w \in Workers, WriteUncertain(w)
      PROVE  InHand'
  BY <1>13
     DEF WriteUncertain, End, Release, Goto, InHand, TypeOK, Files, workerVars,
         lockVars
<1>14. ASSUME NEW w \in Workers, Answer(w)
      PROVE  InHand'
  BY <1>14 DEF Answer, End, Release, Goto, InHand, TypeOK, Files, workerVars, lockVars
<1>15. ASSUME NEW w \in Workers, LockFileFails(w)
      PROVE  InHand'
  BY <1>15 DEF LockFileFails, End, Goto, InHand, TypeOK, Files, workerVars, lockVars
<1>16. ASSUME NEW w \in Workers, Pin(w)
      PROVE  InHand'
  BY <1>16 DEF Pin, Goto, InHand, TypeOK, Files, workerVars, lockVars
<1>17. ASSUME NEW p \in Processes, Crash(p)
      PROVE  InHand'
  BY <1>17 DEF Crash, InHand, TypeOK, Files, workerVars, lockVars
<1>18. CASE Replace
  BY <1>18 DEF Replace, InHand, TypeOK, Files, workerVars, lockVars
<1>19. CASE UNCHANGED vars
  BY <1>19 DEF vars, InHand, TypeOK, Files, workerVars, lockVars
<1>20. QED
  BY <1>1, <1>2, <1>3, <1>4, <1>5, <1>6, <1>7, <1>8, <1>9, <1>10, <1>11, <1>12,
     <1>13, <1>14, <1>15, <1>16, <1>17, <1>18, <1>19
     DEF Next, Step

(* Each action assigns values of the declared kind. *)
LEMMA TypesNext ==
    TypeOK /\ InHand /\ Snapshot /\ [Next]_vars => TypeOK'
<1> SUFFICES ASSUME TypeOK /\ InHand /\ Snapshot, [Next]_vars
             PROVE  TypeOK'
  OBVIOUS
<1> USE WorkerAssumption, BoundAssumption
<1>1. ASSUME NEW w \in Workers, NEW r \in Requests, NEW n \in 0..MaxRevision,
             Submit(w, r, n)
      PROVE  TypeOK'
  BY <1>1 DEF Submit, Goto, TypeOK, Files, workerVars, lockVars
<1>2. ASSUME NEW w \in Workers, TakeThreadLock(w)
      PROVE  TypeOK'
  BY <1>2 DEF TakeThreadLock, Goto, TypeOK, Files, workerVars, lockVars
<1>3. ASSUME NEW w \in Workers, TakeFileLock(w)
      PROVE  TypeOK'
  BY <1>3 DEF TakeFileLock, Goto, TypeOK, Files, workerVars, lockVars
<1>4. ASSUME NEW w \in Workers, LockTimeout(w)
      PROVE  TypeOK'
  <2>1. threadLock' \in [Processes -> Workers \cup {NoWorker}] /\ UNCHANGED fileLock
    BY <1>4 DEF LockTimeout, TypeOK, lockVars
  <2>2. End(w) /\ UNCHANGED <<connection, identity, path, files, answers>>
    BY <1>4 DEF LockTimeout
  <2>3. /\ pc' \in [Workers -> {"idle", "thread", "file", "locked", "opened", "client", "read", "save",
                            "written"}]
        /\ request' \in [Workers -> Requests \cup {NoRequest}]
        /\ expected' \in [Workers -> 0..MaxRevision]
        /\ memory' \in [Workers -> Seq(Requests)]
    BY <2>2 DEF End, Goto, TypeOK
  <2>4. QED
    BY <2>1, <2>2, <2>3 DEF TypeOK
<1>5. ASSUME NEW w \in Workers, Open(w)
      PROVE  TypeOK'
  <2>1. connection' \in [Workers -> 0..MaxFiles]
    BY <1>5 DEF Open, TypeOK, Files
  <2>2. /\ pc' = [pc EXCEPT ![w] = "opened"]
        /\ UNCHANGED <<request, expected, memory, identity, lockVars, path, files, answers>>
    BY <1>5 DEF Open, Goto
  <2>3. QED
    BY <2>1, <2>2 DEF TypeOK, lockVars
<1>6. ASSUME NEW w \in Workers, Read(w)
      PROVE  TypeOK'
  <2>1. connection[w] \in Files
    <3>1. connection[w] \in 0..MaxFiles
      BY DEF TypeOK
    <3>2. connection[w] # 0
      BY <1>6 DEF Read, InHand, Files
    <3>3. QED
      BY <3>1, <3>2 DEF Files
  <2>2. memory' \in [Workers -> Seq(Requests)]
    BY <1>6, <2>1 DEF Read, TypeOK
  <2>3. /\ pc' = [pc EXCEPT ![w] = "read"]
        /\ UNCHANGED <<request, expected, connection, identity, lockVars, path, files, answers>>
    BY <1>6 DEF Read, Goto
  <2>4. QED
    BY <2>2, <2>3 DEF TypeOK, lockVars
<1>7. ASSUME NEW w \in Workers, BackendFails(w)
      PROVE  TypeOK'
  BY <1>7 DEF BackendFails, Fail, End, Release, Goto, TypeOK, Files, workerVars, lockVars
<1>8. ASSUME NEW w \in Workers, RefuseReplaced(w)
      PROVE  TypeOK'
  BY <1>8
     DEF RefuseReplaced, Fail, End, Release, Goto, TypeOK, Files, workerVars,
         lockVars
<1>9. ASSUME NEW w \in Workers, Replay(w)
      PROVE  TypeOK'
  <2>1. pc[w] = "read" /\ End(w) /\ Release(w)
    BY <1>9 DEF Replay
  <2>2. answers' \subseteq [request : Requests, revision : Nat \ {0}, file : Files]
    <3>1. /\ UNCHANGED <<connection, identity, path, files>>
          /\ \E i \in Previous(w) : Answered(w, i)
      BY <1>9 DEF Replay
    <3>2. PICK i \in Previous(w) : Answered(w, i)
      BY <3>1
    <3>3. i \in Nat \ {0} /\ request[w] \in Requests /\ connection[w] \in Files
      BY <2>1 DEF Previous, Revision, InHand, TypeOK
    <3>4. QED
      BY <3>2, <3>3 DEF Answered, TypeOK
  <2>3. UNCHANGED <<connection, identity, path, files>>
    BY <1>9 DEF Replay
  <2>4. QED
    BY <2>1, <2>2, <2>3 DEF End, Release, Goto, TypeOK, Files, workerVars, lockVars
<1>10. ASSUME NEW w \in Workers, Reject(w)
      PROVE  TypeOK'
  BY <1>10 DEF Reject, Fail, End, Release, Goto, TypeOK, Files, workerVars, lockVars
<1>11. ASSUME NEW w \in Workers, Change(w)
      PROVE  TypeOK'
  <2>1. pc[w] = "read" /\ memory[w] \in Seq(Requests) /\ request[w] \in Requests
    BY <1>11 DEF Change, InHand, TypeOK
  <2>2. Append(memory[w], request[w]) \in Seq(Requests)
    BY <2>1, AppendProperties
  <2>3. memory' = [memory EXCEPT ![w] = Append(memory[w], request[w])]
    BY <1>11 DEF Change
  <2>4. memory' \in [Workers -> Seq(Requests)]
    BY <2>2, <2>3 DEF TypeOK
  <2>5. /\ pc' = [pc EXCEPT ![w] = "save"]
        /\ UNCHANGED <<request, expected, connection, identity, lockVars, path, files, answers>>
    BY <1>11 DEF Change, Goto
  <2>6. QED
    BY <2>4, <2>5 DEF TypeOK, Files, lockVars
<1>12. ASSUME NEW w \in Workers, Write(w)
      PROVE  TypeOK'
  <2>1. memory[w] \in Seq(Requests)
    BY DEF TypeOK
  <2>2. files' \in [Files -> Seq(Requests)]
    BY <1>12, <2>1 DEF Write, TypeOK
  <2>3. QED
    BY <1>12, <2>2 DEF Write, End, Release, Goto, TypeOK, Files, workerVars, lockVars
<1>13. ASSUME NEW w \in Workers, WriteUncertain(w)
      PROVE  TypeOK'
  <2>1. memory[w] \in Seq(Requests)
    BY DEF TypeOK
  <2>2. files' = files \/ files' = [files EXCEPT ![connection[w]] = memory[w]]
    BY <1>13 DEF WriteUncertain
  <2>3. files' \in [Files -> Seq(Requests)]
    BY <2>1, <2>2 DEF TypeOK
  <2>4. End(w) /\ Release(w) /\ UNCHANGED <<connection, identity, path, answers>>
    BY <1>13 DEF WriteUncertain
  <2>5. /\ pc' \in [Workers -> {"idle", "thread", "file", "locked", "opened", "client", "read", "save",
                                "written"}]
        /\ request' \in [Workers -> Requests \cup {NoRequest}]
        /\ expected' \in [Workers -> 0..MaxRevision]
        /\ memory' \in [Workers -> Seq(Requests)]
    BY <2>4 DEF End, Goto, TypeOK
  <2>6. /\ threadLock' \in [Processes -> Workers \cup {NoWorker}]
        /\ fileLock' \in Workers \cup {NoWorker}
    BY <2>4 DEF Release, TypeOK
  <2>7. QED
    BY <2>3, <2>4, <2>5, <2>6 DEF TypeOK
<1>14. ASSUME NEW w \in Workers, Answer(w)
      PROVE  TypeOK'
  <2>1. pc[w] = "written" /\ Answered(w, Len(memory[w])) /\ End(w) /\ Release(w)
        /\ UNCHANGED <<connection, identity, path, files>>
    BY <1>14 DEF Answer, Revision
  <2>2. Len(memory[w]) \in Nat \ {0} /\ request[w] \in Requests /\ connection[w] \in Files
    BY <2>1 DEF InHand, Snapshot, TypeOK
  <2>3. answers' \subseteq [request : Requests, revision : Nat \ {0}, file : Files]
    BY <2>1, <2>2 DEF Answered, TypeOK
  <2>4. QED
    BY <2>1, <2>3 DEF End, Release, Goto, TypeOK, Files, workerVars, lockVars
<1>15. ASSUME NEW w \in Workers, LockFileFails(w)
      PROVE  TypeOK'
  <2>1. threadLock' \in [Processes -> Workers \cup {NoWorker}]
    BY <1>15 DEF LockFileFails, TypeOK
  <2>2. End(w) /\ UNCHANGED <<connection, identity, fileLock, path, files, answers>>
    BY <1>15 DEF LockFileFails
  <2>3. /\ pc' \in [Workers -> {"idle", "thread", "file", "locked", "opened", "client", "read", "save",
                            "written"}]
        /\ request' \in [Workers -> Requests \cup {NoRequest}]
        /\ expected' \in [Workers -> 0..MaxRevision]
        /\ memory' \in [Workers -> Seq(Requests)]
    BY <2>2 DEF End, Goto, TypeOK
  <2>4. QED
    BY <2>1, <2>2, <2>3 DEF TypeOK
<1>16. ASSUME NEW w \in Workers, Pin(w)
      PROVE  TypeOK'
  <2>1. identity' \in [Processes -> 0..MaxFiles]
    BY <1>16 DEF Pin, TypeOK, Files
  <2>2. /\ pc' = [pc EXCEPT ![w] = "client"]
        /\ UNCHANGED <<request, expected, memory, connection, lockVars, path, files, answers>>
    BY <1>16 DEF Pin, Goto
  <2>3. QED
    BY <2>1, <2>2 DEF TypeOK, lockVars
<1>17. ASSUME NEW p \in Processes, Crash(p)
      PROVE  TypeOK'
  BY <1>17 DEF Crash, TypeOK, Files, workerVars, lockVars
<1>18. CASE Replace
  <2>1. path' \in Files
    BY <1>18 DEF Replace, TypeOK, Files
  <2>2. UNCHANGED <<workerVars, identity, lockVars, files, answers>>
    BY <1>18 DEF Replace
  <2>3. QED
    BY <2>1, <2>2 DEF TypeOK, workerVars, lockVars
<1>19. CASE UNCHANGED vars
  BY <1>19 DEF vars, TypeOK, Files, workerVars, lockVars
<1>20. QED
  BY <1>1, <1>2, <1>3, <1>4, <1>5, <1>6, <1>7, <1>8, <1>9, <1>10, <1>11, <1>12,
     <1>13, <1>14, <1>15, <1>16, <1>17, <1>18, <1>19
     DEF Next, Step

(* One thread at a time is inside. *)
LEMMA OneInside ==
    ASSUME LocksMatchThreads, NEW v \in Workers, NEW w \in Workers,
           pc[v] \in {"locked", "opened", "client", "read", "save", "written"},
           pc[w] \in {"locked", "opened", "client", "read", "save", "written"}
    PROVE  v = w
  BY DEF LocksMatchThreads

(* Only the thread inside writes, so what it loaded stays true. *)
LEMMA SnapshotNext ==
    TypeOK /\ InHand /\ LocksMatchThreads /\ Snapshot /\ [Next]_vars => Snapshot'
<1> SUFFICES ASSUME TypeOK /\ InHand /\ LocksMatchThreads /\ Snapshot, [Next]_vars
             PROVE  Snapshot'
  OBVIOUS
<1> USE WorkerAssumption, BoundAssumption
<1>1. ASSUME NEW w \in Workers, NEW r \in Requests, NEW n \in 0..MaxRevision,
             Submit(w, r, n)
      PROVE  Snapshot'
  BY <1>1 DEF Submit, Goto, Snapshot, TypeOK, workerVars, lockVars
<1>2. ASSUME NEW w \in Workers, TakeThreadLock(w)
      PROVE  Snapshot'
  BY <1>2 DEF TakeThreadLock, Goto, Snapshot, TypeOK, workerVars, lockVars
<1>3. ASSUME NEW w \in Workers, TakeFileLock(w)
      PROVE  Snapshot'
  BY <1>3 DEF TakeFileLock, Goto, Snapshot, TypeOK, workerVars, lockVars
<1>4. ASSUME NEW w \in Workers, LockTimeout(w)
      PROVE  Snapshot'
  <2>1. End(w) /\ UNCHANGED <<connection, files>>
    BY <1>4 DEF LockTimeout
  <2>2. QED
    BY <2>1 DEF End, Goto, Snapshot, TypeOK
<1>5. ASSUME NEW w \in Workers, Open(w)
      PROVE  Snapshot'
  BY <1>5 DEF Open, Goto, Snapshot, TypeOK, workerVars, lockVars
<1>6. ASSUME NEW w \in Workers, Read(w)
      PROVE  Snapshot'
  BY <1>6 DEF Read, Goto, Snapshot, TypeOK, workerVars, lockVars
<1>7. ASSUME NEW w \in Workers, BackendFails(w)
      PROVE  Snapshot'
  BY <1>7
     DEF BackendFails, Fail, End, Release, Goto, Snapshot, TypeOK, workerVars,
         lockVars
<1>8. ASSUME NEW w \in Workers, RefuseReplaced(w)
      PROVE  Snapshot'
  <2>1. End(w) /\ UNCHANGED <<connection, files>>
    BY <1>8 DEF RefuseReplaced, Fail
  <2>2. QED
    BY <2>1 DEF End, Goto, Snapshot, TypeOK
<1>9. ASSUME NEW w \in Workers, Replay(w)
      PROVE  Snapshot'
  <2>1. End(w) /\ UNCHANGED <<connection, files>>
    BY <1>9 DEF Replay
  <2>2. QED
    BY <2>1 DEF End, Goto, Snapshot, TypeOK
<1>10. ASSUME NEW w \in Workers, Reject(w)
      PROVE  Snapshot'
  <2>1. End(w) /\ UNCHANGED <<connection, files>>
    BY <1>10 DEF Reject, Fail
  <2>2. QED
    BY <2>1 DEF End, Goto, Snapshot, TypeOK
<1>11. ASSUME NEW w \in Workers, Change(w)
      PROVE  Snapshot'
  <2>1. /\ pc[w] = "read"
        /\ memory' = [memory EXCEPT ![w] = Append(memory[w], request[w])]
        /\ pc' = [pc EXCEPT ![w] = "save"]
        /\ UNCHANGED <<request, expected, connection, files>>
    BY <1>11 DEF Change, Goto
  <2>2. MayApply(w)
    BY <1>11 DEF Change
  <2>3. expected[w] = Len(memory[w])
    BY <2>2 DEF MayApply, Revision
  <2>4. memory[w] = files[connection[w]]
    BY <2>1 DEF Snapshot
  <2>5. QED
    BY <2>1, <2>3, <2>4 DEF Snapshot, TypeOK
<1>12. ASSUME NEW w \in Workers, Write(w)
      PROVE  Snapshot'
  <2>1. /\ pc[w] = "save" /\ pc' = [pc EXCEPT ![w] = "written"]
        /\ files' = [files EXCEPT ![connection[w]] = memory[w]]
        /\ UNCHANGED <<request, expected, memory, connection>>
    BY <1>12 DEF Write, Goto
  <2>2. \A v \in Workers \ {w} : pc[v] \notin {"read", "save", "written"}
    BY <2>1, OneInside
  <2>3. /\ files[connection[w]] \in Seq(Requests) /\ request[w] \in Requests
        /\ connection[w] \in Files
        /\ memory[w] = Append(files[connection[w]], request[w])
    BY <2>1 DEF Snapshot, InHand, TypeOK
  <2>4. /\ Len(memory[w]) > 0
        /\ memory[w][Len(memory[w])] = request[w]
    BY <2>3, AppendProperties
  <2>5. QED
    BY <2>1, <2>2, <2>3, <2>4 DEF Snapshot, TypeOK
<1>13. ASSUME NEW w \in Workers, WriteUncertain(w)
      PROVE  Snapshot'
  <2>1. pc[w] = "save" /\ pc' = [pc EXCEPT ![w] = "idle"]
    BY <1>13 DEF WriteUncertain, End, Goto
  <2>2. \A v \in Workers \ {w} : pc[v] \notin {"read", "save", "written"}
    BY <2>1, OneInside
  <2>3. QED
    BY <2>1, <2>2 DEF Snapshot, TypeOK
<1>14. ASSUME NEW w \in Workers, Answer(w)
      PROVE  Snapshot'
  BY <1>14 DEF Answer, End, Release, Goto, Snapshot, TypeOK, workerVars, lockVars
<1>15. ASSUME NEW w \in Workers, LockFileFails(w)
      PROVE  Snapshot'
  <2>1. End(w) /\ UNCHANGED <<connection, files>>
    BY <1>15 DEF LockFileFails
  <2>2. QED
    BY <2>1 DEF End, Goto, Snapshot, TypeOK
<1>16. ASSUME NEW w \in Workers, Pin(w)
      PROVE  Snapshot'
  BY <1>16 DEF Pin, Goto, Snapshot, TypeOK, workerVars, lockVars
<1>17. ASSUME NEW p \in Processes, Crash(p)
      PROVE  Snapshot'
  BY <1>17 DEF Crash, Snapshot, TypeOK, workerVars, lockVars
<1>18. CASE Replace
  BY <1>18 DEF Replace, Snapshot, TypeOK, workerVars, lockVars
<1>19. CASE UNCHANGED vars
  BY <1>19 DEF vars, Snapshot, TypeOK, workerVars, lockVars
<1>20. QED
  BY <1>1, <1>2, <1>3, <1>4, <1>5, <1>6, <1>7, <1>8, <1>9, <1>10, <1>11, <1>12,
     <1>13, <1>14, <1>15, <1>16, <1>17, <1>18, <1>19
     DEF Next, Step

(* File f stays as it is, or takes one command of a thread that claimed    *)
(* to have seen its revision.                                              *)
GrowsByOne(f) ==
    \/ files'[f] = files[f]
    \/ \E w \in Workers : /\ request[w] \in Requests
                          /\ files'[f] = Append(files[f], request[w])
                          /\ expected[w] = Len(files[f])

(* No action does more to a file than add that command. *)
LEMMA FilesGrow ==
    TypeOK /\ InHand /\ Snapshot /\ [Next]_vars => \A f \in Files : GrowsByOne(f)
<1> SUFFICES ASSUME TypeOK /\ InHand /\ Snapshot, [Next]_vars
             PROVE  \A f \in Files : GrowsByOne(f)
  OBVIOUS
<1> USE WorkerAssumption, BoundAssumption
<1>1. ASSUME NEW w \in Workers, NEW r \in Requests, NEW n \in 0..MaxRevision,
             Submit(w, r, n)
      PROVE  \A f \in Files : GrowsByOne(f)
  BY <1>1 DEF Submit, GrowsByOne
<1>2. ASSUME NEW w \in Workers, TakeThreadLock(w)
      PROVE  \A f \in Files : GrowsByOne(f)
  BY <1>2 DEF TakeThreadLock, GrowsByOne
<1>3. ASSUME NEW w \in Workers, TakeFileLock(w)
      PROVE  \A f \in Files : GrowsByOne(f)
  BY <1>3 DEF TakeFileLock, GrowsByOne
<1>4. ASSUME NEW w \in Workers, LockTimeout(w)
      PROVE  \A f \in Files : GrowsByOne(f)
  BY <1>4 DEF LockTimeout, GrowsByOne
<1>5. ASSUME NEW w \in Workers, Open(w)
      PROVE  \A f \in Files : GrowsByOne(f)
  BY <1>5 DEF Open, GrowsByOne
<1>6. ASSUME NEW w \in Workers, Read(w)
      PROVE  \A f \in Files : GrowsByOne(f)
  BY <1>6 DEF Read, GrowsByOne
<1>7. ASSUME NEW w \in Workers, BackendFails(w)
      PROVE  \A f \in Files : GrowsByOne(f)
  BY <1>7 DEF BackendFails, Fail, GrowsByOne
<1>8. ASSUME NEW w \in Workers, RefuseReplaced(w)
      PROVE  \A f \in Files : GrowsByOne(f)
  BY <1>8 DEF RefuseReplaced, Fail, GrowsByOne
<1>9. ASSUME NEW w \in Workers, Replay(w)
      PROVE  \A f \in Files : GrowsByOne(f)
  BY <1>9 DEF Replay, GrowsByOne
<1>10. ASSUME NEW w \in Workers, Reject(w)
      PROVE  \A f \in Files : GrowsByOne(f)
  BY <1>10 DEF Reject, Fail, GrowsByOne
<1>11. ASSUME NEW w \in Workers, Change(w)
      PROVE  \A f \in Files : GrowsByOne(f)
  BY <1>11 DEF Change, GrowsByOne
<1>12. ASSUME NEW w \in Workers, Write(w)
      PROVE  \A f \in Files : GrowsByOne(f)
  <2>1. /\ pc[w] = "save"
        /\ files' = files \/ files' = [files EXCEPT ![connection[w]] = memory[w]]
    BY <1>12 DEF Write
  <2>2. /\ request[w] \in Requests /\ connection[w] \in Files
        /\ memory[w] = Append(files[connection[w]], request[w])
        /\ expected[w] = Len(files[connection[w]])
    BY <2>1 DEF Snapshot, InHand
  <2>3. QED
    BY <2>1, <2>2 DEF GrowsByOne, TypeOK
<1>13. ASSUME NEW w \in Workers, WriteUncertain(w)
      PROVE  \A f \in Files : GrowsByOne(f)
  <2>1. /\ pc[w] = "save"
        /\ files' = files \/ files' = [files EXCEPT ![connection[w]] = memory[w]]
    BY <1>13 DEF WriteUncertain
  <2>2. /\ request[w] \in Requests /\ connection[w] \in Files
        /\ memory[w] = Append(files[connection[w]], request[w])
        /\ expected[w] = Len(files[connection[w]])
    BY <2>1 DEF Snapshot, InHand
  <2>3. QED
    BY <2>1, <2>2 DEF GrowsByOne, TypeOK
<1>14. ASSUME NEW w \in Workers, Answer(w)
      PROVE  \A f \in Files : GrowsByOne(f)
  BY <1>14 DEF Answer, GrowsByOne
<1>15. ASSUME NEW w \in Workers, LockFileFails(w)
      PROVE  \A f \in Files : GrowsByOne(f)
  BY <1>15 DEF LockFileFails, GrowsByOne
<1>16. ASSUME NEW w \in Workers, Pin(w)
      PROVE  \A f \in Files : GrowsByOne(f)
  BY <1>16 DEF Pin, GrowsByOne
<1>17. ASSUME NEW p \in Processes, Crash(p)
      PROVE  \A f \in Files : GrowsByOne(f)
  BY <1>17 DEF Crash, GrowsByOne
<1>18. CASE Replace
  BY <1>18 DEF Replace, GrowsByOne
<1>19. CASE UNCHANGED vars
  BY <1>19 DEF vars, GrowsByOne
<1>20. QED
  BY <1>1, <1>2, <1>3, <1>4, <1>5, <1>6, <1>7, <1>8, <1>9, <1>10, <1>11, <1>12,
     <1>13, <1>14, <1>15, <1>16, <1>17, <1>18, <1>19
     DEF Next, Step

(* Files only grow, so what was answered stays on record. *)
LEMMA AnswersNext ==
    TypeOK /\ InHand /\ Snapshot /\ AnswersKept /\ [Next]_vars => AnswersKept'
<1> SUFFICES ASSUME TypeOK /\ InHand /\ Snapshot /\ AnswersKept, [Next]_vars
             PROVE  AnswersKept'
  OBVIOUS
<1>0. \A a \in answers : /\ a.revision <= Len(files'[a.file])
                          /\ files'[a.file][a.revision] = a.request
  <2> SUFFICES ASSUME NEW a \in answers
               PROVE  /\ a.revision <= Len(files'[a.file])
                      /\ files'[a.file][a.revision] = a.request
    OBVIOUS
  <2>1. /\ a.file \in Files /\ a.revision \in Nat \ {0}
        /\ files[a.file] \in Seq(Requests)
    BY DEF TypeOK
  <2>2. GrowsByOne(a.file)
    BY <2>1, FilesGrow
  <2>3. a.revision <= Len(files[a.file]) /\ files[a.file][a.revision] = a.request
    BY DEF AnswersKept
  <2>4. QED
    BY <2>1, <2>2, <2>3, AppendProperties DEF GrowsByOne
<1>1. ASSUME NEW w \in Workers, NEW r \in Requests, NEW n \in 0..MaxRevision,
             Submit(w, r, n)
      PROVE  AnswersKept'
  <2>1. answers' = answers
    BY <1>1 DEF Submit
  <2>2. QED
    BY <2>1, <1>0 DEF AnswersKept
<1>2. ASSUME NEW w \in Workers, TakeThreadLock(w)
      PROVE  AnswersKept'
  <2>1. answers' = answers
    BY <1>2 DEF TakeThreadLock
  <2>2. QED
    BY <2>1, <1>0 DEF AnswersKept
<1>3. ASSUME NEW w \in Workers, TakeFileLock(w)
      PROVE  AnswersKept'
  <2>1. answers' = answers
    BY <1>3 DEF TakeFileLock
  <2>2. QED
    BY <2>1, <1>0 DEF AnswersKept
<1>4. ASSUME NEW w \in Workers, LockTimeout(w)
      PROVE  AnswersKept'
  <2>1. answers' = answers
    BY <1>4 DEF LockTimeout
  <2>2. QED
    BY <2>1, <1>0 DEF AnswersKept
<1>5. ASSUME NEW w \in Workers, Open(w)
      PROVE  AnswersKept'
  <2>1. answers' = answers
    BY <1>5 DEF Open
  <2>2. QED
    BY <2>1, <1>0 DEF AnswersKept
<1>6. ASSUME NEW w \in Workers, Read(w)
      PROVE  AnswersKept'
  <2>1. answers' = answers
    BY <1>6 DEF Read
  <2>2. QED
    BY <2>1, <1>0 DEF AnswersKept
<1>7. ASSUME NEW w \in Workers, BackendFails(w)
      PROVE  AnswersKept'
  <2>1. answers' = answers
    BY <1>7 DEF BackendFails, Fail
  <2>2. QED
    BY <2>1, <1>0 DEF AnswersKept
<1>8. ASSUME NEW w \in Workers, RefuseReplaced(w)
      PROVE  AnswersKept'
  <2>1. answers' = answers
    BY <1>8 DEF RefuseReplaced, Fail
  <2>2. QED
    BY <2>1, <1>0 DEF AnswersKept
<1>9. ASSUME NEW w \in Workers, Replay(w)
      PROVE  AnswersKept'
  <2>1. pc[w] = "read" /\ files' = files
    BY <1>9 DEF Replay
  <2>2. PICK i \in Previous(w) : memory[w][i] = request[w] /\ Answered(w, i)
    BY <1>9 DEF Replay
  <2>3. /\ i \in 1..Len(files[connection[w]])
        /\ files[connection[w]][i] = request[w]
    BY <2>1, <2>2 DEF Snapshot, Previous, Revision
  <2>4. QED
    BY <2>1, <2>2, <2>3 DEF Answered, AnswersKept
<1>10. ASSUME NEW w \in Workers, Reject(w)
      PROVE  AnswersKept'
  <2>1. answers' = answers
    BY <1>10 DEF Reject, Fail
  <2>2. QED
    BY <2>1, <1>0 DEF AnswersKept
<1>11. ASSUME NEW w \in Workers, Change(w)
      PROVE  AnswersKept'
  <2>1. answers' = answers
    BY <1>11 DEF Change
  <2>2. QED
    BY <2>1, <1>0 DEF AnswersKept
<1>12. ASSUME NEW w \in Workers, Write(w)
      PROVE  AnswersKept'
  <2>1. answers' = answers
    BY <1>12 DEF Write
  <2>2. QED
    BY <2>1, <1>0 DEF AnswersKept
<1>13. ASSUME NEW w \in Workers, WriteUncertain(w)
      PROVE  AnswersKept'
  <2>1. answers' = answers
    BY <1>13 DEF WriteUncertain
  <2>2. QED
    BY <2>1, <1>0 DEF AnswersKept
<1>14. ASSUME NEW w \in Workers, Answer(w)
      PROVE  AnswersKept'
  <2>1. pc[w] = "written" /\ files' = files /\ Answered(w, Len(memory[w]))
    BY <1>14 DEF Answer, Revision
  <2>2. QED
    BY <2>1 DEF Answered, AnswersKept, Snapshot
<1>15. ASSUME NEW w \in Workers, LockFileFails(w)
      PROVE  AnswersKept'
  <2>1. answers' = answers
    BY <1>15 DEF LockFileFails
  <2>2. QED
    BY <2>1, <1>0 DEF AnswersKept
<1>16. ASSUME NEW w \in Workers, Pin(w)
      PROVE  AnswersKept'
  <2>1. answers' = answers
    BY <1>16 DEF Pin
  <2>2. QED
    BY <2>1, <1>0 DEF AnswersKept
<1>17. ASSUME NEW p \in Processes, Crash(p)
      PROVE  AnswersKept'
  <2>1. answers' = answers
    BY <1>17 DEF Crash
  <2>2. QED
    BY <2>1, <1>0 DEF AnswersKept
<1>18. CASE Replace
  <2>1. answers' = answers
    BY <1>18 DEF Replace
  <2>2. QED
    BY <2>1, <1>0 DEF AnswersKept
<1>19. CASE UNCHANGED vars
  <2>1. answers' = answers
    BY <1>19 DEF vars
  <2>2. QED
    BY <2>1, <1>0 DEF AnswersKept
<1>20. QED
  BY <1>1, <1>2, <1>3, <1>4, <1>5, <1>6, <1>7, <1>8, <1>9, <1>10, <1>11, <1>12,
     <1>13, <1>14, <1>15, <1>16, <1>17, <1>18, <1>19
     DEF Next, Step

(* What every reachable state satisfies. *)
StoreInv == TypeOK /\ InHand /\ LocksMatchThreads /\ Snapshot /\ AnswersKept

(* It holds at the start, before any request. *)
LEMMA StoreInvInit == Init => StoreInv
  BY WorkerAssumption, BoundAssumption
     DEF Init, StoreInv, TypeOK, InHand, LocksMatchThreads, Snapshot, AnswersKept, Files

(* No action breaks it. *)
LEMMA StoreInvNext == StoreInv /\ [Next]_vars => StoreInv'
  BY TypesNext, InHandNext, LocksNext, SnapshotNext, AnswersNext DEF StoreInv

(* Hence it always holds. *)
LEMMA StoreInvHolds == Spec => []StoreInv
  BY StoreInvInit, StoreInvNext, PTL DEF Spec

(* Every reachable state is well typed, whatever the number of threads,    *)
(* processes, files and requests.                                          *)
THEOREM StoreTypeCorrect == Spec => []TypeOK
<1>1. StoreInv => TypeOK
  BY DEF StoreInv
<1>2. QED
  BY <1>1, StoreInvHolds, PTL

(* SibylWorkspaceStore.transaction excludes, and gives both locks back on  *)
(* every way out of it.                                                    *)
THEOREM LocksAreExclusive == Spec => []LocksMatchThreads
<1>1. StoreInv => LocksMatchThreads
  BY DEF StoreInv
<1>2. QED
  BY <1>1, StoreInvHolds, PTL

(* What _mutate answered is on record for as long as the file stays.       *)
THEOREM AnswersAreRecorded == Spec => []AnsweredIsRecorded
<1>1. StoreInv => AnsweredIsRecorded
  BY DEF StoreInv, AnswersKept, AnsweredIsRecorded
<1>2. QED
  BY <1>1, StoreInvHolds, PTL

LEMMA PrefixOfItself ==
    ASSUME NEW S, NEW s \in Seq(S)
    PROVE  IsPrefix(s, s) /\ Len(s) \in Nat
<1>1. SubSeq(s, 1, Len(s)) = s
  BY SubSeqFull
<1>2. QED
  BY <1>1 DEF IsPrefix

(* ... and of itself with one thing added. *)
LEMMA PrefixOfAppend ==
    ASSUME NEW S, NEW s \in Seq(S), NEW e \in S
    PROVE  IsPrefix(s, Append(s, e))
<1>1. /\ Append(s, e) \in Seq(S) /\ Len(Append(s, e)) = Len(s) + 1
      /\ \A i \in 1..Len(s) : Append(s, e)[i] = s[i]
  BY AppendProperties
<1>2. SubSeq(Append(s, e), 1, Len(s)) = s
  BY <1>1, SubSeqProperties
<1>3. QED
  BY <1>1, <1>2 DEF IsPrefix

(* No step of any thread undoes or overwrites a saved command.             *)
THEOREM NothingIsLost == Spec => NoLostUpdate
<1>1. ASSUME StoreInv, [Next]_vars
      PROVE  [\A f \in Files : /\ IsPrefix(files[f], files'[f])
                               /\ Len(files'[f]) <= Len(files[f]) + 1]_vars
  <2> SUFFICES ASSUME NEW f \in Files
               PROVE  IsPrefix(files[f], files'[f]) /\ Len(files'[f]) <= Len(files[f]) + 1
    OBVIOUS
  <2>1. files[f] \in Seq(Requests) /\ GrowsByOne(f)
    BY <1>1, FilesGrow DEF StoreInv, TypeOK
  <2>2. CASE files'[f] = files[f]
    BY <2>1, <2>2, PrefixOfItself
  <2>3. CASE \E w \in Workers : request[w] \in Requests /\ files'[f] = Append(files[f], request[w])
    BY <2>1, <2>3, PrefixOfAppend, AppendProperties
  <2>4. QED
    BY <2>1, <2>2, <2>3 DEF GrowsByOne
<1>2. QED
  BY <1>1, StoreInvHolds, PTL DEF Spec, NoLostUpdate

(* expected_revision is compared under the same lock the save is made      *)
(* under: a command never lands on a revision its caller had not seen.     *)
THEOREM CommandsLandAsSeen == Spec => AppliedAsSeen
<1>1. ASSUME StoreInv, [Next]_vars
      PROVE  [\A f \in Files : files'[f] # files[f] =>
                \E w \in Workers : /\ expected[w] = Len(files[f])
                                   /\ request[w] = files'[f][Len(files'[f])]]_vars
  <2> SUFFICES ASSUME NEW f \in Files, files'[f] # files[f]
               PROVE  \E w \in Workers : /\ expected[w] = Len(files[f])
                                         /\ request[w] = files'[f][Len(files'[f])]
    OBVIOUS
  <2>1. files[f] \in Seq(Requests) /\ GrowsByOne(f)
    BY <1>1, FilesGrow DEF StoreInv, TypeOK
  <2>2. PICK w \in Workers : /\ request[w] \in Requests
                             /\ files'[f] = Append(files[f], request[w])
                             /\ expected[w] = Len(files[f])
    BY <2>1 DEF GrowsByOne
  <2>3. QED
    BY <2>1, <2>2, AppendProperties
<1>2. QED
  BY <1>1, StoreInvHolds, PTL DEF Spec, AppliedAsSeen

(* The steps by what they show: nothing, a client, a write, an answer, a   *)
(* crash, another file.                                                    *)
LEMMA StepKinds ==
    ASSUME [Next]_vars
    PROVE  \/ UNCHANGED <<connection, path, files, answers>>
           \/ \E w \in Workers : Open(w)
           \/ \E w \in Workers : Write(w) \/ WriteUncertain(w)
           \/ \E w \in Workers : Replay(w) \/ Answer(w)
           \/ \E p \in Processes : Crash(p)
           \/ Replace
<1>1. ASSUME NEW w \in Workers, NEW r \in Requests, NEW n \in 0..MaxRevision,
             Submit(w, r, n)
      PROVE  UNCHANGED <<connection, path, files, answers>>
  BY <1>1 DEF Submit
<1>2. ASSUME NEW w \in Workers, TakeThreadLock(w) \/ TakeFileLock(w) \/ LockTimeout(w) \/ LockFileFails(w)
      PROVE  UNCHANGED <<connection, path, files, answers>>
  BY <1>2 DEF TakeThreadLock, TakeFileLock, LockTimeout, LockFileFails
<1>3. ASSUME NEW w \in Workers,
             Pin(w) \/ Read(w) \/ BackendFails(w) \/ RefuseReplaced(w) \/ Reject(w) \/ Change(w)
      PROVE  UNCHANGED <<connection, path, files, answers>>
  BY <1>3 DEF Pin, Read, BackendFails, RefuseReplaced, Reject, Fail, Change
<1>4. CASE UNCHANGED vars
  BY <1>4 DEF vars, workerVars
<1>5. QED
  BY <1>1, <1>2, <1>3, <1>4 DEF Next, Step

(* What one save does to the files, whether or not its caller learns of it. *)
LEMMA WriteEffect ==
    ASSUME StoreInv, NEW w \in Workers, Write(w) \/ WriteUncertain(w)
    PROVE  /\ pc[w] = "save"
           /\ request[w] \in Requests
           /\ connection[w] \in Files
           /\ \/ files' = files
              \/ files' = [files EXCEPT ![connection[w]] =
                               Append(files[connection[w]], request[w])]
           /\ UNCHANGED <<connection, path, answers>>
<1>1. pc[w] = "save" /\ UNCHANGED <<connection, path, answers>>
  BY DEF Write, WriteUncertain
<1>2. files' = files \/ files' = [files EXCEPT ![connection[w]] = memory[w]]
  BY DEF Write, WriteUncertain
<1>3. /\ request[w] \in Requests
      /\ connection[w] \in Files
      /\ memory[w] = Append(files[connection[w]], request[w])
  BY <1>1 DEF StoreInv, InHand, Snapshot
<1>4. QED
  BY <1>1, <1>2, <1>3

(* An answer names a request, and where its file holds it. *)
LEMMA AnswerEffect ==
    ASSUME StoreInv, NEW w \in Workers, Replay(w) \/ Answer(w)
    PROVE  /\ connection[w] \in Files
           /\ \E i \in 1..Len(files[connection[w]]) :
                  /\ files[connection[w]][i] = request[w]
                  /\ answers' = answers \cup
                        {[request |-> request[w], revision |-> i, file |-> connection[w]]}
           /\ UNCHANGED <<connection, path, files>>
<1>1. CASE Replay(w)
  <2>1. pc[w] = "read" /\ UNCHANGED <<connection, path, files>>
    BY <1>1 DEF Replay
  <2>2. PICK i \in Previous(w) : memory[w][i] = request[w] /\ Answered(w, i)
    BY <1>1 DEF Replay
  <2>3. connection[w] \in Files /\ memory[w] = files[connection[w]]
    BY <2>1 DEF StoreInv, InHand, Snapshot
  <2>4. QED
    BY <2>1, <2>2, <2>3 DEF Previous, Revision, Answered
<1>2. CASE Answer(w)
  <2>1. /\ pc[w] = "written" /\ Answered(w, Len(memory[w]))
        /\ UNCHANGED <<connection, path, files>>
    BY <1>2 DEF Answer, Revision
  <2>2. /\ connection[w] \in Files /\ memory[w] = files[connection[w]]
        /\ Len(memory[w]) > 0 /\ memory[w][Len(memory[w])] = request[w]
    BY <2>1 DEF StoreInv, InHand, Snapshot
  <2>3. Len(memory[w]) \in 1..Len(memory[w])
    BY <2>2 DEF StoreInv, TypeOK
  <2>4. QED
    BY <2>1, <2>2, <2>3 DEF Answered
<1>3. QED
  BY <1>1, <1>2

-----------------------------------------------------------------------------
(* WorkspaceStore implements CommandLog: seen through the file the path    *)
(* names, every step of a thread, crash or operator is a step of the log   *)
(* or none.                                                                *)

(* Files the path has yet to name hold nothing and nobody knows them. *)
Unopened ==
    /\ \A f \in Files : f > path => files[f] = <<>>
    /\ \A w \in Workers : connection[w] <= path
    /\ \A a \in answers : a.file <= path

(* A command about to be saved is still admissible: its key is new to the  *)
(* file, and it is the bootstrap exactly when the file is empty.           *)
Admissible(w) ==
    /\ \A i \in 1..Len(files[connection[w]]) : files[connection[w]][i].key # request[w].key
    /\ request[w].boot <=> files[connection[w]] = <<>>

Admitted == \A w \in Workers : pc[w] = "save" => Admissible(w)

(* A client opens what the path names, and answers name the client's file. *)
LEMMA UnopenedNext ==
    StoreInv /\ Unopened /\ [Next]_vars => Unopened'
<1> SUFFICES ASSUME StoreInv, Unopened, [Next]_vars
             PROVE  Unopened'
  OBVIOUS
<1>0. /\ path \in Nat /\ \A f \in Files : f \in Nat
      /\ \A w \in Workers : connection[w] \in Nat
      /\ \A a \in answers : a.file \in Nat
      /\ files \in [Files -> Seq(Requests)]
  BY BoundAssumption DEF StoreInv, TypeOK, Files
<1>1. CASE UNCHANGED <<connection, path, files, answers>>
  BY <1>1 DEF Unopened
<1>2. ASSUME NEW w \in Workers, Open(w)
      PROVE  Unopened'
  <2>1. connection' = [connection EXCEPT ![w] = path] /\ UNCHANGED <<path, files, answers>>
    BY <1>2 DEF Open
  <2>2. QED
    BY <1>0, <2>1 DEF Unopened, StoreInv, TypeOK
<1>3. ASSUME NEW w \in Workers, Write(w) \/ WriteUncertain(w)
      PROVE  Unopened'
  BY <1>0, <1>3, WriteEffect DEF Unopened
<1>4. ASSUME NEW w \in Workers, Replay(w) \/ Answer(w)
      PROVE  Unopened'
  BY <1>0, <1>4, AnswerEffect DEF Unopened
<1>5. ASSUME NEW p \in Processes, Crash(p)
      PROVE  Unopened'
  <2>1. /\ \A w \in Workers : connection'[w] \in {0, connection[w]}
        /\ UNCHANGED <<path, files, answers>>
    BY <1>5 DEF Crash
  <2>2. QED
    BY <1>0, <2>1 DEF Unopened
<1>6. CASE Replace
  <2>1. path' = path + 1 /\ UNCHANGED <<connection, files, answers>>
    BY <1>6 DEF Replace, workerVars
  <2>2. QED
    BY <1>0, <2>1 DEF Unopened
<1>7. QED
  BY <1>1, <1>2, <1>3, <1>4, <1>5, <1>6, StepKinds

(* Between the checks of MayApply and the save nobody else writes. *)
LEMMA AdmittedNext ==
    StoreInv /\ Admitted /\ [Next]_vars => Admitted'
<1> SUFFICES ASSUME StoreInv, Admitted, [Next]_vars
             PROVE  Admitted'
  OBVIOUS
<1>1. ASSUME NEW w \in Workers, NEW r \in Requests, NEW n \in 0..MaxRevision,
             Submit(w, r, n)
      PROVE  Admitted'
  <2>1. pc'[w] # "save" /\ \A v \in Workers \ {w} : pc'[v] = pc[v] /\ request'[v] = request[v]
    BY <1>1 DEF Submit, Goto, StoreInv, TypeOK
  <2>2. UNCHANGED files /\ \A v \in Workers \ {w} : connection'[v] = connection[v]
    BY <1>1 DEF Submit, StoreInv, TypeOK
  <2>3. ASSUME NEW v \in Workers, pc'[v] = "save"
        PROVE  Admissible(v)'
    <3>1. v # w /\ Admissible(v)
      BY <2>1, <2>3 DEF Admitted
    <3>2. QED
      BY <2>1, <2>2, <3>1 DEF Admissible
  <2>4. QED
    BY <2>3 DEF Admitted
<1>2. ASSUME NEW w \in Workers, TakeThreadLock(w)
      PROVE  Admitted'
  <2>1. pc'[w] # "save" /\ \A v \in Workers \ {w} : pc'[v] = pc[v] /\ request'[v] = request[v]
    BY <1>2 DEF TakeThreadLock, Goto, StoreInv, TypeOK
  <2>2. UNCHANGED files /\ \A v \in Workers \ {w} : connection'[v] = connection[v]
    BY <1>2 DEF TakeThreadLock, StoreInv, TypeOK
  <2>3. QED
    BY <2>1, <2>2 DEF Admitted, Admissible
<1>3. ASSUME NEW w \in Workers, TakeFileLock(w)
      PROVE  Admitted'
  <2>1. pc'[w] # "save" /\ \A v \in Workers \ {w} : pc'[v] = pc[v] /\ request'[v] = request[v]
    BY <1>3 DEF TakeFileLock, Goto, StoreInv, TypeOK
  <2>2. UNCHANGED files /\ \A v \in Workers \ {w} : connection'[v] = connection[v]
    BY <1>3 DEF TakeFileLock, StoreInv, TypeOK
  <2>3. QED
    BY <2>1, <2>2 DEF Admitted, Admissible
<1>4. ASSUME NEW w \in Workers, LockTimeout(w)
      PROVE  Admitted'
  <2>1. pc'[w] = "idle" /\ \A v \in Workers \ {w} : pc'[v] = pc[v] /\ request'[v] = request[v]
    BY <1>4 DEF LockTimeout, End, Goto, StoreInv, TypeOK
  <2>2. UNCHANGED <<connection, files>>
    BY <1>4 DEF LockTimeout
  <2>3. QED
    BY <2>1, <2>2 DEF Admitted, Admissible
<1>5. ASSUME NEW w \in Workers, Open(w)
      PROVE  Admitted'
  <2>1. pc'[w] # "save" /\ \A v \in Workers \ {w} : pc'[v] = pc[v] /\ request'[v] = request[v]
    BY <1>5 DEF Open, Goto, StoreInv, TypeOK
  <2>2. UNCHANGED files /\ \A v \in Workers \ {w} : connection'[v] = connection[v]
    BY <1>5 DEF Open, StoreInv, TypeOK
  <2>3. QED
    BY <2>1, <2>2 DEF Admitted, Admissible
<1>6. ASSUME NEW w \in Workers, Read(w)
      PROVE  Admitted'
  <2>1. pc'[w] # "save" /\ \A v \in Workers \ {w} : pc'[v] = pc[v] /\ request'[v] = request[v]
    BY <1>6 DEF Read, Goto, StoreInv, TypeOK
  <2>2. UNCHANGED files /\ \A v \in Workers \ {w} : connection'[v] = connection[v]
    BY <1>6 DEF Read, StoreInv, TypeOK
  <2>3. QED
    BY <2>1, <2>2 DEF Admitted, Admissible
<1>7. ASSUME NEW w \in Workers, BackendFails(w)
      PROVE  Admitted'
  <2>1. pc'[w] = "idle" /\ \A v \in Workers \ {w} : pc'[v] = pc[v] /\ request'[v] = request[v]
    BY <1>7 DEF BackendFails, Fail, End, Goto, StoreInv, TypeOK
  <2>2. UNCHANGED <<connection, files>>
    BY <1>7 DEF BackendFails, Fail
  <2>3. QED
    BY <2>1, <2>2 DEF Admitted, Admissible
<1>8. ASSUME NEW w \in Workers, RefuseReplaced(w)
      PROVE  Admitted'
  <2>1. pc'[w] = "idle" /\ \A v \in Workers \ {w} : pc'[v] = pc[v] /\ request'[v] = request[v]
    BY <1>8 DEF RefuseReplaced, Fail, End, Goto, StoreInv, TypeOK
  <2>2. UNCHANGED <<connection, files>>
    BY <1>8 DEF RefuseReplaced, Fail
  <2>3. QED
    BY <2>1, <2>2 DEF Admitted, Admissible
<1>9. ASSUME NEW w \in Workers, Replay(w)
      PROVE  Admitted'
  <2>1. pc'[w] = "idle" /\ \A v \in Workers \ {w} : pc'[v] = pc[v] /\ request'[v] = request[v]
    BY <1>9 DEF Replay, End, Goto, StoreInv, TypeOK
  <2>2. UNCHANGED <<connection, files>>
    BY <1>9 DEF Replay
  <2>3. QED
    BY <2>1, <2>2 DEF Admitted, Admissible
<1>10. ASSUME NEW w \in Workers, Reject(w)
      PROVE  Admitted'
  <2>1. pc'[w] = "idle" /\ \A v \in Workers \ {w} : pc'[v] = pc[v] /\ request'[v] = request[v]
    BY <1>10 DEF Reject, Fail, End, Goto, StoreInv, TypeOK
  <2>2. UNCHANGED <<connection, files>>
    BY <1>10 DEF Reject, Fail
  <2>3. QED
    BY <2>1, <2>2 DEF Admitted, Admissible
<1>11. ASSUME NEW w \in Workers, Change(w)
      PROVE  Admitted'
  <2>1. /\ pc[w] = "read" /\ MayApply(w)
        /\ \A v \in Workers \ {w} : pc'[v] = pc[v]
        /\ UNCHANGED <<request, connection, files>>
    BY <1>11 DEF Change, Goto, StoreInv, TypeOK
  <2>2. memory[w] = files[connection[w]] /\ files[connection[w]] \in Seq(Requests)
    BY <2>1 DEF StoreInv, Snapshot, InHand, TypeOK
  <2>3. \A i \in 1..Len(files[connection[w]]) : files[connection[w]][i].key # request[w].key
    BY <2>1, <2>2 DEF MayApply, Previous, Revision
  <2>4. request[w].boot <=> Len(files[connection[w]]) = 0
    BY <2>1, <2>2 DEF MayApply, Revision
  <2>5. Len(files[connection[w]]) = 0 <=> files[connection[w]] = <<>>
    BY <2>2, EmptySeq
  <2>6. Admissible(w)
    BY <2>3, <2>4, <2>5 DEF Admissible
  <2>7. QED
    BY <2>1, <2>6 DEF Admitted, Admissible
<1>12. ASSUME NEW w \in Workers, Write(w)
      PROVE  Admitted'
  <2>1. pc[w] = "save" /\ pc'[w] # "save"
        /\ \A v \in Workers \ {w} : pc'[v] = pc[v]
    BY <1>12 DEF Write, Goto, StoreInv, TypeOK
  <2>2. \A v \in Workers \ {w} : pc[v] # "save"
    BY <2>1, OneInside DEF StoreInv
  <2>3. QED
    BY <2>1, <2>2 DEF Admitted
<1>13. ASSUME NEW w \in Workers, WriteUncertain(w)
      PROVE  Admitted'
  <2>1. pc[w] = "save" /\ pc'[w] # "save"
        /\ \A v \in Workers \ {w} : pc'[v] = pc[v]
    BY <1>13 DEF WriteUncertain, End, Goto, StoreInv, TypeOK
  <2>2. \A v \in Workers \ {w} : pc[v] # "save"
    BY <2>1, OneInside DEF StoreInv
  <2>3. QED
    BY <2>1, <2>2 DEF Admitted
<1>14. ASSUME NEW w \in Workers, Answer(w)
      PROVE  Admitted'
  <2>1. pc'[w] = "idle" /\ \A v \in Workers \ {w} : pc'[v] = pc[v] /\ request'[v] = request[v]
    BY <1>14 DEF Answer, End, Goto, StoreInv, TypeOK
  <2>2. UNCHANGED <<connection, files>>
    BY <1>14 DEF Answer
  <2>3. QED
    BY <2>1, <2>2 DEF Admitted, Admissible
<1>15. ASSUME NEW w \in Workers, LockFileFails(w)
      PROVE  Admitted'
  <2>1. pc'[w] = "idle" /\ \A v \in Workers \ {w} : pc'[v] = pc[v] /\ request'[v] = request[v]
    BY <1>15 DEF LockFileFails, End, Goto, StoreInv, TypeOK
  <2>2. UNCHANGED <<connection, files>>
    BY <1>15 DEF LockFileFails
  <2>3. QED
    BY <2>1, <2>2 DEF Admitted, Admissible
<1>16. ASSUME NEW w \in Workers, Pin(w)
      PROVE  Admitted'
  <2>1. pc'[w] # "save" /\ \A v \in Workers \ {w} : pc'[v] = pc[v]
    BY <1>16 DEF Pin, Goto, StoreInv, TypeOK
  <2>2. UNCHANGED <<request, connection, files>>
    BY <1>16 DEF Pin
  <2>3. QED
    BY <2>1, <2>2 DEF Admitted, Admissible
<1>17. ASSUME NEW p \in Processes, Crash(p)
      PROVE  Admitted'
  <2>1. /\ \A v \in Workers : pc'[v] = "save" =>
              pc[v] = "save" /\ request'[v] = request[v] /\ connection'[v] = connection[v]
        /\ UNCHANGED files
    BY <1>17 DEF Crash
  <2>2. QED
    BY <2>1 DEF Admitted, Admissible
<1>18. CASE Replace
  BY <1>18 DEF Replace, workerVars, Admitted, Admissible
<1>19. CASE UNCHANGED vars
  BY <1>19 DEF vars, workerVars, Admitted, Admissible
<1>20. QED
  BY <1>1, <1>2, <1>3, <1>4, <1>5, <1>6, <1>7, <1>8, <1>9, <1>10, <1>11, <1>12,
     <1>13, <1>14, <1>15, <1>16, <1>17, <1>18, <1>19
     DEF Next, Step

(* An empty workspace is an empty log. *)
LEMMA LogInit == Init => Log!Init
<1> SUFFICES ASSUME Init
             PROVE  Log!Init
  OBVIOUS
<1>1. 1 \in Files
  BY BoundAssumption DEF Files
<1>2. files[path] = <<>> /\ answers = {}
  BY <1>1 DEF Init
<1>3. QED
  BY <1>2 DEF Log!Init

(* Every step is a step of the log, or leaves it alone. *)
LEMMA LogNext ==
    StoreInv /\ Unopened /\ Admitted /\ [Next]_vars => [Log!Next]_Log!vars
<1> SUFFICES ASSUME StoreInv, Unopened, Admitted, [Next]_vars
             PROVE  [Log!Next]_Log!vars
  OBVIOUS
<1>0. path \in Files /\ files \in [Files -> Seq(Requests)]
  BY DEF StoreInv, TypeOK
<1>1. CASE UNCHANGED <<path, files, answers>>
  BY <1>1 DEF Log!vars
<1>2. ASSUME NEW w \in Workers, Open(w)
      PROVE  UNCHANGED <<path, files, answers>>
  BY <1>2 DEF Open
<1>3. ASSUME NEW w \in Workers, Write(w) \/ WriteUncertain(w)
      PROVE  [Log!Next]_Log!vars
  <2>1. UNCHANGED <<path, answers>> /\ connection[w] \in Files
    BY <1>3, WriteEffect
  <2>2. CASE files' = files
    BY <1>1, <2>1, <2>2
  <2>3. CASE /\ files' = [files EXCEPT ![connection[w]] =
                               Append(files[connection[w]], request[w])]
             /\ connection[w] # path
    <3>1. files'[path] = files[path]
      BY <1>0, <2>3
    <3>2. QED
      BY <2>1, <3>1 DEF Log!vars
  <2>4. CASE /\ files' = [files EXCEPT ![connection[w]] =
                               Append(files[connection[w]], request[w])]
             /\ connection[w] = path
    <3>1. request[w] \in Requests /\ Admissible(w)
      BY <1>3, WriteEffect DEF Admitted
    <3>2. files'[path'] = Append(files[path], request[w])
      BY <1>0, <2>1, <2>4
    <3>3. DOMAIN files[path] = 1..Len(files[path])
      BY <1>0
    <3>4. /\ \A i \in DOMAIN files[path] : files[path][i].key # request[w].key
          /\ request[w].boot <=> files[path] = <<>>
      BY <2>4, <3>1, <3>3 DEF Admissible
    <3>5. Log!Apply(request[w])
      BY <2>1, <3>2, <3>4 DEF Log!Apply
    <3>6. QED
      BY <3>1, <3>5 DEF Log!Next
  <2>5. QED
    BY <1>3, <2>2, <2>3, <2>4, WriteEffect
<1>4. ASSUME NEW w \in Workers, Replay(w) \/ Answer(w)
      PROVE  [Log!Next]_Log!vars
  <2>1. UNCHANGED <<path, files>>
    BY <1>4, AnswerEffect
  <2>2. PICK i \in 1..Len(files[connection[w]]) :
            /\ files[connection[w]][i] = request[w]
            /\ answers' = answers \cup
                  {[request |-> request[w], revision |-> i, file |-> connection[w]]}
    BY <1>4, AnswerEffect
  <2>3. CASE connection[w] # path
    <3>1. {a \in answers' : a.file = path} = {a \in answers : a.file = path}
      BY <2>2, <2>3
    <3>2. QED
      BY <2>1, <3>1 DEF Log!vars
  <2>4. CASE connection[w] = path
    <3>1. {a \in answers' : a.file = path} = {a \in answers : a.file = path} \cup
              {[request |-> request[w], revision |-> i, file |-> path]}
      BY <2>2, <2>4
    <3>2. {<<a.request, a.revision>> : a \in {a \in answers' : a.file = path'}} =
              {<<a.request, a.revision>> : a \in {a \in answers : a.file = path}} \cup
              {<<files[path][i], i>>}
      <4>1. DEFINE pair(a) == <<a.request, a.revision>>
                   now == {a \in answers : a.file = path}
                   new == [request |-> request[w], revision |-> i, file |-> path]
      <4>2. pair(new) = <<files[path][i], i>>
        BY <2>2, <2>4
      <4>3. {a \in answers' : a.file = path'} = now \cup {new}
        BY <2>1, <3>1
      <4> HIDE DEF pair, now, new
      <4>4. {pair(a) : a \in now \cup {new}} = {pair(a) : a \in now} \cup {pair(new)}
        OBVIOUS
      <4>5. QED
        BY <4>2, <4>3, <4>4 DEF pair, now
    <3>3. i \in DOMAIN files[path]
      BY <1>0, <2>2, <2>4
    <3>4. Log!Acknowledge(i)
      BY <2>1, <3>2 DEF Log!Acknowledge
    <3>5. QED
      BY <3>3, <3>4 DEF Log!Next
  <2>5. QED
    BY <2>3, <2>4
<1>5. ASSUME NEW p \in Processes, Crash(p)
      PROVE  UNCHANGED <<path, files, answers>>
  BY <1>5 DEF Crash
<1>6. CASE Replace
  <2>1. path < MaxFiles /\ path' = path + 1 /\ UNCHANGED <<files, answers>>
    BY <1>6 DEF Replace
  <2>2. path' \in Files /\ path' > path
    BY <1>0, <2>1, BoundAssumption DEF Files
  <2>3. files'[path'] = <<>>
    BY <2>1, <2>2 DEF Unopened
  <2>4. \A a \in answers : a.file \in Nat /\ a.file <= path
    BY BoundAssumption DEF Unopened, StoreInv, TypeOK, Files
  <2>5. path \in Nat
    BY <1>0, BoundAssumption DEF Files
  <2>6. {a \in answers' : a.file = path'} = {}
    BY <2>1, <2>4, <2>5
  <2>7. Log!Erase
    BY <2>3, <2>6 DEF Log!Erase
  <2>8. QED
    BY <2>7 DEF Log!Next
<1>7. QED
  BY <1>1, <1>2, <1>3, <1>4, <1>5, <1>6, StepKinds

(* What callers of _mutate see, through retries, crashes, timeouts,        *)
(* uncertain writes and a replaced file, is an exactly-once log.           *)
THEOREM StoreImplementsLog == Spec => ImplementsCommandLog
<1>1. Init => Unopened /\ Admitted
  <2>1. Init => path = 1 /\ files = [f \in Files |-> <<>>] /\ answers = {}
    BY DEF Init
  <2>2. Init => Unopened
    BY BoundAssumption DEF Init, Unopened, Files
  <2>3. Init => Admitted
    BY DEF Init, Admitted
  <2>4. QED
    BY <2>2, <2>3
<1>2. QED
  BY <1>1, LogInit, LogNext, UnopenedNext, AdmittedNext, StoreInvHolds, PTL
     DEF Spec, ImplementsCommandLog, Log!Spec
=============================================================================
