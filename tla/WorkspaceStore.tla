--------------------------- MODULE WorkspaceStore ---------------------------
(***************************************************************************)
(* How a tenant's workspace is read and written: CaseworkService._mutate   *)
(* over SibylWorkspaceStore (src/src/proofops_casework/service.py and      *)
(* store.py), with the threads of several processes on one host, crashes,  *)
(* lock timeouts, uncertain writes, repeated requests, and an operator     *)
(* who removes or replaces the database file under running processes.      *)
(*                                                                         *)
(* The workspace is one value, loaded and saved whole.  What commands do   *)
(* to it is left to module Casework: here a command is its request, and    *)
(* the workspace is the log of requests applied (the audit chain), whose   *)
(* length is the revision.                                                 *)
(***************************************************************************)
EXTENDS Naturals, Sequences, SequencesExt

CONSTANTS
    Workers,      \* request threads
    Processes,    \* operating system processes
    ProcessOf,    \* ProcessOf[w]: the process thread w belongs to
    Requests,     \* [key, body, boot]: key is digest(actor, idempotency key),
                  \* body the fingerprint of the rest, boot: is it bootstrap
    MaxRevision,  \* bound on the revisions a caller may claim to have seen
    MaxFiles,     \* bound on the database files the path ever names
    NoWorker, NoRequest

ASSUME WorkerAssumption ==
    /\ ProcessOf \in [Workers -> Processes]
    /\ NoWorker \notin Workers
    /\ NoRequest \notin Requests
ASSUME BoundAssumption == MaxRevision \in Nat /\ MaxFiles \in Nat \ {0}

VARIABLES
    pc,          \* pc[w]: where w is in _mutate
    request,     \* request[w]: what it was asked
    expected,    \* expected[w]: expected_revision of that request
    memory,      \* memory[w]: the workspace as loaded, then as changed
    connection,  \* connection[w]: the file w's client has open, 0 for none
    identity,    \* identity[p]: the file p first opened, 0 for none
    threadLock,  \* threadLock[p]: the thread holding p's RLock
    fileLock,    \* the thread holding the tenant's flock
    path,        \* the file the database path names now
    files,       \* files[f]: the workspace stored in file f
    answers      \* ghost: successful answers, [request, revision, file]

workerVars == <<pc, request, expected, memory, connection>>
lockVars   == <<threadLock, fileLock>>
vars == <<workerVars, identity, lockVars, path, files, answers>>

Files == 1..MaxFiles

Init ==
    /\ pc = [w \in Workers |-> "idle"]
    /\ request = [w \in Workers |-> NoRequest]
    /\ expected = [w \in Workers |-> 0]
    /\ memory = [w \in Workers |-> <<>>]
    /\ connection = [w \in Workers |-> 0]
    /\ identity = [p \in Processes |-> 0]
    /\ threadLock = [p \in Processes |-> NoWorker]
    /\ fileLock = NoWorker
    /\ path = 1
    /\ files = [f \in Files |-> <<>>]
    /\ answers = {}

Goto(w, label) == pc' = [pc EXCEPT ![w] = label]

(* The request ends and its thread forgets it. *)
End(w) ==
    /\ Goto(w, "idle")
    /\ request' = [request EXCEPT ![w] = NoRequest]
    /\ expected' = [expected EXCEPT ![w] = 0]
    /\ memory' = [memory EXCEPT ![w] = <<>>]

(* [mutant] the flock goes with its descriptor, the RLock is forgotten *)
Release_FileOnly(w) ==
    /\ fileLock' = NoWorker
    /\ UNCHANGED threadLock

(* The with block is left: os.close(fd) drops the flock, then the RLock. *)
Release(w) ==
    /\ fileLock' = NoWorker
    /\ threadLock' = [threadLock EXCEPT ![ProcessOf[w]] = NoWorker]

(* _check_database_identity, which lets a process without an identity      *)
(* through.                                                                *)
SameFile(w) == identity[ProcessOf[w]] \in {0, path}

-----------------------------------------------------------------------------
(* A caller sends r, for the first time or again, claiming revision n. *)
Submit(w, r, n) ==
    /\ pc[w] = "idle"
    /\ Goto(w, "thread")
    /\ request' = [request EXCEPT ![w] = r]
    /\ expected' = [expected EXCEPT ![w] = n]
    /\ UNCHANGED <<memory, connection, identity, lockVars, path, files, answers>>

TakeThreadLock(w) ==
    /\ pc[w] = "thread"
    /\ threadLock[ProcessOf[w]] = NoWorker
    /\ threadLock' = [threadLock EXCEPT ![ProcessOf[w]] = w]
    /\ Goto(w, "file")
    /\ UNCHANGED <<request, expected, memory, connection, identity, fileLock, path,
                   files, answers>>

(* [mutant] flock asked for in shared mode *)
TakeFileLock_Shared(w) ==
    /\ pc[w] = "file"
    /\ fileLock' = w
    /\ Goto(w, "locked")
    /\ UNCHANGED <<request, expected, memory, connection, identity, threadLock, path,
                   files, answers>>

TakeFileLock(w) ==
    /\ pc[w] = "file"
    /\ fileLock = NoWorker
    /\ fileLock' = w
    /\ Goto(w, "locked")
    /\ UNCHANGED <<request, expected, memory, connection, identity, threadLock, path,
                   files, answers>>

(* MEMORY_LOCK_TIMEOUT, on either lock; the RLock, if held, is let go. *)
LockTimeout(w) ==
    /\ \/ pc[w] = "thread" /\ threadLock[ProcessOf[w]] # NoWorker /\ UNCHANGED lockVars
       \/ /\ pc[w] = "file" /\ fileLock # NoWorker
          /\ threadLock' = [threadLock EXCEPT ![ProcessOf[w]] = NoWorker]
          /\ UNCHANGED fileLock
    /\ End(w)
    /\ UNCHANGED <<connection, identity, path, files, answers>>

(* MEMORY_BACKEND_UNAVAILABLE: the lock file cannot be opened; the RLock   *)
(* is let go, and there is no descriptor whose flock would go with it.     *)
LockFileFails(w) ==
    /\ pc[w] = "file"
    /\ threadLock' = [threadLock EXCEPT ![ProcessOf[w]] = NoWorker]
    /\ End(w)
    /\ UNCHANGED <<connection, identity, fileLock, path, files, answers>>

(* Any error raised inside the with block: locks go, nothing is saved. *)
Fail(w) ==
    /\ End(w)
    /\ Release(w)
    /\ UNCHANGED <<connection, identity, path, files, answers>>

(* _client: a thread without a client opens one on the file the path names *)
(* now, and keeps it, whatever the path names later.                       *)
Open(w) ==
    /\ pc[w] = "locked"
    /\ connection[w] = 0
    /\ SameFile(w)
    /\ connection' = [connection EXCEPT ![w] = path]
    /\ Goto(w, "opened")
    /\ UNCHANGED <<request, expected, memory, identity, lockVars, path, files, answers>>

(* The rest of _client, for a client just made: the path is looked up a    *)
(* second time, by stat, for the identity the process will insist on.      *)
Pin(w) ==
    /\ pc[w] = "opened"
    /\ identity' = [identity EXCEPT ![ProcessOf[w]] = IF @ = 0 THEN path ELSE @]
    /\ Goto(w, "client")
    /\ UNCHANGED <<request, expected, memory, connection, lockVars, path, files, answers>>

(* get_entity, on the new client or on the one the thread already had. *)
Read(w) ==
    /\ pc[w] = "client" \/ (pc[w] = "locked" /\ connection[w] # 0)
    /\ SameFile(w)
    /\ memory' = [memory EXCEPT ![w] = files[connection[w]]]
    /\ Goto(w, "read")
    /\ UNCHANGED <<request, expected, connection, identity, lockVars, path, files, answers>>

(* MEMORY_BACKEND_UNAVAILABLE: the client could not be made, its path      *)
(* looked up or its file read.  A client once made stays, pinned or not.   *)
BackendFails(w) ==
    /\ pc[w] \in {"locked", "opened", "client"}
    /\ Fail(w)

(* MEMORY_FILE_REPLACED_RESTART_REQUIRED, at any of the identity checks. *)
RefuseReplaced(w) ==
    /\ pc[w] \in {"locked", "client", "read", "written"}
    /\ ~ SameFile(w)
    /\ Fail(w)

Revision(w) == Len(memory[w])

(* state.idempotency[key]: the revision the key was used for. *)
Previous(w) == {i \in 1..Revision(w) : memory[w][i].key = request[w].key}

(* [mutant] the response carries the revision before the command *)
Answered_Before(w, i) ==
    answers' = answers \cup
        {[request |-> request[w], revision |-> i - 1, file |-> connection[w]]}

(* The response: the revision the command holds. *)
Answered(w, i) ==
    answers' = answers \cup
        {[request |-> request[w], revision |-> i, file |-> connection[w]]}

(* An exact repetition is answered from the record of the first. *)
Replay(w) ==
    /\ pc[w] = "read" /\ SameFile(w)
    /\ \E i \in Previous(w) :
          /\ memory[w][i] = request[w]
          /\ Answered(w, i)
    /\ End(w)
    /\ Release(w)
    /\ UNCHANGED <<connection, identity, path, files>>

(* [mutant] the key's record is looked for only at the revision claimed *)
MayApply_NoKeyCheck(w) ==
    /\ request[w].boot <=> Revision(w) = 0
    /\ expected[w] = Revision(w)

(* [mutant] the revision the caller saw is not compared *)
MayApply_AnyRevision(w) ==
    /\ Previous(w) = {}
    /\ request[w].boot <=> Revision(w) = 0

(* A new key, the revision the caller saw, and a workspace that exists     *)
(* exactly when this is not its bootstrap.                                 *)
MayApply(w) ==
    /\ Previous(w) = {}
    /\ request[w].boot <=> Revision(w) = 0
    /\ expected[w] = Revision(w)

(* IDEMPOTENCY_CONFLICT, REVISION_CONFLICT, MEMORY_WORKSPACE_MISSING,      *)
(* WORKSPACE_ALREADY_EXISTS.                                               *)
Reject(w) ==
    /\ pc[w] = "read" /\ SameFile(w)
    /\ \A i \in Previous(w) : memory[w][i] # request[w]
    /\ ~ MayApply(w)
    /\ Fail(w)

(* mutate, audit and idempotency record, in memory; then save's identity   *)
(* check.                                                                  *)
Change(w) ==
    /\ pc[w] = "read" /\ SameFile(w)
    /\ MayApply(w)
    /\ memory' = [memory EXCEPT ![w] = Append(@, request[w])]
    /\ Goto(w, "save")
    /\ UNCHANGED <<request, expected, connection, identity, lockVars, path, files,
                   answers>>

(* set_entity, on the file the connection has open. *)
Write(w) ==
    /\ pc[w] = "save"
    /\ files' = [files EXCEPT ![connection[w]] = memory[w]]
    /\ Goto(w, "written")
    /\ UNCHANGED <<request, expected, memory, connection, identity, lockVars, path,
                   answers>>

(* set_entity raises: MEMORY_WRITE_UNCERTAIN, with the write done or not. *)
WriteUncertain(w) ==
    /\ pc[w] = "save"
    /\ \/ UNCHANGED files
       \/ files' = [files EXCEPT ![connection[w]] = memory[w]]
    /\ End(w)
    /\ Release(w)
    /\ UNCHANGED <<connection, identity, path, answers>>

(* The response, after save's last identity check. *)
Answer(w) ==
    /\ pc[w] = "written" /\ SameFile(w)
    /\ Answered(w, Revision(w))
    /\ End(w)
    /\ Release(w)
    /\ UNCHANGED <<connection, identity, path, files>>

-----------------------------------------------------------------------------
(* A process dies: its threads, RLock and flock go with it. *)
Crash(p) ==
    LET own == {w \in Workers : ProcessOf[w] = p}
        Reset(f, value) == [w \in Workers |-> IF w \in own THEN value ELSE f[w]]
    IN  /\ pc' = Reset(pc, "idle")
        /\ request' = Reset(request, NoRequest)
        /\ expected' = Reset(expected, 0)
        /\ memory' = Reset(memory, <<>>)
        /\ connection' = Reset(connection, 0)
        /\ identity' = [identity EXCEPT ![p] = 0]
        /\ threadLock' = [threadLock EXCEPT ![p] = NoWorker]
        /\ fileLock' = IF fileLock \in own THEN NoWorker ELSE fileLock
        /\ UNCHANGED <<path, files, answers>>

(* The database file is removed or replaced; the path now names another. *)
Replace ==
    /\ path < MaxFiles
    /\ path' = path + 1
    /\ UNCHANGED <<workerVars, identity, lockVars, files, answers>>

Step(w) ==
    \/ TakeThreadLock(w) \/ TakeFileLock(w) \/ LockTimeout(w) \/ LockFileFails(w)
    \/ Open(w) \/ Pin(w) \/ Read(w) \/ BackendFails(w) \/ RefuseReplaced(w)
    \/ Replay(w) \/ Reject(w) \/ Change(w)
    \/ Write(w) \/ WriteUncertain(w) \/ Answer(w)

Next ==
    \/ \E w \in Workers :
          \/ \E r \in Requests, n \in 0..MaxRevision : Submit(w, r, n)
          \/ Step(w)
    \/ \E p \in Processes : Crash(p)
    \/ Replace

Spec == Init /\ [][Next]_vars

(* Threads are scheduled; callers, crashes and operators owe nothing. *)
FairSpec == Spec /\ \A w \in Workers : WF_vars(Step(w))

-----------------------------------------------------------------------------
(* Properties *)

TypeOK ==
    /\ pc \in [Workers -> {"idle", "thread", "file", "locked", "opened", "client", "read",
                       "save", "written"}]
    /\ request \in [Workers -> Requests \cup {NoRequest}]
    /\ expected \in [Workers -> 0..MaxRevision]
    /\ memory \in [Workers -> Seq(Requests)]
    /\ connection \in [Workers -> 0..MaxFiles]
    /\ identity \in [Processes -> 0..MaxFiles]
    /\ threadLock \in [Processes -> Workers \cup {NoWorker}]
    /\ fileLock \in Workers \cup {NoWorker}
    /\ path \in Files
    /\ files \in [Files -> Seq(Requests)]
    /\ answers \subseteq [request : Requests, revision : Nat \ {0}, file : Files]

(* A thread inside _mutate's critical section owns both locks, and an      *)
(* owner is inside: no timeout, error or crash leaves a lock behind.       *)
LocksMatchThreads ==
    /\ \A w \in Workers : pc[w] \in {"locked", "opened", "client", "read", "save", "written"}
                             <=> fileLock = w
    /\ \A w \in Workers : pc[w] \notin {"idle", "thread"}
                             <=> threadLock[ProcessOf[w]] = w

(* What is answered is on record, at the revision told, in the file the    *)
(* path names: at the moment of the answer and for as long as the file     *)
(* stays, whatever other threads and processes write.                      *)
AnsweredIsRecorded ==
    \A a \in answers : a.file = path =>
        /\ a.revision <= Len(files[path])
        /\ files[path][a.revision] = a.request

(* store.py: "Do not silently serve that abandoned state after a file      *)
(* deletion/replacement": a new answer comes from the file the path names. *)
ServesNamedFile ==
    [][\A a \in answers' \ answers : a.file = path]_vars

(* No file ever loses or rewrites an applied command, and each save adds   *)
(* one at most: read, change and write of two threads never interleave.    *)
NoLostUpdate ==
    [][\A f \in Files : /\ IsPrefix(files[f], files'[f])
                        /\ Len(files'[f]) <= Len(files[f]) + 1]_vars

(* A command takes effect only on the revision its caller claimed to have  *)
(* seen, whoever else wrote in between.                                    *)
AppliedAsSeen ==
    [][\A f \in Files : files'[f] # files[f] =>
          \E w \in Workers : /\ expected[w] = Len(files[f])
                             /\ request[w] = files'[f][Len(files'[f])]]_vars

(* Seen from outside, threads, crashes, retries and uncertain writes come  *)
(* to an atomic log with one entry per key (CommandLog).                   *)
Log == INSTANCE CommandLog WITH
    log   <- files[path],
    acked <- {<<a.request, a.revision>> : a \in {a \in answers : a.file = path}}
ImplementsCommandLog == Log!Spec

(* Nobody holds the tenant's lock, or a process's, for ever. *)
LocksComeFree ==
    /\ []<>(fileLock = NoWorker)
    /\ \A p \in Processes : []<>(threadLock[p] = NoWorker)
=============================================================================
