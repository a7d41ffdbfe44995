------------------------- MODULE SQLiteTransactions ------------------------
(***************************************************************************)
(* SQLitePersistence and _SQLiteTransaction (transactional_persistence.py): *)
(* every "async with backend.transaction(...)" block, from __aenter__ to    *)
(* __aexit__, of the tasks of several processes on one database file.       *)
(* Within a process the asyncio.Lock of the backend serialises blocks;      *)
(* between processes SQLite's write lock does (BEGIN IMMEDIATE).  Each      *)
(* await is a state of pc, and a task may be cancelled where it awaits.     *)
(***************************************************************************)
EXTENDS StoredRecords, FiniteSets

CONSTANTS
    Tasks,          \* one transaction block each
    Processes,      \* one SQLitePersistence object each
    Process,        \* the process of each task
    None,           \* no task
    Expected,       \* the values passed as expected_version
    MaxOps,         \* bound: operations of one block
    CancelPoints,   \* the awaits at which tasks may be cancelled
    MaxCrashes      \* bound: crashes of processes

ASSUME TransactionAssumption ==
    /\ Process \in [Tasks -> Processes]
    /\ None \notin Tasks
    /\ MaxOps \in Nat
    /\ MaxCrashes \in Nat

VARIABLES
    db,           \* committed records
    writer,       \* the task whose connection holds SQLite's write lock
    holder,       \* the task that acquired each backend's _lock
    queue,        \* the waiters of each _lock, first come first served
    initialized,  \* backend._initialized
    closed,       \* backend._closed
    pc,           \* where each block is
    view,         \* the records as its connection sees them
    ops,          \* the operations it has run without conflict
    late,         \* the statement its worker thread has still to start, or None
    applied,      \* history: the tasks whose COMMIT succeeded
    crashes       \* number of crashes so far

lockVars == <<holder, queue, initialized, closed>>
blockVars == <<view, ops, late>>
transactionVars == <<db, writer, lockVars, pc, blockVars, applied, crashes>>

----------------------------------------------------------------------------
Ended == {"returned", "raised"}

\* The states in which a task has the backend's lock.
Critical == {"initializing", "opening", "active", "committing", "rolling_back",
             "committed", "closing"}

States == {"idle", "init_wait", "lock_wait"} \cup Critical \cup Ended

Ops == [kind : {"put"}, key : Keys, expected : Expected]
           \cup [kind : {"delete"}, key : Keys, expected : Expected \ {0}]

\* No record at all.
Nothing == [k \in Keys |-> Absent]

Goto(t, state) == pc' = [pc EXCEPT ![t] = state]

Enqueue(t) == queue' = [queue EXCEPT ![Process[t]] = Append(@, t)]

Release(t) == holder' = [holder EXCEPT ![Process[t]] = None]

\* The lock is free and t is the waiter that was woken.
CanTake(t) ==
    /\ holder[Process[t]] = None
    /\ queue[Process[t]] # <<>>
    /\ Head(queue[Process[t]]) = t

Init ==
    /\ db = Nothing
    /\ writer = None
    /\ holder = [p \in Processes |-> None]
    /\ queue = [p \in Processes |-> <<>>]
    /\ initialized = [p \in Processes |-> FALSE]
    /\ closed = [p \in Processes |-> FALSE]
    /\ pc = [t \in Tasks |-> "idle"]
    /\ view = [t \in Tasks |-> Nothing]
    /\ ops = [t \in Tasks |-> <<>>]
    /\ late = [t \in Tasks |-> None]
    /\ applied = {}
    /\ crashes = 0

----------------------------------------------------------------------------
\* transaction() on an open backend, then __aenter__ up to its first wait:
\* _initialize returns at once when the schema is known to exist.
Enter(t) ==
    /\ pc[t] = "idle"
    /\ ~closed[Process[t]]
    /\ Goto(t, IF initialized[Process[t]] THEN "lock_wait" ELSE "init_wait")
    /\ Enqueue(t)
    /\ UNCHANGED <<db, writer, holder, initialized, closed, blockVars, applied, crashes>>

\* transaction() raises once close() was called.
EnterClosed(t) ==
    /\ pc[t] = "idle"
    /\ closed[Process[t]]
    /\ Goto(t, "raised")
    /\ UNCHANGED <<db, writer, lockVars, blockVars, applied, crashes>>

\* _initialize under the lock: the flag is read again; when another task has
\* set it, the lock is given back and t queues for its own transaction.
TakeForInit(t) ==
    LET p == Process[t]
        again == initialized[p]
    IN  /\ pc[t] = "init_wait"
        /\ CanTake(t)
        /\ queue' = [queue EXCEPT ![p] = IF again THEN Append(Tail(@), t) ELSE Tail(@)]
        /\ holder' = [holder EXCEPT ![p] = IF again THEN None ELSE t]
        /\ Goto(t, IF again THEN "lock_wait" ELSE "initializing")
        /\ UNCHANGED <<db, writer, initialized, closed, blockVars, applied, crashes>>

Initialize(t) ==
    /\ pc[t] = "initializing"
    /\ initialized' = [initialized EXCEPT ![Process[t]] = TRUE]
    /\ Release(t)
    /\ Enqueue(t)
    /\ Goto(t, "lock_wait")
    /\ UNCHANGED <<db, writer, closed, blockVars, applied, crashes>>

\* The schema cannot be created, or the task is cancelled: "async with" releases.
InitializeFails(t) ==
    /\ pc[t] = "initializing"
    /\ Release(t)
    /\ Goto(t, "raised")
    /\ UNCHANGED <<db, writer, queue, initialized, closed, blockVars, applied, crashes>>

TakeForTransaction(t) ==
    /\ pc[t] = "lock_wait"
    /\ CanTake(t)
    /\ queue' = [queue EXCEPT ![Process[t]] = Tail(@)]
    /\ holder' = [holder EXCEPT ![Process[t]] = t]
    /\ Goto(t, "opening")
    /\ UNCHANGED <<db, writer, initialized, closed, blockVars, applied, crashes>>

\* Mutant: BEGIN DEFERRED, which takes no write lock.
OpenDeferred(t) ==
    /\ pc[t] = "opening"
    /\ view' = [view EXCEPT ![t] = db]
    /\ Goto(t, "active")
    /\ UNCHANGED <<db, writer, lockVars, ops, late, applied, crashes>>

\* _connect and BEGIN IMMEDIATE, which waits until no connection of any process
\* has the write lock.
Open(t) ==
    /\ pc[t] = "opening"
    /\ writer = None
    /\ writer' = t
    /\ view' = [view EXCEPT ![t] = db]
    /\ Goto(t, "active")
    /\ UNCHANGED <<db, lockVars, ops, late, applied, crashes>>

\* Mutant: the lock is not released when BEGIN fails.
OpenFailsUnreleased(t) ==
    /\ pc[t] = "opening"
    /\ Goto(t, "raised")
    /\ UNCHANGED <<db, writer, lockVars, blockVars, applied, crashes>>

\* The busy timeout, or an error of SQLite or of the system.
OpenFails(t) ==
    /\ pc[t] = "opening"
    /\ Release(t)
    /\ Goto(t, "raised")
    /\ UNCHANGED <<db, writer, queue, initialized, closed, blockVars, applied, crashes>>

----------------------------------------------------------------------------
\* Mutant: a write whose expected version does not match is kept.
OperateUnchecked(t, op) ==
    /\ pc[t] = "active"
    /\ Len(ops[t]) < MaxOps
    /\ view' = [view EXCEPT ![t] = After(op, @, t)]
    /\ ops' = [ops EXCEPT ![t] = Append(@, op)]
    /\ UNCHANGED <<db, writer, lockVars, pc, late, applied, crashes>>

\* put or delete.  A conflict changes nothing; the body lets the error out
\* (LeaveByError) or goes on.
Operate(t, op) ==
    /\ pc[t] = "active"
    /\ Len(ops[t]) < MaxOps
    /\ Applicable(op, view[t])
    /\ view' = [view EXCEPT ![t] = After(op, @, t)]
    /\ ops' = [ops EXCEPT ![t] = Append(@, op)]
    /\ UNCHANGED <<db, writer, lockVars, pc, late, applied, crashes>>

Leave(t) ==
    /\ pc[t] = "active"
    /\ Goto(t, "committing")
    /\ UNCHANGED <<db, writer, lockVars, blockVars, applied, crashes>>

\* An exception leaves the body: an error, a conflict or a cancellation.
LeaveByError(t) ==
    /\ pc[t] = "active"
    /\ Goto(t, "rolling_back")
    /\ UNCHANGED <<db, writer, lockVars, blockVars, applied, crashes>>

\* Cancelled while its statement is in a worker thread that has not called
\* SQLite yet: the thread cannot be stopped.
LeaveStatementBehind(t, op) ==
    /\ pc[t] = "active"
    /\ Len(ops[t]) < MaxOps
    /\ late' = [late EXCEPT ![t] = op]
    /\ Goto(t, "rolling_back")
    /\ UNCHANGED <<db, writer, lockVars, view, ops, applied, crashes>>

Commit(t) ==
    /\ pc[t] = "committing"
    /\ db' = view[t]
    /\ writer' = None
    /\ applied' = applied \cup {t}
    /\ Goto(t, "committed")
    /\ UNCHANGED <<lockVars, blockVars, crashes>>

\* Cancelled while COMMIT runs in its worker thread, which completes it.
CommitUnseen(t) ==
    /\ "committing" \in CancelPoints
    /\ pc[t] = "committing"
    /\ db' = view[t]
    /\ writer' = None
    /\ applied' = applied \cup {t}
    /\ Goto(t, "closing")
    /\ UNCHANGED <<lockVars, blockVars, crashes>>

Rollback(t) ==
    /\ pc[t] = "rolling_back"
    /\ writer' = None
    /\ Goto(t, "closing")
    /\ UNCHANGED <<db, lockVars, blockVars, applied, crashes>>

\* COMMIT or ROLLBACK fails, or is cancelled before it ran: closing the
\* connection rolls back.
FinishFails(t) ==
    /\ pc[t] \in {"committing", "rolling_back"}
    /\ Goto(t, "closing")
    /\ UNCHANGED <<db, writer, lockVars, blockVars, applied, crashes>>

\* The statement left behind starts after ROLLBACK and before the connection is
\* closed: the connection is in autocommit mode by then.
RunLate(t) ==
    /\ pc[t] = "closing"
    /\ late[t] # None
    /\ writer = None
    /\ db' = IF Applicable(late[t], db) THEN After(late[t], db, t) ELSE db
    /\ late' = [late EXCEPT ![t] = None]
    /\ UNCHANGED <<writer, lockVars, pc, view, ops, applied, crashes>>

\* The connection is gone, and with it what it had seen, done and left to do.
Disconnect(t) ==
    /\ writer' = IF writer = t THEN None ELSE writer
    /\ view' = [view EXCEPT ![t] = Nothing]
    /\ ops' = [ops EXCEPT ![t] = <<>>]
    /\ late' = [late EXCEPT ![t] = None]

\* connection.close(), then _release.
Close(t) ==
    /\ pc[t] \in {"committed", "closing"}
    /\ Disconnect(t)
    /\ Release(t)
    /\ Goto(t, IF pc[t] = "committed" THEN "returned" ELSE "raised")
    /\ UNCHANGED <<db, queue, initialized, closed, applied, crashes>>

----------------------------------------------------------------------------
\* Mutant: a cancelled waiter stays in the queue.
CancelWaitingQueued(t) ==
    /\ pc[t] \in {"init_wait", "lock_wait"} \cap CancelPoints
    /\ Goto(t, "raised")
    /\ UNCHANGED <<db, writer, lockVars, blockVars, applied, crashes>>

\* asyncio.Lock.acquire removes a cancelled waiter.
CancelWaiting(t) ==
    /\ pc[t] \in {"init_wait", "lock_wait"} \cap CancelPoints
    /\ \E i \in DOMAIN queue[Process[t]] :
          /\ queue[Process[t]][i] = t
          /\ queue' = [queue EXCEPT ![Process[t]] = RemoveAt(@, i)]
    /\ Goto(t, "raised")
    /\ UNCHANGED <<db, writer, holder, initialized, closed, blockVars, applied, crashes>>

\* CancelledError is neither a sqlite3.Error nor an OSError: __aenter__ leaves
\* without releasing, and __aexit__ is not called.
CancelOpening(t) ==
    /\ pc[t] \in {"opening"} \cap CancelPoints
    /\ Goto(t, "raised")
    /\ UNCHANGED <<db, writer, lockVars, blockVars, applied, crashes>>

\* The await of close in the finally clause: what follows it is skipped.
CancelClosing(t) ==
    /\ pc[t] \in {"committed", "closing"} \cap CancelPoints
    /\ Disconnect(t)
    /\ Goto(t, "raised")
    /\ UNCHANGED <<db, lockVars, applied, crashes>>

\* close() only refuses the transactions to come.
Shutdown(p) ==
    /\ ~closed[p]
    /\ closed' = [closed EXCEPT ![p] = TRUE]
    /\ UNCHANGED <<db, writer, holder, queue, initialized, pc, blockVars, applied, crashes>>

\* A process dies and another takes its place: SQLite drops what its
\* connections had not committed.
Crash(p) ==
    LET dead == {t \in Tasks : Process[t] = p /\ pc[t] \notin {"idle"} \cup Ended}
    IN  /\ crashes < MaxCrashes
        /\ crashes' = crashes + 1
        /\ writer' = IF writer \in dead THEN None ELSE writer
        /\ holder' = [holder EXCEPT ![p] = None]
        /\ queue' = [queue EXCEPT ![p] = <<>>]
        /\ initialized' = [initialized EXCEPT ![p] = FALSE]
        /\ closed' = [closed EXCEPT ![p] = FALSE]
        /\ pc' = [t \in Tasks |-> IF t \in dead THEN "raised" ELSE pc[t]]
        /\ view' = [t \in Tasks |-> IF t \in dead THEN Nothing ELSE view[t]]
        /\ ops' = [t \in Tasks |-> IF t \in dead THEN <<>> ELSE ops[t]]
        /\ late' = [t \in Tasks |-> IF t \in dead THEN None ELSE late[t]]
        /\ UNCHANGED <<db, applied>>

\* What the event loop, the worker threads and SQLite do for a block.
Progress(t) ==
    \/ TakeForInit(t) \/ Initialize(t) \/ InitializeFails(t)
    \/ TakeForTransaction(t) \/ Open(t) \/ OpenFails(t)
    \/ Commit(t) \/ Rollback(t) \/ FinishFails(t) \/ Close(t)

\* What the body of a block, and whoever may cancel it, do.
Body(t) ==
    \/ \E op \in Ops : Operate(t, op) \/ LeaveStatementBehind(t, op)
    \/ Leave(t) \/ LeaveByError(t)

Cancel(t) == CancelWaiting(t) \/ CancelOpening(t) \/ CancelClosing(t) \/ CommitUnseen(t)

Next ==
    \/ \E t \in Tasks :
          Enter(t) \/ EnterClosed(t) \/ Progress(t) \/ Body(t) \/ Cancel(t) \/ RunLate(t)
    \/ \E p \in Processes : Shutdown(p) \/ Crash(p)

Spec == Init /\ [][Next]_transactionVars

\* No statement outlives its block: a thread has called SQLite before its task is
\* cancelled.  (One that does is in no transaction: it commits by itself.)
PromptSpec == Init /\ [][Next /\ UNCHANGED late]_transactionVars

----------------------------------------------------------------------------
TypeOK ==
    /\ \A k \in Keys : db[k].version \in Nat /\ db[k].author \in Tasks \cup {NoAuthor}
    /\ writer \in Tasks \cup {None}
    /\ holder \in [Processes -> Tasks \cup {None}]
    /\ \A p \in Processes : queue[p] \in Seq(Tasks) /\ IsInjective(queue[p])
    /\ initialized \in [Processes -> BOOLEAN]
    /\ closed \in [Processes -> BOOLEAN]
    /\ pc \in [Tasks -> States]
    /\ \A t \in Tasks : late[t] \in Ops \cup {None} /\ ops[t] \in Seq(Ops)
    /\ applied \subseteq Tasks
    /\ crashes \in 0..MaxCrashes

\* Whatever is cancelled, refused or crashed, at most one block of a process is
\* between the acquisition and the release of the backend's lock, and a task
\* that waits is in the queue of its process exactly once.
ExclusiveSection ==
    \A t \in Tasks :
        /\ pc[t] \in Critical => holder[Process[t]] = t
        /\ pc[t] \in {"init_wait", "lock_wait"} <=>
              \E i \in DOMAIN queue[Process[t]] : queue[Process[t]][i] = t

\* The lock of every backend and its waiters are consistent, whatever is cancelled.
LockInvariant == TypeOK /\ ExclusiveSection

\* What an open transaction has read and written is what its operations give on
\* the records committed NOW: no process commits between BEGIN and COMMIT.
ViewsAreCurrent ==
    \A t \in Tasks :
        pc[t] \in {"active", "committing"} => view[t] = Run(ops[t], db, t).records

\* A record is written only by a transaction that committed: what a rolled back
\* block did is nowhere in the database ("transaction atomique avec commit ou
\* rollback").
OnlyCommittedWrites ==
    \A k \in Keys : db[k].author # NoAuthor => db[k].author \in applied

\* Blocks are isolated: an open one sees what is committed and its own writes, and
\* nobody ever sees the writes of one that was rolled back.
BlocksAreIsolated == ViewsAreCurrent /\ OnlyCommittedWrites

----------------------------------------------------------------------------
\* The store that callers see.
Store == INSTANCE VersionedStore WITH
    Callers <- Tasks,
    store <- db,
    batch <- [t \in Tasks |-> IF t \in applied THEN <<>> ELSE ops[t]],
    answer <- [t \in Tasks |-> IF pc[t] \in Ended THEN pc[t] ELSE "none"]

\* Blocks are atomic and serial, and a block that returns has been applied.
ImplementsStore == Store!StoreSpec
============================================================================
