------------------------------ MODULE MCAudit ------------------------------
(* The two audit trails, and the transaction blocks under the one in the      *)
(* database.  They share nothing here, so a behaviour runs one and leaves the  *)
(* others as they were made: the trail in the database; the trail in a file,   *)
(* whose writes are torn by crashes; another, whose writes fail and are        *)
(* cancelled; or blocks whose statements may outlive them.                    *)
EXTENDS FileAudit, PersistentAudit

CONSTANTS e1, e2, e3, e4, e5, k1, k2, t1, t2, t3, p1, p2, AnyVersion, NoAuthor

VARIABLES trail,
          file2, durable2, up2, previous2, holder2, pc2, signed2, thread2, crashes2,
          db, writer, lock, queue, initialized, closed, block, view, ops, late, applied, deaths

file2Vars == <<file2, durable2, up2, previous2, holder2, pc2, signed2, thread2, crashes2>>
blockVars == <<db, writer, lock, queue, initialized, closed, block, view, ops, late, applied,
               deaths>>
eitherVars == <<auditVars, fileVars, file2Vars, blockVars, trail>>

\* Three events signed with the first key, one with the second, one foreign.
TwoKeys == [e \in TrailEvents |-> IF e = e4 THEN k2 ELSE k1]

\* Appends that fail and are cancelled, with one crash.
Disturbed == INSTANCE FileAudit WITH
    MaxCrashes <- 1, PartialWrites <- FALSE, WriteFailures <- TRUE, CancelWrites <- TRUE,
    file <- file2, durable <- durable2, up <- up2, previous <- previous2, holder <- holder2,
    pc <- pc2, signed <- signed2, thread <- thread2, crashes <- crashes2

Tasks == {t1, t2, t3}

\* Three blocks of one operation in two processes, cancelled where the lock is
\* given back.
Blocks == INSTANCE SQLiteTransactions WITH
    Keys <- {"k1"}, Processes <- {p1, p2},
    Process <- [t \in Tasks |-> IF t = t3 THEN p2 ELSE p1],
    Expected <- {0}, MaxOps <- 1, MaxCrashes <- 1,
    CancelPoints <- {"init_wait", "lock_wait", "committing"},
    holder <- lock, pc <- block, crashes <- deaths

EitherInit ==
    /\ trail \in {"database", "torn", "disturbed", "blocks"}
    /\ TrailInit /\ Init /\ Disturbed!Init /\ Blocks!Init

EitherNext ==
    \/ trail = "database" /\ TrailNext /\ UNCHANGED <<fileVars, file2Vars, blockVars>>
    \/ trail = "torn" /\ Next /\ UNCHANGED <<auditVars, file2Vars, blockVars>>
    \/ trail = "disturbed" /\ Disturbed!Next /\ UNCHANGED <<auditVars, fileVars, blockVars>>
    \/ trail = "blocks" /\ Blocks!Next /\ UNCHANGED <<auditVars, fileVars, file2Vars>>

\* The append of e gets the lock.
Enter(e) ==
    /\ \/ trail = "torn" /\ Sign(e) /\ UNCHANGED file2Vars
       \/ trail = "disturbed" /\ Disturbed!Sign(e) /\ UNCHANGED fileVars
    /\ UNCHANGED <<auditVars, blockVars, trail>>

\* What runs for the append of e, or for the block of t: a behaviour has one of them.
Serve(e, t) ==
    \/ /\ \/ trail = "torn" /\ (Work(e) \/ Return(e) \/ Raise(e)) /\ UNCHANGED file2Vars
          \/ /\ trail = "disturbed"
             /\ Disturbed!Work(e) \/ Disturbed!Return(e) \/ Disturbed!Raise(e)
             /\ UNCHANGED fileVars
       /\ UNCHANGED <<auditVars, blockVars, trail>>
    \/ /\ trail = "blocks"
       /\ Blocks!Progress(t) \/ Blocks!Leave(t) \/ Blocks!LeaveByError(t)
       /\ UNCHANGED <<auditVars, fileVars, file2Vars, trail>>

\* Worker threads and the event loop run; asyncio.Lock serves its waiters, SQLite
\* answers within its busy timeout, and the body of a block ends.
FairEitherSpec ==
    /\ EitherInit
    /\ [][EitherNext /\ UNCHANGED trail]_eitherVars
    /\ \A e \in Events : SF_eitherVars(Enter(e))
    /\ \A i \in 1..3 : WF_eitherVars(Serve(<<e1, e2, e3>>[i], <<t1, t2, t3>>[i]))

----------------------------------------------------------------------------
\* The chain of either trail only grows at its end, each event appears once, and
\* what was acknowledged stays, also when appends are cancelled and their threads
\* go on.  Of a file it is the chain of the events whose text is complete: a torn
\* text lacks some of its JSON, a text that lacks only its newline does not.
BothImplementChain == ImplementsTenantChain /\ ImplementsChain /\ Disturbed!ImplementsChain

Waits(e, t) ==
    \/ {pc[e], pc2[e]} \cap {"waiting", "writing"} # {}
    \/ block[t] \notin {"idle", "returned", "raised"}

\* No append waits for ever, and no transaction block under one that is not
\* cancelled while its connection opens or closes, whatever failed, crashed, was
\* cancelled or is left behind around it.
EveryAppendEnds ==
    \A i \in 1..3 :
        LET e == <<e1, e2, e3>>[i]
            t == <<t1, t2, t3>>[i]
        IN  Waits(e, t) ~> ~Waits(e, t)
============================================================================
