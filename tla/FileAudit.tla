----------------------------- MODULE FileAudit -----------------------------
(***************************************************************************)
(* AuditTrail over FileAuditSink (audit.py).  append signs under the lock   *)
(* of the trail and waits for a worker thread to check the size, write the   *)
(* line and fsync it.  Cancelling append releases the lock, not the thread.  *)
(* A signature is modelled by the sequence of events it covers, which is    *)
(* what HMAC chaining makes it stand for.  A line is written, and torn, as   *)
(* three pieces: a first part of its JSON text, the rest of the text, and    *)
(* the newline.                                                            *)
(***************************************************************************)
EXTENDS Naturals, Sequences, SequencesExt, FiniteSets, FiniteSetsExt

CONSTANTS
    Events,         \* events, each passed to append once
    None,           \* no event
    MaxSize,        \* max_file_bytes, in pieces
    PartialWrites,  \* whether os.write may accept one piece of a line
    WriteFailures,  \* whether write and fsync may fail
    CancelWrites,   \* whether append may be cancelled while the thread works
    MaxCrashes      \* bound: crashes of the process or of the machine

ASSUME FileAssumption ==
    /\ None \notin Events
    /\ MaxSize \in Nat
    /\ MaxCrashes \in Nat
    /\ {PartialWrites, WriteFailures, CancelWrites} \subseteq BOOLEAN

VARIABLES
    file,      \* the pieces of lines, in the order they were written
    durable,   \* how many of them an fsync has covered
    up,        \* whether a trail is running
    previous,  \* trail._previous_signature
    holder,    \* the event whose append holds trail._lock
    pc,        \* where the append of each event is
    signed,    \* previous_signature of the line its append wrote
    thread,    \* where its worker thread is
    crashes    \* number of crashes so far

diskVars == <<file, durable>>
fileVars == <<diskVars, up, previous, holder, pc, signed, thread, crashes>>

----------------------------------------------------------------------------
Ended == {"returned", "raised"}

Parts == {"head", "rest", "newline"}

\* A thread that has written part of its line is at the part it wrote last.
ThreadStates == {"none", "queued", "checked", "done", "failed"} \cup Parts

\* The part that a thread at this stage writes next.
Following == [checked |-> "head", head |-> "rest", rest |-> "newline"]

Piece(e, part) == [event |-> e, previous |-> signed[e], part |-> part]

\* The events whose text is complete: those that load returns, if it can read the
\* file.  The last one may lack its newline (splitlines).
Lines(f) ==
    LET upTo[n \in 0..Len(f)] ==
            IF n = 0 THEN <<>>
            ELSE IF f[n].part = "rest" THEN Append(upTo[n - 1], f[n]) ELSE upTo[n - 1]
    IN  upTo[Len(f)]

Signature(line) == Append(line.previous, line.event)

LastSignature(f) ==
    LET lines == Lines(f)
    IN  IF lines = <<>> THEN <<>> ELSE Signature(Last(lines))

\* load decodes every line: it is the whole text of one event, and nothing else.
\* A torn text and two texts on a line are no JSON.
Readable(f) ==
    \A k \in DOMAIN f :
        /\ f[k].part = "head" =>
              /\ k > 1 => f[k - 1].part = "newline"
              /\ k < Len(f)
              /\ f[k + 1].part = "rest"
              /\ f[k + 1].event = f[k].event
        /\ f[k].part = "rest" =>
              /\ k > 1
              /\ f[k - 1].part = "head"
              /\ k < Len(f) => f[k + 1].part = "newline"

\* verify_chain
Chained(f) ==
    LET lines == Lines(f)
    IN  \A k \in DOMAIN lines :
            lines[k].previous = IF k = 1 THEN <<>> ELSE Signature(lines[k - 1])

Init ==
    /\ file = <<>>
    /\ durable = 0
    /\ up = TRUE
    /\ previous = <<>>
    /\ holder = None
    /\ pc = [e \in Events |-> "idle"]
    /\ signed = [e \in Events |-> <<>>]
    /\ thread = [e \in Events |-> "none"]
    /\ crashes = 0

----------------------------------------------------------------------------
Call(e) ==
    /\ up
    /\ pc[e] = "idle"
    /\ pc' = [pc EXCEPT ![e] = "waiting"]
    /\ UNCHANGED <<diskVars, up, previous, holder, signed, thread, crashes>>

\* The lock is acquired and the event signed with the last signature.
Sign(e) ==
    /\ pc[e] = "waiting"
    /\ holder = None
    /\ holder' = e
    /\ signed' = [signed EXCEPT ![e] = previous]
    /\ thread' = [thread EXCEPT ![e] = "queued"]
    /\ pc' = [pc EXCEPT ![e] = "writing"]
    /\ UNCHANGED <<diskVars, up, previous, crashes>>

\* _append_sync, before it opens the file.
CheckSize(e) ==
    /\ thread[e] = "queued"
    /\ thread' = [thread EXCEPT ![e] = IF Len(file) + Cardinality(Parts) > MaxSize THEN "failed" ELSE "checked"]
    /\ UNCHANGED <<diskVars, up, previous, holder, pc, signed, crashes>>

WriteLine(e) ==
    /\ thread[e] = "checked"
    /\ file' = file \o <<Piece(e, "head"), Piece(e, "rest"), Piece(e, "newline")>>
    /\ thread' = [thread EXCEPT ![e] = "newline"]
    /\ UNCHANGED <<durable, up, previous, holder, pc, signed, crashes>>

WritePiece(e) ==
    /\ PartialWrites
    /\ thread[e] \in DOMAIN Following
    /\ file' = Append(file, Piece(e, Following[thread[e]]))
    /\ thread' = [thread EXCEPT ![e] = Following[thread[e]]]
    /\ UNCHANGED <<durable, up, previous, holder, pc, signed, crashes>>

\* Mutant: no fsync.
SyncSkipped(e) ==
    /\ thread[e] = "newline"
    /\ thread' = [thread EXCEPT ![e] = "done"]
    /\ UNCHANGED <<diskVars, up, previous, holder, pc, signed, crashes>>

Sync(e) ==
    /\ thread[e] = "newline"
    /\ durable' = Len(file)
    /\ thread' = [thread EXCEPT ![e] = "done"]
    /\ UNCHANGED <<file, up, previous, holder, pc, signed, crashes>>

\* Mutant: when fsync fails the line is written again.
WriteFailsRetried(e) ==
    /\ \/ /\ thread[e] \in {"queued", "checked"}
          /\ thread' = [thread EXCEPT ![e] = "failed"]
       \/ /\ WriteFailures
          /\ thread[e] \in Parts
          /\ thread' = [thread EXCEPT ![e] = "checked"]
    /\ UNCHANGED <<diskVars, up, previous, holder, pc, signed, crashes>>

\* mkdir, open, write or fsync raises.
WriteFails(e) ==
    /\ \/ thread[e] \in {"queued", "checked"}
       \/ WriteFailures /\ thread[e] \in Parts
    /\ thread' = [thread EXCEPT ![e] = "failed"]
    /\ UNCHANGED <<diskVars, up, previous, holder, pc, signed, crashes>>

----------------------------------------------------------------------------
Return(e) ==
    /\ pc[e] = "writing"
    /\ thread[e] = "done"
    /\ previous' = Append(signed[e], e)
    /\ holder' = None
    /\ pc' = [pc EXCEPT ![e] = "returned"]
    /\ UNCHANGED <<diskVars, up, signed, thread, crashes>>

\* Mutant: a failed append is tried again, for ever.
RaiseRetries(e) ==
    /\ pc[e] = "writing"
    /\ thread[e] = "failed"
    /\ holder' = None
    /\ pc' = [pc EXCEPT ![e] = "waiting"]
    /\ UNCHANGED <<diskVars, up, previous, signed, thread, crashes>>

\* AuditIntegrityError: the signature stays that of the last acknowledged event.
Raise(e) ==
    /\ pc[e] = "writing"
    /\ thread[e] = "failed"
    /\ holder' = None
    /\ pc' = [pc EXCEPT ![e] = "raised"]
    /\ UNCHANGED <<diskVars, up, previous, signed, thread, crashes>>

CancelWaiting(e) ==
    /\ pc[e] = "waiting"
    /\ pc' = [pc EXCEPT ![e] = "raised"]
    /\ UNCHANGED <<diskVars, up, previous, holder, signed, thread, crashes>>

\* CancelledError is not an Exception: the lock is released, and the thread goes
\* on unless it had not started.
CancelWriting(e) ==
    /\ CancelWrites
    /\ pc[e] = "writing"
    /\ holder' = None
    /\ pc' = [pc EXCEPT ![e] = "raised"]
    /\ \/ UNCHANGED thread
       \/ thread[e] = "queued" /\ thread' = [thread EXCEPT ![e] = "none"]
    /\ UNCHANGED <<diskVars, up, previous, signed, crashes>>

\* The process dies; when the machine does, what no fsync covered may be lost.
Crash(kept) ==
    /\ up
    /\ crashes < MaxCrashes
    /\ crashes' = crashes + 1
    /\ up' = FALSE
    /\ file' = SubSeq(file, 1, kept)
    /\ holder' = None
    /\ pc' = [e \in Events |-> IF pc[e] \in {"idle"} \cup Ended THEN pc[e] ELSE "raised"]
    /\ thread' = [e \in Events |-> "none"]
    /\ UNCHANGED <<durable, previous, signed>>

\* Mutant: a last line that is torn is passed over, as many logs do, and left there.
ResumePastTorn ==
    /\ ~up
    /\ Len(file) <= MaxSize
    /\ \/ Readable(file)
       \/ /\ file # <<>>
          /\ Last(file).part = "head"
          /\ Readable(SubSeq(file, 1, Len(file) - 1))
    /\ Chained(file)
    /\ up' = TRUE
    /\ previous' = LastSignature(file)
    /\ UNCHANGED <<diskVars, holder, pc, signed, thread, crashes>>

\* AuditTrail.resume: load refuses a file that is too large or unreadable, and
\* the whole chain is verified.
Resume ==
    /\ ~up
    /\ Len(file) <= MaxSize
    /\ Readable(file)
    /\ Chained(file)
    /\ up' = TRUE
    /\ previous' = LastSignature(file)
    /\ UNCHANGED <<diskVars, holder, pc, signed, thread, crashes>>

Work(e) == CheckSize(e) \/ WriteLine(e) \/ WritePiece(e) \/ Sync(e) \/ WriteFails(e)

Next ==
    \/ \E e \in Events :
          \/ Call(e) \/ Sign(e) \/ Work(e) \/ Return(e) \/ Raise(e)
          \/ CancelWaiting(e) \/ CancelWriting(e)
    \/ \E kept \in durable..Len(file) : Crash(kept)
    \/ Resume

Spec == Init /\ [][Next]_fileVars

----------------------------------------------------------------------------
TypeOK ==
    /\ \A k \in DOMAIN file : file[k] \in [event : Events, previous : Seq(Events),
                                           part : Parts]
    /\ durable \in 0..Len(file)
    /\ previous \in Seq(Events)
    /\ holder \in Events \cup {None}
    /\ pc \in [Events -> {"idle", "waiting", "writing"} \cup Ended]
    /\ thread \in [Events -> ThreadStates]
    /\ \A e \in Events : pc[e] = "writing" <=> holder = e

\* Every line of the journal continues the one before it: what resume verifies.
JournalVerifies == Chained(file)

\* Lines that were joined: a text began where the one before it had no newline.
Joined ==
    {k \in DOMAIN file : k > 1 /\ file[k].part = "head" /\ file[k - 1].part = "rest"}

Torn == file # <<>> /\ Last(file).part = "head"

\* Of the tests of resume, the journal always passes those of its size and of its
\* chain.  It is unreadable only because its last line is torn, which nothing is
\* ever written behind, or because lines were joined; and a line is joined only to
\* one whose append a crash interrupted before its newline, never to a line that
\* was acknowledged.  A trail that runs, also one that was resumed, and that is not
\* writing, continues the last event of the file and has no torn line.
JournalContinues ==
    /\ JournalVerifies
    /\ Len(file) <= MaxSize
    /\ Readable(file) \/ Torn \/ Joined # {}
    /\ \A k \in Joined : pc[file[k - 1].event] = "raised"
    /\ up /\ (\A e \in Events : pc[e] # "writing") =>
          ~Torn /\ previous = LastSignature(file)

\* The whole line of an event whose append returned survives a failure of the
\* machine ("synchronisation durable après chaque événement"), also when other
\* appends fail or are cancelled.  Whether load can read it back is the subject of
\* JournalContinues.
AcknowledgedIsDurable ==
    /\ TypeOK
    /\ \A e \in Events : pc[e] = "returned" =>
           \A part \in Parts :
               \E k \in 1..durable : file[k].event = e /\ file[k].part = part

----------------------------------------------------------------------------
Chain == INSTANCE AuditChain WITH
    chain <- LET lines == Lines(file) IN [k \in DOMAIN lines |-> lines[k].event],
    acknowledged <- {e \in Events : pc[e] = "returned"}

\* The events whose text is complete in the file only grow, keep what was
\* acknowledged, and appear once, also when appends are cancelled and their threads
\* go on, and whether or not load can read the lines they are on.
ImplementsChain == Chain!ChainSpec
============================================================================
