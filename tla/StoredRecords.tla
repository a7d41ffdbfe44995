--------------------------- MODULE StoredRecords ---------------------------
(***************************************************************************)
(* What put and delete of transactional_persistence.py do to the records   *)
(* of one (tenant, namespace) scope.  A record is abstracted to its version *)
(* and to the transaction that wrote it, which stands for its value.        *)
(***************************************************************************)
EXTENDS Naturals, Sequences, SequencesExt

CONSTANTS
    Keys,      \* record keys
    AnyVersion,     \* expected_version = None
    NoAuthor   \* the author of a record that does not exist

\* No row: version 0, which is also the expected_version of a creation.
Absent == [version |-> 0, author |-> NoAuthor]

\* The precondition of an operation; PersistenceConflictError when it fails.
Applicable(op, s) ==
    \/ op.expected = AnyVersion
    \/ op.expected = s[op.key].version
    \/ op.kind = "delete" /\ s[op.key] = Absent

\* INSERT writes version 1, UPDATE and the upsert version + 1.
After(op, s, t) ==
    [s EXCEPT ![op.key] =
        IF op.kind = "put"
        THEN [version |-> s[op.key].version + 1, author |-> t]
        ELSE Absent]

\* The records after the batch of one transaction, and whether no operation
\* of it met a conflict.
Run(batch, s, t) ==
    FoldLeft(LAMBDA acc, op :
                [ok |-> acc.ok /\ Applicable(op, acc.records),
                 records |-> After(op, acc.records, t)],
             [ok |-> TRUE, records |-> s], batch)
============================================================================
