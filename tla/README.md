# ELMAN-OS in TLA+

This directory holds TLA+ models of ELMAN-OS (`src/src/elman_os`), the TLC
configurations that check them on small instances, and proofs, checked by TLAPS, that
hold for every value of the constants. Each definition that models code is mapped to
the lines it stands for in `PROJECT.json` (`map`); the comments of the modules name
the functions. Paths such as `audit.py:422` are relative to `src/src/elman_os`.

    tlasany M.tla                          parse
    tlc -workers 2 -config X.cfg MCModule  check one run
    tlapm M_proofs.tla                     check the proofs of a part (and FoldTheorems.tla)

## 1. The system and its parts

ELMAN-OS is a Python library with three faces: a governed way to call an AI provider,
a bounded self-supervising workflow with human approvals, and a local Studio (Flet)
with a project generator. Everything is asyncio on one event loop per process, apart
from worker threads (`asyncio.to_thread`, Flet's `run_thread`, FastAPI's pool) and from
other processes on the same SQLite file.

| Part (source) | State it keeps | Operations | What makes it correct | Module |
|---|---|---|---|---|
| Persistent quotas (`persistent_governance.py`) | a usage record per identity, a record per reservation | reserve, settle, snapshot, each in a transaction that first reaps expired reservations | counters summarise the records; the three limits hold across processes; one charge per reservation; nothing reaped early | `PersistentQuota`, `IdentityQuotaContract` |
| In-memory quotas (`governance.py`) | counters per identity, active reservations | reserve, settle, snapshot under a lock | the same contract | `MemoryQuota` |
| SQLite transactions (`transactional_persistence.py`) | an asyncio lock per backend, a connection per block, versioned records | `async with transaction`: get, put, delete, list | blocks are atomic and serial; the lock comes back | `StoredRecords`, `VersionedStore`, `SQLiteTransactions` |
| Execution boundary (`production_runtime.py`, `governance.py`, `audit.py`) | nothing of its own | `generate` = reserve, audit `started`, provider, audit terminal event, settle | gates before the provider; success accounted and audited; slot released | `GovernedExecution` |
| File audit (`audit.py`) | a JSON-lines file, the last signature | append, resume, verify | the journal always passes the size and chain tests of resume, and becomes unreadable in two ways only; what was acknowledged is durable | `AuditChain`, `FileAudit` |
| Persistent audit (`persistent_governance.py`) | a state record and event records per tenant | append, verify | the stored chain always verifies | `AuditChain`, `PersistentAudit` |
| Resilient executor (`execution.py`) | a `BudgetLedger` shared by its calls | generate with attempts, timeouts, backoff | budgets and deadlines are kept | `ResilientExecution` |
| Approvals (`approvals.py`, `persistence.py`) | approval rows | request, decide, require | what is let through was approved by somebody else; a decision is final | `ApprovalGate` |
| Workflow (`workflow.py`, `metacognition.py`) | supervisor counters, iterations, lessons | run | each stop has a true reason, within bounds | `Workflow` |
| Generator (`generator.py`) | the files of a project | generate | nothing is overwritten; what is returned is whole | `ProjectGenerator` |
| Studio page (`studio.py`) | one session (intent, plan, approved), the controls of each page | preview, approve, revoke, generate | only the plan shown and approved is generated | `Studio` |
| Studio runs (`studio_runtime.py`, `studio.py`) | the controls of the run, workflow rows | start, run in a thread, save, announce | one run per approval; reports are not mixed up; runs end | `StudioWorkflow` |
| Run history (`studio_history.py`, `studio.py`) | the cards and the details shown | refresh, consult | what is shown is stored, and what completed is shown | `WorkflowHistory` |
| Authentication (`authentication.py`) | none but the clock | authenticate | a bounded stretch of time; unsigned claims have no effect | `TokenAuthentication` |
| Provider selection (`registry.py`, `configuration.py`, `governance.py`) | registrations | check, resolve, fallback | what is compatible can be selected; the fallback hides nothing | `ProviderSelection` |
| OpenAI-compatible adapter (`openai_compatible.py`) | closed flags, requests in worker threads | generate, close | a request is sent for an attempt, and again only with a reason; nothing sent once closing; errors normalised | `ProviderAdapter`, its construction in `ProviderSelection` |
| Release inventory (`release.py`, `scripts/build_release.py`) | the inventory file, the archive | write, build, verify | a whole inventory at any time; archive and inventory agree; true verdicts | `ReleaseInventory` |
| Provider contracts, plugins, technology policy, catalog, CLI, API | | | | not modelled, see section 7 |

How they interact. `ProductionAIRuntime` checks the settings and resolves a provider
(`ProviderSelection`, `ProviderAdapter`), wraps it in a `ResilientAIExecutor`, that in an
`AuditedAIExecutor` and that in a `StabilizedAIExecutor` with a quota manager per tenant
(`GovernedExecution`); quotas and audit of a tenant share one backend and its lock
(`SQLiteTransactions`). `AuthenticatedExecutionService` puts `TokenAuthentication` in
front. Studio calls the kernel service (planning and `ProjectGenerator`) from the
handlers of its pages and runs `ElmanWorkflow` in threads, which refresh the history on
their way out while a button of the page may do the same.

What is hard in it: cancellation at any await, with worker threads that go on
(`to_thread`); shared counters apart from the records they summarise; clocks read
before a lock is waited for; processes on one file; test-then-write in several places;
retries, deadlines and budgets shared by concurrent calls; a runtime closed while calls are
in flight; a directory hashed while others work in it; and Studio handlers, threads and
pages on one session. `PROJECT.json` lists each hazard at its line, with the
properties that would catch it going wrong.

## 2. The modules

Every component module declares CONSTANTS with a named assumption, VARIABLES, Init, one
action per operation or per stretch of code between two awaits, Next, Spec, and then
its properties. The `MC` modules add the model values and functions for TLC. The
operators introduced by a comment `Mutant:` restate one definition as a plausible bug
would have it: each property has such a mutant (`PROJECT.json`, `mutants`), and TLC finds the
property violated when the mutant takes the definition's place.

**IdentityQuotaContract** is what both quota managers promise: leases granted within
the limits, each ended once, tokens charged. **PersistentQuota** splits every operation
where it can be overtaken: the clock is read (`Enter...`), later its transaction runs as
one step (blocks are serial: see `VersionedStore`). Its state is the stored one, `usage`
per identity and `reservation` records, plus the frame of each call. A crash is a call that never
settles. **MemoryQuota** is `governance.py`'s manager. Both are shown to implement the
contract with `lease` mapped to what they keep.

**StoredRecords** has the data of a record with its version; **VersionedStore** is the
abstract store, whole blocks in one step; **SQLiteTransactions** is the code: initialisation,
lock queue, open, BEGIN IMMEDIATE (a lock of the file across processes), statements, COMMIT or
rollback, close, release, each await a possible cancellation (`CancelPoints`) and
each worker thread possibly later than its task (`LeaveStatementBehind`, `RunLate`).
`PromptSpec` is the same without such threads.

**GovernedExecution** extends `PersistentQuota` and adds a program counter per call:
turned away by the route (`TurnAway`), authorize, started event, provider, terminal event, settlement, shielded as in the code. Backend
failures (`BackendFails`) and the lock lost by a cancelled block (`LeakyCancel`, the
consequence of what `SQLiteTransactions` shows) are constants, so that `governed`, `call_path` and `governed_leak` tell apart what
holds with and without them. Whatever it does is a step of `PersistentQuota` (`ImplementsQuota`),
so the quota's theorems hold of the boundary.

**AuditChain** is the abstract audit: events are only ever added at the end, once,
and acknowledged ones are in it. **FileAudit** (writes by pieces, fsync, cancellation,
crash, resume) and **PersistentAudit** (several instances, expected versions) implement
it. A line of the file is three pieces, which are also the places where it can be torn: a first part of
its JSON text (`head`), the rest of the text (`rest`), and the newline. `load` splits the file into lines and decodes each
(`audit.py:278-284`). `Readable` says when it succeeds: each line is one whole text, the last one with or
without its newline. `Lines` is what it then returns. A signature is modelled by the history it covers, which is what the HMAC of an event with
the previous signature stands for.

**ProviderAdapter** extends `ResilientExecution`: what is one step there, the provider's
answer, is here a request handed to a pool of threads, sent, answered by a reply or an exception, and
heard or not, because its task timed out or was cancelled meanwhile. `Outcome` is the table of
`_http_error` and `_decode_response` over classes of replies. The coroutine between the executor's decision and
the await of its thread is two actions, `Begin` and `Send`; `Quiet` keeps other coroutines of the
one event loop out between them, threads excepted. Its steps are steps of `ResilientExecution`
(`ImplementsExecutor`, proved), so what holds of the executor holds over the adapter.

**WorkflowHistory** extends `StudioWorkflow`: a refresh clears the view, reads and shows in three steps, of
the page or of a thread whose run completed; the database may not exist, or exist without its table.
**ReleaseInventory** has one action per system call of a build or a verification on a directory
that others edit; a content stands for its digest.

**ResilientExecution**, **ApprovalGate**, **Workflow**, **ProjectGenerator**, **Studio**,
**StudioWorkflow**, **TokenAuthentication** and **ProviderSelection** model one component each,
as the table says. `Serial` (in `ApprovalGate` and `ProjectGenerator`) is the situation of one
process that handles one call at a time; without it calls interleave between their steps.
In `Studio` the handlers run one at a time, as Flet's event loop delivers them; the pages
interleave. A `Studio` page has its own controls and they all share `session`, because
`launch_studio` creates the session once, outside `main(page)` (`studio.py:157`), and its
docstring offers the desktop and the web UI. `ProviderSelection` works on the
registry of `built_in_provider_registry` with at most one provider of the application's own; a registry without the
deterministic provider, whose `resolve` ends a fallback with `FALLBACK_NOT_AVAILABLE` (`registry.py:184-190`), is left out.

## 3. The runs

Components that share no state are checked side by side in one run: the MC module
extends them (a second instance of one, with other constants, is instantiated over variables of
its own), and a variable
(`part`, `manager`, `trail`, `step`), chosen initially and never changed, says which one a
behaviour runs while the others rest. Such a run explores the sum of the components' states and
not their product, and the property of each holds of those that rest as well. Because the MC module
extends the components, each invariant of a run is the formula that the theorems of section 5
are about. Where a part is given less room than the constants allow, the MC module says so by a
conjunct on the component's next-state relation (`TwoBuilds` and `BuildAndCheck` in `MCSupervision`;
`OnePage`, `TwoPages`, `Workflows` and `History` in `MCStudio`).

Bounds are the constants of the .cfg, or of the INSTANCE in the MC module; each is just large
enough for the case that matters.

| Run | Bounds, and why they are enough | What it shows |
|---|---|---|
| `quota` | 4 calls of one identity; limits 3 requests, 2 concurrent, 4 tokens; estimates up to 2, actual counts up to 1 more; TTL 1, clock 2: each limit is met by some call, a record expires under its holder, a clock read is up to two ticks old | counters match the records, the limits, one charge, nothing reaped early, refusals count live records only |
| `quota_contract` | memory: 4 calls and one of another identity; persistent: 2 calls for one slot and one of another identity | both managers implement the contract, identities are apart; the in-memory manager keeps the limits |
| `sqlite` | 3 blocks of 2 operations, two in one process and one in another, cancellation at every await, one crash, expected versions 0 and 1, no statement outlives its block (`PromptSpec`) | exclusive section, current views, rolled back writes never show, the atomic versioned store is implemented |
| `governed` | 3 calls in 2 processes, one denied; TTL 1 and clock 1, so a reservation expires under a call that works; backend failures, lost locks, cancellation, crashes | gates before the provider, a success is accounted, one running call per unexpired lease; the boundary implements the quota manager |
| `audit` | database: 4 events of the tenant and one of another, 2 keys, room for 2 events; file: 3 events, room for two lines of three pieces, either 2 crashes and torn writes, or one crash with failing and cancelled writes, so that a line may be torn or lack its newline, be resumed and be written behind; blocks: 3 of one operation in 2 processes, cancelled only where the code gives the lock back, late threads, one crash | the stored chain always verifies; the journal fits, verifies, is unreadable only when its last line is torn or lines were joined, and a trail that runs continues it; what was acknowledged is durable; both implement the chain; appends end, and so do the blocks under them |
| `call_path` | boundary: 2 calls in 2 processes over a backend that serves them; executor over its adapter (step `provide`): 2 calls of 3 attempts, 3 provider calls, 2 tokens, 4 ticks, one thread, 8 replies and 2 exceptions, the runtime closed at any time, so that each budget is met before the attempts run out, one answer takes the ledger over its tokens while another call may still retry, and a request waits for the thread while another outlives its task; authentication: about 700 tokens, 3 policies, times 0 to 7 (leeway and age limits fall inside); selection: every legal setting over 2 capabilities and 2 models, a provider of the application's own absent, good or bad | budgets, deadlines and overrun; each request has a reason and none is sent once closing; calls of the executor over the adapter and of the boundary end and slots return; the lifetime of a token; unsigned claims are silent; the check and the selection agree and the fallback is honest |
| `supervision` | gate: 2 requests, 3 decisions of 2 people, protected and other actions, decisions that interleave or not; loop: up to 4 cycles of 45 kinds, every limit can be the first; release: two builds and one edit of 2 files (`builds`), or one build, one verification and two edits (`release`), so that a file can change and change back, and an inventory can be written under a build or under a verification | what is let through was approved by somebody else; in one process a decision is final; each stop has a true reason, within bounds; whole inventories, archives that agree with theirs, true verdicts |
| `studio` | generator: 3 callers of 3 and 4 files, 2 slugs, a failure at any write; page: 1 page with 3 approvals, 2 pages with 2, 3 intents of 2 names; workflows: 2 threads, 2 ids, 3 approvals; history: the same threads with one cycle and 2 approvals, and the page's own refresh, so that two refreshes overlap and an id is stored again | whole projects, nothing overwritten; one project per approval, of the plan shown; one run per approval, own reports, runs end; the history shows what is stored and misses nothing that completed |

What each property of a run says is stated above its definition. Several are conjunctions of
named parts, each with its own statement: `TokensAccounted` (sum of reservations, one charge, ceiling),
`LockInvariant` (types, exclusive section), `BlocksAreIsolated` (current views, only committed writes),
`GatesHold`, `TrailVerifies`, `BudgetHolds` (types, provider
calls, deadlines, delivered tokens), `RequestsAreJustified`,
`AcceptanceIsBounded` (lifetime, silence on unsigned claims), `SelectionAgrees` (what is compatible is
selected, what is selected is able, the fallback hides nothing), `LoopIsBounded` (types, limits, one lesson),
`ReleaseIsVerified` (inventory, archive, verdict), `ProjectIsApproved` (one project per approval, of the
plan shown; on one page, a button that can be pressed means approved), `HistoryIsStored` (what is shown is
stored, what completed is shown). `EveryCallEnds` is one leads-to per call, over the steps `provide` and
`govern`; of the boundary it asks that the call be over and its slot free. The type
invariants of `MemoryQuota`, `ApprovalGate` and `ProjectGenerator` are parts of
their proved inductive invariants and are not checked again.

Most configurations switch deadlock checking off: calls, appends and runs end, and a system whose
work is done stops. Whether it stops too soon is what the liveness properties ask.

### Where the code and what is said of it part

Four runs each check one property taken from a document or a comment, and find a short
counterexample (`PROJECT.json`, `findings`, quotes the line).

| Run | Property | Counterexample |
|---|---|---|
| `governed_leak` | `SlotComesBack` | cancelled inside an audit transaction, a call leaves with the backend's lock (`transactional_persistence.py:272-281`); its own settlement then waits for ever |
| `file_audit_cancel` | `JournalVerifies` | the worker thread of a cancelled append writes its line, which the trail does not know of; the next one forks the chain (`audit.py:358`) |
| `resilient_tokens` | `TokensWithinBudget` | concurrent calls each pass the token test before any response is recorded (`execution.py:146`) |
| `provider_failures` | `FailuresAreNormalised` | a response 200 whose `usage` is null or a list, or a connection that ends in the middle of a body, leaves the adapter as an `AttributeError` or an exception of `http.client`, not as a `ProviderError` (`openai_compatible.py:268`, `99`) |

The models contain more behaviours of this kind. No run is kept for them, but a constant or a
part of an existing run leads to each:

- A block of `SQLiteTransactions` cancelled while its connection opens or closes keeps the lock of the
  backend: with those awaits added to `CancelPoints` in the `Blocks` of `MCAudit`, `EveryAppendEnds`
  fails. This is what `LeakyCancel` in `GovernedExecution` stands for.
- A statement that starts in its thread between the rollback of its cancelled block and the closing
  finds the connection in autocommit and stays (`transactional_persistence.py:297`): under `Spec` in
  place of `PromptSpec`, `OnlyCommittedWrites` fails.
- A reservation may expire while its call is with the provider; then one more call runs than the
  concurrency limit. `RunningWithinLease` is what holds.
- A call cancelled while `started` is recorded, or ended by an exception that `audit.py:425-445` does
  not name, has no terminal event.
- An append whose `fsync` fails is refused though its line is in the file (`audit.py:262`): with
  `WriteFailures`, `JournalVerifies` fails. After a cancelled append two threads may both pass the
  size test, and the journal may grow beyond what resume accepts. `JournalContinues` is therefore stated
  of the torn trail, `AcknowledgedIsDurable` of that trail, and the chain of both.
- After a crash in the middle of a write the journal may never be resumed again: a last line that is torn
  is refused for ever (`audit.py:278-284`; nothing removes it). A last line that lacks only its newline is
  worse: `load` takes it for an event, the trail resumes, and the next append, which is
  acknowledged, is written on the same line (`audit.py:249-261`). The next resume then refuses the file,
  with events in it that were acknowledged and durable, although
  `docs/AI-KERNEL-STABILIZATION.md` promises "un événement JSON canonique par ligne". `JournalContinues` names both cases
  (`Torn`, `Joined`) and says that there are no others: without the disjunct `Joined # {}` it fails in the run `audit`.
- Two processes that decide together both succeed, and the second decision replaces the first
  (`approvals.py:94`): `DecisionIsFinal` holds of one process only.
- A cycle that passes with a critical finding blocks the run and still yields a lesson (`workflow.py:97`,
  `metacognition.py:158`).
- Two calls of `generate` for one slug both find the directory empty (`generator.py:64`): with
  `Serial = FALSE`, `NeverOverwritten` fails.
- A run whose workflow id another run has used replaces its report, and the last one to be saved stays
  (`persistence.py:76`, `ON CONFLICT`): `ReportIsTheRuns` tolerates that a report is replaced by
  another run of the same id, and says of the rest that a run announces its own verdict.
- Two Studio pages share one session, so a box ticked on one page may approve the plan previewed on the
  other (`studio.py:157`); a preview that is refused (`studio.py:117-121`) unticks the box and leaves the
  session approved.
- Two refreshes of the history that overlap show each report's card twice (`studio.py:427-499`); the
  model keeps a set of cards, which is what `HistoryIsStored` is about.
- A verification compares the names its inventory lists: a file that was added is not reported
  (`release.py:213-231`). A build that dies between `mkstemp` and the rename leaves its temporary file, which
  later inventories list.

## 4. Fairness

Nothing is ever assumed of cancellation, failures or crashes.

- `SQLiteTransactions` (in `audit`): weak fairness of each block's progress and of its leaving, as one
  action per task. asyncio wakes the waiter whose lock or thread result is ready, and the
  lock's queue is first come first served.
- `FileAudit` (in `audit`): weak fairness of the work in hand, strong fairness of entering the lock, whose
  queue is first come first served.
- `GovernedExecution` (`governed_leak`, and the step `govern` of `call_path`): weak fairness of each
  call's own steps (`Handle`), the same argument one level up; a lock that was lost disables them, which
  is how `governed_leak` differs. The provider is among these steps because the executor below it always
  ends (`EveryCallEnds` of the step `provide`).
- `ResilientExecution` and `ProviderAdapter` (in `call_path`): time passes (`TimePasses`), and each call's
  timer that is due, and each coroutine that can go on, is served (`Serve`: `asyncio.timeout`,
  `asyncio.sleep`, the event loop). Nothing is assumed of providers, nor of the threads that wait for
  them: a server may never answer.
- `StudioWorkflow` and `WorkflowHistory`: threads that were started are scheduled. Nothing is assumed of
  the page's user.

## 5. What is proved

Proofs are in the modules `..._proofs` and in `FoldTheorems`. They hold for every value of the
constants that satisfies the named assumptions of the modules (each is an ASSUME that TLC evaluates on
the run of the component), whereas the runs of section 3 check an instance. Every safety property
that a passing run checks is the conclusion of a theorem, with two exceptions in form:
`BothImplementContract` and `BothImplementChain` speak of two components at once and are proved as
one theorem for each, and `DecisionIsFinal` names its part of the run and is proved as
`DecisionsStay`.

`FoldTheorems` is about sums: `SumFunctionOnSet` of naturals over a finite set counts units, so that
theorems on cardinalities apply; a sum over one element more, and a sum of a function changed at one place,
follow. That a sum is what it should be on every finite set is shown by a smallest set on which it
would not be. The same argument, from a minimal counterexample (`WFMin` of `WellFoundedInduction`, on the
natural numbers), takes the place of induction wherever a proof is about sequences that the code walks:
the operations of a block, the lines of a file, the entries of a chain, the results of a loop.

### Quotas and the boundary (`GovernedExecution_proofs`, `MemoryQuota_proofs`)

| Theorem | Says | Along which argument |
|---|---|---|
| `TypeCorrect`, `ActiveCorrect`, `LimitsCorrect` | `TypeOK`; `usage.active` is the number of records; requests and slots stay within the `IdentityQuota` | one inductive invariant, `IInv` (types, calls match records, counters, limits), one lemma per transaction. The test on `active` bounds the records only because the counter is exact, and `max(0, ...)` is harmless only for the same reason |
| `TokensCorrect` | `TokensAccounted`: reserved tokens are the sum of the records, each settled call is charged once, and the ceiling holds | with `IInv`; reaping and settling change the set of records and the sum over it together |
| `ReapingCorrect`, `LeasesAreKept` | no record disappears before its expiry unless its caller settled it; a holder has its record until TTL after the clock it read | the clock read of every frame is never ahead of the clock |
| `RefusalsAreJustified` | `RefusalCountsLiveOnly` | a reserving transaction reaps before it counts |
| `ManagerKeepsContract`, `MemoryKeepsContract` | both managers implement `IdentityQuotaContract` | step by step; a transaction that reaps several reservations of other calls and then decides is one step of the contract, which ends a set of leases and grants one |
| `MemoryLimitsCorrect` | limits of the in-memory manager | counters equal the cardinalities of the sets they count |
| `BoundaryImplementsQuota`, `BoundaryKeepsLimits`, `BoundaryKeepsTokens` | the boundary refines the quota manager, so its limits, accounts and contract hold there | each action of the boundary is an action of `PersistentQuota` or leaves its variables alone |
| `GatesCorrect`, `SuccessCorrect`, `LeaseCorrect` | `GatesHold`; `SuccessIsAccounted`; `RunningWithinLease` | `CallsInvariant`: for each stage of a call, where its frame, its reservation and its events are; the last also from the limits and `LeasesAreKept` |

`LeaseCorrect` is what remains of the concurrency limit when reservations expire: the number of calls that the
provider works for is bounded only among those whose lease has not ended.

### Transactions (`SQLiteTransactions_proofs`)

| Theorem | Says | Along which argument |
|---|---|---|
| `LockCorrect` | `LockInvariant`: one task of a process between acquire and release | `LockInv`: the holder is in its section, whoever is in the section is the holder, and a lock's queue has each waiter once |
| `TransactionsAreSerial`, `OpenViewsStayCurrent` | one open transaction on the file over all processes; no step changes a record under the open transaction of another | `WriteLock`: whoever is between BEGIN and its end is SQLite's writer, and records change only in a COMMIT or a late statement, which need the write lock |
| `BlocksIsolated` | under `PromptSpec`, `BlocksAreIsolated`: an open block sees its own operations on the records committed now; what is stored was written by a block that committed | `RunIsCurrent` (the view is the fold of the block's operations over the stored records, lemmas on the fold at its end) and `AuthorsKnown`, with the lock invariants |
| `BlocksImplementStore` | under `PromptSpec`, the blocks implement `VersionedStore` | a COMMIT is the one step in which a block's operations take effect, by `RunIsCurrent` against the records of that instant; every other step is a stutter |

### Audit trails (`Audit_proofs`)

| Theorem | Says | Along which argument |
|---|---|---|
| `TrailCorrect` | `TrailVerifies`: what is in the database verifies at every instant | `TrailInv`: the state record is that of the stored chain and each entry signs what precedes it; `ReadInv`: what an instance has read was the chain at some version, so a write that the expected version lets through continues the chain |
| `TrailImplementsChain`, `FileImplementsChain` | each trail refines `AuditChain` | an event joins the chain with the COMMIT, or with the piece that completes its text; that the events of a file are those of its complete texts is shown at each piece and at each cut by a crash. Whether `load` can read their lines is the subject of `JournalStays` |
| `AcknowledgedStays` | `AcknowledgedIsDurable`, also when writes are torn, fail or are cancelled | `WrittenInv`: the file has the parts of a line up to the stage of its thread and no text before it is complete, and what an fsync covered has the whole line once its thread has synced; a crash cuts nothing of that |
| `JournalStays` | `JournalContinues`, when writes do not fail and appends are not cancelled while they write | `JournalInv`. `WriterInv`: the lock makes one append the only writer; at each stage of its thread the file is `Sound` (pieces of a line follow each other, the chain verifies, the rest of the line fits, a head is joined only to an event that was interrupted) and `Ends` as that stage left it. `QuietInv`: the same of a file that nobody writes. `ClosedInv`: the newline of an acknowledged event is in what an fsync covered, so that a crash never opens its line. A file that is `Sound` and neither torn nor joined is readable (`ReadableUnless`) |

### Executor, adapter, selection, tokens (`CallPath_proofs`)

| Theorem | Says | Along which argument |
|---|---|---|
| `CallsWithinDeadlines`, `OverrunStaysFinal` | calls under way are within both deadlines, provider calls within `MaxProviderCalls`; over its token budget the ledger lets no provider be called | `LimitsInvariant`: types, every timer within the deadlines (`TimersHold`), attempts within the policy; recorded tokens only grow |
| `BudgetIsKept` | `BudgetHolds`: every call of a provider is counted, what was delivered fits in the budget | `LedgerCovers`: the tokens delivered to callers sum to no more than the ledger has recorded, and a response that takes it over is refused |
| `AdapterImplementsExecutor`, `AdapterKeepsBudget` | over the adapter, the executor takes the steps of `ResilientExecution`, so its budget is kept there | step by step; tokens of a reply are within what `AdapterAssumption` says of servers |
| `EveryRequestJustified`, `ClosedSendsNothing` | `RequestsAreJustified`; `NothingSentOnceClosed` | `JustifiedInvariant`: each request and each ending agree with the frame of the call; `Send` is the only action that hands a request to a thread, and it looks |
| `SelectionIsRight` | `SelectionAgrees` | the report and the selection are what the settings resolve to (`SelectionInv`); that the check of `governance.py` and the tests of `registry.py` agree is shown case by case over the providers |
| `TokensAreBounded`, `TokensAreGoodOnce` | `AcceptanceIsBounded`; `OneStretchOfTime` | `AnswerIs`: the answer is that of the first of 29 tests that fails, hence what each answer says of the times claimed; `TimeGoesOn`: late stays late; `AuthenticationInv` keeps that the times allowed the token at its first and its last acceptance |

### Controls (`Supervision_proofs`)

| Theorem | Says | Along which argument |
|---|---|---|
| `GateIsIndependent` | `UsesAreApproved`: what `require` let through was approved for that action by somebody other than its requester | the invariant covers also what deciders have read but not yet saved |
| `DecisionsStay` | under `Serial`, no step changes a stored decision | the one decision on its way to the store is about a request that is still pending |
| `LoopCorrect`, `ReasonCorrect` | `LoopIsBounded`; `StopsForItsReason` | `LoopInv`: the counters of the supervisor are what counting again in the list of results gives (same failures and lack of progress are lengths of its end, cost is a sum over it) |
| `ReleaseCorrect` | `ReleaseIsVerified` | `DirectoryInv` and, for each build or verification, `ActorInv`: digests taken and names still to be read agree with every name nobody touched meanwhile; a step of one actor leaves the invariant of every other (frame lemma) |

### Studio (`Studio_proofs`)

| Theorem | Says | Along which argument |
|---|---|---|
| `GenerationIsComplete`, `GenerationNeverOverwrites` | under `Serial`, a project returned is whole and nobody else's, and no file is ever written over | how far the one writer is, and that the files it has yet to write are free |
| `GateIsApproved` | `ProjectIsApproved`: one project per approval; on one page, of the plan shown | `GateInv`: projects built, and the approval the session holds, are no more than the approvals given; while one page only has shown plans, what it shows is the session's plan and what was approved |
| `RunsAreApproved`, `ReportsAreTheRuns` | `ApprovalIsSingleUse`; `ReportIsTheRuns` | `RunInv`, per thread, and a frame lemma: what other threads do to the shared controls and rows leaves it true |
| `HistoryIsRight` | `HistoryIsStored` | `ListedInv`, per thread: the report it stored is among what its refresh found, and then shown until another refresh is about to show it or could not read; that what is shown was stored follows from `KnownStays` |

### What stays with TLC

Liveness (`EveryAppendEnds`, `EveryCallEnds`, `EveryRunEnds`, and that a slot comes back) and all that
is about ENABLED: the provers here do not reason about fairness. That a backoff delay is a natural number is an assumption
of `ResilientExecution` (`BackoffAssumption`, evaluated by TLC), because it is a fact about `^`, of which
the provers know nothing; that `Calls` is finite is in `ResilienceAssumption`, because delivered tokens are
a sum over it. The theorems about the generator, about decisions and about the journal have the hypotheses
named above (`Serial`; no failing or cancelled write), without which the runs find them false, as section 3
says; those about `PromptSpec` are stated of statements that do not outlive their block for the same reason.

## 6. Abstractions to keep in mind

- Identifiers, messages, prompts, JSON values and texts are model values or are left out. Estimates are any number up
  to `MaxEstimate`, actual token counts exceed them by up to `Excess`.
- Clocks advance by ticks up to a bound (`MaxClock`, `MaxTime`); waiting is the passing of ticks. Wall
  clocks of several processes are one clock.
- An HMAC is unforgeable: a signature verifies only under the key that made it.
- SQLite is external: one writer at a time on the file, COMMIT is atomic, a crash loses what was not
  committed.
- HTTP responses are classes: a status, a `retry_after`, the kind of body and the tokens it reports.
- The walk of a release directory is one step, and a digest tells contents apart.
- A file keeps what fsync covered, and any prefix of what it did not; a prefix is a number of pieces, since a
  line cut inside a piece reads as one cut before or after it. A part of a text, and two texts on
  one line, are never JSON: a text is one object, closed by its last character. The
  texts contain no other line separators that `splitlines` knows, because the strings of an event are fingerprints and
  safe identifiers (`audit.py:80`, `504`).
- Every `Max...` that is not a setting of the code (`MaxCrashes`, `MaxOps`, `MaxGrants`,
  `MaxApprovals`, `MaxEdits`, `MaxClock`, `MaxTime`) bounds the exploration, and is named as a constant of its
  module.

## 7. Plan, and what is not modelled

Done: quotas and the store first, because the boundary rests on them; the boundary, the audit trails, the
executor, approvals, the loop and Studio; then the adapter under the executor, the history beside
Studio's runs, the release inventory, the route in front of the boundary; then the proofs, component by
component, of the safety properties that the runs check.

Next:

1. Proofs: that `SQLiteTransactions` under `Spec` keeps what a late statement leaves true; that
   `GovernedExecution`'s events are a refinement of `PersistentAudit`.
2. Re-entered transaction objects in `SQLiteTransactions`; two Studio processes on one workflow
   database.

Not modelled:

- `provider.py`: value types that check their own fields, the protocol that providers follow (whose
  answers are the inputs of `ResilientExecution`) and two providers that answer from a list.
- `plugins.py`: registration, and an invocation that compares sets given with the call; no state lasts from one
  call to the next, and a property would restate the comparisons.
- `technology_policy.py` (a stateless function), `catalog.py` (constant data), `planning.py` beyond its
  use by the generator (a fixed list of stages), `cli.py` (parsing and printing), `api.py`
  (stateless routes; their concurrency is in `ProjectGenerator`).
- Of `release.py`, the tests of names, markers and metadata, which are functions of the files; of
  `persistence.py`, `get_workflow` and `list_workflows`, which only the command line calls; of `persistent_governance.py`, the decoding of
  damaged records.
