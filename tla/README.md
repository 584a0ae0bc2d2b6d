# InsuranceOps AI: TLA+ models, model checking and proofs

This directory holds a verification project for the InsuranceOps AI backend
(`src/src/insuranceops`): TLA+ modules of its concurrent core, TLC configurations
that check them on small instances, and TLAPS proofs of the most important
results for every instance. `PROJECT.json` lists the components, the runs, the
line-by-line map from definitions to code, the findings, the hazards and the
theorems.

## 1. The system

An insurance workflow run is a sequence of steps (`claim_intake_v1`: ingest,
extract, validate, route, complete). The API creates runs in Postgres; worker
processes execute steps; Redis carries the tasks in between; humans resolve the
steps that escalate; every decision is appended to a per-run hash chain.

| Component | State it keeps | Operations | Hard behaviour |
|---|---|---|---|
| Run and escalation routes (`api/routes`) | rows of `workflow_runs`, `steps`, `step_attempts`, `escalation_cases`, `tasks_outbox` | create, cancel, claim, resolve, reject | READ COMMITTED transactions racing on one run; one guarded UPDATE, many unguarded |
| Orchestrator (`workflows/orchestrator.py`) | the same rows | start, advance (4 results), resume, cancel | at-least-once calls; count-then-insert; stale reads |
| Outbox relay (`workers/outbox_relay.py`) | `tasks_outbox.enqueued_at`, `attempts` | drain a batch to Redis inside one transaction | Redis and Postgres fail independently |
| Queues (`queue/`) | Redis `ready`, `inflight:<worker>`, `delayed`, `dlq` | enqueue, claim, ack, move, mature, dead-letter, requeue, drop | moves of two commands; removal by value |
| Worker loop (`workers/loop.py`) | `step_attempts.state`, its inflight list | claim, check, execute, commit, ACK | crash at any line; reaped while alive |
| Scheduler, reaper (`workers/`) | what they hold in memory between two commands | promote due tasks; reclaim stuck tasks | crash between the two commands; reading a list that changes |
| opsctl (`scripts/opsctl`) | - | requeue and drop dead letters | as above |
| Audit chain (`audit/`, `domain/audit.py`) | `audit_events` | append, verify | concurrent appends, rollbacks, clocks |
| Domain model (`domain/`) | transition tables | `transition_to` | nothing forces the rows to follow it |
| Step handlers, extractor, validator, review routing (`workflows/steps`, `workflows/extractors`, `workflows/validators`, `ai/review.py`) | the attempt's `output_ref` | execute a step on the run's documents | redelivered attempts; documents in no order; OCR that may raise |
| Advisory locks and connection pool (`workers/outbox_relay.py`, `workers/scheduler.py`, `storage/db.py`) | pooled connections, session-level locks | elect, unlock | lock and unlock on different connections |
| Gate of the API (`security/`) | Redis counters per key and window | authenticate, authorize, count | two commands; late requests; fail-open |
| Documents (`api/routes/documents.py`, `storage/payloads/local.py`) | files named by their hash, rows | upload | temporary path shared between processes; crash in a write |
| Observability, configuration, migrations | see `PROJECT.json` | | no state that a decision reads |

Calls and shared state: routes and orchestrator write an outbox row in the same
transaction as the StepAttempt; the relay turns rows into payloads; the worker
loop reads and writes the StepAttempt named by the payload; all of them call
`append_audit_event` inside their own transaction. At this commit nothing calls
`WorkflowOrchestrator`: the worker loop records an outcome and does not advance
the run. The two halves are therefore modelled apart (`TaskPipeline` up to the
outcome, `RunLifecycle` from the outcome on, with the worker's writes to the step
it shares), and `RunLifecycle` lets `advance_workflow` be called for any task that
exists, more than once. `ClaimIntake` puts them together for the one workflow the
repository defines: it extends `RunLifecycle` with executions of the real handlers,
and calls `advance_workflow` with the result each task produced.

What makes the parts correct: no task is lost and every task is executed
(pipeline); retries are bounded, the rows and the audit trail agree, terminal
means terminal, a running run has work left (lifecycle); one unforked chain that
the verifier accepts exactly when nobody has touched it (audit); a claim passes
without a human exactly when its documents are acceptable (claim intake); one relay
and one scheduler at a time, and no lock that nobody can get back (locks); no more requests per window than the role's limit, and a payload behind
every document (API).

## 2. Modules

| Module | Models | Actions |
|---|---|---|
| `TaskPipeline` | relay, queues, scheduler, worker loop, reaper, opsctl | one per Redis command, per Postgres statement another process can see, and per commit |
| `MCTaskPipeline` | instances | handler results, symmetry |
| `TaskPipelineProofs` | proofs: types, no task is lost | |
| `PipelineDeliveryProofs` | proofs: pushes, acknowledgements | |
| `AuditChain` | `append_audit_event`, `verify_chain` | lock, read latest, insert, commit, rollback, clock |
| `MCAuditChain` | instances | which transaction runs on which host |
| `AuditChainProofs` | proofs: one chain, the verifier | |
| `RunStateMachine` | the domain's state machine: the abstract specification | `transition_to` |
| `RunLifecycle` | orchestrator, routes and the worker's writes on one run | reads, locking and writes of each transaction |
| `MCRunLifecycle` | instances | the steps' max_attempts, symmetry |
| `RunLifecycleProofs` | proofs, however often a task is delivered | |
| `ClaimIntake` | `claim_intake_v1` on `RunLifecycle`: handlers, extractor, validator, review routing; implements `RunLifecycle` | load and execute a task; the orchestrator's steps |
| `MCClaimIntake` | instances | claims of two documents |
| `ClaimIntakeProofs` | proofs, on those of `RunLifecycle`; that `ClaimIntake` implements it | |
| `RelayLock` | advisory locks of relay and scheduler, connection pools | lock, commit, unlock, failures, crash, restart of the database |
| `RelayLockProofs` | proofs | |
| `RateLimiter` | `requires_role`, `authenticate_api_key`, `check_rate_limit` | clock, INCR, EXPIRE, their errors |
| `DocumentApi` | uploads behind `RateLimiter` | open, write, rename, clean-up, commit, crash |
| `MCDocumentApi` | instances | limits of the roles |
| `DocumentApiProofs` | proofs about `RateLimiter` and `DocumentApi` | |

### TaskPipeline

A payload is `<<attempt, stamp>>`. The relay writes the time of the push into
`claimed_at`, so each push of a row has different bytes and a stamp of its own,
and a payload keeps its bytes as it moves; `LREM` by value is `Removed`. A Redis
list is a function from payloads to the number of copies. FIFO order is left
out: no safety property depends on it, and the strong fairness of `Claim` stands
for it. `pc` and `cur` are a worker's place in `_process_task`; a worker that
`MarkInProgress` has passed holds the row lock of its attempt until it commits
or dies (`RowLocked`), so `in_progress` is never a committed state. `hand` is the
payload a scheduler, reaper or operator has removed and not yet pushed. Foreign
payloads stand for bad JSON, missing ids and missing rows. `"raises"` is a handler
or outcome that raises out of `_process_task`, for example an `output_ref` that
the Text column rejects; a raising `handler.handle` itself is a retryable failure,
as in the code. `WorkerError` is a transient error caught by the same handler,
`WorkerCrash` the death of the process or its cancellation at shutdown.
`forfeited` is a history variable: the attempts whose copy died in a mover's hand
or was dropped.

### AuditChain

SHA-256 is ideal: equal digests mean equal bytes. The bytes are those of
`compute_event_hash`: `Digest` joins actor, event type and payload with nothing between
them and leaves `seq_in_run` and the step ids out. The timestamp and the link have a
format of their own and stay apart. `Visible` is
READ COMMITTED; `lock` is the FOR UPDATE lock on the run; the unique index on
`(workflow_run_id, seq_in_run)` aborts a second insert. `Before` is the ORDER BY of
`list_by_workflow_run`. The clocks of the model never step back; a step back on
one host would do what skew between two hosts does.

### RunLifecycle

One run. A transaction is its first reads (recorded in `txn`), the lock on the
EscalationCase where there is one, and its writes with the commit. `Flushed` is
SQLAlchemy's unit of work: only columns whose new value differs from the one read
are written, the others keep what another transaction has committed meanwhile.
Unique constraints are guards (`Taken`, one case per step): the transaction that
violates one can only roll back. `answered` and `redelivered` record which tasks
`advance_workflow` was called for. `trail` counts the audit events that orchestrator and
routes have committed, by type. The worker loop writes `steps.state` as well
(`ProcessLoad`, `ProcessOutcome`: read with the attempt, written with the outcome), for
any task at any time; its own `step_attempt.*` events are left out, since `AuditChain`
covers how they are appended.

### ClaimIntake

A document is a record: what the patterns of the stub extractor find in its raw
bytes, what they find in the text that OCR returns, and whether its content type
needs OCR. A reading maps the fields found to whether the validator's format
accepts the value; a conversion or a regular expression shows only through it.
Each handler is the set of results it may return: an unreadable payload, an OCR
call that raises (the code then reads the raw bytes) and the order in which
documents are merged are the nondeterministic parts. `ExecuteLoad` is `ProcessLoad`, the
first read of attempt and step; `Execute` is the handler with the commit of its outcome;
between the two anything else may happen, and a task may be delivered again unless its
attempt is read as terminal. An execution that commits nothing is a `Rollback`.
The validation reads the output of the latest succeeded attempt of the
extraction, and a human's attempt has none. Confidences are integers in percent and
the average is compared by multiplication. Missing documents do not occur: the
foreign keys exclude them.

### RelayLock

A connection is a process and a number. The pool is first in, first out and opens
connections lazily; a session has a connection from its first statement to its
commit or close. `lock` is PostgreSQL's session-level lock with its count, and is
released when its connection closes. The relay commits, gives its connection back
and then unlocks on whatever the pool hands out, which is a step of its own; the
scheduler unlocks first. `"other"` is any other session of the process (a worker's,
the verifier's): it is what rotates the pool. A batch that fails leaves an aborted
transaction, in which the unlock fails as well. Overflow connections, which close
when they return and so release what they hold, are left out, and so are the
database's own connection limits.

### RateLimiter and DocumentApi

One API key and one content: other keys count in other Redis keys, other contents
touch other files. `Tick` is the clock that API hosts and Redis share, in whole
seconds; a request stays between reading the clock and its INCR for at most
`Latency` seconds. An error of Redis after the server has counted is one of the two
outcomes of `IncrError`. Names point to inodes, an inode to who truncated it last
and whether it is whole, so a write through an open file after a rename is what it
is on the disk. `LocalPayloadStore.write` is synchronous and therefore
uninterrupted in its process (`Blocked`), and only there. `is_duplicate`, the
answer to the caller and `last_used_at` decide nothing and are left out;
`RATE_LIMIT_ENABLED` is true.

## 3. Runs

Times are for two TLC workers.

| Run | States | Shows |
|---|---|---|
| `pipeline_safety` | 1.9M, 75 s | `NoTaskLost` with a task, a malformed payload, two workers, one failure of each kind (relay or caught worker error, worker crash, mover crash) and a row that reaches the outbox's error limit |
| `pipeline_liveness` | 56k, 40 s | `Delivered` (every task is executed), `PushedOncePerFault`, `AckAfterOutcome`, `NoTaskLost` for a delayed task that is pushed twice, with a worker crash |
| `pipeline_overwrite` | violation | a reaped but live task overwrites a committed outcome |
| `pipeline_poison` | violation | a task that always raises is never dead-lettered |
| `audit_chain` | 258k, 46 s | `ChainLinked`, `VerifierAccepts`, `TamperDetected` for two transactions, two runs and one clock |
| `audit_clock_skew` | violation | with two clocks an untouched chain is reported broken |
| `lifecycle` | 1.3M, 115 s | `AttemptsBounded`, `AuditMatchesRows`, `ClaimExclusive` while executions, all methods of the orchestrator and all routes race, with a redelivered task |
| `lifecycle_terminal` | violation | the rows leave the domain's state machine (`FollowsDomain`): a cancelled run comes back to life |
| `lifecycle_stranded` | violation | a run that the resolve route moved to running has no task left (`NeverStranded`) |
| `claim_intake` | 823k, 105 s | `NoSilentApproval`, `ExtractRetried`, `CleanClaimAccepted`, and `AttemptsBounded` and `AuditMatchesRows` over the five steps, with a redelivered answer and a task executed again |
| `document_api` | 2.0M, 60 s | `LimitPerWindow`, `CountersExpire`, `PayloadPresent`, `WholeWithOneProcess` |
| `relay_lock` | 192k, 11 s | `OneElected`, `SchedulerLockReturned`, `LockReachable` |

The five violations are the findings of `PROJECT.json`; each quotes the document
that says otherwise.

Bounds. Two workers and one reaper are the least that give a second execution of
a task, a late ACK and a redelivery. Two pushes of a row are the least that give
two payloads of one attempt. One failure of each kind may fall between any two
steps; the proofs remove this and the other bounds for every invariant
(section 4). `MaxOutboxErrors` is 0 or 1
instead of 10 so that the limit is reached. Two runs and two transactions let
appends to one run collide and appends to two runs overlap; three events and a
page of two give a chain longer than the verifier reads; the two kinds of events have an
actor and a type that join to the same bytes. `lifecycle` has one step with two attempts,
so that a retry, its redelivered answer and a human's attempt can collide; with both
results that end a step (`escalate`, and a terminal failure that fails the run) and two
transactions every pair of operations overlaps. What follows from one step to the next is
in `claim_intake`, and the theorems of section 4 are for every number of steps. The two
lifecycle violations have two steps and no redelivery: what they show needs none.
Claim intake has the five steps of the code and three claims of two documents (always
acceptable with the fewest fields that pass; acceptable or not depending on OCR and order;
never acceptable), `MaxReexecutions` 1, the least that gives an old attempt executed
beside its retry, and `MaxRedeliveries` 1. Three uploads with
limits of one and two, windows of two seconds and a clock that reaches the second
window give a request that is late for its window, one over the limit and one that
finds the other's temporary file; `Latency` 1 is an assumption, not a bound: with a
request that takes longer than the extra second of the TTL, `LimitPerWindow` fails, and
no timeout in `rate_limit.py` or `redis_client.py` excludes such a request.
Three connections per process are one for each task that may hold one; `LockCap` 2
counts the re-entrant lock up to two, and `Unlock` at the cap allows both that more
holds are left and that none are. Two failures let a restart follow a leak.
`CHECK_DEADLOCK FALSE` is set where the bounded systems stop: all tasks are done, or
the bounds are used up. `relay_lock`, whose loops never end, is
checked for deadlock.

Fairness (`FairSpec`). Loops run until shutdown and catch their errors, so relay,
scheduler, workers and reaper steps are weakly fair, and the clock passes every
deadline. Three things are strongly fair: a payload in `ready` is claimed if workers
keep claiming (the list is FIFO), a reaper visits every inflight list (it scans all
of them on each pass), and a waiter gets the row lock (Postgres queues waiters).
Submission, operators and failures owe nothing. `RelayLock` has no fairness: that some
relay draws the connection with the lock would need the two-second polls not to fall in
step with the first-in-first-out pool, and nothing in the code excludes that they do.
No liveness is claimed for claim intake: the caller of
`advance_workflow` does not exist, and `output_ref` is a Text column that receives a
dict (`loop.py:187`), which the database driver rejects.

Where the code and its documents differ, or a maintainer has to decide, beyond the findings:

* A scheduler or reaper that dies between its removal and its push loses the task; it
  is the exception written into `NoTaskLost` (`SYSTEM_ARCHITECTURE.md:2763`: "No lost
  Tasks").
* `SYSTEM_ARCHITECTURE.md:2027` and `2649` say that one reaper is elected by an advisory
  lock. `main.py:98` starts one in every worker process and nothing elects: with two, both
  push what one of them removed, and a payload is multiplied. A single reaper can push a task that
  was acknowledged after it read the list, which lines `2079-2082` call "designed out".
  No property bounds the copies of a payload; `AckAfterOutcome` and `NoTaskLost` hold
  however many there are.
* `audit-chain.md:67` says that a change of any field of an event is detected. `seq_in_run`,
  `step_id` and `step_attempt_id` are not hashed, and bytes can move between actor and event
  type without a change of the digest; `TamperDetected` claims neither.
* A human's attempt has no output (`orchestrator.py:700`), against
  `SYSTEM_ARCHITECTURE.md:1892-1905`: a human who resolves the extraction is followed by a
  second case for the validation.
* A failed AI enhancement is not flagged for review (`validate.py:98` does not pass
  `ai_enhancement_succeeded`), against `ai-integration.md:162`. `CleanClaimAccepted` is
  about claims for which the provider is not asked.
* The output stored for the extraction can differ from the one that was validated, and a
  step can be `failed_retryable` while its successor runs, when a redelivered attempt is
  executed again.
* With a redelivered answer the second one counts the retry as its own and may escalate
  before the retry was executed: `ExtractRetried` says that the attempts exist, not that
  each was executed. Two such answers can write the same version, so that the guard of the
  cancel route compares equal after a change.
* The relay's lock can stay with a pooled connection. It can be drawn again
  (`LockReachable`), but the other processes are locked out meanwhile. A relay whose
  connection was lost may still be pushing while another is elected; `OneElected` counts
  the processes that can commit.
* With two API processes on one volume a payload can be torn, which the comment at
  `local.py:40` excludes; the theorem `TornOnlyByPeer` says by whom, and
  `WholeWithOneProcess` that one process, as in `compose.yml`, cannot.
* The release of a claim (`SYSTEM_ARCHITECTURE.md:1868-1872`) has no code.

## 4. Proofs

Checked by TLAPS, for every value of the constants. Each proof module extends the
module it is about and uses that module's named assumption (types of the constants,
finite sets, positive bounds; TLC evaluates each on the runs). `RelayLock` assumes
`LockCap > 1`: a counter that stops at one could not tell a re-entrant lock. What a
theorem needs beyond that is in its statement:

| Hypothesis | Needed by | Because |
|---|---|---|
| `OneClock`: all transactions read one clock | `OneClockAccepted`, `TamperingDetected` | run `audit_clock_skew` is the counterexample without it |
| `Latency <= 1` | `LimitHolds` | a later request finds the counter of its window expired, and counts from one again |

Nothing is assumed about how often a task is delivered, executed or answered, nor about the
number of reapers, workers, transactions or processes.

### Pipeline

* `TypeCorrect`. `TypeOK` is inductive because it includes that a busy worker has a
  payload and that a reaper with items has a list.
* `NoLoss`: `NoTaskLost`, also for two reapers. It is inductive with two more facts: the
  rows of the relay's open batch are still pending (`BatchPending`, or else its commit
  could mark a row whose push it does not know), and no foreign payload is executed
  (`ForeignNotExecuted`, or else an outcome could be written for a payload still owed to
  the dead letter queue). Each action either leaves every held copy of an owed attempt
  where it is or moves it to another place that counts.
* `PushedOnce`: `PushedOncePerFault`. The invariant `PushCounted` splits the pushes of a
  row into those of lost batches, at most one per failure, and the one of the open batch,
  which has it marked (`BatchMarks`).
* `AckedAfterOutcome`: `AckAfterOutcome`. A payload that was never pushed is nowhere
  (`UnpushedNowhere`), so a payload in a worker's hands has a row behind it
  (`NothingBeforeSubmit`); and a worker at its ACK has committed or seen an outcome, which
  a later execution may replace by another one and never takes back (`AckHasOutcome`).

### Audit chain

* `TypeCorrect`, `OneChain`. `ChainLinked` alone is not inductive: what
  a transaction has read must still be the latest event when it inserts. `IInv` adds that
  the holder of the run's lock is the only transaction with uncommitted rows of it
  (`OwnsRun`, `NoRowsUnlocked`), that committed and own rows together are linked
  (`VisibleLinked`), and that what was read is the latest visible event (`ReadIsLatest`).
* `OneClockAccepted`: `VerifierAccepts`. Numbers and times are ordered alike
  (`VisibleOrdered`, `ChainOrdered`), and the listing order is the chain order.
* `TamperingDetected`: `TamperDetected`. An event with one changed column fails the check of
  its own digest: joining the same bytes before and after a different text gives different
  bytes. A deleted one leaves its successor with a previous digest that is neither empty
  nor that of the event now before it, since no digest contains itself; every event on the
  page was appended by a transaction with its right digest (`AllRecorded`).

### Lifecycle

`IInv` (theorem `Invariant`) has
the types of rows and open transactions, that a run which does not exist has no rows
(`Fresh`), that a system attempt has one of the allowed numbers and a retry that is open
has counted fewer than are allowed (`NumbersBounded`), that rows and transactions are about
steps that were started (`Started`), that a case's row lock has one holder, whose attempt
is not there yet (`LockHeldOnce`), that nobody has claimed an open case (`Unclaimed`), and
the sums of the trail (`Accounted`).

* `TypeCorrect`.
* `AttemptsAlwaysBounded`: `AttemptsBounded`. `retry` counts attempts and inserts later;
  it stays bounded because the number it inserts is the count plus one, whatever was
  inserted meanwhile, and numbers are unique in a step.
* `AuditAlwaysMatches`: `AuditMatchesRows`. Each commit adds as many rows as events; a
  collision on a unique index rolls both back.
* `ClaimedByOne`: `ClaimExclusive`. Only an open case is claimed, and nobody owns one.

The worker's writes are steps of the specification like the others: they change the state
of a step, which none of these properties trusts.

### Claim intake

All for any documents, transactions, re-executions and redeliveries. The invariant
`IntakeInv` contains that of the lifecycle, and is where the proofs start.

* `IntakeTypeCorrect`, `NeverSilentlyApproved` (`NoSilentApproval`). Every stored output is
  a reading the extractor can produce (`ResultsSound`) and every success of the validation
  that is being committed was computed from one (`Approved`); attempts are known by their
  numbers (`UniqueNumbers`).
* `ImplementsLifecycle`: every step is a step of `RunLifecycle` or changes none of its rows.
* `ExtractAlwaysRetried` (`ExtractRetried`). A transaction that gives the extraction up has
  found as many attempts as are allowed, and no human is among them, since a human decides
  only what was given up (`Tried`); the system's numbers are at most that many and unique,
  so all of them are there.
* `CleanAlwaysAccepted` (`CleanClaimAccepted`). While every payload could be read nothing
  fails, so nobody answers a failure and no case is opened (`Untroubled`), and the
  validation only starts when the extraction has an output (`Extracted`). Its review
  averages the confidences with a fold. `SumOfConfidences` proves what the fold computes,
  without the induction theorems: the product satisfies the fold's recursion, so its
  `CHOOSE` has a solution, and a smallest subset on which the solution differs from the
  product would need a smaller one.

### Locks

`TypeCorrect`, `OneElectedHolds`, `SchedulerLockAlwaysReturned` and `LockAlwaysReachable`. A locked task with a
connection holds the lock on it (`HoldsItsLock`), a connection is in one place at a time
(`TypeOK`), and the count is positive exactly while a connection holds the lock
(`CountedIfHeld`). For the scheduler, the count never exceeds one (`SchedulerHoldsOnce`),
because its lock is back before its connection is. For `LockReachable`, a step takes a
connection out of the pool only into a session and out of a session only into the pool, and
a connection that closes frees its lock.

### Gate and documents

* `TypeCorrect`, `CountersAlwaysExpire` (`CountersExpire`).
* `LimitHolds` (`LimitPerWindow`). While a request of a window can still arrive
  (`OnItsWay`) its counter has not expired (`KeyLasts`) and counts every request let
  through (`CountsAll`); the last fact with the comparison gives `WithinLimit`, and a
  window that is over gets no more requests.
* `PayloadAlwaysPresent`, `TornOnlyByPeer`, `WholeInOneProcess`. A file in use
  belongs to the request that made it (`MadeByItsRequest`); the request that emptied it
  last has it open or had, and if bytes are missing it is still writing, failed or died
  (`EmptiedByAUser`); in one process only one write is open (`WritesAlone`). An upload that
  has stored its payload finds it until it commits (`StoredIsThere`).

### Only model-checked

* `Delivered`: liveness under fairness.
* The five violations, which are counterexamples.

## 5. Not modelled

The order of a Redis list; loss of Redis or Postgres data; heartbeats (written, read by
nobody); the expiry of escalations and the deadline of runs (columns no code enforces);
the length of retry delays; the audit verifier's loop, which samples runs and counts
metrics; the escalation domain table and `apply_review_decision`, which no code calls;
AI enhancement, summaries and ingestion, which change no row when they fail or are unused; the answers sent
to API callers; key management and redaction; metrics, logs and settings; migrations
(`storage/models.py` states the same constraints). Collisions of SHA-256 are excluded.

## 6. Plan

Done: pipeline, audit chain, lifecycle, claim intake, locks, gate and documents; proofs of
every safety property the passing runs check.

1. The acknowledgement race and the second reaper as expected violations beside
   `pipeline_overwrite`.
2. How early a redelivered answer may escalate: which attempts were executed by then.
