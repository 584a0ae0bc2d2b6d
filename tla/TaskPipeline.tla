---------------------------- MODULE TaskPipeline ----------------------------
(***************************************************************************)
(* The task pipeline of the workers: how a StepAttempt committed by the    *)
(* API reaches a worker, is executed and acknowledged.                     *)
(*                                                                         *)
(*   tasks_outbox --relay--> ready / delayed --scheduler--> ready          *)
(*   ready --BRPOPLPUSH--> inflight[w] --ACK--> gone                       *)
(*   inflight[w] --reaper--> ready or dlq,   dlq --opsctl--> ready         *)
(*                                                                         *)
(* A task payload is the pair <<attempt, stamp>>: the relay writes the     *)
(* time of the push into "claimed_at", so two pushes of one outbox row     *)
(* are different bytes, while a payload that moves between lists keeps     *)
(* its bytes.  A Redis list is the number of copies of each payload it     *)
(* holds: LREM and LPUSH address a payload by value and no property below  *)
(* depends on the order (fairness of Claim stands for FIFO order).         *)
(*                                                                         *)
(* Every Redis command, every Postgres statement that another process can  *)
(* observe and every commit is a step of its own.                          *)
(***************************************************************************)
EXTENDS Naturals, FiniteSets

CONSTANTS
  Attempts,         \* StepAttempts, each with one tasks_outbox row, and foreign payloads
  Foreign,          \* payloads with no usable rows behind them (bad ids, restored database)
  Malformed,        \* the foreign payloads that are not JSON
  Later,            \* attempts whose scheduled_for lies in the future at first
  Results,          \* Results[a]: what executing a's handler and writing its outcome may do
  Workers,          \* worker loops, one per process; a worker_id is used once
  Reapers,          \* reaper loops, one per process
  Scheduler,        \* the scheduler loop (single: advisory lock held in one transaction)
  Operator,         \* an operator running opsctl
  None,             \* an empty hand
  MaxPushes,        \* bound: pushes of one outbox row
  MaxCopies,        \* bound: copies of one payload in ready, or in the DLQ
  MaxFaults,        \* bound: failed relay pushes, relay crashes and errors caught by a worker
  MaxOutboxErrors,  \* the CHECK on tasks_outbox.attempts (10 in the schema)
  MaxWorkerCrashes, \* bound: workers that die
  MaxMoverCrashes   \* bound: schedulers, reapers and operators that die

Terminal == {"succeeded", "failed_terminal", "skipped"}

Outcomes == {"succeeded", "failed_retryable", "failed_terminal"}

Movers == Reapers \cup {Scheduler, Operator}

Payloads == Attempts \X (1..MaxPushes)

ASSUME ConstantsAssumption ==
  /\ Foreign \subseteq Attempts
  /\ Malformed \subseteq Foreign
  /\ Later \subseteq Attempts
  /\ Results \in [Attempts -> SUBSET (Outcomes \cup {"raises"})]
  /\ None \notin Payloads
  /\ Scheduler \notin Reapers /\ Operator \notin Reapers /\ Scheduler # Operator
  /\ MaxPushes \in Nat \ {0}
  /\ {MaxCopies, MaxFaults, MaxOutboxErrors, MaxWorkerCrashes, MaxMoverCrashes} \subseteq Nat

VARIABLES
  outbox,      \* committed tasks_outbox row: "none", "pending" or "enqueued"
  errors,      \* committed tasks_outbox.attempts
  state,       \* committed StepAttempt.state ("none" before the row exists)
  due,         \* attempts whose scheduled_for has passed
  pushes,      \* times the row of an attempt was pushed: the last stamp used
  stale,       \* payloads whose claimed_at is older than the visibility timeout
  relay,       \* the relay's open transaction
  ready,       \* queue:tasks:ready
  delayed,     \* queue:tasks:delayed
  inflight,    \* queue:tasks:inflight:<worker>
  dlq,         \* queue:tasks:dlq
  pc, cur,     \* a worker's position in _process_task, and its payload
  todo,        \* the items a reaper has read from one inflight list, not yet handled
  source,      \* the worker whose list a reaper has read
  hand,        \* the payload a mover has removed from one list, not yet pushed to the next
  faults, moverCrashes,
  forfeited    \* attempts with a copy dropped by an operator or lost in a crashed mover's hand

redisVars  == <<ready, delayed, inflight, dlq>>
relayVars  == <<outbox, errors, pushes, relay, faults>>
workerVars == <<pc, cur>>
reaperVars == <<todo, source>>
moverVars  == <<hand, moverCrashes, forfeited>>
timeVars   == <<due, stale>>
vars == <<redisVars, relayVars, workerVars, reaperVars, moverVars, timeVars, state>>

Empty == [p \in Payloads |-> 0]

(* Mutant of Removed: a removal that finds nothing is counted all the same. *)
MutRemovedBlindly(list, p) == [list EXCEPT ![p] = @ - 1]

(* LPUSH and LREM ... 1 on a list. *)
Pushed(list, p)  == [list EXCEPT ![p] = @ + 1]
Removed(list, p) == [list EXCEPT ![p] = IF @ = 0 THEN 0 ELSE @ - 1]

NoBatch == [busy |-> FALSE, rows |-> {}, now |-> {}, marked |-> {}, failed |-> {}]

Init ==
  /\ outbox = [a \in Attempts |-> "none"]
  /\ errors = [a \in Attempts |-> 0]
  /\ state = [a \in Attempts |-> "none"]
  /\ due = Attempts \ Later
  /\ pushes = [a \in Attempts |-> 0]
  /\ stale = {}
  /\ relay = NoBatch
  /\ ready = Empty
  /\ delayed = {}
  /\ inflight = [w \in Workers |-> Empty]
  /\ dlq = Empty
  /\ pc = [w \in Workers |-> "idle"]
  /\ cur = [w \in Workers |-> None]
  /\ todo = [r \in Reapers |-> Empty]
  /\ source = [r \in Reapers |-> None]
  /\ hand = [m \in Movers |-> None]
  /\ faults = 0
  /\ moverCrashes = 0
  /\ forfeited = {}

-----------------------------------------------------------------------------
(* Producers *)

(* The transaction that creates a StepAttempt commits its outbox row with it. *)
Submit(a) ==
  /\ a \notin Foreign
  /\ outbox[a] = "none"
  /\ outbox' = [outbox EXCEPT ![a] = "pending"]
  /\ state' = [state EXCEPT ![a] = "queued"]
  /\ UNCHANGED <<errors, pushes, relay, faults, redisVars, workerVars, reaperVars,
                 moverVars, timeVars>>

(* Anything else that writes the ready list: a payload no worker can use. *)
ForeignPush(a) ==
  /\ a \in Foreign
  /\ pushes[a] = 0
  /\ pushes' = [pushes EXCEPT ![a] = 1]
  /\ ready' = Pushed(ready, <<a, 1>>)
  /\ UNCHANGED <<outbox, errors, relay, faults, state, delayed, inflight, dlq, workerVars,
                 reaperVars, moverVars, timeVars>>

-----------------------------------------------------------------------------
(* Time: the wall clock passes scheduled_for, or claimed_at + visibility timeout. *)

BecomeDue(a) ==
  /\ a \notin due
  /\ due' = due \cup {a}
  /\ UNCHANGED <<stale, state, redisVars, relayVars, workerVars, reaperVars, moverVars>>

BecomeStale(p) ==
  /\ p \notin stale
  /\ p[2] <= pushes[p[1]]
  /\ stale' = stale \cup {p}
  /\ UNCHANGED <<due, state, redisVars, relayVars, workerVars, reaperVars, moverVars>>

-----------------------------------------------------------------------------
(* Outbox relay: one transaction around a batch of pushes to Redis. *)

(* get_pending: read every undelivered row; "now" is read once for the batch. *)
RelayLoad ==
  /\ ~relay.busy
  /\ \E a \in Attempts : outbox[a] = "pending"
  /\ relay' = [NoBatch EXCEPT !.busy = TRUE,
                              !.rows = {a \in Attempts : outbox[a] = "pending"},
                              !.now = due]
  /\ UNCHANGED <<outbox, errors, pushes, faults, state, redisVars, workerVars, reaperVars,
                 moverVars, timeVars>>

(* enqueue or schedule_delayed of a row, with a fresh claimed_at. *)
PushRow(a) ==
  LET p == <<a, pushes[a] + 1>> IN
  /\ pushes[a] < MaxPushes
  /\ pushes' = [pushes EXCEPT ![a] = @ + 1]
  /\ IF a \in relay.now
     THEN ready' = Pushed(ready, p) /\ UNCHANGED delayed
     ELSE delayed' = delayed \cup {p} /\ UNCHANGED ready

RelayPush(a) ==
  /\ relay.busy /\ a \in relay.rows
  /\ PushRow(a)
  /\ relay' = [relay EXCEPT !.rows = @ \ {a}, !.marked = @ \cup {a}]
  /\ UNCHANGED <<outbox, errors, faults, state, inflight, dlq, workerVars, reaperVars,
                 moverVars, timeVars>>

(* Mutant of AfterPushError: the failed row is marked enqueued with the others. *)
MutMarkFailedRow(a) == [relay EXCEPT !.rows = @ \ {a}, !.marked = @ \cup {a}]

(* The error path of one row: increment_attempts, and the row stays pending.  *)
(* An increment past the CHECK raises out of the loop: the transaction, with  *)
(* the marks of the rows already pushed, is rolled back.                      *)
AfterPushError(a) ==
  IF errors[a] < MaxOutboxErrors
  THEN [relay EXCEPT !.rows = @ \ {a}, !.failed = @ \cup {a}]
  ELSE NoBatch

(* Redis answers with an error, or not at all after having applied the push.  *)
RelayPushFails(a, applied) ==
  /\ relay.busy /\ a \in relay.rows
  /\ faults < MaxFaults
  /\ faults' = faults + 1
  /\ IF applied THEN PushRow(a) ELSE UNCHANGED <<pushes, ready, delayed>>
  /\ relay' = AfterPushError(a)
  /\ UNCHANGED <<outbox, errors, state, inflight, dlq, workerVars, reaperVars, moverVars,
                 timeVars>>

(* Mutant of RelayCommit: the enqueued_at marks are not written. *)
MutCommitWithoutMarks ==
  /\ relay.busy /\ relay.rows = {}
  /\ relay' = NoBatch
  /\ UNCHANGED <<outbox, errors, pushes, faults, state, redisVars, workerVars, reaperVars,
                 moverVars, timeVars>>

RelayCommit ==
  /\ relay.busy /\ relay.rows = {}
  /\ outbox' = [a \in Attempts |-> IF a \in relay.marked THEN "enqueued" ELSE outbox[a]]
  /\ errors' = [a \in Attempts |-> IF a \in relay.failed THEN errors[a] + 1 ELSE errors[a]]
  /\ relay' = NoBatch
  /\ UNCHANGED <<pushes, faults, state, redisVars, workerVars, reaperVars, moverVars, timeVars>>

(* The process dies, is cancelled, or its commit fails: Postgres rolls back,  *)
(* what was pushed to Redis stays.                                            *)
RelayCrash ==
  /\ relay.busy
  /\ faults < MaxFaults
  /\ faults' = faults + 1
  /\ relay' = NoBatch
  /\ UNCHANGED <<outbox, errors, pushes, state, redisVars, workerVars, reaperVars, moverVars,
                 timeVars>>

-----------------------------------------------------------------------------
(* Scheduler: mature_tasks, one ZPOPMIN and one push per task. *)

(* ZPOPMIN returns the lowest score: a due payload before any that is not. *)
SchedulerPop(p) ==
  /\ hand[Scheduler] = None
  /\ p \in delayed
  /\ p[1] \in due \/ \A q \in delayed : q[1] \notin due
  /\ delayed' = delayed \ {p}
  /\ hand' = [hand EXCEPT ![Scheduler] = p]
  /\ UNCHANGED <<ready, inflight, dlq, moverCrashes, forfeited, state, relayVars, workerVars,
                 reaperVars, timeVars>>

(* A mature payload goes to ready, an immature one back to the sorted set. *)
SchedulerPut ==
  LET p == hand[Scheduler] IN
  /\ p # None
  /\ hand' = [hand EXCEPT ![Scheduler] = None]
  /\ IF p[1] \in due
     THEN ready[p] < MaxCopies /\ ready' = Pushed(ready, p) /\ UNCHANGED delayed
     ELSE delayed' = delayed \cup {p} /\ UNCHANGED ready
  /\ UNCHANGED <<inflight, dlq, moverCrashes, forfeited, state, relayVars, workerVars,
                 reaperVars, timeVars>>

-----------------------------------------------------------------------------
(* Worker loop and _process_task *)

Goto(w, next) == pc' = [pc EXCEPT ![w] = next]

(* The call of _process_task ends. *)
Leave(w, next) == Goto(w, next) /\ cur' = [cur EXCEPT ![w] = None]

(* BRPOPLPUSH: atomic in Redis. *)
Claim(w, p) ==
  /\ pc[w] = "idle"
  /\ ready[p] > 0
  /\ ready' = Removed(ready, p)
  /\ inflight' = [inflight EXCEPT ![w] = Pushed(@, p)]
  /\ cur' = [cur EXCEPT ![w] = p]
  /\ Goto(w, "claimed")
  /\ UNCHANGED <<delayed, dlq, state, relayVars, reaperVars, moverVars, timeVars>>

(* Mutant of DeadLetter: a payload that cannot be used is acknowledged and gone. *)
MutAckUnusable(w) ==
  /\ pc[w] = "claimed"
  /\ cur[w][1] \in Foreign
  /\ Goto(w, "ack")
  /\ UNCHANGED <<cur, redisVars, state, relayVars, reaperVars, moverVars, timeVars>>

(* Bad JSON, missing ids or missing rows: push to the DLQ, then ACK. *)
DeadLetter(w) ==
  /\ pc[w] = "claimed"
  /\ cur[w][1] \in Foreign
  /\ dlq[cur[w]] < MaxCopies
  /\ dlq' = Pushed(dlq, cur[w])
  /\ Goto(w, "ack")
  /\ UNCHANGED <<cur, ready, delayed, inflight, state, relayVars, reaperVars, moverVars, timeVars>>

(* Mutant of LoadAttempt: an attempt that another worker executes is skipped. *)
MutSkipInProgress(w) ==
  /\ pc[w] = "claimed"
  /\ cur[w][1] \notin Foreign
  /\ Goto(w, IF \/ state[cur[w][1]] \in Terminal
               \/ \E v \in Workers : pc[v] = "executing" /\ cur[v][1] = cur[w][1]
             THEN "ack" ELSE "loaded")
  /\ UNCHANGED <<cur, state, redisVars, relayVars, reaperVars, moverVars, timeVars>>

(* Read the attempt without a lock; a terminal one is only ACKed. *)
LoadAttempt(w) ==
  /\ pc[w] = "claimed"
  /\ cur[w][1] \notin Foreign
  /\ Goto(w, IF state[cur[w][1]] \in Terminal THEN "ack" ELSE "loaded")
  /\ UNCHANGED <<cur, state, redisVars, relayVars, reaperVars, moverVars, timeVars>>

(* UPDATE ... SET state = 'in_progress': waits for the row lock of any worker *)
(* that has not committed, then overwrites whatever that worker committed.    *)
RowLocked(a) == \E w \in Workers : pc[w] = "executing" /\ cur[w][1] = a

MarkInProgress(w) ==
  /\ pc[w] = "loaded"
  /\ ~RowLocked(cur[w][1])
  /\ Goto(w, "executing")
  /\ UNCHANGED <<cur, state, redisVars, relayVars, reaperVars, moverVars, timeVars>>

(* Handler, outcome, AuditEvent and commit are one transaction.  An exception *)
(* rolls it back and leaves the payload in the inflight list.                 *)
WriteOutcome(w, o) ==
  /\ pc[w] = "executing"
  /\ o \in Results[cur[w][1]]
  /\ IF o = "raises"
     THEN Leave(w, "idle") /\ UNCHANGED state
     ELSE Goto(w, "ack") /\ UNCHANGED cur /\ state' = [state EXCEPT ![cur[w][1]] = o]
  /\ UNCHANGED <<redisVars, relayVars, reaperVars, moverVars, timeVars>>

Ack(w) ==
  /\ pc[w] = "ack"
  /\ inflight' = [inflight EXCEPT ![w] = Removed(@, cur[w])]
  /\ Leave(w, "idle")
  /\ UNCHANGED <<ready, delayed, dlq, state, relayVars, reaperVars, moverVars, timeVars>>

(* A Postgres or Redis error inside _process_task, the ACK included, is caught *)
(* and logged: the payload stays in the inflight list, the loop goes on.       *)
WorkerError(w) ==
  /\ pc[w] \notin {"idle", "dead"}
  /\ cur[w][1] \notin Malformed
  /\ faults < MaxFaults
  /\ faults' = faults + 1
  /\ Leave(w, "idle")
  /\ UNCHANGED <<outbox, errors, pushes, relay, state, redisVars, reaperVars, moverVars, timeVars>>

(* The process is killed, the loop dies of a Redis error, or shutdown cancels *)
(* the task: Postgres rolls back and frees the row, Redis keeps the list.     *)
WorkerCrash(w) ==
  /\ pc[w] # "dead"
  /\ Cardinality({v \in Workers : pc[v] = "dead"}) < MaxWorkerCrashes
  /\ Leave(w, "dead")
  /\ UNCHANGED <<state, redisVars, relayVars, reaperVars, moverVars, timeVars>>

-----------------------------------------------------------------------------
(* Reaper: LRANGE of one inflight list, then LREM and a push per stuck item. *)

(* Mutant of Stuck: the age of a payload is not looked at. *)
MutStuckIfUnreadable(p) == p[1] \in Foreign

(* A payload without claimed_at, or not JSON, is stuck whatever its age. *)
Stuck(p) == p \in stale \/ p[1] \in Foreign

PayloadAttemptNumber == 1   \* what the API writes, and the reaper's default
ReaperMaxAttempts    == 3   \* no producer writes max_attempts: the reaper's default

ReapDestination(p) ==
  IF p[1] \in Malformed \/ PayloadAttemptNumber >= ReaperMaxAttempts THEN "dlq" ELSE "ready"

ReaperScan(r, w) ==
  /\ hand[r] = None /\ todo[r] = Empty
  /\ \E p \in Payloads : inflight[w][p] > 0 /\ Stuck(p)
  /\ todo' = [todo EXCEPT ![r] = [p \in Payloads |-> IF Stuck(p) THEN inflight[w][p] ELSE 0]]
  /\ source' = [source EXCEPT ![r] = w]
  /\ UNCHANGED <<state, redisVars, relayVars, workerVars, moverVars, timeVars>>

(* LREM: its result is not looked at. *)
ReaperTake(r, p) ==
  /\ hand[r] = None
  /\ todo[r][p] > 0
  /\ todo' = [todo EXCEPT ![r] = Removed(@, p)]
  /\ source' = [source EXCEPT ![r] = IF todo'[r] = Empty THEN None ELSE @]
  /\ inflight' = [inflight EXCEPT ![source[r]] = Removed(@, p)]
  /\ hand' = [hand EXCEPT ![r] = p]
  /\ UNCHANGED <<ready, delayed, dlq, moverCrashes, forfeited, state, relayVars,
                 workerVars, timeVars>>

ReaperPut(r) ==
  LET p == hand[r] IN
  /\ p # None
  /\ hand' = [hand EXCEPT ![r] = None]
  /\ IF ReapDestination(p) = "dlq"
     THEN dlq[p] < MaxCopies /\ dlq' = Pushed(dlq, p) /\ UNCHANGED ready
     ELSE ready[p] < MaxCopies /\ ready' = Pushed(ready, p) /\ UNCHANGED dlq
  /\ UNCHANGED <<delayed, inflight, moverCrashes, forfeited, state, relayVars, workerVars,
                 reaperVars, timeVars>>

-----------------------------------------------------------------------------
(* opsctl: requeue and drop, LREM by value; a requeue that removed nothing stops. *)

RequeueTake(p) ==
  /\ hand[Operator] = None
  /\ dlq[p] > 0
  /\ dlq' = Removed(dlq, p)
  /\ hand' = [hand EXCEPT ![Operator] = p]
  /\ UNCHANGED <<ready, delayed, inflight, moverCrashes, forfeited, state, relayVars,
                 workerVars, reaperVars, timeVars>>

RequeuePut ==
  LET p == hand[Operator] IN
  /\ p # None
  /\ ready[p] < MaxCopies
  /\ ready' = Pushed(ready, p)
  /\ hand' = [hand EXCEPT ![Operator] = None]
  /\ UNCHANGED <<delayed, inflight, dlq, moverCrashes, forfeited, state, relayVars,
                 workerVars, reaperVars, timeVars>>

Drop(p) ==
  /\ dlq[p] > 0
  /\ dlq' = Removed(dlq, p)
  /\ forfeited' = forfeited \cup {p[1]}
  /\ UNCHANGED <<ready, delayed, inflight, hand, moverCrashes, state, relayVars, workerVars,
                 reaperVars, timeVars>>

(* A scheduler, reaper or operator dies, or gets an error, between its two     *)
(* Redis commands.                                                             *)
MoverCrash(m) ==
  /\ hand[m] # None
  /\ moverCrashes < MaxMoverCrashes
  /\ moverCrashes' = moverCrashes + 1
  /\ forfeited' = forfeited \cup {hand[m][1]}
  /\ hand' = [hand EXCEPT ![m] = None]
  /\ todo' = [r \in Reapers |-> IF r = m THEN Empty ELSE todo[r]]
  /\ source' = [r \in Reapers |-> IF r = m THEN None ELSE source[r]]
  /\ UNCHANGED <<redisVars, state, relayVars, workerVars, timeVars>>

-----------------------------------------------------------------------------
RelayStep ==
  \/ RelayLoad
  \/ \E a \in Attempts : RelayPush(a)
  \/ RelayCommit

Failure ==
  \/ \E a \in Attempts, applied \in BOOLEAN : RelayPushFails(a, applied)
  \/ RelayCrash
  \/ \E w \in Workers : WorkerError(w) \/ WorkerCrash(w)
  \/ \E m \in Movers : MoverCrash(m)

SchedulerStep ==
  \/ \E p \in Payloads : SchedulerPop(p)
  \/ SchedulerPut

WorkerStep(w) ==
  \/ DeadLetter(w)
  \/ LoadAttempt(w)
  \/ \E o \in Outcomes \cup {"raises"} : WriteOutcome(w, o)
  \/ Ack(w)

ReaperStep(r) ==
  \/ \E p \in Payloads : ReaperTake(r, p)
  \/ ReaperPut(r)

OperatorStep ==
  \/ \E p \in Payloads : RequeueTake(p) \/ Drop(p)
  \/ RequeuePut

Next ==
  \/ \E a \in Attempts : Submit(a) \/ ForeignPush(a) \/ BecomeDue(a)
  \/ \E p \in Payloads : BecomeStale(p)
  \/ RelayStep
  \/ SchedulerStep
  \/ \E w \in Workers, p \in Payloads : Claim(w, p)
  \/ \E w \in Workers : MarkInProgress(w) \/ WorkerStep(w)
  \/ \E r \in Reapers, w \in Workers : ReaperScan(r, w)
  \/ \E r \in Reapers : ReaperStep(r)
  \/ OperatorStep
  \/ Failure

Spec == Init /\ [][Next]_vars

(* Every loop keeps running, the clock keeps moving, the ready list is served *)
(* in order (a payload at its tail is the next one claimed), the reaper       *)
(* visits every list, and Postgres grants a row lock in the order of requests.*)
(* Producers, operators and failures owe nothing.                             *)
Fairness ==
  /\ WF_vars(RelayStep)
  /\ WF_vars(SchedulerStep)
  /\ \A a \in Attempts : WF_vars(BecomeDue(a))
  /\ \A p \in Payloads : WF_vars(BecomeStale(p)) /\ SF_vars(\E w \in Workers : Claim(w, p))
  /\ \A w \in Workers : WF_vars(WorkerStep(w)) /\ SF_vars(MarkInProgress(w))
  /\ \A r \in Reapers : WF_vars(ReaperStep(r))
  /\ \A r \in Reapers, w \in Workers : SF_vars(ReaperScan(r, w))

FairSpec == Spec /\ Fairness

-----------------------------------------------------------------------------
(* Properties *)

AttemptStates == {"none", "queued"} \cup Outcomes

List == [Payloads -> Nat]

(* Type correctness of every list, row and program counter. *)
TypeOK ==
  /\ outbox \in [Attempts -> {"none", "pending", "enqueued"}]
  /\ errors \in [Attempts -> Nat]
  /\ state \in [Attempts -> AttemptStates]
  /\ due \subseteq Attempts
  /\ pushes \in [Attempts -> 0..MaxPushes]
  /\ stale \subseteq Payloads
  /\ relay \in [busy : BOOLEAN, rows : SUBSET Attempts, now : SUBSET Attempts,
                marked : SUBSET Attempts, failed : SUBSET Attempts]
  /\ ready \in List /\ dlq \in List
  /\ delayed \subseteq Payloads
  /\ inflight \in [Workers -> List]
  /\ pc \in [Workers -> {"idle", "claimed", "loaded", "executing", "ack", "dead"}]
  /\ cur \in [Workers -> Payloads \cup {None}]
  /\ \A w \in Workers : pc[w] \notin {"idle", "dead"} => cur[w] \in Payloads
  /\ todo \in [Reapers -> List]
  /\ source \in [Reapers -> Workers \cup {None}]
  /\ \A r \in Reapers : todo[r] # Empty => source[r] \in Workers
  /\ hand \in [Movers -> Payloads \cup {None}]
  /\ faults \in Nat /\ moverCrashes \in Nat
  /\ forfeited \subseteq Attempts

(* The system still owes attempt a an execution. *)
Owed(a) ==
  /\ a \notin forfeited
  /\ state[a] = "queued" \/ (a \in Foreign /\ pushes[a] > 0)

(* A copy of the payload p that nobody is about to acknowledge. *)
InHand(p)   == \E m \in Movers : hand[m] = p
InFlight(p) == \E w \in Workers : inflight[w][p] > 0 /\ ~(pc[w] = "ack" /\ cur[w] = p)
Held(p)     == p \in delayed \/ ready[p] > 0 \/ dlq[p] > 0 \/ InHand(p) \/ InFlight(p)

(* A row that the relay will read again, or a held copy of some push of it. *)
Recoverable(a) ==
  \/ outbox[a] = "pending" /\ a \notin relay.marked
  \/ \E p \in Payloads : p[1] = a /\ Held(p)

(* The rows of the relay's open transaction are rows it read as pending.       *)
BatchPending ==
  relay.rows \cup relay.marked \subseteq {a \in Attempts : outbox[a] = "pending"}

(* Only payloads with rows behind them get past the checks of _process_task.    *)
ForeignNotExecuted ==
  \A w \in Workers : pc[w] \in {"loaded", "executing"} => cur[w][1] \notin Foreign

(* Whatever crashes, races and redeliveries happen, an attempt that is still   *)
(* owed an execution is on an unmarked outbox row or has a copy that no        *)
(* acknowledgement is about to remove; a mover that dies with the only copy,   *)
(* or an operator that drops one, is the only way to lose it.                  *)
NoTaskLost == \A a \in Attempts : Owed(a) => Recoverable(a)

(* The outcome of an attempt is final: the worker loop aborts when the attempt *)
(* is already succeeded or terminal.                                           *)
TerminalIsFinal ==
  [][\A a \in Attempts : state[a] \in Terminal => state'[a] = state[a]]_state

(* A task the relay has marked enqueued was pushed, and pushed again only after *)
(* a failure: of a push, of the relay's batch, or (the count is one) of a       *)
(* worker.                                                                      *)
PushedOncePerFault ==
  \A a \in Attempts \ Foreign :
    /\ outbox[a] = "enqueued" => pushes[a] > 0
    /\ pushes[a] <= faults + 1

(* An acknowledgement never removes a payload whose outcome is not committed.  *)
AckAfterOutcome ==
  [][\A w \in Workers : pc[w] = "ack" /\ pc'[w] = "idle" /\ cur[w][1] \notin Foreign
        => state[cur[w][1]] \in Outcomes]_vars

(* A submitted task whose handler does not raise is executed: no interleaving  *)
(* of redelivery, row lock waits, relay retries and worker crashes starves it. *)
Delivered ==
  \A a \in Attempts \ Foreign :
    "raises" \notin Results[a] => (state[a] = "queued" ~> state[a] # "queued")

(* A task that raises on every execution ends in the dead letter queue.        *)
PoisonDeadLettered ==
  \A a \in Attempts \ Foreign :
    Results[a] = {"raises"} =>
      (state[a] = "queued" ~> \E p \in Payloads : p[1] = a /\ dlq[p] > 0)
=============================================================================
