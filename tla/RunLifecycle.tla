---------------------------- MODULE RunLifecycle ----------------------------
(***************************************************************************)
(* One WorkflowRun and its rows, shared by the WorkflowOrchestrator, the   *)
(* worker loop, which executes the tasks of its attempts, and the API      *)
(* routes that create, cancel, claim, resolve and reject.                  *)
(*                                                                         *)
(* A method or route is a database transaction in READ COMMITTED: it reads *)
(* rows, computes in memory, and writes.  A step is the statements between *)
(* two points where another transaction's commit can be seen: the first    *)
(* reads, the row lock on the EscalationCase, and the writes up to the     *)
(* commit, which row locks make atomic.  SQLAlchemy writes the columns     *)
(* whose value differs from what was read, and no others; only the cancel  *)
(* route guards its UPDATE with the version it read.                       *)
(***************************************************************************)
EXTENDS Naturals, FiniteSets

CONSTANTS
  N,                  \* number of steps of the workflow definition
  max_attempts,       \* max_attempts[s], per step
  escalate_on_failure,\* the steps whose terminal failure escalates
  Ops,                \* the methods and routes that are called, and executions
  Actors,             \* principals of the API
  Txns,               \* transactions that may be open at the same time
  None,               \* nobody
  MaxRedeliveries,    \* bound: calls of advance_workflow for a task that has had one
  MaxResolutions      \* bound: resolutions, which resume_after_escalation repeats

Steps == 1..N

StepResults == {"succeeded", "failed_retryable", "failed_terminal", "escalate"}

HumanNumber == 99     \* step_attempt_number of the resolve route's attempt

Max(S) == CHOOSE x \in S : \A y \in S : y <= x

Numbers == 1..(Max({max_attempts[s] : s \in Steps}) + MaxResolutions) \cup {HumanNumber}

ASSUME LifecycleAssumption ==
  /\ N \in Nat \ {0}
  /\ max_attempts \in [Steps -> 1..10]
  /\ escalate_on_failure \subseteq Steps
  /\ Ops \subseteq {"execute", "advance", "resume", "cancel_workflow", "cancel", "claim",
                   "resolve", "reject"}
  /\ None \notin Actors
  /\ {MaxRedeliveries, MaxResolutions} \subseteq Nat

VARIABLES
  run,       \* workflow_runs: state, version and current step (0: no row yet)
  steps,     \* steps.state
  attempts,  \* step_attempts of each step: number and origin
  answered,  \* the tasks (outbox rows of attempts) answered by advance_workflow
  redelivered,
  esc,       \* escalation_cases of each step: state and claimed_by
  trail,     \* how many audit_events of each type are committed
  txn        \* the open transactions: what was called and what was read

rows == <<run, steps, attempts, answered, esc, trail>>
vars == <<rows, redelivered, txn>>

EventTypes ==
  {"workflow_run.started", "step.advanced", "step_attempt.retry_scheduled",
   "workflow_run.completed", "workflow_run.failed", "workflow_run.cancelled",
   "escalation.created", "escalation.claimed", "escalation.resolved", "escalation.rejected"}

NoTxn == [op |-> "idle"]

Init ==
  /\ run = [state |-> "pending", version |-> 0, step |-> 0]
  /\ steps = [s \in Steps |-> "queued"]
  /\ attempts = [s \in Steps |-> {}]
  /\ answered = {}
  /\ redelivered = 0
  /\ esc = [s \in Steps |-> [state |-> "none", by |-> None]]
  /\ trail = [e \in EventTypes |-> 0]
  /\ txn = [t \in Txns |-> NoTxn]

-----------------------------------------------------------------------------
(* The session: unit of work, constraints, audit, commit *)

(* A column after a flush: written only if the new value is not the one read. *)
Flushed(now, read, new) == IF new = read THEN now ELSE new

(* The columns of the run that a transaction has read and set. *)
FlushedRun(read, new) ==
  [state |-> Flushed(run.state, read.state, new.state),
   version |-> Flushed(run.version, read.version, new.version),
   step |-> Flushed(run.step, read.step, new.step)]

(* Every change of state counts the version. *)
To(r, state) == [state |-> state, version |-> r.version + 1, step |-> r.step]

(* Mutant of Taken: no unique constraint on the attempt's number. *)
MutNeverTaken(s, n) == FALSE

(* uq_step_attempts_step_number *)
Taken(s, n) == \E a \in attempts[s] : a.number = n

Attempt(n, origin) == [number |-> n, origin |-> origin]

Audited(types) == trail' = [e \in EventTypes |-> IF e \in types THEN trail[e] + 1 ELSE trail[e]]

Open(t, call) == txn[t] = NoTxn /\ txn' = [txn EXCEPT ![t] = call]

Done(t) == txn' = [txn EXCEPT ![t] = NoTxn]

(* An exception, a unique violation, a deadlock, a 409, a crash. *)
Rollback(t) ==
  /\ txn[t] # NoTxn
  /\ Done(t)
  /\ UNCHANGED <<rows, redelivered>>

-----------------------------------------------------------------------------
(* start_workflow_run, and the route that creates a run the same way *)

Start ==
  /\ run.step = 0
  /\ run' = [state |-> "running", version |-> 1, step |-> 1]
  /\ attempts' = [attempts EXCEPT ![1] = {Attempt(1, "system")}]
  /\ Audited({"workflow_run.started"})
  /\ UNCHANGED <<steps, answered, esc, txn, redelivered>>

-----------------------------------------------------------------------------
(* The worker loop's _process_task, on the step of the task's attempt *)

SetStep(s, read, state) == steps' = [steps EXCEPT ![s] = Flushed(@, read, state)]

(* The step is read with the attempt.  Which attempts are still executed is    *)
(* left open here: any task may be delivered, however often.                   *)
ProcessLoad(t, s, n) ==
  /\ "execute" \in Ops
  /\ Attempt(n, "system") \in attempts[s]
  /\ Open(t, [op |-> "execute", s |-> s, number |-> n, step |-> steps[s]])
  /\ UNCHANGED <<rows, redelivered>>

(* The handler has run; its outcome is committed to the step. *)
ProcessOutcome(t, state) ==
  /\ txn[t].op = "execute"
  /\ SetStep(txn[t].s, txn[t].step, state)
  /\ Done(t)
  /\ UNCHANGED <<run, attempts, answered, esc, trail, redelivered>>

-----------------------------------------------------------------------------
(* advance_workflow: called for a task, with the result of its handler *)

(* The queue delivers at least once: a task may be called for again. *)
Answering(k) == \E t \in Txns : "n" \in DOMAIN txn[t] /\ <<txn[t].s, txn[t].n>> = k

Delivered(k) ==
  IF k \in answered \/ Answering(k)
  THEN redelivered < MaxRedeliveries /\ redelivered' = redelivered + 1
  ELSE UNCHANGED redelivered

(* The run and its steps are read first; nothing checks the run's state. *)
AdvanceLoad(t, s, n, result) ==
  /\ "advance" \in Ops
  /\ Attempt(n, "system") \in attempts[s]
  /\ Delivered(<<s, n>>)
  /\ Open(t, [op |-> result, s |-> s, n |-> n, run |-> run, step |-> steps[s]])
  /\ UNCHANGED rows

(* Mutant of CountAttempts: one attempt too many. *)
MutCountOff(t) ==
  /\ txn[t].op = "failed_retryable"
  /\ LET count == Cardinality(attempts[txn[t].s])
     IN  txn' = [txn EXCEPT ![t] =
           IF count <= max_attempts[@.s]
           THEN [op |-> "retry", s |-> @.s, n |-> @.n, run |-> @.run, step |-> @.step,
                 count |-> count]
           ELSE [@ EXCEPT !.op = "failed_terminal"]]
  /\ UNCHANGED <<rows, redelivered>>

(* _handle_failed_retryable lists the attempts of the step, and decides. *)
CountAttempts(t) ==
  /\ txn[t].op = "failed_retryable"
  /\ LET count == Cardinality(attempts[txn[t].s])
     IN  txn' = [txn EXCEPT ![t] =
           IF count < max_attempts[@.s]
           THEN [op |-> "retry", s |-> @.s, n |-> @.n, run |-> @.run, step |-> @.step,
                 count |-> count]
           ELSE [@ EXCEPT !.op = "failed_terminal"]]
  /\ UNCHANGED <<rows, redelivered>>

Answer(t) == answered' = answered \cup {<<txn[t].s, txn[t].n>>}

(* _handle_succeeded: complete the run, or start the next step. *)
Completes(s, read) ==
  /\ s = N
  /\ run' = FlushedRun(read, To(read, "completed"))
  /\ UNCHANGED attempts

(* Mutant of Continues: the end of the workflow is not recognised. *)
MutContinuePastEnd(s, read) ==
  /\ s < N => ~Taken(s + 1, 1)
  /\ attempts' = [attempts EXCEPT ![s + 1] = @ \cup {Attempt(1, "system")}]
  /\ run' = FlushedRun(read, [read EXCEPT !.step = s + 1])

Continues(s, read) ==
  /\ s < N
  /\ ~Taken(s + 1, 1)
  /\ attempts' = [attempts EXCEPT ![s + 1] = @ \cup {Attempt(1, "system")}]
  /\ run' = FlushedRun(read, [read EXCEPT !.step = s + 1])

AdvanceSucceeded(t) ==
  LET s == txn[t].s IN
  /\ txn[t].op = "succeeded"
  /\ SetStep(s, txn[t].step, "succeeded")
  /\ \/ Completes(s, txn[t].run) /\ Audited({"workflow_run.completed"})
     \/ Continues(s, txn[t].run) /\ Audited({"step.advanced"})
  /\ Answer(t)
  /\ Done(t)
  /\ UNCHANGED <<esc, redelivered>>

AdvanceRetry(t) ==
  LET s == txn[t].s
      n == txn[t].count + 1
  IN
  /\ txn[t].op = "retry"
  /\ ~Taken(s, n)
  /\ attempts' = [attempts EXCEPT ![s] = @ \cup {Attempt(n, "system")}]
  /\ SetStep(s, txn[t].step, "failed_retryable")
  /\ Audited({"step_attempt.retry_scheduled"})
  /\ Answer(t)
  /\ Done(t)
  /\ UNCHANGED <<run, esc, redelivered>>

(* A new case; uq_escalation_cases_run_step allows one per step. *)
Escalates(s, read) ==
  /\ esc[s].state = "none"
  /\ esc' = [esc EXCEPT ![s].state = "open"]
  /\ run' = FlushedRun(read, To(read, "awaiting_human"))
  /\ Audited({"escalation.created"})

AdvanceFailed(t) ==
  LET s == txn[t].s IN
  /\ txn[t].op = "failed_terminal"
  /\ SetStep(s, txn[t].step, "failed_terminal")
  /\ IF s \in escalate_on_failure
     THEN Escalates(s, txn[t].run)
     ELSE /\ run' = FlushedRun(txn[t].run, To(txn[t].run, "failed"))
          /\ Audited({"workflow_run.failed"})
          /\ UNCHANGED esc
  /\ Answer(t)
  /\ Done(t)
  /\ UNCHANGED <<attempts, redelivered>>

AdvanceEscalate(t) ==
  /\ txn[t].op = "escalate"
  /\ Escalates(txn[t].s, txn[t].run)
  /\ Answer(t)
  /\ Done(t)
  /\ UNCHANGED <<steps, attempts, redelivered>>

-----------------------------------------------------------------------------
(* EscalationCases *)

(* A transaction that has written the case holds its row until it ends. *)
EscLocked(s) == \E t \in Txns : txn[t].op \in {"resolved", "rejected"} /\ txn[t].s = s

(* Mutant of Claim: the UPDATE is not restricted to open cases. *)
MutClaimAny(actor, s) ==
  /\ "claim" \in Ops
  /\ ~EscLocked(s)
  /\ esc[s].state # "none"
  /\ esc' = [esc EXCEPT ![s] = [state |-> "claimed", by |-> actor]]
  /\ Audited({"escalation.claimed"})
  /\ UNCHANGED <<run, steps, attempts, answered, txn, redelivered>>

(* claim_escalation: one UPDATE ... WHERE state = 'open'. *)
Claim(actor, s) ==
  /\ "claim" \in Ops
  /\ ~EscLocked(s)
  /\ esc[s].state = "open"
  /\ esc' = [esc EXCEPT ![s] = [state |-> "claimed", by |-> actor]]
  /\ Audited({"escalation.claimed"})
  /\ UNCHANGED <<run, steps, attempts, answered, txn, redelivered>>

(* resolve_escalation and reject_escalation: the case is read and checked. *)
CheckClaim(t, op, actor, s) ==
  /\ op \in Ops
  /\ esc[s] = [state |-> "claimed", by |-> actor]
  /\ Open(t, [op |-> op, s |-> s])
  /\ UNCHANGED <<rows, redelivered>>

(* The next SELECT flushes the UPDATE of the case, and for resolve the insert *)
(* of the human attempt, and then reads the run.                              *)
LockCase(t, op, locked) ==
  /\ txn[t].op = op
  /\ ~EscLocked(txn[t].s)
  /\ op = "resolve" => ~Taken(txn[t].s, HumanNumber)
  /\ txn' = [txn EXCEPT ![t] = [op |-> locked, s |-> @.s, run |-> run]]
  /\ UNCHANGED <<rows, redelivered>>

Resolve(t) ==
  LET s == txn[t].s
      read == txn[t].run
  IN
  /\ txn[t].op = "resolved"
  /\ trail["escalation.resolved"] < MaxResolutions
  /\ esc' = [esc EXCEPT ![s].state = "resolved"]
  /\ attempts' = [attempts EXCEPT ![s] = @ \cup {Attempt(HumanNumber, "human")}]
  /\ run' = IF read.state = "awaiting_human" THEN FlushedRun(read, To(read, "running")) ELSE run
  /\ Audited({"escalation.resolved"})
  /\ Done(t)
  /\ UNCHANGED <<steps, answered, redelivered>>

Reject(t) ==
  LET read == txn[t].run IN
  /\ txn[t].op = "rejected"
  /\ esc' = [esc EXCEPT ![txn[t].s].state = "rejected"]
  /\ run' = IF read.state \in {"running", "awaiting_human"}
            THEN FlushedRun(read, To(read, "failed"))
            ELSE run
  /\ Audited({"escalation.rejected"})
  /\ Done(t)
  /\ UNCHANGED <<steps, attempts, answered, redelivered>>

(* resume_after_escalation: no state of the case, the step or the run is checked. *)
ResumeLoad(t, s) ==
  /\ "resume" \in Ops
  /\ esc[s].state # "none"
  /\ Open(t, [op |-> "resume", s |-> s, run |-> run, step |-> steps[s], esc |-> esc[s].state])
  /\ UNCHANGED <<rows, redelivered>>

Resume(t) ==
  LET s == txn[t].s
      read == txn[t].run
      n == Cardinality(attempts[s]) + 1
      resumed == To(read, "running")
      human == [attempts EXCEPT ![s] = @ \cup {Attempt(n, "human")}]
  IN
  /\ txn[t].op = "resume"
  /\ trail["escalation.resolved"] < MaxResolutions
  /\ ~EscLocked(s)
  /\ esc' = [esc EXCEPT ![s].state = Flushed(@, txn[t].esc, "resolved")]
  /\ ~Taken(s, n)
  /\ SetStep(s, txn[t].step, "succeeded")
  /\ \/ /\ s = N
        /\ attempts' = human
        /\ run' = [run EXCEPT !.state = "completed", !.version = resumed.version + 1]
        /\ Audited({"escalation.resolved", "workflow_run.completed"})
     \/ /\ s < N
        /\ ~Taken(s + 1, 1)
        /\ attempts' = [human EXCEPT ![s + 1] = @ \cup {Attempt(1, "system")}]
        /\ run' = FlushedRun(read, [resumed EXCEPT !.step = s + 1])
        /\ Audited({"escalation.resolved", "step.advanced"})
  /\ Done(t)
  /\ UNCHANGED <<answered, redelivered>>

-----------------------------------------------------------------------------
(* Cancellation: by the route, and by the orchestrator *)

Cancellable == {"running", "awaiting_human"}

CancelLoad(t, op) ==
  /\ op \in Ops
  /\ run.state \in Cancellable
  /\ Open(t, [op |-> op, run |-> run])
  /\ UNCHANGED <<rows, redelivered>>

(* update_state_optimistic: WHERE version = the version that was read. *)
Cancel(t) ==
  /\ txn[t].op = "cancel"
  /\ run.version = txn[t].run.version
  /\ run' = To(run, "cancelled")
  /\ Audited({"workflow_run.cancelled"})
  /\ Done(t)
  /\ UNCHANGED <<steps, attempts, answered, esc, redelivered>>

CancelWorkflow(t) ==
  /\ txn[t].op = "cancel_workflow"
  /\ run' = FlushedRun(txn[t].run, To(txn[t].run, "cancelled"))
  /\ Audited({"workflow_run.cancelled"})
  /\ Done(t)
  /\ UNCHANGED <<steps, attempts, answered, esc, redelivered>>

-----------------------------------------------------------------------------
Orchestrate(t) ==
  \/ \E s \in Steps, n \in Numbers, result \in StepResults : AdvanceLoad(t, s, n, result)
  \/ CountAttempts(t)
  \/ AdvanceSucceeded(t)
  \/ AdvanceRetry(t)
  \/ AdvanceFailed(t)
  \/ AdvanceEscalate(t)
  \/ \E s \in Steps : ResumeLoad(t, s)
  \/ Resume(t)
  \/ CancelLoad(t, "cancel_workflow")
  \/ CancelWorkflow(t)

Process(t) ==
  \/ \E s \in Steps, n \in Numbers : ProcessLoad(t, s, n)
  \/ \E state \in {"succeeded", "failed_retryable", "failed_terminal"} : ProcessOutcome(t, state)

Route(t) ==
  \/ \E actor \in Actors, s \in Steps, op \in {"resolve", "reject"} : CheckClaim(t, op, actor, s)
  \/ LockCase(t, "resolve", "resolved")
  \/ LockCase(t, "reject", "rejected")
  \/ Resolve(t)
  \/ Reject(t)
  \/ CancelLoad(t, "cancel")
  \/ Cancel(t)

Next ==
  \/ Start
  \/ \E actor \in Actors, s \in Steps : Claim(actor, s)
  \/ \E t \in Txns : Process(t) \/ Orchestrate(t) \/ Route(t) \/ Rollback(t)

Spec == Init /\ [][Next]_vars

-----------------------------------------------------------------------------
(* Properties *)

(* Type correctness of the rows. *)
TypeOK ==
  /\ run \in [state : {"pending", "running", "awaiting_human", "completed", "failed", "cancelled"},
             version : Nat, step : 0..N]
  /\ steps \in [Steps -> {"queued", "succeeded", "failed_retryable", "failed_terminal"}]
  /\ attempts \in [Steps -> SUBSET [number : Numbers, origin : {"system", "human"}]]
  /\ answered \subseteq Steps \X Numbers
  /\ redelivered \in 0..MaxRedeliveries
  /\ esc \in [Steps -> [state : {"none", "open", "claimed", "resolved", "rejected"},
                       by : Actors \cup {None}]]
  /\ trail \in [EventTypes -> Nat]

Of(s, origin) == {a \in attempts[s] : a.origin = origin}

SystemAttempts == UNION {{s} \X Of(s, "system") : s \in Steps}

HumanAttempts == UNION {{s} \X Of(s, "human") : s \in Steps}

(* However often a task is redelivered and answered, and whoever resolves in   *)
(* between, a step is never tried more often than max_attempts.                *)
AttemptsBounded == \A s \in Steps : Cardinality(Of(s, "system")) <= max_attempts[s]

(* The audit trail accounts for every row: one event for each attempt created, *)
(* each case opened and each human resolution, whatever transactions collide.  *)
AuditMatchesRows ==
  /\ trail["workflow_run.started"] + trail["step.advanced"] + trail["step_attempt.retry_scheduled"]
       = Cardinality(SystemAttempts)
  /\ trail["escalation.created"] = Cardinality({s \in Steps : esc[s].state # "none"})
  /\ trail["escalation.resolved"] = Cardinality(HumanAttempts)

(* A case is claimed by one actor, for good: two operators never both own it.  *)
(* (The release of a claim that SYSTEM_ARCHITECTURE.md describes has no code.) *)
ClaimExclusive == [][\A s \in Steps : esc[s].by # None => esc'[s].by = esc[s].by]_esc

(* A run that is running has a task that will move it on: an attempt of the    *)
(* system that advance_workflow has not answered.  "The next Task is enqueued  *)
(* via the outbox" by whoever moves the run.                                   *)
NeverStranded ==
  run.state = "running" =>
    \E s \in Steps : \E a \in Of(s, "system") : <<s, a.number>> \notin answered

(* The rows follow the state machine of the domain model: only the transitions *)
(* of its table are made, none leaves a terminal state, and each counts.       *)
Domain == INSTANCE RunStateMachine WITH state <- run.state, version <- run.version

FollowsDomain == Domain!Spec
=============================================================================
