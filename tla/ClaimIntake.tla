---------------------------- MODULE ClaimIntake ----------------------------
(***************************************************************************)
(* The claim_intake v1 workflow: the rows of RunLifecycle, moved by the    *)
(* worker loop's execution of the step handlers on the run's documents.    *)
(*                                                                         *)
(* A worker executes a task in a transaction of RunLifecycle: it reads the *)
(* attempt and the step, and later runs the handler and writes the         *)
(* outcome to both rows.  The queue delivers at least once, so two workers *)
(* may hold one attempt, and only an attempt read as terminal is skipped.  *)
(* The handler's StepResult is then given to advance_workflow, whose       *)
(* caller the repository does not contain.                                 *)
(*                                                                         *)
(* A document is what the regular expressions find in it: the fields, and  *)
(* whether the validator's format accepts the value.                       *)
(***************************************************************************)
EXTENDS RunLifecycle

CONSTANTS
  Docs,               \* the documents attached to the run
  Claims,             \* what the documents of a claim may contain
  MaxReexecutions     \* bound: deliveries of a task that has been delivered

F == INSTANCE FiniteSetsExt

ingest == 1
extract == 2
validate == 3
route == 4
complete == 5

(* StepDefinition: max_attempts and escalate_on_failure of the five steps. *)
ClaimMaxAttempts == <<1, 3, 1, 2, 1>>

ClaimEscalates == {extract, validate}

Fields == {"claim_number", "policy_number", "claimant_name", "date_of_loss", "claim_type"}

(* A reading: the fields found, and for each whether its value is well formed. *)
Readings == UNION {[S -> BOOLEAN] : S \in SUBSET Fields}

NoFields == [f \in {} |-> TRUE]

ASSUME IntakeAssumption ==
  /\ N = 5 /\ max_attempts = ClaimMaxAttempts /\ escalate_on_failure = ClaimEscalates
  /\ IsFiniteSet(Docs) /\ Docs # {}
  /\ Claims \subseteq [Docs -> [binary : BOOLEAN, raw : Readings, ocr : Readings]]
  /\ MaxReexecutions \in Nat

VARIABLES
  docs,        \* documents and their payloads
  result,      \* step_attempts: the outcome last committed, and output_ref
  unread,      \* the attempts of the extraction that met an unreadable payload (history)
  delivered,   \* the tasks that a worker has received
  reexecuted

intake == <<result, unread, delivered, reexecuted>>
ivars == <<vars, docs, intake>>

NotExecuted == [status |-> "queued", fields |-> NoFields]

IntakeInit ==
  /\ Init
  /\ docs \in Claims
  /\ result = [k \in Steps \X Numbers |-> NotExecuted]
  /\ unread = {}
  /\ delivered = {}
  /\ reexecuted = 0

-----------------------------------------------------------------------------
(* The step handlers: the set of StepResults each may return *)

Result(status, fields) == [status |-> status, fields |-> fields]

(* extract_text succeeds or raises; a raise falls back to the raw bytes, and   *)
(* so does a content type that needs no OCR.                                   *)
ReadAs(doc) == IF doc.binary THEN {doc.ocr, doc.raw} ELSE {doc.raw}

(* The orders in which the documents are merged: _get_document_ids has none.   *)
Orders == {o \in [1..Cardinality(Docs) -> Docs] : \A i, j \in DOMAIN o : o[i] = o[j] => i = j}

(* all_fields: the last document that has a field gives its value. *)
Merged(text, order) ==
  [f \in UNION {DOMAIN text[d] : d \in Docs} |->
     LET with == {i \in DOMAIN order : f \in DOMAIN text[order[i]]}
     IN  text[order[Max(with)]][f]]

(* Every combination of OCR outcomes and orders. *)
Extractions ==
  LET texts == {t \in [Docs -> UNION {ReadAs(docs[d]) : d \in Docs}] :
                  \A d \in Docs : t[d] \in ReadAs(docs[d])}
  IN  {Merged(t, o) : t \in texts, o \in Orders}

(* IngestStepHandler: the foreign keys of the run's documents leave none missing. *)
HandleIngest == {Result("succeeded", NoFields)}

(* Mutant of HandleExtract: an unreadable payload is final. *)
MutUnreadableFinal ==
  {Result("failed_terminal", NoFields)} \cup {Result("succeeded", e) : e \in Extractions}

(* ExtractStepHandler: an unreadable payload ends it; the optional AI          *)
(* enhancement changes nothing, whether it answers or raises.                  *)
HandleExtract ==
  {Result("failed_retryable", NoFields)} \cup {Result("succeeded", e) : e \in Extractions}

(* RuleBasedValidator.validate *)
ValidationStatus(fields) ==
  IF ~({"claim_number", "policy_number"} \subseteq DOMAIN fields) THEN "fail_terminal"
  ELSE IF \A f \in {"policy_number", "date_of_loss"} \cap DOMAIN fields : fields[f]
       THEN "pass" ELSE "fail_correctable"

(* _CONFIDENCE of the StubExtractor, and the ReviewThresholds, in percent. *)
Confidence == 95
auto_approve_min == 90
review_required_below == 70
reject_below == 30
min_required_fields == 3

(* Mutant of RequiresReview: the minimum itself is too few. *)
MutMoreThanRequired(confidences) == Cardinality(DOMAIN confidences) <= min_required_fields

(* Mutant of RequiresReview: the number of fields is not looked at. *)
MutConfidenceOnly(confidences) ==
  \E f \in DOMAIN confidences : confidences[f] < auto_approve_min

(* evaluate_review_routing: the average is compared without dividing. *)
RequiresReview(confidences) ==
  LET fields == DOMAIN confidences
      count == Cardinality(fields)
      total == F!MapThenSumSet(LAMBDA f : confidences[f], fields)
  IN  \/ count < min_required_fields
      \/ \E f \in fields : confidences[f] < review_required_below
      \/ total < reject_below * count
      \/ total < auto_approve_min * count

(* Mutant of HandleValidate: the validator's status is not translated. *)
MutRawStatus(fields) ==
  IF ValidationStatus(fields) = "pass" THEN "succeeded" ELSE ValidationStatus(fields)

(* ValidateStepHandler on the fields of the extract step's output. *)
HandleValidate(fields) ==
  LET status == ValidationStatus(fields) IN
  CASE status = "fail_terminal" -> "failed_terminal"
    [] status = "fail_correctable" -> "escalate"
    [] status = "pass" -> IF RequiresReview([f \in DOMAIN fields |-> Confidence])
                          THEN "escalate" ELSE "succeeded"

(* RouteStepHandler passes everything through. *)
HandleRoute == {Result("succeeded", NoFields)}

(* CompleteStepHandler: the summary is empty when the AI provider fails. *)
HandleComplete == {Result("succeeded", NoFields)}

-----------------------------------------------------------------------------
(* The worker: _process_task and _execute_step_handler *)

(* The succeeded attempts of a step; a human's are created as succeeded. *)
Succeeded(s) ==
  {a.number : a \in {b \in attempts[s] :
     b.origin = "human" \/ result[<<s, b.number>>].status = "succeeded"}}

(* _load_previous_outputs: the step is succeeded, and its latest succeeded     *)
(* attempt has an output_ref, which a human attempt has not.                   *)
HasOutput(s) ==
  /\ steps[s] = "succeeded"
  /\ Succeeded(s) # {}
  /\ Attempt(Max(Succeeded(s)), "system") \in attempts[s]

OutputOf(s) == result[<<s, Max(Succeeded(s))>>].fields

(* get_handler, and the handler's results for a step. *)
Handle(s) ==
  CASE s = ingest -> HandleIngest
    [] s = extract -> HandleExtract
    [] s = validate -> {Result(IF HasOutput(extract) THEN HandleValidate(OutputOf(extract))
                               ELSE "failed_terminal", NoFields)}
    [] s = route -> HandleRoute
    [] s = complete -> HandleComplete

(* An attempt that is not executed again. *)
TerminalResults == {"succeeded", "failed_terminal", "escalate"}

(* A task is delivered; the attempt and the step are read; a terminal attempt  *)
(* is only acknowledged.                                                       *)
ExecuteLoad(t, s, n) ==
  /\ ProcessLoad(t, s, n)
  /\ result[<<s, n>>].status \notin TerminalResults
  /\ delivered' = delivered \cup {<<s, n>>}
  /\ reexecuted' = IF <<s, n>> \in delivered THEN reexecuted + 1 ELSE reexecuted
  /\ reexecuted' <= MaxReexecutions
  /\ UNCHANGED <<docs, result, unread>>

(* The state of the step after an outcome; an escalation is a terminal failure. *)
StepState(status) == IF status = "escalate" THEN "failed_terminal" ELSE status

(* The handler runs, and its outcome is committed to the attempt and the step.  *)
(* An exception or a crash is a Rollback: the task comes again.  That includes  *)
(* an output that the driver does not accept for the Text column output_ref:    *)
(* nothing here says that an execution ever succeeds.                           *)
Execute(t) ==
  LET s == txn[t].s
      n == txn[t].number
  IN
  /\ txn[t].op = "execute"
  /\ \E r \in Handle(s) :
       /\ result' = [result EXCEPT ![<<s, n>>] = r]
       /\ unread' = IF r.status = "failed_retryable" THEN unread \cup {n} ELSE unread
       /\ ProcessOutcome(t, StepState(r.status))
  /\ UNCHANGED <<docs, delivered, reexecuted>>

-----------------------------------------------------------------------------
(* advance_workflow is called with the result of the task's handler. *)
Advance(t) ==
  \/ \E s \in Steps, n \in Numbers :
       /\ result[<<s, n>>].status # "queued"
       /\ AdvanceLoad(t, s, n, result[<<s, n>>].status)
  \/ CountAttempts(t)
  \/ AdvanceSucceeded(t)
  \/ AdvanceRetry(t)
  \/ AdvanceFailed(t)
  \/ AdvanceEscalate(t)

(* A human resolves the case: resume_after_escalation.  Who has claimed it     *)
(* makes no difference to that, and is left to RunLifecycle.                   *)
Human(t) ==
  \/ \E s \in Steps : ResumeLoad(t, s)
  \/ Resume(t)

IntakeNext ==
  \/ Start /\ UNCHANGED <<docs, intake>>
  \/ \E t \in Txns :
       \/ \E s \in Steps, n \in Numbers : ExecuteLoad(t, s, n)
       \/ Execute(t)
       \/ (Advance(t) \/ Human(t) \/ Rollback(t)) /\ UNCHANGED <<docs, intake>>

IntakeSpec == IntakeInit /\ [][IntakeNext]_ivars

-----------------------------------------------------------------------------
(* Properties *)

(* Type correctness of the documents and of the attempts' outcomes. *)
IntakeTypeOK ==
  /\ docs \in Claims
  /\ \A k \in Steps \X Numbers :
       /\ result[k].status \in StepResults \cup {"queued"}
       /\ result[k].fields \in Readings
  /\ unread \subseteq Numbers
  /\ delivered \subseteq Steps \X Numbers
  /\ reexecuted \in 0..MaxReexecutions

HumanDecided(s) == Of(s, "human") # {}

(* What a claim must contain to be accepted without a human, as the validator's *)
(* and the review module's documentation state it.                              *)
Acceptable(fields) ==
  /\ "claim_number" \in DOMAIN fields
  /\ "policy_number" \in DOMAIN fields /\ fields["policy_number"]
  /\ "date_of_loss" \in DOMAIN fields => fields["date_of_loss"]
  /\ Cardinality(DOMAIN fields) >= 3

(* No claim is routed on its own when no reading of its documents is           *)
(* acceptable: a human has decided the validation, whatever is redelivered.    *)
NoSilentApproval ==
  attempts[route] # {} /\ ~HumanDecided(validate) => \E e \in Extractions : Acceptable(e)

(* The extraction is given to a human only after every attempt that the step   *)
(* allows was made, and a payload was unreadable: no redelivered or repeated   *)
(* execution, and no human elsewhere, cuts the retries short.                  *)
ExtractRetried ==
  esc[extract].state # "none" =>
    unread # {} /\ \A n \in 1..max_attempts[extract] : Attempt(n, "system") \in attempts[extract]

(* The AI provider is asked about a document with fewer than three fields.     *)
Enhanced == \E d \in Docs : \E r \in ReadAs(docs[d]) : Cardinality(DOMAIN r) < 3

(* A claim that is acceptable however it is read, that needs no help of the AI *)
(* provider and whose payloads could always be read is never escalated and     *)
(* never fails, whatever is redelivered.  (A failed enhancement is to be       *)
(* flagged for review, which validate.py does not do: nothing is said of it.)  *)
CleanClaimAccepted ==
  unread = {} /\ (run.state = "failed" \/ \E s \in Steps : esc[s].state # "none")
    => Enhanced \/ \E e \in Extractions : ~Acceptable(e)
=============================================================================
