------------------------- MODULE ClaimIntakeProofs -------------------------
(***************************************************************************)
(* ClaimIntake for every set of documents and of transactions, however     *)
(* often tasks are delivered, executed and answered again: it implements   *)
(* RunLifecycle, no claim is approved silently, the extraction is given to *)
(* a human only when every attempt was made, and a claim that is           *)
(* acceptable and readable is not escalated and does not fail.             *)
(***************************************************************************)
EXTENDS ClaimIntake, RunLifecycleProofs

-----------------------------------------------------------------------------
(* The operators *)

(* A set of numbers up to k has a greatest one, which is its Max. *)
LEMMA MaxIn ==
  ASSUME NEW k \in Nat, NEW S \in SUBSET (1..k), S # {}
  PROVE  Max(S) \in S /\ \A y \in S : y <= Max(S)
<1> DEFINE T == {k - x : x \in S}
<1>1. T \subseteq Nat /\ T # {}
  OBVIOUS
<1>2. PICK n \in T : \A m \in T : ~(<<m, n>> \in OpToRel(<, Nat))
  BY <1>1, WFMin, NatLessThanWellFounded
<1>3. PICK x \in S : n = k - x
  BY <1>2
<1>4. ASSUME NEW y \in S PROVE y <= x
  <2>1. k - y \in T /\ k - y \in Nat /\ n \in Nat
    BY <1>1, <1>2
  <2> HIDE DEF T
  <2>2. k - y < n => <<k - y, n>> \in OpToRel(<, Nat)
    BY <2>1 DEF OpToRel
  <2>3. ~(k - y < n)
    BY <1>2, <2>1, <2>2
  <2>4. QED
    BY <1>3, <2>1, <2>3
<1>5. \E z \in S : \A y \in S : y <= z
  BY <1>3, <1>4
<1>6. QED
  BY <1>5 DEF Max

(* The steps of the workflow, and the bound of the attempts' numbers. *)
LEMMA FiveSteps ==
  /\ Steps = {ingest, extract, validate, route, complete}
  /\ N = 5
  /\ max_attempts[extract] = 3
  /\ \E k \in Nat : Numbers \subseteq 1..k
<1>1. N = 5 /\ Steps = 1..5
  BY IntakeAssumption DEF Steps
<1>2. Steps = {ingest, extract, validate, route, complete}
  BY <1>1 DEF ingest, extract, validate, route, complete
<1>3. max_attempts[extract] = 3
  BY IntakeAssumption DEF ClaimMaxAttempts, extract
<1>4. PICK m \in Nat : m = Max({max_attempts[s] : s \in Steps}) + MaxResolutions
  <2>1. PICK x \in 1..10 : x = Max({max_attempts[s] : s \in Steps})
    BY MostAttempts
  <2>2. MaxResolutions \in Nat
    BY LifecycleAssumption
  <2>3. x + MaxResolutions \in Nat
    BY <2>2
  <2>4. QED
    BY <2>1, <2>3
<1>5. Numbers \subseteq 1..(m + 99)
  BY <1>4 DEF Numbers, HumanNumber
<1>6. m + 99 \in Nat
  BY <1>4
<1>7. QED
  BY <1>1, <1>2, <1>3, <1>5, <1>6

(* A document is read as its bytes or as its OCR, which are readings. *)
LEMMA ReadsReadings ==
  ASSUME docs \in Claims, NEW d \in Docs
  PROVE  ReadAs(docs[d]) \subseteq Readings
BY IntakeAssumption DEF ReadAs

(* Every order of the documents has them all. *)
LEMMA OrdersComplete ==
  ASSUME NEW o \in Orders, NEW d \in Docs
  PROVE  \E i \in DOMAIN o : o[i] = d
<1>1. IsFiniteSet(Docs)
  BY IntakeAssumption
<1>2. PICK c \in Nat : c = Cardinality(Docs)
  BY <1>1, FS_CardinalityType
<1>3. o \in [1..c -> Docs] /\ \A i, j \in 1..c : o[i] = o[j] => i = j
  BY <1>2 DEF Orders
<1>4. o \in Injection(1..c, Docs)
  BY <1>3 DEF Injection, IsInjective
<1>5. Cardinality(1..c) = c
  <2>1. Cardinality(1..c) = IF 1 > c THEN 0 ELSE c - 1 + 1
    BY FS_Interval
  <2>2. QED
    BY <2>1
<1>6. o \in Surjection(1..c, Docs)
  BY <1>1, <1>2, <1>4, <1>5, FS_Injection
<1>7. QED
  BY <1>3, <1>6 DEF Surjection

(* What is merged from readings is a reading. *)
LEMMA ExtractionsRead ==
  ASSUME docs \in Claims
  PROVE  Extractions \subseteq Readings
<1> SUFFICES ASSUME NEW t, NEW o \in Orders, \A d \in Docs : t[d] \in Readings
             PROVE  Merged(t, o) \in Readings
  BY ReadsReadings DEF Extractions
<1>1. PICK c \in Nat : c = Cardinality(Docs) /\ DOMAIN o = 1..c /\ \A i \in 1..c : o[i] \in Docs
  <2>1. Cardinality(Docs) \in Nat
    BY IntakeAssumption, FS_CardinalityType
  <2>2. QED
    BY <2>1 DEF Orders
<1>2. \A d \in Docs : DOMAIN t[d] \subseteq Fields /\ \A f \in DOMAIN t[d] : t[d][f] \in BOOLEAN
  BY DEF Readings
<1> DEFINE S == UNION {DOMAIN t[d] : d \in Docs}
<1>3. S \subseteq Fields
  BY <1>2
<1>4. ASSUME NEW f \in S
      PROVE  t[o[Max({i \in DOMAIN o : f \in DOMAIN t[o[i]]})]][f] \in BOOLEAN
  <2> DEFINE with == {i \in DOMAIN o : f \in DOMAIN t[o[i]]}
  <2>1. PICK d \in Docs : f \in DOMAIN t[d]
    BY <1>4
  <2>2. with # {}
    BY <2>1, OrdersComplete
  <2>3. with \in SUBSET (1..c)
    BY <1>1
  <2>4. Max(with) \in with
    BY <2>2, <2>3, MaxIn
  <2>5. QED
    BY <1>1, <1>2, <2>4
<1>5. Merged(t, o) = [f \in S |-> t[o[Max({i \in DOMAIN o : f \in DOMAIN t[o[i]]})]][f]]
  BY DEF Merged
<1>6. Merged(t, o) \in [S -> BOOLEAN]
  BY <1>4, <1>5
<1>7. QED
  BY <1>3, <1>6 DEF Readings

(* The extractor looks for finitely many fields. *)
LEMMA FieldsFinite == IsFiniteSet(Fields)
<1>1. IsFiniteSet({"claim_number"})
  BY FS_Singleton
<1>2. IsFiniteSet({"claim_number"} \cup {"policy_number"})
  BY <1>1, FS_AddElement
<1>3. IsFiniteSet({"claim_number"} \cup {"policy_number"} \cup {"claimant_name"})
  BY <1>2, FS_AddElement
<1>4. IsFiniteSet({"claim_number"} \cup {"policy_number"} \cup {"claimant_name"} \cup {"date_of_loss"})
  BY <1>3, FS_AddElement
<1>5. IsFiniteSet({"claim_number"} \cup {"policy_number"} \cup {"claimant_name"} \cup {"date_of_loss"}
                    \cup {"claim_type"})
  BY <1>4, FS_AddElement
<1>6. Fields = {"claim_number"} \cup {"policy_number"} \cup {"claimant_name"} \cup {"date_of_loss"}
                 \cup {"claim_type"}
  BY DEF Fields
<1>7. QED
  BY <1>5, <1>6

(* A claim that the validation lets pass is acceptable. *)
LEMMA PassedIsAcceptable ==
  ASSUME NEW fields \in Readings, HandleValidate(fields) = "succeeded"
  PROVE  Acceptable(fields)
<1>1. ValidationStatus(fields) = "pass" /\ ~RequiresReview([f \in DOMAIN fields |-> Confidence])
  BY DEF HandleValidate, ValidationStatus
<1>2. /\ {"claim_number", "policy_number"} \subseteq DOMAIN fields
      /\ \A f \in {"policy_number", "date_of_loss"} \cap DOMAIN fields : fields[f]
  BY <1>1 DEF ValidationStatus
<1>3. DOMAIN fields \subseteq Fields
  BY DEF Readings
<1>4. IsFiniteSet(Fields)
  BY FieldsFinite
<1>5. Cardinality(DOMAIN fields) \in Nat
  BY <1>3, <1>4, FS_Subset, FS_CardinalityType
<1>6. DOMAIN [f \in DOMAIN fields |-> Confidence] = DOMAIN fields
  OBVIOUS
<1>7. ~(Cardinality(DOMAIN fields) < min_required_fields)
  BY <1>1, <1>6 DEF RequiresReview
<1>8. Cardinality(DOMAIN fields) >= 3
  BY <1>5, <1>7 DEF min_required_fields
<1>9. QED
  BY <1>2, <1>8 DEF Acceptable

(* The sum of the confidences of the fields in S. *)
SumOf(g, S) == F!MapThenSumSet(LAMBDA f : g[f], S)

(* The sum of equal confidences is a product: the recursion of the fold over   *)
(* the subsets has one solution, whose least exception would be a next one.    *)
LEMMA SumOfConfidences ==
  ASSUME NEW S, IsFiniteSet(S), NEW g, \A x \in S : g[x] = Confidence
  PROVE  SumOf(g, S) = Confidence * Cardinality(S)
<1> DEFINE first(s) == CHOOSE x \in s : TRUE
           Sums(h) == [s \in SUBSET S |-> IF s = {} THEN 0 ELSE g[first(s)] + h[s \ {first(s)}]]
           sum == CHOOSE h : h = Sums(h)
           product == [s \in SUBSET S |-> Confidence * Cardinality(s)]
<1>1. SumOf(g, S) = sum[S]
  BY DEF SumOf, F!MapThenSumSet, F!MapThenFoldSet
<1>2. ASSUME NEW s \in SUBSET S, s # {}
      PROVE  /\ first(s) \in s /\ g[first(s)] = Confidence
             /\ s \ {first(s)} \in SUBSET S
             /\ Cardinality(s) \in Nat /\ Cardinality(s \ {first(s)}) \in Nat
             /\ Cardinality(s) = Cardinality(s \ {first(s)}) + 1
  <2>1. first(s) \in s
    BY <1>2
  <2> HIDE DEF first
  <2>2. IsFiniteSet(s)
    BY FS_Subset
  <2>3. IsFiniteSet(s \ {first(s)}) /\ Cardinality(s \ {first(s)}) = Cardinality(s) - 1
    BY <2>1, <2>2, FS_RemoveElement
  <2>4. Cardinality(s) \in Nat /\ Cardinality(s \ {first(s)}) \in Nat
    BY <2>2, <2>3, FS_CardinalityType
  <2>5. QED
    BY <2>1, <2>3, <2>4
<1>3. Cardinality({}) = 0
  BY FS_EmptySet
<1> HIDE DEF first
<1>4. product = Sums(product)
  <2>1. ASSUME NEW s \in SUBSET S
        PROVE  product[s] = IF s = {} THEN 0 ELSE g[first(s)] + product[s \ {first(s)}]
    <3>1. CASE s = {}
      BY <1>3, <3>1 DEF Confidence
    <3>2. CASE s # {}
      <4>1. product[s] = Confidence * Cardinality(s)
        OBVIOUS
      <4>2. product[s \ {first(s)}] = Confidence * Cardinality(s \ {first(s)})
        BY <1>2, <3>2
      <4> HIDE DEF product
      <4>3. QED
        BY <1>2, <3>2, <4>1, <4>2 DEF Confidence
    <3>3. QED
      BY <3>1, <3>2
  <2>2. QED
    BY <2>1
<1>5. sum = Sums(sum)
  <2> HIDE DEF product, Sums
  <2>1. QED
    BY <1>4
<1> HIDE DEF sum, product
<1>6. \A s \in SUBSET S : sum[s] = IF s = {} THEN 0 ELSE g[first(s)] + sum[s \ {first(s)}]
  BY <1>5
<1> DEFINE Differ == {s \in SUBSET S : sum[s] # Confidence * Cardinality(s)}
           T == {Cardinality(s) : s \in Differ}
<1>7. Differ = {}
  <2> SUFFICES ASSUME Differ # {} PROVE FALSE
    OBVIOUS
  <2>1. \A s \in Differ : IsFiniteSet(s) /\ Cardinality(s) \in Nat
    BY FS_Subset, FS_CardinalityType
  <2>2. T \subseteq Nat /\ T # {}
    BY <2>1
  <2> HIDE DEF T
  <2>3. PICK n \in T : \A m \in T : ~(<<m, n>> \in OpToRel(<, Nat))
    BY <2>2, WFMin, NatLessThanWellFounded
  <2>4. PICK s \in Differ : n = Cardinality(s)
    BY <2>3 DEF T
  <2>5. s # {}
    <3>1. ASSUME s = {} PROVE FALSE
      BY <1>3, <1>6, <3>1 DEF Confidence
    <3>2. QED
      BY <3>1
  <2>6. s \ {first(s)} \notin Differ
    <3> SUFFICES ASSUME s \ {first(s)} \in Differ PROVE FALSE
      OBVIOUS
    <3>1. PICK m \in T : m = Cardinality(s \ {first(s)})
      BY DEF T
    <3>2. m \in Nat /\ n \in Nat /\ m < n
      BY <1>2, <2>2, <2>4, <2>5, <3>1
    <3>3. <<m, n>> \in OpToRel(<, Nat)
      BY <3>2 DEF OpToRel
    <3>4. QED
      BY <2>3, <3>1, <3>3
  <2>7. sum[s \ {first(s)}] = Confidence * Cardinality(s \ {first(s)})
    BY <1>2, <2>5, <2>6
  <2>8. sum[s] = Confidence + sum[s \ {first(s)}]
    BY <1>2, <1>6, <2>5
  <2>9. sum[s] = Confidence * Cardinality(s)
    BY <1>2, <2>5, <2>7, <2>8 DEF Confidence
  <2>10. QED
    BY <2>4, <2>9
<1>8. sum[S] = Confidence * Cardinality(S)
  BY <1>7
<1>9. QED
  BY <1>1, <1>8

(* An acceptable claim passes the validation, and its confidences need no      *)
(* review.                                                                     *)
LEMMA AcceptablePasses ==
  ASSUME NEW fields \in Readings, Acceptable(fields)
  PROVE  HandleValidate(fields) = "succeeded"
<1> DEFINE S == DOMAIN fields
           g == [f \in S |-> Confidence]
<1>1. IsFiniteSet(S) /\ Cardinality(S) \in Nat /\ Cardinality(S) >= 3
  <2>1. S \subseteq Fields
    BY DEF Readings
  <2>2. QED
    BY <2>1, FieldsFinite, FS_Subset, FS_CardinalityType DEF Acceptable
<1>2. ValidationStatus(fields) = "pass"
  BY DEF ValidationStatus, Acceptable
<1>3. DOMAIN g = S /\ \A f \in S : g[f] = Confidence
  OBVIOUS
<1> HIDE DEF S, g
<1>4. SumOf(g, S) = Confidence * Cardinality(S)
  BY <1>1, <1>3, SumOfConfidences
<1>5. ~RequiresReview(g)
  <2>1. PICK total : total = SumOf(g, S)
    OBVIOUS
  <2>2. /\ ~(Cardinality(S) < min_required_fields)
        /\ ~\E f \in S : g[f] < review_required_below
        /\ ~(total < reject_below * Cardinality(S))
        /\ ~(total < auto_approve_min * Cardinality(S))
    BY <1>1, <1>3, <1>4, <2>1
    DEF Confidence, min_required_fields, review_required_below, reject_below, auto_approve_min
  <2>3. RequiresReview(g) <=> \/ Cardinality(S) < min_required_fields
                              \/ \E f \in S : g[f] < review_required_below
                              \/ total < reject_below * Cardinality(S)
                              \/ total < auto_approve_min * Cardinality(S)
    BY <1>3, <2>1 DEF RequiresReview, SumOf
  <2>4. QED
    BY <2>2, <2>3
<1>6. QED
  BY <1>2, <1>5 DEF HandleValidate, g, S

-----------------------------------------------------------------------------
(* The attempts that a step inserts *)

(* The transactions that answer a task. *)
AnswerOps == StepResults \cup {"retry"}

(* A task is the outbox row of a system attempt. *)
Task(s, n) == Attempt(n, "system") \in attempts[s]

(* The fields of a transaction that answers a task. *)
LEMMA AnswerFields ==
  ASSUME IInv, NEW t \in Txns, txn[t].op \in AnswerOps
  PROVE  txn[t].s \in Steps /\ txn[t].n \in Numbers /\ txn[t].run \in RunRead
BY Kinds DEF AnswerOps, AdvanceTxn, RetryTxn

(* One attempt is inserted, for step s. *)
Adds(s, a) == \A r \in Steps : attempts'[r] = IF r = s THEN attempts[r] \cup {a} ELSE attempts[r]

(* The attempts that resume_after_escalation inserts for step s. *)
AddsBoth(s, k) ==
  \A r \in Steps :
    attempts'[r] = IF r = s THEN attempts[r] \cup {Attempt(k, "human")}
                   ELSE IF r = s + 1 THEN attempts[r] \cup {Attempt(1, "system")}
                   ELSE attempts[r]

(* The writers of attempts, each with the attempts it inserts. *)
Starts == Start /\ Adds(1, Attempt(1, "system")) /\ \A r \in Steps : attempts[r] = {}

Continued(t) ==
  /\ AdvanceSucceeded(t) /\ txn[t].s \in Steps /\ txn[t].s + 1 \in Steps
  /\ ~Taken(txn[t].s + 1, 1) /\ Adds(txn[t].s + 1, Attempt(1, "system"))

Retried(t) ==
  /\ AdvanceRetry(t) /\ txn[t].s \in Steps /\ attempts[txn[t].s] # {}
  /\ ~Taken(txn[t].s, txn[t].count + 1) /\ Adds(txn[t].s, Attempt(txn[t].count + 1, "system"))

Resolves(t) ==
  /\ Resolve(t) /\ txn[t].s \in Steps /\ attempts[txn[t].s] # {}
  /\ ~Taken(txn[t].s, HumanNumber) /\ Adds(txn[t].s, Attempt(HumanNumber, "human"))

Resumed(t) ==
  /\ Resume(t) /\ txn[t].s \in Steps /\ attempts[txn[t].s] # {}
  /\ \E k \in Numbers :
       /\ k = Cardinality(attempts[txn[t].s]) + 1
       /\ ~Taken(txn[t].s, k)
       /\ \/ txn[t].s = N /\ Adds(txn[t].s, Attempt(k, "human"))
          \/ txn[t].s < N /\ ~Taken(txn[t].s + 1, 1) /\ AddsBoth(txn[t].s, k)

(* Every step that inserts attempts. *)
LEMMA AttemptWrites ==
  ASSUME IInv, [Next]_vars
  PROVE  \/ \A r \in Steps : attempts'[r] = attempts[r]
         \/ Starts
         \/ \E t \in Txns : Continued(t) \/ Retried(t) \/ Resolves(t) \/ Resumed(t)
<1>1. attempts \in [Steps -> SUBSET AttemptType]
  BY DEF IInv, TypeOK, AttemptType
<1>2. CASE UNCHANGED attempts
  BY <1>2
<1>3. CASE Start
  <2>1. \A r \in Steps : attempts[r] = {}
    BY <1>3 DEF Start, IInv, Fresh
  <2>2. Adds(1, Attempt(1, "system"))
    BY <1>1, <1>3, <2>1 DEF Start, Adds
  <2>3. QED
    BY <1>3, <2>1, <2>2 DEF Starts
<1>4. ASSUME NEW t \in Txns, AdvanceSucceeded(t)
      PROVE  UNCHANGED attempts \/ Continued(t)
  <2>1. PICK s \in Steps : s = txn[t].s
    BY <1>4, AnswerFields DEF AdvanceSucceeded, AnswerOps, StepResults
  <2>2. CASE Continues(s, txn[t].run)
    <3>1. s + 1 \in Steps
      BY <2>2, NextStep DEF Continues
    <3>2. Adds(s + 1, Attempt(1, "system"))
      BY <1>1, <2>2 DEF Adds, Continues
    <3>3. QED
      BY <1>4, <2>1, <2>2, <3>1, <3>2 DEF Continued, Continues
  <2>3. QED
    BY <1>4, <2>1, <2>2 DEF AdvanceSucceeded, Completes
<1>5. ASSUME NEW t \in Txns, AdvanceRetry(t)
      PROVE  Retried(t)
  <2>1. txn[t].s \in Steps /\ attempts[txn[t].s] # {}
    BY <1>5, AnswerFields DEF AdvanceRetry, AnswerOps, IInv, Started, StepOps
  <2>2. Adds(txn[t].s, Attempt(txn[t].count + 1, "system"))
    BY <1>1, <1>5 DEF Adds, AdvanceRetry
  <2>3. QED
    BY <1>5, <2>1, <2>2 DEF Retried, AdvanceRetry
<1>6. ASSUME NEW t \in Txns, Resolve(t)
      PROVE  Resolves(t)
  <2>1. txn[t].s \in Steps /\ attempts[txn[t].s] # {} /\ ~Taken(txn[t].s, HumanNumber)
    BY <1>6, Holder DEF Resolve, IInv, Started, LockHeldOnce
  <2>2. Adds(txn[t].s, Attempt(HumanNumber, "human"))
    BY <1>1, <1>6 DEF Adds, Resolve
  <2>3. QED
    BY <1>6, <2>1, <2>2 DEF Resolves
<1>7. ASSUME NEW t \in Txns, Resume(t)
      PROVE  Resumed(t)
  <2>1. PICK s \in Steps : s = txn[t].s /\ attempts[s] # {}
    BY <1>7, Kinds DEF Resume, ResumeTxn, IInv, Started, StepOps
  <2>2. PICK k \in Numbers : k = Cardinality(attempts[s]) + 1
    BY <1>7, <2>1, ResumeNumber DEF Resume
  <2>3. s # s + 1
    BY DEF Steps
  <2>4. \/ s = N /\ attempts' = [attempts EXCEPT ![s] = @ \cup {Attempt(k, "human")}]
        \/ /\ s < N /\ ~Taken(s + 1, 1)
           /\ attempts' = [[attempts EXCEPT ![s] = @ \cup {Attempt(k, "human")}]
                             EXCEPT ![s + 1] = @ \cup {Attempt(1, "system")}]
    BY <1>7, <2>1, <2>2 DEF Resume
  <2>5. \/ s = N /\ Adds(s, Attempt(k, "human"))
        \/ s < N /\ ~Taken(s + 1, 1) /\ AddsBoth(s, k)
    <3>1. CASE s = N /\ attempts' = [attempts EXCEPT ![s] = @ \cup {Attempt(k, "human")}]
      BY <1>1, <3>1 DEF Adds
    <3>2. CASE /\ s < N /\ ~Taken(s + 1, 1)
               /\ attempts' = [[attempts EXCEPT ![s] = @ \cup {Attempt(k, "human")}]
                                 EXCEPT ![s + 1] = @ \cup {Attempt(1, "system")}]
      BY <1>1, <2>3, <3>2 DEF AddsBoth
    <3>3. QED
      BY <2>4, <3>1, <3>2
  <2>6. ~Taken(s, k)
    BY <1>7, <2>1, <2>2 DEF Resume
  <2>7. QED
    BY <1>7, <2>1, <2>2, <2>5, <2>6 DEF Resumed
<1>8. \/ UNCHANGED attempts
      \/ Start
      \/ \E t \in Txns : AdvanceSucceeded(t) \/ Resume(t) \/ AdvanceRetry(t) \/ Resolve(t)
  BY ZenonT(60) DEF Next, Process, ProcessLoad, ProcessOutcome, Orchestrate, Route, Rollback, Claim, AdvanceLoad, CountAttempts,
         AdvanceFailed, AdvanceEscalate, ResumeLoad, CancelLoad, CancelWorkflow, CheckClaim, LockCase, Reject, Cancel, rows, vars
<1>9. QED
  BY <1>2, <1>3, <1>4, <1>5, <1>6, <1>7, <1>8

(* The unique constraint: an attempt is known by its step and its number. *)
UniqueNumbers == \A s \in Steps : \A a, b \in attempts[s] : a.number = b.number => a = b

(* The unique constraint keeps the numbers of a step apart. *)
LEMMA NextUnique ==
  ASSUME IInv, UniqueNumbers, [Next]_vars
  PROVE  UniqueNumbers'
<1> DEFINE Distinct(S) == \A a, b \in S : a.number = b.number => a = b
<1>1. CASE \A r \in Steps : attempts'[r] = attempts[r]
  BY <1>1 DEF UniqueNumbers
<1>2. ASSUME NEW r \in Steps, NEW s, NEW n, NEW origin, ~Taken(s, n),
             attempts'[r] = IF r = s THEN attempts[r] \cup {Attempt(n, origin)} ELSE attempts[r]
      PROVE  Distinct(attempts'[r])
  <2>1. Attempt(n, origin).number = n
    BY DEF Attempt
  <2>2. \A a \in attempts[s] : a.number # n
    BY <1>2 DEF Taken
  <2>3. QED
    BY <1>2, <2>1, <2>2 DEF UniqueNumbers
<1>3. ASSUME NEW s \in Steps, NEW n, NEW origin, ~Taken(s, n), Adds(s, Attempt(n, origin))
      PROVE  UniqueNumbers'
  <2> SUFFICES ASSUME NEW r \in Steps PROVE Distinct(attempts'[r])
    BY DEF UniqueNumbers
  <2>1. attempts'[r] = IF r = s THEN attempts[r] \cup {Attempt(n, origin)} ELSE attempts[r]
    BY <1>3 DEF Adds
  <2> HIDE DEF Distinct
  <2>2. QED
    BY <1>2, <1>3, <2>1
<1>4. CASE Starts
  <2>1. 1 \in Steps
    BY LifecycleAssumption DEF Steps
  <2>2. ~Taken(1, 1)
    BY <1>4, <2>1 DEF Starts, Taken
  <2>3. QED
    BY <1>3, <1>4, <2>1, <2>2 DEF Starts
<1>5. ASSUME NEW t \in Txns, Continued(t) \/ Retried(t) \/ Resolves(t)
      PROVE  UniqueNumbers'
  BY <1>3, <1>5 DEF Continued, Retried, Resolves
<1>6. ASSUME NEW t \in Txns, Resumed(t)
      PROVE  UniqueNumbers'
  <2>1. PICK s \in Steps, k \in Numbers :
          /\ s = txn[t].s /\ ~Taken(s, k)
          /\ \/ s = N /\ Adds(s, Attempt(k, "human"))
             \/ s < N /\ ~Taken(s + 1, 1) /\ AddsBoth(s, k)
    BY <1>6 DEF Resumed
  <2>2. CASE Adds(s, Attempt(k, "human"))
    BY <1>3, <2>1, <2>2
  <2>3. CASE s < N /\ ~Taken(s + 1, 1) /\ AddsBoth(s, k)
    <3> SUFFICES ASSUME NEW r \in Steps PROVE Distinct(attempts'[r])
      BY DEF UniqueNumbers
    <3>1. s + 1 \in Steps /\ s # s + 1
      BY <2>3, NextStep DEF Steps
    <3> HIDE DEF Distinct
    <3>2. CASE r = s
      <4>1. attempts'[r] = IF r = s THEN attempts[r] \cup {Attempt(k, "human")} ELSE attempts[r]
        BY <2>3, <3>2 DEF AddsBoth
      <4>2. QED
        BY <1>2, <2>1, <4>1
    <3>3. CASE r # s
      <4>1. attempts'[r] = IF r = s + 1 THEN attempts[r] \cup {Attempt(1, "system")} ELSE attempts[r]
        BY <2>3, <3>3 DEF AddsBoth
      <4>2. QED
        BY <1>2, <2>3, <3>1, <4>1
    <3>4. QED
      BY <3>2, <3>3
  <2>4. QED
    BY <2>1, <2>2, <2>3
<1>7. QED
  BY <1>1, <1>4, <1>5, <1>6, AttemptWrites

-----------------------------------------------------------------------------
(* The steps of the intake *)

(* A write of a case's state. *)
LEMMA CaseWritten ==
  ASSUME IInv, NEW s \in Steps, NEW state, esc' = [esc EXCEPT ![s].state = state]
  PROVE  esc'[s].state = state /\ \A r \in Steps : r # s => esc'[r] = esc[r]
<1>1. esc \in [Steps -> [state : CaseStates, by : Actors \cup {None}]]
  BY DEF IInv, TypeOK, CaseStates
<1>2. [esc[s] EXCEPT !.state = state] = [state |-> state, by |-> esc[s].by]
  BY <1>1
<1>3. esc' = [esc EXCEPT ![s] = [state |-> state, by |-> esc[s].by]]
  BY <1>1, <1>2
<1>4. QED
  BY <1>1, <1>3

Outcomes == [status : StepResults \cup {"queued"}, fields : Readings]

(* The documents' and the attempts' records. *)
Records ==
  /\ docs \in Claims
  /\ result \in [Steps \X Numbers -> Outcomes]
  /\ unread \subseteq Numbers
  /\ delivered \subseteq Steps \X Numbers
  /\ reexecuted \in 0..MaxReexecutions

(* A step is one of the lifecycle, which leaves the records, or an execution's. *)
LEMMA IntakeSteps ==
  ASSUME Records, [IntakeNext]_ivars
  PROVE  \/ [Next]_vars /\ UNCHANGED <<docs, intake>>
         \/ \E t \in Txns, s \in Steps, n \in Numbers : ExecuteLoad(t, s, n)
         \/ \E t \in Txns : Execute(t)
<1>1. ASSUME NEW t \in Txns, NEW s \in Steps, NEW n \in Numbers, result[<<s, n>>].status # "queued",
             AdvanceLoad(t, s, n, result[<<s, n>>].status)
      PROVE  Next
  <2>1. result[<<s, n>>].status \in StepResults
    BY <1>1 DEF Records, Outcomes
  <2>2. QED
    BY <1>1, <2>1 DEF Next, Orchestrate
<1>2. ASSUME NEW t \in Txns, Advance(t) \/ Human(t) \/ Rollback(t)
      PROVE  Next
  BY <1>1, <1>2 DEF Advance, Human, Next, Orchestrate
<1>3. CASE UNCHANGED ivars
  BY <1>3 DEF ivars
<1>4. CASE Start /\ UNCHANGED <<docs, intake>>
  BY <1>4 DEF Next
<1>5. CASE \E t \in Txns : (Advance(t) \/ Human(t) \/ Rollback(t)) /\ UNCHANGED <<docs, intake>>
  BY <1>2, <1>5
<1>6. QED
  BY <1>3, <1>4, <1>5 DEF IntakeNext

(* A task that is loaded leaves the rows and the outcomes alone. *)
LEMMA LoadWaits ==
  ASSUME NEW t \in Txns, NEW s \in Steps, NEW n \in Numbers, ExecuteLoad(t, s, n)
  PROVE  UNCHANGED <<rows, redelivered, docs, result, unread>>
BY DEF ExecuteLoad, ProcessLoad

(* The claim could be read as one that is acceptable. *)
Approvable == \E e \in Extractions : Acceptable(e)

(* What the outcomes of the attempts say, by step. *)
ResultsSound ==
  \A n \in Numbers :
    /\ result[<<extract, n>>].status \in {"queued", "failed_retryable", "succeeded"}
    /\ result[<<extract, n>>].status = "succeeded" => result[<<extract, n>>].fields \in Extractions
    /\ result[<<validate, n>>].status = "succeeded" => Approvable
    /\ \A s \in Steps : s \notin {extract, validate} => result[<<s, n>>].status \in {"queued", "succeeded"}

(* The output of the extraction is that of an attempt that succeeded. *)
LEMMA OutputExtracted ==
  ASSUME IInv, Records, UniqueNumbers, ResultsSound, HasOutput(extract)
  PROVE  OutputOf(extract) \in Extractions
<1>1. PICK k \in Nat : Numbers \subseteq 1..k
  BY FiveSteps
<1>2. extract \in Steps
  BY FiveSteps
<1>3. attempts[extract] \subseteq AttemptType
  BY <1>2 DEF IInv, TypeOK, AttemptType
<1>4. Succeeded(extract) \in SUBSET (1..k) /\ Succeeded(extract) # {}
  BY <1>1, <1>3 DEF Succeeded, AttemptType, HasOutput
<1>5. PICK m \in Succeeded(extract) : m = Max(Succeeded(extract))
  BY <1>4, MaxIn
<1>6. PICK b \in attempts[extract] :
        b.number = m /\ (b.origin = "human" \/ result[<<extract, b.number>>].status = "succeeded")
  BY <1>5 DEF Succeeded
<1>7. Attempt(m, "system") \in attempts[extract] /\ Attempt(m, "system").number = m
  BY <1>5 DEF HasOutput, Attempt
<1>8. b = Attempt(m, "system")
  BY <1>2, <1>6, <1>7 DEF UniqueNumbers
<1>9. b.origin # "human"
  BY <1>8 DEF Attempt
<1>10. m \in Numbers /\ result[<<extract, m>>].status = "succeeded"
  BY <1>3, <1>6, <1>9 DEF AttemptType
<1>11. QED
  BY <1>5, <1>10 DEF ResultsSound, OutputOf

(* What the handlers return. *)
LEMMA Handled ==
  ASSUME IInv, Records, UniqueNumbers, ResultsSound, NEW s \in Steps, NEW r \in Handle(s)
  PROVE  /\ r \in [status : StepResults, fields : Readings]
         /\ s = extract => /\ r.status \in {"failed_retryable", "succeeded"}
                           /\ r.status = "succeeded" => r.fields \in Extractions
         /\ s = validate => /\ r.status \in {"succeeded", "failed_terminal", "escalate"}
                            /\ r.status = "succeeded" => HasOutput(extract) /\ Approvable
         /\ s \notin {extract, validate} => r.status = "succeeded"
<1>1. NoFields \in Readings
  <2>1. NoFields \in [{} -> BOOLEAN] /\ {} \in SUBSET Fields
    BY DEF NoFields
  <2>2. QED
    BY <2>1 DEF Readings
<1>2. Extractions \subseteq Readings
  BY ExtractionsRead DEF Records
<1>3. CASE s = extract
  <2>1. r \in HandleExtract
    BY <1>3 DEF Handle, ingest, extract, validate, route, complete
  <2>2. r = Result("failed_retryable", NoFields) \/ \E e \in Extractions : r = Result("succeeded", e)
    BY <2>1 DEF HandleExtract
  <2>3. QED
    BY <1>1, <1>2, <1>3, <2>2 DEF Result, StepResults, extract, validate
<1>4. CASE s = validate
  <2>1. r = Result(IF HasOutput(extract) THEN HandleValidate(OutputOf(extract)) ELSE "failed_terminal", NoFields)
    BY <1>4 DEF Handle, ingest, extract, validate, route, complete
  <2>2. PICK status : /\ r = Result(status, NoFields)
                      /\ status = IF HasOutput(extract) THEN HandleValidate(OutputOf(extract)) ELSE "failed_terminal"
    BY <2>1
  <2>3. \A fields : HandleValidate(fields) \in {"succeeded", "failed_terminal", "escalate"}
    BY DEF HandleValidate, ValidationStatus
  <2>4. status \in {"succeeded", "failed_terminal", "escalate"}
    BY <2>2, <2>3
  <2>5. status = "succeeded" => HasOutput(extract) /\ Approvable
    BY <1>2, <2>2, OutputExtracted, PassedIsAcceptable DEF Approvable
  <2>6. r.status = status /\ r = [status |-> status, fields |-> NoFields]
    BY <2>2 DEF Result
  <2>7. QED
    BY <1>1, <1>4, <2>4, <2>5, <2>6 DEF StepResults, extract, validate
<1>5. CASE s \notin {extract, validate}
  <2>1. s \in {ingest, route, complete}
    BY <1>5, FiveSteps
  <2>2. r = Result("succeeded", NoFields)
    BY <2>1 DEF Handle, HandleIngest, HandleRoute, HandleComplete, ingest, extract, validate, route, complete
  <2>3. QED
    BY <1>1, <1>5, <2>2 DEF Result, StepResults
<1>6. QED
  BY <1>3, <1>4, <1>5

(* An execution writes the outcome of one attempt. *)
LEMMA ExecuteWrites ==
  ASSUME IInv, Records, UniqueNumbers, ResultsSound, NEW t \in Txns, Execute(t)
  PROVE  \E s \in Steps, n \in Numbers : \E r \in Handle(s) :
           /\ s = txn[t].s /\ n = txn[t].number
           /\ result'[<<s, n>>] = r
           /\ \A k \in Steps \X Numbers : k # <<s, n>> => result'[k] = result[k]
           /\ result' \in [Steps \X Numbers -> Outcomes]
           /\ unread' = IF r.status = "failed_retryable" THEN unread \cup {n} ELSE unread
           /\ StepState(r.status) \in {"succeeded", "failed_retryable", "failed_terminal"}
           /\ ProcessOutcome(t, StepState(r.status))
           /\ UNCHANGED <<docs, delivered, reexecuted>>
<1>1. PICK s \in Steps, n \in Numbers : s = txn[t].s /\ n = txn[t].number
  BY Kinds DEF Execute, ExecuteTxn
<1>2. PICK r \in Handle(s) :
        /\ result' = [result EXCEPT ![<<s, n>>] = r]
        /\ unread' = IF r.status = "failed_retryable" THEN unread \cup {n} ELSE unread
        /\ ProcessOutcome(t, StepState(r.status))
  BY <1>1 DEF Execute
<1>3. r \in [status : StepResults, fields : Readings]
  BY Handled
<1>4. StepState(r.status) \in {"succeeded", "failed_retryable", "failed_terminal"}
  BY <1>3 DEF StepState, StepResults
<1>5. r \in Outcomes
  BY <1>3 DEF Outcomes
<1>6. /\ result' \in [Steps \X Numbers -> Outcomes]
      /\ result'[<<s, n>>] = r
      /\ \A k \in Steps \X Numbers : k # <<s, n>> => result'[k] = result[k]
  BY <1>2, <1>5 DEF Records
<1>7. UNCHANGED <<docs, delivered, reexecuted>>
  BY DEF Execute
<1>8. QED
  BY <1>1, <1>2, <1>4, <1>6, <1>7

(* Every step of the intake is one of the lifecycle. *)
LEMMA IntakeImplements ==
  ASSUME IInv, Records, UniqueNumbers, ResultsSound, [IntakeNext]_ivars
  PROVE  [Next]_vars
<1>1. ASSUME NEW t \in Txns, NEW s \in Steps, NEW n \in Numbers, ExecuteLoad(t, s, n)
      PROVE  Next
  BY <1>1 DEF ExecuteLoad, Next, Process
<1>2. ASSUME NEW t \in Txns, Execute(t)
      PROVE  Next
  <2>1. PICK state \in {"succeeded", "failed_retryable", "failed_terminal"} : ProcessOutcome(t, state)
    BY <1>2, ExecuteWrites
  <2>2. QED
    BY <2>1 DEF Next, Process
<1>3. QED
  BY <1>1, <1>2, IntakeSteps

(* A transaction that answers a task was there, carries the result of the      *)
(* task's handler, or has counted the attempts of a task to be tried again.    *)
LEMMA IntakeTxn ==
  ASSUME IInv, Records, [IntakeNext]_ivars, NEW u \in Txns, txn'[u].op \in AnswerOps
  PROVE  \/ txn'[u] = txn[u]
         \/ \E s \in Steps, n \in Numbers :
              /\ result[<<s, n>>].status # "queued" /\ AdvanceLoad(u, s, n, result[<<s, n>>].status)
              /\ txn'[u].op = result[<<s, n>>].status
              /\ txn'[u].s = s /\ txn'[u].n = n /\ txn'[u].run = run
              /\ UNCHANGED <<rows, docs, intake>>
         \/ /\ txn[u].op = "failed_retryable" /\ UNCHANGED <<rows, docs, intake>>
            /\ txn'[u].s = txn[u].s /\ txn'[u].n = txn[u].n /\ txn'[u].run = txn[u].run
            /\ \/ /\ txn'[u].op = "retry" /\ txn'[u].count = Cardinality(attempts[txn[u].s])
               \/ /\ txn'[u].op = "failed_terminal"
                  /\ ~(Cardinality(attempts[txn[u].s]) < max_attempts[txn[u].s])
<1>1. txn \in [Txns -> Transactions]
  BY DEF IInv, TxnTypeOK
<1>2. NoTxn.op \notin AnswerOps
  BY DEF NoTxn, AnswerOps, StepResults
<1>3. ASSUME NEW t \in Txns, Done(t) PROVE txn'[u] = txn[u]
  BY <1>1, <1>2, <1>3 DEF Done
<1>4. ASSUME NEW t \in Txns, NEW s \in Steps, ResumeLoad(t, s) PROVE txn'[u] = txn[u]
  <2>1. "resume" \notin AnswerOps
    BY DEF AnswerOps, StepResults
  <2>2. QED
    BY <1>1, <1>4, <2>1 DEF ResumeLoad, Open
<1>5. ASSUME NEW t \in Txns, NEW s \in Steps, NEW n \in Numbers, result[<<s, n>>].status # "queued",
             AdvanceLoad(t, s, n, result[<<s, n>>].status)
      PROVE  \/ txn'[u] = txn[u]
             \/ /\ u = t /\ txn'[u].op = result[<<s, n>>].status
                /\ txn'[u].s = s /\ txn'[u].n = n /\ txn'[u].run = run /\ UNCHANGED rows
  BY <1>1, <1>5 DEF AdvanceLoad, Open
<1>6. ASSUME NEW t \in Txns, CountAttempts(t)
      PROVE  \/ txn'[u] = txn[u]
             \/ /\ u = t /\ txn[u].op = "failed_retryable" /\ UNCHANGED rows
                /\ txn'[u].s = txn[u].s /\ txn'[u].n = txn[u].n /\ txn'[u].run = txn[u].run
                /\ \/ /\ txn'[u].op = "retry" /\ txn'[u].count = Cardinality(attempts[txn[u].s])
                   \/ /\ txn'[u].op = "failed_terminal"
                      /\ ~(Cardinality(attempts[txn[u].s]) < max_attempts[txn[u].s])
  <2>1. PICK x \in AdvanceTxn : x = txn[t]
    BY <1>6, Kinds DEF CountAttempts, StepResults
  <2>2. PICK y : /\ txn' = [txn EXCEPT ![t] = y]
                 /\ \/ y = [op |-> "retry", s |-> x.s, n |-> x.n, run |-> x.run, step |-> x.step,
                            count |-> Cardinality(attempts[x.s])]
                    \/ /\ y = [x EXCEPT !.op = "failed_terminal"]
                       /\ ~(Cardinality(attempts[x.s]) < max_attempts[x.s])
    BY <1>1, <1>6, <2>1 DEF CountAttempts
  <2>3. /\ y.s = x.s /\ y.n = x.n /\ y.run = x.run
        /\ \/ y.op = "retry" /\ y.count = Cardinality(attempts[x.s])
           \/ y.op = "failed_terminal" /\ ~(Cardinality(attempts[x.s]) < max_attempts[x.s])
    BY <2>1, <2>2 DEF AdvanceTxn
  <2>4. x.op = "failed_retryable" /\ UNCHANGED rows
    BY <1>6, <2>1 DEF CountAttempts
  <2>5. QED
    BY <1>1, <2>1, <2>2, <2>3, <2>4
<1>7. ASSUME NEW t \in Txns, NEW s \in Steps, NEW n \in Numbers, ExecuteLoad(t, s, n)
       PROVE  txn'[u] = txn[u]
  <2>1. "execute" \notin AnswerOps
    BY DEF AnswerOps, StepResults
  <2>2. QED
    BY <1>1, <1>7, <2>1 DEF ExecuteLoad, ProcessLoad, Open
<1>8. CASE UNCHANGED txn
  BY <1>8
<1>9. \/ UNCHANGED txn
      \/ \E t \in Txns : Done(t)
      \/ \E t \in Txns, s \in Steps, n \in Numbers : ExecuteLoad(t, s, n)
      \/ \E t \in Txns, s \in Steps : ResumeLoad(t, s)
      \/ UNCHANGED <<docs, intake>> /\ \E t \in Txns : CountAttempts(t)
      \/ /\ UNCHANGED <<docs, intake>>
         /\ \E t \in Txns, s \in Steps, n \in Numbers :
              result[<<s, n>>].status # "queued" /\ AdvanceLoad(t, s, n, result[<<s, n>>].status)
  BY ZenonT(60) DEF IntakeNext, Advance, Human, Rollback, Start, AdvanceSucceeded, AdvanceRetry, AdvanceFailed,
         AdvanceEscalate, Resume, Execute, ProcessOutcome, ivars, vars
<1>10. CASE UNCHANGED <<docs, intake>> /\ \E t \in Txns : CountAttempts(t)
  BY <1>6, <1>10
<1>11. CASE /\ UNCHANGED <<docs, intake>>
            /\ \E t \in Txns, s \in Steps, n \in Numbers :
                 result[<<s, n>>].status # "queued" /\ AdvanceLoad(t, s, n, result[<<s, n>>].status)
  BY <1>5, <1>11
<1>12. QED
  BY <1>3, <1>4, <1>8, <1>9, <1>10, <1>11, <1>7

-----------------------------------------------------------------------------
(* Approval *)

(* A transaction that carries the success of a validation. *)
Approved == \A t \in Txns : txn[t].op = "succeeded" /\ txn[t].s = validate => Approvable

(* The inductive invariant, whatever is delivered again. *)
IntakeInv == IInv /\ Records /\ UniqueNumbers /\ ResultsSound /\ Approved /\ NoSilentApproval

(* Before the run has started nothing is executed and nothing approved. *)
LEMMA InitIntakeInv == IntakeInit => IntakeInv
<1> SUFFICES ASSUME IntakeInit PROVE IntakeInv
  OBVIOUS
<1>1. IInv
  BY InitIInv DEF IntakeInit
<1>2. NotExecuted \in Outcomes /\ NotExecuted.status = "queued"
  <2>1. NoFields \in [{} -> BOOLEAN] /\ {} \in SUBSET Fields
    BY DEF NoFields
  <2>2. NoFields \in Readings
    BY <2>1 DEF Readings
  <2>3. QED
    BY <2>2 DEF NotExecuted, Outcomes
<1>3. Records
  BY <1>2, IntakeAssumption DEF IntakeInit, Records
<1>4. \A s \in Steps, n \in Numbers : result[<<s, n>>].status = "queued"
  BY <1>2 DEF IntakeInit
<1>5. ResultsSound
  BY <1>4, FiveSteps DEF ResultsSound
<1>6. \A s \in Steps : attempts[s] = {}
  BY DEF IntakeInit, Init
<1>7. UniqueNumbers /\ NoSilentApproval
  BY <1>6, FiveSteps DEF UniqueNumbers, NoSilentApproval
<1>8. Approved
  BY DEF IntakeInit, Init, Approved, NoTxn
<1>9. QED
  BY <1>1, <1>3, <1>5, <1>7, <1>8 DEF IntakeInv

(* The documents of a run do not change, nor what can be extracted from them. *)
LEMMA SameDocuments ==
  ASSUME UNCHANGED docs
  PROVE  Extractions' = Extractions /\ Approvable' = Approvable
<1>1. Extractions' = Extractions
  BY DEF Extractions
<1>2. QED
  BY <1>1 DEF Approvable

(* Nothing that a worker or a transaction does changes the documents. *)
LEMMA DocumentsKept ==
  ASSUME [IntakeNext]_ivars
  PROVE  UNCHANGED docs
BY DEF IntakeNext, ExecuteLoad, Execute, ivars

(* The records after a step. *)
LEMMA NextRecords ==
  ASSUME IInv, Records, UniqueNumbers, ResultsSound, [IntakeNext]_ivars
  PROVE  Records'
<1>1. CASE [Next]_vars /\ UNCHANGED <<docs, intake>>
  BY <1>1 DEF Records, intake
<1>2. ASSUME NEW t \in Txns, NEW s \in Steps, NEW n \in Numbers, ExecuteLoad(t, s, n)
      PROVE  Records'
  <2>1. UNCHANGED <<docs, result, unread>> /\ delivered' \subseteq Steps \X Numbers
    BY <1>2 DEF ExecuteLoad, Records
  <2>2. reexecuted' \in 0..MaxReexecutions
    <3>1. reexecuted' \in Nat /\ reexecuted' <= MaxReexecutions
      BY <1>2 DEF ExecuteLoad, Records
    <3>2. QED
      BY <3>1, IntakeAssumption
  <2>3. QED
    BY <2>1, <2>2 DEF Records
<1>3. ASSUME NEW t \in Txns, Execute(t)
      PROVE  Records'
  <2>1. /\ result' \in [Steps \X Numbers -> Outcomes] /\ unread' \subseteq Numbers
        /\ UNCHANGED <<docs, delivered, reexecuted>>
    BY ZenonT(60), <1>3, ExecuteWrites DEF Records
  <2>2. QED
    BY <2>1 DEF Records
<1>4. QED
  BY <1>1, <1>2, <1>3, IntakeSteps

(* The outcomes after a step: an execution writes what its handler returns. *)
LEMMA NextResultsSound ==
  ASSUME IInv, Records, UniqueNumbers, ResultsSound, [IntakeNext]_ivars
  PROVE  ResultsSound'
<1>1. Extractions' = Extractions /\ Approvable' = Approvable
  BY DocumentsKept, SameDocuments
<1>2. CASE UNCHANGED result
  BY <1>1, <1>2 DEF ResultsSound
<1>3. ASSUME NEW t \in Txns, Execute(t)
      PROVE  ResultsSound'
  <2>1. PICK s \in Steps, n \in Numbers : \E r \in Handle(s) :
           /\ result'[<<s, n>>] = r
           /\ \A k \in Steps \X Numbers : k # <<s, n>> => result'[k] = result[k]
    BY <1>3, ExecuteWrites
  <2> DEFINE r == result'[<<s, n>>]
  <2>2. /\ s = extract => /\ r.status \in {"failed_retryable", "succeeded"}
                          /\ r.status = "succeeded" => r.fields \in Extractions
        /\ s = validate /\ r.status = "succeeded" => Approvable
        /\ s \notin {extract, validate} => r.status = "succeeded"
    BY <2>1, Handled
  <2> SUFFICES ASSUME NEW m \in Numbers
               PROVE  /\ result'[<<extract, m>>].status \in {"queued", "failed_retryable", "succeeded"}
                      /\ result'[<<extract, m>>].status = "succeeded" => result'[<<extract, m>>].fields \in Extractions
                      /\ result'[<<validate, m>>].status = "succeeded" => Approvable
                      /\ \A u \in Steps : u \notin {extract, validate} =>
                           result'[<<u, m>>].status \in {"queued", "succeeded"}
    BY <1>1 DEF ResultsSound
  <2>3. extract \in Steps /\ validate \in Steps
    BY FiveSteps
  <2>4. /\ result'[<<extract, m>>].status \in {"queued", "failed_retryable", "succeeded"}
        /\ result'[<<extract, m>>].status = "succeeded" => result'[<<extract, m>>].fields \in Extractions
    <3>1. CASE <<extract, m>> = <<s, n>>
      BY <2>1, <2>2, <3>1
    <3>2. CASE <<extract, m>> # <<s, n>>
      BY <2>1, <2>3, <3>2 DEF ResultsSound
    <3>3. QED
      BY <3>1, <3>2
  <2>5. result'[<<validate, m>>].status = "succeeded" => Approvable
    <3>1. CASE <<validate, m>> = <<s, n>>
      BY <2>1, <2>2, <3>1
    <3>2. CASE <<validate, m>> # <<s, n>>
      BY <2>1, <2>3, <3>2 DEF ResultsSound
    <3>3. QED
      BY <3>1, <3>2
  <2>6. ASSUME NEW u \in Steps, u \notin {extract, validate}
        PROVE  result'[<<u, m>>].status \in {"queued", "succeeded"}
    <3>1. CASE <<u, m>> = <<s, n>>
      BY <2>1, <2>2, <2>6, <3>1
    <3>2. CASE <<u, m>> # <<s, n>>
      BY <2>1, <2>6, <3>2 DEF ResultsSound
    <3>3. QED
      BY <3>1, <3>2
  <2>7. QED
    BY <2>4, <2>5, <2>6
<1>4. QED
  BY <1>2, <1>3, IntakeSteps DEF intake, ExecuteLoad

(* The lifecycle's invariant and its unique numbers after a step. *)
LEMMA NextLifecycle ==
  ASSUME IInv, Records, UniqueNumbers, ResultsSound, [IntakeNext]_ivars
  PROVE  IInv' /\ UniqueNumbers'
BY IntakeImplements, NextIInv, NextUnique

(* What a step does to the attempts: an execution does nothing. *)
LEMMA IntakeWrites ==
  ASSUME IInv, Records, [IntakeNext]_ivars
  PROVE  \/ UNCHANGED attempts
         \/ [Next]_vars /\ UNCHANGED <<docs, intake>>
BY IntakeSteps, LoadWaits DEF Execute, ProcessOutcome, rows

(* Who starts the routing has the validation approved, by itself or by a human. *)
LEMMA NextApproval ==
  ASSUME IntakeInv, [IntakeNext]_ivars
  PROVE  Approved' /\ NoSilentApproval'
<1>1. IInv /\ Records /\ UniqueNumbers /\ ResultsSound /\ Approved /\ NoSilentApproval
  BY DEF IntakeInv
<1>2. Approvable' = Approvable
  BY DocumentsKept, SameDocuments
<1>3. Approved'
  <2> SUFFICES ASSUME NEW t \in Txns, txn'[t].op = "succeeded", txn'[t].s = validate PROVE Approvable
    BY <1>2 DEF Approved
  <2>1. txn'[t].op \in AnswerOps
    BY DEF AnswerOps, StepResults
  <2>2. CASE txn'[t] = txn[t]
    BY <1>1, <2>2 DEF Approved
  <2>3. CASE \E s \in Steps, n \in Numbers : txn'[t].op = result[<<s, n>>].status /\ txn'[t].s = s
    BY <1>1, <2>3 DEF ResultsSound
  <2>4. QED
    BY <1>1, <2>1, <2>2, <2>3, IntakeTxn
<1>4. NoSilentApproval'
  <2> SUFFICES ASSUME attempts'[route] # {}, ~HumanDecided(validate)' PROVE Approvable
    BY <1>2 DEF NoSilentApproval, Approvable
  <2>1. route \in Steps /\ validate \in Steps /\ route # 1 /\ route = validate + 1 /\ validate < N
    BY FiveSteps DEF route, validate
  <2>2. CASE UNCHANGED attempts
    BY <1>1, <2>2 DEF NoSilentApproval, HumanDecided, Of, Approvable
  <2>3. CASE [Next]_vars /\ attempts[route] # {}
    <3>1. attempts[validate] \subseteq attempts'[validate]
      BY <1>1, <2>1, <2>3, AttemptsGrow
    <3>2. ~HumanDecided(validate)
      BY <3>1 DEF HumanDecided, Of
    <3>3. QED
      BY <1>1, <2>3, <3>2 DEF NoSilentApproval, Approvable
  <2>4. CASE [Next]_vars /\ attempts[route] = {}
    <3>1. ASSUME NEW s \in Steps, NEW a, Adds(s, a) PROVE s = route
      BY <2>1, <2>4, <3>1 DEF Adds
    <3>2. CASE Starts
      <4>1. 1 \in Steps
        BY FiveSteps DEF ingest
      <4>2. QED
        BY <2>1, <3>1, <3>2, <4>1 DEF Starts
    <3>3. ASSUME NEW t \in Txns, Continued(t) PROVE Approvable
      <4>1. txn[t].s + 1 = route /\ txn[t].s \in Steps
        BY <3>1, <3>3 DEF Continued
      <4>2. txn[t].s = validate
        BY <4>1 DEF Steps, route, validate
      <4>3. QED
        BY <1>1, <3>3, <4>2 DEF Continued, AdvanceSucceeded, Approved
    <3>4. ASSUME NEW t \in Txns, Retried(t) \/ Resolves(t) PROVE FALSE
      BY <2>4, <3>1, <3>4 DEF Retried, Resolves
    <3>5. ASSUME NEW t \in Txns, Resumed(t) PROVE FALSE
      <4>1. PICK s \in Steps, k \in Numbers :
              s = txn[t].s /\ attempts[s] # {} /\ (Adds(s, Attempt(k, "human")) \/ AddsBoth(s, k))
        BY <3>5 DEF Resumed
      <4>2. s # route
        BY <2>4, <4>1
      <4>3. AddsBoth(s, k)
        BY <3>1, <4>1, <4>2
      <4>4. s + 1 = route
        BY <2>1, <2>4, <4>2, <4>3 DEF AddsBoth
      <4>5. s = validate
        BY <4>4 DEF Steps, route, validate
      <4>6. Attempt(k, "human") \in attempts'[validate] /\ Attempt(k, "human").origin = "human"
        BY <2>1, <4>3, <4>5 DEF AddsBoth, Attempt
      <4>7. QED
        BY <4>6 DEF HumanDecided, Of
    <3>6. QED
      BY <1>1, <2>1, <2>4, <3>2, <3>3, <3>4, <3>5, AttemptWrites
  <2>5. QED
    BY <1>1, <2>2, <2>3, <2>4, IntakeWrites
<1>5. QED
  BY <1>3, <1>4

(* The invariant holds in every reachable state. *)
LEMMA IntakeInvariant == IntakeSpec => []IntakeInv
<1>1. IntakeInv /\ [IntakeNext]_ivars => IntakeInv'
  BY NextLifecycle, NextRecords, NextResultsSound, NextApproval DEF IntakeInv
<1>2. QED
  BY <1>1, InitIntakeInv, PTL DEF IntakeSpec

(* Type correctness of the intake. *)
THEOREM IntakeTypeCorrect == IntakeSpec => []IntakeTypeOK
<1>1. IntakeInv => IntakeTypeOK
  <2> SUFFICES ASSUME Records PROVE IntakeTypeOK
    BY DEF IntakeInv
  <2>1. \A k \in Steps \X Numbers :
          result[k].status \in StepResults \cup {"queued"} /\ result[k].fields \in Readings
    BY DEF Records, Outcomes
  <2>2. QED
    BY <2>1 DEF IntakeTypeOK, Records
<1>2. QED
  BY <1>1, IntakeInvariant, PTL

(* No claim is routed on its own unless some reading of its documents is       *)
(* acceptable, however often tasks are executed and answered again.            *)
THEOREM NeverSilentlyApproved == IntakeSpec => []NoSilentApproval
<1>1. IntakeInv => NoSilentApproval
  BY DEF IntakeInv
<1>2. QED
  BY <1>1, IntakeInvariant, PTL

(* The intake implements the lifecycle: what its handlers return, executed    *)
(* again and in any order, is what RunLifecycle allows to be executed and      *)
(* answered.                                                                   *)
THEOREM ImplementsLifecycle == IntakeSpec => Spec
<1>1. IntakeInit => Init
  BY DEF IntakeInit
<1>2. IntakeInv /\ [IntakeNext]_ivars => [Next]_vars
  BY IntakeImplements DEF IntakeInv
<1>3. QED
  BY <1>1, <1>2, IntakeInvariant, PTL DEF IntakeSpec, Spec

-----------------------------------------------------------------------------
(* The extraction given to a human *)

(* What has been executed, or is, is a task. *)
ResultTask ==
  /\ \A s \in Steps, n \in Numbers : result[<<s, n>>].status # "queued" => Task(s, n)
  /\ \A t \in Txns : txn[t].op = "execute" => Task(txn[t].s, txn[t].number)

(* Attempts are never deleted. *)
LEMMA RowsGrow ==
  ASSUME IInv, Records, [IntakeNext]_ivars
  PROVE  \A s \in Steps : attempts[s] \subseteq attempts'[s]
BY IntakeWrites, AttemptsGrow

(* A result is that of a task, which a worker has received. *)
LEMMA NextResultTask ==
  ASSUME IInv, Records, UniqueNumbers, ResultsSound, ResultTask, [IntakeNext]_ivars
  PROVE  ResultTask'
<1>1. \A s \in Steps, n \in Numbers : Task(s, n) => Task(s, n)'
  BY RowsGrow DEF Task
<1>2. ASSUME NEW s \in Steps, NEW n \in Numbers, result'[<<s, n>>].status # "queued"
      PROVE  Task(s, n)
  <2>1. CASE UNCHANGED result
    BY <1>2, <2>1 DEF ResultTask
  <2>2. ASSUME NEW t \in Txns, Execute(t) PROVE Task(s, n)
    <3>1. PICK r \in Steps, m \in Numbers :
            /\ r = txn[t].s /\ m = txn[t].number
            /\ \A k \in Steps \X Numbers : k # <<r, m>> => result'[k] = result[k]
      BY <2>2, ExecuteWrites
    <3>2. Task(r, m)
      BY <2>2, <3>1 DEF Execute, ResultTask
    <3>3. CASE <<s, n>> = <<r, m>>
      BY <3>2, <3>3
    <3>4. CASE <<s, n>> # <<r, m>>
      BY <1>2, <3>1, <3>4 DEF ResultTask
    <3>5. QED
      BY <3>3, <3>4
  <2>3. QED
    BY <2>1, <2>2, IntakeSteps DEF intake, ExecuteLoad
<1>3. ASSUME NEW u \in Txns, txn'[u].op = "execute"
      PROVE  \E s \in Steps, n \in Numbers : s = txn'[u].s /\ n = txn'[u].number /\ Task(s, n)
  <2>1. CASE txn'[u] = txn[u]
    <3>1. txn[u] \in ExecuteTxn
      BY <1>3, <2>1, Kinds
    <3>2. QED
      BY <1>3, <2>1, <3>1 DEF ResultTask, ExecuteTxn
  <2>2. ASSUME NEW t \in Txns, NEW s \in Steps, NEW n \in Numbers, ExecuteLoad(t, s, n)
        PROVE  \/ txn'[u] = txn[u]
               \/ txn'[u].s = s /\ txn'[u].number = n /\ Task(s, n)
    BY <2>2 DEF ExecuteLoad, ProcessLoad, Open, IInv, TxnTypeOK, Task
  <2>3. ASSUME NEW t \in Txns, Done(t)
        PROVE  txn'[u] = txn[u]
    BY <1>3, <2>3 DEF Done, NoTxn, IInv, TxnTypeOK
  <2>4. ASSUME NEW t \in Txns, NEW call, call.op # "execute", Open(t, call)
        PROVE  txn'[u] = txn[u]
    BY <1>3, <2>4 DEF Open, IInv, TxnTypeOK
  <2>5. ASSUME NEW t \in Txns, CountAttempts(t)
        PROVE  txn'[u] = txn[u]
    <3>1. PICK x \in AdvanceTxn : x = txn[t]
      BY <2>5, Kinds DEF CountAttempts, StepResults
    <3>2. PICK y : /\ txn' = [txn EXCEPT ![t] = y]
                   /\ \/ y = [op |-> "retry", s |-> x.s, n |-> x.n, run |-> x.run, step |-> x.step,
                              count |-> Cardinality(attempts[x.s])]
                      \/ y = [x EXCEPT !.op = "failed_terminal"]
      BY <2>5, <3>1 DEF CountAttempts, IInv, TxnTypeOK
    <3>3. y.op # "execute"
      BY <3>1, <3>2 DEF AdvanceTxn
    <3>4. QED
      BY <1>3, <3>2, <3>3 DEF IInv, TxnTypeOK
  <2>6. ASSUME NEW t \in Txns, NEW s \in Steps, NEW n \in Numbers, result[<<s, n>>].status # "queued",
               AdvanceLoad(t, s, n, result[<<s, n>>].status)
        PROVE  txn'[u] = txn[u]
    <3>1. result[<<s, n>>].status # "execute"
      BY <2>6 DEF Records, Outcomes, StepResults
    <3>2. QED
      BY <2>4, <2>6, <3>1 DEF AdvanceLoad
  <2>7. ASSUME NEW t \in Txns, NEW s \in Steps, ResumeLoad(t, s)
        PROVE  txn'[u] = txn[u]
    BY <2>4, <2>7 DEF ResumeLoad
  <2>8. \/ UNCHANGED txn
        \/ \E t \in Txns : Done(t) \/ CountAttempts(t)
        \/ \E t \in Txns, s \in Steps : ResumeLoad(t, s)
        \/ \E t \in Txns, s \in Steps, n \in Numbers :
             \/ ExecuteLoad(t, s, n)
             \/ result[<<s, n>>].status # "queued" /\ AdvanceLoad(t, s, n, result[<<s, n>>].status)
    BY DEF IntakeNext, Advance, Human, Rollback, Start, AdvanceSucceeded, AdvanceRetry, AdvanceFailed,
           AdvanceEscalate, Resume, Execute, ProcessOutcome, ivars, vars
  <2>9. QED
    BY <2>1, <2>2, <2>3, <2>5, <2>6, <2>7, <2>8
<1>4. ASSUME NEW u \in Txns, txn'[u].op = "execute"
      PROVE  Task(txn[u].s, txn[u].number)'
  <2>1. PICK s \in Steps, n \in Numbers : s = txn'[u].s /\ n = txn'[u].number /\ Task(s, n)
    BY <1>3, <1>4
  <2>2. Task(s, n)'
    BY <1>1, <2>1
  <2>3. QED
    BY <2>1, <2>2 DEF Task
<1>5. QED
  BY <1>1, <1>2, <1>4 DEF ResultTask

(* The transactions that answer a task that has failed. *)
FailureOps == {"failed_retryable", "retry", "failed_terminal", "escalate"}

(* Failed attempts are not forgotten. *)
LEMMA UnreadGrows ==
  ASSUME [IntakeNext]_ivars
  PROVE  unread \subseteq unread'
<1>1. ASSUME NEW t \in Txns, Execute(t) PROVE unread \subseteq unread'
  BY <1>1 DEF Execute
<1>2. QED
  BY <1>1 DEF IntakeNext, ExecuteLoad, ivars, intake

(* A case is opened by a transaction that gives up a task. *)
LEMMA CaseOpened ==
  ASSUME IInv, Records, [IntakeNext]_ivars, NEW s \in Steps,
         esc[s].state = "none", esc'[s].state # "none"
  PROVE  \E t \in Txns : /\ AdvanceFailed(t) \/ AdvanceEscalate(t)
                         /\ txn[t].op \in {"failed_terminal", "escalate"} /\ txn[t].s = s
<1>1. ASSUME NEW t \in Txns, AdvanceFailed(t) \/ AdvanceEscalate(t)
      PROVE  txn[t].op \in {"failed_terminal", "escalate"} /\ txn[t].s = s
  <2>1. txn[t].op \in {"failed_terminal", "escalate"}
    BY <1>1 DEF AdvanceFailed, AdvanceEscalate
  <2>2. PICK r \in Steps : r = txn[t].s
    BY <2>1, AnswerFields DEF AnswerOps, StepResults
  <2>3. UNCHANGED esc \/ esc' = [esc EXCEPT ![r].state = "open"]
    BY <1>1, <2>2 DEF AdvanceFailed, AdvanceEscalate, Escalates
  <2>4. QED
    BY <2>1, <2>2, <2>3, CaseWritten
<1>2. ASSUME NEW t \in Txns, Resume(t) PROVE FALSE
  <2>1. PICK r \in Steps : r = txn[t].s /\ esc[r].state # "none"
    BY <1>2, Kinds DEF Resume, ResumeTxn, IInv, Started, CaseOps
  <2>2. \A q \in Steps : q # r => esc'[q] = esc[q]
    BY <1>2, <2>1 DEF Resume, IInv, TypeOK
  <2>3. QED
    BY <2>1, <2>2
<1>3. \/ UNCHANGED esc
      \/ \E t \in Txns : AdvanceFailed(t) \/ AdvanceEscalate(t) \/ Resume(t)
  BY DEF IntakeNext, Advance, Human, Rollback, Start, AdvanceLoad, CountAttempts, AdvanceSucceeded, AdvanceRetry,
         ResumeLoad, ExecuteLoad, ProcessLoad, Execute, ProcessOutcome, ivars, vars, rows
<1>4. QED
  BY <1>1, <1>2, <1>3

(* A case is never deleted. *)
LEMMA CaseStays ==
  ASSUME IInv, [IntakeNext]_ivars, NEW s \in Steps, esc[s].state # "none"
  PROVE  esc'[s].state # "none"
<1>1. ASSUME NEW r \in Steps, NEW state, state # "none", esc' = [esc EXCEPT ![r].state = state]
      PROVE  esc'[s].state # "none"
  <2>1. esc'[r].state = state /\ \A q \in Steps : q # r => esc'[q] = esc[q]
    BY <1>1, CaseWritten
  <2>2. QED
    BY <1>1, <2>1
<1>2. ASSUME NEW t \in Txns, AdvanceFailed(t) \/ AdvanceEscalate(t)
      PROVE  esc'[s].state # "none"
  <2>1. PICK r \in Steps : r = txn[t].s
    BY <1>2, AnswerFields DEF AdvanceFailed, AdvanceEscalate, AnswerOps, StepResults
  <2>2. UNCHANGED esc \/ esc' = [esc EXCEPT ![r].state = "open"]
    BY <1>2, <2>1 DEF AdvanceFailed, AdvanceEscalate, Escalates
  <2>3. QED
    BY <1>1, <2>2
<1>3. ASSUME NEW t \in Txns, Resume(t)
      PROVE  esc'[s].state # "none"
  <2>1. PICK r \in Steps : r = txn[t].s /\ esc[r].state # "none"
    BY <1>3, Kinds DEF Resume, ResumeTxn, IInv, Started, CaseOps
  <2>2. PICK state : /\ esc' = [esc EXCEPT ![r].state = state]
                     /\ state = esc[r].state \/ state = "resolved"
    BY <1>3, <2>1 DEF Resume, Flushed, IInv, TypeOK
  <2>3. QED
    BY <1>1, <2>1, <2>2
<1>4. \/ UNCHANGED esc
      \/ \E t \in Txns : AdvanceFailed(t) \/ AdvanceEscalate(t) \/ Resume(t)
  BY DEF IntakeNext, Advance, Human, Rollback, Start, AdvanceLoad, CountAttempts, AdvanceSucceeded, AdvanceRetry,
         ResumeLoad, ExecuteLoad, ProcessLoad, Execute, ProcessOutcome, ivars, vars, rows
<1>5. QED
  BY <1>2, <1>3, <1>4

(* Every attempt that the extraction allows was made. *)
AllTried == \A n \in 1..max_attempts[extract] : Task(extract, n)

(* Three attempts, none of them a human's, are all those allowed. *)
LEMMA AllCounted ==
  ASSUME IInv, ~HumanDecided(extract), ~(Cardinality(attempts[extract]) < max_attempts[extract])
  PROVE  AllTried
<1> DEFINE S == attempts[extract]
           f == [a \in S |-> a.number]
<1>1. PICK m \in Nat : m = max_attempts[extract]
  BY FiveSteps
<1>2. S \subseteq AttemptType /\ IsFiniteSet(S)
  BY FiveSteps DEF IInv, TypeOK, NumbersBounded, AttemptType
<1>3. \A a \in S : a.origin = "system" /\ a.number \in 1..m
  BY <1>1, <1>2, FiveSteps DEF HumanDecided, Of, AttemptType, IInv, NumbersBounded
<1>4. \A a \in S : a = Attempt(a.number, "system")
  BY <1>2, <1>3 DEF AttemptType, Attempt
<1>5. ~(Cardinality(S) < m)
  BY <1>1
<1> HIDE DEF S
<1>6. f \in Injection(S, 1..m)
  BY <1>3, <1>4 DEF Injection, IsInjective
<1>7. IsFiniteSet(1..m) /\ Cardinality(1..m) = m
  BY SMTT(60), <1>1, FS_Interval
<1>8. Cardinality(S) <= m /\ Cardinality(S) \in Nat
  BY <1>2, <1>6, <1>7, FS_Injection, FS_CardinalityType
<1>9. Cardinality(S) = Cardinality(1..m)
  BY <1>5, <1>7, <1>8
<1>10. f \in Surjection(S, 1..m)
  BY <1>6, <1>7, <1>9, FS_Injection
<1>11. \A n \in 1..m : \E a \in S : a.number = n
  BY <1>10 DEF Surjection
<1>12. \A n \in 1..m : Attempt(n, "system") \in S
  BY <1>4, <1>11
<1>13. QED
  BY <1>1, <1>12 DEF AllTried, Task, S

(* What is given up was tried, and a human decides only what was given up. *)
Tried ==
  /\ \A n \in Numbers : result[<<extract, n>>].status = "failed_retryable" => unread # {}
  /\ HumanDecided(extract) => esc[extract].state # "none"
  /\ esc[extract].state # "none" => unread # {} /\ AllTried
  /\ \A t \in Txns : txn[t].op \in FailureOps /\ txn[t].s = extract =>
       /\ txn[t].op # "escalate"
       /\ unread # {}
       /\ txn[t].op = "failed_terminal" => AllTried

(* A human attempt of the extraction is inserted for a case only. *)
LEMMA HumanAfterCase ==
  ASSUME IInv, Records, UniqueNumbers, ResultsSound, [IntakeNext]_ivars, HumanDecided(extract)'
  PROVE  HumanDecided(extract) \/ esc[extract].state # "none"
<1>1. extract \in Steps
  BY FiveSteps
<1>2. PICK a \in attempts'[extract] : a.origin = "human"
  BY DEF HumanDecided, Of
<1>3. CASE a \in attempts[extract]
  BY <1>2, <1>3 DEF HumanDecided, Of
<1>4. ASSUME a \notin attempts[extract], [Next]_vars
      PROVE  esc[extract].state # "none"
  <2>1. \A n : Attempt(n, "system").origin = "system"
    BY DEF Attempt
  <2>2. ASSUME NEW s, NEW n PROVE ~Adds(s, Attempt(n, "system"))
    BY <1>1, <1>2, <1>4, <2>1 DEF Adds
  <2>3. ASSUME NEW t \in Txns, Resolves(t) \/ Resumed(t)
        PROVE  txn[t].s = extract /\ txn[t].op \in CaseOps
    <3>1. txn[t].op \in CaseOps
      BY <2>3 DEF Resolves, Resolve, Resumed, Resume, CaseOps
    <3>2. PICK n : Adds(txn[t].s, Attempt(n, "human")) \/ AddsBoth(txn[t].s, n)
      BY <2>3 DEF Resolves, Resumed
    <3>3. txn[t].s = extract
      BY ZenonT(60), <1>1, <1>2, <1>4, <2>1, <3>2 DEF Adds, AddsBoth
    <3>4. QED
      BY <3>1, <3>3
  <2>4. \E t \in Txns : Resolves(t) \/ Resumed(t)
    BY <1>1, <1>2, <1>4, <2>2, AttemptWrites DEF Starts, Continued, Retried
  <2>5. QED
    BY <2>3, <2>4 DEF IInv, Started
<1>5. QED
  BY <1>3, <1>4, IntakeImplements

(* The extraction is given up only when it was tried. *)
LEMMA NextTried ==
  ASSUME IntakeInv, Tried, [IntakeNext]_ivars
  PROVE  Tried'
<1>1. IInv /\ Records /\ UniqueNumbers /\ ResultsSound
  BY DEF IntakeInv
<1>2. extract \in Steps /\ unread \subseteq unread'
  BY FiveSteps, UnreadGrows
<1>3. AllTried => AllTried'
  BY <1>1, <1>2, RowsGrow DEF AllTried, Task
<1>4. ASSUME NEW n \in Numbers, result'[<<extract, n>>].status = "failed_retryable"
      PROVE  unread' # {}
  <2>1. CASE result'[<<extract, n>>] = result[<<extract, n>>]
    BY <1>2, <1>4, <2>1 DEF Tried
  <2>2. ASSUME NEW t \in Txns, Execute(t), result'[<<extract, n>>] # result[<<extract, n>>]
        PROVE  unread' # {}
    <3>1. PICK s \in Steps, m \in Numbers : \E r \in Handle(s) :
             /\ s = txn[t].s /\ m = txn[t].number
             /\ result'[<<s, m>>] = r
             /\ \A k \in Steps \X Numbers : k # <<s, m>> => result'[k] = result[k]
             /\ result' \in [Steps \X Numbers -> Outcomes]
             /\ unread' = IF r.status = "failed_retryable" THEN unread \cup {m} ELSE unread
      BY ZenonT(60), <1>1, <2>2, ExecuteWrites
    <3>2. <<extract, n>> = <<s, m>>
      BY <1>2, <2>2, <3>1
    <3>3. unread' = unread \cup {m}
      BY <1>4, <3>1, <3>2
    <3>4. QED
      BY <3>3
  <2>3. QED
    BY <1>1, <2>1, <2>2, IntakeSteps DEF intake, ExecuteLoad
<1>5. HumanDecided(extract)' => esc'[extract].state # "none"
  BY <1>1, <1>2, HumanAfterCase, CaseStays DEF Tried
<1>6. ASSUME esc'[extract].state # "none"
      PROVE  unread' # {} /\ AllTried'
  <2>1. CASE esc[extract].state # "none"
    BY <1>2, <1>3, <2>1 DEF Tried
  <2>2. CASE esc[extract].state = "none"
    <3>1. PICK t \in Txns : txn[t].op \in {"failed_terminal", "escalate"} /\ txn[t].s = extract
      BY <1>1, <1>2, <1>6, <2>2, CaseOpened
    <3>2. QED
      BY <1>2, <1>3, <3>1 DEF Tried, FailureOps
  <2>3. QED
    BY <2>1, <2>2
<1>7. ASSUME NEW u \in Txns, txn'[u].op \in FailureOps, txn'[u].s = extract
      PROVE  /\ txn'[u].op # "escalate"
             /\ unread' # {}
             /\ txn'[u].op = "failed_terminal" => AllTried'
  <2>1. txn'[u].op \in AnswerOps
    BY <1>7 DEF FailureOps, AnswerOps, StepResults
  <2>2. CASE txn'[u] = txn[u]
    BY <1>2, <1>3, <1>7, <2>2 DEF Tried
  <2>3. ASSUME NEW s \in Steps, NEW n \in Numbers, result[<<s, n>>].status # "queued",
               txn'[u].op = result[<<s, n>>].status, txn'[u].s = s
        PROVE  txn'[u].op = "failed_retryable" /\ unread' # {}
    <3>1. txn'[u].op \in {"failed_retryable", "succeeded"}
      BY <1>1, <1>7, <2>3 DEF ResultsSound
    <3>2. txn'[u].op = "failed_retryable"
      BY <1>7, <3>1 DEF FailureOps
    <3>3. QED
      BY <1>2, <1>7, <2>3, <3>2 DEF Tried
  <2>4. ASSUME txn[u].op = "failed_retryable", txn'[u].s = txn[u].s,
               \/ txn'[u].op = "retry"
               \/ /\ txn'[u].op = "failed_terminal"
                  /\ ~(Cardinality(attempts[txn[u].s]) < max_attempts[txn[u].s])
        PROVE  /\ txn'[u].op # "escalate"
               /\ unread' # {}
               /\ txn'[u].op = "failed_terminal" => AllTried'
    <3>1. unread # {} /\ txn[u].s = extract
      BY <1>7, <2>4 DEF Tried, FailureOps
    <3>2. CASE HumanDecided(extract)
      BY <1>2, <1>3, <2>4, <3>1, <3>2 DEF Tried
    <3>3. CASE ~HumanDecided(extract)
      BY <1>1, <1>2, <1>3, <2>4, <3>1, <3>3, AllCounted
    <3>4. QED
      BY <3>2, <3>3
  <2>5. QED
    BY <1>1, <2>1, <2>2, <2>3, <2>4, IntakeTxn
<1>8. QED
  BY <1>4, <1>5, <1>6, <1>7 DEF Tried

(* ExtractRetried: the extraction is given to a human only after every attempt *)
(* that _handle_failed_retryable allows was made, and a payload was unreadable, *)
(* whatever is executed and answered again.                                    *)
THEOREM ExtractAlwaysRetried == IntakeSpec => []ExtractRetried
<1>1. IntakeInit => Tried
  <2> SUFFICES ASSUME IntakeInit PROVE Tried
    OBVIOUS
  <2>1. extract \in Steps
    BY FiveSteps
  <2>2. /\ \A n \in Numbers : result[<<extract, n>>].status = "queued"
        /\ attempts[extract] = {} /\ esc[extract].state = "none"
        /\ \A t \in Txns : txn[t].op = "idle"
    BY <2>1 DEF IntakeInit, Init, NotExecuted, NoTxn
  <2>3. QED
    BY <2>2 DEF Tried, HumanDecided, Of, FailureOps
<1>2. IntakeInv /\ Tried /\ [IntakeNext]_ivars => Tried'
  BY NextTried
<1>3. Tried => ExtractRetried
  BY DEF Tried, ExtractRetried, AllTried, Task
<1>4. QED
  BY <1>1, <1>2, <1>3, IntakeInvariant, PTL DEF IntakeSpec

-----------------------------------------------------------------------------
(* Clean claims *)

(* Every payload could be read, and every reading of the claim is acceptable. *)
Clean == unread = {} /\ \A e \in Extractions : Acceptable(e)

(* The transactions of a claim without trouble. *)
QuietOps == {"idle", "execute", "succeeded"}

(* Everything has succeeded so far, and no human has been asked. *)
Untroubled ==
  /\ \A s \in Steps, n \in Numbers : result[<<s, n>>].status \in {"queued", "succeeded"}
  /\ \A t \in Txns : txn[t].op \in QuietOps
  /\ \A s \in Steps : esc[s].state = "none" /\ ~HumanDecided(s)
  /\ run.state # "failed"

(* The validation starts with an output of the extraction. *)
Extracted ==
  /\ \A t \in Txns : txn[t].op = "succeeded" /\ txn[t].s = extract =>
       /\ result[<<extract, txn[t].n>>].status = "succeeded"
       /\ txn[t].step = "succeeded" => steps[extract] = "succeeded"
  /\ attempts[validate] # {} =>
       /\ steps[extract] = "succeeded"
       /\ \E n \in Numbers : result[<<extract, n>>].status = "succeeded"

(* The steps of a run without trouble: nobody answers a failure, and there is  *)
(* no case to be resumed.                                                      *)
LEMMA UntroubledSteps ==
  ASSUME Untroubled, [IntakeNext]_ivars
  PROVE  \/ UNCHANGED <<vars, docs, result, unread>>
         \/ Start /\ UNCHANGED <<docs, intake>>
         \/ \E t \in Txns : /\ UNCHANGED <<docs, intake>>
                            /\ \/ AdvanceSucceeded(t)
                               \/ Rollback(t)
                               \/ \E s \in Steps, n \in Numbers :
                                    /\ result[<<s, n>>].status = "succeeded"
                                    /\ AdvanceLoad(t, s, n, "succeeded")
         \/ \E t \in Txns, s \in Steps, n \in Numbers : ExecuteLoad(t, s, n)
         \/ \E t \in Txns : Execute(t)
<1>1. ASSUME NEW t \in Txns
      PROVE  ~(CountAttempts(t) \/ AdvanceRetry(t) \/ AdvanceFailed(t) \/ AdvanceEscalate(t) \/ Resume(t))
  <2>1. txn[t].op \in QuietOps
    BY DEF Untroubled
  <2>2. QED
    BY <2>1 DEF CountAttempts, AdvanceRetry, AdvanceFailed, AdvanceEscalate, Resume, QuietOps
<1>2. ASSUME NEW s \in Steps
      PROVE  ~\E t \in Txns : ResumeLoad(t, s)
  <2>1. esc[s].state = "none"
    BY DEF Untroubled
  <2>2. QED
    BY <2>1 DEF ResumeLoad
<1>3. ASSUME NEW t \in Txns, Advance(t) \/ Human(t) \/ Rollback(t)
      PROVE  \/ AdvanceSucceeded(t)
             \/ Rollback(t)
             \/ \E s \in Steps, n \in Numbers :
                  /\ result[<<s, n>>].status = "succeeded"
                  /\ AdvanceLoad(t, s, n, "succeeded")
  <2>1. ASSUME NEW s \in Steps, NEW n \in Numbers, result[<<s, n>>].status # "queued"
        PROVE  result[<<s, n>>].status = "succeeded"
    BY <2>1 DEF Untroubled
  <2>2. QED
    BY <1>1, <1>2, <1>3, <2>1 DEF Advance, Human
<1>4. CASE UNCHANGED ivars
  BY <1>4 DEF ivars, intake
<1>5. QED
  BY <1>3, <1>4 DEF IntakeNext

(* The output of an extraction that nobody has resolved. *)
LEMMA OutputThere ==
  ASSUME IInv, Untroubled, Extracted, ResultTask, attempts[validate] # {}
  PROVE  HasOutput(extract)
<1>1. extract \in Steps
  BY FiveSteps
<1>2. PICK n \in Numbers : result[<<extract, n>>].status = "succeeded"
  BY DEF Extracted
<1>3. Attempt(n, "system") \in attempts[extract] /\ Attempt(n, "system").number = n
  BY <1>1, <1>2 DEF ResultTask, Task, Attempt
<1>4. n \in Succeeded(extract)
  BY <1>2, <1>3 DEF Succeeded
<1>5. attempts[extract] \subseteq AttemptType
  BY <1>1 DEF IInv, TypeOK, AttemptType
<1>6. PICK k \in Nat : Numbers \subseteq 1..k
  BY FiveSteps
<1>7. Succeeded(extract) \in SUBSET (1..k)
  BY <1>5, <1>6 DEF Succeeded, AttemptType
<1>8. PICK m \in Succeeded(extract) : m = Max(Succeeded(extract))
  BY <1>4, <1>7, MaxIn
<1>9. PICK b \in attempts[extract] : b.number = m
  BY <1>8 DEF Succeeded
<1>10. b.origin = "system"
  BY <1>1, <1>5, <1>9 DEF Untroubled, HumanDecided, Of, AttemptType
<1>11. b = Attempt(m, "system")
  BY <1>5, <1>9, <1>10 DEF AttemptType, Attempt
<1>12. QED
  BY <1>4, <1>8, <1>9, <1>11 DEF HasOutput, Extracted

(* A handler of a clean claim succeeds, unless a payload is not read. *)
LEMMA CleanHandled ==
  ASSUME IntakeInv, ResultTask, Untroubled, Extracted, Clean, Clean', NEW t \in Txns, Execute(t)
  PROVE  \E s \in Steps, n \in Numbers :
           /\ s = txn[t].s /\ n = txn[t].number
           /\ result'[<<s, n>>].status = "succeeded"
           /\ \A k \in Steps \X Numbers : k # <<s, n>> => result'[k] = result[k]
<1>1. IInv /\ Records /\ UniqueNumbers /\ ResultsSound
  BY DEF IntakeInv
<1>2. PICK s \in Steps, n \in Numbers : \E r \in Handle(s) :
           /\ s = txn[t].s /\ n = txn[t].number
           /\ result'[<<s, n>>] = r
           /\ \A k \in Steps \X Numbers : k # <<s, n>> => result'[k] = result[k]
           /\ result' \in [Steps \X Numbers -> Outcomes]
           /\ unread' = IF r.status = "failed_retryable" THEN unread \cup {n} ELSE unread
  BY ZenonT(60), <1>1, ExecuteWrites
<1>3. PICK r \in Handle(s) :
           /\ result'[<<s, n>>] = r
           /\ unread' = IF r.status = "failed_retryable" THEN unread \cup {n} ELSE unread
  BY <1>2
<1>4. r.status # "failed_retryable"
  BY <1>3 DEF Clean
<1>5. CASE s # validate
  <2>1. r.status = "succeeded"
    BY <1>1, <1>4, <1>5, Handled
  <2>2. QED
    BY <1>2, <1>3, <2>1
<1>6. CASE s = validate
  <2>1. Task(s, n)
    BY <1>2 DEF Execute, ResultTask
  <2>2. HasOutput(extract)
    BY <1>1, <1>6, <2>1, OutputThere DEF Task
  <2>3. OutputOf(extract) \in Extractions
    BY <1>1, <2>2, OutputExtracted
  <2>4. HandleValidate(OutputOf(extract)) = "succeeded"
    BY <1>1, <2>3, ExtractionsRead, AcceptablePasses DEF Records, Clean
  <2>5. r = Result("succeeded", NoFields)
    BY <1>6, <2>2, <2>4 DEF Handle, ingest, extract, validate, route, complete
  <2>6. r.status = "succeeded"
    BY <2>5 DEF Result
  <2>7. QED
    BY <1>2, <1>3, <2>6
<1>7. QED
  BY <1>5, <1>6

(* A clean claim stays without trouble. *)
LEMMA NextUntroubled ==
  ASSUME IntakeInv, ResultTask, Untroubled, Extracted, Clean, Clean', [IntakeNext]_ivars
  PROVE  Untroubled'
<1>1. IInv /\ Records /\ txn \in [Txns -> Transactions] /\ attempts \in [Steps -> SUBSET AttemptType]
  BY DEF IntakeInv, IInv, TxnTypeOK, TypeOK, AttemptType
<1>2. \A m, k : Attempt(m, "system").origin = "system"
  BY DEF Attempt
<1>3. CASE UNCHANGED <<vars, docs, result, unread>>
  BY <1>3 DEF vars, rows, Untroubled, HumanDecided, Of
<1>4. CASE Start /\ UNCHANGED <<docs, intake>>
  <2>1. \A s \in Steps : \A a \in attempts'[s] : a \in attempts[s] \/ a.origin = "system"
    BY <1>1, <1>2, <1>4 DEF Start
  <2>2. \A s \in Steps : ~HumanDecided(s)'
    BY <2>1 DEF Untroubled, HumanDecided, Of
  <2>3. run'.state # "failed" /\ UNCHANGED <<result, txn, esc>>
    BY <1>4 DEF Start, intake
  <2>4. QED
    BY <2>2, <2>3 DEF Untroubled
<1>5. ASSUME NEW t \in Txns, UNCHANGED <<docs, intake>>, AdvanceSucceeded(t)
      PROVE  Untroubled'
  <2>1. \A s \in Steps : \A a \in attempts'[s] : a \in attempts[s] \/ a.origin = "system"
    BY <1>1, <1>2, <1>5 DEF AdvanceSucceeded, Completes, Continues
  <2>2. \A s \in Steps : ~HumanDecided(s)'
    BY <2>1 DEF Untroubled, HumanDecided, Of
  <2>3. txn[t].run \in RunRead
    BY <1>1, <1>5, AnswerFields DEF AdvanceSucceeded, AnswerOps, StepResults
  <2>4. run'.state \in {run.state, "completed"}
    BY <1>5, <2>3 DEF AdvanceSucceeded, Completes, Continues, FlushedRun, Flushed, To, RunRead
  <2>5. \A u \in Txns : txn'[u].op \in QuietOps
    BY <1>1, <1>5 DEF AdvanceSucceeded, Done, NoTxn, Untroubled, QuietOps
  <2>6. UNCHANGED <<result, esc>>
    BY <1>5 DEF AdvanceSucceeded, intake
  <2>7. QED
    BY <2>2, <2>4, <2>5, <2>6 DEF Untroubled
<1>6. ASSUME NEW t \in Txns, UNCHANGED <<docs, intake>>,
             Rollback(t) \/ \E s \in Steps, n \in Numbers : AdvanceLoad(t, s, n, "succeeded")
      PROVE  Untroubled'
  <2>1. \A u \in Txns : txn'[u].op \in QuietOps
    <3>1. \A u \in Txns : txn'[u] = txn[u] \/ txn'[u].op \in QuietOps
      <4>1. CASE Rollback(t)
        BY <1>1, <4>1 DEF Rollback, Done, NoTxn, QuietOps
      <4>2. ASSUME NEW s \in Steps, NEW n \in Numbers, AdvanceLoad(t, s, n, "succeeded")
            PROVE  \A u \in Txns : txn'[u] = txn[u] \/ txn'[u].op \in QuietOps
        BY <1>1, <4>2 DEF AdvanceLoad, Open, QuietOps
      <4>3. QED
        BY <1>6, <4>1, <4>2
    <3>2. QED
      BY <3>1 DEF Untroubled
  <2>2. UNCHANGED <<run, attempts, result, esc>>
    BY <1>6 DEF Rollback, AdvanceLoad, rows, intake
  <2>3. QED
    BY <2>1, <2>2 DEF Untroubled, HumanDecided, Of
<1>7. ASSUME NEW t \in Txns, Execute(t)
      PROVE  Untroubled'
  <2>1. PICK s \in Steps, n \in Numbers :
           /\ result'[<<s, n>>].status = "succeeded"
           /\ \A k \in Steps \X Numbers : k # <<s, n>> => result'[k] = result[k]
    BY <1>7, CleanHandled
  <2>2. ASSUME NEW r \in Steps, NEW m \in Numbers
        PROVE  result'[<<r, m>>].status \in {"queued", "succeeded"}
    <3>1. CASE <<r, m>> = <<s, n>>
      BY <2>1, <3>1
    <3>2. CASE <<r, m>> # <<s, n>>
      BY <2>1, <3>2 DEF Untroubled
    <3>3. QED
      BY <3>1, <3>2
  <2>3. UNCHANGED <<run, attempts, esc>> /\ Done(t)
    BY <1>7 DEF Execute, ProcessOutcome
  <2>4. \A u \in Txns : txn'[u].op \in QuietOps
    BY <1>1, <2>3 DEF Done, NoTxn, Untroubled, QuietOps
  <2>5. QED
    BY <2>2, <2>3, <2>4 DEF Untroubled, HumanDecided, Of
<1>8. ASSUME NEW t \in Txns, NEW s \in Steps, NEW n \in Numbers, ExecuteLoad(t, s, n)
      PROVE  Untroubled'
  <2>1. UNCHANGED <<run, attempts, result, esc>>
    BY <1>8, LoadWaits DEF rows
  <2>2. \A u \in Txns : txn'[u] = txn[u] \/ txn'[u].op = "execute"
    BY <1>1, <1>8 DEF ExecuteLoad, ProcessLoad, Open
  <2>3. \A u \in Txns : txn'[u].op \in QuietOps
    BY <2>2 DEF Untroubled, QuietOps
  <2>4. QED
    BY <2>1, <2>3 DEF Untroubled, HumanDecided, Of
<1>9. QED
  BY <1>3, <1>4, <1>5, <1>6, <1>7, <1>8, UntroubledSteps

(* A step that is marked succeeded stays so, as long as nothing fails. *)
LEMMA StepStaysSucceeded ==
  ASSUME IInv, NEW s \in Steps, NEW read, SetStep(s, read, "succeeded")
  PROVE  /\ \A r \in Steps : steps[r] = "succeeded" => steps'[r] = "succeeded"
         /\ read # "succeeded" => steps'[s] = "succeeded"
BY WritesStep DEF StepStates

(* The validation of a clean claim finds an output, whoever started it. *)
LEMMA NextExtracted ==
  ASSUME IntakeInv, ResultTask, Untroubled, Extracted, Clean, Clean', [IntakeNext]_ivars
  PROVE  Extracted'
<1>1. IInv /\ Records /\ txn \in [Txns -> Transactions] /\ attempts \in [Steps -> SUBSET AttemptType]
  BY DEF IntakeInv, IInv, TxnTypeOK, TypeOK, AttemptType
<1>2. extract \in Steps /\ validate \in Steps /\ validate = extract + 1 /\ validate # 1
  BY FiveSteps DEF extract, validate
<1>3. CASE UNCHANGED <<vars, docs, result, unread>>
  BY <1>3 DEF vars, rows, Extracted
<1>4. CASE Start /\ UNCHANGED <<docs, intake>>
  <2>1. attempts'[validate] = attempts[validate]
    BY <1>1, <1>2, <1>4 DEF Start
  <2>2. UNCHANGED <<result, txn, steps>>
    BY <1>4 DEF Start, intake
  <2>3. QED
    BY <2>1, <2>2 DEF Extracted
<1>5. ASSUME NEW t \in Txns, UNCHANGED <<docs, intake>>, AdvanceSucceeded(t)
      PROVE  Extracted'
  <2>1. PICK s \in Steps : s = txn[t].s /\ txn[t].op = "succeeded" /\ txn[t].n \in Numbers
    BY <1>1, <1>5, AnswerFields DEF AdvanceSucceeded, AnswerOps, StepResults
  <2>2. SetStep(s, txn[t].step, "succeeded") /\ UNCHANGED result /\ Done(t)
    BY <1>5, <2>1 DEF AdvanceSucceeded, intake
  <2>3. /\ steps[extract] = "succeeded" => steps'[extract] = "succeeded"
        /\ txn[t].step # "succeeded" => steps'[s] = "succeeded"
    BY <1>1, <1>2, <2>2, StepStaysSucceeded
  <2>4. ASSUME NEW u \in Txns, txn'[u].op = "succeeded", txn'[u].s = extract
        PROVE  /\ result'[<<extract, txn'[u].n>>].status = "succeeded"
               /\ txn'[u].step = "succeeded" => steps'[extract] = "succeeded"
    <3>1. txn'[u] = txn[u]
      BY <1>1, <2>2, <2>4 DEF Done, NoTxn
    <3>2. QED
      BY <2>2, <2>3, <2>4, <3>1 DEF Extracted
  <2>5. ASSUME attempts'[validate] # {}
        PROVE  /\ steps'[extract] = "succeeded"
               /\ \E n \in Numbers : result'[<<extract, n>>].status = "succeeded"
    <3>1. CASE attempts[validate] # {}
      BY <2>2, <2>3, <3>1 DEF Extracted
    <3>2. CASE attempts[validate] = {}
      <4>1. s + 1 = validate
        BY <1>1, <1>2, <1>5, <2>1, <2>5, <3>2 DEF AdvanceSucceeded, Completes, Continues
      <4>2. s = extract
        BY <4>1 DEF Steps, extract, validate
      <4>3. QED
        BY <2>1, <2>2, <2>3, <4>2 DEF Extracted
    <3>3. QED
      BY <3>1, <3>2
  <2>6. QED
    BY <2>4, <2>5 DEF Extracted
<1>6. ASSUME NEW t \in Txns, UNCHANGED <<docs, intake>>, Rollback(t)
      PROVE  Extracted'
  <2>1. UNCHANGED <<attempts, result, steps>> /\ Done(t)
    BY <1>6 DEF Rollback, rows, intake
  <2>2. \A u \in Txns : txn'[u].op = "succeeded" => txn'[u] = txn[u]
    BY <1>1, <2>1 DEF Done, NoTxn
  <2>3. QED
    BY <2>1, <2>2 DEF Extracted
<1>7. ASSUME NEW t \in Txns, UNCHANGED <<docs, intake>>, NEW s \in Steps, NEW n \in Numbers,
             result[<<s, n>>].status = "succeeded", AdvanceLoad(t, s, n, "succeeded")
      PROVE  Extracted'
  <2>1. UNCHANGED <<attempts, result, steps>>
    BY <1>7 DEF AdvanceLoad, rows, intake
  <2>2. \A u \in Txns : \/ txn'[u] = txn[u]
                        \/ txn'[u].s = s /\ txn'[u].n = n /\ txn'[u].step = steps[s]
    BY <1>1, <1>7 DEF AdvanceLoad, Open
  <2>3. QED
    BY <1>7, <2>1, <2>2 DEF Extracted
<1>8. ASSUME NEW t \in Txns, Execute(t)
      PROVE  Extracted'
  <2>1. PICK s \in Steps, n \in Numbers :
           /\ s = txn[t].s /\ n = txn[t].number
           /\ result'[<<s, n>>].status = "succeeded"
           /\ \A k \in Steps \X Numbers : k # <<s, n>> => result'[k] = result[k]
    BY <1>8, CleanHandled
  <2>2. ASSUME NEW m \in Numbers, result[<<extract, m>>].status = "succeeded"
        PROVE  result'[<<extract, m>>].status = "succeeded"
    <3>1. CASE <<extract, m>> = <<s, n>>
      BY <2>1, <3>1
    <3>2. CASE <<extract, m>> # <<s, n>>
      BY <1>2, <2>1, <2>2, <3>2
    <3>3. QED
      BY <3>1, <3>2
  <2>3. steps[extract] = "succeeded" => steps'[extract] = "succeeded"
    <3>1. PICK r \in Handle(s) :
             /\ result' = [result EXCEPT ![<<s, n>>] = r]
             /\ ProcessOutcome(t, StepState(r.status))
      BY <1>8, <2>1 DEF Execute
    <3>2. r.status = "succeeded"
      BY <1>1, <2>1, <3>1 DEF Records
    <3>3. SetStep(s, txn[t].step, "succeeded")
      BY <2>1, <3>1, <3>2 DEF StepState, ProcessOutcome
    <3>4. QED
      BY <1>1, <1>2, <3>3, StepStaysSucceeded
  <2>4. \A u \in Txns : txn[u].op = "succeeded" => txn[u].n \in Numbers
    BY <1>1, AnswerFields DEF AnswerOps, StepResults
  <2>5. UNCHANGED attempts /\ Done(t)
    BY <1>8 DEF Execute, ProcessOutcome
  <2>6. \A u \in Txns : txn'[u].op = "succeeded" => txn'[u] = txn[u]
    BY <1>1, <2>5 DEF Done, NoTxn
  <2>7. QED
    BY <2>2, <2>3, <2>4, <2>5, <2>6 DEF Extracted
<1>9. ASSUME NEW t \in Txns, NEW s \in Steps, NEW n \in Numbers, ExecuteLoad(t, s, n)
      PROVE  Extracted'
  <2>1. UNCHANGED <<attempts, result, steps>>
    BY <1>9, LoadWaits DEF rows
  <2>2. \A u \in Txns : txn'[u] = txn[u] \/ txn'[u].op = "execute"
    BY <1>1, <1>9 DEF ExecuteLoad, ProcessLoad, Open
  <2>3. QED
    BY <2>1, <2>2 DEF Extracted
<1>10. QED
  BY <1>3, <1>4, <1>5, <1>6, <1>7, <1>8, <1>9, UntroubledSteps

(* CleanClaimAccepted: a claim that is acceptable however it is read, that      *)
(* needs no enhancement and whose payloads could always be read, is never       *)
(* escalated and never fails, whatever is executed and answered again.          *)
THEOREM CleanAlwaysAccepted == IntakeSpec => []CleanClaimAccepted
<1> DEFINE Inv == IntakeInv /\ ResultTask /\ (Clean => Untroubled /\ Extracted)
<1>1. IntakeInit => Inv
  <2> SUFFICES ASSUME IntakeInit PROVE Inv
    OBVIOUS
  <2>1. IntakeInv /\ ResultTask
    BY InitIntakeInv DEF IntakeInit, Init, ResultTask, NotExecuted, NoTxn
  <2>2. Untroubled
    BY DEF IntakeInit, Init, Untroubled, QuietOps, NotExecuted, NoTxn, HumanDecided, Of
  <2>3. Extracted
    BY FiveSteps DEF IntakeInit, Init, Extracted, NoTxn
  <2>4. QED
    BY <2>1, <2>2, <2>3
<1>2. Inv /\ [IntakeNext]_ivars => Inv'
  <2> SUFFICES ASSUME Inv, [IntakeNext]_ivars PROVE Inv'
    OBVIOUS
  <2>1. IntakeInv' /\ ResultTask'
    BY NextLifecycle, NextRecords, NextResultsSound, NextApproval, NextResultTask DEF IntakeInv
  <2>2. ASSUME Clean' PROVE Clean
    <3>1. Extractions' = Extractions /\ unread \subseteq unread'
      BY DocumentsKept, SameDocuments, UnreadGrows
    <3>2. QED
      BY <2>2, <3>1 DEF Clean, Acceptable
  <2>3. QED
    BY <2>1, <2>2, NextUntroubled, NextExtracted
<1>3. Inv => CleanClaimAccepted
  BY DEF Clean, Untroubled, CleanClaimAccepted
<1>4. QED
  BY <1>1, <1>2, <1>3, PTL DEF IntakeSpec
=============================================================================
