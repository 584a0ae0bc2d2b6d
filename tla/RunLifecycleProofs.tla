------------------------- MODULE RunLifecycleProofs -------------------------
(***************************************************************************)
(* RunLifecycle for every workflow definition, number of transactions and  *)
(* number of redeliveries: attempts are bounded, the audit trail accounts  *)
(* for the rows, and cases are claimed once, while workers execute.        *)
(***************************************************************************)
EXTENDS RunLifecycle, FiniteSetTheorems, TLAPS

(* A set of numbers up to ten has a greatest one. *)
LEMMA GreatestExists ==
  ASSUME NEW S \in SUBSET (1..10), S # {}
  PROVE  \E x \in S : \A y \in S : y <= x
<1> SUFFICES ASSUME \A x \in S : \E y \in S : ~(y <= x)
             PROVE  FALSE
  OBVIOUS
<1>1. 10 \notin S
  OBVIOUS
<1>2. 9 \notin S
  BY <1>1
<1>3. 8 \notin S
  BY <1>1, <1>2
<1>4. 7 \notin S
  BY <1>1, <1>2, <1>3
<1>5. 6 \notin S
  BY <1>1, <1>2, <1>3, <1>4
<1>6. 5 \notin S
  BY <1>1, <1>2, <1>3, <1>4, <1>5
<1>7. 4 \notin S
  BY <1>1, <1>2, <1>3, <1>4, <1>5, <1>6
<1>8. 3 \notin S
  BY <1>1, <1>2, <1>3, <1>4, <1>5, <1>6, <1>7
<1>9. 2 \notin S
  BY <1>1, <1>2, <1>3, <1>4, <1>5, <1>6, <1>7, <1>8
<1>10. 1 \notin S
  BY <1>1, <1>2, <1>3, <1>4, <1>5, <1>6, <1>7, <1>8, <1>9
<1>11. PICK y : y \in S
  OBVIOUS
<1>12. y \in 1..10
  BY <1>11
<1>13. y # 10 /\ y # 9 /\ y # 8 /\ y # 7 /\ y # 6 /\ y # 5 /\ y # 4 /\ y # 3 /\ y # 2 /\ y # 1
  BY <1>1, <1>2, <1>3, <1>4, <1>5, <1>6, <1>7, <1>8, <1>9, <1>10, <1>11
<1>14. QED
  BY <1>12, <1>13

(* The greatest number of attempts is that of a step. *)
LEMMA MostAttempts ==
  LET m == Max({max_attempts[s] : s \in Steps})
  IN  m \in 1..10 /\ \A s \in Steps : max_attempts[s] \in 1..10 /\ max_attempts[s] <= m
<1> DEFINE S == {max_attempts[s] : s \in Steps}
<1>1. S \subseteq 1..10
  BY LifecycleAssumption
<1>2. 1 \in Steps
  BY LifecycleAssumption DEF Steps
<1>3. max_attempts[1] \in S
  BY <1>2
<1>4. \E x \in S : \A y \in S : y <= x
  BY <1>1, <1>3, GreatestExists
<1> HIDE DEF S
<1>5. Max(S) \in S /\ \A y \in S : y <= Max(S)
  BY <1>4 DEF Max
<1>6. QED
  BY <1>1, <1>5, LifecycleAssumption DEF S

-----------------------------------------------------------------------------
(* The invariant *)

(* The states of the rows. *)
RunStates == {"pending", "running", "awaiting_human", "completed", "failed", "cancelled"}

StepStates == {"queued", "succeeded", "failed_retryable", "failed_terminal"}

CaseStates == {"none", "open", "claimed", "resolved", "rejected"}

(* What a transaction reads of the run: it exists. *)
RunRead == [state : RunStates, version : Nat, step : Steps]

(* The transactions, by what was called. *)
AdvanceTxn == [op : StepResults, s : Steps, n : Numbers, run : RunRead, step : StepStates]
RetryTxn == [op : {"retry"}, s : Steps, n : Numbers, run : RunRead, step : StepStates, count : Nat]
CaseTxn == [op : {"resolve", "reject"}, s : Steps]
LockedTxn == [op : {"resolved", "rejected"}, s : Steps, run : RunRead]
ResumeTxn == [op : {"resume"}, s : Steps, run : RunRead, step : StepStates, esc : CaseStates]
CancelTxn == [op : {"cancel", "cancel_workflow"}, run : RunRead]
ExecuteTxn == [op : {"execute"}, s : Steps, number : Numbers, step : StepStates]

Transactions ==
  AdvanceTxn \cup RetryTxn \cup CaseTxn \cup LockedTxn \cup ResumeTxn \cup CancelTxn \cup ExecuteTxn
    \cup {NoTxn}

TxnTypeOK == txn \in [Txns -> Transactions]

CaseOps == {"resolve", "reject", "resolved", "rejected", "resume"}

StepOps == StepResults \cup {"retry", "resume", "execute"}

(* A run that does not exist has no rows and no transactions. *)
Fresh ==
  run.step = 0 =>
    /\ run.state = "pending"
    /\ \A s \in Steps : attempts[s] = {} /\ esc[s].state = "none"
    /\ \A e \in EventTypes : trail[e] = 0
    /\ \A t \in Txns : txn[t] = NoTxn

(* The number of an attempt made by the system is one of those allowed. *)
NumbersBounded ==
  /\ \A s \in Steps : IsFiniteSet(attempts[s])
  /\ \A s \in Steps : \A a \in attempts[s] : a.origin = "system" => a.number \in 1..max_attempts[s]
  /\ \A t \in Txns : txn[t].op = "retry" => txn[t].count < max_attempts[txn[t].s]

(* A row of a step, or a transaction about it, is there only when the step    *)
(* has been started.                                                          *)
Started ==
  /\ \A s \in Steps : esc[s].state # "none" => attempts[s] # {}
  /\ \A t \in Txns :
       /\ txn[t].op \in CaseOps => esc[txn[t].s].state # "none"
       /\ txn[t].op \in StepOps => attempts[txn[t].s] # {}

(* The row lock on a case has one holder, who adds an attempt that is not     *)
(* there yet.                                                                 *)
LockHeldOnce ==
  \A t, u \in Txns :
    /\ txn[t].op = "resolved" => ~Taken(txn[t].s, HumanNumber)
    /\ (/\ txn[t].op \in {"resolved", "rejected"} /\ txn[u].op \in {"resolved", "rejected"}
        /\ txn[t].s = txn[u].s) => t = u

(* A case is nobody's until it is claimed. *)
Unclaimed == \A s \in Steps : esc[s].state \in {"none", "open"} => esc[s].by = None

(* The trail accounts for the rows, which are finite. *)
Accounted ==
  /\ IsFiniteSet(SystemAttempts) /\ IsFiniteSet(HumanAttempts)
  /\ AuditMatchesRows

(* The inductive invariant. *)
IInv ==
  /\ TypeOK
  /\ TxnTypeOK
  /\ Fresh
  /\ NumbersBounded
  /\ Started
  /\ LockHeldOnce
  /\ Unclaimed
  /\ Accounted

AttemptType == [number : Numbers, origin : {"system", "human"}]

(* The attempts that a step adds: some of the system's, some of a human's. *)
Grows(sys, hum) ==
  \A s \in Steps : \A a : a \in attempts'[s] <=> a \in attempts[s] \/ <<s, a>> \in sys \/ <<s, a>> \in hum

(* Nothing, or one attempt that is not there, with a number that is allowed.   *)
SystemNew(sys) ==
  \/ sys = {}
  \/ \E s \in Steps : \E n \in 1..max_attempts[s] :
       sys = {<<s, Attempt(n, "system")>>} /\ ~Taken(s, n)

HumanNew(hum) ==
  \/ hum = {}
  \/ \E s \in Steps : \E n \in Numbers :
       hum = {<<s, Attempt(n, "human")>>} /\ ~Taken(s, n)

(* The events that record an attempt of the system. *)
SystemTypes == {"workflow_run.started", "step.advanced", "step_attempt.retry_scheduled"}

SystemEvents ==
  trail["workflow_run.started"] + trail["step.advanced"] + trail["step_attempt.retry_scheduled"]

-----------------------------------------------------------------------------
(* The attempts and their number *)

(* The numbers that the system uses are numbers. *)
LEMMA SystemNumbers ==
  \A s \in Steps : 1..max_attempts[s] \subseteq Numbers /\ HumanNumber \notin 1..max_attempts[s]
<1> SUFFICES ASSUME NEW s \in Steps
             PROVE  1..max_attempts[s] \subseteq Numbers /\ HumanNumber \notin 1..max_attempts[s]
  OBVIOUS
<1> DEFINE m == Max({max_attempts[r] : r \in Steps})
<1>1. m \in 1..10 /\ max_attempts[s] \in 1..10 /\ max_attempts[s] <= m
  BY MostAttempts
<1>2. Numbers = 1..(m + MaxResolutions) \cup {HumanNumber}
  BY DEF Numbers
<1> HIDE DEF m
<1>3. MaxResolutions \in Nat
  BY LifecycleAssumption
<1>4. QED
  BY <1>1, <1>2, <1>3 DEF HumanNumber

(* What a step that adds attempts adds to the sets that the trail counts. *)
LEMMA CountGrows ==
  ASSUME IInv, NEW sys, NEW hum, SystemNew(sys), HumanNew(hum), Grows(sys, hum)
  PROVE  /\ IsFiniteSet(SystemAttempts') /\ IsFiniteSet(HumanAttempts')
         /\ Cardinality(SystemAttempts') = Cardinality(SystemAttempts) + (IF sys = {} THEN 0 ELSE 1)
         /\ Cardinality(HumanAttempts') = Cardinality(HumanAttempts) + (IF hum = {} THEN 0 ELSE 1)
<1>1. /\ \A x : x \in SystemAttempts <=> \E s \in Steps : \E a \in attempts[s] : a.origin = "system" /\ x = <<s, a>>
      /\ \A x : x \in HumanAttempts <=> \E s \in Steps : \E a \in attempts[s] : a.origin = "human" /\ x = <<s, a>>
  BY DEF SystemAttempts, HumanAttempts, Of
<1>2. /\ \A x : x \in SystemAttempts' <=> \E s \in Steps : \E a \in attempts'[s] : a.origin = "system" /\ x = <<s, a>>
      /\ \A x : x \in HumanAttempts' <=> \E s \in Steps : \E a \in attempts'[s] : a.origin = "human" /\ x = <<s, a>>
  BY DEF SystemAttempts, HumanAttempts, Of
<1>3. /\ \A x \in sys : \E s \in Steps, n \in Numbers : x = <<s, Attempt(n, "system")>> /\ ~Taken(s, n)
      /\ \A x \in hum : \E s \in Steps, n \in Numbers : x = <<s, Attempt(n, "human")>> /\ ~Taken(s, n)
  BY SystemNumbers DEF SystemNew, HumanNew
<1>4. \A n, o : Attempt(n, o).number = n /\ Attempt(n, o).origin = o
  BY DEF Attempt
<1>5. SystemAttempts' = SystemAttempts \cup sys
  BY <1>1, <1>2, <1>3, <1>4 DEF Grows
<1>6. HumanAttempts' = HumanAttempts \cup hum
  BY <1>1, <1>2, <1>3, <1>4 DEF Grows
<1>7. (\A x \in sys : x \notin SystemAttempts) /\ (\A x \in hum : x \notin HumanAttempts)
  BY <1>1, <1>3, <1>4 DEF Taken
<1>8. /\ IsFiniteSet(SystemAttempts) /\ IsFiniteSet(HumanAttempts)
      /\ Cardinality(SystemAttempts) \in Nat /\ Cardinality(HumanAttempts) \in Nat
  BY FS_CardinalityType DEF IInv, Accounted
<1>9. /\ IsFiniteSet(SystemAttempts')
      /\ Cardinality(SystemAttempts') = Cardinality(SystemAttempts) + (IF sys = {} THEN 0 ELSE 1)
  <2>1. CASE sys = {}
    <3>1. SystemAttempts' = SystemAttempts
      BY <1>5, <2>1
    <3>2. QED
      BY <1>8, <2>1, <3>1
  <2>2. CASE sys # {}
    <3>1. PICK x : sys = {x}
      BY <2>2 DEF SystemNew
    <3>2. SystemAttempts' = SystemAttempts \cup {x} /\ x \notin SystemAttempts
      BY <1>5, <1>7, <3>1
    <3>3. QED
      BY <1>8, <2>2, <3>2, FS_AddElement
  <2>3. QED
    BY <2>1, <2>2
<1>10. /\ IsFiniteSet(HumanAttempts')
       /\ Cardinality(HumanAttempts') = Cardinality(HumanAttempts) + (IF hum = {} THEN 0 ELSE 1)
  <2>1. CASE hum = {}
    <3>1. HumanAttempts' = HumanAttempts
      BY <1>6, <2>1
    <3>2. QED
      BY <1>8, <2>1, <3>1
  <2>2. CASE hum # {}
    <3>1. PICK x : hum = {x}
      BY <2>2 DEF HumanNew
    <3>2. HumanAttempts' = HumanAttempts \cup {x} /\ x \notin HumanAttempts
      BY <1>6, <1>7, <3>1
    <3>3. QED
      BY <1>8, <2>2, <3>2, FS_AddElement
  <2>3. QED
    BY <2>1, <2>2
<1>11. QED
  BY <1>9, <1>10

(* The bound on the attempts of a step follows from the numbers they have. *)
LEMMA BoundedAttempts ==
  ASSUME IInv
  PROVE  \A s \in Steps : /\ IsFiniteSet(Of(s, "system"))
                          /\ Cardinality(Of(s, "system")) <= max_attempts[s]
<1> SUFFICES ASSUME NEW s \in Steps
             PROVE  /\ IsFiniteSet(Of(s, "system"))
                    /\ Cardinality(Of(s, "system")) <= max_attempts[s]
  OBVIOUS
<1> DEFINE S == Of(s, "system")
           f == [a \in S |-> a.number]
<1>1. max_attempts[s] \in Nat
  BY LifecycleAssumption
<1>2. IsFiniteSet(1..max_attempts[s]) /\ Cardinality(1..max_attempts[s]) = max_attempts[s]
  BY SMTT(60), <1>1, FS_Interval
<1>3. S \subseteq AttemptType /\ \A a \in S : a.origin = "system" /\ a.number \in 1..max_attempts[s]
  BY DEF IInv, TypeOK, NumbersBounded, Of, AttemptType
<1>4. \A a, b \in S : a.number = b.number => a = b
  BY <1>3 DEF AttemptType
<1> HIDE DEF S
<1>5. f \in Injection(S, 1..max_attempts[s])
  BY <1>3, <1>4 DEF Injection, IsInjective
<1>6. IsFiniteSet(S) /\ Cardinality(S) <= Cardinality(1..max_attempts[s])
  BY <1>2, <1>5, FS_Injection
<1>7. QED
  BY <1>2, <1>6 DEF S

(* The number that a resumption gives its attempt is within the bound. *)
LEMMA ResumeNumber ==
  ASSUME IInv, NEW s \in Steps, trail["escalation.resolved"] < MaxResolutions
  PROVE  Cardinality(attempts[s]) + 1 \in Numbers
<1> DEFINE S == Of(s, "system")
           H == Of(s, "human")
           f == [a \in H |-> <<s, a>>]
           m == Max({max_attempts[r] : r \in Steps})
<1>1. IsFiniteSet(S) /\ Cardinality(S) <= max_attempts[s]
  BY BoundedAttempts
<1>2. attempts[s] = S \cup H /\ S \cap H = {}
  BY DEF IInv, TypeOK, Of
<1>3. IsFiniteSet(HumanAttempts) /\ Cardinality(HumanAttempts) < MaxResolutions
  BY DEF IInv, Accounted, AuditMatchesRows
<1>4. \A a \in H : <<s, a>> \in HumanAttempts
  BY DEF HumanAttempts
<1>5. m \in 1..10 /\ max_attempts[s] \in 1..10 /\ max_attempts[s] <= m
  BY MostAttempts
<1>6. 1..(m + MaxResolutions) \subseteq Numbers
  BY DEF Numbers
<1> HIDE DEF S, H, m
<1>7. f \in Injection(H, HumanAttempts)
  BY <1>4 DEF Injection, IsInjective
<1>8. IsFiniteSet(H) /\ Cardinality(H) <= Cardinality(HumanAttempts)
  BY <1>3, <1>7, FS_Injection
<1>9. Cardinality(attempts[s]) = Cardinality(S) + Cardinality(H) - Cardinality(S \cap H)
  BY <1>1, <1>2, <1>8, FS_Union
<1>10. Cardinality(S \cap H) = 0
  BY <1>2, FS_EmptySet
<1>11. Cardinality(S) \in Nat /\ Cardinality(H) \in Nat /\ Cardinality(HumanAttempts) \in Nat
  BY <1>1, <1>3, <1>8, FS_CardinalityType
<1>12. MaxResolutions \in Nat
  BY LifecycleAssumption
<1>13. Cardinality(attempts[s]) + 1 \in 1..(m + MaxResolutions)
  BY <1>1, <1>3, <1>5, <1>8, <1>9, <1>10, <1>11, <1>12
<1>14. QED
  BY <1>6, <1>13

-----------------------------------------------------------------------------
(* Steps that read: only the transaction changes *)

(* What the invariant says of one transaction. *)
Sound(x) ==
  /\ x \in Transactions
  /\ x.op = "retry" => x.count < max_attempts[x.s]
  /\ x.op \in CaseOps => esc[x.s].state # "none"
  /\ x.op \in StepOps => attempts[x.s] # {}
  /\ x.op = "resolved" => ~Taken(x.s, HumanNumber)

(* The invariant holds of each transaction. *)
LEMMA AllSound ==
  ASSUME IInv
  PROVE  \A t \in Txns : Sound(txn[t])
BY DEF IInv, TxnTypeOK, NumbersBounded, Started, LockHeldOnce, Sound

(* A transaction that does nothing is no obstacle. *)
LEMMA IdleSound == Sound(NoTxn)
BY DEF Sound, Transactions, NoTxn, CaseOps, StepOps, StepResults

(* A step that leaves the rows alone and gives one transaction a sound content *)
(* keeps the invariant.                                                        *)
LEMMA Load ==
  ASSUME IInv, NEW t \in Txns, NEW x, Sound(x), UNCHANGED rows,
         redelivered' \in 0..MaxRedeliveries,
         run.step # 0,
         x.op \in {"resolved", "rejected"} => ~EscLocked(x.s),
         txn' = [txn EXCEPT ![t] = x]
  PROVE  IInv'
<1>1. /\ UNCHANGED <<run, steps, attempts, answered, esc, trail>>
      /\ DOMAIN txn = Txns
      /\ txn'[t] = x
      /\ \A u \in Txns : u # t => txn'[u] = txn[u]
  BY DEF rows, IInv, TxnTypeOK
<1>2. \A u \in Txns : Sound(txn[u])
  BY AllSound
<1>3. \A u \in Txns : txn'[u] = x \/ txn'[u] = txn[u]
  BY <1>1
<1>4. \A u \in Txns : Sound(txn'[u])
  BY <1>2, <1>3
<1>5. TypeOK'
  BY <1>1 DEF IInv, TypeOK
<1>6. TxnTypeOK'
  BY <1>4 DEF IInv, TxnTypeOK, Sound
<1>7. Fresh'
  BY <1>1 DEF Fresh
<1>8. NumbersBounded'
  BY <1>1, <1>4 DEF IInv, NumbersBounded, Sound
<1>9. Started'
  BY <1>1, <1>4 DEF IInv, Started, Sound
<1>10. LockHeldOnce'
  <2>1. \A u \in Txns : (txn[u].op = "resolved" => ~Taken(txn[u].s, HumanNumber))'
    BY <1>1, <1>4 DEF Sound, Taken
  <2>2. ASSUME NEW u \in Txns, NEW v \in Txns,
               txn'[u].op \in {"resolved", "rejected"}, txn'[v].op \in {"resolved", "rejected"},
               txn'[u].s = txn'[v].s
        PROVE  u = v
    <3>1. CASE u = t /\ v # t
      BY <1>1, <2>2, <3>1 DEF EscLocked
    <3>2. CASE u # t /\ v = t
      BY <1>1, <2>2, <3>2 DEF EscLocked
    <3>3. CASE u # t /\ v # t
      BY <1>1, <2>2, <3>3 DEF IInv, LockHeldOnce
    <3>4. QED
      BY <3>1, <3>2, <3>3
  <2>3. QED
    BY <2>1, <2>2 DEF LockHeldOnce
<1>11. Unclaimed'
  BY <1>1 DEF IInv, Unclaimed
<1>12. Accounted'
  BY <1>1 DEF IInv, Accounted, AuditMatchesRows, SystemAttempts, HumanAttempts, Of
<1>13. QED
  BY <1>5, <1>6, <1>7, <1>8, <1>9, <1>10, <1>11, <1>12 DEF IInv

(* A run that has been read exists. *)
LEMMA Exists ==
  ASSUME IInv
  PROVE  /\ (\E s \in Steps : attempts[s] # {}) => run.step # 0
         /\ (\E s \in Steps : esc[s].state # "none") => run.step # 0
         /\ (\E t \in Txns : txn[t] # NoTxn) => run.step # 0
         /\ run.state # "pending" => run.step # 0
         /\ run.step # 0 => run \in RunRead
<1>1. run.step # 0 => run \in RunRead
  BY DEF IInv, TypeOK, RunRead, RunStates, Steps
<1>2. QED
  BY <1>1 DEF IInv, Fresh

(* A rollback ends the transaction. *)
LEMMA RollbackKeeps ==
  ASSUME IInv, NEW t \in Txns, Rollback(t)
  PROVE  IInv'
<1>1. run.step # 0
  BY Exists DEF Rollback
<1>2. redelivered' \in 0..MaxRedeliveries
  BY DEF Rollback, IInv, TypeOK
<1>3. QED
  BY <1>1, <1>2, IdleSound, Load DEF Rollback, Done, NoTxn

(* A worker reads the attempt and the step of its task. *)
LEMMA ProcessLoadKeeps ==
  ASSUME IInv, NEW t \in Txns, NEW s \in Steps, NEW n \in Numbers, ProcessLoad(t, s, n)
  PROVE  IInv'
<1> DEFINE x == [op |-> "execute", s |-> s, number |-> n, step |-> steps[s]]
<1>1. attempts[s] # {}
  BY DEF ProcessLoad
<1>2. run.step # 0
  BY <1>1, Exists
<1>3. redelivered' \in 0..MaxRedeliveries
  BY DEF ProcessLoad, IInv, TypeOK
<1>4. steps[s] \in StepStates
  BY DEF IInv, TypeOK, StepStates
<1>5. x \in ExecuteTxn
  BY <1>4 DEF ExecuteTxn
<1>6. Sound(x)
  BY <1>1, <1>5 DEF Sound, Transactions, CaseOps
<1>7. txn' = [txn EXCEPT ![t] = x] /\ UNCHANGED rows
  BY DEF ProcessLoad, Open
<1>8. x.op \notin {"resolved", "rejected"}
  OBVIOUS
<1> HIDE DEF x
<1>9. QED
  BY <1>2, <1>3, <1>6, <1>7, <1>8, Load

(* advance_workflow reads the run and the step of its task. *)
LEMMA AdvanceLoadKeeps ==
  ASSUME IInv, NEW t \in Txns, NEW s \in Steps, NEW n \in Numbers, NEW result \in StepResults,
         AdvanceLoad(t, s, n, result)
  PROVE  IInv'
<1> DEFINE x == [op |-> result, s |-> s, n |-> n, run |-> run, step |-> steps[s]]
<1>1. attempts[s] # {}
  BY DEF AdvanceLoad
<1>2. run.step # 0 /\ run \in RunRead
  BY <1>1, Exists
<1>3. redelivered' \in 0..MaxRedeliveries
  BY LifecycleAssumption DEF AdvanceLoad, Delivered, IInv, TypeOK
<1>4. steps[s] \in StepStates
  BY DEF IInv, TypeOK, StepStates
<1>5. x \in AdvanceTxn
  BY <1>2, <1>4 DEF AdvanceTxn
<1>7. Sound(x)
  BY <1>1, <1>5 DEF Sound, Transactions, StepResults, CaseOps
<1>8. txn' = [txn EXCEPT ![t] = x] /\ UNCHANGED rows
  BY DEF AdvanceLoad, Open
<1>9. x.op \notin {"resolved", "rejected"}
  BY DEF StepResults
<1> HIDE DEF x
<1>10. QED
  BY <1>2, <1>3, <1>7, <1>8, <1>9, Load

(* The attempts are counted and the failure is retried or final. *)
LEMMA CountAttemptsKeeps ==
  ASSUME IInv, NEW t \in Txns, CountAttempts(t)
  PROVE  IInv'
<1>1. txn[t].op = "failed_retryable" /\ Sound(txn[t])
  BY AllSound DEF CountAttempts
<1>2. txn[t] \in AdvanceTxn
  BY <1>1 DEF Sound, Transactions, AdvanceTxn, RetryTxn, CaseTxn, LockedTxn, ResumeTxn, CancelTxn, ExecuteTxn, NoTxn
<1>3. txn[t] # NoTxn
  BY <1>1 DEF NoTxn
<1>4. run.step # 0
  BY <1>3, Exists
<1>5. PICK y \in AdvanceTxn : y = txn[t]
  BY <1>2
<1> DEFINE count == Cardinality(attempts[y.s])
           retry == [op |-> "retry", s |-> y.s, n |-> y.n, run |-> y.run, step |-> y.step, count |-> count]
           final == [op |-> "failed_terminal", s |-> y.s, n |-> y.n, run |-> y.run, step |-> y.step]
<1>6. /\ y.op = "failed_retryable" /\ y.s \in Steps /\ y.n \in Numbers /\ y.run \in RunRead
      /\ y.step \in StepStates
      /\ attempts[y.s] # {}
  BY <1>1, <1>5 DEF AdvanceTxn, Sound, StepOps, StepResults
<1>7. [y EXCEPT !.op = "failed_terminal"] = final
  BY <1>5 DEF AdvanceTxn
<1>8. DOMAIN txn = Txns
  BY DEF IInv, TxnTypeOK
<1>9. txn' = [txn EXCEPT ![t] = IF count < max_attempts[y.s] THEN retry ELSE final]
  BY <1>5, <1>7, <1>8 DEF CountAttempts
<1>10. count \in Nat
  BY <1>6, FS_CardinalityType DEF IInv, NumbersBounded
<1>11. CASE count < max_attempts[y.s]
  <2>1. retry \in RetryTxn
    BY <1>6, <1>10 DEF RetryTxn
  <2>2. Sound(retry)
    BY <1>6, <1>11, <2>1 DEF Sound, Transactions, CaseOps
  <2>3. txn' = [txn EXCEPT ![t] = retry] /\ retry.op \notin {"resolved", "rejected"}
    BY <1>9, <1>11
  <2>4. UNCHANGED rows /\ redelivered' \in 0..MaxRedeliveries
    BY DEF CountAttempts, IInv, TypeOK
  <2> HIDE DEF retry
  <2>5. QED
    BY <1>4, <2>2, <2>3, <2>4, Load
<1>12. CASE ~(count < max_attempts[y.s])
  <2>1. final \in AdvanceTxn
    BY <1>6 DEF AdvanceTxn, StepResults
  <2>2. Sound(final)
    BY <1>6, <2>1 DEF Sound, Transactions, CaseOps
  <2>3. txn' = [txn EXCEPT ![t] = final] /\ final.op \notin {"resolved", "rejected"}
    BY <1>9, <1>12
  <2>4. UNCHANGED rows /\ redelivered' \in 0..MaxRedeliveries
    BY DEF CountAttempts, IInv, TypeOK
  <2> HIDE DEF final
  <2>5. QED
    BY <1>4, <2>2, <2>3, <2>4, Load
<1>13. QED
  BY <1>11, <1>12

(* A resumption reads the run, the step and the case. *)
LEMMA ResumeLoadKeeps ==
  ASSUME IInv, NEW t \in Txns, NEW s \in Steps, ResumeLoad(t, s)
  PROVE  IInv'
<1> DEFINE x == [op |-> "resume", s |-> s, run |-> run, step |-> steps[s], esc |-> esc[s].state]
<1>1. esc[s].state # "none" /\ attempts[s] # {}
  BY DEF ResumeLoad, IInv, Started
<1>2. run.step # 0 /\ run \in RunRead
  BY <1>1, Exists
<1>3. redelivered' \in 0..MaxRedeliveries
  BY DEF ResumeLoad, IInv, TypeOK
<1>4. steps[s] \in StepStates /\ esc[s].state \in CaseStates
  BY DEF IInv, TypeOK, StepStates, CaseStates
<1>5. x \in ResumeTxn
  BY <1>2, <1>4 DEF ResumeTxn
<1>7. Sound(x)
  BY <1>1, <1>5 DEF Sound, Transactions
<1>8. txn' = [txn EXCEPT ![t] = x] /\ UNCHANGED rows
  BY DEF ResumeLoad, Open
<1>9. x.op \notin {"resolved", "rejected"}
  OBVIOUS
<1> HIDE DEF x
<1>10. QED
  BY <1>2, <1>3, <1>7, <1>8, <1>9, Load

(* resolve_escalation and reject_escalation check the case. *)
LEMMA CheckClaimKeeps ==
  ASSUME IInv, NEW t \in Txns, NEW op \in {"resolve", "reject"}, NEW actor, NEW s \in Steps,
         CheckClaim(t, op, actor, s)
  PROVE  IInv'
<1> DEFINE x == [op |-> op, s |-> s]
<1>1. esc[s].state # "none"
  BY DEF CheckClaim
<1>2. run.step # 0
  BY <1>1, Exists
<1>3. redelivered' \in 0..MaxRedeliveries
  BY DEF CheckClaim, IInv, TypeOK
<1>4. x \in CaseTxn
  BY DEF CaseTxn
<1>5. Sound(x)
  BY <1>1, <1>4 DEF Sound, Transactions, StepOps, StepResults
<1>6. txn' = [txn EXCEPT ![t] = x] /\ UNCHANGED rows
  BY DEF CheckClaim, Open
<1>7. x.op \notin {"resolved", "rejected"}
  OBVIOUS
<1> HIDE DEF x
<1>8. QED
  BY <1>2, <1>3, <1>5, <1>6, <1>7, Load

(* The case is locked by its first writer, who then reads the run. *)
LEMMA LockCaseKeeps ==
  ASSUME IInv, NEW t \in Txns, NEW op, NEW locked, LockCase(t, op, locked),
         (op = "resolve" /\ locked = "resolved") \/ (op = "reject" /\ locked = "rejected")
  PROVE  IInv'
<1>1. txn[t].op = op /\ Sound(txn[t])
  BY AllSound DEF LockCase
<1>2. txn[t] \in CaseTxn
  BY <1>1 DEF Sound, Transactions, AdvanceTxn, RetryTxn, CaseTxn, LockedTxn, ResumeTxn, CancelTxn, ExecuteTxn, NoTxn,
         StepResults
<1>3. txn[t] # NoTxn
  BY <1>1 DEF NoTxn
<1>4. run.step # 0 /\ run \in RunRead
  BY <1>3, Exists
<1>5. PICK y \in CaseTxn : y = txn[t]
  BY <1>2
<1>6. y.s \in Steps /\ esc[y.s].state # "none"
  BY <1>1, <1>5 DEF CaseTxn, Sound, CaseOps
<1> DEFINE x == [op |-> locked, s |-> y.s, run |-> run]
<1>7. x \in LockedTxn
  BY <1>4, <1>6 DEF LockedTxn
<1>8. locked = "resolved" => ~Taken(y.s, HumanNumber)
  BY <1>5 DEF LockCase
<1>9. Sound(x)
  BY <1>6, <1>7, <1>8 DEF Sound, Transactions, StepOps, StepResults
<1>10. DOMAIN txn = Txns
  BY DEF IInv, TxnTypeOK
<1>11. txn' = [txn EXCEPT ![t] = x] /\ UNCHANGED rows
  BY <1>5, <1>10 DEF LockCase
<1>12. ~EscLocked(x.s)
  BY <1>5 DEF LockCase
<1>13. redelivered' \in 0..MaxRedeliveries
  BY DEF LockCase, IInv, TypeOK
<1> HIDE DEF x
<1>14. QED
  BY <1>4, <1>9, <1>11, <1>12, <1>13, Load

(* A cancellation reads the run. *)
LEMMA CancelLoadKeeps ==
  ASSUME IInv, NEW t \in Txns, NEW op \in {"cancel", "cancel_workflow"}, CancelLoad(t, op)
  PROVE  IInv'
<1> DEFINE x == [op |-> op, run |-> run]
<1>1. run.step # 0 /\ run \in RunRead
  BY Exists DEF CancelLoad, Cancellable
<1>2. x \in CancelTxn
  BY <1>1 DEF CancelTxn
<1>3. Sound(x)
  BY <1>2 DEF Sound, Transactions, CaseOps, StepOps, StepResults
<1>4. txn' = [txn EXCEPT ![t] = x] /\ UNCHANGED rows
  BY DEF CancelLoad, Open
<1>5. x.op \notin {"resolved", "rejected"}
  OBVIOUS
<1>6. redelivered' \in 0..MaxRedeliveries
  BY DEF CancelLoad, IInv, TypeOK
<1> HIDE DEF x
<1>7. QED
  BY <1>1, <1>3, <1>4, <1>5, <1>6, Load

-----------------------------------------------------------------------------
(* Steps that commit: a transaction ends and rows are written *)

(* The transactions that remain, none of which waits to add what hum adds.    *)
Ends(hum) ==
  /\ txn' = [u \in Txns |-> txn'[u]]
  /\ \A u \in Txns : txn'[u] \in {txn[u], NoTxn}
  /\ \A u \in Txns : txn'[u].op = "resolved" =>
       <<txn[u].s, Attempt(HumanNumber, "human")>> \notin hum

(* The states that steps may have.                                            *)
StepsTyped == steps' \in [Steps -> StepStates]

(* The cases that are there, and the one that is opened, of a started step.   *)
CasesGrow(opened) ==
  /\ esc' \in [Steps -> [state : CaseStates, by : Actors \cup {None}]]
  /\ \A s \in Steps : esc'[s].state # "none" <=> esc[s].state # "none" \/ s \in opened
  /\ \/ opened = {}
     \/ \E s \in Steps : opened = {s} /\ esc[s].state = "none" /\ attempts[s] # {}
  /\ \A s \in Steps : esc'[s].state \in {"none", "open"} => esc'[s].by = None

One(S) == IF S = {} THEN 0 ELSE 1

(* The trail counts what was added.                                           *)
TrailFollows(sys, hum, opened) ==
  /\ trail' \in [EventTypes -> Nat]
  /\ SystemEvents' = SystemEvents + One(sys)
  /\ trail'["escalation.resolved"] = trail["escalation.resolved"] + One(hum)
  /\ trail'["escalation.created"] = trail["escalation.created"] + One(opened)

(* What a step that opens a case adds to the cases that the trail counts. *)
LEMMA CountCases ==
  ASSUME NEW opened, CasesGrow(opened)
  PROVE  Cardinality({s \in Steps : esc'[s].state # "none"})
           = Cardinality({s \in Steps : esc[s].state # "none"}) + One(opened)
<1> DEFINE C == {s \in Steps : esc[s].state # "none"}
           D == {s \in Steps : esc'[s].state # "none"}
<1>1. IsFiniteSet(Steps)
  BY FS_Interval, LifecycleAssumption DEF Steps
<1>2. IsFiniteSet(C)
  BY <1>1, FS_Subset
<1>3. Cardinality(C) \in Nat
  BY <1>2, FS_CardinalityType
<1>4. CASE opened = {}
  <2>1. D = C
    BY <1>4 DEF CasesGrow
  <2> HIDE DEF C, D
  <2>2. Cardinality(D) = Cardinality(C) + 0
    BY <1>3, <2>1
  <2>3. QED
    BY <1>4, <2>2 DEF One, C, D
<1>5. CASE opened # {}
  <2>1. PICK s \in Steps : opened = {s} /\ esc[s].state = "none"
    BY <1>5 DEF CasesGrow
  <2>2. D = C \cup {s} /\ s \notin C
    BY <2>1 DEF CasesGrow
  <2> HIDE DEF C, D
  <2>3. Cardinality(D) = Cardinality(C) + 1
    BY <1>2, <2>2, FS_AddElement
  <2>4. QED
    BY <1>5, <2>3 DEF One, C, D
<1>6. QED
  BY <1>4, <1>5

(* A step that ends a transaction and writes rows in this way keeps the       *)
(* invariant.                                                                 *)
LEMMA Commit ==
  ASSUME IInv, NEW sys, NEW hum, NEW opened,
         SystemNew(sys), HumanNew(hum), Grows(sys, hum),
         attempts' \in [Steps -> SUBSET AttemptType],
         Ends(hum), StepsTyped, CasesGrow(opened), TrailFollows(sys, hum, opened),
         run' \in RunRead,
         answered' \subseteq Steps \X Numbers,
         redelivered' = redelivered
  PROVE  IInv'
<1>1. \A s \in Steps : attempts[s] \subseteq attempts'[s]
  BY DEF Grows
<1>2. \A s \in Steps : \A a \in attempts'[s] : a \in attempts[s] \/ <<s, a>> \in sys \/ <<s, a>> \in hum
  BY DEF Grows
<1>3. \A u \in Txns : Sound(txn[u])
  BY AllSound
<1>4. TypeOK'
  <2>1. run' \in [state : RunStates, version : Nat, step : 0..N]
    BY LifecycleAssumption DEF RunRead, Steps
  <2>2. redelivered' \in 0..MaxRedeliveries
    BY DEF IInv, TypeOK
  <2>3. QED
    BY <2>1, <2>2 DEF TypeOK, AttemptType, RunStates, StepsTyped, StepStates, CasesGrow, CaseStates,
           TrailFollows
<1>5. TxnTypeOK'
  BY <1>3 DEF Ends, TxnTypeOK, Sound, Transactions
<1>6. Fresh'
  BY LifecycleAssumption DEF Fresh, RunRead, Steps
<1>7. \A n, o : Attempt(n, o).number = n /\ Attempt(n, o).origin = o
  BY DEF Attempt
<1>8. \A x \in sys : \E s \in Steps : \E n \in 1..max_attempts[s] : x = <<s, Attempt(n, "system")>>
  BY DEF SystemNew
<1>9. \A x \in hum : \E s \in Steps : \E n \in Numbers : x = <<s, Attempt(n, "human")>>
  BY DEF HumanNew
<1>10. NumbersBounded'
  <2>1. ASSUME NEW s \in Steps
        PROVE  IsFiniteSet(attempts'[s])
    <3> DEFINE A == {a \in attempts'[s] : <<s, a>> \in sys}
               B == {a \in attempts'[s] : <<s, a>> \in hum}
    <3>1. A = {} \/ \E a : A = {a}
      <4>1. CASE sys = {}
        BY <4>1
      <4>2. CASE sys # {}
        <5>1. PICK r, b : sys = {<<r, b>>}
          BY <4>2 DEF SystemNew
        <5>2. A \subseteq {b}
          BY <5>1
        <5>3. QED
          BY <5>2
      <4>3. QED
        BY <4>1, <4>2
    <3>2. B = {} \/ \E a : B = {a}
      <4>1. CASE hum = {}
        BY <4>1
      <4>2. CASE hum # {}
        <5>1. PICK r, b : hum = {<<r, b>>}
          BY <4>2 DEF HumanNew
        <5>2. B \subseteq {b}
          BY <5>1
        <5>3. QED
          BY <5>2
      <4>3. QED
        BY <4>1, <4>2
    <3>3. attempts'[s] = attempts[s] \cup A \cup B
      BY <1>1, <1>2
    <3> HIDE DEF A, B
    <3>4. IsFiniteSet(A) /\ IsFiniteSet(B)
      <4>1. IsFiniteSet({}) /\ \A a : IsFiniteSet({a})
        BY FS_EmptySet, FS_Singleton
      <4>2. QED
        BY <3>1, <3>2, <4>1
    <3>5. IsFiniteSet(attempts[s])
      BY DEF IInv, NumbersBounded
    <3>6. IsFiniteSet(attempts[s] \cup A)
      BY <3>4, <3>5, FS_Union
    <3>7. QED
      BY <3>3, <3>4, <3>6, FS_Union
  <2>2. ASSUME NEW s \in Steps, NEW a \in attempts'[s], a.origin = "system"
        PROVE  a.number \in 1..max_attempts[s]
    <3>1. CASE a \in attempts[s]
      BY <2>2, <3>1 DEF IInv, NumbersBounded
    <3>2. CASE <<s, a>> \in sys
      BY <1>7, <1>8, <3>2
    <3>3. CASE <<s, a>> \in hum
      BY <1>7, <1>9, <2>2, <3>3
    <3>4. QED
      BY <1>2, <3>1, <3>2, <3>3
  <2>3. \A u \in Txns : txn'[u].op = "retry" => txn'[u].count < max_attempts[txn'[u].s]
    BY <1>3 DEF Ends, NoTxn, Sound
  <2>4. QED
    BY <2>1, <2>2, <2>3 DEF NumbersBounded
<1>11. Started'
  <2>1. \A s \in Steps : esc'[s].state # "none" => attempts'[s] # {}
    BY <1>1 DEF CasesGrow, IInv, Started
  <2>3. ASSUME NEW u \in Txns, txn'[u].op \in CaseOps
        PROVE  esc'[txn'[u].s].state # "none"
    <3>1. txn'[u] = txn[u]
      BY <2>3 DEF Ends, NoTxn, CaseOps
    <3>2. txn[u].s \in Steps
      BY <1>3, <2>3, <3>1 DEF Sound, Transactions, AdvanceTxn, RetryTxn, CaseTxn, LockedTxn, ResumeTxn,
             CancelTxn, ExecuteTxn, NoTxn, CaseOps
    <3>3. QED
      BY <1>3, <2>3, <3>1, <3>2 DEF Sound, CasesGrow
  <2>4. ASSUME NEW u \in Txns, txn'[u].op \in StepOps
        PROVE  attempts'[txn'[u].s] # {}
    <3>1. txn'[u] = txn[u]
      BY <2>4 DEF Ends, NoTxn, StepOps, StepResults
    <3>2. txn[u].s \in Steps
      BY <1>3, <2>4, <3>1 DEF Sound, Transactions, AdvanceTxn, RetryTxn, CaseTxn, LockedTxn, ResumeTxn,
             CancelTxn, ExecuteTxn, NoTxn, StepOps, StepResults
    <3>3. QED
      BY <1>1, <1>3, <2>4, <3>1, <3>2 DEF Sound
  <2>5. QED
    BY <2>1, <2>3, <2>4 DEF Started
<1>12. LockHeldOnce'
  <2>1. ASSUME NEW u \in Txns, txn'[u].op = "resolved", NEW a \in attempts'[txn'[u].s],
               a.number = HumanNumber
        PROVE  FALSE
    <3>1. txn'[u] = txn[u]
      BY <2>1 DEF Ends, NoTxn
    <3>2. txn[u].s \in Steps
      BY <1>3, <2>1, <3>1 DEF Sound, Transactions, AdvanceTxn, RetryTxn, CaseTxn, LockedTxn, ResumeTxn,
             CancelTxn, ExecuteTxn, NoTxn
    <3>3. a \notin attempts[txn[u].s]
      BY <2>1, <3>1 DEF IInv, LockHeldOnce, Taken
    <3>4. CASE <<txn[u].s, a>> \in sys
      <4>1. HumanNumber \notin 1..max_attempts[txn[u].s]
        BY <3>2, SystemNumbers
      <4>2. QED
        BY <1>7, <1>8, <2>1, <3>4, <4>1
    <3>5. CASE <<txn[u].s, a>> \in hum
      <4>1. a = Attempt(HumanNumber, "human")
        BY <1>7, <1>9, <2>1, <3>5
      <4>2. QED
        BY <2>1, <3>5, <4>1 DEF Ends
    <3>6. QED
      BY <1>2, <2>1, <3>1, <3>2, <3>3, <3>4, <3>5
  <2>2. ASSUME NEW u \in Txns, NEW v \in Txns,
               txn'[u].op \in {"resolved", "rejected"}, txn'[v].op \in {"resolved", "rejected"},
               txn'[u].s = txn'[v].s
        PROVE  u = v
    BY <2>2 DEF Ends, NoTxn, IInv, LockHeldOnce
  <2>3. QED
    BY <2>1, <2>2 DEF LockHeldOnce, Taken
<1>13. Unclaimed'
  BY DEF CasesGrow, Unclaimed
<1>14. Accounted'
  <2>1. /\ IsFiniteSet(SystemAttempts') /\ IsFiniteSet(HumanAttempts')
        /\ Cardinality(SystemAttempts') = Cardinality(SystemAttempts) + One(sys)
        /\ Cardinality(HumanAttempts') = Cardinality(HumanAttempts) + One(hum)
    BY CountGrows DEF One
  <2>2. Cardinality({s \in Steps : esc'[s].state # "none"})
          = Cardinality({s \in Steps : esc[s].state # "none"}) + One(opened)
    BY CountCases
  <2>3. /\ SystemEvents = Cardinality(SystemAttempts)
        /\ trail["escalation.created"] = Cardinality({s \in Steps : esc[s].state # "none"})
        /\ trail["escalation.resolved"] = Cardinality(HumanAttempts)
    BY DEF IInv, Accounted, AuditMatchesRows, SystemEvents
  <2>4. /\ SystemEvents' = Cardinality(SystemAttempts')
        /\ trail'["escalation.created"] = Cardinality({s \in Steps : esc'[s].state # "none"})
        /\ trail'["escalation.resolved"] = Cardinality(HumanAttempts')
    BY <2>1, <2>2, <2>3 DEF TrailFollows
  <2>5. QED
    BY <2>1, <2>4 DEF Accounted, AuditMatchesRows, SystemEvents
<1>15. QED
  BY <1>4, <1>5, <1>6, <1>10, <1>11, <1>12, <1>13, <1>14 DEF IInv

(* What a transaction carries, by what was called. *)
LEMMA Kinds ==
  ASSUME IInv, NEW t \in Txns
  PROVE  /\ txn[t].op \in StepResults => txn[t] \in AdvanceTxn
         /\ txn[t].op = "retry" => txn[t] \in RetryTxn
         /\ txn[t].op \in {"resolved", "rejected"} => txn[t] \in LockedTxn
         /\ txn[t].op = "resume" => txn[t] \in ResumeTxn
         /\ txn[t].op \in {"cancel", "cancel_workflow"} => txn[t] \in CancelTxn
         /\ txn[t].op = "execute" => txn[t] \in ExecuteTxn
<1>1. txn[t] \in Transactions
  BY DEF IInv, TxnTypeOK
<1>2. QED
  BY <1>1 DEF Transactions, AdvanceTxn, RetryTxn, CaseTxn, LockedTxn, ResumeTxn, CancelTxn, ExecuteTxn, NoTxn, StepResults

(* What is written to the run is a run that exists. *)
LEMMA WritesRun ==
  ASSUME run \in RunRead, NEW read \in RunRead, NEW new \in RunRead
  PROVE  FlushedRun(read, new) \in RunRead
BY DEF RunRead, FlushedRun, Flushed

(* A change of the run's state, and of its current step. *)
LEMMA ChangesRun ==
  ASSUME NEW r \in RunRead
  PROVE  /\ \A state \in RunStates : To(r, state) \in RunRead
         /\ \A s \in Steps : [r EXCEPT !.step = s] \in RunRead
<1>1. r.version + 1 \in Nat /\ r.step \in Steps
  BY DEF RunRead
<1>2. \A state \in RunStates : To(r, state) \in RunRead
  BY <1>1 DEF To, RunRead
<1>3. \A s \in Steps : [r EXCEPT !.step = s] \in RunRead
  BY DEF RunRead
<1>4. QED
  BY <1>2, <1>3

(* A step's column keeps its value or takes the new one. *)
LEMMA WritesStep ==
  ASSUME IInv, NEW s \in Steps, NEW read, NEW state \in StepStates, SetStep(s, read, state)
  PROVE  /\ steps' \in [Steps -> StepStates]
         /\ \A r \in Steps : r # s => steps'[r] = steps[r]
         /\ steps'[s] = IF state = read THEN steps[s] ELSE state
<1>1. steps \in [Steps -> StepStates]
  BY DEF IInv, TypeOK, StepStates
<1>2. QED
  BY <1>1 DEF SetStep, Flushed

(* The trail after an audited step. *)
LEMMA WritesTrail ==
  ASSUME IInv, NEW types, Audited(types)
  PROVE  /\ trail' \in [EventTypes -> Nat]
         /\ \A e \in EventTypes : trail[e] \in Nat
         /\ \A e \in EventTypes : trail'[e] = IF e \in types THEN trail[e] + 1 ELSE trail[e]
<1>1. trail \in [EventTypes -> Nat]
  BY DEF IInv, TypeOK
<1>2. QED
  BY <1>1 DEF Audited

(* The trail counts what was added when the events say so.                    *)
LEMMA Counts ==
  ASSUME IInv, NEW types, Audited(types), NEW sys, NEW hum, NEW opened,
         \/ sys = {} /\ SystemTypes \cap types = {}
         \/ sys # {} /\ \E e \in SystemTypes : SystemTypes \cap types = {e},
         "escalation.resolved" \in types <=> hum # {},
         "escalation.created" \in types <=> opened # {}
  PROVE  TrailFollows(sys, hum, opened)
<1>1. /\ "workflow_run.started" \in EventTypes /\ "step.advanced" \in EventTypes
      /\ "step_attempt.retry_scheduled" \in EventTypes
      /\ "escalation.created" \in EventTypes /\ "escalation.resolved" \in EventTypes
  BY DEF EventTypes
<1>2. /\ trail' \in [EventTypes -> Nat]
      /\ \A e \in EventTypes : trail[e] \in Nat
      /\ \A e \in EventTypes : trail'[e] = IF e \in types THEN trail[e] + 1 ELSE trail[e]
  BY WritesTrail
<1>3. /\ trail'["escalation.resolved"] = trail["escalation.resolved"] + One(hum)
      /\ trail'["escalation.created"] = trail["escalation.created"] + One(opened)
  BY <1>1, <1>2 DEF One
<1>4. SystemEvents' = SystemEvents + One(sys)
  <2>1. CASE sys = {} /\ SystemTypes \cap types = {}
    <3>1. \A e \in SystemTypes : e \notin types
      BY <2>1
    <3>2. QED
      BY <1>1, <1>2, <2>1, <3>1 DEF One, SystemEvents, SystemTypes
  <2>2. CASE sys # {} /\ \E e \in SystemTypes : SystemTypes \cap types = {e}
    <3>1. PICK e \in SystemTypes : \A d \in SystemTypes : d \in types <=> d = e
      BY <2>2
    <3>2. One(sys) = 1
      BY <2>2 DEF One
    <3>3. QED
      BY <1>1, <1>2, <3>1, <3>2 DEF SystemEvents, SystemTypes
  <2>3. QED
    BY <2>1, <2>2
<1>5. QED
  BY <1>2, <1>3, <1>4 DEF TrailFollows

(* The end of a transaction, when nobody waits to add what it adds. *)
LEMMA DoneEnds ==
  ASSUME IInv, NEW t \in Txns, NEW hum, Done(t),
         \A u \in Txns : u # t /\ txn[u].op = "resolved" =>
           <<txn[u].s, Attempt(HumanNumber, "human")>> \notin hum
  PROVE  Ends(hum)
<1>1. txn \in [Txns -> Transactions]
  BY DEF IInv, TxnTypeOK
<1>2. txn' = [txn EXCEPT ![t] = NoTxn]
  BY DEF Done
<1>3. /\ txn' = [u \in Txns |-> txn'[u]]
      /\ txn'[t] = NoTxn
      /\ \A u \in Txns : u # t => txn'[u] = txn[u]
  BY <1>1, <1>2
<1>4. QED
  BY <1>3 DEF Ends, NoTxn

(* Rows that are not written. *)
LEMMA CasesKept ==
  ASSUME IInv, UNCHANGED esc
  PROVE  CasesGrow({})
BY DEF CasesGrow, IInv, TypeOK, CaseStates, Unclaimed

(* Steps that are not written. *)
LEMMA StepsKept ==
  ASSUME IInv, UNCHANGED steps
  PROVE  StepsTyped
BY DEF StepsTyped, IInv, TypeOK, StepStates

(* Attempts that are not written. *)
LEMMA AttemptsKept ==
  ASSUME IInv, UNCHANGED attempts
  PROVE  Grows({}, {}) /\ SystemNew({}) /\ HumanNew({}) /\ attempts' \in [Steps -> SUBSET AttemptType]
BY DEF Grows, SystemNew, HumanNew, IInv, TypeOK, AttemptType

(* One attempt of the system, with a number that is free. *)
LEMMA SystemAttemptAdded ==
  ASSUME IInv, NEW s \in Steps, NEW n \in 1..max_attempts[s], ~Taken(s, n),
         attempts' = [attempts EXCEPT ![s] = @ \cup {Attempt(n, "system")}]
  PROVE  LET sys == {<<s, Attempt(n, "system")>>}
         IN  /\ Grows(sys, {}) /\ SystemNew(sys) /\ HumanNew({})
             /\ attempts' \in [Steps -> SUBSET AttemptType]
<1>1. attempts \in [Steps -> SUBSET AttemptType]
  BY DEF IInv, TypeOK, AttemptType
<1>2. Attempt(n, "system") \in AttemptType
  BY SystemNumbers DEF Attempt, AttemptType
<1>3. attempts' \in [Steps -> SUBSET AttemptType]
  BY <1>1, <1>2
<1>4. Grows({<<s, Attempt(n, "system")>>}, {})
  BY <1>1 DEF Grows
<1>5. SystemNew({<<s, Attempt(n, "system")>>}) /\ HumanNew({})
  BY DEF SystemNew, HumanNew
<1>6. QED
  BY <1>3, <1>4, <1>5

(* The answer of a task names a step and a number. *)
LEMMA Answers ==
  ASSUME IInv, NEW t \in Txns, Answer(t), txn[t].s \in Steps, txn[t].n \in Numbers
  PROVE  answered' \subseteq Steps \X Numbers
BY DEF IInv, TypeOK, Answer

(* start_workflow_run. *)
LEMMA StartKeeps ==
  ASSUME IInv, Start
  PROVE  IInv'
<1>1. 1 \in Steps /\ 1 \in 1..max_attempts[1]
  BY LifecycleAssumption DEF Steps
<1>2. attempts[1] = {} /\ \A t \in Txns : txn[t] = NoTxn
  BY <1>1 DEF Start, IInv, Fresh
<1>3. ~Taken(1, 1)
  BY <1>2 DEF Taken
<1>4. attempts' = [attempts EXCEPT ![1] = @ \cup {Attempt(1, "system")}]
  BY <1>1, <1>2 DEF Start, IInv, TypeOK
<1> DEFINE sys == {<<1, Attempt(1, "system")>>}
<1>5. Grows(sys, {}) /\ SystemNew(sys) /\ HumanNew({}) /\ attempts' \in [Steps -> SUBSET AttemptType]
  BY <1>1, <1>3, <1>4, SystemAttemptAdded
<1>6. Ends({})
  BY DEF Start, IInv, TxnTypeOK, Ends
<1>7. StepsTyped /\ CasesGrow({})
  BY StepsKept, CasesKept DEF Start
<1>8. TrailFollows(sys, {}, {})
  <2>1. Audited({"workflow_run.started"})
    BY DEF Start
  <2>2. SystemTypes \cap {"workflow_run.started"} = {"workflow_run.started"} /\ sys # {}
    BY DEF SystemTypes
  <2>3. "workflow_run.started" \in SystemTypes
    BY DEF SystemTypes
  <2> HIDE DEF sys
  <2>4. QED
    BY <2>1, <2>2, <2>3, Counts
<1>9. run' \in RunRead
  BY <1>1 DEF Start, RunRead, RunStates
<1>10. answered' \subseteq Steps \X Numbers /\ redelivered' = redelivered
  BY DEF Start, IInv, TypeOK
<1> HIDE DEF sys
<1>11. QED
  BY <1>5, <1>6, <1>7, <1>8, <1>9, <1>10, Commit

(* claim_escalation. *)
LEMMA ClaimKeeps ==
  ASSUME IInv, NEW actor \in Actors, NEW s \in Steps, Claim(actor, s)
  PROVE  IInv'
<1>1. Grows({}, {}) /\ SystemNew({}) /\ HumanNew({}) /\ attempts' \in [Steps -> SUBSET AttemptType]
  BY AttemptsKept DEF Claim
<1>2. Ends({})
  BY DEF Claim, IInv, TxnTypeOK, Ends
<1>3. StepsTyped
  BY StepsKept DEF Claim
<1>4. CasesGrow({})
  <2>1. esc \in [Steps -> [state : CaseStates, by : Actors \cup {None}]]
    BY DEF IInv, TypeOK, CaseStates
  <2>2. [state |-> "claimed", by |-> actor] \in [state : CaseStates, by : Actors \cup {None}]
    BY DEF CaseStates
  <2>3. /\ esc' \in [Steps -> [state : CaseStates, by : Actors \cup {None}]]
        /\ esc'[s] = [state |-> "claimed", by |-> actor]
        /\ \A r \in Steps : r # s => esc'[r] = esc[r]
    BY <2>1, <2>2 DEF Claim
  <2>4. QED
    BY <2>3 DEF CasesGrow, Claim, IInv, Unclaimed
<1>5. TrailFollows({}, {}, {})
  BY Counts DEF Claim, SystemTypes
<1>6. run' \in RunRead
  BY Exists DEF Claim
<1>7. answered' \subseteq Steps \X Numbers /\ redelivered' = redelivered
  BY DEF Claim, IInv, TypeOK
<1>8. QED
  BY <1>1, <1>2, <1>3, <1>4, <1>5, <1>6, <1>7, Commit

(* cancel: the guarded update, and the orchestrator's. *)
LEMMA CancelKeeps ==
  ASSUME IInv, NEW t \in Txns, Cancel(t) \/ CancelWorkflow(t)
  PROVE  IInv'
<1>1. txn[t] \in CancelTxn /\ txn[t] # NoTxn
  BY Kinds DEF Cancel, CancelWorkflow, NoTxn
<1>2. run \in RunRead /\ txn[t].run \in RunRead
  BY <1>1, Exists DEF CancelTxn
<1>3. UNCHANGED <<steps, attempts, answered, esc, redelivered>> /\ Done(t)
      /\ Audited({"workflow_run.cancelled"})
  BY DEF Cancel, CancelWorkflow
<1>4. Grows({}, {}) /\ SystemNew({}) /\ HumanNew({}) /\ attempts' \in [Steps -> SUBSET AttemptType]
  BY <1>3, AttemptsKept
<1>5. Ends({}) /\ StepsTyped /\ CasesGrow({})
  BY <1>3, DoneEnds, StepsKept, CasesKept
<1>6. TrailFollows({}, {}, {})
  BY <1>3, Counts DEF SystemTypes
<1>7. run' \in RunRead
  <2>1. To(run, "cancelled") \in RunRead /\ To(txn[t].run, "cancelled") \in RunRead
    BY <1>2, ChangesRun DEF RunStates
  <2>2. QED
    BY <1>2, <2>1, WritesRun DEF Cancel, CancelWorkflow
<1>8. answered' \subseteq Steps \X Numbers /\ redelivered' = redelivered
  BY <1>3 DEF IInv, TypeOK
<1>9. QED
  BY <1>4, <1>5, <1>6, <1>7, <1>8, Commit

(* An execution writes the outcome to the step. *)
LEMMA ProcessOutcomeKeeps ==
  ASSUME IInv, NEW t \in Txns, NEW state \in StepStates, ProcessOutcome(t, state)
  PROVE  IInv'
<1>1. txn[t] \in ExecuteTxn /\ txn[t] # NoTxn
  BY Kinds DEF ProcessOutcome, NoTxn
<1>2. run \in RunRead /\ txn[t].s \in Steps
  BY <1>1, Exists DEF ExecuteTxn
<1>3. UNCHANGED <<run, attempts, answered, esc, trail, redelivered>> /\ Done(t)
      /\ SetStep(txn[t].s, txn[t].step, state)
  BY DEF ProcessOutcome
<1>4. Grows({}, {}) /\ SystemNew({}) /\ HumanNew({}) /\ attempts' \in [Steps -> SUBSET AttemptType]
  BY <1>3, AttemptsKept
<1>5. Ends({}) /\ CasesGrow({})
  BY <1>3, DoneEnds, CasesKept
<1>6. StepsTyped
  BY <1>2, <1>3, WritesStep DEF StepsTyped
<1>7. TrailFollows({}, {}, {})
  <2>1. Audited({})
    BY <1>3 DEF Audited, IInv, TypeOK
  <2>2. QED
    BY <2>1, Counts
<1>8. run' \in RunRead /\ answered' \subseteq Steps \X Numbers /\ redelivered' = redelivered
  BY <1>2, <1>3 DEF IInv, TypeOK
<1>9. QED
  BY <1>4, <1>5, <1>6, <1>7, <1>8, Commit

(* A step after a step is a step. *)
LEMMA NextStep ==
  ASSUME NEW s \in Steps, s < N
  PROVE  s + 1 \in Steps /\ 1 \in 1..max_attempts[s + 1] /\ s # N
BY LifecycleAssumption DEF Steps

(* _handle_succeeded. *)
LEMMA AdvanceSucceededKeeps ==
  ASSUME IInv, NEW t \in Txns, AdvanceSucceeded(t)
  PROVE  IInv'
<1>1. txn[t] \in AdvanceTxn /\ txn[t] # NoTxn
  BY Kinds DEF AdvanceSucceeded, NoTxn, StepResults
<1>2. PICK s \in Steps : s = txn[t].s
  BY <1>1 DEF AdvanceTxn
<1>3. PICK read \in RunRead : read = txn[t].run
  BY <1>1 DEF AdvanceTxn
<1>4. run \in RunRead
  BY <1>1, Exists
<1>5. answered' \subseteq Steps \X Numbers /\ redelivered' = redelivered
  BY <1>1, Answers DEF AdvanceSucceeded, AdvanceTxn
<1>6. Ends({}) /\ CasesGrow({})
  BY DoneEnds, CasesKept DEF AdvanceSucceeded
<1>7. /\ steps' \in [Steps -> StepStates]
      /\ \A r \in Steps : r # s => steps'[r] = steps[r]
  <2>1. SetStep(s, txn[t].step, "succeeded") /\ "succeeded" \in StepStates
    BY <1>2 DEF AdvanceSucceeded, StepStates
  <2>2. QED
    BY <2>1, WritesStep
<1>8. CASE Completes(s, read) /\ Audited({"workflow_run.completed"})
  <2>1. Grows({}, {}) /\ SystemNew({}) /\ HumanNew({}) /\ attempts' \in [Steps -> SUBSET AttemptType]
    BY <1>8, AttemptsKept DEF Completes
  <2>2. StepsTyped
    BY <1>7, <1>8 DEF StepsTyped, Completes
  <2>3. TrailFollows({}, {}, {})
    BY <1>8, Counts DEF SystemTypes
  <2>4. To(read, "completed") \in RunRead
    BY ChangesRun DEF RunStates
  <2>5. run' \in RunRead
    BY <1>4, <1>8, <2>4, WritesRun DEF Completes
  <2>6. QED
    BY <1>5, <1>6, <2>1, <2>2, <2>3, <2>5, Commit
<1>9. CASE Continues(s, read) /\ Audited({"step.advanced"})
  <2> DEFINE sys == {<<s + 1, Attempt(1, "system")>>}
  <2>1. s + 1 \in Steps /\ 1 \in 1..max_attempts[s + 1] /\ s # N
    BY <1>9, NextStep DEF Continues
  <2>2. Grows(sys, {}) /\ SystemNew(sys) /\ HumanNew({}) /\ attempts' \in [Steps -> SUBSET AttemptType]
    BY <1>9, <2>1, SystemAttemptAdded DEF Continues
  <2>3. <<s + 1, Attempt(1, "system")>> \in sys
    OBVIOUS
  <2> HIDE DEF sys
  <2>4. attempts'[s + 1] # {}
    BY <2>1, <2>2, <2>3 DEF Grows
  <2>5. StepsTyped
    BY <1>7, <2>4 DEF StepsTyped
  <2>6. TrailFollows(sys, {}, {})
    <3>1. SystemTypes \cap {"step.advanced"} = {"step.advanced"} /\ "step.advanced" \in SystemTypes
      BY DEF SystemTypes
    <3>2. QED
      BY <1>9, <2>3, <3>1, Counts
  <2>7. [read EXCEPT !.step = s + 1] \in RunRead
    BY <2>1, ChangesRun
  <2>8. run' \in RunRead
    BY <1>4, <1>9, <2>7, WritesRun DEF Continues
  <2>9. QED
    BY <1>5, <1>6, <2>2, <2>5, <2>6, <2>8, Commit
<1>10. QED
  BY <1>2, <1>3, <1>8, <1>9 DEF AdvanceSucceeded

(* _handle_failed_retryable, with attempts left. *)
LEMMA AdvanceRetryKeeps ==
  ASSUME IInv, NEW t \in Txns, AdvanceRetry(t)
  PROVE  IInv'
<1>1. txn[t] \in RetryTxn /\ txn[t] # NoTxn /\ txn[t].count < max_attempts[txn[t].s]
  BY Kinds DEF AdvanceRetry, NoTxn, IInv, NumbersBounded
<1>2. PICK s \in Steps : s = txn[t].s
  BY <1>1 DEF RetryTxn
<1>3. PICK n : n = txn[t].count + 1
  OBVIOUS
<1>4. n \in 1..max_attempts[s]
  BY <1>1, <1>2, <1>3, LifecycleAssumption DEF RetryTxn
<1>5. run' \in RunRead
  BY <1>1, Exists DEF AdvanceRetry
<1>6. answered' \subseteq Steps \X Numbers /\ redelivered' = redelivered
  BY <1>1, Answers DEF AdvanceRetry, RetryTxn
<1>7. Ends({}) /\ CasesGrow({})
  BY DoneEnds, CasesKept DEF AdvanceRetry
<1>8. StepsTyped
  <2>1. SetStep(s, txn[t].step, "failed_retryable") /\ "failed_retryable" \in StepStates
    BY <1>2 DEF AdvanceRetry, StepStates
  <2>2. QED
    BY <2>1, WritesStep DEF StepsTyped
<1> DEFINE sys == {<<s, Attempt(n, "system")>>}
<1>9. Grows(sys, {}) /\ SystemNew(sys) /\ HumanNew({}) /\ attempts' \in [Steps -> SUBSET AttemptType]
  <2>1. ~Taken(s, n) /\ attempts' = [attempts EXCEPT ![s] = @ \cup {Attempt(n, "system")}]
    BY <1>2, <1>3 DEF AdvanceRetry
  <2>2. QED
    BY <1>4, <2>1, SystemAttemptAdded
<1>10. sys # {}
  OBVIOUS
<1> HIDE DEF sys
<1>11. TrailFollows(sys, {}, {})
  <2>1. /\ SystemTypes \cap {"step_attempt.retry_scheduled"} = {"step_attempt.retry_scheduled"}
        /\ "step_attempt.retry_scheduled" \in SystemTypes
    BY DEF SystemTypes
  <2>2. Audited({"step_attempt.retry_scheduled"})
    BY DEF AdvanceRetry
  <2>3. QED
    BY <1>10, <2>1, <2>2, Counts
<1>12. QED
  BY <1>5, <1>6, <1>7, <1>8, <1>9, <1>11, Commit

(* A case is opened for a step that has none. *)
LEMMA OpensCase ==
  ASSUME IInv, NEW s \in Steps, NEW read \in RunRead, Escalates(s, read), attempts[s] # {},
         run \in RunRead
  PROVE  CasesGrow({s}) /\ TrailFollows({}, {}, {s}) /\ run' \in RunRead
<1>1. esc \in [Steps -> [state : CaseStates, by : Actors \cup {None}]]
  BY DEF IInv, TypeOK, CaseStates
<1>2. esc[s].state = "none" /\ esc[s].by = None
  BY DEF Escalates, IInv, Unclaimed
<1>3. esc' = [esc EXCEPT ![s] = [state |-> "open", by |-> None]]
  <2>1. [esc[s] EXCEPT !.state = "open"] = [state |-> "open", by |-> None]
    BY <1>1, <1>2
  <2>2. QED
    BY <1>1, <2>1 DEF Escalates
<1>4. [state |-> "open", by |-> None] \in [state : CaseStates, by : Actors \cup {None}]
  BY DEF CaseStates
<1>5. /\ esc' \in [Steps -> [state : CaseStates, by : Actors \cup {None}]]
      /\ esc'[s] = [state |-> "open", by |-> None]
      /\ \A r \in Steps : r # s => esc'[r] = esc[r]
  BY <1>1, <1>3, <1>4
<1>6. CasesGrow({s})
  BY <1>2, <1>5 DEF CasesGrow, IInv, Unclaimed
<1>7. TrailFollows({}, {}, {s})
  <2>1. Audited({"escalation.created"}) /\ SystemTypes \cap {"escalation.created"} = {}
    BY DEF Escalates, SystemTypes
  <2>2. QED
    BY <2>1, Counts
<1>8. To(read, "awaiting_human") \in RunRead
  BY ChangesRun DEF RunStates
<1>9. run' \in RunRead
  BY <1>8, WritesRun DEF Escalates
<1>10. QED
  BY <1>6, <1>7, <1>9

(* A terminal failure, and an escalation asked for by the handler. *)
LEMMA AdvanceFailedKeeps ==
  ASSUME IInv, NEW t \in Txns, AdvanceFailed(t) \/ AdvanceEscalate(t)
  PROVE  IInv'
<1>1. txn[t] \in AdvanceTxn /\ txn[t] # NoTxn /\ attempts[txn[t].s] # {}
  BY Kinds DEF AdvanceFailed, AdvanceEscalate, NoTxn, StepResults, IInv, Started, StepOps
<1>2. PICK s \in Steps : s = txn[t].s
  BY <1>1 DEF AdvanceTxn
<1>3. PICK read \in RunRead : read = txn[t].run
  BY <1>1 DEF AdvanceTxn
<1>4. run \in RunRead
  BY <1>1, Exists
<1>5. answered' \subseteq Steps \X Numbers /\ redelivered' = redelivered
  BY <1>1, Answers DEF AdvanceFailed, AdvanceEscalate, AdvanceTxn
<1>6. Ends({})
  BY DoneEnds DEF AdvanceFailed, AdvanceEscalate
<1>7. Grows({}, {}) /\ SystemNew({}) /\ HumanNew({}) /\ attempts' \in [Steps -> SUBSET AttemptType]
  BY AttemptsKept DEF AdvanceFailed, AdvanceEscalate
<1>8. StepsTyped
  <2>1. CASE AdvanceFailed(t)
    <3>1. SetStep(s, txn[t].step, "failed_terminal") /\ "failed_terminal" \in StepStates
      BY <1>2, <2>1 DEF AdvanceFailed, StepStates
    <3>2. QED
      BY <3>1, WritesStep DEF StepsTyped
  <2>2. CASE AdvanceEscalate(t)
    BY <2>2, StepsKept DEF AdvanceEscalate
  <2>3. QED
    BY <2>1, <2>2
<1>9. CASE Escalates(s, read)
  <2>1. CasesGrow({s}) /\ TrailFollows({}, {}, {s}) /\ run' \in RunRead
    BY <1>1, <1>2, <1>4, <1>9, OpensCase
  <2>2. QED
    BY <1>5, <1>6, <1>7, <1>8, <2>1, Commit
<1>10. CASE run' = FlushedRun(read, To(read, "failed")) /\ Audited({"workflow_run.failed"}) /\ UNCHANGED esc
  <2>1. CasesGrow({})
    BY <1>10, CasesKept
  <2>2. TrailFollows({}, {}, {})
    BY <1>10, Counts DEF SystemTypes
  <2>3. To(read, "failed") \in RunRead
    BY ChangesRun DEF RunStates
  <2>4. run' \in RunRead
    BY <1>4, <1>10, <2>3, WritesRun
  <2>5. QED
    BY <1>5, <1>6, <1>7, <1>8, <2>1, <2>2, <2>4, Commit
<1>11. QED
  BY <1>2, <1>3, <1>9, <1>10 DEF AdvanceFailed, AdvanceEscalate

(* A case that is there stays, and stays with whom it is. *)
LEMMA MovesCase ==
  ASSUME IInv, NEW s \in Steps, NEW state \in CaseStates, esc[s].state # "none",
         state = esc[s].state \/ state \in {"resolved", "rejected"},
         esc' = [esc EXCEPT ![s].state = state]
  PROVE  CasesGrow({}) /\ \A r \in Steps : esc'[r].by = esc[r].by
<1>1. esc \in [Steps -> [state : CaseStates, by : Actors \cup {None}]]
  BY DEF IInv, TypeOK, CaseStates
<1>2. [esc[s] EXCEPT !.state = state] = [state |-> state, by |-> esc[s].by]
  BY <1>1
<1>3. esc' = [esc EXCEPT ![s] = [state |-> state, by |-> esc[s].by]]
  BY <1>1, <1>2
<1>4. [state |-> state, by |-> esc[s].by] \in [state : CaseStates, by : Actors \cup {None}]
  BY <1>1
<1>5. /\ esc' \in [Steps -> [state : CaseStates, by : Actors \cup {None}]]
      /\ esc'[s] = [state |-> state, by |-> esc[s].by]
      /\ \A r \in Steps : r # s => esc'[r] = esc[r]
  BY <1>1, <1>3, <1>4
<1>6. CasesGrow({})
  BY <1>5 DEF CasesGrow, IInv, Unclaimed
<1>7. QED
  BY <1>5, <1>6

(* One attempt of a human, with a number that is free. *)
LEMMA HumanAttemptAdded ==
  ASSUME IInv, NEW s \in Steps, NEW n \in Numbers, ~Taken(s, n),
         attempts' = [attempts EXCEPT ![s] = @ \cup {Attempt(n, "human")}]
  PROVE  LET hum == {<<s, Attempt(n, "human")>>}
         IN  /\ Grows({}, hum) /\ SystemNew({}) /\ HumanNew(hum)
             /\ attempts' \in [Steps -> SUBSET AttemptType]
<1>1. attempts \in [Steps -> SUBSET AttemptType]
  BY DEF IInv, TypeOK, AttemptType
<1>2. Attempt(n, "human") \in AttemptType
  BY DEF Attempt, AttemptType
<1>3. attempts' \in [Steps -> SUBSET AttemptType]
  BY <1>1, <1>2
<1>4. Grows({}, {<<s, Attempt(n, "human")>>})
  BY <1>1 DEF Grows
<1>5. SystemNew({}) /\ HumanNew({<<s, Attempt(n, "human")>>})
  BY DEF SystemNew, HumanNew
<1>6. QED
  BY <1>3, <1>4, <1>5

(* What the holder of a case's row knows. *)
LEMMA Holder ==
  ASSUME IInv, NEW t \in Txns, txn[t].op \in {"resolved", "rejected"}
  PROVE  /\ txn[t].s \in Steps /\ txn[t].run \in RunRead /\ run \in RunRead
         /\ esc[txn[t].s].state # "none"
<1>1. txn[t] \in LockedTxn /\ txn[t] # NoTxn
  BY Kinds DEF NoTxn
<1>2. QED
  BY <1>1, Exists DEF LockedTxn, IInv, Started, CaseOps

(* resolve_escalation. *)
LEMMA ResolveKeeps ==
  ASSUME IInv, NEW t \in Txns, Resolve(t)
  PROVE  IInv'
<1>1. /\ txn[t].s \in Steps /\ txn[t].run \in RunRead /\ run \in RunRead
      /\ esc[txn[t].s].state # "none" /\ ~Taken(txn[t].s, HumanNumber)
  BY Holder DEF Resolve, IInv, LockHeldOnce
<1>2. PICK s \in Steps : s = txn[t].s
  BY <1>1
<1>3. PICK read \in RunRead : read = txn[t].run
  BY <1>1
<1>4. CasesGrow({})
  BY <1>1, <1>2, MovesCase DEF Resolve, CaseStates
<1> DEFINE hum == {<<s, Attempt(HumanNumber, "human")>>}
<1>5. Grows({}, hum) /\ SystemNew({}) /\ HumanNew(hum) /\ attempts' \in [Steps -> SUBSET AttemptType]
  <2>1. HumanNumber \in Numbers
    BY DEF Numbers
  <2>2. QED
    BY <1>1, <1>2, <2>1, HumanAttemptAdded DEF Resolve
<1>6. Ends(hum)
  <2>1. \A u \in Txns : u # t /\ txn[u].op = "resolved" => txn[u].s # s
    BY <1>2 DEF Resolve, IInv, LockHeldOnce
  <2>2. QED
    BY <2>1, DoneEnds DEF Resolve
<1>7. StepsTyped
  BY StepsKept DEF Resolve
<1>8. hum # {}
  OBVIOUS
<1> HIDE DEF hum
<1>9. TrailFollows({}, hum, {})
  <2>1. Audited({"escalation.resolved"}) /\ SystemTypes \cap {"escalation.resolved"} = {}
    BY DEF Resolve, SystemTypes
  <2>2. QED
    BY <1>8, <2>1, Counts
<1>10. To(read, "running") \in RunRead
  BY ChangesRun DEF RunStates
<1>11. run' \in RunRead
  BY <1>1, <1>3, <1>10, WritesRun DEF Resolve
<1>12. answered' \subseteq Steps \X Numbers /\ redelivered' = redelivered
  BY DEF Resolve, IInv, TypeOK
<1>13. QED
  BY <1>4, <1>5, <1>6, <1>7, <1>9, <1>11, <1>12, Commit

(* reject_escalation. *)
LEMMA RejectKeeps ==
  ASSUME IInv, NEW t \in Txns, Reject(t)
  PROVE  IInv'
<1>1. /\ txn[t].s \in Steps /\ txn[t].run \in RunRead /\ run \in RunRead
      /\ esc[txn[t].s].state # "none"
  BY Holder DEF Reject
<1>2. PICK read \in RunRead : read = txn[t].run
  BY <1>1
<1>3. CasesGrow({})
  BY <1>1, MovesCase DEF Reject, CaseStates
<1>4. Grows({}, {}) /\ SystemNew({}) /\ HumanNew({}) /\ attempts' \in [Steps -> SUBSET AttemptType]
  BY AttemptsKept DEF Reject
<1>5. Ends({}) /\ StepsTyped
  BY DoneEnds, StepsKept DEF Reject
<1>6. TrailFollows({}, {}, {})
  <2>1. Audited({"escalation.rejected"}) /\ SystemTypes \cap {"escalation.rejected"} = {}
    BY DEF Reject, SystemTypes
  <2>2. QED
    BY <2>1, Counts
<1>7. To(read, "failed") \in RunRead
  BY ChangesRun DEF RunStates
<1>8. run' \in RunRead
  BY <1>1, <1>2, <1>7, WritesRun DEF Reject
<1>9. answered' \subseteq Steps \X Numbers /\ redelivered' = redelivered
  BY DEF Reject, IInv, TypeOK
<1>10. QED
  BY <1>3, <1>4, <1>5, <1>6, <1>8, <1>9, Commit

(* resume_after_escalation. *)
LEMMA ResumeKeeps ==
  ASSUME IInv, NEW t \in Txns, Resume(t)
  PROVE  IInv'
<1>1. txn[t] \in ResumeTxn /\ txn[t] # NoTxn /\ esc[txn[t].s].state # "none"
  BY SMTT(60), Kinds DEF Resume, NoTxn, IInv, Started, CaseOps
<1>2. PICK s \in Steps : s = txn[t].s
  BY <1>1 DEF ResumeTxn
<1>3. PICK read \in RunRead : read = txn[t].run
  BY <1>1 DEF ResumeTxn
<1>4. run \in RunRead
  BY <1>1, Exists
<1>5. PICK n \in Numbers : n = Cardinality(attempts[s]) + 1
  BY ResumeNumber DEF Resume
<1>6. ~Taken(s, n) /\ ~EscLocked(s)
  BY <1>2, <1>5 DEF Resume
<1>7. CasesGrow({})
  <2>1. PICK state : state = Flushed(esc[s].state, txn[t].esc, "resolved")
    OBVIOUS
  <2>2. state = esc[s].state \/ state = "resolved"
    BY <2>1 DEF Flushed
  <2>3. esc \in [Steps -> [state : CaseStates, by : Actors \cup {None}]]
    BY DEF IInv, TypeOK, CaseStates
  <2>4. esc' = [esc EXCEPT ![s].state = state]
    BY <1>2, <2>1, <2>3 DEF Resume
  <2>5. state \in CaseStates
    BY <2>2, <2>3 DEF CaseStates
  <2>6. QED
    BY <1>1, <1>2, <2>2, <2>4, <2>5, MovesCase
<1>8. /\ steps' \in [Steps -> StepStates]
      /\ \A r \in Steps : r # s => steps'[r] = steps[r]
  <2>1. SetStep(s, txn[t].step, "succeeded") /\ "succeeded" \in StepStates
    BY <1>2 DEF Resume, StepStates
  <2>2. QED
    BY <2>1, WritesStep
<1> DEFINE hum == {<<s, Attempt(n, "human")>>}
<1>9. Ends(hum)
  <2>1. \A u \in Txns : u # t /\ txn[u].op = "resolved" => txn[u].s # s
    BY <1>6 DEF EscLocked
  <2>2. QED
    BY <2>1, DoneEnds DEF Resume
<1>10. hum # {}
  OBVIOUS
<1>11. answered' \subseteq Steps \X Numbers /\ redelivered' = redelivered
  BY DEF Resume, IInv, TypeOK
<1>12. To(read, "running") \in RunRead
  BY ChangesRun DEF RunStates
<1> DEFINE human == [attempts EXCEPT ![s] = @ \cup {Attempt(n, "human")}]
<1>13. \/ /\ s = N /\ attempts' = human
          /\ run' = [run EXCEPT !.state = "completed", !.version = To(read, "running").version + 1]
          /\ Audited({"escalation.resolved", "workflow_run.completed"})
       \/ /\ s < N /\ ~Taken(s + 1, 1)
          /\ attempts' = [human EXCEPT ![s + 1] = @ \cup {Attempt(1, "system")}]
          /\ run' = FlushedRun(read, [To(read, "running") EXCEPT !.step = s + 1])
          /\ Audited({"escalation.resolved", "step.advanced"})
  BY <1>2, <1>3, <1>5 DEF Resume
<1>14. CASE /\ s = N /\ attempts' = human
            /\ run' = [run EXCEPT !.state = "completed", !.version = To(read, "running").version + 1]
            /\ Audited({"escalation.resolved", "workflow_run.completed"})
  <2>1. Grows({}, hum) /\ SystemNew({}) /\ HumanNew(hum) /\ attempts' \in [Steps -> SUBSET AttemptType]
    BY <1>6, <1>14, HumanAttemptAdded
  <2>2. StepsTyped
    BY <1>8, <1>14 DEF StepsTyped
  <2> HIDE DEF hum
  <2>3. TrailFollows({}, hum, {})
    <3>1. SystemTypes \cap {"escalation.resolved", "workflow_run.completed"} = {}
      BY DEF SystemTypes
    <3>2. QED
      BY <1>10, <1>14, <3>1, Counts
  <2>4. run' \in RunRead
    <3>1. To(read, "running").version + 1 \in Nat
      BY <1>12 DEF RunRead
    <3>2. QED
      BY <1>4, <1>14, <3>1 DEF RunRead, RunStates
  <2>5. QED
    BY <1>7, <1>9, <1>11, <2>1, <2>2, <2>3, <2>4, Commit
<1>15. CASE /\ s < N /\ ~Taken(s + 1, 1)
            /\ attempts' = [human EXCEPT ![s + 1] = @ \cup {Attempt(1, "system")}]
            /\ run' = FlushedRun(read, [To(read, "running") EXCEPT !.step = s + 1])
            /\ Audited({"escalation.resolved", "step.advanced"})
  <2> DEFINE sys == {<<s + 1, Attempt(1, "system")>>}
  <2>1. s + 1 \in Steps /\ 1 \in 1..max_attempts[s + 1] /\ s # N /\ s + 1 # s
    BY <1>15, NextStep DEF Steps
  <2>2. attempts \in [Steps -> SUBSET AttemptType]
    BY DEF IInv, TypeOK, AttemptType
  <2>3. Attempt(n, "human") \in AttemptType /\ Attempt(1, "system") \in AttemptType
    BY <2>1, SystemNumbers DEF Attempt, AttemptType
  <2>4. /\ attempts'[s] = attempts[s] \cup {Attempt(n, "human")}
        /\ attempts'[s + 1] = attempts[s + 1] \cup {Attempt(1, "system")}
        /\ \A r \in Steps : r # s /\ r # s + 1 => attempts'[r] = attempts[r]
    BY <1>15, <2>1, <2>2
  <2>5. attempts' \in [Steps -> SUBSET AttemptType]
    BY <1>15, <2>1, <2>2, <2>3
  <2>6. Grows(sys, hum)
    BY <2>1, <2>4 DEF Grows
  <2>7. SystemNew(sys) /\ HumanNew(hum)
    BY <1>6, <1>15, <2>1 DEF SystemNew, HumanNew
  <2>8. StepsTyped
    BY <1>8, <2>4 DEF StepsTyped
  <2>9. sys # {}
    OBVIOUS
  <2> HIDE DEF sys, hum
  <2>10. TrailFollows(sys, hum, {})
    <3>1. /\ SystemTypes \cap {"escalation.resolved", "step.advanced"} = {"step.advanced"}
          /\ "step.advanced" \in SystemTypes
      BY DEF SystemTypes
    <3>2. QED
      BY <1>10, <1>15, <2>9, <3>1, Counts
  <2>11. run' \in RunRead
    <3>1. [To(read, "running") EXCEPT !.step = s + 1] \in RunRead
      BY <1>12, <2>1, ChangesRun
    <3>2. QED
      BY <1>4, <1>15, <3>1, WritesRun
  <2>12. QED
    BY <1>7, <1>9, <1>11, <2>5, <2>6, <2>7, <2>8, <2>10, <2>11, Commit
<1>16. QED
  BY <1>13, <1>14, <1>15

-----------------------------------------------------------------------------
(* The invariant is inductive *)

(* Before the run exists there is nothing to account for. *)
LEMMA InitIInv ==
  ASSUME Init
  PROVE  IInv
<1>1. \A s \in Steps : attempts[s] = {}
  BY DEF Init
<1>2. SystemAttempts = {} /\ HumanAttempts = {}
  BY <1>1 DEF SystemAttempts, HumanAttempts, Of
<1>3. {s \in Steps : esc[s].state # "none"} = {}
  BY DEF Init
<1>4. TypeOK
  BY LifecycleAssumption DEF Init, TypeOK
<1>5. TxnTypeOK
  BY DEF Init, TxnTypeOK, Transactions
<1>6. Fresh
  BY DEF Init, Fresh
<1>7. NumbersBounded
  <2>1. IsFiniteSet({})
    BY FS_EmptySet
  <2>2. QED
    BY <1>1, <2>1 DEF Init, NumbersBounded, NoTxn
<1>8. Started
  BY DEF Init, Started, NoTxn, CaseOps, StepOps, StepResults
<1>9. LockHeldOnce
  BY DEF Init, LockHeldOnce, NoTxn
<1>10. Unclaimed
  BY DEF Init, Unclaimed
<1>11. Accounted
  <2>1. IsFiniteSet({}) /\ Cardinality({}) = 0
    BY FS_EmptySet
  <2>2. IsFiniteSet(SystemAttempts) /\ IsFiniteSet(HumanAttempts)
    BY <1>2, <2>1
  <2>3. \A e \in EventTypes : trail[e] = 0
    BY DEF Init
  <2>4. /\ trail["workflow_run.started"] = 0 /\ trail["step.advanced"] = 0
        /\ trail["step_attempt.retry_scheduled"] = 0
        /\ trail["escalation.created"] = 0 /\ trail["escalation.resolved"] = 0
    BY <2>3 DEF EventTypes
  <2>5. AuditMatchesRows
    <3>1. Cardinality(SystemAttempts) = 0 /\ Cardinality(HumanAttempts) = 0
      BY <1>2, <2>1
    <3>2. Cardinality({s \in Steps : esc[s].state # "none"}) = 0
      BY <1>3, <2>1
    <3>3. QED
      BY <2>4, <3>1, <3>2 DEF AuditMatchesRows
  <2>6. QED
    BY <2>2, <2>5 DEF Accounted
<1>12. QED
  BY <1>4, <1>5, <1>6, <1>7, <1>8, <1>9, <1>10, <1>11 DEF IInv

(* Every step of the system keeps the invariant. *)
LEMMA NextIInv ==
  ASSUME IInv, [Next]_vars
  PROVE  IInv'
<1>1. CASE Start
  BY <1>1, StartKeeps
<1>2. CASE \E actor \in Actors, s \in Steps : Claim(actor, s)
  BY <1>2, ClaimKeeps
<1>3. ASSUME NEW t \in Txns, Orchestrate(t)
      PROVE  IInv'
  <2>1. CASE \E s \in Steps, n \in Numbers, result \in StepResults : AdvanceLoad(t, s, n, result)
    BY <2>1, AdvanceLoadKeeps
  <2>2. CASE CountAttempts(t)
    BY <2>2, CountAttemptsKeeps
  <2>3. CASE AdvanceSucceeded(t)
    BY <2>3, AdvanceSucceededKeeps
  <2>4. CASE AdvanceRetry(t)
    BY <2>4, AdvanceRetryKeeps
  <2>5. CASE AdvanceFailed(t) \/ AdvanceEscalate(t)
    BY <2>5, AdvanceFailedKeeps
  <2>6. CASE \E s \in Steps : ResumeLoad(t, s)
    BY <2>6, ResumeLoadKeeps
  <2>7. CASE Resume(t)
    BY <2>7, ResumeKeeps
  <2>8. CASE CancelLoad(t, "cancel_workflow")
    BY <2>8, CancelLoadKeeps
  <2>9. CASE CancelWorkflow(t)
    BY <2>9, CancelKeeps
  <2>10. QED
    BY <1>3, <2>1, <2>2, <2>3, <2>4, <2>5, <2>6, <2>7, <2>8, <2>9 DEF Orchestrate
<1>4. ASSUME NEW t \in Txns, Route(t)
      PROVE  IInv'
  <2>1. CASE \E actor \in Actors, s \in Steps, op \in {"resolve", "reject"} : CheckClaim(t, op, actor, s)
    BY <2>1, CheckClaimKeeps
  <2>2. CASE LockCase(t, "resolve", "resolved")
    BY <2>2, LockCaseKeeps
  <2>3. CASE LockCase(t, "reject", "rejected")
    BY <2>3, LockCaseKeeps
  <2>4. CASE Resolve(t)
    BY <2>4, ResolveKeeps
  <2>5. CASE Reject(t)
    BY <2>5, RejectKeeps
  <2>6. CASE CancelLoad(t, "cancel")
    BY <2>6, CancelLoadKeeps
  <2>7. CASE Cancel(t)
    BY <2>7, CancelKeeps
  <2>8. QED
    BY <1>4, <2>1, <2>2, <2>3, <2>4, <2>5, <2>6, <2>7 DEF Route
<1>5. ASSUME NEW t \in Txns, Rollback(t)
      PROVE  IInv'
  BY <1>5, RollbackKeeps
<1>6. ASSUME NEW t \in Txns, Process(t)
      PROVE  IInv'
  <2>1. CASE \E s \in Steps, n \in Numbers : ProcessLoad(t, s, n)
    BY <2>1, ProcessLoadKeeps
  <2>2. CASE \E state \in {"succeeded", "failed_retryable", "failed_terminal"} : ProcessOutcome(t, state)
    BY <2>2, ProcessOutcomeKeeps DEF StepStates
  <2>3. QED
    BY <1>6, <2>1, <2>2 DEF Process
<1>7. CASE UNCHANGED vars
  <2>1. UNCHANGED <<run, steps, attempts, answered, esc, trail, redelivered, txn>>
    BY <1>7 DEF vars, rows
  <2>2. TypeOK' /\ TxnTypeOK' /\ Fresh' /\ Unclaimed'
    BY <2>1 DEF IInv, TypeOK, TxnTypeOK, Fresh, Unclaimed
  <2>3. NumbersBounded'
    BY <2>1 DEF IInv, NumbersBounded
  <2>4. Started'
    BY <2>1 DEF IInv, Started
  <2>5. LockHeldOnce'
    BY <2>1 DEF IInv, LockHeldOnce, Taken
  <2>6. Accounted'
    BY <2>1 DEF IInv, Accounted, AuditMatchesRows, SystemAttempts, HumanAttempts, Of
  <2>7. QED
    BY <2>2, <2>3, <2>4, <2>5, <2>6 DEF IInv
<1>8. QED
  BY <1>1, <1>2, <1>3, <1>4, <1>5, <1>6, <1>7 DEF Next

-----------------------------------------------------------------------------
(* The theorems *)

(* The invariant holds in every reachable state. *)
THEOREM Invariant == Spec => []IInv
<1>1. Init => IInv
  BY InitIInv
<1>2. IInv /\ [Next]_vars => IInv'
  BY NextIInv
<1>3. QED
  BY <1>1, <1>2, PTL DEF Spec

(* The rows keep their types, the number that a resumption computes from the  *)
(* attempts it counts included.                                               *)
THEOREM TypeCorrect == Spec => []TypeOK
<1>1. IInv => TypeOK
  BY DEF IInv
<1>2. QED
  BY <1>1, Invariant, PTL

(* However often the queue redelivers a task and however many transactions    *)
(* answer it, no step is tried more often than its retry policy allows.       *)
THEOREM AttemptsAlwaysBounded == Spec => []AttemptsBounded
<1>1. IInv => AttemptsBounded
  BY BoundedAttempts DEF AttemptsBounded
<1>2. QED
  BY <1>1, Invariant, PTL

(* The audit trail and the rows agree on the attempts of the system, the      *)
(* cases and the human resolutions: what one transaction writes of them, it   *)
(* writes with the event.                                                     *)
THEOREM AuditAlwaysMatches == Spec => []AuditMatchesRows
<1>1. IInv => AuditMatchesRows
  BY DEF IInv, Accounted
<1>2. QED
  BY <1>1, Invariant, PTL

(* The steps that write cases keep whose they are. *)
LEMMA ClaimedOnce ==
  ASSUME IInv, [Next]_vars
  PROVE  \A s \in Steps : esc[s].by # None => esc'[s].by = esc[s].by
<1>1. esc \in [Steps -> [state : CaseStates, by : Actors \cup {None}]]
  BY DEF IInv, TypeOK, CaseStates
<1>2. CASE UNCHANGED esc
  BY <1>2
<1>3. ASSUME NEW actor \in Actors, NEW s \in Steps, Claim(actor, s)
      PROVE  \A r \in Steps : esc[r].by # None => esc'[r].by = esc[r].by
  <2>1. esc[s].by = None
    BY <1>3 DEF Claim, IInv, Unclaimed
  <2>2. \A r \in Steps : r # s => esc'[r] = esc[r]
    BY <1>1, <1>3 DEF Claim
  <2>3. QED
    BY <2>1, <2>2
<1>4. ASSUME NEW s \in Steps, NEW state, esc' = [esc EXCEPT ![s].state = state]
      PROVE  \A r \in Steps : esc[r].by # None => esc'[r].by = esc[r].by
  <2>1. [esc[s] EXCEPT !.state = state] = [state |-> state, by |-> esc[s].by]
    BY <1>1
  <2>2. esc' = [esc EXCEPT ![s] = [state |-> state, by |-> esc[s].by]]
    BY <1>1, <1>4, <2>1
  <2>3. QED
    BY <1>1, <2>2
<1>5. ASSUME NEW t \in Txns, AdvanceFailed(t) \/ AdvanceEscalate(t)
      PROVE  UNCHANGED esc \/ \E s \in Steps : \E state : esc' = [esc EXCEPT ![s].state = state]
  <2>1. txn[t].s \in Steps
    BY <1>5, Kinds DEF AdvanceFailed, AdvanceEscalate, StepResults, AdvanceTxn
  <2>2. QED
    BY <1>5, <2>1 DEF AdvanceFailed, AdvanceEscalate, Escalates
<1>6. ASSUME NEW t \in Txns, Resolve(t) \/ Reject(t) \/ Resume(t)
      PROVE  \E s \in Steps : \E state : esc' = [esc EXCEPT ![s].state = state]
  <2>1. PICK s \in Steps : s = txn[t].s
    BY <1>6, Kinds DEF Resolve, Reject, Resume, LockedTxn, ResumeTxn
  <2>2. CASE Resolve(t) \/ Reject(t)
    BY <2>1, <2>2 DEF Resolve, Reject
  <2>3. CASE Resume(t)
    <3>1. PICK state : state = Flushed(esc[s].state, txn[t].esc, "resolved")
      OBVIOUS
    <3>2. esc' = [esc EXCEPT ![s].state = state]
      BY <1>1, <2>1, <2>3, <3>1 DEF Resume
    <3>3. QED
      BY <3>2
  <2>4. QED
    BY <1>6, <2>2, <2>3
<1>7. \/ UNCHANGED esc
      \/ \E actor \in Actors, s \in Steps : Claim(actor, s)
      \/ \E t \in Txns : AdvanceFailed(t) \/ AdvanceEscalate(t)
      \/ \E t \in Txns : Resolve(t) \/ Reject(t) \/ Resume(t)
  BY DEF Next, Process, ProcessLoad, ProcessOutcome, Orchestrate, Route, Rollback, Start, AdvanceLoad, CountAttempts, AdvanceSucceeded, AdvanceRetry,
         ResumeLoad, CancelLoad, CancelWorkflow, CheckClaim, LockCase, Cancel, rows, vars
<1>8. QED
  BY <1>2, <1>3, <1>4, <1>5, <1>6, <1>7

(* A case is claimed by one actor for good: no second claim, resolution,      *)
(* rejection or resumption, in whatever order they commit, takes it over.     *)
THEOREM ClaimedByOne == Spec => ClaimExclusive
<1>1. IInv /\ [Next]_vars => [\A s \in Steps : esc[s].by # None => esc'[s].by = esc[s].by]_esc
  BY ClaimedOnce
<1>2. QED
  BY <1>1, Invariant, PTL DEF Spec, ClaimExclusive

(* Attempts are never deleted. *)
LEMMA AttemptsGrow ==
  ASSUME IInv, [Next]_vars
  PROVE  \A s \in Steps : attempts[s] \subseteq attempts'[s]
<1>1. attempts \in [Steps -> SUBSET AttemptType]
  BY DEF IInv, TypeOK, AttemptType
<1>2. CASE UNCHANGED attempts
  BY <1>2
<1>3. CASE Start
  BY <1>1, <1>3 DEF Start, IInv, Fresh
<1>4. ASSUME NEW r, NEW S, attempts' = [attempts EXCEPT ![r] = @ \cup S]
      PROVE  \A s \in Steps : attempts[s] \subseteq attempts'[s]
  BY <1>1, <1>4
<1>5. ASSUME NEW t \in Txns, AdvanceSucceeded(t) \/ AdvanceRetry(t) \/ Resolve(t)
      PROVE  UNCHANGED attempts \/ \E r : \E S : attempts' = [attempts EXCEPT ![r] = @ \cup S]
  BY <1>5 DEF AdvanceSucceeded, Completes, Continues, AdvanceRetry, Resolve
<1>6. ASSUME NEW t \in Txns, Resume(t)
      PROVE  \A s \in Steps : attempts[s] \subseteq attempts'[s]
  <2>1. PICK r \in Steps : r = txn[t].s
    BY <1>6, Kinds DEF Resume, ResumeTxn
  <2>2. PICK S : \/ attempts' = [attempts EXCEPT ![r] = @ \cup S]
                 \/ attempts' = [[attempts EXCEPT ![r] = @ \cup S] EXCEPT ![r + 1] = @ \cup {Attempt(1, "system")}]
    BY <1>6, <2>1 DEF Resume
  <2>3. QED
    BY <1>1, <1>4, <2>2
<1>7. \/ UNCHANGED attempts
      \/ Start
      \/ \E t \in Txns : AdvanceSucceeded(t) \/ Resume(t) \/ AdvanceRetry(t) \/ Resolve(t)
  BY DEF Next, Process, ProcessLoad, ProcessOutcome, Orchestrate, Route, Rollback, Claim, AdvanceLoad, CountAttempts, AdvanceFailed, AdvanceEscalate,
         ResumeLoad, CancelLoad, CancelWorkflow, CheckClaim, LockCase, Reject, Cancel, rows, vars
<1>8. QED
  BY <1>2, <1>3, <1>4, <1>5, <1>6, <1>7

=============================================================================
