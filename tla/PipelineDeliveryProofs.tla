----------------------- MODULE PipelineDeliveryProofs -----------------------
(***************************************************************************)
(* How often the pipeline delivers a task: the relay pushes it once more   *)
(* than it failed at most, and a worker acknowledges it after its outcome. *)
(***************************************************************************)
EXTENDS TaskPipelineProofs

(* The relay and its open batch. *)
RelayType ==
  [busy : BOOLEAN, rows : SUBSET Attempts, now : SUBSET Attempts,
   marked : SUBSET Attempts, failed : SUBSET Attempts]

-----------------------------------------------------------------------------
(* The relay's pushes *)

(* A row that is enqueued, or marked in the open batch, has been pushed; a row *)
(* that is neither has been pushed no more often than the relay failed.        *)
PushCounted ==
  \A a \in Attempts \ Foreign :
    /\ outbox[a] = "enqueued" \/ a \in relay.marked => pushes[a] > 0
    /\ pushes[a] <= faults + 1
    /\ outbox[a] # "enqueued" /\ a \notin relay.marked => pushes[a] <= faults

(* A row of the batch is not marked yet, and no marks outlive the batch.       *)
BatchMarks ==
  /\ relay.rows \cap relay.marked = {}
  /\ ~relay.busy => relay.marked = {}

(* A row that does not exist has no push and no outcome behind it. *)
NothingBeforeSubmit ==
  \A a \in Attempts \ Foreign :
    outbox[a] = "none" => pushes[a] = 0 /\ state[a] \notin Outcomes

(* No relay has run in an initial state. *)
LEMMA InitPushes == Init => PushCounted /\ BatchMarks /\ NothingBeforeSubmit
<1> SUFFICES ASSUME Init PROVE PushCounted /\ BatchMarks /\ NothingBeforeSubmit
  OBVIOUS
<1>1. PushCounted
  BY DEF Init, PushCounted, NoBatch
<1>2. BatchMarks
  BY DEF Init, BatchMarks, NoBatch
<1>3. NothingBeforeSubmit
  BY DEF Init, NothingBeforeSubmit, Outcomes
<1>4. QED
  BY <1>1, <1>2, <1>3

(* A step that leaves the relay's rows alone, and fails no less, keeps the     *)
(* counts.                                                                     *)
LEMMA PushesKept ==
  ASSUME TypeOK, PushCounted, BatchMarks, UNCHANGED <<outbox, pushes, relay>>,
         faults' = faults \/ faults' = faults + 1
  PROVE  PushCounted' /\ BatchMarks'
<1>1. PushCounted'
  BY DEF PushCounted, TypeOK
<1>2. BatchMarks'
  BY DEF BatchMarks
<1>3. QED
  BY <1>1, <1>2

(* The batch after a push, or after one that failed. *)
LEMMA NextPushCounted ==
  ASSUME TypeOK, BatchPending, PushCounted, BatchMarks, [Next]_vars
  PROVE  PushCounted' /\ BatchMarks'
<1>0. /\ relay \in RelayType /\ faults \in Nat
      /\ pushes \in [Attempts -> 0..MaxPushes]
      /\ outbox \in [Attempts -> {"none", "pending", "enqueued"}]
      /\ MaxPushes \in Nat
  BY ConstantsAssumption DEF TypeOK, RelayType
<1>1. ASSUME NEW b \in Attempts, Submit(b) PROVE PushCounted' /\ BatchMarks'
  <2>1. PushCounted'
    BY <1>0, <1>1 DEF Submit, PushCounted
  <2>2. BatchMarks'
    BY <1>1 DEF Submit, BatchMarks
  <2>3. QED
    BY <2>1, <2>2
<1>2. ASSUME NEW b \in Attempts, ForeignPush(b) PROVE PushCounted' /\ BatchMarks'
  <2>1. \A a \in Attempts \ Foreign : pushes'[a] = pushes[a]
    BY <1>0, <1>2 DEF ForeignPush
  <2>2. QED
    BY <1>2, <2>1 DEF ForeignPush, PushCounted, BatchMarks
<1>3. CASE RelayLoad
  <2>1. relay.marked = {} /\ relay'.marked = {} /\ relay'.busy
    BY <1>3 DEF RelayLoad, BatchMarks, NoBatch
  <2>2. UNCHANGED <<outbox, pushes, faults>>
    BY <1>3 DEF RelayLoad
  <2>3. QED
    BY <2>1, <2>2 DEF PushCounted, BatchMarks
<1>4. ASSUME NEW b \in Attempts, PushRow(b)
      PROVE  /\ pushes'[b] = pushes[b] + 1 /\ pushes'[b] > 0
             /\ \A a \in Attempts : a # b => pushes'[a] = pushes[a]
             /\ \A a \in Attempts : pushes'[a] \in Nat
  BY <1>0, <1>4 DEF PushRow
<1>5. ASSUME NEW b \in Attempts, RelayPush(b) PROVE PushCounted' /\ BatchMarks'
  <2>1. /\ relay'.rows = relay.rows \ {b} /\ relay'.marked = relay.marked \cup {b}
        /\ relay'.busy
        /\ UNCHANGED <<outbox, faults>>
    BY <1>0, <1>5 DEF RelayPush, RelayType
  <2>2. outbox[b] = "pending" /\ b \notin relay.marked
    BY <1>5 DEF RelayPush, BatchPending, BatchMarks
  <2>3. /\ pushes'[b] = pushes[b] + 1 /\ pushes'[b] > 0
        /\ \A a \in Attempts : a # b => pushes'[a] = pushes[a]
    BY <1>4, <1>5 DEF RelayPush
  <2>4. PushCounted'
    BY <1>0, <2>1, <2>2, <2>3 DEF PushCounted
  <2>5. BatchMarks'
    BY <2>1 DEF BatchMarks
  <2>6. QED
    BY <2>4, <2>5
<1>6. ASSUME NEW b \in Attempts, NEW applied \in BOOLEAN, RelayPushFails(b, applied)
      PROVE  PushCounted' /\ BatchMarks'
  <2>1. UNCHANGED outbox /\ faults' = faults + 1
    BY <1>6 DEF RelayPushFails
  <2>2. \/ /\ relay'.rows = relay.rows \ {b} /\ relay'.marked = relay.marked /\ relay'.busy = relay.busy
        \/ relay' = NoBatch
    BY <1>0, <1>6 DEF RelayPushFails, AfterPushError, RelayType
  <2>3. outbox[b] = "pending" /\ b \notin relay.marked /\ relay.busy
    BY <1>6 DEF RelayPushFails, BatchPending, BatchMarks
  <2>4. /\ pushes'[b] \in {pushes[b], pushes[b] + 1}
        /\ \A a \in Attempts : a # b => pushes'[a] = pushes[a]
    <3>1. CASE applied
      BY <1>4, <1>6, <3>1 DEF RelayPushFails
    <3>2. CASE ~applied
      BY <1>6, <3>2 DEF RelayPushFails
    <3>3. QED
      BY <3>1, <3>2
  <2>5. PushCounted'
    <3>1. relay'.marked \subseteq relay.marked
      BY <2>2 DEF NoBatch
    <3>2. QED
      BY <1>0, <2>1, <2>3, <2>4, <3>1 DEF PushCounted
  <2>6. BatchMarks'
    <3>1. CASE relay' = NoBatch
      BY <3>1 DEF BatchMarks, NoBatch
    <3>2. CASE /\ relay'.rows = relay.rows \ {b} /\ relay'.marked = relay.marked /\ relay'.busy = relay.busy
      <4>1. relay'.rows \cap relay'.marked = {}
        BY <3>2 DEF BatchMarks
      <4>2. QED
        BY <2>3, <3>2, <4>1 DEF BatchMarks
    <3>3. QED
      BY <2>2, <3>1, <3>2
  <2>7. QED
    BY <2>5, <2>6
<1>7. CASE RelayCommit
  <2>1. /\ outbox' = [a \in Attempts |-> IF a \in relay.marked THEN "enqueued" ELSE outbox[a]]
        /\ relay' = NoBatch /\ UNCHANGED <<pushes, faults>>
    BY <1>7 DEF RelayCommit
  <2>2. PushCounted'
    BY <2>1 DEF PushCounted, NoBatch
  <2>3. BatchMarks'
    BY <2>1 DEF BatchMarks, NoBatch
  <2>4. QED
    BY <2>2, <2>3
<1>8. CASE RelayCrash
  <2>1. relay' = NoBatch /\ UNCHANGED <<pushes, outbox>> /\ faults' = faults + 1
    BY <1>8 DEF RelayCrash
  <2>2. PushCounted'
    BY <1>0, <2>1 DEF PushCounted, NoBatch
  <2>3. BatchMarks'
    BY <2>1 DEF BatchMarks, NoBatch
  <2>4. QED
    BY <2>2, <2>3
<1>9. ASSUME UNCHANGED <<outbox, pushes, relay>>, faults' = faults \/ faults' = faults + 1
      PROVE  PushCounted' /\ BatchMarks'
  BY <1>9, PushesKept
<1>10. QED
  BY <1>1, <1>2, <1>3, <1>5, <1>6, <1>7, <1>8, <1>9
  DEF Next, BecomeDue, BecomeStale, RelayStep, SchedulerStep, SchedulerPop, SchedulerPut, Claim, MarkInProgress,
      WorkerStep, DeadLetter, LoadAttempt, WriteOutcome, Ack, ReaperScan, ReaperStep, ReaperTake, ReaperPut,
      OperatorStep, RequeueTake, RequeuePut, Drop, Failure, WorkerError, WorkerCrash, MoverCrash, relayVars, vars

(* A task the relay has marked enqueued was pushed, and no task is pushed more *)
(* than once more than the relay lost a batch, a push or an answer.            *)
THEOREM PushedOnce == Spec => []PushedOncePerFault
<1>1. PushCounted => PushedOncePerFault
  BY DEF PushCounted, PushedOncePerFault
<1>2. TypeOK /\ BatchPending /\ PushCounted /\ BatchMarks /\ [Next]_vars => PushCounted' /\ BatchMarks'
  BY NextPushCounted
<1>3. QED
  BY <1>1, <1>2, TypeCorrect, InitBatchPending, NextBatchPending, InitPushes, PTL DEF Spec

-----------------------------------------------------------------------------
(* Payloads that have not been pushed *)

(* No list, worker, reaper or mover has the payload. *)
Nowhere(p) ==
  /\ ready[p] = 0 /\ dlq[p] = 0 /\ p \notin delayed
  /\ \A w \in Workers : inflight[w][p] = 0 /\ cur[w] # p
  /\ \A r \in Reapers : todo[r][p] = 0
  /\ \A m \in Movers : hand[m] # p

(* A stamp is used by the push that counts it, and not before. *)
UnpushedNowhere == \A p \in Payloads : p[2] > pushes[p[1]] => Nowhere(p)

(* What LPUSH and LREM do to the count of a payload. *)
LEMMA Counted ==
  ASSUME NEW list \in List, NEW p \in Payloads, NEW q \in Payloads
  PROVE  /\ list[q] \in Nat
         /\ Pushed(list, p)[q] = IF q = p THEN list[q] + 1 ELSE list[q]
         /\ Removed(list, p)[q] = IF q = p /\ list[q] > 0 THEN list[q] - 1 ELSE list[q]
BY DEF List, Pushed, Removed

(* The parts of the type invariant that the lists need. *)
LEMMA ListTypes ==
  ASSUME TypeOK
  PROVE  /\ ready \in List /\ dlq \in List
         /\ inflight \in [Workers -> List]
         /\ todo \in [Reapers -> List]
         /\ hand \in [Movers -> Payloads \cup {None}]
         /\ cur \in [Workers -> Payloads \cup {None}]
         /\ \A w \in Workers : pc[w] \notin {"idle", "dead"} => cur[w] \in Payloads
         /\ pushes \in [Attempts -> 0..MaxPushes]
         /\ None \notin Payloads
         /\ Scheduler \in Movers /\ Operator \in Movers /\ Reapers \subseteq Movers
         /\ MaxPushes \in Nat
BY ConstantsAssumption DEF TypeOK, Movers

(* The number of pushes of a row never falls. *)
LEMMA PushesGrow ==
  ASSUME TypeOK, [Next]_vars
  PROVE  \A a \in Attempts : pushes'[a] \in Nat /\ pushes[a] \in Nat /\ pushes[a] <= pushes'[a]
<1>1. pushes \in [Attempts -> 0..MaxPushes] /\ pushes' \in [Attempts -> 0..MaxPushes] /\ MaxPushes \in Nat
  BY NextTypeOK, ConstantsAssumption DEF TypeOK
<1>2. ASSUME NEW b \in Attempts, pushes' = [pushes EXCEPT ![b] = @ + 1]
      PROVE  \A a \in Attempts : pushes[a] <= pushes'[a]
  BY <1>1, <1>2
<1>3. ASSUME NEW b \in Attempts, ForeignPush(b)
      PROVE  \A a \in Attempts : pushes[a] <= pushes'[a]
  BY <1>1, <1>3 DEF ForeignPush
<1>4. CASE UNCHANGED pushes
  BY <1>1, <1>4
<1>5. \/ UNCHANGED pushes
      \/ \E b \in Attempts : ForeignPush(b)
      \/ \E b \in Attempts : pushes' = [pushes EXCEPT ![b] = @ + 1]
  BY DEF Next, Submit, BecomeDue, BecomeStale, RelayStep, RelayLoad, RelayPush, RelayCommit, PushRow,
      SchedulerStep, SchedulerPop, SchedulerPut, Claim, MarkInProgress, WorkerStep, DeadLetter, LoadAttempt,
      WriteOutcome, Ack, ReaperScan, ReaperStep, ReaperTake, ReaperPut, OperatorStep, RequeueTake, RequeuePut, Drop,
      Failure, RelayPushFails, RelayCrash, WorkerError, WorkerCrash, MoverCrash, relayVars, vars
<1>6. QED
  BY <1>1, <1>2, <1>3, <1>4, <1>5

(* Nothing is anywhere in an initial state. *)
LEMMA InitUnpushed == Init => UnpushedNowhere
<1> SUFFICES ASSUME Init, NEW p \in Payloads PROVE Nowhere(p)
  BY DEF UnpushedNowhere
<1>1. p # None /\ Empty[p] = 0
  BY ConstantsAssumption DEF Empty
<1>2. QED
  BY <1>1 DEF Init, Nowhere

(* Payloads move; new ones come from a push. *)
LEMMA NextUnpushed ==
  ASSUME TypeOK, UnpushedNowhere, [Next]_vars
  PROVE  UnpushedNowhere'
<1> SUFFICES ASSUME NEW p \in Payloads, p[2] > pushes'[p[1]] PROVE Nowhere(p)'
  BY DEF UnpushedNowhere
<1>0. p[1] \in Attempts /\ p[2] \in Nat /\ p = <<p[1], p[2]>>
  BY PayloadParts, ConstantsAssumption
<1>1. Nowhere(p)
  <2>1. pushes'[p[1]] \in Nat /\ pushes[p[1]] \in Nat /\ pushes[p[1]] <= pushes'[p[1]]
    BY <1>0, PushesGrow
  <2>2. QED
    BY <1>0, <2>1 DEF UnpushedNowhere
<1>2. /\ ready \in List /\ dlq \in List
      /\ inflight \in [Workers -> List]
      /\ todo \in [Reapers -> List]
      /\ hand \in [Movers -> Payloads \cup {None}]
      /\ cur \in [Workers -> Payloads \cup {None}]
      /\ \A w \in Workers : pc[w] \notin {"idle", "dead"} => cur[w] \in Payloads
      /\ pushes \in [Attempts -> 0..MaxPushes]
      /\ None \notin Payloads
      /\ Scheduler \in Movers /\ Operator \in Movers /\ Reapers \subseteq Movers
  BY ListTypes
<1>3. ASSUME NEW list \in List, NEW q \in Payloads, q # p
      PROVE  Pushed(list, q)[p] = list[p]
  BY <1>3, Counted
<1>4. ASSUME NEW list \in List, NEW q \in Payloads, list[p] = 0
      PROVE  Removed(list, q)[p] = 0
  BY <1>4, Counted
(* A step that leaves the lists, the workers and the movers alone. *)
<1>5. ASSUME UNCHANGED <<ready, dlq, delayed, inflight, cur, todo, hand>>
      PROVE  Nowhere(p)'
  BY <1>1, <1>5 DEF Nowhere
<1>6. ASSUME NEW q \in Payloads, q # p,
             \/ ready' = Pushed(ready, q) /\ UNCHANGED delayed
             \/ delayed' = delayed \cup {q} /\ UNCHANGED ready
      PROVE  ready'[p] = 0 /\ p \notin delayed'
  BY <1>1, <1>2, <1>3, <1>6 DEF Nowhere
<1>7. ASSUME NEW b \in Attempts, PushRow(b)
      PROVE  ready'[p] = 0 /\ p \notin delayed'
  <2>1. PICK q \in Payloads : q = <<b, pushes[b] + 1>>
    BY <1>7, PushRowPayload
  <2>2. pushes'[b] = pushes[b] + 1
    BY <1>2, <1>7 DEF PushRow
  <2>3. q # p
    BY <1>0, <1>2, <2>1, <2>2
  <2>4. QED
    BY <1>6, <1>7, <2>1, <2>3 DEF PushRow
<1>8. ASSUME NEW b \in Attempts, ForeignPush(b) PROVE Nowhere(p)'
  <2>1. <<b, 1>> \in Payloads /\ pushes'[b] = 1
    BY <1>2, <1>8, ConstantsAssumption DEF ForeignPush, Payloads
  <2>2. <<b, 1>> # p
    BY <1>0, <2>1
  <2>3. ready'[p] = 0 /\ p \notin delayed'
    BY <1>6, <1>8, <2>1, <2>2 DEF ForeignPush
  <2>4. UNCHANGED <<dlq, inflight, cur, todo, hand>>
    BY <1>8 DEF ForeignPush, workerVars, reaperVars, moverVars
  <2>5. QED
    BY <1>1, <2>3, <2>4 DEF Nowhere
<1>9. ASSUME NEW b \in Attempts, RelayPush(b) PROVE Nowhere(p)'
  <2>1. UNCHANGED <<dlq, inflight, cur, todo, hand>> /\ PushRow(b)
    BY <1>9 DEF RelayPush, workerVars, reaperVars, moverVars
  <2>2. QED
    BY <1>1, <1>7, <2>1 DEF Nowhere
<1>10. ASSUME NEW b \in Attempts, NEW applied \in BOOLEAN, RelayPushFails(b, applied) PROVE Nowhere(p)'
  <2>1. UNCHANGED <<dlq, inflight, cur, todo, hand>> /\ (PushRow(b) \/ UNCHANGED <<ready, delayed>>)
    BY <1>10 DEF RelayPushFails, workerVars, reaperVars, moverVars
  <2>2. QED
    BY <1>1, <1>7, <2>1 DEF Nowhere
<1>11. ASSUME NEW q \in Payloads, SchedulerPop(q) PROVE Nowhere(p)'
  <2>1. q # p
    BY <1>1, <1>11 DEF SchedulerPop, Nowhere
  <2>2. \A m \in Movers : hand'[m] # p
    BY <1>1, <1>2, <1>11, <2>1 DEF SchedulerPop, Nowhere
  <2>3. QED
    BY <1>1, <1>11, <2>2 DEF SchedulerPop, Nowhere, workerVars, reaperVars
<1>12. ASSUME NEW m \in Movers, NEW q \in Payloads, q = hand[m], hand' = [hand EXCEPT ![m] = None]
       PROVE  q # p /\ \A n \in Movers : hand'[n] # p
  BY <1>1, <1>2, <1>12 DEF Nowhere
<1>13. CASE SchedulerPut
  <2>1. PICK q \in Payloads : q = hand[Scheduler]
    BY <1>2, <1>13 DEF SchedulerPut
  <2>2. q # p /\ \A n \in Movers : hand'[n] # p
    BY <1>2, <1>12, <1>13, <2>1 DEF SchedulerPut
  <2>3. ready'[p] = 0 /\ p \notin delayed'
    BY <1>6, <1>13, <2>1, <2>2 DEF SchedulerPut
  <2>4. QED
    BY <1>1, <1>13, <2>2, <2>3 DEF SchedulerPut, Nowhere, workerVars, reaperVars
<1>14. ASSUME NEW w \in Workers, NEW q \in Payloads, Claim(w, q) PROVE Nowhere(p)'
  <2>1. q # p
    BY <1>1, <1>14 DEF Claim, Nowhere
  <2>2. ready'[p] = 0
    BY <1>1, <1>2, <1>4, <1>14 DEF Claim, Nowhere
  <2>3. Pushed(inflight[w], q)[p] = inflight[w][p]
    BY <1>2, <1>3, <2>1
  <2>4. \A v \in Workers : inflight'[v][p] = 0 /\ cur'[v] # p
    BY <1>1, <1>2, <1>14, <2>1, <2>3 DEF Claim, Nowhere
  <2>5. QED
    BY <1>1, <1>14, <2>2, <2>4 DEF Claim, Nowhere, reaperVars, moverVars
<1>15. ASSUME NEW w \in Workers, DeadLetter(w) PROVE Nowhere(p)'
  <2>1. PICK q \in Payloads : q = cur[w]
    BY <1>2, <1>15 DEF DeadLetter
  <2>2. q # p
    BY <1>1, <2>1 DEF Nowhere
  <2>3. dlq'[p] = 0
    BY <1>1, <1>2, <1>3, <1>15, <2>1, <2>2 DEF DeadLetter, Nowhere
  <2>4. QED
    BY <1>1, <1>15, <2>3 DEF DeadLetter, Nowhere, reaperVars, moverVars
<1>16. ASSUME NEW w \in Workers, Leave(w, "idle") \/ Leave(w, "dead")
       PROVE  \A v \in Workers : cur'[v] # p
  BY <1>1, <1>2, <1>16 DEF Leave, Nowhere
<1>17. ASSUME NEW w \in Workers, LoadAttempt(w) \/ MarkInProgress(w) PROVE Nowhere(p)'
  BY <1>5, <1>17 DEF LoadAttempt, MarkInProgress, redisVars, reaperVars, moverVars
<1>18. ASSUME NEW w \in Workers, NEW o \in Outcomes \cup {"raises"}, WriteOutcome(w, o) PROVE Nowhere(p)'
  <2>1. UNCHANGED cur \/ Leave(w, "idle")
    BY <1>18 DEF WriteOutcome
  <2>2. UNCHANGED <<ready, delayed, inflight, dlq, todo, hand>>
    BY <1>18 DEF WriteOutcome, redisVars, reaperVars, moverVars
  <2>3. \A v \in Workers : cur'[v] # p
    BY <1>1, <1>16, <2>1 DEF Nowhere
  <2>4. QED
    BY <1>1, <2>2, <2>3 DEF Nowhere
<1>19. ASSUME NEW w \in Workers, Ack(w) PROVE Nowhere(p)'
  <2>1. PICK q \in Payloads : q = cur[w]
    BY <1>2, <1>19 DEF Ack
  <2>2. Removed(inflight[w], q)[p] = 0
    BY <1>1, <1>2, <1>4, <2>1 DEF Nowhere
  <2>3. \A v \in Workers : inflight'[v][p] = 0
    BY <1>1, <1>2, <1>19, <2>1, <2>2 DEF Ack, Nowhere
  <2>4. \A v \in Workers : cur'[v] # p
    BY <1>16, <1>19 DEF Ack
  <2>5. QED
    BY <1>1, <1>19, <2>3, <2>4 DEF Ack, Nowhere, reaperVars, moverVars
<1>20. ASSUME NEW w \in Workers, WorkerError(w) \/ WorkerCrash(w) PROVE Nowhere(p)'
  <2>1. \A v \in Workers : cur'[v] # p
    BY <1>16, <1>20 DEF WorkerError, WorkerCrash
  <2>2. QED
    BY <1>1, <1>20, <2>1 DEF WorkerError, WorkerCrash, Nowhere, redisVars, reaperVars, moverVars
<1>21. ASSUME NEW r \in Reapers, NEW w \in Workers, ReaperScan(r, w) PROVE Nowhere(p)'
  <2>1. \A q \in Reapers : todo'[q][p] = 0
    BY <1>1, <1>2, <1>21 DEF ReaperScan, Nowhere
  <2>2. QED
    BY <1>1, <1>21, <2>1 DEF ReaperScan, Nowhere, redisVars, workerVars, moverVars
<1>22. ASSUME NEW r \in Reapers, NEW q \in Payloads, ReaperTake(r, q) PROVE Nowhere(p)'
  <2>1. q # p
    BY <1>1, <1>22 DEF ReaperTake, Nowhere
  <2>2. source[r] \in Workers
    BY <1>22 DEF ReaperTake, TypeOK, Empty
  <2>3. Removed(todo[r], q)[p] = 0 /\ Removed(inflight[source[r]], q)[p] = 0
    BY <1>1, <1>2, <1>4, <2>2 DEF Nowhere
  <2>4. \A s \in Reapers : todo'[s][p] = 0
    BY <1>1, <1>2, <1>22, <2>3 DEF ReaperTake, Nowhere
  <2>5. \A v \in Workers : inflight'[v][p] = 0
    BY <1>1, <1>2, <1>22, <2>2, <2>3 DEF ReaperTake, Nowhere
  <2>6. \A m \in Movers : hand'[m] # p
    BY <1>1, <1>2, <1>22, <2>1 DEF ReaperTake, Nowhere
  <2>7. QED
    BY <1>1, <1>22, <2>4, <2>5, <2>6 DEF ReaperTake, Nowhere, workerVars
<1>23. ASSUME NEW r \in Reapers, ReaperPut(r) PROVE Nowhere(p)'
  <2>1. PICK q \in Payloads : q = hand[r]
    BY <1>2, <1>23 DEF ReaperPut
  <2>2. q # p /\ \A n \in Movers : hand'[n] # p
    BY <1>2, <1>12, <1>23, <2>1 DEF ReaperPut
  <2>3. ready'[p] = 0 /\ dlq'[p] = 0
    BY <1>1, <1>2, <1>3, <1>23, <2>1, <2>2 DEF ReaperPut, Nowhere
  <2>4. QED
    BY <1>1, <1>23, <2>2, <2>3 DEF ReaperPut, Nowhere, workerVars, reaperVars
<1>24. ASSUME NEW q \in Payloads, RequeueTake(q) PROVE Nowhere(p)'
  <2>1. q # p
    BY <1>1, <1>24 DEF RequeueTake, Nowhere
  <2>2. dlq'[p] = 0
    BY <1>1, <1>2, <1>4, <1>24 DEF RequeueTake, Nowhere
  <2>3. \A m \in Movers : hand'[m] # p
    BY <1>1, <1>2, <1>24, <2>1 DEF RequeueTake, Nowhere
  <2>4. QED
    BY <1>1, <1>24, <2>2, <2>3 DEF RequeueTake, Nowhere, workerVars, reaperVars
<1>25. CASE RequeuePut
  <2>1. PICK q \in Payloads : q = hand[Operator]
    BY <1>2, <1>25 DEF RequeuePut
  <2>2. q # p /\ \A n \in Movers : hand'[n] # p
    BY <1>2, <1>12, <1>25, <2>1 DEF RequeuePut
  <2>3. ready'[p] = 0
    BY <1>1, <1>2, <1>3, <1>25, <2>1, <2>2 DEF RequeuePut, Nowhere
  <2>4. QED
    BY <1>1, <1>25, <2>2, <2>3 DEF RequeuePut, Nowhere, workerVars, reaperVars
<1>26. ASSUME NEW q \in Payloads, Drop(q) PROVE Nowhere(p)'
  <2>1. dlq'[p] = 0
    BY <1>1, <1>2, <1>4, <1>26 DEF Drop, Nowhere
  <2>2. QED
    BY <1>1, <1>26, <2>1 DEF Drop, Nowhere, workerVars, reaperVars
<1>27. ASSUME NEW m \in Movers, MoverCrash(m) PROVE Nowhere(p)'
  <2>1. \A n \in Movers : hand'[n] # p
    BY <1>1, <1>2, <1>27 DEF MoverCrash, Nowhere
  <2>2. \A r \in Reapers : todo'[r][p] = 0
    BY <1>1, <1>27 DEF MoverCrash, Nowhere, Empty
  <2>3. QED
    BY <1>1, <1>27, <2>1, <2>2 DEF MoverCrash, Nowhere, redisVars, workerVars
<1>28. CASE UNCHANGED <<redisVars, workerVars, reaperVars, moverVars>>
  BY <1>5, <1>28 DEF redisVars, workerVars, reaperVars, moverVars
<1>29. QED
  BY <1>8, <1>9, <1>10, <1>11, <1>13, <1>14, <1>15, <1>17, <1>18, <1>19, <1>20, <1>21, <1>22, <1>23, <1>24,
     <1>25, <1>26, <1>27, <1>28
  DEF Next, Submit, BecomeDue, BecomeStale, RelayStep, RelayLoad, RelayCommit, SchedulerStep, WorkerStep,
      ReaperStep, OperatorStep, Failure, RelayCrash, vars

-----------------------------------------------------------------------------
(* Acknowledgements *)

(* A worker that is about to acknowledge a payload finds its outcome committed. *)
AckHasOutcome ==
  \A w \in Workers : pc[w] = "ack" /\ cur[w][1] \notin Foreign => state[cur[w][1]] \in Outcomes

(* A payload in a worker's hands has a row behind it, if its attempt can have one. *)
LEMMA CurrentHasRow ==
  ASSUME TypeOK, UnpushedNowhere, NothingBeforeSubmit,
         NEW w \in Workers, pc[w] \notin {"idle", "dead"}, cur[w][1] \notin Foreign
  PROVE  outbox[cur[w][1]] # "none"
<1>1. PICK p \in Payloads : p = cur[w]
  BY ListTypes
<1>2. p[1] \in Attempts /\ p[2] \in Nat /\ p[2] # 0
  BY PayloadParts, ConstantsAssumption
<1>3. pushes[p[1]] \in Nat
  BY <1>2, ConstantsAssumption DEF TypeOK
<1>4. ~(p[2] > pushes[p[1]])
  BY <1>1 DEF UnpushedNowhere, Nowhere
<1>5. pushes[p[1]] # 0
  BY <1>2, <1>3, <1>4
<1>6. QED
  BY <1>1, <1>2, <1>5 DEF NothingBeforeSubmit

(* The row exists before the first push and the first outcome. *)
LEMMA NextNothingBeforeSubmit ==
  ASSUME TypeOK, BatchPending, ForeignNotExecuted, UnpushedNowhere, NothingBeforeSubmit, [Next]_vars
  PROVE  NothingBeforeSubmit'
<1> SUFFICES ASSUME NEW a \in Attempts \ Foreign, outbox'[a] = "none"
             PROVE  pushes'[a] = 0 /\ state'[a] \notin Outcomes
  BY DEF NothingBeforeSubmit
<1>0. /\ outbox \in [Attempts -> {"none", "pending", "enqueued"}]
      /\ state \in [Attempts -> AttemptStates]
      /\ pushes \in [Attempts -> 0..MaxPushes]
  BY DEF TypeOK
<1>1. outbox[a] = "none" => pushes[a] = 0 /\ state[a] \notin Outcomes
  BY DEF NothingBeforeSubmit
<1>2. ASSUME NEW b \in Attempts, Submit(b) PROVE pushes'[a] = 0 /\ state'[a] \notin Outcomes
  BY <1>0, <1>1, <1>2 DEF Submit, Outcomes
<1>3. ASSUME NEW b \in Attempts, ForeignPush(b) PROVE pushes'[a] = 0 /\ state'[a] \notin Outcomes
  BY <1>0, <1>1, <1>3 DEF ForeignPush
<1>4. ASSUME NEW b \in Attempts, RelayPush(b) \/ (\E applied \in BOOLEAN : RelayPushFails(b, applied))
      PROVE  pushes'[a] = 0 /\ state'[a] \notin Outcomes
  <2>1. outbox[b] = "pending" /\ UNCHANGED <<outbox, state>>
    BY <1>4 DEF RelayPush, RelayPushFails, BatchPending
  <2>2. a # b
    BY <2>1
  <2>3. pushes'[a] = pushes[a]
    BY <1>0, <1>4, <2>2 DEF RelayPush, RelayPushFails, PushRow
  <2>4. QED
    BY <1>1, <2>1, <2>3
<1>5. CASE RelayCommit
  BY <1>1, <1>5 DEF RelayCommit
<1>6. ASSUME NEW w \in Workers, NEW o \in Outcomes \cup {"raises"}, WriteOutcome(w, o)
      PROVE  pushes'[a] = 0 /\ state'[a] \notin Outcomes
  <2>1. UNCHANGED <<outbox, pushes>>
    BY <1>6 DEF WriteOutcome, relayVars
  <2>2. cur[w][1] \notin Foreign /\ pc[w] \notin {"idle", "dead"}
    BY <1>6 DEF WriteOutcome, ForeignNotExecuted
  <2>3. outbox[cur[w][1]] # "none"
    BY <2>2, CurrentHasRow
  <2>4. state'[a] = state[a]
    BY <1>0, <1>6, <2>1, <2>3 DEF WriteOutcome
  <2>5. QED
    BY <1>1, <2>1, <2>4
<1>7. CASE UNCHANGED <<outbox, pushes, state>>
  BY <1>1, <1>7
<1>8. QED
  BY <1>2, <1>3, <1>4, <1>5, <1>6, <1>7
  DEF Next, BecomeDue, BecomeStale, RelayStep, RelayLoad, SchedulerStep, SchedulerPop, SchedulerPut, Claim,
      MarkInProgress, WorkerStep, DeadLetter, LoadAttempt, Ack, ReaperScan, ReaperStep, ReaperTake, ReaperPut,
      OperatorStep, RequeueTake, RequeuePut, Drop, Failure, RelayCrash, WorkerError, WorkerCrash, MoverCrash,
      relayVars, vars

(* The outcome is committed before the worker gets to the acknowledgement, and *)
(* no later step takes it back.                                                *)
LEMMA NextAckHasOutcome ==
  ASSUME TypeOK, ForeignNotExecuted, UnpushedNowhere, NothingBeforeSubmit, AckHasOutcome, [Next]_vars
  PROVE  AckHasOutcome'
<1> SUFFICES ASSUME NEW w \in Workers, pc'[w] = "ack", cur'[w][1] \notin Foreign
             PROVE  state'[cur'[w][1]] \in Outcomes
  BY DEF AckHasOutcome
<1>0. /\ pc \in [Workers -> {"idle", "claimed", "loaded", "executing", "ack", "dead"}]
      /\ cur \in [Workers -> Payloads \cup {None}]
      /\ state \in [Attempts -> AttemptStates]
      /\ \A v \in Workers : pc[v] \notin {"idle", "dead"} => cur[v] \in Payloads /\ cur[v][1] \in Attempts
  BY PayloadParts DEF TypeOK
<1>1. ASSUME UNCHANGED <<pc, cur, state>>
      PROVE  state'[cur'[w][1]] \in Outcomes
  BY <1>1 DEF AckHasOutcome
<1>2. ASSUME NEW b \in Attempts, Submit(b) PROVE state'[cur'[w][1]] \in Outcomes
  <2>1. UNCHANGED <<pc, cur>> /\ outbox[b] = "none" /\ b \notin Foreign
    BY <1>2 DEF Submit, workerVars
  <2>2. state[cur[w][1]] \in Outcomes
    BY <2>1 DEF AckHasOutcome
  <2>3. cur[w][1] # b
    BY <2>1, <2>2 DEF NothingBeforeSubmit
  <2>4. QED
    BY <1>0, <1>2, <2>1, <2>2, <2>3 DEF Submit
<1>3. ASSUME NEW v \in Workers, NEW p \in Payloads, Claim(v, p) PROVE state'[cur'[w][1]] \in Outcomes
  BY <1>0, <1>3 DEF Claim, Goto, AckHasOutcome
<1>4. ASSUME NEW v \in Workers, DeadLetter(v) \/ MarkInProgress(v) PROVE state'[cur'[w][1]] \in Outcomes
  BY <1>0, <1>4 DEF DeadLetter, MarkInProgress, Goto, AckHasOutcome
<1>5. ASSUME NEW v \in Workers, LoadAttempt(v) PROVE state'[cur'[w][1]] \in Outcomes
  <2>1. UNCHANGED <<cur, state>> /\ (v # w => pc'[w] = pc[w])
    BY <1>0, <1>5 DEF LoadAttempt, Goto
  <2>2. CASE v = w
    <3>1. state[cur[w][1]] \in Terminal /\ state[cur[w][1]] \in AttemptStates
      BY <1>0, <1>5, <2>2 DEF LoadAttempt, Goto
    <3>2. QED
      BY <2>1, <3>1 DEF Terminal, AttemptStates, Outcomes
  <2>3. CASE v # w
    BY <2>1, <2>3 DEF AckHasOutcome
  <2>4. QED
    BY <2>2, <2>3
<1>6. ASSUME NEW v \in Workers, NEW o \in Outcomes \cup {"raises"}, WriteOutcome(v, o)
      PROVE  state'[cur'[w][1]] \in Outcomes
  <2>1. CASE o = "raises"
    <3>1. pc' = [pc EXCEPT ![v] = "idle"] /\ cur' = [cur EXCEPT ![v] = None] /\ UNCHANGED state
      BY <1>6, <2>1 DEF WriteOutcome, Leave, Goto
    <3>2. v # w
      BY <1>0, <3>1
    <3>3. QED
      BY <1>0, <3>1, <3>2 DEF AckHasOutcome
  <2>2. CASE o # "raises"
    <3>1. /\ pc' = [pc EXCEPT ![v] = "ack"] /\ UNCHANGED cur
          /\ state' = [state EXCEPT ![cur[v][1]] = o]
          /\ cur[v][1] \in Attempts
      BY <1>0, <1>6, <2>2 DEF WriteOutcome, Goto
    <3>2. CASE cur[v][1] = cur[w][1]
      BY <1>0, <2>2, <3>1, <3>2
    <3>3. CASE cur[v][1] # cur[w][1]
      <4>1. v # w /\ pc[w] = "ack"
        BY <1>0, <3>1, <3>3
      <4>2. cur[w][1] \in Attempts /\ state[cur[w][1]] \in Outcomes
        BY <1>0, <3>1, <4>1 DEF AckHasOutcome
      <4>3. QED
        BY <1>0, <3>1, <3>3, <4>2
    <3>4. QED
      BY <3>2, <3>3
  <2>3. QED
    BY <2>1, <2>2
<1>7. ASSUME NEW v \in Workers, Ack(v) \/ WorkerError(v) \/ WorkerCrash(v)
      PROVE  state'[cur'[w][1]] \in Outcomes
  <2>1. UNCHANGED state /\ (Leave(v, "idle") \/ Leave(v, "dead"))
    BY <1>7 DEF Ack, WorkerError, WorkerCrash
  <2>2. v # w
    BY <1>0, <2>1 DEF Leave, Goto
  <2>3. pc'[w] = pc[w] /\ cur'[w] = cur[w]
    BY <1>0, <2>1, <2>2 DEF Leave, Goto
  <2>4. QED
    BY <2>1, <2>3 DEF AckHasOutcome
<1>8. QED
  BY <1>1, <1>2, <1>3, <1>4, <1>5, <1>6, <1>7
  DEF Next, ForeignPush, BecomeDue, BecomeStale, RelayStep, RelayLoad, RelayPush, RelayCommit, SchedulerStep,
      SchedulerPop, SchedulerPut, WorkerStep, ReaperScan, ReaperStep, ReaperTake, ReaperPut, OperatorStep,
      RequeueTake, RequeuePut, Drop, Failure, RelayPushFails, RelayCrash, MoverCrash, workerVars, vars

(* The invariant that the theorems on copies and acknowledgements share. *)
Delivery ==
  /\ TypeOK /\ BatchPending /\ ForeignNotExecuted
  /\ UnpushedNowhere /\ NothingBeforeSubmit /\ AckHasOutcome

(* It holds in every reachable state. *)
LEMMA DeliveryHolds == Spec => []Delivery
<1>1. Init => Delivery
  <2>1. Init => AckHasOutcome
    BY DEF Init, AckHasOutcome
  <2>2. QED
    BY <2>1, InitTypeOK, InitBatchPending, InitForeignNotExecuted, InitUnpushed, InitPushes DEF Delivery
<1>2. Delivery /\ [Next]_vars => Delivery'
  BY NextTypeOK, NextBatchPending, NextForeignNotExecuted, NextUnpushed, NextNothingBeforeSubmit,
     NextAckHasOutcome DEF Delivery
<1>3. QED
  BY <1>1, <1>2, PTL DEF Spec

(* A worker that returns from an acknowledgement leaves a committed outcome    *)
(* behind, whether it wrote the outcome or only found it, and also when the    *)
(* acknowledgement itself fails.                                               *)
THEOREM AckedAfterOutcome == Spec => AckAfterOutcome
<1>1. Delivery => \A w \in Workers : pc[w] = "ack" /\ cur[w][1] \notin Foreign => state[cur[w][1]] \in Outcomes
  BY DEF Delivery, AckHasOutcome
<1>2. Delivery /\ [Next]_vars =>
        [\A w \in Workers : pc[w] = "ack" /\ pc'[w] = "idle" /\ cur[w][1] \notin Foreign
           => state[cur[w][1]] \in Outcomes]_vars
  BY <1>1
<1>3. QED
  BY <1>2, DeliveryHolds, PTL DEF Spec, AckAfterOutcome
=============================================================================
