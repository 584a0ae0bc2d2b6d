------------------------- MODULE TaskPipelineProofs -------------------------
(***************************************************************************)
(* TLAPS proofs about TaskPipeline: type correctness, and that no task is  *)
(* lost, for every set of attempts, workers and reapers and every bound.   *)
(***************************************************************************)
EXTENDS TaskPipeline, TLAPS

(* A payload is a pair of an attempt and a stamp. *)
LEMMA PayloadParts ==
  ASSUME NEW p \in Payloads
  PROVE  /\ p[1] \in Attempts
         /\ p[2] \in 1..MaxPushes
         /\ p = <<p[1], p[2]>>
BY DEF Payloads

(* LPUSH and LREM map lists to lists and touch one payload only. *)
LEMMA ListUpdates ==
  ASSUME NEW list \in List, NEW p \in Payloads
  PROVE  /\ Pushed(list, p) \in List
         /\ Removed(list, p) \in List
         /\ Pushed(list, p)[p] > 0
         /\ \A q \in Payloads : list[q] > 0 => Pushed(list, p)[q] > 0
         /\ \A q \in Payloads : q # p => Removed(list, p)[q] = list[q]
BY DEF List, Pushed, Removed

(* The empty list is a list. *)
LEMMA EmptyIsList == Empty \in List
BY DEF Empty, List

(* Init satisfies the type invariant. *)
LEMMA InitTypeOK == Init => TypeOK
<1> SUFFICES ASSUME Init PROVE TypeOK
  OBVIOUS
<1> QED
  BY EmptyIsList, ConstantsAssumption
     DEF Init, TypeOK, NoBatch, AttemptStates, Movers

(* Every step preserves the type invariant. *)
LEMMA NextTypeOK == TypeOK /\ [Next]_vars => TypeOK'
<1> SUFFICES ASSUME TypeOK, [Next]_vars PROVE TypeOK'
  OBVIOUS
<1> USE ConstantsAssumption, PayloadParts, ListUpdates, EmptyIsList
<1> USE DEF TypeOK, redisVars, relayVars, workerVars, reaperVars, moverVars, timeVars
<1>1. ASSUME NEW a \in Attempts, Submit(a) PROVE TypeOK'
  BY <1>1 DEF Submit, AttemptStates
<1>2. ASSUME NEW a \in Attempts, ForeignPush(a) PROVE TypeOK'
  <2>1. <<a, 1>> \in Payloads
    BY DEF Payloads
  <2> QED
    BY <1>2, <2>1 DEF ForeignPush
<1>3. ASSUME NEW a \in Attempts, BecomeDue(a) PROVE TypeOK'
  BY <1>3 DEF BecomeDue
<1>4. ASSUME NEW p \in Payloads, BecomeStale(p) PROVE TypeOK'
  BY <1>4 DEF BecomeStale
<1>5. ASSUME RelayLoad PROVE TypeOK'
  BY <1>5 DEF RelayLoad, NoBatch
<1>6. ASSUME NEW a \in Attempts, PushRow(a)
      PROVE  /\ pushes' \in [Attempts -> 0..MaxPushes]
             /\ ready' \in List
             /\ delayed' \subseteq Payloads
  <2>1. <<a, pushes[a] + 1>> \in Payloads
    BY <1>6 DEF PushRow, Payloads
  <2>2. pushes' = [pushes EXCEPT ![a] = @ + 1] /\ pushes[a] < MaxPushes
    BY <1>6 DEF PushRow
  <2>3. /\ ready' = ready \/ ready' = Pushed(ready, <<a, pushes[a] + 1>>)
        /\ delayed' = delayed \/ delayed' = delayed \cup {<<a, pushes[a] + 1>>}
    BY <1>6 DEF PushRow
  <2>4. pushes' \in [Attempts -> 0..MaxPushes]
    BY <2>2
  <2>5. ready' \in List
    BY <2>1, <2>3
  <2> QED
    BY <2>1, <2>3, <2>4, <2>5
<1>7. ASSUME NEW a \in Attempts, RelayPush(a) PROVE TypeOK'
  BY <1>6, <1>7 DEF RelayPush
<1>8. ASSUME NEW a \in Attempts, NEW applied \in BOOLEAN, RelayPushFails(a, applied)
      PROVE TypeOK'
  <2>1. /\ pushes' \in [Attempts -> 0..MaxPushes]
        /\ ready' \in List
        /\ delayed' \subseteq Payloads
    BY <1>6, <1>8 DEF RelayPushFails
  <2>2. relay' \in [busy : BOOLEAN, rows : SUBSET Attempts, now : SUBSET Attempts,
                    marked : SUBSET Attempts, failed : SUBSET Attempts]
    BY <1>8 DEF RelayPushFails, AfterPushError, NoBatch
  <2> QED
    BY <1>8, <2>1, <2>2 DEF RelayPushFails
<1>9. ASSUME RelayCommit PROVE TypeOK'
  BY <1>9 DEF RelayCommit, NoBatch
<1>10. ASSUME RelayCrash PROVE TypeOK'
  BY <1>10 DEF RelayCrash, NoBatch
<1>11. ASSUME NEW p \in Payloads, SchedulerPop(p) PROVE TypeOK'
  BY <1>11 DEF SchedulerPop, Movers
<1>12. ASSUME SchedulerPut PROVE TypeOK'
  <2>1. hand[Scheduler] \in Payloads
    BY <1>12 DEF SchedulerPut, Movers
  <2>2. /\ ready' = ready \/ ready' = Pushed(ready, hand[Scheduler])
        /\ delayed' = delayed \/ delayed' = delayed \cup {hand[Scheduler]}
    BY <1>12 DEF SchedulerPut
  <2> QED
    BY <1>12, <2>1, <2>2 DEF SchedulerPut, Movers
<1>13. ASSUME NEW w \in Workers, NEW p \in Payloads, Claim(w, p) PROVE TypeOK'
  BY <1>13 DEF Claim, Goto
<1>14. ASSUME NEW w \in Workers, DeadLetter(w) PROVE TypeOK'
  BY <1>14 DEF DeadLetter, Goto
<1>15. ASSUME NEW w \in Workers, LoadAttempt(w) PROVE TypeOK'
  BY <1>15 DEF LoadAttempt, Goto
<1>16. ASSUME NEW w \in Workers, MarkInProgress(w) PROVE TypeOK'
  BY <1>16 DEF MarkInProgress, Goto
<1>17. ASSUME NEW w \in Workers, NEW o \in Outcomes \cup {"raises"}, WriteOutcome(w, o)
       PROVE TypeOK'
  <2>1. CASE o = "raises"
    <3>1. /\ pc' = [pc EXCEPT ![w] = "idle"]
          /\ cur' = [cur EXCEPT ![w] = None]
          /\ UNCHANGED <<state, redisVars, relayVars, reaperVars, moverVars, timeVars>>
      BY <1>17, <2>1 DEF WriteOutcome, Goto, Leave
    <3> QED
      BY <3>1
  <2>2. CASE o # "raises"
    <3>1. state' \in [Attempts -> AttemptStates]
      BY <1>17, <2>2 DEF WriteOutcome, AttemptStates, Outcomes
    <3>2. /\ pc' = [pc EXCEPT ![w] = "ack"] /\ pc[w] = "executing"
          /\ UNCHANGED <<cur, redisVars, relayVars, reaperVars, moverVars, timeVars>>
      BY <1>17, <2>2 DEF WriteOutcome, Goto
    <3> QED
      BY <3>1, <3>2
  <2> QED
    BY <2>1, <2>2
<1>18. ASSUME NEW w \in Workers, Ack(w) PROVE TypeOK'
  BY ZenonT(60), <1>18 DEF Ack, Goto, Leave
<1>19. ASSUME NEW w \in Workers, WorkerCrash(w) PROVE TypeOK'
  BY <1>19 DEF WorkerCrash, Goto, Leave
<1>28. ASSUME NEW w \in Workers, WorkerError(w) PROVE TypeOK'
  BY <1>28 DEF WorkerError, Goto, Leave
<1>20. ASSUME NEW r \in Reapers, NEW w \in Workers, ReaperScan(r, w) PROVE TypeOK'
  BY <1>20 DEF ReaperScan, List
<1>21. ASSUME NEW r \in Reapers, NEW p \in Payloads, ReaperTake(r, p) PROVE TypeOK'
  <2>1. source[r] \in Workers
    BY <1>21 DEF ReaperTake, Empty
  <2>2. todo' \in [Reapers -> List]
    BY <1>21 DEF ReaperTake
  <2>3. inflight' \in [Workers -> List]
    BY <1>21, <2>1 DEF ReaperTake
  <2>4. /\ source' \in [Reapers -> Workers \cup {None}]
        /\ \A q \in Reapers : todo'[q] # Empty => source'[q] \in Workers
    BY <1>21, <2>1 DEF ReaperTake
  <2>5. hand' \in [Movers -> Payloads \cup {None}]
    BY <1>21 DEF ReaperTake, Movers
  <2> QED
    BY <1>21, <2>2, <2>3, <2>4, <2>5 DEF ReaperTake
<1>22. ASSUME NEW r \in Reapers, ReaperPut(r) PROVE TypeOK'
  BY <1>22 DEF ReaperPut, Movers
<1>23. ASSUME NEW p \in Payloads, RequeueTake(p) PROVE TypeOK'
  BY <1>23 DEF RequeueTake, Movers
<1>24. ASSUME NEW p \in Payloads, Drop(p) PROVE TypeOK'
  BY <1>24 DEF Drop
<1>25. ASSUME RequeuePut PROVE TypeOK'
  BY <1>25 DEF RequeuePut, Movers
<1>26. ASSUME NEW m \in Movers, MoverCrash(m) PROVE TypeOK'
  BY <1>26 DEF MoverCrash
<1>27. ASSUME UNCHANGED vars PROVE TypeOK'
  BY <1>27 DEF vars
<1> HIDE ConstantsAssumption, PayloadParts, ListUpdates, EmptyIsList
<1> HIDE DEF TypeOK, redisVars, relayVars, workerVars, reaperVars, moverVars, timeVars
<1> QED
  BY <1>1, <1>2, <1>3, <1>4, <1>5, <1>7, <1>8, <1>9, <1>10, <1>11, <1>12, <1>13, <1>14,
     <1>15, <1>16, <1>17, <1>18, <1>19, <1>20, <1>21, <1>22, <1>23, <1>24, <1>25, <1>26,
     <1>27, <1>28
  DEF Next, RelayStep, SchedulerStep, WorkerStep, ReaperStep, OperatorStep, Failure

(* Type correctness of the pipeline. *)
THEOREM TypeCorrect == Spec => []TypeOK
BY InitTypeOK, NextTypeOK, PTL DEF Spec

(* The rows the relay works on stay pending until it commits. *)
LEMMA InitBatchPending == Init => BatchPending
BY DEF Init, BatchPending, NoBatch

(* Every step keeps the batches of the relays pending. *)
LEMMA NextBatchPending == TypeOK /\ BatchPending /\ [Next]_vars => BatchPending'
<1> SUFFICES ASSUME TypeOK, BatchPending, [Next]_vars PROVE BatchPending'
  OBVIOUS
<1>0. relay \in [busy : BOOLEAN, rows : SUBSET Attempts, now : SUBSET Attempts,
                 marked : SUBSET Attempts, failed : SUBSET Attempts]
  BY DEF TypeOK
<1>1. ASSUME NEW a \in Attempts, Submit(a) PROVE BatchPending'
  BY <1>1 DEF Submit, BatchPending, TypeOK
<1>2. ASSUME RelayLoad PROVE BatchPending'
  BY <1>2 DEF RelayLoad, NoBatch, BatchPending
<1>3. ASSUME NEW a \in Attempts, RelayPush(a) PROVE BatchPending'
  BY <1>0, <1>3 DEF RelayPush, BatchPending
<1>4. ASSUME NEW a \in Attempts, NEW applied \in BOOLEAN, RelayPushFails(a, applied)
      PROVE BatchPending'
  BY <1>0, <1>4 DEF RelayPushFails, AfterPushError, NoBatch, BatchPending
<1>5. ASSUME RelayCommit \/ RelayCrash PROVE BatchPending'
  BY <1>5 DEF RelayCommit, RelayCrash, NoBatch, BatchPending
<1>6. ASSUME UNCHANGED <<outbox, relay>> PROVE BatchPending'
  BY <1>6 DEF BatchPending
<1> QED
  BY <1>1, <1>2, <1>3, <1>4, <1>5, <1>6
  DEF Next, ForeignPush, BecomeDue, BecomeStale, RelayStep, SchedulerStep, SchedulerPop,
      SchedulerPut, Claim, MarkInProgress, WorkerStep, DeadLetter, LoadAttempt, WriteOutcome,
      Ack, ReaperScan, ReaperStep, ReaperTake, ReaperPut, OperatorStep, RequeueTake,
      RequeuePut, Drop, Failure, WorkerError, WorkerCrash, MoverCrash, relayVars, vars

(* No foreign payload reaches a handler. *)
LEMMA InitForeignNotExecuted == Init => ForeignNotExecuted
BY DEF Init, ForeignNotExecuted

(* Every step leaves the foreign payloads unexecuted. *)
LEMMA NextForeignNotExecuted ==
  TypeOK /\ ForeignNotExecuted /\ [Next]_vars => ForeignNotExecuted'
<1> SUFFICES ASSUME TypeOK, ForeignNotExecuted, [Next]_vars PROVE ForeignNotExecuted'
  OBVIOUS
<1>0. /\ pc \in [Workers -> {"idle", "claimed", "loaded", "executing", "ack", "dead"}]
      /\ cur \in [Workers -> Payloads \cup {None}]
  BY DEF TypeOK
<1>1. ASSUME NEW w \in Workers, NEW p \in Payloads, Claim(w, p) PROVE ForeignNotExecuted'
  BY <1>0, <1>1 DEF Claim, Goto, ForeignNotExecuted
<1>2. ASSUME NEW w \in Workers, MarkInProgress(w) PROVE ForeignNotExecuted'
  BY <1>0, <1>2 DEF MarkInProgress, Goto, ForeignNotExecuted
<1>3. ASSUME NEW w \in Workers, DeadLetter(w) \/ LoadAttempt(w) PROVE ForeignNotExecuted'
  BY <1>0, <1>3 DEF DeadLetter, LoadAttempt, Goto, ForeignNotExecuted
<1>4. ASSUME NEW w \in Workers,
             \/ \E o \in Outcomes \cup {"raises"} : WriteOutcome(w, o)
             \/ Ack(w) \/ WorkerError(w) \/ WorkerCrash(w)
      PROVE  ForeignNotExecuted'
  BY <1>0, <1>4 DEF WriteOutcome, Ack, WorkerError, WorkerCrash, Goto, Leave, ForeignNotExecuted
<1>5. ASSUME UNCHANGED <<pc, cur>> PROVE ForeignNotExecuted'
  BY <1>5 DEF ForeignNotExecuted
<1> QED
  BY <1>1, <1>2, <1>3, <1>4, <1>5
  DEF Next, Submit, ForeignPush, BecomeDue, BecomeStale, RelayStep, RelayLoad, RelayPush,
      RelayCommit, RelayPushFails, RelayCrash, SchedulerStep, SchedulerPop, SchedulerPut,
      WorkerStep, ReaperScan, ReaperStep, ReaperTake, ReaperPut, OperatorStep, RequeueTake,
      RequeuePut, Drop, Failure, MoverCrash, workerVars, vars

(* Nothing is owed in an initial state. *)
LEMMA InitNoTaskLost == Init => NoTaskLost
BY DEF Init, NoTaskLost, Owed

(* The payload of a relay push. *)
LEMMA PushRowPayload ==
  ASSUME TypeOK, NEW b \in Attempts, PushRow(b)
  PROVE  \E p \in Payloads : p = <<b, pushes[b] + 1>>
BY ConstantsAssumption DEF TypeOK, Payloads, PushRow

(* A relay push adds one copy and removes none. *)
LEMMA PushRowHolds ==
  ASSUME TypeOK, NEW b \in Attempts, PushRow(b), UNCHANGED <<dlq, hand, inflight, pc, cur>>,
         NEW p \in Payloads, p = <<b, pushes[b] + 1>>
  PROVE  /\ Held(p)'
         /\ \A q \in Payloads : Held(q) => Held(q)'
         /\ \A c \in Attempts : pushes'[c] > 0 => c = b \/ pushes[c] > 0
<1>1. /\ pushes' = [pushes EXCEPT ![b] = @ + 1]
      /\ \/ ready' = Pushed(ready, p) /\ delayed' = delayed
         \/ delayed' = delayed \cup {p} /\ ready' = ready
  BY DEF PushRow
<1>2. ready \in List
  BY DEF TypeOK
<1>3. /\ p \in delayed' \/ ready'[p] > 0
      /\ \A q \in Payloads : /\ q \in delayed => q \in delayed'
                             /\ ready[q] > 0 => ready'[q] > 0
  BY <1>1, <1>2, ListUpdates
<1>4. \A q \in Payloads : (InHand(q) => InHand(q)') /\ (InFlight(q) => InFlight(q)')
  BY DEF InHand, InFlight
<1>5. \A q \in Payloads : Held(q) => Held(q)'
  BY <1>3, <1>4 DEF Held
<1>6. \A c \in Attempts : pushes'[c] > 0 => c = b \/ pushes[c] > 0
  BY <1>1 DEF TypeOK
<1> QED
  BY <1>3, <1>5, <1>6 DEF Held

(* Every step preserves NoTaskLost: it leaves a held copy or an unmarked row   *)
(* of every owed attempt where it is, or moves it to where it is held again.   *)
LEMMA NextNoTaskLost ==
  TypeOK /\ BatchPending /\ ForeignNotExecuted /\ NoTaskLost /\ [Next]_vars => NoTaskLost'
<1> SUFFICES ASSUME TypeOK, BatchPending, ForeignNotExecuted, NoTaskLost, [Next]_vars,
                    NEW a \in Attempts, Owed(a)'
             PROVE  Recoverable(a)'
  BY DEF NoTaskLost
<1> USE DEF redisVars, relayVars, workerVars, reaperVars, moverVars, timeVars
<1>a. ASSUME Owed(a) PROVE Recoverable(a)
  BY <1>a DEF NoTaskLost
<1>b. /\ ready \in List /\ dlq \in List
      /\ inflight \in [Workers -> List]
      /\ hand \in [Movers -> Payloads \cup {None}]
      /\ pc \in [Workers -> {"idle", "claimed", "loaded", "executing", "ack", "dead"}]
      /\ cur \in [Workers -> Payloads \cup {None}]
      /\ \A w \in Workers : pc[w] \notin {"idle", "dead"} => cur[w] \in Payloads
      /\ state \in [Attempts -> AttemptStates]
      /\ outbox \in [Attempts -> {"none", "pending", "enqueued"}]
      /\ pushes \in [Attempts -> 0..MaxPushes]
  BY DEF TypeOK
<1>c. /\ Scheduler \in Movers /\ Operator \in Movers
      /\ Reapers \subseteq Movers
      /\ None \notin Payloads
  BY ConstantsAssumption DEF Movers
(* A step that keeps the outbox, the relay and what is owed, and every held    *)
(* payload of a, keeps a recoverable.                                          *)
<1>d. ASSUME UNCHANGED <<outbox, relay>>, Owed(a),
             \A q \in Payloads : q[1] = a /\ Held(q) => Held(q)'
      PROVE  Recoverable(a)'
  BY <1>a, <1>d DEF Recoverable
<1>1. ASSUME NEW b \in Attempts, Submit(b) PROVE Recoverable(a)'
  <2>1. CASE a = b
    BY <1>1, <1>b, <2>1 DEF Submit, BatchPending, Recoverable
  <2>2. CASE a # b
    <3>1. Owed(a)
      BY <1>1, <1>b, <2>2 DEF Submit, Owed
    <3>2. \A q \in Payloads : Held(q) => Held(q)'
      BY <1>1 DEF Submit, Held, InHand, InFlight
    <3> QED
      BY <1>1, <1>a, <1>b, <2>2, <3>1, <3>2 DEF Submit, Recoverable
  <2> QED
    BY <2>1, <2>2
<1>2. ASSUME NEW b \in Attempts, ForeignPush(b) PROVE Recoverable(a)'
  <2> DEFINE p == <<b, 1>>
  <2>1. p \in Payloads /\ ready' = Pushed(ready, p)
    BY <1>2, ConstantsAssumption DEF ForeignPush, Payloads
  <2>a. \A q \in Payloads : ready[q] > 0 => ready'[q] > 0
    BY <1>b, <2>1, ListUpdates
  <2>b. UNCHANGED <<delayed, dlq, hand, inflight, pc, cur>>
    BY <1>2 DEF ForeignPush
  <2>2. \A q \in Payloads : Held(q) => Held(q)'
    BY <2>a, <2>b DEF Held, InHand, InFlight
  <2>3. CASE a = b
    BY <1>b, <2>1, <2>3, ListUpdates DEF Recoverable, Held
  <2>4. CASE a # b
    <3>1. Owed(a)
      BY <1>2, <1>b, <2>4 DEF ForeignPush, Owed
    <3> QED
      BY <1>2, <1>d, <2>2, <3>1 DEF ForeignPush
  <2> QED
    BY <2>3, <2>4
<1>3. ASSUME NEW b \in Attempts, BecomeDue(b) PROVE Recoverable(a)'
  BY <1>3, <1>d DEF BecomeDue, Owed, Held, InHand, InFlight
<1>4. ASSUME NEW p \in Payloads, BecomeStale(p) PROVE Recoverable(a)'
  BY <1>4, <1>d DEF BecomeStale, Owed, Held, InHand, InFlight
<1>5. ASSUME RelayLoad PROVE Recoverable(a)'
  BY <1>5, <1>a DEF RelayLoad, NoBatch, Owed, Recoverable, Held, InHand, InFlight
<1>6. ASSUME NEW b \in Attempts, RelayPush(b) PROVE Recoverable(a)'
  <2>1. PICK p \in Payloads : p = <<b, pushes[b] + 1>>
    BY <1>6, PushRowPayload DEF RelayPush
  <2>2. /\ Held(p)'
        /\ \A q \in Payloads : Held(q) => Held(q)'
        /\ \A c \in Attempts : pushes'[c] > 0 => c = b \/ pushes[c] > 0
    BY <1>6, <2>1, PushRowHolds DEF RelayPush
  <2>3. CASE a = b
    BY <2>1, <2>2, <2>3 DEF Recoverable
  <2>4. CASE a # b
    <3>1. Owed(a)
      BY <1>6, <2>2, <2>4 DEF RelayPush, Owed
    <3>2. a \notin relay.marked => a \notin relay'.marked
      BY <1>6, <2>4 DEF RelayPush, TypeOK
    <3> QED
      BY <1>6, <1>a, <2>2, <3>1, <3>2 DEF RelayPush, Recoverable
  <2> QED
    BY <2>3, <2>4
<1>7. ASSUME NEW b \in Attempts, NEW applied \in BOOLEAN, RelayPushFails(b, applied)
      PROVE Recoverable(a)'
  <2>1. outbox' = outbox /\ (a \notin relay.marked => a \notin relay'.marked)
    BY <1>7 DEF RelayPushFails, AfterPushError, NoBatch, TypeOK
  <2>2. UNCHANGED <<state, forfeited, dlq, hand, inflight, pc, cur>>
    BY <1>7 DEF RelayPushFails
  <2>3. CASE applied
    <3>1. PushRow(b)
      BY <1>7, <2>3 DEF RelayPushFails
    <3>2. PICK p \in Payloads : p = <<b, pushes[b] + 1>>
      BY <3>1, PushRowPayload
    <3>3. /\ Held(p)'
          /\ \A q \in Payloads : Held(q) => Held(q)'
          /\ \A c \in Attempts : pushes'[c] > 0 => c = b \/ pushes[c] > 0
      BY <2>2, <3>1, <3>2, PushRowHolds
    <3>4. CASE a = b
      BY <3>2, <3>3, <3>4 DEF Recoverable
    <3>5. CASE a # b
      BY <1>a, <2>1, <2>2, <3>3, <3>5 DEF Recoverable, Owed
    <3> QED
      BY <3>4, <3>5
  <2>4. CASE ~applied
    <3>1. UNCHANGED <<pushes, ready, delayed>>
      BY <1>7, <2>4 DEF RelayPushFails
    <3> QED
      BY <1>a, <2>1, <2>2, <3>1 DEF Recoverable, Owed, Held, InHand, InFlight
  <2> QED
    BY <2>3, <2>4
<1>8. ASSUME RelayCommit PROVE Recoverable(a)'
  <2>1. Owed(a) /\ \A q \in Payloads : Held(q) => Held(q)'
    BY <1>8 DEF RelayCommit, Owed, Held, InHand, InFlight
  <2>2. (outbox[a] = "pending" /\ a \notin relay.marked)
          => (outbox'[a] = "pending" /\ a \notin relay'.marked)
    BY <1>8 DEF RelayCommit, NoBatch
  <2> QED
    BY <1>a, <2>1, <2>2 DEF Recoverable
<1>9. ASSUME RelayCrash PROVE Recoverable(a)'
  BY <1>9, <1>a DEF RelayCrash, NoBatch, Owed, Recoverable, Held, InHand, InFlight
<1>10. ASSUME NEW p \in Payloads, SchedulerPop(p) PROVE Recoverable(a)'
  <2>1. InHand(p)'
    BY <1>10, <1>b, <1>c DEF SchedulerPop, InHand
  <2>2. \A q \in Payloads : InHand(q) => InHand(q)'
    BY <1>10, <1>b, <1>c DEF SchedulerPop, InHand
  <2>3. \A q \in Payloads : Held(q) => Held(q)'
    BY <1>10, <2>1, <2>2 DEF SchedulerPop, Held, InFlight
  <2> QED
    BY <1>10, <1>d, <2>3 DEF SchedulerPop, Owed
<1>11. ASSUME SchedulerPut PROVE Recoverable(a)'
  <2>1. PICK p \in Payloads : p = hand[Scheduler]
    BY <1>11, <1>b, <1>c DEF SchedulerPut
  <2>2. /\ p \in delayed' \/ ready'[p] > 0
        /\ \A q \in Payloads : /\ q \in delayed => q \in delayed'
                               /\ ready[q] > 0 => ready'[q] > 0
    BY ZenonT(60), <1>11, <1>b, <2>1, ListUpdates DEF SchedulerPut
  <2>3. \A q \in Payloads : q # p /\ InHand(q) => InHand(q)'
    BY <1>11, <1>b, <1>c, <2>1 DEF SchedulerPut, InHand
  <2>4. \A q \in Payloads : Held(q) => Held(q)'
    BY <1>11, <2>2, <2>3 DEF SchedulerPut, Held, InFlight
  <2> QED
    BY <1>11, <1>d, <2>4 DEF SchedulerPut, Owed
<1>12. ASSUME NEW w \in Workers, NEW p \in Payloads, Claim(w, p) PROVE Recoverable(a)'
  <2>1. InFlight(p)'
    BY <1>12, <1>b, ListUpdates DEF Claim, Goto, InFlight
  <2>2. \A q \in Payloads : InFlight(q) => InFlight(q)'
    BY ZenonT(60), <1>12, <1>b, ListUpdates DEF Claim, Goto, InFlight
  <2>3. \A q \in Payloads : q # p => ready'[q] = ready[q]
    BY <1>12, <1>b, ListUpdates DEF Claim
  <2>4. \A q \in Payloads : Held(q) => Held(q)'
    BY <1>12, <2>1, <2>2, <2>3 DEF Claim, Held, InHand
  <2> QED
    BY <1>12, <1>d, <2>4 DEF Claim, Owed
<1>13. ASSUME NEW w \in Workers, DeadLetter(w) PROVE Recoverable(a)'
  <2>1. PICK p \in Payloads : p = cur[w]
    BY <1>13, <1>b DEF DeadLetter
  <2>2. dlq'[p] > 0 /\ \A q \in Payloads : dlq[q] > 0 => dlq'[q] > 0
    BY <1>13, <1>b, <2>1, ListUpdates DEF DeadLetter
  <2>3. \A q \in Payloads : q # p /\ InFlight(q) => InFlight(q)'
    BY <1>13, <1>b, <2>1 DEF DeadLetter, Goto, InFlight
  <2>4. \A q \in Payloads : Held(q) => Held(q)'
    BY <1>13, <2>2, <2>3 DEF DeadLetter, Held, InHand
  <2> QED
    BY <1>13, <1>d, <2>4 DEF DeadLetter, Owed
<1>14. ASSUME NEW w \in Workers, LoadAttempt(w) PROVE Recoverable(a)'
  <2>1. \A q \in Payloads : q[1] = a /\ InFlight(q) => InFlight(q)'
    BY <1>14, <1>b DEF LoadAttempt, Goto, InFlight, Owed, Terminal
  <2>2. \A q \in Payloads : q[1] = a /\ Held(q) => Held(q)'
    BY <1>14, <2>1 DEF LoadAttempt, Held, InHand
  <2> QED
    BY <1>14, <1>d, <2>2 DEF LoadAttempt, Owed
<1>15. ASSUME NEW w \in Workers, MarkInProgress(w) PROVE Recoverable(a)'
  <2>1. \A q \in Payloads : InFlight(q) => InFlight(q)'
    BY <1>15, <1>b DEF MarkInProgress, Goto, InFlight
  <2> QED
    BY <1>15, <1>d, <2>1 DEF MarkInProgress, Owed, Held, InHand
<1>16. ASSUME NEW w \in Workers, NEW o \in Outcomes \cup {"raises"}, WriteOutcome(w, o)
       PROVE Recoverable(a)'
  <2>1. CASE o = "raises"
    <3>1. UNCHANGED <<state, redisVars, relayVars, moverVars>>
      BY <1>16, <2>1 DEF WriteOutcome
    <3>2. \A q \in Payloads : InFlight(q) => InFlight(q)'
      BY <1>16, <1>b, <2>1 DEF WriteOutcome, Goto, Leave, InFlight
    <3> QED
      BY <1>d, <3>1, <3>2 DEF Owed, Held, InHand
  <2>2. CASE o # "raises"
    <3>1. /\ UNCHANGED <<cur, redisVars, relayVars, moverVars>>
          /\ pc' = [pc EXCEPT ![w] = "ack"]
          /\ state' = [state EXCEPT ![cur[w][1]] = o]
          /\ cur[w] \in Payloads /\ cur[w][1] \notin Foreign
      BY <1>16, <1>b, <2>2 DEF WriteOutcome, Goto, ForeignNotExecuted
    <3>2. a # cur[w][1] /\ Owed(a)
      BY <1>b, <2>2, <3>1, PayloadParts DEF Owed, Outcomes
    <3>3. \A q \in Payloads : q[1] = a /\ InFlight(q) => InFlight(q)'
      BY <1>b, <3>1, <3>2 DEF InFlight
    <3> QED
      BY <1>d, <3>1, <3>2, <3>3 DEF Held, InHand
  <2> QED
    BY <2>1, <2>2
<1>17. ASSUME NEW w \in Workers, Ack(w) PROVE Recoverable(a)'
  <2>1. PICK p \in Payloads : p = cur[w]
    BY <1>17, <1>b DEF Ack
  <2>a. \A v \in Workers, q \in Payloads :
           ~(v = w /\ q = p) => inflight'[v][q] = inflight[v][q]
    <3>1. /\ inflight[w] \in List
          /\ inflight'[w] = Removed(inflight[w], p)
          /\ \A v \in Workers : v # w => inflight'[v] = inflight[v]
      BY <1>17, <1>b, <2>1 DEF Ack
    <3>2. \A q \in Payloads : q # p => inflight'[w][q] = inflight[w][q]
      BY <3>1 DEF Removed, List
    <3> QED
      BY <3>1, <3>2
  <2>2. \A q \in Payloads : InFlight(q) => InFlight(q)'
    BY <1>17, <1>b, <2>1, <2>a DEF Ack, Goto, Leave, InFlight
  <2> QED
    BY <1>17, <1>d, <2>2 DEF Ack, Owed, Held, InHand
<1>18. ASSUME NEW w \in Workers, WorkerCrash(w) PROVE Recoverable(a)'
  <2>1. \A q \in Payloads : InFlight(q) => InFlight(q)'
    BY <1>18, <1>b DEF WorkerCrash, Goto, Leave, InFlight
  <2> QED
    BY <1>18, <1>d, <2>1 DEF WorkerCrash, Owed, Held, InHand
<1>27. ASSUME NEW w \in Workers, WorkerError(w) PROVE Recoverable(a)'
  <2>1. \A q \in Payloads : InFlight(q) => InFlight(q)'
    BY <1>27, <1>b DEF WorkerError, Goto, Leave, InFlight
  <2> QED
    BY <1>27, <1>d, <2>1 DEF WorkerError, Owed, Held, InHand
<1>19. ASSUME NEW r \in Reapers, NEW w \in Workers, ReaperScan(r, w) PROVE Recoverable(a)'
  BY <1>19, <1>d DEF ReaperScan, Owed, Held, InHand, InFlight
<1>20. ASSUME NEW r \in Reapers, NEW p \in Payloads, ReaperTake(r, p) PROVE Recoverable(a)'
  <2>1. InHand(p)' /\ \A q \in Payloads : InHand(q) => InHand(q)'
    BY <1>20, <1>b, <1>c DEF ReaperTake, InHand
  <2>2. source[r] \in Workers
    BY <1>20 DEF ReaperTake, TypeOK, Empty
  <2>a. \A v \in Workers, q \in Payloads : q # p => inflight'[v][q] = inflight[v][q]
    <3>1. /\ inflight[source[r]] \in List
          /\ inflight'[source[r]] = Removed(inflight[source[r]], p)
          /\ \A v \in Workers : v # source[r] => inflight'[v] = inflight[v]
      BY <1>20, <1>b, <2>2 DEF ReaperTake
    <3>2. \A q \in Payloads : q # p => inflight'[source[r]][q] = inflight[source[r]][q]
      BY <3>1 DEF Removed, List
    <3> QED
      BY <3>1, <3>2
  <2>3. \A q \in Payloads : q # p /\ InFlight(q) => InFlight(q)'
    BY <1>20, <2>a DEF ReaperTake, InFlight
  <2>4. \A q \in Payloads : Held(q) => Held(q)'
    BY <1>20, <2>1, <2>3 DEF ReaperTake, Held
  <2> QED
    BY <1>20, <1>d, <2>4 DEF ReaperTake, Owed
<1>21. ASSUME NEW r \in Reapers, ReaperPut(r) PROVE Recoverable(a)'
  <2>1. PICK p \in Payloads : p = hand[r]
    BY <1>21, <1>b, <1>c DEF ReaperPut
  <2>2. /\ dlq'[p] > 0 \/ ready'[p] > 0
        /\ \A q \in Payloads : /\ dlq[q] > 0 => dlq'[q] > 0
                               /\ ready[q] > 0 => ready'[q] > 0
    BY <1>21, <1>b, <2>1, ListUpdates DEF ReaperPut
  <2>3. \A q \in Payloads : q # p /\ InHand(q) => InHand(q)'
    BY <1>21, <1>b, <1>c, <2>1 DEF ReaperPut, InHand
  <2>4. \A q \in Payloads : Held(q) => Held(q)'
    BY <1>21, <2>2, <2>3 DEF ReaperPut, Held, InFlight
  <2> QED
    BY <1>21, <1>d, <2>4 DEF ReaperPut, Owed
<1>22. ASSUME NEW p \in Payloads, RequeueTake(p) PROVE Recoverable(a)'
  <2>1. InHand(p)' /\ \A q \in Payloads : InHand(q) => InHand(q)'
    BY <1>22, <1>b, <1>c DEF RequeueTake, InHand
  <2>2. \A q \in Payloads : q # p => dlq'[q] = dlq[q]
    BY <1>22, <1>b, ListUpdates DEF RequeueTake
  <2>3. \A q \in Payloads : Held(q) => Held(q)'
    BY <1>22, <2>1, <2>2 DEF RequeueTake, Held, InFlight
  <2> QED
    BY <1>22, <1>d, <2>3 DEF RequeueTake, Owed
<1>23. ASSUME NEW p \in Payloads, Drop(p) PROVE Recoverable(a)'
  <2>1. p[1] # a /\ Owed(a)
    BY <1>23 DEF Drop, Owed
  <2>2. \A q \in Payloads : q # p => dlq'[q] = dlq[q]
    BY <1>23, <1>b, ListUpdates DEF Drop
  <2>3. \A q \in Payloads : q[1] = a /\ Held(q) => Held(q)'
    BY <1>23, <2>1, <2>2 DEF Drop, Held, InHand, InFlight
  <2> QED
    BY <1>23, <1>d, <2>1, <2>3 DEF Drop
<1>24. ASSUME RequeuePut PROVE Recoverable(a)'
  <2>1. PICK p \in Payloads : p = hand[Operator]
    BY <1>24, <1>b, <1>c DEF RequeuePut
  <2>2. ready'[p] > 0 /\ \A q \in Payloads : ready[q] > 0 => ready'[q] > 0
    BY <1>24, <1>b, <2>1, ListUpdates DEF RequeuePut
  <2>3. \A q \in Payloads : q # p /\ InHand(q) => InHand(q)'
    BY <1>24, <1>b, <1>c, <2>1 DEF RequeuePut, InHand
  <2>4. \A q \in Payloads : Held(q) => Held(q)'
    BY <1>24, <2>2, <2>3 DEF RequeuePut, Held, InFlight
  <2> QED
    BY <1>24, <1>d, <2>4 DEF RequeuePut, Owed
<1>25. ASSUME NEW m \in Movers, MoverCrash(m) PROVE Recoverable(a)'
  <2>1. hand[m][1] # a /\ Owed(a)
    BY <1>25 DEF MoverCrash, Owed
  <2>2. \A q \in Payloads : q[1] = a /\ InHand(q) => InHand(q)'
    BY <1>25, <1>b, <2>1 DEF MoverCrash, InHand
  <2>3. \A q \in Payloads : q[1] = a /\ Held(q) => Held(q)'
    BY <1>25, <2>2 DEF MoverCrash, Held, InFlight
  <2> QED
    BY <1>25, <1>d, <2>1, <2>3 DEF MoverCrash
<1>26. ASSUME UNCHANGED vars PROVE Recoverable(a)'
  BY <1>26, <1>d DEF vars, Owed, Held, InHand, InFlight
<1> HIDE DEF redisVars, relayVars, workerVars, reaperVars, moverVars, timeVars
<1> QED
  BY <1>1, <1>2, <1>3, <1>4, <1>5, <1>6, <1>7, <1>8, <1>9, <1>10, <1>11, <1>12, <1>13,
     <1>14, <1>15, <1>16, <1>17, <1>18, <1>19, <1>20, <1>21, <1>22, <1>23, <1>24, <1>25,
     <1>26, <1>27
  DEF Next, RelayStep, SchedulerStep, WorkerStep, ReaperStep, OperatorStep, Failure

(* NoTaskLost for every number of attempts, workers and reapers and whatever    *)
(* bounds on failures: the relay's push-then-mark, BRPOPLPUSH, commit-then-ACK  *)
(* and the reaper's unconditional push never lose a task; only a mover's crash  *)
(* or an operator's drop does.                                                  *)
THEOREM NoLoss == Spec => []NoTaskLost
BY TypeCorrect, InitBatchPending, NextBatchPending, InitForeignNotExecuted,
   NextForeignNotExecuted, InitNoTaskLost, NextNoTaskLost, PTL DEF Spec
=============================================================================
