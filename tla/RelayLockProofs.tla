-------------------------- MODULE RelayLockProofs --------------------------
(***************************************************************************)
(* RelayLock for every number of processes, connections and failures: one  *)
(* relay and one scheduler at a time, a scheduler's lock that is always    *)
(* given back, and a relay's lock that is never lost.                      *)
(***************************************************************************)
EXTENDS RelayLock, FiniteSetTheorems, SequenceTheorems, TLAPS

(* The connections of the processes' pools. *)
Conns == Procs \X (1..PoolSize)

(* A task that works under a lock, on a connection that is open, holds it on *)
(* that connection.                                                          *)
HoldsItsLock ==
  \A p \in Procs, l \in Locks :
    task[p][l].pc = "locked" /\ task[p][l].conn # NoConn => lock[l].conn = task[p][l].conn

(* A lock that nobody holds is not counted, and one that somebody holds is. *)
CountedIfHeld == \A l \in Locks : lock[l].conn = NoConn <=> lock[l].count = 0

(* The scheduler's lock is never taken twice. *)
SchedulerHoldsOnce == lock["scheduler"].count <= 1

(* A task that is at rest, or between two sessions, has no connection. *)
ClosedSession ==
  \A p \in Procs, k \in Tasks :
    task[p][k].pc \in {"idle", "unlocking"} => task[p][k].conn = NoConn

(* The inductive invariant. *)
IInv ==
  /\ TypeOK
  /\ ClosedSession
  /\ HoldsItsLock
  /\ CountedIfHeld
  /\ SchedulerHoldsOnce
  /\ SchedulerLockReturned

-----------------------------------------------------------------------------
(* A connection is not NoConn, and belongs to one process. *)
LEMMA ConnOwner ==
  ASSUME NEW p \in Procs, NEW c \in ConnsOf(p)
  PROVE  /\ c \in Conns
         /\ c # NoConn
         /\ c[1] = p
         /\ c[2] \in 1..PoolSize
         /\ c = <<p, c[2]>>
BY DEF ConnsOf, Conns, NoConn

(* The pool is large enough for the three tasks of a process. *)
LEMMA ThreeTasks == PoolSize \in Nat /\ PoolSize >= 3
<1>1. Tasks = {"relay", "scheduler", "other"}
  BY DEF Tasks, Locks
<1>2. /\ IsFiniteSet({"relay"}) /\ Cardinality({"relay"}) = 1
  BY FS_Singleton
<1>3. /\ IsFiniteSet({"relay", "scheduler"}) /\ Cardinality({"relay", "scheduler"}) = 2
  <2>1. {"relay", "scheduler"} = {"relay"} \cup {"scheduler"}
    OBVIOUS
  <2>2. "scheduler" \notin {"relay"}
    OBVIOUS
  <2>3. /\ IsFiniteSet({"relay"} \cup {"scheduler"})
        /\ Cardinality({"relay"} \cup {"scheduler"}) = Cardinality({"relay"}) + 1
    BY <1>2, <2>2, FS_AddElement
  <2>4. QED
    BY <1>2, <2>1, <2>3
<1>4. Cardinality(Tasks) = 3
  <2>1. Tasks = {"relay", "scheduler"} \cup {"other"}
    BY <1>1
  <2>2. "other" \notin {"relay", "scheduler"}
    OBVIOUS
  <2>3. Cardinality({"relay", "scheduler"} \cup {"other"}) = Cardinality({"relay", "scheduler"}) + 1
    BY <1>3, <2>2, FS_AddElement
  <2>4. QED
    BY <1>3, <2>1, <2>3
<1>5. QED
  BY <1>4, RelayLockAssumption

(* The pool of a process has a connection for every task that has none. *)
LEMMA NextConnInPool ==
  ASSUME TypeOK, NEW p \in Procs, NEW k \in Tasks, task[p][k].conn = NoConn
  PROVE  NextConn(p) \in ConnsOf(p)
<1>1. CASE pool[p] # <<>>
  <2>1. pool[p] \in Seq(ConnsOf(p))
    BY DEF TypeOK
  <2>2. Head(pool[p]) \in ConnsOf(p)
    BY <1>1, <2>1
  <2>3. QED
    BY <1>1, <2>2 DEF NextConn
<1>2. CASE pool[p] = <<>>
  <2> DEFINE F == ConnsOf(p) \ InUse(p)
  <2>1. PICK i, j \in Tasks : InUse(p) \subseteq {NoConn, task[p][i].conn, task[p][j].conn}
    BY DEF InUse, Tasks, Locks
  <2>2. \A n \in 1..3 : <<p, n>> \in ConnsOf(p) /\ <<p, n>> # NoConn
    BY ThreeTasks, ConnOwner DEF ConnsOf
  <2>3. \E n \in 1..3 : <<p, n>> \in F
    <3>1. <<p, 1>> # <<p, 2>> /\ <<p, 1>> # <<p, 3>> /\ <<p, 2>> # <<p, 3>>
      OBVIOUS
    <3>2. QED
      BY <2>1, <2>2, <3>1
  <2>4. \A d \in F : d[2] \in Nat /\ d[2] >= 1 /\ d = <<p, d[2]>>
    BY ConnOwner, ThreeTasks
  <2>5. \E c \in F : \A d \in F : c[2] <= d[2]
    <3>1. CASE <<p, 1>> \in F
      <4>1. \A d \in F : <<p, 1>>[2] <= d[2]
        BY <2>4
      <4>2. QED
        BY <3>1, <4>1
    <3>2. CASE <<p, 1>> \notin F /\ <<p, 2>> \in F
      <4>1. \A d \in F : <<p, 2>>[2] <= d[2]
        BY <2>4, <3>2
      <4>2. QED
        BY <3>2, <4>1
    <3>3. CASE <<p, 1>> \notin F /\ <<p, 2>> \notin F
      <4>1. \A d \in F : <<p, 3>>[2] <= d[2]
        BY <2>4, <3>3
      <4>2. <<p, 3>> \in F
        BY <2>3, <3>3
      <4>3. QED
        BY <4>1, <4>2
    <3>4. QED
      BY <3>1, <3>2, <3>3
  <2>6. NextConn(p) \in F
    BY <1>2, <2>5 DEF NextConn
  <2>7. QED
    BY <2>6
<1>3. QED
  BY <1>1, <1>2

(* What a session leaves in the pool, and what it gives back, are connections *)
(* of the process.                                                            *)
LEMMA PoolMoves ==
  ASSUME TypeOK, NEW p \in Procs, NEW c \in ConnsOf(p) \cup {NoConn}
  PROVE  /\ Left(p) \in Seq(ConnsOf(p))
         /\ \A idle \in Seq(ConnsOf(p)) : Returned(idle, c) \in Seq(ConnsOf(p))
<1>1. pool[p] \in Seq(ConnsOf(p))
  BY DEF TypeOK
<1>2. Left(p) \in Seq(ConnsOf(p))
  BY <1>1 DEF Left
<1>3. QED
  BY <1>2, ConnOwner DEF Returned

(* A step of one task, which moves one connection between the pool and its    *)
(* session, keeps the types.                                                  *)
LEMMA MovesKeepType ==
  ASSUME TypeOK, NEW p \in Procs, NEW k \in Tasks,
         NEW pc \in {"idle", "locked", "unlocking", "open"},
         NEW c \in ConnsOf(p) \cup {NoConn}, NEW idle \in Seq(ConnsOf(p)),
         Goto(p, k, pc, c), SetPool(p, idle),
         lock' \in [Locks -> [conn : Conns \cup {NoConn}, count : 0..LockCap]],
         faults' \in 0..MaxFaults
  PROVE  TypeOK'
<1>1. ConnsOf(p) \subseteq Conns
  BY ConnOwner
<1>2. idle \in Seq(Conns)
  BY <1>1
<1>3. pool' \in [Procs -> Seq(Conns)]
  BY <1>2 DEF TypeOK, SetPool, Conns
<1>4. task' \in [Procs -> [Tasks -> [pc : {"idle", "locked", "unlocking", "open"},
                                   conn : Conns \cup {NoConn}]]]
  BY <1>1 DEF TypeOK, Goto, Conns
<1>5. ASSUME NEW q \in Procs
      PROVE  pool'[q] \in Seq(ConnsOf(q))
  BY DEF TypeOK, SetPool
<1>6. ASSUME NEW q \in Procs, NEW j \in Tasks
      PROVE  task'[q][j].conn \in ConnsOf(q) \cup {NoConn}
  <2>1. CASE q = p /\ j = k
    BY <2>1 DEF TypeOK, Goto
  <2>2. CASE ~(q = p /\ j = k)
    <3>1. task'[q][j] = task[q][j]
      BY <2>2 DEF TypeOK, Goto
    <3>2. QED
      BY <3>1 DEF TypeOK
  <2>3. QED
    BY <2>1, <2>2
<1>7. QED
  BY <1>3, <1>4, <1>5, <1>6 DEF TypeOK, Conns, ConnsOf

(* A task that steps leaves the other tasks where they are. *)
LEMMA OthersStay ==
  ASSUME TypeOK, NEW p \in Procs, NEW k \in Tasks, NEW pc, NEW c, Goto(p, k, pc, c)
  PROVE  /\ task'[p][k] = [pc |-> pc, conn |-> c]
         /\ \A q \in Procs, j \in Tasks : q # p \/ j # k => task'[q][j] = task[q][j]
BY DEF TypeOK, Goto

(* The locks after a lock is taken, and after it is given up. *)
LEMMA LockMoves ==
  ASSUME TypeOK, CountedIfHeld, NEW l \in Locks, NEW c \in Conns
  PROVE  /\ MayLock(l, c) /\ Acquire(l, c) =>
              /\ lock' \in [Locks -> [conn : Conns \cup {NoConn}, count : 0..LockCap]]
              /\ lock'[l].conn = c
              /\ lock'[l].count > 0
              /\ lock[l] = Free => lock'[l].count = 1
              /\ \A m \in Locks : m # l => lock'[m] = lock[m]
         /\ Unlock(l, c) =>
              /\ lock' \in [Locks -> [conn : Conns \cup {NoConn}, count : 0..LockCap]]
              /\ lock[l].conn # c => lock'[l] = lock[l]
              /\ lock[l].conn = c => lock'[l] = Free \/ (lock'[l].conn = c /\ lock'[l].count > 0)
              /\ lock[l].conn = c /\ lock[l].count = 1 => lock'[l] = Free
              /\ \A m \in Locks : m # l => lock'[m] = lock[m]
<1>1. /\ lock \in [Locks -> [conn : Conns \cup {NoConn}, count : 0..LockCap]]
      /\ lock[l].conn = NoConn <=> lock[l].count = 0
      /\ LockCap \in Nat /\ LockCap > 1
      /\ c # NoConn
  <2>1. c # NoConn
    BY DEF Conns, NoConn
  <2>2. lock \in [Locks -> [conn : Conns \cup {NoConn}, count : 0..LockCap]]
    BY DEF TypeOK, Conns
  <2>3. lock[l].conn = NoConn <=> lock[l].count = 0
    BY DEF CountedIfHeld
  <2>4. QED
    BY <2>1, <2>2, <2>3, RelayLockAssumption
<1>2. ASSUME Acquire(l, c)
      PROVE  /\ lock' \in [Locks -> [conn : Conns \cup {NoConn}, count : 0..LockCap]]
             /\ lock'[l].conn = c
             /\ lock'[l].count > 0
             /\ lock[l] = Free => lock'[l].count = 1
             /\ \A m \in Locks : m # l => lock'[m] = lock[m]
  BY <1>1, <1>2 DEF Acquire, Free
<1>3. ASSUME Unlock(l, c), lock[l].conn # c
      PROVE  lock' = lock
  BY <1>3 DEF Unlock
<1>4. ASSUME Unlock(l, c), lock[l].conn = c
      PROVE  \/ lock' = lock /\ lock[l].count = LockCap
             \/ /\ lock[l].count = 1
                /\ lock' = [lock EXCEPT ![l] = Free]
             \/ /\ lock[l].count # 1
                /\ lock' = [lock EXCEPT ![l] = [conn |-> c, count |-> lock[l].count - 1]]
  <2>1. lock[l] = [conn |-> c, count |-> lock[l].count]
    BY <1>1, <1>4
  <2>2. CASE lock' = lock
    BY <1>4, <2>2 DEF Unlock
  <2>3. CASE lock' = [lock EXCEPT ![l] = IF @.count = 1 THEN Free ELSE [conn |-> c, count |-> @.count - 1]]
    BY <1>1, <2>1, <2>3
  <2>4. QED
    BY <1>4, <2>2, <2>3 DEF Unlock
<1>5. ASSUME Unlock(l, c), lock[l].conn = c
      PROVE  /\ lock' \in [Locks -> [conn : Conns \cup {NoConn}, count : 0..LockCap]]
             /\ lock'[l] = Free \/ (lock'[l].conn = c /\ lock'[l].count > 0)
             /\ lock[l].count = 1 => lock'[l] = Free
             /\ \A m \in Locks : m # l => lock'[m] = lock[m]
  BY <1>1, <1>4, <1>5 DEF Free
<1>6. QED
  BY <1>1, <1>2, <1>3, <1>5

-----------------------------------------------------------------------------
(* The locks are free at first. *)
LEMMA InitIInv == Init => IInv
<1> SUFFICES ASSUME Init PROVE IInv
  OBVIOUS
<1>1. TypeOK
  <2>1. 0 \in 0..LockCap /\ 0 \in 0..MaxFaults
    BY RelayLockAssumption
  <2>2. QED
    BY <2>1 DEF Init, TypeOK, AtRest, Free, ConnsOf
<1>2. ClosedSession /\ HoldsItsLock /\ CountedIfHeld
  BY DEF Init, AtRest, Free, ClosedSession, HoldsItsLock, CountedIfHeld, Tasks
<1>3. SchedulerHoldsOnce /\ SchedulerLockReturned
  BY DEF Init, Free, SchedulerHoldsOnce, SchedulerLockReturned, Locks
<1>4. QED
  BY <1>1, <1>2, <1>3 DEF IInv

(* A lock is granted only if no other process works under it; the scheduler's *)
(* is granted only if it is free.                                             *)
LEMMA AcquiresIInv ==
  ASSUME IInv, NEW p \in Procs, NEW l \in Locks, Acquires(p, l)
  PROVE  IInv'
<1> DEFINE c == NextConn(p)
<1>1. l \in Tasks /\ task[p][l] = AtRest
  BY DEF Acquires, Tasks
<1>2. c \in ConnsOf(p) /\ c \in Conns /\ c # NoConn
  BY <1>1, NextConnInPool, ConnOwner DEF IInv, AtRest
<1>3. MayLock(l, c) /\ Acquire(l, c) /\ Goto(p, l, "locked", c) /\ SetPool(p, Left(p)) /\ faults' = faults
  BY DEF Acquires
<1> HIDE DEF c
<1>4. /\ lock' \in [Locks -> [conn : Conns \cup {NoConn}, count : 0..LockCap]]
      /\ lock'[l].conn = c
      /\ lock'[l].count > 0
      /\ lock[l] = Free => lock'[l].count = 1
      /\ \A m \in Locks : m # l => lock'[m] = lock[m]
  BY <1>2, <1>3, LockMoves DEF IInv
<1>5. /\ task'[p][l] = [pc |-> "locked", conn |-> c]
      /\ \A q \in Procs, j \in Tasks : q # p \/ j # l => task'[q][j] = task[q][j]
  BY <1>1, <1>3, OthersStay DEF IInv
<1>6. \A q \in Procs : task[q][l].pc = "locked" => task[q][l].conn = NoConn
  <2> SUFFICES ASSUME NEW q \in Procs, task[q][l].pc = "locked", task[q][l].conn # NoConn
               PROVE  FALSE
    OBVIOUS
  <2>1. lock[l].conn = c /\ task[q][l].conn = c
    BY <1>3 DEF IInv, HoldsItsLock, MayLock
  <2>2. c \in ConnsOf(q)
    BY <1>1, <1>2, <2>1 DEF IInv, TypeOK
  <2>3. q = p
    BY <1>2, <2>2, ConnOwner
  <2>4. QED
    BY <1>1, <2>3 DEF AtRest
<1>7. TypeOK'
  <2>1. Left(p) \in Seq(ConnsOf(p))
    BY <1>2, PoolMoves DEF IInv
  <2>2. QED
    BY <1>1, <1>2, <1>3, <1>4, <2>1, MovesKeepType DEF IInv, TypeOK
<1>8. ClosedSession'
  <2> SUFFICES ASSUME NEW q \in Procs, NEW j \in Tasks, task'[q][j].pc \in {"idle", "unlocking"}
               PROVE  task'[q][j].conn = NoConn
    BY DEF ClosedSession
  <2>1. q # p \/ j # l
    BY <1>5
  <2>2. QED
    BY <1>5, <2>1 DEF IInv, ClosedSession
<1>9. HoldsItsLock'
  <2> SUFFICES ASSUME NEW q \in Procs, NEW m \in Locks,
                      task'[q][m].pc = "locked", task'[q][m].conn # NoConn
               PROVE  lock'[m].conn = task'[q][m].conn
    BY DEF HoldsItsLock
  <2>1. m \in Tasks
    BY DEF Tasks
  <2>2. CASE q = p /\ m = l
    BY <1>4, <1>5, <2>2
  <2>3. CASE q # p /\ m = l
    BY <1>5, <1>6, <2>1, <2>3
  <2>4. CASE m # l
    BY <1>4, <1>5, <2>1, <2>4 DEF IInv, HoldsItsLock
  <2>5. QED
    BY <2>2, <2>3, <2>4
<1>10. CountedIfHeld'
  BY <1>2, <1>4 DEF IInv, CountedIfHeld
<1>11. l = "scheduler" => lock[l] = Free
  <2> SUFFICES ASSUME l = "scheduler", lock[l] # Free
               PROVE  FALSE
    OBVIOUS
  <2>1. PICK q \in Procs : task[q][l] = [pc |-> "locked", conn |-> lock[l].conn]
    BY DEF IInv, SchedulerLockReturned
  <2>2. lock[l].conn = NoConn
    BY <1>6, <2>1
  <2>3. lock[l].count = 0
    BY <2>2 DEF IInv, CountedIfHeld
  <2>4. lock[l] = [conn |-> lock[l].conn, count |-> lock[l].count]
    BY DEF IInv, TypeOK
  <2>5. QED
    BY <2>2, <2>3, <2>4 DEF Free
<1>12. SchedulerHoldsOnce'
  BY <1>4, <1>11 DEF IInv, SchedulerHoldsOnce, Locks
<1>13. SchedulerLockReturned'
  <2>1. CASE l = "scheduler"
    BY <1>4, <1>5, <2>1 DEF SchedulerLockReturned
  <2>2. CASE l # "scheduler"
    <3>1. \A q \in Procs : task'[q]["scheduler"] = task[q]["scheduler"]
      BY <1>5, <2>2 DEF Tasks, Locks
    <3>2. lock'["scheduler"] = lock["scheduler"]
      BY <1>4, <2>2 DEF Locks
    <3>3. QED
      BY <3>1, <3>2 DEF IInv, SchedulerLockReturned
  <2>3. QED
    BY <2>1, <2>2
<1>14. QED
  BY <1>7, <1>8, <1>9, <1>10, <1>12, <1>13 DEF IInv

(* A session that ends or begins without a word to a lock disturbs nothing,   *)
(* unless it is the scheduler's.                                              *)
LEMMA SessionIInv ==
  ASSUME IInv, NEW p \in Procs, NEW k \in Tasks, k # "scheduler",
         NEW pc \in {"idle", "unlocking", "open"}, NEW c \in ConnsOf(p) \cup {NoConn},
         pc # "open" => c = NoConn, NEW idle \in Seq(ConnsOf(p)),
         Goto(p, k, pc, c), SetPool(p, idle), lock' = lock, faults' \in 0..MaxFaults
  PROVE  IInv'
<1>1. /\ task'[p][k] = [pc |-> pc, conn |-> c]
      /\ \A q \in Procs, j \in Tasks : q # p \/ j # k => task'[q][j] = task[q][j]
  BY OthersStay DEF IInv
<1>2. TypeOK'
  <2>1. lock' \in [Locks -> [conn : Conns \cup {NoConn}, count : 0..LockCap]]
    BY DEF IInv, TypeOK, Conns
  <2>2. QED
    BY <2>1, MovesKeepType DEF IInv
<1>3. ClosedSession'
  BY <1>1 DEF IInv, ClosedSession
<1>4. HoldsItsLock'
  <2> SUFFICES ASSUME NEW q \in Procs, NEW m \in Locks,
                      task'[q][m].pc = "locked", task'[q][m].conn # NoConn
               PROVE  lock'[m].conn = task'[q][m].conn
    BY DEF HoldsItsLock
  <2>1. m \in Tasks /\ (q # p \/ m # k)
    BY <1>1 DEF Tasks
  <2>2. QED
    BY <1>1, <2>1 DEF IInv, HoldsItsLock
<1>5. SchedulerLockReturned'
  <2>1. \A q \in Procs : task'[q]["scheduler"] = task[q]["scheduler"]
    BY <1>1 DEF Tasks, Locks
  <2>2. QED
    BY <2>1 DEF IInv, SchedulerLockReturned
<1>6. QED
  BY <1>2, <1>3, <1>4, <1>5 DEF IInv, CountedIfHeld, SchedulerHoldsOnce

(* A fault is counted up to its bound. *)
LEMMA FaultBound == ASSUME TypeOK, Fault \/ UNCHANGED faults PROVE faults' \in 0..MaxFaults
BY RelayLockAssumption DEF TypeOK, Fault

(* The relay's commit and its failure leave the lock with a connection that   *)
(* nobody works on, and so do the other sessions.                             *)
LEMMA QuietIInv ==
  ASSUME IInv, NEW p \in Procs,
         RelayCommits(p) \/ RelayFails(p) \/ OtherBegins(p) \/ OtherEnds(p)
  PROVE  IInv'
<1>1. "relay" \in Tasks /\ "other" \in Tasks
  BY DEF Tasks, Locks
<1>2. \A k \in Tasks : task[p][k].conn \in ConnsOf(p) \cup {NoConn}
  BY DEF IInv, TypeOK
<1>3. \A k \in Tasks : Returned(pool[p], task[p][k].conn) \in Seq(ConnsOf(p))
  BY <1>2, PoolMoves DEF IInv, TypeOK
<1>4. CASE RelayCommits(p)
  <2>1. /\ Goto(p, "relay", "unlocking", NoConn)
        /\ SetPool(p, Returned(pool[p], task[p]["relay"].conn))
        /\ lock' = lock /\ faults' = faults
    BY <1>4 DEF RelayCommits
  <2>2. QED
    BY <1>1, <1>3, <2>1, FaultBound, SessionIInv DEF IInv
<1>5. CASE RelayFails(p)
  <2>1. /\ Goto(p, "relay", "idle", NoConn)
        /\ SetPool(p, Returned(pool[p], task[p]["relay"].conn))
        /\ lock' = lock /\ (Fault \/ UNCHANGED faults)
    BY <1>5 DEF RelayFails
  <2>2. QED
    BY <1>1, <1>3, <2>1, FaultBound, SessionIInv DEF IInv
<1>6. CASE OtherBegins(p)
  <2>1. /\ Goto(p, "other", "open", NextConn(p))
        /\ SetPool(p, Left(p))
        /\ lock' = lock /\ faults' = faults
        /\ task[p]["other"] = AtRest
    BY <1>6 DEF OtherBegins
  <2>2. NextConn(p) \in ConnsOf(p)
    BY <1>1, <2>1, NextConnInPool DEF IInv, AtRest
  <2>3. Left(p) \in Seq(ConnsOf(p))
    BY <2>2, PoolMoves DEF IInv
  <2>4. QED
    BY <1>1, <2>1, <2>2, <2>3, FaultBound, SessionIInv DEF IInv
<1>7. CASE OtherEnds(p)
  <2>1. /\ Goto(p, "other", "idle", NoConn)
        /\ SetPool(p, Returned(pool[p], task[p]["other"].conn))
        /\ lock' = lock /\ faults' = faults
    BY <1>7 DEF OtherEnds
  <2>2. QED
    BY <1>1, <1>3, <2>1, FaultBound, SessionIInv DEF IInv
<1>8. QED
  BY <1>4, <1>5, <1>6, <1>7

(* A refused task only rotates its pool. *)
LEMMA RefusedIInv ==
  ASSUME IInv, NEW p \in Procs, NEW l \in Locks, Refused(p, l)
  PROVE  IInv'
<1>1. l \in Tasks /\ task[p][l] = AtRest
  BY DEF Refused, Tasks
<1>2. NextConn(p) \in ConnsOf(p)
  BY <1>1, NextConnInPool DEF IInv, AtRest
<1>3. Returned(Left(p), NextConn(p)) \in Seq(ConnsOf(p))
  BY <1>2, PoolMoves DEF IInv
<1>4. TypeOK'
  <2>1. ConnsOf(p) \subseteq Conns
    BY ConnOwner
  <2>2. Returned(Left(p), NextConn(p)) \in Seq(Conns)
    BY <1>3, <2>1
  <2>3. pool' = [pool EXCEPT ![p] = Returned(Left(p), NextConn(p))] /\ UNCHANGED <<task, lock, faults>>
    BY DEF Refused, SetPool
  <2>4. pool' \in [Procs -> Seq(Conns)]
    BY <2>2, <2>3 DEF IInv, TypeOK, Conns
  <2>5. \A q \in Procs : pool'[q] \in Seq(ConnsOf(q))
    BY <1>3, <2>3 DEF IInv, TypeOK
  <2>6. QED
    BY <2>3, <2>4, <2>5 DEF IInv, TypeOK, Conns, ConnsOf
<1>5. QED
  BY <1>4 DEF IInv, Refused, ClosedSession, HoldsItsLock, CountedIfHeld, SchedulerHoldsOnce,
              SchedulerLockReturned

(* Whatever connection the relay unlocks on, no process works under a lock    *)
(* that this connection holds.                                                *)
LEMMA RelayUnlocksIInv ==
  ASSUME IInv, NEW p \in Procs, RelayUnlocks(p)
  PROVE  IInv'
<1> DEFINE c == NextConn(p)
<1>1. "relay" \in Tasks /\ "relay" \in Locks /\ task[p]["relay"].conn = NoConn
  BY DEF RelayUnlocks, Tasks, Locks, IInv, ClosedSession
<1>2. c \in ConnsOf(p) /\ c \in Conns /\ c # NoConn
  BY <1>1, NextConnInPool, ConnOwner DEF IInv
<1>3. /\ Unlock("relay", c)
      /\ SetPool(p, Returned(Left(p), c))
      /\ Goto(p, "relay", "idle", NoConn)
      /\ faults' = faults
      /\ task[p]["relay"].pc = "unlocking"
  BY DEF RelayUnlocks
<1> HIDE DEF c
<1>4. /\ lock' \in [Locks -> [conn : Conns \cup {NoConn}, count : 0..LockCap]]
      /\ lock["relay"].conn # c => lock'["relay"] = lock["relay"]
      /\ lock["relay"].conn = c =>
           lock'["relay"] = Free \/ (lock'["relay"].conn = c /\ lock'["relay"].count > 0)
      /\ \A m \in Locks : m # "relay" => lock'[m] = lock[m]
  BY <1>1, <1>2, <1>3, LockMoves DEF IInv
<1>5. /\ task'[p]["relay"] = [pc |-> "idle", conn |-> NoConn]
      /\ \A q \in Procs, j \in Tasks : q # p \/ j # "relay" => task'[q][j] = task[q][j]
  BY <1>1, <1>3, OthersStay DEF IInv
<1>6. TypeOK'
  <2>1. Returned(Left(p), c) \in Seq(ConnsOf(p))
    BY <1>2, PoolMoves DEF IInv
  <2>2. QED
    BY <1>1, <1>3, <1>4, <2>1, MovesKeepType DEF IInv, TypeOK
<1>7. ClosedSession'
  BY <1>5 DEF IInv, ClosedSession
<1>8. HoldsItsLock'
  <2> SUFFICES ASSUME NEW q \in Procs, NEW m \in Locks,
                      task'[q][m].pc = "locked", task'[q][m].conn # NoConn
               PROVE  lock'[m].conn = task'[q][m].conn
    BY DEF HoldsItsLock
  <2>1. m \in Tasks /\ (q # p \/ m # "relay")
    BY <1>5 DEF Tasks
  <2>2. task'[q][m] = task[q][m] /\ lock[m].conn = task[q][m].conn
    BY <1>5, <2>1 DEF IInv, HoldsItsLock
  <2>3. CASE m # "relay"
    BY <1>4, <2>2, <2>3
  <2>4. CASE m = "relay"
    <3>1. lock[m].conn \in ConnsOf(q)
      BY <2>1, <2>2 DEF IInv, TypeOK
    <3>2. lock[m].conn # c
      BY <1>2, <2>1, <2>4, <3>1, ConnOwner
    <3>3. QED
      BY <1>4, <2>2, <2>4, <3>2
  <2>5. QED
    BY <2>3, <2>4
<1>9. CountedIfHeld'
  BY <1>2, <1>4 DEF IInv, CountedIfHeld, Free
<1>10. SchedulerHoldsOnce' /\ SchedulerLockReturned'
  <2>1. \A q \in Procs : task'[q]["scheduler"] = task[q]["scheduler"]
    BY <1>5 DEF Tasks, Locks
  <2>2. lock'["scheduler"] = lock["scheduler"]
    BY <1>4 DEF Locks
  <2>3. QED
    BY <2>1, <2>2 DEF IInv, SchedulerHoldsOnce, SchedulerLockReturned
<1>11. QED
  BY <1>6, <1>7, <1>8, <1>9, <1>10 DEF IInv

(* The scheduler holds its lock once, so one unlock on the connection that    *)
(* holds it frees it.                                                         *)
LEMMA SchedulerReleasesIInv ==
  ASSUME IInv, NEW p \in Procs, SchedulerReleases(p)
  PROVE  IInv'
<1> DEFINE c == task[p]["scheduler"].conn
           l == "scheduler"
<1>1. l \in Tasks /\ l \in Locks /\ c \in ConnsOf(p) \cup {NoConn}
  BY DEF Tasks, Locks, IInv, TypeOK
<1>2. /\ IF c = NoConn THEN UNCHANGED lock ELSE Unlock(l, c)
      /\ SetPool(p, Returned(pool[p], c))
      /\ Goto(p, l, "idle", NoConn)
      /\ faults' = faults
      /\ task[p][l].pc = "locked"
  BY DEF SchedulerReleases
<1>3. /\ task'[p][l] = [pc |-> "idle", conn |-> NoConn]
      /\ \A q \in Procs, j \in Tasks : q # p \/ j # l => task'[q][j] = task[q][j]
  BY <1>1, <1>2, OthersStay DEF IInv
<1>4. lock \in [Locks -> [conn : Conns \cup {NoConn}, count : 0..LockCap]]
  BY DEF IInv, TypeOK, Conns
<1>5. CASE c = NoConn
  <2>1. TypeOK'
    BY <1>1, <1>2, <1>4, <1>5, PoolMoves, MovesKeepType DEF IInv, TypeOK
  <2>2. ClosedSession'
    BY <1>3 DEF IInv, ClosedSession
  <2>3. HoldsItsLock'
    <3> SUFFICES ASSUME NEW q \in Procs, NEW m \in Locks,
                        task'[q][m].pc = "locked", task'[q][m].conn # NoConn
                 PROVE  lock'[m].conn = task'[q][m].conn
      BY DEF HoldsItsLock
    <3>1. m \in Tasks /\ (q # p \/ m # l)
      BY <1>3 DEF Tasks
    <3>2. QED
      BY <1>2, <1>3, <1>5, <3>1 DEF IInv, HoldsItsLock
  <2>4. CountedIfHeld' /\ SchedulerHoldsOnce'
    BY <1>2, <1>5 DEF IInv, CountedIfHeld, SchedulerHoldsOnce
  <2>5. SchedulerLockReturned'
    <3> SUFFICES ASSUME lock[l] # Free
                 PROVE  \E q \in Procs : task'[q][l] = [pc |-> "locked", conn |-> lock[l].conn]
      BY <1>2, <1>5 DEF SchedulerLockReturned
    <3>1. PICK q \in Procs : task[q][l] = [pc |-> "locked", conn |-> lock[l].conn]
      BY DEF IInv, SchedulerLockReturned
    <3>2. lock[l] = [conn |-> lock[l].conn, count |-> lock[l].count]
      BY <1>1, <1>4
    <3>3. lock[l].conn # NoConn
      BY <1>1, <3>2 DEF IInv, CountedIfHeld, Free
    <3>4. q # p
      BY <1>5, <3>1, <3>3
    <3>5. QED
      BY <1>1, <1>3, <3>1, <3>4
  <2>6. QED
    BY <2>1, <2>2, <2>3, <2>4, <2>5 DEF IInv
<1>6. CASE c # NoConn
  <2>1. c \in ConnsOf(p) /\ c \in Conns /\ lock[l].conn = c
    BY <1>1, <1>2, <1>6, ConnOwner DEF IInv, HoldsItsLock
  <2>2. lock[l].count = 1
    BY <1>1, <1>4, <1>6, <2>1, RelayLockAssumption DEF IInv, CountedIfHeld, SchedulerHoldsOnce
  <2>3. /\ lock' \in [Locks -> [conn : Conns \cup {NoConn}, count : 0..LockCap]]
        /\ lock'[l] = Free
        /\ \A m \in Locks : m # l => lock'[m] = lock[m]
    BY <1>1, <1>2, <1>6, <2>1, <2>2, LockMoves DEF IInv
  <2>4. TypeOK'
    BY <1>1, <1>2, <2>3, PoolMoves, MovesKeepType DEF IInv, TypeOK
  <2>5. ClosedSession'
    BY <1>3 DEF IInv, ClosedSession
  <2>6. HoldsItsLock'
    <3> SUFFICES ASSUME NEW q \in Procs, NEW m \in Locks,
                        task'[q][m].pc = "locked", task'[q][m].conn # NoConn
                 PROVE  lock'[m].conn = task'[q][m].conn
      BY DEF HoldsItsLock
    <3>1. m \in Tasks /\ (q # p \/ m # l)
      BY <1>3 DEF Tasks
    <3>2. task'[q][m] = task[q][m] /\ lock[m].conn = task[q][m].conn
      BY <1>3, <3>1 DEF IInv, HoldsItsLock
    <3>3. m # l
      BY <2>1, <3>1, <3>2, ConnOwner DEF IInv, TypeOK
    <3>4. QED
      BY <2>3, <3>2, <3>3
  <2>7. CountedIfHeld'
    BY <2>3 DEF IInv, CountedIfHeld, Free
  <2>8. SchedulerHoldsOnce' /\ SchedulerLockReturned'
    BY <2>3 DEF SchedulerHoldsOnce, SchedulerLockReturned, Free
  <2>9. QED
    BY <2>4, <2>5, <2>6, <2>7, <2>8 DEF IInv
<1>7. QED
  BY <1>5, <1>6

(* The death of a process closes its connections, and no other process works  *)
(* on one of them.                                                            *)
LEMMA CrashIInv ==
  ASSUME IInv, NEW p \in Procs, Crash(p)
  PROVE  IInv'
<1>1. /\ pool' = [pool EXCEPT ![p] = <<>>]
      /\ task' = [task EXCEPT ![p] = [k \in Tasks |-> AtRest]]
      /\ lock' = [l \in Locks |-> IF lock[l].conn \in ConnsOf(p) THEN Free ELSE lock[l]]
      /\ Fault
  BY DEF Crash, Released
<1>2. /\ \A k \in Tasks : task'[p][k] = AtRest
      /\ \A q \in Procs, k \in Tasks : q # p => task'[q][k] = task[q][k]
  BY <1>1 DEF IInv, TypeOK
<1>3. lock' \in [Locks -> [conn : Conns \cup {NoConn}, count : 0..LockCap]]
  BY <1>1, RelayLockAssumption DEF IInv, TypeOK, Conns, Free
<1>4. TypeOK'
  <2>1. pool' \in [Procs -> Seq(Conns)] /\ \A q \in Procs : pool'[q] \in Seq(ConnsOf(q))
    BY <1>1 DEF IInv, TypeOK, Conns
  <2>2. task' \in [Procs -> [Tasks -> [pc : {"idle", "locked", "unlocking", "open"},
                                     conn : Conns \cup {NoConn}]]]
    BY <1>1 DEF IInv, TypeOK, Conns, AtRest
  <2>3. \A q \in Procs, k \in Tasks : task'[q][k].conn \in ConnsOf(q) \cup {NoConn}
    <3> TAKE q \in Procs, k \in Tasks
    <3>1. CASE q = p
      BY <1>2, <3>1 DEF AtRest
    <3>2. CASE q # p
      BY <1>2, <3>2 DEF IInv, TypeOK
    <3>3. QED
      BY <3>1, <3>2
  <2>4. QED
    BY <1>1, <1>3, <2>1, <2>2, <2>3, FaultBound DEF IInv, TypeOK, Conns, ConnsOf
<1>5. ClosedSession'
  BY <1>2 DEF IInv, ClosedSession, AtRest
<1>6. HoldsItsLock'
  <2> SUFFICES ASSUME NEW q \in Procs, NEW m \in Locks,
                      task'[q][m].pc = "locked", task'[q][m].conn # NoConn
               PROVE  lock'[m].conn = task'[q][m].conn
    BY DEF HoldsItsLock
  <2>1. m \in Tasks /\ q # p
    BY <1>2 DEF Tasks, AtRest
  <2>2. task'[q][m] = task[q][m] /\ lock[m].conn = task[q][m].conn
    BY <1>2, <2>1 DEF IInv, HoldsItsLock
  <2>3. lock[m].conn \notin ConnsOf(p)
    BY <2>1, <2>2, ConnOwner DEF IInv, TypeOK
  <2>4. QED
    BY <1>1, <2>2, <2>3
<1>7. CountedIfHeld'
  BY <1>1 DEF IInv, CountedIfHeld, Free
<1>8. SchedulerHoldsOnce'
  BY <1>1 DEF IInv, SchedulerHoldsOnce, Free, Locks
<1>9. SchedulerLockReturned'
  <2> SUFFICES ASSUME lock'["scheduler"] # Free
               PROVE  \E q \in Procs :
                        task'[q]["scheduler"] = [pc |-> "locked", conn |-> lock'["scheduler"].conn]
    BY DEF SchedulerLockReturned
  <2>1. "scheduler" \in Locks /\ "scheduler" \in Tasks
    BY DEF Locks, Tasks
  <2>2. lock'["scheduler"] = lock["scheduler"] /\ lock["scheduler"].conn \notin ConnsOf(p)
    BY <1>1, <2>1
  <2>3. PICK q \in Procs : task[q]["scheduler"] = [pc |-> "locked", conn |-> lock["scheduler"].conn]
    BY <2>2 DEF IInv, SchedulerLockReturned
  <2>4. lock["scheduler"].conn # NoConn
    <3>1. lock["scheduler"] = [conn |-> lock["scheduler"].conn, count |-> lock["scheduler"].count]
      BY <2>1 DEF IInv, TypeOK
    <3>2. QED
      BY <2>1, <2>2, <3>1 DEF IInv, CountedIfHeld, Free
  <2>5. q # p
    BY <2>1, <2>2, <2>3, <2>4 DEF IInv, TypeOK
  <2>6. QED
    BY <1>2, <2>1, <2>2, <2>3, <2>5
<1>10. QED
  BY <1>4, <1>5, <1>6, <1>7, <1>8, <1>9 DEF IInv

(* A restart of the database frees the locks and closes every connection. *)
LEMMA DatabaseRestartsIInv ==
  ASSUME IInv, DatabaseRestarts
  PROVE  IInv'
<1>1. /\ pool' = [p \in Procs |-> <<>>]
      /\ task' = [p \in Procs |-> [k \in Tasks |-> [pc |-> task[p][k].pc, conn |-> NoConn]]]
      /\ lock' = [l \in Locks |-> Free]
      /\ Fault
  BY DEF DatabaseRestarts
<1>2. \A p \in Procs, k \in Tasks :
        task'[p][k] = [pc |-> task[p][k].pc, conn |-> NoConn]
  BY <1>1 DEF IInv, TypeOK
<1>3. TypeOK'
  <2>1. task' \in [Procs -> [Tasks -> [pc : {"idle", "locked", "unlocking", "open"},
                                     conn : Conns \cup {NoConn}]]]
    BY <1>1 DEF IInv, TypeOK, Conns
  <2>2. lock' \in [Locks -> [conn : Conns \cup {NoConn}, count : 0..LockCap]]
    BY <1>1, RelayLockAssumption DEF Free
  <2>3. pool' \in [Procs -> Seq(Conns)] /\ \A q \in Procs : pool'[q] \in Seq(ConnsOf(q))
    BY <1>1
  <2>4. QED
    BY <1>1, <1>2, <2>1, <2>2, <2>3, FaultBound DEF IInv, TypeOK, Conns, ConnsOf
<1>4. ClosedSession' /\ HoldsItsLock'
  <2>1. \A l \in Locks : l \in Tasks
    BY DEF Tasks
  <2>2. ASSUME NEW p \in Procs, NEW k \in Tasks PROVE task'[p][k].conn = NoConn
    <3>1. task'[p][k] = [pc |-> task[p][k].pc, conn |-> NoConn]
      BY <1>2
    <3>2. QED
      BY <3>1
  <2>3. QED
    BY <2>1, <2>2 DEF ClosedSession, HoldsItsLock
<1>5. CountedIfHeld' /\ SchedulerHoldsOnce' /\ SchedulerLockReturned'
  BY <1>1 DEF CountedIfHeld, SchedulerHoldsOnce, SchedulerLockReturned, Free, Locks
<1>6. QED
  BY <1>3, <1>4, <1>5 DEF IInv

(* The invariant is inductive. *)
LEMMA NextIInv == IInv /\ [Next]_vars => IInv'
<1> SUFFICES ASSUME IInv, [Next]_vars PROVE IInv'
  OBVIOUS
<1>1. CASE DatabaseRestarts
  BY <1>1, DatabaseRestartsIInv
<1>2. ASSUME NEW p \in Procs, NEW l \in Locks, Acquires(p, l) \/ Refused(p, l)
      PROVE  IInv'
  BY <1>2, AcquiresIInv, RefusedIInv
<1>3. ASSUME NEW p \in Procs, RelayUnlocks(p) \/ SchedulerReleases(p) \/ Crash(p)
      PROVE  IInv'
  BY <1>3, RelayUnlocksIInv, SchedulerReleasesIInv, CrashIInv
<1>4. ASSUME NEW p \in Procs, RelayCommits(p) \/ RelayFails(p) \/ OtherBegins(p) \/ OtherEnds(p)
      PROVE  IInv'
  BY <1>4, QuietIInv
<1>5. CASE UNCHANGED vars
  BY <1>5 DEF vars, IInv, TypeOK, ConnsOf, ClosedSession, HoldsItsLock, CountedIfHeld,
              SchedulerHoldsOnce, SchedulerLockReturned
<1>6. QED
  BY <1>1, <1>2, <1>3, <1>4, <1>5 DEF Next

(* The invariant holds in every reachable state. *)
LEMMA Invariant == Spec => []IInv
<1>1. QED
  BY InitIInv, NextIInv, PTL DEF Spec

-----------------------------------------------------------------------------
(* Type correctness: a session always finds a connection of its own process,  *)
(* and a lock is always held by a connection or by nobody.                    *)
THEOREM TypeCorrect == Spec => []TypeOK
<1>1. IInv => TypeOK
  BY DEF IInv
<1>2. QED
  BY <1>1, Invariant, PTL

(* However many processes share the locks, and although a relay may leave its *)
(* lock with a pooled connection and take it again from there, never do two   *)
(* relays, or two schedulers, work under one lock.                            *)
THEOREM OneElectedHolds == Spec => []OneElected
<1>1. ASSUME IInv PROVE OneElected
  <2> SUFFICES ASSUME NEW l \in Locks
               PROVE  Cardinality({p \in Procs : task[p][l].pc = "locked"
                                               /\ task[p][l].conn # NoConn}) <= 1
    BY DEF OneElected
  <2> DEFINE S == {p \in Procs : task[p][l].pc = "locked" /\ task[p][l].conn # NoConn}
  <2>1. ASSUME NEW p \in S, NEW q \in S PROVE p = q
    <3>1. task[p][l].conn = lock[l].conn /\ task[q][l].conn = lock[l].conn
      BY <1>1 DEF IInv, HoldsItsLock
    <3>2. lock[l].conn \in ConnsOf(p) /\ lock[l].conn \in ConnsOf(q)
      BY <1>1, <3>1 DEF IInv, TypeOK, Tasks
    <3>3. QED
      BY <3>2, ConnOwner
  <2>2. CASE S = {}
    <3>1. Cardinality(S) = 0
      BY <2>2, FS_EmptySet
    <3>2. QED
      BY <3>1
  <2>3. CASE S # {}
    <3>1. PICK p : S = {p}
      BY <2>1, <2>3
    <3>2. Cardinality(S) = 1
      BY <3>1, FS_Singleton
    <3>3. QED
      BY <3>2
  <2>4. QED
    BY <2>2, <2>3
<1>2. QED
  BY <1>1, Invariant, PTL

(* The scheduler unlocks before it commits, so its lock is held only while a  *)
(* scheduler works on the connection that holds it: no process keeps it.      *)
THEOREM SchedulerLockAlwaysReturned == Spec => []SchedulerLockReturned
<1>1. IInv => SchedulerLockReturned
  BY DEF IInv
<1>2. QED
  BY <1>1, Invariant, PTL

-----------------------------------------------------------------------------
(* The connections that a process has *)

(* The elements of a sequence. *)
Elems(idle) == {idle[i] : i \in DOMAIN idle}

(* The connections that are idle in a process's pool or in use. *)
Open(p) == Elems(pool[p]) \cup InUse(p)

(* The pool loses what it hands out, and no more; what returns is in it. *)
LEMMA PoolElems ==
  ASSUME TypeOK, NEW p \in Procs, NEW c \in ConnsOf(p)
  PROVE  /\ Elems(pool[p]) \subseteq Elems(Left(p)) \cup {NextConn(p)}
         /\ \A idle \in Seq(ConnsOf(p)) : Elems(Returned(idle, c)) = Elems(idle) \cup {c}
<1>1. pool[p] \in Seq(ConnsOf(p)) /\ c # NoConn
  BY ConnOwner DEF TypeOK
<1>2. Elems(pool[p]) \subseteq Elems(Left(p)) \cup {NextConn(p)}
  <2>1. CASE pool[p] = <<>>
    BY <2>1 DEF Elems
  <2>2. CASE pool[p] # <<>>
    <3> SUFFICES ASSUME NEW i \in DOMAIN pool[p], i # 1
                 PROVE  pool[p][i] \in Elems(Tail(pool[p]))
      BY <1>1, <2>2 DEF Elems, Left, NextConn
    <3>1. i - 1 \in DOMAIN Tail(pool[p]) /\ Tail(pool[p])[i - 1] = pool[p][i]
      BY <1>1, <2>2
    <3>2. QED
      BY <3>1 DEF Elems
  <2>3. QED
    BY <2>1, <2>2
<1>3. ASSUME NEW idle \in Seq(ConnsOf(p))
      PROVE  Elems(Append(idle, c)) = Elems(idle) \cup {c}
  <2>1. /\ DOMAIN Append(idle, c) = DOMAIN idle \cup {Len(idle) + 1}
        /\ \A i \in DOMAIN idle : Append(idle, c)[i] = idle[i]
        /\ Append(idle, c)[Len(idle) + 1] = c
    BY <1>3
  <2>2. QED
    BY <2>1 DEF Elems
<1>4. QED
  BY <1>1, <1>2, <1>3 DEF Returned

(* A lock that is held is held by a connection. *)
LEMMA HeldByConn ==
  ASSUME TypeOK, CountedIfHeld, NEW l \in Locks, lock[l] # Free
  PROVE  lock[l].conn \in Conns /\ lock[l].conn # NoConn
<1>1. lock[l] \in [conn : Conns \cup {NoConn}, count : 0..LockCap]
  BY DEF TypeOK, Conns
<1>2. lock[l].conn # NoConn
  BY <1>1 DEF CountedIfHeld, Free
<1>3. QED
  BY <1>1, <1>2

(* A step of one process that drops no open connection, and takes locks with  *)
(* connections that are open, keeps the locks reachable.                      *)
LEMMA NothingDropped ==
  ASSUME TypeOK, CountedIfHeld, LockReachable, NEW p \in Procs,
         \A q \in Procs : q # p => pool'[q] = pool[q] /\ task'[q] = task[q],
         \A c \in Open(p) : c # NoConn => c \in Open(p)',
         \A l \in Locks : \/ lock'[l] = Free
                          \/ lock[l] # Free /\ lock'[l].conn = lock[l].conn
                          \/ lock'[l].conn \in Open(p)'
  PROVE  LockReachable'
<1>1. ASSUME NEW q \in Procs, NEW c \in Open(q), c # NoConn
      PROVE  c \in Open(q)'
  <2>1. CASE q = p
    BY <1>1, <2>1
  <2>2. CASE q # p
    <3>1. pool'[q] = pool[q] /\ task'[q] = task[q]
      BY <2>2
    <3>2. QED
      BY <1>1, <3>1 DEF Open, InUse, Elems
  <2>3. QED
    BY <2>1, <2>2
<1>2. ASSUME NEW l \in Locks, lock'[l] # Free
      PROVE  \E q \in Procs : lock'[l].conn \in Open(q)'
  <2>1. CASE lock[l] # Free /\ lock'[l].conn = lock[l].conn
    <3>1. lock[l].conn # NoConn
      BY <2>1, HeldByConn
    <3>2. PICK q \in Procs : lock[l].conn \in Open(q)
      BY <2>1 DEF LockReachable, Open, Elems
    <3>3. QED
      BY <1>1, <2>1, <3>1, <3>2
  <2>2. QED
    BY <1>2, <2>1
<1>3. QED
  BY <1>2 DEF LockReachable, Open, Elems

(* What a task does to its process's connections when it takes one, and when  *)
(* it gives its own back.                                                     *)
LEMMA OpenMoves ==
  ASSUME TypeOK, NEW p \in Procs, NEW k \in Tasks, NEW pc, NEW c, NEW idle,
         Goto(p, k, pc, c), SetPool(p, idle),
         Elems(pool[p]) \subseteq Elems(idle) \cup {c},
         task[p][k].conn \in Elems(idle) \cup {c, NoConn}
  PROVE  /\ \A q \in Procs : q # p => pool'[q] = pool[q] /\ task'[q] = task[q]
         /\ \A d \in Open(p) : d # NoConn => d \in Open(p)'
         /\ c \in Open(p)'
<1>1. pool'[p] = idle /\ \A q \in Procs : q # p => pool'[q] = pool[q] /\ task'[q] = task[q]
  BY DEF TypeOK, SetPool, Goto
<1>2. task'[p][k].conn = c /\ \A j \in Tasks : j # k => task'[p][j] = task[p][j]
  <2>1. /\ task'[p][k] = [pc |-> pc, conn |-> c]
        /\ \A q \in Procs, j \in Tasks : q # p \/ j # k => task'[q][j] = task[q][j]
    BY OthersStay
  <2>2. QED
    BY <2>1
<1>3. Open(p)' = Elems(idle) \cup {task'[p][j].conn : j \in Tasks}
  BY <1>1 DEF Open, InUse, Elems
<1>4. c \in Open(p)'
  BY <1>2, <1>3
<1>5. ASSUME NEW j \in Tasks, task[p][j].conn # NoConn
      PROVE  task[p][j].conn \in Open(p)'
  <2>1. CASE j = k
    BY <1>3, <1>4, <1>5, <2>1
  <2>2. CASE j # k
    BY <1>2, <1>3, <2>2
  <2>3. QED
    BY <2>1, <2>2
<1>6. \A d \in Elems(pool[p]) : d \in Open(p)'
  BY <1>3, <1>4
<1>7. QED
  BY <1>1, <1>4, <1>5, <1>6 DEF Open, InUse

(* A task that takes a connection of the pool. *)
LEMMA TakesConn ==
  ASSUME IInv, LockReachable, NEW p \in Procs, NEW k \in Tasks, NEW pc,
         task[p][k] = AtRest, Goto(p, k, pc, NextConn(p)), SetPool(p, Left(p)),
         \/ UNCHANGED lock
         \/ k \in Locks /\ MayLock(k, NextConn(p)) /\ Acquire(k, NextConn(p))
  PROVE  LockReachable'
<1>1. TypeOK /\ CountedIfHeld /\ task[p][k].conn = NoConn
  BY DEF IInv, AtRest
<1>2. NextConn(p) \in ConnsOf(p) /\ NextConn(p) \in Conns
  BY <1>1, NextConnInPool, ConnOwner
<1>3. Elems(pool[p]) \subseteq Elems(Left(p)) \cup {NextConn(p)}
  BY <1>1, <1>2, PoolElems
<1>4. /\ \A q \in Procs : q # p => pool'[q] = pool[q] /\ task'[q] = task[q]
      /\ \A d \in Open(p) : d # NoConn => d \in Open(p)'
      /\ NextConn(p) \in Open(p)'
  BY <1>1, <1>3, OpenMoves
<1>5. ASSUME NEW l \in Locks
      PROVE  \/ lock'[l] = Free
             \/ lock[l] # Free /\ lock'[l].conn = lock[l].conn
             \/ lock'[l].conn \in Open(p)'
  <2>1. CASE lock'[l] = lock[l]
    BY <2>1
  <2>2. CASE k = l /\ MayLock(l, NextConn(p)) /\ Acquire(l, NextConn(p))
    <3>1. lock'[l].conn = NextConn(p)
      BY <1>1, <1>2, <2>2, LockMoves
    <3>2. QED
      BY <1>4, <3>1
  <2>3. CASE k # l /\ k \in Locks /\ MayLock(k, NextConn(p)) /\ Acquire(k, NextConn(p))
    <3>1. lock'[l] = lock[l]
      BY <1>1, <1>2, <2>3, LockMoves
    <3>2. QED
      BY <3>1
  <2>4. QED
    BY <2>1, <2>2, <2>3
<1>6. QED
  BY <1>1, <1>4, <1>5, NothingDropped

(* A session that ends, or that only asks, gives its connection back. *)
LEMMA ReturnsConn ==
  ASSUME IInv, LockReachable, NEW p \in Procs, NEW k \in Tasks, NEW pc, NEW c, NEW idle,
         Goto(p, k, pc, NoConn), SetPool(p, Returned(idle, c)),
         \/ c = task[p][k].conn /\ idle = pool[p]
         \/ task[p][k].conn = NoConn /\ c = NextConn(p) /\ idle = Left(p),
         \/ UNCHANGED lock
         \/ \E l \in Locks : c # NoConn /\ Unlock(l, c)
  PROVE  LockReachable'
<1>1. TypeOK /\ CountedIfHeld /\ pool[p] \in Seq(ConnsOf(p))
  BY DEF IInv, TypeOK
<1>2. c \in ConnsOf(p) \cup {NoConn} /\ idle \in Seq(ConnsOf(p))
  <2>1. task[p][k].conn \in ConnsOf(p) \cup {NoConn} /\ Left(p) \in Seq(ConnsOf(p))
    BY <1>1, PoolMoves DEF TypeOK
  <2>2. task[p][k].conn = NoConn => NextConn(p) \in ConnsOf(p)
    BY <1>1, NextConnInPool
  <2>3. QED
    BY <1>1, <2>1, <2>2
<1>3. c \in ConnsOf(p) => Elems(Returned(idle, c)) = Elems(idle) \cup {c}
  BY <1>1, <1>2, PoolElems
<1>4. /\ Elems(pool[p]) \subseteq Elems(Returned(idle, c)) \cup {NoConn}
      /\ task[p][k].conn \in Elems(Returned(idle, c)) \cup {NoConn}
  <2>1. CASE c = task[p][k].conn /\ idle = pool[p]
    BY <1>2, <1>3, <2>1 DEF Returned
  <2>2. CASE task[p][k].conn = NoConn /\ c = NextConn(p) /\ idle = Left(p)
    <3>1. c \in ConnsOf(p)
      BY <1>1, <2>2, NextConnInPool
    <3>2. Elems(pool[p]) \subseteq Elems(Left(p)) \cup {NextConn(p)}
      BY <1>1, <2>2, <3>1, PoolElems
    <3>3. QED
      BY <1>3, <2>2, <3>1, <3>2
  <2>3. QED
    BY <2>1, <2>2
<1>5. /\ \A q \in Procs : q # p => pool'[q] = pool[q] /\ task'[q] = task[q]
      /\ \A d \in Open(p) : d # NoConn => d \in Open(p)'
  BY <1>1, <1>4, OpenMoves
<1>6. ASSUME NEW m \in Locks
      PROVE  \/ lock'[m] = Free
             \/ lock[m] # Free /\ lock'[m].conn = lock[m].conn
             \/ lock'[m].conn \in Open(p)'
  <2>1. CASE lock'[m] = lock[m]
    BY <2>1
  <2>2. ASSUME NEW l \in Locks, c # NoConn, Unlock(l, c)
        PROVE  lock'[m] = lock[m] \/ lock'[m] = Free \/ (lock[m].conn = c /\ lock'[m].conn = c)
    <3>1. c \in Conns
      BY <1>2, <2>2, ConnOwner
    <3>2. QED
      BY <1>1, <2>2, <3>1, LockMoves
  <2>3. CASE lock[m].conn = c /\ c # NoConn /\ lock'[m].conn = c
    <3>1. lock[m] # Free
      BY <2>3 DEF Free
    <3>2. QED
      BY <2>3, <3>1
  <2>4. QED
    BY <2>1, <2>2, <2>3
<1>7. QED
  BY <1>1, <1>5, <1>6, NothingDropped

(* LockReachable: whatever batches fail and whichever processes die, the lock *)
(* that a relay leaves behind is on a connection that some process still has. *)
THEOREM LockAlwaysReachable == Spec => []LockReachable
<1>1. Init => LockReachable
  BY DEF Init, LockReachable, Free
<1>2. IInv /\ LockReachable /\ [Next]_vars => LockReachable'
  <2> SUFFICES ASSUME IInv, LockReachable, [Next]_vars PROVE LockReachable'
    OBVIOUS
  <2>1. {"relay", "scheduler", "other"} = Tasks /\ Locks \subseteq Tasks
    BY DEF Tasks, Locks
  <2>2. CASE DatabaseRestarts
    BY <2>2 DEF DatabaseRestarts, LockReachable
  <2>3. ASSUME NEW p \in Procs, NEW l \in Locks, Acquires(p, l) PROVE LockReachable'
    BY <2>1, <2>3, TakesConn DEF Acquires
  <2>4. ASSUME NEW p \in Procs, NEW l \in Locks, Refused(p, l) PROVE LockReachable'
    <3>1. l \in Tasks /\ task[p][l] = AtRest /\ task[p][l].conn = NoConn
      BY <2>1, <2>4 DEF Refused, AtRest
    <3>2. Goto(p, l, "idle", NoConn)
      BY <2>4, <3>1 DEF Refused, Goto, AtRest, IInv, TypeOK
    <3>3. SetPool(p, Returned(Left(p), NextConn(p))) /\ UNCHANGED lock
      BY <2>4 DEF Refused
    <3>4. QED
      BY <3>1, <3>2, <3>3, ReturnsConn
  <2>5. ASSUME NEW p \in Procs, RelayCommits(p) \/ RelayFails(p) PROVE LockReachable'
    <3>1. PICK pc : Goto(p, "relay", pc, NoConn)
      BY <2>5 DEF RelayCommits, RelayFails
    <3>2. SetPool(p, Returned(pool[p], task[p]["relay"].conn)) /\ UNCHANGED lock
      BY <2>5 DEF RelayCommits, RelayFails
    <3>3. QED
      BY <2>1, <3>1, <3>2, ReturnsConn
  <2>6. ASSUME NEW p \in Procs, RelayUnlocks(p) PROVE LockReachable'
    <3>1. "relay" \in Tasks /\ "relay" \in Locks /\ task[p]["relay"].conn = NoConn
      BY <2>1, <2>6 DEF RelayUnlocks, IInv, ClosedSession, Locks
    <3>2. NextConn(p) # NoConn
      BY <3>1, NextConnInPool, ConnOwner DEF IInv
    <3>3. QED
      BY <2>6, <3>1, <3>2, ReturnsConn DEF RelayUnlocks
  <2>7. ASSUME NEW p \in Procs, SchedulerReleases(p) PROVE LockReachable'
    <3>1. "scheduler" \in Tasks /\ "scheduler" \in Locks
      BY <2>1 DEF Locks
    <3>2. \/ UNCHANGED lock
          \/ task[p]["scheduler"].conn # NoConn /\ Unlock("scheduler", task[p]["scheduler"].conn)
      BY <2>7 DEF SchedulerReleases
    <3>3. /\ SetPool(p, Returned(pool[p], task[p]["scheduler"].conn))
          /\ Goto(p, "scheduler", "idle", NoConn)
      BY <2>7 DEF SchedulerReleases
    <3>4. QED
      BY <3>1, <3>2, <3>3, ReturnsConn
  <2>8. ASSUME NEW p \in Procs, OtherBegins(p) PROVE LockReachable'
    BY <2>1, <2>8, TakesConn DEF OtherBegins
  <2>9. ASSUME NEW p \in Procs, OtherEnds(p) PROVE LockReachable'
    <3>1. /\ SetPool(p, Returned(pool[p], task[p]["other"].conn))
          /\ Goto(p, "other", "idle", NoConn) /\ UNCHANGED lock
      BY <2>9 DEF OtherEnds
    <3>2. QED
      BY <2>1, <3>1, ReturnsConn
  <2>10. ASSUME NEW p \in Procs, Crash(p) PROVE LockReachable'
    <3>1. \A q \in Procs : q # p => pool'[q] = pool[q] /\ task'[q] = task[q]
      BY <2>10 DEF Crash, IInv, TypeOK
    <3>2. \A l \in Locks : lock'[l] = IF lock[l].conn \in ConnsOf(p) THEN Free ELSE lock[l]
      BY <2>10 DEF Crash, Released
    <3> SUFFICES ASSUME NEW l \in Locks, lock'[l] # Free
                 PROVE  \E q \in Procs : lock'[l].conn \in Open(q)'
      BY DEF LockReachable, Open, Elems
    <3>3. lock'[l] = lock[l] /\ lock[l] # Free /\ lock[l].conn \notin ConnsOf(p)
      BY <3>2
    <3>4. PICK q \in Procs : lock[l].conn \in Open(q)
      BY <3>3 DEF LockReachable, Open, Elems
    <3>5. lock[l].conn # NoConn
      BY <3>3, HeldByConn DEF IInv
    <3>6. lock[l].conn \in ConnsOf(q)
      BY <3>4, <3>5 DEF Open, InUse, Elems, IInv, TypeOK
    <3>7. q # p
      BY <3>3, <3>6
    <3>8. Open(q)' = Open(q)
      BY <3>1, <3>7 DEF Open, InUse, Elems
    <3>9. QED
      BY <3>3, <3>4, <3>8
  <2>11. CASE UNCHANGED vars
    BY <2>11 DEF vars, LockReachable, InUse
  <2>12. QED
    BY <2>2, <2>3, <2>4, <2>5, <2>6, <2>7, <2>8, <2>9, <2>10, <2>11 DEF Next
<1>3. QED
  BY <1>1, <1>2, Invariant, PTL DEF Spec
=============================================================================
