----------------------------- MODULE RelayLock -----------------------------
(***************************************************************************)
(* The advisory locks that elect one outbox relay and one scheduler among  *)
(* the worker processes.                                                   *)
(*                                                                         *)
(* pg_try_advisory_lock belongs to the database connection, is re-entrant, *)
(* and outlives the transaction.  A session takes a connection from the    *)
(* process's pool at its first statement and gives it back at commit or    *)
(* close; the pool hands out the connection that is idle longest, and      *)
(* opens one when none is idle.  The relay commits its batch before it     *)
(* unlocks, so the unlock may run on another connection than the lock.     *)
(***************************************************************************)
EXTENDS Naturals, Sequences, FiniteSets

CONSTANTS
  Procs,        \* worker processes
  PoolSize,     \* connections a process may have open
  LockCap,      \* bound: holds of a lock that are counted, more than one
  MaxFaults     \* bound: failed batches, deaths of a process, restarts of the database

Locks == {"relay", "scheduler"}

Tasks == Locks \cup {"other"}

ASSUME RelayLockAssumption ==
  /\ IsFiniteSet(Procs)
  /\ PoolSize \in Nat /\ PoolSize >= Cardinality(Tasks)
  /\ LockCap \in Nat /\ LockCap > 1
  /\ MaxFaults \in Nat

NoConn == <<>>

VARIABLES
  pool,      \* the idle connections of each process
  task,      \* where each task of a process is, and the connection of its session
  lock,      \* each advisory lock: the connection that holds it, and how often
  faults

vars == <<pool, task, lock, faults>>

Free == [conn |-> NoConn, count |-> 0]

AtRest == [pc |-> "idle", conn |-> NoConn]

Init ==
  /\ pool = [p \in Procs |-> <<>>]
  /\ task = [p \in Procs |-> [k \in Tasks |-> AtRest]]
  /\ lock = [l \in Locks |-> Free]
  /\ faults = 0

-----------------------------------------------------------------------------
(* The connection pool *)

ConnsOf(p) == {p} \X (1..PoolSize)

InUse(p) == {task[p][k].conn : k \in Tasks}

(* The connection that a session of the process gets: the one that is idle     *)
(* longest, or a new one.                                                      *)
NextConn(p) ==
  IF pool[p] # <<>> THEN Head(pool[p])
  ELSE CHOOSE c \in ConnsOf(p) \ InUse(p) : \A d \in ConnsOf(p) \ InUse(p) : c[2] <= d[2]

(* The connections that are idle when a session has taken one. *)
Left(p) == IF pool[p] = <<>> THEN <<>> ELSE Tail(pool[p])

(* Mutant of Returned: a closed connection goes back to the pool. *)
MutReturnClosed(idle, c) == Append(idle, c)

(* A connection that the database has closed does not return. *)
Returned(idle, c) == IF c = NoConn THEN idle ELSE Append(idle, c)

SetPool(p, idle) == pool' = [pool EXCEPT ![p] = idle]

Goto(p, k, pc, c) == task' = [task EXCEPT ![p][k] = [pc |-> pc, conn |-> c]]

Fault == faults < MaxFaults /\ faults' = faults + 1

-----------------------------------------------------------------------------
(* PostgreSQL's session-level advisory locks *)

(* Mutant of MayLock: the answer of pg_try_advisory_lock is not looked at. *)
MutAlwaysAcquired(l, c) == TRUE

(* pg_try_advisory_lock answers true. *)
MayLock(l, c) == lock[l].conn \in {NoConn, c}

Acquire(l, c) ==
  lock' = [lock EXCEPT ![l] =
             [conn |-> c, count |-> IF @.count < LockCap THEN @.count + 1 ELSE LockCap]]

(* A connection that does not hold the lock gets a warning and unlocks nothing. *)
(* At the cap, the lock may have been taken more often than is counted.         *)
Unlock(l, c) ==
  \/ lock[l].conn # c /\ UNCHANGED lock
  \/ /\ lock[l].conn = c
     /\ lock' = [lock EXCEPT ![l] = IF @.count = 1 THEN Free ELSE [conn |-> c, count |-> @.count - 1]]
  \/ lock[l] = [conn |-> c, count |-> LockCap] /\ UNCHANGED lock

-----------------------------------------------------------------------------
(* A task that is elected by a lock takes it on its session's connection. *)
Acquires(p, l) ==
  /\ task[p][l] = AtRest
  /\ MayLock(l, NextConn(p))
  /\ Acquire(l, NextConn(p))
  /\ Goto(p, l, "locked", NextConn(p))
  /\ SetPool(p, Left(p))
  /\ UNCHANGED faults

(* The lock is held elsewhere: the session is closed. *)
Refused(p, l) ==
  /\ task[p][l] = AtRest
  /\ ~MayLock(l, NextConn(p))
  /\ SetPool(p, Returned(Left(p), NextConn(p)))
  /\ UNCHANGED <<task, lock, faults>>

(* _relay_batch commits the batch: the session gives its connection back. *)
RelayCommits(p) ==
  LET c == task[p]["relay"].conn IN
  /\ task[p]["relay"].pc = "locked"
  /\ c # NoConn
  /\ SetPool(p, Returned(pool[p], c))
  /\ Goto(p, "relay", "unlocking", NoConn)
  /\ UNCHANGED <<lock, faults>>

(* Then it unlocks, on the connection that the pool hands out now. *)
RelayUnlocks(p) ==
  /\ task[p]["relay"].pc = "unlocking"
  /\ Unlock("relay", NextConn(p))
  /\ SetPool(p, Returned(Left(p), NextConn(p)))
  /\ Goto(p, "relay", "idle", NoConn)
  /\ UNCHANGED faults

(* Mutant of RelayFails: the session is not closed. *)
MutSessionLeaks(p) ==
  /\ task[p]["relay"].pc = "locked"
  /\ IF task[p]["relay"].conn = NoConn THEN UNCHANGED faults ELSE Fault
  /\ Goto(p, "relay", "idle", NoConn)
  /\ UNCHANGED <<pool, lock>>

(* A statement of the batch fails.  The transaction is aborted, so the unlock  *)
(* of the finally block fails as well; the session is closed, and the          *)
(* connection returns to the pool with the lock.                               *)
RelayFails(p) ==
  LET c == task[p]["relay"].conn IN
  /\ task[p]["relay"].pc = "locked"
  /\ IF c = NoConn THEN UNCHANGED faults ELSE Fault
  /\ SetPool(p, Returned(pool[p], c))
  /\ Goto(p, "relay", "idle", NoConn)
  /\ UNCHANGED lock

(* Mutant of SchedulerReleases: it commits before it unlocks, as the relay does. *)
MutCommitFirst(p) ==
  LET c == task[p]["scheduler"].conn
      idle == Returned(pool[p], c)
  IN
  /\ task[p]["scheduler"].pc = "locked"
  /\ idle # <<>> /\ Unlock("scheduler", Head(idle))
  /\ SetPool(p, Append(Tail(idle), Head(idle)))
  /\ Goto(p, "scheduler", "idle", NoConn)
  /\ UNCHANGED faults

(* scheduler_loop unlocks in the transaction that locked, whether              *)
(* mature_tasks raised or not, and then commits.                               *)
SchedulerReleases(p) ==
  LET c == task[p]["scheduler"].conn IN
  /\ task[p]["scheduler"].pc = "locked"
  /\ IF c = NoConn THEN UNCHANGED lock ELSE Unlock("scheduler", c)
  /\ SetPool(p, Returned(pool[p], c))
  /\ Goto(p, "scheduler", "idle", NoConn)
  /\ UNCHANGED faults

(* Another session of the process: a worker loop's, the audit verifier's. *)
OtherBegins(p) ==
  /\ task[p]["other"] = AtRest
  /\ Goto(p, "other", "open", NextConn(p))
  /\ SetPool(p, Left(p))
  /\ UNCHANGED <<lock, faults>>

OtherEnds(p) ==
  /\ task[p]["other"].pc = "open"
  /\ SetPool(p, Returned(pool[p], task[p]["other"].conn))
  /\ Goto(p, "other", "idle", NoConn)
  /\ UNCHANGED <<lock, faults>>

(* The connections that close free the locks they hold. *)
Released(closed) == lock' = [l \in Locks |-> IF lock[l].conn \in closed THEN Free ELSE lock[l]]

(* A process dies and is started again. *)
Crash(p) ==
  /\ Fault
  /\ pool' = [pool EXCEPT ![p] = <<>>]
  /\ task' = [task EXCEPT ![p] = [k \in Tasks |-> AtRest]]
  /\ Released(ConnsOf(p))

(* The database restarts: the idle connections are replaced when they are      *)
(* used (pool_pre_ping), and the sessions that have one find it closed.        *)
DatabaseRestarts ==
  /\ Fault
  /\ pool' = [p \in Procs |-> <<>>]
  /\ task' = [p \in Procs |-> [k \in Tasks |-> [pc |-> task[p][k].pc, conn |-> NoConn]]]
  /\ lock' = [l \in Locks |-> Free]

-----------------------------------------------------------------------------
Next ==
  \/ DatabaseRestarts
  \/ \E p \in Procs :
       \/ \E l \in Locks : Acquires(p, l) \/ Refused(p, l)
       \/ RelayCommits(p)
       \/ RelayUnlocks(p)
       \/ RelayFails(p)
       \/ SchedulerReleases(p)
       \/ OtherBegins(p)
       \/ OtherEnds(p)
       \/ Crash(p)

Spec == Init /\ [][Next]_vars

-----------------------------------------------------------------------------
(* Properties *)

(* Type correctness of the pools, the sessions and the locks. *)
TypeOK ==
  /\ pool \in [Procs -> Seq(Procs \X (1..PoolSize))]
  /\ task \in [Procs -> [Tasks -> [pc : {"idle", "locked", "unlocking", "open"},
                                  conn : Procs \X (1..PoolSize) \cup {NoConn}]]]
  /\ \A p \in Procs :
       /\ pool[p] \in Seq(ConnsOf(p))
       /\ \A k \in Tasks : task[p][k].conn \in ConnsOf(p) \cup {NoConn}
  /\ lock \in [Locks -> [conn : Procs \X (1..PoolSize) \cup {NoConn}, count : 0..LockCap]]
  /\ faults \in 0..MaxFaults

(* At most one process can commit what a task under this lock does, however    *)
(* connections are shared, leaked and lost.                                    *)
OneElected ==
  \A l \in Locks :
    Cardinality({p \in Procs : task[p][l].pc = "locked" /\ task[p][l].conn # NoConn}) <= 1

(* The scheduler's lock is held only while a scheduler works under it, on that *)
(* connection: no process keeps it from the others.                            *)
SchedulerLockReturned ==
  lock["scheduler"] # Free =>
    \E p \in Procs : task[p]["scheduler"] = [pc |-> "locked", conn |-> lock["scheduler"].conn]

(* A lock that is held, also one that a relay has left behind, is on a         *)
(* connection that is idle in a process's pool or in use by one of its tasks:  *)
(* it is never lost to all the processes, which would stop the relay for good. *)
LockReachable ==
  \A l \in Locks : lock[l] # Free =>
    \E p \in Procs : lock[l].conn \in {pool[p][i] : i \in DOMAIN pool[p]} \cup InUse(p)
=============================================================================
