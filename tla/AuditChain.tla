----------------------------- MODULE AuditChain -----------------------------
(***************************************************************************)
(* The per-run hash chain of AuditEvents: append_audit_event, called by    *)
(* concurrent transactions (API handlers, workers) in READ COMMITTED, and  *)
(* verify_chain over the committed rows.                                   *)
(*                                                                         *)
(* Each statement of an append is a step: the FOR UPDATE lock on the run's *)
(* row, the read of the latest event, the insert.  The lock is held until  *)
(* the transaction ends.  SHA-256 is ideal, two digests are equal only if  *)
(* the same bytes were hashed; which bytes are hashed is the code's.       *)
(***************************************************************************)
EXTENDS Naturals, Sequences, FiniteSets

CONSTANTS
  Runs,        \* WorkflowRuns
  Txns,        \* database transactions that may be open at the same time
  Hosts,       \* machines, each with its own clock
  HostOf,      \* HostOf[t]: the machine that runs t
  Bytes,       \* what texts are made of
  StepIds,     \* values of the columns step_id and step_attempt_id
  Kinds,       \* what an event says: actor, event_type, payload, step ids
  VerifyLimit, \* how many events list_by_workflow_run returns (1000 in the code)
  MaxAppends,  \* bound: events of one transaction
  MaxEvents,   \* bound: committed events of one run
  MaxTime,     \* bound: clock values
  None         \* no transaction

ASSUME AuditAssumption ==
  /\ HostOf \in [Txns -> Hosts]
  /\ None \notin Txns
  /\ Kinds \subseteq [actor : Seq(Bytes), event_type : Seq(Bytes),
                     payload : Seq(Bytes), step_id : StepIds]
  /\ {VerifyLimit, MaxAppends, MaxEvents, MaxTime} \subseteq Nat

VARIABLES
  chain,     \* committed audit_events of each run
  lock,      \* the transaction that holds the run's row lock
  pc, run,   \* where a transaction is, and the run it writes
  rows,      \* the events a transaction has inserted and not committed
  latest,    \* what a transaction read as the latest event: no row, or one
  clock      \* the wall clock of each host

txnVars == <<pc, run, rows, latest>>
vars == <<chain, lock, txnVars, clock>>

NoHash == <<>>

(* Mutant of Digest: the actor is not hashed. *)
MutActorUnhashed(kind, at, prev) == <<kind.event_type \o kind.payload, at, prev>>

(* compute_event_hash: the columns are hashed one after the other with nothing *)
(* between them, so that texts which join to the same bytes share a digest.    *)
(* The timestamp and the 32 bytes of the link have a format of their own and   *)
(* stay apart.  seq_in_run, step_id and step_attempt_id are not hashed.        *)
Digest(kind, at, prev) ==
  <<kind.actor \o kind.event_type \o kind.payload, at, prev>>

Init ==
  /\ chain = [r \in Runs |-> {}]
  /\ lock = [r \in Runs |-> None]
  /\ pc = [t \in Txns |-> "idle"]
  /\ run \in [Txns -> Runs]
  /\ rows = [t \in Txns |-> {}]
  /\ latest = [t \in Txns |-> {}]
  /\ clock = [h \in Hosts |-> 0]

-----------------------------------------------------------------------------
Tick(h) ==
  /\ clock[h] < MaxTime
  /\ clock' = [clock EXCEPT ![h] = @ + 1]
  /\ UNCHANGED <<chain, lock, txnVars>>

Begin(t, r) ==
  /\ pc[t] = "idle"
  /\ pc' = [pc EXCEPT ![t] = "open"]
  /\ run' = [run EXCEPT ![t] = r]
  /\ UNCHANGED <<chain, lock, rows, latest, clock>>

(* SELECT ... FOR UPDATE on the run: waits for the transaction that holds it. *)
LockRun(t) ==
  /\ pc[t] = "open"
  /\ lock[run[t]] = None
  /\ lock' = [lock EXCEPT ![run[t]] = t]
  /\ pc' = [pc EXCEPT ![t] = "locked"]
  /\ UNCHANGED <<chain, run, rows, latest, clock>>

(* READ COMMITTED: a statement sees what is committed when it starts, and the *)
(* transaction's own inserts.                                                 *)
Visible(t) == chain[run[t]] \cup rows[t]

(* get_latest_for_run: ORDER BY seq_in_run DESC LIMIT 1. *)
ReadLatest(t) ==
  /\ pc[t] = "locked"
  /\ Cardinality(rows[t]) < MaxAppends
  /\ Cardinality(Visible(t)) < MaxEvents
  /\ \/ Visible(t) = {} /\ latest' = [latest EXCEPT ![t] = {}]
     \/ \E e \in Visible(t) :
          /\ \A f \in Visible(t) : f.seq <= e.seq
          /\ latest' = [latest EXCEPT ![t] = {e}]
  /\ pc' = [pc EXCEPT ![t] = "read"]
  /\ UNCHANGED <<chain, lock, run, rows, clock>>

(* Mutants of NewEvent: numbers that count down from 0, a link that is not made. *)
MutCountDown(t, kind) ==
  LET last == CHOOSE e \in latest[t] : TRUE
      prev == IF latest[t] = {} THEN NoHash ELSE last.hash
      at   == clock[HostOf[t]]
  IN  [seq  |-> IF latest[t] = {} THEN 0 ELSE last.seq - 1,
       kind |-> kind, at |-> at, prev |-> prev, hash |-> Digest(kind, at, prev)]

MutUnlinked(t, kind) ==
  LET last == CHOOSE e \in latest[t] : TRUE
      at   == clock[HostOf[t]]
  IN  [seq  |-> IF latest[t] = {} THEN 1 ELSE last.seq + 1,
       kind |-> kind, at |-> at, prev |-> NoHash, hash |-> Digest(kind, at, NoHash)]

(* The new event: next sequence number, link to the latest event, the clock of *)
(* the machine the transaction runs on.                                        *)
NewEvent(t, kind) ==
  LET last == CHOOSE e \in latest[t] : TRUE
      prev == IF latest[t] = {} THEN NoHash ELSE last.hash
      at   == clock[HostOf[t]]
  IN  [seq  |-> IF latest[t] = {} THEN 1 ELSE last.seq + 1,
       kind |-> kind,
       at   |-> at,
       prev |-> prev,
       hash |-> Digest(kind, at, prev)]

(* The transaction ends: its locks are released, its rows are gone from it. *)
Release(t) ==
  /\ pc' = [pc EXCEPT ![t] = "idle"]
  /\ rows' = [rows EXCEPT ![t] = {}]
  /\ latest' = [latest EXCEPT ![t] = {}]
  /\ lock' = [r \in Runs |-> IF lock[r] = t THEN None ELSE lock[r]]

(* What other transactions have inserted for the same run and not committed. *)
OthersRows(t) == UNION {rows[u] : u \in {v \in Txns \ {t} : run[v] = run[t]}}

(* uq_audit_events_run_seq: a duplicate sequence number aborts the transaction. *)
Insert(t, kind) ==
  /\ pc[t] = "read"
  /\ LET e == NewEvent(t, kind)
     IN  IF \E f \in Visible(t) \cup OthersRows(t) : f.seq = e.seq
         THEN Release(t)
         ELSE /\ pc' = [pc EXCEPT ![t] = "locked"]
              /\ rows' = [rows EXCEPT ![t] = @ \cup {e}]
              /\ latest' = [latest EXCEPT ![t] = {}]
              /\ UNCHANGED lock
  /\ UNCHANGED <<chain, run, clock>>

Commit(t) ==
  /\ pc[t] = "locked"
  /\ rows[t] # {}
  /\ chain' = [chain EXCEPT ![run[t]] = @ \cup rows[t]]
  /\ Release(t)
  /\ UNCHANGED <<run, clock>>

(* Any exception, cancellation or crash before the commit. *)
Rollback(t) ==
  /\ pc[t] # "idle"
  /\ Release(t)
  /\ UNCHANGED <<chain, run, clock>>

Next ==
  \/ \E h \in Hosts : Tick(h)
  \/ \E t \in Txns, r \in Runs : Begin(t, r)
  \/ \E t \in Txns, kind \in Kinds : Insert(t, kind)
  \/ \E t \in Txns : LockRun(t) \/ ReadLatest(t) \/ Commit(t) \/ Rollback(t)

Spec == Init /\ [][Next]_vars

-----------------------------------------------------------------------------
(* verify_chain *)

(* Mutant of Before: events of one instant are listed last first. *)
MutTiesReversed(e, f) == e.at < f.at \/ (e.at = f.at /\ f.seq < e.seq)

(* list_by_workflow_run: ORDER BY occurred_at, seq_in_run LIMIT ... *)
Before(e, f) == e.at < f.at \/ (e.at = f.at /\ e.seq < f.seq)

Listed(events) ==
  {e \in events : Cardinality({f \in events : Before(f, e)}) < VerifyLimit}

(* f is listed just before e. *)
Precedes(events, f, e) ==
  Before(f, e) /\ ~ \E g \in events : Before(f, g) /\ Before(g, e)

EventOK(events, e) ==
  /\ (\A f \in events : ~Before(f, e)) => e.prev = NoHash
  /\ \A f \in events : Precedes(events, f, e) => e.prev = f.hash
  /\ e.hash = Digest(e.kind, e.at, e.prev)

verify_chain(events) == \A e \in Listed(events) : EventOK(events, e)

-----------------------------------------------------------------------------
(* Properties *)

(* The variables have their types; the digests, which are compared only, have  *)
(* no set of their own.                                                        *)
Typed(events) == \A e \in events : e.seq \in Nat /\ e.at \in Nat

TypeOK ==
  /\ lock \in [Runs -> Txns \cup {None}]
  /\ pc \in [Txns -> {"idle", "open", "locked", "read"}]
  /\ run \in [Txns -> Runs]
  /\ clock \in [Hosts -> Nat]
  /\ chain = [r \in Runs |-> chain[r]] /\ \A r \in Runs : Typed(chain[r])
  /\ rows = [t \in Txns |-> rows[t]] /\ \A t \in Txns : Typed(rows[t])
  /\ latest = [t \in Txns |-> latest[t]]

(* A set of events is one chain: sequence numbers are unique and without gaps, *)
(* and every event carries the hash of its predecessor.                        *)
Linked(events) ==
  /\ \A e, f \in events : e.seq = f.seq => e = f
  /\ \A e \in events :
       IF e.seq = 1 THEN e.prev = NoHash
       ELSE \E f \in events : e.seq = f.seq + 1 /\ e.prev = f.hash

(* Whatever transactions interleave, commit or roll back, the committed events *)
(* of a run form one chain: no fork, no gap, no lost link.                      *)
ChainLinked == \A r \in Runs : Linked(chain[r])

(* The verifier accepts every chain the code has written. *)
VerifierAccepts == \A r \in Runs : verify_chain(chain[r])

(* The ways to overwrite one text column of an event. *)
Overwritten(e, c) ==
  {[e EXCEPT !.kind = [e.kind EXCEPT ![c] = k[c]]] : k \in {j \in Kinds : j[c] # e.kind[c]}}

(* The ways to change one hashed column of an event: who did it, what happened, *)
(* the payload, or when.                                                        *)
Edits(e) ==
  (UNION {Overwritten(e, c) : c \in {"actor", "event_type", "payload"}})
  \cup {[e EXCEPT !.at = time] : time \in (0 .. MaxTime) \ {e.at}}

(* The verifier rejects a chain in which one column that is hashed was changed *)
(* in one listed event, wherever the new timestamp moves the event in the      *)
(* listing, and a chain from which a listed event that is not the run's last   *)
(* was deleted.  Nothing is said of the columns that are not hashed (seq_in_run *)
(* and the step ids) and of bytes moved from one text column to the next.      *)
TamperDetected ==
  \A r \in Runs : \A e \in Listed(chain[r]) :
    /\ \A f \in Edits(e) : ~verify_chain((chain[r] \ {e}) \cup {f})
    /\ (\E f \in chain[r] : Before(e, f)) => ~verify_chain(chain[r] \ {e})
=============================================================================
