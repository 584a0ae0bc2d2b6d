-------------------------- MODULE AuditChainProofs --------------------------
(***************************************************************************)
(* AuditChain for every set of runs, transactions, hosts and events: the   *)
(* committed events of a run are one chain, and while all events are       *)
(* stamped by one clock the verifier accepts what was written and rejects  *)
(* what was changed.                                                       *)
(***************************************************************************)
EXTENDS AuditChain, FiniteSetTheorems, SequenceTheorems, TLAPS

(* The row lock is what makes a chain: whoever has passed it owns the run,  *)
(* sees a linked chain, and has read the event with the highest number.     *)
OwnsRun == \A t \in Txns : pc[t] \in {"locked", "read"} => lock[run[t]] = t

(* A transaction that has not taken the lock has appended nothing. *)
NoRowsUnlocked == \A t \in Txns : pc[t] \in {"idle", "open"} => rows[t] = {}

(* What each transaction sees is a linked chain. *)
VisibleLinked == \A t \in Txns : Linked(Visible(t))

IsLatest(t) ==
  \/ latest[t] = {} /\ Visible(t) = {}
  \/ \E e \in Visible(t) : latest[t] = {e} /\ \A f \in Visible(t) : f.seq <= e.seq

(* The event read as the last one is still the last when it is appended to. *)
ReadIsLatest == \A t \in Txns : pc[t] = "read" => IsLatest(t)

(* The inductive invariant of the chain. *)
IInv ==
  /\ TypeOK
  /\ OwnsRun
  /\ NoRowsUnlocked
  /\ VisibleLinked
  /\ ReadIsLatest
  /\ ChainLinked

-----------------------------------------------------------------------------
(* What one append does to a chain: an event that continues the event with  *)
(* the highest number keeps the chain linked.                               *)
LEMMA Continues ==
  ASSUME NEW S, Typed(S), Linked(S), NEW e \in S, \A f \in S : f.seq <= e.seq,
         NEW n, n.seq = e.seq + 1, n.prev = e.hash
  PROVE  Linked(S \cup {n})
<1>1. e.seq \in Nat /\ e.seq # 0
  BY DEF Typed, Linked
<1>2. \A f \in S : f.seq # n.seq
  BY <1>1 DEF Typed
<1>3. n.seq # 1 /\ \E f \in S \cup {n} : n.seq = f.seq + 1 /\ n.prev = f.hash
  BY <1>1
<1>4. QED
  BY <1>2, <1>3 DEF Linked

(* The first event of a run is a chain. *)
LEMMA Starts ==
  ASSUME NEW n, n.seq = 1, n.prev = NoHash
  PROVE  Linked({n})
  BY DEF Linked

(* The two cases of NewEvent, after the chain was empty and after it was not. *)
LEMMA NewEventCases ==
  ASSUME NEW t \in Txns, NEW kind
  PROVE  /\ latest[t] = {} => /\ NewEvent(t, kind).seq = 1
                              /\ NewEvent(t, kind).prev = NoHash
         /\ \A e : latest[t] = {e} => /\ NewEvent(t, kind).seq = e.seq + 1
                                      /\ NewEvent(t, kind).prev = e.hash
         /\ NewEvent(t, kind).at = clock[HostOf[t]]
         /\ NewEvent(t, kind).kind = kind
         /\ NewEvent(t, kind).hash = Digest(kind, clock[HostOf[t]], NewEvent(t, kind).prev)
<1>1. ASSUME NEW e, latest[t] = {e}
      PROVE  (CHOOSE f \in latest[t] : TRUE) = e
  BY <1>1
<1>2. QED
  BY <1>1 DEF NewEvent

(* An insert extends the chain its transaction sees. *)
LEMMA InsertLinks ==
  ASSUME TypeOK, VisibleLinked, ReadIsLatest,
         NEW t \in Txns, pc[t] = "read", NEW kind
  PROVE  /\ Linked(Visible(t) \cup {NewEvent(t, kind)})
         /\ Typed({NewEvent(t, kind)})
<1> DEFINE n == NewEvent(t, kind)
<1>1. Typed(Visible(t)) /\ Linked(Visible(t))
  BY DEF TypeOK, VisibleLinked, Visible, Typed
<1>2. n.at \in Nat
  BY NewEventCases, AuditAssumption DEF TypeOK
<1>3. CASE latest[t] = {} /\ Visible(t) = {}
  <2>1. n.seq = 1 /\ n.prev = NoHash
    BY <1>3, NewEventCases
  <2>2. Linked({n})
    BY <2>1, Starts
  <2> HIDE DEF n
  <2>3. Visible(t) \cup {n} = {n}
    BY <1>3
  <2>4. QED
    BY <2>1, <2>2, <2>3, <1>2 DEF Typed, n
<1>4. CASE \E e \in Visible(t) : latest[t] = {e} /\ \A f \in Visible(t) : f.seq <= e.seq
  <2>1. PICK e \in Visible(t) : latest[t] = {e} /\ \A f \in Visible(t) : f.seq <= e.seq
    BY <1>4
  <2>2. n.seq = e.seq + 1 /\ n.prev = e.hash
    BY <2>1, NewEventCases
  <2>3. n.seq \in Nat
    BY <1>1, <2>2 DEF Typed
  <2> HIDE DEF n
  <2>4. Linked(Visible(t) \cup {n})
    BY <1>1, <2>1, <2>2, Continues
  <2>5. QED
    BY <2>3, <2>4, <1>2 DEF Typed, n
<1>5. QED
  BY <1>3, <1>4 DEF ReadIsLatest, IsLatest

-----------------------------------------------------------------------------
(* The empty chains satisfy the invariant. *)
LEMMA InitIInv == Init => IInv
<1> SUFFICES ASSUME Init PROVE IInv
  OBVIOUS
<1>1. TypeOK
  BY AuditAssumption DEF Init, TypeOK, Typed
<1>2. \A t \in Txns : Visible(t) = {}
  BY DEF Init, Visible
<1>3. Linked({})
  BY DEF Linked
<1>4. QED
  BY <1>1, <1>2, <1>3
     DEF Init, IInv, OwnsRun, NoRowsUnlocked, VisibleLinked, ReadIsLatest, ChainLinked

(* Every step keeps the types. *)
LEMMA NextTypeOK == IInv /\ [Next]_vars => TypeOK'
<1> SUFFICES ASSUME IInv, [Next]_vars PROVE TypeOK'
  OBVIOUS
<1> USE DEF IInv, TypeOK
<1>1. ASSUME NEW h \in Hosts, Tick(h) PROVE TypeOK'
  BY <1>1 DEF Tick, txnVars
<1>2. ASSUME NEW t \in Txns, NEW r \in Runs, Begin(t, r) PROVE TypeOK'
  BY <1>2 DEF Begin
<1>3. ASSUME NEW t \in Txns, LockRun(t) PROVE TypeOK'
  BY <1>3 DEF LockRun
<1>4. ASSUME NEW t \in Txns, ReadLatest(t) PROVE TypeOK'
  BY <1>4 DEF ReadLatest
<1>5. ASSUME NEW t \in Txns, Release(t), UNCHANGED <<run, clock>>,
             chain' = [r \in Runs |-> chain'[r]], \A r \in Runs : Typed(chain'[r])
      PROVE  TypeOK'
  BY <1>5, AuditAssumption DEF Release, Typed
<1>6. ASSUME NEW t \in Txns, NEW kind \in Kinds, Insert(t, kind) PROVE TypeOK'
  <2>1. Typed({NewEvent(t, kind)})
    BY <1>6, InsertLinks DEF Insert
  <2>2. CASE Release(t)
    BY <1>5, <1>6, <2>2 DEF Insert
  <2>3. CASE ~Release(t)
    BY <1>6, <2>1, <2>3 DEF Insert, Typed
  <2>4. QED
    BY <2>2, <2>3
<1>7. ASSUME NEW t \in Txns, Commit(t) PROVE TypeOK'
  <2>1. chain' = [r \in Runs |-> chain'[r]] /\ \A r \in Runs : Typed(chain'[r])
    BY <1>7 DEF Commit, Typed
  <2>2. QED
    BY <1>5, <1>7, <2>1 DEF Commit
<1>8. ASSUME NEW t \in Txns, Rollback(t) PROVE TypeOK'
  BY <1>5, <1>8 DEF Rollback
<1>9. CASE UNCHANGED vars
  BY <1>9 DEF vars, txnVars
<1>10. QED
  BY <1>1, <1>2, <1>3, <1>4, <1>6, <1>7, <1>8, <1>9 DEF Next

(* The lock discipline: a transaction past the lock owns its run, one that is *)
(* not has inserted nothing.                                                  *)
LEMMA NextOwnsRun == IInv /\ [Next]_vars => OwnsRun' /\ NoRowsUnlocked'
<1> SUFFICES ASSUME IInv, [Next]_vars PROVE OwnsRun' /\ NoRowsUnlocked'
  OBVIOUS
<1> USE DEF IInv, TypeOK, OwnsRun, NoRowsUnlocked
<1>1. ASSUME NEW h \in Hosts, Tick(h) PROVE OwnsRun' /\ NoRowsUnlocked'
  BY <1>1 DEF Tick, txnVars
<1>2. ASSUME NEW t \in Txns, NEW r \in Runs, Begin(t, r) PROVE OwnsRun' /\ NoRowsUnlocked'
  BY <1>2 DEF Begin
<1>3. ASSUME NEW t \in Txns, LockRun(t) PROVE OwnsRun' /\ NoRowsUnlocked'
  BY <1>3, AuditAssumption DEF LockRun
<1>4. ASSUME NEW t \in Txns, ReadLatest(t) PROVE OwnsRun' /\ NoRowsUnlocked'
  BY <1>4 DEF ReadLatest
<1>5. ASSUME NEW t \in Txns, Release(t), UNCHANGED run
      PROVE  OwnsRun' /\ NoRowsUnlocked'
  BY <1>5 DEF Release
<1>6. ASSUME NEW t \in Txns, NEW kind \in Kinds, Insert(t, kind)
      PROVE  OwnsRun' /\ NoRowsUnlocked'
  <2>1. CASE Release(t)
    BY <1>5, <1>6, <2>1 DEF Insert
  <2>2. CASE ~Release(t)
    BY <1>6, <2>2 DEF Insert
  <2>3. QED
    BY <2>1, <2>2
<1>7. ASSUME NEW t \in Txns, Commit(t) \/ Rollback(t) PROVE OwnsRun' /\ NoRowsUnlocked'
  BY <1>5, <1>7 DEF Commit, Rollback
<1>8. CASE UNCHANGED vars
  BY <1>8 DEF vars, txnVars
<1>9. QED
  BY <1>1, <1>2, <1>3, <1>4, <1>6, <1>7, <1>8 DEF Next
(* The chains: only the owner of a run adds to what anyone can see of it. *)
LEMMA NextLinked == IInv /\ [Next]_vars => ChainLinked' /\ VisibleLinked'
<1> SUFFICES ASSUME IInv, [Next]_vars PROVE ChainLinked' /\ VisibleLinked'
  OBVIOUS
<1> USE DEF IInv
<1>1. ASSUME UNCHANGED <<chain, run, rows>> PROVE ChainLinked' /\ VisibleLinked'
  BY <1>1 DEF ChainLinked, VisibleLinked, Visible
<1>2. ASSUME NEW t \in Txns, NEW r \in Runs, Begin(t, r)
      PROVE  ChainLinked' /\ VisibleLinked'
  <2>1. ChainLinked'
    BY <1>2 DEF Begin, ChainLinked
  <2>2. rows[t] = {} /\ Visible(t)' = chain[r]
    BY <1>2 DEF Begin, NoRowsUnlocked, Visible, TypeOK
  <2>3. \A u \in Txns \ {t} : Visible(u)' = Visible(u)
    BY <1>2 DEF Begin, Visible, TypeOK
  <2>4. QED
    BY <2>1, <2>2, <2>3 DEF ChainLinked, VisibleLinked
<1>3. ASSUME NEW t \in Txns, Release(t), UNCHANGED <<chain, run>>
      PROVE  ChainLinked' /\ VisibleLinked'
  <2>1. Visible(t)' = chain[run[t]] /\ run[t] \in Runs
    BY <1>3 DEF Release, Visible, TypeOK
  <2>2. \A u \in Txns \ {t} : Visible(u)' = Visible(u)
    BY <1>3 DEF Release, Visible, TypeOK
  <2>3. QED
    BY <1>3, <2>1, <2>2 DEF ChainLinked, VisibleLinked
<1>4. ASSUME NEW t \in Txns, NEW kind \in Kinds, Insert(t, kind)
      PROVE  ChainLinked' /\ VisibleLinked'
  <2>1. CASE Release(t)
    BY <1>3, <1>4, <2>1 DEF Insert
  <2>2. CASE ~Release(t)
    <3>1. Visible(t)' = Visible(t) \cup {NewEvent(t, kind)}
      BY <1>4, <2>2 DEF Insert, Visible, TypeOK
    <3>2. \A u \in Txns \ {t} : Visible(u)' = Visible(u)
      BY <1>4, <2>2 DEF Insert, Visible, TypeOK
    <3>3. Linked(Visible(t) \cup {NewEvent(t, kind)})
      BY <1>4, InsertLinks DEF Insert
    <3>4. ChainLinked'
      BY <1>4 DEF Insert, ChainLinked
    <3>5. QED
      BY <3>1, <3>2, <3>3, <3>4 DEF VisibleLinked
  <2>3. QED
    BY <2>1, <2>2
<1>5. ASSUME NEW t \in Txns, Commit(t) PROVE ChainLinked' /\ VisibleLinked'
  <2>1. run[t] \in Runs /\ chain'[run[t]] = Visible(t)
        /\ \A r \in Runs \ {run[t]} : chain'[r] = chain[r]
    BY <1>5 DEF Commit, Visible, TypeOK
  <2>2. ChainLinked'
    BY <2>1 DEF ChainLinked, VisibleLinked
  <2>3. ASSUME NEW u \in Txns PROVE Linked(Visible(u)')
    <3>1. CASE run[u] # run[t] /\ u # t
      <4>1. run'[u] = run[u] /\ run[u] \in Runs /\ rows'[u] = rows[u]
        BY <1>5, <3>1 DEF Commit, Release, TypeOK
      <4>2. Visible(u)' = Visible(u)
        BY <2>1, <3>1, <4>1 DEF Visible
      <4>3. QED
        BY <4>2 DEF VisibleLinked
    <3>2. CASE run[u] = run[t] \/ u = t
      <4>1. rows'[u] = {} /\ run'[u] = run[t]
        BY <1>5, <3>2 DEF Commit, Release, OwnsRun, NoRowsUnlocked, TypeOK
      <4>2. Visible(u)' = chain'[run[t]]
        BY <4>1 DEF Visible
      <4>3. QED
        BY <2>1, <2>2, <4>2 DEF ChainLinked
    <3>3. QED
      BY <3>1, <3>2
  <2>4. QED
    BY <2>2, <2>3 DEF VisibleLinked
<1>6. QED
  <2>1. ASSUME NEW h \in Hosts, Tick(h) PROVE UNCHANGED <<chain, run, rows>>
    BY <2>1 DEF Tick, txnVars
  <2>2. ASSUME NEW t \in Txns, LockRun(t) \/ ReadLatest(t)
        PROVE  UNCHANGED <<chain, run, rows>>
    BY <2>2 DEF LockRun, ReadLatest
  <2>3. ASSUME NEW t \in Txns, Rollback(t) PROVE Release(t) /\ UNCHANGED <<chain, run>>
    BY <2>3 DEF Rollback
  <2>4. CASE UNCHANGED vars
    BY <2>4, <1>1 DEF vars, txnVars
  <2>5. QED
    BY <1>1, <1>2, <1>3, <1>4, <1>5, <2>1, <2>2, <2>3, <2>4 DEF Next

(* What a transaction has read stays the latest event until it inserts: every *)
(* other writer of the run is waiting for the lock.                           *)
LEMMA NextReadIsLatest == IInv /\ [Next]_vars => ReadIsLatest'
<1> SUFFICES ASSUME IInv, [Next]_vars PROVE ReadIsLatest'
  OBVIOUS
<1> USE DEF IInv
<1>1. ASSUME NEW u \in Txns, pc[u] = "read", IsLatest(u),
             latest'[u] = latest[u], Visible(u)' = Visible(u)
      PROVE  IsLatest(u)'
  BY <1>1 DEF IsLatest
<1>2. ASSUME NEW t \in Txns, ReadLatest(t) PROVE ReadIsLatest'
  <2>1. \A u \in Txns : Visible(u)' = Visible(u)
    BY <1>2 DEF ReadLatest, Visible
  <2>2. IsLatest(t)'
    BY <1>2, <2>1 DEF ReadLatest, IsLatest, TypeOK
  <2>3. \A u \in Txns \ {t} : pc'[u] = pc[u] /\ latest'[u] = latest[u]
    BY <1>2 DEF ReadLatest, TypeOK
  <2>4. QED
    BY <1>1, <2>1, <2>2, <2>3 DEF ReadIsLatest
<1>3. ASSUME NEW t \in Txns, UNCHANGED run, pc'[t] # "read",
             \A r \in Runs \ {run[t]} : chain'[r] = chain[r],
             pc[t] \in {"locked", "read"} \/ UNCHANGED chain,
             \A u \in Txns \ {t} : /\ pc'[u] = pc[u]
                                    /\ rows'[u] = rows[u]
                                    /\ latest'[u] = latest[u]
      PROVE  ReadIsLatest'
  <2> SUFFICES ASSUME NEW u \in Txns, pc'[u] = "read" PROVE IsLatest(u)'
    BY DEF ReadIsLatest
  <2>1. u # t /\ pc[u] = "read" /\ latest'[u] = latest[u] /\ rows'[u] = rows[u]
    BY <1>3
  <2>2. chain'[run[u]] = chain[run[u]]
    BY <1>3, <2>1 DEF OwnsRun, TypeOK
  <2>3. Visible(u)' = Visible(u)
    BY <1>3, <2>1, <2>2 DEF Visible
  <2>4. QED
    BY <1>1, <2>1, <2>3 DEF ReadIsLatest
<1>4. ASSUME NEW t \in Txns, NEW r \in Runs, Begin(t, r) PROVE ReadIsLatest'
  <2> SUFFICES ASSUME NEW u \in Txns, pc'[u] = "read" PROVE IsLatest(u)'
    BY DEF ReadIsLatest
  <2>1. u # t /\ pc[u] = "read" /\ latest'[u] = latest[u] /\ Visible(u)' = Visible(u)
    BY <1>4 DEF Begin, Visible, TypeOK
  <2>2. QED
    BY <1>1, <2>1 DEF ReadIsLatest
<1>5. ASSUME NEW t \in Txns, LockRun(t) \/ Rollback(t) \/ Commit(t) PROVE ReadIsLatest'
  <2>1. CASE LockRun(t)
    BY <1>3, <2>1 DEF LockRun, TypeOK
  <2>2. CASE Rollback(t)
    BY <1>3, <2>2 DEF Rollback, Release, TypeOK
  <2>3. CASE Commit(t)
    BY <1>3, <2>3 DEF Commit, Release, TypeOK
  <2>4. QED
    BY <1>5, <2>1, <2>2, <2>3
<1>6. ASSUME NEW t \in Txns, NEW kind \in Kinds, Insert(t, kind) PROVE ReadIsLatest'
  <2>1. CASE Release(t)
    BY <1>3, <1>6, <2>1 DEF Insert, Release, TypeOK
  <2>2. CASE ~Release(t)
    BY <1>3, <1>6, <2>2 DEF Insert, TypeOK
  <2>3. QED
    BY <2>1, <2>2
<1>7. ASSUME UNCHANGED <<chain, run, rows, latest, pc>> PROVE ReadIsLatest'
  BY <1>7 DEF ReadIsLatest, IsLatest, Visible
<1>8. QED
  <2>1. ASSUME NEW h \in Hosts, Tick(h) PROVE ReadIsLatest'
    BY <2>1, <1>7 DEF Tick, txnVars
  <2>2. CASE UNCHANGED vars
    BY <2>2, <1>7 DEF vars, txnVars
  <2>3. QED
    BY <1>2, <1>4, <1>5, <1>6, <2>1, <2>2 DEF Next

(* IInv is an invariant of the specification. *)
LEMMA Inductive == Spec => []IInv
<1>1. IInv /\ [Next]_vars => IInv'
  BY NextTypeOK, NextOwnsRun, NextLinked, NextReadIsLatest DEF IInv
<1>2. QED
  BY InitIInv, <1>1, PTL DEF Spec

(* Type correctness of append_audit_event's transactions. *)
THEOREM TypeCorrect == Spec => []TypeOK
<1>1. IInv => TypeOK
  BY DEF IInv
<1>2. QED
  BY Inductive, <1>1, PTL

(* The events append_audit_event commits for a run form one chain without    *)
(* forks or gaps, for any number of concurrent transactions.                 *)
THEOREM OneChain == Spec => []ChainLinked
<1>1. IInv => ChainLinked
  BY DEF IInv
<1>2. QED
  BY Inductive, <1>1, PTL

-----------------------------------------------------------------------------
(* The verifier orders events by occurred_at first.  With one clock for every *)
(* writer that order is the order of sequence numbers.                        *)

OneClock == \A t, u \in Txns : HostOf[t] = HostOf[u]

(* Events of one run: their digests are right, time follows the numbers. *)
Ordered(events) ==
  /\ \A e \in events : e.hash = Digest(e.kind, e.at, e.prev)
  /\ \A e, f \in events : e.seq < f.seq => e.at <= f.at

(* No event of a set is later than a time. *)
NotAfter(events, time) == \A e \in events : e.at <= time

(* What each transaction sees is in the order of its clock. *)
VisibleOrdered ==
  \A t \in Txns : Ordered(Visible(t)) /\ NotAfter(Visible(t), clock[HostOf[t]])

(* What is committed is in the order of the clock. *)
ChainOrdered ==
  \A r \in Runs : Ordered(chain[r]) /\ \A t \in Txns : NotAfter(chain[r], clock[HostOf[t]])

(* verify_chain accepts a linked chain whose time follows its numbers. *)
LEMMA OrderedAccepted ==
  ASSUME NEW S, Typed(S), Linked(S), Ordered(S)
  PROVE  verify_chain(S)
<1> SUFFICES ASSUME NEW e \in S PROVE EventOK(S, e)
  BY DEF verify_chain, Listed
<1>1. \A x \in S : x.seq \in Nat /\ x.seq # 0 /\ x.at \in Nat
  BY DEF Typed, Linked
<1>2. ASSUME e.seq # 1
      PROVE  \E f \in S : e.seq = f.seq + 1 /\ e.prev = f.hash /\ Before(f, e)
  <2>1. PICK f \in S : e.seq = f.seq + 1 /\ e.prev = f.hash
    BY <1>2 DEF Linked
  <2>2. f.at <= e.at
    BY <2>1, <1>1 DEF Ordered
  <2>3. Before(f, e)
    BY <2>1, <2>2, <1>1 DEF Before
  <2>4. QED
    BY <2>1, <2>3
<1>3. \A x, y \in S : Before(x, y) => x.seq < y.seq
  <2> SUFFICES ASSUME NEW x \in S, NEW y \in S, Before(x, y) PROVE x.seq < y.seq
    OBVIOUS
  <2>1. ~(y.seq < x.seq)
    BY <1>1 DEF Ordered, Before
  <2>2. x.seq # y.seq
    BY <1>1 DEF Linked, Before
  <2>3. QED
    BY <2>1, <2>2, <1>1
<1>4. \A x, y \in S : x.seq < y.seq => Before(x, y)
  BY <1>1 DEF Ordered, Before
<1>5. (\A f \in S : ~Before(f, e)) => e.prev = NoHash
  BY <1>2 DEF Linked
<1>6. ASSUME NEW f \in S, Precedes(S, f, e) PROVE e.prev = f.hash
  <2>1. f.seq < e.seq
    BY <1>3, <1>6 DEF Precedes
  <2>2. PICK g \in S : e.seq = g.seq + 1 /\ e.prev = g.hash /\ Before(g, e)
    BY <1>1, <1>2, <2>1
  <2>3. ~(f.seq < g.seq)
    BY <1>4, <1>6, <2>2 DEF Precedes
  <2>4. f = g
    BY <1>1, <2>1, <2>2, <2>3 DEF Linked
  <2>5. QED
    BY <2>2, <2>4
<1>7. e.hash = Digest(e.kind, e.at, e.prev)
  BY DEF Ordered
<1>8. QED
  BY <1>5, <1>6, <1>7 DEF EventOK

(* The empty chains are in order. *)
LEMMA InitOrdered == Init => VisibleOrdered /\ ChainOrdered
  BY DEF Init, VisibleOrdered, ChainOrdered, Visible, Ordered, NotAfter

(* An event stamped by the common clock comes last in time as in number. *)
LEMMA InsertOrdered ==
  ASSUME IInv, VisibleOrdered, NEW t \in Txns, pc[t] = "read", NEW kind
  PROVE  /\ Ordered(Visible(t) \cup {NewEvent(t, kind)})
         /\ NotAfter(Visible(t) \cup {NewEvent(t, kind)}, clock[HostOf[t]])
<1> DEFINE n == NewEvent(t, kind)
           S == Visible(t)
           now == clock[HostOf[t]]
<1>1. /\ Typed(S) /\ Linked(S) /\ Ordered(S) /\ NotAfter(S, now)
      /\ Typed({n}) /\ now \in Nat
  <2>1. Typed(S) /\ now \in Nat
    BY AuditAssumption DEF IInv, TypeOK, Visible, Typed
  <2>2. Linked(S) /\ Ordered(S) /\ NotAfter(S, now)
    BY DEF IInv, VisibleLinked, VisibleOrdered
  <2>3. Typed({n})
    BY InsertLinks DEF IInv
  <2>4. QED
    BY <2>1, <2>2, <2>3
<1>2. n.at = now /\ n.hash = Digest(n.kind, n.at, n.prev)
  BY NewEventCases
<1>3. \A f \in S : f.seq < n.seq
  <2>1. CASE latest[t] = {} /\ Visible(t) = {}
    BY <2>1
  <2>2. CASE \E e \in S : latest[t] = {e} /\ \A f \in S : f.seq <= e.seq
    <3>1. PICK e \in S : latest[t] = {e} /\ \A f \in S : f.seq <= e.seq
      BY <2>2
    <3>2. n.seq = e.seq + 1
      BY <3>1, NewEventCases
    <3> HIDE DEF n, S
    <3>3. QED
      BY <1>1, <3>1, <3>2 DEF Typed
  <2>3. QED
    BY <2>1, <2>2 DEF IInv, ReadIsLatest, IsLatest
<1> HIDE DEF n, S, now
<1>4. Ordered(S \cup {n}) /\ NotAfter(S \cup {n}, now)
  BY <1>1, <1>2, <1>3 DEF Ordered, NotAfter, Typed
<1>5. QED
  BY <1>4 DEF n, S, now

(* With one clock, every step keeps the chains in order. *)
LEMMA NextOrdered ==
  ASSUME OneClock, IInv, VisibleOrdered, ChainOrdered, [Next]_vars
  PROVE  VisibleOrdered' /\ ChainOrdered'
<1> USE DEF IInv
<1>1. ASSUME NEW h \in Hosts, Tick(h) PROVE VisibleOrdered' /\ ChainOrdered'
  <2>1. \A t \in Txns : clock[HostOf[t]] \in Nat /\ clock'[HostOf[t]] \in Nat
                        /\ clock[HostOf[t]] <= clock'[HostOf[t]]
    BY <1>1, AuditAssumption DEF Tick, TypeOK
  <2>2. UNCHANGED <<chain, run, rows>>
    BY <1>1 DEF Tick, txnVars
  <2>3. \A t \in Txns : Visible(t)' = Visible(t) /\ Typed(Visible(t))
    BY <2>2 DEF Visible, TypeOK, Typed
  <2>4. ASSUME NEW S, Typed(S), NEW t \in Txns, NotAfter(S, clock[HostOf[t]])
        PROVE  NotAfter(S, clock'[HostOf[t]])
    BY <2>1, <2>4 DEF NotAfter, Typed
  <2>5. VisibleOrdered'
    BY <2>3, <2>4 DEF VisibleOrdered
  <2>6. ChainOrdered'
    BY <2>2, <2>4 DEF ChainOrdered, TypeOK
  <2>7. QED
    BY <2>5, <2>6
<1>2. ASSUME UNCHANGED <<chain, run, rows, clock>> PROVE VisibleOrdered' /\ ChainOrdered'
  BY <1>2 DEF VisibleOrdered, ChainOrdered, Visible
<1>3. ASSUME NEW t \in Txns, NEW r \in Runs, Begin(t, r)
      PROVE  VisibleOrdered' /\ ChainOrdered'
  <2>1. Visible(t)' = chain[r]
    BY <1>3 DEF Begin, NoRowsUnlocked, Visible, TypeOK
  <2>2. \A u \in Txns \ {t} : Visible(u)' = Visible(u)
    BY <1>3 DEF Begin, Visible, TypeOK
  <2>3. UNCHANGED <<chain, clock>>
    BY <1>3 DEF Begin
  <2>4. QED
    BY <2>1, <2>2, <2>3 DEF VisibleOrdered, ChainOrdered
<1>4. ASSUME NEW t \in Txns, Release(t), UNCHANGED <<chain, run, clock>>
      PROVE  VisibleOrdered' /\ ChainOrdered'
  <2>1. Visible(t)' = chain[run[t]] /\ run[t] \in Runs
    BY <1>4 DEF Release, Visible, TypeOK
  <2>2. \A u \in Txns \ {t} : Visible(u)' = Visible(u)
    BY <1>4 DEF Release, Visible, TypeOK
  <2>3. QED
    BY <1>4, <2>1, <2>2 DEF VisibleOrdered, ChainOrdered
<1>5. ASSUME NEW t \in Txns, NEW kind \in Kinds, Insert(t, kind)
      PROVE  VisibleOrdered' /\ ChainOrdered'
  <2>1. CASE Release(t)
    BY <1>4, <1>5, <2>1 DEF Insert
  <2>2. CASE ~Release(t)
    <3>1. Visible(t)' = Visible(t) \cup {NewEvent(t, kind)}
      BY <1>5, <2>2 DEF Insert, Visible, TypeOK
    <3>2. \A u \in Txns \ {t} : Visible(u)' = Visible(u)
      BY <1>5, <2>2 DEF Insert, Visible, TypeOK
    <3>3. /\ Ordered(Visible(t) \cup {NewEvent(t, kind)})
          /\ NotAfter(Visible(t) \cup {NewEvent(t, kind)}, clock[HostOf[t]])
      BY <1>5, InsertOrdered DEF Insert
    <3>4. UNCHANGED <<chain, clock>>
      BY <1>5 DEF Insert
    <3>5. QED
      BY <3>1, <3>2, <3>3, <3>4 DEF VisibleOrdered, ChainOrdered
  <2>3. QED
    BY <2>1, <2>2
<1>6. ASSUME NEW t \in Txns, Commit(t) PROVE VisibleOrdered' /\ ChainOrdered'
  <2>1. run[t] \in Runs /\ chain'[run[t]] = Visible(t)
        /\ \A r \in Runs \ {run[t]} : chain'[r] = chain[r]
    BY <1>6 DEF Commit, Visible, TypeOK
  <2>2. UNCHANGED clock
    BY <1>6 DEF Commit
  <2>3. \A u \in Txns : clock[HostOf[u]] = clock[HostOf[t]]
    BY DEF OneClock
  <2>4. ChainOrdered'
    BY <2>1, <2>2, <2>3 DEF ChainOrdered, VisibleOrdered
  <2>5. ASSUME NEW u \in Txns
        PROVE  Ordered(Visible(u)') /\ NotAfter(Visible(u)', clock'[HostOf[u]])
    <3>1. CASE run[u] # run[t] /\ u # t
      <4>1. run'[u] = run[u] /\ run[u] \in Runs /\ rows'[u] = rows[u]
        BY <1>6, <3>1 DEF Commit, Release, TypeOK
      <4>2. Visible(u)' = Visible(u)
        BY <2>1, <3>1, <4>1 DEF Visible
      <4>3. QED
        BY <2>2, <4>2 DEF VisibleOrdered
    <3>2. CASE run[u] = run[t] \/ u = t
      <4>1. rows'[u] = {} /\ run'[u] = run[t]
        BY <1>6, <3>2 DEF Commit, Release, OwnsRun, NoRowsUnlocked, TypeOK
      <4>2. Visible(u)' = chain'[run[t]]
        BY <4>1 DEF Visible
      <4>3. QED
        BY <2>1, <2>4, <4>2 DEF ChainOrdered
    <3>3. QED
      BY <3>1, <3>2
  <2>6. QED
    BY <2>4, <2>5 DEF VisibleOrdered
<1>7. QED
  <2>1. ASSUME NEW t \in Txns, LockRun(t) \/ ReadLatest(t)
        PROVE  UNCHANGED <<chain, run, rows, clock>>
    BY <2>1 DEF LockRun, ReadLatest
  <2>2. ASSUME NEW t \in Txns, Rollback(t)
        PROVE  Release(t) /\ UNCHANGED <<chain, run, clock>>
    BY <2>2 DEF Rollback
  <2>3. CASE UNCHANGED vars
    BY <2>3, <1>2 DEF vars, txnVars
  <2>4. QED
    BY <1>1, <1>2, <1>3, <1>4, <1>5, <1>6, <2>1, <2>2, <2>3 DEF Next

(* While every writer stamps its events with one clock, verify_chain accepts  *)
(* every chain append_audit_event has written, whatever the page limit.       *)
THEOREM OneClockAccepted == ASSUME OneClock PROVE Spec => []VerifierAccepts
<1>1. Init => IInv /\ VisibleOrdered /\ ChainOrdered
  BY InitIInv, InitOrdered
<1>2. IInv /\ VisibleOrdered /\ ChainOrdered /\ [Next]_vars
        => IInv' /\ VisibleOrdered' /\ ChainOrdered'
  <2>1. IInv /\ [Next]_vars => IInv'
    BY NextTypeOK, NextOwnsRun, NextLinked, NextReadIsLatest DEF IInv
  <2>2. QED
    BY <2>1, OneClock, NextOrdered
<1>3. IInv /\ ChainOrdered => VerifierAccepts
  BY OrderedAccepted DEF IInv, TypeOK, ChainLinked, ChainOrdered, VerifierAccepts
<1>4. QED
  BY <1>1, <1>2, <1>3, PTL DEF Spec

-----------------------------------------------------------------------------
(* Tampering *)

(* The rows of audit_events are complete records, finitely many of them. *)
Recorded(events) ==
  /\ IsFiniteSet(events)
  /\ \A e \in events :
       /\ e = [seq |-> e.seq, kind |-> e.kind, at |-> e.at, prev |-> e.prev, hash |-> e.hash]
       /\ e.kind \in Kinds

(* All rows are such records, committed or not. *)
AllRecorded == (\A r \in Runs : Recorded(chain[r])) /\ (\A t \in Txns : Recorded(rows[t]))

(* At first there is no event. *)
LEMMA InitRecorded == Init => AllRecorded
  BY FS_EmptySet DEF Init, AllRecorded, Recorded

(* An insert adds a complete record, a commit moves the records. *)
LEMMA NextRecorded ==
  ASSUME TypeOK, AllRecorded, [Next]_vars
  PROVE  AllRecorded'
<1>1. ASSUME NEW S, NEW T, Recorded(S), Recorded(T) PROVE Recorded(S \cup T)
  BY <1>1, FS_Union DEF Recorded
<1>2. ASSUME NEW t \in Txns, NEW kind \in Kinds PROVE Recorded({NewEvent(t, kind)})
  <2> DEFINE n == NewEvent(t, kind)
  <2>1. /\ n = [seq |-> n.seq, kind |-> n.kind, at |-> n.at, prev |-> n.prev, hash |-> n.hash]
        /\ n.kind \in Kinds
    BY DEF NewEvent
  <2> HIDE DEF n
  <2>2. Recorded({n})
    BY <2>1, FS_Singleton DEF Recorded
  <2>3. QED
    BY <2>2 DEF n
<1>3. Recorded({})
  BY FS_EmptySet DEF Recorded
<1>4. ASSUME NEW t \in Txns, Release(t)
      PROVE  \A u \in Txns : Recorded(rows'[u])
  BY <1>3, <1>4 DEF Release, TypeOK, AllRecorded
<1>5. ASSUME NEW t \in Txns, NEW kind \in Kinds, Insert(t, kind) PROVE AllRecorded'
  <2>1. UNCHANGED chain
    BY <1>5 DEF Insert
  <2>2. CASE Release(t)
    BY <1>4, <2>1, <2>2 DEF AllRecorded
  <2>3. CASE ~Release(t)
    <3>1. rows' = [rows EXCEPT ![t] = rows[t] \cup {NewEvent(t, kind)}]
      BY <1>5, <2>3 DEF Insert
    <3>2. Recorded(rows[t] \cup {NewEvent(t, kind)})
      BY <1>1, <1>2 DEF AllRecorded
    <3>3. \A u \in Txns : Recorded(rows'[u])
      BY <3>1, <3>2 DEF AllRecorded, TypeOK
    <3>4. QED
      BY <2>1, <3>3 DEF AllRecorded
  <2>4. QED
    BY <2>2, <2>3
<1>6. ASSUME NEW t \in Txns, Commit(t) PROVE AllRecorded'
  <2>1. Recorded(chain[run[t]] \cup rows[t])
    BY <1>1 DEF TypeOK, AllRecorded
  <2>2. \A r \in Runs : Recorded(chain'[r])
    BY <1>6, <2>1 DEF Commit, TypeOK, AllRecorded
  <2>3. QED
    BY <1>4, <1>6, <2>2 DEF Commit, AllRecorded
<1>7. ASSUME NEW t \in Txns, Rollback(t) PROVE AllRecorded'
  BY <1>4, <1>7 DEF Rollback, AllRecorded
<1>8. CASE UNCHANGED <<chain, rows>>
  BY <1>8 DEF AllRecorded
<1>9. QED
  BY <1>5, <1>6, <1>7, <1>8 DEF Next, Tick, Begin, LockRun, ReadLatest, txnVars, vars

(* A set of events that is not empty has one with the least number. *)
LEMMA LeastEvent ==
  ASSUME NEW S, Typed(S), S # {}
  PROVE  \E e \in S : \A f \in S : e.seq <= f.seq
<1> DEFINE N == {e.seq : e \in S}
<1>1. N \subseteq Nat /\ N # {}
  BY DEF Typed
<1>2. PICK n \in N : \A m \in N : ~(<<m, n>> \in OpToRel(<, Nat))
  BY <1>1, WFMin, NatLessThanWellFounded
<1>3. ASSUME NEW m \in N PROVE n <= m
  <2>1. m \in Nat /\ n \in Nat
    BY <1>1
  <2> HIDE DEF N
  <2>2. m < n => <<m, n>> \in OpToRel(<, Nat)
    BY <2>1 DEF OpToRel
  <2>3. ~(m < n)
    BY <1>2, <2>2
  <2>4. QED
    BY <2>1, <2>3
<1>4. PICK e \in S : n = e.seq
  OBVIOUS
<1>5. QED
  BY <1>3, <1>4

(* A digest is not the link of a first event. *)
LEMMA DigestNotEmpty == \A kind, at, prev : Digest(kind, at, prev) # NoHash
  BY DEF Digest, NoHash

(* Equal digests were made from equal links. *)
LEMMA DigestKeepsLink ==
  \A j, k, at, time, prev, link : Digest(j, at, prev) = Digest(k, time, link) => prev = link
<1>1. \A x, y, at, time, prev, link : <<x, at, prev>> = <<y, time, link>> => prev = link
  OBVIOUS
<1>2. QED
  BY <1>1, Zenon DEF Digest

(* With an ideal digest no event of a chain carries its own hash as its link:  *)
(* the event before it would too, down to the first, whose link is empty.      *)
LEMMA NoSelfLink ==
  ASSUME NEW S, Typed(S), Linked(S), \A e \in S : e.hash = Digest(e.kind, e.at, e.prev)
  PROVE  \A e \in S : e.prev # e.hash
<1> DEFINE T == {e \in S : e.prev = e.hash}
<1> SUFFICES ASSUME T # {} PROVE FALSE
  OBVIOUS
<1>1. Typed(T)
  BY DEF Typed
<1>2. PICK e \in T : \A f \in T : e.seq <= f.seq
  BY <1>1, LeastEvent
<1>3. e.seq # 1
  <2>1. e.prev = Digest(e.kind, e.at, e.prev)
    OBVIOUS
  <2>2. e.prev # NoHash
    BY <2>1, DigestNotEmpty
  <2>3. QED
    BY <2>2 DEF Linked
<1>4. PICK f \in S : e.seq = f.seq + 1 /\ e.prev = f.hash
  BY <1>3 DEF Linked
<1>5. f.hash = e.hash
  BY <1>4
<1>6. f.prev = e.prev
  BY <1>5, DigestKeepsLink
<1>7. f \in T
  BY <1>4, <1>6
<1>8. f.seq \in Nat /\ e.seq <= f.seq
  BY <1>2, <1>7 DEF Typed
<1>9. QED
  BY <1>4, <1>8

(* The order of the verifier is the order of the numbers. *)
LEMMA BeforeIsNumberOrder ==
  ASSUME NEW S, Typed(S), Linked(S), Ordered(S), NEW x \in S, NEW y \in S
  PROVE  Before(x, y) <=> x.seq < y.seq
<1>1. x.seq \in Nat /\ x.at \in Nat /\ y.seq \in Nat /\ y.at \in Nat
  BY DEF Typed
<1>2. (x.seq < y.seq => x.at <= y.at) /\ (y.seq < x.seq => y.at <= x.at) /\ (x.seq = y.seq => x = y)
  BY DEF Ordered, Linked
<1>3. QED
  BY <1>1, <1>2 DEF Before

(* The event after a given one carries its hash. *)
LEMMA Successor ==
  ASSUME NEW S, Typed(S), Linked(S), NEW e \in S, NEW f \in S, e.seq < f.seq
  PROVE  \E g \in S : g.seq = e.seq + 1 /\ g.prev = e.hash
<1>1. \A x \in S : x.seq \in Nat /\ x.seq # 0
  BY DEF Typed, Linked
<1> DEFINE T == {x \in S : e.seq < x.seq}
<1>2. Typed(T) /\ f \in T
  BY DEF Typed
<1>3. PICK g \in T : \A x \in T : g.seq <= x.seq
  BY <1>2, LeastEvent
<1>4. g.seq # 1
  BY <1>1
<1>5. PICK h \in S : g.seq = h.seq + 1 /\ g.prev = h.hash
  BY <1>4 DEF Linked
<1>6. ~(e.seq < h.seq)
  BY <1>1, <1>3, <1>5
<1>7. h.seq = e.seq
  BY <1>1, <1>5, <1>6
<1>8. h = e
  BY <1>7 DEF Linked
<1>9. QED
  BY <1>5, <1>8

(* Joined texts are texts. *)
LEMMA Joins == \A s, t \in Seq(Bytes) : s \o t \in Seq(Bytes)
  BY ConcatProperties

(* Texts that differ stay different when the same text is joined to both. *)
LEMMA Cancel ==
  \A s, t, u \in Seq(Bytes) : s # t => s \o u # t \o u /\ u \o s # u \o t
  BY ConcatSimplifications

(* An overwritten column changes the bytes that are hashed: what stands before *)
(* and after it is the same.                                                   *)
LEMMA EditChangesDigest ==
  ASSUME NEW e, Recorded({e}), NEW g \in Edits(e)
  PROVE  /\ g.seq = e.seq /\ g.prev = e.prev /\ g.hash = e.hash
         /\ g.at \in Nat \cup {e.at}
         /\ Digest(g.kind, g.at, g.prev) # Digest(e.kind, e.at, e.prev)
<1>1. /\ e = [seq |-> e.seq, kind |-> e.kind, at |-> e.at, prev |-> e.prev, hash |-> e.hash]
      /\ e.kind \in Kinds
  BY DEF Recorded
<1>2. \A k \in Kinds : /\ k.actor \in Seq(Bytes) /\ k.event_type \in Seq(Bytes)
                       /\ k.payload \in Seq(Bytes)
                       /\ k = [actor |-> k.actor, event_type |-> k.event_type,
                               payload |-> k.payload, step_id |-> k.step_id]
  BY AuditAssumption
<1>3. ASSUME NEW time \in (0 .. MaxTime) \ {e.at}, g = [e EXCEPT !.at = time]
      PROVE  /\ g.seq = e.seq /\ g.prev = e.prev /\ g.hash = e.hash
             /\ g.kind = e.kind /\ g.at # e.at
  BY <1>1, <1>3
<1>4. ASSUME NEW c \in {"actor", "event_type", "payload"}, NEW k \in Kinds, k[c] # e.kind[c],
             g = [e EXCEPT !.kind = [e.kind EXCEPT ![c] = k[c]]]
      PROVE  /\ g.seq = e.seq /\ g.prev = e.prev /\ g.hash = e.hash /\ g.at = e.at
             /\ Digest(g.kind, g.at, g.prev) # Digest(e.kind, e.at, e.prev)
  <2>1. /\ g.seq = e.seq /\ g.prev = e.prev /\ g.hash = e.hash /\ g.at = e.at
        /\ g.kind = [e.kind EXCEPT ![c] = k[c]]
    BY <1>1, <1>4
  <2> DEFINE j == e.kind
             a == j.actor
             t == j.event_type
             p == j.payload
  <2>2. a \in Seq(Bytes) /\ t \in Seq(Bytes) /\ p \in Seq(Bytes)
    BY <1>1, <1>2
  <2>3. j = [actor |-> a, event_type |-> t, payload |-> p, step_id |-> j.step_id]
    BY <1>1, <1>2
  <2>4. CASE c = "actor"
    <3>1. g.kind.actor = k.actor /\ g.kind.event_type = t /\ g.kind.payload = p /\ k.actor # a
      BY <1>4, <2>1, <2>3, <2>4
    <3>2. k.actor \in Seq(Bytes)
      BY <1>2
    <3> HIDE DEF j, a, t, p
    <3>3. k.actor \o t # a \o t /\ k.actor \o t \in Seq(Bytes) /\ a \o t \in Seq(Bytes)
      <4>1. k.actor \o t # a \o t
        BY <2>2, <3>1, <3>2, Cancel
      <4>2. k.actor \o t \in Seq(Bytes) /\ a \o t \in Seq(Bytes)
        BY <2>2, <3>2, Joins
      <4>3. QED
        BY <4>1, <4>2
    <3>4. (k.actor \o t) \o p # (a \o t) \o p
      BY <2>2, <3>3, ConcatSimplifications
    <3>5. QED
      BY <2>1, <3>1, <3>4 DEF Digest, j, a, t, p
  <2>5. CASE c = "event_type"
    <3>1. g.kind.actor = a /\ g.kind.event_type = k.event_type /\ g.kind.payload = p /\ k.event_type # t
      BY <1>4, <2>1, <2>3, <2>5
    <3>2. k.event_type \in Seq(Bytes)
      BY <1>2
    <3> HIDE DEF j, a, t, p
    <3>3. a \o k.event_type # a \o t /\ a \o k.event_type \in Seq(Bytes) /\ a \o t \in Seq(Bytes)
      <4>1. a \o k.event_type # a \o t
        BY <2>2, <3>1, <3>2, Cancel
      <4>2. a \o k.event_type \in Seq(Bytes) /\ a \o t \in Seq(Bytes)
        BY <2>2, <3>2, Joins
      <4>3. QED
        BY <4>1, <4>2
    <3>4. (a \o k.event_type) \o p # (a \o t) \o p
      BY <2>2, <3>3, ConcatSimplifications
    <3>5. QED
      BY <2>1, <3>1, <3>4 DEF Digest, j, a, t, p
  <2>6. CASE c = "payload"
    <3>1. g.kind.actor = a /\ g.kind.event_type = t /\ g.kind.payload = k.payload /\ k.payload # p
      BY <1>4, <2>1, <2>3, <2>6
    <3>2. k.payload \in Seq(Bytes)
      BY <1>2
    <3> HIDE DEF j, a, t, p
    <3>3. a \o t \in Seq(Bytes)
      BY <2>2, ConcatProperties
    <3>4. (a \o t) \o k.payload # (a \o t) \o p
      BY <2>2, <3>1, <3>2, <3>3, ConcatSimplifications
    <3>5. QED
      BY <2>1, <3>1, <3>4 DEF Digest, j, a, t, p
  <2>7. QED
    BY <2>1, <2>4, <2>5, <2>6
<1>5. \/ \E time \in (0 .. MaxTime) \ {e.at} : g = [e EXCEPT !.at = time]
      \/ \E c \in {"actor", "event_type", "payload"}, k \in Kinds :
           k[c] # e.kind[c] /\ g = [e EXCEPT !.kind = [e.kind EXCEPT ![c] = k[c]]]
  <2> DEFINE A == UNION {Overwritten(e, c) : c \in {"actor", "event_type", "payload"}}
             B == {[e EXCEPT !.at = time] : time \in (0 .. MaxTime) \ {e.at}}
  <2>1. Edits(e) = A \cup B
    BY Zenon DEF Edits
  <2>2. ASSUME g \in B PROVE \E time \in (0 .. MaxTime) \ {e.at} : g = [e EXCEPT !.at = time]
    BY <2>2
  <2>3. ASSUME g \in A
        PROVE  \E c \in {"actor", "event_type", "payload"}, k \in Kinds :
                 k[c] # e.kind[c] /\ g = [e EXCEPT !.kind = [e.kind EXCEPT ![c] = k[c]]]
    <3>1. PICK c \in {"actor", "event_type", "payload"} : g \in Overwritten(e, c)
      BY <2>3
    <3>2. PICK k \in {j \in Kinds : j[c] # e.kind[c]} :
            g = [e EXCEPT !.kind = [e.kind EXCEPT ![c] = k[c]]]
      BY <3>1 DEF Overwritten
    <3>3. QED
      BY <3>2
  <2> HIDE DEF A, B
  <2>4. g \in A \/ g \in B
    BY <2>1
  <2>5. QED
    BY <2>2, <2>3, <2>4, Zenon
<1>6. CASE \E time \in (0 .. MaxTime) \ {e.at} : g = [e EXCEPT !.at = time]
  <2>1. PICK time \in (0 .. MaxTime) \ {e.at} : g = [e EXCEPT !.at = time]
    BY <1>6
  <2>2. g.at = time /\ time # e.at /\ time \in Nat
    BY <1>1, <2>1, AuditAssumption
  <2>3. Digest(g.kind, g.at, g.prev) # Digest(e.kind, e.at, e.prev)
    <3>1. \A x, y, at, prev, link : <<x, time, prev>> # <<y, e.at, link>>
      BY <2>2
    <3>2. QED
      BY <2>2, <3>1, Zenon DEF Digest
  <2>4. QED
    BY <1>3, <2>1, <2>2, <2>3
<1>7. QED
  BY <1>4, <1>5, <1>6

(* Where the event after e is listed with what stood before e before it, its   *)
(* link is neither empty nor the hash of the event now before it.              *)
LEMMA GapDetected ==
  ASSUME NEW S, Typed(S), Linked(S), Ordered(S), NEW e \in S,
         NEW g \in S, g.seq = e.seq + 1, g.prev = e.hash,
         NEW T, {x \in T : Before(x, g)} = {x \in S : Before(x, e)}
  PROVE  ~EventOK(T, g)
<1>1. \A x \in S : x.seq \in Nat /\ x.seq # 0
  BY DEF Typed, Linked
<1>2. \A x, y \in S : Before(x, y) <=> x.seq < y.seq
  BY BeforeIsNumberOrder
<1>3. \A x : x \in T /\ Before(x, g) <=> x \in S /\ x.seq < e.seq
  BY <1>2
<1> SUFFICES ASSUME EventOK(T, g) PROVE FALSE
  OBVIOUS
<1>4. CASE e.seq = 1
  <2>1. \A x \in T : ~Before(x, g)
    BY <1>1, <1>3, <1>4
  <2>2. g.prev = NoHash
    BY <2>1 DEF EventOK
  <2>3. e.hash = Digest(e.kind, e.at, e.prev)
    BY DEF Ordered
  <2>4. QED
    BY <2>2, <2>3, DigestNotEmpty
<1>5. CASE e.seq # 1
  <2>1. PICK h \in S : e.seq = h.seq + 1 /\ e.prev = h.hash
    BY <1>5 DEF Linked
  <2>2. h \in T /\ Before(h, g)
    BY <1>1, <1>3, <2>1
  <2>3. ASSUME NEW x \in T, Before(h, x), Before(x, g) PROVE FALSE
    <3>1. x \in S /\ x.seq < e.seq
      BY <1>3, <2>3
    <3>2. h.seq < x.seq
      BY <1>2, <2>1, <2>3, <3>1
    <3>3. QED
      BY <1>1, <2>1, <3>1, <3>2
  <2>4. g.prev = h.hash
    BY <2>2, <2>3 DEF EventOK, Precedes
  <2>5. e.prev = e.hash
    BY <2>1, <2>4
  <2>6. \A x \in S : x.prev # x.hash
    BY NoSelfLink DEF Ordered
  <2>7. QED
    BY <2>5, <2>6
<1>6. QED
  BY <1>4, <1>5

(* An edited event that is still listed does not match its stored hash.  One   *)
(* that its new timestamp moved out of the page leaves a gap where it was.     *)
LEMMA EditDetected ==
  ASSUME NEW S, Typed(S), Recorded(S), Linked(S), Ordered(S), NEW e \in Listed(S),
         NEW g \in Edits(e)
  PROVE  ~verify_chain((S \ {e}) \cup {g})
<1>1. e \in S /\ Cardinality({f \in S : Before(f, e)}) < VerifyLimit
  BY DEF Listed
<1>2. /\ g.seq = e.seq /\ g.prev = e.prev /\ g.hash = e.hash
      /\ g.at \in Nat \cup {e.at} /\ Digest(g.kind, g.at, g.prev) # e.hash
  <2>1. Recorded({e}) /\ e.hash = Digest(e.kind, e.at, e.prev)
    BY <1>1, FS_Singleton DEF Recorded, Ordered
  <2>2. QED
    BY <2>1, EditChangesDigest
<1> DEFINE T == (S \ {e}) \cup {g}
           A == {x \in T : Before(x, g)}
           B == {x \in S : Before(x, e)}
<1>3. CASE g \in Listed(T)
  BY <1>2, <1>3 DEF verify_chain, EventOK
<1>4. CASE g \notin Listed(T)
  <2>1. \A x \in S : x.seq \in Nat /\ x.at \in Nat
    BY DEF Typed
  <2>2. \A x, y \in S : Before(x, y) <=> x.seq < y.seq
    BY BeforeIsNumberOrder
  <2>3. IsFiniteSet(B) /\ Cardinality(B) \in Nat
    BY FS_Subset, FS_CardinalityType DEF Recorded
  <2>4. ~(A \subseteq B)
    <3>1. g \in T /\ ~(Cardinality(A) < VerifyLimit)
      BY <1>4 DEF Listed
    <3> HIDE DEF A, B
    <3> SUFFICES ASSUME A \subseteq B PROVE FALSE
      OBVIOUS
    <3>2. Cardinality(A) \in Nat /\ Cardinality(A) <= Cardinality(B)
      BY <2>3, FS_Subset, FS_CardinalityType
    <3>3. QED
      BY <1>1, <2>3, <3>1, <3>2, AuditAssumption DEF B
  <2>5. g.at \in Nat
    BY <1>1, <1>2, <2>1
  <2>6. PICK x \in A : x \notin B
    BY <2>4
  <2>7. ~Before(g, g)
    BY <1>1, <1>2, <2>1, <2>5 DEF Before
  <2>8. x \in S /\ x # e /\ Before(x, g) /\ ~Before(x, e)
    BY <2>6, <2>7
  <2>9. e.seq < x.seq
    BY <1>1, <2>1, <2>2, <2>8 DEF Linked
  <2>10. PICK n \in S : n.seq = e.seq + 1 /\ n.prev = e.hash
    BY <1>1, <2>8, <2>9, Successor
  <2>11. Before(n, g)
    <3>1. n = x \/ Before(n, x)
      BY <1>1, <2>1, <2>2, <2>8, <2>9, <2>10 DEF Linked
    <3>2. QED
      BY <1>1, <1>2, <2>1, <2>5, <2>8, <3>1 DEF Before
  <2>12. ~Before(g, n)
    BY <1>1, <1>2, <2>1, <2>5, <2>11 DEF Before
  <2>13. n # e /\ n \in T
    BY <1>1, <2>1, <2>10
  <2>14. {y \in T : Before(y, n)} = B
    <3>1. \A y \in S : Before(y, n) /\ y # e <=> Before(y, e)
      BY <1>1, <2>1, <2>2, <2>10 DEF Linked
    <3>2. QED
      BY <2>12, <3>1
  <2>15. n \in Listed(T)
    BY <1>1, <2>13, <2>14 DEF Listed
  <2>16. ~EventOK(T, n)
    BY <1>1, <2>10, <2>14, GapDetected
  <2>17. QED
    BY <2>15, <2>16 DEF verify_chain
<1>5. QED
  BY <1>3, <1>4

(* When an event that another follows is gone, the next one is listed after    *)
(* what stood before it.                                                       *)
LEMMA DeleteDetected ==
  ASSUME NEW S, Typed(S), Recorded(S), Linked(S), Ordered(S),
         NEW e \in Listed(S), NEW f \in S, Before(e, f)
  PROVE  ~verify_chain(S \ {e})
<1>1. e \in S /\ Cardinality({x \in S : Before(x, e)}) < VerifyLimit
  BY DEF Listed
<1>2. \A x \in S : x.seq \in Nat /\ x.seq # 0
  BY DEF Typed, Linked
<1>3. \A x, y \in S : Before(x, y) <=> x.seq < y.seq
  BY BeforeIsNumberOrder
<1>4. PICK g \in S : g.seq = e.seq + 1 /\ g.prev = e.hash
  BY <1>1, <1>3, Successor
<1> DEFINE T == S \ {e}
<1>5. g \in T
  BY <1>1, <1>2, <1>4
<1>6. {x \in T : Before(x, g)} = {x \in S : Before(x, e)}
  BY <1>1, <1>2, <1>3, <1>4 DEF Linked
<1>7. g \in Listed(T)
  BY <1>1, <1>5, <1>6 DEF Listed
<1>8. ~EventOK(T, g)
  BY <1>1, <1>4, <1>6, GapDetected
<1>9. QED
  BY <1>7, <1>8 DEF verify_chain

(* While every writer stamps its events with one clock, verify_chain rejects   *)
(* every chain in which one column that compute_event_hash hashes was changed  *)
(* in a listed event, or a listed event that is not the last was deleted.      *)
(* With two clocks it would not: an event stamped before its predecessor is    *)
(* listed first, and can go unnoticed.                                         *)
THEOREM TamperingDetected == ASSUME OneClock PROVE Spec => []TamperDetected
<1> DEFINE Inv == IInv /\ VisibleOrdered /\ ChainOrdered /\ AllRecorded
<1>1. Init => Inv
  BY InitIInv, InitOrdered, InitRecorded
<1>2. Inv /\ [Next]_vars => Inv'
  <2>1. IInv /\ [Next]_vars => IInv'
    BY NextTypeOK, NextOwnsRun, NextLinked, NextReadIsLatest DEF IInv
  <2>2. IInv => TypeOK
    BY DEF IInv
  <2>3. QED
    BY <2>1, <2>2, OneClock, NextOrdered, NextRecorded
<1>3. Inv => TamperDetected
  <2> SUFFICES ASSUME Inv, NEW r \in Runs, NEW e \in Listed(chain[r])
               PROVE  /\ \A f \in Edits(e) : ~verify_chain((chain[r] \ {e}) \cup {f})
                      /\ (\E f \in chain[r] : Before(e, f)) => ~verify_chain(chain[r] \ {e})
    BY DEF TamperDetected
  <2>1. Typed(chain[r]) /\ Linked(chain[r]) /\ Ordered(chain[r]) /\ Recorded(chain[r])
    BY DEF IInv, TypeOK, ChainLinked, ChainOrdered, AllRecorded
  <2>2. QED
    BY <2>1, EditDetected, DeleteDetected
<1>4. QED
  BY <1>1, <1>2, <1>3, PTL DEF Spec
=============================================================================
