------------------------- MODULE DocumentApiProofs -------------------------
(***************************************************************************)
(* DocumentApi for every number of requests, processes, seconds and        *)
(* failures: the limit of a window holds and its counter expires, a        *)
(* committed document has its payload, and a payload is torn only by a     *)
(* peer, in another process.                                               *)
(***************************************************************************)
EXTENDS DocumentApi, FiniteSetTheorems, TLAPS

ReqStates == {"new", "401", "403", "labelled", "first", "429", "admitted", "dead"}

RequestType ==
  [pc : ReqStates, at : 0..MaxTime, label : Labels, via : {"none", "counted", "open"}]

(* A record of a request, by its fields. *)
Rec(pc, at, label, via) == [pc |-> pc, at |-> at, label |-> label, via |-> via]

-----------------------------------------------------------------------------
(* The gate *)

(* The window of a time is a label, begins no later and ends after it. *)
LEMMA WindowOf ==
  ASSUME NEW t \in 0..MaxTime
  PROVE  LET l == t - (t % Window) IN l \in Labels /\ l \in Nat /\ l <= t /\ t < l + Window
<1>1. t \in Nat /\ Window \in Nat /\ Window > 0
  BY RateLimiterAssumption
<1>2. t % Window \in 0..(Window - 1) /\ t % Window <= t
  BY <1>1
<1>3. QED
  BY <1>1, <1>2 DEF Labels

(* A label is a time. *)
LEMMA LabelIsTime == \A l \in Labels : l \in Nat /\ l <= MaxTime
<1> SUFFICES ASSUME NEW l \in Labels PROVE l \in Nat /\ l <= MaxTime
  OBVIOUS
<1>1. PICK t \in 0..MaxTime : l = t - (t % Window)
  BY DEF Labels
<1>2. QED
  BY <1>1, WindowOf, RateLimiterAssumption

(* A request keeps its fields but for the ones that a step of the gate sets. *)
LEMMA DecidedIs ==
  ASSUME NEW r \in Requests, req[r] \in RequestType, NEW n
  PROVE  Decided(r, n) \in {Rec("429", req[r].at, req[r].label, req[r].via),
                            Rec("admitted", req[r].at, req[r].label, "counted")}
BY DEF Decided, RequestType, Rec, ReqStates

(* A fault is counted up to its bound. *)
LEMMA FaultBound == ASSUME faults \in 0..MaxFaults, Fault PROVE faults' \in 0..MaxFaults
BY RateLimiterAssumption DEF Fault

(* The steps of the gate, with the records written out: a request is refused, *)
(* reads the clock, is counted, sets the expiry, passes because INCR failed,  *)
(* or passes because EXPIRE failed.                                           *)
Becomes(r, rec) == now' = now /\ caller' = caller /\ req' = [req EXCEPT ![r] = rec]

Key(l, count, expires) == counter' = [counter EXCEPT ![l] = [count |-> count, expires |-> expires]]

IsRefused(r) ==
  /\ req[r].pc = "new"
  /\ \E pc \in {"401", "403"} : Becomes(r, Rec(pc, req[r].at, req[r].label, req[r].via))
  /\ UNCHANGED <<counter, unset, faults>>

IsLabelled(r) ==
  /\ req[r].pc = "new"
  /\ Becomes(r, Rec("labelled", now, now - (now % Window), "none"))
  /\ UNCHANGED <<counter, unset, faults>>

IsCounted(r) ==
  LET l == req[r].label IN
  /\ req[r].pc = "labelled"
  /\ Key(l, counter[l].count + 1, counter[l].expires)
  /\ Becomes(r, IF counter[l].count = 0 THEN Rec("first", req[r].at, l, req[r].via)
                ELSE Decided(r, counter[l].count + 1))
  /\ UNCHANGED <<unset, faults>>

SetsExpiry(r) ==
  LET l == req[r].label IN
  /\ req[r].pc = "first"
  /\ Key(l, counter[l].count, Expiry)
  /\ Becomes(r, Decided(r, 1))
  /\ UNCHANGED <<unset, faults>>

PassesUncounted(r) ==
  LET l == req[r].label IN
  /\ req[r].pc = "labelled"
  /\ Fault
  /\ Becomes(r, Rec("admitted", req[r].at, l, "open"))
  /\ \/ UNCHANGED <<counter, unset>>
     \/ /\ Key(l, counter[l].count + 1, counter[l].expires)
        /\ unset' = IF counter[l] = Absent THEN unset \cup {l} ELSE unset

PassesUnset(r) ==
  /\ req[r].pc = "first"
  /\ Fault
  /\ Becomes(r, Rec("admitted", req[r].at, req[r].label, "open"))
  /\ unset' = unset \cup {req[r].label}
  /\ UNCHANGED counter

(* Those are all the steps of the gate. *)
LEMMA GateMoves ==
  ASSUME GateTypeOK, NEW r \in Requests, NEW roles, Gate(r, roles)
  PROVE  \/ IsRefused(r) \/ IsLabelled(r) \/ IsCounted(r)
         \/ SetsExpiry(r) \/ PassesUncounted(r) \/ PassesUnset(r)
<1> DEFINE q == req[r]
           l == req[r].label
<1>1. /\ req \in [Requests -> RequestType]
      /\ counter \in [Labels -> [count : Nat, expires : 0..Never]]
      /\ l \in Labels /\ q = Rec(q.pc, q.at, l, q.via)
  BY DEF GateTypeOK, RequestType, ReqStates, Rec
<1>2. /\ \A n : [counter EXCEPT ![l].count = n] =
                 [counter EXCEPT ![l] = [count |-> n, expires |-> counter[l].expires]]
      /\ \A n : [counter EXCEPT ![l].expires = n] =
                 [counter EXCEPT ![l] = [count |-> counter[l].count, expires |-> n]]
      /\ counter[l].count \in Nat
  <2>1. counter[l] = [count |-> counter[l].count, expires |-> counter[l].expires]
    BY <1>1
  <2>2. QED
    BY <1>1, <2>1
<1>3. /\ \A pc : [req EXCEPT ![r].pc = pc] = [req EXCEPT ![r] = Rec(pc, q.at, l, q.via)]
      /\ [req EXCEPT ![r].pc = "admitted", ![r].via = "open"] =
           [req EXCEPT ![r] = Rec("admitted", q.at, l, "open")]
      /\ [q EXCEPT !.pc = "first"] = Rec("first", q.at, l, q.via)
  <2>1. \A pc : [q EXCEPT !.pc = pc] = Rec(pc, q.at, l, q.via)
    BY <1>1 DEF Rec
  <2>2. ASSUME NEW pc
        PROVE  [req EXCEPT ![r].pc = pc] = [req EXCEPT ![r] = Rec(pc, q.at, l, q.via)]
    <3>1. [req EXCEPT ![r].pc = pc] = [req EXCEPT ![r] = [q EXCEPT !.pc = pc]]
      BY <1>1
    <3>2. QED
      BY <2>1, <3>1
  <2>3. [req EXCEPT ![r].pc = "admitted", ![r].via = "open"] =
          [req EXCEPT ![r] = Rec("admitted", q.at, l, "open")]
    <3> DEFINE f == [req EXCEPT ![r] = Rec("admitted", q.at, l, q.via)]
    <3>1. [req EXCEPT ![r].pc = "admitted", ![r].via = "open"] = [f EXCEPT ![r].via = "open"]
      BY <2>2
    <3>2. f[r] = Rec("admitted", q.at, l, q.via)
      BY <1>1
    <3>3. [f[r] EXCEPT !.via = "open"] = Rec("admitted", q.at, l, "open")
      BY <3>2 DEF Rec
    <3>4. [f EXCEPT ![r].via = "open"] = [f EXCEPT ![r] = [f[r] EXCEPT !.via = "open"]]
      BY <1>1
    <3>5. QED
      BY <1>1, <3>1, <3>3, <3>4
  <2>4. QED
    BY <2>1, <2>2, <2>3
<1>4. CASE Unauthorized(r)
  BY <1>3, <1>4 DEF Unauthorized, Refuse, IsRefused, Becomes
<1>5. CASE Forbidden(r, roles)
  BY <1>3, <1>5 DEF Forbidden, Refuse, IsRefused, Becomes
<1>6. CASE ReadClock(r, roles)
  BY <1>6 DEF ReadClock, Rec, IsLabelled, Becomes
<1>7. CASE Incr(r)
  <2>1. /\ q.pc = "labelled" /\ UNCHANGED <<now, caller, unset, faults>>
        /\ counter' = [counter EXCEPT ![l].count = counter[l].count + 1]
        /\ req' = [req EXCEPT ![r] = IF counter[l].count + 1 = 1 THEN [q EXCEPT !.pc = "first"]
                                     ELSE Decided(r, counter[l].count + 1)]
    BY <1>7 DEF Incr
  <2>2. counter[l].count + 1 = 1 <=> counter[l].count = 0
    BY <1>2
  <2>3. IsCounted(r)
    BY <1>2, <1>3, <2>1, <2>2 DEF IsCounted, Becomes, Key
  <2>4. QED
    BY <2>3
<1>8. CASE Expire(r)
  BY <1>2, <1>8 DEF Expire, SetsExpiry, Becomes, Key
<1>9. CASE IncrError(r)
  <2>1. /\ q.pc = "labelled" /\ Fault /\ UNCHANGED <<now, caller>>
        /\ req' = [req EXCEPT ![r].pc = "admitted", ![r].via = "open"]
        /\ \/ UNCHANGED <<counter, unset>>
           \/ /\ counter' = [counter EXCEPT ![l].count = counter[l].count + 1]
              /\ unset' = IF counter[l] = Absent THEN unset \cup {l} ELSE unset
    BY <1>9 DEF IncrError, FailOpen
  <2>2. QED
    BY <1>2, <1>3, <2>1 DEF PassesUncounted, Becomes, Key
<1>10. CASE ExpireError(r)
  BY <1>3, <1>10 DEF ExpireError, FailOpen, PassesUnset, Becomes
<1>11. QED
  BY <1>4, <1>5, <1>6, <1>7, <1>8, <1>9, <1>10 DEF Gate

(* A step of the gate keeps its types. *)
LEMMA GateType ==
  ASSUME GateTypeOK, NEW r \in Requests, NEW roles, Gate(r, roles)
  PROVE  GateTypeOK'
<1> DEFINE KeyType == [count : Nat, expires : 0..Never]
           l == req[r].label
<1>1. /\ req \in [Requests -> RequestType] /\ req[r] \in RequestType
      /\ counter \in [Labels -> KeyType] /\ l \in Labels
      /\ now \in 0..MaxTime /\ faults \in 0..MaxFaults /\ unset \subseteq Labels /\ caller \in Callers
  BY DEF GateTypeOK, RequestType, ReqStates
<1>2. \A n : Decided(r, n) \in RequestType
  BY <1>1, DecidedIs DEF RequestType, Rec, ReqStates
<1>3. /\ \A pc \in ReqStates : Rec(pc, req[r].at, l, req[r].via) \in RequestType
      /\ Rec("admitted", req[r].at, l, "open") \in RequestType
  BY <1>1 DEF RequestType, Rec, ReqStates
<1>4. ASSUME NEW rec \in RequestType, Becomes(r, rec)
      PROVE  req' \in [Requests -> RequestType] /\ now' \in 0..MaxTime /\ caller' \in Callers
  BY <1>1, <1>4 DEF Becomes
<1>5. ASSUME NEW n \in Nat, NEW e \in 0..Never, Key(l, n, e)
      PROVE  counter' \in [Labels -> KeyType]
  BY <1>1, <1>5 DEF Key
<1>6. counter[l].count \in Nat /\ counter[l].count + 1 \in Nat /\ counter[l].expires \in 0..Never
  BY <1>1
<1>7. SUFFICES /\ req' \in [Requests -> RequestType] /\ now' \in 0..MaxTime /\ caller' \in Callers
               /\ counter' \in [Labels -> KeyType]
               /\ unset' \subseteq Labels
               /\ faults' \in 0..MaxFaults
  BY DEF GateTypeOK, RequestType, ReqStates
<1> HIDE DEF KeyType
<1>8. CASE IsRefused(r)
  BY <1>1, <1>3, <1>4, <1>8 DEF IsRefused, ReqStates
<1>9. CASE IsLabelled(r)
  <2>1. Rec("labelled", now, now - (now % Window), "none") \in RequestType
    BY <1>1, WindowOf DEF RequestType, Rec, ReqStates
  <2>2. QED
    BY <1>1, <1>4, <1>9, <2>1 DEF IsLabelled
<1>10. CASE IsCounted(r)
  BY <1>1, <1>2, <1>3, <1>4, <1>5, <1>6, <1>10 DEF IsCounted, ReqStates
<1>11. CASE SetsExpiry(r)
  <2>1. Expiry \in 0..Never
    BY <1>1, RateLimiterAssumption DEF Expiry, Never
  <2>2. QED
    BY <1>1, <1>2, <1>4, <1>5, <1>6, <1>11, <2>1 DEF SetsExpiry
<1>12. CASE PassesUncounted(r)
  <2>1. faults' \in 0..MaxFaults
    BY <1>1, <1>12, FaultBound DEF PassesUncounted
  <2>2. QED
    BY <1>1, <1>3, <1>4, <1>5, <1>6, <1>12, <2>1 DEF PassesUncounted
<1>13. CASE PassesUnset(r)
  <2>1. faults' \in 0..MaxFaults
    BY <1>1, <1>13, FaultBound DEF PassesUnset
  <2>2. QED
    BY <1>1, <1>3, <1>4, <1>13, <2>1 DEF PassesUnset
<1>14. QED
  BY <1>8, <1>9, <1>10, <1>11, <1>12, <1>13, GateMoves

(* So does a second that passes. *)
LEMMA TickType ==
  ASSUME GateTypeOK, Tick
  PROVE  GateTypeOK'
<1>1. now' \in 0..MaxTime
  BY RateLimiterAssumption DEF Tick, GateTypeOK
<1>2. Absent \in [count : Nat, expires : 0..Never]
  BY RateLimiterAssumption DEF Absent, Never
<1>3. counter' \in [Labels -> [count : Nat, expires : 0..Never]]
  BY <1>2 DEF Tick, GateTypeOK
<1>4. QED
  BY <1>1, <1>3 DEF Tick, GateTypeOK

(* The requests that die with a process. *)
Dies(p) == {r \in Requests : host[r] = p /\ req[r].pc \in {"labelled", "first", "admitted"}
                                         /\ up[r].pc \notin {"done", "failed", "dead"}}

(* What the death of a process does to the requests. *)
LEMMA CrashMoves ==
  ASSUME TypeOK, NEW p, Crash(p)
  PROVE  /\ \A r \in Requests :
              /\ r \in Dies(p) => /\ req'[r] = Rec("dead", req[r].at, req[r].label, req[r].via)
                                 /\ up'[r] = [pc |-> "dead", inode |-> up[r].inode]
              /\ r \notin Dies(p) => req'[r] = req[r] /\ up'[r] = up[r]
         /\ req' = [r \in Requests |-> req'[r]]
         /\ up' = [r \in Requests |-> up'[r]]
         /\ \A r \in Dies(p) : req[r].pc = "first" => req[r].label \in unset'
         /\ unset \subseteq unset' /\ unset' \subseteq Labels
         /\ Fault /\ UNCHANGED <<now, caller, counter, host, tmp, path, data, rows>>
<1>1. /\ req' = [r \in Requests |-> IF r \in Dies(p) THEN [req[r] EXCEPT !.pc = "dead"] ELSE req[r]]
      /\ up' = [r \in Requests |-> IF r \in Dies(p) THEN [up[r] EXCEPT !.pc = "dead"] ELSE up[r]]
      /\ unset' = unset \cup {req[r].label : r \in {q \in Dies(p) : req[q].pc = "first"}}
      /\ Fault /\ UNCHANGED <<now, caller, counter, host, tmp, path, data, rows>>
  BY DEF Crash, Dies
<1>2. \A r \in Requests : /\ req[r] = Rec(req[r].pc, req[r].at, req[r].label, req[r].via)
                          /\ up[r] = [pc |-> up[r].pc, inode |-> up[r].inode]
                          /\ req[r].label \in Labels
  BY DEF TypeOK, GateTypeOK, Rec
<1>3. \A r \in Requests : /\ [req[r] EXCEPT !.pc = "dead"] = Rec("dead", req[r].at, req[r].label, req[r].via)
                          /\ [up[r] EXCEPT !.pc = "dead"] = [pc |-> "dead", inode |-> up[r].inode]
  <2> TAKE r \in Requests
  <2>1. [req[r] EXCEPT !.pc = "dead"] = Rec("dead", req[r].at, req[r].label, req[r].via)
    BY DEF TypeOK, GateTypeOK, Rec
  <2>2. [up[r] EXCEPT !.pc = "dead"] = [pc |-> "dead", inode |-> up[r].inode]
    BY DEF TypeOK
  <2>3. QED
    BY <2>1, <2>2
<1>4. unset' \subseteq Labels
  BY <1>1, <1>2 DEF TypeOK, GateTypeOK, Dies
<1>5. QED
  BY <1>1, <1>3, <1>4

-----------------------------------------------------------------------------
(* The payload store: its steps, with the records written out *)

Uploads(r, pc, inode) == up' = [up EXCEPT ![r] = [pc |-> pc, inode |-> inode]]

IsOpened(r) ==
  LET i == IF tmp = None THEN r ELSE tmp IN
  /\ up[r].pc = "none" /\ ~Blocked(r)
  /\ tmp' = i
  /\ data' = [data EXCEPT ![i] = Empty(r)]
  /\ Uploads(r, "writing", i)
  /\ UNCHANGED <<path, rows>>

IsFinished(r) ==
  LET i == up[r].inode IN
  /\ up[r].pc = "writing"
  /\ \E w \in BOOLEAN : /\ data[i].by = r \/ data[i].whole <=> w
                        /\ data' = [data EXCEPT ![i] = [by |-> data[i].by, whole |-> w]]
  /\ Uploads(r, "written", i)
  /\ UNCHANGED <<tmp, path, rows>>

IsAbandoned(r) ==
  /\ up[r].pc = "writing"
  /\ tmp' = None
  /\ Uploads(r, "failed", up[r].inode)
  /\ UNCHANGED <<path, data, rows>>

IsReplaced(r) ==
  /\ up[r].pc = "written"
  /\ \/ tmp # None /\ path' = tmp /\ tmp' = None /\ Uploads(r, "stored", up[r].inode)
     \/ tmp = None /\ UNCHANGED <<path, tmp>> /\ Uploads(r, "failed", up[r].inode)
  /\ UNCHANGED <<data, rows>>

IsCommitted(r) ==
  /\ up[r].pc = "stored"
  /\ \/ rows' = rows \cup {r} /\ Uploads(r, "done", up[r].inode)
     \/ rows' = rows /\ Uploads(r, "failed", up[r].inode)
  /\ UNCHANGED <<tmp, path, data>>

Stores(r) == Open(r) \/ Finish(r) \/ WriteFails(r) \/ Replace(r) \/ Commit(r) \/ CommitFails(r)

(* An upload that writes has a file open. *)
WritesAFile == \A r \in Requests : up[r].pc \in {"writing", "written"} => up[r].inode \in Requests

(* Those are all the steps of the store, and they leave the gate alone. *)
LEMMA StoreMoves ==
  ASSUME TypeOK, WritesAFile, NEW r \in Requests, Stores(r)
  PROVE  /\ \/ IsOpened(r) \/ IsFinished(r) \/ IsAbandoned(r) \/ IsReplaced(r) \/ IsCommitted(r)
         /\ UNCHANGED <<now, caller, req, counter, unset, host>>
         /\ faults' \in 0..MaxFaults
<1>1. \A pc : Upload(r, pc) => Uploads(r, pc, up[r].inode)
  <2>1. \A pc : [up[r] EXCEPT !.pc = pc] = [pc |-> pc, inode |-> up[r].inode]
    BY DEF TypeOK
  <2>2. ASSUME NEW pc PROVE [up EXCEPT ![r].pc = pc] = [up EXCEPT ![r] = [up[r] EXCEPT !.pc = pc]]
    BY DEF TypeOK
  <2>3. QED
    BY <2>1, <2>2 DEF Upload, Uploads
<1>2. faults \in 0..MaxFaults
  BY DEF TypeOK, GateTypeOK
<1>3. CASE Open(r)
  BY <1>2, <1>3 DEF Open, IsOpened, gate, Uploads
<1>4. CASE Finish(r)
  <2> DEFINE i == up[r].inode
             w == (data[i].by = r) \/ data[i].whole
  <2>1. i \in Requests /\ data[i] = [by |-> data[i].by, whole |-> data[i].whole] /\ w \in BOOLEAN
    BY <1>4 DEF Finish, WritesAFile, TypeOK
  <2>2. data' = [data EXCEPT ![i] = [by |-> data[i].by, whole |-> w]]
    <3>1. data' = [data EXCEPT ![i].whole = w]
      BY <1>4 DEF Finish
    <3>2. [data EXCEPT ![i].whole = w] = [data EXCEPT ![i] = [data[i] EXCEPT !.whole = w]]
      BY DEF TypeOK
    <3>3. [data[i] EXCEPT !.whole = w] = [by |-> data[i].by, whole |-> w]
      BY <2>1
    <3>4. QED
      BY <3>1, <3>2, <3>3
  <2>3. IsFinished(r)
    BY <1>1, <1>4, <2>1, <2>2 DEF Finish, IsFinished
  <2>4. QED
    BY <1>2, <1>4, <2>3 DEF Finish, gate
<1>5. CASE WriteFails(r)
  <2>1. faults' \in 0..MaxFaults
    BY <1>2, <1>5, FaultBound DEF WriteFails
  <2>2. QED
    BY <1>1, <1>5, <2>1 DEF WriteFails, IsAbandoned
<1>6. CASE Replace(r)
  BY <1>1, <1>2, <1>6 DEF Replace, IsReplaced, gate
<1>7. CASE Commit(r)
  BY <1>1, <1>2, <1>7 DEF Commit, IsCommitted, gate
<1>8. CASE CommitFails(r)
  <2>1. faults' \in 0..MaxFaults
    BY <1>2, <1>8, FaultBound DEF CommitFails
  <2>2. QED
    BY <1>1, <1>8, <2>1 DEF CommitFails, IsCommitted
<1>9. QED
  BY <1>3, <1>4, <1>5, <1>6, <1>7, <1>8 DEF Stores

UploadType ==
  [pc : {"none", "writing", "written", "stored", "done", "failed", "dead"},
   inode : Requests \cup {None}]

(* A step of the store keeps the types. *)
LEMMA StoreType ==
  ASSUME TypeOK, WritesAFile, NEW r \in Requests, Stores(r)
  PROVE  TypeOK'
<1> DEFINE DataType == [Requests -> [by : Requests, whole : BOOLEAN]]
<1>1. /\ up \in [Requests -> UploadType] /\ data \in DataType
      /\ tmp \in Requests \cup {None} /\ path \in Requests \cup {None}
      /\ up[r].inode \in Requests \cup {None}
      /\ rows \subseteq Requests
  BY DEF TypeOK, UploadType
<1>2. GateTypeOK' /\ host' \in [Requests -> Procs]
  BY StoreMoves DEF TypeOK, GateTypeOK
<1>3. ASSUME NEW pc \in {"writing", "written", "stored", "done", "failed"},
             NEW i \in Requests \cup {None}, Uploads(r, pc, i)
      PROVE  up' \in [Requests -> UploadType]
  BY <1>1, <1>3 DEF Uploads, UploadType
<1>4. SUFFICES /\ up' \in [Requests -> UploadType] /\ data' \in DataType
               /\ tmp' \in Requests \cup {None} /\ path' \in Requests \cup {None}
               /\ rows' \subseteq Requests
  BY <1>2 DEF TypeOK, UploadType
<1>5. CASE IsOpened(r)
  <2> DEFINE i == IF tmp = None THEN r ELSE tmp
  <2>1. i \in Requests /\ Empty(r) \in [by : Requests, whole : BOOLEAN]
    BY <1>1 DEF Empty
  <2>2. data' = [data EXCEPT ![i] = Empty(r)] /\ Uploads(r, "writing", i) /\ tmp' = i
    BY <1>5 DEF IsOpened
  <2>3. data' \in DataType
    BY <1>1, <2>1, <2>2
  <2>4. QED
    BY <1>1, <1>3, <1>5, <2>1, <2>2, <2>3 DEF IsOpened
<1>6. CASE IsFinished(r)
  <2> DEFINE i == up[r].inode
  <2>1. i \in Requests
    BY <1>6 DEF IsFinished, WritesAFile
  <2>2. PICK w \in BOOLEAN : data' = [data EXCEPT ![i] = [by |-> data[i].by, whole |-> w]]
    BY <1>6 DEF IsFinished
  <2>3. data' \in DataType
    BY <1>1, <2>1, <2>2
  <2>4. QED
    BY <1>1, <1>3, <1>6, <2>3 DEF IsFinished
<1>7. CASE IsAbandoned(r)
  BY <1>1, <1>3, <1>7 DEF IsAbandoned
<1>8. CASE IsReplaced(r)
  BY <1>1, <1>3, <1>8 DEF IsReplaced
<1>9. CASE IsCommitted(r)
  BY <1>1, <1>3, <1>9 DEF IsCommitted
<1>10. QED
  BY <1>5, <1>6, <1>7, <1>8, <1>9, StoreMoves

(* The death of a process keeps the types. *)
LEMMA CrashType ==
  ASSUME TypeOK, NEW p, Crash(p)
  PROVE  TypeOK'
<1>1. req \in [Requests -> RequestType] /\ up \in [Requests -> UploadType]
  BY DEF TypeOK, GateTypeOK, RequestType, ReqStates, UploadType
<1>2. \A r \in Requests : req'[r] \in RequestType /\ up'[r] \in UploadType
  <2> TAKE r \in Requests
  <2>1. CASE r \in Dies(p)
    <3>1. /\ req'[r] = Rec("dead", req[r].at, req[r].label, req[r].via)
          /\ up'[r] = [pc |-> "dead", inode |-> up[r].inode]
      BY <2>1, CrashMoves
    <3>2. QED
      BY <1>1, <3>1 DEF RequestType, ReqStates, UploadType, Rec
  <2>2. CASE r \notin Dies(p)
    BY <1>1, <2>2, CrashMoves
  <2>3. QED
    BY <2>1, <2>2
<1>3. req' \in [Requests -> RequestType] /\ up' \in [Requests -> UploadType]
  BY <1>2, CrashMoves
<1>4. faults' \in 0..MaxFaults
  BY CrashMoves, FaultBound DEF TypeOK, GateTypeOK
<1>5. unset' \subseteq Labels /\ UNCHANGED <<now, caller, counter, host, tmp, path, data, rows>>
  BY CrashMoves
<1>6. GateTypeOK'
  BY <1>3, <1>4, <1>5 DEF TypeOK, GateTypeOK, RequestType, ReqStates
<1>7. QED
  BY <1>3, <1>5, <1>6 DEF TypeOK, UploadType

(* The steps of the system, seen from the store: one of its own, a death, or  *)
(* none.                                                                      *)
LEMMA StoreView ==
  ASSUME TypeOK, [Next]_vars
  PROVE  \/ \E r \in Requests : Stores(r)
         \/ \E p \in Procs : Crash(p)
         \/ UNCHANGED <<host, up, tmp, path, data, rows>>
BY DEF Next, Stores, vars, store

(* The steps of the system, seen from the gate. *)
LEMMA GateView ==
  ASSUME TypeOK, [Next]_vars
  PROVE  \/ Tick /\ UNCHANGED <<host, up, tmp, path, data, rows>>
         \/ \E r \in Requests : Gate(r, WriteRoles) /\ UNCHANGED <<host, up, tmp, path, data, rows>>
         \/ \E r \in Requests : Stores(r)
         \/ \E p \in Procs : Crash(p)
         \/ UNCHANGED vars
BY DEF Next, Stores, vars, store

(* All steps keep the types. *)
LEMMA NextType ==
  ASSUME TypeOK, WritesAFile, [Next]_vars
  PROVE  TypeOK'
<1>1. CASE Tick /\ UNCHANGED <<host, up, tmp, path, data, rows>>
  BY <1>1, TickType DEF TypeOK
<1>2. ASSUME NEW r \in Requests, Gate(r, WriteRoles), UNCHANGED <<host, up, tmp, path, data, rows>>
      PROVE  TypeOK'
  BY <1>2, GateType DEF TypeOK
<1>3. ASSUME NEW r \in Requests, Stores(r) PROVE TypeOK'
  BY <1>3, StoreType
<1>4. ASSUME NEW p \in Procs, Crash(p) PROVE TypeOK'
  BY <1>4, CrashType
<1>5. CASE UNCHANGED vars
  BY <1>5 DEF vars, gate, store, TypeOK, GateTypeOK
<1>6. QED
  BY <1>1, <1>2, <1>3, <1>4, <1>5, GateView

(* The initial state has the types. *)
LEMMA InitType == Init => TypeOK
<1> SUFFICES ASSUME Init PROVE TypeOK
  OBVIOUS
<1>1. 0 \in 0..MaxTime /\ 0 \in 0..MaxFaults /\ 0 \in Nat /\ Never \in 0..Never
  BY RateLimiterAssumption DEF Never
<1>2. 0 \in Labels
  <2>1. 0 - (0 % Window) = 0
    BY WindowOf, <1>1
  <2>2. QED
    BY <1>1, <2>1 DEF Labels
<1>3. GateTypeOK
  BY <1>1, <1>2 DEF Init, GateInit, GateTypeOK, NoRequest, Absent
<1>4. QED
  BY <1>3 DEF Init, TypeOK, Empty

-----------------------------------------------------------------------------
(* The payload store: its invariant *)

(* A file is in use when it has a name, or an upload has it open or had. *)
Used(i) == i = tmp \/ i = path \/ \E q \in Requests : up[q].inode = i

(* An upload that has not begun has no file. *)
NoFileYet == \A r \in Requests : up[r].pc = "none" => up[r].inode = None

(* A file in use was made by the request it is named for. *)
MadeByItsRequest == \A i \in Requests : Used(i) => up[i].inode = i

(* The request that emptied a file in use last has it open or had, and if it  *)
(* has not written all its bytes, it is still writing, failed or died.        *)
EmptiedByAUser ==
  \A i \in Requests : Used(i) =>
    /\ up[data[i].by].inode = i
    /\ ~data[i].whole => up[data[i].by].pc \in {"writing", "failed", "dead"}

(* The rows are those of the uploads that are done. *)
RowsAreDone == rows = {r \in Requests : up[r].pc = "done"}

(* An upload that has stored its payload finds it until it commits. *)
StoredIsThere == (\E r \in Requests : up[r].pc \in {"stored", "done"}) => path # None

(* All uploads are served by one process. *)
OneHost == \A q, r \in Requests : host[q] = host[r]

(* With one process, an upload that writes is alone, its file is the          *)
(* temporary one, and the path names another file, which is whole.            *)
WritesAlone ==
  /\ \A q, r \in Requests :
       up[q].pc \in {"writing", "written"} /\ up[r].pc \in {"writing", "written"} => q = r
  /\ \A r \in Requests :
       up[r].pc \in {"writing", "written"} =>
         /\ tmp = up[r].inode /\ data[tmp].by = r
         /\ up[r].pc = "written" => data[tmp].whole
  /\ path # None => path # tmp /\ data[path].whole

(* The inductive invariant of the store. *)
StoreInv ==
  /\ TypeOK
  /\ WritesAFile
  /\ NoFileYet
  /\ MadeByItsRequest
  /\ EmptiedByAUser
  /\ RowsAreDone
  /\ StoredIsThere
  /\ OneHost => WritesAlone

(* At first no file is in use. *)
LEMMA InitStore == Init => StoreInv
<1> SUFFICES ASSUME Init PROVE StoreInv
  OBVIOUS
<1>1. /\ \A r \in Requests : up[r] = [pc |-> "none", inode |-> None]
      /\ tmp = None /\ path = None /\ rows = {}
  BY DEF Init
<1>2. \A i \in Requests : ~Used(i)
  BY <1>1, DocumentApiAssumption DEF Used
<1>3. QED
  BY <1>1, <1>2, InitType DEF StoreInv, WritesAFile, NoFileYet, MadeByItsRequest, EmptiedByAUser,
                             RowsAreDone, StoredIsThere, WritesAlone

(* The upload that a step of the store is about. *)
LEMMA UploadsAt ==
  ASSUME TypeOK, NEW r \in Requests, NEW pc, NEW i, Uploads(r, pc, i)
  PROVE  /\ up'[r].pc = pc /\ up'[r].inode = i
         /\ \A q \in Requests : q # r => up'[q] = up[q]
BY DEF TypeOK, Uploads

(* An upload opens the temporary file: the one that is there, which the path  *)
(* does not name when there is one process, or its own.                       *)
LEMMA OpenedStore ==
  ASSUME StoreInv, TypeOK', NEW r \in Requests, IsOpened(r), UNCHANGED host
  PROVE  StoreInv'
<1> DEFINE i == IF tmp = None THEN r ELSE tmp
<1>1. /\ up[r].pc = "none" /\ ~Blocked(r) /\ tmp' = i /\ data' = [data EXCEPT ![i] = Empty(r)]
      /\ path' = path /\ rows' = rows
      /\ i \in Requests /\ up[r].inode = None
  BY DEF IsOpened, StoreInv, TypeOK, NoFileYet
<1>2. /\ up'[r].pc = "writing" /\ up'[r].inode = i
      /\ \A q \in Requests : q # r => up'[q] = up[q]
  BY UploadsAt DEF IsOpened, StoreInv
<1>3. /\ data'[i].by = r /\ ~data'[i].whole
      /\ \A j \in Requests : j # i => data'[j] = data[j]
  BY <1>1 DEF StoreInv, TypeOK, Empty
<1>4. ~Used(r)
  BY <1>1, DocumentApiAssumption DEF StoreInv, MadeByItsRequest
<1>5. \A j \in Requests : Used(j)' /\ j # i => Used(j)
  BY <1>1, <1>2 DEF Used
<1>6. tmp # None => Used(i)
  BY DEF Used
<1> HIDE DEF i
<1>7. WritesAFile' /\ NoFileYet'
  BY <1>1, <1>2 DEF StoreInv, WritesAFile, NoFileYet
<1>8. MadeByItsRequest'
  <2> SUFFICES ASSUME NEW j \in Requests, Used(j)' PROVE up'[j].inode = j
    BY DEF MadeByItsRequest
  <2>1. CASE j = r
    <3>1. i = r
      BY <1>4, <1>5, <2>1
    <3>2. QED
      BY <1>2, <2>1, <3>1
  <2>2. CASE j # r
    <3>1. Used(j)
      BY <1>5, <1>6, <2>2 DEF i
    <3>2. QED
      BY <1>2, <2>2, <3>1 DEF StoreInv, MadeByItsRequest
  <2>3. QED
    BY <2>1, <2>2
<1>9. EmptiedByAUser'
  <2> SUFFICES ASSUME NEW j \in Requests, Used(j)'
               PROVE  /\ up'[data'[j].by].inode = j
                      /\ ~data'[j].whole => up'[data'[j].by].pc \in {"writing", "failed", "dead"}
    BY DEF EmptiedByAUser
  <2>1. CASE j = i
    BY <1>2, <1>3, <2>1
  <2>2. CASE j # i
    <3>1. Used(j) /\ data'[j] = data[j] /\ data[j].by \in Requests
      BY <1>3, <1>5, <2>2 DEF StoreInv, TypeOK
    <3>2. up[data[j].by].inode = j /\ (~data[j].whole => up[data[j].by].pc \in {"writing", "failed", "dead"})
      BY <3>1 DEF StoreInv, EmptiedByAUser
    <3>3. data[j].by # r
      BY <1>1, <3>2, DocumentApiAssumption
    <3>4. QED
      BY <1>2, <3>1, <3>2, <3>3
  <2>3. QED
    BY <2>1, <2>2
<1>10. RowsAreDone'
  BY <1>1, <1>2 DEF StoreInv, RowsAreDone
<1>11. StoredIsThere'
  BY <1>1, <1>2 DEF StoreInv, StoredIsThere
<1>12. ASSUME OneHost' PROVE WritesAlone'
  <2>1. OneHost /\ WritesAlone
    BY <1>12 DEF OneHost, StoreInv
  <2>2. \A q \in Requests : up[q].pc \notin {"writing", "written"}
    BY <1>1, <2>1 DEF Blocked, OneHost
  <2>3. path # None => path # i
    <3>1. path # None => Used(path)
      BY DEF Used
    <3>2. QED
      BY <1>4, <2>1, <3>1 DEF i, WritesAlone
  <2>4. path # None => path \in Requests /\ data'[path] = data[path] /\ data[path].whole
    BY <1>3, <2>1, <2>3 DEF StoreInv, TypeOK, WritesAlone
  <2>5. QED
    BY <1>1, <1>2, <1>3, <2>2, <2>3, <2>4 DEF WritesAlone
<1>13. QED
  BY <1>7, <1>8, <1>9, <1>10, <1>11, <1>12 DEF StoreInv

(* An upload writes all its bytes: if it emptied the file last, the file is   *)
(* whole.                                                                     *)
LEMMA FinishedStore ==
  ASSUME StoreInv, TypeOK', NEW r \in Requests, IsFinished(r), UNCHANGED host
  PROVE  StoreInv'
<1> DEFINE i == up[r].inode
<1>1. /\ up[r].pc = "writing" /\ tmp' = tmp /\ path' = path /\ rows' = rows
      /\ i \in Requests
  BY DEF IsFinished, StoreInv, WritesAFile
<1>2. /\ up'[r].pc = "written" /\ up'[r].inode = i
      /\ \A q \in Requests : q # r => up'[q] = up[q]
  BY UploadsAt DEF IsFinished, StoreInv
<1>3. PICK w \in BOOLEAN : /\ data[i].by = r \/ data[i].whole <=> w
                          /\ data' = [data EXCEPT ![i] = [by |-> data[i].by, whole |-> w]]
  BY DEF IsFinished
<1>4. /\ data'[i].by = data[i].by
      /\ data[i].by = r => data'[i].whole
      /\ data[i].whole => data'[i].whole
      /\ \A j \in Requests : j # i => data'[j] = data[j]
  BY <1>1, <1>3 DEF StoreInv, TypeOK
<1>5. \A j \in Requests : Used(j)' => Used(j)
  BY <1>1, <1>2 DEF Used
<1>6. WritesAFile' /\ NoFileYet' /\ MadeByItsRequest'
  BY <1>1, <1>2, <1>5 DEF StoreInv, WritesAFile, NoFileYet, MadeByItsRequest
<1>7. EmptiedByAUser'
  <2> SUFFICES ASSUME NEW j \in Requests, Used(j)'
               PROVE  /\ up'[data'[j].by].inode = j
                      /\ ~data'[j].whole => up'[data'[j].by].pc \in {"writing", "failed", "dead"}
    BY DEF EmptiedByAUser
  <2>1. /\ data[j].by \in Requests /\ up[data[j].by].inode = j
        /\ ~data[j].whole => up[data[j].by].pc \in {"writing", "failed", "dead"}
    BY <1>5 DEF StoreInv, TypeOK, EmptiedByAUser
  <2>2. data'[j].by = data[j].by /\ (data[j].whole => data'[j].whole)
    BY <1>4
  <2>3. CASE data[j].by = r
    BY <1>2, <1>4, <2>1, <2>2, <2>3
  <2>4. CASE data[j].by # r
    BY <1>2, <2>1, <2>2, <2>4
  <2>5. QED
    BY <2>3, <2>4
<1>8. RowsAreDone' /\ StoredIsThere'
  BY <1>1, <1>2 DEF StoreInv, RowsAreDone, StoredIsThere
<1>9. ASSUME OneHost' PROVE WritesAlone'
  <2>1. WritesAlone
    BY <1>9 DEF OneHost, StoreInv
  <2>2. \A q \in Requests : q # r => up[q].pc \notin {"writing", "written"}
    BY <1>1, <2>1 DEF WritesAlone
  <2>3. tmp = i /\ data'[tmp].by = r /\ data'[tmp].whole
    BY <1>1, <1>4, <2>1 DEF WritesAlone
  <2>4. path # None => path # tmp /\ data'[path].whole
    BY <1>4, <2>1, <2>3 DEF WritesAlone, StoreInv, TypeOK
  <2>5. QED
    BY <1>1, <1>2, <2>2, <2>3, <2>4 DEF WritesAlone
<1>10. QED
  BY <1>6, <1>7, <1>8, <1>9 DEF StoreInv

(* A step that ends or advances uploads which are not writing, or that gives  *)
(* up the write, and names no new file, keeps what is known of the files.     *)
LEMMA FilesKept ==
  ASSUME StoreInv, TypeOK', data' = data,
         \A i \in Requests : i = tmp' \/ i = path' => Used(i),
         \A q \in Requests :
           /\ up'[q].inode = up[q].inode
           /\ up'[q].pc \in {up[q].pc, "stored", "done", "failed", "dead"}
           /\ up[q].pc = "writing" => up'[q].pc \in {"writing", "failed", "dead"}
           /\ up[q].pc \in {"failed", "dead"} => up'[q].pc \in {"failed", "dead"}
  PROVE  /\ WritesAFile' /\ NoFileYet' /\ MadeByItsRequest' /\ EmptiedByAUser'
<1>1. \A i \in Requests : Used(i)' => Used(i)
  BY DEF Used
<1>2. WritesAFile' /\ NoFileYet'
  BY DEF StoreInv, WritesAFile, NoFileYet
<1>3. MadeByItsRequest'
  BY <1>1 DEF StoreInv, MadeByItsRequest
<1>4. EmptiedByAUser'
  <2> SUFFICES ASSUME NEW j \in Requests, Used(j)'
               PROVE  /\ up'[data[j].by].inode = j
                      /\ ~data[j].whole => up'[data[j].by].pc \in {"writing", "failed", "dead"}
    BY DEF EmptiedByAUser
  <2>1. /\ data[j].by \in Requests /\ up[data[j].by].inode = j
        /\ ~data[j].whole => up[data[j].by].pc \in {"writing", "failed", "dead"}
    BY <1>1 DEF StoreInv, TypeOK, EmptiedByAUser
  <2>2. QED
    BY <2>1
<1>5. QED
  BY <1>2, <1>3, <1>4

(* A write that fails removes the temporary file. *)
LEMMA AbandonedStore ==
  ASSUME StoreInv, TypeOK', NEW r \in Requests, IsAbandoned(r), UNCHANGED host
  PROVE  StoreInv'
<1>1. up[r].pc = "writing" /\ tmp' = None /\ path' = path /\ rows' = rows /\ data' = data
  BY DEF IsAbandoned
<1>2. /\ up'[r].pc = "failed" /\ up'[r].inode = up[r].inode
      /\ \A q \in Requests : q # r => up'[q] = up[q]
  BY UploadsAt DEF IsAbandoned, StoreInv
<1>3. WritesAFile' /\ NoFileYet' /\ MadeByItsRequest' /\ EmptiedByAUser'
  <2>1. \A i \in Requests : i = tmp' \/ i = path' => Used(i)
    BY <1>1, DocumentApiAssumption DEF Used
  <2>2. QED
    BY <1>1, <1>2, <2>1, FilesKept
<1>4. RowsAreDone' /\ StoredIsThere'
  BY <1>1, <1>2 DEF StoreInv, RowsAreDone, StoredIsThere
<1>5. ASSUME OneHost' PROVE WritesAlone'
  <2>1. WritesAlone
    BY <1>5 DEF OneHost, StoreInv
  <2>2. \A q \in Requests : up'[q].pc \notin {"writing", "written"}
    BY <1>1, <1>2, <2>1 DEF WritesAlone
  <2>3. QED
    BY <1>1, <2>1, <2>2 DEF WritesAlone
<1>6. QED
  BY <1>3, <1>4, <1>5 DEF StoreInv

(* os.replace gives the path to the temporary file, which with one process is *)
(* whole, and no upload has it open any more.                                 *)
LEMMA ReplacedStore ==
  ASSUME StoreInv, TypeOK', NEW r \in Requests, IsReplaced(r), UNCHANGED host
  PROVE  StoreInv'
<1>1. /\ up[r].pc = "written" /\ rows' = rows /\ data' = data /\ tmp' = None
      /\ \/ tmp # None /\ path' = tmp
         \/ tmp = None /\ path' = path
  BY DEF IsReplaced
<1>2. /\ up'[r].pc \in {"stored", "failed"} /\ up'[r].inode = up[r].inode
      /\ up'[r].pc = "stored" => path' # None
      /\ \A q \in Requests : q # r => up'[q] = up[q]
  <2>1. CASE tmp # None /\ path' = tmp /\ Uploads(r, "stored", up[r].inode)
    BY <2>1, UploadsAt DEF StoreInv
  <2>2. CASE Uploads(r, "failed", up[r].inode)
    BY <2>2, UploadsAt DEF StoreInv
  <2>3. QED
    BY <2>1, <2>2 DEF IsReplaced
<1>3. WritesAFile' /\ NoFileYet' /\ MadeByItsRequest' /\ EmptiedByAUser'
  <2>1. \A i \in Requests : i = tmp' \/ i = path' => Used(i)
    BY <1>1, DocumentApiAssumption DEF Used
  <2>2. QED
    BY <1>1, <1>2, <2>1, FilesKept
<1>4. RowsAreDone'
  BY <1>1, <1>2 DEF StoreInv, RowsAreDone
<1>5. StoredIsThere'
  BY <1>1, <1>2 DEF StoreInv, StoredIsThere
<1>6. ASSUME OneHost' PROVE WritesAlone'
  <2>1. WritesAlone
    BY <1>6 DEF OneHost, StoreInv
  <2>2. \A q \in Requests : up'[q].pc \notin {"writing", "written"}
    BY <1>1, <1>2, <2>1 DEF WritesAlone
  <2>3. path' # None => data[path'].whole
    BY <1>1, <2>1 DEF WritesAlone
  <2>4. QED
    BY <1>1, <2>2, <2>3 DEF WritesAlone
<1>7. QED
  BY <1>3, <1>4, <1>5, <1>6 DEF StoreInv

(* A commit, or its failure, leaves the files alone. *)
LEMMA CommittedStore ==
  ASSUME StoreInv, TypeOK', NEW r \in Requests, IsCommitted(r), UNCHANGED host
  PROVE  StoreInv'
<1>1. up[r].pc = "stored" /\ data' = data /\ tmp' = tmp /\ path' = path
  BY DEF IsCommitted
<1>2. /\ \/ up'[r].pc = "done" /\ rows' = rows \cup {r}
         \/ up'[r].pc = "failed" /\ rows' = rows
      /\ up'[r].inode = up[r].inode
      /\ \A q \in Requests : q # r => up'[q] = up[q]
  <2>1. CASE rows' = rows \cup {r} /\ Uploads(r, "done", up[r].inode)
    BY <2>1, UploadsAt DEF StoreInv
  <2>2. CASE rows' = rows /\ Uploads(r, "failed", up[r].inode)
    BY <2>2, UploadsAt DEF StoreInv
  <2>3. QED
    BY <2>1, <2>2 DEF IsCommitted
<1>3. WritesAFile' /\ NoFileYet' /\ MadeByItsRequest' /\ EmptiedByAUser'
  <2>1. \A i \in Requests : i = tmp' \/ i = path' => Used(i)
    BY <1>1 DEF Used
  <2>2. QED
    BY <1>1, <1>2, <2>1, FilesKept
<1>4. RowsAreDone'
  BY <1>1, <1>2 DEF StoreInv, RowsAreDone
<1>5. StoredIsThere'
  BY <1>1, <1>2 DEF StoreInv, StoredIsThere
<1>6. ASSUME OneHost' PROVE WritesAlone'
  <2>1. WritesAlone
    BY <1>6 DEF OneHost, StoreInv
  <2>2. \A q \in Requests : up'[q].pc \in {"writing", "written"} => q # r /\ up'[q] = up[q]
    BY <1>2
  <2>3. QED
    BY <1>1, <2>1, <2>2 DEF WritesAlone
<1>7. QED
  BY <1>3, <1>4, <1>5, <1>6 DEF StoreInv

(* Nor does a death touch them. *)
LEMMA CrashStore ==
  ASSUME StoreInv, TypeOK', NEW p, Crash(p)
  PROVE  StoreInv'
<1>1. data' = data /\ tmp' = tmp /\ path' = path /\ rows' = rows /\ host' = host
  BY CrashMoves DEF StoreInv
<1>2. \A q \in Requests :
        /\ up'[q].inode = up[q].inode
        /\ up'[q].pc = up[q].pc \/ (up'[q].pc = "dead" /\ up[q].pc \notin {"done", "failed", "dead"})
  <2> TAKE q \in Requests
  <2>1. CASE q \in Dies(p)
    <3>1. up'[q] = [pc |-> "dead", inode |-> up[q].inode] /\ up[q].pc \notin {"done", "failed", "dead"}
      BY <2>1, CrashMoves DEF StoreInv, Dies
    <3>2. QED
      BY <3>1
  <2>2. CASE q \notin Dies(p)
    BY <2>2, CrashMoves DEF StoreInv
  <2>3. QED
    BY <2>1, <2>2
<1>3. WritesAFile' /\ NoFileYet' /\ MadeByItsRequest' /\ EmptiedByAUser'
  <2>1. \A i \in Requests : i = tmp' \/ i = path' => Used(i)
    BY <1>1 DEF Used
  <2>2. QED
    BY <1>1, <1>2, <2>1, FilesKept
<1>4. RowsAreDone'
  BY <1>1, <1>2 DEF StoreInv, RowsAreDone
<1>5. StoredIsThere'
  BY <1>1, <1>2 DEF StoreInv, StoredIsThere
<1>6. ASSUME OneHost' PROVE WritesAlone'
  <2>1. WritesAlone
    BY <1>1, <1>6 DEF OneHost, StoreInv
  <2>2. QED
    BY <1>1, <1>2, <2>1 DEF WritesAlone
<1>7. QED
  BY <1>3, <1>4, <1>5, <1>6 DEF StoreInv

(* The invariant of the store is inductive. *)
LEMMA NextStore == StoreInv /\ [Next]_vars => StoreInv'
<1> SUFFICES ASSUME StoreInv, [Next]_vars PROVE StoreInv'
  OBVIOUS
<1>1. TypeOK'
  BY NextType DEF StoreInv
<1>2. ASSUME NEW r \in Requests, Stores(r) PROVE StoreInv'
  <2>1. /\ \/ IsOpened(r) \/ IsFinished(r) \/ IsAbandoned(r) \/ IsReplaced(r) \/ IsCommitted(r)
        /\ UNCHANGED host
    BY <1>2, StoreMoves DEF StoreInv
  <2>2. QED
    BY <1>1, <2>1, OpenedStore, FinishedStore, AbandonedStore, ReplacedStore, CommittedStore
<1>3. ASSUME NEW p \in Procs, Crash(p) PROVE StoreInv'
  BY <1>1, <1>3, CrashStore
<1>4. CASE UNCHANGED <<host, up, tmp, path, data, rows>>
  BY <1>1, <1>4 DEF StoreInv, WritesAFile, NoFileYet, MadeByItsRequest, EmptiedByAUser, RowsAreDone,
                    StoredIsThere, WritesAlone, OneHost, Used
<1>5. QED
  BY <1>2, <1>3, <1>4, StoreView DEF StoreInv

(* The invariant of the store holds in every reachable state. *)
LEMMA StoreInvariant == Spec => []StoreInv
<1>1. QED
  BY InitStore, NextStore, PTL DEF Spec

-----------------------------------------------------------------------------
(* The limiter: the counters expire *)

(* CountersExpire is kept by every step. *)
LEMMA NextExpire ==
  ASSUME TypeOK, WritesAFile, CountersExpire, [Next]_vars
  PROVE  CountersExpire'
<1> DEFINE First(l) == \E q \in Requests : req[q].pc = "first" /\ req[q].label = l
           Fine(l) == counter[l].count > 0 /\ counter[l].expires = Never => l \in unset \/ First(l)
<1>1. /\ req \in [Requests -> RequestType] /\ counter \in [Labels -> [count : Nat, expires : 0..Never]]
      /\ now \in 0..MaxTime
  BY DEF TypeOK, GateTypeOK, RequestType, ReqStates
<1>2. \A l \in Labels : Fine(l)
  BY DEF CountersExpire
<1>3. SUFFICES ASSUME NEW l \in Labels PROVE Fine(l)'
  BY DEF CountersExpire
<1>4. CASE Tick
  <2>1. counter'[l] = Absent \/ counter'[l] = counter[l]
    BY <1>4 DEF Tick
  <2>2. QED
    BY <1>2, <1>4, <2>1 DEF Tick, Absent
<1>5. ASSUME NEW r \in Requests, Gate(r, WriteRoles)
      PROVE  Fine(l)'
  <2>1. req[r].label \in Labels /\ req[r] \in RequestType
    BY <1>1 DEF RequestType
  <2>2. CASE IsRefused(r)
    BY <1>1, <1>2, <2>2 DEF IsRefused, Becomes
  <2>3. CASE IsLabelled(r)
    BY <1>1, <1>2, <2>3 DEF IsLabelled, Becomes
  <2>4. CASE IsCounted(r)
    <3>1. \A q \in Requests : q # r => req'[q] = req[q]
      BY <1>1, <2>4 DEF IsCounted, Becomes
    <3>2. req[r].pc = "labelled" /\ unset' = unset
      BY <2>4 DEF IsCounted
    <3>3. First(l) => First(l)'
      BY <3>1, <3>2
    <3>4. CASE l = req[r].label /\ counter[l].count = 0
      <4>1. req'[r] = Rec("first", req[r].at, l, req[r].via)
        BY <1>1, <2>4, <3>4 DEF IsCounted, Becomes
      <4>2. QED
        BY <4>1 DEF Rec
    <3>5. CASE l = req[r].label /\ counter[l].count # 0
      <4>1. counter'[l].expires = counter[l].expires /\ counter[l].count > 0
        BY <1>1, <2>1, <2>4, <3>5 DEF IsCounted, Key
      <4>2. QED
        BY <1>2, <3>2, <3>3, <4>1
    <3>6. CASE l # req[r].label
      <4>1. counter'[l] = counter[l]
        BY <1>1, <2>4, <3>6 DEF IsCounted, Key
      <4>2. QED
        BY <1>2, <3>2, <3>3, <4>1
    <3>7. QED
      BY <3>4, <3>5, <3>6
  <2>5. CASE SetsExpiry(r)
    <3>1. /\ req[r].pc = "first" /\ unset' = unset
          /\ \A q \in Requests : q # r => req'[q] = req[q]
      BY <1>1, <2>5 DEF SetsExpiry, Becomes
    <3>2. CASE l = req[r].label
      <4>1. counter'[l].expires = Expiry
        BY <1>1, <2>5, <3>2 DEF SetsExpiry, Key
      <4>2. Expiry # Never
        BY <1>1, RateLimiterAssumption DEF Expiry, Never
      <4>3. QED
        BY <4>1, <4>2
    <3>3. CASE l # req[r].label
      <4>1. counter'[l] = counter[l]
        BY <1>1, <2>5, <3>3 DEF SetsExpiry, Key
      <4>2. QED
        BY <1>2, <3>1, <3>3, <4>1
    <3>4. QED
      BY <3>2, <3>3
  <2>6. CASE PassesUncounted(r)
    <3>1. /\ req[r].pc = "labelled"
          /\ \A q \in Requests : q # r => req'[q] = req[q]
      BY <1>1, <2>6 DEF PassesUncounted, Becomes
    <3>2. First(l) => First(l)'
      BY <3>1
    <3>3. CASE UNCHANGED <<counter, unset>>
      BY <1>2, <3>2, <3>3
    <3>4. CASE /\ Key(req[r].label, counter[req[r].label].count + 1, counter[req[r].label].expires)
               /\ unset' = IF counter[req[r].label] = Absent THEN unset \cup {req[r].label} ELSE unset
      <4>1. unset \subseteq unset'
        BY <3>4
      <4>2. CASE l # req[r].label
        <5>1. counter'[l] = counter[l]
          BY <1>1, <3>4, <4>2 DEF Key
        <5>2. QED
          BY <1>2, <3>2, <4>1, <5>1
      <4>3. CASE l = req[r].label
        <5>1. counter'[l].expires = counter[l].expires
          BY <1>1, <3>4, <4>3 DEF Key
        <5>2. CASE counter[l] = Absent
          BY <3>4, <4>3, <5>2
        <5>3. CASE counter[l] # Absent /\ counter[l].expires = Never
          <6>1. counter[l] = [count |-> counter[l].count, expires |-> counter[l].expires] /\ counter[l].count \in Nat
            BY <1>1
          <6>2. counter[l].count > 0
            BY <5>3, <6>1 DEF Absent
          <6>3. QED
            BY <1>2, <3>2, <4>1, <5>3, <6>2
        <5>4. QED
          BY <5>1, <5>2, <5>3
      <4>4. QED
        BY <4>2, <4>3
    <3>5. QED
      BY <2>6, <3>3, <3>4 DEF PassesUncounted
  <2>7. CASE PassesUnset(r)
    <3>1. /\ counter' = counter /\ unset' = unset \cup {req[r].label}
          /\ \A q \in Requests : q # r => req'[q] = req[q]
      BY <1>1, <2>7 DEF PassesUnset, Becomes
    <3>2. QED
      BY <1>2, <3>1
  <2>8. QED
    BY <1>5, <2>2, <2>3, <2>4, <2>5, <2>6, <2>7, GateMoves DEF TypeOK
<1>6. ASSUME NEW r \in Requests, Stores(r)
      PROVE  Fine(l)'
  <2>1. UNCHANGED <<req, counter, unset>>
    BY <1>6, StoreMoves
  <2>2. QED
    BY <1>2, <2>1
<1>7. ASSUME NEW p \in Procs, Crash(p)
      PROVE  Fine(l)'
  <2>1. counter' = counter /\ unset \subseteq unset'
    BY <1>7, CrashMoves
  <2>2. ASSUME NEW q \in Requests, req[q].pc = "first", req[q].label = l
        PROVE  l \in unset' \/ First(l)'
    <3>1. CASE q \in Dies(p)
      BY <1>7, <2>2, <3>1, CrashMoves
    <3>2. CASE q \notin Dies(p)
      BY <1>7, <2>2, <3>2, CrashMoves
    <3>3. QED
      BY <3>1, <3>2
  <2>3. QED
    BY <1>2, <2>1, <2>2
<1>8. CASE UNCHANGED vars
  BY <1>2, <1>8 DEF vars, gate
<1>9. QED
  BY <1>4, <1>5, <1>6, <1>7, <1>8, GateView

-----------------------------------------------------------------------------
(* The limiter: no more than the limit *)

(* The requests that a window's counter let in, or is about to. *)
Counted(l) == {r \in Requests : req[r].label = l /\ req[r].via = "counted"}

(* Those, and the one that was counted first and has to set the expiry. *)
Counting(l) == {r \in Requests : req[r].label = l /\ (req[r].via = "counted" \/ req[r].pc = "first")}

(* A request on its way to Redis read the clock in its window, and not long ago. *)
OnItsWay ==
  \A r \in Requests :
    /\ req[r].pc \in {"labelled", "first"} => req[r].label <= now
    /\ req[r].pc = "labelled" =>
         /\ req[r].at < req[r].label + Window
         /\ req[r].at <= now /\ now <= req[r].at + Latency

(* A counter outlives the last request that is counted by it. *)
KeyLasts == \A l \in Labels : now <= l + Window => counter[l].expires > l + Window

(* While requests of its window can arrive, a counter misses none that passed. *)
CountsAll == \A l \in Labels : now <= l + Window => Cardinality(Counting(l)) <= counter[l].count

(* A window lets in no more than the limit. *)
WithinLimit ==
  caller \in Roles =>
    \A l \in Labels :
      /\ Cardinality(Counted(l)) <= Limit
      /\ Limit > 0 => Cardinality(Counting(l)) <= Limit

(* The inductive invariant of the limiter. *)
LimitInv == OnItsWay /\ KeyLasts /\ CountsAll /\ WithinLimit

(* How many are in a part of a finite set, and in a set with one more. *)
LEMMA CardSteps ==
  ASSUME NEW S, IsFiniteSet(S), NEW T
  PROVE  /\ Cardinality(S) \in Nat
         /\ T \subseteq S => Cardinality(T) \in Nat /\ Cardinality(T) <= Cardinality(S)
         /\ \A x : T \subseteq S \cup {x} => Cardinality(T) \in Nat /\ Cardinality(T) <= Cardinality(S) + 1
<1>1. Cardinality(S) \in Nat
  BY FS_CardinalityType
<1>2. ASSUME T \subseteq S PROVE Cardinality(T) \in Nat /\ Cardinality(T) <= Cardinality(S)
  BY <1>2, FS_Subset, FS_CardinalityType
<1>3. ASSUME NEW x, T \subseteq S \cup {x}
      PROVE  Cardinality(T) \in Nat /\ Cardinality(T) <= Cardinality(S) + 1
  <2>1. /\ IsFiniteSet(S \cup {x})
        /\ Cardinality(S \cup {x}) = Cardinality(S) \/ Cardinality(S \cup {x}) = Cardinality(S) + 1
    BY FS_AddElement
  <2>2. Cardinality(T) \in Nat /\ Cardinality(T) <= Cardinality(S \cup {x})
    BY <1>3, <2>1, FS_Subset, FS_CardinalityType
  <2>3. QED
    BY <1>1, <2>1, <2>2
<1>4. QED
  BY <1>1, <1>2, <1>3

(* The sets of the requests of a window are finite. *)
LEMMA CountingFinite ==
  ASSUME NEW l
  PROVE  /\ IsFiniteSet(Counted(l)) /\ IsFiniteSet(Counting(l)) /\ Counted(l) \subseteq Counting(l)
         /\ Cardinality(Counted(l)) \in Nat /\ Cardinality(Counting(l)) \in Nat
<1>1. Counted(l) \subseteq Requests /\ Counting(l) \subseteq Requests /\ Counted(l) \subseteq Counting(l)
  BY DEF Counted, Counting
<1>2. QED
  BY <1>1, RateLimiterAssumption, FS_Subset, FS_CardinalityType

(* At first nobody is counted. *)
LEMMA InitLimit == Init => LimitInv
<1> SUFFICES ASSUME Init PROVE LimitInv
  OBVIOUS
<1>1. /\ \A r \in Requests : req[r] = NoRequest
      /\ \A l \in Labels : counter[l] = Absent
      /\ now = 0
  BY DEF Init, GateInit
<1>2. \A l \in Labels : Counted(l) = {} /\ Counting(l) = {}
  BY <1>1 DEF Counted, Counting, NoRequest
<1>3. Cardinality({}) = 0
  BY FS_EmptySet
<1>4. OnItsWay
  BY <1>1 DEF OnItsWay, NoRequest
<1>5. KeyLasts
  BY <1>1, LabelIsTime, RateLimiterAssumption DEF KeyLasts, Absent, Never
<1>6. CountsAll
  BY <1>1, <1>2, <1>3 DEF CountsAll, Absent
<1>7. WithinLimit
  BY <1>2, <1>3, RateLimiterAssumption DEF WithinLimit, Limit
<1>8. QED
  BY <1>4, <1>5, <1>6, <1>7 DEF LimitInv

(* A step in which no request is counted, and no counter goes back, keeps the *)
(* limit.                                                                     *)
LEMMA NoneCounted ==
  ASSUME TypeOK, LimitInv, now' = now, caller' = caller,
         \A l \in Labels : /\ Counted(l)' \subseteq Counted(l) /\ Counting(l)' \subseteq Counting(l)
                           /\ counter'[l].count \in Nat /\ counter'[l].count >= counter[l].count
  PROVE  CountsAll' /\ WithinLimit'
<1>1. \A l \in Labels : counter[l].count \in Nat
  BY DEF TypeOK, GateTypeOK
<1>2. ASSUME NEW l \in Labels
      PROVE  /\ Cardinality(Counted(l)') <= Cardinality(Counted(l)) /\ Cardinality(Counted(l)') \in Nat
             /\ Cardinality(Counting(l)') <= Cardinality(Counting(l)) /\ Cardinality(Counting(l)') \in Nat
  BY CardSteps, CountingFinite
<1>3. \A l \in Labels : Cardinality(Counted(l)) \in Nat /\ Cardinality(Counting(l)) \in Nat
  BY CountingFinite
<1>4. CountsAll'
  <2> SUFFICES ASSUME NEW l \in Labels, now <= l + Window
               PROVE  Cardinality(Counting(l)') <= counter'[l].count
    BY DEF CountsAll
  <2>1. Cardinality(Counting(l)) <= counter[l].count
    BY DEF LimitInv, CountsAll
  <2>2. QED
    BY <1>1, <1>2, <1>3, <2>1
<1>5. WithinLimit'
  <2> SUFFICES ASSUME caller \in Roles, NEW l \in Labels
               PROVE  /\ Cardinality(Counted(l)') <= Limit
                      /\ Limit > 0 => Cardinality(Counting(l)') <= Limit
    BY DEF WithinLimit, Limit
  <2>1. Limit \in Nat
    BY RateLimiterAssumption DEF Limit
  <2>2. /\ Cardinality(Counted(l)) <= Limit
        /\ Limit > 0 => Cardinality(Counting(l)) <= Limit
    BY DEF LimitInv, WithinLimit
  <2>3. QED
    BY <1>2, <1>3, <2>1, <2>2
<1>6. QED
  BY <1>4, <1>5

(* The seconds that pass: a counter does not go before the last request that  *)
(* is counted by it has arrived.                                              *)
LEMMA TickLimit ==
  ASSUME TypeOK, LimitInv, Tick
  PROVE  LimitInv'
<1>1. /\ now \in Nat /\ now' = now + 1 /\ req' = req /\ caller' = caller
      /\ \A r \in Requests : req[r].at \in Nat /\ req[r].label \in Nat
      /\ Window \in Nat /\ Latency \in Nat /\ MaxTime \in Nat
      /\ \A l \in Labels : l \in Nat /\ l <= MaxTime
      /\ \A l \in Labels : counter[l].expires \in Nat
  BY RateLimiterAssumption, LabelIsTime DEF TypeOK, GateTypeOK, Tick, Never
<1>2. OnItsWay'
  <2> SUFFICES ASSUME NEW r \in Requests
               PROVE  /\ req[r].pc \in {"labelled", "first"} => req[r].label <= now + 1
                      /\ req[r].pc = "labelled" =>
                           /\ req[r].at < req[r].label + Window
                           /\ req[r].at <= now + 1 /\ now + 1 <= req[r].at + Latency
    BY <1>1 DEF OnItsWay
  <2>1. req[r].pc = "labelled" => now - req[r].at < Latency
    BY DEF Tick
  <2>2. QED
    BY <1>1, <2>1 DEF LimitInv, OnItsWay
<1>3. ASSUME NEW l \in Labels, now + 1 <= l + Window
      PROVE  counter'[l] = counter[l] /\ counter[l].expires > l + Window /\ now <= l + Window
  <2>1. now <= l + Window
    BY <1>1, <1>3
  <2>2. counter[l].expires > l + Window
    BY <2>1 DEF LimitInv, KeyLasts
  <2>3. ~(counter[l].expires <= now + 1)
    BY <1>1, <1>3, <2>2
  <2>4. QED
    BY <1>1, <2>1, <2>2, <2>3 DEF Tick
<1>4. KeyLasts'
  BY <1>1, <1>3 DEF KeyLasts
<1>5. CountsAll'
  BY <1>1, <1>3 DEF LimitInv, CountsAll, Counting
<1>6. WithinLimit'
  BY <1>1 DEF LimitInv, WithinLimit, Counted, Counting, Limit
<1>7. QED
  BY <1>2, <1>4, <1>5, <1>6 DEF LimitInv

(* INCR: the counter says how many passed before, so the request passes only  *)
(* if they were fewer than the limit.                                         *)
LEMMA CountedLimit ==
  ASSUME TypeOK, LimitInv, Latency <= 1, NEW r \in Requests, IsCounted(r)
  PROVE  LimitInv'
<1>0. PICK m \in Labels, n \in Nat : m = req[r].label /\ n = counter[m].count
  BY DEF TypeOK, GateTypeOK
<1>1. /\ req \in [Requests -> RequestType] /\ req[r] \in RequestType
      /\ counter \in [Labels -> [count : Nat, expires : 0..Never]]
      /\ m \in Nat
      /\ now \in Nat /\ req[r].at \in Nat /\ Window \in Nat /\ Latency \in Nat
  BY RateLimiterAssumption, LabelIsTime DEF TypeOK, GateTypeOK, RequestType, ReqStates
<1>2. /\ req[r].pc = "labelled" /\ now' = now /\ caller' = caller
      /\ counter' = [counter EXCEPT ![m] = [count |-> n + 1, expires |-> counter[m].expires]]
      /\ req' = [req EXCEPT ![r] = IF n = 0 THEN Rec("first", req[r].at, m, req[r].via)
                                   ELSE Decided(r, n + 1)]
  BY <1>0 DEF IsCounted, Becomes, Key
<1>3. now <= m + Window
  <2>1. req[r].at < m + Window /\ now <= req[r].at + Latency
    BY <1>0, <1>2 DEF LimitInv, OnItsWay
  <2>2. QED
    BY <1>1, <2>1
<1>4. /\ counter'[m].count = n + 1 /\ counter'[m].expires = counter[m].expires
      /\ \A l \in Labels : l # m => counter'[l] = counter[l]
  BY <1>1, <1>2
<1>5. /\ \A q \in Requests : q # r => req'[q] = req[q]
      /\ req'[r] = IF n = 0 THEN Rec("first", req[r].at, m, req[r].via) ELSE Decided(r, n + 1)
  BY <1>1, <1>2
<1>6. /\ req'[r].label = m /\ req'[r].pc # "labelled"
      /\ n = 0 => req'[r].pc = "first" /\ req'[r].via = req[r].via
      /\ n # 0 => req'[r].pc # "first"
      /\ n # 0 /\ n + 1 > Limit => req'[r].via = req[r].via
  <2>1. CASE n = 0
    BY <1>5, <2>1 DEF Rec
  <2>2. CASE n # 0
    <3>1. req'[r] = Decided(r, n + 1)
      BY <1>5, <2>2
    <3>2. n + 1 > Limit => Decided(r, n + 1) = Rec("429", req[r].at, m, req[r].via)
      BY <1>0, <1>1 DEF Decided, Rec, RequestType, ReqStates
    <3>3. Decided(r, n + 1) \in {Rec("429", req[r].at, m, req[r].via), Rec("admitted", req[r].at, m, "counted")}
      BY <1>0, <1>1, DecidedIs
    <3>4. QED
      BY <2>2, <3>1, <3>2, <3>3 DEF Rec
  <2>3. QED
    BY <2>1, <2>2
<1>7. OnItsWay'
  <2> SUFFICES ASSUME NEW q \in Requests
               PROVE  /\ req'[q].pc \in {"labelled", "first"} => req'[q].label <= now
                      /\ req'[q].pc = "labelled" =>
                           /\ req'[q].at < req'[q].label + Window
                           /\ req'[q].at <= now /\ now <= req'[q].at + Latency
    BY <1>2 DEF OnItsWay
  <2>1. CASE q = r
    BY <1>0, <1>2, <1>6, <2>1 DEF LimitInv, OnItsWay
  <2>2. CASE q # r
    BY <1>5, <2>2 DEF LimitInv, OnItsWay
  <2>3. QED
    BY <2>1, <2>2
<1>8. KeyLasts'
  BY <1>2, <1>4 DEF LimitInv, KeyLasts
<1>9. /\ Counting(m)' \subseteq Counting(m) \cup {r}
      /\ Counted(m)' \subseteq Counted(m) \cup {r}
      /\ \A l \in Labels : l # m => Counting(l)' \subseteq Counting(l) /\ Counted(l)' \subseteq Counted(l)
      /\ n = 0 => Counted(m)' \subseteq Counted(m)
      /\ n # 0 /\ n + 1 > Limit => Counted(m)' \subseteq Counted(m) /\ Counting(m)' \subseteq Counting(m)
  <2>1. \A q \in Requests : q # r => req'[q].label = req[q].label /\ req'[q].via = req[q].via /\ req'[q].pc = req[q].pc
    BY <1>5
  <2>2. req[r].label = m
    BY <1>0
  <2>3. QED
    BY <1>6, <2>1, <2>2 DEF Counting, Counted
<1>10. Cardinality(Counting(m)) <= n /\ Cardinality(Counting(m)) \in Nat
  BY <1>0, <1>3, CountingFinite DEF LimitInv, CountsAll
<1>11. Cardinality(Counting(m)') <= n + 1 /\ Cardinality(Counting(m)') \in Nat
  <2>1. Cardinality(Counting(m)') <= Cardinality(Counting(m)) + 1 /\ Cardinality(Counting(m)') \in Nat
    BY <1>9, CountingFinite, CardSteps
  <2>2. QED
    BY <1>1, <1>10, <2>1
<1>12. CountsAll'
  <2> SUFFICES ASSUME NEW l \in Labels, now <= l + Window
               PROVE  Cardinality(Counting(l)') <= counter'[l].count
    BY <1>2 DEF CountsAll
  <2>1. CASE l = m
    BY <1>4, <1>11, <2>1
  <2>2. CASE l # m
    <3>1. Cardinality(Counting(l)') <= Cardinality(Counting(l)) /\ Cardinality(Counting(l)') \in Nat
      BY <1>9, <2>2, CountingFinite, CardSteps
    <3>2. Cardinality(Counting(l)) <= counter[l].count /\ Cardinality(Counting(l)) \in Nat /\ counter[l].count \in Nat
      BY <1>1, CountingFinite DEF LimitInv, CountsAll
    <3>3. QED
      BY <1>4, <2>2, <3>1, <3>2
  <2>3. QED
    BY <2>1, <2>2
<1>13. WithinLimit'
  <2> SUFFICES ASSUME caller \in Roles, NEW l \in Labels
               PROVE  /\ Cardinality(Counted(l)') <= Limit
                      /\ Limit > 0 => Cardinality(Counting(l)') <= Limit
    BY <1>2 DEF WithinLimit, Limit
  <2>1. Limit \in Nat
    BY RateLimiterAssumption DEF Limit
  <2>2. /\ Cardinality(Counted(l)) <= Limit /\ Cardinality(Counted(l)) \in Nat
        /\ Limit > 0 => Cardinality(Counting(l)) <= Limit
        /\ Cardinality(Counting(l)) \in Nat
    BY CountingFinite DEF LimitInv, WithinLimit
  <2>3. ASSUME Counted(l)' \subseteq Counted(l)
        PROVE  Cardinality(Counted(l)') <= Limit
    <3>1. Cardinality(Counted(l)') <= Cardinality(Counted(l)) /\ Cardinality(Counted(l)') \in Nat
      BY <2>3, CountingFinite, CardSteps
    <3>2. QED
      BY <2>1, <2>2, <3>1
  <2>4. ASSUME Counting(l)' \subseteq Counting(l), Limit > 0
        PROVE  Cardinality(Counting(l)') <= Limit
    <3>1. Cardinality(Counting(l)') <= Cardinality(Counting(l)) /\ Cardinality(Counting(l)') \in Nat
      BY <2>4, CountingFinite, CardSteps
    <3>2. QED
      BY <2>1, <2>2, <2>4, <3>1
  <2>5. CASE l # m
    BY <1>9, <2>3, <2>4, <2>5
  <2>6. CASE l = m /\ n = 0
    BY <1>9, <1>11, <2>1, <2>3, <2>6
  <2>7. CASE l = m /\ n # 0 /\ n + 1 > Limit
    BY <1>9, <2>3, <2>4, <2>7
  <2>8. CASE l = m /\ n # 0 /\ ~(n + 1 > Limit)
    <3>1. Cardinality(Counting(m)') <= Limit
      BY <1>1, <1>11, <2>1, <2>8
    <3>2. Cardinality(Counted(m)') <= Cardinality(Counting(m)') /\ Cardinality(Counted(m)') \in Nat
      <4>1. Counted(m)' \subseteq Counting(m)'
        BY DEF Counted, Counting
      <4>2. IsFiniteSet(Counting(m)')
        <5>1. Counting(m)' \subseteq Requests
          BY DEF Counting
        <5>2. QED
          BY <5>1, RateLimiterAssumption, FS_Subset
      <4>3. QED
        BY <4>1, <4>2, CardSteps
    <3>3. QED
      BY <1>11, <2>1, <2>8, <3>1, <3>2
  <2>9. QED
    BY <2>5, <2>6, <2>7, <2>8
<1>14. QED
  BY <1>7, <1>8, <1>12, <1>13 DEF LimitInv

(* EXPIRE: the request that made the counter was one of its count already,    *)
(* and the counter outlives its window.                                       *)
LEMMA ExpiryLimit ==
  ASSUME TypeOK, LimitInv, NEW r \in Requests, SetsExpiry(r)
  PROVE  LimitInv'
<1>0. PICK m \in Labels, n \in Nat : m = req[r].label /\ n = counter[m].count
  BY DEF TypeOK, GateTypeOK
<1>1. /\ req \in [Requests -> RequestType] /\ req[r] \in RequestType
      /\ counter \in [Labels -> [count : Nat, expires : 0..Never]]
      /\ m \in Nat /\ now \in Nat /\ Window \in Nat
  BY RateLimiterAssumption, LabelIsTime DEF TypeOK, GateTypeOK, RequestType, ReqStates
<1>2. /\ req[r].pc = "first" /\ now' = now /\ caller' = caller
      /\ counter' = [counter EXCEPT ![m] = [count |-> n, expires |-> Expiry]]
      /\ req' = [req EXCEPT ![r] = Decided(r, 1)]
  BY <1>0 DEF SetsExpiry, Becomes, Key
<1>3. /\ counter'[m].count = n /\ counter'[m].expires = Expiry
      /\ \A l \in Labels : l # m => counter'[l] = counter[l]
      /\ \A q \in Requests : q # r => req'[q] = req[q]
      /\ req'[r] = Decided(r, 1)
  BY <1>1, <1>2
<1>4. /\ req'[r].label = m /\ req'[r].pc \notin {"labelled", "first"}
      /\ 1 > Limit => req'[r].via = req[r].via
  <2>1. 1 > Limit => Decided(r, 1) = Rec("429", req[r].at, m, req[r].via)
    BY <1>0, <1>1 DEF Decided, Rec, RequestType, ReqStates
  <2>2. Decided(r, 1) \in {Rec("429", req[r].at, m, req[r].via), Rec("admitted", req[r].at, m, "counted")}
    BY <1>0, <1>1, DecidedIs
  <2>3. QED
    BY <1>3, <2>1, <2>2 DEF Rec
<1>5. OnItsWay'
  <2> SUFFICES ASSUME NEW q \in Requests
               PROVE  /\ req'[q].pc \in {"labelled", "first"} => req'[q].label <= now
                      /\ req'[q].pc = "labelled" =>
                           /\ req'[q].at < req'[q].label + Window
                           /\ req'[q].at <= now /\ now <= req'[q].at + Latency
    BY <1>2 DEF OnItsWay
  <2>1. CASE q = r
    BY <1>4, <2>1
  <2>2. CASE q # r
    BY <1>3, <2>2 DEF LimitInv, OnItsWay
  <2>3. QED
    BY <2>1, <2>2
<1>6. KeyLasts'
  <2>1. m <= now
    BY <1>0, <1>2 DEF LimitInv, OnItsWay
  <2>2. Expiry > m + Window
    BY <1>1, <2>1 DEF Expiry
  <2>3. QED
    BY <1>2, <1>3, <2>2 DEF LimitInv, KeyLasts
<1>7. \A l \in Labels : /\ Counting(l)' \subseteq Counting(l)
                        /\ Counted(l)' \subseteq Counting(l)
                        /\ 1 > Limit => Counted(l)' \subseteq Counted(l)
  <2>1. \A q \in Requests : q # r => req'[q].label = req[q].label /\ req'[q].via = req[q].via /\ req'[q].pc = req[q].pc
    BY <1>3
  <2>2. QED
    BY <1>0, <1>2, <1>4, <2>1 DEF Counting, Counted
<1>8. \A l \in Labels : Cardinality(Counting(l)') <= Cardinality(Counting(l)) /\ Cardinality(Counting(l)') \in Nat
  BY <1>7, CountingFinite, CardSteps
<1>9. CountsAll'
  <2> SUFFICES ASSUME NEW l \in Labels, now <= l + Window
               PROVE  Cardinality(Counting(l)') <= counter'[l].count
    BY <1>2 DEF CountsAll
  <2>1. counter'[l].count = counter[l].count /\ counter[l].count \in Nat
    BY <1>0, <1>1, <1>3
  <2>2. Cardinality(Counting(l)) <= counter[l].count /\ Cardinality(Counting(l)) \in Nat
    BY CountingFinite DEF LimitInv, CountsAll
  <2>3. QED
    BY <1>8, <2>1, <2>2
<1>10. WithinLimit'
  <2> SUFFICES ASSUME caller \in Roles, NEW l \in Labels
               PROVE  /\ Cardinality(Counted(l)') <= Limit
                      /\ Limit > 0 => Cardinality(Counting(l)') <= Limit
    BY <1>2 DEF WithinLimit, Limit
  <2>1. Limit \in Nat
    BY RateLimiterAssumption DEF Limit
  <2>2. /\ Cardinality(Counted(l)) <= Limit /\ Cardinality(Counted(l)) \in Nat
        /\ Limit > 0 => Cardinality(Counting(l)) <= Limit
        /\ Cardinality(Counting(l)) \in Nat
    BY CountingFinite DEF LimitInv, WithinLimit
  <2>3. CASE 1 > Limit
    <3>1. Cardinality(Counted(l)') <= Cardinality(Counted(l)) /\ Cardinality(Counted(l)') \in Nat
      BY <1>7, <2>3, CountingFinite, CardSteps
    <3>2. QED
      BY <2>1, <2>2, <2>3, <3>1
  <2>4. CASE ~(1 > Limit)
    <3>1. Cardinality(Counted(l)') <= Cardinality(Counting(l)) /\ Cardinality(Counted(l)') \in Nat
      BY <1>7, CountingFinite, CardSteps
    <3>2. QED
      BY <1>8, <2>1, <2>2, <2>4, <3>1
  <2>5. QED
    BY <2>3, <2>4
<1>11. QED
  BY <1>5, <1>6, <1>9, <1>10 DEF LimitInv

(* A request that reads the clock is in the window of the moment. *)
LEMMA LabelledLimit ==
  ASSUME TypeOK, LimitInv, NEW r \in Requests, IsLabelled(r)
  PROVE  LimitInv'
<1>1. PICK m \in Labels : m = now - (now % Window) /\ m \in Nat /\ m <= now /\ now < m + Window
  BY WindowOf DEF TypeOK, GateTypeOK
<1>2. /\ now' = now /\ caller' = caller /\ counter' = counter
      /\ req' = [req EXCEPT ![r] = Rec("labelled", now, m, "none")]
      /\ now \in Nat /\ Latency \in Nat
  BY <1>1, RateLimiterAssumption DEF IsLabelled, Becomes, TypeOK, GateTypeOK
<1>3. /\ \A q \in Requests : q # r => req'[q] = req[q]
      /\ req'[r] = Rec("labelled", now, m, "none")
  BY <1>2 DEF TypeOK, GateTypeOK
<1>4. req'[r].pc = "labelled" /\ req'[r].at = now /\ req'[r].label = m /\ req'[r].via = "none"
  BY <1>3 DEF Rec
<1>5. OnItsWay'
  <2> SUFFICES ASSUME NEW q \in Requests
               PROVE  /\ req'[q].pc \in {"labelled", "first"} => req'[q].label <= now
                      /\ req'[q].pc = "labelled" =>
                           /\ req'[q].at < req'[q].label + Window
                           /\ req'[q].at <= now /\ now <= req'[q].at + Latency
    BY <1>2 DEF OnItsWay
  <2>1. CASE q = r
    BY <1>1, <1>2, <1>4, <2>1
  <2>2. CASE q # r
    BY <1>3, <2>2 DEF LimitInv, OnItsWay
  <2>3. QED
    BY <2>1, <2>2
<1>6. KeyLasts'
  BY <1>2 DEF LimitInv, KeyLasts
<1>7. \A l \in Labels : Counted(l)' \subseteq Counted(l) /\ Counting(l)' \subseteq Counting(l)
  BY <1>3, <1>4 DEF Counted, Counting
<1>8. CountsAll' /\ WithinLimit'
  <2>1. \A l \in Labels : counter'[l].count \in Nat /\ counter'[l].count >= counter[l].count
    BY <1>2 DEF TypeOK, GateTypeOK
  <2>2. QED
    BY <1>2, <1>7, <2>1, NoneCounted
<1>9. QED
  BY <1>5, <1>6, <1>8 DEF LimitInv

(* Requests that are refused, pass for an error of Redis or die are not       *)
(* counted, and leave the way to Redis.                                       *)
LEMMA LeavesLimit ==
  ASSUME TypeOK, TypeOK', LimitInv, now' = now, caller' = caller,
         \A q \in Requests :
           \/ req'[q] = req[q]
           \/ /\ req'[q].pc \notin {"labelled", "first"} /\ req'[q].label = req[q].label
              /\ req'[q].via \in {req[q].via, "open"},
         \A l \in Labels : /\ counter'[l].expires = counter[l].expires
                           /\ counter'[l].count >= counter[l].count
  PROVE  LimitInv'
<1>1. OnItsWay'
  <2> SUFFICES ASSUME NEW q \in Requests
               PROVE  /\ req'[q].pc \in {"labelled", "first"} => req'[q].label <= now
                      /\ req'[q].pc = "labelled" =>
                           /\ req'[q].at < req'[q].label + Window
                           /\ req'[q].at <= now /\ now <= req'[q].at + Latency
    BY DEF OnItsWay
  <2>1. CASE req'[q] = req[q]
    BY <2>1 DEF LimitInv, OnItsWay
  <2>2. CASE req'[q].pc \notin {"labelled", "first"}
    BY <2>2
  <2>3. QED
    BY <2>1, <2>2
<1>2. KeyLasts'
  BY DEF LimitInv, KeyLasts
<1>3. \A l \in Labels : Counted(l)' \subseteq Counted(l) /\ Counting(l)' \subseteq Counting(l)
  BY DEF Counted, Counting
<1>4. \A l \in Labels : counter'[l].count \in Nat
  BY DEF TypeOK, GateTypeOK
<1>5. CountsAll' /\ WithinLimit'
  BY <1>3, <1>4, NoneCounted
<1>6. QED
  BY <1>1, <1>2, <1>5 DEF LimitInv

(* The invariant of the limiter is inductive, when a request reaches Redis no *)
(* later than a second after it read the clock.                               *)
LEMMA NextLimit ==
  ASSUME TypeOK, TypeOK', WritesAFile, LimitInv, Latency <= 1, [Next]_vars
  PROVE  LimitInv'
<1>1. /\ req \in [Requests -> RequestType]
      /\ counter \in [Labels -> [count : Nat, expires : 0..Never]]
  BY DEF TypeOK, GateTypeOK, RequestType, ReqStates
<1>2. CASE Tick
  BY <1>2, TickLimit
<1>3. ASSUME NEW r \in Requests, Gate(r, WriteRoles) PROVE LimitInv'
  <2>1. CASE IsRefused(r)
    <3>1. PICK pc \in {"401", "403"} : Becomes(r, Rec(pc, req[r].at, req[r].label, req[r].via))
      BY <2>1 DEF IsRefused
    <3>2. /\ req'[r] = Rec(pc, req[r].at, req[r].label, req[r].via)
          /\ \A q \in Requests : q # r => req'[q] = req[q]
          /\ now' = now /\ caller' = caller
      BY <1>1, <3>1 DEF Becomes
    <3>3. req'[r].pc \notin {"labelled", "first"} /\ req'[r].label = req[r].label /\ req'[r].via = req[r].via
      BY <3>2 DEF Rec
    <3>4. \A l \in Labels : /\ counter'[l].expires = counter[l].expires
                            /\ counter'[l].count >= counter[l].count
      BY <1>1, <2>1 DEF IsRefused
    <3>5. QED
      BY <3>2, <3>3, <3>4, LeavesLimit
  <2>2. CASE IsLabelled(r)
    BY <2>2, LabelledLimit
  <2>3. CASE IsCounted(r)
    BY <2>3, CountedLimit
  <2>4. CASE SetsExpiry(r)
    BY <2>4, ExpiryLimit
  <2>5. CASE PassesUncounted(r) \/ PassesUnset(r)
    <3>1. Becomes(r, Rec("admitted", req[r].at, req[r].label, "open"))
      BY <2>5 DEF PassesUncounted, PassesUnset
    <3>2. /\ req'[r] = Rec("admitted", req[r].at, req[r].label, "open")
          /\ \A q \in Requests : q # r => req'[q] = req[q]
          /\ now' = now /\ caller' = caller
      BY <1>1, <3>1 DEF Becomes
    <3>3. req'[r].pc \notin {"labelled", "first"} /\ req'[r].label = req[r].label /\ req'[r].via = "open"
      BY <3>2 DEF Rec
    <3>4. \A l \in Labels : /\ counter'[l].expires = counter[l].expires
                            /\ counter'[l].count >= counter[l].count
      <4>1. CASE counter' = counter
        BY <1>1, <4>1
      <4>2. CASE Key(req[r].label, counter[req[r].label].count + 1, counter[req[r].label].expires)
        <5> TAKE l \in Labels
        <5>1. CASE l = req[r].label
          BY <1>1, <4>2, <5>1 DEF Key
        <5>2. CASE l # req[r].label
          BY <1>1, <4>2, <5>2 DEF Key
        <5>3. QED
          BY <5>1, <5>2
      <4>3. QED
        BY <2>5, <4>1, <4>2 DEF PassesUncounted, PassesUnset
    <3>5. QED
      BY <3>2, <3>3, <3>4, LeavesLimit
  <2>6. QED
    BY <1>3, <2>1, <2>2, <2>3, <2>4, <2>5, GateMoves DEF TypeOK
<1>4. ASSUME UNCHANGED <<now, caller, req, counter>> PROVE LimitInv'
  BY <1>4 DEF LimitInv, OnItsWay, KeyLasts, CountsAll, WithinLimit, Counted, Counting, Limit
<1>5. ASSUME NEW r \in Requests, Stores(r) PROVE LimitInv'
  <2>1. UNCHANGED <<now, caller, req, counter>>
    BY <1>5, StoreMoves
  <2>2. QED
    BY <1>4, <2>1
<1>6. ASSUME NEW p \in Procs, Crash(p) PROVE LimitInv'
  <2>1. now' = now /\ caller' = caller /\ counter' = counter
    BY <1>6, CrashMoves
  <2>2. \A q \in Requests :
          \/ req'[q] = req[q]
          \/ /\ req'[q].pc \notin {"labelled", "first"} /\ req'[q].label = req[q].label
             /\ req'[q].via \in {req[q].via, "open"}
    <3> TAKE q \in Requests
    <3>1. CASE q \in Dies(p)
      <4>1. req'[q] = Rec("dead", req[q].at, req[q].label, req[q].via)
        BY <1>6, <3>1, CrashMoves
      <4>2. QED
        BY <4>1 DEF Rec
    <3>2. CASE q \notin Dies(p)
      BY <1>6, <3>2, CrashMoves
    <3>3. QED
      BY <3>1, <3>2
  <2>3. \A l \in Labels : /\ counter'[l].expires = counter[l].expires
                          /\ counter'[l].count >= counter[l].count
    BY <1>1, <2>1
  <2>4. QED
    BY <2>1, <2>2, <2>3, LeavesLimit
<1>7. CASE UNCHANGED vars
  BY <1>4, <1>7 DEF vars, gate
<1>8. QED
  BY <1>2, <1>3, <1>5, <1>6, <1>7, GateView

-----------------------------------------------------------------------------
(* Type correctness of the gate, the uploads and the files. *)
THEOREM TypeCorrect == Spec => []TypeOK
<1>1. StoreInv => TypeOK
  BY DEF StoreInv
<1>2. QED
  BY <1>1, StoreInvariant, PTL

(* When a document's row is committed its payload is at its path, whatever    *)
(* other uploads of the content do or fail to do, in whatever process.        *)
THEOREM PayloadAlwaysPresent == Spec => []PayloadPresent
<1>1. StoreInv => PayloadPresent
  BY DEF StoreInv, RowsAreDone, StoredIsThere, PayloadPresent
<1>2. QED
  BY <1>1, StoreInvariant, PTL

(* The upload that truncated a torn file last has no row, and is still         *)
(* writing, failed or died.                                                    *)
TornByPeer ==
  rows # {} /\ Torn =>
    LET by == data[path].by
    IN  by \notin rows /\ up[by].pc \in {"writing", "failed", "dead"}

(* With several API processes on one volume the write is not atomic, against  *)
(* local.py's comment; how far it goes wrong: the payload of a committed      *)
(* document is torn only by another upload of the same content, which is      *)
(* still writing, failed or died, and never by the one whose row it is.       *)
THEOREM TornOnlyByPeer == Spec => []TornByPeer
<1>1. ASSUME StoreInv PROVE TornByPeer
  <2> SUFFICES ASSUME Torn
               PROVE  /\ data[path].by \notin rows
                      /\ up[data[path].by].pc \in {"writing", "failed", "dead"}
    BY DEF TornByPeer
  <2>1. path \in Requests /\ Used(path) /\ ~data[path].whole
    BY <1>1 DEF Torn, Used, StoreInv, TypeOK
  <2>2. up[data[path].by].pc \in {"writing", "failed", "dead"}
    BY <1>1, <2>1 DEF StoreInv, EmptiedByAUser
  <2>3. QED
    BY <1>1, <2>2 DEF StoreInv, RowsAreDone
<1>2. QED
  BY <1>1, StoreInvariant, PTL

(* When one process serves all the uploads, the payload of a committed        *)
(* document is whole: the write through a temporary file and a rename is      *)
(* atomic there, whatever fails.                                              *)
THEOREM WholeInOneProcess == Spec => []WholeWithOneProcess
<1>1. ASSUME StoreInv PROVE WholeWithOneProcess
  BY <1>1 DEF StoreInv, OneHost, WritesAlone, WholeWithOneProcess, Torn
<1>2. QED
  BY <1>1, StoreInvariant, PTL

(* A window's counter stays in Redis without an expiry only while its first   *)
(* request is about to set it, or because a fault came between.               *)
THEOREM CountersAlwaysExpire == Spec => []CountersExpire
<1>1. Init => CountersExpire
  BY DEF Init, GateInit, CountersExpire, Absent
<1>2. StoreInv /\ CountersExpire /\ [Next]_vars => CountersExpire'
  BY NextExpire DEF StoreInv
<1>3. QED
  BY <1>1, <1>2, StoreInvariant, PTL DEF Spec

(* When a request reaches Redis no later than a second after it read the      *)
(* clock - the second that the expiry adds to the window - the requests that  *)
(* a window's counter lets in are no more than the limit of the role.         *)
THEOREM LimitHolds ==
  ASSUME Latency <= 1
  PROVE  Spec => []LimitPerWindow
<1>1. LimitInv => LimitPerWindow
  BY DEF LimitInv, WithinLimit, Counted, Limit, LimitPerWindow
<1>2. StoreInv /\ StoreInv' /\ LimitInv /\ [Next]_vars => LimitInv'
  BY NextLimit DEF StoreInv
<1>3. QED
  BY <1>1, <1>2, InitLimit, StoreInvariant, PTL DEF Spec
=============================================================================
