---------------------------- MODULE RateLimiter ----------------------------
(***************************************************************************)
(* The gate of the API: requires_role authenticates the key of a request,  *)
(* checks its role, and counts the request in Redis in the fixed window    *)
(* of its arrival.                                                         *)
(*                                                                         *)
(* The clock is read before INCR is sent, so a request may be counted in a *)
(* window that has ended; INCR and EXPIRE are two commands, and a request  *)
(* may fail or die between them.  An error of Redis lets the request pass. *)
(***************************************************************************)
EXTENDS Naturals, FiniteSets

CONSTANTS
  Requests,
  Window,        \* RATE_LIMIT_WINDOW_SECONDS
  max_requests,  \* the limit of each role
  Latency,       \* seconds between reading the clock and the INCR, at most
  MaxTime,       \* bound: of the clock
  MaxFaults      \* bound: errors of Redis and of the disk, deaths of a process

Roles == {"operator", "supervisor", "viewer"}

Callers == Roles \cup {"missing", "unknown", "revoked", "expired"}

ASSUME RateLimiterAssumption ==
  /\ IsFiniteSet(Requests)
  /\ Window \in Nat \ {0}
  /\ max_requests \in [Roles -> Nat]
  /\ {Latency, MaxTime, MaxFaults} \subseteq Nat

Labels == {t - (t % Window) : t \in 0..MaxTime}

Never == MaxTime + Window + 2     \* the expiry of a key without one

VARIABLES
  now,       \* the clock, in seconds
  caller,    \* what the requests' token is: no key, an unusable key, or a role
  req,       \* each request: where it is, when it read the clock, how it was let in
  counter,   \* the Redis key of each window: its value and its expiry
  unset,     \* the windows whose EXPIRE was not sent, for a fault (history)
  faults

gate == <<now, caller, req, counter, unset, faults>>

Absent == [count |-> 0, expires |-> Never]

NoRequest == [pc |-> "new", at |-> 0, label |-> 0, via |-> "none"]

GateInit ==
  /\ now = 0
  /\ caller \in Callers
  /\ req = [r \in Requests |-> NoRequest]
  /\ counter = [l \in Labels |-> Absent]
  /\ unset = {}
  /\ faults = 0

Fault == faults < MaxFaults /\ faults' = faults + 1

-----------------------------------------------------------------------------
(* requires_role, and authenticate_api_key *)

Refuse(r, status) == req' = [req EXCEPT ![r].pc = status]

(* The token is missing, unknown, revoked or expired: 401. *)
Unauthorized(r) ==
  /\ req[r].pc = "new"
  /\ caller \notin Roles
  /\ Refuse(r, "401")
  /\ UNCHANGED <<now, caller, counter, unset, faults>>

(* The role is not one of the route's: 403. *)
Forbidden(r, roles) ==
  /\ req[r].pc = "new"
  /\ caller \in Roles \ roles
  /\ Refuse(r, "403")
  /\ UNCHANGED <<now, caller, counter, unset, faults>>

(* Mutant of ReadClock: the window starts when the request arrives. *)
MutOwnWindow(r, roles) ==
  /\ req[r].pc = "new"
  /\ caller \in roles
  /\ req' = [req EXCEPT ![r] = [pc |-> "labelled", at |-> now, label |-> now, via |-> "none"]]
  /\ UNCHANGED <<now, caller, counter, unset, faults>>

(* check_rate_limit reads the clock, and with it the window. *)
ReadClock(r, roles) ==
  /\ req[r].pc = "new"
  /\ caller \in roles
  /\ req' = [req EXCEPT ![r] =
               [pc |-> "labelled", at |-> now, label |-> now - (now % Window), via |-> "none"]]
  /\ UNCHANGED <<now, caller, counter, unset, faults>>

-----------------------------------------------------------------------------
(* check_rate_limit: the commands *)

(* get_max_requests_for_role *)
Limit == max_requests[caller]

Decided(r, count) ==
  IF count > Limit THEN [req[r] EXCEPT !.pc = "429"]
  ELSE [req[r] EXCEPT !.pc = "admitted", !.via = "counted"]

(* Mutant of Incr: the first request is not recognised by its count. *)
MutNoFirst(r) ==
  LET count == counter[req[r].label].count + 1 IN
  /\ req[r].pc = "labelled"
  /\ counter' = [counter EXCEPT ![req[r].label].count = count]
  /\ req' = [req EXCEPT ![r] = IF count = 0 THEN [@ EXCEPT !.pc = "first"] ELSE Decided(r, count)]
  /\ UNCHANGED <<now, caller, unset, faults>>

(* INCR creates the key without an expiry; the first request then sets it. *)
Incr(r) ==
  LET l == req[r].label
      count == counter[l].count + 1
  IN
  /\ req[r].pc = "labelled"
  /\ counter' = [counter EXCEPT ![l].count = count]
  /\ req' = [req EXCEPT ![r] = IF count = 1 THEN [@ EXCEPT !.pc = "first"] ELSE Decided(r, count)]
  /\ UNCHANGED <<now, caller, unset, faults>>

(* Mutant of Expiry: without the extra second. *)
MutExactWindow == now + Window

Expiry == now + Window + 1

Expire(r) ==
  /\ req[r].pc = "first"
  /\ counter' = [counter EXCEPT ![req[r].label].expires = Expiry]
  /\ req' = [req EXCEPT ![r] = Decided(r, 1)]
  /\ UNCHANGED <<now, caller, unset, faults>>

FailOpen(r) == req' = [req EXCEPT ![r].pc = "admitted", ![r].via = "open"]

(* INCR fails; the server may have counted it all the same, without expiry. *)
IncrError(r) ==
  LET l == req[r].label IN
  /\ req[r].pc = "labelled"
  /\ Fault
  /\ FailOpen(r)
  /\ \/ UNCHANGED <<counter, unset>>
     \/ /\ counter' = [counter EXCEPT ![l].count = @ + 1]
        /\ unset' = IF counter[l] = Absent THEN unset \cup {l} ELSE unset
  /\ UNCHANGED <<now, caller>>

ExpireError(r) ==
  /\ req[r].pc = "first"
  /\ Fault
  /\ FailOpen(r)
  /\ unset' = unset \cup {req[r].label}
  /\ UNCHANGED <<now, caller, counter>>

(* A second passes, unless a request has been on its way to Redis for too      *)
(* long; Redis removes the keys that have expired.                             *)
Tick ==
  /\ now < MaxTime
  /\ \A r \in Requests : req[r].pc = "labelled" => now - req[r].at < Latency
  /\ now' = now + 1
  /\ counter' = [l \in Labels |-> IF counter[l].expires <= now' THEN Absent ELSE counter[l]]
  /\ UNCHANGED <<caller, req, unset, faults>>

Gate(r, roles) ==
  \/ Unauthorized(r)
  \/ Forbidden(r, roles)
  \/ ReadClock(r, roles)
  \/ Incr(r)
  \/ Expire(r)
  \/ IncrError(r)
  \/ ExpireError(r)

-----------------------------------------------------------------------------
(* Properties *)

(* Type correctness of the clock, the requests and the counters. *)
GateTypeOK ==
  /\ now \in 0..MaxTime
  /\ caller \in Callers
  /\ req \in [Requests -> [pc : {"new", "401", "403", "labelled", "first", "429", "admitted", "dead"},
                           at : 0..MaxTime, label : Labels, via : {"none", "counted", "open"}]]
  /\ counter \in [Labels -> [count : Nat, expires : 0..Never]]
  /\ unset \subseteq Labels
  /\ faults \in 0..MaxFaults

(* The requests that a window's counter lets in are no more than the role's    *)
(* limit, provided that Latency <= 1: an INCR that reaches Redis more than a   *)
(* second after check_rate_limit read the clock may find the key expired and   *)
(* start the count of its window again.  Neither rate_limit.py nor             *)
(* redis_client.py, which sets no socket timeout, enforces this.               *)
LimitPerWindow ==
  caller \in Roles =>
    \A l \in Labels :
      Cardinality({r \in Requests : req[r].label = l /\ req[r].via = "counted"})
        <= max_requests[caller]

(* A counter stays in Redis for ever only when a request failed or died        *)
(* between INCR and EXPIRE.                                                    *)
CountersExpire ==
  \A l \in Labels :
    counter[l].count > 0 /\ counter[l].expires = Never
      => l \in unset \/ \E r \in Requests : req[r].pc = "first" /\ req[r].label = l
=============================================================================
