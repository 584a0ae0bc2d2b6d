---------------------------- MODULE DocumentApi ----------------------------
(***************************************************************************)
(* Uploads of one document: the gate of the API, LocalPayloadStore.write   *)
(* and the row of the documents table.                                     *)
(*                                                                         *)
(* All uploads have the same content, so the same path and the same        *)
(* temporary path; those of other contents touch other files.  Names point *)
(* to inodes: opening the temporary file for writing truncates the inode   *)
(* that is there, whoever writes it, and os.replace moves the name of      *)
(* whatever inode is there.  A file is whole when the last request that    *)
(* truncated it has written all its bytes, which are the same bytes for    *)
(* all.  The write is synchronous: in a process it runs without interrupt. *)
(***************************************************************************)
EXTENDS RateLimiter

CONSTANTS
  Procs,      \* API processes on one volume
  None        \* no file

ASSUME DocumentApiAssumption == None \notin Requests

VARIABLES
  host,       \* the process that serves each request
  up,         \* each upload: where it is, and the inode it has open
  tmp,        \* the inode of the temporary path
  path,       \* the inode of the path
  data,       \* each inode: who truncated it last, and whether it is whole
  rows        \* the requests whose document row is committed

store == <<up, tmp, path, data, rows>>
vars == <<gate, host, store>>

WriteRoles == {"operator", "supervisor"}

Empty(r) == [by |-> r, whole |-> FALSE]

Init ==
  /\ GateInit
  /\ host \in [Requests -> Procs]
  /\ up = [r \in Requests |-> [pc |-> "none", inode |-> None]]
  /\ tmp = None
  /\ path = None
  /\ data = [r \in Requests |-> Empty(r)]
  /\ rows = {}

-----------------------------------------------------------------------------
(* ingest_document, and LocalPayloadStore.write *)

Upload(r, pc) == up' = [up EXCEPT ![r].pc = pc]

(* Mutant of Blocked: the write awaits, and other requests run meanwhile. *)
MutNeverBlocked(r) == FALSE

(* The process is inside the write of another request. *)
Blocked(r) ==
  \E q \in Requests \ {r} : host[q] = host[r] /\ up[q].pc \in {"writing", "written"}

(* write_bytes opens the temporary file: a new inode, or the one that is there. *)
Open(r) ==
  LET i == IF tmp = None THEN r ELSE tmp IN
  /\ req[r].pc = "admitted"
  /\ up[r].pc = "none"
  /\ ~Blocked(r)
  /\ tmp' = i
  /\ data' = [data EXCEPT ![i] = Empty(r)]
  /\ up' = [up EXCEPT ![r] = [pc |-> "writing", inode |-> i]]
  /\ UNCHANGED <<gate, host, path, rows>>

(* ... and writes all the bytes. *)
Finish(r) ==
  /\ up[r].pc = "writing"
  /\ data' = [data EXCEPT ![up[r].inode].whole = (data[up[r].inode].by = r) \/ @]
  /\ Upload(r, "written")
  /\ UNCHANGED <<gate, host, tmp, path, rows>>

(* The write fails: the temporary file is removed, whosever it is. *)
WriteFails(r) ==
  /\ up[r].pc = "writing"
  /\ Fault
  /\ tmp' = None
  /\ Upload(r, "failed")
  /\ UNCHANGED <<now, caller, req, counter, unset, host, path, data, rows>>

(* Mutant of Replace: the clean-up removes the path, not the temporary file. *)
MutUnlinkPath(r) ==
  /\ up[r].pc = "written"
  /\ \/ tmp # None /\ path' = tmp /\ tmp' = None /\ Upload(r, "stored")
     \/ tmp = None /\ path' = None /\ UNCHANGED tmp /\ Upload(r, "failed")
  /\ UNCHANGED <<gate, host, data, rows>>

(* os.replace; it raises when another request has taken the file away. *)
Replace(r) ==
  /\ up[r].pc = "written"
  /\ \/ tmp # None /\ path' = tmp /\ tmp' = None /\ Upload(r, "stored")
     \/ tmp = None /\ UNCHANGED <<path, tmp>> /\ Upload(r, "failed")
  /\ UNCHANGED <<gate, host, data, rows>>

(* The row is inserted, and committed when the session ends. *)
Commit(r) ==
  /\ up[r].pc = "stored"
  /\ ~Blocked(r)
  /\ rows' = rows \cup {r}
  /\ Upload(r, "done")
  /\ UNCHANGED <<gate, host, tmp, path, data>>

(* The insert or the commit fails: the payload stays. *)
CommitFails(r) ==
  /\ up[r].pc = "stored"
  /\ ~Blocked(r)
  /\ Fault
  /\ Upload(r, "failed")
  /\ UNCHANGED <<now, caller, req, counter, unset, host, tmp, path, data, rows>>

(* A process dies, with all the requests it serves. *)
Crash(p) ==
  LET dies == {r \in Requests : host[r] = p /\ req[r].pc \in {"labelled", "first", "admitted"}
                                            /\ up[r].pc \notin {"done", "failed", "dead"}}
  IN
  /\ dies # {}
  /\ Fault
  /\ req' = [r \in Requests |-> IF r \in dies THEN [req[r] EXCEPT !.pc = "dead"] ELSE req[r]]
  /\ up' = [r \in Requests |-> IF r \in dies THEN [up[r] EXCEPT !.pc = "dead"] ELSE up[r]]
  /\ unset' = unset \cup {req[r].label : r \in {q \in dies : req[q].pc = "first"}}
  /\ UNCHANGED <<now, caller, counter, host, tmp, path, data, rows>>

Next ==
  \/ Tick /\ UNCHANGED <<host, store>>
  \/ \E r \in Requests :
       \/ Gate(r, WriteRoles) /\ UNCHANGED <<host, store>>
       \/ Open(r)
       \/ Finish(r)
       \/ WriteFails(r)
       \/ Replace(r)
       \/ Commit(r)
       \/ CommitFails(r)
  \/ \E p \in Procs : Crash(p)

Spec == Init /\ [][Next]_vars

-----------------------------------------------------------------------------
(* Properties *)

(* Type correctness of the gate, the uploads and the files. *)
TypeOK ==
  /\ GateTypeOK
  /\ host \in [Requests -> Procs]
  /\ up \in [Requests -> [pc : {"none", "writing", "written", "stored", "done", "failed", "dead"},
                          inode : Requests \cup {None}]]
  /\ {tmp, path} \subseteq Requests \cup {None}
  /\ data \in [Requests -> [by : Requests, whole : BOOLEAN]]
  /\ rows \subseteq Requests

(* A committed document has a payload: a reader never misses the file. *)
PayloadPresent == rows # {} => path # None

Torn == path # None /\ ~data[path].whole

(* With one API process, as it is deployed, the payload of a committed         *)
(* document is whole, whatever fails ("Write atomically via temp file +        *)
(* rename").  With two on one volume it is not: the temporary path is shared.  *)
WholeWithOneProcess ==
  rows # {} /\ (\A q, r \in Requests : host[q] = host[r]) => ~Torn
=============================================================================
