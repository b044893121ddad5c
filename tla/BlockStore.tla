----------------------------- MODULE BlockStore -----------------------------
(***************************************************************************)
(* PUT /request of src/CODE/src/data_blockserver/server.py at the leader of *)
(* a block server group: version check, replicated write, notice to the    *)
(* metaserver.  handle_put is used by its promise, WriteLog.  Flask serves  *)
(* each request in a thread of its own; handle_get takes no lock, so the   *)
(* version a request was checked against may be gone when it is stored.    *)
(***************************************************************************)
EXTENDS Integers, Sequences

CONSTANTS
    Request,     \* the PUT requests; a retry is a request of its own
    Key,         \* user:path
    MaxVersion   \* bound: no client names a version beyond this one

ASSUME BoundAssumption == MaxVersion \in Nat

VARIABLES
    committed, reply,   \* handle_put's promise, see WriteLog
    db,                 \* the version stored under a key, 0: none or deleted
    pc, want,           \* the request's thread, and what it asks for
    began,              \* history: the log's length when it was checked
    notified            \* requests the metaserver has been told of

storage == <<committed, reply>>
vars == <<storage, db, pc, want, began, notified>>

Storage == INSTANCE WriteLog WITH Payload <- Request

Want == [key : Key, op : {"write", "delete"}, version : 0..MaxVersion]

TypeOK ==
    /\ Storage!TypeOK
    /\ db \in [Key -> Nat]
    /\ pc \in [Request -> {"idle", "putting", "notifying", "ok", "fail"}]
    /\ want \in [Request -> Want]
    /\ began \in [Request -> Nat]
    /\ notified \subseteq Request

Init ==
    /\ Storage!Init
    /\ db = [k \in Key |-> 0]
    /\ pc = [r \in Request |-> "idle"]
    /\ want \in [Request -> Want]
    /\ began = [r \in Request |-> 0]
    /\ notified = {}

-----------------------------------------------------------------------------
VersionMatches(r) == db[want[r].key] = want[r].version

PassesNotOlder(r) ==   \* mutant: only an older version is refused
    want[r].op = "delete" \/ db[want[r].key] <= want[r].version

\* A request whose token verify_jwt accepts.  A delete is not checked; a
\* create must name version 0, an update the version handle_get returns.
Passes(r) == want[r].op = "delete" \/ VersionMatches(r)

Refuse(r) ==
    /\ pc[r] = "idle" /\ ~Passes(r)
    /\ pc' = [pc EXCEPT ![r] = "fail"]
    /\ UNCHANGED <<storage, db, want, began, notified>>

\* The check passes and handle_put is called; it may block on the lock.
Accept(r) ==
    /\ pc[r] = "idle" /\ Passes(r)
    /\ Storage!Submit(r)
    /\ pc' = [pc EXCEPT ![r] = "putting"]
    /\ began' = [began EXCEPT ![r] = Len(committed)]
    /\ UNCHANGED <<db, want, notified>>

NewVersionMarked(r) ==   \* mutant: the deletion mark is read as a version
    IF want[r].op = "delete" THEN -1 ELSE want[r].version + 1

\* The version stored is the one named, plus one; a delete stores none.
NewVersion(r) == IF want[r].op = "delete" THEN 0 ELSE want[r].version + 1

\* handle_put returns True; a delete is answered without a notice.
Stored(r) ==
    /\ pc[r] = "putting"
    /\ Storage!Commit(r)
    /\ db' = [db EXCEPT ![want[r].key] = NewVersion(r)]
    /\ pc' = [pc EXCEPT ![r] = IF want[r].op = "delete" THEN "ok" ELSE "notifying"]
    /\ UNCHANGED <<want, began, notified>>

NotStoredNotifies(r) ==   \* mutant: the result of handle_put is not looked at
    /\ pc[r] = "putting"
    /\ Storage!Reject(r)
    /\ pc' = [pc EXCEPT ![r] = "notifying"]
    /\ UNCHANGED <<db, want, began, notified>>

NotStoredSilent(r) ==   \* mutant: no reply is made when handle_put returns False
    /\ pc[r] = "putting"
    /\ Storage!Reject(r)
    /\ UNCHANGED <<db, pc, want, began, notified>>

\* handle_put returns False.
NotStored(r) ==
    /\ pc[r] = "putting"
    /\ Storage!Reject(r)
    /\ pc' = [pc EXCEPT ![r] = "fail"]
    /\ UNCHANGED <<db, want, began, notified>>

\* notification_handler: the metaserver gets the notice, or the failure is
\* logged; the client is answered "success" in either case.
Notify(r) ==
    /\ pc[r] = "notifying"
    /\ notified' \in {notified, notified \cup {r}}
    /\ pc' = [pc EXCEPT ![r] = "ok"]
    /\ UNCHANGED <<storage, db, want, began>>

Step(r) == Refuse(r) \/ Accept(r) \/ Stored(r) \/ NotStored(r) \/ Notify(r)
Next == \E r \in Request : Step(r)

\* A thread that serves a request goes on; no request has to arrive.
Fairness == \A r \in Request : WF_vars(Stored(r) \/ NotStored(r) \/ Notify(r))

Spec == Init /\ [][Next]_vars /\ Fairness

-----------------------------------------------------------------------------
\* A write that no other write to its key overtook between its check and its
\* turn finds the version it was checked against: the check in value_put does
\* protect writes that do not overlap.
Overtaken(r) ==
    \E i \in DOMAIN committed : i > began[r] /\ want[committed[i]].key = want[r].key

UndisturbedCheckHolds ==
    \A r \in Request :
        pc[r] = "putting" /\ want[r].op = "write" /\ ~Overtaken(r) => VersionMatches(r)

\* The metaserver is told of, and a client is answered "success" for, stored
\* writes only; a delete is never announced from here.
SuccessIsStored ==
    \A r \in Request :
        /\ pc[r] \in {"notifying", "ok"} => \E i \in DOMAIN committed : committed[i] = r
        /\ r \in notified => pc[r] = "ok" /\ want[r].op = "write"

\* A request that was let through is answered.
RequestsAnswered == \A r \in Request : pc[r] = "putting" ~> pc[r] \in {"ok", "fail"}

\* data_blockserver/README.md: the blockserver "checks version, send
\* confirm/reject to user": a stored write replaces the version it names.
NoLostUpdate ==
    [][\A r \in Request :
         reply[r] = "open" /\ reply'[r] = "ok" /\ want[r].op = "write"
            => VersionMatches(r)]_vars

=============================================================================
