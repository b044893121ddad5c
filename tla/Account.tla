------------------------------ MODULE Account ------------------------------
(***************************************************************************)
(* From signup to an authenticated request: the signup server, the         *)
(* authentication server, the metaserver's check of the token, and how a   *)
(* device logs in and retries (src/CODE/src/client/login).  A device's     *)
(* requests are made one after the other, under db_mutex.                  *)
(***************************************************************************)
EXTENDS Integers, FiniteSets

CONSTANTS
    Device, Name, Password,
    None,         \* not signed up
    MaxFaults     \* bound: calls that fail, tokens that expire

VARIABLES
    name, password,     \* user_info.json, or the arguments of the program
    redis,              \* who signed up, with which password
    root, used,         \* names whose root directory is in the metadata store; has entries
    signup, joined,     \* the request of a device to the signup server; was it answered 200?
    token, pc,          \* login::token; makeRequest
    broken,             \* history: names whose root was not made
    late,               \* names whose root may be made once more
    faults

vars == <<name, password, redis, root, used, signup, joined, token, pc, broken, late, faults>>

TypeOK ==
    /\ name \in [Device -> Name] /\ password \in [Device -> Password]
    /\ redis \in [Name -> {None} \cup Password]
    /\ used \subseteq root /\ root \subseteq Name
    /\ signup \in [Device -> {"no", "sent", "make", "ok", "refused"}] /\ joined \subseteq Device
    /\ token \in [Device -> {"none", "valid", "expired"}]
    /\ pc \in [Device -> {"idle", "first", "login", "last", "200", "failed"}]
    /\ broken \subseteq Name /\ late \subseteq Name /\ faults \in 0..MaxFaults

\* A device is started with two arguments, and signs up, or without.
Init ==
    /\ name \in [Device -> Name] /\ password \in [Device -> Password]
    /\ signup \in [Device -> {"no", "sent"}]
    /\ redis = [n \in Name |-> None] /\ root = {} /\ used = {} /\ joined = {}
    /\ token = [d \in Device |-> "none"] /\ pc = [d \in Device |-> "idle"]
    /\ broken = {} /\ late = {} /\ faults = 0

users == <<name, password>>

-----------------------------------------------------------------------------
(* signup_server.cpp: signupUser. *)

Answer(d, ok) == signup' = [signup EXCEPT ![d] = IF ok THEN "ok" ELSE "refused"]

ReserveAgain(d) ==   \* mutant: SET without NX
    /\ signup[d] = "sent"
    /\ redis' = [redis EXCEPT ![name[d]] = password[d]]
    /\ signup' = [signup EXCEPT ![d] = "make"]
    /\ UNCHANGED <<users, root, used, joined, token, pc, broken, late, faults>>

ReserveLast(d) ==   \* mutant: the root is made before the name is taken
    /\ signup[d] = "sent"
    /\ root' = root \cup {name[d]} /\ used' = used \ {name[d]}
    /\ Answer(d, redis[name[d]] = None)
    /\ redis' = [redis EXCEPT ![name[d]] = IF @ = None THEN password[d] ELSE @]
    /\ UNCHANGED <<users, joined, token, pc, broken, late, faults>>

\* SET name password NX
Reserve(d) ==
    /\ signup[d] = "sent"
    /\ IF redis[name[d]] = None
       THEN /\ redis' = [redis EXCEPT ![name[d]] = password[d]]
            /\ signup' = [signup EXCEPT ![d] = "make"]
       ELSE Answer(d, FALSE) /\ UNCHANGED redis
    /\ UNCHANGED <<users, root, used, joined, token, pc, broken, late, faults>>

\* distributed_KV::set of an empty root, which may be made or not, count as a
\* success or not, and be made again late: it times out and is repeated, and
\* an error of the store counts as a success.
MakeRoot(d) ==
    /\ signup[d] = "make"
    /\ \E made, ok, again \in BOOLEAN :
         /\ IF made /\ ok /\ ~again THEN UNCHANGED faults
            ELSE faults < MaxFaults /\ faults' = faults + 1
         /\ root' = IF made THEN root \cup {name[d]} ELSE root
         /\ used' = IF made THEN used \ {name[d]} ELSE used
         /\ broken' = IF made THEN broken ELSE broken \cup {name[d]}
         /\ late' = IF again THEN late \cup {name[d]} ELSE late
         /\ Answer(d, ok)
    /\ UNCHANGED <<users, redis, joined, token, pc>>

LateRoot(n) ==
    /\ n \in late /\ late' = late \ {n}
    /\ root' = root \cup {n} /\ used' = used \ {n}
    /\ UNCHANGED <<users, redis, signup, joined, token, pc, broken, faults>>

-----------------------------------------------------------------------------
(* login.cpp. *)

\* The program goes on after a signup that was answered 200, else it exits.
Joins(d) ==
    /\ signup[d] = "ok" /\ d \notin joined
    /\ joined' = joined \cup {d}
    /\ UNCHANGED <<users, redis, root, used, signup, token, pc, broken, late, faults>>

Runs(d) == signup[d] = "no" \/ d \in joined

Goes(d, label) == pc' = [pc EXCEPT ![d] = label]

\* makeRequest; here of a new entry in the root directory.
Request(d) ==
    /\ Runs(d) /\ pc[d] \in {"idle", "200", "failed"}
    /\ Goes(d, IF token[d] = "none" THEN "login" ELSE "first")
    /\ UNCHANGED <<users, redis, root, used, signup, joined, token, broken, late, faults>>

\* authenticateUser; a login that fails leaves the token empty, and the
\* request is made with it.
Login(d) ==
    /\ pc[d] = "login"
    /\ token' = [token EXCEPT ![d] = IF redis[name[d]] = password[d] THEN "valid" ELSE "none"]
    /\ Goes(d, "last")
    /\ UNCHANGED <<users, redis, root, used, signup, joined, broken, late, faults>>

Expires(d) ==
    /\ token[d] = "valid" /\ token' = [token EXCEPT ![d] = "expired"]
    /\ faults < MaxFaults /\ faults' = faults + 1
    /\ UNCHANGED <<users, redis, root, used, signup, joined, pc, broken, late>>

SendUncleared(d) ==   \* mutant: the token is not cleared before the retry
    /\ pc[d] \in {"first", "last"}
    /\ IF token[d] = "valid" THEN /\ Goes(d, IF name[d] \in root THEN "200" ELSE "failed")
                                  /\ used' = used \cup ({name[d]} \cap root)
       ELSE Goes(d, IF pc[d] = "first" THEN "first" ELSE "failed") /\ UNCHANGED used
    /\ UNCHANGED <<users, redis, root, signup, joined, token, broken, late, faults>>

\* authenticate_request answers 403 to a token it cannot verify: if it was an
\* old one it is cleared and the request made once more.  A request that is
\* let in fails without a root.
Send(d) ==
    /\ pc[d] \in {"first", "last"}
    /\ IF token[d] = "valid"
       THEN /\ Goes(d, IF name[d] \in root THEN "200" ELSE "failed")
            /\ used' = used \cup ({name[d]} \cap root)
            /\ UNCHANGED token
       ELSE /\ Goes(d, IF pc[d] = "first" THEN "login" ELSE "failed")
            /\ token' = IF pc[d] = "first" THEN [token EXCEPT ![d] = "none"] ELSE token
            /\ UNCHANGED used
    /\ UNCHANGED <<users, redis, root, signup, joined, broken, late, faults>>

-----------------------------------------------------------------------------
Next ==
    \/ \E d \in Device : Reserve(d) \/ MakeRoot(d) \/ Joins(d) \/ Request(d) \/ Login(d)
                            \/ Send(d) \/ Expires(d)
    \/ \E n \in Name : LateRoot(n)

\* Calls return or time out.
Fairness == \A d \in Device : WF_vars(Reserve(d) \/ MakeRoot(d)) /\ WF_vars(Login(d) \/ Send(d))

Spec == Init /\ [][Next]_vars /\ Fairness

-----------------------------------------------------------------------------
\* A name belongs to the device that was told so, and only to it: it has a
\* root there, and logs in with the password it chose.
NameIsTheirs ==
    \A d \in Device : signup[d] = "ok" =>
        /\ redis[name[d]] = password[d]
        /\ name[d] \in root \cup broken
        /\ \A e \in Device : name[e] = name[d] /\ signup[e] = "ok" => e = d

\* Another signup never empties a root that is in use; only the set of a
\* signup that timed out may, when it is made late.
RootKept == [][\A n \in used : n \in used' \/ n \in late]_vars

\* Every request ends, with whatever token it began.
RequestEnds == \A d \in Device : pc[d] \in {"first", "login", "last"} ~> pc[d] \in {"200", "failed"}
=============================================================================
