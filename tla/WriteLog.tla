------------------------------ MODULE WriteLog ------------------------------
(***************************************************************************)
(* What a replicated key-value node promises the routes that call           *)
(* handle_put, as long as it stays the leader: the writes it answers True   *)
(* to are in its log, in one order, once each; the others are not.          *)
(***************************************************************************)
EXTENDS Integers, Sequences

CONSTANT Payload   \* the writes asked for, each once

VARIABLES
    committed,     \* the log
    reply          \* what the caller knows of each write

vars == <<committed, reply>>

TypeOK ==
    /\ committed \in Seq(Payload)
    /\ reply \in [Payload -> {"new", "open", "ok", "fail"}]

Init ==
    /\ committed = <<>>
    /\ reply = [p \in Payload |-> "new"]

\* handle_put is called.
Submit(p) ==
    /\ reply[p] = "new"
    /\ reply' = [reply EXCEPT ![p] = "open"]
    /\ UNCHANGED committed

\* It commits and answers True.
Commit(p) ==
    /\ reply[p] = "open"
    /\ reply' = [reply EXCEPT ![p] = "ok"]
    /\ committed' = Append(committed, p)

\* It answers False.
Reject(p) ==
    /\ reply[p] = "open"
    /\ reply' = [reply EXCEPT ![p] = "fail"]
    /\ UNCHANGED committed

Next == \E p \in Payload : Submit(p) \/ Commit(p) \/ Reject(p)

Fairness == \A p \in Payload : WF_vars(Commit(p) \/ Reject(p))

Spec == Init /\ [][Next]_vars /\ Fairness

\* The log holds the writes answered True, each once.
Acknowledged ==
    /\ \A p \in Payload : reply[p] = "ok" <=> \E i \in DOMAIN committed : committed[i] = p
    /\ \A i, j \in DOMAIN committed : committed[i] = committed[j] => i = j

\* handle_put returns.
Answered == \A p \in Payload : reply[p] = "open" ~> reply[p] \in {"ok", "fail"}

=============================================================================
