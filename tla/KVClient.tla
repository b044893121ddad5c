------------------------------ MODULE KVClient ------------------------------
(***************************************************************************)
(* A call of the key-value library, src/CODE/utils/Distributed_KV/          *)
(* client_lib/kv.hpp, and the routing in value_put of the servers: it tries *)
(* the servers in random order, each with a timeout of a second, and goes   *)
(* where it is redirected.  A put that timed out may still be done.         *)
(***************************************************************************)
EXTENDS KVGroup, Naturals, FiniteSets, Functions

VARIABLES
    phase, at, untried,   \* of tryServers: at is the server of currentUrl
    result,               \* the code in the answer, or "error"
    late, done            \* puts a leader works on after the timeout; puts done

call == <<phase, at, untried, result, late, done>>
vars == <<group, call>>

TypeOK ==
    /\ GroupType
    /\ phase \in {"idle", "send", "wait", "returned"}
    /\ at \in Node /\ untried \subseteq Node
    /\ result \in {"none", "success", "fail", "error"}
    /\ late \in [Node -> Nat] /\ done \in Nat

Init ==
    /\ GroupInit
    /\ phase = "idle" /\ at \in Node /\ untried = Node \ {at} /\ result = "none"
    /\ late = [n \in Node |-> 0] /\ done = 0

-----------------------------------------------------------------------------
Begin == phase = "idle" /\ phase' = "send" /\ UNCHANGED <<group, at, untried, result, late, done>>

Returns(code) == phase' = "returned" /\ result' = code /\ UNCHANGED <<at, untried>>

TryAgain ==   \* mutant: the server is not taken off the list
    IF untried = {} THEN Returns("error")
    ELSE at' \in untried /\ phase' = "send" /\ UNCHANGED <<untried, result>>

\* The next server of the shuffled list, if there is one.
TryNext ==
    \/ untried = {} /\ Returns("error")
    \/ /\ at' \in untried /\ untried' = untried \ {at'}
       /\ phase' = "send" /\ UNCHANGED result

\* The answer has a message: it names the node that the server follows.
Redirect ==
    /\ phase = "send" /\ status[at] = "FOLLOWER" /\ leader[at] # None
    /\ at' = leader[at]
    /\ UNCHANGED <<group, phase, untried, result, late, done>>

FailsForever ==   \* mutant: the loop goes over the servers again and again
    /\ phase = "send" /\ at' \in Node \ {at}
    /\ UNCHANGED <<group, phase, untried, result, late, done>>

\* The server cannot be reached, or has no leader yet and answers 500.
Fails ==
    /\ phase = "send" /\ TryNext
    /\ UNCHANGED <<group, late, done>>

\* A candidate answers {"code": "fail"} with 200: the library is content.
NotNow ==
    /\ phase = "send" /\ status[at] = "CANDIDATE" /\ Returns("fail")
    /\ UNCHANGED <<group, late, done>>

\* A leader calls handle_put, which may take long.
Takes ==
    /\ phase = "send" /\ status[at] = "LEADER" /\ phase' = "wait"
    /\ UNCHANGED <<group, at, untried, result, late, done>>

Answers ==
    /\ phase = "wait"
    /\ \/ Returns("success") /\ done' = done + 1
       \/ Returns("fail") /\ UNCHANGED done
    /\ UNCHANGED <<group, late>>

\* The second is over: the leader goes on with the put, and so does the call.
TimesOut ==
    /\ phase = "wait" /\ TryNext
    /\ late' = [late EXCEPT ![at] = @ + 1]
    /\ UNCHANGED <<group, done>>

LateEnds(n) ==
    /\ late[n] > 0 /\ late' = [late EXCEPT ![n] = @ - 1]
    /\ done' \in {done, done + 1}
    /\ UNCHANGED <<group, phase, at, untried, result>>

\* A node that dies takes the puts it works on along.
Crashes(n) ==
    /\ Restarts(n)
    /\ late' = [late EXCEPT ![n] = 0]
    /\ IF phase = "wait" /\ at = n THEN TryNext ELSE UNCHANGED <<phase, at, untried, result>>
    /\ UNCHANGED done

Library == Redirect \/ Fails \/ NotNow \/ Takes \/ Answers \/ TimesOut

Next ==
    \/ Begin \/ Library
    \/ \E n \in Node : LateEnds(n) \/ Crashes(n) \/ (GroupStep(n) /\ UNCHANGED call)
    \/ Silent /\ UNCHANGED call

\* Every request is answered or times out after a second.
Spec == Init /\ [][Next]_vars /\ WF_vars(Library)

-----------------------------------------------------------------------------
\* A call has a put done at most once for each server of the list it tried,
\* however often it was redirected and timed out.
OncePerServer ==
    done + SumFunction(late) + (IF phase = "wait" THEN 1 ELSE 0) <= Cardinality(Node \ untried)

\* The group agrees on a leader.
Settled ==
    \E l \in Node : status[l] = "LEADER"
                    /\ \A n \in Node \ {l} : status[n] = "FOLLOWER" /\ leader[n] = l

\* Redirections have no bound, but they end when the group agrees.
RedirectionEnds == <>[]Settled => (phase = "send" ~> phase = "returned")
=============================================================================
