------------------------------- MODULE KVGroup -------------------------------
(***************************************************************************)
(* A group of key-value nodes as those who send it requests see it: whom a  *)
(* node says it follows.  KVNode implements it.                             *)
(***************************************************************************)
CONSTANTS Node, None

VARIABLES
    status, leader,   \* self.status, self.leader, None until the first heartbeat
    sending           \* the nodes whose messages as a leader may still arrive

group == <<status, leader, sending>>

GroupType ==
    /\ status \in [Node -> {"FOLLOWER", "CANDIDATE", "LEADER"}]
    /\ leader \in [Node -> Node \cup {None}] /\ sending \subseteq Node

GroupInit ==
    /\ status = [n \in Node |-> "FOLLOWER"] /\ leader = [n \in Node |-> None]
    /\ sending = {}

\* With any step some node's last message may have been sent.
Quieter(S) == sending' \in SUBSET S

Campaigns(n) ==
    /\ status[n] # "LEADER" /\ status' = [status EXCEPT ![n] = "CANDIDATE"]
    /\ Quieter(sending) /\ UNCHANGED leader

Wins(n) ==
    /\ status[n] = "CANDIDATE" /\ status' = [status EXCEPT ![n] = "LEADER"]
    /\ Quieter(sending \cup {n}) /\ UNCHANGED leader

\* It follows another node, and only one that has won an election.
Follows(n, l) ==
    /\ l \in sending \ {n}
    /\ status' = [status EXCEPT ![n] = "FOLLOWER"] /\ leader' = [leader EXCEPT ![n] = l]
    /\ Quieter(sending)

\* It hears of a newer term: whom it followed before it follows again.
StepsDown(n) ==
    /\ status[n] # "FOLLOWER" /\ status' = [status EXCEPT ![n] = "FOLLOWER"]
    /\ Quieter(sending) /\ UNCHANGED leader

Silent == Quieter(sending) /\ UNCHANGED <<status, leader>>

Restarts(n) ==
    /\ status' = [status EXCEPT ![n] = "FOLLOWER"] /\ leader' = [leader EXCEPT ![n] = None]
    /\ Quieter(sending \ {n})

GroupStep(n) == Campaigns(n) \/ Wins(n) \/ (\E l \in Node : Follows(n, l)) \/ StepsDown(n)
GroupNext == Silent \/ \E n \in Node : GroupStep(n) \/ Restarts(n)

GroupSpec == GroupInit /\ [][GroupNext]_group
=============================================================================
