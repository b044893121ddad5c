------------------------------- MODULE KVNode -------------------------------
(***************************************************************************)
(* The replicated key-value node of src/CODE/src/data_blockserver/node.py  *)
(* (the meta_blockserver copy differs in handle_get only) with its routes   *)
(* /vote_req, /heartbeat and PUT /request.                                  *)
(*                                                                          *)
(* A step is the code one thread runs between two points at which it can   *)
(* block: a network call, a sleep, the lock.  Every thread the code spawns *)
(* is a record of a set of threads; a record also carries the call its      *)
(* thread has in flight and the answer on its way back, so a call may be    *)
(* delayed, lost, or executed with its answer lost.                         *)
(***************************************************************************)
EXTENDS Integers, Sequences, FiniteSets

CONSTANTS
    Node,        \* the servers of ip_list.txt
    Payload,     \* the writes clients ask for; each is asked for once
    None,        \* Python's None
    MaxTerm,     \* bound: no election is started beyond this term
    MaxRestarts  \* bound: crashes with restart, over all nodes

ASSUME NodeAssumption == IsFiniteSet(Node) /\ Cardinality(Node) >= 2
ASSUME NoneAssumption == None \notin Node \cup Payload
ASSUME BoundAssumption == MaxTerm \in Nat /\ MaxRestarts \in Nat

VARIABLES
    term, status, voteCount,   \* self.term, self.status, self.voteCount
    commitIdx, log, staged,    \* self.commitIdx, self.log, self.staged
    leader,                    \* self.leader, None until the first heartbeat
    timer,                     \* is self.timeout_thread alive?
    locked,                    \* is self.lock held?
    asks,                      \* the ask_for_vote threads
    beats,                     \* the send_heartbeat threads
    puts,                      \* the calls of handle_put
    spreads,                   \* the spread_update threads
    reply,                     \* what the client of each payload knows
    ballots,                   \* history: the votes given, <<voter, term, candidate>>
    restarts                   \* number of restarts so far

election == <<term, status, voteCount, leader, timer>>
store == <<commitIdx, log, staged>>
threads == <<asks, beats, puts, spreads>>
vars == <<election, store, locked, threads, reply, ballots, restarts>>

Fellow(n) == Node \ {n}
Majority == (Cardinality(Node) \div 2) + 1
Entry == Payload \cup {None}

-----------------------------------------------------------------------------
(* The records of the four kinds of threads. *)

\* ph: the request is on its way, or was answered yes, or no with rterm.
Ask == [cand : Node, voter : Node, term : Nat, ci : Nat, staged : Entry,
        ph : {"ask", "yes", "no"}, rterm : Nat]

\* first, second: the two messages of update_follower_commitIdx; loop: about
\* to send the heartbeat; reply: answered.  rep is what the last answer told,
\* the follower's commitIdx in second and its term in reply.
Beat == [from : Node, to : Node, term : Nat,
         ph : {"first", "second", "loop", "reply"}, rep : Nat]

\* lock: blocked on self.lock; wait: waiting for ok, the followers that
\* confirmed.  born: 0 for a client's call, else the term startHeartBeat won.
Put == [node : Node, payload : Payload, born : Nat, ph : {"lock", "wait"},
        ok : SUBSET Node]

Spread == [from : Node, term : Nat, action : {"log", "commit"},
           payload : Payload, ci : Nat, born : Nat, todo : SUBSET Node]

TypeOK ==
    /\ term \in [Node -> Nat]
    /\ status \in [Node -> {"FOLLOWER", "CANDIDATE", "LEADER"}]
    /\ voteCount \in [Node -> Nat]
    /\ leader \in [Node -> Node \cup {None}]
    /\ timer \in [Node -> BOOLEAN]
    /\ commitIdx \in [Node -> Nat]
    /\ log \in [Node -> Seq(Entry)]
    /\ staged \in [Node -> Entry]
    /\ locked \in [Node -> BOOLEAN]
    /\ asks \subseteq Ask
    /\ beats \subseteq Beat
    /\ puts \subseteq Put
    /\ spreads \subseteq Spread
    /\ reply \in [Payload -> {"new", "open", "ok", "fail"}]
    /\ ballots \subseteq Node \X Nat \X Node
    /\ restarts \in Nat

Init ==
    /\ term = [n \in Node |-> 0]
    /\ status = [n \in Node |-> "FOLLOWER"]
    /\ voteCount = [n \in Node |-> 0]
    /\ leader = [n \in Node |-> None]
    /\ timer = [n \in Node |-> TRUE]
    /\ commitIdx = [n \in Node |-> 0]
    /\ log = [n \in Node |-> <<>>]
    /\ staged = [n \in Node |-> None]
    /\ locked = [n \in Node |-> FALSE]
    /\ asks = {} /\ beats = {} /\ puts = {} /\ spreads = {}
    /\ reply = [p \in Payload |-> "new"]
    /\ ballots = {}
    /\ restarts = 0
-----------------------------------------------------------------------------
(* Elections. *)

\* timeout_loop finds the timeout expired: startElection, which counts the
\* node's own vote (incrementVote: a majority takes two votes at least) and
\* starts one ask_for_vote thread per fellow.  The message is built once.
NewAsks(n) ==
    [cand : {n}, voter : Fellow(n), term : {term[n] + 1}, ci : {commitIdx[n]},
     staged : {staged[n]}, ph : {"ask"}, rterm : {0}]

StartElection(n) ==
    /\ timer[n] /\ status[n] # "LEADER"
    /\ term[n] < MaxTerm
    /\ term' = [term EXCEPT ![n] = @ + 1]
    /\ status' = [status EXCEPT ![n] = "CANDIDATE"]
    /\ voteCount' = [voteCount EXCEPT ![n] = 1]
    /\ asks' = asks \cup NewAsks(n)
    /\ ballots' = ballots \cup {<<n, term[n] + 1, n>>}
    /\ UNCHANGED <<leader, timer, store, locked, beats, puts, spreads, reply, restarts>>

TimerLoopLeft(n) == status[n] # "FOLLOWER"   \* mutant: for = "LEADER"

TimerLoopEnds(n) == status[n] = "LEADER"

\* timeout_loop wakes up, sees it is the leader and returns.
TimerEnds(n) ==
    /\ timer[n] /\ TimerLoopEnds(n)
    /\ timer' = [timer EXCEPT ![n] = FALSE]
    /\ UNCHANGED <<term, status, voteCount, leader, store, locked, threads, reply,
                   ballots, restarts>>

WouldGrantSameTerm(a) ==   \* mutant: <= for < in decide_vote
    /\ term[a.voter] <= a.term
    /\ commitIdx[a.voter] <= a.ci
    /\ a.staged # None \/ staged[a.voter] = None

\* decide_vote's condition.
WouldGrant(a) ==
    /\ term[a.voter] < a.term
    /\ commitIdx[a.voter] <= a.ci
    /\ a.staged # None \/ staged[a.voter] = None

GrantVoteFollows(a) ==   \* mutant: decide_vote sets self.leader
    /\ a.ph = "ask" /\ WouldGrant(a)
    /\ term' = [term EXCEPT ![a.voter] = a.term]
    /\ leader' = [leader EXCEPT ![a.voter] = a.cand]
    /\ asks' = (asks \ {a}) \cup {[a EXCEPT !.ph = "yes"]}
    /\ ballots' = ballots \cup {<<a.voter, a.term, a.cand>>}
    /\ UNCHANGED <<status, voteCount, timer, store, locked, beats, puts,
                   spreads, reply, restarts>>

\* /vote_req answers yes: the voter moves to the term and keeps its status.
GrantVote(a) ==
    /\ a.ph = "ask" /\ WouldGrant(a)
    /\ term' = [term EXCEPT ![a.voter] = a.term]
    /\ asks' = (asks \ {a}) \cup {[a EXCEPT !.ph = "yes"]}
    /\ ballots' = ballots \cup {<<a.voter, a.term, a.cand>>}
    /\ UNCHANGED <<status, voteCount, leader, timer, store, locked, beats, puts,
                   spreads, reply, restarts>>

\* It answers no with its own term.  Only a term newer than the candidate's
\* has an effect; on any other no the thread just returns.
DeclineVote(a) ==
    /\ a.ph = "ask" /\ ~WouldGrant(a)
    /\ asks' = (asks \ {a}) \cup
               (IF term[a.voter] > term[a.cand]
                THEN {[a EXCEPT !.ph = "no", !.rterm = term[a.voter]]} ELSE {})
    /\ UNCHANGED <<election, store, locked, beats, puts, spreads, reply, ballots, restarts>>

\* ask_for_vote's loop condition: is this election still on?
Asking(a) == status[a.cand] = "CANDIDATE" /\ term[a.cand] = a.term

\* The answer is lost or late, utils.send returns None: ask_for_vote asks
\* again as long as this election is on, and else returns.  (A request that
\* is lost stays "ask": it may be sent again, and need never be answered.)
AnswerLost(a) ==
    /\ a.ph \in {"yes", "no"}
    /\ asks' = (asks \ {a}) \cup
               (IF Asking(a) THEN {[a EXCEPT !.ph = "ask", !.rterm = 0]} ELSE {})
    /\ UNCHANGED <<election, store, locked, beats, puts, spreads, reply, ballots, restarts>>

\* ask_for_vote receives a yes: the status is tested again, the term is not.
CountsVote(a) == a.ph = "yes" /\ status[a.cand] = "CANDIDATE"

CountVote(a) ==
    /\ CountsVote(a) /\ voteCount[a.cand] + 1 < Majority
    /\ voteCount' = [voteCount EXCEPT ![a.cand] = @ + 1]
    /\ asks' = asks \ {a}
    /\ UNCHANGED <<term, status, leader, timer, store, locked, beats, puts, spreads,
                   reply, ballots, restarts>>

\* The threads startHeartBeat spawns; a non-empty log makes them begin with
\* update_follower_commitIdx.
NewBeats(n) ==
    [from : {n}, to : Fellow(n), term : {term[n]},
     ph : {IF log[n] = <<>> THEN "loop" ELSE "first"}, rep : {0}]

StartHeartBeatAlwaysPuts(n) ==   \* mutant: "if self.staged" is dropped
    /\ puts' = puts \cup {[node |-> n, payload |-> staged[n], born |-> term[n],
                           ph |-> "lock", ok |-> {}]}
    /\ UNCHANGED beats

\* A staged payload is put anew before any heartbeat is sent.
StartHeartBeat(n) ==
    IF staged[n] = None
    THEN beats' = beats \cup NewBeats(n) /\ UNCHANGED puts
    ELSE /\ puts' = puts \cup {[node |-> n, payload |-> staged[n], born |-> term[n],
                                ph |-> "lock", ok |-> {}]}
         /\ UNCHANGED beats

WinElection(a) ==
    /\ CountsVote(a) /\ voteCount[a.cand] + 1 >= Majority
    /\ voteCount' = [voteCount EXCEPT ![a.cand] = @ + 1]
    /\ status' = [status EXCEPT ![a.cand] = "LEADER"]
    /\ asks' = asks \ {a}
    /\ StartHeartBeat(a.cand)
    /\ UNCHANGED <<term, leader, timer, store, locked, spreads, reply, ballots, restarts>>

\* ask_for_vote receives a no: a term newer than its own makes the node a
\* follower, with no init_timeout.
VoteDeclined(a) ==
    /\ a.ph = "no"
    /\ asks' = asks \ {a}
    /\ term' = [term EXCEPT ![a.cand] = IF a.rterm > @ THEN a.rterm ELSE @]
    /\ status' = [status EXCEPT ![a.cand] =
                    IF a.rterm > term[a.cand] THEN "FOLLOWER" ELSE @]
    /\ UNCHANGED <<voteCount, leader, timer, store, locked, beats, puts, spreads, reply,
                   ballots, restarts>>

-----------------------------------------------------------------------------
(* Handling a message of the leader: /heartbeat, heartbeat_follower. *)

\* A message is [from, term, action, payload, ci]; the beat of a leader has
\* the action "beat", and ci is -1 in a message without "commitIdx".
AcceptsAll(f, m) == TRUE   \* mutant: heartbeat_follower compares no terms

Accepts(f, m) == term[f] <= m.term

CommitsOnLog(f, m) ==   \* mutant: the action is not looked at
    Accepts(f, m) /\ commitIdx[f] <= m.ci

Stages(f, m) == Accepts(f, m) /\ m.action = "log"
Commits(f, m) == Accepts(f, m) /\ m.action = "commit" /\ commitIdx[f] <= m.ci

\* self.commit() of node n with e staged.  With nothing staged it raises
\* after the log has grown.  (DB is the last value per key of the log.)
Commit(n, e) ==
    /\ commitIdx' = [commitIdx EXCEPT ![n] = @ + 1]
    /\ log' = [log EXCEPT ![n] = Append(@, e)]
    /\ staged' = [staged EXCEPT ![n] = None]

FollowerStore(f, m) ==
    \/ /\ Stages(f, m)
       /\ staged' = [staged EXCEPT ![f] = m.payload]
       /\ UNCHANGED <<commitIdx, log>>
    \/ /\ Commits(f, m)
       /\ Commit(f, IF staged[f] = None THEN m.payload ELSE staged[f])
    \/ /\ ~Stages(f, m) /\ ~Commits(f, m)
       /\ UNCHANGED store

NewTerm(f, m) == IF Accepts(f, m) THEN m.term ELSE term[f]

HeartbeatFollower(f, m) ==
    /\ term' = [term EXCEPT ![f] = NewTerm(f, m)]
    /\ leader' = [leader EXCEPT ![f] = IF Accepts(f, m) THEN m.from ELSE @]
    /\ status' = [status EXCEPT ![f] = IF Accepts(f, m) THEN "FOLLOWER" ELSE @]
    /\ timer' = [timer EXCEPT ![f] = @ \/ (Accepts(f, m) /\ status[f] = "LEADER")]
    /\ FollowerStore(f, m)

-----------------------------------------------------------------------------
(* send_heartbeat. *)

BeatMsg(b) == [from |-> b.from, term |-> b.term, action |-> "beat",
               payload |-> None, ci |-> -1]

\* second_message has no "commitIdx", so its payload log[-1] is never read.
CatchUpMsg(b) == [BeatMsg(b) EXCEPT !.action = "commit"]

SameBeats == UNCHANGED <<voteCount, locked, asks, puts, spreads, reply, ballots, restarts>>

\* The loop of send_heartbeat is entered: its message is built once.
Looping(b) == [b EXCEPT !.ph = "loop", !.term = term[b.from], !.rep = 0]

\* update_follower_commitIdx sends first_message; its answer comes back.
SendFirst(b) ==
    /\ b.ph = "first"
    /\ HeartbeatFollower(b.to, BeatMsg(b))
    /\ beats' = (beats \ {b}) \cup {[b EXCEPT !.ph = "second", !.rep = commitIdx[b.to]]}
    /\ SameBeats

\* The follower is behind: second_message is sent, its answer not looked at.
SendSecond(b) ==
    /\ b.ph = "second" /\ b.rep < commitIdx[b.from]
    /\ HeartbeatFollower(b.to, CatchUpMsg(b))
    /\ beats' = (beats \ {b}) \cup {Looping(b)}
    /\ SameBeats

\* The follower is not behind, or one of the two calls failed.
SyncEnds(b) ==
    /\ b.ph \in {"first", "second"}
    /\ beats' = (beats \ {b}) \cup {Looping(b)}
    /\ SameBeats /\ UNCHANGED <<term, status, leader, timer, store>>

\* The heartbeat is delivered.  Only an answer with a newer term than the
\* leader's has an effect; any other is dropped at once.
SendBeat(b) ==
    /\ b.ph = "loop" /\ status[b.from] = "LEADER"
    /\ HeartbeatFollower(b.to, BeatMsg(b))
    /\ beats' = IF NewTerm(b.to, BeatMsg(b)) > term[b.from]
                THEN (beats \ {b}) \cup {[b EXCEPT !.ph = "reply", !.rep = term[b.to]]}
                ELSE beats
    /\ SameBeats

\* heartbeat_reply_handler: a newer term makes the leader step down.
BeatReply(b) ==
    /\ b.ph = "reply"
    /\ LET newer == b.rep > term[b.from] IN
         /\ term' = [term EXCEPT ![b.from] = IF newer THEN b.rep ELSE @]
         /\ status' = [status EXCEPT ![b.from] = IF newer THEN "FOLLOWER" ELSE @]
         /\ timer' = [timer EXCEPT ![b.from] = @ \/ newer]
    /\ beats' = (beats \ {b}) \cup {[b EXCEPT !.ph = "loop", !.rep = 0]}
    /\ UNCHANGED <<leader, store>> /\ SameBeats

BeatReplyLost(b) ==
    /\ b.ph = "reply"
    /\ beats' = (beats \ {b}) \cup {[b EXCEPT !.ph = "loop", !.rep = 0]}
    /\ SameBeats /\ UNCHANGED <<term, status, leader, timer, store>>

BeatEnds(b) ==
    /\ b.ph = "loop" /\ status[b.from] # "LEADER"
    /\ beats' = beats \ {b}
    /\ SameBeats /\ UNCHANGED <<term, status, leader, timer, store>>

-----------------------------------------------------------------------------
(* Writes: PUT /request, handle_put and spread_update. *)

\* value_put of a node that is the leader (a follower answers with its
\* self.leader, a candidate fails: neither changes anything).
ClientPut(n, p) ==
    /\ reply[p] = "new" /\ status[n] = "LEADER"
    /\ reply' = [reply EXCEPT ![p] = "open"]
    /\ puts' = puts \cup {[node |-> n, payload |-> p, born |-> 0, ph |-> "lock", ok |-> {}]}
    /\ UNCHANGED <<election, store, locked, asks, beats, spreads, ballots, restarts>>

\* What handle_put's caller does with the answer: startHeartBeat ignores it
\* and goes on to spawn the heartbeats.
Answer(q, code) ==
    IF q.born = 0
    THEN reply' = [reply EXCEPT ![q.payload] = code] /\ UNCHANGED beats
    ELSE beats' = beats \cup NewBeats(q.node)' /\ UNCHANGED reply

NewSpreadLate(q, action) ==   \* mutant: the message is built after commit()
    [from |-> q.node, term |-> term[q.node], action |-> action, payload |-> q.payload,
     ci |-> commitIdx[q.node] + 1, born |-> q.born, todo |-> Fellow(q.node)]

NewSpread(q, action) ==
    [from |-> q.node, term |-> term[q.node], action |-> action, payload |-> q.payload,
     ci |-> commitIdx[q.node], born |-> q.born, todo |-> Fellow(q.node)]

NoLock(n) == TRUE   \* mutant: handle_put does not take the lock

LockFree(n) == ~locked[n]

\* The lock is got: the payload is staged and the "log" message spread.
PutStart(q) ==
    /\ q.ph = "lock" /\ LockFree(q.node)
    /\ locked' = [locked EXCEPT ![q.node] = TRUE]
    /\ staged' = [staged EXCEPT ![q.node] = q.payload]
    /\ puts' = (puts \ {q}) \cup {[q EXCEPT !.ph = "wait"]}
    /\ spreads' = spreads \cup {NewSpread(q, "log")}
    /\ UNCHANGED <<election, commitIdx, log, asks, beats, reply, ballots, restarts>>

Confirmed(q) == Cardinality(q.ok) + 1 >= Majority

\* A majority confirmed: what is staged NOW is committed, the status is not
\* looked at.  The thread that spreads the commit releases the lock.
PutCommit(q) ==
    /\ q.ph = "wait" /\ Confirmed(q)
    /\ staged[q.node] # None
    /\ Commit(q.node, staged[q.node])
    /\ puts' = puts \ {q}
    /\ spreads' = spreads \cup {NewSpread(q, "commit")}
    /\ UNCHANGED <<election, locked, asks, ballots, restarts>>
    /\ Answer(q, "ok")

\* Nothing is staged any more: commit() raises a TypeError after the log has
\* grown; nobody spreads the commit, releases the lock or sends heartbeats.
PutRaises(q) ==
    /\ q.ph = "wait" /\ Confirmed(q)
    /\ staged[q.node] = None
    /\ Commit(q.node, None)
    /\ puts' = puts \ {q}
    /\ reply' = IF q.born = 0 THEN [reply EXCEPT ![q.payload] = "fail"] ELSE reply
    /\ UNCHANGED <<election, locked, asks, beats, spreads, ballots, restarts>>

\* MAX_LOG_WAIT has passed: the lock is released, the payload stays staged.
PutRejected(q) ==
    /\ q.ph = "wait" /\ ~Confirmed(q)
    /\ locked' = [locked EXCEPT ![q.node] = FALSE]
    /\ puts' = puts \ {q}
    /\ UNCHANGED <<election, store, asks, spreads, ballots, restarts>>
    /\ Answer(q, "fail")

\* One call of spread_update is over.  Whoever got the message, only an
\* answer in time counts, and any answer counts as a confirmation.
Confirms(s, f) ==
    {IF /\ q.node = s.from /\ q.payload = s.payload /\ q.born = s.born
        /\ q.ph = "wait" /\ s.action = "log"
     THEN [q EXCEPT !.ok = @ \cup {f}] ELSE q : q \in puts}

SpreadMsg(s) == [from |-> s.from, term |-> s.term, action |-> s.action,
                 payload |-> s.payload, ci |-> s.ci]

NeverReleases(s, f) == FALSE   \* mutant: "if lock: lock.release()" is dropped

\* The commit thread, given the lock, releases it after its last call.
Releases(s, f) == s.action = "commit" /\ s.todo = {f}

SpreadNext(s, f) ==
    /\ spreads' = (spreads \ {s}) \cup
                  (IF s.todo = {f} THEN {} ELSE {[s EXCEPT !.todo = @ \ {f}]})
    /\ locked' = [locked EXCEPT ![s.from] =
                    @ /\ ~Releases(s, f)]
    /\ UNCHANGED <<voteCount, asks, beats, reply, ballots, restarts>>

SpreadDelivered(s, f) ==
    /\ f \in s.todo
    /\ HeartbeatFollower(f, SpreadMsg(s))
    /\ puts' \in {puts, Confirms(s, f)}
    /\ SpreadNext(s, f)

SpreadLost(s, f) ==
    /\ f \in s.todo
    /\ SpreadNext(s, f)
    /\ UNCHANGED <<term, status, leader, timer, store, puts>>

-----------------------------------------------------------------------------
(* A process that dies and is started again: nothing is persistent. *)

Restart(n) ==
    /\ restarts < MaxRestarts
    /\ restarts' = restarts + 1
    /\ term' = [term EXCEPT ![n] = 0]
    /\ status' = [status EXCEPT ![n] = "FOLLOWER"]
    /\ voteCount' = [voteCount EXCEPT ![n] = 0]
    /\ leader' = [leader EXCEPT ![n] = None]
    /\ timer' = [timer EXCEPT ![n] = TRUE]
    /\ commitIdx' = [commitIdx EXCEPT ![n] = 0]
    /\ log' = [log EXCEPT ![n] = <<>>]
    /\ staged' = [staged EXCEPT ![n] = None]
    /\ locked' = [locked EXCEPT ![n] = FALSE]
    /\ asks' = {a \in asks : a.cand # n}
    /\ beats' = {b \in beats : b.from # n}
    /\ puts' = {q \in puts : q.node # n}
    /\ spreads' = {s \in spreads : s.from # n}
    /\ reply' = [p \in Payload |->
                   IF \E q \in puts : q.node = n /\ q.born = 0 /\ q.payload = p
                   THEN "fail" ELSE reply[p]]
    /\ UNCHANGED ballots

-----------------------------------------------------------------------------
ElectionNext ==
    \/ \E n \in Node : StartElection(n) \/ TimerEnds(n)
    \/ \E a \in asks : GrantVote(a) \/ DeclineVote(a) \/ AnswerLost(a)
                       \/ CountVote(a) \/ WinElection(a) \/ VoteDeclined(a)

BeatNext ==
    \E b \in beats : SendFirst(b) \/ SendSecond(b) \/ SyncEnds(b) \/ SendBeat(b)
                     \/ BeatReply(b) \/ BeatReplyLost(b) \/ BeatEnds(b)

PutStep(q) == PutStart(q) \/ PutCommit(q) \/ PutRaises(q) \/ PutRejected(q)
SpreadStep(s) == \E f \in Node : SpreadDelivered(s, f) \/ SpreadLost(s, f)

PutNext ==
    \/ \E n \in Node, p \in Payload : ClientPut(n, p)
    \/ \E q \in puts : PutStep(q)
    \/ \E s \in spreads : SpreadStep(s)

Next == ElectionNext \/ BeatNext \/ PutNext
Crash == \E n \in Node : Restart(n)

\* Nodes that stay up, and nodes that may crash and come back empty.
Spec == Init /\ [][Next]_vars
CrashSpec == Init /\ [][Next \/ Crash]_vars

\* Threads are scheduled, and every call they wait for times out (50 ms); no
\* message has to arrive and no node has to start an election.
Fairness ==
    \A n \in Node, p \in Payload :
        /\ WF_vars(\E q \in puts : q.node = n /\ q.payload = p /\ PutStep(q))
        /\ WF_vars(\E s \in spreads : s.from = n /\ s.payload = p /\ SpreadStep(s))

FairSpec == Spec /\ Fairness

-----------------------------------------------------------------------------
(* What holds. *)

\* README.md of Distributed_KV: "Each server vote once per term".  Holds for
\* a node that stays up, its own vote as a candidate included.
VoteOnce ==
    \A x, y \in ballots : x[1] = y[1] /\ x[2] = y[2] => x = y

Voters(t, c) == {v \in Node : <<v, t, c>> \in ballots}
IsMajority(S) == 2 * Cardinality(S) > Cardinality(Node)

\* Two candidates are never both voted for by a majority in one term.
OneMajorityPerTerm ==
    \A t \in {b[2] : b \in ballots} : \A c, d \in Node :
        IsMajority(Voters(t, c)) /\ IsMajority(Voters(t, d)) => c = d

\* No handler ever moves a node back to an earlier term.
TermNeverDecreases == [][\A n \in Node : term[n] <= term'[n]]_vars

\* timeout_loop outlives the candidacy it started, so that a split vote ends
\* in a new election ("the term expires to yield another round").
CandidateHasTimer == \A n \in Node : status[n] = "CANDIDATE" => timer[n]

\* The lock serializes a node's writes from the staging of one to the last
\* commit message of it: no two of them are between acquire and release.
Waiting(n) == {q \in puts : q.node = n /\ q.ph = "wait"}
Committing(n) == {s \in spreads : s.from = n /\ s.action = "commit"}

OneWriter ==
    \A n \in Node :
        /\ \A x, y \in Waiting(n) : x = y
        /\ \A x, y \in Committing(n) : x = y
        /\ Waiting(n) = {} \/ Committing(n) = {}
        /\ Waiting(n) \cup Committing(n) # {} => locked[n]

\* A commit message always comes from a node whose log is beyond its index.
CommitSentAfterCommit ==
    \A s \in spreads : s.action = "commit" => s.ci < commitIdx[s.from]

\* A log position that no node has filled yet is filled by a handle_put that
\* a majority has confirmed, never by a follower running ahead.
NewIndexByMajority ==
    [][\A n \in Node :
         (\A m \in Node : commitIdx'[n] > commitIdx[m]) =>
            \E q \in puts \ puts' : q.node = n /\ q.ph = "wait" /\ Confirmed(q)]_vars

\* As long as one node has ever won an election (MaxTerm = 1), its log and
\* its clients' answers are those of a WriteLog: it promises handle_put's
\* callers what they rely on, and answers each of them in the end.
LeaderLog ==
    IF \E n \in Node : status[n] = "LEADER"
    THEN log[CHOOSE n \in Node : status[n] = "LEADER"] ELSE <<>>

Promise == INSTANCE WriteLog WITH committed <- LeaderLog

KeepsPromise == Promise!Spec

\* The nodes that are leaders, or whose threads still send as one.
Sending ==
    {n \in Node : status[n] = "LEADER"} \cup {b.from : b \in beats}
        \cup {q.node : q \in puts} \cup {s.from : s \in spreads}

Group == INSTANCE KVGroup WITH sending <- Sending

\* A client is redirected only to a node that has won an election: nobody
\* follows one of whose victory it has not heard, crashes included.
LeadersWereElected == Group!GroupSpec

-----------------------------------------------------------------------------
(* What the documents say and the code does not do. *)

\* README.md of Distributed_KV: "there is one and only one elected leader
\* node"; the comment of heartbeat_follower calls two in a term "weird".
OneLeaderPerTerm ==
    \A n, m \in Node :
        status[n] = "LEADER" /\ status[m] = "LEADER" /\ term[n] = term[m] => n = m

\* README.md of Distributed_KV: "maintaining a consensus among all
\* replications": committed logs agree where both have an entry.
CommittedLogsAgree ==
    \A n, m \in Node : \A i \in DOMAIN log[n] \cap DOMAIN log[m] : log[n][i] = log[m][i]

=============================================================================
